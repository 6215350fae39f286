-------------------------- MODULE DeploymentProofs ------------------------
(***************************************************************************)
(* Deployment implements InviteService, for any number of replicas: what   *)
(* InviteServiceProofs and InvitePromiseProofs show of the service holds   *)
(* through all starts, failures to start, shutdowns and kills of its       *)
(* processes.  And each process goes through its life as ServerProcess     *)
(* says, whatever its handlers do.                                         *)
(***************************************************************************)
EXTENDS Deployment, InviteProgressProofs, ServerProcessProofs

-----------------------------------------------------------------------------

(* The handlers of a process that ends take a step of Crash, or none.      *)
LEMMA AbandonStep ==
    ASSUME NEW r \in Replica, Abandon(r)
    PROVE  [Next]_vars
  BY DEF Abandon, Next

(* Each step of a deployment is a step of the service, or none of its.     *)
LEMMA DeployStep == [DeployNext]_deployVars => [Next]_vars
  <1> SUFFICES ASSUME [DeployNext]_deployVars
               PROVE  [Next]_vars
    OBVIOUS
  <1>1. ASSUME NEW r \in Replica, TakeRequest(r)
        PROVE  Next
    BY <1>1 DEF TakeRequest, Next, SendNext
  <1>2. ASSUME NEW r \in Replica, TakeEvent(r)
        PROVE  Next
    BY <1>2 DEF TakeEvent, Next
  <1>3. ASSUME NEW r \in Replica, SendWorks(r)
        PROVE  Next
    BY <1>3 DEF SendWorks, SendOffline, Next, SendNext
  <1>4. ASSUME NEW r \in Replica, AcceptWorks(r)
        PROVE  Next
    BY <1>4 DEF AcceptWorks, AcceptOffline, Next
  <1>5. CASE Around
    BY <1>5 DEF Around, Next, SendNext
  <1>6. CASE UNCHANGED deployVars
    BY <1>6 DEF deployVars
  <1> QED
    BY <1>1, <1>2, <1>3, <1>4, <1>5, <1>6, AbandonStep DEF DeployNext

(* What a handler does is nothing to its process.                          *)
LEMMA ProcessOfDeployStep == [DeployNext]_deployVars => [ProcessNext]_processVars
  <1> SUFFICES ASSUME [DeployNext]_deployVars
               PROVE  [ProcessNext]_processVars
    OBVIOUS
  <1>1. ASSUME NEW r \in Replica,
               TakeRequest(r) \/ TakeEvent(r) \/ SendWorks(r) \/ AcceptWorks(r)
        PROVE  UNCHANGED processVars
    BY <1>1 DEF TakeRequest, TakeEvent, SendWorks, AcceptWorks
  <1>2. ASSUME NEW r \in Replica,
               Launch(r) \/ Proceed(r) \/ Signal(r) \/ Connection(r) \/ Exit(r) \/ Kill(r)
        PROVE  ProcessNext
    BY <1>2, DeploymentAssumption DEF ProcessNext, Run
  <1>3. CASE Around \/ UNCHANGED deployVars
    BY <1>3 DEF Around, deployVars
  <1> QED
    BY <1>1, <1>2, <1>3 DEF DeployNext

-----------------------------------------------------------------------------
(* Theorems                                                                *)

(* Starting and stopping processes adds nothing to what the service does.  *)
THEOREM DeploymentImplementsService == DeploySpec => ServiceSpec
  <1>1. DeployInit => Init
    BY DEF DeployInit
  <1> QED
    BY <1>1, DeployStep, PTL DEF DeploySpec, ServiceSpec, Spec

(* So no sequence of deployments announces an invite twice, brings one     *)
(* back or changes who has accepted it, or breaks what keeps it so.        *)
THEOREM DeploymentKeepsInv ==
    DeploySpec => /\ []Inv /\ []ServiceInv
                  /\ []AtMostOneAnnouncement /\ WithdrawnStaysGone /\ FirstAcceptanceWins
  BY DeploymentImplementsService, Invariance, ServiceInvariance, SingleAnnouncement,
     WithdrawalIsFinal, FirstAcceptanceIsKept, PTL DEF ServiceSpec

(* Nor does one break a promise of the service: no e-mail without a        *)
(* tracked invite, no "ok" without a durable one, no acceptance without    *)
(* its evidence.                                                           *)
THEOREM DeploymentKeepsPromises ==
    DeploySpec => [](FailClosedPersist /\ SuccessIsDurable /\ AcceptedWithEvidence)
  BY DeploymentImplementsService, NeverUntracked, SuccessIsKept, AcceptanceIsEarned, PTL
     DEF ServiceSpec

(* Where reads are current, the ledger is kept through any sequence of     *)
(* deployments: an invite is stored once, accepted once, by one user,      *)
(* withdrawn for good and announced once, as port.InviteStore              *)
(* (invite_store.go) and HandleInviteAccepted (acceptance.go) promise.     *)
THEOREM DeploymentImplementsLedger ==
    ASSUME ~StaleReads
    PROVE  DeploySpec => LedgerSpec
  <1>1. Spec => LedgerSpec
    BY ImplementsLedger
  <1> QED
    BY <1>1, DeploymentImplementsService, PTL DEF ServiceSpec

(* A handler goes through its calls one by one also when its connection    *)
(* is drained and closed under it: the calls that fail then leave it fewer *)
(* to make, those of the rollback included (notification.go:178-188).      *)
THEOREM DeploymentKeepsAdvancing == DeploySpec => HandlersAdvance
  BY DeploymentImplementsService, EveryCallCounts, PTL DEF ServiceSpec

(* Each process of a deployment keeps what is shown of processes alone:    *)
(* all subscriptions or none, nothing left behind, last acquired first     *)
(* released, and no more turns to a start or a stop than are counted.      *)
THEOREM DeploymentKeepsProcesses ==
    DeploySpec => /\ []ProcessInv /\ []AllOrNothing
                  /\ NothingLeaks /\ TeardownInOrder /\ ProcessesAdvance
  <1>1. DeployInit => ProcessInit
    BY DEF DeployInit
  <1>2. DeploySpec => ProcessSpec
    BY <1>1, ProcessOfDeployStep, PTL DEF DeploySpec, ProcessSpec
  <1> QED
    BY <1>2, ProcessInvariance, SubscriptionsAreAllOrNothing, ProcessesLeakNothing,
       TeardownIsOrdered, StartsAndStopsAreShort, PTL

(* What a process holds of subscriptions grows until the process is gone.  *)
LEMMA HeldGrows ==
    ASSUME ProcessInv, NEW p \in Process,
           Launch(p) \/ Proceed(p) \/ Signal(p) \/ Connection(p)
    PROVE  \A r \in Process : held[r] \in Nat /\ held'[r] \in Nat /\ held[r] <= held'[r]
  <1>1. \A r \in Process : held[r] \in Nat
    BY DEF ProcessInv, ProcessTypeOK
  <1>2. CASE Subscribe(p)
    <2>1. next[p] \in Subject /\ held[p] = next[p] - 1
      BY <1>2 DEF Subscribe, ProcessInv, StageInv
    <2>2. held \in [Process -> 0..4]
      BY DEF ProcessInv, ProcessTypeOK
    <2>3. UNCHANGED held \/ held' = [held EXCEPT ![p] = next[p]]
      BY <1>2 DEF Subscribe
    <2> QED
      BY <1>1, <2>1, <2>2, <2>3 DEF Subject
  <1>3. CASE ~Subscribe(p)
    <2>1. UNCHANGED held
      BY <1>3 DEF Launch, Proceed, StartProvider, Configure, Bind, Stop, Close, Flush, Signal,
                  Connection, ConnGoes
    <2> QED
      BY <1>1, <2>1
  <1> QED
    BY <1>2, <1>3

(* A live subscription is one of those that are held.                      *)
LEMMA LiveIsHeld ==
    ASSUME ProcessInv, NEW p \in Process, NEW i \in Subject, i \in subs[p]
    PROVE  held[p] >= i
  <1>1. stage[p] \in {"start", "ready", "stop"} /\ held[p] \in 0..4
    BY DEF ProcessInv, ProcessTypeOK, StageInv, Stage
  <1>2. CASE stage[p] = "start"
    BY <1>1, <1>2 DEF ProcessInv, StageInv, Subject
  <1>3. CASE stage[p] = "ready"
    BY <1>1, <1>3 DEF ProcessInv, StageInv, Subject
  <1>4. CASE stage[p] = "stop"
    BY <1>1, <1>4 DEF ProcessInv, StageInv, Subject
  <1> QED
    BY <1>1, <1>2, <1>3, <1>4

(* The handlers of r are the only ones that a step of r sets to work.      *)
LEMMA OthersIdle ==
    ASSUME TypeOK, NEW r \in Replica, NEW q \in Replica, q # r
    PROVE  /\ TakeRequest(r) \/ SendWorks(r) => sendPc'[q] = sendPc[q]
           /\ TakeEvent(r) \/ AcceptWorks(r) => acceptPc'[q] = acceptPc[q]
  <1>1. sendPc \in [Replica -> SendPC] /\ acceptPc \in [Replica -> AcceptPC]
    BY DEF TypeOK, SendTypeOK, AcceptTypeOK
  <1>2. TakeRequest(r) \/ SendWorks(r) => sendPc'[q] = sendPc[q]
    <2>1. ASSUME TakeRequest(r) PROVE sendPc'[q] = sendPc[q]
      BY <1>1, <2>1 DEF TakeRequest, Reject, Issue, Answer
    <2>2. ASSUME SendStep(r) PROVE sendPc'[q] = sendPc[q]
      BY <1>1, <2>2 DEF SendStep, PutRecord, PutIndex, UndoRecord, RequestEmail, AwaitEmail,
                        FindRecord, RemoveRecord, RemoveIndex, Reply, Goto, Answer
    <2> QED
      BY <2>1, <2>2 DEF SendWorks, SendOffline
  <1>3. TakeEvent(r) \/ AcceptWorks(r) => acceptPc'[q] = acceptPc[q]
    <2>1. ASSUME TakeEvent(r) PROVE acceptPc'[q] = acceptPc[q]
      BY <1>1, <2>1 DEF TakeEvent, Receive, ReceiveEvent, AcceptGoto
    <2>2. ASSUME AcceptStep(r) PROVE acceptPc'[q] = acceptPc[q]
      BY <1>1, <2>2 DEF AcceptStep, Load, MarkGet, MarkUpdate, Conflict, Enrich, Publish,
                       Return, AcceptGoto
    <2> QED
      BY <2>1, <2>2 DEF AcceptWorks, AcceptOffline
  <1> QED
    BY <1>2, <1>3

(* A handler is set to work by a live subscription, goes on in the process *)
(* that holds it, and is gone with that process.                           *)
LEMMA DeployStepOwned ==
    ASSUME TypeOK, ProcessInv, HandlersAreOwned, [DeployNext]_deployVars
    PROVE  HandlersAreOwned'
  <1>0. /\ Process = Replica
        /\ held \in [Replica -> 0..4]
        /\ sendPc \in [Replica -> SendPC] /\ acceptPc \in [Replica -> AcceptPC]
    BY DeploymentAssumption DEF ProcessInv, ProcessTypeOK, TypeOK, SendTypeOK, AcceptTypeOK
  <1>1. ASSUME NEW r \in Replica, TakeRequest(r)
        PROVE  HandlersAreOwned'
    <2>1. held[r] >= 1
      BY <1>0, <1>1, LiveIsHeld DEF TakeRequest, Delivers, Subject
    <2>2. UNCHANGED <<acceptPc, held>> /\ \A q \in Replica : q # r => sendPc'[q] = sendPc[q]
      BY <1>1, OthersIdle DEF TakeRequest, acceptVars, workerVars, processVars
    <2> QED
      BY <2>1, <2>2 DEF HandlersAreOwned
  <1>2. ASSUME NEW r \in Replica, TakeEvent(r)
        PROVE  HandlersAreOwned'
    <2>1. held[r] >= 2
      BY <1>0, <1>2, LiveIsHeld DEF TakeEvent, Delivers, Subject
    <2>2. UNCHANGED <<sendPc, held>> /\ \A q \in Replica : q # r => acceptPc'[q] = acceptPc[q]
      BY <1>2, OthersIdle DEF TakeEvent, sendVars, processVars
    <2> QED
      BY <2>1, <2>2 DEF HandlersAreOwned
  <1>3. ASSUME NEW r \in Replica, SendWorks(r)
        PROVE  HandlersAreOwned'
    <2>1. sendPc[r] # "idle"
      BY <1>3 DEF SendWorks, SendOffline, SendStep, PutRecord, PutIndex, UndoRecord,
                  RequestEmail, AwaitEmail, FindRecord, RemoveRecord, RemoveIndex, Reply
    <2>2. UNCHANGED <<acceptPc, held>> /\ \A q \in Replica : q # r => sendPc'[q] = sendPc[q]
      BY <1>3, OthersIdle DEF SendWorks, acceptVars, workerVars, processVars
    <2> QED
      BY <2>1, <2>2 DEF HandlersAreOwned
  <1>4. ASSUME NEW r \in Replica, AcceptWorks(r)
        PROVE  HandlersAreOwned'
    <2>1. acceptPc[r] # "idle"
      BY <1>4 DEF AcceptWorks, AcceptOffline, AcceptStep, Load, MarkGet, MarkUpdate, Enrich,
                  Publish
    <2>2. UNCHANGED <<sendPc, held>> /\ \A q \in Replica : q # r => acceptPc'[q] = acceptPc[q]
      BY <1>4, OthersIdle DEF AcceptWorks, sendVars, processVars
    <2> QED
      BY <2>1, <2>2 DEF HandlersAreOwned
  <1>5. ASSUME NEW r \in Replica, Launch(r) \/ Proceed(r) \/ Signal(r) \/ Connection(r),
               UNCHANGED vars
        PROVE  HandlersAreOwned'
    <2>1. \A q \in Replica : held[q] \in Nat /\ held'[q] \in Nat /\ held[q] <= held'[q]
      BY <1>0, <1>5, HeldGrows
    <2>2. UNCHANGED <<sendPc, acceptPc>>
      BY <1>5 DEF vars, sendVars, acceptVars, workerVars
    <2> QED
      BY <2>1, <2>2 DEF HandlersAreOwned
  <1>6. ASSUME NEW r \in Replica, Exit(r) \/ Kill(r), Abandon(r)
        PROVE  HandlersAreOwned'
    <2>1. \A q \in Replica : q # r => held'[q] = held[q]
      BY <1>0, <1>6 DEF Exit, Kill, Gone
    <2>2. \A q \in Replica : q # r => sendPc'[q] = sendPc[q] /\ acceptPc'[q] = acceptPc[q]
      BY <1>0, <1>6 DEF Abandon, Crash, SendCrash, Return, vars, sendVars, acceptVars,
                     workerVars
    <2>3. sendPc'[r] = "idle" /\ acceptPc'[r] = "idle"
      BY <1>0, <1>6 DEF Abandon, Crash, SendCrash, Return, vars, sendVars, acceptVars,
                     workerVars
    <2> QED
      BY <2>1, <2>2, <2>3 DEF HandlersAreOwned
  <1>7. CASE Around \/ UNCHANGED deployVars
    <2>1. UNCHANGED <<acceptPc, held, sendPc>>
      BY <1>7 DEF Around, EmailService, deployVars, vars, sendVars, handlerVars, acceptVars,
                     workerVars, processVars
    <2> QED
      BY <2>1 DEF HandlersAreOwned
  <1> QED
    BY <1>1, <1>2, <1>3, <1>4, <1>5, <1>6, <1>7 DEF DeployNext

(* No process touches an invite before it has subscribed, and none begins  *)
(* with a handler of an earlier one that is half way through its calls,    *)
(* for any number of processes and through any sequence of deployments     *)
(* (main.go:44-78, subscriptions.go:36-44).                                *)
THEOREM HandlersStayWithTheirProcess == DeploySpec => []DeployInv
  <1>1. DeployInit => HandlersAreOwned
    BY DEF DeployInit, Init, SendInit, AcceptInit, HandlersAreOwned
  <1>2. /\ TypeOK /\ ProcessInv /\ HandlersAreOwned /\ [DeployNext]_deployVars
        => HandlersAreOwned'
    BY DeployStepOwned
  <1>3. DeploySpec => []TypeOK
    BY DeploymentImplementsService, TypeCorrect, PTL DEF ServiceSpec
  <1> QED
    BY <1>1, <1>2, <1>3, DeploymentKeepsProcesses, PTL DEF DeploySpec, DeployInv
=============================================================================
