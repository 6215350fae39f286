------------------------ MODULE InviteProgressProofs ----------------------
(***************************************************************************)
(* What a handler gets done: each of its calls leaves it fewer to make,    *)
(* and, where no call fails and no process stops, an acceptance is stored  *)
(* only by a handler that goes on to announce it, and never stands without *)
(* one.  These are the safety halves of HandlersReturn and                 *)
(* AcceptanceAnnounced, for every number of replicas, invites and retries. *)
(***************************************************************************)
EXTENDS InvitePromiseProofs

-----------------------------------------------------------------------------
(* Each call leaves a handler fewer                                        *)

SendCalls ==
    \A r \in Replica :
        /\ sendPc[r] = "idle" => SendCallsLeft(r) = 0
        /\ sendPc[r] = "reply" => SendCallsLeft(r) = 1
        /\ sendPc[r] \in {"undoRecord", "deleteIndex"} => SendCallsLeft(r) = 2
        /\ sendPc[r] = "deleteRecord" => SendCallsLeft(r) = 3
        /\ sendPc[r] = "findRecord" => SendCallsLeft(r) = 4
        /\ sendPc[r] = "awaitEmail" => SendCallsLeft(r) = 5
        /\ sendPc[r] = "requestEmail" => SendCallsLeft(r) = 6
        /\ sendPc[r] = "putIndex" => SendCallsLeft(r) = 7
        /\ sendPc[r] = "putRecord" => SendCallsLeft(r) = 8

(* The calls that a handler of send_invite has left, by its next one.      *)
LEMMA SendCounted == SendCalls
BY DEF SendCalls, SendCallsLeft

AcceptCalls ==
    \A r \in Replica :
        /\ acceptPc[r] = "idle" => AcceptCallsLeft(r) = 0
        /\ acceptPc[r] = "publish" => AcceptCallsLeft(r) = 1
        /\ acceptPc[r] = "enrich" => AcceptCallsLeft(r) = 2
        /\ acceptPc[r] = "markUpdate" =>
              AcceptCallsLeft(r) = 2 * (MaxAttempts - attempt[r]) + 3
        /\ acceptPc[r] = "markGet" =>
              AcceptCallsLeft(r) = 2 * (MaxAttempts - attempt[r]) + 4
        /\ acceptPc[r] = "load" => AcceptCallsLeft(r) = 2 * MaxAttempts + 3

(* The calls that a handler of an acceptance has left, by its next one.    *)
LEMMA AcceptCounted == AcceptCalls
BY DEF AcceptCalls, AcceptCallsLeft

(* The handler of r either has not moved, or has fewer calls left.         *)
SendAdvances(r) ==
    sendPc[r] \notin {"idle", sendPc'[r]} => SendCallsLeft(r)' < SendCallsLeft(r)
AcceptAdvances(r) ==
    acceptPc[r] \notin {"idle", acceptPc'[r]} => AcceptCallsLeft(r)' < AcceptCallsLeft(r)

(* A call of a handler of send_invite leaves it fewer.                     *)
LEMMA SendStepAdvances ==
    ASSUME TypeOK, NEW r \in Replica, SendStep(r)
    PROVE  SendAdvances(r)
<1>0. sendPc \in [Replica -> SendPC]
  BY DEF TypeOK, SendTypeOK
<1>1. /\ sendPc[r] = "reply" => sendPc'[r] = "idle"
      /\ sendPc[r] \in {"undoRecord", "deleteIndex"} => sendPc'[r] = "reply"
      /\ sendPc[r] = "deleteRecord" => sendPc'[r] \in {"deleteIndex", "reply"}
      /\ sendPc[r] = "findRecord" => sendPc'[r] \in {"deleteRecord", "reply"}
      /\ sendPc[r] = "awaitEmail" => sendPc'[r] \in {"findRecord", "reply"}
      /\ sendPc[r] = "requestEmail" => sendPc'[r] \in {"awaitEmail", "findRecord"}
      /\ sendPc[r] = "putIndex" => sendPc'[r] \in {"requestEmail", "undoRecord", "reply"}
      /\ sendPc[r] = "putRecord" => sendPc'[r] \in {"putIndex", "reply"}
  <2>1. CASE PutRecord(r) \/ PutIndex(r) \/ UndoRecord(r)
    BY <1>0, <2>1 DEF PutRecord, PutIndex, UndoRecord, Goto, Answer
  <2>2. CASE RequestEmail(r) \/ AwaitEmail(r) \/ Reply(r)
    BY <1>0, <2>2 DEF RequestEmail, AwaitEmail, Reply, Goto, Answer
  <2>3. CASE FindRecord(r)
    BY <1>0, <2>3 DEF FindRecord, Goto, Answer
  <2>4. CASE RemoveRecord(r) \/ RemoveIndex(r)
    BY <1>0, <2>4 DEF RemoveRecord, RemoveIndex, Goto, Answer
  <2> QED
    BY <2>1, <2>2, <2>3, <2>4 DEF SendStep
<1>2. SendCalls /\ SendCalls'
  BY SendCounted, PTL
<1>3. sendPc[r] \in SendPC
  BY <1>0
<1> QED
  BY <1>1, <1>2, <1>3 DEF SendCalls, SendAdvances, SendPC

(* A call of a handler of an acceptance leaves it fewer.                   *)
LEMMA AcceptStepAdvances ==
    ASSUME TypeOK, NEW r \in Replica, AcceptStep(r)
    PROVE  AcceptAdvances(r)
<1> DEFINE left == MaxAttempts - attempt[r]
<1>0. /\ acceptPc \in [Replica -> AcceptPC] /\ attempt \in [Replica -> 0..MaxAttempts]
      /\ MaxAttempts \in Nat \ {0} /\ left \in Nat
  BY AcceptAssumption DEF TypeOK, AcceptTypeOK
<1>1. AcceptCalls /\ AcceptCalls'
  BY AcceptCounted, PTL
<1>2. ASSUME Return(r), acceptPc[r] # "idle" PROVE AcceptAdvances(r)
  <2>1. AcceptCallsLeft(r)' = 0
    BY <1>0, <1>1, <1>2 DEF Return, AcceptCalls
  <2>2. acceptPc[r] \in {"load", "markGet", "markUpdate", "enrich", "publish"}
    BY <1>0, <1>2 DEF AcceptPC
  <2>3. AcceptCallsLeft(r) > 0
    BY <1>0, <1>1, <2>2 DEF AcceptCalls
  <2> QED
    BY <2>1, <2>3 DEF AcceptAdvances
<1>3. CASE Load(r) /\ ~Return(r)
  <2>1. acceptPc[r] = "load" /\ acceptPc'[r] = "markGet" /\ attempt'[r] = 1
    BY <1>0, <1>3 DEF Load, AcceptGoto
  <2>2. /\ AcceptCallsLeft(r) = 2 * MaxAttempts + 3
        /\ AcceptCallsLeft(r)' = 2 * (MaxAttempts - 1) + 4
    BY <1>1, <2>1 DEF AcceptCalls
  <2> QED
    BY <1>0, <2>2 DEF AcceptAdvances
<1>4. CASE MarkGet(r) /\ ~Return(r)
  <2>1. acceptPc[r] = "markGet" /\ acceptPc'[r] = "markUpdate" /\ attempt'[r] = attempt[r]
    BY <1>0, <1>4 DEF MarkGet, AcceptGoto
  <2>2. AcceptCallsLeft(r) = 2 * left + 4 /\ AcceptCallsLeft(r)' = 2 * left + 3
    BY <1>1, <2>1 DEF AcceptCalls
  <2> QED
    BY <1>0, <2>2 DEF AcceptAdvances
<1>5. CASE MarkUpdate(r) /\ ~Return(r)
  <2>1. /\ acceptPc[r] = "markUpdate"
        /\ \/ acceptPc'[r] = "enrich"
           \/ /\ acceptPc'[r] = "markGet" /\ attempt[r] < MaxAttempts
              /\ attempt'[r] = attempt[r] + 1
    BY <1>0, <1>5 DEF MarkUpdate, Conflict, AcceptGoto
  <2>2. AcceptCallsLeft(r) = 2 * left + 3
    BY <1>1, <2>1 DEF AcceptCalls
  <2>3. \/ AcceptCallsLeft(r)' = 2
        \/ AcceptCallsLeft(r)' = 2 * (MaxAttempts - (attempt[r] + 1)) + 4
    BY <1>1, <2>1 DEF AcceptCalls
  <2>4. 2 < 2 * left + 3 /\ 2 * (MaxAttempts - (attempt[r] + 1)) + 4 < 2 * left + 3
    BY <1>0
  <2> QED
    BY <2>2, <2>3, <2>4 DEF AcceptAdvances
<1>6. CASE Enrich(r) /\ ~Return(r)
  <2>1. acceptPc[r] = "enrich" /\ acceptPc'[r] = "publish"
    BY <1>0, <1>6 DEF Enrich, AcceptGoto
  <2> QED
    BY <1>1, <2>1 DEF AcceptCalls, AcceptAdvances
<1>7. CASE Publish(r)
  BY <1>2, <1>7 DEF Publish
<1>8. AcceptStep(r) => acceptPc[r] # "idle"
  BY DEF AcceptStep, Load, MarkGet, MarkUpdate, Enrich, Publish
<1> QED
  BY <1>2, <1>3, <1>4, <1>5, <1>6, <1>7, <1>8 DEF AcceptStep

(* No step of anybody else leaves a handler more calls.                    *)
LEMMA NextAdvances ==
    ASSUME TypeOK, [Next]_vars, NEW r \in Replica
    PROVE  SendAdvances(r) /\ AcceptAdvances(r)
<1>0. sendPc \in [Replica -> SendPC] /\ acceptPc \in [Replica -> AcceptPC]
  BY DEF TypeOK, SendTypeOK, AcceptTypeOK
<1>1. ASSUME sendPc'[r] = sendPc[r] \/ sendPc[r] = "idle" PROVE SendAdvances(r)
  BY <1>1 DEF SendAdvances
<1>2. ASSUME acceptPc'[r] = acceptPc[r] \/ acceptPc[r] = "idle" PROVE AcceptAdvances(r)
  BY <1>2 DEF AcceptAdvances
<1>3. CASE SendNext /\ UNCHANGED acceptVars
  <2>1. AcceptAdvances(r)
    BY <1>2, <1>3 DEF acceptVars, workerVars
  <2>2. ASSUME NEW q \in Replica, SendStep(q), q # r PROVE sendPc'[r] = sendPc[r]
    BY <1>0, <2>2 DEF SendStep, PutRecord, PutIndex, UndoRecord, RequestEmail, AwaitEmail,
           FindRecord, RemoveRecord, RemoveIndex, Reply, Goto, Answer
  <2>3. ASSUME NEW q \in Replica, NEW c \in Code, Reject(q, c)
        PROVE  sendPc'[r] = sendPc[r] \/ sendPc[r] = "idle"
    BY <1>0, <2>3 DEF Reject, Answer
  <2>4. ASSUME NEW q \in Replica, NEW u \in UID, NEW e \in Email,
               NEW name \in User \cup {None}, NEW d \in RequestDays, Issue(q, u, e, name, d)
        PROVE  sendPc'[r] = sendPc[r] \/ sendPc[r] = "idle"
    BY <1>0, <2>4 DEF Issue
  <2>5. ASSUME NEW u \in UID, EmailService(u) PROVE sendPc'[r] = sendPc[r]
    BY <2>5 DEF EmailService, handlerVars
  <2> QED
    BY <1>1, <1>3, <2>1, <2>2, <2>3, <2>4, <2>5, SendStepAdvances DEF SendNext
<1>4. ASSUME NEW q \in Replica, Receive(q) \/ AcceptStep(q), UNCHANGED sendVars
      PROVE  SendAdvances(r) /\ AcceptAdvances(r)
  <2>1. SendAdvances(r)
    BY <1>1, <1>4 DEF sendVars
  <2>2. CASE q = r /\ AcceptStep(q)
    BY <2>2, AcceptStepAdvances, <2>1
  <2>3. CASE Receive(q)
    BY <1>0, <1>2, <2>1, <2>3 DEF Receive, ReceiveEvent, AcceptGoto
  <2>4. CASE q # r /\ AcceptStep(q)
    <3>1. acceptPc'[r] = acceptPc[r]
      BY <1>0, <2>4 DEF AcceptStep, Load, MarkGet, MarkUpdate, Enrich, Publish, Conflict,
             AcceptGoto, Return
    <3> QED
      BY <1>2, <2>1, <3>1
  <2> QED
    BY <1>4, <2>2, <2>3, <2>4
<1>5. ASSUME NEW q \in Replica, Crash(q)
      PROVE  SendAdvances(r) /\ AcceptAdvances(r)
  <2>1. CASE q # r
    <3>1. sendPc'[r] = sendPc[r] /\ acceptPc'[r] = acceptPc[r]
      BY <1>0, <1>5, <2>1 DEF Crash, SendCrash, Return
    <3> QED
      BY <1>1, <1>2, <3>1
  <2>2. CASE q = r
    <3>1. sendPc'[r] = "idle" /\ acceptPc'[r] = "idle"
      BY <1>0, <1>5, <2>2 DEF Crash, SendCrash, Return
    <3>2. SendCalls /\ SendCalls' /\ AcceptCalls /\ AcceptCalls'
      BY SendCounted, AcceptCounted, PTL
    <3>3. sendPc[r] \in SendPC /\ acceptPc[r] \in AcceptPC
      BY <1>0
    <3>4. SendAdvances(r)
      BY <3>1, <3>2, <3>3 DEF SendCalls, SendAdvances, SendPC
    <3>5. attempt[r] \in 0..MaxAttempts /\ MaxAttempts \in Nat
      BY AcceptAssumption DEF TypeOK, AcceptTypeOK
    <3>6. AcceptAdvances(r)
      BY <3>1, <3>2, <3>3, <3>5 DEF AcceptCalls, AcceptAdvances, AcceptPC
    <3> QED
      BY <3>4, <3>6
  <2> QED
    BY <2>1, <2>2
<1>6. CASE (ApplyLate \/ Tick) /\ UNCHANGED <<sendVars, acceptVars>>
  BY <1>1, <1>2, <1>6 DEF sendVars, acceptVars, workerVars
<1>7. CASE UNCHANGED vars
  BY <1>1, <1>2, <1>7 DEF vars, sendVars, acceptVars, workerVars
<1> QED
  BY <1>3, <1>4, <1>5, <1>6, <1>7 DEF Next

(* No handler goes round in circles, whatever the bucket, the e-mail       *)
(* service, late writes and the other handlers do, for every bound on the  *)
(* turns of MarkAccepted (invite_repository.go:157-208,                    *)
(* notification.go:148-210).                                               *)
THEOREM EveryCallCounts == Spec => HandlersAdvance
<1>1. TypeOK /\ [Next]_vars =>
        [\A r \in Replica :
            /\ sendPc[r] \notin {"idle", sendPc'[r]} => SendCallsLeft(r)' < SendCallsLeft(r)
            /\ acceptPc[r] \notin {"idle", acceptPc'[r]} =>
                  AcceptCallsLeft(r)' < AcceptCallsLeft(r)]_vars
  BY NextAdvances DEF SendAdvances, AcceptAdvances
<1> QED
  BY <1>1, TypeCorrect, PTL DEF Spec, HandlersAdvance

-----------------------------------------------------------------------------
(* Who stores an acceptance, when no call fails and no process stops       *)

(* No caller gives up, so no write is left on its way.                     *)
NothingLate == late = {}

(* Where nothing fails and nobody crashes, no write is late.               *)
LEMMA NextNothingLate ==
    ASSUME ~Faults, ~Crashes, NothingLate, [Next]_vars
    PROVE  NothingLate'
BY NextCalls DEF NothingLate, Acked, Refused, TimedOut, ApplyLate, Crash

(* So no write ever is.                                                    *)
LEMMA NothingLateEver ==
    ASSUME ~Faults, ~Crashes
    PROVE  Spec => []NothingLate
<1>1. Init => NothingLate
  BY DEF Init, BucketInit, NothingLate
<1>2. NothingLate /\ [Next]_vars => NothingLate'
  BY NextNothingLate
<1> QED
  BY <1>1, <1>2, PTL DEF Spec

(* A record becomes accepted by one more version, which is the second.     *)
LEMMA AcceptanceIsAppended ==
    ASSUME Inv, NEW u \in UID, LogStep(u),
           Accepted(u, Revision(u))', ~Accepted(u, Revision(u))
    PROVE  /\ Len(log[u]) = 1
           /\ \E v \in Record : v.status = "accepted" /\ log'[u] = Append(log[u], v)
<1>1. log[u] \in Seq(Version) /\ Tombstone \in Version
  BY DEF Inv, TypeOK, BucketTypeOK, Version
<1>2. log'[u][Len(log'[u])].status = "accepted"
  BY DEF Accepted, Revision
<1>3. log'[u] # log[u]
  BY DEF Accepted, Revision
<1>4. ASSUME NEW v \in Record, v.status = "pending", log'[u] = <<v>> PROVE FALSE
  BY <1>2, <1>4
<1>5. ASSUME log'[u] = Append(log[u], Tombstone) PROVE FALSE
  <2>1. log'[u][Len(log'[u])] = Tombstone
    BY <1>1, <1>5
  <2> QED
    BY <1>2, <2>1 DEF Tombstone
<1> QED
  BY <1>3, <1>4, <1>5 DEF LogStep, Acceptor

(* The one step that does so, when nothing is applied late, is the         *)
(* conditional write of MarkAccepted, and its handler hears of it.         *)
LEMMA AcceptingStep ==
    ASSUME Inv, NothingLate, ~Crashes, [Next]_vars, NEW u \in UID,
           Accepted(u, Revision(u))', ~Accepted(u, Revision(u))
    PROVE  \E r \in Replica :
              /\ acceptPc[r] = "markUpdate" /\ event[r].uid = u
              /\ acceptPc'[r] = "enrich" /\ event'[r] = event[r]
<1> USE DEF Inv
<1>1. Inv' /\ \A v \in UID : LogStep(v)
  BY NextInv
<1>2. Len(log[u]) = 1 /\ \E v \in Record : v.status = "accepted" /\ log'[u] = Append(log[u], v)
  BY <1>1, AcceptanceIsAppended
<1>3. log'[u] # log[u]
  BY DEF Accepted, Revision
<1>4. ASSUME NEW r \in Replica, SendStep(r) PROVE FALSE
  <2>1. PICK w \in SendOnWire(r) : Acked(w) \/ Refused \/ TimedOut(w)
    <3>1. CASE PutRecord(r) \/ PutIndex(r) \/ UndoRecord(r) \/ RemoveRecord(r)
               \/ RemoveIndex(r)
      BY <3>1 DEF PutRecord, PutIndex, UndoRecord, RemoveRecord, RemoveIndex, SendOnWire
    <3>2. CASE RequestEmail(r) \/ AwaitEmail(r) \/ FindRecord(r) \/ Reply(r)
      BY <1>3, <3>2 DEF RequestEmail, AwaitEmail, FindRecord, Reply, Refused, bucketVars
    <3> QED
      BY <1>4, <3>1, <3>2 DEF SendStep
  <2>2. w \in Write /\ WriteSafe(w) /\ w.op # "update"
    <3>1. w.op # "update"
      BY <2>1 DEF SendOnWire, CreateRecord, CreateIndex, DeleteRecord, DeleteIndex, Put,
             AddEntry, DropEntry
    <3> QED
      BY <3>1, WireSafe
  <2>3. /\ w.op = "put" /\ w.uid = u
        /\ log'[u] = Append(log[u], w.value)
    BY <1>3, <2>1, <2>2, WriteTypes DEF Acked, Refused, TimedOut, bucketVars, Apply, TypeOK,
           BucketTypeOK
  <2>4. log[u] # <<>>
    <3>1. log[u] = <<>> => Len(log[u]) = 0
      OBVIOUS
    <3> QED
      BY <1>2, <3>1
  <2>5. w.value = Tombstone
    BY <2>2, <2>3, <2>4 DEF WriteSafe
  <2>6. log[u] \in Seq(Version) /\ Tombstone \in Version
    BY DEF TypeOK, BucketTypeOK, Version
  <2>7. log'[u][Len(log'[u])] = Tombstone
    BY <2>3, <2>5, <2>6
  <2> QED
    BY <2>7 DEF Accepted, Revision, Tombstone
<1>5. ASSUME NEW r \in Replica, MarkUpdate(r)
      PROVE  /\ acceptPc[r] = "markUpdate" /\ event[r].uid = u
             /\ acceptPc'[r] = "enrich" /\ event'[r] = event[r]
  <2> DEFINE w == Acceptance(r)
  <2>1. w \in Write /\ w.op = "update" /\ w.uid = event[r].uid /\ event[r] \in Event
    <3>1. w \in Write /\ event[r] \in Event
      BY <1>5, AcceptanceType DEF MarkUpdate, TypeOK, AcceptTypeOK
    <3> QED
      BY <3>1 DEF Acceptance, Update
  <2>2. Acked(w) /\ Matches(w) /\ AcceptGoto(r, "enrich") /\ UNCHANGED event
    BY <1>3, <1>5, <2>1 DEF MarkUpdate, Acked, Apply, Refused, TimedOut, bucketVars
  <2>3. w.uid = u
    BY <1>3, <2>1, <2>2, WriteTypes DEF Acked, Apply, TypeOK, BucketTypeOK
  <2> QED
    BY <1>5, <2>1, <2>2, <2>3 DEF MarkUpdate, AcceptGoto, TypeOK, AcceptTypeOK
<1>6. ASSUME NEW r \in Replica, Receive(r) \/ (AcceptStep(r) /\ ~MarkUpdate(r)) PROVE FALSE
  BY <1>3, <1>6 DEF Receive, ReceiveEvent, AcceptStep, Load, MarkGet, Enrich, Publish,
         bucketVars
<1>7. CASE \/ \E r \in Replica, c \in Code : Reject(r, c)
           \/ \E r \in Replica, v \in UID, e \in Email, name \in User \cup {None},
                  d \in RequestDays : Issue(r, v, e, name, d)
           \/ \E v \in UID : EmailService(v)
           \/ ApplyLate \/ Tick
           \/ UNCHANGED vars
  BY <1>3, <1>7 DEF Reject, Issue, EmailService, ApplyLate, NothingLate, Tick, vars,
         bucketVars
<1> QED
  BY <1>4, <1>5, <1>6, <1>7 DEF Next, SendNext, Crash

(* "The record will remain in pending state" when an event is dropped      *)
(* (acceptance.go:109-110) holds where no call fails and no process stops: *)
(* a record becomes accepted only by the handler that goes on to publish   *)
(* it.  With calls that time out it does not: see the run "dropped".       *)
THEOREM DroppedStaysPending ==
    ASSUME ~Faults, ~Crashes
    PROVE  Spec => DroppedMeansPending
<1>1. Inv /\ NothingLate /\ [Next]_vars =>
        [\A u \in UID :
            Accepted(u, Revision(u))' /\ ~Accepted(u, Revision(u)) =>
                \E r \in Replica :
                    acceptPc[r] = "markUpdate" /\ event[r].uid = u /\ acceptPc'[r] = "enrich"]_vars
  BY AcceptingStep
<1> QED
  BY <1>1, Invariance, NothingLateEver, PTL DEF Spec, DroppedMeansPending

-----------------------------------------------------------------------------
(* No acceptance stands without its announcement                           *)

(* Once something is published for an invite, it stays so.                 *)
LEMMA PublishedStays ==
    ASSUME TypeOK, [Next]_vars, NEW u \in UID, published[u] # <<>>
    PROVE  published'[u] # <<>>
<1>1. published \in [UID -> Seq(Record)]
  BY DEF TypeOK, AcceptTypeOK
<1>2. ASSUME NEW r \in Replica, Publish(r), published' # published
      PROVE  published'[u] # <<>>
  <2>1. event[r].uid \in UID /\ Enriched(r) \in Record
    BY <1>2, AcceptanceType DEF Publish
  <2>2. published' = [published EXCEPT ![event[r].uid] = Append(@, Enriched(r))]
    BY <1>2 DEF Publish
  <2>3. published'[u] = published[u] \/ published'[u] = Append(published[u], Enriched(r))
    BY <1>1, <2>1, <2>2
  <2>4. Append(published[u], Enriched(r)) # <<>>
    <3>1. Len(Append(published[u], Enriched(r))) = Len(published[u]) + 1
      BY <1>1, <2>1
    <3>2. Len(published[u]) \in Nat /\ Len(<<>>) = 0
      BY <1>1
    <3> QED
      BY <3>1, <3>2
  <2> QED
    BY <2>3, <2>4
<1>3. \/ published' = published
      \/ \E r \in Replica : Publish(r)
  <2>1. SendNext /\ UNCHANGED acceptVars => published' = published
    BY DEF acceptVars
  <2>2. \A r \in Replica : Receive(r) \/ AcceptStep(r) => published' = published \/ Publish(r)
    BY DEF Receive, ReceiveEvent, AcceptStep, Load, MarkGet, MarkUpdate, Enrich
  <2>3. \A r \in Replica : Crash(r) => published' = published
    BY DEF Crash
  <2> QED
    BY <2>1, <2>2, <2>3 DEF Next, vars, acceptVars
<1> QED
  BY <1>2, <1>3

(* The handler that has to announce u still has to, or has just done so.   *)
LEMMA AnnouncerGoesOn ==
    ASSUME Inv, ~Faults, ~Crashes, ~StaleReads, [Next]_vars, NEW u \in UID,
           Accepted(u, Revision(u)), NEW r \in Replica, Announcing(r, u)
    PROVE  Announcing(r, u)' \/ published'[u] # <<>>
<1> USE DEF Inv
<1>0. /\ acceptPc \in [Replica -> AcceptPC] /\ event \in [Replica -> Event \cup {None}]
      /\ published \in [UID -> Seq(Record)]
  BY DEF TypeOK, AcceptTypeOK
<1>1. acceptPc[r] \in {"enrich", "publish"} /\ event[r].uid = u
  BY DEF Announcing
<1>2. Readable(u) = {Revision(u)} /\ Found(u, Revision(u))
  <2>1. Len(log[u]) \in Nat /\ DOMAIN log[u] = 1..Len(log[u])
    BY DEF TypeOK, BucketTypeOK
  <2> QED
    BY <2>1 DEF Readable, Found, Accepted, Revision
<1>3. ASSUME acceptPc'[r] = acceptPc[r], event'[r] = event[r] PROVE Announcing(r, u)'
  BY <1>1, <1>3 DEF Announcing
<1>4. CASE Enrich(r)
  <2>1. acceptPc'[r] = "publish" /\ event' = event
    BY <1>0, <1>1, <1>2, <1>4 DEF Enrich, AcceptGoto, Refused
  <2> QED
    BY <1>1, <2>1 DEF Announcing
<1>5. CASE Publish(r)
  <2>1. published' = [published EXCEPT ![u] = Append(@, Enriched(r))] /\ Enriched(r) \in Record
    BY <1>1, <1>5, AcceptanceType DEF Publish
  <2>2. published'[u] = Append(published[u], Enriched(r))
    BY <1>0, <2>1
  <2>3. Len(published'[u]) = Len(published[u]) + 1 /\ Len(published[u]) \in Nat
    BY <1>0, <2>1, <2>2
  <2>4. Len(<<>>) = 0
    OBVIOUS
  <2> QED
    BY <2>3, <2>4
<1>6. ASSUME NEW q \in Replica, Receive(q) \/ AcceptStep(q)
      PROVE  \/ Enrich(r) \/ Publish(r)
             \/ acceptPc'[r] = acceptPc[r] /\ event'[r] = event[r]
  <2>1. CASE q = r
    BY <1>1, <1>6, <2>1 DEF Receive, ReceiveEvent, AcceptStep, Load, MarkGet, MarkUpdate
  <2>2. CASE q # r
    BY <1>0, <1>6, <2>2 DEF Receive, ReceiveEvent, AcceptStep, Load, MarkGet, MarkUpdate,
           Enrich, Publish, Conflict, AcceptGoto, Return
  <2> QED
    BY <2>1, <2>2
<1>7. UNCHANGED acceptVars => acceptPc'[r] = acceptPc[r] /\ event'[r] = event[r]
  BY DEF acceptVars, workerVars
<1>8. UNCHANGED vars => UNCHANGED acceptVars
  BY DEF vars
<1>9. \A q \in Replica : ~Crash(q)
  BY DEF Crash
<1>10. \/ UNCHANGED acceptVars
       \/ \E q \in Replica : Receive(q) \/ AcceptStep(q)
  BY <1>8, <1>9 DEF Next
<1> QED
  BY <1>3, <1>4, <1>5, <1>6, <1>7, <1>10

(* Nor is an acceptance forgotten.                                         *)
LEMMA NextAnnounced ==
    ASSUME Inv, NothingLate, ~Faults, ~Crashes, ~StaleReads, AcceptedIsAnnounced, [Next]_vars
    PROVE  AcceptedIsAnnounced'
<1> SUFFICES ASSUME NEW u \in UID, Accepted(u, Revision(u))'
             PROVE  published'[u] # <<>> \/ \E r \in Replica : Announcing(r, u)'
  BY DEF AcceptedIsAnnounced, Announcing
<1>1. CASE ~Accepted(u, Revision(u))
  <2>1. PICK r \in Replica :
          event[r].uid = u /\ acceptPc'[r] = "enrich" /\ event'[r] = event[r]
    BY <1>1, AcceptingStep
  <2> QED
    BY <2>1 DEF Announcing
<1>2. CASE Accepted(u, Revision(u)) /\ published[u] # <<>>
  BY <1>2, PublishedStays DEF Inv
<1>3. ASSUME Accepted(u, Revision(u)), NEW r \in Replica, Announcing(r, u)
      PROVE  published'[u] # <<>> \/ Announcing(r, u)'
  BY <1>3, AnnouncerGoesOn
<1> QED
  BY <1>1, <1>2, <1>3 DEF AcceptedIsAnnounced, Announcing

(* With a bucket that answers and is read as it is, and replicas that do   *)
(* not stop, no acceptance stands unannounced and forgotten, whatever      *)
(* events and rollbacks interleave with it (acceptance.go:123-126, 159-196).*)
THEOREM AcceptanceIsAnnounced ==
    ASSUME ~Faults, ~Crashes, ~StaleReads
    PROVE  Spec => []AcceptedIsAnnounced
<1>1. Init => AcceptedIsAnnounced
  BY DEF Init, BucketInit, AcceptedIsAnnounced, Accepted
<1>2. Inv /\ NothingLate /\ AcceptedIsAnnounced /\ [Next]_vars => AcceptedIsAnnounced'
  BY NextAnnounced
<1> QED
  BY <1>1, <1>2, Invariance, NothingLateEver, PTL DEF Spec
=============================================================================
