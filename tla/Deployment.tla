---------------------------- MODULE Deployment ----------------------------
(***************************************************************************)
(* The service with the processes it runs in: InviteService, whose         *)
(* replicas handle messages whenever they like and stop at any point, and  *)
(* ServerProcess, which says when a process has a subscription to take a   *)
(* message from, a connection to make a call on, and a reason to stop.     *)
(*                                                                         *)
(* A handler is a goroutine of the client library.  Nothing waits for one: *)
(* Unsubscribe lets it go on, the connection may be closed under it, and   *)
(* it is gone when the process exits, which run does when its own deferred *)
(* functions have returned (main.go:48-78, client.go:48-52 and :137).      *)
(***************************************************************************)
EXTENDS InviteService, ServerProcess

(* A process may be killed, and each call fails when there is no           *)
(* connection to make it on.                                               *)
ASSUME DeploymentAssumption == Process = Replica /\ Crashes /\ Faults

deployVars == <<vars, processVars>>

-----------------------------------------------------------------------------

(* Subscription i of r delivers.                                           *)
Delivers(r, i) == i \in subs[r] /\ conn[r] = "open"

TakeRequest(r) ==
    /\ Delivers(r, 1)
    /\ \/ \E c \in Code : Reject(r, c)
       \/ \E u \in UID, e \in Email, name \in User \cup {None}, d \in RequestDays :
             Issue(r, u, e, name, d)
    /\ UNCHANGED <<acceptVars, processVars>>

TakeEvent(r) ==
    /\ Delivers(r, 2)
    /\ Receive(r)
    /\ UNCHANGED <<sendVars, processVars>>

(* Mutants: a call on a closed connection waits until it is open; it       *)
(* returns no error.                                                       *)
SendOfflineBlocks(r) ==
    /\ sendPc[r] = "reply"
    /\ Reply(r)
    /\ UNCHANGED told

SendOfflineSilent(r) ==
    /\ \/ SendStep(r)
       \/ /\ sendPc[r] = "putRecord"
          /\ Goto(r, "putIndex")
          /\ UNCHANGED <<now, issued>>
    /\ UNCHANGED <<log, index, late, mail, told>>

(* On a closed connection each call of a handler fails, and nothing is     *)
(* sent.                                                                   *)
SendOffline(r) ==
    /\ SendStep(r)
    /\ sendPc'[r] \in {"undoRecord", "findRecord", "reply", "idle"}
    /\ sendPc[r] = "awaitEmail" => sendPc'[r] = "findRecord"
    /\ UNCHANGED <<log, index, late, mail, told>>

AcceptOffline(r) ==
    /\ AcceptStep(r)
    /\ acceptPc'[r] = "idle"
    /\ UNCHANGED <<log, index, late, published>>

(* A handler goes on, whatever its process does meanwhile.                 *)
SendWorks(r) ==
    /\ IF conn[r] = "closed" THEN SendOffline(r) ELSE SendStep(r)
    /\ UNCHANGED <<acceptVars, processVars>>

AcceptWorks(r) ==
    /\ IF conn[r] = "closed" THEN AcceptOffline(r) ELSE AcceptStep(r)
    /\ UNCHANGED <<sendVars, processVars>>

(* Mutant: the service is launched again with its handlers where they were. *)
AbandonResumes(r) == UNCHANGED vars

(* The handlers of r are gone, in the middle of whatever they were doing.  *)
Abandon(r) ==
    IF sendPc[r] = "idle" /\ acceptPc[r] = "idle"
    THEN UNCHANGED vars
    ELSE Crash(r) /\ (conn[r] = "closed" => UNCHANGED late)

Around ==
    /\ \/ \E u \in UID : EmailService(u)
       \/ (ApplyLate \/ Tick) /\ UNCHANGED sendVars
    /\ UNCHANGED <<acceptVars, processVars>>

-----------------------------------------------------------------------------

DeployInit == Init /\ ProcessInit

DeployNext ==
    \/ \E r \in Replica :
          \/ TakeRequest(r) \/ TakeEvent(r)
          \/ SendWorks(r) \/ AcceptWorks(r)
          \/ (Launch(r) \/ Proceed(r) \/ Signal(r) \/ Connection(r)) /\ UNCHANGED vars
          \/ (Exit(r) \/ Kill(r)) /\ Abandon(r)
    \/ Around

(* Handlers and processes are scheduled, and each call they make returns:  *)
(* KeyValue and the shutdown of a provider at their deadlines.  Nothing    *)
(* obliges a process to be launched or signalled, or a connection to be    *)
(* made.                                                                   *)
DeployFairness ==
    \A r \in Replica :
        /\ WF_deployVars(SendWorks(r))
        /\ WF_deployVars(AcceptWorks(r))
        /\ WF_deployVars(Proceed(r) /\ UNCHANGED vars)
        /\ WF_deployVars(Exit(r) /\ Abandon(r))

DeploySpec == DeployInit /\ [][DeployNext]_deployVars /\ DeployFairness

-----------------------------------------------------------------------------
(* Properties                                                              *)

(* Starting and stopping add nothing to what InviteService allows: taking  *)
(* messages while only some of the four subscriptions are live, working on *)
(* a draining or a closed connection, and exiting under a handler are all  *)
(* things a service whose replicas fail and crash does already.  So what   *)
(* is said of it holds through any sequence of deployments.                *)
ServiceSpec == Spec

(* A handler at work is one of the process that is there: it was started   *)
(* by a subscription that this process holds or has stopped.  No failed    *)
(* start has touched an invite before it subscribed, and no process begins *)
(* with a handler of an earlier one that is half way through its calls     *)
(* (main.go:44-78, subscriptions.go:36-44).                                *)
HandlersAreOwned ==
    \A r \in Replica :
        /\ sendPc[r] # "idle" => held[r] >= 1
        /\ acceptPc[r] # "idle" => held[r] >= 2

(* What a process has, and what is at work in it.                          *)
DeployInv == ProcessInv /\ HandlersAreOwned

(* Every start ends in a process that serves or has exited, every stop in  *)
(* one that has exited, and its handlers are over by then or with it:      *)
(* neither a handler that meets a closed connection nor the rollback it    *)
(* starts then (notification.go:178) goes on for ever.  And no start and   *)
(* no stop takes more turns than ProcessesAdvance counts.                  *)
DeploymentSettles == StartsAndStops /\ HandlersReturn /\ ProcessesAdvance
=============================================================================
