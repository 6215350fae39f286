--------------------------- MODULE ServerProcess --------------------------
(***************************************************************************)
(* The life of the processes of a deployment: run in main.go, with the     *)
(* telemetry it sets up (otel.go), the infrastructure it builds            *)
(* (NewServerFromConfig), the four subscriptions it starts                 *)
(* (subscriptions.go) and the functions it has deferred.  Each of these    *)
(* steps may fail, and what was acquired before it has to be released in   *)
(* the reverse order.  A process may be killed at any point, and is        *)
(* launched again.                                                         *)
(*                                                                         *)
(* The connection is external: nats.go keeps trying to connect, tells      *)
(* nobody when it is turned away for good, and drains in the background.   *)
(***************************************************************************)
EXTENDS Integers, FiniteSets

CONSTANT Process

VARIABLES
    stage,      \* [Process -> what the process does next]
    providers,  \* [Process -> the telemetry providers that run]
    conn,       \* [Process -> its connection]
    next,       \* [Process -> the subscription to start or to stop next]
    held,       \* [Process -> the length of stopFuncs]
    subs,       \* [Process -> the subscriptions that are live]
    exit        \* [Process -> how the process is ending, or has ended]

processVars == <<stage, providers, conn, next, held, subs, exit>>

(* The trace, metric and log provider, in the order of SetupOTelSDK.       *)
Provider == 1..3

(* send_invite, invite.accepted, get_invite and get_invites_by_email, in   *)
(* the order of Start.                                                     *)
Subject == 1..4

Stage ==
    { "down", "telemetry", "config", "bind", "start", "ready", "stop", "close", "flush" }

Conn == { "none", "connecting", "open", "draining", "closed" }

-----------------------------------------------------------------------------

Enter(p, s) == stage' = [stage EXCEPT ![p] = s]

(* run is going to return an error; the deferred functions come first.     *)
Fail(p, s) == Enter(p, s) /\ exit' = [exit EXCEPT ![p] = "error"]

(* The process starts, with nothing of what an earlier one had.            *)
Launch(p) ==
    /\ stage[p] = "down"
    /\ Enter(p, "telemetry")
    /\ exit' = [exit EXCEPT ![p] = "none"]
    /\ UNCHANGED <<providers, conn, next, held, subs>>

(* Mutant: an exporter that cannot be made ends the setup, and nobody      *)
(* shuts down the providers before it.                                     *)
StartProviderNoUnwind(p) ==
    /\ stage[p] = "telemetry"
    /\ \E i \in Provider :
          /\ providers[p] = 1..(i - 1)
          /\ \/ /\ providers' = [providers EXCEPT ![p] = 1..i]
                /\ Enter(p, IF i = 3 THEN "config" ELSE "telemetry")
                /\ UNCHANGED exit
             \/ /\ Fail(p, "down")
                /\ UNCHANGED providers
    /\ UNCHANGED <<conn, next, held, subs>>

(* SetupOTelSDK: an exporter that cannot be made shuts down the providers  *)
(* that were made before it.                                               *)
StartProvider(p) ==
    /\ stage[p] = "telemetry"
    /\ \E i \in Provider :
          /\ providers[p] = 1..(i - 1)
          /\ \/ /\ providers' = [providers EXCEPT ![p] = 1..i]
                /\ Enter(p, IF i = 3 THEN "config" ELSE "telemetry")
                /\ UNCHANGED exit
             \/ /\ Fail(p, "flush")
                /\ UNCHANGED providers
    /\ UNCHANGED <<conn, next, held, subs>>

(* NewServerFromConfig: the secret is checked before anything is           *)
(* connected; Connect fails on what it is given, not on a server that does *)
(* not answer.                                                             *)
Configure(p) ==
    /\ stage[p] = "config"
    /\ \/ /\ \E c \in {"connecting", "open"} : conn' = [conn EXCEPT ![p] = c]
          /\ Enter(p, "bind")
          /\ UNCHANGED exit
       \/ /\ Fail(p, "flush")
          /\ UNCHANGED conn
    /\ UNCHANGED <<providers, next, held, subs>>

(* Client.Close: an open connection drains in the background, any other    *)
(* one is closed.                                                          *)
CloseConn(p) ==
    conn' = [conn EXCEPT ![p] = IF @ = "open" THEN "draining" ELSE "closed"]

(* KeyValue asks the server for the bucket, and gives up in time.  Nobody  *)
(* can close a server that was not made: the connection is closed here.    *)
Bind(p) ==
    /\ stage[p] = "bind"
    /\ \/ /\ conn[p] = "open"
          /\ Enter(p, "start")
          /\ next' = [next EXCEPT ![p] = 1]
          /\ UNCHANGED <<conn, exit>>
       \/ /\ CloseConn(p)
          /\ Fail(p, "flush")
          /\ UNCHANGED next
    /\ UNCHANGED <<providers, held, subs>>

(* Mutant: the last failure returns without stopAll.                       *)
SubscribeForgets(p) ==
    LET i == next[p] IN
    /\ stage[p] = "start"
    /\ \/ /\ conn[p] \in {"connecting", "open"}
          /\ subs' = [subs EXCEPT ![p] = @ \cup {i}]
          /\ held' = [held EXCEPT ![p] = i]
          /\ next' = [next EXCEPT ![p] = IF i = 4 THEN 1 ELSE i + 1]
          /\ Enter(p, IF i = 4 THEN "ready" ELSE "start")
          /\ UNCHANGED exit
       \/ /\ Fail(p, IF i \in {1, 4} THEN "close" ELSE "stop")
          /\ next' = [next EXCEPT ![p] = 1]
          /\ UNCHANGED <<subs, held>>
    /\ UNCHANGED <<providers, conn>>

(* Start: a subscription more, or stopAll for those that are live.         *)
Subscribe(p) ==
    LET i == next[p] IN
    /\ stage[p] = "start"
    /\ \/ /\ conn[p] \in {"connecting", "open"}
          /\ subs' = [subs EXCEPT ![p] = @ \cup {i}]
          /\ held' = [held EXCEPT ![p] = i]
          /\ next' = [next EXCEPT ![p] = IF i = 4 THEN 1 ELSE i + 1]
          /\ Enter(p, IF i = 4 THEN "ready" ELSE "start")
          /\ UNCHANGED exit
       \/ /\ Fail(p, IF i = 1 THEN "close" ELSE "stop")
          /\ next' = [next EXCEPT ![p] = 1]
          /\ UNCHANGED <<subs, held>>
    /\ UNCHANGED <<providers, conn>>

(* Mutant: the functions that stop the subscriptions are deferred before   *)
(* the one that closes the connection, and run after it.                   *)
SignalClosesFirst(p) ==
    /\ stage[p] = "ready"
    /\ Enter(p, "close")
    /\ exit' = [exit EXCEPT ![p] = "ok"]
    /\ UNCHANGED <<providers, conn, next, held, subs>>

(* SIGINT or SIGTERM.  Before the process is ready, nothing catches them:  *)
(* then they are a Kill.                                                   *)
Signal(p) ==
    /\ stage[p] = "ready"
    /\ Enter(p, "stop")
    /\ exit' = [exit EXCEPT ![p] = "ok"]
    /\ UNCHANGED <<providers, conn, next, held, subs>>

(* A turn of stopAll, or of the deferred loop over stops: Unsubscribe,     *)
(* which drops what was delivered and not taken.                           *)
Stop(p) ==
    /\ stage[p] = "stop"
    /\ subs' = [subs EXCEPT ![p] = @ \ {next[p]}]
    /\ next' = [next EXCEPT ![p] = @ + 1]
    /\ Enter(p, IF next[p] = held[p] THEN "close" ELSE "stop")
    /\ UNCHANGED <<providers, conn, held, exit>>

(* The deferred srv.Close.                                                 *)
Close(p) ==
    /\ stage[p] = "close"
    /\ CloseConn(p)
    /\ Enter(p, "flush")
    /\ UNCHANGED <<providers, next, held, subs, exit>>

(* A turn of the loop over shutdownFuncs.  An error does not end it.       *)
Flush(p) ==
    /\ stage[p] = "flush"
    /\ \E i \in providers[p] :
          /\ \A j \in providers[p] : i <= j
          /\ providers' = [providers EXCEPT ![p] = @ \ {i}]
    /\ UNCHANGED <<stage, conn, next, held, subs, exit>>

(* What a process has goes with it.                                        *)
Gone(p) ==
    /\ Enter(p, "down")
    /\ providers' = [providers EXCEPT ![p] = {}]
    /\ conn' = [conn EXCEPT ![p] = "none"]
    /\ next' = [next EXCEPT ![p] = 1]
    /\ held' = [held EXCEPT ![p] = 0]
    /\ subs' = [subs EXCEPT ![p] = {}]

(* run has returned: the process exits, drained or not.                    *)
Exit(p) ==
    /\ stage[p] = "flush"
    /\ providers[p] = {}
    /\ Gone(p)
    /\ UNCHANGED exit

(* The process is killed.                                                  *)
Kill(p) ==
    /\ stage[p] # "down"
    /\ Gone(p)
    /\ exit' = [exit EXCEPT ![p] = "killed"]

-----------------------------------------------------------------------------
(* The connection                                                          *)

ConnGoes(p, from, to) ==
    /\ conn[p] = from
    /\ conn' = [conn EXCEPT ![p] = to]
    /\ UNCHANGED <<stage, providers, next, held, subs, exit>>

(* The connection is made, or lost; it is given up when the server turns   *)
(* the client away; a drained connection is closed.                        *)
Connection(p) ==
    \/ ConnGoes(p, "connecting", "open")
    \/ ConnGoes(p, "open", "connecting")
    \/ ConnGoes(p, "connecting", "closed")
    \/ ConnGoes(p, "draining", "closed")

-----------------------------------------------------------------------------

(* The statements of run, up to its return.                                *)
Proceed(p) ==
    \/ StartProvider(p) \/ Configure(p) \/ Bind(p) \/ Subscribe(p)
    \/ Stop(p) \/ Close(p) \/ Flush(p)

(* What the process does without being asked.                              *)
Run(p) == Proceed(p) \/ Exit(p)

ProcessInit ==
    /\ stage = [p \in Process |-> "down"]
    /\ providers = [p \in Process |-> {}]
    /\ conn = [p \in Process |-> "none"]
    /\ next = [p \in Process |-> 1]
    /\ held = [p \in Process |-> 0]
    /\ subs = [p \in Process |-> {}]
    /\ exit = [p \in Process |-> "none"]

ProcessNext ==
    \E p \in Process :
        Launch(p) \/ Run(p) \/ Signal(p) \/ Kill(p) \/ Connection(p)

(* How processes are scheduled is said in Deployment, with the handlers    *)
(* they run.                                                               *)
ProcessSpec == ProcessInit /\ [][ProcessNext]_processVars

-----------------------------------------------------------------------------
(* Properties                                                              *)

ProcessTypeOK ==
    /\ stage \in [Process -> Stage]
    /\ providers \in [Process -> SUBSET Provider]
    /\ conn \in [Process -> Conn]
    /\ next \in [Process -> 1..5]
    /\ held \in [Process -> 0..4]
    /\ subs \in [Process -> SUBSET Subject]
    /\ exit \in [Process -> {"none", "error", "ok", "killed"}]

(* "If any subscription fails to start, all previously started             *)
(* subscriptions are stopped before the error is returned"                 *)
(* (subscriptions.go:32-35): whichever of them fails, and in the shutdown  *)
(* too, when Start or the loop over stops has ended either all four are    *)
(* live or none is; and a process that is ready to serve is served by a    *)
(* connection that was never given to Close.                               *)
AllOrNothing ==
    \A p \in Process :
        /\ stage[p] \in {"close", "flush", "down"} => subs[p] = {}
        /\ stage[p] = "ready" =>
              subs[p] = Subject /\ conn[p] \in {"connecting", "open", "closed"}

(* However far a process came before it failed or was signalled, when run  *)
(* returns, no provider runs on, no subscription is live and no connection *)
(* is open.  Only a kill takes them from a process (main.go:44-78,         *)
(* server.go:72, otel.go:85-88).                                           *)
NothingLeaks ==
    [][\A p \in Process :
          stage[p] # "down" /\ stage'[p] = "down" /\ exit'[p] # "killed" =>
              providers[p] = {} /\ subs[p] = {} /\ conn[p] \in {"none", "draining", "closed"}]_processVars

(* The deferred functions undo what was done last first: a connection is   *)
(* closed when no subscription is live, and a provider is shut down when   *)
(* nothing is left that it could report on.                                *)
TeardownInOrder ==
    [][\A p \in Process : stage'[p] # "down" =>
          /\ conn'[p] = "draining" => subs[p] = {}
          /\ ~(providers[p] \subseteq providers'[p]) =>
                subs[p] = {} /\ conn[p] \in {"none", "draining", "closed"}]_processVars

(* A start comes to an end: the process serves, or has exited, whatever    *)
(* the server does; and a process that is being stopped exits, for it does *)
(* not come to serve again.                                                *)
StartsAndStops ==
    \A p \in Process :
        stage[p] \notin {"ready", "down"} ~> stage[p] \in {"ready", "down"}

(* The turns that a process has left, at most, until it serves or has      *)
(* exited: a start that fails goes through the teardown of what it made.   *)
TurnsLeft(p) ==
    [ down |-> 0, ready |-> 0,
      telemetry |-> 17 - Cardinality(providers[p]), config |-> 14, bind |-> 13,
      start |-> 13 - next[p], stop |-> 6 + held[p] - next[p], close |-> 5,
      flush |-> 1 + Cardinality(providers[p]) ][stage[p]]

(* No start and no stop goes round in circles (main.go:44-78,              *)
(* subscriptions.go:32-90, otel.go:85-140): while a process neither serves *)
(* nor has exited, whatever happens to it leaves it fewer turns, unless it *)
(* happens to its connection alone; and the turns are at most 17, and are  *)
(* used up only when it serves or has exited.                              *)
ProcessesAdvance ==
    [][\A p \in Process :
          \/ stage[p] \in {"ready", "down"}
          \/ /\ TurnsLeft(p)' < TurnsLeft(p) /\ TurnsLeft(p) <= 17
             /\ TurnsLeft(p)' = 0 => stage'[p] \in {"ready", "down"}
          \/ /\ stage'[p] = stage[p] /\ providers'[p] = providers[p]
             /\ next'[p] = next[p] /\ held'[p] = held[p] /\ subs'[p] = subs[p]
             /\ exit'[p] = exit[p]]_processVars

(* Why they hold: what a process has at each stage.                        *)
StageInv(p) ==
    /\ stage[p] = "down" => providers[p] = {} /\ conn[p] = "none"
    /\ stage[p] \in {"telemetry", "config"} => conn[p] = "none"
    /\ stage[p] \in {"config", "bind", "start", "ready", "stop", "close"} =>
          providers[p] = Provider
    /\ stage[p] \in {"bind", "start", "ready", "stop", "close"} =>
          conn[p] \in {"connecting", "open", "closed"}
    /\ stage[p] = "flush" => conn[p] \in {"none", "draining", "closed"}
    /\ stage[p] \in {"down", "telemetry", "config", "bind"} => held[p] = 0
    /\ stage[p] \in {"down", "telemetry", "config", "bind", "close", "flush"} =>
          subs[p] = {}
    /\ stage[p] = "start" =>
          /\ next[p] \in Subject /\ held[p] = next[p] - 1
          /\ subs[p] = 1..held[p]
    /\ stage[p] = "ready" => next[p] = 1 /\ held[p] = 4 /\ subs[p] = Subject
    /\ stage[p] = "stop" =>
          /\ next[p] \in 1..held[p]
          /\ subs[p] = next[p]..held[p]

ProcessInv == ProcessTypeOK /\ \A p \in Process : StageInv(p)
=============================================================================
