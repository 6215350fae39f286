------------------------ MODULE ServerProcessProofs -----------------------
(***************************************************************************)
(* The safety properties of ServerProcess, for any number of processes.    *)
(***************************************************************************)
EXTENDS ServerProcess, FiniteSetTheorems, TLAPS

(* What a process does.                                                    *)
ProcessStep(p) == Launch(p) \/ Run(p) \/ Signal(p) \/ Kill(p) \/ Connection(p)

-----------------------------------------------------------------------------

LEMMA InitProcess == ProcessInit => ProcessInv
  BY DEF ProcessInit, ProcessTypeOK, ProcessInv, StageInv, Stage, Conn, Provider, Subject

(* A step of one process leaves the others alone.                          *)
LEMMA OthersKeep ==
    ASSUME ProcessTypeOK, NEW p \in Process, StageInv(p), ProcessStep(p)
    PROVE  /\ ProcessTypeOK'
           /\ \A q \in Process \ {p} :
                 /\ stage'[q] = stage[q] /\ providers'[q] = providers[q]
                 /\ conn'[q] = conn[q] /\ next'[q] = next[q] /\ held'[q] = held[q]
                 /\ subs'[q] = subs[q] /\ exit'[q] = exit[q]
  <1> USE DEF ProcessTypeOK, Stage, Conn, Provider, Subject, Enter, Fail
  <1>1. CASE Launch(p)
    BY <1>1 DEF Launch
  <1>2. CASE StartProvider(p)
    BY <1>2 DEF StartProvider
  <1>3. CASE Configure(p)
    BY <1>3 DEF Configure
  <1>4. CASE Bind(p)
    BY <1>4 DEF Bind, CloseConn
  <1>5. CASE Subscribe(p)
    BY <1>5 DEF Subscribe, StageInv
  <1>6. CASE Stop(p)
    BY <1>6 DEF Stop, StageInv
  <1>7. CASE Close(p)
    BY <1>7 DEF Close, CloseConn
  <1>8. CASE Flush(p)
    BY <1>8 DEF Flush
  <1>9. CASE Exit(p)
    BY <1>9 DEF Exit, Gone
  <1>10. CASE Signal(p)
    BY <1>10 DEF Signal
  <1>11. CASE Kill(p)
    BY <1>11 DEF Kill, Gone
  <1>12. CASE Connection(p)
    BY <1>12 DEF Connection, ConnGoes
  <1> QED
    BY <1>1, <1>2, <1>3, <1>4, <1>5, <1>6, <1>7, <1>8, <1>9, <1>10, <1>11, <1>12
       DEF ProcessStep, Run, Proceed

(* At each stage, a process has what the stages before gave it.            *)
LEMMA StepKeeps ==
    ASSUME ProcessTypeOK, NEW p \in Process, StageInv(p), ProcessStep(p)
    PROVE  StageInv(p)'
  <1> USE DEF ProcessTypeOK, StageInv, Stage, Conn, Provider, Subject, Enter, Fail
  <1>1. CASE Launch(p)
    BY <1>1 DEF Launch
  <1>2. CASE StartProvider(p)
    BY <1>2 DEF StartProvider
  <1>3. CASE Configure(p)
    BY <1>3 DEF Configure
  <1>4. CASE Bind(p)
    BY <1>4 DEF Bind, CloseConn
  <1>5. CASE Subscribe(p)
    <2>1. /\ next[p] \in 1..4 /\ held[p] = next[p] - 1 /\ subs[p] = 1..held[p]
          /\ stage[p] = "start"
          /\ providers[p] = 1..3 /\ conn[p] \in {"connecting", "open", "closed"}
          /\ providers'[p] = providers[p] /\ conn'[p] = conn[p]
      BY <1>5 DEF Subscribe
    <2>2. CASE /\ subs' = [subs EXCEPT ![p] = @ \cup {next[p]}]
               /\ held' = [held EXCEPT ![p] = next[p]]
               /\ next' = [next EXCEPT ![p] = IF next[p] = 4 THEN 1 ELSE next[p] + 1]
               /\ stage' = [stage EXCEPT ![p] = IF next[p] = 4 THEN "ready" ELSE "start"]
      <3>1. subs'[p] = subs[p] \cup {next[p]} /\ held'[p] = next[p]
            /\ subs'[p] = 1..next[p]
        BY <2>1, <2>2
      <3>2. CASE next[p] = 4
        BY <2>1, <2>2, <3>1, <3>2
      <3>3. CASE next[p] # 4
        BY <2>1, <2>2, <3>1, <3>3
      <3> QED
        BY <3>2, <3>3
    <2>3. CASE /\ stage' = [stage EXCEPT ![p] = IF next[p] = 1 THEN "close" ELSE "stop"]
               /\ next' = [next EXCEPT ![p] = 1]
               /\ UNCHANGED <<subs, held>>
      BY <2>1, <2>3
    <2> QED
      BY <1>5, <2>2, <2>3 DEF Subscribe
  <1>6. CASE Stop(p)
    BY <1>6 DEF Stop
  <1>7. CASE Close(p)
    BY <1>7 DEF Close, CloseConn
  <1>8. CASE Flush(p)
    BY <1>8 DEF Flush
  <1>9. CASE Exit(p)
    BY <1>9 DEF Exit, Gone
  <1>10. CASE Signal(p)
    BY <1>10 DEF Signal
  <1>11. CASE Kill(p)
    BY <1>11 DEF Kill, Gone
  <1>12. CASE Connection(p)
    BY <1>12 DEF Connection, ConnGoes
  <1> QED
    BY <1>1, <1>2, <1>3, <1>4, <1>5, <1>6, <1>7, <1>8, <1>9, <1>10, <1>11, <1>12
       DEF ProcessStep, Run, Proceed

LEMMA NextProcess ==
    ProcessInv /\ [ProcessNext]_processVars => ProcessInv'
  <1> SUFFICES ASSUME ProcessInv, [ProcessNext]_processVars
               PROVE  ProcessInv'
    OBVIOUS
  <1>1. ASSUME NEW p \in Process, ProcessStep(p)
        PROVE  ProcessInv'
    <2>1. ProcessTypeOK /\ StageInv(p)
      BY DEF ProcessInv
    <2>2. ProcessTypeOK' /\ StageInv(p)'
      BY <1>1, <2>1, OthersKeep, StepKeeps
    <2>3. ASSUME NEW q \in Process \ {p}
          PROVE  StageInv(q)'
      <3>1. /\ stage'[q] = stage[q] /\ providers'[q] = providers[q]
            /\ conn'[q] = conn[q] /\ next'[q] = next[q] /\ held'[q] = held[q]
            /\ subs'[q] = subs[q]
        BY <1>1, <2>1, OthersKeep
      <3> QED
        BY <3>1 DEF ProcessInv, StageInv
    <2> QED
      BY <2>2, <2>3 DEF ProcessInv
  <1>2. CASE UNCHANGED processVars
    BY <1>2 DEF processVars, ProcessTypeOK, ProcessInv, StageInv
  <1> QED
    BY <1>1, <1>2 DEF ProcessNext, ProcessStep

LEMMA SafeProcess == ProcessInv => AllOrNothing
  BY DEF ProcessInv, StageInv, AllOrNothing

(* A process that exits by itself does so from its last stage, with all    *)
(* that it had released.                                                   *)
LEMMA ExitReleases ==
    ASSUME ProcessInv, NEW p \in Process, ProcessStep(p),
           NEW q \in Process, stage[q] # "down", stage'[q] = "down", exit'[q] # "killed"
    PROVE  providers[q] = {} /\ subs[q] = {} /\ conn[q] \in {"none", "draining", "closed"}
  <1>1. ProcessTypeOK /\ StageInv(p) /\ p = q
    BY OthersKeep DEF ProcessInv
  <1>2. Exit(p)
    BY <1>1 DEF ProcessTypeOK, ProcessStep, Launch, Run, Proceed, StartProvider, Configure, Bind,
                Subscribe, Stop, Close, Flush, Signal, Kill, Connection, ConnGoes, Enter, Fail, Gone
  <1> QED
    BY <1>1, <1>2 DEF Exit, StageInv

(* A connection is drained in Bind and Close, and providers are shut down  *)
(* in Flush, unless they go with the process.                              *)
LEMMA TeardownStep ==
    ASSUME ProcessInv, NEW p \in Process, ProcessStep(p),
           NEW q \in Process, stage'[q] # "down"
    PROVE  /\ conn'[q] = "draining" => subs[q] = {}
           /\ ~(providers[q] \subseteq providers'[q]) =>
                 subs[q] = {} /\ conn[q] \in {"none", "draining", "closed"}
  <1>1. ProcessTypeOK /\ StageInv(p) /\ StageInv(q)
    BY DEF ProcessInv
  <1>2. CASE q # p
    <2>1. conn'[q] = conn[q] /\ providers'[q] = providers[q]
      BY <1>1, <1>2, OthersKeep
    <2>2. conn[q] = "draining" => subs[q] = {}
      BY <1>1 DEF StageInv, ProcessTypeOK, Stage
    <2> QED
      BY <2>1, <2>2
  <1>3. CASE q = p
    <2>1. conn[p] = "draining" => subs[p] = {}
      BY <1>1 DEF StageInv, ProcessTypeOK, Stage
    <2>2. CASE Bind(p) \/ Close(p)
      BY <1>1, <1>3, <2>2 DEF Bind, Close, StageInv
    <2>3. CASE Flush(p)
      BY <1>1, <1>3, <2>1, <2>3 DEF Flush, StageInv
    <2>4. CASE Exit(p) \/ Kill(p)
      BY <1>1, <1>3, <2>4 DEF Exit, Kill, Gone, Enter, ProcessTypeOK
    <2>5. CASE StartProvider(p)
      BY <1>1, <1>3, <2>1, <2>5 DEF StartProvider, ProcessTypeOK, Provider
    <2>6. CASE Launch(p) \/ Configure(p) \/ Subscribe(p) \/ Stop(p) \/ Signal(p) \/ Connection(p)
      BY <1>1, <1>3, <2>1, <2>6
         DEF Launch, Configure, Subscribe, Stop, Signal, Connection, ConnGoes, ProcessTypeOK
    <2> QED
      BY <2>2, <2>3, <2>4, <2>5, <2>6 DEF ProcessStep, Run, Proceed
  <1> QED
    BY <1>2, <1>3

(* How many providers there are to shut down.                              *)
LEMMA ProvidersCounted ==
    /\ \A S \in SUBSET Provider : Cardinality(S) \in 0..3
    /\ \A S \in SUBSET Provider, i \in Provider :
          i \in S => Cardinality(S \ {i}) = Cardinality(S) - 1
    /\ \A i \in Provider : Cardinality(1..(i - 1)) = i - 1 /\ Cardinality(1..i) = i
    /\ Cardinality({}) = 0 /\ \A S \in SUBSET Provider : Cardinality(S) = 0 => S = {}
  <1>1. IsFiniteSet(1..3) /\ Cardinality(1..3) = 3
    <2>1. 1 \in Int /\ 3 \in Int /\ ~(1 > 3) /\ 3 - 1 + 1 = 3
      OBVIOUS
    <2> QED
      BY <2>1, FS_Interval
  <1>2. ASSUME NEW S \in SUBSET Provider
        PROVE  /\ IsFiniteSet(S) /\ Cardinality(S) \in 0..3
               /\ \A i \in S : Cardinality(S \ {i}) = Cardinality(S) - 1
               /\ Cardinality(S) = 0 => S = {}
    <2>1. IsFiniteSet(S) /\ Cardinality(S) <= 3
      BY <1>1, FS_Subset DEF Provider
    <2>2. Cardinality(S) \in Nat
      BY <2>1, FS_CardinalityType
    <2>3. \A i \in S : Cardinality(S \ {i}) = Cardinality(S) - 1
      BY <2>1, FS_RemoveElement
    <2>4. Cardinality(S) = 0 => S = {}
      BY <2>1, FS_EmptySet
    <2> QED
      BY <2>1, <2>2, <2>3, <2>4
  <1>3. ASSUME NEW i \in Provider
        PROVE  Cardinality(1..(i - 1)) = i - 1 /\ Cardinality(1..i) = i
    <2>1. i \in Int /\ i >= 1 /\ i - 1 \in Int
      BY DEF Provider
    <2>2. Cardinality(1..i) = i
      BY <2>1, FS_Interval
    <2>3. Cardinality(1..(i - 1)) = i - 1
      BY <2>1, FS_Interval
    <2> QED
      BY <2>2, <2>3
  <1>4. Cardinality({}) = 0
    BY FS_EmptySet
  <1> QED
    BY <1>2, <1>3, <1>4

(* The turns that are left, stage by stage.                                *)
LEMMA TurnsOf ==
    /\ \A p : stage[p] \in {"down", "ready"} => TurnsLeft(p) = 0
    /\ \A p : stage[p] = "telemetry" => TurnsLeft(p) = 17 - Cardinality(providers[p])
    /\ \A p : stage[p] = "config" => TurnsLeft(p) = 14
    /\ \A p : stage[p] = "bind" => TurnsLeft(p) = 13
    /\ \A p : stage[p] = "start" => TurnsLeft(p) = 13 - next[p]
    /\ \A p : stage[p] = "stop" => TurnsLeft(p) = 6 + held[p] - next[p]
    /\ \A p : stage[p] = "close" => TurnsLeft(p) = 5
    /\ \A p : stage[p] = "flush" => TurnsLeft(p) = 1 + Cardinality(providers[p])
  BY DEF TurnsLeft

(* The turns are counted down to 0, from 17 at most.                       *)
TurnsInRange ==
    \A p \in Process : /\ TurnsLeft(p) \in 0..17
                       /\ TurnsLeft(p) = 0 => stage[p] \in {"ready", "down"}

LEMMA TurnsBounded == ProcessInv => TurnsInRange
  <1> SUFFICES ASSUME ProcessInv, NEW p \in Process
               PROVE  /\ TurnsLeft(p) \in 0..17
                      /\ TurnsLeft(p) = 0 => stage[p] \in {"ready", "down"}
    BY DEF TurnsInRange
  <1>1. /\ stage[p] \in Stage /\ providers[p] \in SUBSET Provider
        /\ next[p] \in 1..5 /\ held[p] \in 0..4 /\ StageInv(p)
    BY DEF ProcessInv, ProcessTypeOK
  <1>2. Cardinality(providers[p]) \in 0..3
    BY <1>1, ProvidersCounted
  <1>3. CASE stage[p] \in {"down", "ready", "config", "bind", "close"}
    BY <1>3, TurnsOf
  <1>4. CASE stage[p] \in {"telemetry", "flush"}
    BY <1>2, <1>4, TurnsOf
  <1>5. CASE stage[p] = "start"
    BY <1>1, <1>5, TurnsOf
  <1>6. CASE stage[p] = "stop"
    <2>1. next[p] \in 1..held[p] /\ held[p] \in 0..4
      BY <1>1, <1>6 DEF StageInv
    <2>2. TurnsLeft(p) = 6 + held[p] - next[p]
      BY <1>6, TurnsOf
    <2>3. TurnsLeft(p) \in 0..17 /\ TurnsLeft(p) # 0
      BY <2>1, <2>2
    <2> QED
      BY <2>3
  <1>7. \/ stage[p] \in {"down", "ready", "config", "bind", "close"}
        \/ stage[p] \in {"telemetry", "flush"} \/ stage[p] = "start" \/ stage[p] = "stop"
    BY <1>1 DEF Stage
  <1> QED
    BY <1>3, <1>4, <1>5, <1>6, <1>7

(* Each turn of a process leaves it fewer.                                 *)
LEMMA TurnCounts ==
    ASSUME ProcessInv, ProcessInv', NEW p \in Process, Run(p), stage[p] \notin {"ready", "down"}
    PROVE  TurnsLeft(p)' < TurnsLeft(p)
  <1>1. /\ stage \in [Process -> Stage] /\ providers \in [Process -> SUBSET Provider]
        /\ next \in [Process -> 1..5] /\ held \in [Process -> 0..4] /\ StageInv(p)
    BY DEF ProcessInv, ProcessTypeOK
  <1>2. TurnsLeft(p) \in 0..17 /\ TurnsLeft(p) # 0
    BY TurnsBounded DEF TurnsInRange
  <1>3. /\ Cardinality(providers[p]) \in 0..3 /\ providers'[p] \in SUBSET Provider
        /\ Cardinality(providers'[p]) \in 0..3
    BY <1>1, ProvidersCounted DEF ProcessInv, ProcessTypeOK
  <1>4. CASE stage'[p] \in {"ready", "down"}
    <2>1. TurnsLeft(p)' = 0
      BY <1>4 DEF TurnsLeft
    <2> QED
      BY <1>2, <2>1
  <1>5. CASE StartProvider(p)
    <2>1. PICK i \in Provider :
             /\ providers[p] = 1..(i - 1)
             /\ \/ /\ providers'[p] = 1..i
                   /\ stage'[p] = IF i = 3 THEN "config" ELSE "telemetry"
                \/ stage'[p] = "flush" /\ providers'[p] = providers[p]
      BY <1>1, <1>5 DEF StartProvider, Fail, Enter
    <2>2. i \in 1..3 /\ Cardinality(providers[p]) = i - 1
      BY <2>1, ProvidersCounted DEF Provider
    <2>3. TurnsLeft(p) = 18 - i
      BY <1>5, <2>2, TurnsOf DEF StartProvider
    <2>4. CASE providers'[p] = 1..i /\ stage'[p] = "telemetry" /\ i # 3
      <3>1. Cardinality(providers'[p]) = i
        BY <2>4, ProvidersCounted
      <3>2. TurnsLeft(p)' = 17 - Cardinality(providers'[p])
        BY <2>4 DEF TurnsLeft
      <3> QED
        BY <2>2, <2>3, <3>1, <3>2
    <2>5. CASE stage'[p] = "config"
      <3>1. TurnsLeft(p)' = 14
        BY <2>5 DEF TurnsLeft
      <3> QED
        BY <2>2, <2>3, <3>1
    <2>6. CASE stage'[p] = "flush" /\ providers'[p] = providers[p]
      <3>1. TurnsLeft(p)' = 1 + Cardinality(providers'[p])
        BY <2>6 DEF TurnsLeft
      <3> QED
        BY <2>2, <2>3, <2>6, <3>1
    <2> QED
      BY <2>1, <2>4, <2>5, <2>6
  <1>6. CASE Configure(p) \/ Bind(p)
    <2>1. \/ TurnsLeft(p) = 14 /\ stage'[p] \in {"bind", "flush"}
          \/ TurnsLeft(p) = 13 /\ stage'[p] = "start"
          \/ TurnsLeft(p) = 13 /\ stage'[p] = "flush"
      BY <1>1, <1>6, TurnsOf DEF Configure, Bind, Fail, Enter
    <2>2. /\ stage'[p] = "bind" => TurnsLeft(p)' = 13
          /\ stage'[p] = "start" => TurnsLeft(p)' = 13 - next'[p]
          /\ stage'[p] = "flush" => TurnsLeft(p)' = 1 + Cardinality(providers'[p])
      BY DEF TurnsLeft
    <2>3. next'[p] \in 1..5
      BY DEF ProcessInv, ProcessTypeOK
    <2> QED
      BY <1>3, <2>1, <2>2, <2>3
  <1>7. CASE Subscribe(p) /\ stage'[p] # "ready"
    <2>1. stage[p] = "start" /\ next[p] \in 1..4 /\ held[p] = next[p] - 1
      BY <1>1, <1>7 DEF Subscribe, StageInv, Subject
    <2>2. TurnsLeft(p) = 13 - next[p]
      BY <2>1, TurnsOf
    <2>3. \/ stage'[p] = "start" /\ next'[p] = next[p] + 1
          \/ stage'[p] = "close"
          \/ stage'[p] = "stop" /\ next'[p] = 1 /\ held'[p] = held[p]
      BY <1>1, <1>7 DEF Subscribe, Fail, Enter
    <2>4. /\ stage'[p] = "start" => TurnsLeft(p)' = 13 - next'[p]
          /\ stage'[p] = "close" => TurnsLeft(p)' = 5
          /\ stage'[p] = "stop" => TurnsLeft(p)' = 6 + held'[p] - next'[p]
      BY DEF TurnsLeft
    <2> QED
      BY <2>1, <2>2, <2>3, <2>4
  <1>8. CASE Stop(p)
    <2>1. stage[p] = "stop" /\ next[p] \in 1..held[p] /\ held[p] \in 0..4
      BY <1>1, <1>8 DEF Stop, StageInv
    <2>2. TurnsLeft(p) = 6 + held[p] - next[p]
      BY <2>1, TurnsOf
    <2>3. \/ stage'[p] = "close"
          \/ stage'[p] = "stop" /\ next'[p] = next[p] + 1 /\ held'[p] = held[p]
      BY <1>1, <1>8 DEF Stop, Enter
    <2>4. /\ stage'[p] = "close" => TurnsLeft(p)' = 5
          /\ stage'[p] = "stop" => TurnsLeft(p)' = 6 + held'[p] - next'[p]
      BY DEF TurnsLeft
    <2> QED
      BY <2>1, <2>2, <2>3, <2>4
  <1>9. CASE Close(p)
    <2>1. TurnsLeft(p) = 5 /\ stage'[p] = "flush"
      BY <1>1, <1>9, TurnsOf DEF Close, Enter
    <2>2. TurnsLeft(p)' = 1 + Cardinality(providers'[p])
      BY <2>1 DEF TurnsLeft
    <2> QED
      BY <1>3, <2>1, <2>2
  <1>10. CASE Flush(p)
    <2>1. PICK i \in providers[p] : providers'[p] = providers[p] \ {i}
      BY <1>1, <1>10 DEF Flush
    <2>2. Cardinality(providers'[p]) = Cardinality(providers[p]) - 1
      BY <1>1, <2>1, ProvidersCounted
    <2>3. stage[p] = "flush" /\ stage'[p] = "flush"
      BY <1>10 DEF Flush
    <2>4. TurnsLeft(p) = 1 + Cardinality(providers[p])
      BY <2>3, TurnsOf
    <2>5. TurnsLeft(p)' = 1 + Cardinality(providers'[p])
      BY <2>3 DEF TurnsLeft
    <2> QED
      BY <1>3, <2>2, <2>4, <2>5
  <1>11. Exit(p) => stage'[p] = "down"
    BY <1>1 DEF Exit, Gone, Enter
  <1> QED
    BY <1>4, <1>5, <1>6, <1>7, <1>8, <1>9, <1>10, <1>11 DEF Run, Proceed

(* Whatever happens, a process that neither serves nor has exited is left  *)
(* fewer turns, or is left as it is but for its connection.                *)
LEMMA StepAdvances ==
    ASSUME ProcessInv, ProcessInv', NEW p \in Process, ProcessStep(p),
           NEW q \in Process, stage[q] \notin {"ready", "down"}
    PROVE  \/ TurnsLeft(q)' < TurnsLeft(q)
           \/ /\ stage'[q] = stage[q] /\ providers'[q] = providers[q]
              /\ next'[q] = next[q] /\ held'[q] = held[q] /\ subs'[q] = subs[q]
              /\ exit'[q] = exit[q]
  <1>1. ProcessTypeOK /\ StageInv(p)
    BY DEF ProcessInv
  <1>2. CASE q # p
    BY <1>1, <1>2, OthersKeep
  <1>3. CASE q = p /\ Run(p)
    BY <1>3, TurnCounts
  <1>4. CASE q = p /\ Kill(p)
    <2>1. stage'[q] = "down"
      BY <1>1, <1>4 DEF Kill, Gone, Enter, ProcessTypeOK
    <2>2. TurnsLeft(q)' = 0
      BY <2>1 DEF TurnsLeft
    <2>3. TurnsLeft(q) \in 0..17 /\ TurnsLeft(q) # 0
      BY TurnsBounded DEF TurnsInRange
    <2> QED
      BY <2>2, <2>3
  <1>5. CASE q = p /\ (Launch(p) \/ Signal(p))
    BY <1>5 DEF Launch, Signal
  <1>6. CASE q = p /\ Connection(p)
    BY <1>6 DEF Connection, ConnGoes
  <1> QED
    BY <1>2, <1>3, <1>4, <1>5, <1>6 DEF ProcessStep

-----------------------------------------------------------------------------
(* Theorems                                                                *)

(* At each stage, every process has exactly what it acquired and has not   *)
(* released.                                                               *)
THEOREM ProcessInvariance == ProcessSpec => []ProcessInv
  BY InitProcess, NextProcess, PTL DEF ProcessSpec

(* All four subscriptions or none, whichever of them fails to start.       *)
THEOREM SubscriptionsAreAllOrNothing == ProcessSpec => []AllOrNothing
  BY ProcessInvariance, SafeProcess, PTL

(* A process that returns from run has released what it acquired, however  *)
(* far it came.                                                            *)
THEOREM ProcessesLeakNothing == ProcessSpec => NothingLeaks
  <1>1. ProcessInv /\ [ProcessNext]_processVars =>
          [\A p \in Process :
              stage[p] # "down" /\ stage'[p] = "down" /\ exit'[p] # "killed" =>
                  providers[p] = {} /\ subs[p] = {} /\ conn[p] \in {"none", "draining", "closed"}]_processVars
    BY ExitReleases DEF ProcessNext, ProcessStep
  <1> QED
    BY <1>1, ProcessInvariance, PTL DEF ProcessSpec, NothingLeaks

(* What was acquired last is released first.                               *)
THEOREM TeardownIsOrdered == ProcessSpec => TeardownInOrder
  <1>1. ProcessInv /\ [ProcessNext]_processVars =>
          [\A p \in Process : stage'[p] # "down" =>
              /\ conn'[p] = "draining" => subs[p] = {}
              /\ ~(providers[p] \subseteq providers'[p]) =>
                    subs[p] = {} /\ conn[p] \in {"none", "draining", "closed"}]_processVars
    BY TeardownStep DEF ProcessNext, ProcessStep
  <1> QED
    BY <1>1, ProcessInvariance, PTL DEF ProcessSpec, TeardownInOrder

(* A start or a stop is over after 17 turns at most, whichever of its      *)
(* steps fail and whatever becomes of the connection meanwhile: all that   *)
(* StartsAndStops needs beyond the scheduling of the process.              *)
THEOREM StartsAndStopsAreShort == ProcessSpec => ProcessesAdvance
  <1>1. ProcessInv /\ ProcessInv' /\ [ProcessNext]_processVars =>
          [\A p \in Process :
              \/ stage[p] \in {"ready", "down"}
              \/ /\ TurnsLeft(p)' < TurnsLeft(p) /\ TurnsLeft(p) <= 17
                 /\ TurnsLeft(p)' = 0 => stage'[p] \in {"ready", "down"}
              \/ /\ stage'[p] = stage[p] /\ providers'[p] = providers[p]
                 /\ next'[p] = next[p] /\ held'[p] = held[p] /\ subs'[p] = subs[p]
                 /\ exit'[p] = exit[p]]_processVars
    <2> SUFFICES ASSUME ProcessInv, ProcessInv', NEW p \in Process, ProcessStep(p),
                        NEW q \in Process, stage[q] \notin {"ready", "down"}
                 PROVE  \/ /\ TurnsLeft(q)' < TurnsLeft(q) /\ TurnsLeft(q) <= 17
                           /\ TurnsLeft(q)' = 0 => stage'[q] \in {"ready", "down"}
                        \/ /\ stage'[q] = stage[q] /\ providers'[q] = providers[q]
                           /\ next'[q] = next[q] /\ held'[q] = held[q] /\ subs'[q] = subs[q]
                           /\ exit'[q] = exit[q]
      BY DEF ProcessNext, ProcessStep
    <2>1. TurnsLeft(q) <= 17
      BY TurnsBounded DEF TurnsInRange
    <2>2. TurnsLeft(q)' = 0 => stage'[q] \in {"ready", "down"}
      <3>1. ProcessInv' => TurnsInRange'
        BY TurnsBounded, PTL
      <3> QED
        BY <3>1 DEF TurnsInRange
    <2> QED
      BY <2>1, <2>2, StepAdvances
  <1> QED
    BY <1>1, ProcessInvariance, PTL DEF ProcessSpec, ProcessesAdvance
=============================================================================
