----------------------- MODULE InviteServiceProofs ------------------------
(***************************************************************************)
(* What holds of the invite service for every number of replicas, invites, *)
(* addresses and users, and for every bound of the clock and of the        *)
(* retries, with or without failures, crashes and stale reads.             *)
(***************************************************************************)
EXTENDS InviteService, TLAPS

-----------------------------------------------------------------------------
(* The bucket                                                              *)

(* No version of a record is lost or changed: a log only grows.            *)
LogGrows ==
    \A u \in UID :
        /\ Len(log[u]) <= Len(log'[u])
        /\ \A n \in 1..Len(log[u]) : log'[u][n] = log[u][n]

(* What was appended to is not empty.                                      *)
LEMMA AppendIsLonger ==
    ASSUME NEW s \in Seq(Version), NEW v \in Version
    PROVE  Append(s, v) # <<>>
<1>1. Len(Append(s, v)) = Len(s) + 1 /\ Len(s) \in Nat
  OBVIOUS
<1>2. Len(<<>>) = 0
  OBVIOUS
<1> QED
  BY <1>1, <1>2

(* The parts of a write.                                                   *)
LEMMA WriteTypes ==
    ASSUME NEW w \in Write
    PROVE  /\ w.op \in {"put", "update", "index"}
           /\ w.op = "put" => w.uid \in UID /\ w.value \in Version
           /\ w.op = "update" => w.uid \in UID /\ w.value \in Record /\ w.rev \in Nat
           /\ w.op = "index" => w.entry \in Entries /\ w.present \in BOOLEAN
BY DEF Write

(* The bucket applies writes, and its history grows.                       *)
LEMMA ApplyTypes ==
    ASSUME BucketTypeOK, NEW w \in Write, Apply(w)
    PROVE  /\ log' \in [UID -> Seq(Version)]
           /\ index' \subseteq Entries
           /\ LogGrows
<1>1. CASE UNCHANGED <<log, index>>
  BY <1>1 DEF BucketTypeOK, LogGrows
<1>2. CASE /\ w.op \in {"put", "update"}
           /\ log' = [log EXCEPT ![w.uid] = Append(@, w.value)]
           /\ UNCHANGED index
  <2>1. w.uid \in UID /\ w.value \in Version
    BY <1>2, WriteTypes DEF Version
  <2>2. log[w.uid] \in Seq(Version)
    BY <2>1 DEF BucketTypeOK
  <2>3. Append(log[w.uid], w.value) \in Seq(Version)
    BY <2>1, <2>2
  <2>4. /\ Len(log[w.uid]) <= Len(Append(log[w.uid], w.value))
        /\ \A n \in 1..Len(log[w.uid]) :
              Append(log[w.uid], w.value)[n] = log[w.uid][n]
    BY <2>1, <2>2
  <2>5. \A u \in UID : Len(log[u]) \in Nat
    BY DEF BucketTypeOK
  <2> QED
    BY <1>2, <2>1, <2>3, <2>4, <2>5 DEF BucketTypeOK, LogGrows
<1>3. CASE /\ w.op = "index"
           /\ index' = IF w.present THEN index \cup {w.entry} ELSE index \ {w.entry}
           /\ UNCHANGED log
  BY <1>3, WriteTypes DEF BucketTypeOK, LogGrows
<1> QED
  BY <1>1, <1>2, <1>3 DEF Apply

(* However a call ends, the bucket stays well typed and its logs grow.     *)
LEMMA CallTypes ==
    ASSUME BucketTypeOK, NEW w \in Write, Acked(w) \/ Refused \/ TimedOut(w)
    PROVE  BucketTypeOK' /\ LogGrows
<1>1. CASE Acked(w)
  BY <1>1, ApplyTypes DEF Acked, BucketTypeOK
<1>2. CASE Refused
  BY <1>2 DEF Refused, bucketVars, BucketTypeOK, LogGrows
<1>3. CASE TimedOut(w)
  BY <1>3 DEF TimedOut, BucketTypeOK, LogGrows
<1> QED
  BY <1>1, <1>2, <1>3

(* Nothing happens to a bucket that is left alone.                         *)
LEMMA StillBucket ==
    ASSUME BucketTypeOK, UNCHANGED bucketVars
    PROVE  BucketTypeOK' /\ LogGrows
BY DEF bucketVars, BucketTypeOK, LogGrows

-----------------------------------------------------------------------------
(* Type correctness of the send_invite side                                *)

(* A new invite is a record.                                               *)
LEMMA NewRecordType ==
    ASSUME NEW e \in Email, NEW name \in User \cup {None}, NEW d \in RequestDays,
           NEW t \in Nat
    PROVE  NewRecord(e, name, d, t) \in Record
<1>1. Lifetime(d) \in Nat
  BY SendAssumption DEF Lifetime
<1> QED
  BY <1>1 DEF NewRecord, Record

(* What send_invite writes are writes.                                     *)
LEMMA SendWrites ==
    ASSUME NEW u \in UID, issued[u] \in Record
    PROVE  /\ CreateRecord(u) \in Write
           /\ CreateIndex(u) \in Write
           /\ DeleteRecord(u) \in Write
           /\ DeleteIndex(u) \in Write
<1>1. issued[u].email \in Email
  BY DEF Record
<1> QED
  BY <1>1 DEF CreateRecord, CreateIndex, DeleteRecord, DeleteIndex, Put, AddEntry,
              DropEntry, Write, Version, Entries

(* The calls of send_invite keep the types.                                *)
LEMMA SendStepTypes ==
    ASSUME TypeOK, NEW r \in Replica, SendStep(r)
    PROVE  BucketTypeOK' /\ LogGrows /\ SendTypeOK'
<1> DEFINE u == sendUid[r]
<1> USE DEF TypeOK
<1>1. sendPc[r] \notin {"idle", "reply"} => u \in UID /\ issued[u] \in Record
  BY DEF SendTypeOK
<1>2. CASE PutRecord(r)
  <2>1. u \in UID /\ CreateRecord(u) \in Write
    BY <1>1, <1>2, SendWrites DEF PutRecord
  <2>2. BucketTypeOK' /\ LogGrows
    BY <1>2, <2>1, CallTypes DEF PutRecord
  <2>3. SendTypeOK'
    BY <1>2, <2>1 DEF PutRecord, Goto, Answer, SendTypeOK, SendPC, Code
  <2> QED
    BY <2>2, <2>3
<1>3. CASE PutIndex(r)
  <2>1. u \in UID /\ CreateIndex(u) \in Write
    BY <1>1, <1>3, SendWrites DEF PutIndex
  <2>2. BucketTypeOK' /\ LogGrows
    BY <1>3, <2>1, CallTypes DEF PutIndex
  <2>3. SendTypeOK'
    BY <1>3, <2>1 DEF PutIndex, Goto, Answer, SendTypeOK, SendPC, Code
  <2> QED
    BY <2>2, <2>3
<1>4. CASE UndoRecord(r)
  <2>1. u \in UID /\ DeleteRecord(u) \in Write
    BY <1>1, <1>4, SendWrites DEF UndoRecord
  <2>2. BucketTypeOK' /\ LogGrows
    BY <1>4, <2>1, CallTypes DEF UndoRecord
  <2>3. SendTypeOK'
    BY <1>4, <2>1 DEF UndoRecord, Answer, SendTypeOK, SendPC, Code
  <2> QED
    BY <2>2, <2>3
<1>5. CASE RequestEmail(r)
  <2>1. BucketTypeOK' /\ LogGrows
    BY <1>5, StillBucket DEF RequestEmail
  <2>2. SendTypeOK'
    BY <1>1, <1>5 DEF RequestEmail, Goto, SendTypeOK, SendPC, MailState
  <2> QED
    BY <2>1, <2>2
<1>6. CASE AwaitEmail(r)
  <2>1. BucketTypeOK' /\ LogGrows
    BY <1>6, StillBucket DEF AwaitEmail
  <2>2. SendTypeOK'
    BY <1>1, <1>6 DEF AwaitEmail, Goto, Answer, SendTypeOK, SendPC, Code
  <2> QED
    BY <2>1, <2>2
<1>7. CASE FindRecord(r)
  <2>1. BucketTypeOK' /\ LogGrows
    BY <1>7, StillBucket DEF FindRecord, Refused
  <2>2. SendTypeOK'
    BY <1>1, <1>7 DEF FindRecord, Goto, Answer, SendTypeOK, SendPC, Code
  <2> QED
    BY <2>1, <2>2
<1>8. CASE RemoveRecord(r)
  <2>1. u \in UID /\ DeleteRecord(u) \in Write
    BY <1>1, <1>8, SendWrites DEF RemoveRecord
  <2>2. BucketTypeOK' /\ LogGrows
    BY <1>8, <2>1, CallTypes DEF RemoveRecord
  <2>3. SendTypeOK'
    BY <1>8, <2>1 DEF RemoveRecord, Goto, Answer, SendTypeOK, SendPC, Code
  <2> QED
    BY <2>2, <2>3
<1>9. CASE RemoveIndex(r)
  <2>1. u \in UID /\ DeleteIndex(u) \in Write
    BY <1>1, <1>9, SendWrites DEF RemoveIndex
  <2>2. BucketTypeOK' /\ LogGrows
    BY <1>9, <2>1, CallTypes DEF RemoveIndex
  <2>3. SendTypeOK'
    BY <1>9, <2>1 DEF RemoveIndex, Answer, SendTypeOK, SendPC, Code
  <2> QED
    BY <2>2, <2>3
<1>10. CASE Reply(r)
  <2>1. BucketTypeOK' /\ LogGrows
    BY <1>10, StillBucket DEF Reply
  <2>2. SendTypeOK'
    BY <1>10, BucketAssumption DEF Reply, SendTypeOK, SendPC, Code
  <2> QED
    BY <2>1, <2>2
<1> QED
  BY <1>2, <1>3, <1>4, <1>5, <1>6, <1>7, <1>8, <1>9, <1>10 DEF SendStep

(* So do all steps around send_invite.                                     *)
LEMMA SendNextTypes ==
    ASSUME TypeOK, SendNext
    PROVE  BucketTypeOK' /\ LogGrows /\ SendTypeOK'
<1> USE DEF TypeOK
<1>1. CASE \E r \in Replica : SendStep(r)
  BY <1>1, SendStepTypes
<1>2. ASSUME NEW r \in Replica, NEW c \in Code, Reject(r, c)
      PROVE  BucketTypeOK' /\ LogGrows /\ SendTypeOK'
  <2>1. BucketTypeOK' /\ LogGrows
    BY <1>2, StillBucket DEF Reject
  <2>2. SendTypeOK'
    BY <1>2 DEF Reject, Answer, SendTypeOK, SendPC, Code
  <2> QED
    BY <2>1, <2>2
<1>3. ASSUME NEW r \in Replica, NEW u \in UID, NEW e \in Email,
             NEW name \in User \cup {None}, NEW d \in RequestDays,
             Issue(r, u, e, name, d)
      PROVE  BucketTypeOK' /\ LogGrows /\ SendTypeOK'
  <2>1. BucketTypeOK' /\ LogGrows
    BY <1>3, StillBucket DEF Issue
  <2>2. NewRecord(e, name, d, now) \in Record
    BY NewRecordType DEF BucketTypeOK
  <2>3. SendTypeOK'
    BY <1>3, <2>2 DEF Issue, SendTypeOK, SendPC
  <2> QED
    BY <2>1, <2>3
<1>4. ASSUME NEW u \in UID, EmailService(u)
      PROVE  BucketTypeOK' /\ LogGrows /\ SendTypeOK'
  <2>1. BucketTypeOK' /\ LogGrows
    BY <1>4, StillBucket DEF EmailService
  <2>2. SendTypeOK'
    BY <1>4 DEF EmailService, handlerVars, SendTypeOK, MailState
  <2> QED
    BY <2>1, <2>2
<1> QED
  BY <1>1, <1>2, <1>3, <1>4 DEF SendNext

-----------------------------------------------------------------------------
(* Type correctness of the acceptance side                                 *)

(* What a Get finds is a record.                                           *)
LEMMA FoundTypes ==
    ASSUME BucketTypeOK, NEW u \in UID, NEW n \in Readable(u), Found(u, n)
    PROVE  n \in Nat /\ n <= Revision(u) /\ log[u][n] \in Record
<1>1. Len(log[u]) \in Nat /\ \A i \in 1..Len(log[u]) : log[u][i] \in Version
  BY DEF BucketTypeOK
<1>2. n \in 1..Len(log[u])
  BY <1>1 DEF Readable, Revision, Found
<1> QED
  BY <1>1, <1>2 DEF Found, Revision, Version, Tombstone

(* A version that was found stays where it was found.                      *)
LEMMA FoundGrows ==
    ASSUME BucketTypeOK, LogGrows, BucketTypeOK', NEW u \in UID, NEW n \in Nat,
           Found(u, n), n <= Revision(u)
    PROVE  Found(u, n)' /\ n <= Revision(u)' /\ log'[u][n] = log[u][n]
<1>1. Len(log[u]) \in Nat /\ Len(log'[u]) \in Nat
  BY DEF BucketTypeOK
<1>2. n \in 1..Len(log[u])
  BY <1>1 DEF Found, Revision
<1> QED
  BY <1>1, <1>2 DEF LogGrows, Found, Revision

(* The acceptance side stays well typed under the steps of the others.     *)
LEMMA AcceptTypesKept ==
    ASSUME TypeOK, LogGrows, BucketTypeOK', UNCHANGED acceptVars
    PROVE  AcceptTypeOK'
<1>1. ASSUME NEW r \in Replica, acceptPc[r] \in {"markUpdate", "enrich", "publish"}
      PROVE  Found(event[r].uid, seen[r])' /\ seen'[r] <= Revision(event[r].uid)'
  <2>1. event[r].uid \in UID /\ seen[r] \in Nat
    BY <1>1 DEF TypeOK, AcceptTypeOK, Event
  <2>2. Found(event[r].uid, seen[r]) /\ seen[r] <= Revision(event[r].uid)
    BY <1>1 DEF TypeOK, AcceptTypeOK
  <2> QED
    BY <2>1, <2>2, FoundGrows DEF TypeOK, acceptVars, workerVars, Found, Revision
<1> QED
  BY <1>1 DEF TypeOK, acceptVars, workerVars, AcceptTypeOK

(* What a handler of an acceptance writes and publishes.                   *)
LEMMA AcceptanceType ==
    ASSUME TypeOK, NEW r \in Replica,
           acceptPc[r] \in {"markUpdate", "enrich", "publish"}
    PROVE  /\ event[r].uid \in UID
           /\ SeenVersion(r) \in Record
           /\ Enriched(r) \in Record
           /\ Acceptance(r) \in Write
<1>1. event[r] \in Event /\ event[r].uid \in UID /\ event[r].username \in User
  BY DEF TypeOK, AcceptTypeOK, Event
<1>2. seen[r] \in Nat /\ started[r] \in Nat
  BY DEF TypeOK, AcceptTypeOK
<1>3. seen[r] \in 1..Len(log[event[r].uid]) /\ Len(log[event[r].uid]) \in Nat
  BY <1>1, <1>2 DEF TypeOK, AcceptTypeOK, BucketTypeOK, Found, Revision
<1>4. SeenVersion(r) \in Version
  BY <1>1, <1>3 DEF TypeOK, BucketTypeOK, SeenVersion
<1>5. SeenVersion(r) \in Record
  BY <1>1, <1>4 DEF TypeOK, AcceptTypeOK, Found, SeenVersion, Version, Tombstone
<1>6. [SeenVersion(r) EXCEPT !.status = "accepted", !.by = event[r].username,
                             !.at = started[r]] \in Record
  BY <1>1, <1>2, <1>5 DEF Record
<1>7. Enriched(r) \in Record
  BY <1>5 DEF Enriched, Record
<1> QED
  BY <1>1, <1>2, <1>5, <1>6, <1>7 DEF Acceptance, Update, Write

(* A handler of an acceptance that returns keeps the types.                *)
LEMMA ReturnTypes ==
    ASSUME TypeOK, LogGrows, BucketTypeOK', NEW r \in Replica, Return(r),
           published' \in [UID -> Seq(Record)]
    PROVE  AcceptTypeOK'
<1>1. /\ acceptPc' \in [Replica -> AcceptPC]
      /\ event' \in [Replica -> Event \cup {None}]
      /\ started' \in [Replica -> Nat]
      /\ seen' \in [Replica -> Nat]
      /\ attempt' \in [Replica -> 0..MaxAttempts]
  BY AcceptAssumption DEF TypeOK, AcceptTypeOK, Return, AcceptPC
<1>2. ASSUME NEW q \in Replica
      PROVE  /\ acceptPc'[q] # "idle" => event'[q] \in Event
             /\ acceptPc'[q] \in {"markUpdate", "enrich", "publish"} =>
                   Found(event[q].uid, seen[q])' /\ seen'[q] <= Revision(event[q].uid)'
  <2>1. CASE q = r
    <3>1. acceptPc'[q] = "idle"
      BY <2>1 DEF Return, TypeOK, AcceptTypeOK
    <3> QED
      BY <3>1
  <2>2. CASE q # r
    <3>1. acceptPc'[q] = acceptPc[q] /\ event'[q] = event[q] /\ seen'[q] = seen[q]
      BY <2>2 DEF Return, TypeOK, AcceptTypeOK
    <3>2. CASE acceptPc[q] \in {"markUpdate", "enrich", "publish"}
      <4>1. event[q].uid \in UID /\ seen[q] \in Nat
        BY <3>2 DEF TypeOK, AcceptTypeOK, Event
      <4>2. Found(event[q].uid, seen[q]) /\ seen[q] <= Revision(event[q].uid)
        BY <3>2 DEF TypeOK, AcceptTypeOK
      <4>3. Found(event[q].uid, seen[q])' /\ seen'[q] <= Revision(event[q].uid)'
        <5>1. PICK u \in UID, n \in Nat : u = event[q].uid /\ n = seen[q]
          BY <4>1
        <5>2. Found(u, n) /\ n <= Revision(u) /\ BucketTypeOK
          BY <4>2, <5>1 DEF TypeOK
        <5>3. n > 0 /\ log'[u][n].status # "deleted" /\ n <= Len(log'[u])
          <6>1. Found(u, n)' /\ n <= Revision(u)'
            BY <5>2, FoundGrows
          <6> QED
            BY <6>1 DEF Found, Revision
        <5> QED
          BY <3>1, <5>1, <5>3 DEF Found, Revision
      <4> QED
        BY <3>1, <3>2, <4>3 DEF TypeOK, AcceptTypeOK
    <3> QED
      BY <3>1, <3>2 DEF TypeOK, AcceptTypeOK
  <2> QED
    BY <2>1, <2>2
<1> QED
  BY <1>1, <1>2 DEF AcceptTypeOK

(* A handler that moves on keeps the types, when what it has read, if      *)
(* anything, was found.                                                    *)
LEMMA GotoTypes ==
    ASSUME TypeOK, LogGrows, BucketTypeOK', NEW r \in Replica,
           NEW pc \in AcceptPC, AcceptGoto(r, pc),
           event' = event \/ \E e \in Event : event' = [event EXCEPT ![r] = e],
           event'[r] \in Event,
           started' \in [Replica -> Nat],
           attempt' \in [Replica -> 0..MaxAttempts],
           seen' \in [Replica -> Nat],
           \A q \in Replica \ {r} : seen'[q] = seen[q],
           pc \in {"markUpdate", "enrich", "publish"} =>
               Found(event[r].uid, seen[r])' /\ seen'[r] <= Revision(event[r].uid)',
           UNCHANGED published
    PROVE  AcceptTypeOK'
<1>1. /\ acceptPc' \in [Replica -> AcceptPC]
      /\ event' \in [Replica -> Event \cup {None}]
      /\ published' \in [UID -> Seq(Record)]
  BY DEF TypeOK, AcceptTypeOK, AcceptGoto
<1>2. ASSUME NEW q \in Replica
      PROVE  /\ acceptPc'[q] # "idle" => event'[q] \in Event
             /\ acceptPc'[q] \in {"markUpdate", "enrich", "publish"} =>
                   Found(event[q].uid, seen[q])' /\ seen'[q] <= Revision(event[q].uid)'
  <2>1. CASE q = r
    BY <2>1 DEF AcceptGoto, TypeOK, AcceptTypeOK
  <2>2. CASE q # r
    <3>1. acceptPc'[q] = acceptPc[q] /\ event'[q] = event[q] /\ seen'[q] = seen[q]
      BY <2>2 DEF AcceptGoto, TypeOK, AcceptTypeOK
    <3>2. CASE acceptPc[q] \in {"markUpdate", "enrich", "publish"}
      <4>1. event[q].uid \in UID /\ seen[q] \in Nat
        BY <3>2 DEF TypeOK, AcceptTypeOK, Event
      <4>2. Found(event[q].uid, seen[q]) /\ seen[q] <= Revision(event[q].uid)
        BY <3>2 DEF TypeOK, AcceptTypeOK
      <4>3. Found(event[q].uid, seen[q])' /\ seen'[q] <= Revision(event[q].uid)'
        <5>1. PICK u \in UID, n \in Nat : u = event[q].uid /\ n = seen[q]
          BY <4>1
        <5>2. Found(u, n) /\ n <= Revision(u) /\ BucketTypeOK
          BY <4>2, <5>1 DEF TypeOK
        <5>3. n > 0 /\ log'[u][n].status # "deleted" /\ n <= Len(log'[u])
          <6>1. Found(u, n)' /\ n <= Revision(u)'
            BY <5>2, FoundGrows
          <6> QED
            BY <6>1 DEF Found, Revision
        <5> QED
          BY <3>1, <5>1, <5>3 DEF Found, Revision
      <4> QED
        BY <3>1, <3>2, <4>3 DEF TypeOK, AcceptTypeOK
    <3> QED
      BY <3>1, <3>2 DEF TypeOK, AcceptTypeOK
  <2> QED
    BY <2>1, <2>2
<1> QED
  BY <1>1, <1>2 DEF AcceptTypeOK

(* So does one that receives an event.                                     *)
LEMMA ReceiveTypes ==
    ASSUME TypeOK, NEW r \in Replica, Receive(r)
    PROVE  BucketTypeOK' /\ LogGrows /\ AcceptTypeOK'
<1>1. PICK u \in UID, name \in User, t \in TokensOut \cup {None} :
        ReceiveEvent(r, [ uid |-> u, username |-> name, token |-> t ])
  BY DEF Receive
<1>2. t \in Claims \cup {None}
  <2>1. CASE t = None
    BY <2>1
  <2>2. CASE t \in TokensOut
    <3>1. PICK v \in UID : mail[v] = "delivered" /\ t = Token(v)
      BY <2>2 DEF TokensOut
    <3>2. issued[v] \in Record
      BY <3>1 DEF TypeOK, SendTypeOK
    <3> QED
      BY <3>1, <3>2 DEF Token, Claims, Record
  <2> QED
    BY <2>1, <2>2
<1>3. [ uid |-> u, username |-> name, token |-> t ] \in Event
  BY <1>2 DEF Event
<1>4. BucketTypeOK' /\ LogGrows
  BY <1>1, StillBucket DEF TypeOK, ReceiveEvent
<1>5. AcceptTypeOK'
  BY <1>1, <1>3, <1>4, GotoTypes
     DEF ReceiveEvent, TypeOK, AcceptTypeOK, AcceptPC
<1> QED
  BY <1>4, <1>5

(* So does one that makes a call.                                          *)
LEMMA AcceptStepTypes ==
    ASSUME TypeOK, NEW r \in Replica, AcceptStep(r)
    PROVE  BucketTypeOK' /\ LogGrows /\ AcceptTypeOK'
<1> DEFINE u == event[r].uid
<1>0. /\ started \in [Replica -> Nat] /\ seen \in [Replica -> Nat]
      /\ attempt \in [Replica -> 0..MaxAttempts]
      /\ published \in [UID -> Seq(Record)]
      /\ acceptPc[r] # "idle" => event[r] \in Event /\ u \in UID
      /\ now \in Nat /\ MaxAttempts \in Nat \ {0}
  BY AcceptAssumption DEF TypeOK, AcceptTypeOK, BucketTypeOK, Event
<1>1. CASE Load(r)
  <2>1. BucketTypeOK' /\ LogGrows
    BY <1>1, StillBucket DEF Load, TypeOK
  <2>2. CASE Return(r)
    BY <1>0, <1>1, <2>1, <2>2, ReturnTypes DEF Load
  <2>3. CASE /\ AcceptGoto(r, "markGet")
             /\ started' = [started EXCEPT ![r] = now]
             /\ attempt' = [attempt EXCEPT ![r] = 1]
             /\ UNCHANGED <<event, seen>>
    <3>1. started' \in [Replica -> Nat] /\ attempt' \in [Replica -> 0..MaxAttempts]
      BY <1>0, <2>3
    <3>2. event'[r] \in Event
      BY <1>0, <1>1, <2>3 DEF Load
    <3> QED
      BY <1>0, <1>1, <2>1, <2>3, <3>1, <3>2, GotoTypes DEF Load, AcceptPC
  <2> QED
    BY <1>1, <2>1, <2>2, <2>3 DEF Load
<1>2. CASE MarkGet(r)
  <2>1. BucketTypeOK' /\ LogGrows /\ UNCHANGED <<log, published>>
    BY <1>2, StillBucket DEF MarkGet, TypeOK, bucketVars
  <2>2. CASE Return(r)
    BY <1>0, <2>1, <2>2, ReturnTypes
  <2>3. ASSUME NEW n \in Readable(u), Found(u, n), AcceptGoto(r, "markUpdate"),
               seen' = [seen EXCEPT ![r] = n],
               UNCHANGED <<event, started, attempt>>
        PROVE  AcceptTypeOK'
    <3>1. u \in UID /\ event'[r] \in Event
      BY <1>0, <1>2, <2>3 DEF MarkGet
    <3>2. n \in Nat /\ n <= Revision(u)
      BY <2>3, <3>1, FoundTypes DEF TypeOK
    <3>3. seen' \in [Replica -> Nat] /\ seen'[r] = n
      BY <1>0, <2>3, <3>2
    <3>4. Found(event[r].uid, seen[r])' /\ seen'[r] <= Revision(event[r].uid)'
      BY <2>1, <2>3, <3>2, <3>3 DEF Found, Revision
    <3> QED
      BY <1>0, <2>1, <2>3, <3>1, <3>3, <3>4, GotoTypes DEF AcceptPC
  <2> QED
    BY <1>2, <2>1, <2>2, <2>3 DEF MarkGet
<1>3. CASE MarkUpdate(r)
  <2>1. Acceptance(r) \in Write
    BY <1>3, AcceptanceType DEF MarkUpdate
  <2>2. BucketTypeOK' /\ LogGrows /\ UNCHANGED published
    BY <1>3, <2>1, CallTypes DEF MarkUpdate, TypeOK
  <2>3. CASE Return(r)
    BY <1>0, <2>2, <2>3, ReturnTypes
  <2>4. CASE AcceptGoto(r, "enrich") /\ UNCHANGED <<event, started, seen, attempt>>
    <3>1. event'[r] \in Event /\ u \in UID
      BY <1>0, <1>3, <2>4 DEF MarkUpdate
    <3>2. Found(u, seen[r]) /\ seen[r] <= Revision(u) /\ seen[r] \in Nat
      BY <1>3 DEF MarkUpdate, TypeOK, AcceptTypeOK
    <3>3. Found(event[r].uid, seen[r])' /\ seen'[r] <= Revision(event[r].uid)'
      BY <2>2, <2>4, <3>1, <3>2, FoundGrows DEF TypeOK, Found, Revision
    <3> QED
      BY <1>0, <2>2, <2>4, <3>1, <3>3, GotoTypes DEF AcceptPC
  <2>5. CASE /\ attempt[r] < MaxAttempts
             /\ AcceptGoto(r, "markGet")
             /\ attempt' = [attempt EXCEPT ![r] = @ + 1]
             /\ UNCHANGED <<event, started, seen>>
    <3>1. event'[r] \in Event /\ attempt' \in [Replica -> 0..MaxAttempts]
      BY <1>0, <1>3, <2>5 DEF MarkUpdate
    <3> QED
      BY <1>0, <2>2, <2>5, <3>1, GotoTypes DEF AcceptPC
  <2> QED
    BY <1>3, <2>2, <2>3, <2>4, <2>5 DEF MarkUpdate, Conflict
<1>4. CASE Enrich(r)
  <2>1. BucketTypeOK' /\ LogGrows /\ UNCHANGED <<log, published>>
    BY <1>4, StillBucket DEF Enrich, TypeOK, bucketVars
  <2>2. CASE Return(r)
    BY <1>0, <2>1, <2>2, ReturnTypes
  <2>3. ASSUME NEW n \in Readable(u), Found(u, n), AcceptGoto(r, "publish"),
               seen' = [seen EXCEPT ![r] = n],
               UNCHANGED <<event, started, attempt>>
        PROVE  AcceptTypeOK'
    <3>1. u \in UID /\ event'[r] \in Event
      BY <1>0, <1>4, <2>3 DEF Enrich
    <3>2. n \in Nat /\ n <= Revision(u)
      BY <2>3, <3>1, FoundTypes DEF TypeOK
    <3>3. seen' \in [Replica -> Nat] /\ seen'[r] = n
      BY <1>0, <2>3, <3>2
    <3>4. Found(event[r].uid, seen[r])' /\ seen'[r] <= Revision(event[r].uid)'
      BY <2>1, <2>3, <3>2, <3>3 DEF Found, Revision
    <3> QED
      BY <1>0, <2>1, <2>3, <3>1, <3>3, <3>4, GotoTypes DEF AcceptPC
  <2> QED
    BY <1>4, <2>1, <2>2, <2>3 DEF Enrich
<1>5. CASE Publish(r)
  <2>1. BucketTypeOK' /\ LogGrows
    BY <1>5, StillBucket DEF Publish, TypeOK
  <2>2. published' \in [UID -> Seq(Record)]
    <3>1. u \in UID /\ Enriched(r) \in Record
      BY <1>5, AcceptanceType DEF Publish
    <3>2. Append(published[u], Enriched(r)) \in Seq(Record)
      BY <1>0, <3>1
    <3> QED
      BY <1>0, <1>5, <3>1, <3>2 DEF Publish
  <2> QED
    BY <1>5, <2>1, <2>2, ReturnTypes DEF Publish
<1> QED
  BY <1>1, <1>2, <1>3, <1>4, <1>5 DEF AcceptStep

-----------------------------------------------------------------------------
(* Type correctness of the service                                         *)

(* So does a crash.                                                        *)
LEMMA CrashTypes ==
    ASSUME TypeOK, NEW r \in Replica, Crash(r)
    PROVE  TypeOK' /\ LogGrows
<1>1. SendOnWire(r) \subseteq Write
  <2>1. CASE sendPc[r] \in {"putRecord", "putIndex", "undoRecord", "deleteRecord",
                            "deleteIndex"}
    <3>1. sendUid[r] \in UID /\ issued[sendUid[r]] \in Record
      BY <2>1 DEF TypeOK, SendTypeOK
    <3> QED
      BY <3>1, SendWrites DEF SendOnWire
  <2>2. CASE sendPc[r] \notin {"putRecord", "putIndex", "undoRecord", "deleteRecord",
                               "deleteIndex"}
    BY <2>2 DEF SendOnWire
  <2> QED
    BY <2>1, <2>2
<1>2. AcceptOnWire(r) \subseteq Write
  BY AcceptanceType DEF AcceptOnWire
<1>3. BucketTypeOK' /\ LogGrows
  BY <1>1, <1>2 DEF Crash, TypeOK, BucketTypeOK, LogGrows
<1>4. SendTypeOK'
  BY BucketAssumption DEF Crash, SendCrash, TypeOK, SendTypeOK, SendPC, Code
<1>5. AcceptTypeOK'
  BY <1>3, ReturnTypes DEF Crash, TypeOK, AcceptTypeOK
<1> QED
  BY <1>3, <1>4, <1>5 DEF TypeOK

(* So does every step.                                                     *)
LEMMA NextTypes ==
    ASSUME TypeOK, [Next]_vars
    PROVE  TypeOK' /\ LogGrows
<1>1. CASE SendNext /\ UNCHANGED acceptVars
  BY <1>1, SendNextTypes, AcceptTypesKept DEF TypeOK
<1>2. ASSUME NEW r \in Replica, Receive(r) \/ AcceptStep(r), UNCHANGED sendVars
      PROVE  TypeOK' /\ LogGrows
  <2>1. BucketTypeOK' /\ LogGrows /\ AcceptTypeOK'
    BY <1>2, ReceiveTypes, AcceptStepTypes
  <2>2. SendTypeOK'
    BY <1>2 DEF TypeOK, sendVars, SendTypeOK
  <2> QED
    BY <2>1, <2>2 DEF TypeOK
<1>3. CASE \E r \in Replica : Crash(r)
  BY <1>3, CrashTypes
<1>4. CASE (ApplyLate \/ Tick) /\ UNCHANGED <<sendVars, acceptVars>>
  <2>1. BucketTypeOK' /\ LogGrows
    <3>1. CASE ApplyLate
      BY <3>1, ApplyTypes DEF ApplyLate, TypeOK, BucketTypeOK
    <3>2. CASE Tick
      BY <3>2 DEF Tick, TypeOK, BucketTypeOK, LogGrows
    <3> QED
      BY <1>4, <3>1, <3>2
  <2>2. SendTypeOK'
    BY <1>4 DEF TypeOK, sendVars, SendTypeOK
  <2> QED
    BY <1>4, <2>1, <2>2, AcceptTypesKept DEF TypeOK
<1>5. CASE UNCHANGED vars
  <2>1. BucketTypeOK' /\ LogGrows
    BY <1>5, StillBucket DEF vars, TypeOK
  <2>2. SendTypeOK'
    BY <1>5 DEF vars, TypeOK, sendVars, SendTypeOK
  <2> QED
    BY <1>5, <2>1, <2>2, AcceptTypesKept DEF vars, TypeOK
<1> QED
  BY <1>1, <1>2, <1>3, <1>4, <1>5 DEF Next

(* The types hold at first.                                                *)
LEMMA InitTypes == Init => TypeOK
<1> SUFFICES ASSUME Init PROVE TypeOK
  OBVIOUS
<1>1. BucketTypeOK
  BY DEF Init, BucketInit, BucketTypeOK
<1>2. SendTypeOK
  BY BucketAssumption
     DEF Init, SendInit, SendTypeOK, SendPC, Code, MailState
<1>3. AcceptTypeOK
  BY AcceptAssumption DEF Init, AcceptInit, AcceptTypeOK, AcceptPC
<1> QED
  BY <1>1, <1>2, <1>3 DEF TypeOK

(* Every variable keeps its type, a handler that works has what it works   *)
(* on, and a version that a handler has read and is going to write from or *)
(* to publish is in the history of the record (the reads and writes of     *)
(* acceptance.go and invite_repository.go).                                *)
THEOREM TypeCorrect == Spec => []TypeOK
<1>1. Init => TypeOK
  BY InitTypes
<1>2. TypeOK /\ [Next]_vars => TypeOK'
  BY NextTypes
<1> QED
  BY <1>1, <1>2, PTL DEF Spec

(* No stored version is ever changed or removed: the history of a record   *)
(* only grows, under puts, deletes, conditional writes and late writes.    *)
THEOREM HistoryOnlyGrows == Spec => [][LogGrows]_vars
<1>1. TypeOK /\ [Next]_vars => [LogGrows]_vars
  BY NextTypes
<1> QED
  BY <1>1, TypeCorrect, PTL DEF Spec

-----------------------------------------------------------------------------
(* The ways in which the history of a record grows                         *)

LogStep(u) ==
    \/ log'[u] = log[u]
    \/ /\ log[u] = <<>>
       /\ \E v \in Record : v.status = "pending" /\ log'[u] = <<v>>
    \/ /\ Len(log[u]) = 1
       /\ \E v \in Record : Acceptor(v) /\ log'[u] = Append(log[u], v)
    \/ /\ log[u] # <<>>
       /\ log'[u] = Append(log[u], Tombstone)

(* The record of u is stored for the first time.                           *)
Stores(u) == log[u] = <<>> /\ log'[u] # <<>>

(* A record stays pending, then accepted at most once, then withdrawn at   *)
(* most once.                                                              *)
LEMMA ShapeKept ==
    ASSUME TypeOK, LogShape, \A u \in UID : LogStep(u)
    PROVE  LogShape'
<1> SUFFICES ASSUME NEW u \in UID, NEW n \in 1..Len(log'[u])
             PROVE  /\ n = 1 => log'[u][n].status = "pending"
                    /\ n = 2 => log'[u][n].status = "deleted" \/ Acceptor(log'[u][n])
                    /\ n > 2 => log'[u][n].status = "deleted"
  BY DEF LogShape, Revision, Acceptor
<1>1. log[u] \in Seq(Version) /\ Len(log[u]) \in Nat
  BY DEF TypeOK, BucketTypeOK
<1>2. \A i \in 1..Len(log[u]) :
        /\ i = 1 => log[u][i].status = "pending"
        /\ i = 2 => log[u][i].status = "deleted" \/ Acceptor(log[u][i])
        /\ i > 2 => log[u][i].status = "deleted"
  BY DEF LogShape, Revision
<1>3. CASE log'[u] = log[u]
  BY <1>2, <1>3
<1>4. ASSUME log[u] = <<>>, NEW v \in Record, v.status = "pending", log'[u] = <<v>>
      PROVE  n = 1 /\ log'[u][n].status = "pending"
  BY <1>4
<1>5. ASSUME Len(log[u]) = 1, NEW v \in Record, Acceptor(v), log'[u] = Append(log[u], v)
      PROVE  /\ n = 1 => log'[u][n] = log[u][1]
             /\ n = 2 => log'[u][n] = v
             /\ n \in 1..2
  <2>1. v \in Version
    BY DEF Version
  <2> QED
    BY <1>1, <1>5, <2>1
<1>6. ASSUME log[u] # <<>>, log'[u] = Append(log[u], Tombstone)
      PROVE  /\ n <= Len(log[u]) => log'[u][n] = log[u][n]
             /\ n = Len(log[u]) + 1 => log'[u][n] = Tombstone
             /\ n \in 1..Len(log[u]) + 1
             /\ Len(log[u]) >= 1
  <2>1. Tombstone \in Version
    BY DEF Version
  <2> QED
    BY <1>1, <1>6, <2>1
<1> QED
  <2>1. CASE \E v \in Record : /\ log[u] = <<>> /\ v.status = "pending"
                               /\ log'[u] = <<v>>
    BY <1>4, <2>1
  <2>2. CASE \E v \in Record : /\ Len(log[u]) = 1 /\ Acceptor(v)
                               /\ log'[u] = Append(log[u], v)
    BY <1>1, <1>2, <1>5, <2>2
  <2>3. CASE log[u] # <<>> /\ log'[u] = Append(log[u], Tombstone)
    <3>1. Tombstone.status = "deleted"
      BY DEF Tombstone
    <3> QED
      BY <1>1, <1>2, <1>6, <2>3, <3>1
  <2> QED
    BY <1>3, <2>1, <2>2, <2>3 DEF LogStep

(* A safe write, when the bucket handles it, grows one history by one of   *)
(* these steps; and only the put of its record stores it.                  *)
LEMMA ApplySafe ==
    ASSUME TypeOK, MintedOnce, NEW w \in Write, WriteSafe(w), Apply(w)
    PROVE  /\ \A u \in UID : LogStep(u)
           /\ \A u \in UID : Stores(u) => w = CreateRecord(u) /\ issued[u] # None
<1>1. CASE UNCHANGED log
  BY <1>1 DEF LogStep, Stores
<1>2. CASE /\ w.op = "put"
           /\ log' = [log EXCEPT ![w.uid] = Append(@, w.value)]
  <2>1. w.uid \in UID /\ w.value \in Version /\ w = Put(w.uid, w.value)
    BY <1>2 DEF Write, Put, Version
  <2>2. /\ log'[w.uid] = Append(log[w.uid], w.value)
        /\ \A u \in UID \ {w.uid} : log'[u] = log[u]
    BY <1>2, <2>1 DEF TypeOK, BucketTypeOK
  <2>3. CASE w.value = Tombstone /\ log[w.uid] # <<>>
    BY <2>2, <2>3 DEF LogStep, Stores
  <2>4. CASE w.value = issued[w.uid] /\ log[w.uid] = <<>>
    <3>1. issued[w.uid] # None /\ w.value \in Record /\ w.value.status = "pending"
      BY <2>1, <2>4, NoneAssumption DEF TypeOK, SendTypeOK, MintedOnce
    <3>2. log'[w.uid] = <<w.value>>
      BY <2>2, <2>4
    <3>3. w = CreateRecord(w.uid)
      BY <2>1, <2>4 DEF CreateRecord
    <3>4. LogStep(w.uid)
      BY <2>4, <3>1, <3>2 DEF LogStep
    <3> QED
      BY <2>2, <3>1, <3>3, <3>4 DEF LogStep, Stores
  <2> QED
    BY <1>2, <2>3, <2>4 DEF WriteSafe
<1>3. CASE /\ w.op = "update" /\ Matches(w)
           /\ log' = [log EXCEPT ![w.uid] = Append(@, w.value)]
  <2>1. w.uid \in UID /\ w.value \in Record /\ Acceptor(w.value) /\ w.rev = 1
    BY <1>3, WriteTypes DEF WriteSafe
  <2>2. /\ log'[w.uid] = Append(log[w.uid], w.value)
        /\ \A u \in UID \ {w.uid} : log'[u] = log[u]
    BY <1>3, <2>1 DEF TypeOK, BucketTypeOK
  <2>3. Len(log[w.uid]) = 1
    BY <1>3, <2>1 DEF Matches, Revision
  <2>4. LogStep(w.uid)
    BY <2>1, <2>2, <2>3 DEF LogStep
  <2>5. log[w.uid] # <<>>
    <3>1. log[w.uid] = <<>> => Len(log[w.uid]) = 0
      OBVIOUS
    <3> QED
      BY <2>3, <3>1
  <2> QED
    BY <2>2, <2>4, <2>5 DEF LogStep, Stores
<1> QED
  BY <1>1, <1>2, <1>3 DEF Apply

-----------------------------------------------------------------------------
(* The writes that are on their way stay safe                              *)

(* What handlers have on the wire is safe to apply, at any time.           *)
LEMMA WireSafe ==
    ASSUME Inv, NEW r \in Replica, NEW w \in SendOnWire(r) \cup AcceptOnWire(r)
    PROVE  w \in Write /\ WriteSafe(w)
<1> USE DEF Inv
<1>1. CASE w \in SendOnWire(r)
  <2> DEFINE u == sendUid[r]
  <2>1. sendPc[r] \in {"putRecord", "putIndex", "undoRecord", "deleteRecord",
                       "deleteIndex"}
    BY <1>1 DEF SendOnWire
  <2>2. u \in UID /\ issued[u] \in Record
    BY <2>1 DEF TypeOK, SendTypeOK
  <2>3. w \in Write
    BY <1>1, <2>1, <2>2, SendWrites DEF SendOnWire
  <2>4. CASE sendPc[r] = "putRecord"
    <3>1. w = CreateRecord(u)
      BY <1>1, <2>4 DEF SendOnWire
    <3>2. w.op = "put" /\ w.uid = u /\ w.value = issued[u]
      BY <3>1 DEF CreateRecord, Put
    <3>3. log[u] = <<>>
      BY <2>4 DEF MintedOnce
    <3> QED
      BY <2>3, <3>2, <3>3 DEF WriteSafe
  <2>5. CASE sendPc[r] \in {"undoRecord", "deleteRecord"}
    <3>1. w = DeleteRecord(u)
      BY <1>1, <2>5 DEF SendOnWire
    <3>2. w.op = "put" /\ w.uid = u /\ w.value = Tombstone
      BY <3>1 DEF DeleteRecord, Put
    <3>3. log[u] # <<>>
      BY <2>5 DEF MintedOnce
    <3> QED
      BY <2>3, <3>2, <3>3 DEF WriteSafe
  <2>6. CASE sendPc[r] \in {"putIndex", "deleteIndex"}
    <3>1. w = CreateIndex(u) \/ w = DeleteIndex(u)
      BY <1>1, <2>6 DEF SendOnWire
    <3>2. w.op = "index"
      BY <3>1 DEF CreateIndex, DeleteIndex, AddEntry, DropEntry
    <3> QED
      BY <2>3, <3>2 DEF WriteSafe
  <2> QED
    BY <2>1, <2>3, <2>4, <2>5, <2>6
<1>2. CASE w \in AcceptOnWire(r)
  <2>1. acceptPc[r] = "markUpdate" /\ w = Acceptance(r)
    BY <1>2 DEF AcceptOnWire
  <2>2. w \in Write /\ SeenVersion(r) \in Record
    BY <2>1, AcceptanceType
  <2>3. seen[r] = 1 /\ event[r].username \in User
    BY <2>1 DEF OneAnnouncer, TypeOK, AcceptTypeOK, Event
  <2>4. w.op = "update" /\ w.rev = 1
    BY <2>1, <2>3 DEF Acceptance, Update
  <2>5. Acceptor(w.value)
    BY <2>1, <2>2, <2>3 DEF Acceptance, Update, Acceptor, Record
  <2> QED
    BY <2>2, <2>4, <2>5 DEF WriteSafe
<1> QED
  BY <1>1, <1>2

(* It stays so.                                                            *)
LEMMA SafeStays ==
    ASSUME Inv, NEW w \in Write, WriteSafe(w),
           \A u \in UID : LogStep(u),
           \A u \in UID : Stores(u) => w # CreateRecord(u),
           \A u \in UID : issued[u] # None => issued'[u] = issued[u]
    PROVE  WriteSafe(w)'
<1>1. CASE w.op = "put"
  <2>1. w.uid \in UID /\ w.value \in Version /\ w = Put(w.uid, w.value)
    BY <1>1 DEF Write, Put, Version
  <2>2. CASE w.value = Tombstone /\ log[w.uid] # <<>>
    <3>1. log'[w.uid] # <<>>
      <4>1. log[w.uid] \in Seq(Version) /\ Tombstone \in Version
        BY <2>1 DEF Inv, TypeOK, BucketTypeOK, Version
      <4>2. Append(log[w.uid], Tombstone) # <<>>
        BY <4>1, AppendIsLonger
      <4>3. \A v \in Record : Append(log[w.uid], v) # <<>>
        BY <4>1, AppendIsLonger DEF Version
      <4> QED
        BY <2>1, <2>2, <4>2, <4>3 DEF LogStep
    <3> QED
      BY <1>1, <2>2, <3>1 DEF WriteSafe
  <2>3. CASE w.value = issued[w.uid] /\ log[w.uid] = <<>>
    <3>1. issued[w.uid] # None
      BY <2>1, <2>3, NoneAssumption
    <3>2. w = CreateRecord(w.uid)
      BY <2>1, <2>3 DEF CreateRecord
    <3>3. log'[w.uid] = <<>>
      BY <2>1, <2>3, <3>2 DEF Stores
    <3> QED
      BY <1>1, <2>1, <2>3, <3>1, <3>3 DEF WriteSafe
  <2> QED
    BY <1>1, <2>2, <2>3 DEF WriteSafe
<1>2. CASE w.op # "put"
  BY <1>2 DEF WriteSafe, Acceptor
<1> QED
  BY <1>1, <1>2

(* What a step has to be like for the writes on their way to stay safe.    *)
LEMMA LateStays ==
    ASSUME Inv,
           NEW S \in SUBSET Write, \A w \in S : WriteSafe(w),
           late' \subseteq late \cup S,
           \A u \in UID : LogStep(u),
           \A u \in UID : Stores(u) => CreateRecord(u) \notin late',
           \A u \in UID : issued[u] # None => issued'[u] = issued[u]
    PROVE  LateSafe'
<1> SUFFICES ASSUME NEW w \in late' PROVE WriteSafe(w)'
  BY DEF LateSafe
<1>1. w \in Write /\ WriteSafe(w)
  BY DEF Inv, TypeOK, BucketTypeOK, LateSafe
<1>2. \A u \in UID : Stores(u) => w # CreateRecord(u)
  OBVIOUS
<1> QED
  BY <1>1, <1>2, SafeStays

(* The put of the record of an invite is on the wire of the handler that   *)
(* minted it, before anything is stored under its key, and nowhere else.   *)
LEMMA PutIsOwned ==
    ASSUME Inv, NEW r \in Replica, NEW w \in SendOnWire(r) \cup AcceptOnWire(r),
           NEW u \in UID, w = CreateRecord(u)
    PROVE  /\ w \in SendOnWire(r) /\ sendUid[r] = u
           /\ log[u] = <<>> => sendPc[r] = "putRecord" /\ w \notin late
<1> USE DEF Inv
<1>1. w.op = "put" /\ w.uid = u
  BY DEF CreateRecord, Put
<1>2. w \notin AcceptOnWire(r)
  BY <1>1 DEF AcceptOnWire, Acceptance, Update
<1>3. sendPc[r] \in {"putRecord", "undoRecord", "deleteRecord"} /\ w.uid = sendUid[r]
  BY <1>1, <1>2 DEF SendOnWire, CreateRecord, CreateIndex, DeleteRecord, DeleteIndex,
                    Put, AddEntry, DropEntry
<1>4. log[u] = <<>> => sendPc[r] = "putRecord"
  BY <1>1, <1>3 DEF MintedOnce
<1>5. sendPc[r] = "putRecord" => w \notin late
  BY <1>1, <1>3 DEF MintedOnce
<1> QED
  BY <1>1, <1>2, <1>3, <1>4, <1>5

(* The effect of a call on the bucket, however it ends.                    *)
LEMMA CallEffect ==
    ASSUME Inv, NEW r \in Replica, NEW w \in SendOnWire(r) \cup AcceptOnWire(r),
           Acked(w) \/ Refused \/ TimedOut(w), UNCHANGED issued
    PROVE  /\ \A u \in UID : LogStep(u)
           /\ LateSafe'
           /\ \A u \in UID : Stores(u) => issued[u] # None
           /\ \A q \in Replica :
                 sendPc[q] = "putRecord" /\ (q # r \/ w \in AcceptOnWire(r)) =>
                     ~Stores(sendUid[q]) /\ CreateRecord(sendUid[q]) \notin late'
<1> USE DEF Inv
<1>1. w \in Write /\ WriteSafe(w)
  BY WireSafe
<1>2. /\ \A u \in UID : LogStep(u)
      /\ \A u \in UID : Stores(u) => w = CreateRecord(u) /\ issued[u] # None /\ late' = late
  <2>1. CASE Acked(w)
    BY <1>1, <2>1, ApplySafe DEF Acked
  <2>2. CASE UNCHANGED log
    BY <2>2 DEF LogStep, Stores
  <2> QED
    BY <2>1, <2>2 DEF Refused, TimedOut, bucketVars
<1>3. late' \subseteq late \cup {w}
  BY DEF Acked, Refused, TimedOut, bucketVars
<1>4. \A u \in UID : Stores(u) => CreateRecord(u) \notin late'
  BY <1>2, PutIsOwned DEF Stores
<1>5. LateSafe'
  BY <1>1, <1>2, <1>3, <1>4, LateStays
<1>6. ASSUME NEW q \in Replica, sendPc[q] = "putRecord", q # r \/ w \in AcceptOnWire(r)
      PROVE  ~Stores(sendUid[q]) /\ CreateRecord(sendUid[q]) \notin late'
  <2>1. sendUid[q] \in UID /\ CreateRecord(sendUid[q]) \notin late
    BY <1>6 DEF TypeOK, SendTypeOK, MintedOnce
  <2>2. w # CreateRecord(sendUid[q])
    <3>1. CASE q # r
      BY <2>1, <3>1, PutIsOwned DEF MintedOnce
    <3>2. CASE w \in AcceptOnWire(r)
      BY <3>2 DEF AcceptOnWire, Acceptance, Update, CreateRecord, Put
    <3> QED
      BY <1>6, <3>1, <3>2
  <2> QED
    BY <1>2, <1>3, <2>1, <2>2
<1> QED
  BY <1>2, <1>5, <1>6

(* What writes nothing changes no history.                                 *)
LEMMA StillEffect ==
    ASSUME Inv, UNCHANGED <<log, late>>,
           \A u \in UID : issued[u] # None => issued'[u] = issued[u]
    PROVE  /\ \A u \in UID : LogStep(u) /\ ~Stores(u)
           /\ LateSafe'
<1>1. \A u \in UID : LogStep(u) /\ ~Stores(u)
  BY DEF LogStep, Stores
<1>2. \A u \in UID : LogStep(u)
  BY <1>1
<1>3. \A u \in UID : Stores(u) => CreateRecord(u) \notin late'
  BY <1>1
<1>4. PICK S \in SUBSET Write : S = {}
  OBVIOUS
<1>5. late' \subseteq late \cup S /\ \A w \in S : WriteSafe(w)
  BY <1>4
<1>6. LateSafe'
  BY <1>2, <1>3, <1>5, LateStays
<1> QED
  BY <1>1, <1>6

(* What a step has to be like for the UIDs to stay minted once.            *)
LEMMA MintedStays ==
    ASSUME Inv, TypeOK', \A u \in UID : LogStep(u), UNCHANGED issued,
           \A u \in UID : Stores(u) => issued[u] # None,
           \A q \in Replica : sendUid'[q] \in {sendUid[q], None},
           \A q \in Replica :
               sendPc'[q] = "putRecord" =>
                   /\ sendPc[q] = "putRecord" /\ sendUid'[q] = sendUid[q]
                   /\ ~Stores(sendUid[q]) /\ CreateRecord(sendUid[q]) \notin late',
           \A q \in Replica :
               sendPc'[q] \notin {"idle", "putRecord", "reply"} =>
                   /\ sendUid'[q] = sendUid[q]
                   /\ \/ sendPc[q] \notin {"idle", "putRecord", "reply"}
                      \/ log'[sendUid[q]] # <<>>
    PROVE  MintedOnce'
<1> USE DEF Inv
<1>1. \A u \in UID : issued'[u] = None => log'[u] = <<>>
  BY DEF MintedOnce, Stores
<1>2. \A u \in UID : issued'[u] # None => issued'[u].status = "pending"
  BY DEF MintedOnce
<1>3. \A r, q \in Replica : sendUid'[r] \in UID /\ sendUid'[r] = sendUid'[q] => r = q
  BY BucketAssumption DEF MintedOnce
<1>4. ASSUME NEW q \in Replica, sendPc'[q] = "putRecord"
      PROVE  log'[sendUid'[q]] = <<>> /\ CreateRecord(sendUid[q])' \notin late'
  <2>1. sendPc[q] = "putRecord" /\ sendUid'[q] = sendUid[q]
    BY <1>4
  <2>2. log[sendUid[q]] = <<>>
    BY <2>1 DEF MintedOnce
  <2>3. log'[sendUid[q]] = <<>>
    BY <1>4, <2>2 DEF Stores
  <2> QED
    BY <1>4, <2>1, <2>3 DEF CreateRecord
<1>5. ASSUME NEW q \in Replica, sendPc'[q] \notin {"idle", "putRecord", "reply"}
      PROVE  log'[sendUid'[q]] # <<>>
  <2>1. CASE log'[sendUid[q]] # <<>>
    BY <1>5, <2>1
  <2>2. CASE sendPc[q] \notin {"idle", "putRecord", "reply"}
    <3>1. sendUid[q] \in UID /\ log[sendUid[q]] # <<>>
      BY <2>2 DEF TypeOK, SendTypeOK, MintedOnce
    <3>2. log[sendUid[q]] \in Seq(Version)
      BY <3>1 DEF TypeOK, BucketTypeOK
    <3>3. \A v \in Version : Append(log[sendUid[q]], v) # <<>>
      BY <3>2, AppendIsLonger
    <3>4. log'[sendUid[q]] # <<>>
      BY <3>1, <3>3 DEF LogStep, Version
    <3> QED
      BY <1>5, <3>4
  <2> QED
    BY <1>5, <2>1, <2>2
<1> QED
  BY <1>1, <1>2, <1>3, <1>4, <1>5 DEF MintedOnce

(* A handler of a send moves on, after a call on the bucket.               *)
LEMMA SendCallStays ==
    ASSUME Inv, TypeOK', NEW r \in Replica, NEW w \in SendOnWire(r),
           Acked(w) \/ Refused \/ TimedOut(w),
           UNCHANGED <<issued, sendUid>>,
           NEW pc \in SendPC, pc # "putRecord",
           sendPc' = [sendPc EXCEPT ![r] = pc],
           \/ pc \in {"idle", "reply"}
           \/ sendPc[r] \notin {"idle", "putRecord", "reply"}
           \/ log'[sendUid[r]] # <<>>
    PROVE  (\A u \in UID : LogStep(u)) /\ LateSafe' /\ MintedOnce'
<1>1. /\ \A u \in UID : LogStep(u)
      /\ LateSafe'
      /\ \A u \in UID : Stores(u) => issued[u] # None
      /\ \A q \in Replica :
            sendPc[q] = "putRecord" /\ q # r =>
                ~Stores(sendUid[q]) /\ CreateRecord(sendUid[q]) \notin late'
  BY CallEffect
<1>2. sendPc'[r] = pc /\ \A q \in Replica \ {r} : sendPc'[q] = sendPc[q]
  BY DEF Inv, TypeOK, SendTypeOK
<1>3. \A q \in Replica :
        sendPc'[q] = "putRecord" =>
            /\ sendPc[q] = "putRecord" /\ sendUid'[q] = sendUid[q]
            /\ ~Stores(sendUid[q]) /\ CreateRecord(sendUid[q]) \notin late'
  BY <1>1, <1>2
<1>4. \A q \in Replica :
        sendPc'[q] \notin {"idle", "putRecord", "reply"} =>
            /\ sendUid'[q] = sendUid[q]
            /\ \/ sendPc[q] \notin {"idle", "putRecord", "reply"}
               \/ log'[sendUid[q]] # <<>>
  BY <1>2
<1>5. \A q \in Replica : sendUid'[q] \in {sendUid[q], None}
  OBVIOUS
<1>6. MintedOnce'
  BY <1>1, <1>3, <1>4, <1>5, MintedStays
<1> QED
  BY <1>1, <1>6

(* A handler of a send moves on, and the bucket has not changed.           *)
LEMMA SendStillStays ==
    ASSUME Inv, TypeOK', NEW r \in Replica, UNCHANGED <<log, late, issued>>,
           \A q \in Replica \ {r} : sendPc'[q] = sendPc[q] /\ sendUid'[q] = sendUid[q],
           \/ sendPc'[r] \in {"idle", "reply"} /\ sendUid'[r] \in {sendUid[r], None}
           \/ /\ sendPc'[r] # "putRecord" /\ sendUid'[r] = sendUid[r]
              /\ sendPc[r] \notin {"idle", "putRecord", "reply"}
    PROVE  (\A u \in UID : LogStep(u)) /\ LateSafe' /\ MintedOnce'
<1>1. (\A u \in UID : LogStep(u) /\ ~Stores(u)) /\ LateSafe'
  BY StillEffect
<1>2. \A q \in Replica :
        sendPc'[q] = "putRecord" =>
            /\ sendPc[q] = "putRecord" /\ sendUid'[q] = sendUid[q]
            /\ ~Stores(sendUid[q]) /\ CreateRecord(sendUid[q]) \notin late'
  BY <1>1 DEF Inv, TypeOK, SendTypeOK, MintedOnce
<1>3. \A q \in Replica :
        sendPc'[q] \notin {"idle", "putRecord", "reply"} =>
            /\ sendUid'[q] = sendUid[q]
            /\ \/ sendPc[q] \notin {"idle", "putRecord", "reply"}
               \/ log'[sendUid[q]] # <<>>
  OBVIOUS
<1>4. \A q \in Replica : sendUid'[q] \in {sendUid[q], None}
  OBVIOUS
<1>5. (\A u \in UID : LogStep(u)) /\ (\A u \in UID : Stores(u) => issued[u] # None)
  BY <1>1
<1>6. MintedOnce'
  BY <1>2, <1>3, <1>4, <1>5, MintedStays
<1> QED
  BY <1>1, <1>6

(* The calls of send_invite are safe.                                      *)
LEMMA SendStepSafe ==
    ASSUME Inv, TypeOK', NEW r \in Replica, SendStep(r)
    PROVE  (\A u \in UID : LogStep(u)) /\ LateSafe' /\ MintedOnce'
<1> DEFINE u == sendUid[r]
<1>1. CASE PutRecord(r)
  <2>1. CreateRecord(u) \in SendOnWire(r) /\ UNCHANGED <<issued, sendUid>>
    BY <1>1 DEF PutRecord, SendOnWire, Goto, Answer
  <2>2. CASE Acked(CreateRecord(u)) /\ Goto(r, "putIndex")
    <3>1. u \in UID /\ issued[u] \in Record /\ log[u] \in Seq(Version)
      BY <1>1 DEF PutRecord, Inv, TypeOK, SendTypeOK, BucketTypeOK
    <3>2. log'[u] = Append(log[u], issued[u])
      BY <2>2, <3>1 DEF Acked, Apply, CreateRecord, Put, Inv, TypeOK, BucketTypeOK
    <3>3. \A v \in Version : Append(log[u], v) # <<>>
      BY <3>1, AppendIsLonger
    <3>4. log'[u] # <<>>
      BY <3>1, <3>2, <3>3 DEF Version
    <3> QED
      BY <2>1, <2>2, <3>4, SendCallStays DEF Goto, SendPC
  <2>3. CASE (Refused \/ TimedOut(CreateRecord(u))) /\ Answer(r, "internal_error")
    BY <2>1, <2>3, SendCallStays DEF Answer, SendPC
  <2> QED
    BY <1>1, <2>2, <2>3 DEF PutRecord
<1>2. CASE PutIndex(r)
  <2>1. CreateIndex(u) \in SendOnWire(r) /\ UNCHANGED <<issued, sendUid>>
    BY <1>2 DEF PutIndex, SendOnWire, Goto, Answer
  <2>2. PICK pc \in {"requestEmail", "undoRecord", "reply"} :
          sendPc' = [sendPc EXCEPT ![r] = pc]
    BY <1>2 DEF PutIndex, Goto, Answer
  <2>3. sendPc[r] = "putIndex" /\ pc \in SendPC
    BY <1>2, <2>2 DEF PutIndex, SendPC
  <2> QED
    BY <1>2, <2>1, <2>2, <2>3, SendCallStays DEF PutIndex
<1>3. CASE UndoRecord(r)
  <2>1. DeleteRecord(u) \in SendOnWire(r) /\ UNCHANGED <<issued, sendUid>>
    BY <1>3 DEF UndoRecord, SendOnWire, Answer
  <2> QED
    BY <1>3, <2>1, SendCallStays DEF UndoRecord, Answer, SendPC
<1>4. CASE RequestEmail(r) \/ AwaitEmail(r) \/ FindRecord(r)
  <2>1. UNCHANGED <<log, late, issued>>
    BY <1>4 DEF RequestEmail, AwaitEmail, FindRecord, Refused, bucketVars
  <2>2. PICK pc \in {"awaitEmail", "findRecord", "deleteRecord", "reply"} :
          sendPc' = [sendPc EXCEPT ![r] = pc] /\ sendUid' = sendUid
    BY <1>4 DEF RequestEmail, AwaitEmail, FindRecord, Goto, Answer
  <2>3. sendPc[r] \notin {"idle", "putRecord", "reply"}
    BY <1>4 DEF RequestEmail, AwaitEmail, FindRecord
  <2>4. sendPc'[r] = pc /\ \A q \in Replica \ {r} : sendPc'[q] = sendPc[q]
    BY <2>2 DEF Inv, TypeOK, SendTypeOK
  <2> QED
    BY <2>1, <2>2, <2>3, <2>4, SendStillStays
<1>5. CASE RemoveRecord(r)
  <2>1. DeleteRecord(u) \in SendOnWire(r) /\ UNCHANGED <<issued, sendUid>>
    BY <1>5 DEF RemoveRecord, SendOnWire, Goto, Answer
  <2>2. PICK pc \in {"deleteIndex", "reply"} : sendPc' = [sendPc EXCEPT ![r] = pc]
    BY <1>5 DEF RemoveRecord, Goto, Answer
  <2>3. sendPc[r] = "deleteRecord" /\ pc \in SendPC
    BY <1>5, <2>2 DEF RemoveRecord, SendPC
  <2> QED
    BY <1>5, <2>1, <2>2, <2>3, SendCallStays DEF RemoveRecord
<1>6. CASE RemoveIndex(r)
  <2>1. DeleteIndex(u) \in SendOnWire(r) /\ UNCHANGED <<issued, sendUid>>
    BY <1>6 DEF RemoveIndex, SendOnWire, Answer
  <2> QED
    BY <1>6, <2>1, SendCallStays DEF RemoveIndex, Answer, SendPC
<1>7. CASE Reply(r)
  <2>1. UNCHANGED <<log, late, issued>>
    BY <1>7 DEF Reply, bucketVars
  <2>2. /\ sendPc'[r] = "idle" /\ sendUid'[r] = None
        /\ \A q \in Replica \ {r} : sendPc'[q] = sendPc[q] /\ sendUid'[q] = sendUid[q]
    BY <1>7 DEF Reply, Inv, TypeOK, SendTypeOK
  <2> QED
    BY <2>1, <2>2, SendStillStays
<1> QED
  BY <1>1, <1>2, <1>3, <1>4, <1>5, <1>6, <1>7 DEF SendStep

(* So is a new invite.                                                     *)
LEMMA IssueSafe ==
    ASSUME Inv, TypeOK', NEW r \in Replica, NEW u \in UID, NEW e \in Email,
           NEW name \in User \cup {None}, NEW d \in RequestDays, Issue(r, u, e, name, d)
    PROVE  (\A v \in UID : LogStep(v)) /\ LateSafe' /\ MintedOnce'
<1> USE DEF Inv
<1> DEFINE rec == NewRecord(e, name, d, now)
<1>1. /\ UNCHANGED <<log, late>> /\ issued[u] = None /\ issued'[u] = rec
      /\ \A v \in UID \ {u} : issued'[v] = issued[v]
      /\ sendPc'[r] = "putRecord" /\ sendUid'[r] = u
      /\ \A q \in Replica \ {r} : sendPc'[q] = sendPc[q] /\ sendUid'[q] = sendUid[q]
  BY DEF Issue, bucketVars, TypeOK, SendTypeOK
<1>2. rec \in Record /\ rec.status = "pending" /\ rec # None
  <2>1. rec \in Record
    BY NewRecordType DEF TypeOK, BucketTypeOK
  <2>2. rec.status = "pending"
    BY DEF NewRecord
  <2> QED
    BY <2>1, <2>2, NoneAssumption DEF Version
<1>3. (\A v \in UID : LogStep(v)) /\ LateSafe'
  BY <1>1, StillEffect
<1>4. \A q \in Replica : sendPc[q] \notin {"idle", "reply"} => sendUid[q] # u
  BY <1>1, NoneAssumption DEF TypeOK, SendTypeOK, Version
<1>5. \A q \in Replica : sendUid[q] # u
  BY <1>1, NoneAssumption DEF TypeOK, SendTypeOK, Version
<1>6. log[u] = <<>>
  BY <1>1 DEF MintedOnce
<1>7. CreateRecord(u)' \notin late'
  <2>1. SUFFICES ASSUME NEW w \in late, w = CreateRecord(u)' PROVE FALSE
    BY <1>1
  <2>2. w.op = "put" /\ w.uid = u /\ w.value = rec
    BY <1>1, <2>1 DEF CreateRecord, Put
  <2>3. rec # Tombstone
    BY <1>2 DEF Tombstone
  <2>4. WriteSafe(w)
    BY <2>1 DEF LateSafe
  <2> QED
    BY <1>1, <1>2, <2>2, <2>3, <2>4 DEF WriteSafe
<1>8. \A v \in UID : issued'[v] = None => log'[v] = <<>>
  BY <1>1, <1>2 DEF MintedOnce
<1>9. \A v \in UID : issued'[v] # None => issued'[v].status = "pending"
  BY <1>1, <1>2 DEF MintedOnce
<1>10. \A q, p \in Replica : sendUid'[q] \in UID /\ sendUid'[q] = sendUid'[p] => q = p
  BY <1>1, <1>5 DEF MintedOnce
<1>11. ASSUME NEW q \in Replica, sendPc'[q] = "putRecord"
       PROVE  log'[sendUid'[q]] = <<>> /\ CreateRecord(sendUid[q])' \notin late'
  <2>1. CASE q = r
    BY <1>1, <1>6, <1>7, <2>1 DEF CreateRecord
  <2>2. CASE q # r
    <3>1. /\ sendPc[q] = "putRecord" /\ sendUid'[q] = sendUid[q]
          /\ sendUid[q] \in UID /\ sendUid[q] # u
      BY <1>1, <1>5, <1>11, <2>2 DEF TypeOK, SendTypeOK
    <3>2. log[sendUid[q]] = <<>> /\ CreateRecord(sendUid[q]) \notin late
      BY <3>1 DEF MintedOnce
    <3>3. CreateRecord(sendUid[q])' = CreateRecord(sendUid[q])
      BY <1>1, <3>1 DEF CreateRecord
    <3> QED
      BY <1>1, <3>1, <3>2, <3>3
  <2> QED
    BY <2>1, <2>2
<1>12. \A q \in Replica :
         sendPc'[q] \notin {"idle", "putRecord", "reply"} => log'[sendUid'[q]] # <<>>
  BY <1>1 DEF MintedOnce
<1> QED
  BY <1>3, <1>8, <1>9, <1>10, <1>11, <1>12 DEF MintedOnce

(* So are all steps around send_invite.                                    *)
LEMMA SendNextSafe ==
    ASSUME Inv, TypeOK', SendNext
    PROVE  (\A u \in UID : LogStep(u)) /\ LateSafe' /\ MintedOnce'
<1>1. ASSUME NEW r \in Replica, NEW c \in Code, Reject(r, c)
      PROVE  (\A u \in UID : LogStep(u)) /\ LateSafe' /\ MintedOnce'
  <2>1. /\ UNCHANGED <<log, late, issued, sendUid>>
        /\ sendPc'[r] = "reply"
        /\ \A q \in Replica \ {r} : sendPc'[q] = sendPc[q]
    BY <1>1 DEF Reject, Answer, bucketVars, Inv, TypeOK, SendTypeOK
  <2> QED
    BY <2>1, SendStillStays
<1>2. ASSUME NEW v \in UID, EmailService(v)
      PROVE  (\A u \in UID : LogStep(u)) /\ LateSafe' /\ MintedOnce'
  <2>1. UNCHANGED <<log, late, issued, sendUid, sendPc>>
    BY <1>2 DEF EmailService, bucketVars, handlerVars
  <2>2. (\A u \in UID : LogStep(u)) /\ LateSafe'
    BY <2>1, StillEffect
  <2>3. MintedOnce'
    BY <2>1 DEF Inv, MintedOnce, CreateRecord
  <2> QED
    BY <2>2, <2>3
<1> QED
  BY <1>1, <1>2, SendStepSafe, IssueSafe DEF SendNext

(* The acceptance side leaves the minting of UIDs alone.                   *)
LEMMA AcceptStepSafe ==
    ASSUME Inv, TypeOK', NEW r \in Replica, Receive(r) \/ AcceptStep(r),
           UNCHANGED sendVars
    PROVE  (\A u \in UID : LogStep(u)) /\ LateSafe' /\ MintedOnce'
<1>1. UNCHANGED <<issued, sendUid, sendPc>>
  BY DEF sendVars
<1>2. CASE MarkUpdate(r)
  <2> DEFINE w == Acceptance(r)
  <2>1. w \in AcceptOnWire(r) /\ (Acked(w) \/ Refused \/ TimedOut(w))
    BY <1>2 DEF MarkUpdate, AcceptOnWire
  <2>2. /\ \A u \in UID : LogStep(u)
        /\ LateSafe'
        /\ \A u \in UID : Stores(u) => issued[u] # None
        /\ \A q \in Replica :
              sendPc[q] = "putRecord" =>
                  ~Stores(sendUid[q]) /\ CreateRecord(sendUid[q]) \notin late'
    BY <1>1, <2>1, CallEffect
  <2> QED
    BY <1>1, <2>2, MintedStays
<1>3. CASE ~MarkUpdate(r)
  <2>1. UNCHANGED <<log, late>>
    BY <1>3 DEF Receive, ReceiveEvent, AcceptStep, Load, MarkGet, Enrich, Publish,
                bucketVars
  <2>2. (\A u \in UID : LogStep(u)) /\ LateSafe'
    BY <1>1, <2>1, StillEffect
  <2>3. MintedOnce'
    BY <1>1, <2>1 DEF Inv, MintedOnce, CreateRecord
  <2> QED
    BY <2>2, <2>3
<1> QED
  BY <1>2, <1>3

(* A process stops, with writes on the wire.                               *)
LEMMA CrashSafe ==
    ASSUME Inv, TypeOK', NEW r \in Replica, Crash(r)
    PROVE  (\A u \in UID : LogStep(u)) /\ LateSafe' /\ MintedOnce'
<1>1. PICK S \in SUBSET (SendOnWire(r) \cup AcceptOnWire(r)) : late' = late \cup S
  BY DEF Crash
<1>2. /\ UNCHANGED <<log, issued>>
      /\ sendPc'[r] = "idle" /\ sendUid'[r] = None
      /\ \A q \in Replica \ {r} : sendPc'[q] = sendPc[q] /\ sendUid'[q] = sendUid[q]
  BY DEF Crash, SendCrash, Inv, TypeOK, SendTypeOK
<1>3. \A u \in UID : LogStep(u) /\ ~Stores(u)
  BY <1>2 DEF LogStep, Stores
<1>4. LateSafe'
  <2>1. S \in SUBSET Write /\ \A w \in S : WriteSafe(w)
    BY <1>1, WireSafe
  <2> QED
    BY <1>1, <1>2, <1>3, <2>1, LateStays
<1>5. ASSUME NEW q \in Replica, sendPc'[q] = "putRecord"
      PROVE  /\ sendPc[q] = "putRecord" /\ sendUid'[q] = sendUid[q]
             /\ CreateRecord(sendUid[q]) \notin late'
  <2>1. q # r /\ sendPc[q] = "putRecord" /\ sendUid'[q] = sendUid[q]
    BY <1>2, <1>5
  <2>2. sendUid[q] \in UID /\ CreateRecord(sendUid[q]) \notin late
    BY <2>1 DEF Inv, TypeOK, SendTypeOK, MintedOnce
  <2>3. \A w \in S : w # CreateRecord(sendUid[q])
    BY <1>1, <2>1, <2>2, PutIsOwned DEF Inv, MintedOnce
  <2> QED
    BY <1>1, <2>1, <2>2, <2>3
<1>6. \A q \in Replica :
        sendPc'[q] = "putRecord" =>
            /\ sendPc[q] = "putRecord" /\ sendUid'[q] = sendUid[q]
            /\ ~Stores(sendUid[q]) /\ CreateRecord(sendUid[q]) \notin late'
  BY <1>3, <1>5 DEF Inv, TypeOK, SendTypeOK
<1>7. MintedOnce'
  <2>1. \A q \in Replica : sendUid'[q] \in {sendUid[q], None}
    BY <1>2
  <2>2. \A q \in Replica :
          sendPc'[q] \notin {"idle", "putRecord", "reply"} =>
              /\ sendUid'[q] = sendUid[q]
              /\ \/ sendPc[q] \notin {"idle", "putRecord", "reply"}
                 \/ log'[sendUid[q]] # <<>>
    BY <1>2
  <2>3. (\A u \in UID : LogStep(u)) /\ (\A u \in UID : Stores(u) => issued[u] # None)
    BY <1>3
  <2> QED
    BY <1>2, <1>6, <2>1, <2>2, <2>3, MintedStays
<1> QED
  BY <1>3, <1>4, <1>7

(* A write whose caller is gone reaches the bucket.                        *)
LEMMA ApplyLateSafe ==
    ASSUME Inv, TypeOK', ApplyLate, UNCHANGED sendVars
    PROVE  (\A u \in UID : LogStep(u)) /\ LateSafe' /\ MintedOnce'
<1>1. PICK w \in late : Apply(w) /\ late' = late \ {w}
  BY DEF ApplyLate
<1>2. w \in Write /\ WriteSafe(w)
  BY DEF Inv, TypeOK, BucketTypeOK, LateSafe
<1>3. /\ \A u \in UID : LogStep(u)
      /\ \A u \in UID : Stores(u) => w = CreateRecord(u) /\ issued[u] # None
  BY <1>1, <1>2, ApplySafe DEF Inv
<1>4. UNCHANGED <<issued, sendUid, sendPc>>
  BY DEF sendVars
<1>5. \A u \in UID : Stores(u) => CreateRecord(u) \notin late'
  BY <1>1, <1>3
<1>6. LateSafe'
  <2>1. PICK S \in SUBSET Write : S = {}
    OBVIOUS
  <2>2. late' \subseteq late \cup S /\ \A v \in S : WriteSafe(v)
    BY <1>1, <2>1
  <2> QED
    BY <1>3, <1>4, <1>5, <2>2, LateStays
<1>7. \A q \in Replica :
        sendPc[q] = "putRecord" =>
            ~Stores(sendUid[q]) /\ CreateRecord(sendUid[q]) \notin late'
  BY <1>1, <1>3 DEF Inv, TypeOK, SendTypeOK, MintedOnce
<1>8. MintedOnce'
  BY <1>3, <1>4, <1>7, MintedStays
<1> QED
  BY <1>3, <1>6, <1>8

-----------------------------------------------------------------------------
(* One acceptance, one announcement                                        *)

(* An acceptance that was stored stays in the history of the record.       *)
LEMMA AcceptedStays ==
    ASSUME TypeOK, TypeOK', LogGrows, NEW u \in UID, NEW n \in Nat \ {0}, Accepted(u, n)
    PROVE  Accepted(u, n)'
<1>1. Len(log[u]) \in Nat /\ Len(log'[u]) \in Nat
  BY DEF TypeOK, BucketTypeOK
<1>2. DOMAIN log[u] = 1..Len(log[u]) /\ DOMAIN log'[u] = 1..Len(log'[u])
  BY DEF TypeOK, BucketTypeOK
<1> QED
  BY <1>1, <1>2 DEF LogGrows, Accepted

(* The version that a turn of MarkAccepted writes from is the first one.   *)
LEMMA PendingIsFirst ==
    ASSUME TypeOK, LogShape, NEW u \in UID, NEW n \in Readable(u), Found(u, n),
           log[u][n].status # "accepted"
    PROVE  n = 1
<1>1. n \in Nat /\ n <= Revision(u)
  BY FoundTypes DEF TypeOK
<1>2. n \in 1..Revision(u) /\ log[u][n].status # "deleted"
  BY <1>1 DEF Found, Revision, TypeOK, BucketTypeOK
<1> QED
  BY <1>1, <1>2 DEF LogShape, Acceptor

(* What a step that neither stores nor announces an acceptance is like.    *)
LEMMA QuietStays ==
    ASSUME Inv, TypeOK', LogGrows,
           UNCHANGED published,
           \A q \in Replica :
               acceptPc'[q] \in {"enrich", "publish"} =>
                   acceptPc[q] \in {"enrich", "publish"} /\ event'[q] = event[q],
           \A q \in Replica :
               acceptPc'[q] = "markUpdate" =>
                   seen'[q] = 1 \/ (acceptPc[q] = "markUpdate" /\ seen'[q] = seen[q])
    PROVE  OneAnnouncer'
<1> USE DEF Inv
<1>1. \A q \in Replica, u \in UID : Announcing(q, u)' => Announcing(q, u)
  BY DEF Announcing
<1>2. \A u \in UID : Accepted(u, 2) => Accepted(u, 2)'
  BY AcceptedStays
<1>3. \A q \in Replica : acceptPc'[q] = "markUpdate" => seen'[q] = 1
  BY DEF OneAnnouncer
<1>4. ASSUME NEW u \in UID
      PROVE  /\ \A q \in Replica :
                   Announcing(q, u)' => Accepted(u, 2)' /\ published'[u] = <<>>
             /\ \A q, p \in Replica : Announcing(q, u)' /\ Announcing(p, u)' => q = p
             /\ published'[u] # <<>> => Accepted(u, 2)'
             /\ Len(published'[u]) <= 1
  BY <1>1, <1>2 DEF OneAnnouncer
<1> QED
  BY <1>3, <1>4 DEF OneAnnouncer

(* The conditional write of an acceptance that succeeds: nobody has        *)
(* announced the invite, or is going to, and the writer is going to.       *)
LEMMA AcceptingStays ==
    ASSUME Inv, TypeOK', LogGrows, NEW r \in Replica,
           acceptPc[r] = "markUpdate", Acked(Acceptance(r)), Matches(Acceptance(r)),
           AcceptGoto(r, "enrich"), UNCHANGED <<event, started, seen, attempt, published>>
    PROVE  OneAnnouncer'
<1> USE DEF Inv
<1> DEFINE a == event[r].uid
<1> DEFINE w == Acceptance(r)
<1>1. seen[r] = 1 /\ a \in UID /\ w \in Write
  BY AcceptanceType DEF OneAnnouncer
<1>2. w.op = "update" /\ w.uid = a /\ w.rev = 1 /\ w.value \in Record
  BY <1>1, WriteTypes DEF Acceptance, Update
<1>3. Acceptor(w.value)
  BY WireSafe, <1>2 DEF AcceptOnWire, WriteSafe
<1>4. Len(log[a]) = 1 /\ log'[a] = Append(log[a], w.value)
  BY <1>1, <1>2 DEF Acked, Apply, Matches, Revision, TypeOK, BucketTypeOK
<1>5. ~Accepted(a, 2)
  BY <1>1, <1>4 DEF Accepted, TypeOK, BucketTypeOK
<1>6. published[a] = <<>> /\ \A q \in Replica : ~Announcing(q, a)
  BY <1>1, <1>5 DEF OneAnnouncer
<1>7. Accepted(a, 2)'
  <2>1. log[a] \in Seq(Version) /\ w.value \in Version
    BY <1>1, <1>2 DEF TypeOK, BucketTypeOK, Version
  <2>2. 2 \in DOMAIN log'[a] /\ log'[a][2] = w.value
    BY <1>4, <2>1
  <2> QED
    BY <1>3, <2>2 DEF Accepted, Acceptor
<1>8. /\ \A q \in Replica \ {r} : acceptPc'[q] = acceptPc[q]
      /\ acceptPc'[r] = "enrich"
  BY DEF AcceptGoto, TypeOK, AcceptTypeOK
<1>9. ASSUME NEW q \in Replica, NEW u \in UID, Announcing(q, u)'
      PROVE  Announcing(q, u) \/ (q = r /\ u = a)
  <2>1. CASE q = r
    BY <1>9, <2>1 DEF Announcing
  <2>2. CASE q # r
    BY <1>8, <1>9, <2>2 DEF Announcing
  <2> QED
    BY <2>1, <2>2
<1>10. \A u \in UID : Accepted(u, 2) => Accepted(u, 2)'
  BY AcceptedStays
<1>11. \A q \in Replica : acceptPc'[q] = "markUpdate" => seen'[q] = 1
  BY <1>8 DEF OneAnnouncer
<1>12. ASSUME NEW u \in UID
       PROVE  /\ \A q \in Replica :
                    Announcing(q, u)' => Accepted(u, 2)' /\ published'[u] = <<>>
              /\ \A q, p \in Replica : Announcing(q, u)' /\ Announcing(p, u)' => q = p
              /\ published'[u] # <<>> => Accepted(u, 2)'
              /\ Len(published'[u]) <= 1
  BY <1>6, <1>7, <1>9, <1>10 DEF OneAnnouncer
<1> QED
  BY <1>11, <1>12 DEF OneAnnouncer

(* The announcement: its handler was the only one to make it, and is not   *)
(* going to make another.                                                  *)
LEMMA PublishingStays ==
    ASSUME Inv, TypeOK', LogGrows, NEW r \in Replica, acceptPc[r] = "publish", Return(r),
           published' = [published EXCEPT ![event[r].uid] = Append(@, Enriched(r))]
    PROVE  OneAnnouncer'
<1> USE DEF Inv
<1> DEFINE a == event[r].uid
<1>1. a \in UID /\ Enriched(r) \in Record
  BY AcceptanceType
<1>2. Announcing(r, a)
  BY DEF Announcing
<1>3. Accepted(a, 2) /\ published[a] = <<>> /\ \A q \in Replica : Announcing(q, a) => q = r
  BY <1>1, <1>2 DEF OneAnnouncer
<1>4. /\ published'[a] = Append(published[a], Enriched(r))
      /\ \A u \in UID \ {a} : published'[u] = published[u]
  BY <1>1 DEF TypeOK, AcceptTypeOK
<1>5. Len(published'[a]) <= 1
  <2>1. Len(Append(<<>>, Enriched(r))) = 1
    OBVIOUS
  <2> QED
    BY <1>3, <1>4, <2>1
<1>6. /\ \A q \in Replica \ {r} : /\ acceptPc'[q] = acceptPc[q]
                                  /\ event'[q] = event[q]
                                  /\ seen'[q] = seen[q]
      /\ acceptPc'[r] = "idle"
  BY DEF Return, TypeOK, AcceptTypeOK
<1>7. \A q \in Replica, u \in UID : Announcing(q, u)' => Announcing(q, u) /\ u # a
  BY <1>3, <1>6 DEF Announcing
<1>8. \A u \in UID : Accepted(u, 2) => Accepted(u, 2)'
  BY AcceptedStays
<1>9. \A q \in Replica : acceptPc'[q] = "markUpdate" => seen'[q] = 1
  BY <1>6 DEF OneAnnouncer
<1>10. ASSUME NEW u \in UID
       PROVE  /\ \A q \in Replica :
                    Announcing(q, u)' => Accepted(u, 2)' /\ published'[u] = <<>>
              /\ \A q, p \in Replica : Announcing(q, u)' /\ Announcing(p, u)' => q = p
              /\ published'[u] # <<>> => Accepted(u, 2)'
              /\ Len(published'[u]) <= 1
  BY <1>3, <1>4, <1>5, <1>7, <1>8 DEF OneAnnouncer
<1> QED
  BY <1>9, <1>10 DEF OneAnnouncer

(* The steps of the acceptances leave an invite one announcer.             *)
LEMMA AcceptStepAnnounces ==
    ASSUME Inv, TypeOK', LogGrows, NEW r \in Replica, Receive(r) \/ AcceptStep(r)
    PROVE  OneAnnouncer'
<1> USE DEF Inv
<1>0. acceptPc \in [Replica -> AcceptPC] /\ seen \in [Replica -> Nat]
  BY DEF TypeOK, AcceptTypeOK
<1>1. CASE Return(r) /\ UNCHANGED published
  <2>1. /\ acceptPc'[r] = "idle"
        /\ \A q \in Replica \ {r} : /\ acceptPc'[q] = acceptPc[q]
                                    /\ event'[q] = event[q]
                                    /\ seen'[q] = seen[q]
    BY <1>1 DEF Return, TypeOK, AcceptTypeOK
  <2> QED
    BY <1>1, <2>1, QuietStays
<1>2. CASE Receive(r)
  <2>1. /\ acceptPc'[r] = "load" /\ UNCHANGED <<seen, published>>
        /\ \A q \in Replica \ {r} : acceptPc'[q] = acceptPc[q] /\ event'[q] = event[q]
    BY <1>2 DEF Receive, ReceiveEvent, AcceptGoto, TypeOK, AcceptTypeOK
  <2> QED
    BY <2>1, QuietStays
<1>3. CASE Load(r)
  <2>1. CASE AcceptGoto(r, "markGet") /\ UNCHANGED <<event, seen, published>>
    <3>1. /\ acceptPc'[r] = "markGet"
          /\ \A q \in Replica \ {r} : acceptPc'[q] = acceptPc[q]
      BY <1>0, <2>1 DEF AcceptGoto
    <3> QED
      BY <2>1, <3>1, QuietStays
  <2> QED
    BY <1>1, <1>3, <2>1 DEF Load
<1>4. CASE MarkGet(r)
  <2>1. ASSUME NEW n \in Readable(event[r].uid), Found(event[r].uid, n),
               log[event[r].uid][n].status # "accepted",
               AcceptGoto(r, "markUpdate"), seen' = [seen EXCEPT ![r] = n],
               UNCHANGED <<event, published>>
        PROVE  OneAnnouncer'
    <3>1. event[r].uid \in UID
      BY <1>4 DEF MarkGet, TypeOK, AcceptTypeOK, Event
    <3>2. n = 1
      BY <2>1, <3>1, PendingIsFirst
    <3>3. /\ seen'[r] = 1
          /\ acceptPc'[r] = "markUpdate"
          /\ \A q \in Replica \ {r} : acceptPc'[q] = acceptPc[q] /\ seen'[q] = seen[q]
      BY <1>0, <2>1, <3>2 DEF AcceptGoto
    <3>4. \A q \in Replica :
            acceptPc'[q] = "markUpdate" =>
                seen'[q] = 1 \/ (acceptPc[q] = "markUpdate" /\ seen'[q] = seen[q])
      BY <3>3
    <3>5. \A q \in Replica :
            acceptPc'[q] \in {"enrich", "publish"} =>
                acceptPc[q] \in {"enrich", "publish"} /\ event'[q] = event[q]
      BY <2>1, <3>3
    <3> QED
      BY <2>1, <3>4, <3>5, QuietStays
  <2> QED
    BY <1>1, <1>4, <2>1 DEF MarkGet
<1>5. CASE MarkUpdate(r)
  <2>1. CASE /\ Acked(Acceptance(r)) /\ Matches(Acceptance(r))
             /\ AcceptGoto(r, "enrich") /\ UNCHANGED <<event, started, seen, attempt>>
    BY <1>5, <2>1, AcceptingStays DEF MarkUpdate
  <2>2. CASE AcceptGoto(r, "markGet") /\ UNCHANGED <<event, seen, published>>
    <3>1. /\ acceptPc'[r] = "markGet"
          /\ \A q \in Replica \ {r} : acceptPc'[q] = acceptPc[q]
      BY <1>0, <2>2 DEF AcceptGoto
    <3> QED
      BY <2>2, <3>1, QuietStays
  <2> QED
    BY <1>1, <1>5, <2>1, <2>2 DEF MarkUpdate, Conflict
<1>6. CASE Enrich(r)
  <2>1. ASSUME NEW n \in Readable(event[r].uid),
               AcceptGoto(r, "publish"), seen' = [seen EXCEPT ![r] = n],
               UNCHANGED <<event, published>>
        PROVE  OneAnnouncer'
    <3>1. /\ acceptPc[r] = "enrich" /\ acceptPc'[r] = "publish"
          /\ \A q \in Replica \ {r} : acceptPc'[q] = acceptPc[q] /\ seen'[q] = seen[q]
      BY <1>0, <1>6, <2>1 DEF AcceptGoto, Enrich
    <3> QED
      BY <2>1, <3>1, QuietStays
  <2> QED
    BY <1>1, <1>6, <2>1 DEF Enrich
<1>7. CASE Publish(r)
  BY <1>1, <1>7, PublishingStays DEF Publish
<1> QED
  BY <1>2, <1>3, <1>4, <1>5, <1>6, <1>7 DEF AcceptStep

-----------------------------------------------------------------------------
(* The announcement is about the acceptance that was stored                *)

(* What a step that announces nothing and prepares no announcement is like. *)
LEMMA WinnerStays ==
    ASSUME Inv, TypeOK', LogGrows,
           UNCHANGED published,
           \A q \in Replica :
               acceptPc'[q] = "publish" =>
                   seen'[q] = 2 \/ (acceptPc[q] = "publish" /\ seen'[q] = seen[q])
    PROVE  WinnerAnnounced'
<1> SUFFICES ASSUME ~StaleReads PROVE WinnerAnnounced'
  BY DEF WinnerAnnounced
<1> USE DEF Inv
<1>1. \A q \in Replica : acceptPc'[q] = "publish" => seen'[q] = 2
  BY DEF WinnerAnnounced
<1>2. ASSUME NEW u \in UID, published'[u] # <<>>
      PROVE  published'[u] = <<log'[u][2]>>
  <2>1. published[u] = <<log[u][2]>> /\ Accepted(u, 2)
    BY <1>2 DEF WinnerAnnounced, OneAnnouncer
  <2>2. 2 \in 1..Len(log[u])
    BY <2>1 DEF Accepted, TypeOK, BucketTypeOK
  <2>3. log'[u][2] = log[u][2]
    BY <2>2 DEF LogGrows
  <2> QED
    BY <2>1, <2>3
<1> QED
  BY <1>1, <1>2 DEF WinnerAnnounced

(* publishAccepted reads the record as accepted, or not at all.            *)
LEMMA EnrichReadsWinner ==
    ASSUME Inv, ~StaleReads, NEW r \in Replica, acceptPc[r] = "enrich",
           NEW n \in Readable(event[r].uid), Found(event[r].uid, n)
    PROVE  n = 2
<1> DEFINE u == event[r].uid
<1>1. u \in UID
  BY DEF Inv, TypeOK, AcceptTypeOK, Event
<1>2. n = Revision(u) /\ log[u][n].status # "deleted"
  BY DEF Readable, Found
<1>3. Accepted(u, 2)
  BY <1>1 DEF Inv, OneAnnouncer, Announcing
<1>4. Revision(u) \in Nat /\ 2 <= Revision(u)
  BY <1>1, <1>3 DEF Accepted, Revision, Inv, TypeOK, BucketTypeOK
<1>5. \A i \in 1..Revision(u) : i > 2 => log[u][i].status = "deleted"
  BY <1>1 DEF Inv, LogShape
<1>6. ~(n > 2) /\ n \in Nat /\ 2 <= n
  BY <1>2, <1>4, <1>5
<1> QED
  BY <1>6

(* Forcing the status of what was read back changes nothing then.          *)
LEMMA EnrichedIsWinner ==
    ASSUME Inv, ~StaleReads, NEW r \in Replica, acceptPc[r] = "publish"
    PROVE  Enriched(r) = log[event[r].uid][2]
<1> DEFINE u == event[r].uid
<1>1. u \in UID /\ SeenVersion(r) \in Record
  BY AcceptanceType DEF Inv
<1>2. SeenVersion(r) = log[u][2]
  BY DEF Inv, WinnerAnnounced, SeenVersion
<1>3. log[u][2].status = "accepted"
  BY <1>1 DEF Inv, OneAnnouncer, Announcing, Accepted
<1>4. SeenVersion(r).status = "accepted"
  BY <1>2, <1>3
<1>5. [SeenVersion(r) EXCEPT !.status = "accepted"] = SeenVersion(r)
  BY <1>1, <1>4 DEF Record
<1> QED
  BY <1>2, <1>5 DEF Enriched

(* And what they announce is what was stored.                              *)
LEMMA AcceptStepWinner ==
    ASSUME Inv, TypeOK', LogGrows, NEW r \in Replica, Receive(r) \/ AcceptStep(r)
    PROVE  WinnerAnnounced'
<1> USE DEF Inv
<1>0. /\ acceptPc \in [Replica -> AcceptPC] /\ seen \in [Replica -> Nat]
      /\ published \in [UID -> Seq(Record)]
  BY DEF TypeOK, AcceptTypeOK
<1>1. CASE Publish(r) /\ ~UNCHANGED published
  <2> SUFFICES ASSUME ~StaleReads PROVE WinnerAnnounced'
    BY DEF WinnerAnnounced
  <2> DEFINE a == event[r].uid
  <2>1. /\ published' = [published EXCEPT ![a] = Append(@, Enriched(r))]
        /\ log' = log /\ Return(r) /\ acceptPc[r] = "publish"
    BY <1>1 DEF Publish, bucketVars
  <2>2. a \in UID /\ Enriched(r) = log[a][2] /\ published[a] = <<>>
    BY <2>1, AcceptanceType, EnrichedIsWinner DEF OneAnnouncer, Announcing
  <2>3. published'[a] = <<log'[a][2]>>
    BY <1>0, <2>1, <2>2
  <2>4. \A u \in UID \ {a} : published'[u] = published[u]
    BY <1>0, <2>1, <2>2
  <2>5. \A q \in Replica : acceptPc'[q] = "publish" =>
            acceptPc[q] = "publish" /\ seen'[q] = seen[q]
    BY <1>0, <2>1 DEF Return
  <2> QED
    BY <2>1, <2>3, <2>4, <2>5 DEF WinnerAnnounced
<1>2. CASE Enrich(r)
  <2> SUFFICES ASSUME ~StaleReads PROVE WinnerAnnounced'
    BY DEF WinnerAnnounced
  <2>1. CASE Return(r)
    BY <1>0, <1>2, <2>1, WinnerStays DEF Return, Enrich
  <2>2. ASSUME NEW n \in Readable(event[r].uid), Found(event[r].uid, n),
               AcceptGoto(r, "publish"), seen' = [seen EXCEPT ![r] = n]
        PROVE  WinnerAnnounced'
    <3>1. n = 2 /\ UNCHANGED published
      BY <1>2, <2>2, EnrichReadsWinner DEF Enrich
    <3>2. \A q \in Replica : acceptPc'[q] = "publish" =>
              seen'[q] = 2 \/ (acceptPc[q] = "publish" /\ seen'[q] = seen[q])
      BY <1>0, <2>2, <3>1 DEF AcceptGoto
    <3> QED
      BY <3>1, <3>2, WinnerStays
  <2> QED
    BY <1>2, <2>1, <2>2 DEF Enrich
<1>3. CASE ~Enrich(r) /\ UNCHANGED published
  <2>1. \A q \in Replica : acceptPc'[q] = "publish" =>
            acceptPc[q] = "publish" /\ seen'[q] = seen[q]
    BY <1>0, <1>3 DEF Receive, ReceiveEvent, AcceptStep, Load, MarkGet, MarkUpdate,
                      Conflict, Publish, AcceptGoto, Return
  <2> QED
    BY <1>3, <2>1, WinnerStays
<1> QED
  <2>1. ~Publish(r) => UNCHANGED published
    BY DEF Receive, ReceiveEvent, AcceptStep, Load, MarkGet, MarkUpdate, Enrich
  <2> QED
    BY <1>1, <1>2, <1>3, <2>1

-----------------------------------------------------------------------------
(* The invariant of the service                                            *)

(* The invariant holds at first.                                           *)
LEMMA InitInv == Init => Inv
<1> SUFFICES ASSUME Init PROVE Inv
  OBVIOUS
<1>1. TypeOK
  BY InitTypes
<1>2. LogShape
  BY DEF Init, BucketInit, LogShape, Revision
<1>3. LateSafe
  BY DEF Init, BucketInit, LateSafe
<1>4. MintedOnce
  BY BucketAssumption DEF Init, BucketInit, SendInit, MintedOnce
<1>5. OneAnnouncer
  BY DEF Init, AcceptInit, OneAnnouncer, Announcing
<1>6. WinnerAnnounced
  BY DEF Init, AcceptInit, WinnerAnnounced
<1> QED
  BY <1>1, <1>2, <1>3, <1>4, <1>5, <1>6 DEF Inv

(* Every step keeps it, and the history grows as it may.                   *)
LEMMA NextInv ==
    ASSUME Inv, [Next]_vars
    PROVE  Inv' /\ LogGrows /\ \A u \in UID : LogStep(u)
<1>1. TypeOK' /\ LogGrows
  BY NextTypes DEF Inv
<1>2. /\ \A u \in UID : LogStep(u)
      /\ LateSafe' /\ MintedOnce' /\ OneAnnouncer' /\ WinnerAnnounced'
  <2>1. ASSUME UNCHANGED acceptVars
        PROVE  OneAnnouncer' /\ WinnerAnnounced'
    BY <1>1, <2>1, QuietStays, WinnerStays DEF acceptVars, workerVars
  <2>2. CASE SendNext /\ UNCHANGED acceptVars
    BY <1>1, <2>1, <2>2, SendNextSafe
  <2>3. ASSUME NEW r \in Replica, Receive(r) \/ AcceptStep(r), UNCHANGED sendVars
        PROVE  /\ \A u \in UID : LogStep(u)
               /\ LateSafe' /\ MintedOnce' /\ OneAnnouncer' /\ WinnerAnnounced'
    BY <1>1, <2>3, AcceptStepSafe, AcceptStepAnnounces, AcceptStepWinner
  <2>4. ASSUME NEW r \in Replica, Crash(r)
        PROVE  /\ \A u \in UID : LogStep(u)
               /\ LateSafe' /\ MintedOnce' /\ OneAnnouncer' /\ WinnerAnnounced'
    <3>1. /\ acceptPc'[r] = "idle" /\ UNCHANGED published
          /\ \A q \in Replica \ {r} : /\ acceptPc'[q] = acceptPc[q]
                                      /\ event'[q] = event[q]
                                      /\ seen'[q] = seen[q]
      BY <2>4 DEF Crash, Return, Inv, TypeOK, AcceptTypeOK
    <3>2. OneAnnouncer' /\ WinnerAnnounced'
      BY <1>1, <3>1, QuietStays, WinnerStays
    <3> QED
      BY <1>1, <2>4, <3>2, CrashSafe
  <2>5. CASE ApplyLate /\ UNCHANGED <<sendVars, acceptVars>>
    BY <1>1, <2>1, <2>5, ApplyLateSafe
  <2>6. CASE (Tick \/ UNCHANGED bucketVars) /\ UNCHANGED <<sendVars, acceptVars>>
    <3>1. UNCHANGED <<log, late, issued, sendUid, sendPc>>
      BY <2>6 DEF Tick, bucketVars, sendVars
    <3>2. (\A u \in UID : LogStep(u)) /\ LateSafe'
      BY <3>1, StillEffect
    <3>3. MintedOnce'
      BY <3>1 DEF Inv, MintedOnce, CreateRecord
    <3> QED
      BY <2>1, <2>6, <3>2, <3>3
  <2> QED
    BY <2>2, <2>3, <2>4, <2>5, <2>6 DEF Next, vars
<1>3. LogShape'
  BY <1>2, ShapeKept DEF Inv
<1> QED
  BY <1>1, <1>2, <1>3 DEF Inv

(* The strengthening of the safety properties below is an invariant: the   *)
(* shape of the histories, the safety of the writes that have lost their   *)
(* caller (invite_repository.go's put, update and delete, whose context    *)
(* ended), the single minting of a UID (generator.go), and the single      *)
(* handler that goes on to announce an acceptance (acceptance.go).         *)
THEOREM Invariance == Spec => []Inv
<1>1. Init => Inv
  BY InitInv
<1>2. Inv /\ [Next]_vars => Inv'
  BY NextInv
<1> QED
  BY <1>1, <1>2, PTL DEF Spec

(* However many replicas handle however many events about an invite, and   *)
(* whatever fails, at most one enriched event is published for it          *)
(* (acceptance.go:113-127).                                                *)
THEOREM SingleAnnouncement == Spec => []AtMostOneAnnouncement
<1>1. Inv => AtMostOneAnnouncement
  BY DEF Inv, OneAnnouncer, AtMostOneAnnouncement
<1> QED
  BY <1>1, Invariance, PTL

(* When reads are current, the published event is about the acceptance that *)
(* was stored, although publishAccepted reads the record a second time and *)
(* overwrites the status it read (acceptance.go:161-172).                  *)
THEOREM WinnerIsAnnounced ==
    ASSUME ~StaleReads
    PROVE  Spec => []AnnouncementCarriesWinner
<1>1. Inv => AnnouncementCarriesWinner
  <2> SUFFICES ASSUME Inv, NEW u \in UID, NEW i \in DOMAIN published[u]
               PROVE  Accepted(u, 2) /\ log[u][2] = published[u][i] /\ 2 \in DOMAIN log[u]
    BY DEF AnnouncementCarriesWinner
  <2>1. published[u] # <<>>
    OBVIOUS
  <2>2. published[u] = <<log[u][2]>> /\ Accepted(u, 2)
    BY <2>1 DEF Inv, WinnerAnnounced, OneAnnouncer
  <2> QED
    BY <2>2 DEF Accepted
<1> QED
  BY <1>1, Invariance, PTL

NothingAfterWithdrawal == \A u \in UID : Withdrawn(u) => ~Exists(u)

(* Nothing comes after a withdrawal.                                       *)
LEMMA WithdrawnIsLast == TypeOK /\ LogShape => NothingAfterWithdrawal
<1> SUFFICES ASSUME TypeOK, LogShape, NEW u \in UID, Withdrawn(u)
             PROVE  ~Exists(u)
  BY DEF NothingAfterWithdrawal
<1>1. Len(log[u]) \in Nat /\ DOMAIN log[u] = 1..Len(log[u])
  BY DEF TypeOK, BucketTypeOK
<1>2. PICK n \in 1..Len(log[u]) : log[u][n].status = "deleted"
  BY <1>1 DEF Withdrawn
<1>3. n >= 2
  BY <1>1, <1>2 DEF LogShape, Revision
<1>4. log[u][Len(log[u])].status = "deleted"
  BY <1>1, <1>2, <1>3 DEF LogShape, Revision
<1> QED
  BY <1>4 DEF Exists, Found, Revision

(* Once a record was deleted, no acceptance, late write or retry brings it *)
(* back (the conditional write of invite_repository.go:196 against the     *)
(* delete of line 233).                                                    *)
THEOREM WithdrawalIsFinal == Spec => WithdrawnStaysGone
<1>1. ASSUME Inv, [Next]_vars, NEW u \in UID, Withdrawn(u)
      PROVE  Withdrawn(u)' /\ ~Exists(u)'
  <2>1. TypeOK' /\ LogShape' /\ LogGrows
    BY <1>1, NextInv DEF Inv
  <2>2. Withdrawn(u)'
    BY <1>1, <2>1 DEF Inv, TypeOK, BucketTypeOK, LogGrows, Withdrawn
  <2>3. NothingAfterWithdrawal'
    BY <2>1, WithdrawnIsLast, PTL
  <2> QED
    BY <2>2, <2>3 DEF NothingAfterWithdrawal
<1>2. Inv /\ [Next]_vars =>
        [\A u \in UID : Withdrawn(u) => Withdrawn(u)' /\ ~Exists(u)']_vars
  BY <1>1
<1> QED
  BY <1>2, Invariance, PTL DEF Spec, WithdrawnStaysGone

(* While a record exists, its stored acceptance is never replaced nor      *)
(* undone (invite_repository.go:167-169 and 196).                          *)
THEOREM FirstAcceptanceIsKept == Spec => FirstAcceptanceWins
<1>1. ASSUME Inv, [Next]_vars, NEW u \in UID, Accepted(u, Revision(u)), Exists(u)'
      PROVE  log'[u][Len(log'[u])] = log[u][Revision(u)]
  <2>1. LogStep(u)
    BY <1>1, NextInv
  <2>2. log[u] \in Seq(Version) /\ Len(log[u]) \in Nat /\ Revision(u) \in 1..Len(log[u])
    BY <1>1 DEF Inv, TypeOK, BucketTypeOK, Accepted, Revision
  <2>3. Len(log[u]) = 2
    <3> DEFINE n == Revision(u)
    <3>1. n = Len(log[u]) /\ n \in 1..Revision(u) /\ n \in Nat \ {0}
      BY <2>2 DEF Revision
    <3>2. log[u][n].status = "accepted"
      BY <1>1 DEF Accepted
    <3>3. (n = 1 => log[u][n].status = "pending") /\ (n > 2 => log[u][n].status = "deleted")
      BY <1>1, <3>1 DEF Inv, LogShape
    <3>4. n # 1 /\ ~(n > 2)
      BY <3>2, <3>3
    <3>5. \A i \in Nat : i # 0 /\ i # 1 /\ ~(i > 2) => i = 2
      OBVIOUS
    <3>6. n \in Nat /\ n # 0 /\ n = Len(log[u])
      BY <3>1
    <3> HIDE DEF n
    <3> QED
      BY <3>4, <3>5, <3>6
  <2>4. log'[u] # Append(log[u], Tombstone)
    <3>1. Tombstone \in Version /\ Tombstone.status = "deleted"
      BY DEF Version, Tombstone
    <3>2. /\ Len(Append(log[u], Tombstone)) = Len(log[u]) + 1
          /\ Append(log[u], Tombstone)[Len(log[u]) + 1] = Tombstone
      BY <2>2, <3>1
    <3> QED
      BY <1>1, <3>1, <3>2 DEF Exists, Found, Revision
  <2>5. log[u] # <<>>
    <3>1. Len(<<>>) = 0
      OBVIOUS
    <3> QED
      BY <2>3, <3>1
  <2>6. log'[u] = log[u]
    BY <2>1, <2>3, <2>4, <2>5 DEF LogStep
  <2> QED
    BY <2>6 DEF Revision
<1>2. Inv /\ [Next]_vars =>
        [\A u \in UID :
            Accepted(u, Revision(u)) /\ Exists(u)' =>
                log'[u][Len(log'[u])] = log[u][Revision(u)]]_vars
  BY <1>1
<1> QED
  BY <1>2, Invariance, PTL DEF Spec, FirstAcceptanceWins

-----------------------------------------------------------------------------
(* The service implements the ledger                                       *)

(* A step changes the history of one invite at most, and announces one or  *)
(* changes a history, not both.                                            *)
LEMMA OneLog ==
    ASSUME TypeOK, [Next]_vars
    PROVE  /\ \E x : \A u \in UID : u # x => log'[u] = log[u]
           /\ \/ UNCHANGED published
              \/ log' = log /\ \E r \in Replica : Publish(r)
<1>1. ASSUME NEW w, Apply(w)
      PROVE  \A u \in UID : u # w.uid => log'[u] = log[u]
  BY <1>1 DEF Apply, TypeOK, BucketTypeOK
<1>2. ASSUME NEW w, Acked(w) \/ Refused \/ TimedOut(w)
      PROVE  \E x : \A u \in UID : u # x => log'[u] = log[u]
  <2>1. CASE Acked(w)
    BY <1>1, <2>1 DEF Acked
  <2>2. CASE Refused \/ TimedOut(w)
    BY <2>2 DEF Refused, TimedOut, bucketVars
  <2> QED
    BY <1>2, <2>1, <2>2
<1>3. CASE SendNext /\ UNCHANGED acceptVars
  <2>1. ASSUME NEW r \in Replica, SendStep(r)
        PROVE  \E x : \A u \in UID : u # x => log'[u] = log[u]
    <3>1. CASE PutRecord(r)
      BY <1>2, <3>1 DEF PutRecord
    <3>2. CASE PutIndex(r)
      BY <1>2, <3>2 DEF PutIndex
    <3>3. CASE UndoRecord(r)
      BY <1>2, <3>3 DEF UndoRecord
    <3>4. CASE RemoveRecord(r)
      BY <1>2, <3>4 DEF RemoveRecord
    <3>5. CASE RemoveIndex(r)
      BY <1>2, <3>5 DEF RemoveIndex
    <3>6. CASE RequestEmail(r) \/ AwaitEmail(r) \/ FindRecord(r) \/ Reply(r)
      BY <3>6 DEF RequestEmail, AwaitEmail, FindRecord, Reply, Refused, bucketVars
    <3> QED
      BY <2>1, <3>1, <3>2, <3>3, <3>4, <3>5, <3>6 DEF SendStep
  <2>2. CASE ~\E r \in Replica : SendStep(r)
    <3>1. log' = log
      BY <1>3, <2>2 DEF SendNext, Reject, Issue, EmailService, bucketVars
    <3> QED
      BY <1>3, <3>1 DEF acceptVars
  <2> QED
    BY <1>3, <2>1, <2>2 DEF acceptVars
<1>4. ASSUME NEW r \in Replica, Receive(r) \/ AcceptStep(r)
      PROVE  /\ \E x : \A u \in UID : u # x => log'[u] = log[u]
             /\ UNCHANGED published \/ (log' = log /\ Publish(r))
  <2>1. CASE MarkUpdate(r)
    BY <1>2, <2>1 DEF MarkUpdate
  <2>2. CASE Publish(r)
    BY <2>2 DEF Publish, bucketVars
  <2>3. CASE Receive(r) \/ Load(r) \/ MarkGet(r) \/ Enrich(r)
    BY <2>3 DEF Receive, ReceiveEvent, Load, MarkGet, Enrich, bucketVars
  <2> QED
    BY <1>4, <2>1, <2>2, <2>3 DEF AcceptStep
<1>5. CASE (\E r \in Replica : Crash(r)) \/ UNCHANGED vars \/ (Tick /\ UNCHANGED acceptVars)
  BY <1>5 DEF Crash, vars, bucketVars, acceptVars, Tick
<1>6. CASE ApplyLate /\ UNCHANGED acceptVars
  BY <1>1, <1>6 DEF ApplyLate, acceptVars
<1> QED
  BY <1>3, <1>4, <1>5, <1>6 DEF Next

(* Only the second version of a record can be an acceptance, so that it is *)
(* the one that the ledger's holder is taken from.                         *)
HolderIsSecond ==
    \A u \in UID : Holder(u) = IF Accepted(u, 2) THEN log[u][2].by ELSE None

(* The second version of a record says who holds the invite.               *)
LEMMA HolderIs == TypeOK /\ LogShape => HolderIsSecond
<1> SUFFICES ASSUME TypeOK, LogShape, NEW u \in UID
             PROVE  Holder(u) = IF Accepted(u, 2) THEN log[u][2].by ELSE None
  BY DEF HolderIsSecond
<1>1. \A n \in DOMAIN log[u] : Accepted(u, n) => n = 2
  <2> SUFFICES ASSUME NEW n \in DOMAIN log[u], Accepted(u, n) PROVE n = 2
    OBVIOUS
  <2>1. n \in 1..Revision(u) /\ n \in Nat /\ n # 0
    BY DEF TypeOK, BucketTypeOK, Revision
  <2>2. log[u][n].status = "accepted"
    BY DEF Accepted
  <2>3. n # 1 /\ ~(n > 2)
    BY <2>1, <2>2 DEF LogShape
  <2>4. \A i \in Nat : i # 0 /\ i # 1 /\ ~(i > 2) => i = 2
    OBVIOUS
  <2> QED
    BY <2>1, <2>3, <2>4
<1>2. Accepted(u, 2) => 2 \in DOMAIN log[u]
  BY DEF Accepted
<1>3. CASE Accepted(u, 2)
  <2> DEFINE n == CHOOSE n \in DOMAIN log[u] : Accepted(u, n)
  <2>1. n \in DOMAIN log[u] /\ Accepted(u, n)
    BY <1>2, <1>3
  <2>2. n = 2
    BY <1>1, <2>1
  <2> QED
    BY <1>2, <1>3, <2>2 DEF Holder
<1>4. CASE ~Accepted(u, 2)
  <2>1. ~\E n \in DOMAIN log[u] : Accepted(u, n)
    BY <1>1, <1>4
  <2> QED
    BY <1>4, <2>1 DEF Holder
<1> QED
  BY <1>3, <1>4

(* What a step on the history of an invite is to the ledger.               *)
LEMMA LedgerEffect ==
    ASSUME Inv, Inv', LogGrows, NEW u \in UID, LogStep(u)
    PROVE  \/ Status(u)' = Status(u) /\ Holder(u)' = Holder(u)
           \/ /\ Status(u) = "absent" /\ Status(u)' = "pending"
              /\ Holder(u)' = Holder(u)
           \/ /\ Status(u) = "pending" /\ Status(u)' = "accepted"
              /\ Holder(u)' \in User
           \/ /\ Status(u) \in {"pending", "accepted"} /\ Status(u)' = "withdrawn"
              /\ Holder(u)' = Holder(u)
<1> USE DEF Inv
<1>0. /\ log[u] \in Seq(Version) /\ Len(log[u]) \in Nat
      /\ log'[u] \in Seq(Version) /\ Len(log'[u]) \in Nat
      /\ DOMAIN log[u] = 1..Len(log[u]) /\ DOMAIN log'[u] = 1..Len(log'[u])
  BY DEF TypeOK, BucketTypeOK
<1>1. /\ Holder(u) = IF Accepted(u, 2) THEN log[u][2].by ELSE None
      /\ Holder(u)' = IF Accepted(u, 2)' THEN log'[u][2].by ELSE None
  <2>1. TypeOK /\ LogShape /\ TypeOK' /\ LogShape'
    OBVIOUS
  <2>2. HolderIsSecond'
    BY <2>1, HolderIs, PTL
  <2> QED
    BY <2>1, <2>2, HolderIs DEF HolderIsSecond
<1>2. CASE log'[u] = log[u]
  <2>1. Status(u)' = Status(u)
    BY <1>2 DEF Status, Exists, Found, Revision
  <2>2. Holder(u)' = Holder(u)
    BY <1>1, <1>2 DEF Accepted
  <2> QED
    BY <2>1, <2>2
<1>3. ASSUME log[u] = <<>>, NEW v \in Record, v.status = "pending", log'[u] = <<v>>
      PROVE  /\ Status(u) = "absent" /\ Status(u)' = "pending"
             /\ Holder(u)' = Holder(u)
  <2>1. Len(<<v>>) = 1 /\ <<v>>[1] = v /\ <<v>> # <<>> /\ Len(<<>>) = 0
    OBVIOUS
  <2>2. Status(u) = "absent"
    BY <1>3 DEF Status
  <2>3. Status(u)' = "pending"
    BY <1>3, <2>1 DEF Status, Exists, Found, Revision
  <2>4. ~Accepted(u, 2) /\ ~Accepted(u, 2)'
    BY <1>0, <1>3, <2>1 DEF Accepted
  <2> QED
    BY <1>1, <2>2, <2>3, <2>4
<1>4. ASSUME Len(log[u]) = 1, NEW v \in Record, Acceptor(v), log'[u] = Append(log[u], v)
      PROVE  /\ Status(u) = "pending" /\ Status(u)' = "accepted"
             /\ Holder(u)' \in User
  <2>1. v \in Version
    BY DEF Version
  <2>2. Len(log'[u]) = 2 /\ log'[u][2] = v
    BY <1>0, <1>4, <2>1
  <2>3. log[u] # <<>> /\ log'[u] # <<>>
    <3>1. Len(<<>>) = 0
      OBVIOUS
    <3> QED
      BY <1>4, <2>2, <3>1
  <2>4. log[u][1].status = "pending"
    BY <1>4 DEF LogShape, Revision
  <2>5. Status(u) = "pending"
    BY <1>4, <2>3, <2>4 DEF Status, Exists, Found, Revision
  <2>6. v.status = "accepted" /\ v.by \in User
    BY <1>4 DEF Acceptor
  <2>7. Status(u)' = "accepted"
    BY <2>2, <2>3, <2>6 DEF Status, Exists, Found, Revision
  <2>8. Accepted(u, 2)'
    BY <1>0, <2>2, <2>6 DEF Accepted
  <2> QED
    BY <1>1, <2>2, <2>5, <2>6, <2>7, <2>8
<1>5. ASSUME log[u] # <<>>, log'[u] = Append(log[u], Tombstone)
      PROVE  /\ Status(u) \in {"pending", "accepted", "withdrawn"}
             /\ Status(u)' = "withdrawn" /\ Holder(u)' = Holder(u)
  <2>1. Tombstone \in Version /\ Tombstone.status = "deleted"
    BY DEF Version, Tombstone
  <2>2. /\ Len(log'[u]) = Len(log[u]) + 1 /\ log'[u][Len(log'[u])] = Tombstone
        /\ \A n \in 1..Len(log[u]) : log'[u][n] = log[u][n]
    BY <1>0, <1>5, <2>1
  <2>3. log'[u] # <<>> /\ Len(log[u]) >= 1
    <3>1. log[u] \in Seq(Version) /\ log[u] # <<>>
      BY <1>0, <1>5
    <3>2. \A v \in Version : Append(log[u], v) # <<>>
      BY <3>1, AppendIsLonger
    <3>3. Len(log[u]) # 0 /\ Len(log[u]) \in Nat
      BY <3>1
    <3>4. Len(log[u]) >= 1
      BY <3>3
    <3> QED
      BY <1>5, <2>1, <3>2, <3>4
  <2>4. Status(u) \in {"pending", "accepted", "withdrawn"}
    <3>1. CASE Exists(u)
      <4>1. log[u][Len(log[u])] \in Record
        BY <1>0, <2>3, <3>1 DEF Exists, Found, Revision, Version, Tombstone
      <4>2. log[u][Len(log[u])].status \in {"pending", "accepted"}
        BY <4>1 DEF Record
      <4> QED
        BY <1>5, <3>1, <4>2 DEF Status, Revision
    <3>2. CASE ~Exists(u)
      BY <1>5, <3>2 DEF Status
    <3> QED
      BY <3>1, <3>2
  <2>5. ~Exists(u)'
    BY <2>1, <2>2 DEF Exists, Found, Revision
  <2>6. Status(u)' = "withdrawn"
    BY <2>3, <2>5 DEF Status
  <2>7. CASE Len(log[u]) >= 2
    <3>1. 2 \in 1..Len(log[u]) /\ 2 \in 1..Len(log'[u]) /\ log'[u][2] = log[u][2]
      BY <1>0, <2>2, <2>7
    <3> QED
      BY <1>0, <1>1, <2>4, <2>6, <3>1 DEF Accepted
  <2>8. CASE Len(log[u]) = 1
    <3>1. ~Accepted(u, 2)
      BY <1>0, <2>8 DEF Accepted
    <3>2. ~Accepted(u, 2)'
      BY <2>1, <2>2, <2>8 DEF Accepted
    <3> QED
      BY <1>1, <2>4, <2>6, <3>1, <3>2
  <2>9. Len(log[u]) >= 2 \/ Len(log[u]) = 1
    <3>1. \A i \in Nat : i >= 1 => i >= 2 \/ i = 1
      OBVIOUS
    <3> QED
      BY <1>0, <2>3, <3>1
  <2> QED
    BY <2>7, <2>8, <2>9
<1>6. CASE log[u] # <<>> /\ log'[u] = Append(log[u], Tombstone)
  <2>1. CASE Status(u) = "withdrawn"
    BY <1>5, <1>6, <2>1
  <2>2. CASE Status(u) \in {"pending", "accepted"}
    BY <1>5, <1>6, <2>2
  <2> QED
    BY <1>5, <1>6, <2>1, <2>2
<1> QED
  BY <1>2, <1>3, <1>4, <1>6 DEF LogStep

(* What the ledger says of a topic with one announcement, or none.         *)
LEMMA AnnouncedIs ==
    ASSUME NEW u
    PROVE  /\ published[u] = <<>> => Announced(u) = <<>>
           /\ \A v : published[u] = <<v>> => Announced(u) = <<v.by>>
<1>1. ASSUME published[u] = <<>>
      PROVE  Announced(u) = <<>>
  BY <1>1 DEF Announced
<1>2. ASSUME NEW v, published[u] = <<v>>
      PROVE  Announced(u) = <<v.by>>
  <2>1. DOMAIN published[u] = {1} /\ published[u][1] = v
    BY <1>2
  <2>2. [i \in {1} |-> v.by] = <<v.by>>
    OBVIOUS
  <2>3. Announced(u) = [i \in {1} |-> v.by]
    BY <2>1 DEF Announced
  <2> QED
    BY <2>2, <2>3
<1> QED
  BY <1>1, <1>2

(* The ledger is empty at first.                                           *)
LEMMA LedgerInit == Init => Ledger!Init
<1> SUFFICES ASSUME Init PROVE Ledger!Init
  OBVIOUS
<1>1. \A u \in UID : log[u] = <<>> /\ published[u] = <<>>
  BY DEF Init, BucketInit, AcceptInit
<1>2. \A u \in UID : Status(u) = "absent"
  BY <1>1 DEF Status
<1>3. \A u \in UID : Holder(u) = None
  <2>1. DOMAIN <<>> = {}
    OBVIOUS
  <2>2. \A u \in UID : DOMAIN log[u] = {}
    BY <1>1, <2>1
  <2> QED
    BY <2>2 DEF Holder
<1>4. \A u \in UID : Announced(u) = <<>>
  BY <1>1, AnnouncedIs
<1> QED
  BY <1>2, <1>3, <1>4 DEF Ledger!Init

(* Nothing of an invite that has not changed changes in the ledger.        *)
LEMMA LedgerStill ==
    ASSUME NEW u, log'[u] = log[u]
    PROVE  Status(u)' = Status(u) /\ Holder(u)' = Holder(u)
BY DEF Status, Exists, Found, Revision, Holder, Accepted

(* Nothing is announced when nothing is published.                         *)
LEMMA AnnouncedStill ==
    ASSUME NEW u, published'[u] = published[u]
    PROVE  Announced(u)' = Announced(u)
BY DEF Announced

(* The announcement of an acceptance is the ledger's.                      *)
LEMMA PublishIsAnnounce ==
    ASSUME Inv, Inv', ~StaleReads, NEW r \in Replica, Publish(r), log' = log,
           ~UNCHANGED published
    PROVE  Ledger!Announce(event[r].uid) /\ event[r].uid \in UID
<1>0. event[r].uid \in UID /\ acceptPc[r] = "publish"
  BY AcceptanceType DEF Publish, Inv
<1>1. PICK a \in UID : a = event[r].uid
  BY <1>0
<1>2. published[a] = <<>> /\ Accepted(a, 2)
  BY <1>0, <1>1 DEF Inv, OneAnnouncer, Announcing
<1>3. Enriched(r) = log[a][2]
  BY <1>0, <1>1, EnrichedIsWinner
<1>4. published' = [published EXCEPT ![a] = Append(@, Enriched(r))]
  BY <1>1 DEF Publish
<1>5. /\ published'[a] = <<log[a][2]>>
      /\ \A u \in UID \ {a} : published'[u] = published[u]
  BY <1>1, <1>2, <1>3, <1>4 DEF Inv, TypeOK, AcceptTypeOK
<1>6. Holder(a) = log[a][2].by
  BY <1>1, <1>2, HolderIs DEF HolderIsSecond, Inv
<1>7. Holder(a) # None
  <2>1. 2 \in 1..Revision(a) /\ log[a][2].status = "accepted"
    BY <1>1, <1>2 DEF Accepted, Revision, Inv, TypeOK, BucketTypeOK
  <2>2. log[a][2].by \in User
    BY <1>1, <2>1 DEF Inv, LogShape, Acceptor
  <2> QED
    BY <1>6, <2>2, BucketAssumption
<1>8. Announced(a) = <<>>
  BY <1>2, AnnouncedIs
<1>9. Announced(a)' = <<Holder(a)>>
  <2>1. Announced(a)' = [i \in DOMAIN published'[a] |-> published'[a][i].by]
    BY DEF Announced
  <2>2. DOMAIN published'[a] = {1} /\ published'[a][1] = log[a][2]
    BY <1>5
  <2>3. \A h : [i \in {1} |-> h] = <<h>>
    OBVIOUS
  <2>4. \A i \in {1} : published'[a][i].by = Holder(a)
    BY <1>6, <2>2
  <2>5. Announced(a)' = [i \in {1} |-> Holder(a)]
    BY <2>1, <2>2, <2>4
  <2> QED
    BY <2>3, <2>5
<1>10. \A u \in UID \ {a} : Announced(u)' = Announced(u)
  BY <1>5, AnnouncedStill
<1>11. \A u \in UID : Status(u)' = Status(u) /\ Holder(u)' = Holder(u)
  BY LedgerStill
<1>12. /\ [u \in UID |-> Status(u)]' = [u \in UID |-> Status(u)]
       /\ [u \in UID |-> Holder(u)]' = [u \in UID |-> Holder(u)]
       /\ [u \in UID |-> Announced(u)]' =
             [[u \in UID |-> Announced(u)] EXCEPT ![a] = <<Holder(a)>>]
  <2>1. [u \in UID |-> Status(u)]' = [u \in UID |-> Status(u)]
    BY <1>11
  <2>2. [u \in UID |-> Holder(u)]' = [u \in UID |-> Holder(u)]
    BY <1>11
  <2>3. [u \in UID |-> Announced(u)]' =
            [[u \in UID |-> Announced(u)] EXCEPT ![a] = <<Holder(a)>>]
    BY <1>9, <1>10
  <2> QED
    BY <2>1, <2>2, <2>3
<1>13. [u \in UID |-> Holder(u)][a] = Holder(a) /\ [u \in UID |-> Announced(u)][a] = <<>>
  BY <1>1, <1>8
<1> QED
  BY <1>1, <1>7, <1>12, <1>13 DEF Ledger!Announce

(* A change in the history of an invite is a step of the ledger, or none.  *)
LEMMA LogStepIsLedger ==
    ASSUME Inv, Inv', LogGrows, NEW x \in UID, LogStep(x),
           \A u \in UID : u # x => log'[u] = log[u],
           UNCHANGED published
    PROVE  [Ledger!Next]_(Ledger!ledgerVars)
<1>1. \A u \in UID : u # x => Status(u)' = Status(u) /\ Holder(u)' = Holder(u)
  BY LedgerStill
<1>2. \A u \in UID : Announced(u)' = Announced(u)
  BY AnnouncedStill
<1>3. CASE Status(x)' = Status(x) /\ Holder(x)' = Holder(x)
  BY <1>1, <1>2, <1>3 DEF Ledger!ledgerVars
<1>4. CASE /\ Status(x) = "absent" /\ Status(x)' = "pending"
           /\ Holder(x)' = Holder(x)
  <2>1. Ledger!Store(x)
    BY <1>1, <1>2, <1>4 DEF Ledger!Store
  <2> QED
    BY <2>1 DEF Ledger!Next
<1>5. CASE /\ Status(x) = "pending" /\ Status(x)' = "accepted"
           /\ Holder(x)' \in User
  <2>1. Ledger!Accept(x, Holder(x)')
    BY <1>1, <1>2, <1>5 DEF Ledger!Accept
  <2> QED
    BY <1>5, <2>1 DEF Ledger!Next
<1>6. CASE /\ Status(x) \in {"pending", "accepted"} /\ Status(x)' = "withdrawn"
           /\ Holder(x)' = Holder(x)
  <2>1. Ledger!Withdraw(x)
    BY <1>1, <1>2, <1>6 DEF Ledger!Withdraw
  <2> QED
    BY <2>1 DEF Ledger!Next
<1> QED
  BY <1>3, <1>4, <1>5, <1>6, LedgerEffect

(* Every step is one of the ledger, or none.                               *)
LEMMA LedgerStep ==
    ASSUME Inv, [Next]_vars, ~StaleReads
    PROVE  [Ledger!Next]_(Ledger!ledgerVars)
<1>1. Inv' /\ LogGrows /\ \A u \in UID : LogStep(u)
  BY NextInv
<1>2. /\ \E x : \A u \in UID : u # x => log'[u] = log[u]
      /\ \/ UNCHANGED published
         \/ log' = log /\ \E r \in Replica : Publish(r)
  BY OneLog DEF Inv
<1>3. CASE ~UNCHANGED published
  <2>1. PICK r \in Replica : Publish(r) /\ log' = log
    BY <1>2, <1>3
  <2>2. Ledger!Announce(event[r].uid) /\ event[r].uid \in UID
    BY <1>1, <1>3, <2>1, PublishIsAnnounce
  <2> QED
    BY <2>2 DEF Ledger!Next
<1>4. CASE UNCHANGED published /\ \E u \in UID : log'[u] # log[u]
  <2>1. PICK x \in UID : log'[x] # log[x]
    BY <1>4
  <2>2. \A u \in UID : u # x => log'[u] = log[u]
    BY <1>2, <2>1
  <2> QED
    BY <1>1, <1>4, <2>2, LogStepIsLedger
<1>5. CASE UNCHANGED published /\ \A u \in UID : log'[u] = log[u]
  BY <1>5, LedgerStill, AnnouncedStill DEF Ledger!ledgerVars
<1> QED
  BY <1>3, <1>4, <1>5

(* When reads are current, any number of replicas, with their failures and *)
(* crashes, implement the ledger of InviteLedger: the contract of          *)
(* port.InviteStore (invite_store.go) and of HandleInviteAccepted.         *)
THEOREM ImplementsLedger ==
    ASSUME ~StaleReads
    PROVE  Spec => LedgerSpec
<1>1. Init => Ledger!Init
  BY LedgerInit
<1>2. Inv /\ [Next]_vars => [Ledger!Next]_(Ledger!ledgerVars)
  BY LedgerStep
<1> QED
  BY <1>1, <1>2, Invariance, PTL DEF Spec, LedgerSpec, Ledger!Spec
=============================================================================
