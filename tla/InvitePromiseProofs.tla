------------------------ MODULE InvitePromiseProofs -----------------------
(***************************************************************************)
(* What the requester was told, what the recipient was sent and what the   *)
(* bucket holds agree, for every number of replicas, invites, addresses    *)
(* and users.  InviteServiceProofs shows how the history of a record may   *)
(* grow; this module shows who may delete a record or its index key, and   *)
(* what an acceptance rests on.                                            *)
(***************************************************************************)
EXTENDS InviteServiceProofs

-----------------------------------------------------------------------------
(* Records that exist, and records that are gone                           *)

(* An invite that exists has one or two versions; one that does no more is *)
(* withdrawn.                                                              *)
LEMMA NewestVersion ==
    ASSUME TypeOK, LogShape, NEW u \in UID
    PROVE  /\ Exists(u) => log[u] # <<>> /\ Len(log[u]) \in {1, 2}
           /\ log[u] # <<>> /\ ~Exists(u) => Withdrawn(u)
<1>1. log[u] \in Seq(Version) /\ Len(log[u]) \in Nat /\ DOMAIN log[u] = 1..Len(log[u])
  BY DEF TypeOK, BucketTypeOK
<1>2. log[u] # <<>> => Len(log[u]) \in 1..Len(log[u])
  BY <1>1
<1>3. log[u] = <<>> => Len(log[u]) = 0
  OBVIOUS
<1>4. ASSUME Exists(u) PROVE log[u] # <<>> /\ Len(log[u]) \in {1, 2}
  <2>1. Len(log[u]) > 0 /\ log[u][Len(log[u])].status # "deleted"
    BY <1>4 DEF Exists, Found, Revision
  <2>2. ~(Len(log[u]) > 2)
    BY <1>1, <2>1 DEF LogShape, Revision
  <2>3. \A n \in Nat : n > 0 /\ ~(n > 2) => n \in {1, 2}
    OBVIOUS
  <2> QED
    BY <1>1, <1>3, <2>1, <2>2, <2>3
<1>5. ASSUME log[u] # <<>>, ~Exists(u) PROVE Withdrawn(u)
  <2>1. log[u][Len(log[u])].status = "deleted"
    BY <1>1, <1>2, <1>5 DEF Exists, Found, Revision
  <2> QED
    BY <1>1, <1>2, <1>5, <2>1 DEF Withdrawn
<1> QED
  BY <1>4, <1>5

(* A withdrawal stays in the history.                                      *)
LEMMA WithdrawnStays ==
    ASSUME TypeOK, TypeOK', LogGrows, NEW u \in UID, Withdrawn(u)
    PROVE  Withdrawn(u)'
BY DEF TypeOK, BucketTypeOK, LogGrows, Withdrawn

(* A record that does not exist is not brought back.                       *)
LEMMA NoRevival ==
    ASSUME Inv, Inv', LogGrows, NEW u \in UID, log[u] # <<>>, Exists(u)'
    PROVE  Exists(u)
<1> SUFFICES ASSUME ~Exists(u) PROVE FALSE
  OBVIOUS
<1>1. Withdrawn(u)'
  BY NewestVersion, WithdrawnStays DEF Inv
<1>2. NothingAfterWithdrawal'
  BY WithdrawnIsLast, PTL DEF Inv
<1> QED
  BY <1>1, <1>2 DEF NothingAfterWithdrawal

(* A record goes on to exist unless a tombstone is written.                *)
LEMMA ExistsStays ==
    ASSUME TypeOK, LogShape, NEW u \in UID, LogStep(u), Exists(u),
           log'[u] # Append(log[u], Tombstone)
    PROVE  Exists(u)'
<1>1. log[u] # <<>> /\ log[u] \in Seq(Version)
  BY NewestVersion DEF TypeOK, BucketTypeOK
<1>2. CASE log'[u] = log[u]
  BY <1>2 DEF Exists, Found, Revision
<1>3. ASSUME Len(log[u]) = 1, NEW v \in Record, Acceptor(v), log'[u] = Append(log[u], v)
      PROVE  Exists(u)'
  <2>1. Len(log'[u]) = 2 /\ log'[u][2] = v
    BY <1>1, <1>3 DEF Version
  <2> QED
    BY <1>3, <2>1 DEF Exists, Found, Revision, Acceptor
<1> QED
  BY <1>1, <1>2, <1>3 DEF LogStep

-----------------------------------------------------------------------------
(* What a write does to what is in place                                   *)

(* The index key of an invite stays while its record does.                 *)
IndexedStays(u) == log[u] # <<>> /\ Exists(u)' /\ Indexed(u) => Indexed(u)'
PlacedStays(u)  == Placed(u) => Placed(u)'

(* A write is handled, or left on the wire, or was not sent; or one that   *)
(* was on the wire is handled now.                                         *)
Effect(w) ==
    \/ Acked(w) \/ Refused \/ TimedOut(w)
    \/ w \in late /\ Apply(w) /\ late' = late \ {w}

(* Only the delete of an invite withdraws it.                              *)
LEMMA TombstoneIsDelete ==
    ASSUME TypeOK, NEW w \in Write, Apply(w), NEW u \in UID,
           log'[u] = Append(log[u], Tombstone)
    PROVE  w = DeleteRecord(u)
<1>1. log[u] \in Seq(Version) /\ Tombstone \in Version
  BY DEF TypeOK, BucketTypeOK, Version
<1>2. log'[u] # log[u]
  BY <1>1
<1>3. /\ w.op \in {"put", "update"} /\ w.uid \in UID /\ w.value \in Version
      /\ log' = [log EXCEPT ![w.uid] = Append(@, w.value)]
  BY <1>2, WriteTypes DEF Apply, Version
<1>4. w.uid = u /\ log'[u] = Append(log[u], w.value)
  BY <1>2, <1>3 DEF TypeOK, BucketTypeOK
<1>5. w.value = Tombstone
  <2>1. Append(log[u], w.value)[Len(log[u]) + 1] = w.value
    BY <1>1, <1>3
  <2>2. Append(log[u], Tombstone)[Len(log[u]) + 1] = Tombstone
    BY <1>1
  <2> QED
    BY <1>4, <2>1, <2>2
<1>6. w.op = "put"
  BY <1>3, <1>5, WriteTypes DEF Record, Tombstone
<1> QED
  BY <1>4, <1>5, <1>6 DEF Write, DeleteRecord, Put

(* An index write is about an invite.                                      *)
LEMMA DropTypes ==
    ASSUME NEW w \in Write, w.op = "index"
    PROVE  w.entry[2] \in UID
BY WriteTypes DEF Entries, IndexEntry

(* A write that is safe to apply leaves an invite in the index, and in its *)
(* place unless it is the delete of that invite.                           *)
LEMMA EffectStays ==
    ASSUME Inv, Inv', LogGrows, NEW w \in Write, DropSafe(w), Effect(w),
           NEW u \in UID, LogStep(u), issued'[u] = issued[u]
    PROVE  /\ IndexedStays(u)
           /\ w # DeleteRecord(u) => PlacedStays(u)
<1> USE DEF Inv
<1>1. IndexedStays(u)
  <2> SUFFICES ASSUME log[u] # <<>>, Exists(u)', Indexed(u), ~Indexed(u)'
               PROVE  FALSE
    BY DEF IndexedStays
  <2>1. /\ w.op = "index" /\ ~w.present
        /\ IndexEntry(issued[u].email, u) = w.entry
    BY DEF Effect, Acked, Refused, TimedOut, bucketVars, Apply, Indexed
  <2>2. w.entry[2] = u
    BY <2>1 DEF IndexEntry
  <2>3. Withdrawn(u)
    BY <2>1, <2>2 DEF DropSafe
  <2>4. NothingAfterWithdrawal
    BY WithdrawnIsLast
  <2> QED
    BY <2>3, <2>4, NoRevival DEF NothingAfterWithdrawal
<1>2. ASSUME w # DeleteRecord(u), Placed(u)
      PROVE  Placed(u)'
  <2>1. log'[u] # Append(log[u], Tombstone)
    <3>1. CASE log' = log
      <4>1. log[u] \in Seq(Version) /\ Tombstone \in Version
        BY DEF TypeOK, BucketTypeOK, Version
      <4>2. Append(log[u], Tombstone) # log[u]
        BY <4>1
      <4> QED
        BY <3>1, <4>2
    <3>2. CASE Apply(w)
      BY <1>2, <3>2, TombstoneIsDelete
    <3> QED
      BY <3>1, <3>2 DEF Effect, Acked, Refused, TimedOut, bucketVars
  <2>2. Exists(u)'
    BY <1>2, <2>1, ExistsStays DEF Placed
  <2>3. DeleteRecord(u) \notin late'
    BY <1>2 DEF Effect, Acked, Refused, TimedOut, bucketVars, Placed
  <2> QED
    BY <2>2, <2>3 DEF Placed, DeleteRecord
<1> QED
  BY <1>1, <1>2 DEF PlacedStays

(* What writes nothing leaves an invite in the index and in its place.     *)
LEMMA StillStays ==
    ASSUME UNCHANGED <<log, index>>, NEW u \in UID, issued'[u] = issued[u]
    PROVE  /\ IndexedStays(u)
           /\ late' \subseteq late => PlacedStays(u)
BY DEF IndexedStays, PlacedStays, Indexed, Placed, Exists, Found, Revision, DeleteRecord

(* A delete that was safe to apply stays so.                               *)
LEMMA DropStays ==
    ASSUME TypeOK, TypeOK', LogGrows, NEW w \in Write, DropSafe(w)
    PROVE  DropSafe(w)'
BY DropTypes, WithdrawnStays DEF DropSafe

-----------------------------------------------------------------------------
(* What the calls of a handler do                                          *)

(* The deletes that handlers have on the wire are safe to apply.           *)
LEMMA WireDrops ==
    ASSUME Inv, PromiseInv, NEW r \in Replica, NEW w \in SendOnWire(r) \cup AcceptOnWire(r)
    PROVE  /\ DropSafe(w)
           /\ \A u \in UID : w = DeleteRecord(u) =>
                 sendUid[r] = u /\ sendPc[r] \in {"undoRecord", "deleteRecord"}
<1>1. CASE w \in AcceptOnWire(r)
  BY <1>1 DEF AcceptOnWire, Acceptance, Update, DropSafe, DeleteRecord, Put
<1>2. CASE w \in SendOnWire(r)
  <2> DEFINE u == sendUid[r]
  <2>1. sendPc[r] \in {"putRecord", "putIndex", "undoRecord", "deleteRecord",
                       "deleteIndex"}
    BY <1>2 DEF SendOnWire
  <2>2. u \in UID /\ issued[u] \in Record
    BY <2>1 DEF Inv, TypeOK, SendTypeOK
  <2>3. CASE sendPc[r] = "putRecord"
    <3>1. w.op = "put" /\ w.value \in Record
      BY <1>2, <2>2, <2>3 DEF SendOnWire, CreateRecord, Put
    <3> QED
      BY <3>1 DEF DropSafe, DeleteRecord, Put, Record, Tombstone
  <2>4. CASE sendPc[r] = "putIndex"
    BY <1>2, <2>4 DEF SendOnWire, CreateIndex, AddEntry, DropSafe, DeleteRecord, Put
  <2>5. CASE sendPc[r] \in {"undoRecord", "deleteRecord"}
    <3>1. w.op = "put" /\ w.uid = u
      BY <1>2, <2>5 DEF SendOnWire, DeleteRecord, Put
    <3> QED
      BY <2>5, <3>1 DEF DropSafe, DeleteRecord, Put
  <2>6. CASE sendPc[r] = "deleteIndex"
    <3>1. w.op = "index" /\ w.entry[2] = u
      BY <1>2, <2>6 DEF SendOnWire, DeleteIndex, DropEntry, IndexEntry
    <3>2. Withdrawn(u)
      BY <2>2, <2>6 DEF PromiseInv, Sender
    <3> QED
      BY <3>1, <3>2 DEF DropSafe, DeleteRecord, Put
  <2> QED
    BY <2>1, <2>3, <2>4, <2>5, <2>6
<1> QED
  BY <1>1, <1>2

(* A call on the bucket, for the invites it is not about and for its own.  *)
LEMMA CallStays ==
    ASSUME Inv, Inv', LogGrows, \A u \in UID : LogStep(u), PromiseInv,
           NEW r \in Replica, NEW w \in SendOnWire(r) \cup AcceptOnWire(r),
           Acked(w) \/ Refused \/ TimedOut(w), UNCHANGED issued
    PROVE  /\ \A u \in UID : IndexedStays(u)
           /\ \A u \in UID : \/ sendUid[r] = u /\ sendPc[r] \in {"undoRecord", "deleteRecord"}
                             \/ PlacedStays(u)
           /\ \A v \in late' : DropSafe(v)'
<1>1. w \in Write
  BY WireSafe
<1>2. Effect(w)
  BY DEF Effect
<1>3. \A u \in UID : IndexedStays(u) /\ (w # DeleteRecord(u) => PlacedStays(u))
  BY <1>1, <1>2, WireDrops, EffectStays
<1>4. late' \subseteq late \cup {w}
  BY DEF Acked, Refused, TimedOut, bucketVars
<1>5. ASSUME NEW v \in late' PROVE DropSafe(v)'
  <2>1. v \in Write /\ DropSafe(v)
    BY <1>1, <1>4, WireDrops DEF PromiseInv, Inv, TypeOK, BucketTypeOK
  <2> QED
    BY <2>1, DropStays DEF Inv
<1> QED
  BY <1>3, <1>5, WireDrops

(* No call on the bucket, or none that it hears of.                        *)
LEMMA QuietEffect ==
    ASSUME Inv, Inv', LogGrows, PromiseInv, UNCHANGED <<log, index, late>>
    PROVE  /\ \A u \in UID : issued'[u] = issued[u] => IndexedStays(u) /\ PlacedStays(u)
           /\ \A v \in late' : DropSafe(v)'
<1>1. \A u \in UID : issued'[u] = issued[u] => IndexedStays(u) /\ PlacedStays(u)
  BY StillStays
<1>2. ASSUME NEW v \in late PROVE DropSafe(v)'
  BY DropStays DEF PromiseInv, Inv, TypeOK, BucketTypeOK
<1>3. late' = late
  OBVIOUS
<1>4. \A v \in late' : DropSafe(v)'
  BY <1>2, <1>3
<1> QED
  BY <1>1, <1>4

-----------------------------------------------------------------------------
(* What a step leaves alone                                                *)

(* An e-mail that was sent or refused stays so.                            *)
MailStays(u) == mail'[u] = mail[u] \/ (mail[u] = "queued" /\ mail'[u] # "none")

(* What is known of a handler of send_invite holds while it stands still.  *)
LEMMA SenderStays ==
    ASSUME Inv, Inv', LogGrows, NEW q \in Replica, Sender(q),
           sendPc'[q] = sendPc[q], sendUid'[q] = sendUid[q], code'[q] = code[q],
           \A u \in UID : sendUid[q] = u =>
               /\ told'[u] = told[u] /\ MailStays(u)
               /\ IndexedStays(u) /\ PlacedStays(u)
    PROVE  Sender(q)'
<1>1. ASSUME NEW u \in UID, sendUid[q] = u, Kept(u)
      PROVE  Kept(u)'
  <2>1. log[u] # <<>>
    BY <1>1, NewestVersion DEF Inv, Kept, Placed
  <2>2. Placed(u)'
    BY <1>1 DEF Kept, PlacedStays
  <2> QED
    BY <1>1, <2>1, <2>2 DEF Kept, Placed, IndexedStays
<1>2. ASSUME NEW u \in UID, sendUid[q] = u
      PROVE  /\ told'[u] = told[u]
             /\ mail[u] \in {"none", "delivered"} => mail'[u] = mail[u]
             /\ Placed(u) => Placed(u)'
             /\ Withdrawn(u) => Withdrawn(u)'
  BY <1>2, WithdrawnStays DEF Inv, MailStays, PlacedStays
<1>3. sendPc'[q] = "idle" => sendUid'[q] = None
  BY DEF Sender
<1>4. ASSUME NEW u \in UID, sendUid[q] = u
      PROVE  /\ told'[u] = "none"
             /\ sendPc[q] \in {"putRecord", "putIndex", "undoRecord", "requestEmail"} =>
                   mail'[u] = "none"
             /\ sendPc[q] = "putIndex" => Placed(u)'
             /\ sendPc[q] \in {"requestEmail", "awaitEmail", "findRecord"} => Kept(u)'
             /\ sendPc[q] = "deleteIndex" => Withdrawn(u)'
             /\ sendPc[q] = "reply" =>
                   /\ code[q] = "ok" => Kept(u)' /\ mail'[u] = "delivered"
                   /\ code[q] = "internal_error" => mail'[u] = "none"
  BY <1>1, <1>2, <1>4 DEF Sender
<1> QED
  BY <1>3, <1>4 DEF Sender

(* What was promised of an invite holds while nothing of it is taken back. *)
LEMMA PromiseStays ==
    ASSUME Inv, Inv', LogGrows, NEW u \in UID, Promise(u),
           issued'[u] = issued[u], told'[u] = told[u], MailStays(u), IndexedStays(u),
           told[u] = "none" \/ PlacedStays(u)
    PROVE  Promise(u)'
<1>1. log[u] # <<>> => log'[u] # <<>>
  <2>1. Len(log[u]) \in Nat /\ Len(log'[u]) \in Nat /\ log[u] \in Seq(Version)
    BY DEF Inv, TypeOK, BucketTypeOK
  <2>2. log[u] # <<>> => Len(log[u]) > 0
    BY <2>1
  <2>3. log'[u] = <<>> => Len(log'[u]) = 0
    OBVIOUS
  <2> QED
    BY <2>1, <2>2, <2>3 DEF LogGrows
<1>2. mail'[u] # "none" => log'[u] # <<>> /\ (Exists(u)' => Indexed(u)')
  BY <1>1, NoRevival DEF Promise, MailStays, IndexedStays
<1>3. told[u] = "ok" => Kept(u)' /\ mail'[u] = "delivered"
  <2> SUFFICES ASSUME told[u] = "ok" PROVE Kept(u)' /\ mail'[u] = "delivered"
    OBVIOUS
  <2>1. Kept(u) /\ mail[u] = "delivered" /\ PlacedStays(u)
    BY DEF Promise
  <2>2. log[u] # <<>>
    BY <2>1, NewestVersion DEF Inv, Kept, Placed
  <2> QED
    BY <2>1, <2>2 DEF Kept, Placed, PlacedStays, IndexedStays, MailStays
<1>4. told[u] = "internal_error" => mail'[u] = "none"
  BY DEF Promise, MailStays
<1> QED
  BY <1>2, <1>3, <1>4 DEF Promise

-----------------------------------------------------------------------------
(* The steps of the send_invite handler                                    *)

(* An invite has its place once its record is acknowledged.                *)
LEMMA PutRecordPlaces ==
    ASSUME Inv, NEW u \in UID, issued[u] \in Record, log[u] = <<>>, UNCHANGED issued,
           Acked(CreateRecord(u))
    PROVE  Placed(u)'
<1> USE DEF Inv
<1>1. log' = [log EXCEPT ![u] = Append(@, issued[u])] /\ late' = late
  BY DEF Acked, Apply, CreateRecord, Put
<1>2. log'[u] = <<issued[u]>>
  BY <1>1 DEF TypeOK, BucketTypeOK
<1>3. Len(log'[u]) = 1 /\ log'[u][1] = issued[u] /\ issued[u].status # "deleted"
  BY <1>2 DEF Record
<1>4. Exists(u)'
  BY <1>3 DEF Exists, Found, Revision
<1>5. DeleteRecord(u) \notin late
  <2>1. /\ DeleteRecord(u).op = "put" /\ DeleteRecord(u).uid = u
        /\ DeleteRecord(u).value = Tombstone /\ Tombstone # issued[u]
    BY DEF DeleteRecord, Put, Tombstone, Record
  <2> QED
    BY <2>1 DEF LateSafe, WriteSafe
<1> QED
  BY <1>1, <1>4, <1>5 DEF Placed, DeleteRecord

(* The handler of r, after a step of its own, and what it has promised.    *)
LEMMA SendStepOwn ==
    ASSUME Inv, Inv', LogGrows, PromiseInv, NEW r \in Replica, SendStep(r),
           NEW u \in UID \cup {None}, sendUid[r] = u,
           u \in UID => IndexedStays(u),
           u \in UID => sendPc[r] \in {"undoRecord", "deleteRecord"} \/ PlacedStays(u)
    PROVE  Sender(r)' /\ (u \in UID => Promise(u)')
<1> USE DEF Inv
<1>0. /\ sendPc \in [Replica -> SendPC] /\ sendUid \in [Replica -> UID \cup {None}]
      /\ code \in [Replica -> Code] /\ mail \in [UID -> MailState]
      /\ told \in [UID -> Code] /\ Sender(r) /\ UNCHANGED issued
  BY DEF TypeOK, SendTypeOK, PromiseInv, SendStep, PutRecord, PutIndex, UndoRecord,
         RequestEmail, AwaitEmail, FindRecord, RemoveRecord, RemoveIndex, Reply
<1>1. ASSUME u \in UID, Kept(u), PlacedStays(u) PROVE Kept(u)'
  <2>1. log[u] # <<>>
    BY <1>1, NewestVersion DEF Kept, Placed
  <2> QED
    BY <1>1, <2>1 DEF Kept, Placed, PlacedStays, IndexedStays
<1>2. ASSUME u \in UID, UNCHANGED <<mail, told>> PROVE Promise(u)'
  <2>1. Promise(u) /\ MailStays(u) /\ IndexedStays(u)
    BY <1>2 DEF PromiseInv, MailStays
  <2>2. told[u] = "none"
    BY <1>0, <1>2 DEF Sender
  <2> QED
    BY <1>0, <1>2, <2>1, <2>2, PromiseStays
<1>3. CASE PutRecord(r)
  <2>1. u \in UID /\ issued[u] \in Record /\ log[u] = <<>> /\ sendPc[r] = "putRecord"
        /\ UNCHANGED <<mail, told, sendUid>>
    BY <1>3 DEF PutRecord, TypeOK, SendTypeOK, MintedOnce, Goto, Answer
  <2>2. told[u] = "none" /\ mail[u] = "none"
    BY <1>0, <2>1 DEF Sender
  <2>3. CASE Acked(CreateRecord(u)) /\ Goto(r, "putIndex")
    <3>1. Placed(u)'
      BY <1>0, <2>1, <2>3, PutRecordPlaces
    <3>2. sendPc'[r] = "putIndex"
      BY <1>0, <2>3 DEF Goto
    <3> QED
      BY <1>2, <2>1, <2>2, <3>1, <3>2 DEF Sender
  <2>4. CASE Answer(r, "internal_error")
    <3>1. sendPc'[r] = "reply" /\ code'[r] = "internal_error"
      BY <1>0, <2>4 DEF Answer
    <3> QED
      BY <1>2, <2>1, <2>2, <3>1 DEF Sender
  <2> QED
    BY <1>3, <2>3, <2>4 DEF PutRecord
<1>4. CASE PutIndex(r)
  <2>1. u \in UID /\ issued[u] \in Record /\ sendPc[r] = "putIndex"
        /\ UNCHANGED <<mail, told, sendUid>>
    BY <1>4 DEF PutIndex, TypeOK, SendTypeOK, Goto, Answer
  <2>2. told[u] = "none" /\ mail[u] = "none" /\ Placed(u)'
    BY <1>0, <2>1 DEF Sender, PlacedStays
  <2>3. CASE Acked(CreateIndex(u)) /\ Goto(r, "requestEmail")
    <3>1. Indexed(u)'
      BY <1>0, <2>3 DEF Acked, Apply, CreateIndex, AddEntry, Indexed
    <3>2. sendPc'[r] = "requestEmail"
      BY <1>0, <2>3 DEF Goto
    <3> QED
      BY <1>2, <2>1, <2>2, <3>1, <3>2 DEF Sender, Kept
  <2>4. CASE Goto(r, "undoRecord")
    <3>1. sendPc'[r] = "undoRecord"
      BY <1>0, <2>4 DEF Goto
    <3> QED
      BY <1>2, <2>1, <2>2, <3>1 DEF Sender
  <2>5. CASE Answer(r, "internal_error")
    <3>1. sendPc'[r] = "reply" /\ code'[r] = "internal_error"
      BY <1>0, <2>5 DEF Answer
    <3> QED
      BY <1>2, <2>1, <2>2, <3>1 DEF Sender
  <2> QED
    BY <1>4, <2>3, <2>4, <2>5 DEF PutIndex
<1>5. CASE UndoRecord(r)
  <2>1. u \in UID /\ sendPc[r] = "undoRecord" /\ UNCHANGED <<mail, told, sendUid>>
    BY <1>5 DEF UndoRecord, TypeOK, SendTypeOK, Answer
  <2>2. told[u] = "none" /\ mail[u] = "none"
    BY <1>0, <2>1 DEF Sender
  <2>3. sendPc'[r] = "reply" /\ code'[r] = "internal_error"
    BY <1>0, <1>5 DEF UndoRecord, Answer
  <2> QED
    BY <1>2, <2>1, <2>2, <2>3 DEF Sender
<1>6. CASE RequestEmail(r)
  <2>1. u \in UID /\ sendPc[r] = "requestEmail" /\ UNCHANGED <<told, sendUid, log, index>>
    BY <1>6 DEF RequestEmail, TypeOK, SendTypeOK, Goto, bucketVars
  <2>2. told[u] = "none" /\ Kept(u)
    BY <1>0, <2>1 DEF Sender
  <2>3. Kept(u)'
    BY <1>1, <2>1, <2>2
  <2>4. sendPc'[r] \in {"awaitEmail", "findRecord"}
    BY <1>0, <1>6 DEF RequestEmail, Goto
  <2>5. Sender(r)'
    BY <2>1, <2>2, <2>3, <2>4 DEF Sender
  <2>6. Promise(u)'
    <3>1. log'[u] # <<>> /\ Indexed(u)'
      BY <2>1, <2>2, <2>3, NewestVersion DEF Kept, Placed
    <3>2. issued'[u] # None
      BY <1>0, <2>1, NoneAssumption DEF TypeOK, SendTypeOK, Version
    <3> QED
      BY <2>1, <2>2, <3>1, <3>2 DEF Promise
  <2> QED
    BY <2>5, <2>6
<1>7. CASE AwaitEmail(r)
  <2>1. u \in UID /\ sendPc[r] = "awaitEmail" /\ UNCHANGED <<mail, told, sendUid>>
    BY <1>7 DEF AwaitEmail, TypeOK, SendTypeOK, Goto, Answer
  <2>2. told[u] = "none" /\ Kept(u)'
    BY <1>0, <1>1, <2>1 DEF Sender
  <2>3. CASE mail[u] = "delivered" /\ Answer(r, "ok")
    <3>1. sendPc'[r] = "reply" /\ code'[r] = "ok"
      BY <1>0, <2>3 DEF Answer
    <3> QED
      BY <1>2, <2>1, <2>2, <2>3, <3>1 DEF Sender
  <2>4. CASE Goto(r, "findRecord")
    <3>1. sendPc'[r] = "findRecord"
      BY <1>0, <2>4 DEF Goto
    <3> QED
      BY <1>2, <2>1, <2>2, <3>1 DEF Sender
  <2> QED
    BY <1>7, <2>3, <2>4 DEF AwaitEmail
<1>8. ASSUME FindRecord(r) \/ RemoveRecord(r) \/ RemoveIndex(r)
      PROVE  /\ u \in UID /\ told[u] = "none" /\ UNCHANGED <<mail, told, sendUid>>
             /\ \/ sendPc'[r] = "reply" /\ code'[r] = "email_dispatch_failed"
                \/ sendPc'[r] = "deleteRecord"
                \/ sendPc'[r] = "deleteIndex" /\ Acked(DeleteRecord(u))
  <2>1. u \in UID /\ UNCHANGED <<mail, told, sendUid>>
    BY <1>8 DEF FindRecord, RemoveRecord, RemoveIndex, TypeOK, SendTypeOK, Goto, Answer
  <2>2. told[u] = "none"
    BY <1>0, <2>1 DEF Sender
  <2>3. \/ sendPc'[r] = "reply" /\ code'[r] = "email_dispatch_failed"
        \/ sendPc'[r] = "deleteRecord"
        \/ sendPc'[r] = "deleteIndex" /\ Acked(DeleteRecord(u))
    BY <1>0, <1>8 DEF FindRecord, RemoveRecord, RemoveIndex, Goto, Answer
  <2> QED
    BY <2>1, <2>2, <2>3
<1>9. ASSUME u \in UID, Acked(DeleteRecord(u))
      PROVE  Withdrawn(u)'
  <2>1. log' = [log EXCEPT ![u] = Append(@, Tombstone)]
    BY <1>9 DEF Acked, Apply, DeleteRecord, Put
  <2>2. log'[u] = Append(log[u], Tombstone) /\ log[u] \in Seq(Version) /\ Tombstone \in Version
    BY <1>9, <2>1 DEF TypeOK, BucketTypeOK, Version
  <2>3. /\ Len(log[u]) + 1 \in DOMAIN Append(log[u], Tombstone)
        /\ Append(log[u], Tombstone)[Len(log[u]) + 1] = Tombstone
    BY <2>2
  <2> QED
    BY <2>2, <2>3 DEF Withdrawn, Tombstone
<1>10. CASE FindRecord(r) \/ RemoveRecord(r) \/ RemoveIndex(r)
  <2>1. Promise(u)'
    BY <1>2, <1>8, <1>10
  <2>2. Sender(r)'
    BY <1>8, <1>9, <1>10 DEF Sender
  <2> QED
    BY <2>1, <2>2
<1>11. CASE Reply(r)
  <2>1. /\ sendPc[r] = "reply" /\ sendPc'[r] = "idle" /\ sendUid'[r] = None
        /\ UNCHANGED <<log, index, late, issued, mail>>
        /\ u \in UID => told'[u] \in {told[u], code[r]}
    BY <1>0, <1>11 DEF Reply, bucketVars
  <2>2. Sender(r)'
    BY <2>1, BucketAssumption DEF Sender
  <2>3. ASSUME u \in UID PROVE Promise(u)'
    <3>1. /\ Promise(u) /\ told[u] = "none"
          /\ code[r] = "ok" => Kept(u) /\ mail[u] = "delivered"
          /\ code[r] = "internal_error" => mail[u] = "none"
      BY <1>0, <2>1, <2>3 DEF Sender, PromiseInv
    <3>2. issued'[u] # None
      BY <1>0, <2>1, <2>3, NoneAssumption DEF TypeOK, SendTypeOK, Version
    <3>3. (Kept(u) => Kept(u)') /\ (Exists(u)' <=> Exists(u)) /\ (Indexed(u)' <=> Indexed(u))
      BY <2>1 DEF Kept, Placed, Exists, Found, Revision, Indexed, DeleteRecord
    <3> QED
      BY <2>1, <2>3, <3>1, <3>2, <3>3 DEF Promise
  <2> QED
    BY <2>2, <2>3
<1> QED
  BY <1>3, <1>4, <1>5, <1>6, <1>7, <1>10, <1>11 DEF SendStep

(* The calls of send_invite keep the promises.                             *)
LEMMA SendStepKeeps ==
    ASSUME Inv, Inv', LogGrows, \A u \in UID : LogStep(u), PromiseInv,
           NEW r \in Replica, SendStep(r)
    PROVE  PromiseInv'
<1> USE DEF Inv
<1>0. /\ sendUid[r] \in UID \cup {None} /\ UNCHANGED issued
      /\ \A q \in Replica \ {r} :
            sendPc'[q] = sendPc[q] /\ sendUid'[q] = sendUid[q] /\ code'[q] = code[q]
      /\ \A u \in UID : sendUid[r] # u => told'[u] = told[u] /\ mail'[u] = mail[u]
  BY DEF TypeOK, SendTypeOK, SendStep, PutRecord, PutIndex, UndoRecord, RequestEmail,
         AwaitEmail, FindRecord, RemoveRecord, RemoveIndex, Reply, Goto, Answer
<1>1. /\ \A u \in UID : IndexedStays(u)
      /\ \A u \in UID : \/ sendUid[r] = u /\ sendPc[r] \in {"undoRecord", "deleteRecord"}
                        \/ PlacedStays(u)
      /\ \A v \in late' : DropSafe(v)'
  <2>1. CASE UNCHANGED <<log, index, late>>
    BY <1>0, <2>1, QuietEffect
  <2>2. CASE \E w \in SendOnWire(r) : Acked(w) \/ Refused \/ TimedOut(w)
    BY <1>0, <2>2, CallStays
  <2>3. \/ UNCHANGED <<log, index, late>>
        \/ \E w \in SendOnWire(r) : Acked(w) \/ Refused \/ TimedOut(w)
    <3>1. CASE PutRecord(r) \/ PutIndex(r) \/ UndoRecord(r) \/ RemoveRecord(r) \/ RemoveIndex(r)
      BY <3>1 DEF PutRecord, PutIndex, UndoRecord, RemoveRecord, RemoveIndex, SendOnWire
    <3>2. CASE RequestEmail(r) \/ AwaitEmail(r) \/ FindRecord(r) \/ Reply(r)
      BY <3>2 DEF RequestEmail, AwaitEmail, FindRecord, Reply, Refused, bucketVars
    <3> QED
      BY <3>1, <3>2 DEF SendStep
  <2> QED
    BY <2>1, <2>2, <2>3
<1>2. Sender(r)' /\ \A u \in UID : sendUid[r] = u => Promise(u)'
  <2>1. PICK u \in UID \cup {None} : sendUid[r] = u
    BY <1>0
  <2> QED
    BY <1>1, <2>1, SendStepOwn
<1>3. ASSUME NEW q \in Replica, q # r PROVE Sender(q)'
  <2>1. \A u \in UID : sendUid[q] = u => sendUid[r] # u
    BY <1>3 DEF MintedOnce
  <2>2. Sender(q)
    BY DEF PromiseInv
  <2> QED
    BY <1>0, <1>1, <1>3, <2>1, <2>2, SenderStays DEF MailStays
<1>4. ASSUME NEW u \in UID, sendUid[r] # u PROVE Promise(u)'
  BY <1>0, <1>1, <1>4, PromiseStays DEF PromiseInv, MailStays
<1> QED
  BY <1>1, <1>2, <1>3, <1>4 DEF PromiseInv

-----------------------------------------------------------------------------
(* The other steps                                                         *)

(* Nothing is told or stored that is about an invite just minted.          *)
LEMMA IssueKeeps ==
    ASSUME Inv, Inv', LogGrows, PromiseInv, NEW r \in Replica, NEW u \in UID, NEW e \in Email,
           NEW name \in User \cup {None}, NEW d \in RequestDays, Issue(r, u, e, name, d)
    PROVE  PromiseInv'
<1> USE DEF Inv
<1>1. /\ UNCHANGED <<log, index, late, code, mail, told>> /\ issued[u] = None
      /\ \A v \in UID \ {u} : issued'[v] = issued[v]
      /\ sendPc'[r] = "putRecord" /\ sendUid'[r] = u
      /\ \A q \in Replica \ {r} : sendPc'[q] = sendPc[q] /\ sendUid'[q] = sendUid[q]
  BY DEF Issue, bucketVars, TypeOK, SendTypeOK
<1>2. told[u] = "none" /\ mail[u] = "none"
  <2>1. issued[u] \notin Record
    BY <1>1, NoneAssumption DEF Version
  <2> QED
    BY <1>1, <2>1 DEF PromiseInv, Promise, TypeOK, SendTypeOK
<1>3. \A q \in Replica : sendUid[q] # u
  BY <1>1, NoneAssumption DEF TypeOK, SendTypeOK, Version
<1>4. /\ \A v \in UID \ {u} : IndexedStays(v) /\ PlacedStays(v)
      /\ \A w \in late' : DropSafe(w)'
  BY <1>1, QuietEffect
<1>5. ASSUME NEW q \in Replica PROVE Sender(q)'
  <2>1. CASE q = r
    BY <1>1, <1>2, <2>1 DEF Sender
  <2>2. CASE q # r
    <3>1. Sender(q)
      BY DEF PromiseInv
    <3> QED
      BY <1>1, <1>3, <1>4, <2>2, <3>1, SenderStays DEF MailStays
  <2> QED
    BY <2>1, <2>2
<1>6. ASSUME NEW v \in UID PROVE Promise(v)'
  <2>1. CASE v = u
    BY <1>1, <1>2, <2>1 DEF Promise
  <2>2. CASE v # u
    BY <1>1, <1>4, <2>2, PromiseStays DEF PromiseInv, MailStays
  <2> QED
    BY <2>1, <2>2
<1> QED
  BY <1>4, <1>5, <1>6 DEF PromiseInv

(* A step that leaves the handlers of send_invite where they are.          *)
LEMMA AsideKeeps ==
    ASSUME Inv, Inv', LogGrows, PromiseInv, UNCHANGED <<sendPc, sendUid, code, issued, told>>,
           \A u \in UID : MailStays(u) /\ IndexedStays(u) /\ PlacedStays(u),
           \A w \in late' : DropSafe(w)'
    PROVE  PromiseInv'
<1>1. ASSUME NEW q \in Replica PROVE Sender(q)'
  BY SenderStays DEF PromiseInv
<1>2. ASSUME NEW u \in UID PROVE Promise(u)'
  BY PromiseStays DEF PromiseInv
<1> QED
  BY <1>1, <1>2 DEF PromiseInv

(* So do all steps around send_invite.                                     *)
LEMMA SendNextKeeps ==
    ASSUME Inv, Inv', LogGrows, \A u \in UID : LogStep(u), PromiseInv, SendNext
    PROVE  PromiseInv'
<1>1. ASSUME NEW r \in Replica, NEW c \in Code, Reject(r, c)
      PROVE  PromiseInv'
  <2>1. /\ UNCHANGED <<log, index, late, issued, sendUid, mail, told>>
        /\ sendPc[r] = "idle" /\ sendPc'[r] = "reply"
        /\ \A q \in Replica \ {r} : sendPc'[q] = sendPc[q] /\ code'[q] = code[q]
    BY <1>1 DEF Reject, Answer, bucketVars, Inv, TypeOK, SendTypeOK
  <2>2. sendUid[r] \notin UID
    BY <2>1, BucketAssumption DEF PromiseInv, Sender
  <2>3. /\ \A u \in UID : IndexedStays(u) /\ PlacedStays(u)
        /\ \A w \in late' : DropSafe(w)'
    BY <2>1, QuietEffect
  <2>4. ASSUME NEW q \in Replica PROVE Sender(q)'
    <3>1. CASE q = r
      BY <2>1, <2>2, <3>1 DEF Sender
    <3>2. CASE q # r
      <4>1. Sender(q)
        BY DEF PromiseInv
      <4> QED
        BY <2>1, <2>3, <3>2, <4>1, SenderStays DEF MailStays
    <3> QED
      BY <3>1, <3>2
  <2>5. ASSUME NEW u \in UID PROVE Promise(u)'
    BY <2>1, <2>3, PromiseStays DEF PromiseInv, MailStays
  <2> QED
    BY <2>3, <2>4, <2>5 DEF PromiseInv
<1>2. ASSUME NEW v \in UID, EmailService(v)
      PROVE  PromiseInv'
  <2>1. UNCHANGED <<log, index, late, issued, told, sendPc, sendUid, code>>
    BY <1>2 DEF EmailService, bucketVars, handlerVars
  <2>2. \A u \in UID : MailStays(u)
    BY <1>2 DEF EmailService, MailStays, Inv, TypeOK, SendTypeOK
  <2> QED
    BY <2>1, <2>2, QuietEffect, AsideKeeps
<1> QED
  BY <1>1, <1>2, SendStepKeeps, IssueKeeps DEF SendNext

(* So do the steps of the acceptances.                                     *)
LEMMA AcceptStepKeeps ==
    ASSUME Inv, Inv', LogGrows, \A u \in UID : LogStep(u), PromiseInv,
           NEW r \in Replica, Receive(r) \/ AcceptStep(r), UNCHANGED sendVars
    PROVE  PromiseInv'
<1>1. UNCHANGED <<sendPc, sendUid, code, issued, mail, told>>
  BY DEF sendVars
<1>2. \A u \in UID : MailStays(u)
  BY <1>1 DEF MailStays
<1>3. /\ \A u \in UID : IndexedStays(u) /\ PlacedStays(u)
      /\ \A w \in late' : DropSafe(w)'
  <2>1. CASE MarkUpdate(r)
    <3> DEFINE w == Acceptance(r)
    <3>1. w \in AcceptOnWire(r) /\ (Acked(w) \/ Refused \/ TimedOut(w))
      BY <2>1 DEF MarkUpdate, AcceptOnWire
    <3>2. w \in Write /\ DropSafe(w) /\ Effect(w) /\ \A u \in UID : w # DeleteRecord(u)
      BY <3>1, WireSafe, WireDrops DEF Effect, Acceptance, Update, DeleteRecord, Put
    <3>3. \A u \in UID : IndexedStays(u) /\ PlacedStays(u)
      BY <1>1, <3>2, EffectStays
    <3> QED
      BY <1>1, <3>1, <3>3, CallStays
  <2>2. CASE ~MarkUpdate(r)
    <3>1. UNCHANGED <<log, index, late>>
      BY <2>2 DEF Receive, ReceiveEvent, AcceptStep, Load, MarkGet, Enrich, Publish,
                  bucketVars
    <3> QED
      BY <1>1, <3>1, QuietEffect
  <2> QED
    BY <2>1, <2>2
<1> QED
  BY <1>1, <1>2, <1>3, AsideKeeps

(* What a stopped handler was about to delete, nobody was promised.        *)
LEMMA CrashKeeps ==
    ASSUME Inv, Inv', LogGrows, PromiseInv, NEW r \in Replica, Crash(r)
    PROVE  PromiseInv'
<1> USE DEF Inv
<1>1. /\ UNCHANGED <<log, index, issued, mail, told>>
      /\ sendPc'[r] = "idle" /\ sendUid'[r] = None
      /\ \A q \in Replica \ {r} :
            sendPc'[q] = sendPc[q] /\ sendUid'[q] = sendUid[q] /\ code'[q] = code[q]
  BY DEF Crash, SendCrash, TypeOK, SendTypeOK
<1>2. PICK S \in SUBSET (SendOnWire(r) \cup AcceptOnWire(r)) : late' = late \cup S
  BY DEF Crash
<1>3. ASSUME NEW v \in late' PROVE DropSafe(v)'
  <2>1. v \in Write /\ DropSafe(v)
    BY <1>2, WireSafe, WireDrops DEF PromiseInv, TypeOK, BucketTypeOK
  <2> QED
    BY <2>1, DropStays
<1>4. \A u \in UID : IndexedStays(u)
  BY <1>1, StillStays
<1>5. ASSUME NEW u \in UID, sendUid[r] # u PROVE PlacedStays(u)
  <2>1. DeleteRecord(u) \notin S
    BY <1>2, <1>5, WireDrops
  <2> QED
    BY <1>1, <1>2, <2>1 DEF PlacedStays, Placed, Exists, Found, Revision, DeleteRecord
<1>6. ASSUME NEW q \in Replica PROVE Sender(q)'
  <2>1. CASE q = r
    BY <1>1, <2>1, BucketAssumption DEF Sender
  <2>2. CASE q # r
    <3>1. Sender(q) /\ \A u \in UID : sendUid[q] = u => sendUid[r] # u
      BY <2>2 DEF PromiseInv, MintedOnce
    <3> QED
      BY <1>1, <1>4, <1>5, <2>2, <3>1, SenderStays DEF MailStays
  <2> QED
    BY <2>1, <2>2
<1>7. ASSUME NEW u \in UID PROVE Promise(u)'
  <2>1. sendUid[r] = u => told[u] = "none"
    BY DEF PromiseInv, Sender
  <2> QED
    BY <1>1, <1>4, <1>5, <2>1, PromiseStays DEF PromiseInv, MailStays
<1> QED
  BY <1>3, <1>6, <1>7 DEF PromiseInv

(* So does a late write.                                                   *)
LEMMA ApplyLateKeeps ==
    ASSUME Inv, Inv', LogGrows, \A u \in UID : LogStep(u), PromiseInv, ApplyLate,
           UNCHANGED sendVars
    PROVE  PromiseInv'
<1>1. PICK w \in late : Apply(w) /\ late' = late \ {w}
  BY DEF ApplyLate
<1>2. w \in Write /\ DropSafe(w) /\ Effect(w)
  BY <1>1 DEF Inv, TypeOK, BucketTypeOK, PromiseInv, Effect
<1>3. UNCHANGED <<sendPc, sendUid, code, issued, mail, told>>
  BY DEF sendVars
<1>4. \A u \in UID : IndexedStays(u) /\ (w # DeleteRecord(u) => PlacedStays(u))
  BY <1>2, <1>3, EffectStays
<1>5. \A u \in UID : w = DeleteRecord(u) => PlacedStays(u)
  BY <1>1 DEF PlacedStays, Placed
<1>6. ASSUME NEW v \in late' PROVE DropSafe(v)'
  BY <1>1, DropStays DEF Inv, TypeOK, BucketTypeOK, PromiseInv
<1> QED
  BY <1>3, <1>4, <1>5, <1>6, AsideKeeps DEF MailStays

(* So does every step.                                                     *)
LEMMA NextPromises ==
    ASSUME Inv, PromiseInv, [Next]_vars
    PROVE  PromiseInv'
<1>1. Inv' /\ LogGrows /\ \A u \in UID : LogStep(u)
  BY NextInv
<1>2. CASE SendNext /\ UNCHANGED acceptVars
  BY <1>1, <1>2, SendNextKeeps
<1>3. ASSUME NEW r \in Replica, Receive(r) \/ AcceptStep(r), UNCHANGED sendVars
      PROVE  PromiseInv'
  BY <1>1, <1>3, AcceptStepKeeps
<1>4. ASSUME NEW r \in Replica, Crash(r)
      PROVE  PromiseInv'
  BY <1>1, <1>4, CrashKeeps
<1>5. CASE ApplyLate /\ UNCHANGED <<sendVars, acceptVars>>
  BY <1>1, <1>5, ApplyLateKeeps
<1>6. CASE (Tick \/ UNCHANGED bucketVars) /\ UNCHANGED sendVars
  <2>1. UNCHANGED <<log, index, late, sendPc, sendUid, code, issued, mail, told>>
    BY <1>6 DEF Tick, bucketVars, sendVars
  <2> QED
    BY <1>1, <2>1, QuietEffect, AsideKeeps DEF MailStays
<1> QED
  BY <1>2, <1>3, <1>4, <1>5, <1>6 DEF Next, vars

(* Nothing is promised at first.                                           *)
LEMMA InitPromises == Init => PromiseInv
BY DEF Init, BucketInit, SendInit, PromiseInv, Sender, Promise, BucketAssumption

-----------------------------------------------------------------------------
(* What the service promises                                               *)

(* The second inductive invariant: what each call of a send, each answer   *)
(* and each e-mail rests on (notification.go:148-210).                     *)
THEOREM PromisesInvariance == Spec => []PromiseInv
<1>1. Init => PromiseInv
  BY InitPromises
<1>2. Inv /\ PromiseInv /\ [Next]_vars => PromiseInv'
  BY NextPromises
<1> QED
  BY <1>1, <1>2, Invariance, PTL DEF Spec

(* An e-mail has gone out only for an invite that is stored and indexed,   *)
(* and never for one whose requester was told internal_error.              *)
THEOREM NeverUntracked == Spec => []FailClosedPersist
<1>1. PromiseInv => FailClosedPersist
  BY DEF PromiseInv, Promise, FailClosedPersist
<1> QED
  BY <1>1, PromisesInvariance, PTL

(* A requester that was told "ok" holds an invite that is stored, indexed  *)
(* and sent, and that no delete is about to remove.                        *)
THEOREM SuccessIsKept == Spec => []SuccessIsDurable
<1>1. Inv /\ PromiseInv => SuccessIsDurable
  <2> SUFFICES ASSUME Inv, PromiseInv, NEW u \in UID, told[u] = "ok"
               PROVE  Kept(u) /\ mail[u] = "delivered" /\ DeleteIndex(u) \notin late
    BY DEF SuccessIsDurable, Kept, Placed
  <2>1. Kept(u) /\ mail[u] = "delivered"
    BY DEF PromiseInv, Promise
  <2>2. DeleteIndex(u) \notin late
    <3>1. DeleteIndex(u) \in late => Withdrawn(u)
      BY DEF PromiseInv, DropSafe, DeleteIndex, DropEntry, IndexEntry
    <3> QED
      BY <2>1, <3>1, WithdrawnIsLast DEF Inv, NothingAfterWithdrawal, Kept, Placed
  <2> QED
    BY <2>1, <2>2
<1> QED
  BY <1>1, Invariance, PromisesInvariance, PTL

-----------------------------------------------------------------------------
(* The evidence for an acceptance                                          *)

(* What an acceptance rests on does not go away.                           *)
IssuedStays    == \A u \in UID : issued[u] # None => issued'[u] = issued[u]
DeliveredStays == \A u \in UID : mail[u] = "delivered" => mail'[u] = "delivered"

(* What was issued and what was delivered stays so.                        *)
LEMMA FactsStay ==
    ASSUME Inv, PromiseInv, [Next]_vars
    PROVE  IssuedStays /\ DeliveredStays
<1> USE DEF Inv
<1>1. CASE UNCHANGED <<issued, mail>>
  BY <1>1 DEF IssuedStays, DeliveredStays
<1>2. ASSUME NEW r \in Replica, SendStep(r)
      PROVE  IssuedStays /\ DeliveredStays
  <2>1. CASE RequestEmail(r)
    <3>1. sendUid[r] \in UID /\ mail[sendUid[r]] = "none" /\ UNCHANGED issued
      BY <2>1 DEF RequestEmail, TypeOK, SendTypeOK, PromiseInv, Sender
    <3>2. \A u \in UID : u # sendUid[r] => mail'[u] = mail[u]
      BY <2>1, <3>1 DEF RequestEmail, TypeOK, SendTypeOK
    <3> QED
      BY <3>1, <3>2 DEF IssuedStays, DeliveredStays
  <2>2. CASE ~RequestEmail(r)
    <3>1. UNCHANGED <<issued, mail>>
      BY <1>2, <2>2 DEF SendStep, PutRecord, PutIndex, UndoRecord, AwaitEmail, FindRecord,
                        RemoveRecord, RemoveIndex, Reply
    <3> QED
      BY <1>1, <3>1
  <2> QED
    BY <2>1, <2>2
<1>3. ASSUME NEW r \in Replica, NEW c \in Code, Reject(r, c)
      PROVE  IssuedStays /\ DeliveredStays
  BY <1>1, <1>3 DEF Reject
<1>4. ASSUME NEW r \in Replica, NEW u \in UID, NEW e \in Email,
             NEW name \in User \cup {None}, NEW d \in RequestDays, Issue(r, u, e, name, d)
      PROVE  IssuedStays /\ DeliveredStays
  BY <1>4 DEF Issue, IssuedStays, DeliveredStays, TypeOK, SendTypeOK
<1>5. ASSUME NEW u \in UID, EmailService(u)
      PROVE  IssuedStays /\ DeliveredStays
  BY <1>5 DEF EmailService, IssuedStays, DeliveredStays, TypeOK, SendTypeOK
<1>6. CASE SendNext
  BY <1>2, <1>3, <1>4, <1>5, <1>6 DEF SendNext
<1>7. CASE ~SendNext
  <2>1. UNCHANGED <<issued, mail>>
    BY <1>7 DEF Next, vars, sendVars, Crash, SendCrash
  <2> QED
    BY <1>1, <2>1
<1> QED
  BY <1>6, <1>7

(* So does the evidence of an acceptance.                                  *)
LEMMA EvidenceStays ==
    ASSUME TypeOK, IssuedStays, DeliveredStays, NEW u \in UID, NEW v, Evidence(u, v)
    PROVE  Evidence(u, v)'
<1>1. issued[u] # None
  BY NoneAssumption DEF Evidence, TypeOK, SendTypeOK, Version
<1> QED
  BY <1>1 DEF Evidence, IssuedStays, DeliveredStays

(* And what is known of a handler of an acceptance while it stands still.  *)
LEMMA AccepterStays ==
    ASSUME TypeOK, IssuedStays, DeliveredStays, NEW q \in Replica, Accepter(q),
           acceptPc'[q] = acceptPc[q], event'[q] = event[q], started'[q] = started[q]
    PROVE  Accepter(q)'
<1>1. ASSUME acceptPc[q] # "idle", event[q].token # None
      PROVE  mail'[event[q].token.uid] = "delivered"
  <2>1. event[q].token.uid \in UID
    BY <1>1 DEF TypeOK, AcceptTypeOK, Event, Claims
  <2> QED
    BY <1>1, <2>1 DEF Accepter, DeliveredStays
<1>2. ASSUME acceptPc[q] \in {"markGet", "markUpdate"}
      PROVE  /\ mail'[event[q].uid] = "delivered"
             /\ issued'[event[q].uid] = issued[event[q].uid]
  <2>1. event[q].uid \in UID
    BY <1>2 DEF TypeOK, AcceptTypeOK, Event
  <2>2. mail[event[q].uid] = "delivered"
    BY <1>2 DEF Accepter
  <2>3. issued[event[q].uid] # None
    BY <2>1, <2>2, NoneAssumption DEF TypeOK, SendTypeOK, Version
  <2> QED
    BY <2>1, <2>2, <2>3 DEF IssuedStays, DeliveredStays
<1> QED
  BY <1>1, <1>2 DEF Accepter

(* An update that is on the wire rests on evidence.                        *)
LEMMA WireEvidence ==
    ASSUME Inv, EvidenceInv, NEW r \in Replica,
           NEW w \in SendOnWire(r) \cup AcceptOnWire(r), w.op = "update"
    PROVE  Evidence(w.uid, w.value)
<1> DEFINE u == event[r].uid
<1>1. w \notin SendOnWire(r)
  BY DEF SendOnWire, CreateRecord, CreateIndex, DeleteRecord, DeleteIndex, Put, AddEntry,
         DropEntry
<1>2. acceptPc[r] = "markUpdate" /\ w = Acceptance(r)
  BY <1>1 DEF AcceptOnWire
<1>3. SeenVersion(r) \in Record
  BY <1>2, AcceptanceType DEF Inv
<1>4. /\ event[r].username \in User /\ started[r] \in Nat
  BY <1>2 DEF Inv, TypeOK, AcceptTypeOK, Event
<1>5. w.uid = u /\ w.value.by = event[r].username /\ w.value.at = started[r]
  BY <1>2, <1>3 DEF Acceptance, Update, Record
<1>6. /\ mail[u] = "delivered" /\ issued[u].username \in {None, event[r].username}
      /\ started[r] < issued[u].expires
  BY <1>2 DEF EvidenceInv, Accepter
<1> QED
  BY <1>4, <1>5, <1>6 DEF Evidence

(* A write that may be applied has its evidence.                           *)
LEMMA EffectEvidence ==
    ASSUME Inv, EvidenceInv, IssuedStays, DeliveredStays, NEW w \in Write, WriteSafe(w),
           w.op = "update" => Evidence(w.uid, w.value), Effect(w)
    PROVE  /\ \A u \in UID : log'[u] # <<>> => log'[u][1] = issued'[u]
           /\ \A u \in UID : \A n \in DOMAIN log'[u] :
                 Accepted(u, n)' => Evidence(u, log[u][n])'
           /\ \A v \in late' : v.op = "update" => Evidence(v.uid, v.value)'
<1> USE DEF Inv
<1>1. ASSUME NEW v \in late', v.op = "update" PROVE Evidence(v.uid, v.value)'
  <2>1. v \in Write /\ Evidence(v.uid, v.value)
    BY <1>1 DEF Effect, Acked, Refused, TimedOut, bucketVars, EvidenceInv, TypeOK,
                BucketTypeOK
  <2> QED
    BY <1>1, <2>1, WriteTypes, EvidenceStays
<1>2. ASSUME NEW u \in UID, log'[u] = log[u]
      PROVE  /\ log'[u] # <<>> => log'[u][1] = issued'[u]
             /\ \A n \in DOMAIN log'[u] : Accepted(u, n)' => Evidence(u, log[u][n])'
  <2>1. log[u] # <<>> => log[u][1] = issued[u] /\ issued'[u] = issued[u]
    BY DEF EvidenceInv, MintedOnce, IssuedStays
  <2>2. ASSUME NEW n \in DOMAIN log[u], Accepted(u, n)'
        PROVE  Evidence(u, log[u][n])'
    <3>1. Evidence(u, log[u][n])
      BY <1>2, <2>2 DEF EvidenceInv, Accepted
    <3>2. PICK x : x = log[u][n]
      OBVIOUS
    <3>3. Evidence(u, x)'
      BY <3>1, <3>2, EvidenceStays
    <3> QED
      BY <1>2, <3>2, <3>3
  <2> QED
    BY <1>2, <2>1, <2>2
<1>3. ASSUME NEW u \in UID, log'[u] # log[u]
      PROVE  /\ log'[u] # <<>> => log'[u][1] = issued'[u]
             /\ \A n \in DOMAIN log'[u] : Accepted(u, n)' => Evidence(u, log[u][n])'
  <2>1. Apply(w)
    BY <1>3 DEF Effect, Acked, Refused, TimedOut, bucketVars
  <2>2. /\ w.op = "put" \/ (w.op = "update" /\ Matches(w))
        /\ log' = [log EXCEPT ![w.uid] = Append(@, w.value)]
    BY <1>3, <2>1 DEF Apply
  <2>3. w.uid = u /\ w.value \in Version /\ log[u] \in Seq(Version)
    BY <1>3, <2>2, WriteTypes DEF TypeOK, BucketTypeOK, Version
  <2>4. log'[u] = Append(log[u], w.value)
    BY <2>2, <2>3 DEF TypeOK, BucketTypeOK
  <2>5. /\ DOMAIN log'[u] = 1..Len(log[u]) + 1 /\ Len(log[u]) \in Nat
        /\ \A n \in 1..Len(log[u]) : log'[u][n] = log[u][n] /\ n \in DOMAIN log[u]
        /\ log'[u][Len(log[u]) + 1] = w.value
    BY <2>3, <2>4
  <2>6. log'[u][1] = issued'[u]
    <3>1. CASE log[u] = <<>>
      <4>1. Len(log[u]) = 0
        BY <3>1
      <4>2. w.value = issued[u] /\ issued[u] # None
        BY <2>2, <2>3, <3>1, <4>1, NoneAssumption DEF WriteSafe, Matches, Revision
      <4> QED
        BY <2>5, <4>1, <4>2 DEF IssuedStays
    <3>2. CASE log[u] # <<>>
      <4>1. Len(log[u]) >= 1
        BY <2>3, <3>2
      <4>2. issued'[u] = issued[u] /\ log[u][1] = issued[u]
        BY <3>2 DEF EvidenceInv, MintedOnce, IssuedStays
      <4> QED
        BY <2>5, <4>1, <4>2
    <3> QED
      BY <3>1, <3>2
  <2>7. ASSUME NEW n \in DOMAIN log'[u], Accepted(u, n)'
        PROVE  Evidence(u, log[u][n])'
    <3>1. PICK x : x = log'[u][n]
      OBVIOUS
    <3>2. Evidence(u, x)
      <4>1. CASE n \in 1..Len(log[u])
        BY <2>5, <2>7, <3>1, <4>1 DEF EvidenceInv, Accepted
      <4>2. CASE n = Len(log[u]) + 1
        <5>1. x = w.value /\ w.value.status = "accepted"
          BY <2>5, <2>7, <3>1, <4>2 DEF Accepted
        <5>2. w.op # "put"
          <6>1. w.value # Tombstone
            BY <5>1 DEF Tombstone
          <6>2. w.value = issued[u] => w.value.status = "pending"
            BY <2>3, NoneAssumption DEF MintedOnce
          <6> QED
            BY <2>3, <5>1, <6>1, <6>2 DEF WriteSafe
        <5> QED
          BY <2>2, <2>3, <5>1, <5>2
      <4> QED
        BY <2>5, <4>1, <4>2
    <3>3. Evidence(u, x)'
      BY <3>2, EvidenceStays
    <3> QED
      BY <3>1, <3>3
  <2> QED
    BY <2>6, <2>7
<1> QED
  BY <1>1, <1>2, <1>3

(* What writes nothing adds nothing that needs evidence.                   *)
LEMMA QuietEvidence ==
    ASSUME Inv, EvidenceInv, IssuedStays, DeliveredStays, UNCHANGED log,
           NEW S, \A w \in S : w \in Write /\ (w.op = "update" => Evidence(w.uid, w.value)),
           late' \subseteq late \cup S
    PROVE  /\ \A u \in UID : log'[u] # <<>> => log'[u][1] = issued'[u]
           /\ \A u \in UID : \A n \in DOMAIN log'[u] :
                 Accepted(u, n)' => Evidence(u, log[u][n])'
           /\ \A v \in late' : v.op = "update" => Evidence(v.uid, v.value)'
<1> USE DEF Inv
<1>1. ASSUME NEW v \in late', v.op = "update" PROVE Evidence(v.uid, v.value)'
  <2>1. v \in Write /\ Evidence(v.uid, v.value)
    BY <1>1 DEF EvidenceInv, TypeOK, BucketTypeOK
  <2> QED
    BY <1>1, <2>1, WriteTypes, EvidenceStays
<1>2. ASSUME NEW u \in UID, log[u] # <<>> PROVE log[u][1] = issued'[u]
  BY <1>2 DEF EvidenceInv, MintedOnce, IssuedStays
<1>3. ASSUME NEW u \in UID, NEW n \in DOMAIN log[u], Accepted(u, n)'
      PROVE  Evidence(u, log[u][n])'
  <2>1. PICK x : x = log[u][n]
    OBVIOUS
  <2>2. Evidence(u, x)
    BY <1>3, <2>1 DEF EvidenceInv, Accepted
  <2>3. Evidence(u, x)'
    BY <2>2, EvidenceStays
  <2> QED
    BY <2>1, <2>3
<1> QED
  BY <1>1, <1>2, <1>3

(* What the handler of r has established, after a step of its own.         *)
LEMMA AcceptStepOwn ==
    ASSUME Inv, EvidenceInv, NEW r \in Replica, Receive(r) \/ AcceptStep(r),
           UNCHANGED sendVars
    PROVE  Accepter(r)'
<1> USE DEF Inv
<1>0. /\ acceptPc \in [Replica -> AcceptPC] /\ event \in [Replica -> Event \cup {None}]
      /\ started \in [Replica -> Nat] /\ Accepter(r) /\ UNCHANGED <<issued, mail>>
  BY DEF TypeOK, AcceptTypeOK, EvidenceInv, sendVars
<1>1. ASSUME Return(r) PROVE Accepter(r)'
  <2>1. acceptPc'[r] = "idle"
    BY <1>0, <1>1 DEF Return
  <2> QED
    BY <2>1 DEF Accepter
<1>2. CASE Receive(r)
  <2>1. PICK u \in UID, name \in User, t \in TokensOut \cup {None} :
          ReceiveEvent(r, [ uid |-> u, username |-> name, token |-> t ])
    BY <1>2 DEF Receive
  <2>2. acceptPc'[r] = "load" /\ event'[r].token = t
    BY <1>0, <2>1 DEF ReceiveEvent, AcceptGoto
  <2>3. t # None => mail[t.uid] = "delivered"
    BY DEF TokensOut, Token
  <2> QED
    BY <1>0, <2>2, <2>3 DEF Accepter
<1>3. ASSUME NEW u \in UID, event[r].uid = u, NEW n \in Readable(u), Found(u, n),
             log[u][n].status # "accepted"
      PROVE  log[u][n] = issued[u]
  <2>1. n = 1
    BY <1>3, PendingIsFirst
  <2>2. log[u] # <<>>
    <3>1. Len(<<>>) = 0 /\ Revision(u) >= 1
      BY <1>3, <2>1, FoundTypes DEF TypeOK
    <3> QED
      BY <3>1 DEF Revision
  <2> QED
    BY <2>1, <2>2 DEF EvidenceInv
<1>4. CASE Load(r)
  <2>1. CASE ~Return(r)
    <3> DEFINE e == event[r]
    <3>1. PICK n \in Readable(e.uid) :
            /\ Found(e.uid, n)
            /\ log[e.uid][n].status # "accepted"
            /\ Verified(e, log[e.uid][n], now)
            /\ acceptPc' = [acceptPc EXCEPT ![r] = "markGet"]
            /\ UNCHANGED event
      BY <1>4, <2>1 DEF Load, AcceptGoto
    <3>2. e \in Event /\ e.uid \in UID
      BY <1>4 DEF Load, TypeOK, AcceptTypeOK, Event
    <3>3. log[e.uid][n] = issued[e.uid]
      BY <1>3, <3>1, <3>2
    <3>4. /\ e.token # None /\ e.token.uid = e.uid
          /\ issued[e.uid].username \in {None, e.username}
      BY <3>1, <3>3 DEF Verified
    <3>5. mail[e.uid] = "delivered"
      BY <1>0, <1>4, <3>4 DEF Load, Accepter
    <3>6. acceptPc'[r] = "markGet" /\ event'[r] = e
      BY <1>0, <3>1
    <3> QED
      BY <1>0, <3>4, <3>5, <3>6 DEF Accepter
  <2> QED
    BY <1>1, <2>1
<1>5. CASE MarkGet(r)
  <2>1. CASE ~Return(r)
    <3> DEFINE u == event[r].uid
    <3>1. PICK n \in Readable(u) :
            /\ Found(u, n)
            /\ log[u][n].status # "accepted"
            /\ ~Expired(log[u][n], started[r])
            /\ acceptPc' = [acceptPc EXCEPT ![r] = "markUpdate"]
            /\ UNCHANGED <<event, started>>
      BY <1>5, <2>1 DEF MarkGet, AcceptGoto
    <3>2. acceptPc[r] = "markGet" /\ u \in UID
      BY <1>5 DEF MarkGet, TypeOK, AcceptTypeOK, Event
    <3>3. log[u][n] = issued[u]
      BY <1>3, <3>1, <3>2
    <3>4. started[r] < issued[u].expires
      BY <3>1, <3>3 DEF Expired
    <3>5. acceptPc'[r] = "markUpdate" /\ event'[r] = event[r] /\ started'[r] = started[r]
      BY <1>0, <3>1
    <3> QED
      BY <1>0, <3>2, <3>4, <3>5 DEF Accepter
  <2> QED
    BY <1>1, <2>1
<1>6. CASE MarkUpdate(r)
  <2>1. CASE ~Return(r)
    <3>1. /\ acceptPc[r] = "markUpdate" /\ UNCHANGED <<event, started>>
          /\ \/ acceptPc' = [acceptPc EXCEPT ![r] = "enrich"]
             \/ acceptPc' = [acceptPc EXCEPT ![r] = "markGet"]
      BY <1>6, <2>1 DEF MarkUpdate, AcceptGoto, Conflict
    <3>2. acceptPc'[r] \in {"enrich", "markGet"}
      BY <1>0, <3>1
    <3> QED
      BY <1>0, <3>1, <3>2 DEF Accepter
  <2> QED
    BY <1>1, <2>1
<1>7. CASE Enrich(r) \/ Publish(r)
  <2>1. CASE ~Return(r)
    <3>1. /\ acceptPc[r] = "enrich" /\ UNCHANGED <<event, started>>
          /\ acceptPc' = [acceptPc EXCEPT ![r] = "publish"]
      BY <1>7, <2>1 DEF Enrich, Publish, AcceptGoto
    <3>2. acceptPc'[r] = "publish"
      BY <1>0, <3>1
    <3> QED
      BY <1>0, <3>1, <3>2 DEF Accepter
  <2> QED
    BY <1>1, <2>1
<1> QED
  BY <1>2, <1>4, <1>5, <1>6, <1>7 DEF AcceptStep

(* Where a step meets the bucket.                                          *)
LEMMA NextCalls ==
    ASSUME [Next]_vars
    PROVE  \/ \E r \in Replica : \E w \in SendOnWire(r) \cup AcceptOnWire(r) :
                 Acked(w) \/ Refused \/ TimedOut(w)
           \/ ApplyLate
           \/ \E r \in Replica : Crash(r)
           \/ UNCHANGED <<log, index, late>>
<1>1. ASSUME NEW r \in Replica, SendStep(r)
      PROVE  \/ \E w \in SendOnWire(r) : Acked(w) \/ Refused \/ TimedOut(w)
             \/ UNCHANGED <<log, index, late>>
  <2>1. CASE PutRecord(r) \/ PutIndex(r) \/ UndoRecord(r) \/ RemoveRecord(r) \/ RemoveIndex(r)
    BY <2>1 DEF PutRecord, PutIndex, UndoRecord, RemoveRecord, RemoveIndex, SendOnWire
  <2>2. CASE RequestEmail(r) \/ AwaitEmail(r) \/ FindRecord(r) \/ Reply(r)
    BY <2>2 DEF RequestEmail, AwaitEmail, FindRecord, Reply, Refused, bucketVars
  <2> QED
    BY <1>1, <2>1, <2>2 DEF SendStep
<1>2. ASSUME NEW r \in Replica, Receive(r) \/ AcceptStep(r)
      PROVE  \/ \E w \in AcceptOnWire(r) : Acked(w) \/ Refused \/ TimedOut(w)
             \/ UNCHANGED <<log, index, late>>
  <2>1. CASE MarkUpdate(r)
    BY <2>1 DEF MarkUpdate, AcceptOnWire
  <2>2. CASE ~MarkUpdate(r)
    BY <1>2, <2>2 DEF Receive, ReceiveEvent, AcceptStep, Load, MarkGet, Enrich, Publish,
                      bucketVars
  <2> QED
    BY <2>1, <2>2
<1>3. CASE \/ \E r \in Replica, c \in Code : Reject(r, c)
           \/ \E r \in Replica, u \in UID, e \in Email, name \in User \cup {None},
                  d \in RequestDays : Issue(r, u, e, name, d)
           \/ \E u \in UID : EmailService(u)
           \/ UNCHANGED vars
  BY <1>3 DEF Reject, Issue, EmailService, vars, bucketVars
<1>4. CASE Tick
  BY <1>4 DEF Tick
<1> QED
  BY <1>1, <1>2, <1>3, <1>4 DEF Next, SendNext

(* Every step keeps the evidence of every acceptance.                      *)
LEMMA NextEvidence ==
    ASSUME Inv, PromiseInv, EvidenceInv, [Next]_vars
    PROVE  EvidenceInv'
<1> USE DEF Inv
<1>0. IssuedStays /\ DeliveredStays
  BY FactsStay
<1>1. /\ \A u \in UID : log'[u] # <<>> => log'[u][1] = issued'[u]
      /\ \A u \in UID : \A n \in DOMAIN log'[u] :
            Accepted(u, n)' => Evidence(u, log[u][n])'
      /\ \A v \in late' : v.op = "update" => Evidence(v.uid, v.value)'
  <2>1. CASE \E r \in Replica : \E w \in SendOnWire(r) \cup AcceptOnWire(r) :
                Acked(w) \/ Refused \/ TimedOut(w)
    <3>1. PICK r \in Replica : \E w \in SendOnWire(r) \cup AcceptOnWire(r) :
                                  Acked(w) \/ Refused \/ TimedOut(w)
      BY <2>1
    <3>2. PICK w \in SendOnWire(r) \cup AcceptOnWire(r) : Acked(w) \/ Refused \/ TimedOut(w)
      BY <3>1
    <3>3. /\ w \in Write /\ WriteSafe(w) /\ Effect(w)
          /\ w.op = "update" => Evidence(w.uid, w.value)
      BY <3>2, WireSafe, WireEvidence DEF Effect
    <3> QED
      BY <1>0, <3>3, EffectEvidence
  <2>2. CASE ApplyLate
    <3>1. PICK w \in late : Apply(w) /\ late' = late \ {w}
      BY <2>2 DEF ApplyLate
    <3>2. /\ w \in Write /\ WriteSafe(w) /\ Effect(w)
          /\ w.op = "update" => Evidence(w.uid, w.value)
      BY <3>1 DEF TypeOK, BucketTypeOK, LateSafe, EvidenceInv, Effect
    <3> QED
      BY <1>0, <3>2, EffectEvidence
  <2>3. CASE \E r \in Replica : Crash(r)
    <3>0. PICK r \in Replica : Crash(r)
      BY <2>3
    <3>1. PICK S \in SUBSET (SendOnWire(r) \cup AcceptOnWire(r)) : late' = late \cup S
      BY <3>0 DEF Crash
    <3>2. \A w \in S : w \in Write /\ (w.op = "update" => Evidence(w.uid, w.value))
      BY <3>1, WireSafe, WireEvidence
    <3>3. UNCHANGED log
      BY <2>3 DEF Crash
    <3> QED
      BY <1>0, <3>1, <3>2, <3>3, QuietEvidence
  <2>4. CASE UNCHANGED <<log, late>>
    <3>1. PICK S \in SUBSET Write : S = {}
      OBVIOUS
    <3>2. \A w \in S : w \in Write /\ (w.op = "update" => Evidence(w.uid, w.value))
      BY <3>1
    <3> QED
      BY <1>0, <2>4, <3>2, QuietEvidence
  <2> QED
    BY <2>1, <2>2, <2>3, <2>4, NextCalls
<1>2. ASSUME NEW q \in Replica PROVE Accepter(q)'
  <2>1. Accepter(q)
    BY DEF EvidenceInv
  <2>2. CASE UNCHANGED acceptVars
    BY <1>0, <2>1, <2>2, AccepterStays DEF acceptVars, workerVars
  <2>3. ASSUME NEW r \in Replica, Receive(r) \/ AcceptStep(r), UNCHANGED sendVars
        PROVE  Accepter(q)'
    <3>1. CASE q = r
      BY <2>3, <3>1, AcceptStepOwn
    <3>2. CASE q # r
      <4>1. acceptPc'[q] = acceptPc[q] /\ event'[q] = event[q] /\ started'[q] = started[q]
        BY <2>3, <3>2 DEF TypeOK, AcceptTypeOK, Receive, ReceiveEvent, AcceptStep, Load,
               MarkGet, MarkUpdate, Enrich, Publish, Conflict, AcceptGoto, Return
      <4> QED
        BY <1>0, <2>1, <4>1, AccepterStays
    <3> QED
      BY <3>1, <3>2
  <2>4. ASSUME NEW r \in Replica, Crash(r)
        PROVE  Accepter(q)'
    <3>1. CASE q = r
      <4>1. acceptPc'[q] = "idle"
        BY <2>4, <3>1 DEF Crash, Return, TypeOK, AcceptTypeOK
      <4> QED
        BY <4>1 DEF Accepter
    <3>2. CASE q # r
      <4>1. acceptPc'[q] = acceptPc[q] /\ event'[q] = event[q] /\ started'[q] = started[q]
        BY <2>4, <3>2 DEF Crash, Return, TypeOK, AcceptTypeOK
      <4> QED
        BY <1>0, <2>1, <4>1, AccepterStays
    <3> QED
      BY <3>1, <3>2
  <2> QED
    BY <2>2, <2>3, <2>4 DEF Next, vars
<1> QED
  BY <1>1, <1>2 DEF EvidenceInv

(* Nothing is accepted at first.                                           *)
LEMMA InitEvidence == Init => EvidenceInv
BY DEF Init, BucketInit, AcceptInit, EvidenceInv, Accepter

(* The third inductive invariant: what an acceptance, stored, late or      *)
(* still being made, rests on (acceptance.go:130-155).                     *)
THEOREM EvidenceInvariance == Spec => []EvidenceInv
<1>1. Init => EvidenceInv
  BY InitEvidence
<1>2. Inv /\ PromiseInv /\ EvidenceInv /\ [Next]_vars => EvidenceInv'
  BY NextEvidence
<1> QED
  BY <1>1, <1>2, Invariance, PromisesInvariance, PTL DEF Spec

(* No acceptance without the e-mail, the named user and a time before the  *)
(* expiry, for any events in any order.                                    *)
THEOREM AcceptanceIsEarned == Spec => []AcceptedWithEvidence
<1>1. EvidenceInv => AcceptedWithEvidence
  BY DEF EvidenceInv, Evidence, AcceptedWithEvidence
<1> QED
  BY <1>1, EvidenceInvariance, PTL

-----------------------------------------------------------------------------
(* Rollback, when nothing fails                                            *)

(* What was removed from a bucket that applies no write late stays so.     *)
LEMMA RemovedStays ==
    ASSUME Inv, PromiseInv, [Next]_vars, late = {}, ~Crashes, NEW u \in UID, Removed(u)
    PROVE  Removed(u)'
<1> USE DEF Inv
<1>1. Inv' /\ LogGrows
  BY NextInv
<1>2. Withdrawn(u)'
  BY <1>1, WithdrawnStays DEF Removed
<1>3. issued'[u] = issued[u]
  <2>1. log[u] # <<>>
    <3>1. DOMAIN log[u] # {}
      BY DEF Removed, Withdrawn
    <3>2. DOMAIN <<>> = {}
      OBVIOUS
    <3> QED
      BY <3>1, <3>2
  <2> QED
    BY <2>1, FactsStay DEF MintedOnce, IssuedStays
<1>4. IndexEntry(issued[u].email, u) \notin index
  BY DEF Removed, Indexed
<1>5. ASSUME NEW r \in Replica, NEW w \in SendOnWire(r) \cup AcceptOnWire(r),
             Acked(w) \/ Refused \/ TimedOut(w)
      PROVE  IndexEntry(issued[u].email, u) \notin index'
  <2> SUFFICES ASSUME IndexEntry(issued[u].email, u) \in index' PROVE FALSE
    OBVIOUS
  <2>1. w.op = "index" /\ w.present /\ w.entry = IndexEntry(issued[u].email, u)
    BY <1>4, <1>5 DEF Acked, Refused, TimedOut, bucketVars, Apply
  <2>2. w.entry[2] = u
    BY <2>1 DEF IndexEntry
  <2>3. sendPc[r] = "putIndex" /\ w = CreateIndex(sendUid[r])
    BY <2>1 DEF AcceptOnWire, Acceptance, Update, SendOnWire, CreateRecord, DeleteRecord,
                DeleteIndex, Put, DropEntry
  <2>4. sendUid[r] = u
    BY <2>2, <2>3 DEF CreateIndex, AddEntry, IndexEntry
  <2>5. Exists(u)
    BY <2>3, <2>4 DEF PromiseInv, Sender, Placed
  <2> QED
    BY <2>5, WithdrawnIsLast DEF NothingAfterWithdrawal, Removed
<1>6. IndexEntry(issued[u].email, u) \notin index'
  BY <1>4, <1>5, NextCalls DEF ApplyLate, Crash
<1> QED
  BY <1>2, <1>3, <1>6 DEF Removed, Indexed

(* A handler that is about to answer that the dispatch failed has removed  *)
(* both keys.                                                              *)
LEMMA RollbackOwn ==
    ASSUME Inv, PromiseInv, ~Faults, ~StaleReads, NEW r \in Replica, SendStep(r),
           NEW u \in UID, sendUid[r] = u, sendPc'[r] = "reply",
           code'[r] = "email_dispatch_failed"
    PROVE  Removed(u)'
<1> USE DEF Inv
<1>0. /\ sendPc \in [Replica -> SendPC] /\ code \in [Replica -> Code] /\ Sender(r)
  BY DEF TypeOK, SendTypeOK, PromiseInv
<1>1. CASE RemoveIndex(r)
  <2>1. /\ index' = index \ {IndexEntry(issued[u].email, u)}
        /\ UNCHANGED <<log, issued>> /\ sendPc[r] = "deleteIndex"
    BY <1>1 DEF RemoveIndex, Acked, Apply, Refused, TimedOut, DeleteIndex, DropEntry
  <2>2. Withdrawn(u)
    BY <1>0, <2>1 DEF Sender
  <2> QED
    BY <2>1, <2>2 DEF Removed, Withdrawn, Indexed
<1>2. CASE FindRecord(r)
  <2>1. sendPc[r] = "findRecord" /\ Readable(u) = {Revision(u)}
    BY <1>2 DEF FindRecord, Readable
  <2>2. Found(u, Revision(u))
    BY <1>0, <2>1 DEF Sender, Kept, Placed, Exists
  <2>3. Goto(r, "deleteRecord")
    BY <1>2, <2>1, <2>2 DEF FindRecord, Refused
  <2> QED
    BY <1>0, <2>3 DEF Goto
<1>3. CASE RemoveRecord(r)
  BY <1>0, <1>3 DEF RemoveRecord, Refused, TimedOut, Goto
<1>4. CASE PutRecord(r) \/ PutIndex(r) \/ UndoRecord(r)
  BY <1>0, <1>4 DEF PutRecord, PutIndex, UndoRecord, Goto, Answer
<1>5. CASE RequestEmail(r) \/ AwaitEmail(r) \/ Reply(r)
  BY <1>0, <1>5 DEF RequestEmail, AwaitEmail, Reply, Goto, Answer
<1> QED
  BY <1>1, <1>2, <1>3, <1>4, <1>5 DEF SendStep

(* Where nothing fails, every step leaves a rollback complete.             *)
LEMMA NextRollback ==
    ASSUME ~Faults, ~Crashes, ~StaleReads, Inv, PromiseInv, RollbackInv, [Next]_vars
    PROVE  RollbackInv'
<1> USE DEF Inv
<1>0. /\ sendPc \in [Replica -> SendPC] /\ code \in [Replica -> Code]
      /\ sendUid \in [Replica -> UID \cup {None}] /\ told \in [UID -> Code]
  BY DEF TypeOK, SendTypeOK
<1>1. late = {} /\ \A u \in UID : Removed(u) => Removed(u)'
  BY RemovedStays DEF RollbackInv
<1>2. late' = {}
  BY <1>1, NextCalls DEF Acked, Refused, TimedOut, ApplyLate, Crash
<1>3. ASSUME NEW u \in UID, told'[u] = "email_dispatch_failed"
      PROVE  Removed(u)'
  <2>1. CASE told[u] = "email_dispatch_failed"
    BY <1>1, <2>1 DEF RollbackInv
  <2>2. CASE told[u] # "email_dispatch_failed"
    <3>1. \E r \in Replica : Reply(r) /\ told' # told
      BY <1>3, <2>2 DEF Next, vars, sendVars, SendNext, SendStep, Reject, Issue, EmailService,
             PutRecord, PutIndex, UndoRecord, RequestEmail, AwaitEmail, FindRecord,
             RemoveRecord, RemoveIndex, Crash
    <3>2. PICK r \in Replica : Reply(r) /\ told' # told
      BY <3>1
    <3>3. sendPc[r] = "reply" /\ sendUid[r] = u /\ code[r] = "email_dispatch_failed"
      BY <1>0, <1>3, <2>2, <3>2 DEF Reply
    <3> QED
      BY <1>1, <3>3 DEF RollbackInv
  <2> QED
    BY <2>1, <2>2
<1>4. ASSUME NEW u \in UID, NEW q \in Replica, sendUid'[q] = u, sendPc'[q] = "reply",
             code'[q] = "email_dispatch_failed"
      PROVE  Removed(u)'
  <2>1. ASSUME sendUid'[q] = sendUid[q], sendPc'[q] = sendPc[q], code'[q] = code[q]
        PROVE  Removed(u)'
    BY <1>1, <1>4, <2>1 DEF RollbackInv
  <2>2. ASSUME NEW r \in Replica, SendStep(r) PROVE Removed(u)'
    <3>1. CASE q = r
      <4>1. sendUid[r] = u
        BY <1>0, <1>4, <2>2, <3>1, BucketAssumption DEF SendStep, PutRecord, PutIndex,
               UndoRecord, RequestEmail, AwaitEmail, FindRecord, RemoveRecord, RemoveIndex,
               Reply, Goto, Answer
      <4> QED
        BY <1>4, <2>2, <3>1, <4>1, RollbackOwn
    <3>2. CASE q # r
      <4>1. sendUid'[q] = sendUid[q] /\ sendPc'[q] = sendPc[q] /\ code'[q] = code[q]
        BY <1>0, <2>2, <3>2 DEF SendStep, PutRecord, PutIndex, UndoRecord, RequestEmail,
               AwaitEmail, FindRecord, RemoveRecord, RemoveIndex, Reply, Goto, Answer
      <4> QED
        BY <2>1, <4>1
    <3> QED
      BY <3>1, <3>2
  <2>3. ASSUME NEW r \in Replica, NEW c \in Code, Reject(r, c) PROVE Removed(u)'
    <3>1. CASE q = r
      BY <1>0, <1>4, <2>3, <3>1 DEF Reject, Answer
    <3>2. CASE q # r
      <4>1. sendUid'[q] = sendUid[q] /\ sendPc'[q] = sendPc[q] /\ code'[q] = code[q]
        BY <1>0, <2>3, <3>2 DEF Reject, Answer
      <4> QED
        BY <2>1, <4>1
    <3> QED
      BY <3>1, <3>2
  <2>4. ASSUME NEW r \in Replica, NEW v \in UID, NEW e \in Email,
               NEW name \in User \cup {None}, NEW d \in RequestDays, Issue(r, v, e, name, d)
        PROVE  Removed(u)'
    <3>1. q # r /\ sendUid'[q] = sendUid[q] /\ sendPc'[q] = sendPc[q] /\ code'[q] = code[q]
      BY <1>0, <1>4, <2>4 DEF Issue
    <3> QED
      BY <2>1, <3>1
  <2>5. CASE \/ \E v \in UID : EmailService(v)
             \/ UNCHANGED <<sendPc, sendUid, code>>
    BY <2>1, <2>5 DEF EmailService, handlerVars
  <2> QED
    BY <2>2, <2>3, <2>4, <2>5 DEF Next, SendNext, vars, sendVars, Crash
<1> QED
  BY <1>2, <1>3, <1>4 DEF RollbackInv

(* Nothing is rolled back at first.                                        *)
LEMMA InitRollback == Init => RollbackInv
BY DEF Init, BucketInit, SendInit, RollbackInv

(* The three inductive invariants together, as the runs check them: what   *)
(* the calls, answers and e-mails of a send rest on, what an acceptance    *)
(* rests on, and, where nothing fails, what a rollback has removed         *)
(* (notification.go:148-210, acceptance.go:130-155).                       *)
THEOREM ServiceInvariance == Spec => []ServiceInv
<1>1. Init => RollbackInv
  BY InitRollback
<1>2. Inv /\ PromiseInv /\ RollbackInv /\ [Next]_vars => RollbackInv'
  <2>1. CASE ~Faults /\ ~Crashes /\ ~StaleReads
    BY <2>1, NextRollback
  <2>2. CASE ~(~Faults /\ ~Crashes /\ ~StaleReads)
    BY <2>2 DEF RollbackInv
  <2> QED
    BY <2>1, <2>2
<1>3. PromiseInv /\ EvidenceInv /\ RollbackInv => ServiceInv
  BY DEF ServiceInv
<1> QED
  BY <1>1, <1>2, <1>3, Invariance, PromisesInvariance, EvidenceInvariance, PTL DEF Spec

(* With a bucket that answers, and that is read as it is, and replicas     *)
(* that do not stop, a send that is reported as failed leaves neither key, *)
(* however many sends and acceptances go on beside it                      *)
(* (notification.go:178-191).                                              *)
THEOREM RollbackIsComplete ==
    ASSUME ~Faults, ~Crashes, ~StaleReads
    PROVE  Spec => []RollbackComplete
<1>1. Inv /\ ServiceInv => RollbackComplete
  <2> SUFFICES ASSUME Inv, RollbackInv, NEW u \in UID, told[u] = "email_dispatch_failed"
               PROVE  ~Exists(u) /\ ~Indexed(u)
    BY DEF ServiceInv, RollbackComplete
  <2> QED
    BY WithdrawnIsLast DEF RollbackInv, Removed, Inv, NothingAfterWithdrawal
<1> QED
  BY <1>1, Invariance, ServiceInvariance, PTL
=============================================================================
