------------------------ MODULE InviteReadsProofs -------------------------
(***************************************************************************)
(* The answers of the queries are complete and current, for every number   *)
(* of replicas, invites, addresses and users, and whatever fails, crashes  *)
(* or is applied late while a query runs; as long as reads are current.    *)
(***************************************************************************)
EXTENDS InviteReads, InvitePromiseProofs

allVars == <<vars, readVars>>

-----------------------------------------------------------------------------
(* The service goes on under the queries                                   *)

(* The queries add nothing to what the service does.                       *)
LEMMA ReadsRefine == ReadsSpec => Spec
<1>1. ReadsInit => Init
  BY DEF ReadsInit
<1>2. [ReadsNext]_allVars => [Next]_vars
  BY DEF ReadsNext, allVars
<1> QED
  BY <1>1, <1>2, PTL DEF ReadsSpec, Spec, allVars

(* What a requester was told is not taken back.                            *)
ToldStays == \A u \in UID : told[u] # "none" => told'[u] = told[u]

(* What a requester was told stays so.                                     *)
LEMMA NextKeepsTold ==
    ASSUME Inv, PromiseInv, [Next]_vars
    PROVE  ToldStays
<1> USE DEF Inv
<1>1. CASE UNCHANGED told
  BY <1>1 DEF ToldStays
<1>2. ASSUME NEW r \in Replica, SendStep(r) PROVE ToldStays
  <2>1. CASE Reply(r)
    <3>1. sendUid[r] \in UID => told[sendUid[r]] = "none"
      BY DEF PromiseInv, Sender
    <3> QED
      BY <2>1, <3>1 DEF Reply, ToldStays, TypeOK, SendTypeOK
  <2>2. CASE ~Reply(r)
    <3>1. UNCHANGED told
      BY <1>2, <2>2 DEF SendStep, PutRecord, PutIndex, UndoRecord, RequestEmail, AwaitEmail,
                        FindRecord, RemoveRecord, RemoveIndex
    <3> QED
      BY <1>1, <3>1
  <2> QED
    BY <2>1, <2>2
<1>3. CASE \E r \in Replica : SendStep(r)
  BY <1>2, <1>3
<1>4. CASE ~ \E r \in Replica : SendStep(r)
  <2>1. UNCHANGED told
    BY <1>4 DEF Next, SendNext, Reject, Issue, EmailService, Crash, SendCrash, vars, sendVars
  <2> QED
    BY <1>1, <2>1
<1> QED
  BY <1>3, <1>4

-----------------------------------------------------------------------------
(* Type correctness, and what the handler of a query holds at each call    *)

(* What a query knows before it reads.                                     *)
LEMMA NoRevisionType == NoRevision \in [UID -> Nat] /\ \A u \in UID : NoRevision[u] = 0
BY DEF NoRevision

(* Every step keeps the types and the shape of the query.                  *)
LEMMA ReadsNextTypes ==
    ASSUME TypeOK, ReadsTypeOK, QueryShape, [ReadsNext]_allVars
    PROVE  ReadsTypeOK' /\ QueryShape'
<1> USE DEF ReadsTypeOK, QueryShape, ReadPC, ReadAnswer
<1>1. CASE UNCHANGED readVars
  BY <1>1 DEF readVars
<1>2. \A u \in UID : Revision(u) \in Nat /\ Readable(u) \subseteq Nat
  BY DEF TypeOK, BucketTypeOK, Revision, Readable
<1>3. CASE \E u \in UID : AskByUID(u)
  BY <1>2, <1>3, NoRevisionType, BucketAssumption DEF AskByUID, Ask
<1>4. CASE \E e \in Email : AskByEmail(e)
  BY <1>2, <1>4, NoRevisionType, BucketAssumption DEF AskByEmail, Ask
<1>5. CASE GetInvite
  BY <1>2, <1>5 DEF GetInvite, Conclude
<1>6. CASE ScanKey \/ ScanDone
  BY <1>6, NoRevisionType DEF ScanKey, ScanDone, Conclude
<1>7. CASE FetchRecord
  BY <1>2, <1>7 DEF FetchRecord, Conclude
<1>8. CASE FetchDone \/ ReplyQuery
  BY <1>8, NoRevisionType DEF FetchDone, ReplyQuery, Conclude
<1> QED
  BY <1>1, <1>3, <1>4, <1>5, <1>6, <1>7, <1>8 DEF ReadsNext, ReadStep, allVars

(* What the two query handlers hold at each of their calls, also when      *)
(* reads lag: a UID is collected after its key was delivered, and fetched  *)
(* after it was collected (invite_repository.go:128-150).                  *)
THEOREM QueriesTypeCorrect == ReadsSpec => [](ReadsTypeOK /\ QueryShape)
<1>1. ReadsInit => ReadsTypeOK /\ QueryShape
  BY NoRevisionType DEF ReadsInit, ReadsTypeOK, QueryShape, ReadPC, ReadAnswer
<1>2. TypeOK /\ ReadsTypeOK /\ QueryShape /\ [ReadsNext]_<<vars, readVars>>
      => (ReadsTypeOK /\ QueryShape)'
  BY ReadsNextTypes DEF allVars
<1> QED
  BY <1>1, <1>2, ReadsRefine, TypeCorrect, PTL DEF ReadsSpec

-----------------------------------------------------------------------------
(* Every index key leads to an invite of its address                       *)

(* An index entry stays with its invite.                                   *)
LEMMA OwnedStays ==
    ASSUME IssuedStays, NEW entry \in Entries, Owned(entry)
    PROVE  Owned(entry)'
<1>1. entry[2] \in UID
  BY DEF Entries, IndexEntry
<1> QED
  BY <1>1 DEF IssuedStays, Owned, IndexEntry

(* The index entries that handlers have on the wire are of invites.        *)
LEMMA WireOwned ==
    ASSUME Inv, NEW r \in Replica, NEW w \in SendOnWire(r) \cup AcceptOnWire(r),
           w.op = "index"
    PROVE  Owned(w.entry)
<1> USE DEF Inv
<1>1. w \notin AcceptOnWire(r)
  BY DEF AcceptOnWire, Acceptance, Update
<1>2. /\ w \in {CreateIndex(sendUid[r]), DeleteIndex(sendUid[r])}
      /\ sendPc[r] \in {"putIndex", "deleteIndex"}
  BY <1>1 DEF SendOnWire, CreateRecord, DeleteRecord, Put
<1>3. issued[sendUid[r]] # None
  BY <1>2, NoneAssumption DEF TypeOK, SendTypeOK, Version
<1>4. w.entry = IndexEntry(issued[sendUid[r]].email, sendUid[r])
  BY <1>2 DEF CreateIndex, DeleteIndex, AddEntry, DropEntry
<1> QED
  BY <1>3, <1>4 DEF Owned, IndexEntry

(* A write that may be applied keeps the index entries with their invites. *)
LEMMA EffectOwned ==
    ASSUME Inv, IndexOwned, IssuedStays, NEW w \in Write,
           w.op = "index" => Owned(w.entry), Effect(w)
    PROVE  IndexOwned'
<1> USE DEF Inv
<1>1. ASSUME NEW entry \in index' PROVE Owned(entry)'
  <2>1. entry \in index \/ (w.op = "index" /\ entry = w.entry)
    BY <1>1 DEF Effect, Acked, Refused, TimedOut, bucketVars, Apply
  <2>2. entry \in Entries /\ Owned(entry)
    BY <2>1, WriteTypes DEF IndexOwned, TypeOK, BucketTypeOK
  <2> QED
    BY <2>2, OwnedStays
<1>2. ASSUME NEW v \in late', v.op = "index" PROVE Owned(v.entry)'
  <2>1. v \in Write /\ Owned(v.entry)
    BY <1>2 DEF Effect, Acked, Refused, TimedOut, bucketVars, IndexOwned, TypeOK,
                BucketTypeOK
  <2> QED
    BY <1>2, <2>1, WriteTypes, OwnedStays
<1> QED
  BY <1>1, <1>2 DEF IndexOwned

(* So does what leaves the index alone.                                    *)
LEMMA QuietOwned ==
    ASSUME Inv, IndexOwned, IssuedStays, UNCHANGED index,
           NEW S, \A w \in S : w \in Write /\ (w.op = "index" => Owned(w.entry)),
           late' \subseteq late \cup S
    PROVE  IndexOwned'
<1> USE DEF Inv
<1>1. ASSUME NEW entry \in index PROVE Owned(entry)'
  BY OwnedStays DEF IndexOwned, TypeOK, BucketTypeOK
<1>2. ASSUME NEW v \in late', v.op = "index" PROVE Owned(v.entry)'
  <2>1. v \in Write /\ Owned(v.entry)
    BY <1>2 DEF IndexOwned, TypeOK, BucketTypeOK
  <2> QED
    BY <1>2, <2>1, WriteTypes, OwnedStays
<1>3. index' = index
  OBVIOUS
<1> QED
  BY <1>1, <1>2, <1>3 DEF IndexOwned

(* So does every step of the service.                                      *)
LEMMA NextOwned ==
    ASSUME Inv, PromiseInv, IndexOwned, [Next]_vars
    PROVE  IndexOwned'
<1> USE DEF Inv
<1>0. IssuedStays
  BY FactsStay
<1>1. CASE \E r \in Replica : \E w \in SendOnWire(r) \cup AcceptOnWire(r) :
              Acked(w) \/ Refused \/ TimedOut(w)
  <2>1. PICK r \in Replica : \E w \in SendOnWire(r) \cup AcceptOnWire(r) :
                                Acked(w) \/ Refused \/ TimedOut(w)
    BY <1>1
  <2>2. PICK w \in SendOnWire(r) \cup AcceptOnWire(r) : Acked(w) \/ Refused \/ TimedOut(w)
    BY <2>1
  <2>3. w \in Write /\ Effect(w) /\ (w.op = "index" => Owned(w.entry))
    BY <2>2, WireSafe, WireOwned DEF Effect
  <2> QED
    BY <1>0, <2>3, EffectOwned
<1>2. CASE ApplyLate
  <2>1. PICK w \in late : Apply(w) /\ late' = late \ {w}
    BY <1>2 DEF ApplyLate
  <2>2. w \in Write /\ Effect(w) /\ (w.op = "index" => Owned(w.entry))
    BY <2>1 DEF TypeOK, BucketTypeOK, IndexOwned, Effect
  <2> QED
    BY <1>0, <2>2, EffectOwned
<1>3. CASE \E r \in Replica : Crash(r)
  <2>0. PICK r \in Replica : Crash(r)
    BY <1>3
  <2>1. PICK S \in SUBSET (SendOnWire(r) \cup AcceptOnWire(r)) : late' = late \cup S
    BY <2>0 DEF Crash
  <2>2. \A w \in S : w \in Write /\ (w.op = "index" => Owned(w.entry))
    BY <2>1, WireSafe, WireOwned
  <2>3. UNCHANGED index
    BY <2>0 DEF Crash
  <2> QED
    BY <1>0, <2>1, <2>2, <2>3, QuietOwned
<1>4. CASE UNCHANGED <<log, index, late>>
  <2>1. PICK S \in SUBSET Write : S = {}
    OBVIOUS
  <2>2. \A w \in S : w \in Write /\ (w.op = "index" => Owned(w.entry))
    BY <2>1
  <2> QED
    BY <1>0, <1>4, <2>2, QuietOwned
<1> QED
  BY <1>1, <1>2, <1>3, <1>4, NextCalls

-----------------------------------------------------------------------------
(* A step of the service, seen from a query                                *)

(* What a query wants stays what it wants.                                 *)
LEMMA WantedStays ==
    ASSUME IssuedStays, UNCHANGED key, NEW u \in UID
    PROVE  /\ Wanted(u) => Wanted(u)'
           /\ issued[u] # None => (Wanted(u)' => Wanted(u))
BY DEF IssuedStays, Wanted

(* What was acknowledged exists and is indexed.                            *)
LEMMA ToldIsIssued ==
    ASSUME Inv, PromiseInv, NEW u \in UID, told[u] = "ok"
    PROVE  issued[u] # None /\ Exists(u) /\ Indexed(u)
BY DEF PromiseInv, Promise, Kept, Placed

(* What a query has read covers what it needs, whatever the service does.  *)
LEMMA ServiceKeepsQuery ==
    ASSUME Inv, Inv', PromiseInv, QueryHolds, ReadsTypeOK, LogGrows, [Next]_vars,
           UNCHANGED readVars
    PROVE  IndexOwned' /\ QueryCovers'
<1> USE DEF Inv, readVars
<1>0. IssuedStays /\ ToldStays
  BY FactsStay, NextKeepsTold
<1>1. IndexOwned'
  BY NextOwned DEF QueryHolds
<1>2. QueryCovers'
  <2> USE DEF QueryHolds, QueryCovers
  <2>1. ASSUME NEW u \in durable PROVE told'[u] = "ok"
    BY <1>0, <2>1 DEF ToldStays, ReadsTypeOK
  <2>2. ASSUME NEW u \in UID PROVE since[u] <= Revision(u)'
    <3>1. Len(log[u]) \in Nat /\ Len(log'[u]) \in Nat /\ since[u] \in Nat
      BY DEF TypeOK, BucketTypeOK, ReadsTypeOK
    <3> QED
      BY <3>1 DEF LogGrows, Revision
  <2>3. ASSUME NEW u \in found PROVE Wanted(u)'
    BY <1>0, <2>3, WantedStays DEF ReadsTypeOK
  <2>4. ASSUME NEW u \in UID, fetched[u] > 0
        PROVE  /\ target = u \/ Wanted(u)'
               /\ Found(u, fetched[u])' /\ fetched[u] <= Revision(u)'
    <3>1. fetched[u] \in Nat
      BY DEF ReadsTypeOK
    <3>2. Found(u, fetched[u])' /\ fetched[u] <= Revision(u)'
      <4>1. PICK n \in Nat : n = fetched[u]
        BY <3>1
      <4>2. Found(u, n) /\ n <= Revision(u)
        BY <2>4, <4>1
      <4>3. Found(u, n)' /\ n <= Revision(u)'
        BY <4>2, FoundGrows DEF TypeOK
      <4> QED
        BY <4>1, <4>3 DEF Found
    <3> QED
      BY <1>0, <2>4, <3>2, WantedStays
  <2>5. ASSUME NEW u \in durable, Wanted(u)'
        PROVE  /\ readPc = "scan" => u \in unread \cup found
               /\ readPc = "fetch" => u \in found \/ fetched[u] > 0
               /\ answer = "ok" => fetched[u] > 0
    <3>1. u \in UID /\ told[u] = "ok"
      BY DEF ReadsTypeOK
    <3>2. Wanted(u)
      BY <1>0, <2>5, <3>1, ToldIsIssued, WantedStays
    <3> QED
      BY <3>2
  <2> QED
    BY <2>1, <2>2, <2>3, <2>4, <2>5
<1> QED
  BY <1>1, <1>2

-----------------------------------------------------------------------------
(* A step of a query                                                       *)

(* What the bucket holds stays the same while the handler looks at it.     *)
LEMMA QuietQuery ==
    ASSUME UNCHANGED vars
    PROVE  /\ IndexOwned => IndexOwned'
           /\ \A u \in UID : Revision(u)' = Revision(u)
           /\ \A u \in UID : \A n \in Nat : Found(u, n) => Found(u, n)'
           /\ UNCHANGED <<log, issued, told>>
BY DEF vars, bucketVars, sendVars, IndexOwned, Owned, Revision, Found

(* It does so when the query is asked,                                     *)
LEMMA AskKeeps ==
    ASSUME Inv, QueryHolds, ReadsTypeOK, UNCHANGED vars,
           \/ \E u \in UID : AskByUID(u)
           \/ \E e \in Email : AskByEmail(e)
    PROVE  IndexOwned' /\ QueryCovers'
<1>1. /\ readPc = "idle" /\ found = {} /\ fetched = NoRevision /\ answer = "none"
      /\ key = None /\ target = None /\ unread = {}
  BY DEF AskByUID, AskByEmail, Ask, QueryHolds, QueryShape
<1>2. /\ UNCHANGED <<found, fetched, answer>>
      /\ durable' = { u \in UID : told[u] = "ok" }
      /\ since' = [u \in UID |-> Revision(u)]
      /\ \/ readPc' = "get" /\ target' \in UID /\ key' = None /\ unread' = {}
         \/ readPc' = "scan" /\ target' = None /\ key' \in Email /\ unread' = UID
  BY <1>1, BucketAssumption DEF AskByUID, AskByEmail, Ask
<1>3. \A u \in UID : Revision(u) \in Nat /\ fetched[u] = 0
  BY <1>1 DEF Inv, TypeOK, BucketTypeOK, Revision, NoRevision
<1>4. QueryCovers'
  BY <1>1, <1>2, <1>3, QuietQuery DEF QueryCovers
<1> QED
  BY <1>4, QuietQuery DEF QueryHolds

(* when it gets one invite,                                                *)
LEMMA GetKeeps ==
    ASSUME Inv, PromiseInv, QueryHolds, ReadsTypeOK, ~StaleReads, UNCHANGED vars, GetInvite
    PROVE  IndexOwned' /\ QueryCovers'
<1> USE DEF Inv
<1>1. /\ readPc = "get" /\ target \in UID /\ found = {} /\ fetched = NoRevision
      /\ key = None
  BY BucketAssumption DEF GetInvite, QueryHolds, QueryShape
<1>2. Readable(target) = {Revision(target)} /\ Revision(target) \in Nat
  BY <1>1 DEF Readable, TypeOK, BucketTypeOK, Revision
<1>3. /\ UNCHANGED <<target, key, unread, found, durable, since>>
      /\ readPc' = "reply"
      /\ \/ /\ Exists(target) /\ answer' = "ok"
            /\ fetched' = [fetched EXCEPT ![target] = Revision(target)]
         \/ ~Exists(target) /\ answer' = "not_found" /\ UNCHANGED fetched
         \/ answer' = "internal_error" /\ UNCHANGED fetched
  BY <1>2 DEF GetInvite, Conclude, Exists
<1>4. /\ fetched \in [UID -> Nat]
      /\ \A u \in UID : u # target => fetched'[u] = 0
      /\ fetched'[target] \in {0, Revision(target)}
      /\ fetched'[target] > 0 => Exists(target)
  BY <1>1, <1>2, <1>3 DEF NoRevision
<1>5. QueryCovers'
  <2> USE DEF QueryHolds, QueryCovers
  <2>1. \A u \in durable' : told'[u] = "ok"
    BY <1>3, QuietQuery
  <2>2. \A u \in UID : since'[u] <= Revision(u)'
    BY <1>3, QuietQuery
  <2>3. \A u \in UID : fetched'[u] > 0 =>
          /\ target' = u \/ Wanted(u)'
          /\ Found(u, fetched[u])'
          /\ since'[u] <= fetched'[u] /\ fetched'[u] <= Revision(u)'
    <3> SUFFICES ASSUME fetched'[target] > 0
                 PROVE  /\ Found(target, fetched[target])'
                        /\ since[target] <= fetched'[target]
                        /\ fetched'[target] <= Revision(target)'
      BY <1>1, <1>2, <1>3, <1>4
    <3>1. fetched'[target] = Revision(target) /\ Exists(target)
      BY <1>2, <1>4
    <3>2. log' = log /\ target' = target
      BY <1>3, QuietQuery
    <3>3. Found(target, fetched[target])' /\ Revision(target)' = Revision(target)
      BY <3>1, <3>2 DEF Exists, Found, Revision
    <3> QED
      BY <1>1, <1>2, <3>1, <3>3
  <2>4. \A u \in durable' : ~Wanted(u)'
    <3> SUFFICES ASSUME NEW u \in durable PROVE ~Wanted(u)'
      BY <1>3
    <3>1. u \in UID /\ issued[u] \in Record
      BY ToldIsIssued DEF ReadsTypeOK, TypeOK, SendTypeOK
    <3>2. EmailKey[issued[u].email] # None
      BY <3>1, BucketAssumption, ReadsAssumption DEF Record
    <3> QED
      BY <1>1, <1>3, <3>2, QuietQuery DEF Wanted
  <2>5. answer' = "not_found" => target' \notin durable'
    BY <1>1, <1>3, ToldIsIssued
  <2> QED
    BY <1>1, <1>3, <2>1, <2>2, <2>3, <2>4, <2>5
<1> QED
  BY <1>5, QuietQuery DEF QueryHolds

(* when it scans the index,                                                *)
LEMMA ScanKeeps ==
    ASSUME Inv, PromiseInv, QueryHolds, ReadsTypeOK, UNCHANGED vars, ScanKey \/ ScanDone
    PROVE  IndexOwned' /\ QueryCovers'
<1> USE DEF Inv
<1>1. readPc = "scan" /\ target = None /\ fetched = NoRevision /\ answer = "none"
  BY DEF ScanKey, ScanDone, QueryHolds, QueryShape
<1>2. UNCHANGED <<target, key, fetched, durable, since>>
  BY DEF ScanKey, ScanDone
<1>3. \A u \in UID : fetched[u] = 0
  BY <1>1 DEF NoRevision
<1>4. \A v \in UID : Wanted(v)' = Wanted(v)
  BY <1>2, QuietQuery DEF Wanted
<1>5. CASE ScanKey
  <2>1. PICK u \in unread :
          /\ unread' = unread \ {u}
          /\ found' = IF <<key, u>> \in index THEN found \cup {u} ELSE found
    BY <1>5 DEF ScanKey
  <2>2. u \in UID /\ UNCHANGED <<readPc, answer>>
    BY <1>5, <2>1 DEF ScanKey, ReadsTypeOK
  <2>3. <<key, u>> \in index => Wanted(u)
    BY DEF QueryHolds, IndexOwned, Owned, IndexEntry, Wanted
  <2>4. u \in durable /\ Wanted(u) => <<key, u>> \in index
    <3>1. u \in durable => told[u] = "ok"
      BY DEF QueryHolds, QueryCovers
    <3> QED
      BY <2>2, <3>1, ToldIsIssued DEF Indexed, IndexEntry, Wanted
  <2>5. QueryCovers'
    BY <1>1, <1>2, <1>3, <1>4, <2>1, <2>2, <2>3, <2>4, QuietQuery
       DEF QueryHolds, QueryCovers, ReadsTypeOK
  <2> QED
    BY <2>5, QuietQuery DEF QueryHolds
<1>6. CASE ScanDone
  <2>1. /\ UNCHANGED <<unread, found>>
        /\ \/ unread = {} /\ readPc' = "fetch" /\ UNCHANGED answer
           \/ readPc' = "reply" /\ answer' = "internal_error"
    BY <1>6 DEF ScanDone, Conclude
  <2>2. QueryCovers'
    BY <1>1, <1>2, <1>3, <1>4, <2>1, QuietQuery DEF QueryHolds, QueryCovers, ReadsTypeOK
  <2> QED
    BY <2>2, QuietQuery DEF QueryHolds
<1> QED
  BY <1>5, <1>6

(* when it fetches the records,                                            *)
LEMMA FetchKeeps ==
    ASSUME Inv, PromiseInv, QueryHolds, ReadsTypeOK, ~StaleReads, UNCHANGED vars,
           FetchRecord \/ FetchDone
    PROVE  IndexOwned' /\ QueryCovers'
<1> USE DEF Inv
<1>1. readPc = "fetch" /\ target = None /\ answer = "none"
  BY DEF FetchRecord, FetchDone, QueryHolds, QueryShape
<1>2. UNCHANGED <<target, key, unread, durable, since>>
  BY DEF FetchRecord, FetchDone
<1>3. \A v \in UID : Wanted(v)' = Wanted(v)
  BY <1>2, QuietQuery DEF Wanted
<1>4. CASE \/ FetchDone
           \/ readPc' = "reply" /\ answer' = "internal_error" /\ UNCHANGED <<found, fetched>>
  <2>1. /\ UNCHANGED <<found, fetched>> /\ readPc' = "reply"
        /\ \/ found = {} /\ answer' = "ok"
           \/ answer' = "internal_error"
    BY <1>4 DEF FetchDone, Conclude
  <2>2. QueryCovers'
    <3>1. \A u \in UID : Found(u, fetched[u])' = Found(u, fetched[u])
      BY <2>1, QuietQuery DEF Found
    <3> QED
      BY <1>1, <1>2, <1>3, <2>1, <3>1, QuietQuery DEF QueryHolds, QueryCovers, ReadsTypeOK
  <2> QED
    BY <2>2, QuietQuery DEF QueryHolds
<1>5. ASSUME NEW u \in found, found' = found \ {u},
             NEW n \in Readable(u),
             fetched' = [fetched EXCEPT ![u] = IF Found(u, n) THEN n ELSE 0],
             UNCHANGED <<readPc, answer>>
      PROVE  IndexOwned' /\ QueryCovers'
  <2>1. u \in UID /\ fetched \in [UID -> Nat] /\ fetched[u] = 0
    BY DEF ReadsTypeOK
  <2>2. n = Revision(u) /\ n \in Nat
    BY <2>1 DEF Readable, TypeOK, BucketTypeOK, Revision
  <2>3. /\ \A v \in UID : v # u => fetched'[v] = fetched[v]
        /\ fetched'[u] = IF Exists(u) THEN Revision(u) ELSE 0
        /\ fetched' \in [UID -> Nat]
    BY <1>5, <2>1, <2>2 DEF Exists
  <2>4. u \in durable => Exists(u) /\ Revision(u) > 0
    <3>1. u \in durable => told[u] = "ok"
      BY DEF QueryHolds, QueryCovers
    <3> QED
      BY <2>1, <3>1, ToldIsIssued DEF Exists, Found
  <2>5. Wanted(u) /\ since[u] <= Revision(u)
    BY <2>1 DEF QueryHolds, QueryCovers
  <2>6. \A v \in UID : fetched'[v] > 0 =>
          /\ target' = v \/ Wanted(v)'
          /\ Found(v, fetched[v])'
          /\ since'[v] <= fetched'[v] /\ fetched'[v] <= Revision(v)'
    <3>1. ASSUME NEW v \in UID, v # u, fetched'[v] > 0
          PROVE  /\ target' = v \/ Wanted(v)'
                 /\ Found(v, fetched[v])'
                 /\ since'[v] <= fetched'[v] /\ fetched'[v] <= Revision(v)'
      <4>1. fetched'[v] = fetched[v] /\ fetched[v] > 0
        BY <2>3, <3>1
      <4>2. Found(v, fetched[v])'
        BY <4>1, QuietQuery DEF QueryHolds, QueryCovers, Found
      <4> QED
        BY <1>2, <1>3, <4>1, <4>2, QuietQuery DEF QueryHolds, QueryCovers
    <3>2. ASSUME fetched'[u] > 0
          PROVE  /\ target' = u \/ Wanted(u)'
                 /\ Found(u, fetched[u])'
                 /\ since'[u] <= fetched'[u] /\ fetched'[u] <= Revision(u)'
      <4>1. fetched'[u] = Revision(u) /\ Exists(u)
        BY <2>3, <3>2
      <4>2. Found(u, fetched[u])'
        BY <2>1, <4>1, QuietQuery DEF Exists, Found
      <4> QED
        BY <1>2, <1>3, <2>1, <2>2, <2>5, <4>1, <4>2, QuietQuery
    <3> QED
      BY <3>1, <3>2
  <2>7. ASSUME NEW v \in durable, Wanted(v) PROVE v \in found' \/ fetched'[v] > 0
    BY <1>1, <1>5, <2>3, <2>4, <2>7 DEF QueryHolds, QueryCovers, ReadsTypeOK
  <2>8. QueryCovers'
    BY <1>1, <1>2, <1>3, <1>5, <2>6, <2>7, QuietQuery DEF QueryHolds, QueryCovers, ReadsTypeOK
  <2> QED
    BY <2>8, QuietQuery DEF QueryHolds
<1> QED
  BY <1>4, <1>5 DEF FetchRecord, Conclude

(* and when it answers.                                                    *)
LEMMA ReplyKeeps ==
    ASSUME Inv, QueryHolds, UNCHANGED vars, ReplyQuery
    PROVE  IndexOwned' /\ QueryCovers'
<1>1. \A u \in UID : NoRevision[u] = 0 /\ Revision(u) \in Nat
  BY DEF NoRevision, Inv, TypeOK, BucketTypeOK, Revision
<1>2. QueryCovers'
  BY <1>1, QuietQuery DEF ReplyQuery, QueryCovers
<1> QED
  BY <1>2, QuietQuery DEF QueryHolds

-----------------------------------------------------------------------------
(* What a query answers                                                    *)

(* No query is under way at first.                                         *)
LEMMA ReadsInitInv == ReadsInit => QueryHolds
<1> SUFFICES ASSUME ReadsInit PROVE QueryHolds
  OBVIOUS
<1>1. \A u \in UID : NoRevision[u] = 0
  BY DEF NoRevision
<1>2. index = {} /\ late = {} /\ \A u \in UID : Revision(u) = 0
  BY DEF ReadsInit, Init, BucketInit, Revision
<1>3. QueryShape
  BY DEF ReadsInit, QueryShape
<1>4. QueryCovers
  BY <1>1, <1>2 DEF ReadsInit, QueryCovers
<1> QED
  BY <1>2, <1>3, <1>4 DEF QueryHolds, IndexOwned

(* Every step keeps what is known of the query.                            *)
LEMMA ReadsNextInv ==
    ASSUME Inv, PromiseInv, QueryHolds, ReadsTypeOK, ~StaleReads, [ReadsNext]_allVars
    PROVE  QueryHolds'
<1>1. QueryShape'
  BY ReadsNextTypes DEF Inv, QueryHolds
<1>2. CASE [Next]_vars /\ UNCHANGED readVars
  BY <1>1, <1>2, NextInv, ServiceKeepsQuery DEF QueryHolds
<1>3. CASE /\ (\E u \in UID : AskByUID(u)) \/ (\E e \in Email : AskByEmail(e))
           /\ UNCHANGED vars
  BY <1>1, <1>3, AskKeeps DEF QueryHolds
<1>4. CASE ReadStep /\ UNCHANGED vars
  BY <1>1, <1>4, GetKeeps, ScanKeeps, FetchKeeps, ReplyKeeps DEF ReadStep, QueryHolds
<1> QED
  BY <1>2, <1>3, <1>4 DEF ReadsNext, allVars

(* The inductive invariant of the queries: each invite that a lookup still *)
(* owes is ahead of it in the listing or among what it has collected       *)
(* (invite_repository.go:95-150).                                          *)
THEOREM QueriesInvariance == ~StaleReads => (ReadsSpec => []QueryInv)
<1> SUFFICES ASSUME ~StaleReads PROVE ReadsSpec => []QueryInv
  OBVIOUS
<1>1. ReadsInit => QueryHolds
  BY ReadsInitInv
<1>2. /\ Inv /\ PromiseInv /\ ReadsTypeOK /\ QueryHolds /\ [ReadsNext]_<<vars, readVars>>
      => QueryHolds'
  BY ReadsNextInv DEF allVars
<1> QED
  BY <1>1, <1>2, ReadsRefine, QueriesTypeCorrect, Invariance, PromisesInvariance, PTL
     DEF ReadsSpec, QueryInv

(* A lookup that is answered without an error misses no invite whose       *)
(* sender had its "ok" before it began (invite_repository.go:121-126).     *)
THEOREM AnswersAreComplete == ~StaleReads => (ReadsSpec => []AcknowledgedIsReadable)
<1> SUFFICES ASSUME ~StaleReads PROVE ReadsSpec => []AcknowledgedIsReadable
  OBVIOUS
<1>1. Inv /\ PromiseInv /\ QueryInv => AcknowledgedIsReadable
  <2> SUFFICES ASSUME Inv, PromiseInv, QueryInv PROVE AcknowledgedIsReadable
    OBVIOUS
  <2>1. \A u \in durable : issued[u] # None
    BY ToldIsIssued DEF QueryInv, QueryHolds, QueryCovers, ReadsTypeOK
  <2> QED
    BY <2>1 DEF QueryInv, QueryHolds, QueryCovers, Wanted, AcknowledgedIsReadable
<1> QED
  BY <1>1, QueriesInvariance, ReadsRefine, Invariance, PromisesInvariance, PTL

(* Each invite of an answer was asked for, is a stored version, and is no  *)
(* older than the query (invite_read.go:61-92).                            *)
THEOREM AnswersAreCurrent == ~StaleReads => (ReadsSpec => []AnswerIsCurrent)
<1> SUFFICES ASSUME ~StaleReads PROVE ReadsSpec => []AnswerIsCurrent
  OBVIOUS
<1>1. QueryInv => AnswerIsCurrent
  <2> SUFFICES ASSUME QueryInv PROVE AnswerIsCurrent
    OBVIOUS
  <2>1. \A u \in UID : since[u] \in Nat /\ fetched[u] \in Nat
    BY DEF QueryInv, ReadsTypeOK
  <2> QED
    BY <2>1 DEF QueryInv, QueryHolds, QueryCovers, Wanted, AnswerIsGenuine,
                  AnswerIsCurrent
<1> QED
  BY <1>1, QueriesInvariance, PTL

-----------------------------------------------------------------------------
(* What does not depend on current reads                                   *)

(* What a query has found is what it was asked for, whatever the service   *)
(* does,                                                                   *)
LEMMA ServiceKeepsAsked ==
    ASSUME Inv, Inv', PromiseInv, QueryAsked, ReadsTypeOK, LogGrows, [Next]_vars,
           UNCHANGED readVars
    PROVE  QueryAsked'
<1> USE DEF Inv, readVars
<1>1. IssuedStays
  BY FactsStay
<1>2. ASSUME NEW u \in found PROVE Wanted(u)'
  BY <1>1, <1>2, WantedStays DEF QueryAsked, ReadsTypeOK
<1>3. ASSUME NEW u \in UID, fetched[u] > 0
      PROVE  /\ target = u \/ Wanted(u)'
             /\ Found(u, fetched[u])' /\ fetched[u] <= Revision(u)'
  <2>1. PICK n \in Nat : n = fetched[u]
    BY DEF ReadsTypeOK
  <2>2. Found(u, n) /\ n <= Revision(u)
    BY <1>3, <2>1 DEF QueryAsked
  <2>3. Found(u, n)' /\ n <= Revision(u)'
    BY <2>2, FoundGrows DEF TypeOK
  <2>4. target = u \/ Wanted(u)'
    BY <1>1, <1>3, WantedStays DEF QueryAsked
  <2> QED
    BY <2>1, <2>3, <2>4 DEF Found
<1> QED
  BY <1>2, <1>3 DEF QueryAsked

(* and whatever the query does.                                            *)
LEMMA QueryKeepsAsked ==
    ASSUME TypeOK, IndexOwned, QueryAsked, QueryShape, ReadsTypeOK, UNCHANGED vars,
           \/ \E u \in UID : AskByUID(u)
           \/ \E e \in Email : AskByEmail(e)
           \/ ReadStep
    PROVE  QueryAsked'
<1>1. \A u \in UID : NoRevision[u] = 0
  BY DEF NoRevision
<1>2. CASE (\E u \in UID : AskByUID(u)) \/ (\E e \in Email : AskByEmail(e))
  <2>1. found' = {} /\ fetched' = NoRevision
    BY <1>2 DEF AskByUID, AskByEmail, Ask, QueryShape
  <2> QED
    BY <1>1, <2>1 DEF QueryAsked
<1>3. CASE GetInvite
  <2>1. /\ target \in UID /\ target' = target /\ found' = {} /\ fetched = NoRevision
        /\ \/ \E n \in Readable(target) :
                 Found(target, n) /\ fetched' = [fetched EXCEPT ![target] = n]
           \/ UNCHANGED fetched
    BY <1>3 DEF GetInvite, QueryShape
  <2>2. CASE UNCHANGED fetched
    BY <1>1, <2>1, <2>2 DEF QueryAsked
  <2>3. ASSUME NEW n \in Readable(target), Found(target, n),
               fetched' = [fetched EXCEPT ![target] = n]
        PROVE  QueryAsked'
    <3>1. fetched'[target] = n /\ \A u \in UID : u # target => fetched'[u] = 0
      BY <1>1, <2>1, <2>3 DEF ReadsTypeOK
    <3>2. n <= Revision(target)
      BY <2>1, <2>3 DEF Readable, Revision, TypeOK, BucketTypeOK
    <3>3. Found(target, fetched[target])' /\ fetched'[target] <= Revision(target)'
      BY <2>1, <2>3, <3>1, <3>2 DEF Found, Revision, vars, bucketVars
    <3> QED
      BY <2>1, <3>1, <3>3 DEF QueryAsked
  <2> QED
    BY <2>1, <2>2, <2>3
<1>4. CASE ScanKey \/ ScanDone
  <2>1. UNCHANGED <<target, key, fetched>> /\ fetched = NoRevision
    BY <1>4 DEF ScanKey, ScanDone, QueryShape
  <2>2. \A u \in found' : u \in found \/ <<key, u>> \in index
    BY <1>4 DEF ScanKey, ScanDone
  <2>3. \A u \in found' : Wanted(u)
    BY <2>2 DEF QueryAsked, IndexOwned, Owned, IndexEntry, Wanted
  <2>4. \A u \in found' : Wanted(u)'
    BY <2>1, <2>3 DEF Wanted, vars, sendVars
  <2> QED
    BY <1>1, <2>1, <2>4 DEF QueryAsked
<1>5. CASE FetchRecord \/ FetchDone
  <2>1. UNCHANGED <<target, key>> /\ found' \subseteq found
    BY <1>5 DEF FetchRecord, FetchDone, Conclude
  <2>2. \A u : Wanted(u)' = Wanted(u)
    BY <2>1 DEF Wanted, vars, sendVars
  <2>3. ASSUME NEW u \in UID, fetched'[u] > 0
        PROVE  /\ target' = u \/ Wanted(u)'
               /\ Found(u, fetched[u])' /\ fetched'[u] <= Revision(u)'
    <3>1. CASE fetched'[u] = fetched[u]
      BY <2>1, <2>2, <2>3, <3>1 DEF QueryAsked, Found, Revision, vars, bucketVars
    <3>2. CASE fetched'[u] # fetched[u]
      <4>1. u \in found /\ Found(u, fetched'[u]) /\ fetched'[u] \in Readable(u)
        BY <1>5, <2>3, <3>2 DEF FetchRecord, FetchDone, ReadsTypeOK
      <4>2. fetched'[u] <= Revision(u)
        BY <4>1 DEF Readable, Revision, TypeOK, BucketTypeOK
      <4> QED
        BY <2>2, <4>1, <4>2 DEF QueryAsked, Found, Revision, vars, bucketVars
    <3> QED
      BY <3>1, <3>2
  <2> QED
    BY <2>1, <2>2, <2>3 DEF QueryAsked
<1>6. CASE ReplyQuery
  BY <1>1, <1>6 DEF ReplyQuery, QueryAsked
<1> QED
  BY <1>2, <1>3, <1>4, <1>5, <1>6 DEF ReadStep

(* So every step keeps it.                                                 *)
LEMMA ReadsNextAsked ==
    ASSUME Inv, PromiseInv, IndexOwned, QueryAsked, QueryShape, ReadsTypeOK,
           [ReadsNext]_allVars
    PROVE  IndexOwned' /\ QueryAsked'
<1>1. CASE [Next]_vars /\ UNCHANGED readVars
  BY <1>1, NextInv, NextOwned, ServiceKeepsAsked
<1>2. CASE UNCHANGED vars /\ ~UNCHANGED readVars
  <2>1. \/ \E u \in UID : AskByUID(u)
        \/ \E e \in Email : AskByEmail(e)
        \/ ReadStep
    BY <1>2 DEF ReadsNext, allVars
  <2> QED
    BY <1>2, <2>1, QuietQuery, QueryKeepsAsked DEF Inv
<1> QED
  BY <1>1, <1>2 DEF ReadsNext, allVars

(* An answer holds nothing that was not asked for, and nothing that was    *)
(* never stored, also when reads lag (invite_repository.go:132-145): of    *)
(* what is said of an answer, currency alone needs current reads.          *)
THEOREM AnswersAreGenuine == ReadsSpec => []AnswerIsGenuine
<1>1. ReadsInit => IndexOwned /\ QueryAsked
  BY DEF ReadsInit, Init, BucketInit, NoRevision, IndexOwned, QueryAsked
<1>2. /\ Inv /\ PromiseInv /\ ReadsTypeOK /\ QueryShape /\ IndexOwned /\ QueryAsked
      /\ [ReadsNext]_<<vars, readVars>>
      => IndexOwned' /\ QueryAsked'
  BY ReadsNextAsked DEF allVars
<1>3. QueryAsked => AnswerIsGenuine
  BY DEF QueryAsked, Wanted, AnswerIsGenuine
<1> QED
  BY <1>1, <1>2, <1>3, ReadsRefine, QueriesTypeCorrect, Invariance, PromisesInvariance, PTL
     DEF ReadsSpec

=============================================================================
