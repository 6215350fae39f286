--------------------------- MODULE InviteBucket ---------------------------
(***************************************************************************)
(* The JetStream KeyValue bucket "invite-service-invites" as the           *)
(* repository (src/internal/infrastructure/nats/invite_repository.go) uses *)
(* it: one primary key per invite UID and one secondary-index key per      *)
(* (e-mail, UID) pair.  The server and the client library are external to  *)
(* the repository; what is written here is what the repository relies on.  *)
(*                                                                         *)
(* A primary key is kept as the sequence of the versions written to it, so *)
(* that its revision is the length of that sequence and a reader that      *)
(* remembers a revision remembers the version it read.  A deletion writes  *)
(* a tombstone, which has a revision as any other version has.             *)
(***************************************************************************)
EXTENDS Integers, Sequences

CONSTANTS
    UID,         \* the invite UIDs that the link generator may mint
    Email,       \* canonical recipient addresses (the output of mail.ParseAddress)
    EmailKey,    \* [Email -> key]: encodeEmailForKey, which folds the letter case
    User,        \* LFX usernames
    Replica,     \* the processes of the deployment, which share the bucket
    None,        \* an absent name, token, time or UID
    Faults,      \* TRUE when a call on the bucket may fail or time out
    StaleReads,  \* TRUE when a Get may be served by a lagging bucket replica
    MaxTime      \* bound: the last instant the clock reaches

ASSUME BucketAssumption ==
    /\ EmailKey \in [Email -> Email]
    /\ None \notin User \cup UID \cup Replica \cup Nat
    /\ Faults \in BOOLEAN
    /\ StaleReads \in BOOLEAN
    /\ MaxTime \in Nat

VARIABLES
    log,    \* [UID -> sequence of versions] under the primary keys
    index,  \* the set of secondary-index keys present
    late,   \* writes whose caller has given up, and that may still be applied
    now     \* the clock, which only moves forward

bucketVars == <<log, index, late, now>>

-----------------------------------------------------------------------------

(* model.InviteRecord, reduced to the fields a decision is taken on.       *)
Record ==
    [ status   : {"pending", "accepted"},
      email    : Email,
      username : User \cup {None},    \* Recipient.Username, when the caller names one
      expires  : Nat,
      by       : User \cup {None},    \* AcceptedBy
      at       : Nat \cup {None} ]    \* AcceptedAt

Tombstone == [ status |-> "deleted" ]

Version == Record \cup {Tombstone}

ASSUME NoneAssumption == None \notin Version

(* The secondary-index key of an e-mail and a UID (emailIndexKey).         *)
IndexEntry(e, u) == <<EmailKey[e], u>>

Entries == { IndexEntry(e, u) : e \in Email, u \in UID }

(* Mutant: the index key of a delete is made of the address as it is.      *)
DropEntryUnfolded(e, u) == [ op |-> "index", entry |-> <<e, u>>, present |-> FALSE ]

(* The requests that change the bucket: an unconditional put (a delete is  *)
(* the put of a tombstone), an update conditional on a revision, and the   *)
(* put or delete of an index key.                                          *)
Put(u, v)       == [ op |-> "put", uid |-> u, value |-> v ]
Update(u, v, n) == [ op |-> "update", uid |-> u, value |-> v, rev |-> n ]
AddEntry(e, u)  == [ op |-> "index", entry |-> IndexEntry(e, u), present |-> TRUE ]
DropEntry(e, u) == [ op |-> "index", entry |-> IndexEntry(e, u), present |-> FALSE ]

Write ==
    [ op : {"put"}, uid : UID, value : Version ]
        \cup [ op : {"update"}, uid : UID, value : Record, rev : Nat ]
        \cup [ op : {"index"}, entry : Entries, present : BOOLEAN ]

-----------------------------------------------------------------------------

Revision(u) == Len(log[u])

(* A Get that returns revision n of u finds a value (ErrKeyNotFound        *)
(* otherwise).                                                             *)
Found(u, n) == n > 0 /\ log[u][n].status # "deleted"

(* The invite exists: its primary key has a value now.                     *)
Exists(u) == Found(u, Revision(u))

(* The revisions a Get of u may return.  A bucket with several replicas    *)
(* answers from any of them, and one may lag behind the leader.            *)
Readable(u) == IF StaleReads THEN 0..Revision(u) ELSE {Revision(u)}

(* Mutant: the write of an acceptance carries no revision.                 *)
MatchesAlways(w) == TRUE

(* The precondition of Update: "wrong last sequence" when it is false.     *)
Matches(w) == Revision(w.uid) = w.rev

(* The effect of a request when the server handles it.                     *)
Apply(w) ==
    \/ /\ \/ w.op = "put"
          \/ w.op = "update" /\ Matches(w)
       /\ log' = [log EXCEPT ![w.uid] = Append(@, w.value)]
       /\ UNCHANGED index
    \/ /\ w.op = "update" /\ ~Matches(w)
       /\ UNCHANGED <<log, index>>
    \/ /\ w.op = "index"
       /\ index' = IF w.present THEN index \cup {w.entry} ELSE index \ {w.entry}
       /\ UNCHANGED log

(* How a call on the bucket ends for its caller: the server has handled    *)
(* the request and the answer arrived; the call failed and nothing was     *)
(* sent (no connection, or the deadline had passed before the call); the   *)
(* deadline passed while the request was on its way.                       *)
Acked(w)    == Apply(w) /\ UNCHANGED <<late, now>>
Refused     == Faults /\ UNCHANGED bucketVars
TimedOut(w) == Faults /\ late' = late \cup {w} /\ UNCHANGED <<log, index, now>>

(* The server handles a request whose caller no longer waits for it.  It   *)
(* may also never do so.                                                   *)
ApplyLate ==
    \E w \in late :
        /\ Apply(w)
        /\ late' = late \ {w}
        /\ UNCHANGED now

Tick ==
    /\ now < MaxTime
    /\ now' = now + 1
    /\ UNCHANGED <<log, index, late>>

BucketInit ==
    /\ log = [u \in UID |-> <<>>]
    /\ index = {}
    /\ late = {}
    /\ now = 0

BucketTypeOK ==
    /\ log \in [UID -> Seq(Version)]
    /\ index \subseteq Entries
    /\ late \subseteq Write
    /\ now \in Nat
=============================================================================
