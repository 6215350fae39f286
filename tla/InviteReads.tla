---------------------------- MODULE InviteReads ---------------------------
(***************************************************************************)
(* The two query handlers of the service, get_invite and                   *)
(* get_invites_by_email (subscriptions.go, invite_read.go and the          *)
(* repository's GetByUID and GetByEmail), running against the bucket while *)
(* invites are sent, rolled back and accepted.                             *)
(*                                                                         *)
(* Queries write nothing, so that two of them cannot influence each other: *)
(* one query at a time, of either kind, stands for those of every replica. *)
(* A request that does not parse, or that names nothing, is answered       *)
(* before the first call and is not among the requests received here.      *)
(***************************************************************************)
EXTENDS InviteService

ASSUME ReadsAssumption == None \notin Email

VARIABLES
    readPc,   \* the call the query makes next
    target,   \* get_invite: the UID asked for
    key,      \* get_invites_by_email: the e-mail, as encodeEmailForKey folds it
    unread,   \* the UIDs whose index key the key listing has yet to deliver
    found,    \* the UIDs collected from the listing, and not fetched yet
    fetched,  \* [UID -> the revision fetched for the answer, or 0]
    answer,   \* what the handler is about to answer
    durable,  \* the invites whose requester held an "ok" when the query arrived
    since     \* [UID -> its revision when the query arrived]

readVars == <<readPc, target, key, unread, found, fetched, answer, durable, since>>

ReadPC == { "idle", "get", "scan", "fetch", "reply" }

ReadAnswer == { "none", "ok", "not_found", "internal_error" }

NoRevision == [u \in UID |-> 0]

-----------------------------------------------------------------------------

(* The query arrives.                                                      *)
Ask(pc) ==
    /\ readPc = "idle"
    /\ readPc' = pc
    /\ durable' = { u \in UID : told[u] = "ok" }
    /\ since' = [u \in UID |-> Revision(u)]
    /\ UNCHANGED <<found, fetched, answer>>

AskByUID(u) ==
    /\ Ask("get")
    /\ target' = u
    /\ UNCHANGED <<key, unread>>

AskByEmail(e) ==
    /\ Ask("scan")
    /\ key' = EmailKey[e]
    /\ unread' = UID
    /\ UNCHANGED target

(* The query has its answer.                                               *)
Conclude(a) ==
    /\ readPc' = "reply"
    /\ answer' = a

(* get_invite: GetByUID.                                                   *)
GetInvite ==
    /\ readPc = "get"
    /\ \/ \E n \in Readable(target) :
             \/ /\ Found(target, n)
                /\ fetched' = [fetched EXCEPT ![target] = n]
                /\ Conclude("ok")
             \/ ~Found(target, n) /\ Conclude("not_found") /\ UNCHANGED fetched
       \/ Faults /\ Conclude("internal_error") /\ UNCHANGED fetched
    /\ UNCHANGED <<target, key, unread, found, durable, since>>

(* GetByEmail: the listing delivers the keys of the bucket one by one,     *)
(* each as it is when the server comes to it.                              *)
ScanKey ==
    /\ readPc = "scan"
    /\ \E u \in unread :
          /\ unread' = unread \ {u}
          /\ found' = IF <<key, u>> \in index THEN found \cup {u} ELSE found
    /\ UNCHANGED <<readPc, target, key, fetched, answer, durable, since>>

(* Mutant: the context is not looked at when the channel is closed.        *)
ScanDonePartial ==
    /\ readPc = "scan"
    /\ readPc' = "fetch"
    /\ UNCHANGED <<target, key, unread, found, fetched, answer, durable, since>>

(* GetByEmail: the channel of keys is closed, at the end of the listing or *)
(* before it when the deadline has passed.  Only the context tells one     *)
(* from the other, and a partial listing is not used.                      *)
ScanDone ==
    /\ readPc = "scan"
    /\ \/ unread = {} /\ readPc' = "fetch" /\ UNCHANGED answer
       \/ Faults /\ Conclude("internal_error")
    /\ UNCHANGED <<target, key, unread, found, fetched, durable, since>>

(* Mutant: a record that is gone is answered as it was.                    *)
FetchUnchecked ==
    /\ readPc = "fetch"
    /\ \E u \in found :
          /\ found' = found \ {u}
          /\ fetched' = [fetched EXCEPT ![u] = Revision(u)]
    /\ UNCHANGED <<readPc, target, key, unread, answer, durable, since>>

(* GetByEmail: GetByUID for a UID of the listing.  An index entry without  *)
(* a record is skipped; any other error fails the whole lookup.            *)
FetchRecord ==
    /\ readPc = "fetch"
    /\ \E u \in found :
          \/ /\ found' = found \ {u}
             /\ \E n \in Readable(u) :
                   fetched' = [fetched EXCEPT ![u] = IF Found(u, n) THEN n ELSE 0]
             /\ UNCHANGED <<readPc, answer>>
          \/ Faults /\ Conclude("internal_error") /\ UNCHANGED <<found, fetched>>
    /\ UNCHANGED <<target, key, unread, durable, since>>

FetchDone ==
    /\ readPc = "fetch"
    /\ found = {}
    /\ Conclude("ok")
    /\ UNCHANGED <<target, key, unread, found, fetched, durable, since>>

ReplyQuery ==
    /\ readPc = "reply"
    /\ readPc' = "idle"
    /\ target' = None
    /\ key' = None
    /\ unread' = {}
    /\ found' = {}
    /\ fetched' = NoRevision
    /\ answer' = "none"
    /\ durable' = {}
    /\ since' = NoRevision

ReadStep == GetInvite \/ ScanKey \/ ScanDone \/ FetchRecord \/ FetchDone \/ ReplyQuery

-----------------------------------------------------------------------------

ReadsInit ==
    /\ Init
    /\ readPc = "idle"
    /\ target = None
    /\ key = None
    /\ unread = {}
    /\ found = {}
    /\ fetched = NoRevision
    /\ answer = "none"
    /\ durable = {}
    /\ since = NoRevision

ReadsNext ==
    \/ Next /\ UNCHANGED readVars
    \/ \E u \in UID : AskByUID(u) /\ UNCHANGED vars
    \/ \E e \in Email : AskByEmail(e) /\ UNCHANGED vars
    \/ ReadStep /\ UNCHANGED vars

ReadsSpec == ReadsInit /\ [][ReadsNext]_<<vars, readVars>>

(* A UID is collected only after its key was delivered, and fetched only   *)
(* after it was collected.                                                 *)
ReadsTypeOK ==
    /\ readPc \in ReadPC
    /\ target \in UID \cup {None}
    /\ key \in Email \cup {None}
    /\ unread \subseteq UID
    /\ found \subseteq UID
    /\ fetched \in [UID -> Nat]
    /\ answer \in ReadAnswer
    /\ durable \subseteq UID
    /\ since \in [UID -> Nat]
    /\ unread \cap found = {}
    /\ \A u \in found : fetched[u] = 0

-----------------------------------------------------------------------------

(* "Detect and surface this as an error rather than returning incomplete   *)
(* data" (invite_repository.go:121-126): a lookup that is answered without *)
(* an error contains every invite to that address, in whatever letter      *)
(* case, whose send had been answered "ok" before the lookup began; it     *)
(* does so while other invites to the address are being created, deleted   *)
(* and accepted, with a listing that reads each key at its own time.  And  *)
(* get_invite finds such an invite.                                        *)
AcknowledgedIsReadable ==
    /\ answer = "ok" =>
          \A u \in durable : EmailKey[issued[u].email] = key => fetched[u] > 0
    /\ answer = "not_found" => target \notin durable

(* Each invite in an answer is one that was asked for, and what is         *)
(* answered of it is a version that was stored: no listing, index key of   *)
(* an invite that is gone, or read that lags brings in anything else       *)
(* (invite_repository.go:132-145).                                         *)
AnswerIsGenuine ==
    answer = "ok" =>
        \A u \in UID :
            fetched[u] > 0 =>
                /\ target = u \/ EmailKey[issued[u].email] = key
                /\ Found(u, fetched[u]) /\ fetched[u] <= Revision(u)

(* What a query answers was true while it ran: it is genuine, and no       *)
(* version in it is older than the one that was stored when the query      *)
(* arrived.                                                                *)
AnswerIsCurrent ==
    /\ AnswerIsGenuine
    /\ answer = "ok" => \A u \in UID : fetched[u] > 0 => fetched[u] >= since[u]

-----------------------------------------------------------------------------
(* Why it holds: the inductive invariant behind the answers                *)

(* An index key, stored or on its way, leads to an invite of its address.  *)
Owned(entry) ==
    /\ issued[entry[2]] # None
    /\ entry = IndexEntry(issued[entry[2]].email, entry[2])

IndexOwned ==
    /\ \A entry \in index : Owned(entry)
    /\ \A w \in late : w.op = "index" => Owned(w.entry)

(* The invite u is one that the lookup asks for.                           *)
Wanted(u) == issued[u] # None /\ EmailKey[issued[u].email] = key

(* What the handler of a query holds at each of its calls.                 *)
QueryShape ==
    /\ readPc # "reply" => answer = "none"
    /\ readPc = "idle" => target = None /\ key = None /\ unread = {} /\ found = {}
    /\ readPc = "get" => target \in UID /\ found = {}
    /\ readPc \in {"scan", "fetch"} => target = None
    /\ readPc \in {"idle", "get", "scan"} => fetched = NoRevision
    /\ target # None => key = None

(* While a lookup runs, each invite that it owes is still to be delivered  *)
(* by the listing, or collected, or fetched; and what it has is wanted,    *)
(* stored, and no older than the query.                                    *)
QueryCovers ==
    /\ \A u \in durable : told[u] = "ok"
    /\ \A u \in UID : since[u] <= Revision(u)
    /\ \A u \in found : Wanted(u)
    /\ \A u \in UID : fetched[u] > 0 =>
          /\ target = u \/ Wanted(u)
          /\ Found(u, fetched[u])
          /\ since[u] <= fetched[u] /\ fetched[u] <= Revision(u)
    /\ readPc = "scan" => \A u \in durable : Wanted(u) => u \in unread \cup found
    /\ readPc = "fetch" => \A u \in durable : Wanted(u) => u \in found \/ fetched[u] > 0
    /\ answer = "ok" => \A u \in durable : Wanted(u) => fetched[u] > 0
    /\ answer = "not_found" => target \notin durable

(* The part of it that does not depend on current reads.                   *)
QueryAsked ==
    /\ \A u \in found : Wanted(u)
    /\ \A u \in UID : fetched[u] > 0 =>
          /\ target = u \/ Wanted(u)
          /\ Found(u, fetched[u]) /\ fetched[u] <= Revision(u)

QueryHolds == IndexOwned /\ QueryShape /\ QueryCovers

QueryInv == ReadsTypeOK /\ QueryHolds
=============================================================================
