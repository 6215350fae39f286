--------------------------- MODULE InviteService --------------------------
(***************************************************************************)
(* The invite service as it is deployed: several replicas, each with one   *)
(* send_invite handler and one invite.accepted handler that run            *)
(* concurrently (cmd/invite-api/service/subscriptions.go), sharing one     *)
(* KeyValue bucket.  A replica may stop at any point and start again       *)
(* (cmd/invite-api/main.go: the shutdown does not wait for the handlers,   *)
(* and nothing of their state is persisted).                               *)
(*                                                                         *)
(* The invite.accepted subject is open: any event may arrive, any number   *)
(* of times, in any order, at any replica.  What cannot be made up is the  *)
(* signed token, which only an e-mail carries.                             *)
(***************************************************************************)
EXTENDS SendInvite, AcceptInvite

CONSTANT
    Crashes  \* TRUE when a replica may stop and start again

ASSUME ServiceAssumption == Crashes \in BOOLEAN

vars == <<bucketVars, sendVars, acceptVars>>

-----------------------------------------------------------------------------

(* The token minted with u, as jwt claims.                                 *)
Token(u) == [ uid |-> u, email |-> issued[u].email, exp |-> issued[u].expires ]

(* The tokens that have left the service in an e-mail.                     *)
TokensOut == { Token(u) : u \in { v \in UID : mail[v] = "delivered" } }

Receive(r) ==
    \E u \in UID, name \in User, t \in TokensOut \cup {None} :
        ReceiveEvent(r, [ uid |-> u, username |-> name, token |-> t ])

(* Replica r stops, in the middle of whatever its handlers were doing: any *)
(* of the writes on the wire may still reach the bucket.                   *)
Crash(r) ==
    /\ Crashes
    /\ sendPc[r] # "idle" \/ acceptPc[r] # "idle"
    /\ \E sent \in SUBSET (SendOnWire(r) \cup AcceptOnWire(r)) :
          late' = late \cup sent
    /\ SendCrash(r)
    /\ Return(r)
    /\ UNCHANGED <<log, index, now, published>>

-----------------------------------------------------------------------------

Init == BucketInit /\ SendInit /\ AcceptInit

(* A step of the send_invite side, of the acceptance side, or of what is   *)
(* around them.                                                            *)
Next ==
    \/ SendNext /\ UNCHANGED acceptVars
    \/ \E r \in Replica : (Receive(r) \/ AcceptStep(r)) /\ UNCHANGED sendVars
    \/ \E r \in Replica : Crash(r)
    \/ (ApplyLate \/ Tick) /\ UNCHANGED <<sendVars, acceptVars>>

Spec == Init /\ [][Next]_vars

(* A handler that has a message is never suspended for ever: it is a       *)
(* goroutine, and each call it makes ends, with an error at the deadline   *)
(* of its context if not before.  Nothing obliges a message to arrive, the *)
(* e-mail service to act, or a process to stop.                            *)
Fairness ==
    \A r \in Replica :
        /\ WF_vars(SendStep(r) /\ UNCHANGED acceptVars)
        /\ WF_vars(AcceptStep(r) /\ UNCHANGED sendVars)

FairSpec == Spec /\ Fairness

-----------------------------------------------------------------------------
(* Type correctness                                                        *)

TypeOK == BucketTypeOK /\ SendTypeOK /\ AcceptTypeOK

-----------------------------------------------------------------------------
(* What a version of the log says                                          *)

Accepted(u, n)  == n \in DOMAIN log[u] /\ log[u][n].status = "accepted"
Withdrawn(u)    == \E n \in DOMAIN log[u] : log[u][n].status = "deleted"
Indexed(u)      == IndexEntry(issued[u].email, u) \in index

-----------------------------------------------------------------------------
(* Safety                                                                  *)

(* "We never send an invite we cannot track" (notification.go:148-149): an *)
(* e-mail has gone out only for an invite whose record and index entry     *)
(* were both written first, and no write of Create is still on its way.    *)
(* Whatever fails, crashes or is retried, an invite whose requester was    *)
(* told internal_error has had no e-mail.                                  *)
FailClosedPersist ==
    \A u \in UID :
        mail[u] # "none" =>
            /\ log[u] # <<>>
            /\ Exists(u) => Indexed(u)
            /\ told[u] # "internal_error"

(* A requester that was told "ok" (subscriptions.go:78-84) holds an invite *)
(* that is there to stay: the record is stored and indexed, the e-mail was *)
(* accepted by the e-mail service, and no delete of the record is running, *)
(* on its way, or left behind by a handler that gave up.                   *)
SuccessIsDurable ==
    \A u \in UID :
        told[u] = "ok" =>
            /\ Exists(u) /\ Indexed(u)
            /\ mail[u] = "delivered"
            /\ DeleteRecord(u) \notin late
            /\ DeleteIndex(u) \notin late

(* "Duplicate or redelivered events do not emit a second enriched event":  *)
(* however many events name an invite, at however many replicas, in        *)
(* whatever interleaving of reads and conditional writes, with calls that  *)
(* time out and processes that stop, at most one InviteServiceAccepted     *)
(* event is published for it.                                              *)
AtMostOneAnnouncement == \A u \in UID : Len(published[u]) <= 1

(* The published event is about the acceptance that was stored: the user,  *)
(* the instant and the expiry in it are those of an accepted version of    *)
(* the record, although publishAccepted reads the record a second time and *)
(* overwrites the status it read (acceptance.go:161-172).                  *)
AnnouncementCarriesWinner ==
    \A u \in UID : \A i \in DOMAIN published[u] :
        \E n \in DOMAIN log[u] : Accepted(u, n) /\ log[u][n] = published[u][i]

(* An accepted version rests on evidence: the e-mail with this invite's    *)
(* token was delivered, the accepting user is the one the record names     *)
(* (when it names one), and the event was received before the expiry.      *)
AcceptedWithEvidence ==
    \A u \in UID : \A n \in DOMAIN log[u] :
        Accepted(u, n) =>
            /\ mail[u] = "delivered"
            /\ log[u][n].by \in User
            /\ issued[u].username \in {None, log[u][n].by}
            /\ log[u][n].at < issued[u].expires

(* A process or a late write never brings back a withdrawn invite: once    *)
(* the rollback has deleted a record, no acceptance that read the record   *)
(* before may write it again (the conditional write of                     *)
(* invite_repository.go:196 against the delete of line 233).               *)
WithdrawnStaysGone ==
    [][\A u \in UID : Withdrawn(u) => Withdrawn(u)' /\ ~Exists(u)']_vars

(* The first acceptance wins: while the record exists, an acceptance that  *)
(* is stored is never replaced by another user's, nor undone.              *)
FirstAcceptanceWins ==
    [][\A u \in UID :
          Accepted(u, Revision(u)) /\ Exists(u)' =>
              log'[u][Len(log'[u])] = log[u][Revision(u)]]_vars

(* With a bucket that answers, "a failed send does not leave a phantom     *)
(* invite in KV" (notification.go:178-179): when the requester is told     *)
(* that the dispatch failed, neither the record nor its index entry is     *)
(* left, even if the token went out and is being used meanwhile.           *)
RollbackComplete ==
    \A u \in UID :
        told[u] = "email_dispatch_failed" => ~Exists(u) /\ ~Indexed(u)

(* With a bucket that answers, is read as it is, and no crash, an          *)
(* acceptance that stands is announced, or a handler is on its way to do   *)
(* so: no interleaving of events with each other, and with the rollback of *)
(* the send, leaves an accepted invite behind that nobody is going to      *)
(* announce (acceptance.go:123-126).                                       *)
AcceptedIsAnnounced ==
    \A u \in UID :
        Accepted(u, Revision(u)) =>
            \/ published[u] # <<>>
            \/ \E r \in Replica : acceptPc[r] \in {"enrich", "publish"} /\ event[r].uid = u

(* The calls that a handler has left for its message, the next one         *)
(* included, at most: each turn of MarkAccepted is a read and a write, and *)
(* the two calls of publishAccepted come after the last one.               *)
SendCallsLeft(r) ==
    [ idle |-> 0, reply |-> 1, undoRecord |-> 2, deleteIndex |-> 2, deleteRecord |-> 3,
      findRecord |-> 4, awaitEmail |-> 5, requestEmail |-> 6, putIndex |-> 7,
      putRecord |-> 8 ][sendPc[r]]

AcceptCallsLeft(r) ==
    LET turns == MaxAttempts - attempt[r] IN
    [ idle |-> 0, publish |-> 1, enrich |-> 2, markUpdate |-> 2 * turns + 3,
      markGet |-> 2 * turns + 4, load |-> 2 * MaxAttempts + 3 ][acceptPc[r]]

(* A handler never goes round in circles: whatever the bucket, the e-mail  *)
(* service, other handlers and late writes do, each call of a handler      *)
(* leaves it fewer to make, also when a conditional write conflicts and is *)
(* tried again (invite_repository.go:157-208).                             *)
HandlersAdvance ==
    [][\A r \in Replica :
          /\ sendPc[r] \notin {"idle", sendPc'[r]} => SendCallsLeft(r)' < SendCallsLeft(r)
          /\ acceptPc[r] \notin {"idle", acceptPc'[r]} =>
                AcceptCallsLeft(r)' < AcceptCallsLeft(r)]_vars

-----------------------------------------------------------------------------
(* Why it holds: the inductive invariant behind the safety properties      *)

(* A version that says "accepted" says by whom.                            *)
Acceptor(v) == v.status = "accepted" /\ v.by \in User

(* A record is written as pending, then at most once as accepted, and      *)
(* after that, or instead of that, it is only deleted.                     *)
LogShape ==
    \A u \in UID : \A n \in 1..Revision(u) :
        /\ n = 1 => log[u][n].status = "pending"
        /\ n = 2 => log[u][n].status = "deleted" \/ Acceptor(log[u][n])
        /\ n > 2 => log[u][n].status = "deleted"

(* A write that may reach the bucket now, or whenever it does later, does  *)
(* what LogShape allows: a record is put under a key that has never been   *)
(* written, a key is deleted after that, and an acceptance is conditional  *)
(* on the first revision.                                                  *)
WriteSafe(w) ==
    /\ w.op = "put" =>
          \/ w.value = Tombstone /\ log[w.uid] # <<>>
          \/ w.value = issued[w.uid] /\ log[w.uid] = <<>>
    /\ w.op = "update" => w.rev = 1 /\ Acceptor(w.value)

LateSafe == \A w \in late : WriteSafe(w)

(* A UID is minted once: one handler works on it, and only that handler,   *)
(* or the request it left behind, puts its record.                         *)
MintedOnce ==
    /\ \A u \in UID : issued[u] = None => log[u] = <<>>
    /\ \A u \in UID : issued[u] # None => issued[u].status = "pending"
    /\ \A r, q \in Replica : sendUid[r] \in UID /\ sendUid[r] = sendUid[q] => r = q
    /\ \A r \in Replica :
          /\ sendPc[r] = "putRecord" =>
                log[sendUid[r]] = <<>> /\ CreateRecord(sendUid[r]) \notin late
          /\ sendPc[r] \notin {"idle", "putRecord", "reply"} => log[sendUid[r]] # <<>>

(* Of the handlers that wrote an acceptance, the one that still has to     *)
(* publish is alone, and nothing has been published before.                *)
Announcing(r, u) == acceptPc[r] \in {"enrich", "publish"} /\ event[r].uid = u

OneAnnouncer ==
    /\ \A r \in Replica : acceptPc[r] = "markUpdate" => seen[r] = 1
    /\ \A u \in UID :
          /\ \A r \in Replica : Announcing(r, u) => Accepted(u, 2) /\ published[u] = <<>>
          /\ \A r, q \in Replica : Announcing(r, u) /\ Announcing(q, u) => r = q
          /\ published[u] # <<>> => Accepted(u, 2)
          /\ Len(published[u]) <= 1

(* When reads are current, the version that is published is the accepted   *)
(* one, and a record that was deleted meanwhile is not published.          *)
WinnerAnnounced ==
    ~StaleReads =>
        /\ \A r \in Replica : acceptPc[r] = "publish" => seen[r] = 2
        /\ \A u \in UID : published[u] # <<>> => published[u] = <<log[u][2]>>

Inv ==
    /\ TypeOK
    /\ LogShape
    /\ LateSafe
    /\ MintedOnce
    /\ OneAnnouncer
    /\ WinnerAnnounced

-----------------------------------------------------------------------------
(* Why the send side keeps its promises: what each handler, each answer    *)
(* and each write on its way rests on                                      *)

(* The record of u is in place: nothing is going to delete it, unless the  *)
(* handler that works on u does so from here.                              *)
Placed(u) == Exists(u) /\ DeleteRecord(u) \notin late
Kept(u)   == Placed(u) /\ Indexed(u)

(* What the handler of r relies on before each of its calls.               *)
Sender(r) ==
    /\ sendPc[r] = "idle" => sendUid[r] = None
    /\ \A u \in UID : sendUid[r] = u =>
          /\ told[u] = "none"
          /\ sendPc[r] \in {"putRecord", "putIndex", "undoRecord", "requestEmail"} =>
                mail[u] = "none"
          /\ sendPc[r] = "putIndex" => Placed(u)
          /\ sendPc[r] \in {"requestEmail", "awaitEmail", "findRecord"} => Kept(u)
          /\ sendPc[r] = "deleteIndex" => Withdrawn(u)
          /\ sendPc[r] = "reply" =>
                /\ code[r] = "ok" => Kept(u) /\ mail[u] = "delivered"
                /\ code[r] = "internal_error" => mail[u] = "none"

(* What has been sent and answered about u.                                *)
Promise(u) ==
    /\ issued[u] = None => told[u] = "none"
    /\ mail[u] # "none" => log[u] # <<>> /\ (Exists(u) => Indexed(u))
    /\ told[u] = "ok" => Kept(u) /\ mail[u] = "delivered"
    /\ told[u] = "internal_error" => mail[u] = "none"

(* An index key is only deleted after the record it leads to.              *)
DropSafe(w) == w.op = "index" /\ ~w.present => Withdrawn(w.entry[2])

PromiseInv ==
    /\ \A r \in Replica : Sender(r)
    /\ \A u \in UID : Promise(u)
    /\ \A w \in late : DropSafe(w)

(* The first version of a record is the one that was built for it, and     *)
(* whatever may still be written as its acceptance rests on the evidence   *)
(* that AcceptedWithEvidence asks for.                                     *)
Evidence(u, v) ==
    /\ mail[u] = "delivered"
    /\ v.by \in User
    /\ issued[u].username \in {None, v.by}
    /\ v.at \in Nat /\ v.at < issued[u].expires

(* What the handler of r has established of the event it works on.         *)
Accepter(r) ==
    /\ acceptPc[r] # "idle" /\ event[r].token # None =>
          mail[event[r].token.uid] = "delivered"
    /\ acceptPc[r] \in {"markGet", "markUpdate"} =>
          /\ mail[event[r].uid] = "delivered"
          /\ issued[event[r].uid].username \in {None, event[r].username}
    /\ acceptPc[r] = "markUpdate" => started[r] < issued[event[r].uid].expires

EvidenceInv ==
    /\ \A u \in UID : log[u] # <<>> => log[u][1] = issued[u]
    /\ \A u \in UID : \A n \in DOMAIN log[u] : Accepted(u, n) => Evidence(u, log[u][n])
    /\ \A w \in late : w.op = "update" => Evidence(w.uid, w.value)
    /\ \A r \in Replica : Accepter(r)

(* With a bucket that answers and no crash, a rollback that ends has       *)
(* removed both keys, for good.                                            *)
Removed(u) == Withdrawn(u) /\ ~Indexed(u)

RollbackInv ==
    ~Faults /\ ~Crashes /\ ~StaleReads =>
        /\ late = {}
        /\ \A u \in UID :
              /\ told[u] = "email_dispatch_failed" => Removed(u)
              /\ \A r \in Replica :
                    sendUid[r] = u /\ sendPc[r] = "reply" =>
                        (code[r] = "email_dispatch_failed" => Removed(u))

(* All that the promises of the service rest on.                           *)
ServiceInv == PromiseInv /\ EvidenceInv /\ RollbackInv

-----------------------------------------------------------------------------
(* What the documentation says and the code does not                      *)

(* "Records are kept indefinitely as a permanent audit trail" (README): an *)
(* invite that was accepted stays in the bucket.  It does not, when the    *)
(* e-mail service delivers the message and its reply comes too late: the   *)
(* rollback deletes whatever the bucket holds by then.                     *)
AcceptedIsKept ==
    [][\A u \in UID : Accepted(u, Revision(u)) => Exists(u)']_vars

(* "Transient KV error: log and drop [...] the record will remain in       *)
(* pending state" (acceptance.go:109-110): a record becomes accepted only  *)
(* when the handler that accepts it is told so and goes on to publish it.  *)
(* It also does when the conditional write is applied and its              *)
(* acknowledgement is not received in time, and then nobody publishes it:  *)
(* every later event finds the record accepted and is skipped.             *)
DroppedMeansPending ==
    [][\A u \in UID :
          Accepted(u, Revision(u))' /\ ~Accepted(u, Revision(u)) =>
              \E r \in Replica :
                  acceptPc[r] = "markUpdate" /\ event[r].uid = u /\ acceptPc'[r] = "enrich"]_vars

(* email_dispatch_failed: "the email service could not deliver it"         *)
(* (README): the requester is told so only of an e-mail that does not      *)
(* reach the recipient.  A reply that is late, lost or garbled gives the   *)
(* same answer, about an e-mail that was or is going to be delivered.      *)
DispatchFailedMeansUndelivered ==
    \A u \in UID :
        told[u] = "email_dispatch_failed" => mail[u] # "delivered"

-----------------------------------------------------------------------------
(* Refinement                                                              *)

Status(u) ==
    IF log[u] = <<>> THEN "absent"
    ELSE IF Exists(u) THEN log[u][Revision(u)].status
    ELSE "withdrawn"

(* The user of the accepted version, which outlives the record in the log. *)
Holder(u) ==
    IF \E n \in DOMAIN log[u] : Accepted(u, n)
    THEN log[u][CHOOSE n \in DOMAIN log[u] : Accepted(u, n)].by
    ELSE None

Announced(u) == [ i \in DOMAIN published[u] |-> published[u][i].by ]

Ledger == INSTANCE InviteLedger WITH
              status    <- [u \in UID |-> Status(u)],
              holder    <- [u \in UID |-> Holder(u)],
              announced <- [u \in UID |-> Announced(u)]

(* The replicas, with all their calls, failures and crashes, behave as one *)
(* ledger: an invite is stored once, accepted by at most one user, never   *)
(* un-accepted except by its withdrawal, which is final, and announced at  *)
(* most once and in the name of that user.                                 *)
LedgerSpec == Ledger!Spec

-----------------------------------------------------------------------------
(* Liveness                                                                *)

(* Every message is finished with: no handler is caught in a loop of       *)
(* retries or waits for something that may not come, so that the next      *)
(* message of its subscription is handled.                                 *)
HandlersReturn ==
    \A r \in Replica :
        /\ sendPc[r] # "idle" ~> sendPc[r] = "idle"
        /\ acceptPc[r] # "idle" ~> acceptPc[r] = "idle"

(* With a bucket that answers and no crash, an acceptance that was stored  *)
(* is announced, unless the rollback of its send removes it first.         *)
AcceptanceAnnounced ==
    \A u \in UID :
        (\E n \in DOMAIN log[u] : Accepted(u, n))
            ~> (Len(published[u]) = 1 \/ Withdrawn(u))
=============================================================================
