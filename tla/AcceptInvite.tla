--------------------------- MODULE AcceptInvite ---------------------------
(***************************************************************************)
(* The handler of lfx.invite.accepted events: the subscription of          *)
(* subscriptions.go, around AcceptanceService.HandleInviteAccepted         *)
(* (acceptance.go), around the repository's GetByUID and MarkAccepted      *)
(* (invite_repository.go).                                                 *)
(*                                                                         *)
(* As in SendInvite, one action is one call that the handler makes, with   *)
(* the code up to the next call.  Events that do not parse, or that lack a *)
(* UID or a username, end the handler before its first call: they change   *)
(* nothing, and are not among the events received here.                    *)
(***************************************************************************)
EXTENDS InviteBucket

CONSTANTS
    MaxAttempts,  \* maxMarkAcceptedRetries
    Leeway        \* tokenLeeway, the clock skew granted to a token's expiry

ASSUME AcceptAssumption ==
    /\ MaxAttempts \in Nat \ {0}
    /\ Leeway \in Nat

VARIABLES
    acceptPc,  \* [Replica -> the call the handler makes next]
    event,     \* [Replica -> the event it works on, or None]
    started,   \* [Replica -> the instant it captured before verifying (now)]
    seen,      \* [Replica -> the revision its last Get returned]
    attempt,   \* [Replica -> the turn of MarkAccepted's loop it is in]
    published  \* [UID -> the invites published as accepted for it, in order]

workerVars == <<acceptPc, event, started, seen, attempt>>
acceptVars == <<workerVars, published>>

AcceptPC == { "idle", "load", "markGet", "markUpdate", "enrich", "publish" }

(* What the signed token of an invite says (auth.InviteClaims).            *)
Claims == [ uid : UID, email : Email, exp : Nat ]

Event == [ uid : UID, username : User, token : Claims \cup {None} ]

-----------------------------------------------------------------------------

Expired(rec, t) == ~(t < rec.expires)

(* The token verifies at t (Verifier.Verify).                              *)
TokenVerifies(token, t) == t < token.exp + Leeway

(* Mutants: the token of any invite will do; anybody may use the token.    *)
VerifiedAnyInvite(e, rec, t) ==
    /\ e.token # None
    /\ ~Expired(rec, t)
    /\ TokenVerifies(e.token, t)
    /\ e.token.email = rec.email
    /\ rec.username = None \/ e.username = rec.username

VerifiedAnyUser(e, rec, t) ==
    /\ e.token # None
    /\ ~Expired(rec, t)
    /\ TokenVerifies(e.token, t)
    /\ e.token.uid = e.uid
    /\ e.token.email = rec.email

(* verifyAcceptance: the evidence in event e for accepting rec, the record *)
(* of the UID that e names, at instant t.                                  *)
Verified(e, rec, t) ==
    /\ e.token # None
    /\ ~Expired(rec, t)
    /\ TokenVerifies(e.token, t)
    /\ e.token.uid = e.uid
    /\ e.token.email = rec.email
    /\ rec.username = None \/ e.username = rec.username

(* The version that the handler read last.                                 *)
SeenVersion(r) == log[event[r].uid][seen[r]]

(* The conditional write of MarkAccepted.                                  *)
Acceptance(r) ==
    Update(event[r].uid,
           [SeenVersion(r) EXCEPT !.status = "accepted",
                                  !.by = event[r].username,
                                  !.at = started[r]],
           seen[r])

(* The invite of the enriched event: the record as it is read back, with   *)
(* its status forced to accepted.                                          *)
Enriched(r) == [SeenVersion(r) EXCEPT !.status = "accepted"]

AcceptOnWire(r) == IF acceptPc[r] = "markUpdate" THEN {Acceptance(r)} ELSE {}

-----------------------------------------------------------------------------

(* The handler of r makes its next call from here.                         *)
AcceptGoto(r, pc) == acceptPc' = [acceptPc EXCEPT ![r] = pc]

(* The handler of r returns: nobody waits for an answer, so an error is    *)
(* logged and the event is dropped.                                        *)
Return(r) ==
    /\ acceptPc' = [acceptPc EXCEPT ![r] = "idle"]
    /\ event' = [event EXCEPT ![r] = None]
    /\ started' = [started EXCEPT ![r] = 0]
    /\ seen' = [seen EXCEPT ![r] = 0]
    /\ attempt' = [attempt EXCEPT ![r] = 0]

ReceiveEvent(r, e) ==
    /\ acceptPc[r] = "idle"
    /\ AcceptGoto(r, "load")
    /\ event' = [event EXCEPT ![r] = e]
    /\ UNCHANGED <<bucketVars, started, seen, attempt, published>>

(* GetByUID, then the checks that need no further call.                    *)
Load(r) ==
    LET e == event[r] IN
    /\ acceptPc[r] = "load"
    /\ \/ \E n \in Readable(e.uid) :
             IF /\ Found(e.uid, n)
                /\ log[e.uid][n].status # "accepted"
                /\ Verified(e, log[e.uid][n], now)
             THEN /\ AcceptGoto(r, "markGet")
                  /\ started' = [started EXCEPT ![r] = now]
                  /\ attempt' = [attempt EXCEPT ![r] = 1]
                  /\ UNCHANGED <<event, seen>>
             ELSE Return(r)
       \/ Refused /\ Return(r)
    /\ UNCHANGED <<bucketVars, published>>

(* Mutant: a record that is accepted already is accepted again.            *)
MarkGetAgain(r) ==
    LET u == event[r].uid IN
    /\ acceptPc[r] = "markGet"
    /\ \E n \in Readable(u) :
          IF Found(u, n) /\ ~Expired(log[u][n], now)
          THEN /\ AcceptGoto(r, "markUpdate")
               /\ seen' = [seen EXCEPT ![r] = n]
               /\ UNCHANGED <<event, started, attempt>>
          ELSE Return(r)
    /\ UNCHANGED <<bucketVars, published>>

(* Mutant: ErrAlreadyAccepted is taken for success.                        *)
MarkGetIdempotent(r) ==
    LET u == event[r].uid IN
    /\ acceptPc[r] = "markGet"
    /\ \E n \in Readable(u) :
          IF Found(u, n)
          THEN /\ AcceptGoto(r, IF log[u][n].status = "accepted" THEN "enrich"
                                ELSE "markUpdate")
               /\ seen' = [seen EXCEPT ![r] = n]
               /\ UNCHANGED <<event, started, attempt>>
          ELSE Return(r)
    /\ UNCHANGED <<bucketVars, published>>

(* A turn of MarkAccepted, up to the conditional write.                    *)
MarkGet(r) ==
    LET u == event[r].uid IN
    /\ acceptPc[r] = "markGet"
    /\ \/ \E n \in Readable(u) :
             IF /\ Found(u, n)
                /\ log[u][n].status # "accepted"
                /\ ~Expired(log[u][n], started[r])
                /\ ~Expired(log[u][n], now)
             THEN /\ AcceptGoto(r, "markUpdate")
                  /\ seen' = [seen EXCEPT ![r] = n]
                  /\ UNCHANGED <<event, started, attempt>>
             ELSE Return(r)
       \/ Refused /\ Return(r)
    /\ UNCHANGED <<bucketVars, published>>

(* Mutant: a turn that conflicts is not counted.                           *)
ConflictUncounted(r) ==
    /\ AcceptGoto(r, "markGet")
    /\ UNCHANGED <<event, started, seen, attempt>>

(* A conflicting write came in between: another turn, if one is left.      *)
Conflict(r) ==
    IF attempt[r] < MaxAttempts
    THEN /\ AcceptGoto(r, "markGet")
         /\ attempt' = [attempt EXCEPT ![r] = @ + 1]
         /\ UNCHANGED <<event, started, seen>>
    ELSE Return(r)

(* Mutant: a turn whose write succeeded is followed by another one, as if  *)
(* it had conflicted.                                                      *)
MarkUpdateTurnsOn(r) ==
    /\ acceptPc[r] = "markUpdate"
    /\ \/ Acked(Acceptance(r)) /\ Conflict(r)
       \/ (Refused \/ TimedOut(Acceptance(r))) /\ Return(r)
    /\ UNCHANGED published

(* The conditional write of a turn.                                        *)
MarkUpdate(r) ==
    LET w == Acceptance(r) IN
    /\ acceptPc[r] = "markUpdate"
    /\ \/ /\ Acked(w)
          /\ \/ /\ Matches(w)
                /\ AcceptGoto(r, "enrich")
                /\ UNCHANGED <<event, started, seen, attempt>>
             \/ ~Matches(w) /\ Conflict(r)
       \/ (Refused \/ TimedOut(w)) /\ Return(r)
    /\ UNCHANGED published

(* Mutants: the record is published as it was read before the write; the   *)
(* record is published whatever the read returned; an accepted record is   *)
(* skipped as a duplicate here too.                                        *)
EnrichFromMemory(r) ==
    /\ acceptPc[r] = "enrich"
    /\ AcceptGoto(r, "publish")
    /\ UNCHANGED <<bucketVars, event, started, seen, attempt, published>>

EnrichUnchecked(r) ==
    /\ acceptPc[r] = "enrich"
    /\ AcceptGoto(r, "publish")
    /\ seen' = [seen EXCEPT ![r] = Revision(event[r].uid)]
    /\ UNCHANGED <<bucketVars, event, started, attempt, published>>

EnrichPendingOnly(r) ==
    /\ acceptPc[r] = "enrich"
    /\ LET rec == log[event[r].uid][Revision(event[r].uid)] IN
          IF rec.status = "pending"
          THEN AcceptGoto(r, "publish") /\ UNCHANGED <<event, started, seen, attempt>>
          ELSE Return(r)
    /\ UNCHANGED <<bucketVars, published>>

(* publishAccepted, the read: the record is fetched once more.             *)
Enrich(r) ==
    LET u == event[r].uid IN
    /\ acceptPc[r] = "enrich"
    /\ \/ \E n \in Readable(u) :
             IF Found(u, n)
             THEN /\ AcceptGoto(r, "publish")
                  /\ seen' = [seen EXCEPT ![r] = n]
                  /\ UNCHANGED <<event, started, attempt>>
             ELSE Return(r)
       \/ Refused /\ Return(r)
    /\ UNCHANGED <<bucketVars, published>>

(* publishAccepted, the message on lfx.invite-service.invite_accepted.     *)
Publish(r) ==
    /\ acceptPc[r] = "publish"
    /\ \/ published' = [published EXCEPT ![event[r].uid] = Append(@, Enriched(r))]
       \/ Faults /\ UNCHANGED published
    /\ Return(r)
    /\ UNCHANGED bucketVars

-----------------------------------------------------------------------------

AcceptStep(r) ==
    Load(r) \/ MarkGet(r) \/ MarkUpdate(r) \/ Enrich(r) \/ Publish(r)

AcceptInit ==
    /\ acceptPc = [r \in Replica |-> "idle"]
    /\ event = [r \in Replica |-> None]
    /\ started = [r \in Replica |-> 0]
    /\ seen = [r \in Replica |-> 0]
    /\ attempt = [r \in Replica |-> 0]
    /\ published = [u \in UID |-> <<>>]

(* A handler that works has an event, and the version it means to write    *)
(* from, or to publish, is one that was really there.                      *)
AcceptTypeOK ==
    /\ acceptPc \in [Replica -> AcceptPC]
    /\ event \in [Replica -> Event \cup {None}]
    /\ started \in [Replica -> Nat]
    /\ seen \in [Replica -> Nat]
    /\ attempt \in [Replica -> 0..MaxAttempts]
    /\ published \in [UID -> Seq(Record)]
    /\ \A r \in Replica :
          /\ acceptPc[r] # "idle" => event[r] \in Event
          /\ acceptPc[r] \in {"markUpdate", "enrich", "publish"} =>
                Found(event[r].uid, seen[r]) /\ seen[r] <= Revision(event[r].uid)
=============================================================================
