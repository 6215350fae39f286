--------------------------- MODULE InviteLedger ---------------------------
(***************************************************************************)
(* What the service promises about one invite, with no replicas, calls,    *)
(* revisions or messages: an invite is stored once, may be accepted once,  *)
(* by one user, may be withdrawn for good, and its acceptance may be       *)
(* announced once, in the name of the user who holds it.                   *)
(*                                                                         *)
(* It is the contract that port.InviteStore                                *)
(* (src/internal/domain/port/invite_store.go) and the documentation of     *)
(* HandleInviteAccepted (src/internal/service/acceptance.go) state for     *)
(* their callers.                                                          *)
(***************************************************************************)
EXTENDS Sequences

CONSTANTS UID, User, None

VARIABLES
    status,    \* [UID -> what the store holds]
    holder,    \* [UID -> the user whose acceptance was stored, or None]
    announced  \* [UID -> the users announced as having accepted, in order]

ledgerVars == <<status, holder, announced>>

Status == { "absent", "pending", "accepted", "withdrawn" }

Init ==
    /\ status = [u \in UID |-> "absent"]
    /\ holder = [u \in UID |-> None]
    /\ announced = [u \in UID |-> <<>>]

(* Create.                                                                 *)
Store(u) ==
    /\ status[u] = "absent"
    /\ status' = [status EXCEPT ![u] = "pending"]
    /\ UNCHANGED <<holder, announced>>

(* MarkAccepted: ErrAlreadyAccepted and ErrInviteNotFound otherwise.       *)
Accept(u, name) ==
    /\ status[u] = "pending"
    /\ status' = [status EXCEPT ![u] = "accepted"]
    /\ holder' = [holder EXCEPT ![u] = name]
    /\ UNCHANGED announced

(* Delete, and the rollback inside Create: an acceptance does not stop it. *)
Withdraw(u) ==
    /\ status[u] \in {"pending", "accepted"}
    /\ status' = [status EXCEPT ![u] = "withdrawn"]
    /\ UNCHANGED <<holder, announced>>

(* publishAccepted: possibly after the withdrawal of what was accepted.    *)
Announce(u) ==
    /\ holder[u] # None
    /\ announced[u] = <<>>
    /\ announced' = [announced EXCEPT ![u] = <<holder[u]>>]
    /\ UNCHANGED <<status, holder>>

Next ==
    \E u \in UID :
        \/ Store(u)
        \/ \E name \in User : Accept(u, name)
        \/ Withdraw(u)
        \/ Announce(u)

Spec == Init /\ [][Next]_ledgerVars
=============================================================================
