---------------------------- MODULE InviteTerms ---------------------------
(***************************************************************************)
(* The life of an invite, which LinkGenerator.Generate (generator.go)      *)
(* decides: shared by the send handler and by the request it starts from.  *)
(***************************************************************************)
EXTENDS Integers

CONSTANTS
    DefaultDays,  \* tokenTTL, in days
    MaxDays       \* maxExpirationDays

(* The life of an invite in days, from the expiration_days of its request: *)
(* absent, zero and negative values take the default, large ones are cut   *)
(* down.                                                                   *)
Lifetime(d) ==
    IF d <= 0 THEN DefaultDays
    ELSE IF d > MaxDays THEN MaxDays
    ELSE d
=============================================================================
