------------------------- MODULE MCInviteService --------------------------
(* The values that the configurations give to the constants of            *)
(* InviteService, and the symmetries they use.                             *)
EXTENDS InviteService, TLC

CONSTANTS r1, r2, u1, u2, ann, Ann, amy, bob

OneReplica  == {r1}
TwoReplicas == {r1, r2}
OneInvite   == {u1}
TwoInvites  == {u1, u2}
OneEmail    == {ann}
OneKey      == [e \in {ann} |-> ann]
TwoEmails   == {ann, Ann}
TwoKeys     == [e \in {ann, Ann} |-> ann]
OneUser     == {amy}
TwoUsers    == {amy, bob}

(* expiration_days of 0 (the default life), of 1, and above the maximum.   *)
OneDay      == {1}
SomeDays    == {0, 3}

ReplicaSymmetry == Permutations(TwoReplicas) \cup Permutations(TwoUsers)
InviteSymmetry  == Permutations(TwoInvites) \cup Permutations(TwoUsers)
=============================================================================
