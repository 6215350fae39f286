--------------------------- MODULE MCInviteReads --------------------------
(* The values that the configurations give to the constants of             *)
(* InviteReads, and the symmetry they use.                                 *)
EXTENDS InviteReads, TLC

CONSTANTS r1, u1, u2, ann, Ann, amy

OneReplica == {r1}
OneInvite  == {u1}
TwoInvites == {u1, u2}
TwoEmails  == {ann, Ann}
TwoKeys    == [e \in {ann, Ann} |-> ann]
OneEmail   == {ann}
OneKey     == [e \in {ann} |-> ann]
NoUser     == {}
OneUser    == {amy}
OneDay     == {1}

InviteSymmetry == Permutations(TwoInvites)
=============================================================================
