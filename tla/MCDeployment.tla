---------------------------- MODULE MCDeployment --------------------------
(* The values that the configurations give to the constants of Deployment. *)
EXTENDS Deployment

CONSTANTS r1, u1, ann, amy

OneReplica == {r1}
OneInvite  == {u1}
OneEmail   == {ann}
OneKey     == [e \in {ann} |-> ann]
OneUser    == {amy}
OneDay     == {1}
=============================================================================
