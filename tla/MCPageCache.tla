---------------- MODULE MCPageCache ----------------
(* Instances of PageCache for TLC. *)
EXTENDS PageCache, TLC

CONSTANTS j1, j2, h1, h2, b1, s1

JsonSymmetry == Permutations(Json)
Unlimited == {NoGrant}
TooLong == {NoGrant, 3}
================================
