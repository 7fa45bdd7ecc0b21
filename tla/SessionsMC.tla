----------------------------- MODULE SessionsMC -----------------------------
(***************************************************************************)
(* Sessions with two requests to sign in and out, whose responses can      *)
(* arrive in either order; visits one after another, as visits do not      *)
(* affect each other; two keys, so that one can replace the other; and     *)
(* time for a token to expire while its cookie lives and during a visit.   *)
(***************************************************************************)
EXTENDS Sessions, TLC

CONSTANTS s1, s2, v1, k1, k2

MCSignings == {s1, s2}
MCVisits   == {v1}
MCKeys     == {k1, k2}
MCLives    == {0, 1}
MCSymmetry == Permutations(MCSignings) \cup Permutations(MCKeys)
=============================================================================
