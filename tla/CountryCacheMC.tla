-------------------------- MODULE CountryCacheMC --------------------------
(***************************************************************************)
(* CountryCache with two lookups, which can miss the same code together,   *)
(* two reloads, which can finish in the other order than they started, two *)
(* countries, so that one can be listed and the other not, and two         *)
(* versions of the data.  Nothing tells lookups, reloads or codes apart.   *)
(***************************************************************************)
EXTENDS CountryCache, TLC

CONSTANTS l1, l2, k1, k2, gb, xk

MCLookups == {l1, l2}
MCLoaders == {k1, k2}
MCCodes   == {gb, xk}

MCSymmetry ==
  Permutations(MCLookups) \cup Permutations(MCLoaders) \cup Permutations(MCCodes)
=============================================================================
