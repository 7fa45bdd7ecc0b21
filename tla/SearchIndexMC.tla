--------------------------- MODULE SearchIndexMC ---------------------------
(***************************************************************************)
(* SearchIndex with two calls that can race to create an index, one after  *)
(* midnight if the other began before it, two records, and one search,     *)
(* which can find more than it returns.                                    *)
(***************************************************************************)
EXTENDS SearchIndex

CONSTANTS i1, i2, s1, a, b

MCIndexers  == {i1, i2}
MCSearchers == {s1}
MCRecords   == {a, b}

Parameter(kind, keeps) == [kind |-> kind, keeps |-> keeps]

\* no condition, conditions only one record meets, a value of a wrong type
MCQueries ==
  { {},
    {Parameter("[]string", {a})},
    {Parameter("map", {a, b}), Parameter("float64", {b})},
    {Parameter("string", {a, b}), Parameter("int", {a, b})} }
=============================================================================
