--------------------------- MODULE HttpExchangeMC ---------------------------
(***************************************************************************)
(* HttpExchange with two calls, so that one can reuse the connection the   *)
(* other left, and bodies of no value, one good or bad value, two values,  *)
(* and a value followed by more than the limit.                            *)
(***************************************************************************)
EXTENDS HttpExchange

CONSTANTS c1, c2

MCCalls  == {c1, c2}
MCBodies == {<<>>, <<"good">>, <<"bad">>, <<"good", "good">>,
             <<"good", "tooLarge">>}
=============================================================================
