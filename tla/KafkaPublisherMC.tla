------------------------- MODULE KafkaPublisherMC -------------------------
(***************************************************************************)
(* KafkaPublisher with two concurrent calls and up to two retries, so that *)
(* a record can be appended by an attempt whose answer is lost, appended   *)
(* again, or never appended at all.                                        *)
(***************************************************************************)
EXTENDS KafkaPublisher

CONSTANTS c1, c2

MCCalls == {c1, c2}
=============================================================================
