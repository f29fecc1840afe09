------------------------------- MODULE MCWire -------------------------------
(***************************************************************************)
(* Wire with two 32-byte values, two models, and two deviations a message. *)
(***************************************************************************)
EXTENDS Wire

CONSTANTS h1, h2

MCHashes == {h1, h2}
=============================================================================
