----------------------------- MODULE MCTransfer -----------------------------
(***************************************************************************)
(* An instance of Transfer for model checking: the limits lie around the   *)
(* lengths, and max_payload around the sizes of the messages.              *)
(***************************************************************************)
EXTENDS Transfer

MCSize == [begin |-> 5, end |-> 4, result |-> 6, failed |-> 5]

MCManifests == [payload : {4, 5, 6, 9}, stream : {3, 6}, job : {5, 8}]
=============================================================================
