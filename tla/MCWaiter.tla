------------------------------ MODULE MCWaiter ------------------------------
(***************************************************************************)
(* Instances of Waiter for TLC.                                            *)
(***************************************************************************)
EXTENDS Waiter

CONSTANTS s1, s2

\* One result per way its comparison with the stream can end.
MCResults ==
    {Failed, OK(s1, Bytes(s1, 1), TRUE), OK(s1, <<>>, FALSE)}
=============================================================================
