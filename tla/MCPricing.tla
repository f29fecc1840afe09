----------------------------- MODULE MCPricing -----------------------------
(***************************************************************************)
(* An instance of Pricing: 10-bit words and 5-bit half words stand for     *)
(* those of 64 and 32 bits, and the prices reach the largest word.         *)
(***************************************************************************)
EXTENDS Pricing

\* threshold, perJob and max are half words, as they are in the code.
MCSurges == [threshold : {1}, perJob : {0, 3, 31}, max : {0, 3, 31}]

MCConfigs ==
    [policyMax : {3}, modelMax : {Absent, 0, 6}, surge : MCSurges,
     price : {[input |-> 1, output |-> 2], [input |-> 7, output |-> 400]}]

MCRequests ==
    [kind : {"chat"}, len : {1, 5}, cap : {Absent, 2, 6}, known : {TRUE}]
    \cup [kind : {"chat"}, len : {0, 4}, cap : {0}, known : BOOLEAN]
    \cup [kind : {"responses"}, len : {4}, cap : {9}, known : BOOLEAN]
=============================================================================
