-------------------------- MODULE MCPeerMessaging --------------------------
(* PeerMessaging for TLC. *)
EXTENDS PeerMessaging

\* The nodes that can fail have just been started, the other one has been
\* waiting for them and may resend its manifest.  The state is one that Init
\* leads to.
LateInit ==
    /\ resending \in SUBSET (Nodes \ Failing)
    /\ link = FALSE
    /\ dir = [n \in Nodes |-> Unknown]
    /\ thread = [n \in Nodes |-> AllIdle]
    /\ sub = [n \in Nodes |-> [s \in Streams |-> IF n \in Failing THEN "none" ELSE "live"]]
    /\ events = [n \in Nodes |-> <<>>]
    /\ msgs = [n \in Nodes |-> <<>>]
    /\ faults = 0

LateSpec == LateInit /\ [][Next]_vars /\ Fairness
=============================================================================
