----------------------------- MODULE MCProvider -----------------------------
(***************************************************************************)
(* Instances of Provider for model checking.                               *)
(***************************************************************************)
EXTENDS Provider

\* Every envelope expires at the end of the checked time, so that none is
\* forgotten when Window is longer than that.
MCMsgExpiry == [m \in MsgIds |-> MaxNow]

\* Message ids are interchangeable: of the states that differ only in which
\* ids were used, one is enough, the one with the smallest ids.
MsgIdsInOrder ==
    LET used == {e[2] : e \in DOMAIN entries} IN used = 1..Cardinality(used)

\* Envelopes that outlive the time for which the store remembers them.
MCLongMsgExpiry == [m \in MsgIds |-> MaxNow + Window]

\* The same reduction where messages are forgotten: an id that has caused an
\* invoice may come back, any other new message takes the smallest id that the
\* store does not hold.
NewMsgIdsInOrder ==
    LET used == {e[2] : e \in DOMAIN entries}
        causes == {invoices[i].cause : i \in DOMAIN invoices}
        new == {e[2] : e \in {x \in DOMAIN entries : entries[x] = now + Window}}
    IN  \A m \in new \ causes : 1..m \subseteq used \cup causes

\* Bound: no message comes in the last second.
LastSecondQuiet ==
    now = MaxNow => \A e \in DOMAIN entries : entries[e] < now + Window
=============================================================================
