---------------------------- MODULE MCRequester -----------------------------
(***************************************************************************)
(* Instances of Requester for TLC.                                         *)
(***************************************************************************)
EXTENDS Requester, TLC

\* An invoice that may be paid, one that outlives its quote by more than the
\* clock skew, and one made for something else.
MCOffers ==
    {[extra |-> Skew, bound |-> TRUE], [extra |-> Skew + 1, bound |-> TRUE],
     [extra |-> 0, bound |-> FALSE]}

\* Neither the jobs nor the calls differ from one another.
Symmetry == Permutations(Jobs) \cup Permutations(Calls)

\* Bound: the calls in progress are about one job, and one job is paid for;
\* the other jobs fill the store.
OneJobPaid ==
    /\ Cardinality({calls[c].job : c \in {d \in Calls : calls[d] # Idle}}) <= 1
    /\ Cardinality({j \in Jobs : payments[j].status # "none"}) <= 1
=============================================================================
