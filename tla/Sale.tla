-------------------------------- MODULE Sale --------------------------------
(***************************************************************************)
(* What LCP promises about a job, seen from either side: pay first, then   *)
(* compute.  A sale is offered once, at terms that never change; the money *)
(* for it leaves while the offer stands; and nobody works on a sale, or    *)
(* waits for its result, that is not paid for, or on anything else than    *)
(* what was sold.  Provider and Requester each implement this              *)
(* specification: a sale is an invoice of the one and a job of the other.  *)
(***************************************************************************)
EXTENDS Naturals

VARIABLES
    time,
    deals,      \* sale -> what is sold (item) and until when (due)
    committed,  \* sales whose money is on its way
    paid,       \* sales whose money has arrived
    busy        \* <<sale, item>>: what is being worked on

vars == <<time, deals, committed, paid, busy>>

Init ==
    /\ time \in Nat
    /\ DOMAIN deals = {}
    /\ committed = {}
    /\ paid = {}
    /\ busy = {}

\* A sale is offered, at any terms; the other offers stay what they are.
Offer(s) ==
    /\ s \notin DOMAIN deals
    /\ DOMAIN deals' = DOMAIN deals \cup {s}
    /\ \A t \in DOMAIN deals : deals'[t] = deals[t]
    /\ UNCHANGED <<time, committed, paid, busy>>

Stands(s) == s \in DOMAIN deals \ (committed \cup paid) /\ time <= deals[s].due

Commit(s) ==
    /\ Stands(s)
    /\ committed' = committed \cup {s}
    /\ UNCHANGED <<time, deals, paid, busy>>

Revoke(s) ==
    /\ s \in committed
    /\ committed' = committed \ {s}
    /\ UNCHANGED <<time, deals, paid, busy>>

\* Money that left in time may arrive later.
Pay(s) ==
    /\ Stands(s) \/ s \in committed
    /\ paid' = paid \cup {s}
    /\ committed' = committed \ {s}
    /\ UNCHANGED <<time, deals, busy>>

Begin(s) ==
    /\ s \in paid
    /\ busy' = busy \cup {<<s, deals[s].item>>}
    /\ UNCHANGED <<time, deals, committed, paid>>

End(w) ==
    /\ busy' = busy \ {w}
    /\ UNCHANGED <<time, deals, committed, paid>>

Pass ==
    /\ time' \in Nat /\ time' > time
    /\ UNCHANGED <<deals, committed, paid, busy>>

Next ==
    \/ \E s \in DOMAIN deals' : Offer(s)
    \/ \E s \in DOMAIN deals : Commit(s) \/ Revoke(s) \/ Pay(s) \/ Begin(s)
    \/ \E w \in busy : End(w)
    \/ Pass

Spec == Init /\ [][Next]_vars
=============================================================================
