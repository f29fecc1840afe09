----------------------------- MODULE Requester ------------------------------
(***************************************************************************)
(* The requester's side of a job: the gRPC calls RequestQuote,             *)
(* AcceptAndExecute (with its streaming form) and CancelJob, and the store *)
(* of quoted jobs they share (requesterjobstore.Store).  Calls run         *)
(* concurrently; a step is one method of the store, which holds its mutex, *)
(* or one call to LND.  What the waiter hands to a call is the subject of  *)
(* Waiter; here it is any outcome.                                         *)
(***************************************************************************)
EXTENDS Naturals, FiniteSets, Maps

CONSTANTS
    Jobs,        \* job ids; RequestQuote draws a new one each time
    Calls,       \* gRPC calls that can be in progress together
    MaxEntries,  \* capacity of the store
    QuoteTTL,    \* how long the provider's quotes last
    Offers,      \* the invoices that come with them
    Skew,        \* LCP_ALLOWED_CLOCK_SKEW_SECONDS
    MaxTime      \* bound: the clock stops here

VARIABLES
    now,
    store,     \* job id -> stored job
    quotes,    \* job id -> the terms RequestQuote accepted
    calls,     \* call -> where it is
    payments   \* job id -> what LND knows of the payment of its invoice

vars == <<now, store, quotes, calls, payments>>

ASSUME RequesterAssumption ==
    /\ MaxEntries \in Nat \ {0}
    /\ {QuoteTTL, Skew, MaxTime} \subseteq Nat
    /\ Offers \subseteq [extra : Nat, bound : BOOLEAN]

\* Terms and the invoice in them, which expires extra seconds after the
\* quote.  bound: description hash, payee and amount of the invoice are those
\* of the terms.
Terms == [expiry : 0..(MaxTime + QuoteTTL), invoice : Offers]

TerminalStates == {"done", "cancelled", "failed", "expired"}

States == TerminalStates \cup {"quoted", "paying", "awaiting_result"}

Job == [state : States, terms : Terms, createdAt : 0..MaxTime]

Idle == [at |-> "idle"]

Init ==
    /\ now = 0
    /\ store = EmptyMap
    /\ quotes = EmptyMap
    /\ calls = [c \in Calls |-> Idle]
    /\ payments = [j \in Jobs |-> [status |-> "none", sentAt |-> 0]]
-----------------------------------------------------------------------------
gcLocked ==
    [j \in DOMAIN store |->
        IF store[j].state = "quoted" /\ now >= store[j].terms.expiry
        THEN [store[j] EXCEPT !.state = "expired"] ELSE store[j]]

\* Fault: expired jobs are not preferred.
EvictionVictims_AnyState(m) ==
    {j \in DOMAIN m :
        \A i \in DOMAIN m : m[j].createdAt <= m[i].createdAt}

\* evictOldestLocked: the oldest expired job, or the oldest of all when none
\* is expired.  Equal creation times leave the choice to map order.
EvictionVictims(m) ==
    LET expired == {j \in DOMAIN m : m[j].state = "expired"}
        pool == IF expired # {} THEN expired ELSE DOMAIN m
    IN  {j \in pool : \A i \in pool : m[j].createdAt <= m[i].createdAt}

\* At most one job has been added, so one eviction is enough.
evictIfOverCapacityLocked(m) ==
    \/ /\ Cardinality(DOMAIN m) <= MaxEntries
       /\ store' = m
    \/ /\ Cardinality(DOMAIN m) > MaxEntries
       /\ \E j \in EvictionVictims(m) : store' = Delete(m, j)

PutQuote(j, terms) ==
    evictIfOverCapacityLocked(
        Put(gcLocked, j,
            [state |-> "quoted", terms |-> terms, createdAt |-> now]))

\* markJobState: nothing happens to a job that is not stored, and the state
\* it replaces is not looked at.
MarkState(j, state) ==
    store' = IF j \in DOMAIN store
             THEN [store EXCEPT ![j].state = state] ELSE store

At(c, place) == calls' = [calls EXCEPT ![c].at = place]

\* A quote response whose terms_hash is right has come.  Its terms can carry
\* any invoice; every other end of RequestQuote changes nothing.
RequestQuote(j, invoice) ==
    /\ j \notin DOMAIN quotes
    /\ LET terms == [expiry |-> now + QuoteTTL, invoice |-> invoice]
       IN  /\ quotes' = Put(quotes, j, terms)
           /\ PutQuote(j, terms)
    /\ UNCHANGED <<now, calls, payments>>

\* The first step of AcceptAndExecute.  Only a job still in state quoted is
\* held against its expiry.
GetTerms(c, j) ==
    /\ calls[c] = Idle
    /\ j \in DOMAIN store
    /\ \/ /\ store[j].state = "quoted"
          /\ now >= store[j].terms.expiry
          /\ MarkState(j, "expired")
          /\ UNCHANGED calls
       \/ /\ store[j].state # "expired"
          /\ store[j].state = "quoted" => now < store[j].terms.expiry
          /\ calls' = [calls EXCEPT ![c] =
                 [at |-> "accepted", job |-> j, terms |-> store[j].terms]]
          /\ UNCHANGED store
    /\ UNCHANGED <<now, quotes, payments>>

MarkPaying(c) ==
    /\ calls[c].at = "accepted"
    /\ MarkState(calls[c].job, "paying")
    /\ At(c, "verify")
    /\ UNCHANGED <<now, quotes, payments>>

InvoiceExpiry(terms) == terms.expiry + terms.invoice.extra

\* Fault: the invoice may outlive the quote.
verifyInvoiceBinding_NoExpiry(terms) == terms.invoice.bound

verifyInvoiceBinding(terms) ==
    terms.invoice.bound /\ InvoiceExpiry(terms) <= terms.expiry + Skew

Verify(c) ==
    /\ calls[c].at = "verify"
    /\ At(c, IF verifyInvoiceBinding(calls[c].terms) THEN "pay" ELSE "failing")
    /\ UNCHANGED <<now, store, quotes, payments>>

\* LND pays an invoice that has not expired and that it is not paying or has
\* not paid already.
SendPayment(c) ==
    LET j == calls[c].job
        accepted == /\ payments[j].status \in {"none", "failed"}
                    /\ now <= InvoiceExpiry(calls[c].terms)
    IN  /\ calls[c].at = "pay"
        /\ payments' = IF ~accepted THEN payments ELSE
               [payments EXCEPT ![j] = [status |-> "inflight", sentAt |-> now]]
        /\ At(c, IF accepted THEN "paying" ELSE "failing")
        /\ UNCHANGED <<now, store, quotes>>

\* The payment ends, whether or not a call still waits for it.
FinishPayment(j, status) ==
    /\ payments[j].status = "inflight"
    /\ payments' = [payments EXCEPT ![j].status = status]
    /\ UNCHANGED <<now, store, quotes, calls>>

\* Fault: the stream's end counts as success.
PayInvoice_AnyEnd(c) ==
    /\ calls[c].at = "paying"
    /\ At(c, "paid")
    /\ UNCHANGED <<now, store, quotes, payments>>

\* PayInvoice returns once the payment has ended.
PayInvoice(c) ==
    /\ calls[c].at = "paying"
    /\ payments[calls[c].job].status # "inflight"
    /\ At(c, IF payments[calls[c].job].status = "settled"
             THEN "paid" ELSE "failing")
    /\ UNCHANGED <<now, store, quotes, payments>>

MarkAwaitingResult(c) ==
    /\ calls[c].at = "paid"
    /\ MarkState(calls[c].job, "awaiting_result")
    /\ At(c, "wait")
    /\ UNCHANGED <<now, quotes, payments>>

\* WaitResult returned an lcp_result, of whatever status.
WaitResult(c) ==
    /\ calls[c].at = "wait"
    /\ At(c, "completing")
    /\ UNCHANGED <<now, store, quotes, payments>>

\* A call to LND or the waiter fails, the subscription is refused, or the
\* client is gone; a payment already sent goes on without the call.
CallFails(c) ==
    /\ calls[c].at \in {"verify", "pay", "paying", "wait"}
    /\ At(c, "failing")
    /\ UNCHANGED <<now, store, quotes, payments>>

\* Fault: a call that fails leaves the state as it is.
Return_NoDefer(c) ==
    /\ calls[c].at \in {"completing", "failing"}
    /\ IF calls[c].at = "completing" THEN MarkState(calls[c].job, "done")
       ELSE UNCHANGED store
    /\ calls' = [calls EXCEPT ![c] = Idle]
    /\ UNCHANGED <<now, quotes, payments>>

\* The end of AcceptAndExecute, with its deferred markJobState.
Return(c) ==
    /\ calls[c].at \in {"completing", "failing"}
    /\ MarkState(calls[c].job,
                 IF calls[c].at = "completing" THEN "done" ELSE "failed")
    /\ calls' = [calls EXCEPT ![c] = Idle]
    /\ UNCHANGED <<now, quotes, payments>>

\* CancelJob has sent lcp_cancel; the job need not be stored.
SendCancel(c, j) ==
    /\ calls[c] = Idle
    /\ j \in DOMAIN quotes
    /\ calls' = [calls EXCEPT ![c] = [at |-> "cancel", job |-> j]]
    /\ UNCHANGED <<now, store, quotes, payments>>

MarkCancelled(c) ==
    /\ calls[c].at = "cancel"
    /\ MarkState(calls[c].job, "cancelled")
    /\ calls' = [calls EXCEPT ![c] = Idle]
    /\ UNCHANGED <<now, quotes, payments>>

Tick ==
    /\ now < MaxTime
    /\ now' = now + 1
    /\ UNCHANGED <<store, quotes, calls, payments>>
-----------------------------------------------------------------------------
CallStep(c) ==
    \/ \E j \in Jobs : GetTerms(c, j) \/ SendCancel(c, j)
    \/ MarkPaying(c)
    \/ Verify(c)
    \/ SendPayment(c)
    \/ PayInvoice(c)
    \/ MarkAwaitingResult(c)
    \/ WaitResult(c)
    \/ CallFails(c)
    \/ Return(c)
    \/ MarkCancelled(c)

Next ==
    \/ \E c \in Calls : CallStep(c)
    \/ \E j \in Jobs, invoice \in Offers : RequestQuote(j, invoice)
    \/ \E j \in Jobs, status \in {"settled", "failed"} :
           FinishPayment(j, status)
    \/ Tick

Spec == Init /\ [][Next]_vars
-----------------------------------------------------------------------------
Places == {"accepted", "verify", "pay", "paying", "paid", "wait",
           "completing", "failing"}

CallStates ==
    {Idle} \cup [at : {"cancel"}, job : Jobs]
           \cup [at : Places, job : Jobs, terms : Terms]

\* The state has its type.
TypeOK ==
    /\ now \in 0..MaxTime
    /\ IsMap(store, Jobs, Job)
    /\ IsMap(quotes, Jobs, Terms)
    /\ calls \in [Calls -> CallStates]
    /\ payments \in [Jobs ->
           [status : {"none", "inflight", "settled", "failed"},
            sentAt : 0..MaxTime]]

\* The store keeps to its capacity whatever is quoted (PutQuote).
StoreBounded == Cardinality(DOMAIN store) <= MaxEntries

\* Money leaves only for the invoice that was quoted and not later than the
\* quote allows, though the expiry of the quote is only looked at by the
\* first call of a job and time goes on between that check and the payment
\* (GetTerms, verifyInvoiceBinding, PayInvoice).
PaymentsHonourTerms ==
    \A j \in Jobs : payments[j].status # "none" =>
        /\ quotes[j].invoice.bound
        /\ payments[j].sentAt <= quotes[j].expiry + Skew

\* A job is only recorded as awaiting its result or done when its invoice is
\* settled, also when several calls work on it and some of them fail
\* (AcceptAndExecute).
DoneMeansPaid ==
    \A j \in DOMAIN store :
        store[j].state \in {"awaiting_result", "done"}
            => payments[j].status = "settled"

Working(c, j) == calls[c] # Idle /\ calls[c].at # "cancel" /\ calls[c].job = j

\* No job is left as paying or awaiting its result by a call that has
\* returned, whatever order the calls of a job mark its state in (the
\* deferred markJobState).
NoOrphanedJob ==
    \A j \in DOMAIN store :
        store[j].state \in {"paying", "awaiting_result"}
            => \E c \in Calls : Working(c, j)

\* Every quote as a sale.
Deals == [j \in DOMAIN quotes |-> [item |-> quotes[j], due |-> quotes[j].expiry + Skew]]

Payments(status) == {j \in Jobs : payments[j].status = status}

\* The call has paid, or found the invoice paid, and not returned.
Awaiting(c) == calls[c].at \in {"paid", "wait", "completing"}

Work(c) == <<calls[c].job, calls[c].terms>>

Busy == {Work(c) : c \in {x \in Calls : Awaiting(x)}}

Promise == INSTANCE Sale WITH
    time <- now, deals <- Deals, committed <- Payments("inflight"),
    paid <- Payments("settled"), busy <- Busy

\* The requester implements the sale: a quote is never replaced, the money for
\* it leaves while it stands, a payment that failed may be tried again and one
\* that settled is final, and a call waits for a result only of what is paid,
\* by that call or by another (AcceptAndExecute).
ImplementsSale == Promise!Spec

Spent(m, j) ==
    \/ m[j].state = "expired"
    \/ m[j].state = "quoted" /\ now >= m[j].terms.expiry

\* A job that is in use gives way to a new one only when every stored job is:
\* quotes that have expired unnoticed go first (gcLocked, evictOldestLocked).
ExpiredGoFirst ==
    [][\A j \in DOMAIN store : (j \notin DOMAIN store' /\ ~Spent(store, j))
          => \A i \in DOMAIN store : ~Spent(store, i)]_vars
=============================================================================
