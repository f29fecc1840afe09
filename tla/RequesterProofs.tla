-------------------------- MODULE RequesterProofs ---------------------------
(***************************************************************************)
(* Safety of the requester for every number of jobs and calls, every       *)
(* capacity of the store, every time to live, clock skew and set of        *)
(* invoices the provider may quote.                                        *)
(***************************************************************************)
EXTENDS Requester, FiniteSetTheorems, TLAPS

\* Stored terms are the ones that were quoted: no job id is quoted twice.
StoreInv ==
    \A j \in DOMAIN store : j \in DOMAIN quotes /\ store[j].terms = quotes[j]

\* A call holds a copy of the terms, which outlives the stored job.  Past its
\* checks it knows what they established, and a settled payment stays so.
CallInv ==
    \A c \in Calls :
        /\ calls[c].at \in Places =>
               /\ calls[c].job \in DOMAIN quotes
               /\ calls[c].terms = quotes[calls[c].job]
        /\ calls[c].at = "pay" => verifyInvoiceBinding(calls[c].terms)
        /\ calls[c].at \in {"paid", "wait", "completing"} =>
               payments[calls[c].job].status = "settled"

\* Only what was quoted is paid.
QuotedOnly ==
    \A j \in Jobs : payments[j].status # "none" => j \in DOMAIN quotes

Bounded == IsFiniteSet(DOMAIN store) /\ StoreBounded

\* The inductive invariant.
IInv == /\ TypeOK
        /\ StoreInv
        /\ CallInv
        /\ QuotedOnly
        /\ PaymentsHonourTerms
        /\ DoneMeansPaid
        /\ NoOrphanedJob

WorkingCall == [at : Places, job : Jobs, terms : Terms]

\* A call that is past its first step holds a job and its terms.
LEMMA CallType ==
    ASSUME TypeOK, NEW c \in Calls, calls[c].at \in Places
    PROVE  calls[c] \in WorkingCall
  BY DEF TypeOK, CallStates, Idle, Places, WorkingCall

\* At changes nothing but where the call is.
LEMMA AtResult ==
    ASSUME TypeOK, NEW c \in Calls, calls[c].at \in Places,
           NEW p \in Places, At(c, p)
    PROVE  /\ calls' \in [Calls -> CallStates]
           /\ calls'[c] = [at |-> p, job |-> calls[c].job, terms |-> calls[c].terms]
           /\ \A d \in Calls : d # c => calls'[d] = calls[d]
<1>1. calls[c] \in WorkingCall /\ calls \in [Calls -> CallStates]
  BY CallType DEF TypeOK
<1>2. calls'[c] = [calls[c] EXCEPT !.at = p] /\ DOMAIN calls' = Calls
      /\ \A d \in Calls : d # c => calls'[d] = calls[d]
  BY <1>1 DEF At
<1>3. [calls[c] EXCEPT !.at = p]
        = [at |-> p, job |-> calls[c].job, terms |-> calls[c].terms]
  BY <1>1 DEF WorkingCall
<1>4. calls'[c] \in CallStates
  BY <1>1, <1>2, <1>3 DEF WorkingCall, CallStates
<1>5. calls' \in [Calls -> CallStates]
  <2>1. calls' = [d \in Calls |-> calls'[d]]
    BY <1>1, <1>2 DEF At
  <2> QED BY <1>1, <1>2, <1>4, <2>1
<1> QED BY <1>2, <1>3, <1>5

\* MarkState sets the state of a stored job and nothing else.
LEMMA MarkStateResult ==
    ASSUME TypeOK, NEW j \in Jobs, NEW st \in States, MarkState(j, st)
    PROVE  /\ IsMap(store', Jobs, Job)
           /\ DOMAIN store' = DOMAIN store
           /\ \A x \in DOMAIN store : store'[x].terms = store[x].terms
           /\ \A x \in DOMAIN store : x # j => store'[x] = store[x]
           /\ j \in DOMAIN store => store'[j].state = st
<1>1. IsMap(store, Jobs, Job)
  BY DEF TypeOK
<1>2. CASE j \notin DOMAIN store
  BY <1>1, <1>2 DEF MarkState
<1>3. CASE j \in DOMAIN store
  <2>1. store' = [store EXCEPT ![j].state = st] /\ store[j] \in Job
    BY <1>1, <1>3 DEF MarkState, IsMap
  <2>2. /\ DOMAIN store' = DOMAIN store
        /\ store'[j] = [store[j] EXCEPT !.state = st]
        /\ \A x \in DOMAIN store : x # j => store'[x] = store[x]
    BY <1>1, <1>3, <2>1 DEF IsMap
  <2>3. /\ store'[j] \in Job
        /\ store'[j].state = st
        /\ store'[j].terms = store[j].terms
    BY <2>1, <2>2 DEF Job
  <2>4. IsMap(store', Jobs, Job)
    BY <1>1, <1>3, <2>1, <2>2, <2>3 DEF IsMap
  <2> QED BY <2>2, <2>3, <2>4
<1> QED BY <1>2, <1>3

\* A quote is stored unless the eviction takes it; the jobs that stay keep
\* their terms, and their state unless they were quoted.
LEMMA PutQuoteResult ==
    ASSUME TypeOK, NEW j \in Jobs, NEW t \in Terms, PutQuote(j, t)
    PROVE  /\ IsMap(store', Jobs, Job)
           /\ DOMAIN store' \subseteq DOMAIN store \cup {j}
           /\ \A x \in DOMAIN store' :
                 /\ x = j => store'[x].state = "quoted" /\ store'[x].terms = t
                 /\ x # j => /\ store'[x].terms = store[x].terms
                             /\ store'[x].state \in {store[x].state, "expired"}
<1> DEFINE job == [state |-> "quoted", terms |-> t, createdAt |-> now]
           old == gcLocked
           full == Put(old, j, job)
<1>1. /\ IsMap(old, Jobs, Job)
      /\ DOMAIN old = DOMAIN store
      /\ \A x \in DOMAIN store : /\ old[x].terms = store[x].terms
                                 /\ old[x].state \in {store[x].state, "expired"}
  <2>1. DOMAIN old = DOMAIN store
    BY DEF gcLocked
  <2>2. ASSUME NEW x \in DOMAIN store
        PROVE  /\ old[x] \in Job
               /\ old[x].terms = store[x].terms
               /\ old[x].state \in {store[x].state, "expired"}
    <3>1. store[x] \in Job
      BY DEF TypeOK, IsMap
    <3>2. old[x] = store[x] \/ old[x] = [store[x] EXCEPT !.state = "expired"]
      BY DEF gcLocked
    <3> HIDE DEF old
    <3> QED BY <3>1, <3>2 DEF Job, States, TerminalStates
  <2>3. old = [x \in DOMAIN store |-> old[x]]
    BY DEF gcLocked
  <2> HIDE DEF old
  <2>4. DOMAIN store \subseteq Jobs
    BY DEF TypeOK, IsMap
  <2> QED BY <2>1, <2>2, <2>3, <2>4 DEF IsMap
<1>2. job \in Job
  BY DEF TypeOK, Job, States
<1>3. store' = full \/ \E y : store' = Delete(full, y)
  BY DEF PutQuote, evictIfOverCapacityLocked
<1> HIDE DEF old
<1>4. /\ IsMap(full, Jobs, Job)
      /\ DOMAIN full = DOMAIN store \cup {j}
      /\ full[j] = job
      /\ \A x \in DOMAIN full : x # j => full[x] = old[x]
  BY <1>1, <1>2 DEF Put, IsMap
<1> HIDE DEF full
<1>5. /\ IsMap(store', Jobs, Job)
      /\ DOMAIN store' \subseteq DOMAIN full
      /\ \A x \in DOMAIN store' : store'[x] = full[x]
  BY <1>3, <1>4 DEF Delete, Restrict, IsMap
<1> QED
  BY <1>1, <1>4, <1>5

\* The store keeps to its capacity (evictIfOverCapacityLocked).
LEMMA PutQuoteBounded ==
    ASSUME Bounded, NEW j, NEW t, PutQuote(j, t)
    PROVE  Bounded'
<1> DEFINE old == gcLocked
           full == Put(old, j, [state |-> "quoted", terms |-> t, createdAt |-> now])
<1>1. DOMAIN full = DOMAIN store \cup {j}
  BY DEF gcLocked, Put
<1>2. \/ Cardinality(DOMAIN full) <= MaxEntries /\ store' = full
      \/ \E y \in DOMAIN full : store' = Delete(full, y)
  BY DEF PutQuote, evictIfOverCapacityLocked, EvictionVictims
<1> HIDE DEF full, old
<1>3. /\ IsFiniteSet(DOMAIN full)
      /\ Cardinality(DOMAIN full) \in Nat
      /\ Cardinality(DOMAIN full) <= MaxEntries + 1
  <2>1. /\ IsFiniteSet(DOMAIN store \cup {j})
        /\ Cardinality(DOMAIN store \cup {j}) =
             IF j \in DOMAIN store THEN Cardinality(DOMAIN store)
                                   ELSE Cardinality(DOMAIN store) + 1
    BY FS_AddElement DEF Bounded
  <2>2. Cardinality(DOMAIN store) \in Nat
    BY FS_CardinalityType DEF Bounded
  <2> QED BY <1>1, <2>1, <2>2, RequesterAssumption DEF Bounded, StoreBounded
<1>4. ASSUME NEW y \in DOMAIN full, store' = Delete(full, y)
      PROVE  Bounded'
  <2>1. DOMAIN store' = DOMAIN full \ {y}
    BY <1>4 DEF Delete, Restrict
  <2>2. /\ IsFiniteSet(DOMAIN full \ {y})
        /\ Cardinality(DOMAIN full \ {y}) = Cardinality(DOMAIN full) - 1
    BY <1>3, FS_RemoveElement
  <2> QED BY <1>3, <2>1, <2>2, RequesterAssumption DEF Bounded, StoreBounded
<1> QED BY <1>2, <1>3, <1>4 DEF Bounded, StoreBounded

\* A call moves on without a payment: nothing it knows is lost, and its job
\* still has a call that works on it.
LEMMA MoveCalls ==
    ASSUME IInv, NEW c \in Calls, calls[c].at \in Places, NEW p \in Places,
           At(c, p), UNCHANGED <<quotes, payments>>,
           p = "pay" => verifyInvoiceBinding(calls[c].terms),
           p \in {"paid", "wait", "completing"} =>
               payments[calls[c].job].status = "settled",
           NEW k, k = calls[c].job
    PROVE  /\ calls' \in [Calls -> CallStates]
           /\ CallInv'
           /\ \A d \in Calls : \A j : Working(d, j) => Working(d, j)'
           /\ Working(c, k)'
<1>1. /\ calls' \in [Calls -> CallStates]
      /\ calls'[c] = [at |-> p, job |-> calls[c].job, terms |-> calls[c].terms]
      /\ \A d \in Calls : d # c => calls'[d] = calls[d]
  BY AtResult DEF IInv
<1>2. CallInv'
  <2> SUFFICES ASSUME NEW d \in Calls
               PROVE  /\ calls'[d].at \in Places =>
                             /\ calls'[d].job \in DOMAIN quotes
                             /\ calls'[d].terms = quotes[calls'[d].job]
                      /\ calls'[d].at = "pay" => verifyInvoiceBinding(calls'[d].terms)
                      /\ calls'[d].at \in {"paid", "wait", "completing"} =>
                             payments[calls'[d].job].status = "settled"
    BY DEF CallInv, verifyInvoiceBinding, InvoiceExpiry
  <2>1. CASE d = c
    BY <1>1, <2>1 DEF IInv, CallInv
  <2>2. CASE d # c
    BY <1>1, <2>2 DEF IInv, CallInv
  <2> QED BY <2>1, <2>2
<1>3. p # "idle" /\ p # "cancel"
  BY DEF Places
<1>4. calls'[c] # Idle /\ calls'[c].at # "cancel" /\ calls'[c].job = calls[c].job
  BY <1>1, <1>3 DEF Idle
<1>5. ASSUME NEW d \in Calls, NEW j, Working(d, j)
      PROVE  Working(d, j)'
  <2>1. CASE d = c
    BY <1>4, <1>5, <2>1 DEF Working
  <2>2. CASE d # c
    BY <1>1, <1>5, <2>2 DEF Working
  <2> QED BY <2>1, <2>2
<1> QED
  BY <1>1, <1>2, <1>4, <1>5 DEF Working

\* The steps of a call that touch nothing else (Verify, PayInvoice,
\* WaitResult, CallFails).
LEMMA MoveStep ==
    ASSUME IInv, NEW c \in Calls, calls[c].at \in Places, NEW p \in Places,
           At(c, p), UNCHANGED <<now, store, quotes, payments>>,
           p = "pay" => verifyInvoiceBinding(calls[c].terms),
           p \in {"paid", "wait", "completing"} =>
               payments[calls[c].job].status = "settled"
    PROVE  IInv'
<1>1. /\ calls' \in [Calls -> CallStates]
      /\ CallInv'
      /\ \A d \in Calls : \A j : Working(d, j) => Working(d, j)'
  BY MoveCalls
<1>2. TypeOK'
  BY <1>1 DEF IInv, TypeOK
<1>3. StoreInv' /\ QuotedOnly' /\ PaymentsHonourTerms' /\ DoneMeansPaid'
  BY DEF IInv, StoreInv, QuotedOnly, PaymentsHonourTerms, DoneMeansPaid
<1>4. NoOrphanedJob'
  BY <1>1 DEF IInv, NoOrphanedJob
<1> QED BY <1>1, <1>2, <1>3, <1>4 DEF IInv

\* The steps of a call that mark its job and move on (MarkPaying,
\* MarkAwaitingResult).
LEMMA MarkStep ==
    ASSUME IInv, NEW c \in Calls, calls[c].at \in Places, NEW p \in Places,
           At(c, p), NEW st \in {"paying", "awaiting_result"},
           MarkState(calls[c].job, st), UNCHANGED <<now, quotes, payments>>,
           p # "pay",
           p \in {"paid", "wait", "completing"} =>
               payments[calls[c].job].status = "settled",
           st = "awaiting_result" => payments[calls[c].job].status = "settled"
    PROVE  IInv'
<1>0. PICK k : k = calls[c].job
  OBVIOUS
<1>1. /\ calls' \in [Calls -> CallStates]
      /\ CallInv'
      /\ \A d \in Calls : \A j : Working(d, j) => Working(d, j)'
      /\ Working(c, k)'
  BY <1>0, MoveCalls
<1>2. k \in Jobs
  BY <1>0, CallType DEF IInv, WorkingCall
<1>3. /\ IsMap(store', Jobs, Job)
      /\ DOMAIN store' = DOMAIN store
      /\ \A x \in DOMAIN store : store'[x].terms = store[x].terms
      /\ \A x \in DOMAIN store : x # k => store'[x] = store[x]
      /\ k \in DOMAIN store => store'[k].state = st
  <2>1. st \in States
    BY DEF States
  <2> QED BY <1>0, <1>2, <2>1, MarkStateResult DEF IInv
<1>4. TypeOK'
  BY <1>1, <1>3 DEF IInv, TypeOK
<1>5. StoreInv' /\ QuotedOnly' /\ PaymentsHonourTerms'
  BY <1>3 DEF IInv, StoreInv, QuotedOnly, PaymentsHonourTerms
<1>6. DoneMeansPaid'
  BY <1>0, <1>3 DEF IInv, DoneMeansPaid
<1>7. NoOrphanedJob'
  BY <1>1, <1>3 DEF IInv, NoOrphanedJob
<1> QED BY <1>1, <1>4, <1>5, <1>6, <1>7 DEF IInv

\* The steps that mark a job and end the call (Return, MarkCancelled).  The
\* job whose call ends is the one whose state is replaced.
LEMMA EndStep ==
    ASSUME IInv, NEW c \in Calls, calls[c].at \in {"completing", "failing", "cancel"},
           NEW st \in {"done", "failed", "cancelled"},
           st = "done" => calls[c].at = "completing",
           MarkState(calls[c].job, st), calls' = [calls EXCEPT ![c] = Idle],
           UNCHANGED <<now, quotes, payments>>
    PROVE  IInv'
<1>0. PICK k : k = calls[c].job
  OBVIOUS
<1>1. k \in Jobs
  BY <1>0 DEF IInv, TypeOK, CallStates, Idle, Places
<1>2. /\ IsMap(store', Jobs, Job)
      /\ DOMAIN store' = DOMAIN store
      /\ \A x \in DOMAIN store : store'[x].terms = store[x].terms
      /\ \A x \in DOMAIN store : x # k => store'[x] = store[x]
      /\ k \in DOMAIN store => store'[k].state = st
  <2>1. st \in States
    BY DEF States, TerminalStates
  <2> QED BY <1>0, <1>1, <2>1, MarkStateResult DEF IInv
<1>3. /\ calls' \in [Calls -> CallStates]
      /\ calls'[c] = Idle
      /\ \A d \in Calls : d # c => calls'[d] = calls[d]
  BY DEF IInv, TypeOK, CallStates
<1>4. TypeOK'
  BY <1>2, <1>3 DEF IInv, TypeOK
<1>5. StoreInv' /\ QuotedOnly' /\ PaymentsHonourTerms'
  BY <1>2 DEF IInv, StoreInv, QuotedOnly, PaymentsHonourTerms
<1>6. CallInv'
  <2>1. Idle.at \notin Places /\ Idle.at = "idle"
    BY DEF Idle, Places
  <2> QED BY <1>3, <2>1 DEF IInv, CallInv, verifyInvoiceBinding, InvoiceExpiry
<1>7. DoneMeansPaid'
  <2>1. st = "done" => payments[k].status = "settled"
    BY <1>0 DEF IInv, CallInv
  <2> QED BY <1>2, <2>1 DEF IInv, DoneMeansPaid
<1>8. NoOrphanedJob'
  <2> SUFFICES ASSUME NEW j \in DOMAIN store, j # k,
                      store[j].state \in {"paying", "awaiting_result"}
               PROVE  \E d \in Calls : Working(d, j)'
    BY <1>2 DEF NoOrphanedJob
  <2>1. PICK d \in Calls : Working(d, j)
    BY DEF IInv, NoOrphanedJob
  <2>2. d # c
    BY <1>0, <2>1 DEF Working
  <2> QED BY <1>3, <2>1, <2>2 DEF Working
<1> QED BY <1>4, <1>5, <1>6, <1>7, <1>8 DEF IInv

LEMMA RequestQuoteStep ==
    ASSUME IInv, NEW j \in Jobs, NEW invoice \in Offers, RequestQuote(j, invoice)
    PROVE  IInv'
<1> DEFINE t == [expiry |-> now + QuoteTTL, invoice |-> invoice]
<1>1. t \in Terms
  BY RequesterAssumption DEF IInv, TypeOK, Terms
<1>2. /\ j \notin DOMAIN quotes
      /\ quotes' = Put(quotes, j, t)
      /\ PutQuote(j, t)
      /\ now' = now /\ calls' = calls /\ payments' = payments
  BY DEF RequestQuote
<1> HIDE DEF t
<1>3. /\ IsMap(store', Jobs, Job)
      /\ DOMAIN store' \subseteq DOMAIN store \cup {j}
      /\ \A x \in DOMAIN store' :
            /\ x = j => store'[x].state = "quoted" /\ store'[x].terms = t
            /\ x # j => /\ store'[x].terms = store[x].terms
                        /\ store'[x].state \in {store[x].state, "expired"}
  BY <1>1, <1>2, PutQuoteResult DEF IInv
<1>4. /\ IsMap(quotes', Jobs, Terms)
      /\ DOMAIN quotes' = DOMAIN quotes \cup {j}
      /\ quotes'[j] = t
      /\ \A x \in DOMAIN quotes : x # j => quotes'[x] = quotes[x]
  BY <1>1, <1>2 DEF IInv, TypeOK, IsMap, Put
<1>5. TypeOK'
  BY <1>2, <1>3, <1>4 DEF IInv, TypeOK
<1>6. StoreInv'
  BY <1>2, <1>3, <1>4 DEF IInv, StoreInv
<1>7. CallInv'
  BY <1>2, <1>4 DEF IInv, CallInv, verifyInvoiceBinding, InvoiceExpiry
<1>8. DoneMeansPaid' /\ NoOrphanedJob'
  BY <1>2, <1>3 DEF IInv, DoneMeansPaid, NoOrphanedJob, Working
<1>9. PaymentsHonourTerms'
  <2>1. \A x \in Jobs : payments[x].status # "none" => x \in DOMAIN quotes
    BY DEF IInv, QuotedOnly
  <2> QED BY <1>2, <1>4, <2>1 DEF IInv, PaymentsHonourTerms
<1>10. QuotedOnly'
  BY <1>2, <1>4 DEF IInv, QuotedOnly
<1> QED BY <1>5, <1>6, <1>7, <1>8, <1>9, <1>10 DEF IInv

\* A call that was idle takes up a job: nobody relied on it.
LEMMA TakeUp ==
    ASSUME IInv, NEW c \in Calls, calls[c] = Idle, NEW v \in CallStates,
           calls' = [calls EXCEPT ![c] = v], UNCHANGED <<now, store, quotes, payments>>,
           v.at \in Places =>
               /\ v.at = "accepted"
               /\ v.job \in DOMAIN quotes
               /\ v.terms = quotes[v.job]
    PROVE  IInv'
<1>1. /\ calls' \in [Calls -> CallStates]
      /\ calls'[c] = v
      /\ \A d \in Calls : d # c => calls'[d] = calls[d]
  BY DEF IInv, TypeOK
<1>2. TypeOK' /\ StoreInv' /\ QuotedOnly' /\ PaymentsHonourTerms' /\ DoneMeansPaid'
  BY <1>1 DEF IInv, TypeOK, StoreInv, QuotedOnly, PaymentsHonourTerms, DoneMeansPaid
<1>3. v.at \notin {"pay", "paid", "wait", "completing"}
  BY DEF Places
<1>4. CallInv'
  BY <1>1, <1>3 DEF IInv, CallInv, verifyInvoiceBinding, InvoiceExpiry
<1>5. NoOrphanedJob'
  BY <1>1 DEF IInv, NoOrphanedJob, Working
<1> QED BY <1>2, <1>4, <1>5 DEF IInv

LEMMA GetTermsStep ==
    ASSUME IInv, NEW c \in Calls, NEW j \in Jobs, GetTerms(c, j)
    PROVE  IInv'
<1>1. CASE calls' = calls /\ MarkState(j, "expired") /\ store[j].state = "quoted"
  <2>1. /\ IsMap(store', Jobs, Job)
        /\ DOMAIN store' = DOMAIN store
        /\ \A x \in DOMAIN store : store'[x].terms = store[x].terms
        /\ \A x \in DOMAIN store : x # j => store'[x] = store[x]
        /\ j \in DOMAIN store => store'[j].state = "expired"
    <3>1. "expired" \in States
      BY DEF States, TerminalStates
    <3> QED BY <1>1, <3>1, MarkStateResult DEF IInv
  <2>2. now' = now /\ quotes' = quotes /\ payments' = payments
    BY DEF GetTerms
  <2>3. TypeOK' /\ StoreInv' /\ QuotedOnly' /\ PaymentsHonourTerms'
    BY <1>1, <2>1, <2>2 DEF IInv, TypeOK, StoreInv, QuotedOnly, PaymentsHonourTerms
  <2>4. CallInv'
    BY <1>1, <2>2 DEF IInv, CallInv, verifyInvoiceBinding, InvoiceExpiry
  <2>5. DoneMeansPaid' /\ NoOrphanedJob'
    BY <1>1, <2>1, <2>2 DEF IInv, DoneMeansPaid, NoOrphanedJob, Working
  <2> QED BY <2>3, <2>4, <2>5 DEF IInv
<1> DEFINE v == [at |-> "accepted", job |-> j, terms |-> store[j].terms]
<1>2. CASE store' = store /\ calls' = [calls EXCEPT ![c] = v]
  <2>1. j \in DOMAIN quotes /\ store[j].terms = quotes[j] /\ store[j] \in Job
    BY DEF IInv, StoreInv, GetTerms, TypeOK, IsMap
  <2>2. v \in CallStates /\ v.at = "accepted" /\ v.job = j /\ v.terms = store[j].terms
    BY <2>1 DEF CallStates, Places, Job
  <2>3. calls[c] = Idle /\ now' = now /\ quotes' = quotes /\ payments' = payments
    BY DEF GetTerms
  <2> HIDE DEF v
  <2> QED BY <1>2, <2>1, <2>2, <2>3, TakeUp
<1> QED BY <1>1, <1>2 DEF GetTerms

LEMMA SendPaymentStep ==
    ASSUME IInv, NEW c \in Calls, SendPayment(c)
    PROVE  IInv'
<1>0. PICK k : k = calls[c].job
  OBVIOUS
<1> DEFINE accepted == /\ payments[k].status \in {"none", "failed"}
                       /\ now <= InvoiceExpiry(calls[c].terms)
<1>1. /\ calls[c].at = "pay"
      /\ now' = now /\ store' = store /\ quotes' = quotes
      /\ payments' = IF ~accepted THEN payments ELSE
             [payments EXCEPT ![k] = [status |-> "inflight", sentAt |-> now]]
      /\ At(c, IF accepted THEN "paying" ELSE "failing")
  BY <1>0 DEF SendPayment
<1>2. calls[c].at \in Places /\ {"paying", "failing"} \subseteq Places
  BY <1>1 DEF Places
<1>3. CASE ~accepted
  BY <1>1, <1>2, <1>3, MoveStep
<1>4. CASE accepted
  <2>1. /\ calls[c] \in WorkingCall
        /\ k \in Jobs /\ k \in DOMAIN quotes
        /\ calls[c].terms = quotes[k] /\ quotes[k] \in Terms
        /\ verifyInvoiceBinding(quotes[k])
    BY <1>0, <1>1, <1>2, CallType DEF IInv, CallInv, WorkingCall, TypeOK, IsMap
  <2>2. payments' = [payments EXCEPT ![k] = [status |-> "inflight", sentAt |-> now]]
        /\ At(c, "paying")
    BY <1>1, <1>4
  <2>3. /\ payments'[k] = [status |-> "inflight", sentAt |-> now]
        /\ \A j \in Jobs : j # k => payments'[j] = payments[j]
        /\ payments' \in [Jobs -> [status : {"none", "inflight", "settled", "failed"},
                                   sentAt : 0..MaxTime]]
    BY <2>1, <2>2 DEF IInv, TypeOK
  <2>4. quotes[k].invoice.bound /\ now <= quotes[k].expiry + Skew
    <3>1. /\ quotes[k].expiry \in Nat /\ quotes[k].invoice.extra \in Nat
          /\ Skew \in Nat /\ now \in Nat
      BY <2>1, RequesterAssumption DEF IInv, TypeOK, Terms
    <3> QED BY <1>4, <2>1, <3>1 DEF verifyInvoiceBinding, InvoiceExpiry
  <2> HIDE DEF accepted
  <2>5. /\ calls' \in [Calls -> CallStates]
        /\ calls'[c] = [at |-> "paying", job |-> k, terms |-> calls[c].terms]
        /\ \A d \in Calls : d # c => calls'[d] = calls[d]
    BY <1>0, <1>2, <2>2, AtResult DEF IInv
  <2>6. TypeOK'
    BY <1>1, <2>3, <2>5 DEF IInv, TypeOK
  <2>7. StoreInv' /\ QuotedOnly' /\ PaymentsHonourTerms'
    BY <1>1, <2>1, <2>3, <2>4 DEF IInv, StoreInv, QuotedOnly, PaymentsHonourTerms
  <2>8. payments[k].status # "settled"
    BY <1>4 DEF accepted
  <2>9. DoneMeansPaid'
    BY <1>1, <2>3, <2>8 DEF IInv, DoneMeansPaid, TypeOK, IsMap
  <2>10. CallInv'
    <3> SUFFICES ASSUME NEW d \in Calls
                 PROVE  /\ calls'[d].at \in Places =>
                               /\ calls'[d].job \in DOMAIN quotes
                               /\ calls'[d].terms = quotes[calls'[d].job]
                        /\ calls'[d].at = "pay" => verifyInvoiceBinding(calls'[d].terms)
                        /\ calls'[d].at \in {"paid", "wait", "completing"} =>
                               payments'[calls'[d].job].status = "settled"
      BY <1>1 DEF CallInv, verifyInvoiceBinding, InvoiceExpiry
    <3>1. CASE d = c
      BY <2>1, <2>5, <3>1
    <3>2. CASE d # c
      <4>1. calls'[d] = calls[d]
        BY <2>5, <3>2
      <4>2. calls[d].at \in {"paid", "wait", "completing"} => calls[d].job \in Jobs
        BY CallType DEF IInv, Places, WorkingCall
      <4> QED BY <2>3, <2>8, <4>1, <4>2 DEF IInv, CallInv
    <3> QED BY <3>1, <3>2
  <2>11. NoOrphanedJob'
    <3>1. ASSUME NEW d \in Calls, NEW j, Working(d, j)
          PROVE  Working(d, j)'
      <4>1. CASE d = c
        BY <1>0, <2>5, <3>1, <4>1 DEF Working, Idle
      <4>2. CASE d # c
        BY <2>5, <3>1, <4>2 DEF Working
      <4> QED BY <4>1, <4>2
    <3> QED BY <1>1, <3>1 DEF IInv, NoOrphanedJob
  <2> QED BY <2>6, <2>7, <2>9, <2>10, <2>11 DEF IInv
<1> QED BY <1>3, <1>4

\* A payment ends: it was in flight, so nobody took it for settled.
LEMMA FinishPaymentStep ==
    ASSUME IInv, NEW k \in Jobs, NEW st \in {"settled", "failed"}, FinishPayment(k, st)
    PROVE  IInv'
<1>1. /\ payments[k].status = "inflight"
      /\ payments' = [payments EXCEPT ![k].status = st]
      /\ now' = now /\ store' = store /\ quotes' = quotes /\ calls' = calls
  BY DEF FinishPayment
<1>2. /\ payments'[k].status = st /\ payments'[k].sentAt = payments[k].sentAt
      /\ \A j \in Jobs : j # k => payments'[j] = payments[j]
      /\ payments' \in [Jobs -> [status : {"none", "inflight", "settled", "failed"},
                                 sentAt : 0..MaxTime]]
  BY <1>1 DEF IInv, TypeOK
<1>3. TypeOK'
  BY <1>1, <1>2 DEF IInv, TypeOK
<1>4. StoreInv' /\ QuotedOnly' /\ PaymentsHonourTerms'
  BY <1>1, <1>2 DEF IInv, StoreInv, QuotedOnly, PaymentsHonourTerms
<1>5. DoneMeansPaid'
  BY <1>1, <1>2 DEF IInv, DoneMeansPaid, TypeOK, IsMap
<1>6. NoOrphanedJob'
  BY <1>1 DEF IInv, NoOrphanedJob, Working
<1>7. CallInv'
  <2>1. \A d \in Calls : calls[d].at \in {"paid", "wait", "completing"}
                            => calls[d].job \in Jobs
    BY CallType DEF IInv, Places, WorkingCall
  <2> QED BY <1>1, <1>2, <2>1 DEF IInv, CallInv, verifyInvoiceBinding, InvoiceExpiry
<1> QED BY <1>3, <1>4, <1>5, <1>6, <1>7 DEF IInv

LEMMA InitIInv == Init => IInv /\ Bounded
<1> SUFFICES ASSUME Init PROVE IInv /\ Bounded
  OBVIOUS
<1>1. DOMAIN store = {} /\ DOMAIN quotes = {} /\ store = EmptyMap /\ quotes = EmptyMap
  BY DEF Init, EmptyMap
<1>2. IsMap(store, Jobs, Job) /\ IsMap(quotes, Jobs, Terms)
  BY <1>1 DEF IsMap, EmptyMap
<1>3. TypeOK
  BY <1>2, RequesterAssumption DEF Init, TypeOK, CallStates, Idle
<1>4. StoreInv /\ DoneMeansPaid /\ NoOrphanedJob
  BY <1>1 DEF StoreInv, DoneMeansPaid, NoOrphanedJob
<1>5. QuotedOnly /\ PaymentsHonourTerms
  BY DEF Init, QuotedOnly, PaymentsHonourTerms
<1>6. CallInv
  BY DEF Init, CallInv, Idle, Places
<1>7. Bounded
  BY <1>1, FS_EmptySet, RequesterAssumption DEF Bounded, StoreBounded
<1> QED BY <1>3, <1>4, <1>5, <1>6, <1>7 DEF IInv

LEMMA NextIInv == IInv /\ [Next]_vars => IInv'
<1> SUFFICES ASSUME IInv, [Next]_vars PROVE IInv'
  OBVIOUS
<1>1. ASSUME NEW c \in Calls, CallStep(c)
      PROVE  IInv'
  <2>1. ASSUME NEW j \in Jobs, GetTerms(c, j) PROVE IInv'
    BY <2>1, GetTermsStep
  <2>2. ASSUME NEW j \in Jobs, SendCancel(c, j) PROVE IInv'
    <3> DEFINE v == [at |-> "cancel", job |-> j]
    <3>1. v \in CallStates /\ v.at \notin Places
      BY DEF CallStates, Places
    <3>2. calls[c] = Idle /\ calls' = [calls EXCEPT ![c] = v]
          /\ UNCHANGED <<now, store, quotes, payments>>
      BY <2>2 DEF SendCancel
    <3> HIDE DEF v
    <3> QED BY <3>1, <3>2, TakeUp
  <2>3. CASE MarkPaying(c)
    <3>1. "verify" \in Places /\ calls[c].at \in Places
      BY <2>3 DEF MarkPaying, Places
    <3> QED BY <2>3, <3>1, MarkStep DEF MarkPaying
  <2>4. CASE Verify(c)
    <3>1. {"pay", "failing"} \subseteq Places /\ calls[c].at \in Places
      BY <2>4 DEF Verify, Places
    <3>2. CASE verifyInvoiceBinding(calls[c].terms)
      BY <2>4, <3>1, <3>2, MoveStep DEF Verify
    <3>3. CASE ~verifyInvoiceBinding(calls[c].terms)
      BY <2>4, <3>1, <3>3, MoveStep DEF Verify
    <3> QED BY <3>2, <3>3
  <2>5. CASE SendPayment(c)
    BY <2>5, SendPaymentStep
  <2>6. CASE PayInvoice(c)
    <3>1. {"paid", "failing"} \subseteq Places /\ calls[c].at \in Places
      BY <2>6 DEF PayInvoice, Places
    <3>2. CASE payments[calls[c].job].status = "settled"
      BY <2>6, <3>1, <3>2, MoveStep DEF PayInvoice
    <3>3. CASE payments[calls[c].job].status # "settled"
      BY <2>6, <3>1, <3>3, MoveStep DEF PayInvoice
    <3> QED BY <3>2, <3>3
  <2>7. CASE MarkAwaitingResult(c)
    <3>1. "wait" \in Places /\ calls[c].at \in Places
      BY <2>7 DEF MarkAwaitingResult, Places
    <3>2. payments[calls[c].job].status = "settled"
      BY <2>7 DEF MarkAwaitingResult, IInv, CallInv
    <3> QED BY <2>7, <3>1, <3>2, MarkStep DEF MarkAwaitingResult
  <2>8. CASE WaitResult(c)
    <3>1. "completing" \in Places /\ calls[c].at \in Places
      BY <2>8 DEF WaitResult, Places
    <3>2. payments[calls[c].job].status = "settled"
      BY <2>8 DEF WaitResult, IInv, CallInv
    <3> QED BY <2>8, <3>1, <3>2, MoveStep DEF WaitResult
  <2>9. CASE CallFails(c)
    <3>1. "failing" \in Places /\ calls[c].at \in Places
      BY <2>9 DEF CallFails, Places
    <3> QED BY <2>9, <3>1, MoveStep DEF CallFails
  <2>10. CASE Return(c)
    <3>1. CASE calls[c].at = "completing"
      BY <2>10, <3>1, EndStep DEF Return
    <3>2. CASE calls[c].at = "failing"
      BY <2>10, <3>2, EndStep DEF Return
    <3> QED BY <2>10, <3>1, <3>2 DEF Return
  <2>11. CASE MarkCancelled(c)
    BY <2>11, EndStep DEF MarkCancelled
  <2> QED
    BY <1>1, <2>1, <2>2, <2>3, <2>4, <2>5, <2>6, <2>7, <2>8, <2>9, <2>10, <2>11
    DEF CallStep
<1>2. ASSUME NEW j \in Jobs, NEW invoice \in Offers, RequestQuote(j, invoice)
      PROVE  IInv'
  BY <1>2, RequestQuoteStep
<1>3. ASSUME NEW j \in Jobs, NEW st \in {"settled", "failed"}, FinishPayment(j, st)
      PROVE  IInv'
  BY <1>3, FinishPaymentStep
<1>4. CASE Tick
  <2>1. /\ store' = store /\ quotes' = quotes /\ calls' = calls /\ payments' = payments
        /\ now' \in 0..MaxTime
    BY <1>4, RequesterAssumption DEF Tick, IInv, TypeOK
  <2>2. TypeOK'
    BY <2>1 DEF IInv, TypeOK
  <2> QED
    BY <2>1, <2>2 DEF IInv, StoreInv, CallInv, verifyInvoiceBinding, InvoiceExpiry,
       QuotedOnly, PaymentsHonourTerms, DoneMeansPaid, NoOrphanedJob, Working
<1>5. CASE UNCHANGED vars
  BY <1>5 DEF vars, IInv, TypeOK, StoreInv, CallInv, verifyInvoiceBinding, InvoiceExpiry,
     QuotedOnly, PaymentsHonourTerms, DoneMeansPaid, NoOrphanedJob, Working
<1> QED BY <1>1, <1>2, <1>3, <1>4, <1>5 DEF Next

\* The inductive invariant holds in every reachable state.
THEOREM Invariance == Spec => []IInv
<1>1. Init => IInv
  BY InitIInv
<1> QED BY <1>1, NextIInv, PTL DEF Spec

\* Money leaves only for the quoted invoice and in time (PaymentsHonourTerms).
THEOREM PaymentsSound == Spec => []PaymentsHonourTerms
<1>1. IInv => PaymentsHonourTerms
  BY DEF IInv
<1> QED BY <1>1, Invariance, PTL

\* A job recorded as awaiting its result or done is paid (DoneMeansPaid).
THEOREM RecordedIsPaid == Spec => []DoneMeansPaid
<1>1. IInv => DoneMeansPaid
  BY DEF IInv
<1> QED BY <1>1, Invariance, PTL

\* No returned call leaves a job as paying or awaiting its result
\* (NoOrphanedJob), for any number of calls.
THEOREM NoneOrphaned == Spec => []NoOrphanedJob
<1>1. IInv => NoOrphanedJob
  BY DEF IInv
<1> QED BY <1>1, Invariance, PTL

\* The store keeps to its capacity: only PutQuote adds a job, and it evicts
\* when there are too many.
THEOREM StoreKeepsCapacity == Spec => []StoreBounded
<1>1. Init => Bounded
  BY InitIInv
<1>2. Bounded /\ [Next]_vars => Bounded'
  <2> SUFFICES ASSUME Bounded, [Next]_vars PROVE Bounded'
    OBVIOUS
  <2>1. ASSUME NEW j \in Jobs, NEW invoice \in Offers, RequestQuote(j, invoice)
        PROVE  Bounded'
    BY <2>1, PutQuoteBounded DEF RequestQuote
  <2>2. ASSUME NEW j, NEW st, MarkState(j, st)
        PROVE  Bounded'
    <3>1. DOMAIN store' = DOMAIN store
      BY <2>2 DEF MarkState
    <3> QED BY <3>1 DEF Bounded, StoreBounded
  <2>3. CASE store' = store
    BY <2>3 DEF Bounded, StoreBounded
  <2>4. \/ \E j \in Jobs, invoice \in Offers : RequestQuote(j, invoice)
        \/ \E j, st : MarkState(j, st)
        \/ store' = store
    <3>1. ASSUME NEW c \in Calls, CallStep(c)
          PROVE  store' = store \/ \E j, st : MarkState(j, st)
      BY <3>1 DEF CallStep, GetTerms, SendCancel, MarkPaying, Verify, SendPayment,
         PayInvoice, MarkAwaitingResult, WaitResult, CallFails, Return, MarkCancelled
    <3> QED BY <3>1 DEF Next, FinishPayment, Tick, vars
  <2> QED BY <2>1, <2>2, <2>3, <2>4
<1>3. Bounded => StoreBounded
  BY DEF Bounded
<1> QED BY <1>1, <1>2, <1>3, PTL DEF Spec

\* The variables keep their types, and a call that is under way holds a job
\* and its terms.
THEOREM TypeCorrect == Spec => []TypeOK
<1>1. IInv => TypeOK
  BY DEF IInv
<1> QED BY <1>1, Invariance, PTL

\* A job in use is evicted only when no stored job is expired: PutQuote marks
\* the expired quotes before it looks for a victim.
LEMMA PutQuoteEvicts ==
    ASSUME NEW i, i \notin DOMAIN store, NEW terms, PutQuote(i, terms),
           NEW j \in DOMAIN store \ DOMAIN store', NEW x \in DOMAIN store, Spent(store, x)
    PROVE  Spent(store, j)
<1> DEFINE new == [state |-> "quoted", terms |-> terms, createdAt |-> now]
           m == Put(gcLocked, i, new)
<1>1. /\ DOMAIN m = DOMAIN store \cup {i} /\ m[i].state = "quoted"
      /\ \A y \in DOMAIN store : y # i => m[y] = gcLocked[y]
  BY DEF Put, gcLocked
<1>2. \A y \in DOMAIN store : gcLocked[y].state = "expired" <=> Spent(store, y)
  <2> TAKE y \in DOMAIN store
  <2>1. CASE store[y].state = "quoted" /\ now >= store[y].terms.expiry
    BY <2>1 DEF gcLocked, Spent
  <2>2. CASE ~ (store[y].state = "quoted" /\ now >= store[y].terms.expiry)
    BY <2>2 DEF gcLocked, Spent
  <2> QED BY <2>1, <2>2
<1>3. evictIfOverCapacityLocked(m)
  BY DEF PutQuote
<1> HIDE DEF m, new
<1>4. PICK v \in EvictionVictims(m) : store' = Delete(m, v)
  BY <1>1, <1>3 DEF evictIfOverCapacityLocked
<1>5. v = j
  BY <1>1, <1>4 DEF Delete, Restrict
<1>6. x \in {y \in DOMAIN m : m[y].state = "expired"}
  BY <1>1, <1>2
<1>7. m[v].state = "expired" /\ v \in DOMAIN m
  BY <1>4, <1>6 DEF EvictionVictims
<1> QED BY <1>1, <1>2, <1>5, <1>7

\* Only PutQuote takes a job out of the store.
LEMMA OnlyPutQuoteEvicts ==
    ASSUME [Next]_vars, DOMAIN store' # DOMAIN store
    PROVE  \E j \in Jobs, invoice \in Offers : RequestQuote(j, invoice)
<1>1. ASSUME NEW j, NEW st, MarkState(j, st) PROVE DOMAIN store' = DOMAIN store
  BY <1>1 DEF MarkState
<1>2. ASSUME NEW c \in Calls, CallStep(c) PROVE DOMAIN store' = DOMAIN store
  BY <1>1, <1>2 DEF CallStep, GetTerms, SendCancel, MarkPaying, Verify, SendPayment, PayInvoice,
     MarkAwaitingResult, WaitResult, CallFails, Return, MarkCancelled
<1> QED BY <1>2 DEF Next, FinishPayment, Tick, vars

\* Expired quotes leave the store before any job in use (ExpiredGoFirst).
THEOREM ExpiredLeaveFirst == Spec => ExpiredGoFirst
<1>1. ASSUME IInv, [Next]_vars,
             NEW j \in DOMAIN store \ DOMAIN store', NEW x \in DOMAIN store, Spent(store, x)
      PROVE  Spent(store, j)
  <2>1. PICK i \in Jobs, invoice \in Offers : RequestQuote(i, invoice)
    BY <1>1, OnlyPutQuoteEvicts
  <2>2. i \notin DOMAIN store
    BY <1>1, <2>1 DEF RequestQuote, IInv, StoreInv
  <2> QED BY <1>1, <2>1, <2>2, PutQuoteEvicts DEF RequestQuote
<1>2. IInv /\ [Next]_vars =>
        [\A j \in DOMAIN store : (j \notin DOMAIN store' /\ ~Spent(store, j))
            => \A i \in DOMAIN store : ~Spent(store, i)]_vars
  BY <1>1
<1> QED BY <1>2, Invariance, PTL DEF Spec, ExpiredGoFirst

-----------------------------------------------------------------------------
(* The requester implements Sale. *)

LEMMA SameSale ==
    ASSUME UNCHANGED <<quotes, payments>>
    PROVE  /\ Deals' = Deals
           /\ Payments("inflight")' = Payments("inflight")
           /\ Payments("settled")' = Payments("settled")
  BY DEF Deals, Payments

\* One call moves: it begins to wait for a result, stops, or neither.
LEMMA CallSale ==
    ASSUME IInv, UNCHANGED <<now, quotes, payments>>, NEW c \in Calls,
           \A d \in Calls : d # c => calls'[d] = calls[d],
           Awaiting(c)' => /\ Work(c)' = Work(c) /\ calls[c].at \in Places
                           /\ payments[calls[c].job].status = "settled"
    PROVE  [Promise!Next]_(Promise!vars)
<1>1. \A d \in Calls : d # c => (Awaiting(d)' <=> Awaiting(d)) /\ Work(d)' = Work(d)
  BY DEF Awaiting, Work
<1>2. CASE ~ Awaiting(c) /\ Awaiting(c)'
  <2> DEFINE j == calls[c].job
  <2>1. Busy' = Busy \cup {Work(c)}
    BY <1>1, <1>2 DEF Busy
  <2>2. j \in Jobs /\ j \in DOMAIN quotes /\ calls[c].terms = quotes[j]
    BY <1>2, CallType DEF IInv, CallInv, WorkingCall
  <2>3. j \in Payments("settled") /\ j \in DOMAIN Deals /\ Work(c) = <<j, Deals[j].item>>
    BY <1>2, <2>2 DEF Payments, Deals, Work
  <2>4. Promise!Begin(j)
    BY <2>1, <2>3, SameSale DEF Promise!Begin
  <2> QED BY <2>3, <2>4 DEF Promise!Next
<1>3. CASE Awaiting(c) /\ ~ Awaiting(c)'
  <2>1. CASE \E d \in Calls : d # c /\ Awaiting(d) /\ Work(d) = Work(c)
    <3>1. Busy' = Busy
      BY <1>1, <1>3, <2>1 DEF Busy
    <3> QED BY <3>1, SameSale DEF Promise!vars
  <2>2. CASE \A d \in Calls : d # c /\ Awaiting(d) => Work(d) # Work(c)
    <3>1. Busy' = Busy \ {Work(c)} /\ Work(c) \in Busy
      BY <1>1, <1>3, <2>2 DEF Busy
    <3> QED BY <3>1, SameSale DEF Promise!Next, Promise!End
  <2> QED BY <2>1, <2>2
<1>4. CASE Awaiting(c) <=> Awaiting(c)'
  <2>1. Busy' = Busy
    BY <1>1, <1>4 DEF Busy
  <2> QED BY <2>1, SameSale DEF Promise!vars
<1> QED BY <1>2, <1>3, <1>4

\* Where a call stands once it moved.
LEMMA AtSale ==
    ASSUME IInv, UNCHANGED <<now, quotes, payments>>, NEW c \in Calls, calls[c].at \in Places,
           NEW p \in Places, At(c, p),
           p \in {"paid", "wait", "completing"} => payments[calls[c].job].status = "settled"
    PROVE  [Promise!Next]_(Promise!vars)
<1>1. /\ calls'[c] = [at |-> p, job |-> calls[c].job, terms |-> calls[c].terms]
      /\ \A d \in Calls : d # c => calls'[d] = calls[d]
  BY AtResult DEF IInv
<1>2. Work(c)' = Work(c) /\ calls'[c].at = p
  BY <1>1 DEF Work
<1> QED BY <1>1, <1>2, CallSale DEF Awaiting

\* A call that starts or returns awaits nothing.
LEMMA EndSale ==
    ASSUME IInv, UNCHANGED <<now, quotes, payments>>, NEW c \in Calls, NEW v,
           calls' = [calls EXCEPT ![c] = v], v.at \in {"idle", "accepted", "cancel"}
    PROVE  [Promise!Next]_(Promise!vars)
<1>1. calls'[c] = v /\ \A d \in Calls : d # c => calls'[d] = calls[d]
  BY DEF IInv, TypeOK
<1> QED BY <1>1, CallSale DEF Awaiting

LEMMA CallStepSale ==
    ASSUME IInv, NEW c \in Calls, CallStep(c)
    PROVE  [Promise!Next]_(Promise!vars)
<1>1. ASSUME NEW j \in Jobs, GetTerms(c, j) PROVE [Promise!Next]_(Promise!vars)
  <2>1. CASE UNCHANGED calls
    <3>1. Busy' = Busy
      BY <2>1 DEF Busy, Awaiting, Work
    <3> QED BY <1>1, <3>1, SameSale DEF GetTerms, Promise!vars
  <2> DEFINE v == [at |-> "accepted", job |-> j, terms |-> store[j].terms]
  <2>2. CASE calls' = [calls EXCEPT ![c] = v]
    BY <1>1, <2>2, EndSale DEF GetTerms
  <2> QED BY <1>1, <2>1, <2>2 DEF GetTerms
<1>2. ASSUME NEW j \in Jobs, SendCancel(c, j) PROVE [Promise!Next]_(Promise!vars)
  BY <1>2, EndSale DEF SendCancel
<1>3. CASE MarkPaying(c) \/ Verify(c) \/ CallFails(c)
  <2>1. /\ \E p \in {"verify", "pay", "failing"} : At(c, p)
        /\ calls[c].at \in Places /\ UNCHANGED <<now, quotes, payments>>
    BY <1>3 DEF MarkPaying, Verify, CallFails, Places
  <2>2. {"verify", "pay", "failing"} \subseteq Places
    BY DEF Places
  <2> QED BY <2>1, <2>2, AtSale
<1>4. CASE PayInvoice(c) \/ MarkAwaitingResult(c) \/ WaitResult(c)
  <2>1. /\ \E p \in {"paid", "wait", "completing", "failing"} :
              /\ At(c, p)
              /\ p # "failing" => payments[calls[c].job].status = "settled"
        /\ calls[c].at \in Places /\ UNCHANGED <<now, quotes, payments>>
    BY <1>4 DEF PayInvoice, MarkAwaitingResult, WaitResult, Places, IInv, CallInv
  <2>2. {"paid", "wait", "completing", "failing"} \subseteq Places
    BY DEF Places
  <2> QED BY <2>1, <2>2, AtSale
<1>5. CASE SendPayment(c)
  <2> DEFINE j == calls[c].job
  <2>1. /\ calls[c].at = "pay" /\ calls[c].at \in Places
        /\ {"paying", "failing"} \subseteq Places
    BY <1>5 DEF SendPayment, Places
  <2>2. /\ j \in Jobs /\ j \in DOMAIN quotes /\ calls[c].terms = quotes[j]
        /\ verifyInvoiceBinding(quotes[j])
    BY <2>1, CallType DEF IInv, CallInv, WorkingCall
  <2>3. CASE payments' = payments
    <3>1. \E p \in {"paying", "failing"} : At(c, p)
      BY <1>5 DEF SendPayment
    <3> QED BY <1>5, <2>1, <2>3, <3>1, AtSale DEF SendPayment
  <2>4. CASE payments' # payments
    <3>1. /\ payments[j].status \in {"none", "failed"} /\ now <= InvoiceExpiry(quotes[j])
          /\ payments' = [payments EXCEPT ![j] = [status |-> "inflight", sentAt |-> now]]
          /\ At(c, "paying") /\ UNCHANGED <<now, quotes>>
      BY <1>5, <2>2, <2>4 DEF SendPayment
    <3>2. /\ Payments("inflight")' = Payments("inflight") \cup {j}
          /\ Payments("settled")' = Payments("settled")
          /\ j \notin Payments("inflight") \cup Payments("settled")
      BY <2>2, <3>1 DEF Payments, IInv, TypeOK
    <3>3. now <= Deals[j].due /\ j \in DOMAIN Deals
      <4>1. quotes[j] \in Terms
        BY <2>2 DEF IInv, TypeOK, IsMap
      <4>2. InvoiceExpiry(quotes[j]) <= quotes[j].expiry + Skew
        BY <2>2 DEF verifyInvoiceBinding
      <4>3. /\ now \in Nat /\ InvoiceExpiry(quotes[j]) \in Nat
            /\ quotes[j].expiry + Skew \in Nat
        BY <4>1, RequesterAssumption DEF InvoiceExpiry, Terms, IInv, TypeOK
      <4> QED BY <2>2, <3>1, <4>2, <4>3 DEF Deals
    <3>4. Busy' = Busy
      <4>a. TypeOK /\ At(c, "paying") /\ "paying" \in Places
        BY <2>1, <3>1 DEF IInv
      <4>b. /\ calls'[c] = [at |-> "paying", job |-> calls[c].job, terms |-> calls[c].terms]
            /\ \A d \in Calls : d # c => calls'[d] = calls[d]
        BY <2>1, <4>a, AtResult
      <4>1. /\ calls'[c].at = "paying"
            /\ \A d \in Calls : d # c => calls'[d] = calls[d]
        BY <4>b
      <4>2. \A d \in Calls : d # c => (Awaiting(d)' <=> Awaiting(d)) /\ Work(d)' = Work(d)
        BY <4>1 DEF Awaiting, Work
      <4>3. ~ Awaiting(c) /\ ~ Awaiting(c)'
        BY <2>1, <4>1 DEF Awaiting
      <4> QED BY <4>2, <4>3 DEF Busy
    <3>5. Deals' = Deals
      BY <3>1 DEF Deals
    <3>6. Promise!Commit(j)
      BY <3>1, <3>2, <3>3, <3>4, <3>5 DEF Promise!Commit, Promise!Stands
    <3> QED BY <3>3, <3>6 DEF Promise!Next
  <2> QED BY <2>3, <2>4
<1>6. CASE Return(c) \/ MarkCancelled(c)
  BY <1>6, EndSale DEF Return, MarkCancelled, Idle
<1> QED BY <1>1, <1>2, <1>3, <1>4, <1>5, <1>6 DEF CallStep

LEMMA NextSale == ASSUME IInv, [Next]_vars PROVE [Promise!Next]_(Promise!vars)
<1>1. ASSUME UNCHANGED calls PROVE Busy' = Busy
  BY <1>1 DEF Busy, Awaiting, Work
<1>2. ASSUME NEW j \in Jobs, NEW invoice \in Offers, RequestQuote(j, invoice)
      PROVE  [Promise!Next]_(Promise!vars)
  <2> DEFINE terms == [expiry |-> now + QuoteTTL, invoice |-> invoice]
  <2>1. /\ j \notin DOMAIN quotes /\ quotes' = Put(quotes, j, terms)
        /\ UNCHANGED <<now, calls, payments>>
    BY <1>2 DEF RequestQuote
  <2> HIDE DEF terms
  <2>2. /\ DOMAIN Deals = DOMAIN quotes /\ DOMAIN Deals' = DOMAIN quotes \cup {j}
        /\ \A i \in DOMAIN quotes : Deals'[i] = Deals[i]
    BY <2>1 DEF Deals, Put
  <2>3. Payments("inflight")' = Payments("inflight") /\ Payments("settled")' = Payments("settled")
    BY <2>1 DEF Payments
  <2>4. Promise!Offer(j) /\ j \in DOMAIN Deals'
    BY <1>1, <2>1, <2>2, <2>3 DEF Promise!Offer
  <2> QED BY <2>4 DEF Promise!Next
<1>3. ASSUME NEW j \in Jobs, NEW st \in {"settled", "failed"}, FinishPayment(j, st)
      PROVE  [Promise!Next]_(Promise!vars)
  <2>1. /\ j \in Payments("inflight")
        /\ Payments("inflight")' = Payments("inflight") \ {j}
        /\ st = "settled" => Payments("settled")' = Payments("settled") \cup {j}
        /\ st = "failed" => Payments("settled")' = Payments("settled")
    BY <1>3 DEF FinishPayment, Payments, IInv, TypeOK
  <2>2. now' = now /\ Deals' = Deals /\ Busy' = Busy
    BY <1>1, <1>3 DEF FinishPayment, Deals
  <2>3. j \in DOMAIN Deals
    BY <2>1 DEF Payments, IInv, QuotedOnly, Deals
  <2> QED BY <2>1, <2>2, <2>3 DEF Promise!Next, Promise!Pay, Promise!Revoke
<1>4. CASE Tick
  BY <1>1, <1>4, SameSale DEF Tick, IInv, TypeOK, Promise!Next, Promise!Pass
<1>5. CASE UNCHANGED vars
  BY <1>1, <1>5, SameSale DEF vars, Promise!vars
<1> QED BY <1>2, <1>3, <1>4, <1>5, CallStepSale DEF Next

\* The requester implements the sale, for every number of jobs and calls and
\* every behaviour of the provider and of LND (ImplementsSale).
THEOREM RequesterImplementsSale == Spec => ImplementsSale
<1>1. Init => Promise!Init
  BY DEF Init, Promise!Init, Deals, Payments, Busy, Awaiting, Idle, EmptyMap
<1> QED BY <1>1, NextSale, Invariance, PTL DEF Spec, ImplementsSale, Promise!Spec
=============================================================================
