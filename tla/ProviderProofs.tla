--------------------------- MODULE ProviderProofs ---------------------------
(***************************************************************************)
(* The two stores, and the safety of the provider, for every set of peers, *)
(* jobs, messages and streams, every capacity, every time to live and      *)
(* every bound.                                                            *)
(***************************************************************************)
EXTENDS Provider, FiniteSetTheorems, TLAPS

-----------------------------------------------------------------------------
(* What the methods of the two stores do to their maps, for every content. *)

\* m[k] = v.
LEMMA PutMap ==
    ASSUME NEW S, NEW T, NEW m, IsMap(m, S, T), NEW k \in S, NEW v \in T
    PROVE  /\ IsMap(Put(m, k, v), S, T)
           /\ DOMAIN Put(m, k, v) = DOMAIN m \cup {k}
           /\ Put(m, k, v)[k] = v
           /\ \A x \in DOMAIN m : x # k => Put(m, k, v)[x] = m[x]
  BY DEF IsMap, Put

\* delete(m, k).
LEMMA DeleteMap ==
    ASSUME NEW S, NEW T, NEW m, IsMap(m, S, T), NEW k
    PROVE  /\ IsMap(Delete(m, k), S, T)
           /\ DOMAIN Delete(m, k) = DOMAIN m \ {k}
           /\ \A x \in DOMAIN m : x # k => Delete(m, k)[x] = m[x]
  BY DEF IsMap, Delete, Restrict

\* Upsert stores the job, stamped with a creation time, unless the eviction
\* takes it; every other job that stays is as it was, and the store keeps to
\* its capacity.
LEMMA UpsertResult ==
    ASSUME NEW S, NEW T, IsMap(jobs, S, T), NEW k \in S, NEW t, NEW job,
           Stamp(job, t) \in T, Upsert(k, job, t)
    PROVE  /\ IsMap(jobs', S, T)
           /\ DOMAIN jobs' \subseteq DOMAIN jobs \cup {k}
           /\ \A x \in DOMAIN jobs' :
                 jobs'[x] = IF x = k THEN Stamp(job, t) ELSE jobs[x]
<1> DEFINE pruned == PruneExpired(t)
           full == Put(pruned, k, Stamp(job, t))
<1>1. /\ IsMap(pruned, S, T)
      /\ DOMAIN pruned \subseteq DOMAIN jobs
      /\ \A x \in DOMAIN pruned : pruned[x] = jobs[x]
  BY DEF PruneExpired, IsMap, Restrict
<1>2. jobs' = full \/ \E y : jobs' = Delete(full, y)
  BY DEF Upsert
<1> HIDE DEF pruned
<1>3. /\ IsMap(full, S, T)
      /\ DOMAIN full \subseteq DOMAIN jobs \cup {k}
      /\ \A x \in DOMAIN full : full[x] = IF x = k THEN Stamp(job, t) ELSE jobs[x]
  BY <1>1 DEF Put, IsMap
<1> HIDE DEF full
<1>4. /\ IsMap(jobs', S, T)
      /\ DOMAIN jobs' \subseteq DOMAIN full
      /\ \A x \in DOMAIN jobs' : jobs'[x] = full[x]
  BY Zenon, <1>2, <1>3 DEF Delete, Restrict, IsMap
<1> QED
  BY <1>3, <1>4

\* The job store keeps to its capacity (evictIfOverCapacityLocked).
LEMMA UpsertBounded ==
    ASSUME IsFiniteSet(DOMAIN jobs), Cardinality(DOMAIN jobs) <= MaxJobs,
           NEW k, NEW t, NEW job, Upsert(k, job, t)
    PROVE  IsFiniteSet(DOMAIN jobs') /\ Cardinality(DOMAIN jobs') <= MaxJobs
<1> DEFINE pruned == PruneExpired(t)
           full == Put(pruned, k, Stamp(job, t))
<1>1. DOMAIN pruned \subseteq DOMAIN jobs /\ DOMAIN full = DOMAIN pruned \cup {k}
  BY DEF PruneExpired, Restrict, Put
<1>2. IsFiniteSet(DOMAIN pruned) /\ Cardinality(DOMAIN pruned) <= Cardinality(DOMAIN jobs)
  BY <1>1, FS_Subset
<1>3. \/ Cardinality(DOMAIN full) <= MaxJobs /\ jobs' = full
      \/ \E y \in DOMAIN full : jobs' = Delete(full, y)
  BY DEF Upsert, EvictionVictims
<1> HIDE DEF pruned, full
<1>4. /\ IsFiniteSet(DOMAIN full)
      /\ Cardinality(DOMAIN full) <= Cardinality(DOMAIN pruned) + 1
  <2>1. /\ IsFiniteSet(DOMAIN pruned \cup {k})
        /\ Cardinality(DOMAIN pruned \cup {k}) =
             IF k \in DOMAIN pruned THEN Cardinality(DOMAIN pruned)
                                    ELSE Cardinality(DOMAIN pruned) + 1
    BY <1>2, FS_AddElement
  <2>2. Cardinality(DOMAIN pruned) \in Nat
    BY <1>2, FS_CardinalityType
  <2> QED BY <1>1, <2>1, <2>2
<1>5. CASE jobs' = full /\ Cardinality(DOMAIN full) <= MaxJobs
  BY <1>4, <1>5
<1>6. ASSUME NEW y \in DOMAIN full, jobs' = Delete(full, y)
      PROVE  IsFiniteSet(DOMAIN jobs') /\ Cardinality(DOMAIN jobs') <= MaxJobs
  <2>1. DOMAIN jobs' = DOMAIN full \ {y}
    BY <1>6 DEF Delete, Restrict
  <2>2. /\ IsFiniteSet(DOMAIN full \ {y})
        /\ Cardinality(DOMAIN full \ {y}) = Cardinality(DOMAIN full) - 1
    BY <1>4, FS_RemoveElement
  <2>3. /\ Cardinality(DOMAIN full) \in Nat /\ Cardinality(DOMAIN pruned) \in Nat
        /\ Cardinality(DOMAIN jobs) \in Nat
    BY <1>2, <1>4, FS_CardinalityType
  <2>4. Cardinality(DOMAIN jobs') <= MaxJobs
    BY <1>2, <1>4, <2>1, <2>2, <2>3, MaxJobsAssumption
  <2> QED BY <2>1, <2>2, <2>4
<1> QED
  BY <1>3, <1>5, <1>6

\* The replay store remembers the message, or changes nothing but to drop the
\* messages that have expired.
LEMMA CheckAndRememberResult ==
    ASSUME NEW S, NEW T, IsMap(entries, S, T), NEW k \in S, NEW e \in T, NEW t,
           CheckAndRemember(k, e, t)
    PROVE  IsMap(entries', S, T)
<1>1. IsMap(PruneReplay(t), S, T)
  BY DEF PruneReplay, IsMap, Restrict
<1>2. \/ entries' = PruneReplay(t)
      \/ \E kept : /\ kept = PruneReplay(t) \/ \E y : kept = Delete(PruneReplay(t), y)
                   /\ entries' = Put(kept, k, e)
  BY DEF CheckAndRemember, EvictOldestReplay
<1>3. ASSUME NEW y
      PROVE  IsMap(Delete(PruneReplay(t), y), S, T)
  BY <1>1 DEF Delete, Restrict, IsMap
<1>4. ASSUME NEW kept, IsMap(kept, S, T)
      PROVE  IsMap(Put(kept, k, e), S, T)
  BY <1>4 DEF Put, IsMap
<1> QED
  BY <1>1, <1>2, <1>3, <1>4

\* The replay store keeps to its capacity.
LEMMA CheckAndRememberBounded ==
    ASSUME IsFiniteSet(DOMAIN entries), Cardinality(DOMAIN entries) <= ReplayMax,
           NEW k, NEW e, NEW t, CheckAndRemember(k, e, t)
    PROVE  IsFiniteSet(DOMAIN entries') /\ Cardinality(DOMAIN entries') <= ReplayMax
<1> DEFINE live == PruneReplay(t)
           size == Cardinality(DOMAIN live)
<1>1. DOMAIN live \subseteq DOMAIN entries
  BY DEF PruneReplay, Restrict
<1>2. IsFiniteSet(DOMAIN live) /\ size <= Cardinality(DOMAIN entries)
  BY <1>1, FS_Subset
<1>3. size \in Nat /\ size <= ReplayMax
  BY <1>2, FS_CardinalityType, ReplayMaxAssumption
<1>4. \/ entries' = live
      \/ size < ReplayMax /\ entries' = Put(live, k, e)
      \/ \E y \in DOMAIN live : entries' = Put(Delete(live, y), k, e)
  <2> HIDE DEF live
  <2>1. CASE size >= ReplayMax
    BY <2>1, <1>3, ReplayMaxAssumption DEF CheckAndRemember, EvictOldestReplay, live
  <2>2. CASE ~ (size >= ReplayMax)
    BY <2>2, <1>3, ReplayMaxAssumption DEF CheckAndRemember, live
  <2> QED BY <2>1, <2>2
<1> HIDE DEF live
<1>5. ASSUME NEW m, IsFiniteSet(DOMAIN m), Cardinality(DOMAIN m) < ReplayMax,
             entries' = Put(m, k, e)
      PROVE  IsFiniteSet(DOMAIN entries') /\ Cardinality(DOMAIN entries') <= ReplayMax
  <2>1. DOMAIN entries' = DOMAIN m \cup {k}
    BY <1>5 DEF Put
  <2>2. /\ IsFiniteSet(DOMAIN m \cup {k})
        /\ Cardinality(DOMAIN m \cup {k}) =
             IF k \in DOMAIN m THEN Cardinality(DOMAIN m) ELSE Cardinality(DOMAIN m) + 1
    BY <1>5, FS_AddElement
  <2>3. Cardinality(DOMAIN m) \in Nat
    BY <1>5, FS_CardinalityType
  <2> QED BY <1>5, <2>1, <2>2, <2>3, ReplayMaxAssumption
<1>6. ASSUME NEW y \in DOMAIN live, entries' = Put(Delete(live, y), k, e)
      PROVE  IsFiniteSet(DOMAIN entries') /\ Cardinality(DOMAIN entries') <= ReplayMax
  <2>1. DOMAIN Delete(live, y) = DOMAIN live \ {y}
    BY DEF Delete, Restrict
  <2>2. IsFiniteSet(DOMAIN live \ {y}) /\ Cardinality(DOMAIN live \ {y}) = size - 1
    BY <1>2, FS_RemoveElement
  <2>3. Cardinality(DOMAIN live \ {y}) < ReplayMax
    BY <1>3, <2>2, ReplayMaxAssumption
  <2> QED BY <1>5, <1>6, <2>1, <2>2, <2>3
<1> QED
  BY <1>2, <1>3, <1>4, <1>5, <1>6

\* Upsert takes a job that is paid for, or over, out of the store only when no
\* job of the store is pending.  That it is not the job itself, stored as a
\* pending one, that goes is due to the capacity: a job that replaces another
\* causes no eviction.
LEMMA UpsertKeepsPaid ==
    ASSUME IsFiniteSet(DOMAIN jobs), Cardinality(DOMAIN jobs) <= MaxJobs,
           NEW k, NEW job, NEW t, Upsert(k, job, t),
           NEW x \in DOMAIN jobs \ DOMAIN jobs', jobs[x].state \notin PendingStates,
           NEW j \in DOMAIN jobs'
    PROVE  jobs'[j].state \notin PendingStates
<1> DEFINE pruned == PruneExpired(t)
           full == Put(pruned, k, Stamp(job, t))
<1>1. x \in DOMAIN pruned /\ pruned[x] = jobs[x]
  BY DEF PruneExpired, Restrict
<1>2. \/ jobs' = full
      \/ /\ Cardinality(DOMAIN full) > MaxJobs
         /\ \E y \in EvictionVictims(full) : jobs' = Delete(full, y)
  BY DEF Upsert
<1>3. DOMAIN pruned \subseteq DOMAIN jobs /\ DOMAIN full = DOMAIN pruned \cup {k}
  BY DEF PruneExpired, Restrict, Put
<1> HIDE DEF pruned
<1>4. x \in DOMAIN full /\ (x # k => full[x] = jobs[x])
  BY <1>1 DEF Put
<1> HIDE DEF full
<1>5. PICK y \in EvictionVictims(full) : jobs' = Delete(full, y)
  BY <1>2, <1>4
<1>6. x = y /\ j \in DOMAIN full /\ jobs'[j] = full[j]
  BY <1>4, <1>5 DEF Delete, Restrict
<1>7. CASE full[x].state \notin PendingStates
  BY <1>5, <1>6, <1>7 DEF EvictionVictims
<1>8. CASE full[x].state \in PendingStates
  <2>1. x = k
    BY <1>4, <1>8
  <2>2. DOMAIN full \subseteq DOMAIN jobs
    BY <2>1, <1>3
  <2>3. /\ Cardinality(DOMAIN full) \in Nat /\ Cardinality(DOMAIN jobs) \in Nat
        /\ Cardinality(DOMAIN full) <= Cardinality(DOMAIN jobs)
    BY <2>2, FS_Subset, FS_CardinalityType
  <2>4. ~ (Cardinality(DOMAIN full) > MaxJobs)
    BY <2>3, MaxJobsAssumption
  <2> QED BY <1>2, <1>4, <2>4
<1> QED BY <1>7, <1>8

\* A message that is still remembered is forgotten early only to make room in
\* a full replay store, and then no message that the store goes on to remember
\* would have been forgotten sooner by itself (evictOldestLocked).
THEOREM ForgetsSoonest ==
    ASSUME NEW k, NEW e, NEW t \in Nat, CheckAndRemember(k, e, t),
           entries \in [DOMAIN entries -> Nat],
           NEW x \in DOMAIN entries \ DOMAIN entries', entries[x] >= t
    PROVE  /\ Cardinality({y \in DOMAIN entries : entries[y] >= t}) >= ReplayMax
           /\ \A y \in DOMAIN entries \cap DOMAIN entries' :
                 entries[y] >= t => entries[x] <= entries[y]
<1> DEFINE live == PruneReplay(t)
<1>1. /\ DOMAIN live = {y \in DOMAIN entries : entries[y] >= t}
      /\ \A y \in DOMAIN live : live[y] = entries[y]
  BY DEF PruneReplay, Restrict
<1>2. x \in DOMAIN live
  BY <1>1
<1>3. /\ Cardinality(DOMAIN live) >= ReplayMax
      /\ \E kept \in EvictOldestReplay(live) : entries' = Put(kept, k, e)
  <2> HIDE DEF live
  <2>1. entries' # live /\ entries' # Put(live, k, e)
    BY <1>2 DEF Put
  <2> QED BY <2>1 DEF CheckAndRemember, live
<1> HIDE DEF live
<1>4. PICK z \in DOMAIN live : /\ \A y \in DOMAIN live : live[z] <= live[y]
                               /\ entries' = Put(Delete(live, z), k, e)
  BY <1>3 DEF EvictOldestReplay
<1>5. x = z
  BY <1>2, <1>4 DEF Put, Delete, Restrict
<1> QED
  BY <1>1, <1>2, <1>3, <1>4, <1>5

-----------------------------------------------------------------------------
(* The types, and what jobs, invoices and runners have to do with each other. *)

\* What the inbound goroutine holds between two of its steps.
CopyBound ==
    /\ inb.pc \in {"upsert", "resend", "quote", "start"} => Bound(invoices, inb.key, inb.job)
    /\ inb.pc \in {"resend", "quote", "start"} => inb.job.invoice # 0
    /\ inb.pc = "invoice" => inb.input.id \in StreamIds /\ inb.input.validated
    /\ inb.pc = "quote" => invoices[inb.job.invoice].state = "created"

\* Every runner was started for an invoice of its job and its input.
RunnersBound ==
    \A r \in DOMAIN runners :
        /\ runners[r].invoice \in DOMAIN invoices
        /\ invoices[runners[r].invoice].key = runners[r].key
        /\ invoices[runners[r].invoice].input = runners[r].input

\* The inductive invariant.  A job's quote is copied from the store to the
\* inbound goroutine and from there to a runner; the binding of each copy to
\* its invoice is what makes the settlement a runner sees the right one.
IInv == TypeOK /\ TermsBinding /\ CopyBound /\ RunnersBound
        /\ ExecutesOnlyAfterSettlement

\* No step changes what an invoice was created for.
InvoicesKept ==
    /\ DOMAIN invoices \subseteq DOMAIN invoices'
    /\ \A i \in DOMAIN invoices :
           /\ invoices'[i].key = invoices[i].key
           /\ invoices'[i].input = invoices[i].input
           /\ invoices'[i].quoteExpiry = invoices[i].quoteExpiry

\* A bound job stays bound.
LEMMA BoundKept ==
    ASSUME InvoicesKept, NEW k, NEW job, Bound(invoices, k, job)
    PROVE  Bound(invoices', k, job)
  BY DEF InvoicesKept, Bound

LEMMA InvoicesSame == ASSUME invoices' = invoices PROVE InvoicesKept
  BY DEF InvoicesKept

\* UpdateState keeps the jobs bound, as long as it does not set awaiting_input.
LEMMA UpdateStateBound ==
    ASSUME IsMap(jobs, Keys, Job), TermsBinding, InvoicesKept, NEW k,
           NEW st \in JobStates \ {"awaiting_input"}, UpdateState(k, st)
    PROVE  IsMap(jobs', Keys, Job) /\ TermsBinding'
<1>1. \A x \in DOMAIN jobs : Bound(invoices', x, jobs[x])
  BY BoundKept DEF TermsBinding
<1>2. CASE k \notin DOMAIN jobs
  BY <1>1, <1>2 DEF UpdateState, TermsBinding
<1>3. CASE k \in DOMAIN jobs
  <2>1. jobs' = [jobs EXCEPT ![k].state = st]
    BY <1>3 DEF UpdateState
  <2>2. /\ DOMAIN jobs' = DOMAIN jobs
        /\ jobs'[k] = [jobs[k] EXCEPT !.state = st]
        /\ \A x \in DOMAIN jobs : x # k => jobs'[x] = jobs[x]
        /\ \A x \in DOMAIN jobs : jobs[x] \in Job
    BY <1>3, <2>1 DEF IsMap
  <2>3. jobs'[k] \in Job
    BY <1>3, <2>2 DEF Job
  <2>4. IsMap(jobs', Keys, Job)
    BY Zenon, <2>1, <2>2, <2>3 DEF IsMap
  <2>5. Bound(invoices', k, jobs'[k])
    BY <1>1, <1>3, <2>2 DEF Bound, Job
  <2> QED BY <1>1, <2>2, <2>4, <2>5 DEF TermsBinding
<1> QED BY <1>2, <1>3

\* Upsert keeps the jobs bound when the stored job is.
LEMMA UpsertBound ==
    ASSUME IsMap(jobs, Keys, Job), TermsBinding, InvoicesKept, NEW k \in Keys,
           NEW t \in Nat, NEW job \in Job, Bound(invoices', k, job), Upsert(k, job, t)
    PROVE  IsMap(jobs', Keys, Job) /\ TermsBinding'
<1>1. \A x \in DOMAIN jobs : Bound(invoices', x, jobs[x])
  BY BoundKept DEF TermsBinding
<1>2. Stamp(job, t) \in Job /\ Bound(invoices', k, Stamp(job, t))
  BY DEF Stamp, Job, Bound
<1>3. /\ IsMap(jobs', Keys, Job)
      /\ DOMAIN jobs' \subseteq DOMAIN jobs \cup {k}
      /\ \A x \in DOMAIN jobs' : jobs'[x] = IF x = k THEN Stamp(job, t) ELSE jobs[x]
  BY <1>2, UpsertResult
<1> QED BY <1>1, <1>2, <1>3 DEF TermsBinding

\* The records that inb can be.
LEMMA InboundFields ==
    ASSUME inb \in Inbound
    PROVE  /\ inb.pc = "upsert" => inb.key \in Keys /\ inb.job \in Job
           /\ inb.pc \in {"resend", "quote", "start"} => inb.key \in Keys /\ inb.job \in Job
           /\ inb.pc = "invoice" => /\ inb.key \in Keys /\ inb.input \in InputStream
                                    /\ inb.at \in Nat /\ inb.msg \in MsgIds
           /\ inb.pc = "cancel" => inb.key \in Keys
           /\ inb.pc \in {"idle", "upsert", "resend", "quote", "start", "invoice", "cancel"}
  BY DEF Inbound, Idle

LEMMA InitIInv == ASSUME Init PROVE IInv
  BY DEF Init, IInv, TypeOK, IsMap, EmptyMap, Inbound, Idle, TermsBinding, CopyBound,
         RunnersBound, ExecutesOnlyAfterSettlement

-----------------------------------------------------------------------------
(* The inbound goroutine. *)

\* A step that touches only the stores and the inbound goroutine.
LEMMA StoreStep ==
    ASSUME IInv, UNCHANGED <<now, manifests, jobCancels, inFlight, runners, invoices>>,
           IsMap(entries', Keys \X MsgIds, Nat), IsMap(jobs', Keys, Job), TermsBinding',
           inb' \in Inbound, CopyBound'
    PROVE  IInv'
  BY DEF IInv, TypeOK, RunnersBound, ExecutesOnlyAfterSettlement, Working

LEMMA checkReplayType ==
    ASSUME IInv, NEW k \in Keys, NEW m \in MsgIds, checkReplay(k, m)
    PROVE  IsMap(entries', Keys \X MsgIds, Nat) /\ inb = Idle
<1>1. EffectiveExpiry(m) \in Nat
  BY ProviderAssumption DEF EffectiveExpiry, IInv, TypeOK
<1>2. IsMap(entries, Keys \X MsgIds, Nat) /\ <<k, m>> \in Keys \X MsgIds
  BY DEF IInv, TypeOK
<1> QED BY <1>1, <1>2, CheckAndRememberResult DEF checkReplay

\* Nothing but the replay store changes.
LEMMA RefuseStep ==
    ASSUME IInv, IsMap(entries', Keys \X MsgIds, Nat), Refuse
    PROVE  IInv'
<1>1. IsMap(jobs', Keys, Job) /\ TermsBinding' /\ inb' \in Inbound /\ CopyBound'
  BY DEF IInv, TypeOK, Refuse, TermsBinding, CopyBound
<1> QED BY <1>1, StoreStep DEF Refuse

\* A bound copy of a job goes to the inbound goroutine.
LEMMA ReadStep ==
    ASSUME IInv, IsMap(entries', Keys \X MsgIds, Nat), NEW k \in Keys, NEW job \in Job,
           Bound(invoices, k, job), NEW requote \in BOOLEAN, ReadThenUpsert(k, job, requote)
    PROVE  IInv'
<1>1. IsMap(jobs', Keys, Job) /\ TermsBinding'
  BY DEF IInv, TypeOK, ReadThenUpsert, TermsBinding
<1>2. inb' \in Inbound
  BY DEF ReadThenUpsert, Inbound
<1>3. CopyBound'
  BY DEF ReadThenUpsert, CopyBound
<1> QED BY <1>1, <1>2, <1>3, StoreStep DEF ReadThenUpsert

LEMMA handleQuoteRequestStep ==
    ASSUME IInv, NEW k \in Keys, NEW m \in MsgIds, NEW matches \in BOOLEAN,
           handleQuoteRequest(k, m, matches)
    PROVE  IInv'
<1>1. IsMap(entries', Keys \X MsgIds, Nat) /\ inb = Idle
  BY Zenon, checkReplayType DEF handleQuoteRequest
<1>2. CASE Refuse
  BY <1>1, <1>2, RefuseStep
<1>3. CASE /\ Upsert(k, NewJob, now)
           /\ UNCHANGED <<now, manifests, inb, jobCancels, inFlight, runners, invoices>>
  <2>1. NewJob \in Job /\ Bound(invoices', k, NewJob)
    BY ProviderAssumption DEF NewJob, Job, JobStates, PendingStates, NewInput, InputStream, Bound
  <2>2. IsMap(jobs', Keys, Job) /\ TermsBinding'
    BY <1>3, <2>1, UpsertBound, InvoicesSame DEF IInv, TypeOK
  <2>3. inb' \in Inbound /\ CopyBound'
    BY <1>3 DEF IInv, TypeOK, CopyBound
  <2> QED BY <1>1, <1>3, <2>2, <2>3, StoreStep
<1>4. CASE k \in DOMAIN jobs /\ ReadThenUpsert(k, jobs[k], TRUE)
  <2>1. jobs[k] \in Job /\ Bound(invoices, k, jobs[k])
    BY <1>4 DEF IInv, TypeOK, IsMap, TermsBinding
  <2> QED BY Zenon, <1>1, <1>4, <2>1, ReadStep
<1> QED BY Zenon, <1>2, <1>3, <1>4 DEF handleQuoteRequest

LEMMA handleStreamBeginStep ==
    ASSUME IInv, NEW k \in Keys, NEW m \in MsgIds, NEW s \in StreamIds,
           NEW total \in 1..MaxLen, NEW wellFormed \in BOOLEAN,
           handleStreamBegin(k, m, s, total, wellFormed)
    PROVE  IInv'
<1>1. IsMap(entries', Keys \X MsgIds, Nat)
  BY Zenon, checkReplayType DEF handleStreamBegin
<1>2. CASE Refuse
  BY <1>1, <1>2, RefuseStep
<1> DEFINE input == NewInput(s, total)
           job == [jobs[k] EXCEPT !.input = input]
<1>3. CASE /\ k \in DOMAIN jobs /\ jobs[k].state = "awaiting_input"
           /\ ReadThenUpsert(k, job, FALSE)
  <2>1. jobs[k] \in Job /\ Bound(invoices, k, jobs[k])
    BY <1>3 DEF IInv, TypeOK, IsMap, TermsBinding
  <2>2. input \in InputStream /\ ~ input.validated
    <3>1. total \in 0..MaxLen /\ 0 \in 0..MaxLen
      BY ProviderAssumption
    <3> QED BY <3>1 DEF InputStream, NewInput
  <2> HIDE DEF input
  <2>3. job \in Job /\ Bound(invoices, k, job)
    BY <1>3, <2>1, <2>2 DEF Job, Bound
  <2> QED BY Zenon, <1>1, <1>3, <2>3, ReadStep
<1> QED BY Zenon, <1>2, <1>3 DEF handleStreamBegin

LEMMA handleStreamChunkStep ==
    ASSUME IInv, NEW k \in Keys, NEW s \in StreamIds, NEW seq \in 0..MaxLen,
           NEW good \in BOOLEAN, handleStreamChunk(k, s, seq, good)
    PROVE  IInv'
<1> DEFINE job == [jobs[k] EXCEPT !.input.seq = @ + 1, !.input.clean = @ /\ good]
<1>1. /\ k \in DOMAIN jobs /\ jobs[k].state = "awaiting_input"
      /\ jobs[k].input.seq + 1 <= jobs[k].input.total
      /\ ReadThenUpsert(k, job, FALSE)
      /\ entries' = entries
  BY Zenon DEF handleStreamChunk, Receiving
<1>2. jobs[k] \in Job /\ Bound(invoices, k, jobs[k])
  BY <1>1 DEF IInv, TypeOK, IsMap, TermsBinding
<1>3. jobs[k].input \in InputStream /\ job = [jobs[k] EXCEPT !.input = job.input]
  BY Zenon, <1>2 DEF Job
<1>4. job.input \in InputStream /\ job.input.validated = jobs[k].input.validated
  <2> DEFINE input == jobs[k].input
  <2>1. job.input = [input EXCEPT !.seq = @ + 1, !.clean = @ /\ good]
    BY <1>2, <1>3 DEF Job, InputStream
  <2>2. input.seq + 1 \in 0..MaxLen
    BY <1>1, <1>3, ProviderAssumption DEF InputStream
  <2>3. (input.clean /\ good) \in BOOLEAN
    OBVIOUS
  <2> HIDE DEF input, job
  <2> QED BY Zenon, <1>3, <2>1, <2>2, <2>3 DEF InputStream, input
<1> HIDE DEF job
<1>5. job \in Job /\ Bound(invoices, k, job)
  BY <1>1, <1>2, <1>3, <1>4 DEF Job, Bound
<1>6. IsMap(entries', Keys \X MsgIds, Nat)
  BY <1>1 DEF IInv, TypeOK
<1> QED BY Zenon, <1>1, <1>5, <1>6, ReadStep

LEMMA handleStreamEndStep ==
    ASSUME IInv, NEW k \in Keys, NEW m \in MsgIds, NEW s \in StreamIds,
           NEW valid \in BOOLEAN, handleStreamEnd(k, m, s, valid)
    PROVE  IInv'
<1>1. IsMap(entries', Keys \X MsgIds, Nat)
  BY Zenon, checkReplayType DEF handleStreamEnd
<1>2. CASE Refuse
  BY <1>1, <1>2, RefuseStep
<1> DEFINE input == [jobs[k].input EXCEPT !.validated = TRUE]
<1>3. CASE /\ Receiving(k, s)
           /\ inb' = [pc |-> "invoice", key |-> k, at |-> now, msg |-> m, input |-> input]
           /\ UNCHANGED <<jobs, now, manifests, jobCancels, inFlight, runners, invoices>>
  <2>1. jobs[k] \in Job /\ jobs[k].input.id = s
    BY <1>3 DEF IInv, TypeOK, IsMap, Receiving
  <2>2. jobs[k].input \in InputStream
    BY <2>1 DEF Job
  <2>3. input \in InputStream /\ input.id = s /\ input.validated
    BY Zenon, <2>1, <2>2 DEF InputStream
  <2> HIDE DEF input
  <2>4. inb' \in Inbound
    BY <1>3, <2>3 DEF Inbound, IInv, TypeOK
  <2>5. CopyBound'
    BY <1>3, <2>3 DEF CopyBound
  <2>6. IsMap(jobs', Keys, Job) /\ TermsBinding'
    BY <1>3 DEF IInv, TypeOK, TermsBinding
  <2> QED BY <1>1, <1>3, <2>4, <2>5, <2>6, StoreStep
<1> QED BY <1>2, <1>3 DEF handleStreamEnd

LEMMA UpsertCopyStep == ASSUME IInv, UpsertCopy PROVE IInv'
<1>1. /\ inb.key \in Keys /\ inb.job \in Job
      /\ Bound(invoices, inb.key, inb.job) /\ now \in Nat
  BY InboundFields DEF UpsertCopy, IInv, TypeOK, CopyBound
<1>2. Bound(invoices', inb.key, inb.job) /\ InvoicesKept
  BY <1>1, InvoicesSame DEF UpsertCopy
<1>3. IsMap(jobs', Keys, Job) /\ TermsBinding'
  BY <1>1, <1>2, UpsertBound DEF UpsertCopy, IInv, TypeOK
<1>4. \/ inb' = Idle
      \/ inb' = [pc |-> "resend", key |-> inb.key, job |-> inb.job] /\ inb.job.invoice # 0
  BY DEF UpsertCopy
<1>5. inb' \in Inbound
  BY <1>1, <1>4 DEF Inbound
<1>6. CopyBound'
  BY <1>2, <1>4 DEF CopyBound, Idle
<1>7. IsMap(entries', Keys \X MsgIds, Nat)
  BY DEF UpsertCopy, IInv, TypeOK
<1> QED BY <1>3, <1>5, <1>6, <1>7, StoreStep DEF UpsertCopy

LEMMA MarkCanceledStep == ASSUME IInv, MarkCanceled PROVE IInv'
<1>1. "canceled" \in JobStates \ {"awaiting_input"}
  BY DEF JobStates
<1>2. IsMap(jobs', Keys, Job) /\ TermsBinding'
  BY <1>1, UpdateStateBound, InvoicesSame DEF MarkCanceled, IInv, TypeOK
<1>3. inb' \in Inbound /\ CopyBound'
  BY DEF MarkCanceled, Inbound, Idle, CopyBound
<1>4. IsMap(entries', Keys \X MsgIds, Nat)
  BY DEF MarkCanceled, IInv, TypeOK
<1> QED BY <1>2, <1>3, <1>4, StoreStep DEF MarkCanceled

\* A runner that is started waits for the invoice of the quote it is given.
LEMMA startJobRunnerType ==
    ASSUME IInv, NEW k \in Keys, NEW job \in Job, Bound(invoices, k, job),
           job.invoice # 0, startJobRunner(k, job), invoices' = invoices
    PROVE  /\ runners' \in Seq(Runner) /\ inFlight' \in Nat
           /\ IsMap(jobCancels', Keys, DOMAIN runners')
           /\ RunnersBound' /\ ExecutesOnlyAfterSettlement'
<1>1. CASE UNCHANGED <<jobCancels, inFlight, runners>>
  BY <1>1 DEF IInv, TypeOK, RunnersBound, ExecutesOnlyAfterSettlement, Working
<1> DEFINE new == NewRunner(k, job)
<1>2. CASE /\ runners' = Append(runners, new)
           /\ jobCancels' = Put(jobCancels, k, Len(runners) + 1)
           /\ inFlight' = inFlight + 1
  <2>1. /\ new.key = k /\ new.invoice \in DOMAIN invoices /\ new.pc = "settle"
        /\ invoices[new.invoice].key = k /\ invoices[new.invoice].input = new.input
    BY DEF NewRunner, Bound
  <2>2. new \in Runner
    <3>1. invoices[new.invoice] \in Invoice
      BY <2>1 DEF IInv, TypeOK
    <3>2. new.input \in StreamIds
      BY <2>1, <3>1 DEF Invoice
    <3> QED BY <3>2 DEF NewRunner, Runner, RunnerStates, Job
  <2> HIDE DEF new
  <2>3. /\ runners' \in Seq(Runner) /\ Len(runners') = Len(runners) + 1
        /\ DOMAIN runners' = DOMAIN runners \cup {Len(runners) + 1}
        /\ runners'[Len(runners) + 1] = new
        /\ \A r \in DOMAIN runners : runners'[r] = runners[r]
    BY <1>2, <2>2 DEF IInv, TypeOK
  <2>4. IsMap(jobCancels, Keys, DOMAIN runners')
    BY <2>3 DEF IInv, TypeOK, IsMap
  <2>5. IsMap(jobCancels', Keys, DOMAIN runners')
    BY Zenon, <1>2, <2>3, <2>4, PutMap
  <2>6. RunnersBound'
    BY <2>1, <2>3 DEF IInv, RunnersBound
  <2>7. ExecutesOnlyAfterSettlement'
    BY <2>1, <2>3 DEF IInv, ExecutesOnlyAfterSettlement, Working
  <2> QED BY <1>2, <2>3, <2>5, <2>6, <2>7 DEF IInv, TypeOK
<1> QED BY <1>1, <1>2 DEF startJobRunner

\* The step of the inbound goroutine that ends a handler with startJobRunner.
LEMMA StartStep ==
    ASSUME IInv, inb.pc \in {"resend", "start"}, startJobRunner(inb.key, inb.job), inb' = Idle,
           UNCHANGED <<entries, jobs, now, manifests, invoices>>
    PROVE  IInv'
<1>1. /\ inb.key \in Keys /\ inb.job \in Job
      /\ Bound(invoices, inb.key, inb.job) /\ inb.job.invoice # 0
  BY InboundFields DEF IInv, TypeOK, CopyBound
<1>2. /\ runners' \in Seq(Runner) /\ inFlight' \in Nat
      /\ IsMap(jobCancels', Keys, DOMAIN runners')
      /\ RunnersBound' /\ ExecutesOnlyAfterSettlement'
  BY <1>1, startJobRunnerType
<1>3. inb' \in Inbound /\ CopyBound'
  BY DEF Inbound, Idle, CopyBound
<1>4. TermsBinding'
  BY DEF IInv, TermsBinding
<1>5. TypeOK'
  BY <1>2, <1>3 DEF IInv, TypeOK
<1> QED BY <1>2, <1>3, <1>4, <1>5 DEF IInv

LEMMA StartQuotedJobStep == ASSUME IInv, StartQuotedJob PROVE IInv'
  BY StartStep DEF StartQuotedJob

LEMMA ResendStep == ASSUME IInv, NEW sent \in BOOLEAN, Resend(sent) PROVE IInv'
<1>1. CASE startJobRunner(inb.key, inb.job)
  BY <1>1, StartStep DEF Resend
<1>2. CASE UNCHANGED <<jobCancels, inFlight, runners>>
  <2>1. inb' \in Inbound /\ CopyBound'
    BY DEF Resend, Inbound, Idle, CopyBound
  <2>2. /\ IsMap(entries', Keys \X MsgIds, Nat) /\ IsMap(jobs', Keys, Job) /\ TermsBinding'
    BY DEF Resend, IInv, TypeOK, TermsBinding
  <2> QED BY <1>2, <2>1, <2>2, StoreStep DEF Resend
<1> QED BY <1>1, <1>2 DEF Resend

LEMMA CreateInvoiceStep == ASSUME IInv, NEW created \in BOOLEAN, CreateInvoice(created) PROVE IInv'
<1>1. CASE inb' = Idle /\ UNCHANGED invoices
  <2>1. inb' \in Inbound /\ CopyBound'
    BY <1>1 DEF Inbound, Idle, CopyBound
  <2>2. /\ IsMap(entries', Keys \X MsgIds, Nat) /\ IsMap(jobs', Keys, Job) /\ TermsBinding'
    BY <1>1 DEF CreateInvoice, IInv, TypeOK, TermsBinding
  <2> QED BY <1>1, <2>1, <2>2, StoreStep DEF CreateInvoice
<1> DEFINE new == [key |-> inb.key, input |-> inb.input.id, cause |-> inb.msg,
                   at |-> inb.at, quoteExpiry |-> inb.at + QuoteTTL, results |-> 0,
                   expiry |-> now + InvoiceExpirySeconds, state |-> "created"]
           job == [state |-> "waiting_payment", input |-> inb.input,
                   quoteExpiry |-> inb.at + QuoteTTL,
                   invoice |-> Len(invoices) + 1, createdAt |-> 0]
<1>2. CASE /\ invoices' = Append(invoices, new)
           /\ inb' = [pc |-> "quote", key |-> inb.key, job |-> job]
  <2>1. /\ inb.key \in Keys /\ inb.input \in InputStream /\ inb.at \in Nat
        /\ inb.msg \in MsgIds /\ inb.input.id \in StreamIds /\ inb.input.validated
    BY Zenon, InboundFields DEF CreateInvoice, IInv, TypeOK, CopyBound
  <2>2. /\ invoices \in Seq(Invoice) /\ now \in Nat /\ InvoiceExpirySeconds \in Nat
        /\ inb.at + QuoteTTL \in Nat /\ Len(invoices) + 1 \in Nat \ {0}
    BY <2>1, ProviderAssumption DEF IInv, TypeOK, InvoiceExpirySeconds
  <2>3. new \in Invoice
    BY <2>1, <2>2 DEF Invoice
  <2>4. /\ job.state = "waiting_payment" /\ job.quoteExpiry = inb.at + QuoteTTL
        /\ job.input = inb.input /\ job.invoice = Len(invoices) + 1
    OBVIOUS
  <2>5. job \in Job
    BY <2>1, <2>2 DEF Job, JobStates, PendingStates
  <2>6. /\ new.key = inb.key /\ new.input = inb.input.id
        /\ new.quoteExpiry = inb.at + QuoteTTL /\ new.state = "created" /\ new.results = 0
    OBVIOUS
  <2> HIDE DEF new, job
  <2>7. /\ invoices' \in Seq(Invoice) /\ Len(invoices) + 1 \in DOMAIN invoices'
        /\ DOMAIN invoices' = DOMAIN invoices \cup {Len(invoices) + 1}
        /\ invoices'[Len(invoices) + 1] = new
        /\ \A i \in DOMAIN invoices : invoices'[i] = invoices[i]
    BY <1>2, <2>2, <2>3
  <2>8. InvoicesKept
    BY <2>7 DEF InvoicesKept
  <2>9. inb' \in Inbound
    BY <1>2, <2>1, <2>5 DEF Inbound
  <2>10. Bound(invoices', inb.key, job) /\ job.invoice = Len(invoices) + 1
    BY <2>1, <2>4, <2>6, <2>7 DEF Bound
  <2>11. CopyBound'
    BY <1>2, <2>2, <2>6, <2>7, <2>10 DEF CopyBound
  <2>12. TermsBinding'
    BY <2>8, BoundKept DEF CreateInvoice, IInv, TermsBinding
  <2>13. RunnersBound'
    BY <2>7 DEF CreateInvoice, IInv, RunnersBound
  <2>14. ExecutesOnlyAfterSettlement'
    BY <2>6, <2>7 DEF CreateInvoice, IInv, ExecutesOnlyAfterSettlement, Working
  <2>15. TypeOK'
    BY <2>7, <2>9 DEF CreateInvoice, IInv, TypeOK
  <2> QED BY <2>11, <2>12, <2>13, <2>14, <2>15 DEF IInv
<1> QED BY <1>1, <1>2 DEF CreateInvoice

LEMMA SendQuoteStep == ASSUME IInv, NEW sent \in BOOLEAN, SendQuote(sent) PROVE IInv'
<1>1. CASE inb' = Idle /\ UNCHANGED <<jobs, invoices>>
  <2>1. inb' \in Inbound /\ CopyBound'
    BY <1>1 DEF Inbound, Idle, CopyBound
  <2>2. /\ IsMap(entries', Keys \X MsgIds, Nat) /\ IsMap(jobs', Keys, Job) /\ TermsBinding'
    BY <1>1 DEF SendQuote, IInv, TypeOK, TermsBinding
  <2> QED BY <1>1, <2>1, <2>2, StoreStep DEF SendQuote
<1>2. CASE /\ invoices' = [invoices EXCEPT ![inb.job.invoice].state = "open"]
           /\ Upsert(inb.key, inb.job, now)
           /\ inb' = [inb EXCEPT !.pc = "start"]
  <2> DEFINE i == inb.job.invoice
  <2>1. /\ inb.pc = "quote" /\ inb.key \in Keys /\ inb.job \in Job
        /\ Bound(invoices, inb.key, inb.job) /\ i # 0 /\ invoices[i].state = "created"
    BY InboundFields DEF SendQuote, IInv, TypeOK, CopyBound
  <2>2. i \in DOMAIN invoices /\ \A x \in DOMAIN invoices : invoices[x] \in Invoice
    BY <2>1 DEF Bound, IInv, TypeOK
  <2>3. /\ DOMAIN invoices' = DOMAIN invoices /\ invoices' \in Seq(Invoice)
        /\ invoices'[i] = [invoices[i] EXCEPT !.state = "open"]
        /\ \A x \in DOMAIN invoices : x # i => invoices'[x] = invoices[x]
    <3>1. [invoices[i] EXCEPT !.state = "open"] \in Invoice
      BY <2>2 DEF Invoice
    <3> QED BY <1>2, <2>2, <3>1 DEF IInv, TypeOK
  <2> HIDE DEF i
  <2>a. /\ invoices'[i].key = invoices[i].key /\ invoices'[i].input = invoices[i].input
        /\ invoices'[i].quoteExpiry = invoices[i].quoteExpiry
        /\ invoices'[i].results = invoices[i].results
    BY <2>2, <2>3 DEF Invoice
  <2>4. InvoicesKept
    BY Zenon, <2>3, <2>a DEF InvoicesKept
  <2>5. IsMap(jobs', Keys, Job) /\ TermsBinding' /\ Bound(invoices', inb.key, inb.job)
    BY Zenon, <1>2, <2>1, <2>4, UpsertBound, BoundKept DEF IInv, TypeOK
  <2>6. inb = [pc |-> "quote", key |-> inb.key, job |-> inb.job]
    BY <2>1 DEF IInv, TypeOK, Inbound, Idle
  <2>7. inb' = [pc |-> "start", key |-> inb.key, job |-> inb.job]
    BY <1>2, <2>6
  <2>8. inb' \in Inbound /\ CopyBound'
    BY <2>1, <2>5, <2>7 DEF Inbound, CopyBound, i
  <2>9. RunnersBound'
    BY <2>2, <2>3, <2>4 DEF SendQuote, IInv, RunnersBound, InvoicesKept
  <2>10. invoices[i].results = 0
    BY <2>1, <2>2 DEF IInv, ExecutesOnlyAfterSettlement, Invoice
  <2>11. ExecutesOnlyAfterSettlement'
    <3>1. runners' = runners
      BY DEF SendQuote
    <3>2. ASSUME NEW r \in DOMAIN runners, Working(r)
          PROVE  runners[r].invoice \in DOMAIN invoices /\ runners[r].invoice # i
      BY <2>1, <3>2 DEF IInv, ExecutesOnlyAfterSettlement
    <3>3. \A x \in DOMAIN invoices : invoices'[x].results > 0 => invoices'[x].state = "settled"
      <4> TAKE x \in DOMAIN invoices
      <4>1. CASE x = i
        BY <2>a, <2>10, <4>1
      <4>2. CASE x # i
        BY <2>3, <4>2 DEF IInv, ExecutesOnlyAfterSettlement
      <4> QED BY <4>1, <4>2
    <3> QED BY <2>3, <3>1, <3>2, <3>3 DEF IInv, ExecutesOnlyAfterSettlement, Working
  <2>12. TypeOK'
    BY <2>3, <2>5, <2>8 DEF SendQuote, IInv, TypeOK
  <2> QED BY <2>5, <2>8, <2>9, <2>11, <2>12 DEF IInv
<1> QED BY <1>1, <1>2 DEF SendQuote

LEMMA handleCancelStep ==
    ASSUME IInv, NEW k \in Keys, NEW m \in MsgIds, handleCancel(k, m)
    PROVE  IInv'
<1>1. IsMap(entries', Keys \X MsgIds, Nat)
  BY Zenon, checkReplayType DEF handleCancel
<1>2. CASE Refuse
  BY <1>1, <1>2, RefuseStep
<1>3. CASE /\ inb' = [pc |-> "cancel", key |-> k]
           /\ UNCHANGED <<jobs, now, manifests, invoices>>
           /\ UNCHANGED <<runners, jobCancels, inFlight>>
  <2>1. inb' \in Inbound /\ CopyBound'
    BY <1>3 DEF Inbound, CopyBound
  <2>2. IsMap(jobs', Keys, Job) /\ TermsBinding'
    BY <1>3 DEF IInv, TypeOK, TermsBinding
  <2> QED BY <1>1, <1>3, <2>1, <2>2, StoreStep
<1>4. CASE /\ inb' = [pc |-> "cancel", key |-> k]
           /\ UNCHANGED <<jobs, now, manifests, invoices>>
           /\ k \in DOMAIN jobCancels
           /\ runners' = [runners EXCEPT ![jobCancels[k]].canceled = TRUE]
           /\ jobCancels' = Delete(jobCancels, k)
           /\ inFlight' = DecInFlight
  <2> DEFINE c == jobCancels[k]
  <2>1. c \in DOMAIN runners /\ \A r \in DOMAIN runners : runners[r] \in Runner
    BY <1>4 DEF IInv, TypeOK, IsMap
  <2>2. /\ DOMAIN runners' = DOMAIN runners /\ runners' \in Seq(Runner)
        /\ runners'[c] = [runners[c] EXCEPT !.canceled = TRUE]
        /\ \A r \in DOMAIN runners : r # c => runners'[r] = runners[r]
    <3>1. [runners[c] EXCEPT !.canceled = TRUE] \in Runner
      BY Zenon, <2>1 DEF Runner
    <3> QED BY <1>4, <2>1, <3>1 DEF IInv, TypeOK
  <2> HIDE DEF c
  <2>3. \A r \in DOMAIN runners :
           /\ runners'[r].key = runners[r].key /\ runners'[r].invoice = runners[r].invoice
           /\ runners'[r].input = runners[r].input /\ runners'[r].pc = runners[r].pc
    <3>1. /\ runners'[c].key = runners[c].key /\ runners'[c].invoice = runners[c].invoice
          /\ runners'[c].input = runners[c].input /\ runners'[c].pc = runners[c].pc
      BY <2>1, <2>2 DEF Runner
    <3> QED BY Zenon, <2>2, <3>1
  <2>4. IsMap(jobCancels', Keys, DOMAIN runners')
    BY Zenon, <1>4, <2>2, DeleteMap DEF IInv, TypeOK
  <2>5. inFlight' \in Nat
    BY <1>4 DEF DecInFlight, IInv, TypeOK
  <2>6. inb' \in Inbound /\ CopyBound'
    BY <1>4 DEF Inbound, CopyBound
  <2>7. TermsBinding'
    BY <1>4 DEF IInv, TermsBinding
  <2>8. RunnersBound' /\ ExecutesOnlyAfterSettlement'
    BY <1>4, <2>2, <2>3 DEF IInv, RunnersBound, ExecutesOnlyAfterSettlement, Working
  <2>9. TypeOK'
    BY <1>1, <1>4, <2>2, <2>4, <2>5, <2>6 DEF IInv, TypeOK
  <2> QED BY <2>6, <2>7, <2>8, <2>9 DEF IInv
<1> QED BY <1>2, <1>3, <1>4 DEF handleCancel

-----------------------------------------------------------------------------
(* The runners. *)

\* A runner's step is a move of that runner, with at most one change of the
\* state of its job, one result for its invoice, and the removal of a cancel
\* function when it ends.
Moves(r, to) ==
    /\ runners[r].pc # to
    /\ runners' = [runners EXCEPT ![r].pc = to]
    /\ UNCHANGED <<entries, now, manifests, inb>>
    /\ \/ UNCHANGED jobs
       \/ \E st \in JobStates \ {"awaiting_input"} : UpdateState(runners[r].key, st)
    /\ \/ UNCHANGED invoices
       \/ /\ Working(r)
          /\ invoices' = [invoices EXCEPT ![runners[r].invoice].results = @ + 1]
    /\ to \notin {"fail", "exit", "gone"} =>
           Working(r) \/ invoices[runners[r].invoice].state = "settled"
    /\ \/ to # "gone" /\ UNCHANGED <<jobCancels, inFlight>>
       \/ /\ to = "gone" /\ runners[r].key \in DOMAIN jobCancels
          /\ jobCancels' = Delete(jobCancels, runners[r].key) /\ inFlight' = DecInFlight
       \/ /\ to = "gone" /\ runners[r].key \notin DOMAIN jobCancels
          /\ UNCHANGED <<jobCancels, inFlight>>

LEMMA RunnerMoves ==
    ASSUME NEW r \in DOMAIN runners, Proceed(r) \/ Respond(r)
    PROVE  \E to \in RunnerStates : Moves(r, to)
<1> USE DEF RunnerStates
<1>1. CASE Settled(r)
  BY <1>1 DEF Settled, GotoWithState, Goto, Moves, JobStates
<1>2. CASE SettlementAborted(r)
  BY <1>2 DEF SettlementAborted, GotoAny, Goto, Moves
<1>3. CASE CheckContext(r)
  BY <1>3 DEF CheckContext, GotoAny, Goto, Moves, Working
<1>4. CASE StartExecution(r)
  BY <1>4 DEF StartExecution, GotoWithState, Goto, Moves, Working, JobStates
<1>5. CASE OpenResult(r)
  BY <1>5 DEF OpenResult, GotoAny, Goto, Moves, Working
<1>6. CASE Finish(r)
  BY <1>6 DEF Finish, GotoWithState, Goto, Moves, Working, JobStates
<1>7. CASE forgetJob(r)
  BY <1>7 DEF forgetJob, Moves
<1>8. CASE ExecutionFailed(r)
  BY <1>8 DEF ExecutionFailed, GotoAny, Goto, Moves, Working
<1>9. CASE SendFailed(r)
  BY <1>9 DEF SendFailed, GotoAny, Goto, Moves, Working
<1>10. CASE SettlementFailed(r)
  BY <1>10 DEF SettlementFailed, GotoAny, Goto, Moves
<1>11. CASE Executed(r)
  BY <1>11 DEF Executed, GotoWithState, GotoAny, Goto, Moves, Working, JobStates
<1>12. CASE ResultSent(r)
  BY <1>12 DEF ResultSent, Goto, Moves, Working
<1> QED
  BY <1>1, <1>2, <1>3, <1>4, <1>5, <1>6, <1>7, <1>8, <1>9, <1>10, <1>11, <1>12
  DEF Proceed, Respond

\* What a runner's step leaves of the runners and the invoices.
LEMMA MovesKeep ==
    ASSUME IInv, NEW r \in DOMAIN runners, NEW to \in RunnerStates, Moves(r, to)
    PROVE  /\ DOMAIN runners' = DOMAIN runners /\ runners' \in Seq(Runner)
           /\ runners'[r].pc = to
           /\ \A x \in DOMAIN runners :
                 /\ x # r => runners'[x] = runners[x]
                 /\ runners'[x].key = runners[x].key
                 /\ runners'[x].invoice = runners[x].invoice
                 /\ runners'[x].input = runners[x].input
                 /\ runners'[x].canceled = runners[x].canceled
           /\ InvoicesKept /\ invoices' \in Seq(Invoice) /\ DOMAIN invoices' = DOMAIN invoices
           /\ \A i \in DOMAIN invoices :
                 /\ invoices'[i].state = invoices[i].state
                 /\ invoices'[i].results > 0 =>
                       invoices[i].results > 0 \/ invoices[i].state = "settled"
<1>1. \A x \in DOMAIN runners : runners[x] \in Runner
  BY DEF IInv, TypeOK
<1>2. /\ DOMAIN runners' = DOMAIN runners
      /\ runners'[r] = [runners[r] EXCEPT !.pc = to]
      /\ \A x \in DOMAIN runners : x # r => runners'[x] = runners[x]
  BY DEF Moves, IInv, TypeOK
<1>3. runners'[r] \in Runner
  BY <1>1, <1>2 DEF Runner
<1>4. runners' \in Seq(Runner)
  BY <1>3 DEF Moves, IInv, TypeOK
<1>5. /\ runners'[r].key = runners[r].key /\ runners'[r].invoice = runners[r].invoice
      /\ runners'[r].input = runners[r].input /\ runners'[r].canceled = runners[r].canceled
      /\ runners'[r].pc = to
  BY <1>1, <1>2 DEF Runner
<1>6. /\ InvoicesKept /\ invoices' \in Seq(Invoice) /\ DOMAIN invoices' = DOMAIN invoices
      /\ \A i \in DOMAIN invoices :
            /\ invoices'[i].state = invoices[i].state
            /\ invoices'[i].results > 0 =>
                  invoices[i].results > 0 \/ invoices[i].state = "settled"
  <2>1. CASE UNCHANGED invoices
    BY <2>1, InvoicesSame DEF IInv, TypeOK
  <2> DEFINE c == runners[r].invoice
  <2>2. CASE Working(r) /\ invoices' = [invoices EXCEPT ![c].results = @ + 1]
    <3>1. /\ c \in DOMAIN invoices /\ invoices[c].state = "settled"
          /\ \A i \in DOMAIN invoices : invoices[i] \in Invoice
      BY <2>2 DEF IInv, TypeOK, ExecutesOnlyAfterSettlement
    <3> HIDE DEF c
    <3>2. /\ DOMAIN invoices' = DOMAIN invoices
          /\ invoices'[c] = [invoices[c] EXCEPT !.results = @ + 1]
          /\ \A i \in DOMAIN invoices : i # c => invoices'[i] = invoices[i]
      BY <2>2, <3>1
    <3>3. /\ invoices'[c] \in Invoice
          /\ invoices'[c].state = invoices[c].state /\ invoices'[c].key = invoices[c].key
          /\ invoices'[c].input = invoices[c].input
          /\ invoices'[c].quoteExpiry = invoices[c].quoteExpiry
      BY <3>1, <3>2 DEF Invoice
    <3>4. invoices' \in Seq(Invoice)
      BY <2>2, <3>1, <3>3, <3>2 DEF IInv, TypeOK
    <3>5. InvoicesKept
      BY Zenon, <3>2, <3>3 DEF InvoicesKept
    <3> QED BY Zenon, <3>1, <3>2, <3>3, <3>4, <3>5
  <2> QED BY <2>1, <2>2 DEF Moves
<1> QED BY Zenon, <1>2, <1>4, <1>5, <1>6

LEMMA MovesStep ==
    ASSUME IInv, NEW r \in DOMAIN runners, NEW to \in RunnerStates, Moves(r, to)
    PROVE  IInv'
<1> USE MovesKeep
<1>1. IsMap(jobs', Keys, Job) /\ TermsBinding'
  <2>1. CASE UNCHANGED jobs
    BY <2>1, BoundKept DEF IInv, TypeOK, TermsBinding
  <2>2. CASE \E st \in JobStates \ {"awaiting_input"} : UpdateState(runners[r].key, st)
    BY <2>2, UpdateStateBound DEF IInv, TypeOK
  <2> QED BY <2>1, <2>2 DEF Moves
<1>2. CopyBound'
  <2>1. Bound(invoices, inb.key, inb.job) => Bound(invoices', inb.key, inb.job)
    BY Zenon, BoundKept
  <2>2. inb' = inb
    BY DEF Moves
  <2>3. inb.pc = "quote" => inb.job.invoice \in DOMAIN invoices
    BY DEF IInv, CopyBound, Bound
  <2>4. inb.pc = "quote" => invoices'[inb.job.invoice].state = "created"
    BY <2>3 DEF IInv, CopyBound
  <2> QED BY Zenon, <2>1, <2>2, <2>4 DEF IInv, CopyBound
<1>3. RunnersBound'
  BY DEF IInv, RunnersBound, InvoicesKept
<1>4. ExecutesOnlyAfterSettlement'
  <2>1. ASSUME NEW x \in DOMAIN runners, Working(x)'
        PROVE  invoices[runners[x].invoice].state = "settled"
    <3>1. CASE x # r
      BY Zenon, <2>1, <3>1 DEF IInv, ExecutesOnlyAfterSettlement, Working
    <3>2. CASE x = r
      <4>1. to \notin {"fail", "exit", "gone"}
        BY <2>1, <3>2 DEF Working
      <4> QED BY <3>2, <4>1 DEF Moves, IInv, ExecutesOnlyAfterSettlement
    <3> QED BY <3>1, <3>2
  <2>2. \A i \in DOMAIN invoices' : invoices'[i].results > 0 => invoices'[i].state = "settled"
    BY DEF IInv, ExecutesOnlyAfterSettlement
  <2>3. ASSUME NEW x \in DOMAIN runners', Working(x)'
        PROVE  invoices'[runners'[x].invoice].state = "settled"
    <3>1. /\ x \in DOMAIN runners /\ runners'[x].invoice = runners[x].invoice
          /\ runners[x].invoice \in DOMAIN invoices
      BY <2>3 DEF IInv, RunnersBound
    <3> QED BY <2>1, <2>3, <3>1
  <2> QED BY <1>3, <2>2, <2>3 DEF RunnersBound, ExecutesOnlyAfterSettlement
<1>5. IsMap(jobCancels', Keys, DOMAIN runners') /\ inFlight' \in Nat
  <2>1. CASE UNCHANGED <<jobCancels, inFlight>>
    BY <2>1 DEF IInv, TypeOK
  <2>2. CASE jobCancels' = Delete(jobCancels, runners[r].key) /\ inFlight' = DecInFlight
    <3>1. IsMap(jobCancels', Keys, DOMAIN runners)
      BY Zenon, <2>2, DeleteMap DEF IInv, TypeOK
    <3>2. inFlight' \in Nat
      BY <2>2 DEF IInv, TypeOK, DecInFlight
    <3> QED BY <3>1, <3>2
  <2> QED BY <2>1, <2>2 DEF Moves
<1>6. TypeOK'
  BY Zenon, <1>1, <1>5 DEF IInv, TypeOK, Moves
<1> QED BY <1>1, <1>2, <1>3, <1>4, <1>6 DEF IInv

-----------------------------------------------------------------------------
(* The environment, and the theorems. *)

LEMMA SettleInvoiceStep ==
    ASSUME IInv, NEW i \in DOMAIN invoices, SettleInvoice(i)
    PROVE  IInv'
<1>1. \A x \in DOMAIN invoices : invoices[x] \in Invoice
  BY DEF IInv, TypeOK
<1>2. /\ DOMAIN invoices' = DOMAIN invoices
      /\ invoices'[i] = [invoices[i] EXCEPT !.state = "settled"]
      /\ \A x \in DOMAIN invoices : x # i => invoices'[x] = invoices[x]
  BY DEF SettleInvoice, IInv, TypeOK
<1>3. /\ invoices'[i] \in Invoice /\ invoices'[i].state = "settled"
      /\ invoices'[i].key = invoices[i].key /\ invoices'[i].input = invoices[i].input
      /\ invoices'[i].quoteExpiry = invoices[i].quoteExpiry
  BY <1>1, <1>2 DEF Invoice
<1>4. invoices' \in Seq(Invoice)
  BY <1>3 DEF SettleInvoice, IInv, TypeOK
<1>5. InvoicesKept
  BY Zenon, <1>2, <1>3 DEF InvoicesKept
<1>6. TermsBinding'
  BY Zenon, <1>5, BoundKept DEF SettleInvoice, IInv, TermsBinding
<1>7. CopyBound'
  <2>1. Bound(invoices, inb.key, inb.job) => Bound(invoices', inb.key, inb.job)
    BY <1>5, BoundKept
  <2>2. inb' = inb /\ invoices[i].state = "open"
    BY DEF SettleInvoice
  <2>3. inb.pc = "quote" => inb.job.invoice \in DOMAIN invoices /\ inb.job.invoice # i
    BY <2>2 DEF IInv, CopyBound, Bound
  <2> QED BY <1>2, <2>1, <2>2, <2>3 DEF IInv, CopyBound
<1>8. RunnersBound'
  BY <1>2, <1>3 DEF SettleInvoice, IInv, RunnersBound
<1>9. ExecutesOnlyAfterSettlement'
  BY <1>2, <1>3 DEF SettleInvoice, IInv, ExecutesOnlyAfterSettlement, Working
<1>10. TypeOK'
  BY <1>4 DEF SettleInvoice, IInv, TypeOK
<1> QED BY <1>6, <1>7, <1>8, <1>9, <1>10 DEF IInv

LEMMA IdleStep ==
    ASSUME IInv, UNCHANGED <<entries, jobs, inb, jobCancels, inFlight, runners, invoices>>,
           now' \in Nat, manifests' \in SUBSET Peers
    PROVE  IInv'
  BY DEF IInv, TypeOK, TermsBinding, CopyBound, RunnersBound, ExecutesOnlyAfterSettlement,
         Working

\* Every step keeps the inductive invariant.
LEMMA NextIInv == ASSUME IInv, [Next]_vars PROVE IInv'
<1>1. CASE Receive
  BY <1>1, handleQuoteRequestStep, handleStreamBeginStep, handleStreamEndStep,
     handleCancelStep DEF Receive
<1>2. CASE ReceiveChunk
  BY <1>2, handleStreamChunkStep DEF ReceiveChunk
<1>3. CASE Continue
  BY <1>3, UpsertCopyStep, StartQuotedJobStep, MarkCanceledStep, ResendStep,
     CreateInvoiceStep, SendQuoteStep DEF Continue
<1>4. CASE \E r \in DOMAIN runners : Proceed(r) \/ Respond(r)
  BY <1>4, RunnerMoves, MovesStep
<1>5. CASE \E i \in DOMAIN invoices : SettleInvoice(i)
  BY <1>5, SettleInvoiceStep
<1>6. CASE \E p \in Peers : PeerChange(p)
  BY <1>6, IdleStep DEF PeerChange, IInv, TypeOK
<1>7. CASE Tick
  BY <1>7, IdleStep DEF Tick, IInv, TypeOK
<1>8. CASE UNCHANGED vars
  BY <1>8, IdleStep DEF vars, IInv, TypeOK
<1> QED
  BY <1>1, <1>2, <1>3, <1>4, <1>5, <1>6, <1>7, <1>8 DEF Next

THEOREM Invariance == Spec => []IInv
  BY InitIInv, NextIInv, PTL DEF Spec

\* The variables keep their types, and every registered cancel function is
\* that of a runner that was started.
THEOREM TypeCorrect == Spec => []TypeOK
<1>1. IInv => TypeOK
  BY DEF IInv
<1> QED BY <1>1, Invariance, PTL

\* No job is executed, and no result sent, before the invoice for this very
\* job and input is settled (WaitForSettlement in runJob).
THEOREM SettlementFirst == Spec => []ExecutesOnlyAfterSettlement
<1>1. IInv => ExecutesOnlyAfterSettlement
  BY DEF IInv
<1> QED BY <1>1, Invariance, PTL

\* Every stored quote is bound to the key, the input and the expiry that its
\* invoice was created for (createInvoiceAndStartQuoteJob).
THEOREM QuotesBound == Spec => []TermsBinding
<1>1. IInv => TermsBinding
  BY DEF IInv
<1> QED BY <1>1, Invariance, PTL

-----------------------------------------------------------------------------
(* The shared tables: the cancel functions and the counter of jobs in flight, *)
(* the quotes in the job store, the capacities.                             *)

\* The number of cancel functions is that of a finite set.
CancelInv == CancelEntriesLive /\ IsFiniteSet(DOMAIN jobCancels)

\* A step that leaves the table alone and cancels or ends no runner in it.
LEMMA CancelsSame ==
    ASSUME IInv, CancelInv, UNCHANGED <<jobCancels, inFlight>>,
           \A k \in DOMAIN jobCancels : jobCancels[k] \in DOMAIN runners =>
               /\ runners'[jobCancels[k]].key = k
               /\ runners'[jobCancels[k]].pc # "gone"
               /\ ~ runners'[jobCancels[k]].canceled
    PROVE  CancelInv'
<1>1. \A k \in DOMAIN jobCancels : jobCancels[k] \in DOMAIN runners
  BY DEF IInv, TypeOK, IsMap
<1> QED BY <1>1 DEF CancelInv, CancelEntriesLive

LEMMA RunnersSame ==
    ASSUME IInv, CancelInv, UNCHANGED <<jobCancels, inFlight, runners>>
    PROVE  CancelInv'
  BY DEF CancelInv, CancelEntriesLive

LEMMA startJobRunnerCancels ==
    ASSUME IInv, CancelInv, NEW k, NEW job, startJobRunner(k, job)
    PROVE  CancelInv'
<1>1. CASE UNCHANGED <<jobCancels, inFlight, runners>>
  BY <1>1, RunnersSame
<1> DEFINE new == NewRunner(k, job)
<1>2. CASE /\ k \notin DOMAIN jobCancels
           /\ runners' = Append(runners, new)
           /\ jobCancels' = Put(jobCancels, k, Len(runners) + 1)
           /\ inFlight' = inFlight + 1
  <2>1. new.key = k /\ new.pc = "settle" /\ new.canceled = FALSE
    BY DEF NewRunner
  <2> HIDE DEF new
  <2>2. /\ runners'[Len(runners) + 1] = new
        /\ \A r \in DOMAIN runners : runners'[r] = runners[r]
    BY <1>2 DEF IInv, TypeOK
  <2>3. /\ DOMAIN jobCancels' = DOMAIN jobCancels \cup {k}
        /\ jobCancels'[k] = Len(runners) + 1
        /\ \A x \in DOMAIN jobCancels : x # k => jobCancels'[x] = jobCancels[x]
    BY <1>2 DEF Put
  <2>4. \A x \in DOMAIN jobCancels : jobCancels[x] \in DOMAIN runners
    BY DEF IInv, TypeOK, IsMap
  <2>5. \A x \in DOMAIN jobCancels' :
           LET r == runners'[jobCancels'[x]] IN r.key = x /\ r.pc # "gone" /\ ~ r.canceled
    BY <1>2, <2>1, <2>2, <2>3, <2>4 DEF CancelInv, CancelEntriesLive
  <2>6. /\ IsFiniteSet(DOMAIN jobCancels')
        /\ Cardinality(DOMAIN jobCancels') = Cardinality(DOMAIN jobCancels) + 1
    BY <1>2, <2>3, FS_AddElement DEF CancelInv
  <2> QED BY Zenon, <1>2, <2>5, <2>6 DEF CancelInv, CancelEntriesLive
<1> QED BY <1>1, <1>2 DEF startJobRunner

\* The entry of a key is deleted and the counter goes down with it.
LEMMA DeleteCancel ==
    ASSUME IInv, CancelInv, NEW k \in DOMAIN jobCancels,
           jobCancels' = Delete(jobCancels, k), inFlight' = DecInFlight,
           \A x \in DOMAIN jobCancels : x # k => runners'[jobCancels[x]] = runners[jobCancels[x]]
    PROVE  CancelInv'
<1>1. /\ DOMAIN jobCancels' = DOMAIN jobCancels \ {k}
      /\ \A x \in DOMAIN jobCancels : x # k => jobCancels'[x] = jobCancels[x]
  BY DEF Delete, Restrict
<1>2. /\ IsFiniteSet(DOMAIN jobCancels')
      /\ Cardinality(DOMAIN jobCancels') = Cardinality(DOMAIN jobCancels) - 1
  BY <1>1, FS_RemoveElement DEF CancelInv
<1>3. Cardinality(DOMAIN jobCancels') \in Nat /\ Cardinality(DOMAIN jobCancels) \in Nat
  BY <1>2, FS_CardinalityType DEF CancelInv
<1>4. inFlight' = Cardinality(DOMAIN jobCancels')
  BY <1>2, <1>3 DEF CancelInv, CancelEntriesLive, DecInFlight
<1> QED BY <1>1, <1>2, <1>4 DEF CancelInv, CancelEntriesLive

\* Different keys have different runners.
LEMMA CancelsDistinct ==
    ASSUME CancelInv, NEW k \in DOMAIN jobCancels, NEW x \in DOMAIN jobCancels, x # k
    PROVE  jobCancels[x] # jobCancels[k]
  BY DEF CancelInv, CancelEntriesLive

LEMMA handleCancelCancels ==
    ASSUME IInv, CancelInv, NEW k \in Keys, NEW m \in MsgIds, handleCancel(k, m)
    PROVE  CancelInv'
<1>1. CASE UNCHANGED <<jobCancels, inFlight, runners>>
  BY <1>1, RunnersSame
<1>2. CASE /\ k \in DOMAIN jobCancels
           /\ runners' = [runners EXCEPT ![jobCancels[k]].canceled = TRUE]
           /\ jobCancels' = Delete(jobCancels, k)
           /\ inFlight' = DecInFlight
  <2>1. \A x \in DOMAIN jobCancels : jobCancels[x] \in DOMAIN runners
    BY DEF IInv, TypeOK, IsMap
  <2>2. \A x \in DOMAIN jobCancels : x # k => runners'[jobCancels[x]] = runners[jobCancels[x]]
    BY <1>2, <2>1, CancelsDistinct
  <2> QED BY Zenon, <1>2, <2>2, DeleteCancel
<1> QED BY <1>1, <1>2 DEF handleCancel, Refuse

LEMMA MovesCancels ==
    ASSUME IInv, CancelInv, NEW r \in DOMAIN runners, NEW to \in RunnerStates, Moves(r, to)
    PROVE  CancelInv'
<1>1. \A x \in DOMAIN jobCancels : jobCancels[x] \in DOMAIN runners
  BY DEF IInv, TypeOK, IsMap
<1>2. CASE to # "gone" /\ UNCHANGED <<jobCancels, inFlight>>
  <2>1. ASSUME NEW k \in DOMAIN jobCancels
        PROVE  /\ runners'[jobCancels[k]].key = k
               /\ runners'[jobCancels[k]].pc # "gone"
               /\ ~ runners'[jobCancels[k]].canceled
    BY <1>1, <1>2, MovesKeep DEF CancelInv, CancelEntriesLive
  <2> QED BY <1>2, <2>1, CancelsSame
<1>3. CASE /\ runners[r].key \in DOMAIN jobCancels
           /\ jobCancels' = Delete(jobCancels, runners[r].key) /\ inFlight' = DecInFlight
  <2>1. ASSUME NEW x \in DOMAIN jobCancels, x # runners[r].key
        PROVE  runners'[jobCancels[x]] = runners[jobCancels[x]]
    <3>1. jobCancels[x] # r
      BY <2>1 DEF CancelInv, CancelEntriesLive
    <3> QED BY <1>1, <3>1, MovesKeep
  <2> QED BY <1>3, <2>1, DeleteCancel
<1>4. CASE runners[r].key \notin DOMAIN jobCancels /\ UNCHANGED <<jobCancels, inFlight>>
  <2>1. \A x \in DOMAIN jobCancels : jobCancels[x] # r
    BY <1>4 DEF CancelInv, CancelEntriesLive
  <2>2. \A x \in DOMAIN jobCancels : runners'[jobCancels[x]] = runners[jobCancels[x]]
    BY <1>1, <2>1, MovesKeep
  <2>3. ASSUME NEW x \in DOMAIN jobCancels
        PROVE  /\ runners'[jobCancels[x]].key = x
               /\ runners'[jobCancels[x]].pc # "gone"
               /\ ~ runners'[jobCancels[x]].canceled
    BY <2>2 DEF CancelInv, CancelEntriesLive
  <2> QED BY <1>4, <2>3, CancelsSame
<1> QED BY <1>2, <1>3, <1>4 DEF Moves

LEMMA NextCancels == ASSUME IInv, CancelInv, [Next]_vars PROVE CancelInv'
<1>1. CASE Receive
  <2>1. CASE \E k \in Keys, m \in MsgIds : handleCancel(k, m)
    BY <2>1, handleCancelCancels
  <2>2. CASE UNCHANGED <<jobCancels, inFlight, runners>>
    BY <2>2, RunnersSame
  <2> QED BY <1>1, <2>1, <2>2 DEF Receive, handleQuoteRequest, handleStreamBegin,
             handleStreamEnd, Refuse, ReadThenUpsert
<1>2. CASE ReceiveChunk
  BY <1>2, RunnersSame DEF ReceiveChunk, handleStreamChunk, ReadThenUpsert
<1>3. CASE Continue
  <2>1. CASE startJobRunner(inb.key, inb.job)
    BY <2>1, startJobRunnerCancels
  <2>2. CASE UNCHANGED <<jobCancels, inFlight, runners>>
    BY <2>2, RunnersSame
  <2> QED BY <1>3, <2>1, <2>2 DEF Continue, UpsertCopy, StartQuotedJob, MarkCanceled, Resend,
             CreateInvoice, SendQuote
<1>4. CASE \E r \in DOMAIN runners : Proceed(r) \/ Respond(r)
  BY <1>4, RunnerMoves, MovesCancels
<1>5. CASE UNCHANGED <<jobCancels, inFlight, runners>>
  BY <1>5, RunnersSame
<1> QED
  BY <1>1, <1>2, <1>3, <1>4, <1>5 DEF Next, SettleInvoice, PeerChange, Tick, vars

\* inFlight is the number of registered cancel functions, each of which is
\* that of a live runner of its job, whatever handlers and runners do
\* (startJobRunner, cancelJob, forgetJob).
THEOREM CancelsCorrect == Spec => []CancelEntriesLive
<1>1. Init => CancelInv
  BY FS_EmptySet DEF Init, CancelInv, CancelEntriesLive, EmptyMap
<1>2. CancelInv => CancelEntriesLive
  BY DEF CancelInv
<1> QED BY <1>1, <1>2, NextCancels, Invariance, PTL DEF Spec

-----------------------------------------------------------------------------
(* The quotes in the job store. *)

\* As long as the inbound goroutine is about to store a job, the stored one
\* has no quote, or the same.
QuoteHeld ==
    /\ inb.pc \in {"invoice", "quote"} /\ inb.key \in DOMAIN jobs =>
           jobs[inb.key].invoice = 0
    /\ inb.pc = "upsert" /\ inb.key \in DOMAIN jobs =>
           jobs[inb.key].invoice \in {0, inb.job.invoice}

\* No job loses or changes its quote in this step.
QuotesKept ==
    \A k \in DOMAIN jobs \cap DOMAIN jobs' :
        jobs[k].invoice # 0 => jobs'[k].invoice = jobs[k].invoice

LEMMA UpsertQuotes ==
    ASSUME IInv, NEW k \in Keys, NEW job \in Job, NEW t \in Nat, Upsert(k, job, t),
           k \in DOMAIN jobs => jobs[k].invoice \in {0, job.invoice}
    PROVE  QuotesKept
<1>1. Stamp(job, t) \in Job /\ Stamp(job, t).invoice = job.invoice
  BY DEF Stamp, Job
<1>2. \A x \in DOMAIN jobs' : jobs'[x] = IF x = k THEN Stamp(job, t) ELSE jobs[x]
  BY <1>1, UpsertResult DEF IInv, TypeOK
<1> QED BY <1>1, <1>2 DEF QuotesKept

\* UpdateState leaves every quote as it is.
LEMMA UpdateStateQuotes ==
    ASSUME IInv, NEW k, NEW st, UpdateState(k, st)
    PROVE  DOMAIN jobs' = DOMAIN jobs /\ \A x \in DOMAIN jobs : jobs'[x].invoice = jobs[x].invoice
<1>1. \A x \in DOMAIN jobs : jobs[x] \in Job
  BY DEF IInv, TypeOK, IsMap
<1>2. CASE k \in DOMAIN jobs
  <2>1. /\ DOMAIN jobs' = DOMAIN jobs
        /\ jobs'[k] = [jobs[k] EXCEPT !.state = st]
        /\ \A x \in DOMAIN jobs : x # k => jobs'[x] = jobs[x]
    BY <1>2 DEF UpdateState
  <2>2. jobs'[k].invoice = jobs[k].invoice
    BY <1>1, <1>2, <2>1 DEF Job
  <2> QED BY Zenon, <2>1, <2>2
<1> QED BY <1>2 DEF UpdateState

LEMMA ReadQuotes ==
    ASSUME IInv, NEW k \in DOMAIN jobs, NEW job, NEW requote, ReadThenUpsert(k, job, requote),
           job.invoice = jobs[k].invoice
    PROVE  QuotesKept /\ QuoteHeld'
  BY DEF ReadThenUpsert, QuotesKept, QuoteHeld

LEMMA ReceiveQuotes == ASSUME IInv, Receive PROVE QuotesKept /\ QuoteHeld'
<1>1. \A k \in DOMAIN jobs : jobs[k] \in Job
  BY DEF IInv, TypeOK, IsMap
<1>2. inb = Idle
  <2>1. ASSUME NEW k, NEW m, NEW b, handleQuoteRequest(k, m, b) PROVE inb = Idle
    BY <2>1 DEF handleQuoteRequest, checkReplay
  <2>2. ASSUME NEW k, NEW m, NEW s, NEW t, NEW b, handleStreamBegin(k, m, s, t, b) PROVE inb = Idle
    BY <2>2 DEF handleStreamBegin, checkReplay
  <2>3. ASSUME NEW k, NEW m, NEW s, NEW b, handleStreamEnd(k, m, s, b) PROVE inb = Idle
    BY <2>3 DEF handleStreamEnd, checkReplay
  <2>4. ASSUME NEW k, NEW m, handleCancel(k, m) PROVE inb = Idle
    BY <2>4 DEF handleCancel, checkReplay
  <2> QED BY <2>1, <2>2, <2>3, <2>4 DEF Receive
<1>3. CASE Refuse
  BY <1>2, <1>3 DEF Refuse, QuotesKept, QuoteHeld, Idle
<1>4. ASSUME NEW k \in Keys, NEW m \in MsgIds, NEW matches \in BOOLEAN,
             handleQuoteRequest(k, m, matches), ~ Refuse
      PROVE  QuotesKept /\ QuoteHeld'
  <2>1. CASE k \notin DOMAIN jobs /\ Upsert(k, NewJob, now) /\ UNCHANGED inb
    <3>1. NewJob \in Job /\ now \in Nat
      BY ProviderAssumption DEF NewJob, Job, JobStates, PendingStates, NewInput, InputStream,
                                IInv, TypeOK
    <3> QED BY <1>2, <2>1, <3>1, UpsertQuotes DEF QuoteHeld, Idle
  <2>2. CASE k \in DOMAIN jobs /\ ReadThenUpsert(k, jobs[k], TRUE)
    BY Zenon, <2>2, ReadQuotes
  <2> QED BY Zenon, <1>4, <2>1, <2>2 DEF handleQuoteRequest
<1>5. ASSUME NEW k \in Keys, NEW m \in MsgIds, NEW s \in StreamIds, NEW total \in 1..MaxLen,
             NEW wellFormed \in BOOLEAN, handleStreamBegin(k, m, s, total, wellFormed), ~ Refuse
      PROVE  QuotesKept /\ QuoteHeld'
  <2> DEFINE job == [jobs[k] EXCEPT !.input = NewInput(s, total)]
  <2>1. k \in DOMAIN jobs /\ ReadThenUpsert(k, job, FALSE)
    BY Zenon, <1>5 DEF handleStreamBegin
  <2>2. job.invoice = jobs[k].invoice
    BY <1>1, <2>1 DEF Job
  <2> QED BY Zenon, <2>1, <2>2, ReadQuotes
<1>6. ASSUME NEW k \in Keys, NEW m \in MsgIds, NEW s \in StreamIds, NEW valid \in BOOLEAN,
             handleStreamEnd(k, m, s, valid), ~ Refuse
      PROVE  QuotesKept /\ QuoteHeld'
  <2>1. /\ k \in DOMAIN jobs /\ jobs[k].state = "awaiting_input" /\ UNCHANGED jobs
        /\ inb'.pc = "invoice" /\ inb'.key = k
    BY <1>6 DEF handleStreamEnd, Receiving
  <2>2. jobs[k].invoice = 0
    BY <2>1 DEF IInv, TermsBinding, Bound
  <2> QED BY <2>1, <2>2 DEF QuotesKept, QuoteHeld
<1>7. ASSUME NEW k \in Keys, NEW m \in MsgIds, handleCancel(k, m), ~ Refuse
      PROVE  QuotesKept /\ QuoteHeld'
  BY <1>7 DEF handleCancel, QuotesKept, QuoteHeld
<1> QED BY <1>3, <1>4, <1>5, <1>6, <1>7 DEF Receive

LEMMA ReceiveChunkQuotes == ASSUME IInv, ReceiveChunk PROVE QuotesKept /\ QuoteHeld'
<1>1. PICK k \in Keys, s \in StreamIds, seq \in 0..MaxLen, good \in BOOLEAN :
          handleStreamChunk(k, s, seq, good)
  BY DEF ReceiveChunk
<1> DEFINE job == [jobs[k] EXCEPT !.input.seq = @ + 1, !.input.clean = @ /\ good]
<1>2. k \in DOMAIN jobs /\ ReadThenUpsert(k, job, FALSE)
  BY Zenon, <1>1 DEF handleStreamChunk, Receiving
<1>3. jobs[k] \in Job
  BY <1>2 DEF IInv, TypeOK, IsMap
<1>4. job.invoice = jobs[k].invoice
  BY <1>3 DEF Job
<1> QED BY Zenon, <1>2, <1>4, ReadQuotes

LEMMA ContinueQuotes == ASSUME IInv, QuoteHeld, Continue PROVE QuotesKept /\ QuoteHeld'
<1>1. CASE UpsertCopy
  <2>1. inb.key \in Keys /\ inb.job \in Job /\ now \in Nat
    BY Zenon, <1>1, InboundFields DEF UpsertCopy, IInv, TypeOK
  <2>2. inb'.pc \in {"idle", "resend"}
    BY <1>1 DEF UpsertCopy, Idle
  <2>3. QuotesKept
    BY <1>1, <2>1, UpsertQuotes DEF UpsertCopy, QuoteHeld
  <2> QED BY <2>2, <2>3 DEF QuoteHeld
<1>2. CASE StartQuotedJob
  BY <1>2 DEF StartQuotedJob, QuotesKept, QuoteHeld, Idle
<1>3. CASE MarkCanceled
  BY <1>3, UpdateStateQuotes DEF MarkCanceled, QuotesKept, QuoteHeld, Idle
<1>4. ASSUME NEW ok \in BOOLEAN, Resend(ok) PROVE QuotesKept /\ QuoteHeld'
  BY <1>4 DEF Resend, QuotesKept, QuoteHeld, Idle
<1>5. ASSUME NEW ok \in BOOLEAN, CreateInvoice(ok) PROVE QuotesKept /\ QuoteHeld'
  <2>1. jobs' = jobs /\ inb.pc = "invoice"
    BY <1>5 DEF CreateInvoice
  <2>2. inb' = Idle \/ (inb'.pc = "quote" /\ inb'.key = inb.key)
    BY <1>5 DEF CreateInvoice
  <2> QED BY <2>1, <2>2 DEF QuotesKept, QuoteHeld, Idle
<1>6. ASSUME NEW ok \in BOOLEAN, SendQuote(ok) PROVE QuotesKept /\ QuoteHeld'
  <2>1. /\ inb.key \in Keys /\ inb.job \in Job /\ now \in Nat
        /\ inb = [pc |-> "quote", key |-> inb.key, job |-> inb.job]
    BY <1>6, InboundFields DEF SendQuote, IInv, TypeOK, Inbound, Idle
  <2>2. CASE inb' = Idle /\ UNCHANGED jobs
    BY <2>2 DEF QuotesKept, QuoteHeld, Idle
  <2>3. CASE Upsert(inb.key, inb.job, now) /\ inb' = [inb EXCEPT !.pc = "start"]
    <3>1. inb'.pc = "start"
      BY <2>1, <2>3
    <3>2. QuotesKept
      BY <2>1, <2>3, UpsertQuotes DEF QuoteHeld
    <3> QED BY <3>1, <3>2 DEF QuoteHeld
  <2> QED BY <1>6, <2>2, <2>3 DEF SendQuote
<1> QED BY <1>1, <1>2, <1>3, <1>4, <1>5, <1>6 DEF Continue

LEMMA NextQuotes == ASSUME IInv, QuoteHeld, [Next]_vars PROVE QuotesKept /\ QuoteHeld'
<1>1. CASE \E r \in DOMAIN runners : Proceed(r) \/ Respond(r)
  <2>1. PICK r \in DOMAIN runners, to \in RunnerStates : Moves(r, to)
    BY <1>1, RunnerMoves
  <2>2. /\ DOMAIN jobs' = DOMAIN jobs /\ inb' = inb
        /\ \A x \in DOMAIN jobs : jobs'[x].invoice = jobs[x].invoice
    BY <2>1, UpdateStateQuotes DEF Moves
  <2> QED BY <2>2 DEF QuotesKept, QuoteHeld
<1>2. CASE UNCHANGED <<jobs, inb>>
  BY <1>2 DEF QuotesKept, QuoteHeld
<1> QED
  BY <1>1, <1>2, ReceiveQuotes, ReceiveChunkQuotes, ContinueQuotes
  DEF Next, SettleInvoice, PeerChange, Tick, vars

\* No interleaving of handlers and runners replaces or drops a stored quote.
THEOREM QuotesStable == Spec => QuoteStable
<1>1. Init => QuoteHeld
  BY DEF Init, QuoteHeld, Idle
<1>2. IInv /\ QuoteHeld /\ [Next]_vars => QuoteHeld'
  BY NextQuotes
<1>3. IInv /\ QuoteHeld /\ [Next]_vars =>
        [\A k \in DOMAIN jobs \cap DOMAIN jobs' :
            jobs[k].invoice # 0 => jobs'[k].invoice = jobs[k].invoice]_vars
  BY NextQuotes DEF QuotesKept
<1> QED BY <1>1, <1>2, <1>3, Invariance, PTL DEF Spec, QuoteStable

-----------------------------------------------------------------------------
(* The capacities. *)

StoresInv == StoresBounded /\ IsFiniteSet(DOMAIN jobs) /\ IsFiniteSet(DOMAIN entries)

\* Every step changes a store by at most one call of its methods.
LEMMA StoreCalls ==
    ASSUME [Next]_vars
    PROVE  /\ UNCHANGED entries \/ \E k, e, t : CheckAndRemember(k, e, t)
           /\ \/ UNCHANGED jobs
              \/ \E k, st : UpdateState(k, st)
              \/ \E k, job, t : Upsert(k, job, t)
<1>1. CASE \E r \in DOMAIN runners : Proceed(r) \/ Respond(r)
  BY Zenon, <1>1, RunnerMoves DEF Moves
<1>2. CASE Receive
  BY <1>2 DEF Receive, handleQuoteRequest, handleStreamBegin, handleStreamEnd, handleCancel,
              checkReplay, Refuse, ReadThenUpsert
<1>3. CASE ReceiveChunk
  BY <1>3 DEF ReceiveChunk, handleStreamChunk, ReadThenUpsert
<1>4. CASE Continue
  BY <1>4 DEF Continue, UpsertCopy, StartQuotedJob, MarkCanceled, Resend, CreateInvoice, SendQuote
<1>5. CASE UNCHANGED <<entries, jobs>>
  BY <1>5
<1> QED
  BY <1>1, <1>2, <1>3, <1>4, <1>5 DEF Next, SettleInvoice, PeerChange, Tick, vars

LEMMA NextStores == ASSUME StoresInv, [Next]_vars PROVE StoresInv'
<1>1. IsFiniteSet(DOMAIN entries') /\ Cardinality(DOMAIN entries') <= ReplayMax
  BY StoreCalls, CheckAndRememberBounded DEF StoresInv, StoresBounded
<1>2. IsFiniteSet(DOMAIN jobs') /\ Cardinality(DOMAIN jobs') <= MaxJobs
  <2>1. ASSUME NEW k, NEW st, UpdateState(k, st) PROVE DOMAIN jobs' = DOMAIN jobs
    BY <2>1 DEF UpdateState
  <2> QED BY <2>1, StoreCalls, UpsertBounded DEF StoresInv, StoresBounded
<1> QED BY <1>1, <1>2 DEF StoresInv, StoresBounded

LEMMA InitStores == Init => StoresInv
  BY FS_EmptySet, MaxJobsAssumption, ReplayMaxAssumption
  DEF Init, StoresInv, StoresBounded, EmptyMap

\* Both stores keep to their capacity (evictIfOverCapacityLocked,
\* evictOldestLocked).
THEOREM StoresKeepCapacity == Spec => []StoresBounded
<1>1. StoresInv => StoresBounded
  BY DEF StoresInv
<1> QED BY <1>1, InitStores, NextStores, PTL DEF Spec

\* Neither pruning nor eviction takes the record of a job that is paid for
\* while a pending job could go instead.
THEOREM PaidJobsStay == Spec => PaidJobsKept
<1>1. ASSUME StoresInv, [Next]_vars,
             NEW x \in DOMAIN jobs \ DOMAIN jobs', jobs[x].state \notin PendingStates,
             NEW j \in DOMAIN jobs'
      PROVE  jobs'[j].state \notin PendingStates
  <2>1. ASSUME NEW k, NEW st, UpdateState(k, st) PROVE DOMAIN jobs' = DOMAIN jobs
    BY <2>1 DEF UpdateState
  <2>2. PICK k, job, t : Upsert(k, job, t)
    BY <1>1, <2>1, StoreCalls
  <2> QED BY <1>1, <2>2, UpsertKeepsPaid DEF StoresInv, StoresBounded
<1>2. StoresInv /\ [Next]_vars =>
        [\A k \in DOMAIN jobs \ DOMAIN jobs' : jobs[k].state \notin PendingStates =>
            \A j \in DOMAIN jobs' : jobs'[j].state \notin PendingStates]_vars
  BY <1>1
<1> QED BY <1>2, InitStores, NextStores, PTL DEF Spec, PaidJobsKept

-----------------------------------------------------------------------------
(* Duplicates of a message. *)

\* Of the messages that the replay store holds, fewer than it has room for
\* are still to be remembered: none is forgotten early.
RoomLeft == Cardinality(DOMAIN PruneReplay(now)) < ReplayMax

\* How long a message that came at this time is remembered.
RememberedUntil(m, at) == IF MsgExpiry[m] > at + Window THEN at + Window ELSE MsgExpiry[m]

Remembered(k, m, at) ==
    \/ now > RememberedUntil(m, at)
    \/ /\ <<k, m>> \in DOMAIN entries
       /\ entries[<<k, m>>] >= RememberedUntil(m, at)

\* The message that an invoice was created for, or is about to be, is in the
\* replay store for as long as it has to be.  It is the invoice that is about
\* to be created that must be shown to be no duplicate: by the time it is
\* created the store holds the message again.
DInv ==
    /\ \A i \in DOMAIN invoices :
           Remembered(invoices[i].key, invoices[i].cause, invoices[i].at)
    /\ \A i, j \in DOMAIN invoices :
           i < j /\ invoices[i].key = invoices[j].key /\ invoices[i].cause = invoices[j].cause
               => invoices[j].at > RememberedUntil(invoices[i].cause, invoices[i].at)
    /\ inb.pc = "invoice" =>
           /\ Remembered(inb.key, inb.msg, inb.at)
           /\ \A i \in DOMAIN invoices :
                  invoices[i].key = inb.key /\ invoices[i].cause = inb.msg
                      => inb.at > RememberedUntil(inb.msg, invoices[i].at)

\* Every invoice has its type.
LEMMA InvoicesTyped ==
    ASSUME IInv
    PROVE  \A i \in DOMAIN invoices : invoices[i] \in Invoice
<1>1. invoices \in Seq(Invoice)
  BY DEF IInv, TypeOK
<1> QED BY <1>1

\* Nothing that is remembered is forgotten while there is room.
LEMMA RememberedKept ==
    ASSUME IInv, StoresInv, RoomLeft, NEW k \in Keys, NEW m \in MsgIds, NEW at \in Nat,
           Remembered(k, m, at), now' \in Nat, now' >= now,
           UNCHANGED entries \/ \E x : \E e \in Nat : CheckAndRemember(x, e, now)
    PROVE  Remembered(k, m, at)'
<1> DEFINE until == RememberedUntil(m, at)
<1>1. until \in Nat /\ until' = until /\ now \in Nat
  BY ProviderAssumption DEF RememberedUntil, IInv, TypeOK
<1>2. CASE now > until
  BY <1>1, <1>2 DEF Remembered
<1>3. CASE /\ <<k, m>> \in DOMAIN entries /\ entries[<<k, m>>] >= until /\ now <= until
  <2>1. entries[<<k, m>>] \in Nat
    BY <1>3 DEF IInv, TypeOK, IsMap
  <2>2. CASE UNCHANGED entries
    BY <1>1, <1>3, <2>2 DEF Remembered
  <2>3. ASSUME NEW x, NEW e \in Nat, CheckAndRemember(x, e, now) PROVE Remembered(k, m, at)'
    <3> DEFINE live == PruneReplay(now)
    <3>1. <<k, m>> \in DOMAIN live /\ live[<<k, m>>] = entries[<<k, m>>]
      BY <1>1, <1>3, <2>1 DEF PruneReplay, Restrict
    <3>2. entries' = live \/ (entries' = Put(live, x, e) /\ x \notin DOMAIN live)
      <4>1. ~ (Cardinality(DOMAIN live) >= ReplayMax)
        <5>1. DOMAIN live \subseteq DOMAIN entries
          BY DEF PruneReplay, Restrict
        <5>2. Cardinality(DOMAIN live) \in Nat
          BY <5>1, FS_Subset, FS_CardinalityType DEF StoresInv
        <5> QED BY <5>2, ReplayMaxAssumption DEF RoomLeft
      <4>2. CheckResult(x, e, now) = "ok" => x \notin DOMAIN live
        BY <1>1 DEF CheckResult
      <4> QED BY <2>3, <4>1, <4>2 DEF CheckAndRemember
    <3> HIDE DEF live
    <3>3. <<k, m>> \in DOMAIN entries' /\ entries'[<<k, m>>] = entries[<<k, m>>]
      BY <3>1, <3>2 DEF Put
    <3> QED BY <1>1, <1>3, <3>3 DEF Remembered
  <2> QED BY <2>2, <2>3
<1> QED BY <1>1, <1>2, <1>3 DEF Remembered

\* A step that creates no invoice, and begins to create none, or goes on.
LEMMA NoNewInvoice ==
    ASSUME IInv, StoresInv, RoomLeft, DInv, now' \in Nat, now' >= now,
           UNCHANGED entries \/ \E x : \E e \in Nat : CheckAndRemember(x, e, now),
           DOMAIN invoices' = DOMAIN invoices,
           \A i \in DOMAIN invoices :
               /\ invoices'[i].key = invoices[i].key
               /\ invoices'[i].cause = invoices[i].cause
               /\ invoices'[i].at = invoices[i].at,
           inb' = inb \/ inb'.pc # "invoice"
    PROVE  DInv'
<1>1. \A i \in DOMAIN invoices :
          /\ invoices[i].key \in Keys /\ invoices[i].cause \in MsgIds /\ invoices[i].at \in Nat
  BY InvoicesTyped DEF Invoice
<1>2. \A i \in DOMAIN invoices' :
          Remembered(invoices[i].key, invoices[i].cause, invoices[i].at)'
  <2> TAKE i \in DOMAIN invoices'
  <2> DEFINE k == invoices[i].key
             m == invoices[i].cause
             t == invoices[i].at
  <2>1. k \in Keys /\ m \in MsgIds /\ t \in Nat /\ Remembered(k, m, t)
    BY <1>1 DEF DInv
  <2>2. invoices'[i].key = k /\ invoices'[i].cause = m /\ invoices'[i].at = t
    OBVIOUS
  <2> HIDE DEF k, m, t
  <2>3. ASSUME NEW a \in Keys, NEW b \in MsgIds, NEW c \in Nat, Remembered(a, b, c)
        PROVE  Remembered(a, b, c)'
    BY <2>3, RememberedKept
  <2>4. \/ now' > RememberedUntil(m, t)
        \/ /\ <<k, m>> \in DOMAIN entries'
           /\ entries'[<<k, m>>] >= RememberedUntil(m, t)
    BY <2>1, <2>3 DEF Remembered, RememberedUntil
  <2> QED BY <2>2, <2>4 DEF Remembered, RememberedUntil
<1>3. \A i, j \in DOMAIN invoices' :
          i < j /\ invoices'[i].key = invoices'[j].key /\ invoices'[i].cause = invoices'[j].cause
              => invoices'[j].at > RememberedUntil(invoices'[i].cause, invoices'[i].at)
  BY Zenon DEF DInv
<1>4. ASSUME inb'.pc = "invoice"
      PROVE  /\ Remembered(inb.key, inb.msg, inb.at)'
             /\ \A i \in DOMAIN invoices' :
                    invoices'[i].key = inb'.key /\ invoices'[i].cause = inb'.msg
                        => inb'.at > RememberedUntil(inb'.msg, invoices'[i].at)
  <2>1. inb' = inb /\ inb.key \in Keys /\ inb.msg \in MsgIds /\ inb.at \in Nat
    BY <1>4, InboundFields DEF IInv, TypeOK
  <2>2. Remembered(inb.key, inb.msg, inb.at)
    BY <1>4, <2>1 DEF DInv
  <2>3. ASSUME NEW a \in Keys, NEW b \in MsgIds, NEW c \in Nat, Remembered(a, b, c)
        PROVE  Remembered(a, b, c)'
    BY <2>3, RememberedKept
  <2>4. \/ now' > RememberedUntil(inb.msg, inb.at)
        \/ /\ <<inb.key, inb.msg>> \in DOMAIN entries'
           /\ entries'[<<inb.key, inb.msg>>] >= RememberedUntil(inb.msg, inb.at)
    BY <2>1, <2>2, <2>3 DEF Remembered, RememberedUntil
  <2>5. Remembered(inb.key, inb.msg, inb.at)'
    BY <2>1, <2>4 DEF Remembered, RememberedUntil
  <2> QED BY <1>4, <2>1, <2>5 DEF DInv
<1> QED BY Zenon, <1>2, <1>3, <1>4 DEF DInv, RememberedUntil

\* The lcp_stream_end that an invoice is created for is no duplicate.
LEMMA EndIsNew ==
    ASSUME IInv, StoresInv, RoomLeft, DInv, NEW k \in Keys, NEW m \in MsgIds,
           checkReplay(k, m), Fresh(k, m), UNCHANGED <<now, invoices>>,
           inb'.pc = "invoice" /\ inb'.key = k /\ inb'.msg = m /\ inb'.at = now
    PROVE  DInv'
<1> DEFINE e == EffectiveExpiry(m)
           live == PruneReplay(now)
<1>1. now \in Nat /\ e \in Nat /\ e = RememberedUntil(m, now)
  <2>1. now \in Nat
    BY DEF IInv, TypeOK
  <2> QED BY <2>1, ProviderAssumption DEF EffectiveExpiry, RememberedUntil
<1>2. inb = Idle /\ CheckAndRemember(<<k, m>>, e, now) /\ CheckResult(<<k, m>>, e, now) = "ok"
  BY DEF checkReplay, Fresh
<1> HIDE DEF e
<1>3. e >= now /\ <<k, m>> \notin DOMAIN live
  BY <1>1, <1>2 DEF CheckResult
<1>4. <<k, m>> \in DOMAIN entries' /\ entries'[<<k, m>>] = e
  BY Zenon, <1>2 DEF CheckAndRemember, Put
<1>5. Remembered(k, m, now)'
  BY <1>1, <1>4 DEF Remembered, RememberedUntil
<1>6. ASSUME NEW i \in DOMAIN invoices, invoices[i].key = k, invoices[i].cause = m
      PROVE  now > RememberedUntil(m, invoices[i].at)
  <2> DEFINE until == RememberedUntil(m, invoices[i].at)
  <2>1. invoices[i] \in Invoice
    BY InvoicesTyped
  <2>2. until \in Nat
    BY <2>1, ProviderAssumption DEF RememberedUntil, Invoice
  <2>3. now > until \/ (<<k, m>> \in DOMAIN entries /\ entries[<<k, m>>] >= until)
    BY <1>6 DEF DInv, Remembered
  <2> HIDE DEF until
  <2>4. ASSUME <<k, m>> \in DOMAIN entries PROVE entries[<<k, m>>] \in Nat /\ entries[<<k, m>>] < now
    <3>1. entries[<<k, m>>] \in Nat
      BY <2>4 DEF IInv, TypeOK, IsMap
    <3>2. ~ (entries[<<k, m>>] >= now)
      BY Zenon, <1>3, <2>4 DEF PruneReplay, Restrict
    <3> QED BY <1>1, <3>1, <3>2
  <2>5. now > until
    BY <1>1, <2>2, <2>3, <2>4
  <2> QED BY <2>5 DEF until
<1>7. \A i \in DOMAIN invoices' :
          invoices'[i].key = inb'.key /\ invoices'[i].cause = inb'.msg
              => inb'.at > RememberedUntil(inb'.msg, invoices'[i].at)
  BY <1>6
<1>8. Remembered(inb.key, inb.msg, inb.at)'
  BY <1>5 DEF Remembered, RememberedUntil
<1>9. \A i \in DOMAIN invoices' :
          Remembered(invoices[i].key, invoices[i].cause, invoices[i].at)'
  <2> TAKE i \in DOMAIN invoices'
  <2> DEFINE a == invoices[i].key
             b == invoices[i].cause
             c == invoices[i].at
  <2>1. invoices[i] \in Invoice /\ invoices' = invoices
    BY InvoicesTyped
  <2>2. a \in Keys /\ b \in MsgIds /\ c \in Nat /\ Remembered(a, b, c)
    BY Zenon, <2>1 DEF DInv, Invoice
  <2> HIDE DEF a, b, c
  <2>3. ASSUME NEW x \in Keys, NEW y \in MsgIds, NEW z \in Nat, Remembered(x, y, z)
        PROVE  Remembered(x, y, z)'
    BY <1>1, <1>2, <2>3, RememberedKept
  <2>4. \/ now' > RememberedUntil(b, c)
        \/ /\ <<a, b>> \in DOMAIN entries'
           /\ entries'[<<a, b>>] >= RememberedUntil(b, c)
    BY <2>2, <2>3 DEF Remembered, RememberedUntil
  <2> QED BY <2>1, <2>4 DEF Remembered, RememberedUntil, a, b, c
<1>10. \A i, j \in DOMAIN invoices' :
          i < j /\ invoices'[i].key = invoices'[j].key /\ invoices'[i].cause = invoices'[j].cause
              => invoices'[j].at > RememberedUntil(invoices'[i].cause, invoices'[i].at)
  BY DEF DInv
<1> QED BY Zenon, <1>7, <1>8, <1>9, <1>10 DEF DInv, RememberedUntil

LEMMA InvoiceIsNew == ASSUME IInv, DInv, CreateInvoice(TRUE) PROVE DInv'
<1> DEFINE n == Len(invoices) + 1
<1>1. /\ inb.pc = "invoice" /\ inb'.pc = "quote" /\ UNCHANGED <<entries, now>>
      /\ invoices \in Seq(Invoice)
  BY DEF CreateInvoice, IInv, TypeOK
<1>2. /\ n \in Nat /\ DOMAIN invoices' = DOMAIN invoices \cup {n}
      /\ invoices'[n].key = inb.key /\ invoices'[n].cause = inb.msg /\ invoices'[n].at = inb.at
      /\ \A i \in DOMAIN invoices : invoices'[i] = invoices[i] /\ i < n /\ i \in Nat
  <2> DEFINE new == [key |-> inb.key, input |-> inb.input.id, cause |-> inb.msg,
                     at |-> inb.at, quoteExpiry |-> inb.at + QuoteTTL, results |-> 0,
                     expiry |-> now + InvoiceExpirySeconds, state |-> "created"]
  <2>1. invoices' = Append(invoices, new)
    BY DEF CreateInvoice
  <2>2. new.key = inb.key /\ new.cause = inb.msg /\ new.at = inb.at
    OBVIOUS
  <2> HIDE DEF new
  <2>3. n \in Nat /\ DOMAIN invoices' = DOMAIN invoices \cup {n} /\ invoices'[n] = new
    BY <1>1, <2>1
  <2>4. \A i \in DOMAIN invoices : invoices'[i] = invoices[i] /\ i < n /\ i \in Nat
    BY <1>1, <2>1
  <2> QED BY <2>2, <2>3, <2>4
<1> HIDE DEF n
<1>3. Remembered(inb.key, inb.msg, inb.at)
      /\ \A i \in DOMAIN invoices :
            invoices[i].key = inb.key /\ invoices[i].cause = inb.msg
                => inb.at > RememberedUntil(inb.msg, invoices[i].at)
  BY <1>1 DEF DInv
<1>4. \A i \in DOMAIN invoices' :
          Remembered(invoices'[i].key, invoices'[i].cause, invoices'[i].at)
  BY <1>2, <1>3 DEF DInv
<1>5. \A i, j \in DOMAIN invoices' :
          i < j /\ invoices'[i].key = invoices'[j].key /\ invoices'[i].cause = invoices'[j].cause
              => invoices'[j].at > RememberedUntil(invoices'[i].cause, invoices'[i].at)
  <2> TAKE i, j \in DOMAIN invoices'
  <2>1. CASE j = n
    BY <1>2, <1>3, <2>1
  <2>2. CASE j # n /\ i = n
    BY <1>2, <2>2
  <2>3. CASE j # n /\ i # n
    BY <1>2, <2>3 DEF DInv
  <2> QED BY <2>1, <2>2, <2>3
<1> QED BY Zenon, <1>1, <1>4, <1>5 DEF DInv, Remembered, RememberedUntil

\* No step but the creation of an invoice changes what invoices were created
\* for, and when.
LEMMA CausesKept ==
    ASSUME IInv, NEW i, NEW f \in {"state", "results"}, NEW v,
           invoices' = [invoices EXCEPT ![i] = [@ EXCEPT ![f] = v]]
    PROVE  /\ DOMAIN invoices' = DOMAIN invoices
           /\ \A x \in DOMAIN invoices :
                  /\ invoices'[x].key = invoices[x].key
                  /\ invoices'[x].cause = invoices[x].cause
                  /\ invoices'[x].at = invoices[x].at
<1>1. \A x \in DOMAIN invoices : invoices[x] \in Invoice
  BY InvoicesTyped
<1>2. DOMAIN invoices' = DOMAIN invoices
  BY DEF IInv, TypeOK
<1>3. ASSUME NEW x \in DOMAIN invoices
      PROVE  invoices'[x] = invoices[x] \/ invoices'[x] = [invoices[x] EXCEPT ![f] = v]
  BY DEF IInv, TypeOK
<1> QED BY <1>1, <1>2, <1>3 DEF Invoice

LEMMA NextDInv ==
    ASSUME IInv, StoresInv, RoomLeft, DInv, [Next]_vars
    PROVE  DInv'
<1> DEFINE Same == /\ DOMAIN invoices' = DOMAIN invoices
                   /\ \A x \in DOMAIN invoices :
                          /\ invoices'[x].key = invoices[x].key
                          /\ invoices'[x].cause = invoices[x].cause
                          /\ invoices'[x].at = invoices[x].at
           Going == inb' = inb \/ inb'.pc # "invoice"
<1>1. /\ now \in Nat
      /\ \A m \in MsgIds : EffectiveExpiry(m) \in Nat
      /\ UNCHANGED invoices => Same
  BY ProviderAssumption DEF IInv, TypeOK, EffectiveExpiry
<1>2. ASSUME Same, Going, UNCHANGED <<entries, now>> PROVE DInv'
  BY <1>1, <1>2, NoNewInvoice
<1>3. ASSUME NEW k \in Keys, NEW m \in MsgIds, checkReplay(k, m),
             UNCHANGED <<now, invoices>>, Going
      PROVE  DInv'
  <2>1. \E x : \E e \in Nat : CheckAndRemember(x, e, now)
    BY <1>1, <1>3 DEF checkReplay
  <2> QED BY <1>1, <1>3, <2>1, NoNewInvoice
<1>4. CASE Receive
  <2>1. ASSUME NEW k \in Keys, NEW m \in MsgIds, NEW b \in BOOLEAN, handleQuoteRequest(k, m, b)
        PROVE  DInv'
    <3>1. /\ checkReplay(k, m) /\ UNCHANGED <<now, invoices>>
          /\ inb' = inb \/ inb' = [pc |-> "upsert", key |-> k, job |-> jobs[k], requote |-> TRUE]
      BY Zenon, <2>1 DEF handleQuoteRequest, Refuse, ReadThenUpsert
    <3>2. Going
      BY <3>1
    <3> QED BY <1>3, <3>1, <3>2
  <2>2. ASSUME NEW k \in Keys, NEW m \in MsgIds, NEW s, NEW t, NEW b,
               handleStreamBegin(k, m, s, t, b)
        PROVE  DInv'
    <3>1. /\ checkReplay(k, m) /\ UNCHANGED <<now, invoices>>
          /\ inb' = inb \/ inb' = [pc |-> "upsert", key |-> k,
                                  job |-> [jobs[k] EXCEPT !.input = NewInput(s, t)],
                                  requote |-> FALSE]
      BY <2>2 DEF handleStreamBegin, Refuse, ReadThenUpsert
    <3>2. Going
      BY <3>1
    <3> QED BY <1>3, <3>1, <3>2
  <2>3. ASSUME NEW k \in Keys, NEW m \in MsgIds, NEW s, NEW b, handleStreamEnd(k, m, s, b)
        PROVE  DInv'
    <3>1. checkReplay(k, m) /\ UNCHANGED <<now, invoices>>
      BY <2>3 DEF handleStreamEnd, Refuse
    <3>2. CASE Refuse
      BY <1>3, <3>1, <3>2 DEF Refuse
    <3>3. CASE ~ Refuse
      <4>1. /\ Fresh(k, m)
            /\ inb' = [pc |-> "invoice", key |-> k, at |-> now, msg |-> m,
                       input |-> [jobs[k].input EXCEPT !.validated = TRUE]]
        BY <2>3, <3>3 DEF handleStreamEnd
      <4>2. inb'.pc = "invoice" /\ inb'.key = k /\ inb'.msg = m /\ inb'.at = now
        BY <4>1
      <4> QED BY <3>1, <4>1, <4>2, EndIsNew
    <3> QED BY <3>2, <3>3
  <2>4. ASSUME NEW k \in Keys, NEW m \in MsgIds, handleCancel(k, m) PROVE DInv'
    BY <1>3, <2>4 DEF handleCancel, Refuse
  <2> QED BY <1>4, <2>1, <2>2, <2>3, <2>4 DEF Receive
<1>5. CASE ReceiveChunk
  <2>1. Going /\ UNCHANGED <<entries, now, invoices>>
    BY <1>5 DEF ReceiveChunk, handleStreamChunk, ReadThenUpsert
  <2> QED BY <1>1, <1>2, <2>1
<1>6. CASE Continue
  <2>1. CASE CreateInvoice(TRUE)
    BY <2>1, InvoiceIsNew
  <2>2. CASE CreateInvoice(FALSE)
    <3>1. /\ inb' = Idle /\ UNCHANGED invoices
          /\ UNCHANGED <<entries, jobs, now, manifests, jobCancels, inFlight, runners>>
      BY Zenon, <2>2 DEF CreateInvoice
    <3>2. Going
      BY <3>1 DEF Idle
    <3> QED BY <1>1, <1>2, <3>1, <3>2
  <2>3. ASSUME NEW sent \in BOOLEAN, SendQuote(sent) PROVE DInv'
    <3>1. inb = [pc |-> "quote", key |-> inb.key, job |-> inb.job]
      BY <2>3 DEF SendQuote, IInv, TypeOK, Inbound, Idle
    <3>2. Going /\ UNCHANGED <<entries, now>>
      BY <2>3, <3>1 DEF SendQuote, Idle
    <3>3. Same
      BY <1>1, <2>3, CausesKept DEF SendQuote
    <3> QED BY <1>2, <3>2, <3>3
  <2>4. CASE UNCHANGED <<entries, now, invoices>> /\ Going
    BY <1>1, <1>2, <2>4
  <2>5. CASE UpsertCopy \/ StartQuotedJob \/ MarkCanceled
    <3>1. UNCHANGED <<entries, now, invoices>> /\ Going
      BY <2>5 DEF UpsertCopy, StartQuotedJob, MarkCanceled, Idle
    <3> QED BY <2>4, <3>1
  <2>6. ASSUME NEW sent \in BOOLEAN, Resend(sent) PROVE DInv'
    <3>1. UNCHANGED <<entries, now, invoices>> /\ Going
      BY <2>6 DEF Resend, Idle
    <3> QED BY <2>4, <3>1
  <2> QED BY Zenon, <1>6, <2>1, <2>2, <2>3, <2>5, <2>6 DEF Continue
<1>7. CASE \E r \in DOMAIN runners : Proceed(r) \/ Respond(r)
  <2>1. PICK r \in DOMAIN runners, to \in RunnerStates : Moves(r, to)
    BY <1>7, RunnerMoves
  <2>2. Same
    BY <1>1, <2>1, CausesKept DEF Moves
  <2> QED BY <1>2, <2>1, <2>2 DEF Moves
<1>8. ASSUME NEW i \in DOMAIN invoices, SettleInvoice(i) PROVE DInv'
  <2>1. Same
    BY <1>8, CausesKept DEF SettleInvoice
  <2> QED BY <1>2, <1>8, <2>1 DEF SettleInvoice
<1>9. CASE \E p \in Peers : PeerChange(p)
  BY <1>1, <1>2, <1>9 DEF PeerChange
<1>10. CASE Tick
  <2>1. now' \in Nat /\ now' >= now
    BY <1>1, <1>10 DEF Tick
  <2> QED BY <1>1, <1>10, <2>1, NoNewInvoice DEF Tick
<1>11. CASE UNCHANGED vars
  BY <1>1, <1>2, <1>11 DEF vars
<1> QED BY <1>4, <1>5, <1>6, <1>7, <1>8, <1>9, <1>10, <1>11 DEF Next

\* While the replay store has room, no lcp_stream_end creates two invoices in
\* the time for which it is remembered (checkReplay, CheckAndRemember).
THEOREM NoInvoiceTwice == Spec /\ []RoomLeft => []DuplicateMintsNoInvoice
<1>1. Init => DInv
  BY DEF Init, DInv, Idle
<1>2. IInv /\ DInv => DuplicateMintsNoInvoice
  <2> SUFFICES ASSUME IInv, DInv, NEW i \in DOMAIN invoices, NEW j \in DOMAIN invoices, i < j,
                      invoices[i].key = invoices[j].key, invoices[i].cause = invoices[j].cause
               PROVE  \/ invoices[j].at > MsgExpiry[invoices[i].cause]
                      \/ invoices[j].at > invoices[i].at + Window
    BY DEF DuplicateMintsNoInvoice
  <2>1. invoices[j].at > RememberedUntil(invoices[i].cause, invoices[i].at)
    BY DEF DInv
  <2> QED BY <2>1 DEF RememberedUntil
<1>3. IInv /\ StoresInv /\ RoomLeft /\ DInv /\ [Next]_vars => DInv'
  BY NextDInv
<1> QED BY <1>1, <1>2, <1>3, Invariance, InitStores, NextStores, PTL DEF Spec

-----------------------------------------------------------------------------
(* The provider implements Sale: a sale is an invoice a quote_response has  *)
(* told of.                                                                 *)

\* What of an invoice the sale depends on.
SaleSame(i) ==
    /\ invoices'[i].state = invoices[i].state /\ invoices'[i].key = invoices[i].key
    /\ invoices'[i].input = invoices[i].input /\ invoices'[i].expiry = invoices[i].expiry

LEMMA DealsSame ==
    ASSUME DOMAIN invoices' = DOMAIN invoices, \A i \in DOMAIN invoices : SaleSame(i)
    PROVE  Deals' = Deals /\ Paid' = Paid
<1>1. Offered' = Offered
  BY DEF Offered, SaleSame
<1>2. Paid' = Paid
  BY <1>1 DEF Offered, Paid, SaleSame
<1>3. Deals' = Deals
  BY <1>1 DEF Offered, Deals, SaleSame
<1> QED BY <1>2, <1>3

\* Runners that start, or are canceled, do not change what is worked on.
LEMMA BusySame ==
    ASSUME DOMAIN runners \subseteq DOMAIN runners',
           \A r \in DOMAIN runners : Work(r)' = Work(r) /\ runners'[r].pc = runners[r].pc,
           \A r \in DOMAIN runners' \ DOMAIN runners : runners'[r].pc = "settle"
    PROVE  Busy' = Busy
<1>1. \A r \in DOMAIN runners : Working(r)' <=> Working(r)
  BY DEF Working
<1>2. \A r \in DOMAIN runners' \ DOMAIN runners : ~ Working(r)'
  BY DEF Working
<1> QED BY <1>1, <1>2 DEF Busy

LEMMA startJobRunnerBusy ==
    ASSUME IInv, NEW k, NEW job, startJobRunner(k, job)
    PROVE  Busy' = Busy
<1>1. CASE UNCHANGED runners
  BY <1>1 DEF Busy, Work, Working
<1>2. CASE runners' = Append(runners, NewRunner(k, job))
  <2> DEFINE new == NewRunner(k, job)
  <2>1. new.pc = "settle"
    BY DEF NewRunner
  <2> HIDE DEF new
  <2>2. /\ DOMAIN runners' = DOMAIN runners \cup {Len(runners) + 1}
        /\ Len(runners) + 1 \notin DOMAIN runners
        /\ runners'[Len(runners) + 1] = new
        /\ \A r \in DOMAIN runners : runners'[r] = runners[r]
    BY <1>2 DEF IInv, TypeOK, new
  <2> QED BY <2>1, <2>2, BusySame DEF Work
<1> QED BY <1>1, <1>2 DEF startJobRunner

LEMMA handleCancelBusy ==
    ASSUME IInv, NEW k \in Keys, NEW m \in MsgIds, handleCancel(k, m)
    PROVE  Busy' = Busy
<1>1. CASE UNCHANGED runners
  BY <1>1 DEF Busy, Work, Working
<1>2. CASE /\ k \in DOMAIN jobCancels
           /\ runners' = [runners EXCEPT ![jobCancels[k]].canceled = TRUE]
  <2> DEFINE c == jobCancels[k]
  <2>1. c \in DOMAIN runners /\ \A r \in DOMAIN runners : runners[r] \in Runner
    BY <1>2 DEF IInv, TypeOK, IsMap
  <2>2. /\ DOMAIN runners' = DOMAIN runners
        /\ runners'[c] = [runners[c] EXCEPT !.canceled = TRUE]
        /\ \A r \in DOMAIN runners : r # c => runners'[r] = runners[r]
    BY <1>2, <2>1
  <2> HIDE DEF c
  <2>3. /\ runners'[c].key = runners[c].key /\ runners'[c].invoice = runners[c].invoice
        /\ runners'[c].input = runners[c].input /\ runners'[c].pc = runners[c].pc
    BY <2>1, <2>2 DEF Runner
  <2> QED BY Zenon, <2>2, <2>3, BusySame DEF Work
<1> QED BY <1>1, <1>2 DEF handleCancel, Refuse

\* A step of one runner begins work, ends it, or changes nothing.
LEMMA MovesSale ==
    ASSUME IInv, NEW r \in DOMAIN runners, NEW to \in RunnerStates, Moves(r, to)
    PROVE  [Promise!Next]_(Promise!vars)
<1>1. /\ DOMAIN runners' = DOMAIN runners
      /\ \A x \in DOMAIN runners : Work(x)' = Work(x) /\ (x # r => runners'[x] = runners[x])
  BY MovesKeep DEF Work
<1>2. now' = now /\ Deals' = Deals /\ Paid' = Paid
  <2>1. \A i \in DOMAIN invoices : invoices'[i].expiry = invoices[i].expiry
    <3>1. \A i \in DOMAIN invoices : invoices[i] \in Invoice
      BY DEF IInv, TypeOK
    <3>2. CASE UNCHANGED invoices
      BY <3>2
    <3>3. CASE invoices' = [invoices EXCEPT ![runners[r].invoice].results = @ + 1]
      BY <3>1, <3>3 DEF Invoice
    <3> QED BY <3>2, <3>3 DEF Moves
  <2>2. DOMAIN invoices' = DOMAIN invoices /\ \A i \in DOMAIN invoices : SaleSame(i)
    BY Zenon, <2>1, MovesKeep DEF SaleSame, InvoicesKept
  <2> QED BY <2>2, DealsSame DEF Moves
<1>3. \A x \in DOMAIN runners : x # r => (Working(x)' <=> Working(x))
  BY Zenon, <1>1 DEF Working
<1>4. CASE ~ Working(r) /\ Working(r)'
  <2> DEFINE i == runners[r].invoice
  <2>1. Busy' = Busy \cup {Work(r)}
    BY <1>1, <1>3, <1>4 DEF Busy
  <2>2. to \notin {"fail", "exit", "gone"}
    BY <1>4, MovesKeep DEF Working
  <2>3. i \in Offered /\ i \in Paid
    BY <1>4, <2>2 DEF Moves, IInv, RunnersBound, Offered, Paid
  <2>4. Work(r) = <<i, Deals[i].item>>
    BY Zenon, <2>3 DEF IInv, RunnersBound, Work, Deals, Offered
  <2>5. Promise!Begin(i)
    BY Zenon, <1>2, <2>1, <2>3, <2>4 DEF Promise!Begin
  <2>6. i \in DOMAIN Deals
    BY Zenon, <2>3 DEF Deals
  <2> QED BY <2>5, <2>6 DEF Promise!Next
<1>5. CASE Working(r) /\ ~ Working(r)'
  <2>1. CASE \E x \in DOMAIN runners : x # r /\ Working(x) /\ Work(x) = Work(r)
    <3>1. Busy' = Busy
      BY Zenon, <1>1, <1>3, <1>5, <2>1 DEF Busy
    <3> QED BY <1>2, <3>1 DEF Promise!vars
  <2>2. CASE \A x \in DOMAIN runners : x # r /\ Working(x) => Work(x) # Work(r)
    <3>1. Busy' = Busy \ {Work(r)} /\ Work(r) \in Busy
      BY <1>1, <1>3, <1>5, <2>2 DEF Busy
    <3> QED BY <1>2, <3>1 DEF Promise!Next, Promise!End
  <2> QED BY <2>1, <2>2
<1>6. CASE Working(r) <=> Working(r)'
  <2>1. Busy' = Busy
    BY Zenon, <1>1, <1>3, <1>6 DEF Busy
  <2> QED BY <1>2, <2>1 DEF Promise!vars
<1> QED BY <1>4, <1>5, <1>6

\* A created invoice is not offered yet.
LEMMA CreateInvoiceSale ==
    ASSUME IInv, NEW created \in BOOLEAN, CreateInvoice(created)
    PROVE  UNCHANGED Promise!vars
<1>1. now' = now /\ Busy' = Busy
  BY Zenon DEF CreateInvoice, Busy, Work, Working
<1>2. CASE UNCHANGED invoices
  BY <1>1, <1>2, DealsSame DEF SaleSame, Promise!vars
<1> DEFINE new == [key |-> inb.key, input |-> inb.input.id, cause |-> inb.msg,
                   at |-> inb.at, quoteExpiry |-> inb.at + QuoteTTL, results |-> 0,
                   expiry |-> now + InvoiceExpirySeconds, state |-> "created"]
<1>3. CASE invoices' = Append(invoices, new)
  <2>1. new.state = "created"
    OBVIOUS
  <2> HIDE DEF new
  <2>2. /\ DOMAIN invoices' = DOMAIN invoices \cup {Len(invoices) + 1}
        /\ invoices'[Len(invoices) + 1] = new
        /\ \A i \in DOMAIN invoices : invoices'[i] = invoices[i]
    BY <1>3 DEF IInv, TypeOK
  <2>3. Offered' = Offered /\ Offered \subseteq DOMAIN invoices
    BY <2>1, <2>2 DEF Offered
  <2>4. Deals' = Deals /\ Paid' = Paid
    BY <2>2, <2>3 DEF Deals, Paid
  <2> QED BY <1>1, <2>4 DEF Promise!vars
<1> QED BY Zenon, <1>2, <1>3 DEF CreateInvoice

\* A quote that is sent offers its invoice.
LEMMA SendQuoteSale ==
    ASSUME IInv, NEW sent \in BOOLEAN, SendQuote(sent)
    PROVE  [Promise!Next]_(Promise!vars)
<1>1. now' = now /\ Busy' = Busy
  BY DEF SendQuote, Busy, Work, Working
<1>2. CASE UNCHANGED invoices
  BY <1>1, <1>2, DealsSame DEF SaleSame, Promise!vars
<1> DEFINE i == inb.job.invoice
<1>3. CASE invoices' = [invoices EXCEPT ![i].state = "open"]
  <2>1. i \in DOMAIN invoices /\ invoices[i].state = "created" /\ invoices[i] \in Invoice
    BY DEF SendQuote, IInv, CopyBound, Bound, TypeOK
  <2>2. /\ DOMAIN invoices' = DOMAIN invoices
        /\ invoices'[i].state = "open"
        /\ \A x \in DOMAIN invoices : x # i => invoices'[x] = invoices[x]
    BY <1>3, <2>1 DEF Invoice
  <2> HIDE DEF i
  <2>3. i \notin Offered /\ Offered' = Offered \cup {i} /\ Offered \subseteq DOMAIN invoices
    BY <2>1, <2>2 DEF Offered
  <2>4. Paid' = Paid
    BY <2>2, <2>3 DEF Paid
  <2>5. /\ DOMAIN Deals = Offered /\ DOMAIN Deals' = Offered'
        /\ \A x \in Offered : Deals'[x] = Deals[x]
    BY <2>2, <2>3 DEF Deals
  <2>6. Promise!Offer(i) /\ i \in DOMAIN Deals'
    BY <1>1, <2>3, <2>4, <2>5 DEF Promise!Offer
  <2> QED BY <2>6 DEF Promise!Next
<1> QED BY <1>2, <1>3 DEF SendQuote

\* A payer pays an offer that stands.
LEMMA SettleInvoiceSale ==
    ASSUME IInv, NEW i \in DOMAIN invoices, SettleInvoice(i)
    PROVE  [Promise!Next]_(Promise!vars)
<1>1. now' = now /\ Busy' = Busy
  BY DEF SettleInvoice, Busy, Work, Working
<1>2. invoices[i].state = "open" /\ now <= invoices[i].expiry /\ invoices[i] \in Invoice
  BY DEF SettleInvoice, IInv, TypeOK
<1>3. /\ DOMAIN invoices' = DOMAIN invoices
      /\ invoices'[i].state = "settled" /\ invoices'[i].key = invoices[i].key
      /\ invoices'[i].input = invoices[i].input /\ invoices'[i].expiry = invoices[i].expiry
      /\ \A x \in DOMAIN invoices : x # i => invoices'[x] = invoices[x]
  BY <1>2 DEF SettleInvoice, Invoice
<1>4. Offered' = Offered /\ i \in Offered /\ Offered \subseteq DOMAIN invoices
  BY <1>2, <1>3 DEF Offered
<1>5. Paid' = Paid \cup {i} /\ i \notin Paid
  BY <1>2, <1>3, <1>4 DEF Paid
<1>6. Deals' = Deals /\ i \in DOMAIN Deals /\ Deals[i].due = invoices[i].expiry
  BY Zenon, <1>3, <1>4 DEF Deals
<1>7. Promise!Pay(i)
  BY Zenon, <1>1, <1>2, <1>5, <1>6 DEF Promise!Pay, Promise!Stands
<1> QED BY Zenon, <1>6, <1>7 DEF Promise!Next

\* The initial state is that of Sale, and every step is a step of Sale or
\* changes nothing it speaks of.
LEMMA InitSale == Init => Promise!Init
  BY DEF Init, Promise!Init, Deals, Paid, Busy, Offered

LEMMA NextSale == ASSUME IInv, [Next]_vars PROVE [Promise!Next]_(Promise!vars)
<1>1. ASSUME UNCHANGED <<now, invoices>>, Busy' = Busy
      PROVE  UNCHANGED Promise!vars
  BY <1>1, DealsSame DEF SaleSame, Promise!vars
<1>2. ASSUME UNCHANGED runners PROVE Busy' = Busy
  BY <1>2 DEF Busy, Work, Working
<1>3. CASE Receive
  <2>1. CASE \E k \in Keys, m \in MsgIds : handleCancel(k, m)
    BY <1>1, <2>1, handleCancelBusy DEF handleCancel, Refuse
  <2>2. CASE UNCHANGED <<now, invoices, runners>>
    BY <1>1, <1>2, <2>2
  <2> QED BY <1>3, <2>1, <2>2 DEF Receive, handleQuoteRequest, handleStreamBegin,
             handleStreamEnd, Refuse, ReadThenUpsert
<1>4. CASE ReceiveChunk
  BY <1>1, <1>2, <1>4 DEF ReceiveChunk, handleStreamChunk, ReadThenUpsert
<1>5. CASE Continue
  <2>1. ASSUME NEW ok \in BOOLEAN, CreateInvoice(ok) \/ SendQuote(ok)
        PROVE  [Promise!Next]_(Promise!vars)
    BY <2>1, CreateInvoiceSale, SendQuoteSale
  <2>2. CASE UNCHANGED <<now, invoices>> /\ startJobRunner(inb.key, inb.job)
    BY <1>1, <2>2, startJobRunnerBusy
  <2>3. CASE UNCHANGED <<now, invoices, runners>>
    BY <1>1, <1>2, <2>3
  <2> QED BY Zenon, <1>5, <2>1, <2>2, <2>3
         DEF Continue, UpsertCopy, StartQuotedJob, MarkCanceled, Resend
<1>6. CASE \E r \in DOMAIN runners : Proceed(r) \/ Respond(r)
  BY <1>6, RunnerMoves, MovesSale
<1>7. CASE \E i \in DOMAIN invoices : SettleInvoice(i)
  BY <1>7, SettleInvoiceSale
<1>8. CASE Tick
  <2>1. Deals' = Deals /\ Paid' = Paid /\ Busy' = Busy
    BY <1>8, <1>2, DealsSame DEF Tick, SaleSame
  <2> QED BY <1>8, <2>1 DEF Tick, IInv, TypeOK, Promise!Next, Promise!Pass
<1>9. CASE UNCHANGED <<now, invoices, runners>>
  BY <1>1, <1>2, <1>9
<1> QED
  BY <1>3, <1>4, <1>5, <1>6, <1>7, <1>8, <1>9 DEF Next, PeerChange, vars

\* The provider implements the sale, for every set of peers, jobs and messages
\* and every bound (ImplementsSale).
THEOREM ProviderImplementsSale == Spec => ImplementsSale
  BY InitSale, NextSale, Invariance, PTL DEF Spec, ImplementsSale, Promise!Spec
=============================================================================
