------------------------------ MODULE JobStore ------------------------------
(***************************************************************************)
(* The provider's job store (jobstore.Store).  Every method holds the      *)
(* store's mutex, so each is one step; a caller that reads a job, changes  *)
(* its copy and writes it back takes two.                                  *)
(***************************************************************************)
EXTENDS Naturals, FiniteSets, Maps

CONSTANT MaxJobs     \* maxEntries

VARIABLE jobs        \* job key -> job

ASSUME MaxJobsAssumption == MaxJobs \in Nat \ {0}

\* The states a job can be dropped from when its quote expires or when the
\* store is full.  ("quoted" is never assigned outside tests.)
PendingStates == {"awaiting_input", "waiting_payment"}

JobStates == PendingStates \cup
    {"paid", "executing", "streaming_result", "done", "canceled", "failed"}

\* A zero quoteExpiry is a job that has no quote yet and never expires.
PruneExpired(now) ==
    Restrict(jobs, {k \in DOMAIN jobs :
        ~ (/\ jobs[k].quoteExpiry # 0
           /\ jobs[k].quoteExpiry < now
           /\ jobs[k].state \in PendingStates)})

\* Fault: the oldest of all jobs goes, pending or not.
EvictionVictims_Oldest(m) ==
    {k \in DOMAIN m : \A j \in DOMAIN m : m[k].createdAt <= m[j].createdAt}

\* evictOldestLocked: the oldest pending job, or the oldest of all jobs when
\* none is pending.  Equal creation times leave the choice to map order.
EvictionVictims(m) ==
    LET pending == {k \in DOMAIN m : m[k].state \in PendingStates}
        pool == IF pending # {} THEN pending ELSE DOMAIN m
    IN  {k \in pool : \A j \in pool : m[k].createdAt <= m[j].createdAt}

\* A job without a creation time gets the current one.
Stamp(job, now) == [job EXCEPT !.createdAt = IF @ = 0 THEN now ELSE @]

\* Fault: the capacity is not looked at.
Upsert_NoEviction(key, job, now) ==
    jobs' = Put(PruneExpired(now), key, Stamp(job, now))

\* At most one job is added, so one eviction brings the store back to its
\* capacity.
Upsert(key, job, now) ==
    LET full == Put(PruneExpired(now), key, Stamp(job, now))
    IN  \/ /\ Cardinality(DOMAIN full) <= MaxJobs
           /\ jobs' = full
        \/ /\ Cardinality(DOMAIN full) > MaxJobs
           /\ \E k \in EvictionVictims(full) : jobs' = Delete(full, k)

\* UpdateState changes nothing when the job is not stored, and asks nothing
\* of the state it replaces.
UpdateState(key, state) ==
    jobs' = IF key \in DOMAIN jobs
            THEN [jobs EXCEPT ![key].state = state] ELSE jobs
=============================================================================
