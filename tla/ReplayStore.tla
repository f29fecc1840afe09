---------------------------- MODULE ReplayStore ----------------------------
(***************************************************************************)
(* The de-duplication store of the provider (replaystore.Store): for every *)
(* message it has acted on, the time until which a second copy of it is    *)
(* dropped.  Every method holds the store's mutex, so each is one step.    *)
(***************************************************************************)
EXTENDS Naturals, FiniteSets, Maps

CONSTANT ReplayMax   \* maxEntries

VARIABLE entries     \* message key -> effective expiry

ASSUME ReplayMaxAssumption == ReplayMax \in Nat \ {0}

\* Fault: a message is forgotten in the second it is remembered for.
PruneReplay_AtExpiry(now) ==
    Restrict(entries, {k \in DOMAIN entries : entries[k] > now})

PruneReplay(now) == Restrict(entries, {k \in DOMAIN entries : entries[k] >= now})

\* What CheckAndRemember answers.
CheckResult(key, expiry, now) ==
    CASE expiry < now -> "expired"
      [] expiry >= now /\ key \in DOMAIN PruneReplay(now) -> "duplicate"
      [] OTHER -> "ok"

\* evictOldestLocked deletes one entry with the smallest expiry; which one,
\* among equals, is left to the iteration order of the map.
EvictOldestReplay(m) ==
    {Delete(m, k) : k \in {x \in DOMAIN m : \A y \in DOMAIN m : m[x] <= m[y]}}

CheckAndRemember(key, expiry, now) ==
    LET live == PruneReplay(now)
    IN  \/ /\ CheckResult(key, expiry, now) # "ok"
           /\ entries' = live
        \/ /\ CheckResult(key, expiry, now) = "ok"
           /\ \E kept \in IF Cardinality(DOMAIN live) >= ReplayMax
                          THEN EvictOldestReplay(live) ELSE {live} :
                  entries' = Put(kept, key, expiry)
=============================================================================
