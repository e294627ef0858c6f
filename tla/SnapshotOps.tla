---------------------------- MODULE SnapshotOps ----------------------------
(***************************************************************************)
(* What a snapshot keeps of an entry, and what becomes of it when it is    *)
(* loaded: the parts of PersistenceManager that need no file.              *)
(***************************************************************************)
EXTENDS CacheOps

kNoExpiry == -1

\* The record written for an exported entry.
Written(e) ==
    [key |-> e.key, value |-> e.value,
     ttl_ms |-> IF e.remaining_ttl = None THEN kNoExpiry ELSE e.remaining_ttl]

\* How long the file has been lying there; both times are in milliseconds.  Mutant:
\* it may be negative.
Bad_elapsed_ms(saved_at, wall_clock_ms) == wall_clock_ms - saved_at
elapsed_ms(saved_at, wall_clock_ms) ==
    IF wall_clock_ms < saved_at THEN 0 ELSE wall_clock_ms - saved_at

\* What is left of a record's TTL.  Mutant: the time elapsed is forgotten.
Bad_RemainingMs(r, elapsed) == r.ttl_ms
RemainingMs(r, elapsed) == r.ttl_ms - elapsed

\* The record is stored, and counted as loaded.  Mutant: also at its last moment.
Bad_Survives(r, elapsed) == r.ttl_ms = kNoExpiry \/ RemainingMs(r, elapsed) >= 0
Survives(r, elapsed) == r.ttl_ms = kNoExpiry \/ RemainingMs(r, elapsed) > 0

\* A record is stored in c unless its time is up.
Restore(c, r, elapsed, now) ==
    CASE r.ttl_ms = kNoExpiry -> set(c, r.key, r.value)
      [] r.ttl_ms # kNoExpiry /\ Survives(r, elapsed) ->
            set_ttl(c, r.key, r.value, RemainingMs(r, elapsed), now)
      [] OTHER -> c
=============================================================================
