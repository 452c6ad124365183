--------------------------- MODULE MC_DomainProxy ---------------------------
(***************************************************************************)
(* A small instance of DomainProxy for TLC: two callers, two concurrent    *)
(* sys_update_domain calls, two CPUs, an initial loaded domain, one more   *)
(* loaded domain and one empty placeholder (id u64::MAX).                  *)
(***************************************************************************)
EXTENDS DomainProxy, Functions, TLC

CONSTANTS t1, t2, c1, c2, d0, d1, e1

MCDomainIdOf == Restrict((d0 :> 1) @@ (d1 :> 2) @@ (e1 :> 9), Domains)
MCCallerId == Restrict((t1 :> 5) @@ (t2 :> 6), Threads)

\* Bound of the runs with panics: the shards are capped at ShardBound, so
\* increments leaked by panicking calls are bounded by MaxLeaks, leaving
\* every caller a shard with room to increment.
MaxLeaks == 1
LeakBound == CounterSum(counter) - Cardinality(FastInFlight) <= MaxLeaks

=============================================================================
