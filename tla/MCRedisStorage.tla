---------------------------- MODULE MCRedisStorage ----------------------------
(***************************************************************************)
(* RedisStorage with two callers in two processes, one of which is a tick  *)
(* ahead.  A behaviour uses one key, chosen at first: the keys share       *)
(* nothing, and their states add up instead of multiplying.                *)
(***************************************************************************)
EXTENDS RedisStorage, TLC

CONSTANTS
    a, b,                    \* the callers
    pa, pb,                  \* their processes
    ss, st, sl, sg, sf,      \* the keys timed by the server
    ls, lg                   \* those timed by the callers

TwoProcesses == (a :> pa) @@ (b :> pb)

OneAhead == (pa :> 0) @@ (pb :> 1)

SmallRule(k) ==
    CASE k = ss -> [algorithm |-> "sliding_window", limit |-> 2, window |-> 2]
      [] k = ls -> [algorithm |-> "sliding_window", limit |-> 2, window |-> 3]
      [] k = sf -> [algorithm |-> "fixed_window", limit |-> 1, window |-> 2]
      [] k = st -> [algorithm |-> "token_bucket", capacity |-> 1, interval |-> 2]
      [] k = sl -> [algorithm |-> "leaky_bucket", capacity |-> 1, interval |-> 2]
      [] k \in {sg, lg} -> [algorithm |-> "gcra", capacity |-> 1, interval |-> 2]

SmallRules == [k \in Keys |-> SmallRule(k)]

SmallPolicies ==
    [k \in Keys |-> CASE k \in {sg, sf, ls} -> "memory"
                      [] k \in {ss, lg} -> "open"
                      [] k \in {st, sl} -> "closed"]

\* A third call for the windows, whose limit is two, and for the bucket, which must
\* see its key expire and be refilled; an outage of two calls where there is a
\* fallback storage.
FewCalls  == [k \in Keys |-> IF k \in {ss, ls, st} THEN 3 ELSE 2]
FewFaults == [k \in Keys |-> CASE k = st -> 0 [] k = sg -> 2 [] OTHER -> 1]

\* Of the expiry of buckets: a bucket that takes six ticks to fill, four calls of it,
\* and no faults.
SlowBucket == [k \in Keys |-> [algorithm |-> "token_bucket", capacity |-> 2, interval |-> 3]]
FourCalls  == [k \in Keys |-> 4]
NoFaults   == [k \in Keys |-> 0]

OneKeyInit == Init /\ \E k \in Keys : key = [c \in Callers |-> k]

OneKeySpec == OneKeyInit /\ [][Next /\ UNCHANGED key]_vars
=============================================================================
