---------------------------- MODULE MCRateLimiter ----------------------------
(***************************************************************************)
(* RateLimiter on three rules: as a lone client that may wait and retry,   *)
(* and as threads of one client while the table changes.                   *)
(***************************************************************************)
EXTENDS RateLimiter, TLC

CONSTANTS a, b, c   \* rule names

\* Lone client: rules that refuse at moments of their own, each with room for a
\* burst, so that `remaining' differs from one to the next.
Paced   == [algorithm |-> "gcra", capacity |-> 2, interval |-> 2]
Sliding == [algorithm |-> "sliding_window", limit |-> 2, window |-> 3]
Bucket  == [algorithm |-> "token_bucket", capacity |-> 1, interval |-> 3]

LoneRules == {Paced, Sliding, Bucket}
LoneTable == [n \in Names |-> CASE n = a -> Paced [] n = b -> Sliding [] n = c -> Bucket]
LoneLists == {<<a, b>>, <<>>}

\* The threads differ in nothing but their names.
Symmetry == Permutations(Threads)

\* Threads: a rule that can be replaced by a stricter one of its own algorithm, which
\* then finds more in the queue than it allows, or of another.
Wide   == [algorithm |-> "sliding_window", limit |-> 2, window |-> 1]
Narrow == [algorithm |-> "sliding_window", limit |-> 1, window |-> 1]
Leaky  == [algorithm |-> "leaky_bucket", capacity |-> 1, interval |-> 1]

SharedRules == {Wide, Narrow, Leaky}
SharedTable == [n \in Names |-> IF n = a THEN Wide ELSE IF n = b THEN Leaky ELSE NoRule]
SharedLists == {<<a, b>>}
=============================================================================
