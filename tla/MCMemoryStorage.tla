--------------------------- MODULE MCMemoryStorage ---------------------------
(***************************************************************************)
(* MemoryStorage with one or two threads on one or two keys.               *)
(***************************************************************************)
EXTENDS MemoryStorage

OneRule(rule) == [k \in Keys |-> rule]

SlidingRule == OneRule([algorithm |-> "sliding_window", limit |-> 2, window |-> 2])
FixedRule   == OneRule([algorithm |-> "fixed_window", limit |-> 2, window |-> 1])
TokenRule   == OneRule([algorithm |-> "token_bucket", capacity |-> 2, interval |-> 2])
LeakyRule   == OneRule([algorithm |-> "leaky_bucket", capacity |-> 1, interval |-> 3])
GcraRule    == OneRule([algorithm |-> "gcra", capacity |-> 2, interval |-> 1])
=============================================================================
