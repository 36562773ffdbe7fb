--------------------------- MODULE MCAtomicStorage ---------------------------
(***************************************************************************)
(* AtomicStorage with one key under a small rule of each algorithm.  Time  *)
(* runs from 0 to MaxTime, long enough for every entry to be filled,       *)
(* drained and refilled; the history is cut at MaxGrants admissions.       *)
(*                                                                         *)
(* A behaviour uses one of the keys only, chosen by its first call: Commit *)
(* touches nothing of the other keys, and the states of the keys add up    *)
(* instead of multiplying.                                                 *)
(***************************************************************************)
EXTENDS AtomicStorage

CONSTANTS
    MaxGrants,              \* bound: admissions of a key
    ks, kf, kt, kl, kg      \* the keys

SmallRules ==
    [k \in {ks, kf, kt, kl, kg} |->
        CASE k = ks -> [algorithm |-> "sliding_window", limit |-> 2, window |-> 3]
          [] k = kf -> [algorithm |-> "fixed_window", limit |-> 2, window |-> 3]
          [] k = kt -> [algorithm |-> "token_bucket", capacity |-> 2, interval |-> 3]
          [] k = kl -> [algorithm |-> "leaky_bucket", capacity |-> 2, interval |-> 3]
          [] k = kg -> [algorithm |-> "gcra", capacity |-> 2, interval |-> 3]]

InUse(k) == reply.called => reply.key = k

Bounded(k) == InUse(k) /\ Len(granted[k]) < MaxGrants

\* The specifications of the module, on one key and cut at MaxGrants.
BoundedNext == \E k \in Keys, now \in Stamps : Bounded(k) /\ Commit(k, now)

BoundedOrderedNext == \E k \in Keys, now \in Stamps : Bounded(k) /\ OrderedCommit(k, now)

BoundedSpec == AtomicInit /\ [][BoundedNext]_atomicVars

BoundedOrderedSpec == AtomicInit /\ [][BoundedOrderedNext]_atomicVars
=============================================================================
