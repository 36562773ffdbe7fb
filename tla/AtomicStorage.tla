---------------------------- MODULE AtomicStorage ----------------------------
(***************************************************************************)
(* What a storage backend promises its callers: each call takes effect at  *)
(* one instant, on the entry of its own key only, and is decided with the  *)
(* time stamp the caller read BEFORE the call (now = time.time() in the    *)
(* check of core/algorithms).  Stamps therefore reach the storage in any   *)
(* order.  OrderedSpec is the special case of callers whose stamps arrive  *)
(* in order, which is what the documentation describes.                    *)
(***************************************************************************)
EXTENDS StorageOps

CONSTANTS
    Keys,     \* storage keys, "<rule name>:<client>"
    RuleOf,   \* the rule that each storage key is checked under
    MaxTime   \* bound: the last tick

ASSUME RulesAssumption == RuleOf \in [Keys -> LimitRule]
ASSUME TimeAssumption  == MaxTime \in Nat

\* The time stamps a caller may read.
Stamps == 0 .. MaxTime

VARIABLES
    db,       \* db[k]: the entry of key k, <<>> when absent
    \* History, read by the properties only:
    granted,  \* granted[k]: stamps of the requests admitted, in commit order
    high,     \* high[k]: the latest stamp k was checked with, 0 at first
    reply     \* the last call and its outcome, [key |-> NoKey] before any

atomicVars == <<db, granted, high, reply>>

NoReply == [called |-> FALSE]

Reply == [called : {TRUE}, key : Keys, now : Stamps, result : Outcome]

AtomicTypeOK ==
    /\ DOMAIN db = Keys
    /\ \A k \in Keys : db[k] \in EntryUnder(RuleOf[k])
    /\ granted \in [Keys -> Seq(Stamps)]
    /\ high \in [Keys -> Nat]
    /\ reply \in Reply \cup {NoReply}

AtomicInit ==
    /\ db = [k \in Keys |-> <<>>]
    /\ granted = [k \in Keys |-> <<>>]
    /\ high = [k \in Keys |-> 0]
    /\ reply = NoReply

\* The write that ends a call of k with stamp now, decided as `result'.
Record(k, now, result) ==
    /\ db' = [db EXCEPT ![k] = result.entry]
    /\ granted' = [granted EXCEPT ![k] = IF result.allowed THEN Append(@, now) ELSE @]
    /\ high' = [high EXCEPT ![k] = Later(@, now)]
    /\ reply' = [called |-> TRUE, key |-> k, now |-> now, result |-> result]

\* One storage call, from dictionary read to dictionary write.
Commit(k, now) == Record(k, now, Decide(RuleOf[k], db[k], now))

OrderedCommit(k, now) == now >= high[k] /\ Commit(k, now)

AtomicNext == \E k \in Keys, now \in Stamps : Commit(k, now)

OrderedNext == \E k \in Keys, now \in Stamps : OrderedCommit(k, now)

AtomicSpec == AtomicInit /\ [][AtomicNext]_atomicVars

OrderedSpec == AtomicInit /\ [][OrderedNext]_atomicVars

-----------------------------------------------------------------------------
(***************************************************************************)
(* How much each algorithm may admit.  `Admitted i places from the end'    *)
(* is i, and high[k] - granted[k][i] is how long ago that was by the       *)
(* latest clock reading the storage has seen.                              *)
(***************************************************************************)

KeysUnder(algorithm) == {k \in Keys : RuleOf[k].algorithm = algorithm}

\* The number of requests admitted from the i-th on.
AdmittedSince(k, i) == Len(granted[k]) - i + 1

Age(k, i) == high[k] - granted[k][i]

\* Sliding window: a request that `limit' later ones have followed has left the
\* window, whatever order the stamps arrived in.
SlidingEnvelope ==
    \A k \in KeysUnder("sliding_window") : \A i \in DOMAIN granted[k] :
        AdmittedSince(k, i) > RuleOf[k].limit => Age(k, i) >= RuleOf[k].window

\* Fixed window: a request that `limit' later ones have followed belongs to an
\* earlier aligned window than the latest stamp, and one that 2 * limit have
\* followed is at least a whole window old (the boundary burst of
\* docs/algorithms.md is no larger than that).
FixedEnvelope ==
    \A k \in KeysUnder("fixed_window") : \A i \in DOMAIN granted[k] :
        LET limit == RuleOf[k].limit
            window == RuleOf[k].window
        IN  /\ AdmittedSince(k, i) > limit =>
                   Aligned(granted[k][i], window) < Aligned(high[k], window)
            /\ AdmittedSince(k, i) > 2 * limit => Age(k, i) >= window

\* `Capacity at once, then one per interval': n requests in a row span at least
\* (n - capacity) intervals, less `slack' ticks.
BurstThenRate(k, slack) ==
    \A i \in DOMAIN granted[k] :
        AdmittedSince(k, i) * RuleOf[k].interval
            <= Age(k, i) + RuleOf[k].capacity * RuleOf[k].interval + slack

\* GCRA keeps to its burst and rate exactly, whatever order the stamps arrive in.
GcraEnvelope == \A k \in KeysUnder("gcra") : BurstThenRate(k, 0)

\* The leaky bucket does too, up to the part of an interval that had already
\* elapsed when the queue was last counted.
LeakyEnvelope ==
    \A k \in KeysUnder("leaky_bucket") : BurstThenRate(k, RuleOf[k].interval - 1)

\* Token bucket: the average is refill_rate and the burst is capacity.
TokenEnvelope == \A k \in KeysUnder("token_bucket") : BurstThenRate(k, 0)

\* The queue is the set of requests in the window when the clock is up to date
\* ("At any moment, the number of requests in the window is the length of the
\* queue", README.md:15).
QueueIsWindow ==
    \A k \in KeysUnder("sliding_window") :
        reply.called /\ reply.key = k /\ reply.now = high[k] =>
            Len(db[k]) = Cardinality({i \in DOMAIN granted[k] : Age(k, i) < RuleOf[k].window})

\* No aligned window sees more than `limit' requests stamped in it.
FixedPerWindow ==
    \A k \in KeysUnder("fixed_window") : \A i \in DOMAIN granted[k] :
        LET InWindow(s) == Aligned(s, RuleOf[k].window)
        IN  Cardinality({j \in DOMAIN granted[k] :
                             InWindow(granted[k][j]) = InWindow(granted[k][i])})
                <= RuleOf[k].limit

-----------------------------------------------------------------------------
(***************************************************************************)
(* What a caller may conclude from the reply it got.                       *)
(***************************************************************************)

\* The entry left by n more admissions at the stamp of the last reply.
EntryAfter[n \in Nat] ==
    IF n = 0 THEN db[reply.key]
    ELSE Decide(RuleOf[reply.key], EntryAfter[n - 1], reply.now).entry

\* `remaining' is exact: that many more requests at the same instant are
\* admitted, and the next one is not.
RemainingIsExact ==
    reply.called =>
        LET remaining == reply.result.remaining
            Admitted(n) == Decide(RuleOf[reply.key], EntryAfter[n], reply.now).allowed
        IN  /\ \A n \in 0 .. remaining - 1 : Admitted(n)
            /\ ~Admitted(remaining)

DecideAt(stamp) == Decide(RuleOf[reply.key], db[reply.key], stamp)

DeniedUnder(algorithms) ==
    /\ reply.called /\ ~reply.result.allowed
    /\ RuleOf[reply.key].algorithm \in algorithms

\* The reply was computed from the latest clock reading its key has seen.
UpToDate == reply.called => reply.now = high[reply.key]

AdmittedFromResetOn == \A wait \in 0 .. 3 : DecideAt(reply.result.reset_at + wait).allowed

DeniedBeforeReset == \A stamp \in reply.now .. reply.result.reset_at - 1 : ~DecideAt(stamp).allowed

\* A denied caller that comes back at reset_at or later, and finds nobody came
\* in between, is admitted (Retry-After is computed from reset_at).  The two
\* buckets, whose reset_at counts from the caller's stamp, promise it to a
\* caller whose stamp was up to date; the others to every caller.
RetryHonoured ==
    /\ DeniedUnder({"sliding_window", "fixed_window", "gcra"}) => AdmittedFromResetOn
    /\ DeniedUnder({"token_bucket", "leaky_bucket"}) /\ UpToDate => AdmittedFromResetOn

\* A denied caller that comes back before reset_at is denied again: the wait it
\* was told is no longer than it has to be.
RetryTight ==
    /\ DeniedUnder({"sliding_window", "fixed_window", "gcra"}) => DeniedBeforeReset
    /\ DeniedUnder({"token_bucket"}) /\ UpToDate => DeniedBeforeReset

\* The same of the leaky bucket, whose contract says that reset_at is "when the
\* next request can be processed (if full)" (core/storage/base.py:94).
LeakyRetryTight == DeniedUnder({"leaky_bucket"}) /\ UpToDate => DeniedBeforeReset
=============================================================================
