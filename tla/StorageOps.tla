----------------------------- MODULE StorageOps -----------------------------
(***************************************************************************)
(* The five rate limiting operations of core/storage/memory.py as pure     *)
(* functions: from the entry a storage key has in the dictionary, the      *)
(* parameters of the rule and the caller's time stamp, to the reply and    *)
(* the entry written back.                                                 *)
(*                                                                         *)
(* Time is counted in integer ticks.  A rate (refill_rate, leak_rate,      *)
(* rate) is 1/interval: one request every `interval' ticks, the tick being *)
(* chosen so that the interval is whole.  The level of a token bucket is   *)
(* kept in ticks of refill (one token = `interval' ticks), so the float    *)
(* arithmetic of the code, taken as exact, becomes integer arithmetic.     *)
(*                                                                         *)
(* An entry is a sequence of numbers and <<>> is a key that is absent:     *)
(*   sliding_window  the deque of stamps        fixed_window <<count, start>> *)
(*   token_bucket    <<level, last_refill_time>>                           *)
(*   leaky_bucket    <<queue_size, last_leak_time>>      gcra <<tat>>      *)
(***************************************************************************)
EXTENDS Integers, Sequences, FiniteSetsExt

Positive == Nat \ {0}

\* Rules that passed LimitRule's validator: limit, window, capacity and the
\* rates are all greater than zero.
WindowRule == [algorithm : {"sliding_window", "fixed_window"},
               limit : Positive, window : Positive]
BucketRule == [algorithm : {"token_bucket", "leaky_bucket", "gcra"},
               capacity : Positive, interval : Positive]
LimitRule  == WindowRule \cup BucketRule

Entry == Seq(Int)

\* The entries that the operation of a rule reads and writes.
EntryUnder(rule) ==
    CASE rule.algorithm = "sliding_window" -> Entry
      [] rule.algorithm = "gcra" -> {e \in Entry : Len(e) \in {0, 1}}
      [] OTHER -> {e \in Entry : Len(e) \in {0, 2}}

\* Operators whose name ends in _mutant are wrong on purpose: each is the operator
\* it precedes with one plausible slip, and breaks the properties that guard
\* against that slip (README.md lists them).

\* What an operation returns, and the entry it leaves behind.
Outcome == [allowed : BOOLEAN, remaining : Nat, reset_at : Int, entry : Entry]

\* `remaining' computed before the request itself is counted.
AdmitUncounted_mutant(remaining, reset_at, entry) ==
    [allowed |-> TRUE, remaining |-> remaining + 1, reset_at |-> reset_at, entry |-> entry]

Admit(remaining, reset_at, entry) ==
    [allowed |-> TRUE, remaining |-> remaining, reset_at |-> reset_at, entry |-> entry]

\* reset_at rounded up by a tick.
DenyLate_mutant(reset_at, entry) ==
    [allowed |-> FALSE, remaining |-> 0, reset_at |-> reset_at + 1, entry |-> entry]

Deny(reset_at, entry) ==
    [allowed |-> FALSE, remaining |-> 0, reset_at |-> reset_at, entry |-> entry]

AtLeastZero(n) == IF n < 0 THEN 0 ELSE n
\* A bucket that is not capped.
AtMostUncapped_mutant(n, bound) == n
AtMost(n, bound) == IF n > bound THEN bound ELSE n

-----------------------------------------------------------------------------
\* sliding_window

\* `<' for `<=' in the scan.
PrunedStrict_mutant(q, cutoff) ==
    LET recent == {i \in DOMAIN q : q[i] >= cutoff}
    IN  IF recent = {} THEN <<>> ELSE SubSeq(q, Min(recent), Len(q))

\* A search for the last expired stamp, as if the deque were sorted.
PrunedBisect_mutant(q, cutoff) ==
    LET old == {i \in DOMAIN q : q[i] <= cutoff}
    IN  IF old = {} THEN q ELSE SubSeq(q, Max(old) + 1, Len(q))

\* The deque after `while q and q[0] <= now - window: q.popleft()'.  The scan
\* stops at the first stamp that is recent enough; what is behind it is kept
\* whatever its age.
Pruned(q, cutoff) ==
    LET recent == {i \in DOMAIN q : q[i] > cutoff}
    IN  IF recent = {} THEN <<>> ELSE SubSeq(q, Min(recent), Len(q))

\* Refused only when the queue has exactly limit members, which it may exceed once
\* the rule is replaced by a stricter one.
sliding_windowExactly_mutant(entry, window, limit, now) ==
    LET q == Pruned(entry, now - window)
    IN  IF Len(q) # limit
        THEN LET queued == Append(q, now)
             IN  Admit(limit - Len(queued), queued[1] + window, queued)
        ELSE Deny(q[1] + window, q)

sliding_window(entry, window, limit, now) ==
    LET q == Pruned(entry, now - window)
    IN  IF Len(q) < limit
        THEN LET queued == Append(q, now)
             IN  Admit(limit - Len(queued), queued[1] + window, queued)
        ELSE Deny(q[1] + window, q)

-----------------------------------------------------------------------------
\* fixed_window

\* math.floor(now / window) * window
Aligned(now, window) == (now \div window) * window

\* A restart on every change of window.
CurrentWindowAnyChange_mutant(entry, start) ==
    IF entry = <<>> \/ entry[2] # start THEN <<0, start>> ELSE entry

\* The stored (count, window start), restarted when `now' is in a later window.
CurrentWindow(entry, start) ==
    IF entry = <<>> \/ entry[2] < start THEN <<0, start>> ELSE entry

\* `<=' for `<' in the comparison with the limit.
fixed_windowOneMore_mutant(entry, window, limit, now) ==
    LET current  == CurrentWindow(entry, Aligned(now, window))
        reset_at == current[2] + window
    IN  IF current[1] <= limit
        THEN Admit(limit - (current[1] + 1), reset_at, <<current[1] + 1, current[2]>>)
        ELSE Deny(reset_at, entry)

fixed_window(entry, window, limit, now) ==
    LET current  == CurrentWindow(entry, Aligned(now, window))
        reset_at == current[2] + window
    IN  IF current[1] < limit
        THEN Admit(limit - (current[1] + 1), reset_at, <<current[1] + 1, current[2]>>)
        ELSE Deny(reset_at, entry)

-----------------------------------------------------------------------------
\* token_bucket and leaky_bucket

\* max(now - last, 0.0): a stamp older than the last one counts for nothing.
Elapsed(now, last) == AtLeastZero(now - last)

token_bucket(entry, capacity, interval, now) ==
    LET full   == capacity * interval
        bucket == IF entry = <<>> THEN <<full, now>> ELSE entry
        level  == AtMost(bucket[1] + Elapsed(now, bucket[2]), full)
        left   == level - interval
    IN  IF level >= interval
        THEN Admit(left \div interval, now + (full - left), <<left, now>>)
        ELSE Deny(now + (interval - level), entry)

\* A leak counted a tick late.
LeakedLate_mutant(elapsed, interval) == AtLeastZero(elapsed - 1) \div interval

\* math.floor(elapsed * leak_rate)
Leaked(elapsed, interval) == elapsed \div interval

\* last_leak_time not moved past what has leaked.
leaky_bucketLeaksAgain_mutant(entry, capacity, interval, now) ==
    LET bucket == IF entry = <<>> THEN <<0, now>> ELSE entry
        queue  == AtLeastZero(bucket[1] - Leaked(Elapsed(now, bucket[2]), interval))
    IN  IF queue < capacity
        THEN Admit(capacity - (queue + 1), now + interval, <<queue + 1, bucket[2]>>)
        ELSE Deny(now + interval, entry)

leaky_bucket(entry, capacity, interval, now) ==
    LET bucket == IF entry = <<>> THEN <<0, now>> ELSE entry
        leaked == Leaked(Elapsed(now, bucket[2]), interval)
        queue  == AtLeastZero(bucket[1] - leaked)
    IN  IF queue < capacity
        THEN Admit(capacity - (queue + 1), now + interval,
                   <<queue + 1, bucket[2] + leaked * interval>>)
        ELSE Deny(now + interval, entry)

-----------------------------------------------------------------------------
\* gcra

\* capacity + 1 requests at once.
BurstIntervalFull_mutant(capacity, interval) == capacity * interval

\* "Use (capacity - 1) so 'capacity' exactly equals max burst size"
BurstInterval(capacity, interval) == (capacity - 1) * interval

\* max(tat, now)
Later(tat, now) == IF tat < now THEN now ELSE tat

gcra(entry, capacity, interval, now) ==
    LET tat     == IF entry = <<>> THEN now ELSE entry[1]
        burst   == BurstInterval(capacity, interval)
        new_tat == Later(tat, now) + interval
        spare   == capacity * interval - (new_tat - now)
    IN  IF tat <= now + burst
        THEN Admit(AtLeastZero(spare \div interval), new_tat, <<new_tat>>)
        ELSE Deny(tat - burst, entry)

-----------------------------------------------------------------------------
\* The storage call of every class copied from the leaky bucket's.
DecideCopied_mutant(rule, entry, now) == leaky_bucket(entry, rule.capacity, rule.interval, now)

\* RateLimiter._check_single's dispatch on the rule's algorithm, together with
\* the call each algorithm class makes on the storage.
Decide(rule, entry, now) ==
    CASE rule.algorithm = "sliding_window" ->
             sliding_window(entry, rule.window, rule.limit, now)
      [] rule.algorithm = "fixed_window" ->
             fixed_window(entry, rule.window, rule.limit, now)
      [] rule.algorithm = "token_bucket" ->
             token_bucket(entry, rule.capacity, rule.interval, now)
      [] rule.algorithm = "leaky_bucket" ->
             leaky_bucket(entry, rule.capacity, rule.interval, now)
      [] rule.algorithm = "gcra" ->
             gcra(entry, rule.capacity, rule.interval, now)
=============================================================================
