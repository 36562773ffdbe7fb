# pycurb: TLA+ models and proofs

pycurb is a rate limiter for Python servers. An application declares *rules*
(an algorithm and its parameters), asks `RateLimiter.check(client, rule_names)`
before it serves a request, and gets back `allowed`, `remaining` and `reset_at`.
The counting happens in a *storage backend*, in memory or in Redis, that many
threads, tasks or processes use at once.

This directory holds TLA+ modules of that program, TLC configurations that
check them on small instances, and theorems checked by TLAPS for every instance.
Paths below are relative to `src/src/pycurb/` unless they start with `README` or
`docs/`, which are the repository's own.

    cd tla
    tlc -workers 2 -config any_order.cfg MCAtomicStorage
    tlapm MemoryStorageProofs.tla

## 1. The system

| Component | State it keeps | Operations | Correct when |
|---|---|---|---|
| `MemoryStorage` (core/storage/memory.py) | five dictionaries key -> entry, a table of key locks, a global lock | one operation per algorithm; `get_lock` | each call is atomic on its key; the number admitted stays within the algorithm's envelope; `remaining` and `reset_at` are true |
| `AsyncMemoryStorage` (memory_async.py) | the same with `asyncio.Lock` | the same, as coroutines | the same; a cancelled task leaves no lock held |
| `RedisStorage`, `AsyncRedisStorage` (redis.py, redis_async.py) | keys with a time to live, on a server shared by processes | one Lua script per algorithm, but INCR then EXPIRE for the fixed window; `with_fallback` | as above, although keys expire, replies get lost and the server goes away |
| Algorithms (core/algorithms) | none | `check`: derive capacity and rate from the rule, read the clock, call the storage, compute `retry_after` | the parameters derived are those that the rule's validator accepted; the stamp belongs to the call |
| `RateLimiter`, `AsyncRateLimiter` (limiter.py, limiter_async.py) | the algorithms, the resolver, the storage | `check` of one rule or of a list in order; `add_rule`, `remove_rule` | all the rules of a list must allow; a denial stops the list; the reply is the strictest |
| Resolvers (resolver.py) | name -> rule, under a lock | call, `add_rule`, `remove_rule` | a lookup sees a whole rule |
| `rate_limit` (decorators.py) | "rule created" flag per function | check before the call, create the rule on the first call | the rule is created once |
| Models (models.py) | frozen values | validators, `RateLimitHeaders.from_result` | headers follow the result; an infinite `reset_at` is never printed |
| Adapters (adapters/flask, django, fastapi) | the result, in the request | middleware, decorators, dependencies | 429 or 503 on denial; headers of the decision that was made |
| `utils.py` | none | parse "100/30s" | |

How they interact: an adapter or the decorator calls `check`; `check` asks the
resolver for each rule, picks the algorithm, which reads `time.time()` **and then**
calls the storage; the storage takes the key's lock, reads, decides, writes and
returns; the result becomes headers. Nothing else is shared: the lock table, the
dictionaries (or Redis keys), the rule table and the decorator's flag are all the
mutable state there is.

What is hard about it:

* *Interleaving.* Locks are created on demand by double-checked locking. The
  stamp is read before the lock is waited for, so stamps reach an entry in any
  order even with a perfect clock.
* *Boundaries.* Every algorithm hangs on `<` or `<=`, on `capacity - 1`, on a
  `floor`.
* *Long sequences.* An error of a fraction of an interval per request adds up to a
  rate that is wrong.
* *Partial failure.* A list of rules refused half way; INCR without EXPIRE; a script
  that ran and whose reply was lost; a task cancelled between two awaits.
* *Several clocks.* The caller's, the server's, and the expiry of keys.
* *Change under way.* Rules replaced while they are used.
* *Layers.* Middleware and decorators that each check and each write the headers of
  one reply.

`PROJECT.json` lists each hazard at its line with the properties that watch it.

## 2. Modules

    StorageOps                 the operations as functions
      RuleParameters           the fields of a rule, what is accepted, what is derived
        AsyncRateLimiter       tasks of an event loop, lists of rules
      AtomicStorage            what a storage promises: atomic calls, stamps in any order
        MemoryStorage          threads, locks, clock
      RedisOps                 the Lua scripts as functions
        RedisStorage           clients, network, server, fallback (INSTANCE AtomicStorage)
      RateLimiter              threads, lists of rules, a table that changes
      WebAdapters              layers of middleware and decorators, headers

    MC<module>                 instances for TLC
    StorageOpsProofs           lemmas about the operations, and accounts of their entries
      MemoryStorageProofs      theorems about AtomicStorage, then about its threads
      RateLimiterProofs
      AsyncRateLimiterProofs   of RuleParameters too
      RedisStorageProofs       types, the ledger, lemmas about the scripts
        RedisAdmissionProofs   how much is admitted
        RedisRefinementProofs  the refinement, and what denied callers are told
      WebAdaptersProofs

**StorageOps** has one operator per operation of `MemoryStorage`, from the entry
found under the key, the rule's parameters and the stamp, to the reply and the
entry left (`Outcome`). `Decide` is `RateLimiter._check_single`'s dispatch.
Each operator keeps the code's branches and its order (prune, compare, append,
compute `remaining` after). An operation that denies leaves the entry as it found
it, except the sliding window, which has pruned the deque by then.

**AtomicStorage** has the state of a backend, `db`, and one action, `Commit(k, now)`:
one call on key `k` with a stamp `now` that may be any. `granted`, `high` and
`reply` are history that only properties read: the stamps admitted, the latest
stamp seen and the last call with its outcome. `OrderedSpec` is the special case of
stamps that arrive in order.

**MemoryStorage** refines that to threads. `check` and `get_lock` are cut at every
place where another thread can run; the comment at the head of the module lists the
program counter's values with the statement each stands for. A lock is
named after the key and the thread that created it, so two locks for one key can
exist if the code lets them. `Tick` and `StepBack` move `time.time()`, which is not
monotone. The module EXTENDS AtomicStorage and uses its variables as they are; the
abstract specification is then simply the formula `AtomicSpec`, the refinement
mapping being the identity on `db`, `granted`, `high` and `reply`.

**RateLimiter** has the table of rules, the decorator's flag and the threads of one
client, each going through a list of rules: `Resolve`, `ReadClock`, then one storage
call, `Admitted` or `Refused`. A storage call is a single step there, which is what
`AtomicSpec` and its proof allow. Rules change at any moment (`AddRule`, `RemoveRule`),
so the dictionaries are kept per algorithm as in the code and an entry may be read under
other parameters than it was written under. `served` and `lost` are history: what allowed
checks have paid for, and what checks ended by a later rule have. `LedgerBalances` compares them, and
the checks in progress, with the requests that the storage's own entries hold (`Held`).

**RuleParameters** is written twice over, as the code is: `Accepted` is the validator
of `LimitRule`; `Parameters` and `Raises` are what the algorithm classes do with the same
fields when they are called.

**AsyncRateLimiter** is the asynchronous counterpart of RateLimiter, with
AsyncRuleResolver, AsyncMemoryStorage and the asynchronous wrapper. `loop` is the task
that runs; a task keeps the loop until it awaits something that is not ready. The package's
own locks always are: no task leaves the loop with one held, so `Count` reads the clock and
writes the entry in one turn; but the host's clock may be set back between two turns (`StepBack`), as
memory_async.py:82-83 and 107-109 expect. A Redis server and a resolver of the application's own are
not ready (`setup` chooses), and wherever a task waits for one of them it can be cancelled.

**RedisOps** and **RedisStorage**: each caller belongs to a process with a clock of its
own. A call is a sequence of round trips (`sent`, `executed`), the scripts one, the
fixed window up to three. `GiveUp` is a connection that breaks, with the command or its
reply lost, or the command still on its way (`adrift`) to be executed later by
`ServeLate`; `Resend` is the client library's repetition; `Cancel` a cancelled task. What follows
an error is `with_fallback`: `ResortToMemory`, `FailOpen`, `FailClosed`. The server
removes keys that have expired, and `Tick` moves its clock, and with it those of the processes, each
at a distance that does not change. RedisStorage instantiates
AtomicStorage with the entries of its keys, and `ImplementsAtomicStorage` is that
specification as a property.

**WebAdapters** sends requests of one client through a stack of two layers and back:
`Consult` is the check of a layer, `TurnAway` and `LetIn` its outcome, `Return` the
layer on the way back, which writes its headers. The kinds of layer differ as the code
does: Flask's extensions share one entry of `environ` and run `after_request` also on
replies that were cut short, decorators know `on_limit`, FastAPI's middleware knows
`exclude_paths`, its dependency sets headers on the reply of a view that returned. Its clock is not
set back: a client that waits seconds on its own watch is told too little by a server whose clock
loses some meanwhile, whatever the code does.

### Abstractions

* Time is an integer number of ticks and a rate is `1/interval`, the tick chosen so
  that the interval is whole. A token bucket's level is counted in ticks of refill.
  The code's floats are thus taken as exact; what rounding does to them is not
  modelled.
* The five dictionaries are one function from storage keys, because a storage key
  `"<rule>:<client>"` names its rule and so its algorithm; there `RuleOf` is constant.
  Where rules change (RateLimiter) there is one function per algorithm.
* RateLimiter has one client: a storage key is then a rule name, and clients share
  nothing but the table of rules.
* Rules of token buckets share one interval in RateLimiter (`TokenRulesAssumption`),
  because the level is counted in ticks of refill.
* An entry is a sequence: the deque, or the pair, or the single value of the code.
  `<<>>` is an absent key.
* `setdefault` of an empty deque is the same state as an absent key: both read as
  empty.
* A rule is what the algorithm class passes on (`limit` and `window`, `capacity` and
  interval), as RuleParameters derives it from the fields of a LimitRule; only
  AsyncRateLimiter starts from the fields. A rate that is infinite or rounds to zero,
  which floats allow, has no interval and is left out.
* Keys of Redis share nothing, so a behaviour of MCRedisStorage uses one. A window's start
  is part of a fixed window's key: `counters` has one counter per start.
* An execution of the sliding window's script that finds its own member (`Known`) tells of an
  admission once more; `granted` has it once.
* A member of the sorted set is `<<score, unique_id>>`. The 16 random bytes of the id are
  the caller and the number of its call: they never collide.
* One command of a repeated or late call is one step of the server. That a reply is
  garbled, or that the server restarts without its data, is not modelled.
* AsyncRateLimiter's cancelled task leaves what it asked of the server or the resolver
  either done or not done; commands that arrive later are in RedisStorage.
* WebAdapters keeps of a request only whether its path is excluded. The extractors read
  the client from it; there is one client, and layers have storages of their own.

## 3. Properties and runs

| Run | Module | What it asks |
|---|---|---|
| `any_order` | MCAtomicStorage | any order of stamps, each algorithm |
| `in_order` | MCAtomicStorage | what holds only while a key's stamps arrive in order |
| `memory_threads` | MCMemoryStorage | locks, refinement, termination, under threads and a clock set back |
| `limiter_alone` | MCRateLimiter | lists of rules, one client that may wait and retry |
| `limiter_threads` | MCRateLimiter | lists of rules, two threads, a table that changes, a clock set back |
| `threads_token` | MCMemoryStorage | violated: `TokenEnvelope` |
| `threads_sliding` | MCMemoryStorage | violated: `QueueIsWindow` |
| `threads_leaky` | MCMemoryStorage | violated: `LeakyRetryTight` |
| `redis` | MCRedisStorage | seven keys under faults, two processes with different clocks |
| `redis_expiry` | MCRedisStorage | violated: `AverageIsRate` |
| `async` | MCAsyncRateLimiter | two tasks, four setups, a table that changes, cancellation, a clock set back |
| `adapters` | MCWebAdapters | two requests through six stacks of two layers |

**How much is admitted.** An *envelope* bounds what can be admitted in any stretch of
time, without mentioning how the algorithm counts: it relates the history of
admissions to the latest stamp.

* `SlidingEnvelope`: of `limit + 1` consecutive admissions the first has left the
  window. It holds in every order of stamps, because the scan only ever keeps too
  much.
* `FixedEnvelope`: the boundary burst is at most two limits, and a stale stamp cannot
  stretch it further (the counter never moves back).
* `GcraEnvelope`: burst and rate are exact in every order.
* `LeakyEnvelope`: exact up to less than one interval, the part that had elapsed
  when the queue was last counted. (`last_leak_time` is not moved when an
  empty bucket sits idle.)
* `TokenEnvelope`: exact when stamps arrive in order, and *only* then: see the findings.

**What the caller is told.** `RemainingIsExact`: that many more requests at
the same instant are admitted and not one more. `RetryHonoured`: a denied caller
that comes back at `reset_at`, or later, is admitted if nobody else came. `RetryTight`:
and not earlier. For the two buckets these hold of replies computed from an
up-to-date stamp. `QueueIsWindow` and `FixedPerWindow` are what the documentation says
(README.md:15, docs/algorithms.md:49); they hold while stamps arrive in order, and
threads break both: see the findings.

**Lists of rules.** `LedgerBalances`: the stamps in a name's deque, the count of its fixed window and
the queue of its leaky bucket are together at most the admissions that checks have to show for:
those of allowed checks, those lost to checks that a later rule ended (the documentation announces
that loss, `docs/advanced.md:13`), those of checks in progress. As long as no rule can forget a
request they are exactly that, so that no quota is given back either. It holds however the rule under
the name changes and the clock is set back. (What a token bucket and GCRA store is no
number of requests.) `RemainingIsPromise`: for a lone client,
`remaining` holds for the whole list. `PatienceRewarded`: each refusal of a list may
have consumed quota of its earlier rules, so a client that returns exactly when told
may be refused again, by them (if the clock is not set back while it waits); but at most `2^n - 1` times for `n` rules, because
a refusal never consumes quota of the rule that refuses or of those after it. It is for lists
without repetitions: a rule of limit 1 listed twice never allows anything.
`DecidedUnderLiveRule`: a rule that was gone before a check began is never applied to
it. `AddedOncePerThread`: the decorator's flag and the table are two writes, so the
synchronous wrapper may add its rule once per thread, replacing what `add_rule` put there.
`TypeOK` is where an entry written under one rule meets another: `remaining` stays a
natural number although the queue may by then hold more than the limit.

**Concurrency.** `MutualExclusion`: no two threads in the read-modify-write of one
key. `AtomicSpec`: the threads implement the atomic storage. `EveryCheckReturns`.

**Redis.** `ImplementsAtomicStorage`: under the server's clock, the scripts of the sliding
window, the token bucket and GCRA are the atomic storage with ordered stamps, whatever
faults there are and although keys expire: an expiry is only ever noticed when the
entry no longer mattered. A repeated command of the sliding window that finds its request
in the sorted set is told of the admission again and stutters. (A bucket's key is the exception, and its rule must refill within
`BucketTTL`, see `redis_expiry`; and the `reset_at` of an admitted sliding window is translated by
`PlainResult`, see finding 5.) `SkewEnvelope`: under the clients' clocks the envelopes are as loose as stamps are off the
server's clock when they are used (`Drifts(k)`): the sliding window loses up to twice the
largest drift, GCRA, whose key lives by the server's clock, the drift with every request;
the leaky bucket loses part of an interval, as ever. (No key of the run is a leaky bucket under the callers'
clocks: `SkewEnvelope` says nothing of one, and its theorem nothing more.)
`FixedOnTime`: the fixed window's TIME, INCR and EXPIRE interleave, and still no more than
`limit` requests are counted in a window before it ends. `LedgerBalances`: what
the server has recorded and nobody was told is at most one request per fault, and nobody
is let through without being counted. `OrphansAreFaults`: a counter that will never expire is left
behind only by a fault between INCR and EXPIRE. `OutageEnvelope`: with a fallback storage,
burst and rate hold once for each storage that answered. `RetryAfterHonoured`: `reset_at`
is the server's and `retry_after` is computed with the caller's clock, so a caller waits
too little by what its clock is ahead, and by no more.

**Event loop.** `StampsInOrder`: with the memory storage, the tasks do not reorder the stamps of a
name, as threads do. An older stamp follows a newer one only if the clock was set back in between,
and then it may: what `TokenEnvelope`, `QueueIsWindow` and `FixedPerWindow` need, an event loop has
only while its clock is monotone. `RemainingIsPromise`: `remaining` holds for the
whole list although another task checks the same client, at once and at every instant that is not before the
stamps of the check, the clock set back or not. `LedgerBalances`: what the storage counted
(`used`, written where the storage is, by `Booking`) is what allowed, ended, cancelled and running checks
have paid for. `AddedOnce`: once, and where the resolver waits at most once per task and
cancelled call. `CheckEnds`: every call returns or raises, if the server and the resolver answer.

**Adapters.** `StatusTellsWhy`: 503 only for a storage that failed, 429 or `on_limit`'s
reply only for a quota, the view's reply only if every layer on the path admitted this
request. `OneLayersQuota`: limit, remaining and reset on a reply belong to one check of that
request, never mixed. `RetryAfterSuffices`: a client that waits as told is not refused
there again.

### Bounds

* `MaxTime` 8 or 10 with windows and intervals of 3: three windows, and time for a
  full bucket of two to empty and fill again, with stamps on, before and after each
  boundary. Limits and capacities of 2 tell `capacity - 1` from `capacity`
  and from 0. `threads_*` use the smallest parameters that show the effect.
* `MaxGrants` 5 or 6 admissions of a key: more than twice the limit, which
  `FixedEnvelope` needs. Denials are not counted; they change the entry of the
  sliding window only.
* A behaviour of MCAtomicStorage uses one key. `Commit` reads and writes nothing of
  other keys; that keys do not disturb each other through locks is what
  `memory_threads` has two keys for.
* `MaxChecks` 2 per thread: a first check that creates the lock and a second that finds
  it. Two threads are enough to race for a lock and to use two of them; the proofs
  cover any number. `MaxStepsBack` 1.

* `limiter_alone`: two rules, seven checks in nine ticks, enough to reach the
  `2^2 - 1 = 3` refusals in a row that `PatienceRewarded` allows.
* `limiter_threads`: two checks per thread, one change of the table, two instants; the
  change can fall between any two steps, and may put a rule of limit 1 where one of limit 2
  has filled the queue. The decorated function's rule is one that the table has at first. The clock is set back once, to a time before stamps that are in use. Its threads
  are symmetric. `limiter_alone` has no such step (`MaxStepsBack` 0): its properties are about a
  client that waits.
* `redis`: two callers in two processes, one a tick ahead; five keys under the server's
  clock, one per algorithm, and two under the callers'; two calls where limit or capacity is
  1, three for the sliding windows, whose limit is 2, so that the last is one too many, and three
  for the bucket, which must see its key expire and be refilled; windows, intervals and the lifetime of buckets of two ticks
  (three for the window under the callers' clocks) within four instants, so keys expire before,
  on and after the boundary. One fault per key, two where there is an outage to come and go,
  none for the bucket.
  One repetition per command.
* `redis_expiry`: a bucket that takes six ticks to fill with a lifetime of two stands
  for one that takes longer than 3600 seconds.
* `async`: two rules of a list, a third for the decorator, two instants. Where tasks
  wait they interleave, and one check each, one change and one cancellation are enough.
  With the memory storage the clock is set back once; with the package's own resolver as well there are two checks
  each, and no change of the table, which could not fall inside a check.
* `adapters`: six stacks, each framework with the stricter rule inside or outside, with
  `on_limit` absent, declining and responding, with fail-open layers. A second is two
  ticks, so reset times fall between seconds. Three requests of which two are
  under way at once, one failure of a storage.

### Deadlock

`any_order` and `in_order` stop at `MaxGrants`, so deadlock is not checked there;
`limiter_alone` asks other questions and leaves it to `limiter_threads`. Every other passing
run checks it. Their `Finished` action lets the system stutter only when every call has
returned: in `redis` with no command on its way, in the others with no call left to make.

### Fairness

`FairSpec` asks weak fairness of each thread's steps: the operating system runs a
thread that can run. Nothing is asked of the locks, since `threading.Lock` promises
no order among waiters: a waiting thread's step is enabled only while the lock is free.
`EveryCheckReturns` holds because each thread makes finitely many checks; with an
endless stream of other checks of the same key a waiter could starve, and the code
does nothing against it. The clock has no fairness.

AsyncRateLimiter's `FairSpec` asks strong fairness of each task's steps, those of the
server and the resolver on its behalf included: the loop's queue is first in, first out, so a
task that is ready again and again while others run gets its turn, and `CheckEnds` is about a
server and a resolver that answer. The `async` run has no bound on waiting, only on the
number of checks.

### Mutants

An operator whose name ends in `_mutant` stands before the operator it mutates and is
wrong in one way; put in its place, it breaks the property that guards against it.

| Mutated | Slip | Property that breaks |
|---|---|---|
| `Pruned` | binary search in an unsorted deque | `SlidingEnvelope` |
| `Pruned` | `<` for `<=` | `QueueIsWindow` |
| `CurrentWindow` | restart on any change of window | `FixedEnvelope` |
| `fixed_window` | `<=` for `<` | `FixedPerWindow`, `AtomicTypeOK` (negative `remaining`) |
| `AtMost` | bucket not capped | `TokenEnvelope` |
| `leaky_bucket` | `last_leak_time` not moved when the queue leaks | `LeakyEnvelope` |
| `Leaked` | a tick late | `RetryHonoured` |
| `BurstInterval` | `capacity` intervals | `GcraEnvelope` |
| `Admit` | `remaining` before counting | `RemainingIsExact` |
| `Deny` | `reset_at` a tick late | `RetryTight` |
| `Recheck` | no second look at the lock table | `MutualExclusion` |
| `EnterGlobal` | no global lock | `AtomicSpec` |
| `LeaveGlobal` | global lock kept | `EveryCheckReturns` |
| `Strictest` | the largest `remaining` | `RemainingIsPromise` |
| `Refused` | the rest of the list is checked after a refusal | `PatienceRewarded`, `LedgerBalances` |
| `Resolve` | one lookup for the whole list | `DecidedUnderLiveRule` |
| `MarkCreated` | the flag is not set | `AddedOncePerThread` |
| `sliding_window` | refused at exactly `limit` requests in the queue | `TypeOK` |
| `Decide` | GCRA's class calls the leaky bucket's operation | `TypeOK` |
| `Unexpired` | the cutoff is kept | `ImplementsAtomicStorage` |
| `gcra_script` | the key lives only until its last request is due | `SkewEnvelope` |
| `Expire` | the counter is gone before its window is | `FixedOnTime` |
| `ServeIncr` | one more than the limit | `LedgerBalances` |
| `FollowUps` | no EXPIRE | `OrphansAreFaults` |
| `ResortToMemory` | a fresh fallback storage per call | `OutageEnvelope` |
| `RetryAfter` | rounded down | `RetryAfterHonoured` |
| `Unknown` (async) | unknown rules passed over; waited for | `LedgerBalances`; `CheckEnds` |
| `Create` | the flag is not set | `AddedOnce` |
| `Send` | the storage waits inside its lock | `StampsInOrder` |
| `Strictest` (async) | the result of the last rule | `RemainingIsPromise` |
| `Refusal` | `on_limit` asked before `storage_unavailable` | `StatusTellsWhy` |
| `with_headers` | headers that are there already are kept | `OneLayersQuota` |
| `from_result` | `retry_after` made up where the result has none | `RetryAfterSuffices` |

## 4. Findings

1. **A token bucket can refill twice for the same time** (`threads_token`). `token_bucket`
   clamps a negative elapsed time but still writes `last_refill_time = now`, so a late
   stamp turns it back, and the next request is credited for time already credited. It
   takes two threads, no clock fault: the stamp is read before the lock.
   With capacity 2 and a token every 2 ticks, stamps 2, 0, 2 are all admitted. The
   comment above the clamp says a regression "must not silently refill tokens".
2. **The queue is not always the window** (`threads_sliding`), against `README.md:15`:
   a stale stamp queued behind a newer one is not pruned when it expires, and denies a
   request. The limit itself is safe (`SlidingEnvelope`).
3. **The leaky bucket overstates the wait** (`threads_leaky`), against
   `core/storage/base.py:94`: it says one whole interval from now, although a slot frees
   one interval after `last_leak_time`. A waiting client is never told too little
   (`RetryHonoured`).
4. **A slow bucket refills too soon** (`redis_expiry`), against `README.md:50` ("long-term
   average is `refill_rate`"): the hash of a token bucket lives 3600 seconds after the last
   admission, whatever the rate is. A bucket that takes longer to fill is full again
   when it has expired. The comment in the script calls the expiry "optional".

5. **An admitted sliding window of Redis names another reset time**, against
   `core/storage/base.py:25`: the script returns `now + window`
   (core/storage/redis.py:106) where the contract has "oldest request + window", which
   MemoryStorage returns, and the same script when it denies. The run `redis` passes because `PlainResult`
   translates that value; without it `ImplementsAtomicStorage` is violated by the second
   admission of a window.
6. **A 503 may carry a reset time**, against `docs/getting_started.md:181-182` ("Fail-closed
   storage failures omit unknown reset/retry values"). An outer layer replaces Limit, Remaining and
   Reset of an inner layer's refusal by those of its own check, whatever the status is: with an
   outer layer that admitted, the reply of an inner one whose storage failed has the outer one's reset time.
   The run `adapters` passes: that the three come from one check is what `OneLayersQuota` says, not whose.

Findings 5 and 6 are not violations of a run's property; a property that says what the line says
fails at once.

Facts met on the way that contradict no line, or have a finding already:

* The cause of findings 1 and 2 also breaks `FixedPerWindow` under threads
  (`docs/algorithms.md:49`): a late stamp of the previous window is counted in the
  current one.
* "Redis operations are atomic via Lua scripts" (`docs/contributing.md:131`) is not so for the fixed window. A lost
  connection between INCR and EXPIRE leaves a counter for ever (`OrphansAreFaults`), one
  small key per window hit.
* `core/limiter_async.py:112` compares the coroutine of an asynchronous resolver with
  None before awaiting it: a resolver that answers None raises AttributeError, not
  the ValueError of line 113.
* Two `RateLimit` extensions of Flask share one `environ` entry, so the reply
  tells what the layer that admitted last had to say.
* `X-RateLimit-Reset` is cut to whole seconds and may be up to a second early;
  `Retry-After` is rounded up and is not.

## 5. Proofs

TLAPS checks these for every set of keys, threads, tasks, callers and processes (finite where
they are counted: `ThreadsAssumption`, `AsyncAssumption`, `RedisAssumption`), every rule that
`RulesAssumption` admits (positive integers), every clock skew, number of faults and
`MaxTime`. The other assumptions are that `NoThread`, `NoTask` and `NoRule` are not a thread, a
task and a rule, that no process is called `"server"`, `"open"` or `"closed"`, and that the constants of
RateLimiter, AsyncRateLimiter and RedisStorage have their types.

Two theorems of RedisStorage have a hypothesis about `BucketTTL`, the 3600 seconds
of `core/storage/redis.py`: `BucketsOutlive` and `LeakyOutlive` say that the buckets under
the server's clock fill, or drain, within that time. Without it they are false: the run `redis_expiry`
shows what a slower bucket does.

**Parameters** (`AcceptedNeverRaises`, `ParametersAreRules`). For all fields, a rule that
the validator accepts makes no algorithm class raise, and what the class derives from it is a
`LimitRule` in the sense of StorageOps, which is what all other theorems assume of a rule. The
ticks are chosen so that the derived interval is whole (`Ticked`).

**Type correctness** (`TypeCorrect`, `ThreadsTypeCorrect`, RateLimiter's and RedisStorage's
`TypesHold`). One lemma per operation in StorageOpsProofs (`DecideType`): given a well-formed
entry, the outcome is well formed. The delicate parts are `remaining` not going negative and the
pair of the fixed window and the buckets staying pairs. In RateLimiter an entry may be decided
under another rule than the one that wrote it, so its invariant says only what every
algorithm leaves behind whatever its parameters (`EntryOf`), and a queue longer than the limit must
still give a `remaining` that is not negative.

**Envelopes** (`SlidingEnvelopeHolds`, `GcraEnvelopeHolds`, `LeakyEnvelopeHolds`,
`FixedEnvelopeHolds`, `TokenEnvelopeHolds`). None of them is inductive: it says nothing of the
entry, which is what the next decision depends on. Each is strengthened by an
*account* that relates the entry to the whole history of admissions:

* sliding window: the entry is a suffix of `granted[k]`, and every earlier
  admission is at least a window old;
* GCRA: the i-th admission from the end has `tat` at least that many intervals
  after it;
* leaky bucket: the same with the moment at which the queue would be empty,
  `last_leak_time + queue_size * interval`, and less than an interval of slack;
* fixed window: every admission but the last `count` is stamped before the counter's
  window, and every one but the last `count + limit` a whole window before;
* token bucket: what has been admitted since any stamp, less what was refilled since, is
  at most what is missing from the bucket. Keeping it needs `last_refill_time <=
  high`, which fails to be preserved by a late stamp: hence `OrderedSpec`.

Each account is proved once at the level of one sequence, one entry and one decision,
then lifted to the specification; `Commit` changes a single key.

**Retry** (`RetryHonouredHolds`, `RetryTightHolds`). One lemma per algorithm says of a single
refused decision that the entry it leaves admits at every stamp from `reset_at` on (and, outside
the leaky bucket, at none before). `Commit` replaces reply and entry together, so that is all the
two properties need of a step; what the lemmas need of the entry (`RetryInv`) are the accounts above
and that a bucket's stamp is not ahead of the latest one.

**Remaining** (`RemainingIsExactHolds`). The inductive invariant is about one more call only:
`NextHasOneFewer` says that the next decision at the stamp of the last reply is an admission if
and only if something remained, and then has one less to give. One lemma per algorithm
(`DecideOneFewer`) shows it of any two decisions in a row, from the
rounding of `remaining` (`DivLessOne`) and because the second decision finds nothing to
prune, refill, leak or reset. The rest is induction on the number of calls, which `ByInduction` takes
from the least exception of a set of numbers; `IterationExists` shows in the same way that
the recursive `EntryAfter` is what its definition says (`EntriesAfter`).

**Windows** (`QueueIsWindowHolds`, `FixedPerWindowHolds`), of `OrderedSpec`. While stamps arrive in
order the history is sorted (`Rising`), no entry of the queue has expired by the latest stamp
(`Fresh`) and, in the fixed window, every admission falls into a later window than the one `limit`
places before it (`Spaced`). None of the three survives a late stamp.

**Locks** (`MutualExclusionHolds`). `LockInv` adds to the program counter what each
place knows: a thread between `EnterGlobal` and `LeaveGlobal` owns the global lock; at
`install` the table has no lock for its key; from `acquire` on, its lock is the one in
the table; inside, it owns that lock. Locks once in the table never change, and that is
all `MutualExclusion` needs.

**Refinement** (`ThreadsImplementAtomicSpec`). `LockInv` also says that at `store`
the entry read still is the entry in `db`. `Store` then is `Commit`, and every other step
stutters. What AtomicSpec guarantees in every order of stamps carries over to the threads
(`ThreadsKeepSlidingEnvelope`, `ThreadsKeepGcraEnvelope`, `ThreadsKeepLeakyEnvelope`,
`ThreadsKeepFixedEnvelope`, `ThreadsHonourRetry`, `ThreadsTellRemaining`).

**Rules in use** (`LiveRuleHolds`). `LiveInv` adds to `DecidedUnderLiveRule` that the
whole table is live for every check in progress, which a change of the table
keeps because it is recorded for all of them.

**Rules added by the decorator** (`AddedOncePerThreadHolds`, `AddedOnceHolds`). Both count
callers by where they are: while the flag is unset, every addition so far belongs to a caller
that is about to set it (or was cancelled); afterwards only those can add that
found it unset. On an event loop with the package's resolver, the caller that is about to add
the rule owns the loop, and is therefore alone.

**Order on an event loop** (`StampsInOrderHolds`). With the memory storage no task waits
for a server, so a decision is made at the clock's time; and the last decision on a name was made at a
time the clock had reached, unless it was set back since (`OrderInv`).

**What checks pay for** (RateLimiter's and AsyncRateLimiter's `LedgerBalancesHolds`). What is paid
is a sum over threads and lists, which the prover cannot unfold by induction. The proofs count
instead the positions of lists that have been passed, a set of pairs of a caller and an index:
it grows by a pair when the storage admits, and a check that ends, is refused, fails or is
cancelled moves its pairs from those in progress to those served or lost. In RateLimiter the other side
of the balance is in the entries. `Adds` says what a decision does to the number of requests in an entry
(`DecisionAdds`, a lemma for each of the three algorithms that count, whatever rule wrote the entry):
at most one more, by an admission, and exactly that many more if the stamp is within the rule's
`Span` of the start. `BalanceInv` adds that counts and stamps are natural numbers, and that no stamp in use is ahead of
a clock that has not been set back.

**The ledger of Redis** (RedisStorage's `LedgerBalancesHolds`). Two bounds, two arguments. From above: a
fault wastes an admission, or sets a command adrift that may waste one when it is served
(`Afloat`); the sum of both never exceeds `faults`. From below, that nobody is let through without being
counted: a repeated command may be told of an admission that is counted already, and whoever may be
told so (`Repeaters`) has one wasted admission to claim. Which admission that is the sorted set says, since no
request is in it before its call has begun (`IdsKnown`).

**Counters of Redis** (`OrphansAreFaultsHolds`, `FixedOnTimeHolds`). An orphan to which no caller is about
to send EXPIRE is lost; lost orphans and the INCRs adrift together are at most the faults (`LostInv`).
A counter expires no earlier than its window ends, as TIME was answered before
(`CountersLast`, `TimesPast`): until then it has counted every admission that is on time
(`CountedOnTime`).

**Refinement by the scripts** (`ImplementsAtomicStorageHolds`, given `BucketsOutlive`). `Current`
says of an entry, as the script left it, that the server's clock can have dropped
it only when each later decision would be that of an absent one (`ExpiryUnnoticed`); the scores of the
sorted set are the memory storage's deque (`SlidingAgrees`). A script is then a `Commit` with the
server's time, a script that finds its own member a stutter, and everything else leaves
the mapped variables alone.

**What denied callers are told** (`RetryAfterHonouredHolds`). Not a consequence of the refinement, for it also
speaks of the caller's clock. `StampsRead` bounds the stamp that is sent by server's clock and
skew, `Promised` is what the last reply says of the entry that it left; the lemmas on denials give the
rest. It needs no `BucketsOutlive`: a dropped entry denies nobody.

**Clocks of clients** (`SkewEnvelopeHolds`, given `LeakyOutlive`). One record per algorithm (`RecordsKept`)
relates the stored entry *and* its expiry to all admissions so far, whatever order the stamps come
in. The sliding window's is the delicate one: late stamps are inserted in the middle of the sorted set,
so the entry is no suffix of the history. Its record says that each admission holds a
position of the set that no other holds, or has departed: left the window by the latest stamp, or
seen the key expire (`Covered`). As the set never has more than `limit` positions, `limit + 1` admissions cannot all be closer
than the envelope says.

**Outages** (`OutageEnvelopeHolds`). For each storage that may answer, the server and the fallback of
each process, GCRA rations what it admits between any two instants (`Rationed`). The server may have
recorded more than its callers were told, never less (`AccountedIn`, of the answers between the two
instants and those about to be given). The shares of the storages then add up: an injection of the answers into
pairs of a storage and a number up to the ration (`SharesAddUp`). This needs no hypothesis: GCRA's key
lives until its arrival time.

**Replies of the adapters** (`StatusTellsWhyHolds`, `OneLayersQuotaHolds`, `RetryAfterSufficesHolds`), for
stacks of any height, any mixture of layers and any number of requests. None is inductive, for all
three speak of a reply that has arrived. `Whereabouts` says what a request's results are at each place
of its way: before layer `n` they are the admissions of the layers up to it that ask about its path,
and a refusal is always the last. `HeadersTell` says that every header in a request's hands, in
FastAPI's parameter or on the reply, was read from one of its results, and Retry-After from the last;
writing the headers of an admission over it keeps that, because they have a Limit, a Remaining and a Reset,
and no Retry-After (`QuotaHidden`). `PromisesKept` follows a refusal on its way back and after: as long as
its layer has admitted nobody since, the entry it left admits from `reset_at` on, which is the lemmas
on denials again (`DecideFits`), and the seconds of Retry-After reach that far (`CeilSuffices`).

**The promise of a list** (RateLimiter's `RemainingIsPromiseHolds`, given `Alone`; AsyncRateLimiter's,
given `NoRepeats`). The property attempts a whole list over and over: a fold inside a recursion. Both are
functions that exist (`FoldExists`, `RepetitionExists`), and `Tries` is what one attempt does to the dictionaries.
The invariant is `Owing`: while a check goes through its list, every rule it has passed still has at least
what its result said was left. A decision on another name leaves that alone, and time only adds to it
(`OwingLater`, from `DecisionBacks`); each further attempt takes one from every rule
(`TriesRepeated`), and the strictest result is the least of them (`FirstFound`). `Alone` is one
thread, no calls of `add_rule` and `remove_rule`, a clock that is not set back and lists that repeat no name; `limiter_alone` satisfies it. On an event loop with
the package's storage and resolver any number of tasks, any changes of the table and any steps of the clock
will do: a check has the loop from its first step to its reply (`TaskPromise`), so nobody is between, and
only the stamps of its own decisions matter. A list that repeats a name
charges it twice by each attempt and breaks the promise, hence `NoRepeats`, which `async` satisfies.

**Patience** (`PatienceRewardedHolds`, given `Steady`). A later rule's refusal has charged the earlier
ones, so no rule's refusals alone are bounded. `Waiting` keeps a set of positions, those of the rules that have
refused and not been charged since: at the time the client was told, each of them admits (`Ready`). A
refusal at position `p` adds `p` and may drop only positions before it, so the set, read as a binary number
whose later positions weigh more (`Value`, the number of sets that are `Below` it), grows with each refusal;
the number stays below `2^n`. `Steady` adds to `Alone` that the decorator's rule is what the table has
at its name: adding it then changes nothing.

**Only model-checked**: `EveryCheckReturns` and `CheckEnds`, which are liveness. The four
violations are TLC's counterexamples.

## 6. Plan

The components are modelled, and a theorem states every invariant and action property that a
passing run checks. What is left:

* `QueueIsWindow` and `FixedPerWindow` on an event loop whose clock is monotone, from `StampsInOrderHolds`.
  AsyncRateLimiter would have to record the admissions of each name, as AtomicStorage does.

## 7. Not modelled

* `utils.py` parses a constant string at decoration time and keeps no state; so do the
  argument checks of the decorators.
* The extractors read one field of a request. `metadata`, logging, the message of
  `RateLimitExceeded` and the packages' exports have no effect on a decision.
* The TypeErrors for mixing synchronous and asynchronous parts, and for resolvers
  without `add_rule`.
* Memory that grows with the number of clients is a fact of the code (entries and locks are
  never removed) with no property stated about it.
* Floats: what rounding, and Lua's conversion of numbers to strings, do to levels and stamps.
* A Redis server that loses its data, or a cluster of them.
* A FastAPI view that returns a Response of its own, on which the dependency's headers are
  not merged.
