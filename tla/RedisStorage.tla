---------------------------- MODULE RedisStorage ----------------------------
(***************************************************************************)
(* core/storage/redis.py and redis_async.py: the callers of several        *)
(* processes, one Redis server between them, and the network.  A call is   *)
(* one or more round trips, of one command each:                           *)
(*                                                                         *)
(*   idle      Begin     the algorithm reads the local clock and calls     *)
(*   sent      Serve     the server executes the command                   *)
(*   executed  Receive   the reply arrives; the next command, or return    *)
(*   failed    Resort    with_fallback: other storage, or fail open/closed *)
(*                                                                         *)
(* Until its reply has arrived, a command may be lost, its reply may be    *)
(* lost, or it may reach the server after the client has given up; then    *)
(* the client library sends it again, or raises.  An asynchronous caller   *)
(* may be cancelled instead.  The scripts take one command; the fixed      *)
(* window takes TIME (when use_redis_time), INCR and, for the first        *)
(* request of a window, EXPIRE.                                            *)
(***************************************************************************)
EXTENDS RedisOps, FiniteSets

CONSTANTS
    Callers,       \* threads, or tasks of an event loop
    Processes,
    ProcessOf,     \* the process that each caller runs in
    Skew,          \* how far each process's clock is ahead of the server's
    Keys, RuleOf,  \* storage keys and their rules
    \* Each key is a key of a storage object with options of its own:
    ServerTimed,   \* the keys of storages with use_redis_time
    PolicyOf,      \* what with_fallback does, from fallback_storage and fail_open
    MaxResends,    \* how often the client library repeats a command
    MaxTime,       \* bound: the last tick of the server's clock
    MaxCalls,      \* bound: calls of a key
    MaxFaults      \* bound: lost commands, lost replies and cancellations of a key

ASSUME RedisAssumption ==
    /\ IsFiniteSet(Callers)
    /\ Processes \cap {"server", "open", "closed"} = {}
    /\ ProcessOf \in [Callers -> Processes]
    /\ Skew \in [Processes -> Nat]
    /\ RuleOf \in [Keys -> LimitRule]
    /\ ServerTimed \subseteq Keys
    /\ PolicyOf \in [Keys -> {"memory", "open", "closed"}]
    /\ {MaxResends, MaxTime} \subseteq Nat
    /\ {MaxCalls, MaxFaults} \subseteq [Keys -> Nat]

VARIABLES
    clock,     \* the server's clock
    store,     \* values of the scripts' keys; one that has expired is kept, and read as absent
    counters,  \* counters[k][w]: the fixed window counter of the window that starts at w
    fallback,  \* the dictionaries of each process's fallback storage
    adrift,    \* commands on their way that no client waits for any more
    faults,    \* faults so far
    pc, key,   \* where each caller is, and the key of its call
    calls,     \* calls[c]: calls that c has begun
    local,     \* the local variables of its call, forgotten when it ends
    \* History, read by the properties only:
    granted,   \* granted[k]: stamps that the server admitted and when, in order
    high,      \* high[k]: the latest stamp that a script decided k with
    reply,     \* the last decision of a script on an Exact key
    answers    \* answers[k]: admissions that callers learned of, by whom and of when

serverVars  == <<store, counters>>
callVars    == <<key, calls, local>>
historyVars == <<granted, high, reply, answers>>
vars        == <<clock, serverVars, fallback, adrift, faults, pc, callVars, historyVars>>

Ops == {"TIME", "INCR", "EXPIRE", "EVAL"}

Never  == -1
Absent == [entry |-> <<>>, expires |-> Never]
Zero   == [count |-> 0, expires |-> Never]

\* A key is gone once the clock is past its expiry.
Gone(value) == value.expires # Never /\ clock > value.expires

IsFixed(k) == RuleOf[k].algorithm = "fixed_window"
FixedKeys  == {k \in Keys : IsFixed(k)}

LocalClock(c) == clock + Skew[ProcessOf[c]]

WindowStart(k, t) == Aligned(t, RuleOf[k].window)

\* The window starts that may be asked for.
Starts(k) == {WindowStart(k, t + ahead) : t \in 0 .. MaxTime, ahead \in {0} \cup {Skew[p] : p \in Processes}}

\* os.urandom, fresh for every call.
CallId(c) == <<c, calls[c]>>

\* The keys that are decided just as by a storage in the process: one clock, and
\* no expiry that is noticed.
Exact == {k \in ServerTimed : RuleOf[k].algorithm \in {"sliding_window", "token_bucket", "gcra"}}

\* The entry of k in the terms of StorageOps: the scores of a sorted set.
Plain(k, entry) ==
    IF RuleOf[k].algorithm = "sliding_window"
    THEN [i \in DOMAIN entry |-> entry[i][1]]
    ELSE entry

NoReply == [called |-> FALSE]

\* The local variables of a call: the argument `stamp' and what is computed from
\* the replies.
NoCall == [op |-> "EVAL", stamp |-> 0, now |-> 0, count |-> 0, allowed |-> FALSE, resends |-> 0]

Init ==
    /\ clock = 0
    /\ store = [k \in Keys |-> Absent]
    /\ counters = [k \in FixedKeys |-> [w \in Starts(k) |-> Zero]]
    /\ fallback = [p \in Processes |-> [k \in Keys |-> <<>>]]
    /\ adrift = {}
    /\ faults = 0
    /\ pc = [c \in Callers |-> "idle"]
    /\ key \in [Callers -> Keys]
    /\ calls = [c \in Callers |-> 0]
    /\ local = [c \in Callers |-> NoCall]
    /\ granted = [k \in Keys |-> <<>>]
    /\ high = [k \in Keys |-> 0]
    /\ reply = NoReply
    /\ answers = [k \in Keys |-> <<>>]

-----------------------------------------------------------------------------
(***************************************************************************)
(* The server.  Each command is one step of it, and each is carried out    *)
(* whether or not anybody still waits for the reply.                       *)
(***************************************************************************)

\* TIME in the script, or the caller's argument.
ScriptTime(k, t) == IF k \in ServerTimed THEN clock ELSE t

LiveEntry(k)      == IF Gone(store[k]) THEN <<>> ELSE store[k].entry
LiveCounter(k, w) == IF Gone(counters[k][w]) THEN Zero ELSE counters[k][w]

Grant(k, allowed, t) ==
    granted' = [granted EXCEPT ![k] = IF allowed THEN Append(@, [stamp |-> t, at |-> clock]) ELSE @]

\* What the script of k decides, called with the stamp t by the call id.
Evaluated(id, k, t) == Script(RuleOf[k], LiveEntry(k), ScriptTime(k, t), id)

\* The request is in the sorted set already, under the stamp that it is to be added
\* with: an earlier execution of the command admitted it.
Known(id, k, t) ==
    /\ RuleOf[k].algorithm = "sliding_window"
    /\ \E i \in DOMAIN LiveEntry(k) : LiveEntry(k)[i] = <<ScriptTime(k, t), id>>

\* EVALSHA of it, called from the process p.  A known request may be told once more
\* that it is admitted, and is not admitted a second time.
Eval(id, p, k, t) ==
    LET script  == Evaluated(id, k, t)
        outcome == script.outcome
        again   == outcome.allowed /\ Known(id, k, t)
    IN  /\ store' = [store EXCEPT ![k] =
                        [entry |-> outcome.entry,
                         expires |-> IF outcome.allowed THEN clock + script.ttl ELSE @.expires]]
        /\ Grant(k, outcome.allowed /\ ~again, ScriptTime(k, t))
        /\ high' = [high EXCEPT ![k] = Later(@, ScriptTime(k, t))]
        /\ reply' = IF k \in Exact /\ ~again
                    THEN [called |-> TRUE, key |-> k, now |-> ScriptTime(k, t),
                          result |-> [outcome EXCEPT !.entry = Plain(k, @)],
                          stamp |-> t, skew |-> Skew[p]]
                    ELSE reply
        /\ UNCHANGED counters

Incr(k, t) ==
    LET w    == WindowStart(k, t)
        next == LiveCounter(k, w).count + 1
    IN  /\ counters' = [counters EXCEPT ![k][w] = [LiveCounter(k, w) EXCEPT !.count = next]]
        /\ Grant(k, next <= RuleOf[k].limit, t)
        /\ UNCHANGED <<store, high, reply>>

\* The counter is gone before its window is.
Expire_mutant(k, t) ==
    LET w == WindowStart(k, t)
    IN  /\ counters' = [counters EXCEPT ![k][w] =
                           IF LiveCounter(k, w) = Zero THEN @
                           ELSE [@ EXCEPT !.expires = clock + RuleOf[k].window - 1]]
        /\ UNCHANGED <<store, high, reply, granted>>

\* No effect on a key that is not there.
Expire(k, t) ==
    LET w == WindowStart(k, t)
    IN  /\ counters' = [counters EXCEPT ![k][w] =
                           IF LiveCounter(k, w) = Zero THEN @
                           ELSE [@ EXCEPT !.expires = clock + RuleOf[k].window]]
        /\ UNCHANGED <<store, high, reply, granted>>

\* The server executes the command of c, and c will find what it computes from the
\* reply in its local variables.
Serve(c, command) ==
    /\ pc[c] = "sent" /\ local[c].op = command
    /\ pc' = [pc EXCEPT ![c] = "executed"]
    /\ UNCHANGED <<clock, fallback, adrift, faults, key, calls, answers>>

ServeTime(c) ==
    /\ Serve(c, "TIME")
    /\ local' = [local EXCEPT ![c].now = clock]
    /\ UNCHANGED <<serverVars, granted, high, reply>>

\* `count > limit + 1' is denied.
ServeIncr_mutant(c) ==
    LET next == LiveCounter(key[c], WindowStart(key[c], local[c].now)).count + 1
    IN  /\ Serve(c, "INCR")
        /\ Incr(key[c], local[c].now)
        /\ local' = [local EXCEPT ![c].count = next, ![c].allowed = next <= RuleOf[key[c]].limit + 1]

ServeIncr(c) ==
    LET next == LiveCounter(key[c], WindowStart(key[c], local[c].now)).count + 1
    IN  /\ Serve(c, "INCR")
        /\ Incr(key[c], local[c].now)
        /\ local' = [local EXCEPT ![c].count = next, ![c].allowed = next <= RuleOf[key[c]].limit]

ServeExpire(c) ==
    /\ Serve(c, "EXPIRE")
    /\ Expire(key[c], local[c].now)
    /\ UNCHANGED local

ServeEval(c) ==
    LET outcome == Evaluated(CallId(c), key[c], local[c].stamp).outcome
    IN  /\ Serve(c, "EVAL")
        /\ Eval(CallId(c), ProcessOf[c], key[c], local[c].stamp)
        /\ local' = [local EXCEPT ![c].now = ScriptTime(key[c], @), ![c].allowed = outcome.allowed]

\* A command arrives that its client has given up.
ServeLate ==
    \E m \in adrift :
        /\ \/ m.op = "EVAL" /\ Eval(m.id, m.process, m.key, m.now)
           \/ m.op = "INCR" /\ Incr(m.key, m.now)
           \/ m.op = "EXPIRE" /\ Expire(m.key, m.now)
        /\ adrift' = adrift \ {m}
        /\ UNCHANGED <<clock, fallback, faults, pc, callVars, answers>>

-----------------------------------------------------------------------------
(***************************************************************************)
(* The caller: a method of the storage class under with_fallback.          *)
(***************************************************************************)

FirstCommand(k) ==
    IF ~IsFixed(k) THEN "EVAL" ELSE IF k \in ServerTimed THEN "TIME" ELSE "INCR"

Begin(c) ==
    /\ pc[c] = "idle"
    /\ calls' = [calls EXCEPT ![c] = @ + 1]
    /\ \E k \in Keys :
           /\ MapThenSumSet(LAMBDA d : calls[d], Callers) < MaxCalls[k]
           /\ key' = [key EXCEPT ![c] = k]
           /\ local' = [local EXCEPT ![c].op = FirstCommand(k),
                                     ![c].stamp = LocalClock(c), ![c].now = LocalClock(c)]
    /\ pc' = [pc EXCEPT ![c] = "sent"]
    /\ UNCHANGED <<clock, serverVars, fallback, adrift, faults, historyVars>>

\* EXPIRE is forgotten.
FollowUps_mutant(c) == IF local[c].op = "TIME" THEN {"INCR"} ELSE {}

\* What is sent after the reply: `if count == 1: expire'.
FollowUps(c) ==
    IF local[c].op = "TIME" THEN {"INCR"}
    ELSE IF local[c].op = "INCR" /\ local[c].count = 1 THEN {"EXPIRE"}
    ELSE {}

ReceiveAndGoOn(c) ==
    /\ pc[c] = "executed"
    /\ \E next \in FollowUps(c) : local' = [local EXCEPT ![c].op = next]
    /\ pc' = [pc EXCEPT ![c] = "sent"]
    /\ UNCHANGED <<clock, serverVars, fallback, adrift, faults, key, calls, historyVars>>

\* The call of c ends.
End(c) ==
    /\ pc' = [pc EXCEPT ![c] = "idle"]
    /\ local' = [local EXCEPT ![c] = NoCall]
    /\ UNCHANGED <<clock, serverVars, key, calls, granted, high, reply>>

\* The caller learns of the decision; by is the server or the process.
Answer(c, allowed, by, at) ==
    /\ End(c)
    /\ answers' = [answers EXCEPT ![key[c]] =
                      IF allowed THEN Append(@, [by |-> by, at |-> at]) ELSE @]
    /\ UNCHANGED <<adrift, faults>>

Return(c) ==
    /\ pc[c] = "executed" /\ FollowUps(c) = {}
    /\ Answer(c, local[c].allowed, "server", local[c].now)
    /\ UNCHANGED fallback

FellBack(c, to) == pc[c] = "failed" /\ PolicyOf[key[c]] = to

\* A new fallback storage for every failure.
ResortToMemory_mutant(c) ==
    LET k == key[c]
        p == ProcessOf[c]
        outcome == Decide(RuleOf[k], <<>>, local[c].stamp)
    IN  /\ FellBack(c, "memory")
        /\ fallback' = [fallback EXCEPT ![p][k] = outcome.entry]
        /\ Answer(c, outcome.allowed, p, local[c].stamp - Skew[p])

\* The fallback storage, an atomic storage of the process, called with the same
\* arguments.
ResortToMemory(c) ==
    LET k == key[c]
        p == ProcessOf[c]
        outcome == Decide(RuleOf[k], fallback[p][k], local[c].stamp)
    IN  /\ FellBack(c, "memory")
        /\ fallback' = [fallback EXCEPT ![p][k] = outcome.entry]
        /\ Answer(c, outcome.allowed, p, local[c].stamp - Skew[p])

\* Neither counts anything anywhere.
FailOpen(c) ==
    /\ FellBack(c, "open")
    /\ Answer(c, TRUE, "open", clock)
    /\ UNCHANGED fallback

FailClosed(c) ==
    /\ FellBack(c, "closed")
    /\ Answer(c, FALSE, "closed", clock)
    /\ UNCHANGED fallback

-----------------------------------------------------------------------------
(***************************************************************************)
(* Faults.                                                                 *)
(***************************************************************************)

\* A command that was given up before it was executed may still arrive; one
\* that was executed is gone, and its reply with it.
GiveUp(c) ==
    LET command == [op |-> local[c].op, key |-> key[c], process |-> ProcessOf[c],
                    id |-> CallId(c), nr |-> faults, now |-> local[c].now]
    IN  /\ faults < MaxFaults[key[c]]
        /\ faults' = faults + 1
        /\ \/ pc[c] \in {"sent", "executed"} /\ adrift' = adrift
           \/ pc[c] = "sent" /\ local[c].op # "TIME" /\ adrift' = adrift \cup {command}

\* The client library repeats the command after a connection error or a timeout.
Resend(c) ==
    /\ GiveUp(c)
    /\ local[c].resends < MaxResends
    /\ local' = [local EXCEPT ![c].resends = @ + 1]
    /\ pc' = [pc EXCEPT ![c] = "sent"]
    /\ UNCHANGED <<clock, serverVars, fallback, key, calls, historyVars>>

\* ConnectionError, TimeoutError, ResponseError or ReadOnlyError reaches
\* with_fallback.
Fail(c) ==
    /\ GiveUp(c)
    /\ pc' = [pc EXCEPT ![c] = "failed"]
    /\ UNCHANGED <<clock, serverVars, fallback, callVars, historyVars>>

\* A task is cancelled at an await; CancelledError is not caught.
Cancel(c) ==
    /\ GiveUp(c)
    /\ End(c)
    /\ UNCHANGED <<fallback, answers>>

\* All clocks move together; what they differ by is their skew.
Tick ==
    /\ clock < MaxTime
    /\ clock' = clock + 1
    /\ UNCHANGED <<serverVars, fallback, adrift, faults, pc, callVars, historyVars>>

\* No call is in progress, and there need not be another.
Finished ==
    /\ \A c \in Callers : pc[c] = "idle"
    /\ adrift = {}
    /\ UNCHANGED vars

Served(c) == ServeTime(c) \/ ServeIncr(c) \/ ServeExpire(c) \/ ServeEval(c)

Proceed(c) ==
    \/ Begin(c) \/ ReceiveAndGoOn(c) \/ Return(c)
    \/ ResortToMemory(c) \/ FailOpen(c) \/ FailClosed(c)

Fault(c) == Resend(c) \/ Fail(c) \/ Cancel(c)

Next ==
    \/ \E c \in Callers : Served(c) \/ Proceed(c) \/ Fault(c)
    \/ ServeLate \/ Tick \/ Finished

Spec == Init /\ [][Next]_vars

-----------------------------------------------------------------------------
(***************************************************************************)
(* The keys under the server's clock implement the atomic storage, whose   *)
(* stamps arrive in order: the scripts, the expiry of keys, lost and late  *)
(* commands included, each call takes effect at one instant, and decides   *)
(* as the memory storage would.  `reset_at' of an admitted request under a *)
(* sliding window is the exception: the script returns now + window, where *)
(* the contract has "oldest request + window" (core/storage/base.py:25).   *)
(***************************************************************************)
PlainResult(k, outcome) ==
    IF RuleOf[k].algorithm = "sliding_window" /\ outcome.allowed
    THEN [outcome EXCEPT !.reset_at = outcome.entry[1] + RuleOf[k].window]
    ELSE outcome

PlainReply ==
    IF reply.called
    THEN [called |-> TRUE, key |-> reply.key, now |-> reply.now,
          result |-> PlainResult(reply.key, reply.result)]
    ELSE reply

ExactRules == [k \in Exact |-> RuleOf[k]]

Atomic == INSTANCE AtomicStorage WITH
    Keys    <- Exact,
    RuleOf  <- ExactRules,
    db      <- [k \in Exact |-> Plain(k, store[k].entry)],
    granted <- [k \in Exact |-> [i \in DOMAIN granted[k] |-> granted[k][i].stamp]],
    high    <- [k \in Exact |-> high[k]],
    reply   <- PlainReply

ImplementsAtomicStorage == Atomic!OrderedSpec

-----------------------------------------------------------------------------
(***************************************************************************)
(* How much is admitted.                                                   *)
(***************************************************************************)

KeysUnder(algorithm) == {k \in Keys : RuleOf[k].algorithm = algorithm}

\* The requests admitted from the i-th on, and the age of the i-th when the last
\* one was admitted, by the latest of the clocks read by then.
AdmittedSince(k, i) == Len(granted[k]) - i + 1
Age(k, i) == Later(high[k], granted[k][Len(granted[k])].at) - granted[k][i].stamp

BurstThenRate(k, i, slack) ==
    AdmittedSince(k, i) * RuleOf[k].interval
        <= Age(k, i) + RuleOf[k].capacity * RuleOf[k].interval + slack

\* How far stamps of k were off the server's clock when they were decided: the
\* difference of the clocks, and the delay of the command.
Drifts(k) ==
    {LET g == granted[k][i] IN IF g.stamp > g.at THEN g.stamp - g.at ELSE g.at - g.stamp
         : i \in DOMAIN granted[k]}

\* Under the server's clock there is no drift.  Under the clocks of the callers, the
\* requests of a sliding window are spread over at least the window less twice the
\* drift, as one clock may be ahead where another is behind; GCRA, whose key lives by
\* the server's clock, may lose the drift with every request.  The leaky bucket
\* forgets part of an interval.
SkewEnvelope ==
    \A k \in Keys : \A drift \in Drifts(k) : (\A d \in Drifts(k) : d <= drift) =>
        \A i \in DOMAIN granted[k] :
            /\ k \in KeysUnder("sliding_window") /\ AdmittedSince(k, i) > RuleOf[k].limit =>
                   Age(k, i) >= RuleOf[k].window - 2 * drift
            /\ k \in KeysUnder("gcra") => BurstThenRate(k, i, (AdmittedSince(k, i) - 1) * drift)
            /\ k \in KeysUnder("leaky_bucket") \cap ServerTimed =>
                   BurstThenRate(k, i, RuleOf[k].interval - 1)

\* "Allows bursts up to `capacity`; long-term average is `refill_rate`"
\* (README.md:50).
AverageIsRate ==
    \A k \in KeysUnder("token_bucket") : \A i \in DOMAIN granted[k] : BurstThenRate(k, i, 0)

\* Under the server's clock, the requests of an aligned window that are counted by
\* the end of it number at most `limit', however their TIME, INCR and EXPIRE
\* interleave.  (One that is counted later may find the counter expired.)
FixedOnTime ==
    \A k \in FixedKeys \cap ServerTimed : \A w \in Starts(k) :
        Cardinality({i \in DOMAIN granted[k] :
                        /\ WindowStart(k, granted[k][i].stamp) = w
                        /\ granted[k][i].at <= w + RuleOf[k].window})
            <= RuleOf[k].limit

-----------------------------------------------------------------------------
(***************************************************************************)
(* What faults cost.                                                       *)
(***************************************************************************)

\* A caller whose admission the server has recorded, but which has not returned.
Holds(c, k) ==
    /\ key[c] = k
    /\ local[c].allowed
    /\ \/ pc[c] = "executed"
       \/ pc[c] = "sent" /\ local[c].op = "EXPIRE"

\* The admissions of the server that no caller has or will learn of.
Wasted(k) ==
    Len(granted[k])
        - Cardinality({i \in DOMAIN answers[k] : answers[k][i].by = "server"})
        - Cardinality({c \in Callers : Holds(c, k)})

\* No caller is let through by the server without being counted there, and a lost
\* reply, a repeated or late command, a cancelled task waste one request each.
LedgerBalances == \A k \in Keys : Wasted(k) \in 0 .. faults

\* A counter to which EXPIRE is still to be sent.
ExpirePending(c) ==
    \/ pc[c] = "sent" /\ local[c].op = "EXPIRE"
    \/ pc[c] = "executed" /\ local[c].op = "INCR" /\ local[c].count = 1

\* A counter that no EXPIRE is on its way to stays for ever: the window start is
\* part of its name.  Only a fault leaves one behind.
Orphans ==
    UNION {{<<k, w>> : w \in {w \in Starts(k) : counters[k][w].count > 0
                                             /\ counters[k][w].expires = Never}} : k \in FixedKeys}

OrphansAreFaults ==
    Cardinality(Orphans) <= faults + Cardinality({c \in Callers : ExpirePending(c)})

\* Redis and the fallback storages that answered share nothing: over an outage, a
\* key gets at most the burst and the rate of each of them.
OutageEnvelope ==
    \A k \in KeysUnder("gcra") \cap ServerTimed : PolicyOf[k] = "memory" =>
        \A i, j \in DOMAIN answers[k] :
            LET first  == answers[k][i].at
                last   == answers[k][j].at
                during == {a \in DOMAIN answers[k] : answers[k][a].at \in first .. last}
                served == Cardinality({answers[k][a].by : a \in during})
            IN  first <= last =>
                    Cardinality(during) * RuleOf[k].interval
                        <= served * (last - first + RuleOf[k].capacity * RuleOf[k].interval)

-----------------------------------------------------------------------------
\* max(0, ceil(reset_at - now)): the server's reset_at, the caller's own clock.
\* The slip rounds down instead of up.
RetryAfter_mutant(reset_at, t) == AtLeastZero(reset_at - t - 1)
RetryAfter(reset_at, t) == AtLeastZero(reset_at - t)

\* A denied caller that waits retry_after, and as long again as its clock is ahead
\* of the server's, is admitted when nobody came in between.
RetryAfterHonoured ==
    reply.called /\ ~reply.result.allowed =>
        LET back == reply.now + RetryAfter(reply.result.reset_at, reply.stamp) + reply.skew
        IN  \A wait \in 0 .. 2 :
                Decide(RuleOf[reply.key], Plain(reply.key, store[reply.key].entry), back + wait).allowed
=============================================================================
