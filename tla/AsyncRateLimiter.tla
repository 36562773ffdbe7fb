--------------------------- MODULE AsyncRateLimiter ---------------------------
(***************************************************************************)
(* core/limiter_async.py with AsyncRuleResolver, AsyncMemoryStorage and    *)
(* the asynchronous wrapper of core/decorators.py: tasks of one event      *)
(* loop, which check one client.  A task keeps the loop until it awaits    *)
(* something that is not ready.  The locks of AsyncRuleResolver and        *)
(* AsyncMemoryStorage are always ready, since no task leaves the loop with *)
(* one of them held; a Redis server and a resolver of the application's    *)
(* own are not, and a task that waits for one of them may be cancelled.    *)
(*                                                                         *)
(*   idle       Check, CallDecorated    the task takes the loop            *)
(*   create     Create, SendRule        await resolver.add_rule(rule)      *)
(*   adding     Land                    ... the resolver adds it           *)
(*   landed     MarkCreated             _rule_created = True               *)
(*   resolve    Resolve, Ask            rule = self.rule_resolver(name)    *)
(*   asking     Lookup                  ... the resolver finds it          *)
(*   answered   Found                   rule = await rule                  *)
(*   decide     Count, Send             await storage.<operation>          *)
(*   sent       Serve                   ... the server executes it         *)
(*   executed   Receive                 the result                         *)
(***************************************************************************)
EXTENDS RuleParameters, SequencesExt

CONSTANTS
    Tasks,      \* tasks of the event loop
    NoTask,     \* the loop is free
    Names,      \* rule names
    Rules,      \* rules that may be in the table
    NoRule,     \* marks a name that is not in the table
    FirstRules, \* the rules given to the constructor
    Lists,      \* the rule_names arguments that callers use
    LazyName,   \* the decorated function's name, which names its rule
    LazyRule,   \* the rule that its limit_str and algorithm describe
    Setups,     \* combinations of a storage and a resolver
    MaxTime,    \* bound: the last tick
    MaxChecks,  \* bound: checks of a task, under each setup
    MaxChanges, \* bound: calls of add_rule and remove_rule, under each setup
    MaxStepsBack, \* bound: how often the clock is set back, under each setup
    MaxCancels  \* bound: cancellations

Setup == [storage : {"memory", "redis"}, resolver : {"table", "custom"}]

ASSUME AsyncAssumption ==
    /\ IsFiniteSet(Tasks) /\ NoTask \notin Tasks /\ NoRule \notin Rules
    /\ Rules \subseteq Fields /\ \A r \in Rules : Accepted(r) /\ Ticked(r)
    /\ LazyName \in Names /\ LazyRule \in Rules
    /\ FirstRules \in [Names -> Rules \cup {NoRule}]
    /\ Lists \subseteq Seq(Names)
    /\ Setups \subseteq Setup
    /\ {MaxTime, MaxCancels} \subseteq Nat
    /\ {MaxChecks, MaxChanges, MaxStepsBack} \subseteq [Setups -> Nat]

VARIABLES
    setup,     \* the storage and the resolver of the limiter, fixed at first
    rules,     \* the resolver's table
    created,   \* _rule_created of the decorated function
    db,        \* the storage's dictionaries: algorithm -> name -> entry
    clock,     \* time.time(), which is not monotone
    stepsBack,
    loop,      \* the task that runs
    pc, list, at, rule, now, results,   \* locals of each task, as in RateLimiter
    outcome,   \* outcome[t]: the server's reply that t has not read yet
    checks, changes, cancels,
    \* History, read by the properties only:
    reply,     \* how the last check of each task ended
    asked,     \* asked[n]: the stamp of the last decision on n, and how often the clock
               \* had been set back by then
    used,      \* used[n]: admissions counted under name n
    served,    \* served[n]: those of checks that were allowed
    lost,      \* lost[n]: those of checks that a later rule or a cancellation ended
    creations  \* how often the decorator added its rule

tableVars   == <<rules, created, changes>>
callVars    == <<list, at, rule, now, results, outcome, checks>>
ledgerVars  == <<used, served, lost>>
historyVars == <<reply, asked, ledgerVars, creations>>
clockVars   == <<clock, stepsBack>>
vars        == <<setup, tableVars, db, clockVars, loop, pc, callVars, cancels, historyVars>>

NoReply   == [kind |-> "none", remaining |-> 0]
NoOutcome == [allowed |-> FALSE]

\* A task that waits for somebody else: cancel() reaches it there.
Waiting == {"adding", "landed", "asking", "answered", "sent", "executed"}

Init ==
    /\ setup \in Setups
    /\ rules = FirstRules
    /\ created = FALSE
    /\ db = [a \in Algorithms |-> [n \in Names |-> <<>>]]
    /\ clock = 0
    /\ stepsBack = 0
    /\ loop = NoTask
    /\ pc = [t \in Tasks |-> "idle"]
    /\ list = [t \in Tasks |-> <<>>]
    /\ at = [t \in Tasks |-> 1]
    /\ rule = [t \in Tasks |-> NoRule]
    /\ now = [t \in Tasks |-> 0]
    /\ results = [t \in Tasks |-> <<>>]
    /\ outcome = [t \in Tasks |-> NoOutcome]
    /\ checks = [t \in Tasks |-> 0]
    /\ changes = 0
    /\ cancels = 0
    /\ reply = [t \in Tasks |-> NoReply]
    /\ asked = [n \in Names |-> [stamp |-> 0, stepsBack |-> 0]]
    /\ used = [n \in Names |-> 0]
    /\ served = [n \in Names |-> 0]
    /\ lost = [n \in Names |-> 0]
    /\ creations = 0

Custom == setup.resolver = "custom"
Redis  == setup.storage = "redis"

-----------------------------------------------------------------------------
\* A step of t from one program counter to another, which takes the loop if it is
\* free, and keeps it or leaves it.
Goto(t, from, to) == pc[t] = from /\ pc' = [pc EXCEPT ![t] = to]
Run(t, from, to)   == Goto(t, from, to) /\ loop \in {t, NoTask} /\ loop' = t
Await(t, from, to) == Goto(t, from, to) /\ loop = t /\ loop' = NoTask
\* A step of the resolver or the server, which the loop does not wait for.
Remote(t, from, to) == Goto(t, from, to) /\ UNCHANGED loop

\* The occurrences of each name in a list of names, added to a ledger.
Booked(ledger, names) ==
    [n \in Names |-> ledger[n] + Cardinality({i \in DOMAIN names : names[i] = n})]

\* The task's call is over and its locals are forgotten.
End(t, answer) ==
    /\ reply' = [reply EXCEPT ![t] = answer]
    /\ list' = [list EXCEPT ![t] = <<>>]
    /\ at' = [at EXCEPT ![t] = 1]
    /\ rule' = [rule EXCEPT ![t] = NoRule]
    /\ now' = [now EXCEPT ![t] = 0]
    /\ results' = [results EXCEPT ![t] = <<>>]
    /\ outcome' = [outcome EXCEPT ![t] = NoOutcome]

StartOf(t, names) ==
    /\ loop = NoTask /\ checks[t] < MaxChecks[setup]
    /\ checks' = [checks EXCEPT ![t] = @ + 1]
    /\ list' = [list EXCEPT ![t] = names]
    /\ reply' = [reply EXCEPT ![t] = NoReply]
    /\ UNCHANGED <<setup, tableVars, db, clockVars, at, rule, now, results, outcome, cancels,
                   asked, ledgerVars, creations>>

Check(t) == \E names \in Lists : Run(t, "idle", "resolve") /\ StartOf(t, names)

CallDecorated(t) ==
    Run(t, "idle", IF created THEN "resolve" ELSE "create") /\ StartOf(t, <<LazyName>>)

AddLazyRule ==
    /\ rules' = [rules EXCEPT ![LazyName] = LazyRule]
    /\ creations' = creations + 1

\* The flag is never set.
Create_mutant(t) ==
    /\ ~Custom /\ Run(t, "create", "resolve")
    /\ AddLazyRule
    /\ UNCHANGED <<setup, created, changes, db, clockVars, callVars, cancels, reply, asked, ledgerVars>>

\* add_rule of the table does not wait, and the flag is set in the same turn.
Create(t) ==
    /\ ~Custom /\ Run(t, "create", "resolve")
    /\ AddLazyRule /\ created' = TRUE
    /\ UNCHANGED <<setup, changes, db, clockVars, callVars, cancels, reply, asked, ledgerVars>>

SendRule(t) ==
    /\ Custom /\ Await(t, "create", "adding")
    /\ UNCHANGED <<setup, tableVars, db, clockVars, callVars, cancels, historyVars>>

Land(t) ==
    /\ Remote(t, "adding", "landed")
    /\ AddLazyRule
    /\ UNCHANGED <<setup, created, changes, db, clockVars, callVars, cancels, reply, asked, ledgerVars>>

MarkCreated(t) ==
    /\ loop = NoTask /\ Run(t, "landed", "resolve")
    /\ created' = TRUE
    /\ UNCHANGED <<setup, rules, changes, db, clockVars, callVars, cancels, historyVars>>

-----------------------------------------------------------------------------
Name(t) == list[t][at[t]]

\* The table's lock is free, and the rule is found in the same turn.
Resolve(t) ==
    /\ ~Custom /\ Run(t, "resolve", "decide")
    /\ list[t] # <<>> /\ rules[Name(t)] # NoRule
    /\ rule' = [rule EXCEPT ![t] = rules[Name(t)]]
    /\ UNCHANGED <<setup, tableVars, db, clockVars, list, at, now, results, outcome, checks, cancels, historyVars>>

Ask(t) ==
    /\ Custom /\ Await(t, "resolve", "asking")
    /\ list[t] # <<>>
    /\ UNCHANGED <<setup, tableVars, db, clockVars, callVars, cancels, historyVars>>

Lookup(t) ==
    /\ Remote(t, "asking", "answered")
    /\ rule' = [rule EXCEPT ![t] = rules[Name(t)]]
    /\ UNCHANGED <<setup, tableVars, db, clockVars, list, at, now, results, outcome, checks, cancels, historyVars>>

Found(t) ==
    /\ loop = NoTask /\ Run(t, "answered", "decide")
    /\ rule[t] # NoRule
    /\ UNCHANGED <<setup, tableVars, db, clockVars, callVars, cancels, historyVars>>

\* The check raises; what earlier rules have counted stays counted.
Raise(t, from) ==
    /\ Goto(t, from, "idle") /\ loop \in {t, NoTask} /\ loop' = NoTask
    /\ End(t, [kind |-> "raised", remaining |-> 0])
    /\ lost' = Booked(lost, SubSeq(list[t], 1, at[t] - 1))
    /\ UNCHANGED <<setup, tableVars, db, clockVars, checks, cancels, asked, used, served, creations>>

\* An unknown rule is waited for.
UnknownAwaited_mutant(t) ==
    /\ pc[t] = "resolve" /\ loop \in {t, NoTask} /\ loop' = NoTask
    /\ list[t] # <<>> /\ rules[Name(t)] = NoRule
    /\ UNCHANGED <<setup, tableVars, db, clockVars, pc, callVars, cancels, historyVars>>

\* An unknown rule is passed over.
UnknownSkipped_mutant(t) ==
    /\ Run(t, "resolve", "resolve")
    /\ at[t] < Len(list[t]) /\ rules[Name(t)] = NoRule
    /\ at' = [at EXCEPT ![t] = @ + 1]
    /\ UNCHANGED <<setup, tableVars, db, clockVars, list, rule, now, results, outcome, checks, cancels, historyVars>>

\* ValueError from the table.  A resolver of the application's own may return None,
\* which is compared before it is awaited and used after: AttributeError.
Unknown(t) ==
    \/ ~Custom /\ list[t] # <<>> /\ rules[Name(t)] = NoRule /\ Raise(t, "resolve")
    \/ rule[t] = NoRule /\ Raise(t, "answered")

\* min of no results: ValueError.
EmptyList(t) == list[t] = <<>> /\ Raise(t, "resolve")

\* The result of the last rule.
Strictest_mutant(found) == found[Len(found)]

\* min(results, key=lambda r: (r.remaining, r.reset_at))
Strictest(found) ==
    CHOOSE r \in Range(found) : \A s \in Range(found) :
        \/ r.remaining < s.remaining
        \/ r.remaining = s.remaining /\ r.reset_at <= s.reset_at

\* The asynchronous algorithm and AsyncMemoryStorage's operation, which repeats the
\* one of MemoryStorage under locks of asyncio.
AsyncDecide(r, entry, stamp) == Decide(Parameters(r), entry, stamp)

\* A decision on the rule of t at the stamp, on the entry as it is.
Decided(t, stamp) == AsyncDecide(rule[t], db[rule[t].algorithm][Name(t)], stamp)

\* What the storage does in it.
Booking(t, stamp) ==
    /\ db' = [db EXCEPT ![rule[t].algorithm][Name(t)] = Decided(t, stamp).entry]
    /\ asked' = [asked EXCEPT ![Name(t)] = [stamp |-> stamp, stepsBack |-> stepsBack]]
    /\ used' = IF Decided(t, stamp).allowed THEN Booked(used, <<Name(t)>>) ELSE used

\* The rest of the turn once a decision d is known: the next rule, or the reply.
Continue(t, from, d) ==
    LET last  == at[t] = Len(list[t])
        found == Append(results[t], [remaining |-> d.remaining, reset_at |-> d.reset_at])
    IN  /\ loop \in {t, NoTask}
        /\ \/ /\ d.allowed /\ ~last
              /\ Run(t, from, "resolve")
              /\ at' = [at EXCEPT ![t] = @ + 1]
              /\ results' = [results EXCEPT ![t] = found]
              /\ outcome' = [outcome EXCEPT ![t] = NoOutcome]
              /\ UNCHANGED <<list, rule, now, reply, served, lost>>
           \/ /\ d.allowed /\ last
              /\ Goto(t, from, "idle") /\ loop' = NoTask
              /\ End(t, [kind |-> "allowed", remaining |-> Strictest(found).remaining])
              /\ served' = Booked(served, list[t])
              /\ UNCHANGED lost
           \/ /\ ~d.allowed
              /\ Goto(t, from, "idle") /\ loop' = NoTask
              /\ End(t, [kind |-> "denied", remaining |-> 0])
              /\ lost' = Booked(lost, SubSeq(list[t], 1, at[t] - 1))
              /\ UNCHANGED served
        /\ UNCHANGED <<setup, tableVars, clockVars, checks, cancels, creations>>

\* The memory storage decides in the turn that read the clock.
Count(t) ==
    /\ ~Redis /\ pc[t] = "decide"
    /\ Booking(t, clock)
    /\ Continue(t, "decide", Decided(t, clock))

\* The storage waits for something inside its lock.
Send_mutant(t) ==
    /\ Await(t, "decide", "sent")
    /\ now' = [now EXCEPT ![t] = clock]
    /\ UNCHANGED <<setup, tableVars, db, clockVars, list, at, rule, results, outcome, checks, cancels, historyVars>>

Send(t) ==
    /\ Redis /\ Await(t, "decide", "sent")
    /\ now' = [now EXCEPT ![t] = clock]
    /\ UNCHANGED <<setup, tableVars, db, clockVars, list, at, rule, results, outcome, checks, cancels, historyVars>>

Serve(t) ==
    /\ Remote(t, "sent", "executed")
    /\ Booking(t, now[t])
    /\ outcome' = [outcome EXCEPT ![t] = Decided(t, now[t])]
    /\ UNCHANGED <<setup, tableVars, clockVars, list, at, rule, now, results, checks, cancels,
                   reply, served, lost, creations>>

Receive(t) ==
    /\ pc[t] = "executed" /\ loop = NoTask
    /\ Continue(t, "executed", outcome[t])
    /\ UNCHANGED <<db, asked, used>>

\* CancelledError at the await.  What was asked of the server or the resolver is
\* taken as done or not done by then; RedisStorage has the commands that arrive late.
Cancel(t) ==
    LET counted == SubSeq(list[t], 1, IF pc[t] = "executed" /\ outcome[t].allowed
                                      THEN at[t] ELSE at[t] - 1)
    IN  /\ pc[t] \in Waiting /\ loop = NoTask /\ cancels < MaxCancels
        /\ cancels' = cancels + 1
        /\ pc' = [pc EXCEPT ![t] = "idle"]
        /\ End(t, [kind |-> "raised", remaining |-> 0])
        /\ lost' = Booked(lost, counted)
        /\ UNCHANGED <<setup, tableVars, db, clockVars, loop, checks, asked, used, served, creations>>

-----------------------------------------------------------------------------
Change(name, new) ==
    /\ loop = NoTask /\ changes < MaxChanges[setup]
    /\ changes' = changes + 1
    /\ rules' = [rules EXCEPT ![name] = new]
    /\ UNCHANGED <<setup, created, db, clockVars, loop, pc, callVars, cancels, historyVars>>

AddRule == \E n \in Names, r \in Rules : Change(n, r)

RemoveRule == \E n \in Names : Change(n, NoRule)

Tick ==
    /\ clock < MaxTime
    /\ clock' = clock + 1
    /\ UNCHANGED <<setup, tableVars, db, stepsBack, loop, pc, callVars, cancels, historyVars>>

\* The host's clock is set back.
StepBack ==
    /\ stepsBack < MaxStepsBack[setup]
    /\ stepsBack' = stepsBack + 1
    /\ \E earlier \in 0 .. clock - 1 : clock' = earlier
    /\ UNCHANGED <<setup, tableVars, db, loop, pc, callVars, cancels, historyVars>>

Finished ==
    /\ \A t \in Tasks : pc[t] = "idle" /\ checks[t] = MaxChecks[setup]
    /\ UNCHANGED vars

\* The turns of a task whose call has begun, and the steps it waits for.
Proceed(t) ==
    \/ Create(t) \/ SendRule(t) \/ Land(t) \/ MarkCreated(t)
    \/ Resolve(t) \/ Ask(t) \/ Lookup(t) \/ Found(t) \/ Unknown(t) \/ EmptyList(t)
    \/ Count(t) \/ Send(t) \/ Serve(t) \/ Receive(t)

Next ==
    \/ \E t \in Tasks : Check(t) \/ CallDecorated(t) \/ Proceed(t) \/ Cancel(t)
    \/ AddRule \/ RemoveRule \/ Tick \/ StepBack \/ Finished

Spec == Init /\ [][Next]_vars

\* The loop runs every task that is ready again and again, and what a task waits for
\* answers.
FairSpec == Spec /\ \A t \in Tasks : SF_vars(Proceed(t))

-----------------------------------------------------------------------------
\* The positions of n in the list of a check in progress for which the storage has
\* counted it, of one task and of all.
SoFar(t, n) ==
    LET counted == IF pc[t] = "executed" /\ outcome[t].allowed THEN at[t] ELSE at[t] - 1
    IN  {i \in 1 .. counted : list[t][i] = n}

InProgress(n) == UNION {{t} \X SoFar(t, n) : t \in Tasks}

\* Every admission that the storage counted was paid for by a check that was
\* allowed, or belongs to one that is in progress, was ended by a later rule, or was
\* cancelled: no check that is allowed passes a rule without paying, and none pays
\* twice.
LedgerBalances ==
    \A n \in Names : used[n] = served[n] + lost[n] + Cardinality(InProgress(n))

\* The decorator adds its rule once, so it never replaces one that add_rule put there
\* later.  With a resolver that waits, every task may add it once, and once more for
\* a call that was cancelled before it set the flag.
AddedOnce ==
    creations <= IF Custom THEN Cardinality(Tasks) + cancels ELSE 1

\* The tasks of a loop do not reorder the stamps of the clock, as threads do: the
\* memory storage decides on a name with an older stamp than before only if the clock
\* itself was set back since ("single-threaded event loop with no awaits inside a
\* check", docs/benchmarking.md:90).
StampsInOrder ==
    [][~Redis => \A n \in Names :
           \/ asked'[n].stamp >= asked[n].stamp
           \/ asked'[n].stepsBack > asked[n].stepsBack]_vars

\* The whole list checked at one instant, under the table r and on the dictionaries d.
Attempt(names, r, d, stamp) ==
    FoldLeft(LAMBDA acc, n :
                 IF ~acc.allowed \/ r[n] = NoRule THEN [acc EXCEPT !.allowed = FALSE]
                 ELSE LET o == AsyncDecide(r[n], acc.db[r[n].algorithm][n], stamp)
                      IN  [allowed |-> o.allowed,
                           db |-> [acc.db EXCEPT ![r[n].algorithm][n] = o.entry]],
             [allowed |-> TRUE, db |-> d], names)

\* When a check of a list returns, its reply is a promise for the whole list: as many
\* more checks as `remaining' says are allowed at once, although other tasks have
\* checked the same client before and between ("clients see the strictest quota
\* information", docs/advanced.md:134).  They are allowed later too, and after the clock
\* was set back, at every instant not before the stamps that this check was decided at.
RemainingIsPromise ==
    [][\A t \in Tasks, stamp \in 0 .. MaxTime :
           /\ ~Redis /\ ~Custom /\ pc[t] # "idle" /\ reply'[t].kind = "allowed"
           /\ \A n \in Range(list[t]) : asked'[n].stamp <= stamp
           => LET again[k \in Nat] ==
                      Attempt(list[t], rules', IF k = 0 THEN db' ELSE again[k - 1].db, stamp)
              IN  \A k \in 0 .. reply'[t].remaining - 1 : again[k].allowed]_vars

\* Every call comes to an end, if the loop is fair and what it waits for answers.
CheckEnds == \A t \in Tasks : pc[t] # "idle" ~> pc[t] = "idle"
=============================================================================
