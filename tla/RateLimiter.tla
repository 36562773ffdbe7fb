----------------------------- MODULE RateLimiter -----------------------------
(***************************************************************************)
(* core/limiter.py, core/resolver.py and core/decorators.py: threads that  *)
(* check one client against lists of rules, while the table of rules       *)
(* changes.  A storage call is one step here (AtomicStorage says what that *)
(* rests on); what is new is everything between two storage calls.         *)
(*                                                                         *)
(*   idle     Check             check(key, rule_names)                     *)
(*            CallDecorated     a call of a function under @rate_limit     *)
(*   create   CreateRule        resolver.add_rule(rule)                    *)
(*   created  MarkCreated       _rule_created = True                       *)
(*   resolve  Resolve, Unknown  rule = self.rule_resolver(rule_name)       *)
(*            EmptyList         min of no results: ValueError               *)
(*   clock    ReadClock         now = time.time()                          *)
(*   store    Admitted, Refused the storage call, `if not res.allowed'     *)
(***************************************************************************)
EXTENDS StorageOps, SequencesExt

CONSTANTS
    Threads,    \* threads that call check
    Names,      \* rule names
    Rules,      \* rules that may be in the table
    NoRule,     \* marks a name that is not in the table
    FirstRules, \* the rules given to the constructor
    Lists,      \* the rule_names arguments that callers use
    LazyName,   \* the decorated function's name, which names its rule
    LazyRule,   \* the rule that its limit_str and algorithm describe
    MaxTime,    \* bound: the last tick
    MaxChecks,  \* bound: checks of a thread
    MaxChanges, \* bound: calls of add_rule and remove_rule
    MaxStepsBack \* bound: how often the clock is set back

ASSUME ThreadsAssumption == IsFiniteSet(Threads)
ASSUME NoRuleAssumption == NoRule \notin Rules
ASSUME RuleTableAssumption ==
    /\ Rules \subseteq LimitRule
    /\ FirstRules \in [Names -> Rules \cup {NoRule}]
    /\ LazyName \in Names /\ LazyRule \in Rules
    /\ Lists \subseteq Seq(Names)
\* A token bucket's level is counted in ticks of refill, so it keeps its meaning
\* only under rules with one interval.
ASSUME TokenRulesAssumption ==
    \A r, s \in Rules :
        r.algorithm = "token_bucket" /\ s.algorithm = "token_bucket" => r.interval = s.interval
ASSUME BoundsAssumption == {MaxTime, MaxChecks, MaxChanges, MaxStepsBack} \subseteq Nat

Algorithms == {"sliding_window", "fixed_window", "token_bucket", "leaky_bucket", "gcra"}

\* What is kept of a RateLimitResult until the reply is chosen.
Result == [remaining : Nat, reset_at : Int]

PC == {"idle", "create", "created", "resolve", "clock", "store"}

VARIABLES
    rules,     \* RuleResolver._rules
    created,   \* _rule_created of the decorated function
    db,        \* the storage's dictionaries: algorithm -> name -> entry
    clock,     \* time.time(), which is not monotone
    stepsBack,
    changes,   \* add_rule and remove_rule calls made so far
    \* Locals of each thread; `list' is rule_names, `at' the position in it:
    pc, list, at, rule, now, results, checks,
    \* History, read by the properties only:
    reply,     \* how the last check of each thread ended
    live,      \* live[t]: rules in the table at some time since t's check began
    served,    \* served[n]: how often checks that were allowed asked for name n
    lost,      \* lost[n]: how often checks that a later rule ended had passed it
    denials,   \* refusals in a row of a caller that waits as it is told
    creations  \* how often the decorator added its rule

tableVars   == <<rules, created, changes>>
localVars   == <<pc, list, at, rule, now, results, checks>>
ledgerVars  == <<served, lost>>
historyVars == <<reply, live, ledgerVars, denials, creations>>
clockVars   == <<clock, stepsBack>>
vars        == <<tableVars, db, clockVars, localVars, historyVars>>

NoReply == [kind |-> "none"]

Reply == [kind : {"raised", "none"}] \cup
         [kind : {"allowed", "denied"}, remaining : Nat, reset_at : Int]

Ledger == [Names -> Nat]

TypeOK ==
    /\ rules \in [Names -> Rules \cup {NoRule}]
    /\ created \in BOOLEAN
    /\ DOMAIN db = Algorithms
    /\ \A a \in Algorithms : db[a] \in [Names -> Entry]
    /\ clock \in 0 .. MaxTime /\ stepsBack \in 0 .. MaxStepsBack
    /\ changes \in 0 .. MaxChanges
    /\ pc \in [Threads -> PC]
    /\ list \in [Threads -> Lists \cup {<<LazyName>>, <<>>}]
    /\ at \in [Threads -> Nat]
    /\ rule \in [Threads -> Rules \cup {NoRule}]
    /\ now \in [Threads -> 0 .. MaxTime]
    /\ results \in [Threads -> Seq(Result)]
    /\ checks \in [Threads -> 0 .. MaxChecks]
    /\ reply \in [Threads -> Reply]
    /\ live \in [Threads -> SUBSET (Names \X (Rules \cup {NoRule}))]
    /\ served \in Ledger /\ lost \in Ledger
    /\ denials \in [Threads -> Nat]
    /\ creations \in Nat

Table == {<<n, rules[n]>> : n \in Names}

Init ==
    /\ rules = FirstRules
    /\ created = FALSE
    /\ db = [a \in Algorithms |-> [n \in Names |-> <<>>]]
    /\ clock = 0 /\ stepsBack = 0
    /\ changes = 0
    /\ pc = [t \in Threads |-> "idle"]
    /\ list = [t \in Threads |-> <<>>]
    /\ at = [t \in Threads |-> 1]
    /\ rule = [t \in Threads |-> NoRule]
    /\ now = [t \in Threads |-> 0]
    /\ results = [t \in Threads |-> <<>>]
    /\ checks = [t \in Threads |-> 0]
    /\ reply = [t \in Threads |-> NoReply]
    /\ live = [t \in Threads |-> {}]
    /\ served = [n \in Names |-> 0]
    /\ lost = [n \in Names |-> 0]
    /\ denials = [t \in Threads |-> 0]
    /\ creations = 0

-----------------------------------------------------------------------------

Goto(t, from, to) == pc[t] = from /\ pc' = [pc EXCEPT ![t] = to]

\* The occurrences of each name in a list of names, added to a ledger.
Booked(ledger, names) ==
    [n \in Names |-> ledger[n] + Cardinality({i \in DOMAIN names : names[i] = n})]

\* The caller repeats a refused check, no earlier than the reply told it to.
WaitedAsTold(t, names) ==
    reply[t].kind = "denied" /\ list[t] = names /\ clock >= reply[t].reset_at

StartOf(t, names) ==
    /\ checks[t] < MaxChecks
    /\ checks' = [checks EXCEPT ![t] = @ + 1]
    /\ list' = [list EXCEPT ![t] = names]
    /\ at' = [at EXCEPT ![t] = 1]
    /\ results' = [results EXCEPT ![t] = <<>>]
    /\ reply' = [reply EXCEPT ![t] = NoReply]
    /\ live' = [live EXCEPT ![t] = Table]
    /\ denials' = [denials EXCEPT ![t] = IF WaitedAsTold(t, names) THEN @ ELSE 0]
    /\ UNCHANGED <<tableVars, db, clockVars, rule, now, ledgerVars, creations>>

Check(t) == \E names \in Lists : Goto(t, "idle", "resolve") /\ StartOf(t, names)

\* Two first calls may both find the flag unset.
CallDecorated(t) ==
    Goto(t, "idle", IF created THEN "resolve" ELSE "create") /\ StartOf(t, <<LazyName>>)

\* The table after add_rule or remove_rule, which every check in progress sees.
SetRule(name, new) ==
    /\ rules' = [rules EXCEPT ![name] = new]
    /\ live' = [t \in Threads |-> live[t] \cup {<<name, new>>}]

CreateRule(t) ==
    /\ Goto(t, "create", "created")
    /\ SetRule(LazyName, LazyRule)
    /\ creations' = creations + 1
    /\ UNCHANGED <<created, changes, db, clockVars, list, at, rule, now, results, checks,
                   reply, ledgerVars, denials>>

\* The flag is never set.
MarkCreated_mutant(t) ==
    /\ Goto(t, "created", "resolve")
    /\ UNCHANGED <<tableVars, db, clockVars, list, at, rule, now, results, checks, historyVars>>

MarkCreated(t) ==
    /\ Goto(t, "created", "resolve")
    /\ created' = TRUE
    /\ UNCHANGED <<rules, changes, db, clockVars, list, at, rule, now, results, checks, historyVars>>

\* The rule of the first name, used for the whole list.
Resolve_mutant(t) ==
    /\ Goto(t, "resolve", "clock")
    /\ at[t] <= Len(list[t])
    /\ rules[list[t][at[t]]] # NoRule
    /\ rule' = [rule EXCEPT ![t] = IF @ = NoRule THEN rules[list[t][at[t]]] ELSE @]
    /\ UNCHANGED <<tableVars, db, clockVars, list, at, now, results, checks, historyVars>>

Resolve(t) ==
    /\ Goto(t, "resolve", "clock")
    /\ at[t] <= Len(list[t])
    /\ rules[list[t][at[t]]] # NoRule
    /\ rule' = [rule EXCEPT ![t] = rules[list[t][at[t]]]]
    /\ UNCHANGED <<tableVars, db, clockVars, list, at, now, results, checks, historyVars>>

\* The check raises; what earlier rules have counted stays counted.
Raise(t) ==
    /\ Goto(t, "resolve", "idle")
    /\ reply' = [reply EXCEPT ![t] = [kind |-> "raised"]]
    /\ lost' = Booked(lost, SubSeq(list[t], 1, at[t] - 1))
    /\ UNCHANGED <<tableVars, db, clockVars, list, at, rule, now, results, checks,
                   live, served, denials, creations>>

\* The rule was removed, or never added: ValueError.
Unknown(t) == at[t] <= Len(list[t]) /\ rules[list[t][at[t]]] = NoRule /\ Raise(t)

\* min of no results: ValueError as well.
EmptyList(t) == list[t] = <<>> /\ Raise(t)

ReadClock(t) ==
    /\ Goto(t, "clock", "store")
    /\ now' = [now EXCEPT ![t] = clock]
    /\ UNCHANGED <<tableVars, db, clockVars, list, at, rule, results, checks, historyVars>>

\* The result with the most remaining.
Strictest_mutant(found) ==
    CHOOSE r \in Range(found) : \A s \in Range(found) : r.remaining >= s.remaining

\* min(results, key=lambda r: (r.remaining, r.reset_at))
Strictest(found) ==
    CHOOSE r \in Range(found) : \A s \in Range(found) :
        \/ r.remaining < s.remaining
        \/ r.remaining = s.remaining /\ r.reset_at <= s.reset_at

Name(t) == list[t][at[t]]

\* The storage's decision, on the dictionary of the algorithm.
Decision(t) == Decide(rule[t], db[rule[t].algorithm][Name(t)], now[t])

ResultOf(outcome) == [remaining |-> outcome.remaining, reset_at |-> outcome.reset_at]

Answer(kind, result) == [kind |-> kind, remaining |-> result.remaining, reset_at |-> result.reset_at]

StoreEntry(t) == db' = [db EXCEPT ![rule[t].algorithm][Name(t)] = Decision(t).entry]

\* results.append(res), and after the last rule the reply.
Admitted(t) ==
    LET last  == at[t] = Len(list[t])
        found == Append(results[t], ResultOf(Decision(t)))
    IN  /\ Goto(t, "store", IF last THEN "idle" ELSE "resolve")
        /\ Decision(t).allowed
        /\ StoreEntry(t)
        /\ at' = [at EXCEPT ![t] = @ + 1]
        /\ results' = [results EXCEPT ![t] = found]
        /\ reply' = IF last THEN [reply EXCEPT ![t] = Answer("allowed", Strictest(found))] ELSE reply
        /\ served' = IF last THEN Booked(served, list[t]) ELSE served
        /\ UNCHANGED <<tableVars, clockVars, list, rule, now, checks, live, lost, denials, creations>>

\* The remaining rules are checked as well, and may count the refused request.
Refused_mutant(t) ==
    LET rest == SubSeq(list[t], at[t] + 1, Len(list[t]))
        Counted(d, n) == [d EXCEPT ![rules[n].algorithm][n] = Decide(rules[n], @, now[t]).entry]
    IN  /\ Goto(t, "store", "idle")
        /\ ~Decision(t).allowed
        /\ db' = FoldLeft(Counted, db, rest)
        /\ reply' = [reply EXCEPT ![t] = Answer("denied", ResultOf(Decision(t)))]
        /\ lost' = Booked(lost, SubSeq(list[t], 1, at[t] - 1))
        /\ denials' = [denials EXCEPT ![t] = @ + 1]
        /\ UNCHANGED <<tableVars, clockVars, list, at, rule, now, results, checks,
                       live, served, creations>>

\* The first refusal ends the check; there is no rollback.
Refused(t) ==
    /\ Goto(t, "store", "idle")
    /\ ~Decision(t).allowed
    /\ StoreEntry(t)
    /\ reply' = [reply EXCEPT ![t] = Answer("denied", ResultOf(Decision(t)))]
    /\ lost' = Booked(lost, SubSeq(list[t], 1, at[t] - 1))
    /\ denials' = [denials EXCEPT ![t] = @ + 1]
    /\ UNCHANGED <<tableVars, clockVars, list, at, rule, now, results, checks,
                   live, served, creations>>

Step(t) ==
    \/ Check(t) \/ CallDecorated(t) \/ CreateRule(t) \/ MarkCreated(t)
    \/ Resolve(t) \/ Unknown(t) \/ EmptyList(t) \/ ReadClock(t) \/ Admitted(t) \/ Refused(t)

-----------------------------------------------------------------------------

Change(name, new) ==
    /\ changes < MaxChanges
    /\ changes' = changes + 1
    /\ SetRule(name, new)
    /\ UNCHANGED <<created, db, clockVars, localVars, reply, ledgerVars, denials, creations>>

AddRule == \E n \in Names, r \in Rules : Change(n, r)

RemoveRule == \E n \in Names : Change(n, NoRule)

Tick ==
    /\ clock < MaxTime
    /\ clock' = clock + 1
    /\ UNCHANGED <<stepsBack, tableVars, db, localVars, historyVars>>

\* The host's clock is set back.
StepBack ==
    /\ stepsBack < MaxStepsBack
    /\ stepsBack' = stepsBack + 1
    /\ \E earlier \in 0 .. clock - 1 : clock' = earlier
    /\ UNCHANGED <<tableVars, db, localVars, historyVars>>

\* Every thread has made its last check: nothing is left to do.
Finished ==
    /\ \A t \in Threads : pc[t] = "idle" /\ checks[t] = MaxChecks
    /\ UNCHANGED vars

Next == AddRule \/ RemoveRule \/ Tick \/ StepBack \/ Finished \/ \E t \in Threads : Step(t)

Spec == Init /\ [][Next]_vars

-----------------------------------------------------------------------------

\* The positions of n in the list of a check in progress at which it has been admitted
\* so far, of one thread and of all.
AdmittedSoFar(t, n) ==
    IF pc[t] = "idle" THEN {} ELSE {i \in 1 .. at[t] - 1 : list[t][i] = n}

InProgress(n) == UNION {{t} \X AdmittedSoFar(t, n) : t \in Threads}

\* The requests for name n that checks have to show for: those of checks that were
\* allowed, of checks that a later rule ended, and of checks in progress.
Paid(n) == served[n] + lost[n] + Cardinality(InProgress(n))

\* The requests for name n in the storage: the stamps in the deque, the count of the
\* fixed window and the queue of the leaky bucket.
CountOf(entry) == IF entry = <<>> THEN 0 ELSE entry[1]

Held(n) == Len(db["sliding_window"][n]) + CountOf(db["fixed_window"][n]) + CountOf(db["leaky_bucket"][n])

\* The time after which a rule that counts requests may forget one.
Span(r) == IF r.algorithm = "leaky_bucket" THEN r.interval ELSE r.window

\* Every rule counts requests, and none of them can be forgotten yet.
NothingForgotten ==
    /\ \A r \in Rules : r.algorithm \in {"sliding_window", "fixed_window", "leaky_bucket"} /\ clock < Span(r)
    /\ stepsBack = 0

\* The storage holds no request that no check has paid for: a check that is refused by
\* a later rule leaves what the earlier ones have counted ("the earlier rules have
\* already consumed their quota", docs/advanced.md:13) and charges no other name, and a
\* change of the rule under a name brings nothing back and charges nothing twice.  Until
\* something can be forgotten it holds exactly those requests, so that nothing is given
\* back either.  What a token bucket and GCRA store is no number of requests.
LedgerBalances ==
    \A n \in Names : Held(n) <= Paid(n) /\ (NothingForgotten => Held(n) = Paid(n))

\* A decision is made under a rule that was in the table, under the name asked for,
\* at some moment since its check began: a rule that was replaced or removed before
\* that is never applied again.
DecidedUnderLiveRule ==
    \A t \in Threads : pc[t] \in {"clock", "store"} => <<Name(t), rule[t]>> \in live[t]

\* The flag and the table are not updated together, so several first calls may add
\* the decorator's rule, and replace one that add_rule put there in between; but no
\* thread adds it twice, however often the function is called.
AddedOncePerThread == creations <= Cardinality(Threads)

\* The whole list checked at one instant, on the dictionaries d.
Attempt(names, d, stamp) ==
    FoldLeft(LAMBDA acc, n :
                 IF ~acc.allowed THEN acc
                 ELSE LET outcome == Decide(rules[n], acc.db[rules[n].algorithm][n], stamp)
                      IN  [allowed |-> outcome.allowed,
                           db |-> [acc.db EXCEPT ![rules[n].algorithm][n] = outcome.entry]],
             [allowed |-> TRUE, db |-> d], names)

\* When nobody else checks the client, the reply to a list of rules is a promise
\* for the whole list: as many more checks of it as `remaining' says are allowed at
\* once ("clients see the strictest quota information", docs/advanced.md:134).
RemainingIsPromise ==
    \A t \in Threads :
        LET again[k \in Nat] ==
                Attempt(list[t], IF k = 0 THEN db ELSE again[k - 1].db, clock)
        IN  pc[t] = "idle" /\ reply[t].kind = "allowed" =>
                \A k \in 0 .. reply[t].remaining - 1 : again[k].allowed

\* A lone client that waits as it is told is refused at most 2^n - 1 times by a list
\* of n different rules, although every refusal by a later rule has consumed quota
\* of the earlier ones, which may then refuse it in their turn.
PatienceRewarded == \A t \in Threads : denials[t] <= 2 ^ Len(list[t]) - 1
=============================================================================
