----------------------- MODULE AsyncRateLimiterProofs -----------------------
(***************************************************************************)
(* StampsInOrder, AddedOnce and LedgerBalances, for any tasks, rules,      *)
(* lists and setups; that the parameters which the algorithms are given    *)
(* make a rule, for every LimitRule that the validator accepts; and        *)
(* RemainingIsPromise, for lists that repeat no name.                      *)
(***************************************************************************)
EXTENDS AsyncRateLimiter, StorageOpsProofs

Places == {"idle", "create", "adding", "landed", "resolve", "asking", "answered",
           "decide", "sent", "executed"}

Adding == {"create", "adding", "landed"}

-----------------------------------------------------------------------------
\* With the memory storage nobody waits for a server, so every decision is made at the
\* stamp that the clock shows, and no earlier stamp follows unless the clock is set back.
OrderInv ==
    ~Redis =>
        /\ pc \in [Tasks -> Places] /\ clock \in Nat /\ stepsBack \in Nat
        /\ asked \in [Names -> [stamp : Nat, stepsBack : Nat]]
        /\ \A n \in Names :
               \/ asked[n].stepsBack < stepsBack
               \/ asked[n].stepsBack = stepsBack /\ asked[n].stamp <= clock
        /\ \A t \in Tasks : pc[t] # "sent"

\* A step that neither waits for the server nor decides.
LEMMA OrderElsewhere ==
    ASSUME OrderInv, NEW t \in Tasks, NEW from, NEW to \in Places \ {"sent"},
           Goto(t, from, to), UNCHANGED <<setup, clockVars, asked>>
    PROVE  OrderInv'
<1> SUFFICES ASSUME ~Redis' PROVE OrderInv'
  BY DEF OrderInv
<1>1. ~Redis
  BY DEF Redis
<1>2. pc' \in [Tasks -> Places] /\ \A u \in Tasks : pc'[u] # "sent"
  BY <1>1 DEF OrderInv, Goto
<1> QED
  BY <1>1, <1>2 DEF OrderInv, Redis, clockVars

\* What a decision leaves of the names and their stamps.
LEMMA AskedByCount ==
    ASSUME OrderInv, ~Redis, NEW t \in Tasks, Count(t), NEW n \in Names
    PROVE  /\ asked' \in [Names -> [stamp : Nat, stepsBack : Nat]]
           /\ asked'[n] = asked[n] \/ asked'[n] = [stamp |-> clock, stepsBack |-> stepsBack]
<1> DEFINE present == [stamp |-> clock, stepsBack |-> stepsBack]
<1>1. asked' = [asked EXCEPT ![Name(t)] = present]
  BY DEF Count, Booking
<1>2. present \in [stamp : Nat, stepsBack : Nat] /\ asked \in [Names -> [stamp : Nat, stepsBack : Nat]]
  BY DEF OrderInv
<1> HIDE DEF present
<1>3. asked' \in [Names -> [stamp : Nat, stepsBack : Nat]] /\ (asked'[n] = asked[n] \/ asked'[n] = present)
  BY <1>1, <1>2
<1> QED
  BY <1>3 DEF present

LEMMA OrderCount ==
    ASSUME OrderInv, NEW t \in Tasks, Count(t)
    PROVE  OrderInv'
<1> SUFFICES ASSUME ~Redis' PROVE OrderInv'
  BY DEF OrderInv
<1>1. UNCHANGED <<setup, clock, stepsBack>> /\ \E to \in {"resolve", "idle"} : Goto(t, "decide", to)
  BY DEF Count, Continue, Run, clockVars
<1>2. ~Redis
  BY <1>1 DEF Redis
<1>3. pc' \in [Tasks -> Places] /\ \A u \in Tasks : pc'[u] # "sent"
  BY <1>1, <1>2 DEF OrderInv, Goto, Places
<1>4. clock \in Nat /\ stepsBack \in Nat
  BY <1>2 DEF OrderInv
<1>5. asked' \in [Names -> [stamp : Nat, stepsBack : Nat]]
  <2>1. Names # {}
    BY AsyncAssumption
  <2> QED
    BY <1>2, <2>1, AskedByCount
<1>6. ASSUME NEW n \in Names
      PROVE  \/ asked'[n].stepsBack < stepsBack'
             \/ asked'[n].stepsBack = stepsBack' /\ asked'[n].stamp <= clock'
  <2>1. \/ asked[n].stepsBack < stepsBack
        \/ asked[n].stepsBack = stepsBack /\ asked[n].stamp <= clock
    BY <1>2 DEF OrderInv
  <2>2. asked'[n] = asked[n] \/ asked'[n] = [stamp |-> clock, stepsBack |-> stepsBack]
    BY <1>2, AskedByCount
  <2> QED
    BY <1>1, <1>4, <2>1, <2>2
<1> QED
  BY <1>1, <1>3, <1>4, <1>5, <1>6 DEF OrderInv

LEMMA OrderStep ==
    ASSUME OrderInv, NEW t \in Tasks, Check(t) \/ CallDecorated(t) \/ Proceed(t) \/ Cancel(t)
    PROVE  OrderInv'
<1> USE DEF Places
<1>1. CASE Check(t)
  BY <1>1, OrderElsewhere DEF Check, Run, StartOf
<1>2. CASE CallDecorated(t)
  <2>1. PICK to \in {"resolve", "create"} : Goto(t, "idle", to)
    BY <1>2 DEF CallDecorated, Run
  <2> QED
    BY <1>2, <2>1, OrderElsewhere DEF CallDecorated, StartOf
<1>3. CASE Create(t)
  BY <1>3, OrderElsewhere DEF Create, Run
<1>4. CASE SendRule(t)
  BY <1>4, OrderElsewhere DEF SendRule, Await, historyVars
<1>5. CASE Land(t)
  BY <1>5, OrderElsewhere DEF Land, Remote
<1>6. CASE MarkCreated(t)
  BY <1>6, OrderElsewhere DEF MarkCreated, Run, historyVars
<1>7. CASE Resolve(t)
  BY <1>7, OrderElsewhere DEF Resolve, Run, historyVars
<1>8. CASE Ask(t)
  BY <1>8, OrderElsewhere DEF Ask, Await, historyVars
<1>9. CASE Lookup(t)
  BY <1>9, OrderElsewhere DEF Lookup, Remote, historyVars
<1>10. CASE Found(t)
  BY <1>10, OrderElsewhere DEF Found, Run, historyVars
<1>11. CASE Unknown(t) \/ EmptyList(t)
  <2>1. PICK from : Raise(t, from)
    BY <1>11 DEF Unknown, EmptyList
  <2> QED
    BY <2>1, OrderElsewhere DEF Raise
<1>12. CASE Count(t)
  BY <1>12, OrderCount
<1>13. CASE Send(t)
  <2>1. Redis'
    BY <1>13 DEF Send, Redis
  <2> QED
    BY <2>1 DEF OrderInv
<1>14. CASE Serve(t)
  <2>1. pc[t] = "sent" /\ setup' = setup
    BY <1>14 DEF Serve, Remote, Goto
  <2> QED
    BY <2>1 DEF OrderInv, Redis
<1>15. CASE Receive(t)
  <2>1. PICK to \in {"resolve", "idle"} : Goto(t, "executed", to)
    BY <1>15 DEF Receive, Continue, Run
  <2> QED
    BY <1>15, <2>1, OrderElsewhere DEF Receive, Continue
<1>16. CASE Cancel(t)
  <2>1. Goto(t, pc[t], "idle")
    BY <1>16 DEF Cancel, Goto
  <2> QED
    BY <1>16, <2>1, OrderElsewhere DEF Cancel
<1> QED
  BY <1>1, <1>2, <1>3, <1>4, <1>5, <1>6, <1>7, <1>8, <1>9, <1>10, <1>11, <1>12, <1>13,
     <1>14, <1>15, <1>16 DEF Proceed

LEMMA OrderNext == ASSUME OrderInv, [Next]_vars PROVE OrderInv'
<1>1. CASE \E t \in Tasks : Check(t) \/ CallDecorated(t) \/ Proceed(t) \/ Cancel(t)
  BY <1>1, OrderStep
<1>2. CASE Tick
  BY <1>2 DEF Tick, OrderInv, Redis, historyVars
<1>3. CASE StepBack
  <2>1. PICK earlier \in 0 .. clock - 1 : clock' = earlier
    BY <1>3 DEF StepBack
  <2>2. stepsBack' = stepsBack + 1 /\ UNCHANGED <<setup, pc, asked>> /\ clock' \in Nat
    BY <1>3, <2>1 DEF StepBack, historyVars
  <2> QED
    BY <2>2 DEF OrderInv, Redis
<1>4. CASE AddRule \/ RemoveRule \/ Finished \/ UNCHANGED vars
  <2>1. UNCHANGED <<setup, pc, clock, stepsBack, asked>>
    BY <1>4 DEF AddRule, RemoveRule, Change, Finished, vars, historyVars, clockVars
  <2> QED
    BY <2>1 DEF OrderInv, Redis
<1> QED
  BY <1>1, <1>2, <1>3, <1>4 DEF Next

\* The later of two decisions on n has the later stamp, or came after a setting back.
InOrder(n) == asked'[n].stamp >= asked[n].stamp \/ asked'[n].stepsBack > asked[n].stepsBack

LEMMA OrderedStep == ASSUME OrderInv, [Next]_vars, ~Redis, NEW n \in Names PROVE InOrder(n)
<1>1. /\ asked[n].stamp \in Nat /\ asked[n].stepsBack \in Nat /\ clock \in Nat /\ stepsBack \in Nat
      /\ \/ asked[n].stepsBack < stepsBack
         \/ asked[n].stepsBack = stepsBack /\ asked[n].stamp <= clock
  BY DEF OrderInv
<1>2. ASSUME asked' = asked
      PROVE  InOrder(n)
  BY <1>1, <1>2 DEF InOrder
<1>3. ASSUME NEW t \in Tasks, Count(t)
      PROVE  InOrder(n)
  <2>1. asked'[n] = asked[n] \/ asked'[n] = [stamp |-> clock, stepsBack |-> stepsBack]
    BY <1>3, AskedByCount
  <2> QED
    BY <1>1, <2>1 DEF InOrder
<1>4. ASSUME NEW t \in Tasks, Serve(t)
      PROVE  FALSE
  BY <1>4 DEF Serve, Remote, Goto, OrderInv
<1>5. CASE \E t \in Tasks : Check(t) \/ CallDecorated(t) \/ Proceed(t) \/ Cancel(t)
  <2>1. PICK t \in Tasks : Check(t) \/ CallDecorated(t) \/ Proceed(t) \/ Cancel(t)
    BY <1>5
  <2>2. CASE Check(t) \/ CallDecorated(t)
    BY <1>2, <2>2 DEF Check, CallDecorated, StartOf
  <2>3. CASE Create(t) \/ SendRule(t) \/ Land(t) \/ MarkCreated(t)
    BY <1>2, <2>3 DEF Create, SendRule, Land, MarkCreated, historyVars
  <2>4. CASE Resolve(t) \/ Ask(t) \/ Lookup(t) \/ Found(t) \/ Send(t)
    BY <1>2, <2>4 DEF Resolve, Ask, Lookup, Found, Send, historyVars
  <2>5. CASE Unknown(t) \/ EmptyList(t) \/ Receive(t) \/ Cancel(t)
    BY <1>2, <2>5 DEF Unknown, EmptyList, Raise, Receive, Cancel
  <2> QED
    BY <1>3, <1>4, <2>1, <2>2, <2>3, <2>4, <2>5 DEF Proceed
<1>6. CASE AddRule \/ RemoveRule \/ Tick \/ StepBack \/ Finished \/ UNCHANGED vars
  BY <1>2, <1>6 DEF AddRule, RemoveRule, Change, Tick, StepBack, Finished, vars, historyVars
<1> QED
  BY <1>5, <1>6 DEF Next

\* The memory storage of an event loop sees the stamps of its calls in the order of
\* the clock: between two settings back it is the atomic storage of
\* AtomicStorage!OrderedSpec, whatever tasks, lists, rules and setups there are.
THEOREM StampsInOrderHolds == Spec => StampsInOrder
<1>1. Init => OrderInv
  BY DEF Init, OrderInv, Places
<1>2. OrderInv /\ [Next]_vars => OrderInv'
  BY OrderNext
<1>3. OrderInv /\ [Next]_vars => [~Redis => \A n \in Names : InOrder(n)]_vars
  BY OrderedStep
<1>4. OrderInv /\ [Next]_vars =>
          [~Redis => \A n \in Names :
               \/ asked'[n].stamp >= asked[n].stamp
               \/ asked'[n].stepsBack > asked[n].stepsBack]_vars
  BY <1>3 DEF InOrder
<1> QED
  BY <1>1, <1>2, <1>4, PTL DEF Spec, StampsInOrder

-----------------------------------------------------------------------------
\* The tasks at one of these places.
In(places) == {t \in Tasks : pc[t] \in places}

\* With the table, only the task that has the loop can be about to add the rule.
\* With a resolver that waits, whoever added the rule before the flag is set is about
\* to set it, or was cancelled; and a task that adds it again can only be one that
\* found the flag unset.
TableInv ==
    /\ \A t \in Tasks : pc[t] \in Adding => pc[t] = "create" /\ loop = t /\ ~created
    /\ creations <= IF created THEN 1 ELSE 0

WaitingInv ==
    /\ creations + Cardinality(In({"create", "adding"})) <= Cardinality(Tasks) + cancels
    /\ ~created => creations <= Cardinality(In({"landed"})) + cancels

OnceInv ==
    /\ pc \in [Tasks -> Places] /\ created \in BOOLEAN /\ creations \in Nat /\ cancels \in Nat
    /\ ~Custom => TableInv
    /\ Custom => WaitingInv

LEMMA InType ==
    ASSUME NEW places
    PROVE  In(places) \in SUBSET Tasks /\ IsFiniteSet(In(places)) /\ Cardinality(In(places)) \in Nat
  BY AsyncAssumption, FS_Subset, FS_CardinalityType DEF In

LEMMA TasksType == Cardinality(Tasks) \in Nat
  BY AsyncAssumption, FS_CardinalityType

\* A task that moves leaves the places it was among, or joins the places it goes to.
LEMMA Moved ==
    ASSUME pc \in [Tasks -> Places],
           NEW t \in Tasks, NEW from, NEW to, Goto(t, from, to), NEW places
    PROVE  Cardinality(In(places)') =
               IF to \in places /\ from \notin places THEN Cardinality(In(places)) + 1
               ELSE IF to \notin places /\ from \in places THEN Cardinality(In(places)) - 1
               ELSE Cardinality(In(places))
<1>1. pc' = [pc EXCEPT ![t] = to] /\ pc[t] = from
  BY DEF Goto
<1>2. IsFiniteSet(In(places))
  BY InType
<1>3. CASE to \in places /\ from \notin places
  <2>1. In(places)' = In(places) \cup {t} /\ t \notin In(places)
    BY <1>1, <1>3 DEF In
  <2> QED
    BY <1>2, <1>3, <2>1, FS_AddElement
<1>4. CASE to \notin places /\ from \in places
  <2>1. In(places)' = In(places) \ {t} /\ t \in In(places)
    BY <1>1, <1>4 DEF In
  <2> QED
    BY <1>2, <1>4, <2>1, FS_RemoveElement
<1>5. CASE to \in places <=> from \in places
  <2>1. In(places)' = In(places)
    BY <1>1, <1>5 DEF In
  <2> QED
    BY <1>5, <2>1
<1> QED
  BY <1>3, <1>4, <1>5

LEMMA SetsApart ==
    ASSUME NEW S \in SUBSET Tasks, NEW T \in SUBSET Tasks, S \cap T = {}
    PROVE  Cardinality(S) + Cardinality(T) <= Cardinality(Tasks)
<1>1. IsFiniteSet(Tasks)
  BY AsyncAssumption
<1>2. IsFiniteSet(S) /\ IsFiniteSet(T) /\ S \cup T \in SUBSET Tasks
  BY <1>1, FS_Subset
<1>3. Cardinality(S \cup T) = Cardinality(S) + Cardinality(T) - Cardinality(S \cap T)
  BY <1>2, FS_Union
<1>4. Cardinality(S \cap T) = 0 /\ Cardinality(S) \in Nat /\ Cardinality(T) \in Nat
  BY <1>2, FS_EmptySet, FS_CardinalityType
<1>5. Cardinality(S \cup T) <= Cardinality(Tasks)
  BY <1>1, <1>2, FS_Subset
<1> QED
  BY <1>3, <1>4, <1>5

\* A step of a task that is not adding the rule, and does not begin to.
LEMMA OnceElsewhere ==
    ASSUME OnceInv, NEW t \in Tasks,
           NEW from \in Places \ Adding, NEW to \in Places \ Adding, Goto(t, from, to),
           UNCHANGED <<setup, created, creations, cancels>>,
           loop \in {t, NoTask} \/ loop' = loop
    PROVE  OnceInv'
<1>1. pc' \in [Tasks -> Places]
  BY DEF Goto, OnceInv
<1>2. ASSUME ~Custom PROVE TableInv'
  <2>1. TableInv
    BY <1>2 DEF OnceInv
  <2>2. \A u \in Tasks : pc'[u] \in Adding => u # t /\ pc'[u] = pc[u]
    BY DEF Goto, OnceInv
  <2>3. \A u \in Tasks : pc'[u] \in Adding => loop' = u
    BY <2>1, <2>2, AsyncAssumption DEF TableInv
  <2> QED
    BY <2>1, <2>2, <2>3 DEF TableInv
<1>3. In({"create", "adding"})' = In({"create", "adding"}) /\ In({"landed"})' = In({"landed"})
  BY DEF Goto, OnceInv, In, Adding
<1>4. Custom' = Custom
  BY DEF Custom
<1> QED
  BY <1>1, <1>2, <1>3, <1>4 DEF OnceInv, WaitingInv

\* The first call of the decorated function, the flag being unset.
LEMMA OnceEnter ==
    ASSUME OnceInv, NEW t \in Tasks, ~created, Goto(t, "idle", "create"),
           UNCHANGED <<setup, created, creations, cancels>>, loop = NoTask, loop' = t
    PROVE  OnceInv'
<1>1. pc' \in [Tasks -> Places]
  BY DEF Goto, OnceInv, Places
<1>2. ASSUME ~Custom PROVE TableInv'
  <2>1. TableInv
    BY <1>2 DEF OnceInv
  <2>2. \A u \in Tasks : pc[u] \notin Adding
    BY <2>1, AsyncAssumption DEF TableInv
  <2>3. \A u \in Tasks : pc'[u] \in Adding => u = t /\ pc'[u] = "create"
    BY <2>2 DEF Goto, OnceInv
  <2> QED
    BY <2>1, <2>3 DEF TableInv
<1>3. ASSUME Custom PROVE WaitingInv'
  <2>1. creations \in Nat /\ cancels \in Nat /\ creations <= Cardinality(In({"landed"})) + cancels
    BY <1>3 DEF OnceInv, WaitingInv
  <2>2. Cardinality(In({"landed"})') = Cardinality(In({"landed"}))
    BY Moved DEF OnceInv
  <2>3. /\ In({"create", "adding"})' \in SUBSET Tasks /\ In({"landed"})' \in SUBSET Tasks
        /\ In({"create", "adding"})' \cap In({"landed"})' = {}
    BY DEF In
  <2>4. Cardinality(In({"create", "adding"})') + Cardinality(In({"landed"})') <= Cardinality(Tasks)
    BY <2>3, SetsApart
  <2>5. Cardinality(In({"create", "adding"})') \in Nat
    BY <2>3, AsyncAssumption, FS_Subset, FS_CardinalityType
  <2> QED
    BY <2>1, <2>2, <2>4, <2>5, InType, TasksType DEF WaitingInv
<1>4. Custom' = Custom
  BY DEF Custom
<1> QED
  BY <1>1, <1>2, <1>3, <1>4 DEF OnceInv

\* The table is changed and the flag is set in one turn.
LEMMA OnceCreate ==
    ASSUME OnceInv, NEW t \in Tasks, Create(t)
    PROVE  OnceInv'
<1>1. /\ ~Custom /\ Goto(t, "create", "resolve")
      /\ created' = TRUE /\ creations' = creations + 1 /\ UNCHANGED <<setup, cancels>>
  BY DEF Create, Run, AddLazyRule
<1>2. pc' \in [Tasks -> Places]
  BY <1>1 DEF Goto, OnceInv, Places
<1>3. TableInv
  BY <1>1 DEF OnceInv
<1>4. pc[t] = "create" /\ loop = t /\ ~created
  BY <1>1, <1>3 DEF TableInv, Goto, Adding
<1>5. \A u \in Tasks : pc'[u] \notin Adding
  BY <1>1, <1>3, <1>4 DEF TableInv, Goto, OnceInv, Adding
<1>6. creations \in Nat /\ creations <= 0
  BY <1>3, <1>4 DEF TableInv, OnceInv
<1>7. TableInv'
  BY <1>1, <1>5, <1>6 DEF TableInv
<1>8. ~Custom'
  BY <1>1 DEF Custom
<1> QED
  BY <1>1, <1>2, <1>6, <1>7, <1>8 DEF OnceInv

\* The steps of adding the rule where the resolver waits.
LEMMA OnceWaiting ==
    ASSUME OnceInv, NEW t \in Tasks, SendRule(t) \/ Land(t) \/ MarkCreated(t)
    PROVE  OnceInv'
<1> USE DEF Places
<1>0. /\ pc \in [Tasks -> Places] /\ created \in BOOLEAN /\ creations \in Nat /\ cancels \in Nat
      /\ Cardinality(In({"create", "adding"})) \in Nat /\ Cardinality(In({"landed"})) \in Nat
  BY InType DEF OnceInv
<1>1. Custom /\ UNCHANGED <<setup, cancels>>
  <2>1. CASE SendRule(t)
    BY <2>1 DEF SendRule
  <2>2. CASE Land(t) \/ MarkCreated(t)
    <3>1. pc[t] \in {"adding", "landed"} /\ UNCHANGED <<setup, cancels>>
      BY <2>2 DEF Land, MarkCreated, Remote, Run, Goto
    <3> QED
      BY <3>1 DEF OnceInv, TableInv, Adding
  <2> QED
    BY <2>1, <2>2
<1>2. WaitingInv /\ Custom'
  BY <1>1 DEF OnceInv, Custom
<1>3. CASE SendRule(t)
  <2>1. Goto(t, "create", "adding") /\ created' = created /\ creations' = creations
    BY <1>3 DEF SendRule, Await, tableVars, historyVars
  <2>2. /\ Cardinality(In({"create", "adding"})') = Cardinality(In({"create", "adding"}))
        /\ Cardinality(In({"landed"})') = Cardinality(In({"landed"}))
    BY <1>0, <2>1, Moved
  <2>3. WaitingInv'
    BY <1>1, <1>2, <2>1, <2>2 DEF WaitingInv
  <2>4. pc' \in [Tasks -> Places]
    BY <1>0, <2>1 DEF Goto
  <2> QED
    BY <1>0, <1>1, <1>2, <2>1, <2>3, <2>4 DEF OnceInv
<1>4. CASE Land(t)
  <2>1. Goto(t, "adding", "landed") /\ created' = created /\ creations' = creations + 1
    BY <1>4 DEF Land, Remote, AddLazyRule
  <2>2. /\ Cardinality(In({"create", "adding"})') = Cardinality(In({"create", "adding"})) - 1
        /\ Cardinality(In({"landed"})') = Cardinality(In({"landed"})) + 1
    BY <1>0, <2>1, Moved
  <2>3. WaitingInv'
    BY <1>0, <1>1, <1>2, <2>1, <2>2, TasksType DEF WaitingInv
  <2>4. pc' \in [Tasks -> Places]
    BY <1>0, <2>1 DEF Goto
  <2> QED
    BY <1>0, <1>1, <1>2, <2>1, <2>3, <2>4 DEF OnceInv
<1>5. CASE MarkCreated(t)
  <2>1. Goto(t, "landed", "resolve") /\ created' = TRUE /\ creations' = creations
    BY <1>5 DEF MarkCreated, Run, historyVars
  <2>2. Cardinality(In({"create", "adding"})') = Cardinality(In({"create", "adding"}))
    BY <1>0, <2>1, Moved
  <2>3. WaitingInv'
    BY <1>1, <1>2, <2>1, <2>2 DEF WaitingInv
  <2>4. pc' \in [Tasks -> Places]
    BY <1>0, <2>1 DEF Goto
  <2> QED
    BY <1>0, <1>1, <1>2, <2>1, <2>3, <2>4 DEF OnceInv
<1> QED
  BY <1>3, <1>4, <1>5

\* A task that is cancelled with the rule added leaves the flag unset.
LEMMA OnceCancel ==
    ASSUME OnceInv, NEW t \in Tasks, Cancel(t)
    PROVE  OnceInv'
<1>1. /\ Goto(t, pc[t], "idle") /\ pc[t] # "create"
      /\ cancels' = cancels + 1 /\ UNCHANGED <<setup, created, creations, loop>>
  BY DEF Cancel, Goto, Waiting, tableVars
<1>2. /\ pc \in [Tasks -> Places] /\ creations \in Nat /\ cancels \in Nat
      /\ Cardinality(In({"create", "adding"})) \in Nat /\ Cardinality(In({"landed"})) \in Nat
  BY InType DEF OnceInv
<1>3. pc' \in [Tasks -> Places]
  BY <1>1, <1>2 DEF Goto, Places
<1>4. ASSUME ~Custom PROVE TableInv'
  BY <1>1, <1>4 DEF OnceInv, TableInv, Goto, Adding
<1>5. ASSUME Custom PROVE WaitingInv'
  <2>1. /\ Cardinality(In({"create", "adding"})') <= Cardinality(In({"create", "adding"}))
        /\ Cardinality(In({"landed"})') >= Cardinality(In({"landed"})) - 1
        /\ Cardinality(In({"create", "adding"})') \in Nat /\ Cardinality(In({"landed"})') \in Nat
    <3>1. Cardinality(In({"create", "adding"})') \in
              {Cardinality(In({"create", "adding"})), Cardinality(In({"create", "adding"})) - 1}
      BY <1>1, <1>2, Moved
    <3>2. Cardinality(In({"landed"})') \in {Cardinality(In({"landed"})), Cardinality(In({"landed"})) - 1}
      BY <1>1, <1>2, Moved
    <3>3. \A places : In(places)' \in SUBSET Tasks
      BY DEF In
    <3>4. Cardinality(In({"create", "adding"})') \in Nat /\ Cardinality(In({"landed"})') \in Nat
      BY <3>3, AsyncAssumption, FS_Subset, FS_CardinalityType
    <3> QED
      BY <1>2, <3>1, <3>2, <3>4
  <2>2. WaitingInv
    BY <1>5 DEF OnceInv
  <2> QED
    BY <1>1, <1>2, <2>1, <2>2, TasksType DEF WaitingInv
<1>6. Custom' = Custom
  BY <1>1 DEF Custom
<1> QED
  BY <1>1, <1>2, <1>3, <1>4, <1>5, <1>6 DEF OnceInv

LEMMA OnceStep ==
    ASSUME OnceInv, NEW t \in Tasks, Check(t) \/ CallDecorated(t) \/ Proceed(t) \/ Cancel(t)
    PROVE  OnceInv'
<1> USE DEF Places, Adding
<1>1. CASE Check(t)
  BY <1>1, OnceElsewhere DEF Check, Run, StartOf, tableVars
<1>2. CASE CallDecorated(t)
  <2>1. /\ Goto(t, "idle", IF created THEN "resolve" ELSE "create")
        /\ loop = NoTask /\ loop' = t /\ UNCHANGED <<setup, created, creations, cancels>>
    BY <1>2 DEF CallDecorated, Run, StartOf, tableVars
  <2>2. CASE created
    BY <2>1, <2>2, OnceElsewhere
  <2>3. CASE ~created
    BY <2>1, <2>3, OnceEnter
  <2> QED
    BY <2>2, <2>3
<1>3. CASE Create(t)
  BY <1>3, OnceCreate
<1>4. CASE SendRule(t) \/ Land(t) \/ MarkCreated(t)
  BY <1>4, OnceWaiting
<1>5. CASE Resolve(t)
  BY <1>5, OnceElsewhere DEF Resolve, Run, tableVars, historyVars
<1>6. CASE Ask(t)
  BY <1>6, OnceElsewhere DEF Ask, Await, tableVars, historyVars
<1>7. CASE Lookup(t)
  BY <1>7, OnceElsewhere DEF Lookup, Remote, tableVars, historyVars
<1>8. CASE Found(t)
  BY <1>8, OnceElsewhere DEF Found, Run, tableVars, historyVars
<1>9. CASE Unknown(t) \/ EmptyList(t)
  <2>1. PICK from \in {"resolve", "answered"} : Raise(t, from)
    BY <1>9 DEF Unknown, EmptyList
  <2> QED
    BY <2>1, OnceElsewhere DEF Raise, tableVars
<1>10. CASE Count(t)
  <2>1. PICK to \in {"resolve", "idle"} : Goto(t, "decide", to)
    BY <1>10 DEF Count, Continue, Run
  <2> QED
    BY <1>10, <2>1, OnceElsewhere DEF Count, Continue, tableVars
<1>11. CASE Send(t)
  BY <1>11, OnceElsewhere DEF Send, Await, tableVars, historyVars
<1>12. CASE Serve(t)
  BY <1>12, OnceElsewhere DEF Serve, Remote, tableVars
<1>13. CASE Receive(t)
  <2>1. PICK to \in {"resolve", "idle"} : Goto(t, "executed", to)
    BY <1>13 DEF Receive, Continue, Run
  <2> QED
    BY <1>13, <2>1, OnceElsewhere DEF Receive, Continue, tableVars
<1>14. CASE Cancel(t)
  BY <1>14, OnceCancel
<1> QED
  BY <1>1, <1>2, <1>3, <1>4, <1>5, <1>6, <1>7, <1>8, <1>9, <1>10, <1>11, <1>12, <1>13,
     <1>14 DEF Proceed

LEMMA OnceNext == ASSUME OnceInv, [Next]_vars PROVE OnceInv'
<1>1. CASE \E t \in Tasks : Check(t) \/ CallDecorated(t) \/ Proceed(t) \/ Cancel(t)
  BY <1>1, OnceStep
<1>2. CASE AddRule \/ RemoveRule \/ Tick \/ StepBack \/ Finished \/ UNCHANGED vars
  <2>1. UNCHANGED <<setup, pc, loop, created, creations, cancels>>
    BY <1>2 DEF AddRule, RemoveRule, Change, Tick, StepBack, Finished, vars, tableVars, historyVars
  <2> QED
    BY <2>1 DEF OnceInv, TableInv, WaitingInv, In, Custom
<1> QED
  BY <1>1, <1>2 DEF Next

\* The decorator adds its rule once; where the resolver waits, once for every task
\* and once more for every cancelled call.
THEOREM AddedOnceHolds == Spec => []AddedOnce
<1>1. Init => OnceInv
  <2> SUFFICES ASSUME Init PROVE OnceInv
    OBVIOUS
  <2>1. In({"create", "adding"}) = {}
    BY DEF Init, In
  <2>2. Cardinality(In({"create", "adding"})) = 0 /\ Cardinality(In({"landed"})) \in Nat
    BY <2>1, FS_EmptySet, InType
  <2>3. pc \in [Tasks -> Places] /\ created = FALSE /\ creations = 0 /\ cancels = 0
    BY DEF Init, Places
  <2>4. TableInv
    BY <2>3 DEF TableInv, Init, Adding
  <2>5. WaitingInv
    BY <2>2, <2>3, TasksType DEF WaitingInv
  <2> QED
    BY <2>3, <2>4, <2>5 DEF OnceInv
<1>2. OnceInv /\ [Next]_vars => OnceInv'
  BY OnceNext
<1>3. OnceInv => AddedOnce
  <2> SUFFICES ASSUME OnceInv PROVE AddedOnce
    OBVIOUS
  <2>1. creations \in Nat /\ cancels \in Nat /\ Cardinality(In({"create", "adding"})) \in Nat
    BY InType DEF OnceInv
  <2>2. CASE Custom
    BY <2>1, <2>2, TasksType DEF OnceInv, WaitingInv, AddedOnce
  <2>3. CASE ~Custom
    BY <2>1, <2>3 DEF OnceInv, TableInv, AddedOnce
  <2> QED
    BY <2>2, <2>3
<1> QED
  BY <1>1, <1>2, <1>3, PTL DEF Spec

-----------------------------------------------------------------------------
Ledger == [Names -> Nat]

\* The places where a name of the list has been looked up.
Holding == {"asking", "answered", "decide", "sent", "executed"}

\* How many names of its list a check has been counted for, and where they are n.
Counted(t) == IF pc[t] = "executed" /\ outcome[t].allowed THEN at[t] ELSE at[t] - 1

Upto(t, m, n) == {i \in 1 .. m : list[t][i] = n}

Positions ==
    /\ pc \in [Tasks -> Places]
    /\ list \in [Tasks -> Seq(Names)]
    /\ at \in [Tasks -> Nat \ {0}]
    /\ outcome = [t \in Tasks |-> outcome[t]]
    /\ \A t \in Tasks : at[t] = 1 \/ at[t] \in DOMAIN list[t]
    /\ \A t \in Tasks : pc[t] \in Holding => at[t] \in DOMAIN list[t]
    /\ \A t \in Tasks : pc[t] = "idle" => at[t] = 1

\* The books balance, and a check is at a position of its list, or at the first of an
\* empty one.
LedgerInv ==
    /\ Positions
    /\ used \in Ledger /\ served \in Ledger /\ lost \in Ledger
    /\ LedgerBalances

LEMMA UptoFinite ==
    ASSUME NEW t, NEW m \in Int, NEW n
    PROVE  IsFiniteSet(Upto(t, m, n)) /\ Cardinality(Upto(t, m, n)) \in Nat
<1>1. IsFiniteSet(1 .. m)
  BY FS_Interval
<1>2. Upto(t, m, n) \in SUBSET (1 .. m)
  BY DEF Upto
<1> QED
  BY <1>1, <1>2, FS_Subset, FS_CardinalityType

LEMMA SoFarFinite ==
    ASSUME Positions, NEW t \in Tasks, NEW n
    PROVE  /\ SoFar(t, n) = Upto(t, Counted(t), n) /\ Counted(t) \in Int
           /\ IsFiniteSet(SoFar(t, n)) /\ Cardinality(SoFar(t, n)) \in Nat
<1>1. SoFar(t, n) = Upto(t, Counted(t), n)
  BY DEF SoFar, Upto, Counted
<1>2. Counted(t) \in Int
  BY DEF Positions, Counted
<1> QED
  BY <1>1, <1>2, UptoFinite

\* One position more.
LEMMA UptoNext ==
    ASSUME NEW t, NEW m \in Nat \ {0}, NEW n
    PROVE  Cardinality(Upto(t, m, n))
               = Cardinality(Upto(t, m - 1, n)) + (IF list[t][m] = n THEN 1 ELSE 0)
<1>1. IsFiniteSet(Upto(t, m - 1, n)) /\ Cardinality(Upto(t, m - 1, n)) \in Nat
  BY UptoFinite
<1>2. CASE list[t][m] = n
  <2>1. Upto(t, m, n) = Upto(t, m - 1, n) \cup {m} /\ m \notin Upto(t, m - 1, n)
    BY <1>2 DEF Upto
  <2> QED
    BY <1>1, <1>2, <2>1, FS_AddElement
<1>3. CASE list[t][m] # n
  <2>1. Upto(t, m, n) = Upto(t, m - 1, n)
    BY <1>3 DEF Upto
  <2> QED
    BY <1>1, <1>3, <2>1
<1> QED
  BY <1>2, <1>3

LEMMA BookedOne ==
    ASSUME NEW ledger \in Ledger, NEW x \in Names
    PROVE  /\ Booked(ledger, <<x>>) \in Ledger
           /\ \A n \in Names : Booked(ledger, <<x>>)[n] = ledger[n] + (IF x = n THEN 1 ELSE 0)
<1>1. ASSUME NEW n \in Names
      PROVE  Cardinality({i \in DOMAIN <<x>> : <<x>>[i] = n}) = IF x = n THEN 1 ELSE 0
  <2>1. CASE x = n
    <3>1. {i \in DOMAIN <<x>> : <<x>>[i] = n} = {1}
      BY <2>1
    <3> QED
      BY <2>1, <3>1, FS_Singleton
  <2>2. CASE x # n
    <3>1. {i \in DOMAIN <<x>> : <<x>>[i] = n} = {}
      BY <2>2
    <3> QED
      BY <2>2, <3>1, FS_EmptySet
  <2> QED
    BY <2>1, <2>2
<1> QED
  BY <1>1 DEF Booked, Ledger

\* The first m names of the list of t, entered in a ledger.
LEMMA BookedPrefix ==
    ASSUME Positions, NEW t \in Tasks, NEW m \in 0 .. Len(list[t]), NEW ledger \in Ledger
    PROVE  /\ Booked(ledger, SubSeq(list[t], 1, m)) \in Ledger
           /\ \A n \in Names : Booked(ledger, SubSeq(list[t], 1, m))[n]
                                   = ledger[n] + Cardinality(Upto(t, m, n))
<1> DEFINE names == SubSeq(list[t], 1, m)
<1>1. list[t] \in Seq(Names)
  BY DEF Positions
<1>2. m \in Nat /\ m <= Len(list[t]) /\ \A i \in 1 .. m : list[t][i] \in Names
  BY <1>1
<1>3. /\ names \in Seq(Names) /\ Len(names) = m
      /\ \A i \in 1 .. m : names[i] = list[t][i]
  <2>1. /\ names \in Seq(Names)
        /\ Len(names) = IF 1 <= m THEN m - 1 + 1 ELSE 0
        /\ \A i \in 1 .. m - 1 + 1 : names[i] = list[t][1 + i - 1]
    BY <1>2, SubSeqProperties
  <2>2. m - 1 + 1 = m /\ \A i \in 1 .. m : 1 + i - 1 = i
    BY <1>2
  <2> HIDE DEF names
  <2> QED
    BY <1>2, <2>1, <2>2
<1>4. DOMAIN names = 1 .. m
  BY <1>3
<1> HIDE DEF names
<1>5. \A n \in Names : {i \in DOMAIN names : names[i] = n} = Upto(t, m, n)
  BY <1>3, <1>4 DEF Upto
<1>6. \A n \in Names : Booked(ledger, names)[n] = ledger[n] + Cardinality(Upto(t, m, n))
  BY <1>5 DEF Booked
<1>7. \A n \in Names : Cardinality(Upto(t, m, n)) \in Nat
  BY <1>2, UptoFinite
<1>8. Booked(ledger, names) \in Ledger
  <2>1. ASSUME NEW n \in Names
        PROVE  ledger[n] + Cardinality({i \in DOMAIN names : names[i] = n}) \in Nat
    <3> DEFINE S == {i \in DOMAIN names : names[i] = n}
    <3>1. ledger[n] \in Nat
      BY DEF Ledger
    <3>2. Cardinality(S) \in Nat
      BY <1>5, <1>7
    <3> HIDE DEF S
    <3>3. ledger[n] + Cardinality(S) \in Nat
      BY <3>1, <3>2
    <3> QED
      BY <3>3 DEF S
  <2> QED
    BY <2>1 DEF Booked, Ledger
<1>9. names = SubSeq(list[t], 1, m)
  BY DEF names
<1>10. ASSUME NEW s, s = names
       PROVE  Booked(ledger, s) = Booked(ledger, names)
  BY <1>10
<1> QED
  BY <1>6, <1>8, <1>9, <1>10, Zenon

LEMMA BookedList ==
    ASSUME Positions, NEW t \in Tasks, NEW ledger \in Ledger
    PROVE  /\ Booked(ledger, list[t]) \in Ledger
           /\ \A n \in Names : Booked(ledger, list[t])[n]
                                   = ledger[n] + Cardinality(Upto(t, Len(list[t]), n))
<1>1. list[t] \in Seq(Names) /\ Len(list[t]) \in 0 .. Len(list[t])
  BY DEF Positions
<1>2. SubSeq(list[t], 1, Len(list[t])) = list[t]
  BY <1>1, SubSeqFull
<1> QED
  BY <1>1, <1>2, BookedPrefix

\* A step of t changes what is in progress by as much as what t has been counted for.
LEMMA ProgressMoves ==
    ASSUME LedgerInv, NEW t \in Tasks, NEW n, Positions',
           \A u \in Tasks \ {t} : SoFar(u, n)' = SoFar(u, n)
    PROVE  /\ Cardinality(InProgress(n)) \in Nat /\ Cardinality(InProgress(n)') \in Nat
           /\ Cardinality(SoFar(t, n)) \in Nat /\ Cardinality(SoFar(t, n)') \in Nat
           /\ Cardinality(InProgress(n)') + Cardinality(SoFar(t, n))
                  = Cardinality(InProgress(n)) + Cardinality(SoFar(t, n)')
<1>1. PICK F : F = [u \in Tasks |-> SoFar(u, n)]
  OBVIOUS
<1>2. PICK G : G = [u \in Tasks |-> SoFar(u, n)']
  OBVIOUS
<1>3. IsFiniteSet(SoFar(t, n)')
  <2>1. Counted(t)' \in Int
    BY DEF Positions, Counted
  <2>2. IsFiniteSet(1 .. Counted(t)')
    BY <2>1, FS_Interval
  <2>3. SoFar(t, n)' \in SUBSET (1 .. Counted(t)')
    BY DEF SoFar, Counted
  <2> QED
    BY <2>2, <2>3, FS_Subset
<1>4. IsFiniteSet(Tasks) /\ \A u \in Tasks : IsFiniteSet(F[u])
  BY <1>1, AsyncAssumption, SoFarFinite DEF LedgerInv
<1>5. IsFiniteSet(G[t]) /\ \A u \in Tasks \ {t} : G[u] = F[u]
  BY <1>1, <1>2, <1>3
<1>6. F[t] = SoFar(t, n) /\ G[t] = SoFar(t, n)'
  BY <1>1, <1>2
<1>7. PICK before : before = InProgress(n)
  OBVIOUS
<1>8. PICK after : after = InProgress(n)'
  OBVIOUS
<1>9. before = UNION {{u} \X F[u] : u \in Tasks} /\ after = UNION {{u} \X G[u] : u \in Tasks}
  BY <1>1, <1>2, <1>7, <1>8 DEF InProgress
<1>10. /\ Cardinality(before) \in Nat /\ Cardinality(after) \in Nat
       /\ Cardinality(F[t]) \in Nat /\ Cardinality(G[t]) \in Nat
  BY <1>4, <1>5, <1>9, OneSetReplaced, ZenonT(40)
<1>11. Cardinality(after) + Cardinality(F[t]) = Cardinality(before) + Cardinality(G[t])
  BY <1>4, <1>5, <1>9, OneSetReplaced
<1> QED
  BY <1>6, <1>7, <1>8, <1>10, <1>11

\* The books balance after a step of t that is entered in them.
LEMMA LedgerMoves ==
    ASSUME LedgerInv, NEW t \in Tasks, Positions',
           used' \in Ledger, served' \in Ledger, lost' \in Ledger,
           \A u \in Tasks \ {t} : Counted(u)' = Counted(u) /\ list'[u] = list[u],
           \A n \in Names : used'[n] - served'[n] - lost'[n] - Cardinality(SoFar(t, n)')
                                = used[n] - served[n] - lost[n] - Cardinality(SoFar(t, n))
    PROVE  LedgerInv'
<1>1. ASSUME NEW n \in Names
      PROVE  used'[n] = served'[n] + lost'[n] + Cardinality(InProgress(n)')
  <2>1. \A u \in Tasks \ {t} : SoFar(u, n)' = SoFar(u, n)
    BY DEF SoFar, Counted
  <2> DEFINE p == Cardinality(InProgress(n))
             q == Cardinality(InProgress(n)')
             c == Cardinality(SoFar(t, n))
             d == Cardinality(SoFar(t, n)')
  <2>2. p \in Nat /\ q \in Nat /\ c \in Nat /\ d \in Nat /\ q + c = p + d
    BY <2>1, ProgressMoves
  <2>3. used[n] = served[n] + lost[n] + p
    BY DEF LedgerInv, LedgerBalances
  <2>4. /\ used[n] \in Nat /\ served[n] \in Nat /\ lost[n] \in Nat
        /\ used'[n] \in Nat /\ served'[n] \in Nat /\ lost'[n] \in Nat
    BY DEF LedgerInv, Ledger
  <2>5. used'[n] - served'[n] - lost'[n] - d = used[n] - served[n] - lost[n] - c
    OBVIOUS
  <2> HIDE DEF p, q, c, d
  <2>6. used'[n] - served'[n] - lost'[n] - d = p - c
    <3>1. used[n] - served[n] - lost[n] - c = p - c
      BY <2>2, <2>3, <2>4
    <3> QED
      BY <2>5, <3>1, Zenon
  <2>7. used'[n] = served'[n] + lost'[n] + q
    <3> DEFINE x == used'[n]
               y == served'[n]
               z == lost'[n]
    <3>1. x \in Nat /\ y \in Nat /\ z \in Nat /\ x - y - z - d = p - c
      BY <2>4, <2>6
    <3> HIDE DEF x, y, z
    <3>2. x = y + z + q
      BY <2>2, <3>1
    <3> QED
      BY <3>2 DEF x, y, z
  <2> QED
    BY <2>7 DEF q
<1>2. LedgerBalances'
  BY <1>1 DEF LedgerBalances
<1> QED
  BY <1>2 DEF LedgerInv


-----------------------------------------------------------------------------
\* What a step of t alone, from one place to another, keeps.
LEMMA PlacesKept ==
    ASSUME Positions, NEW t \in Tasks, NEW to \in Places,
           pc' = [pc EXCEPT ![t] = to],
           NEW names \in Seq(Names), list' = [list EXCEPT ![t] = names],
           NEW i \in Nat \ {0}, at' = [at EXCEPT ![t] = i],
           NEW d, outcome' = [outcome EXCEPT ![t] = d],
           i = 1 \/ i \in DOMAIN names, to \in Holding => i \in DOMAIN names,
           to = "idle" => i = 1
    PROVE  /\ Positions'
           /\ \A u \in Tasks \ {t} : Counted(u)' = Counted(u) /\ list'[u] = list[u]
           /\ pc'[t] = to /\ list'[t] = names /\ at'[t] = i /\ outcome'[t] = d
<1>1. /\ pc' \in [Tasks -> Places] /\ list' \in [Tasks -> Seq(Names)] /\ at' \in [Tasks -> Nat \ {0}]
      /\ pc'[t] = to /\ list'[t] = names /\ at'[t] = i
      /\ \A u \in Tasks \ {t} : pc'[u] = pc[u] /\ list'[u] = list[u] /\ at'[u] = at[u]
  BY DEF Positions
<1>2. /\ outcome'[t] = d /\ outcome' = [u \in Tasks |-> outcome'[u]]
      /\ \A u \in Tasks \ {t} : outcome'[u] = outcome[u]
  BY DEF Positions
<1>3. \A u \in Tasks \ {t} : Counted(u)' = Counted(u)
  BY <1>1, <1>2 DEF Counted
<1>4. ASSUME NEW u \in Tasks
      PROVE  /\ at'[u] = 1 \/ at'[u] \in DOMAIN list'[u]
             /\ pc'[u] \in Holding => at'[u] \in DOMAIN list'[u]
             /\ pc'[u] = "idle" => at'[u] = 1
  <2>1. CASE u = t
    BY <1>1, <2>1
  <2>2. CASE u # t
    BY <1>1, <2>2 DEF Positions
  <2> QED
    BY <2>1, <2>2
<1> QED
  BY <1>1, <1>2, <1>3, <1>4 DEF Positions

\* A step that neither counts nor ends a check.
LEMMA LedgerElsewhere ==
    ASSUME LedgerInv, NEW t \in Tasks, NEW from \in Places \ {"executed"},
           NEW to \in Places \ {"executed", "idle"}, Goto(t, from, to),
           UNCHANGED <<at, outcome, ledgerVars>>,
           \/ list' = list
           \/ from = "idle" /\ \E names \in Seq(Names) : list' = [list EXCEPT ![t] = names],
           to \in Holding => from \in Holding \/ (list[t] # <<>> /\ list' = list),
           from = "idle" => to \notin Holding
    PROVE  LedgerInv'
<1>0. list \in [Tasks -> Seq(Names)]
  BY DEF LedgerInv, Positions
<1>1. /\ Positions /\ pc' = [pc EXCEPT ![t] = to] /\ pc[t] = from
      /\ list[t] \in Seq(Names) /\ at[t] \in Nat \ {0}
      /\ (at[t] = 1 \/ at[t] \in DOMAIN list[t])
  BY DEF Goto, LedgerInv, Positions
<1>2. PICK names \in Seq(Names) : /\ list' = [list EXCEPT ![t] = names]
                                  /\ from # "idle" => names = list[t]
  <2>1. CASE list' = list
    <3>1. list' = [list EXCEPT ![t] = list[t]]
      BY <1>1, <2>1 DEF Positions
    <3> QED
      BY <1>1, <3>1
  <2>2. CASE from = "idle" /\ \E names \in Seq(Names) : list' = [list EXCEPT ![t] = names]
    BY <2>2
  <2> QED
    BY <2>1, <2>2
<1>3. at' = [at EXCEPT ![t] = at[t]] /\ outcome' = [outcome EXCEPT ![t] = outcome[t]]
  BY <1>1 DEF Positions
<1>4. from = "idle" => at[t] = 1
  BY <1>1 DEF Positions
<1>5. to \in Holding => at[t] \in DOMAIN names
  <2>1. ASSUME to \in Holding, from \in Holding
        PROVE  at[t] \in DOMAIN names
    BY <1>1, <1>2, <2>1 DEF Positions, Holding
  <2>2. ASSUME to \in Holding, list[t] # <<>>, list' = list
        PROVE  at[t] \in DOMAIN names
    <3>1. names = list[t]
      BY <1>0, <1>2, <2>2
    <3>2. Len(list[t]) \in Nat \ {0}
      BY <1>1, <2>2
    <3> QED
      BY <1>1, <3>1, <3>2
  <2> QED
    BY <2>1, <2>2
<1>6. at[t] = 1 \/ at[t] \in DOMAIN names
  BY <1>1, <1>2, <1>4
<1>7. /\ Positions'
      /\ \A u \in Tasks \ {t} : Counted(u)' = Counted(u) /\ list'[u] = list[u]
      /\ pc'[t] = to /\ list'[t] = names /\ at'[t] = at[t]
  <2> DEFINE i == at[t]
             d == outcome[t]
  <2>1. at' = [at EXCEPT ![t] = i] /\ outcome' = [outcome EXCEPT ![t] = d] /\ i \in Nat \ {0}
    BY <1>1, <1>3
  <2>2. (i = 1 \/ i \in DOMAIN names) /\ (to \in Holding => i \in DOMAIN names)
    BY <1>5, <1>6
  <2> HIDE DEF i, d
  <2>3. Positions'
    BY <1>1, <1>2, <2>1, <2>2, PlacesKept, ZenonT(60)
  <2>4. \A u \in Tasks \ {t} : Counted(u)' = Counted(u) /\ list'[u] = list[u]
    BY <1>1, <1>2, <2>1, <2>2, PlacesKept, ZenonT(60)
  <2>5. pc'[t] = to /\ list'[t] = names /\ at'[t] = i
    BY <1>1, <1>2, <2>1 DEF Positions
  <2> QED
    BY <2>3, <2>4, <2>5, Zenon DEF i
<1>8. \A n \in Names : SoFar(t, n)' = SoFar(t, n)
  <2>1. CASE from = "idle"
    BY <1>1, <1>4, <1>7, <2>1 DEF SoFar
  <2>2. CASE from # "idle"
    BY <1>1, <1>2, <1>7, <2>2 DEF SoFar
  <2> QED
    BY <2>1, <2>2
<1>9. used' \in Ledger /\ served' \in Ledger /\ lost' \in Ledger
  BY DEF LedgerInv, ledgerVars
<1>10. used' = used /\ served' = served /\ lost' = lost
  BY DEF ledgerVars
<1>11. \A n \in Names : used'[n] - served'[n] - lost'[n] - Cardinality(SoFar(t, n)')
                            = used[n] - served[n] - lost[n] - Cardinality(SoFar(t, n))
  BY <1>8, <1>10, Zenon
<1> QED
  BY <1>7, <1>9, <1>11, LedgerMoves


\* The name at the position of t, counted too.
LEMMA NameBooked ==
    ASSUME LedgerInv, NEW t \in Tasks, pc[t] \in {"decide", "sent"},
           used' = Booked(used, <<Name(t)>>)
    PROVE  /\ used' \in Ledger
           /\ \A n \in Names : used'[n] = used[n] + Cardinality(Upto(t, at[t], n))
                                                  - Cardinality(SoFar(t, n))
<1>1. /\ Positions /\ used \in Ledger
      /\ list[t] \in Seq(Names) /\ at[t] \in Nat \ {0} /\ at[t] \in DOMAIN list[t]
  BY DEF LedgerInv, Positions, Holding
<1>2. Name(t) \in Names
  BY <1>1 DEF Name
<1>3. used' \in Ledger
  BY <1>1, <1>2, BookedOne
<1>4. ASSUME NEW n \in Names
      PROVE  used'[n] = used[n] + Cardinality(Upto(t, at[t], n)) - Cardinality(SoFar(t, n))
  <2> DEFINE one == IF Name(t) = n THEN 1 ELSE 0
             c   == Cardinality(Upto(t, at[t], n))
             d   == Cardinality(SoFar(t, n))
  <2>1. used'[n] = used[n] + one
    BY <1>1, <1>2, BookedOne
  <2>2. SoFar(t, n) = Upto(t, at[t] - 1, n)
    BY DEF SoFar, Upto
  <2>3. c = Cardinality(Upto(t, at[t] - 1, n)) + (IF list[t][at[t]] = n THEN 1 ELSE 0)
    BY <1>1, UptoNext
  <2>4. c = d + one
    BY <2>2, <2>3 DEF Name
  <2>5. used[n] \in Nat /\ d \in Nat /\ one \in Nat
    BY <1>1, SoFarFinite DEF Ledger
  <2> HIDE DEF one, c, d
  <2>6. used'[n] = used[n] + c - d
    BY <2>1, <2>4, <2>5
  <2> QED
    BY <2>6 DEF c, d
<1> QED
  BY <1>3, <1>4

\* The end of a check that is counted up to m: it has paid, or it is lost.
LEMMA LedgerEnds ==
    ASSUME LedgerInv, NEW t \in Tasks, NEW answer,
           pc' = [pc EXCEPT ![t] = "idle"], End(t, answer),
           NEW m \in 0 .. Len(list[t]), used' \in Ledger,
           \A n \in Names : used'[n] = used[n] + Cardinality(Upto(t, m, n)) - Cardinality(SoFar(t, n)),
           \/ lost' = Booked(lost, SubSeq(list[t], 1, m)) /\ served' = served
           \/ served' = Booked(served, SubSeq(list[t], 1, m)) /\ lost' = lost
    PROVE  LedgerInv'
<1>1. /\ Positions /\ used \in Ledger /\ served \in Ledger /\ lost \in Ledger
  BY DEF LedgerInv
<1>2. <<>> \in Seq(Names) /\ 1 \in Nat \ {0} /\ "idle" \in Places /\ "idle" \notin Holding
  BY DEF Places, Holding
<1>3. /\ list' = [list EXCEPT ![t] = <<>>] /\ at' = [at EXCEPT ![t] = 1]
      /\ outcome' = [outcome EXCEPT ![t] = NoOutcome]
  BY DEF End
<1>4. Positions'
  BY <1>1, <1>2, <1>3, PlacesKept, ZenonT(60)
<1>5. \A u \in Tasks \ {t} : Counted(u)' = Counted(u) /\ list'[u] = list[u]
  BY <1>1, <1>2, <1>3, PlacesKept, ZenonT(60)
<1>6. \A n \in Names : SoFar(t, n)' = {}
  BY <1>1, <1>3 DEF Positions, SoFar
<1>7. served' \in Ledger /\ lost' \in Ledger
  BY <1>1, BookedPrefix
<1>8. ASSUME NEW n \in Names
      PROVE  used'[n] - served'[n] - lost'[n] - Cardinality(SoFar(t, n)')
                 = used[n] - served[n] - lost[n] - Cardinality(SoFar(t, n))
  <2> DEFINE c == Cardinality(Upto(t, m, n))
             d == Cardinality(SoFar(t, n))
  <2>1. Cardinality(SoFar(t, n)') = 0
    BY <1>6, FS_EmptySet
  <2>2. used'[n] = used[n] + c - d
    OBVIOUS
  <2>3. \/ lost'[n] = lost[n] + c /\ served'[n] = served[n]
        \/ served'[n] = served[n] + c /\ lost'[n] = lost[n]
    BY <1>1, BookedPrefix
  <2>4. used[n] \in Nat /\ served[n] \in Nat /\ lost[n] \in Nat /\ d \in Nat /\ c \in Nat
    <3>1. m \in Int
      OBVIOUS
    <3> QED
      BY <1>1, <3>1, SoFarFinite, UptoFinite DEF Ledger
  <2>5. used'[n] \in Nat /\ served'[n] \in Nat /\ lost'[n] \in Nat
    BY <1>7 DEF Ledger
  <2> HIDE DEF c, d
  <2>6. used'[n] - served'[n] - lost'[n] - 0 = used[n] - served[n] - lost[n] - d
    <3>1. CASE lost'[n] = lost[n] + c /\ served'[n] = served[n]
      BY <2>2, <2>4, <3>1
    <3>2. CASE served'[n] = served[n] + c /\ lost'[n] = lost[n]
      BY <2>2, <2>4, <3>2
    <3> QED
      BY <2>3, <3>1, <3>2
  <2>7. used'[n] - served'[n] - lost'[n] - 0 = used[n] - served[n] - lost[n] - Cardinality(SoFar(t, n))
    BY <2>6 DEF d
  <2> QED
    BY <2>1, <2>7, Zenon
<1> QED
  BY <1>4, <1>5, <1>7, <1>8, LedgerMoves


\* The storage decides for a command in the server's hands.
LEMMA LedgerServe ==
    ASSUME LedgerInv, NEW t \in Tasks, Serve(t)
    PROVE  LedgerInv'
<1> DEFINE d == Decided(t, now[t])
<1>1. /\ Positions /\ used \in Ledger /\ served \in Ledger /\ lost \in Ledger
      /\ list[t] \in Seq(Names) /\ at[t] \in Nat \ {0}
  BY DEF LedgerInv, Positions
<1>2. /\ pc[t] = "sent" /\ pc' = [pc EXCEPT ![t] = "executed"]
      /\ outcome' = [outcome EXCEPT ![t] = d] /\ UNCHANGED <<list, at, served, lost>>
      /\ used' = IF d.allowed THEN Booked(used, <<Name(t)>>) ELSE used
  BY DEF Serve, Remote, Goto, Booking
<1> HIDE DEF d
<1>3. /\ at[t] \in DOMAIN list[t] /\ "executed" \in Places
      /\ list' = [list EXCEPT ![t] = list[t]] /\ at' = [at EXCEPT ![t] = at[t]]
  BY <1>1, <1>2 DEF Positions, Holding, Places
<1>4. Positions'
  BY <1>1, <1>2, <1>3, PlacesKept, ZenonT(60)
<1>5. \A u \in Tasks \ {t} : Counted(u)' = Counted(u) /\ list'[u] = list[u]
  BY <1>1, <1>2, <1>3, PlacesKept, ZenonT(60)
<1>6. /\ pc'[t] = "executed" /\ outcome'[t] = d
      /\ pc[t] # "executed" /\ list'[t] = list[t] /\ at'[t] = at[t]
  BY <1>1, <1>2, <1>3 DEF Positions
<1>7. CASE d.allowed
  <2>1. used' = Booked(used, <<Name(t)>>)
    BY <1>2, <1>7
  <2>2. used' \in Ledger
    BY <1>2, <2>1, NameBooked
  <2>3. \A n \in Names : SoFar(t, n)' = Upto(t, at[t], n)
    BY <1>6, <1>7 DEF SoFar, Upto
  <2>4. ASSUME NEW n \in Names
        PROVE  used'[n] - served'[n] - lost'[n] - Cardinality(SoFar(t, n)')
                   = used[n] - served[n] - lost[n] - Cardinality(SoFar(t, n))
    <3> DEFINE c == Cardinality(Upto(t, at[t], n))
               e == Cardinality(SoFar(t, n))
    <3>1. used'[n] = used[n] + c - e
      BY <1>2, <2>1, NameBooked
    <3>2. used[n] \in Nat /\ served[n] \in Nat /\ lost[n] \in Nat /\ c \in Nat /\ e \in Nat
      BY <1>1, SoFarFinite, UptoFinite DEF Ledger
    <3>3. Cardinality(SoFar(t, n)') = c
      BY <2>3
    <3> HIDE DEF c, e
    <3>4. used'[n] - served[n] - lost[n] - c = used[n] - served[n] - lost[n] - e
      BY <3>1, <3>2
    <3>5. used'[n] - served[n] - lost[n] - c
              = used[n] - served[n] - lost[n] - Cardinality(SoFar(t, n))
      BY <3>4 DEF e
    <3> QED
      BY <1>2, <3>3, <3>5, Zenon
  <2> QED
    BY <1>1, <1>2, <1>4, <1>5, <2>2, <2>4, LedgerMoves
<1>8. CASE ~d.allowed
  <2>1. used' = used /\ served' = served /\ lost' = lost
    BY <1>2, <1>8
  <2>2. \A n \in Names : SoFar(t, n)' = SoFar(t, n)
    BY <1>6, <1>8 DEF SoFar
  <2>3. \A n \in Names : used'[n] - served'[n] - lost'[n] - Cardinality(SoFar(t, n)')
                             = used[n] - served[n] - lost[n] - Cardinality(SoFar(t, n))
    BY <2>1, <2>2, Zenon
  <2> QED
    BY <1>1, <1>4, <1>5, <2>1, <2>3, LedgerMoves
<1> QED
  BY <1>7, <1>8

\* A check that is allowed by a rule goes on to the next, with what it has counted.
LEMMA LedgerGoesOn ==
    ASSUME LedgerInv, NEW t \in Tasks, pc[t] \in Holding, at[t] # Len(list[t]),
           pc' = [pc EXCEPT ![t] = "resolve"], at' = [at EXCEPT ![t] = @ + 1],
           outcome' = [outcome EXCEPT ![t] = NoOutcome], UNCHANGED <<list, served, lost>>,
           used' \in Ledger,
           \A n \in Names : used'[n] = used[n] + Cardinality(Upto(t, at[t], n))
                                               - Cardinality(SoFar(t, n))
    PROVE  LedgerInv'
<1>1. /\ Positions /\ used \in Ledger /\ served \in Ledger /\ lost \in Ledger
      /\ list[t] \in Seq(Names) /\ at[t] \in Nat \ {0} /\ at[t] \in DOMAIN list[t]
  BY DEF LedgerInv, Positions
<1>2. /\ at[t] + 1 \in DOMAIN list[t] /\ at[t] + 1 \in Nat \ {0} /\ "resolve" \in Places
      /\ list' = [list EXCEPT ![t] = list[t]] /\ at' = [at EXCEPT ![t] = at[t] + 1]
  BY <1>1 DEF Positions, Places
<1>3. Positions'
  BY <1>1, <1>2, PlacesKept, ZenonT(60)
<1>4. \A u \in Tasks \ {t} : Counted(u)' = Counted(u) /\ list'[u] = list[u]
  BY <1>1, <1>2 DEF Positions, Counted
<1>5. pc'[t] = "resolve" /\ list'[t] = list[t] /\ at'[t] - 1 = at[t]
  BY <1>1, <1>2 DEF Positions
<1>6. \A n \in Names : SoFar(t, n)' = Upto(t, at[t], n)
  BY <1>5 DEF SoFar, Upto
<1>7. ASSUME NEW n \in Names
      PROVE  used'[n] - served'[n] - lost'[n] - Cardinality(SoFar(t, n)')
                 = used[n] - served[n] - lost[n] - Cardinality(SoFar(t, n))
  <2> DEFINE c == Cardinality(Upto(t, at[t], n))
             e == Cardinality(SoFar(t, n))
  <2>1. used'[n] = used[n] + c - e
    OBVIOUS
  <2>2. used[n] \in Nat /\ served[n] \in Nat /\ lost[n] \in Nat /\ c \in Nat /\ e \in Nat
    BY <1>1, SoFarFinite, UptoFinite DEF Ledger
  <2>3. Cardinality(SoFar(t, n)') = c
    BY <1>6
  <2> HIDE DEF c, e
  <2>4. used'[n] - served[n] - lost[n] - c = used[n] - served[n] - lost[n] - e
    BY <2>1, <2>2
  <2>5. used'[n] - served[n] - lost[n] - c
            = used[n] - served[n] - lost[n] - Cardinality(SoFar(t, n))
    BY <2>4 DEF e
  <2> QED
    BY <2>3, <2>5, Zenon
<1> QED
  BY <1>1, <1>3, <1>4, <1>7, LedgerMoves


\* A check that ends with what it has been counted for, lost.
LEMMA LedgerLost ==
    ASSUME LedgerInv, NEW t \in Tasks, NEW answer,
           pc' = [pc EXCEPT ![t] = "idle"], End(t, answer), UNCHANGED <<used, served>>,
           lost' = Booked(lost, SubSeq(list[t], 1, Counted(t)))
    PROVE  LedgerInv'
<1>1. /\ Positions /\ used \in Ledger /\ list[t] \in Seq(Names) /\ at[t] \in Nat \ {0}
      /\ (at[t] = 1 \/ at[t] \in DOMAIN list[t])
      /\ (pc[t] = "executed" => at[t] \in DOMAIN list[t])
  BY DEF LedgerInv, Positions, Holding
<1>2. Counted(t) \in 0 .. Len(list[t])
  BY <1>1 DEF Counted
<1>3. ASSUME NEW n \in Names
      PROVE  used'[n] = used[n] + Cardinality(Upto(t, Counted(t), n)) - Cardinality(SoFar(t, n))
  <2> DEFINE c == Cardinality(SoFar(t, n))
  <2>1. Upto(t, Counted(t), n) = SoFar(t, n) /\ c \in Nat
    BY <1>1, SoFarFinite
  <2>2. used[n] \in Nat /\ used'[n] = used[n]
    BY <1>1 DEF Ledger
  <2> HIDE DEF c
  <2>3. used'[n] = used[n] + c - c
    BY <2>1, <2>2
  <2> QED
    BY <2>1, <2>3 DEF c
<1> QED
  BY <1>1, <1>2, <1>3, LedgerEnds

\* The turn that learns of a decision.
LEMMA LedgerContinue ==
    ASSUME LedgerInv, NEW t \in Tasks, NEW from, NEW d, pc[t] = from, Continue(t, from, d),
           \/ /\ from = "decide"
              /\ used' = IF d.allowed THEN Booked(used, <<Name(t)>>) ELSE used
           \/ from = "executed" /\ used' = used /\ d = outcome[t]
    PROVE  LedgerInv'
<1>1. /\ Positions /\ used \in Ledger /\ list[t] \in Seq(Names) /\ at[t] \in Nat \ {0}
      /\ at[t] \in DOMAIN list[t] /\ pc[t] \in Holding
  BY DEF LedgerInv, Positions, Holding
<1>2. ASSUME d.allowed
      PROVE  /\ used' \in Ledger
             /\ \A n \in Names : used'[n] = used[n] + Cardinality(Upto(t, at[t], n))
                                                    - Cardinality(SoFar(t, n))
  <2>1. CASE from = "decide"
    <3>1. used' = Booked(used, <<Name(t)>>)
      BY <1>2, <2>1
    <3> QED
      BY <2>1, <3>1, NameBooked
  <2>2. CASE from = "executed"
    <3>1. used' = used /\ d = outcome[t]
      BY <2>2
    <3>2. \A n \in Names : SoFar(t, n) = Upto(t, at[t], n)
      BY <1>2, <2>2, <3>1 DEF SoFar, Upto
    <3>3. ASSUME NEW n \in Names
          PROVE  used'[n] = used[n] + Cardinality(Upto(t, at[t], n)) - Cardinality(SoFar(t, n))
      <4> DEFINE c == Cardinality(SoFar(t, n))
      <4>1. Upto(t, at[t], n) = SoFar(t, n) /\ c \in Nat
        BY <1>1, <3>2, SoFarFinite
      <4>2. used[n] \in Nat /\ used'[n] = used[n]
        BY <1>1, <3>1 DEF Ledger
      <4> HIDE DEF c
      <4>3. used'[n] = used[n] + c - c
        BY <4>1, <4>2
      <4> QED
        BY <4>1, <4>3 DEF c
    <3> QED
      BY <1>1, <3>1, <3>3
  <2> QED
    BY <2>1, <2>2
<1>3. CASE /\ d.allowed /\ at[t] # Len(list[t])
           /\ Run(t, from, "resolve")
           /\ at' = [at EXCEPT ![t] = @ + 1]
           /\ outcome' = [outcome EXCEPT ![t] = NoOutcome]
           /\ UNCHANGED <<list, rule, now, reply, served, lost>>
  <2>1. pc' = [pc EXCEPT ![t] = "resolve"] /\ UNCHANGED <<list, served, lost>>
    BY <1>3 DEF Run, Goto
  <2> QED
    BY <1>1, <1>2, <1>3, <2>1, LedgerGoesOn
<1>4. ASSUME NEW answer, d.allowed, at[t] = Len(list[t]), Goto(t, from, "idle"), End(t, answer),
             served' = Booked(served, list[t]), lost' = lost
      PROVE  LedgerInv'
  <2>1. SubSeq(list[t], 1, at[t]) = list[t] /\ at[t] \in 0 .. Len(list[t])
    BY <1>1, <1>4, SubSeqFull
  <2>2. pc' = [pc EXCEPT ![t] = "idle"] /\ served' = Booked(served, SubSeq(list[t], 1, at[t]))
    BY <1>4, <2>1 DEF Goto
  <2> QED
    BY <1>2, <1>4, <2>1, <2>2, LedgerEnds
<1>5. ASSUME NEW answer, ~d.allowed, Goto(t, from, "idle"), End(t, answer),
             lost' = Booked(lost, SubSeq(list[t], 1, at[t] - 1)), served' = served
      PROVE  LedgerInv'
  <2>1. Counted(t) = at[t] - 1 /\ used' = used
    BY <1>5 DEF Counted
  <2>2. pc' = [pc EXCEPT ![t] = "idle"] /\ lost' = Booked(lost, SubSeq(list[t], 1, Counted(t)))
    BY <1>5, <2>1 DEF Goto
  <2> QED
    BY <1>5, <2>1, <2>2, LedgerLost
<1> QED
  BY <1>3, <1>4, <1>5 DEF Continue

LEMMA LedgerStep ==
    ASSUME LedgerInv, NEW t \in Tasks, Check(t) \/ CallDecorated(t) \/ Proceed(t) \/ Cancel(t)
    PROVE  LedgerInv'
<1> USE DEF Places
<1>1. CASE Check(t) \/ CallDecorated(t)
  <2>1. PICK to \in {"resolve", "create"}, names \in Lists \cup {<<LazyName>>} :
            Goto(t, "idle", to) /\ StartOf(t, names)
    BY <1>1 DEF Check, CallDecorated, Run
  <2>2. names \in Seq(Names)
    <3>1. LazyName \in Names /\ Lists \subseteq Seq(Names)
      BY AsyncAssumption
    <3>2. names \in Lists \/ names = <<LazyName>>
      BY <2>1
    <3>3. <<LazyName>> \in Seq(Names)
      BY <3>1
    <3> QED
      BY <3>1, <3>2, <3>3, Zenon
  <2>3. list' = [list EXCEPT ![t] = names] /\ UNCHANGED <<at, outcome, ledgerVars>>
    BY <2>1 DEF StartOf
  <2> QED
    BY <2>1, <2>2, <2>3, LedgerElsewhere DEF Holding
<1>2. CASE Create(t)
  BY <1>2, LedgerElsewhere DEF Create, Run, callVars, Holding
<1>3. CASE SendRule(t)
  BY <1>3, LedgerElsewhere DEF SendRule, Await, callVars, historyVars, Holding
<1>4. CASE Land(t)
  BY <1>4, LedgerElsewhere DEF Land, Remote, callVars, Holding
<1>5. CASE MarkCreated(t)
  BY <1>5, LedgerElsewhere DEF MarkCreated, Run, callVars, historyVars, Holding
<1>6. CASE Resolve(t)
  BY <1>6, LedgerElsewhere DEF Resolve, Run, historyVars, Holding
<1>7. CASE Ask(t)
  BY <1>7, LedgerElsewhere DEF Ask, Await, callVars, historyVars, Holding
<1>8. CASE Lookup(t)
  BY <1>8, LedgerElsewhere DEF Lookup, Remote, historyVars, Holding
<1>9. CASE Found(t)
  BY <1>9, LedgerElsewhere DEF Found, Run, callVars, historyVars, Holding
<1>10. CASE Unknown(t) \/ EmptyList(t)
  <2>1. PICK from \in {"resolve", "answered"} : Raise(t, from)
    BY <1>10 DEF Unknown, EmptyList
  <2>2. Counted(t) = at[t] - 1
    BY <2>1 DEF Raise, Goto, Counted
  <2>3. PICK answer : End(t, answer)
    BY <2>1 DEF Raise
  <2>4. /\ pc' = [pc EXCEPT ![t] = "idle"] /\ UNCHANGED <<used, served>>
        /\ lost' = Booked(lost, SubSeq(list[t], 1, Counted(t)))
    BY <2>1, <2>2 DEF Raise, Goto
  <2> QED
    BY <2>3, <2>4, LedgerLost
<1>11. CASE Count(t)
  <2> DEFINE d == Decided(t, clock)
  <2>1. /\ pc[t] = "decide" /\ Continue(t, "decide", d)
        /\ used' = IF d.allowed THEN Booked(used, <<Name(t)>>) ELSE used
    BY <1>11 DEF Count, Booking
  <2> HIDE DEF d
  <2> QED
    BY <2>1, LedgerContinue
<1>12. CASE Send(t)
  BY <1>12, LedgerElsewhere DEF Send, Await, historyVars, Holding
<1>13. CASE Serve(t)
  BY <1>13, LedgerServe
<1>14. CASE Receive(t)
  BY <1>14, LedgerContinue DEF Receive
<1>15. CASE Cancel(t)
  <2>1. PICK answer : End(t, answer)
    BY <1>15 DEF Cancel
  <2>2. /\ pc' = [pc EXCEPT ![t] = "idle"] /\ UNCHANGED <<used, served>>
        /\ lost' = Booked(lost, SubSeq(list[t], 1, Counted(t)))
    BY <1>15 DEF Cancel, Counted
  <2> QED
    BY <2>1, <2>2, LedgerLost
<1> QED
  BY <1>1, <1>2, <1>3, <1>4, <1>5, <1>6, <1>7, <1>8, <1>9, <1>10, <1>11, <1>12, <1>13,
     <1>14, <1>15 DEF Proceed

LEMMA LedgerNext == ASSUME LedgerInv, [Next]_vars PROVE LedgerInv'
<1>1. CASE \E t \in Tasks : Check(t) \/ CallDecorated(t) \/ Proceed(t) \/ Cancel(t)
  BY <1>1, LedgerStep
<1>2. CASE AddRule \/ RemoveRule \/ Tick \/ StepBack \/ Finished \/ UNCHANGED vars
  <2>1. UNCHANGED <<pc, list, at, outcome, used, served, lost>>
    BY <1>2 DEF AddRule, RemoveRule, Change, Tick, StepBack, Finished, vars, callVars, historyVars, ledgerVars
  <2>2. \A n : InProgress(n)' = InProgress(n)
    BY <2>1 DEF InProgress, SoFar
  <2> QED
    BY <2>1, <2>2 DEF LedgerInv, LedgerBalances, Positions
<1> QED
  BY <1>1, <1>2 DEF Next

LEMMA LedgerInit == ASSUME Init PROVE LedgerInv
<1>1. ASSUME NEW n \in Names
      PROVE  used[n] = 0 /\ served[n] = 0 /\ lost[n] = 0 /\ Cardinality(InProgress(n)) = 0
  <2>1. InProgress(n) = {}
    BY DEF Init, InProgress, SoFar
  <2> QED
    BY <2>1, FS_EmptySet DEF Init
<1>2. LedgerBalances
  BY <1>1 DEF LedgerBalances
<1>3. Positions
  BY DEF Init, Positions, Places, Holding
<1> QED
  BY <1>2, <1>3 DEF Init, LedgerInv, Ledger

\* Whatever tasks, lists, changes of the table and cancellations there are, every
\* admission that the storage counted is paid for once.
THEOREM LedgerBalancesHolds == Spec => []LedgerBalances
<1>1. Init => LedgerInv
  BY LedgerInit
<1>2. LedgerInv /\ [Next]_vars => LedgerInv'
  BY LedgerNext
<1>3. LedgerInv => LedgerBalances
  BY DEF LedgerInv
<1> QED
  BY <1>1, <1>2, <1>3, PTL DEF Spec


-----------------------------------------------------------------------------
(***************************************************************************)
(* RuleParameters: the validator of LimitRule and the algorithm classes    *)
(* agree, for all combinations and all values of the fields.               *)
(***************************************************************************)
\* The interval of a whole number of ticks is positive.
LEMMA WholeInterval ==
    ASSUME NEW window \in Positive, NEW capacity \in Positive,
           capacity <= window, window % capacity = 0
    PROVE  window \div capacity \in Positive
<1>1. /\ window \div capacity \in Int
      /\ window = capacity * (window \div capacity) + (window % capacity)
  BY DEF Positive
<1>2. ASSUME window \div capacity <= 0
      PROVE  FALSE
  <2>1. capacity * (window \div capacity) <= 0
    BY <1>1, <1>2 DEF Positive
  <2> QED
    BY <1>1, <2>1 DEF Positive
<1> QED
  BY <1>1, <1>2 DEF Positive

\* A rule that was constructed never makes check raise for its parameters.
THEOREM AcceptedNeverRaises ==
    ASSUME NEW fields \in Fields, Accepted(fields)
    PROVE  ~Raises(fields)
  BY DEF Accepted, Raises, Given, CapacityOf, Fields, IsWindow, OwnInterval, Unset, Algorithms

\* And what check derives from it is what the storage operations are modelled and
\* proved about: positive limits, windows, capacities and intervals.
THEOREM ParametersAreRules ==
    ASSUME NEW fields \in Fields, Accepted(fields), Ticked(fields)
    PROVE  Parameters(fields) \in LimitRule
<1>1. CASE IsWindow(fields)
  BY <1>1 DEF Accepted, Parameters, IsWindow, Given, Unset, Fields, Algorithms, LimitRule, WindowRule, Positive
<1>2. CASE ~IsWindow(fields)
  <2>1. CapacityOf(fields) \in Positive
    BY <1>2 DEF Accepted, CapacityOf, Given, Unset, Fields, Algorithms, Positive
  <2>2. IntervalOf(fields) \in Positive
    <3>1. CASE Given(OwnInterval(fields))
      BY <3>1 DEF IntervalOf, OwnInterval, Given, Unset, Fields, Algorithms, Positive
    <3>2. CASE ~Given(OwnInterval(fields))
      <4>1. fields.window \in Positive
        BY <1>2, <3>2 DEF Accepted, Given, Unset, Fields, Algorithms, Positive
      <4>2. CapacityOf(fields) <= fields.window /\ fields.window % CapacityOf(fields) = 0
        BY <1>2, <3>2 DEF Ticked
      <4> QED
        BY <2>1, <3>2, <4>1, <4>2, WholeInterval DEF IntervalOf
    <3> QED
      BY <3>1, <3>2
  <2>3. fields.algorithm \in {"token_bucket", "leaky_bucket", "gcra"}
    BY <1>2 DEF IsWindow, Fields, Algorithms
  <2> QED
    BY <1>2, <2>1, <2>2, <2>3 DEF Parameters, LimitRule, BucketRule
<1> QED
  BY <1>1, <1>2

-----------------------------------------------------------------------------
(***************************************************************************)
(* The promise of a reply.  A check that waits for no server has the loop  *)
(* from its first step to its reply, and tasks that are not in the loop    *)
(* owe nothing: what the results of the rules it has passed told is still  *)
(* there when the strictest of them is returned.                           *)
(***************************************************************************)

LEMMA StrictestFound ==
    ASSUME NEW found \in Seq([remaining : Nat, reset_at : Int]), found # <<>>
    PROVE  /\ Strictest(found) \in [remaining : Nat, reset_at : Int]
           /\ \A i \in 1 .. Len(found) : Strictest(found).remaining <= found[i].remaining
<1>1. PICK first : first = Strictest(found)
  OBVIOUS
<1>2. PICK among : among = {found[i] : i \in DOMAIN found}
  OBVIOUS
<1>3. among = Range(found)
  BY <1>2 DEF Range
<1>4. first = CHOOSE r \in among : \A s \in among :
                  \/ r.remaining < s.remaining
                  \/ r.remaining = s.remaining /\ r.reset_at <= s.reset_at
  BY <1>1, <1>3, Zenon DEF Strictest
<1>5. /\ first \in [remaining : Nat, reset_at : Int]
      /\ \A i \in 1 .. Len(found) : first.remaining <= found[i].remaining
  BY <1>2, <1>4, FirstFound, ZenonT(40)
<1> QED
  BY <1>1, <1>5

\* The table as the storage sees it: the parameters of its rules.
Derived(r) == [n \in Names |-> Parameters(r[n])]

LEMMA DerivedRule ==
    ASSUME NEW r, NEW n \in Names, r[n] \in Rules
    PROVE  /\ r[n] # NoRule /\ Derived(r)[n] = Parameters(r[n])
           /\ Derived(r)[n] \in LimitRule /\ Derived(r)[n].algorithm = r[n].algorithm
<1>1. r[n] \in Fields /\ Accepted(r[n]) /\ Ticked(r[n]) /\ r[n] # NoRule
  BY AsyncAssumption
<1>2. Parameters(r[n]) \in LimitRule
  BY <1>1, ParametersAreRules
<1>3. Parameters(r[n]).algorithm = r[n].algorithm
  BY DEF Parameters
<1> QED
  BY <1>1, <1>2, <1>3 DEF Derived

\* One more name of the list in an attempt.
TriedName(r, acc, n, stamp) ==
    IF ~acc.allowed \/ r[n] = NoRule THEN [acc EXCEPT !.allowed = FALSE]
    ELSE LET o == AsyncDecide(r[n], acc.db[r[n].algorithm][n], stamp)
         IN  [allowed |-> o.allowed, db |-> [acc.db EXCEPT ![r[n].algorithm][n] = o.entry]]

LEMMA TriedSame ==
    ASSUME NEW r, NEW n \in Names, r[n] \in Rules, NEW acc \in Attempts(Names), NEW stamp
    PROVE  TriedName(r, acc, n, stamp) = Tried(Derived(r)[n], acc, n, stamp)
<1>1. PICK under \in LimitRule : under = Derived(r)[n]
  BY DerivedRule
<1>2. under = Parameters(r[n]) /\ under.algorithm = r[n].algorithm /\ r[n] # NoRule
  BY <1>1, DerivedRule
<1>3. CASE acc.allowed
  BY <1>1, <1>2, <1>3 DEF TriedName, Tried, AsyncDecide
<1>4. CASE ~acc.allowed
  <2>1. [acc EXCEPT !.allowed = FALSE] = acc
    <3>1. PICK D : D = Dictionaries(Names)
      OBVIOUS
    <3>2. acc \in [allowed : BOOLEAN, db : D]
      BY <3>1 DEF Attempts
    <3> QED
      BY <1>4, <3>2
  <2> QED
    BY <1>4, <2>1 DEF TriedName, Tried
<1> QED
  BY <1>3, <1>4 DEF Attempts

\* The fold that Attempt is.
FoldsNames(g, r, names, d, stamp) ==
    g = [s \in SUBSET (DOMAIN names) |->
            IF s = {} THEN [allowed |-> TRUE, db |-> d]
            ELSE TriedName(r, g[s \ {Max(s)}], names[Max(s)], stamp)]

LEMMA AttemptFolds ==
    ASSUME NEW names, NEW r, NEW d, NEW stamp
    PROVE  Attempt(names, r, d, stamp) = (CHOOSE g : FoldsNames(g, r, names, d, stamp))[DOMAIN names]
  BY Zenon DEF Attempt, FoldLeft, MapThenFoldSet, FoldsNames, TriedName

LEMMA AttemptTries ==
    ASSUME NEW names \in Seq(Names), NEW r, \A i \in 1 .. Len(names) : r[names[i]] \in Rules,
           NEW d \in Dictionaries(Names), NEW stamp \in Nat
    PROVE  Tries(Len(names), names, [i \in 1 .. Len(names) |-> Derived(r)[names[i]]], d, stamp,
                 Attempt(names, r, d, stamp))
<1>0. PICK n \in Nat : n = Len(names) /\ DOMAIN names = 1 .. n /\ names \in [1 .. n -> Names]
  OBVIOUS
<1>1. PICK table : table = [i \in 1 .. n |-> Derived(r)[names[i]]]
  OBVIOUS
<1>2. \A i \in 1 .. n : /\ names[i] \in Names /\ r[names[i]] \in Rules
                        /\ table[i] = Derived(r)[names[i]] /\ table[i] \in LimitRule
  BY <1>0, <1>1, DerivedRule
<1> DEFINE F == [i \in 1 .. n |-> [acc \in Attempts(Names) |-> TriedName(r, acc, names[i], stamp)]]
           base == [allowed |-> TRUE, db |-> d]
<1>3. ASSUME NEW i \in 1 .. n, NEW acc \in Attempts(Names)
      PROVE  /\ TriedName(r, acc, names[i], stamp) = Tried(table[i], acc, names[i], stamp)
             /\ TriedName(r, acc, names[i], stamp) \in Attempts(Names)
  <2>1. PICK rule1 \in LimitRule, key \in Names : rule1 = table[i] /\ key = names[i]
    BY <1>2
  <2>2. Tried(rule1, acc, key, stamp) \in Attempts(Names)
    BY TriedOne
  <2>3. TriedName(r, acc, key, stamp) = Tried(rule1, acc, key, stamp)
    BY <1>2, <2>1, TriedSame
  <2> QED
    BY <2>1, <2>2, <2>3
<1>4. F \in [1 .. n -> [Attempts(Names) -> Attempts(Names)]]
  BY <1>3
<1>5. base \in Attempts(Names)
  BY DEF Attempts
<1>6. \A i \in 1 .. n, acc \in Attempts(Names) : F[i][acc] = TriedName(r, acc, names[i], stamp)
  OBVIOUS
<1> HIDE DEF F
<1>7. PICK g \in [SUBSET (1 .. n) -> Attempts(Names)] : InTurn(g, n, base, F)
  <2>1. CanFold(Attempts(Names), n, base, F)
    BY <1>4, <1>5, FoldExists
  <2> QED
    BY <2>1 DEF CanFold
<1>8. ASSUME NEW s \in SUBSET (1 .. n)
      PROVE  g[s] = IF s = {} THEN base ELSE TriedName(r, g[s \ {Max(s)}], names[Max(s)], stamp)
  <2>1. CASE s = {}
    BY <1>7, <2>1 DEF InTurn
  <2>2. CASE s # {}
    <3>1. PICK max \in 1 .. n : max = Max(s)
      BY <2>2, MaxOfPositions
    <3>2. PICK acc \in Attempts(Names) : acc = g[s \ {max}]
      <4>1. s \ {max} \in SUBSET (1 .. n)
        OBVIOUS
      <4> QED
        BY <1>7, <4>1
    <3>3. g[s] = F[max][acc]
      BY <1>7, <2>2, <3>1, <3>2 DEF InTurn
    <3>4. g[s] = TriedName(r, g[s \ {max}], names[max], stamp)
      BY <1>6, <3>2, <3>3
    <3> QED
      BY <2>2, <3>1, <3>4, Zenon
  <2> QED
    BY <2>1, <2>2
<1>9. FoldsNames(g, r, names, d, stamp)
  <2>1. DOMAIN names = 1 .. n /\ g = [s \in SUBSET (1 .. n) |-> g[s]]
    BY <1>0, <1>7
  <2> QED
    BY <1>8, <2>1, Zenon DEF FoldsNames
<1>10. PICK h : h = (CHOOSE f : FoldsNames(f, r, names, d, stamp)) /\ FoldsNames(h, r, names, d, stamp)
  BY <1>9, Zenon
<1>11. \A s \in SUBSET (1 .. n) :
           h[s] = IF s = {} THEN base ELSE TriedName(r, h[s \ {Max(s)}], names[Max(s)], stamp)
  BY <1>0, <1>10, Zenon DEF FoldsNames
<1> DEFINE w == [i \in 0 .. n |-> h[1 .. i]]
           typed == {i \in Nat : i <= n => w[i] \in Attempts(Names)}
<1>12. w[0] = base
  <2>1. 1 .. 0 = {} /\ {} \in SUBSET (1 .. n)
    OBVIOUS
  <2>2. w[0] = h[{}]
    BY <2>1
  <2> QED
    BY <1>11, <2>1, <2>2
<1>13. ASSUME NEW i \in 0 .. n - 1
       PROVE  w[i + 1] = TriedName(r, w[i], names[i + 1], stamp)
  <2>1. i + 1 \in 1 .. n /\ i + 1 \in 0 .. n /\ i \in 0 .. n
    OBVIOUS
  <2>2. /\ 1 .. i + 1 \in SUBSET (1 .. n) /\ 1 .. i + 1 # {}
        /\ Max(1 .. i + 1) = i + 1
        /\ (1 .. i + 1) \ {Max(1 .. i + 1)} = 1 .. i
    BY LongerPrefix
  <2>3. PICK s \in SUBSET (1 .. n) : s = 1 .. i + 1 /\ s # {} /\ Max(s) = i + 1 /\ s \ {Max(s)} = 1 .. i
    BY <2>2
  <2>4. h[s] = TriedName(r, h[s \ {Max(s)}], names[Max(s)], stamp)
    BY <1>11, <2>3
  <2>5. h[s] = TriedName(r, h[1 .. i], names[i + 1], stamp)
    BY <2>3, <2>4
  <2>6. w[i + 1] = h[s] /\ w[i] = h[1 .. i]
    BY <2>1, <2>3
  <2> QED
    BY <2>5, <2>6
<1>14. w[n] = h[DOMAIN names]
  BY <1>0
<1> HIDE DEF w, base
<1>15. ASSUME NEW i \in 0 .. n - 1, w[i] \in Attempts(Names)
       PROVE  w[i + 1] = Tried(table[i + 1], w[i], names[i + 1], stamp) /\ w[i + 1] \in Attempts(Names)
  <2>1. i + 1 \in 1 .. n
    OBVIOUS
  <2> QED
    BY <1>3, <1>13, <1>15, <2>1
<1>16. typed = Nat
  <2>1. 0 \in typed
    BY <1>5, <1>12
  <2>2. ASSUME NEW i \in typed
        PROVE  i + 1 \in typed
    <3>1. ASSUME i + 1 <= n
          PROVE  w[i + 1] \in Attempts(Names)
      <4>1. i \in 0 .. n - 1 /\ w[i] \in Attempts(Names)
        BY <3>1
      <4> QED
        BY <1>15, <4>1
    <3> QED
      BY <3>1
  <2>3. typed \in SUBSET Nat
    OBVIOUS
  <2> HIDE DEF typed
  <2> QED
    BY <2>1, <2>2, <2>3, ByInduction
<1>17. TriesInTurn(w, n, names, table, d, stamp)
  <2>1. w[0] = [allowed |-> TRUE, db |-> d]
    BY <1>12 DEF base
  <2>2. ASSUME NEW i \in 0 .. n - 1
        PROVE  w[i + 1] = Tried(table[i + 1], w[i], names[i + 1], stamp)
    <3>1. w[i] \in Attempts(Names)
      BY <1>16
    <3> QED
      BY <1>15, <3>1
  <2> QED
    BY <2>1, <2>2 DEF TriesInTurn
<1>18. Tries(n, names, table, d, stamp, h[DOMAIN names])
  BY <1>14, <1>17 DEF Tries
<1>19. Attempt(names, r, d, stamp) = h[DOMAIN names]
  BY <1>10, AttemptFolds
<1> QED
  BY <1>0, <1>1, <1>18, <1>19

LEMMA AttemptType ==
    ASSUME NEW names \in Seq(Names), NEW r, \A i \in 1 .. Len(names) : r[names[i]] \in Rules,
           NEW d \in Dictionaries(Names), NEW stamp \in Nat
    PROVE  Attempt(names, r, d, stamp) \in Attempts(Names)
<1>0. PICK n \in Nat : n = Len(names)
  OBVIOUS
<1>1. PICK table : n = Len(names) /\ table = [i \in 1 .. n |-> Derived(r)[names[i]]]
  BY <1>0
<1>2. table \in [1 .. n -> LimitRule] /\ names \in [1 .. n -> Names]
  BY <1>1, DerivedRule
<1>3. PICK result : result = Attempt(names, r, d, stamp)
  OBVIOUS
<1>4. Tries(n, names, table, d, stamp, result)
  BY <1>1, <1>3, AttemptTries
<1>5. PICK w : TriesInTurn(w, n, names, table, d, stamp) /\ result = w[n]
  BY <1>4 DEF Tries
<1>6. \A i \in 0 .. n : w[i] \in Attempts(Names)
  BY <1>2, <1>5, TriesType
<1> QED
  BY <1>1, <1>3, <1>5, <1>6

\* The attempts that RemainingIsPromise makes.
Again(g, names, r, d, stamp) ==
    g = [k \in Nat |-> Attempt(names, r, IF k = 0 THEN d ELSE g[k - 1].db, stamp)]

AllowsAgain(m, names, r, d, stamp) ==
    \A k \in 0 .. m - 1 : (CHOOSE g : Again(g, names, r, d, stamp))[k].allowed

LEMMA PromiseKept ==
    ASSUME NEW names \in Seq(Names), NEW r, NEW d \in Dictionaries(Names), NEW stamp \in Nat,
           \A i, j \in 1 .. Len(names) : names[i] = names[j] => i = j,
           \A i \in 1 .. Len(names) : r[names[i]] \in Rules, NEW m \in Nat,
           AllHaveLeft(Len(names), names, [i \in 1 .. Len(names) |-> Derived(r)[names[i]]], d, stamp, m)
    PROVE  AllowsAgain(m, names, r, d, stamp)
<1>0. PICK n \in Nat : n = Len(names)
  OBVIOUS
<1>1. PICK table : n = Len(names) /\ table = [i \in 1 .. n |-> Derived(r)[names[i]]]
  BY <1>0
<1>2. /\ names \in [1 .. n -> Names] /\ table \in [1 .. n -> LimitRule]
      /\ \A i, j \in 1 .. n : names[i] = names[j] => i = j
  BY <1>1, DerivedRule
<1>3. AllHaveLeft(n, names, table, d, stamp, m)
  BY <1>1
<1> DEFINE A == [e \in Dictionaries(Names) |-> Attempt(names, r, e, stamp)]
<1>4. \A e \in Dictionaries(Names) :
          /\ Attempt(names, r, e, stamp) \in Attempts(Names)
          /\ Tries(n, names, table, e, stamp, Attempt(names, r, e, stamp))
  BY <1>1, AttemptType, AttemptTries
<1>5. A \in [Dictionaries(Names) -> Attempts(Names)]
  BY <1>4
<1>6. PICK f \in [Nat -> Attempts(Names)] : InRow(f, d, A)
  <2> HIDE DEF A
  <2>1. CanRepeat(Names, d, A)
    BY <1>1, <1>5, RepetitionExists
  <2> QED
    BY <2>1 DEF CanRepeat
<1>7. ASSUME NEW k \in Nat
      PROVE  f[k] = Attempt(names, r, IF k = 0 THEN d ELSE f[k - 1].db, stamp)
  <2>1. (IF k = 0 THEN d ELSE f[k - 1].db) \in Dictionaries(Names)
    <3>1. CASE k = 0
      BY <1>1, <3>1
    <3>2. CASE k # 0
      <4>1. f[k - 1] \in Attempts(Names)
        BY <1>6, <3>2
      <4> QED
        BY <3>2, <4>1 DEF Attempts
    <3> QED
      BY <3>1, <3>2
  <2>2. PICK e \in Dictionaries(Names) : e = IF k = 0 THEN d ELSE f[k - 1].db
    BY <2>1
  <2>3. f[k] = A[e]
    BY <1>6, <2>2 DEF InRow
  <2> QED
    BY <2>2, <2>3
<1>8. Again(f, names, r, d, stamp)
  <2>1. f = [k \in Nat |-> f[k]]
    BY <1>6
  <2> QED
    BY <1>7, <2>1, Zenon DEF Again
<1>9. PICK again : again = (CHOOSE g : Again(g, names, r, d, stamp)) /\ Again(again, names, r, d, stamp)
  BY <1>8, Zenon
<1>10. \A k \in Nat : again[k] = Attempt(names, r, IF k = 0 THEN d ELSE again[k - 1].db, stamp)
  <2>1. again = [k \in Nat |-> Attempt(names, r, IF k = 0 THEN d ELSE again[k - 1].db, stamp)]
    BY <1>9, Zenon DEF Again
  <2>2. PICK self :
            /\ self = again
            /\ again = [k \in Nat |-> Attempt(names, r, IF k = 0 THEN d ELSE self[k - 1].db, stamp)]
    BY <2>1
  <2> QED
    BY <2>2, Zenon
<1>11. Tries(n, names, table, d, stamp, again[0])
  <2>1. again[0] = Attempt(names, r, d, stamp)
    <3>1. PICK zero \in Nat : zero = 0
      OBVIOUS
    <3>2. PICK e : e = IF zero = 0 THEN d ELSE again[zero - 1].db
      OBVIOUS
    <3>3. again[zero] = Attempt(names, r, e, stamp)
      BY <1>10, <3>2
    <3>4. e = d
      BY <3>1, <3>2
    <3> QED
      BY <3>1, <3>3, <3>4, Zenon
  <2> QED
    BY <1>1, <1>4, <2>1
<1>12. ASSUME NEW k \in Nat, again[k].db \in Dictionaries(Names)
       PROVE  Tries(n, names, table, again[k].db, stamp, again[k + 1])
  <2>1. k + 1 \in Nat /\ k + 1 # 0 /\ (k + 1) - 1 = k
    OBVIOUS
  <2>2. again[k + 1] = Attempt(names, r, again[k].db, stamp)
    <3>1. PICK j \in Nat : j = k + 1 /\ j # 0 /\ j - 1 = k
      BY <2>1
    <3>2. again[j] = Attempt(names, r, IF j = 0 THEN d ELSE again[j - 1].db, stamp)
      BY <1>10
    <3>3. (IF j = 0 THEN d ELSE again[j - 1].db) = again[k].db
      BY <3>1
    <3> QED
      BY <3>1, <3>2, <3>3
  <2> QED
    BY <1>4, <1>12, <2>2
<1>13. \A k \in 0 .. m - 1 : again[k].allowed
  BY <1>1, <1>2, <1>3, <1>11, <1>12, TriesRepeated
<1> QED
  BY <1>9, <1>13 DEF AllowsAgain

Distinct(names) == \A i, j \in 1 .. Len(names) : names[i] = names[j] => i = j

\* No list names a rule twice.
NoRepeats == \A names \in Lists : Distinct(names)

Kept == [remaining : Nat, reset_at : Int]

\* The rules of the first n names are in the table, and have what their results tell.
Owed(r, d, stamp, names, found, n) ==
    /\ \A i \in 1 .. n : r[names[i]] \in Rules
    /\ Owing(Derived(r), d, stamp, names, found, n)

\* They have it at every stamp at which, or after which, no decision on them was made.
AskedBy(a, names, n, stamp) == \A i \in 1 .. n : a[names[i]].stamp <= stamp

OwedThen(r, d, a, names, found, n) ==
    \A stamp \in Nat : AskedBy(a, names, n, stamp) => Owed(r, d, stamp, names, found, n)

\* A check has the loop from its beginning to its reply, so that what it was told of
\* the rules that it has passed is still true.
TaskPromise(t) ==
    /\ pc[t] \in {"idle", "create", "resolve", "decide"}
    /\ pc[t] # "idle" => loop = t /\ reply[t].kind # "allowed"
    /\ pc[t] \in {"idle", "create"} => at[t] = 1 /\ results[t] = <<>>
    /\ pc[t] = "decide" => rule[t] \in Rules /\ rule[t] = rules[Name(t)]
    /\ pc[t] # "idle" => /\ Len(results[t]) = at[t] - 1
                         /\ OwedThen(rules, db, asked, list[t], results[t], at[t] - 1)
    /\ Distinct(list[t])

PlainTypes ==
    /\ clock \in Nat /\ rules \in [Names -> Rules \cup {NoRule}] /\ db \in Countings(Names)
    /\ rule \in [Tasks -> Rules \cup {NoRule}] /\ results \in [Tasks -> Seq(Kept)]
    /\ reply = [t \in Tasks |-> reply[t]] /\ asked = [n \in Names |-> asked[n]]

PromiseInv ==
    /\ LedgerInv
    /\ ~Redis /\ ~Custom => PlainTypes /\ \A t \in Tasks : TaskPromise(t)

\* A call that is not in the loop owes nothing.
LEMMA IdleKept ==
    ASSUME NEW t \in Tasks, pc[t] = "idle", TaskPromise(t),
           pc'[t] = pc[t], at'[t] = at[t], results'[t] = results[t], list'[t] = list[t]
    PROVE  TaskPromise(t)'
  BY DEF TaskPromise

\* A turn of t: the others are not in the loop.
LEMMA OthersKept ==
    ASSUME PromiseInv, ~Redis, ~Custom, NEW t \in Tasks, loop \in {t, NoTask},
           \A u \in Tasks \ {t} :
               pc'[u] = pc[u] /\ at'[u] = at[u] /\ results'[u] = results[u] /\ list'[u] = list[u],
           LedgerInv', PlainTypes', TaskPromise(t)'
    PROVE  PromiseInv'
<1>1. ASSUME NEW u \in Tasks \ {t}
      PROVE  TaskPromise(u)'
  <2>1. TaskPromise(u)
    BY DEF PromiseInv
  <2>2. pc[u] = "idle"
    BY <2>1, AsyncAssumption DEF TaskPromise
  <2> QED
    BY <2>1, <2>2, IdleKept
<1> QED
  BY <1>1 DEF PromiseInv

\* No rule has been asked yet.
LEMMA OwedNone ==
    ASSUME NEW r, NEW d, NEW a, NEW names \in Seq(Names)
    PROVE  OwedThen(r, d, a, names, <<>>, 0)
  BY DEF OwedThen, Owed, Owing

LEMMA PromiseStart ==
    ASSUME NoRepeats, PromiseInv, LedgerInv', ~Redis, ~Custom, NEW t \in Tasks,
           NEW to \in {"resolve", "create"}, NEW names \in Lists \cup {<<LazyName>>},
           Run(t, "idle", to), StartOf(t, names)
    PROVE  PromiseInv'
<1>1. PlainTypes /\ TaskPromise(t) /\ Positions
  BY DEF PromiseInv, LedgerInv
<1>2. /\ pc[t] = "idle" /\ pc' = [pc EXCEPT ![t] = to] /\ loop' = t /\ loop \in {t, NoTask}
      /\ list' = [list EXCEPT ![t] = names] /\ reply' = [reply EXCEPT ![t] = NoReply]
      /\ UNCHANGED <<rules, db, clock, asked, at, rule, results>>
  BY DEF Run, Goto, StartOf, tableVars, clockVars
<1>3. /\ pc'[t] = to /\ list'[t] = names /\ reply'[t] = NoReply
      /\ at'[t] = 1 /\ results'[t] = <<>>
      /\ \A u \in Tasks \ {t} :
             pc'[u] = pc[u] /\ at'[u] = at[u] /\ results'[u] = results[u] /\ list'[u] = list[u]
  BY <1>1, <1>2 DEF Positions, PlainTypes, TaskPromise
<1>4. PlainTypes'
  BY <1>1, <1>2 DEF PlainTypes
<1>5. names \in Seq(Names) /\ Distinct(names)
  <2>1. CASE names \in Lists
    BY <2>1, AsyncAssumption DEF NoRepeats
  <2>2. CASE names = <<LazyName>>
    <3>1. LazyName \in Names
      BY AsyncAssumption
    <3> QED
      BY <2>2, <3>1 DEF Distinct
  <2> QED
    BY <2>1, <2>2
<1>6. OwedThen(rules', db', asked', list'[t], results'[t], 0)
  BY <1>3, <1>5, OwedNone
<1>7. at'[t] - 1 = 0
  BY <1>3
<1>8. TaskPromise(t)'
  <2>1. Len(results'[t]) = 0
    BY <1>3
  <2> QED
    BY <1>2, <1>3, <1>5, <1>6, <1>7, <2>1 DEF TaskPromise, NoReply
<1> QED
  BY <1>2, <1>3, <1>4, <1>8, OthersKept

LEMMA PromiseEnds ==
    ASSUME PromiseInv, LedgerInv', ~Redis, ~Custom, NEW t \in Tasks, loop \in {t, NoTask},
           pc' = [pc EXCEPT ![t] = "idle"], NEW answer, End(t, answer),
           UNCHANGED <<rules, clock>>, db' \in Countings(Names), asked' = [n \in Names |-> asked'[n]]
    PROVE  PromiseInv'
<1>1. PlainTypes /\ TaskPromise(t) /\ Positions
  BY DEF PromiseInv, LedgerInv
<1>2. /\ pc'[t] = "idle" /\ list'[t] = <<>> /\ at'[t] = 1 /\ results'[t] = <<>>
      /\ \A u \in Tasks \ {t} :
             pc'[u] = pc[u] /\ at'[u] = at[u] /\ results'[u] = results[u] /\ list'[u] = list[u]
  BY <1>1 DEF Positions, PlainTypes, End
<1>3. PlainTypes'
  <2>1. rule' = [rule EXCEPT ![t] = NoRule] /\ results' = [results EXCEPT ![t] = <<>>]
        /\ reply' = [reply EXCEPT ![t] = answer]
    BY DEF End
  <2>2. rule' \in [Tasks -> Rules \cup {NoRule}]
    BY <1>1, <2>1 DEF PlainTypes
  <2>3. results' \in [Tasks -> Seq(Kept)]
    <3>1. <<>> \in Seq(Kept)
      OBVIOUS
    <3> QED
      BY <1>1, <2>1, <3>1 DEF PlainTypes
  <2>4. reply' = [u \in Tasks |-> reply'[u]]
    BY <1>1, <2>1 DEF PlainTypes
  <2>5. clock' \in Nat /\ rules' \in [Names -> Rules \cup {NoRule}] /\ asked' = [n \in Names |-> asked'[n]]
    BY <1>1 DEF PlainTypes
  <2> QED
    BY <2>2, <2>3, <2>4, <2>5 DEF PlainTypes
<1>4. TaskPromise(t)'
  BY <1>2 DEF TaskPromise, Distinct
<1> QED
  BY <1>2, <1>3, <1>4, OthersKept

\* The table's answer.
LEMMA PromiseResolve ==
    ASSUME PromiseInv, LedgerInv', ~Redis, ~Custom, NEW t \in Tasks, Resolve(t)
    PROVE  PromiseInv'
<1>1. PlainTypes /\ TaskPromise(t) /\ Positions
  BY DEF PromiseInv, LedgerInv
<1>2. /\ pc[t] = "resolve" /\ pc' = [pc EXCEPT ![t] = "decide"] /\ loop' = t /\ loop \in {t, NoTask}
      /\ list[t] # <<>> /\ rules[Name(t)] # NoRule /\ rule' = [rule EXCEPT ![t] = rules[Name(t)]]
      /\ UNCHANGED <<rules, db, clock, asked, list, at, results, reply>>
  BY DEF Resolve, Run, Goto, tableVars, historyVars, clockVars
<1>3. at[t] \in DOMAIN list[t] /\ list[t] \in Seq(Names)
  <2>1. at[t] = 1 \/ at[t] \in DOMAIN list[t]
    BY <1>1 DEF Positions
  <2>2. PICK names \in Seq(Names) : names = list[t] /\ names # <<>>
    BY <1>1, <1>2 DEF Positions
  <2>3. 1 \in DOMAIN names
    BY <2>2, EmptySeq
  <2> QED
    BY <2>1, <2>2, <2>3
<1>4. Name(t) \in Names
  BY <1>3 DEF Name
<1>5. rules[Name(t)] \in Rules
  BY <1>1, <1>2, <1>4 DEF PlainTypes
<1>6. PlainTypes'
  BY <1>1, <1>2, <1>5 DEF PlainTypes
<1>7. /\ pc'[t] = "decide" /\ rule'[t] = rules[Name(t)] /\ Name(t)' = Name(t)
      /\ \A u \in Tasks \ {t} :
             pc'[u] = pc[u] /\ at'[u] = at[u] /\ results'[u] = results[u] /\ list'[u] = list[u]
  BY <1>1, <1>2 DEF Positions, PlainTypes, Name
<1>8. OwedThen(rules', db', asked', list'[t], results'[t], at'[t] - 1)
  BY <1>1, <1>2 DEF TaskPromise
<1>9. TaskPromise(t)'
  BY <1>1, <1>2, <1>5, <1>7, <1>8 DEF TaskPromise
<1> QED
  BY <1>2, <1>6, <1>7, <1>9, OthersKept

\* The decorator's rule.
LEMMA PromiseCreate ==
    ASSUME PromiseInv, LedgerInv', ~Redis, ~Custom, NEW t \in Tasks, Create(t)
    PROVE  PromiseInv'
<1>1. PlainTypes /\ TaskPromise(t) /\ Positions
  BY DEF PromiseInv, LedgerInv
<1>2. /\ pc[t] = "create" /\ pc' = [pc EXCEPT ![t] = "resolve"] /\ loop' = t /\ loop \in {t, NoTask}
      /\ rules' = [rules EXCEPT ![LazyName] = LazyRule]
      /\ UNCHANGED <<db, clock, asked, list, at, rule, results, reply>>
  BY DEF Create, AddLazyRule, Run, Goto, callVars, clockVars
<1>3. PlainTypes'
  BY <1>1, <1>2, AsyncAssumption DEF PlainTypes
<1>4. /\ pc'[t] = "resolve" /\ list[t] \in Seq(Names)
      /\ \A u \in Tasks \ {t} :
             pc'[u] = pc[u] /\ at'[u] = at[u] /\ results'[u] = results[u] /\ list'[u] = list[u]
  BY <1>1, <1>2 DEF Positions
<1>5. at'[t] - 1 = 0 /\ results'[t] = <<>> /\ list'[t] \in Seq(Names)
  BY <1>1, <1>2, <1>4 DEF TaskPromise
<1>6. OwedThen(rules', db', asked', list'[t], results'[t], at'[t] - 1)
  BY <1>5, OwedNone
<1>7. TaskPromise(t)'
  <2>1. Len(results'[t]) = at'[t] - 1
    BY <1>5
  <2> QED
    BY <1>1, <1>2, <1>4, <1>6, <2>1 DEF TaskPromise
<1> QED
  BY <1>2, <1>3, <1>4, <1>7, OthersKept

\* The result that a decision appends.
ResultOf(d) == [remaining |-> d.remaining, reset_at |-> d.reset_at]

\* A decision leaves what the rules before it have alone, and tells what its own rule has.
LEMMA CountKeeps ==
    ASSUME PromiseInv, ~Redis, ~Custom, NEW t \in Tasks, Count(t), NEW late \in Nat
    PROVE  /\ loop = t /\ at[t] \in 1 .. Len(list[t]) /\ list[t] \in Seq(Names) /\ Distinct(list[t])
           /\ db' \in Countings(Names) /\ rules' = rules /\ clock' = clock
           /\ Append(results[t], ResultOf(Decided(t, clock))) \in Seq(Kept)
           /\ Len(Append(results[t], ResultOf(Decided(t, clock)))) = at[t]
           /\ asked' = [n \in Names |-> asked'[n]]
           /\ AskedBy(asked', list[t], at[t], late) =>
                  Owed(rules, db', late, list[t], Append(results[t], ResultOf(Decided(t, clock))), at[t])
<1>1. PlainTypes /\ TaskPromise(t) /\ Positions
  BY DEF PromiseInv, LedgerInv
<1>2. /\ pc[t] = "decide" /\ rules' = rules /\ clock' = clock
      /\ db' = [db EXCEPT ![rule[t].algorithm][Name(t)] = Decided(t, clock).entry]
      /\ asked' = [asked EXCEPT ![Name(t)] = [stamp |-> clock, stepsBack |-> stepsBack]]
  BY DEF Count, Booking, Continue, tableVars, clockVars
<1>3. /\ loop = t /\ rule[t] \in Rules /\ rule[t] = rules[Name(t)] /\ Distinct(list[t])
      /\ Len(results[t]) = at[t] - 1
      /\ OwedThen(rules, db, asked, list[t], results[t], at[t] - 1)
  BY <1>1, <1>2 DEF TaskPromise
<1>4. at[t] \in 1 .. Len(list[t]) /\ list[t] \in Seq(Names) /\ Name(t) \in Names
  <2>1. at[t] \in DOMAIN list[t] /\ list[t] \in Seq(Names)
    BY <1>1, <1>2 DEF Positions, Holding
  <2> QED
    BY <2>1 DEF Name
<1>5. PICK names \in Seq(Names), found \in Seq(Kept) : names = list[t] /\ found = results[t]
  <2>1. results[t] \in Seq(Kept)
    BY <1>1 DEF PlainTypes
  <2> QED
    BY <1>4, <2>1
<1>6. PICK n \in Nat : n = at[t] - 1 /\ n + 1 = at[t] /\ n < Len(names)
  BY <1>4, <1>5
<1>7. PICK stamp \in Nat, d \in Countings(Names) : stamp = clock /\ d = db
  BY <1>1 DEF PlainTypes
<1>8. PICK r : r = rules
  OBVIOUS
<1>9. PICK key \in Names : key = Name(t) /\ key = names[n + 1]
  BY <1>4, <1>5, <1>6 DEF Name
<1>10. PICK under \in LimitRule : /\ under = Derived(r)[key] /\ under = Parameters(rule[t])
                                  /\ under.algorithm = rule[t].algorithm
  <2>1. r[key] = rule[t] /\ r[key] \in Rules
    BY <1>3, <1>8, <1>9
  <2> QED
    BY <2>1, DerivedRule
<1>11. PICK entry : entry = d[under.algorithm][key] /\ NeverNegative(under, entry)
  BY CellOfCounting
<1>12. PICK out : out = Decided(t, clock) /\ out = Decide(under, entry, stamp)
  BY <1>7, <1>9, <1>10, <1>11 DEF Decided, AsyncDecide
<1>13. /\ out.remaining \in Nat /\ NeverNegative(under, out.entry)
       /\ stamp <= late => Backs(under, out.entry, late, out.remaining)
  <2>1. stamp <= stamp
    BY <1>7
  <2>2. out.remaining \in Nat /\ NeverNegative(under, out.entry)
    BY <1>7, <1>10, <1>11, <1>12, <2>1, DecisionBacksLater
  <2>3. ASSUME stamp <= late
        PROVE  Backs(under, out.entry, late, out.remaining)
    BY <1>7, <1>10, <1>11, <1>12, <2>3, DecisionBacksLater
  <2> QED
    BY <2>2, <2>3
<1>14. out.reset_at \in Int
  BY <1>11, <1>12, DecideType DEF NeverNegative, Outcome
<1>15. PICK e : e = db' /\ e = Put(d, under.algorithm, key, out.entry)
  BY <1>2, <1>7, <1>9, <1>10, <1>12 DEF Put
<1>16. /\ e \in Countings(Names) /\ e[under.algorithm][key] = out.entry
       /\ \A a \in AlgorithmIds, j \in Names \ {key} : e[a][j] = d[a][j]
  BY <1>7, <1>9, <1>10, <1>13, <1>15, CountingStored
<1>17. PICK one \in Kept : one = ResultOf(out) /\ one.remaining = out.remaining
  <2>1. ResultOf(out) \in Kept /\ ResultOf(out).remaining = out.remaining
    BY <1>13, <1>14 DEF ResultOf, Kept
  <2> QED
    BY <2>1
<1>18. PICK more \in Seq(Kept) : more = Append(found, one)
  <2>1. Append(found, one) \in Seq(Kept)
    BY <1>5, <1>17
  <2> QED
    BY <2>1
<1>20. /\ Len(more) = n + 1 /\ more[n + 1].remaining = out.remaining
       /\ \A i \in 1 .. n : more[i] = found[i]
  <2>1. Len(found) = n
    BY <1>3, <1>5, <1>6
  <2> QED
    BY <1>5, <1>17, <1>18, <2>1
<1>21. \A i \in 1 .. n : names[i] # key
  <2> SUFFICES ASSUME NEW i \in 1 .. n, names[i] = key PROVE FALSE
    OBVIOUS
  <2>1. i \in 1 .. Len(names) /\ n + 1 \in 1 .. Len(names) /\ names[i] = names[n + 1]
    BY <1>6, <1>9
  <2>2. i = n + 1
    BY <1>3, <1>5, <2>1 DEF Distinct
  <2> QED
    BY <2>2
<1>22. PICK next : next = n + 1
  OBVIOUS
<1>23. e = db' /\ \A j \in Names \ {key} : asked'[j] = asked[j]
  BY <1>1, <1>2, <1>9, <1>15 DEF PlainTypes
<1>24. asked'[key].stamp = stamp /\ asked' = [j \in Names |-> asked'[j]]
  <2> DEFINE present == [stamp |-> clock, stepsBack |-> stepsBack]
  <2>1. asked' = [asked EXCEPT ![Name(t)] = present]
    BY <1>2
  <2>2. present.stamp = stamp
    BY <1>7
  <2> HIDE DEF present
  <2>3. asked'[key] = present /\ asked' = [j \in Names |-> asked'[j]]
    BY <1>1, <1>9, <2>1 DEF PlainTypes
  <2> QED
    BY <2>2, <2>3
<1>25. ASSUME AskedBy(asked', names, next, late)
       PROVE  Owed(r, e, late, names, more, next)
  <2>1. stamp <= late /\ AskedBy(asked, names, n, late)
    <3>1. next \in 1 .. next /\ names[next] = key
      BY <1>9, <1>22
    <3>2. stamp <= late
      BY <1>24, <1>25, <3>1 DEF AskedBy
    <3>3. ASSUME NEW i \in 1 .. n
          PROVE  asked[names[i]].stamp <= late
      <4>1. i \in 1 .. next /\ names[i] \in Names \ {key}
        BY <1>6, <1>21, <1>22
      <4>2. asked'[names[i]].stamp <= late
        BY <1>25, <4>1 DEF AskedBy
      <4> QED
        BY <1>23, <4>1, <4>2
    <3> QED
      BY <3>2, <3>3 DEF AskedBy
  <2>2. Owing(Derived(r), d, late, names, found, n) /\ \A i \in 1 .. n : r[names[i]] \in Rules
    BY <1>3, <1>5, <1>6, <1>7, <1>8, <2>1 DEF OwedThen, Owed
  <2>3. Owing(Derived(r), e, late, names, more, next)
    <3>1. PICK s : s = Derived(r) /\ s[key] = under
      BY <1>10
    <3>2. Owing(s, d, late, names, found, n)
      BY <2>2, <3>1
    <3>3. SameElsewhere(Names, key, e, d)
      BY <1>16 DEF SameElsewhere
    <3>4. n < Len(names) /\ key = names[n + 1]
      BY <1>6, <1>9
    <3>5. Len(more) = n + 1 /\ \A i \in 1 .. n : more[i] = found[i]
      BY <1>20
    <3>6. Backs(s[key], e[s[key].algorithm][key], late, more[n + 1].remaining)
      BY <1>10, <1>13, <1>16, <1>20, <2>1, <3>1
    <3>7. s[key] \in LimitRule
      BY <1>10, <3>1
    <3>8. Owing(s, e, late, names, more, next)
      <4>1. n < Len(names) /\ key = names[next]
        BY <1>22, <3>4
      <4>2. Len(more) = next /\ \A i \in 1 .. n : more[i] = found[i]
        BY <1>22, <3>5
      <4>3. Backs(s[key], e[s[key].algorithm][key], late, more[next].remaining)
        BY <1>22, <3>6
      <4> QED
        <5>1. OwesOneMore(Names, s, d, e, late, names, key, found, more, n, next)
          BY <1>7, <1>21, <1>22, <3>2, <3>3, <3>7, <4>1, <4>2, <4>3 DEF OwesOneMore
        <5> QED
          BY <5>1, OwingOneMore
    <3> QED
      BY <3>1, <3>8
  <2>4. \A i \in 1 .. next : r[names[i]] \in Rules
    <3> SUFFICES ASSUME NEW i \in 1 .. next PROVE r[names[i]] \in Rules
      OBVIOUS
    <3>1. CASE i = next
      BY <1>3, <1>8, <1>9, <1>22, <3>1
    <3>2. CASE i # next
      <4>1. i \in 1 .. n
        BY <1>6, <1>22, <3>2
      <4> QED
        BY <2>2, <4>1
    <3> QED
      BY <3>1, <3>2
  <2>5. Owed(r, e, late, names, more, next)
    BY <2>3, <2>4 DEF Owed
  <2> QED
    BY <2>5
<1>26. more = Append(results[t], ResultOf(Decided(t, clock))) /\ next = at[t]
  BY <1>5, <1>6, <1>12, <1>17, <1>18, <1>22
<1> HIDE DEF Decided, ResultOf
<1>27. AskedBy(asked', list[t], at[t], late) =>
           Owed(rules, db', late, list[t], Append(results[t], ResultOf(Decided(t, clock))), at[t])
  BY <1>5, <1>7, <1>8, <1>15, <1>25, <1>26
<1> QED
  BY <1>2, <1>3, <1>4, <1>15, <1>16, <1>18, <1>20, <1>22, <1>24, <1>26, <1>27

LEMMA PromiseCount ==
    ASSUME PromiseInv, LedgerInv', ~Redis, ~Custom, NEW t \in Tasks, Count(t)
    PROVE  PromiseInv'
<1> DEFINE found == Append(results[t], ResultOf(Decided(t, clock)))
<1>1. PlainTypes /\ TaskPromise(t) /\ Positions
  BY DEF PromiseInv, LedgerInv
<1>2. /\ loop = t /\ at[t] \in 1 .. Len(list[t]) /\ Distinct(list[t])
      /\ db' \in Countings(Names) /\ rules' = rules /\ clock' = clock
      /\ found \in Seq(Kept) /\ Len(found) = at[t]
      /\ asked' = [n \in Names |-> asked'[n]]
      /\ OwedThen(rules, db', asked', list[t], found, at[t])
  <2>1. 0 \in Nat
    OBVIOUS
  <2> QED
    BY <2>1, CountKeeps DEF OwedThen
<1>3. Continue(t, "decide", Decided(t, clock))
  BY DEF Count
<1>4. CASE \E answer : pc' = [pc EXCEPT ![t] = "idle"] /\ End(t, answer)
  <2>1. PICK answer : pc' = [pc EXCEPT ![t] = "idle"] /\ End(t, answer)
    BY <1>4
  <2> QED
    BY <1>2, <2>1, PromiseEnds
<1>5. CASE /\ Run(t, "decide", "resolve") /\ at' = [at EXCEPT ![t] = @ + 1]
           /\ results' = [results EXCEPT ![t] = found] /\ UNCHANGED <<list, rule, reply>>
  <2>1. pc' = [pc EXCEPT ![t] = "resolve"] /\ loop' = t /\ pc[t] = "decide"
    BY <1>5 DEF Run, Goto
  <2>2. /\ pc'[t] = "resolve" /\ at'[t] = at[t] + 1 /\ results'[t] = found /\ list'[t] = list[t]
        /\ \A u \in Tasks \ {t} :
               pc'[u] = pc[u] /\ at'[u] = at[u] /\ results'[u] = results[u] /\ list'[u] = list[u]
    BY <1>1, <1>5, <2>1 DEF Positions, PlainTypes
  <2>3. PlainTypes'
    BY <1>1, <1>2, <1>5 DEF PlainTypes
  <2>4. at'[t] - 1 = at[t] /\ Len(results'[t]) = at'[t] - 1
    BY <1>2, <2>2
  <2>5. OwedThen(rules', db', asked', list'[t], results'[t], at'[t] - 1)
    BY <1>2, <2>2, <2>4
  <2>6. reply'[t].kind # "allowed"
    BY <1>1, <1>5, <2>1 DEF TaskPromise
  <2>7. TaskPromise(t)'
    BY <1>2, <1>5, <2>1, <2>2, <2>4, <2>5, <2>6 DEF TaskPromise
  <2> QED
    BY <1>2, <2>2, <2>3, <2>7, OthersKept
<1> QED
  BY <1>3, <1>4, <1>5, Zenon DEF Continue, Goto, ResultOf

\* What the tasks of a plain setup do: they never wait.
LEMMA PlainStep ==
    ASSUME PromiseInv, ~Redis, ~Custom, NEW t \in Tasks,
           Check(t) \/ CallDecorated(t) \/ Proceed(t) \/ Cancel(t)
    PROVE  Check(t) \/ CallDecorated(t) \/ Create(t) \/ Resolve(t) \/ Raise(t, "resolve") \/ Count(t)
<1>1. pc[t] \in {"idle", "create", "resolve", "decide"}
  BY DEF PromiseInv, TaskPromise
<1>2. ~SendRule(t) /\ ~Land(t) /\ ~MarkCreated(t) /\ ~Ask(t) /\ ~Lookup(t) /\ ~Found(t) /\ ~Send(t)
  BY <1>1 DEF SendRule, Land, MarkCreated, Ask, Lookup, Found, Send, Remote, Run, Goto
<1>3. ~Serve(t) /\ ~Receive(t) /\ ~Cancel(t) /\ ~Raise(t, "answered")
  BY <1>1 DEF Serve, Receive, Cancel, Raise, Remote, Goto, Waiting
<1> QED
  BY <1>2, <1>3 DEF Proceed, Unknown, EmptyList

LEMMA PromiseStep ==
    ASSUME NoRepeats, PromiseInv, LedgerInv', ~Redis, ~Custom, NEW t \in Tasks,
           Check(t) \/ CallDecorated(t) \/ Proceed(t) \/ Cancel(t)
    PROVE  PromiseInv'
<1>1. CASE Check(t) \/ CallDecorated(t)
  <2>1. PICK to \in {"resolve", "create"} :
            /\ Run(t, "idle", to)
            /\ \E names \in Lists \cup {<<LazyName>>} : StartOf(t, names)
    BY <1>1 DEF Check, CallDecorated
  <2> QED
    BY <2>1, PromiseStart
<1>2. CASE Create(t)
  BY <1>2, PromiseCreate
<1>3. CASE Resolve(t)
  BY <1>3, PromiseResolve
<1>4. CASE Raise(t, "resolve")
  <2>1. /\ loop \in {t, NoTask} /\ pc' = [pc EXCEPT ![t] = "idle"]
        /\ End(t, [kind |-> "raised", remaining |-> 0]) /\ UNCHANGED <<rules, clock, asked, db>>
    BY <1>4 DEF Raise, Goto, tableVars, clockVars
  <2>2. db' \in Countings(Names) /\ asked' = [n \in Names |-> asked'[n]]
    BY <2>1 DEF PromiseInv, PlainTypes
  <2> QED
    BY <2>1, <2>2, PromiseEnds
<1>5. CASE Count(t)
  BY <1>5, PromiseCount
<1> QED
  BY <1>1, <1>2, <1>3, <1>4, <1>5, PlainStep

\* The table changes while nobody is in the loop.
LEMMA PromiseChange ==
    ASSUME PromiseInv, LedgerInv', ~Redis, ~Custom, NEW n \in Names, NEW new \in Rules \cup {NoRule},
           Change(n, new)
    PROVE  PromiseInv'
<1>1. /\ loop = NoTask /\ rules' = [rules EXCEPT ![n] = new]
      /\ UNCHANGED <<db, clock, asked, pc, list, at, rule, results, reply>>
  BY DEF Change, callVars, historyVars, clockVars
<1>2. PlainTypes'
  BY <1>1 DEF PromiseInv, PlainTypes
<1>3. ASSUME NEW u \in Tasks
      PROVE  TaskPromise(u)'
  <2>1. TaskPromise(u)
    BY DEF PromiseInv
  <2>2. pc[u] = "idle"
    BY <1>1, <2>1, AsyncAssumption DEF TaskPromise
  <2> QED
    BY <1>1, <2>1, <2>2, IdleKept
<1> QED
  BY <1>2, <1>3 DEF PromiseInv

\* Time passes, the clock is set back, or nothing happens: no decision is made.
LEMMA PromiseWaits ==
    ASSUME PromiseInv, LedgerInv', ~Redis, ~Custom, clock' \in Nat,
           UNCHANGED <<rules, db, asked, loop, pc, list, at, rule, results, reply>>
    PROVE  PromiseInv'
<1>1. PlainTypes'
  BY DEF PromiseInv, PlainTypes
<1>2. ASSUME NEW u \in Tasks
      PROVE  TaskPromise(u)'
  <2>1. TaskPromise(u) /\ Name(u)' = Name(u)
    BY DEF PromiseInv, Name
  <2> QED
    BY <2>1 DEF TaskPromise
<1> QED
  BY <1>1, <1>2 DEF PromiseInv

LEMMA PromiseNext == ASSUME NoRepeats, PromiseInv, [Next]_vars PROVE PromiseInv'
<1>1. LedgerInv'
  BY LedgerNext DEF PromiseInv
<1>2. setup' = setup
  BY ZenonT(40)
  DEF Next, Check, CallDecorated, StartOf, Proceed, Create, SendRule, Land, MarkCreated, Resolve, Ask, Lookup,
         Found, Unknown, EmptyList, Raise, Count, Continue, Send, Serve, Receive, Cancel,
         AddRule, RemoveRule, Change, Tick, StepBack, Finished, vars
<1> SUFFICES ASSUME ~Redis, ~Custom PROVE PromiseInv'
  BY <1>1, <1>2 DEF PromiseInv, Redis, Custom
<1>3. CASE \E t \in Tasks : Check(t) \/ CallDecorated(t) \/ Proceed(t) \/ Cancel(t)
  BY <1>1, <1>3, PromiseStep
<1>4. CASE AddRule \/ RemoveRule
  BY <1>1, <1>4, PromiseChange DEF AddRule, RemoveRule
<1>5. CASE Tick \/ StepBack \/ Finished \/ UNCHANGED vars
  <2>1. UNCHANGED <<rules, db, asked, loop, pc, list, at, rule, results, reply>>
    BY <1>5 DEF Tick, StepBack, Finished, vars, tableVars, callVars, historyVars
  <2>2. clock \in Nat
    BY DEF PromiseInv, PlainTypes
  <2>3. clock' \in Nat
    <3>1. CASE StepBack
      <4>1. PICK earlier \in 0 .. clock - 1 : clock' = earlier
        BY <3>1 DEF StepBack
      <4> QED
        BY <4>1
    <3>2. CASE Tick \/ Finished \/ UNCHANGED vars
      BY <2>2, <3>2 DEF Tick, Finished, vars, clockVars
    <3> QED
      BY <1>5, <3>1, <3>2
  <2> QED
    BY <1>1, <2>1, <2>3, PromiseWaits
<1> QED
  BY <1>3, <1>4, <1>5 DEF Next

LEMMA PromiseInit == ASSUME Init PROVE PromiseInv
<1>1. LedgerInv
  BY LedgerInit
<1>2. db \in Countings(Names)
  <2>1. \A a \in Algorithms : <<>> \in EntryOf(a) /\ <<>> \in Entry
    BY DEF EntryOf, EntryUnder, Entry
  <2>2. db = [a \in Algorithms |-> [n \in Names |-> <<>>]]
    BY DEF Init
  <2> QED
    BY <2>1, <2>2 DEF Countings, Dictionaries, Algorithms, AlgorithmIds
<1>3. PlainTypes
  <2>1. <<>> \in Seq(Kept)
    OBVIOUS
  <2> QED
    BY <1>2, <2>1, AsyncAssumption DEF Init, PlainTypes
<1>4. \A t \in Tasks : TaskPromise(t)
  BY DEF Init, TaskPromise, Distinct
<1> QED
  BY <1>1, <1>3, <1>4 DEF PromiseInv

-----------------------------------------------------------------------------
\* Only a last decision that admits allows a check.
LEMMA AllowedByCount ==
    ASSUME PromiseInv, ~Redis, ~Custom, [Next]_vars, NEW t \in Tasks,
           pc[t] # "idle", reply'[t].kind = "allowed"
    PROVE  /\ Count(t) /\ at[t] = Len(list[t])
           /\ reply'[t].remaining = Strictest(Append(results[t], ResultOf(Decided(t, clock)))).remaining
<1>1. /\ loop = t /\ reply[t].kind # "allowed" /\ reply = [u \in Tasks |-> reply[u]] /\ t # NoTask
      /\ pc[t] \in {"create", "resolve", "decide"}
  BY AsyncAssumption DEF PromiseInv, TaskPromise, PlainTypes
<1>2. reply'[t] # reply[t]
  BY <1>1
<1>3. PICK u \in Tasks : Check(u) \/ CallDecorated(u) \/ Proceed(u) \/ Cancel(u)
  <2>1. ~(Tick \/ StepBack \/ Finished \/ UNCHANGED vars \/ AddRule \/ RemoveRule)
    BY <1>2 DEF Tick, StepBack, Finished, vars, historyVars, AddRule, RemoveRule, Change
  <2> QED
    BY <2>1 DEF Next
<1>4. Check(u) \/ CallDecorated(u) \/ Create(u) \/ Resolve(u) \/ Raise(u, "resolve") \/ Count(u)
  BY <1>3, PlainStep
<1>5. u = t
  <2>1. loop \in {u, NoTask}
    BY <1>4 DEF Check, CallDecorated, Create, Resolve, Raise, Count, Continue, Run
  <2> QED
    BY <1>1, <2>1
<1>6. ~Check(u) /\ ~CallDecorated(u)
  BY <1>1, <1>5 DEF Check, CallDecorated, Run, Goto
<1>7. ~Create(u) /\ ~Resolve(u)
  BY <1>2 DEF Create, Resolve, historyVars
<1>8. ~Raise(u, "resolve")
  <2> SUFFICES ASSUME Raise(u, "resolve") PROVE FALSE
    OBVIOUS
  <2>1. reply' = [reply EXCEPT ![u] = [kind |-> "raised", remaining |-> 0]]
    BY DEF Raise, End
  <2>2. reply'[t].kind = "raised"
    BY <1>1, <1>5, <2>1
  <2> QED
    BY <2>2
<1>9. Count(t)
  BY <1>4, <1>5, <1>6, <1>7, <1>8
<1> DEFINE answer(kind, remaining) == [kind |-> kind, remaining |-> remaining]
           best == Strictest(Append(results[t], ResultOf(Decided(t, clock)))).remaining
<1>10. \/ reply' = reply
       \/ at[t] = Len(list[t]) /\ End(t, answer("allowed", best))
       \/ End(t, answer("denied", 0))
  BY <1>9, Zenon DEF Count, Continue, ResultOf
<1> HIDE DEF best
<1>11. CASE at[t] = Len(list[t]) /\ End(t, answer("allowed", best))
  <2>1. reply'[t] = answer("allowed", best)
    BY <1>1, <1>11 DEF End
  <2>2. reply'[t].remaining = best
    BY <2>1
  <2> QED
    BY <1>9, <1>11, <2>2 DEF best
<1>12. CASE End(t, answer("denied", 0))
  <2>1. reply'[t] = answer("denied", 0)
    BY <1>1, <1>12 DEF End
  <2> QED
    BY <2>1
<1> QED
  BY <1>2, <1>10, <1>11, <1>12

LEMMA PromiseGiven ==
    ASSUME PromiseInv, ~Redis, ~Custom, [Next]_vars, NEW t \in Tasks,
           pc[t] # "idle", reply'[t].kind = "allowed", NEW stamp \in Nat,
           \A n \in Range(list[t]) : asked'[n].stamp <= stamp
    PROVE  AllowsAgain(reply'[t].remaining, list[t], rules', db', stamp)
<1> DEFINE more == Append(results[t], ResultOf(Decided(t, clock)))
<1>1. Count(t) /\ at[t] = Len(list[t]) /\ reply'[t].remaining = Strictest(more).remaining
  BY AllowedByCount
<1>2. /\ at[t] \in 1 .. Len(list[t]) /\ list[t] \in Seq(Names) /\ Distinct(list[t])
      /\ db' \in Countings(Names) /\ rules' = rules
      /\ more \in Seq(Kept) /\ Len(more) = at[t]
      /\ AskedBy(asked', list[t], at[t], stamp) => Owed(rules, db', stamp, list[t], more, at[t])
  BY <1>1, CountKeeps
<1>3. PICK names \in Seq(Names), found \in Seq(Kept) : names = list[t] /\ found = more
  BY <1>2
<1> HIDE DEF more
<1>4. PICK n \in Nat : n = Len(names) /\ n = at[t] /\ n # 0
  BY <1>1, <1>2, <1>3
<1>5. AskedBy(asked', list[t], at[t], stamp)
  BY <1>1, <1>2 DEF AskedBy, Range
<1>6. PICK e \in Countings(Names) : e = db'
  BY <1>2
<1>7. PICK r : r = rules
  OBVIOUS
<1>8. Strictest(found) \in Kept /\ \A i \in 1 .. n : Strictest(found).remaining <= found[i].remaining
  <2>1. Len(found) = n
    BY <1>2, <1>3, <1>4
  <2>2. found # <<>>
    BY <1>4, <2>1
  <2> QED
    BY <1>3, <2>1, <2>2, StrictestFound DEF Kept
<1>9. PICK m \in Nat : m = reply'[t].remaining /\ \A i \in 1 .. n : m <= found[i].remaining
  BY <1>1, <1>3, <1>8 DEF Kept
<1>10. Owing(Derived(r), e, stamp, names, found, n) /\ \A i \in 1 .. n : r[names[i]] \in Rules
  BY <1>2, <1>3, <1>4, <1>5, <1>6, <1>7 DEF Owed
<1>11. \A i \in 1 .. n : found[i].remaining \in Nat /\ m <= found[i].remaining
  <2>1. Len(found) = n
    BY <1>10 DEF Owing
  <2>2. \A i \in 1 .. n : found[i] \in Kept
    BY <1>3, <2>1, ElementOfSeq
  <2> QED
    BY <1>9, <2>2 DEF Kept
<1>12. PICK s : s = Derived(r)
  OBVIOUS
<1>13. Owing(s, e, stamp, names, found, n)
  BY <1>10, <1>12
<1>14. AllHaveLeft(n, names, [i \in 1 .. n |-> s[names[i]]], e, stamp, m)
  BY <1>3, <1>4, <1>5, <1>6, <1>9, <1>11, <1>13, OwingThrough
<1>15. e \in Dictionaries(Names)
  BY <1>6 DEF Countings
<1>16. \A i, j \in 1 .. Len(names) : names[i] = names[j] => i = j
  BY <1>2, <1>3 DEF Distinct
<1>17. AllHaveLeft(Len(names), names, [i \in 1 .. Len(names) |-> Derived(r)[names[i]]], e, stamp, m)
  BY <1>4, <1>12, <1>14, Zenon
<1>18. \A i \in 1 .. Len(names) : r[names[i]] \in Rules
  BY <1>4, <1>10, Zenon
<1>19. AllowsAgain(m, names, r, e, stamp)
  BY <1>3, <1>5, <1>9, <1>15, <1>16, <1>17, <1>18, PromiseKept
<1> QED
  BY <1>2, <1>3, <1>5, <1>6, <1>7, <1>9, <1>19

\* With the storage and the resolver of the package every reply is a promise, although
\* other tasks check the same client before and between: whatever tasks, rules and
\* lists without repetition there are, and however the table changes.
THEOREM RemainingIsPromiseHolds == NoRepeats => (Spec => RemainingIsPromise)
<1> SUFFICES ASSUME NoRepeats PROVE Spec => RemainingIsPromise
  OBVIOUS
<1>1. Init => PromiseInv
  BY PromiseInit
<1>2. PromiseInv /\ [Next]_vars => PromiseInv'
  BY PromiseNext
<1>3. PromiseInv /\ [Next]_vars =>
          [\A t \in Tasks, stamp \in 0 .. MaxTime :
               /\ ~Redis /\ ~Custom /\ pc[t] # "idle" /\ reply'[t].kind = "allowed"
               /\ \A n \in Range(list[t]) : asked'[n].stamp <= stamp
               => LET again[k \in Nat] ==
                          Attempt(list[t], rules', IF k = 0 THEN db' ELSE again[k - 1].db, stamp)
                  IN  \A k \in 0 .. reply'[t].remaining - 1 : again[k].allowed]_vars
  <2> SUFFICES ASSUME PromiseInv, [Next]_vars, NEW t \in Tasks, NEW stamp \in 0 .. MaxTime,
                      ~Redis, ~Custom, pc[t] # "idle", reply'[t].kind = "allowed",
                      \A n \in Range(list[t]) : asked'[n].stamp <= stamp
               PROVE  AllowsAgain(reply'[t].remaining, list[t], rules', db', stamp)
    BY Zenon DEF Again, AllowsAgain
  <2>1. stamp \in Nat
    OBVIOUS
  <2> QED
    BY <2>1, PromiseGiven
<1> QED
  BY <1>1, <1>2, <1>3, PTL DEF Spec, RemainingIsPromise
=============================================================================
