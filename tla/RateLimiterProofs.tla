-------------------------- MODULE RateLimiterProofs --------------------------
(***************************************************************************)
(* The invariants of RateLimiter, for any threads, rules and lists.        *)
(* DecidedUnderLiveRule says nothing of a check between two of its rules;  *)
(* its invariant adds that what is in the table now is live for every      *)
(* check in progress.  AddedOncePerThread counts threads by where they are *)
(* in the wrapper, LedgerBalances the positions that checks have passed    *)
(* beside the requests that a decision adds to an entry.                   *)
(* TypeOK needs entries that have the shape of their algorithm.            *)
(* RemainingIsPromise and PatienceRewarded speak of a lone client: its     *)
(* rules still have what they told it, and a set of rules that have        *)
(* refused it, read as a binary number, grows with every refusal.          *)
(***************************************************************************)
EXTENDS RateLimiter, StorageOpsProofs

Changing == Names \X (Rules \cup {NoRule})

Shape ==
    /\ rules \in [Names -> Rules \cup {NoRule}]
    /\ pc \in [Threads -> PC]
    /\ list \in [Threads -> Seq(Names)]
    /\ at \in [Threads -> Nat \ {0}]
    /\ rule \in [Threads -> Rules \cup {NoRule}]
    /\ live \in [Threads -> SUBSET Changing]

\* The table is live for a check in progress, and so is the rule it holds.
LiveInv ==
    /\ Shape
    /\ \A t \in Threads : pc[t] # "idle" => Table \subseteq live[t]
    /\ \A t \in Threads :
           pc[t] \in {"clock", "store"} =>
               at[t] \in DOMAIN list[t] /\ <<Name(t), rule[t]>> \in live[t]

-----------------------------------------------------------------------------

LEMMA TableType ==
    ASSUME rules \in [Names -> Rules \cup {NoRule}]
    PROVE  Table \subseteq Changing
  BY DEF Table, Changing

\* Only the step of a thread and a change of the table touch what LiveInv reads.
LEMMA ChangedTable ==
    ASSUME LiveInv,
           NEW name \in Names, NEW new \in Rules \cup {NoRule}, SetRule(name, new)
    PROVE  /\ rules' \in [Names -> Rules \cup {NoRule}]
           /\ live' \in [Threads -> SUBSET Changing]
           /\ \A t \in Threads : live[t] \subseteq live'[t]
           /\ \A t \in Threads : pc[t] # "idle" => Table' \subseteq live'[t]
<1>1. rules' = [rules EXCEPT ![name] = new] /\ rules \in [Names -> Rules \cup {NoRule}]
  BY DEF SetRule, LiveInv, Shape
<1>2. live' = [t \in Threads |-> live[t] \cup {<<name, new>>}]
      /\ live \in [Threads -> SUBSET Changing]
  BY DEF SetRule, LiveInv, Shape
<1>3. rules' \in [Names -> Rules \cup {NoRule}]
  BY <1>1
<1>4. <<name, new>> \in Changing
  BY DEF Changing
<1>5. live' \in [Threads -> SUBSET Changing] /\ \A t \in Threads : live[t] \subseteq live'[t]
  BY <1>2, <1>4
<1>6. ASSUME NEW t \in Threads, pc[t] # "idle"
      PROVE  Table' \subseteq live'[t]
  <2>1. Table \subseteq live[t]
    BY <1>6 DEF LiveInv
  <2>2. ASSUME NEW n \in Names
        PROVE  <<n, rules'[n]>> \in live'[t]
    <3>1. CASE n = name
      <4>1. rules'[n] = new
        BY <1>1, <3>1
      <4> QED
        BY <1>2, <3>1, <4>1
    <3>2. CASE n # name
      <4>1. rules'[n] = rules[n]
        BY <1>1, <3>2
      <4>2. <<n, rules[n]>> \in live[t]
        BY <2>1 DEF Table
      <4> QED
        BY <1>2, <4>1, <4>2
    <3> QED
      BY <3>1, <3>2
  <2> QED
    BY <2>2 DEF Table
<1> QED
  BY <1>3, <1>5, <1>6

LEMMA LiveInit == ASSUME Init PROVE LiveInv
  BY RuleTableAssumption DEF Init, LiveInv, Shape, PC, Changing

LEMMA LiveStart ==
    ASSUME LiveInv, NEW t \in Threads, NEW names \in Seq(Names),
           NEW to \in {"resolve", "create"}, Goto(t, "idle", to), StartOf(t, names)
    PROVE  LiveInv'
<1>1. pc' = [pc EXCEPT ![t] = to] /\ pc[t] = "idle" /\ pc \in [Threads -> PC]
  BY DEF Goto, LiveInv, Shape
<1>2. /\ list' = [list EXCEPT ![t] = names] /\ at' = [at EXCEPT ![t] = 1]
      /\ live' = [live EXCEPT ![t] = Table] /\ rules' = rules /\ rule' = rule
  BY DEF StartOf, tableVars
<1>3. Table' = Table
  BY <1>2 DEF Table
<1>4. Shape'
  <2>1. Table \in SUBSET Changing
    BY TableType DEF LiveInv, Shape
  <2> QED
    BY <1>1, <1>2, <2>1 DEF LiveInv, Shape, PC
<1>5. ASSUME NEW u \in Threads, pc'[u] # "idle"
      PROVE  Table' \subseteq live'[u]
  <2>1. CASE u = t
    BY <1>2, <1>3, <2>1 DEF LiveInv, Shape
  <2>2. CASE u # t
    BY <1>1, <1>2, <1>3, <1>5, <2>2 DEF LiveInv, Shape
  <2> QED
    BY <2>1, <2>2
<1>6. ASSUME NEW u \in Threads, pc'[u] \in {"clock", "store"}
      PROVE  at'[u] \in DOMAIN list'[u] /\ <<list'[u][at'[u]], rule'[u]>> \in live'[u]
  <2>1. u # t
    BY <1>1, <1>6
  <2>2. pc'[u] = pc[u] /\ list'[u] = list[u] /\ at'[u] = at[u] /\ live'[u] = live[u]
    BY <1>1, <1>2, <2>1 DEF LiveInv, Shape
  <2> QED
    BY <1>2, <1>6, <2>2 DEF LiveInv, Name
<1> QED
  BY <1>4, <1>5, <1>6 DEF LiveInv, Name

\* A step of t that leaves the table, the list and the live rules as they are.
LEMMA LiveMove ==
    ASSUME LiveInv, NEW t \in Threads, NEW from \in PC \ {"idle"}, NEW to \in PC,
           Goto(t, from, to),
           UNCHANGED <<rules, list, live>>,
           at' \in [Threads -> Nat \ {0}], rule' \in [Threads -> Rules \cup {NoRule}],
           \A u \in Threads \ {t} : at'[u] = at[u] /\ rule'[u] = rule[u],
           to \in {"clock", "store"} =>
               /\ at'[t] \in DOMAIN list[t]
               /\ <<list[t][at'[t]], rule'[t]>> \in live[t]
    PROVE  LiveInv'
<1>1. pc' = [pc EXCEPT ![t] = to] /\ pc[t] = from /\ pc \in [Threads -> PC]
  BY DEF Goto, LiveInv, Shape
<1>2. Table' = Table
  BY DEF Table
<1>3. Shape'
  BY <1>1 DEF LiveInv, Shape
<1>4. ASSUME NEW u \in Threads, pc'[u] # "idle"
      PROVE  Table' \subseteq live'[u]
  <2>1. pc[u] # "idle"
    BY <1>1, <1>4
  <2> QED
    BY <1>2, <2>1 DEF LiveInv
<1>5. ASSUME NEW u \in Threads, pc'[u] \in {"clock", "store"}
      PROVE  at'[u] \in DOMAIN list'[u] /\ <<list'[u][at'[u]], rule'[u]>> \in live'[u]
  <2>1. CASE u = t
    <3>1. to \in {"clock", "store"}
      BY <1>1, <1>5, <2>1
    <3> QED
      BY <2>1, <3>1
  <2>2. CASE u # t
    <3>1. pc[u] \in {"clock", "store"} /\ at'[u] = at[u] /\ rule'[u] = rule[u]
      BY <1>1, <1>5, <2>2
    <3>2. at[u] \in DOMAIN list[u] /\ <<list[u][at[u]], rule[u]>> \in live[u]
      BY <3>1 DEF LiveInv, Name
    <3> QED
      BY <3>1, <3>2
  <2> QED
    BY <2>1, <2>2
<1> QED
  BY <1>3, <1>4, <1>5 DEF LiveInv, Name

\* What the steps that hold a rule already know.
LEMMA LiveHeld ==
    ASSUME LiveInv, NEW t \in Threads
    PROVE  /\ at \in [Threads -> Nat \ {0}] /\ rule \in [Threads -> Rules \cup {NoRule}]
           /\ pc[t] \in {"clock", "store"} =>
                  at[t] \in DOMAIN list[t] /\ <<list[t][at[t]], rule[t]>> \in live[t]
  BY DEF LiveInv, Shape, Name

LEMMA LiveChange ==
    ASSUME LiveInv, NEW name \in Names, NEW new \in Rules \cup {NoRule},
           SetRule(name, new), UNCHANGED <<list, at, rule>>,
           pc' \in [Threads -> PC],
           \A u \in Threads : pc[u] = "idle" => pc'[u] = "idle",
           \A u \in Threads : pc'[u] \in {"clock", "store"} => pc[u] = pc'[u]
    PROVE  LiveInv'
<1>1. /\ rules' \in [Names -> Rules \cup {NoRule}]
      /\ live' \in [Threads -> SUBSET Changing]
      /\ \A t \in Threads : live[t] \subseteq live'[t]
      /\ \A t \in Threads : pc[t] # "idle" => Table' \subseteq live'[t]
  BY ChangedTable
<1>2. Shape'
  BY <1>1 DEF LiveInv, Shape
<1>3. \A u \in Threads : pc'[u] # "idle" => Table' \subseteq live'[u]
  BY <1>1
<1>4. ASSUME NEW u \in Threads, pc'[u] \in {"clock", "store"}
      PROVE  at'[u] \in DOMAIN list'[u] /\ <<list'[u][at'[u]], rule'[u]>> \in live'[u]
  <2>1. at[u] \in DOMAIN list[u] /\ <<list[u][at[u]], rule[u]>> \in live[u]
    BY <1>4 DEF LiveInv, Name
  <2> QED
    BY <1>1, <2>1
<1> QED
  BY <1>2, <1>3, <1>4 DEF LiveInv, Name

-----------------------------------------------------------------------------

LEMMA LiveStep ==
    ASSUME LiveInv, NEW t \in Threads, Step(t)
    PROVE  LiveInv'
<1> USE DEF PC
<1>0. /\ at \in [Threads -> Nat \ {0}] /\ rule \in [Threads -> Rules \cup {NoRule}]
      /\ pc[t] \in {"clock", "store"} =>
             at[t] \in DOMAIN list[t] /\ <<list[t][at[t]], rule[t]>> \in live[t]
  BY LiveHeld
<1>1. CASE Check(t)
  <2>1. PICK names \in Lists : Goto(t, "idle", "resolve") /\ StartOf(t, names)
    BY <1>1 DEF Check
  <2> QED
    BY <2>1, LiveStart, RuleTableAssumption
<1>2. CASE CallDecorated(t)
  <2>1. <<LazyName>> \in Seq(Names)
    BY RuleTableAssumption
  <2>2. Goto(t, "idle", IF created THEN "resolve" ELSE "create") /\ StartOf(t, <<LazyName>>)
    BY <1>2 DEF CallDecorated
  <2> QED
    BY <2>1, <2>2, LiveStart
<1>3. CASE CreateRule(t)
  <2>1. /\ pc' = [pc EXCEPT ![t] = "created"] /\ pc[t] = "create" /\ pc \in [Threads -> PC]
        /\ SetRule(LazyName, LazyRule) /\ UNCHANGED <<list, at, rule>>
    BY <1>3 DEF CreateRule, Goto, LiveInv, Shape
  <2>2. /\ pc' \in [Threads -> PC]
        /\ \A u \in Threads : pc[u] = "idle" => pc'[u] = "idle"
        /\ \A u \in Threads : pc'[u] \in {"clock", "store"} => pc[u] = pc'[u]
    BY <2>1
  <2> QED
    BY <2>1, <2>2, LiveChange, RuleTableAssumption
<1>4. CASE MarkCreated(t)
  <2>1. Goto(t, "created", "resolve") /\ UNCHANGED <<rules, list, live, at, rule>>
    BY <1>4 DEF MarkCreated, historyVars
  <2> QED
    BY <1>0, <2>1, LiveMove
<1>5. CASE Resolve(t)
  <2>1. /\ Goto(t, "resolve", "clock") /\ UNCHANGED <<rules, list, live, at>>
        /\ at[t] <= Len(list[t]) /\ rule' = [rule EXCEPT ![t] = rules[list[t][at[t]]]]
    BY <1>5 DEF Resolve, tableVars, historyVars
  <2>2. at[t] \in DOMAIN list[t] /\ list[t][at[t]] \in Names
    BY <2>1 DEF LiveInv, Shape
  <2>3. rules[list[t][at[t]]] \in Rules \cup {NoRule}
    BY <2>2 DEF LiveInv, Shape
  <2>4. <<list[t][at[t]], rules[list[t][at[t]]]>> \in live[t]
    <3>1. Table \subseteq live[t]
      BY <2>1 DEF LiveInv, Goto
    <3> QED
      BY <2>2, <3>1 DEF Table
  <2>5. /\ rule' \in [Threads -> Rules \cup {NoRule}]
        /\ rule'[t] = rules[list[t][at[t]]]
        /\ \A u \in Threads \ {t} : rule'[u] = rule[u]
    BY <1>0, <2>1, <2>3
  <2> QED
    BY <1>0, <2>1, <2>2, <2>4, <2>5, LiveMove
<1>6. CASE Unknown(t) \/ EmptyList(t)
  <2>1. Goto(t, "resolve", "idle") /\ UNCHANGED <<rules, list, live, at, rule>>
    BY <1>6 DEF Unknown, EmptyList, Raise, tableVars
  <2> QED
    BY <1>0, <2>1, LiveMove
<1>7. CASE ReadClock(t)
  <2>1. Goto(t, "clock", "store") /\ UNCHANGED <<rules, list, live, at, rule>>
    BY <1>7 DEF ReadClock, tableVars, historyVars
  <2>2. pc[t] = "clock"
    BY <2>1 DEF Goto
  <2> QED
    BY <1>0, <2>1, <2>2, LiveMove
<1>8. CASE Admitted(t)
  <2>1. PICK to \in {"idle", "resolve"} : Goto(t, "store", to)
    BY <1>8 DEF Admitted
  <2>2. UNCHANGED <<rules, list, live, rule>> /\ at' = [at EXCEPT ![t] = @ + 1]
    BY <1>8 DEF Admitted, tableVars
  <2>3. /\ at' \in [Threads -> Nat \ {0}]
        /\ \A u \in Threads \ {t} : at'[u] = at[u] /\ rule'[u] = rule[u]
    BY <1>0, <2>2
  <2>4. CASE to = "idle"
    BY <1>0, <2>1, <2>2, <2>3, <2>4, LiveMove
  <2>5. CASE to = "resolve"
    BY <1>0, <2>1, <2>2, <2>3, <2>5, LiveMove
  <2> QED
    BY <2>1, <2>4, <2>5
<1>9. CASE Refused(t)
  <2>1. Goto(t, "store", "idle") /\ UNCHANGED <<rules, list, live, at, rule>>
    BY <1>9 DEF Refused, tableVars
  <2> QED
    BY <1>0, <2>1, LiveMove
<1> QED
  BY <1>1, <1>2, <1>3, <1>4, <1>5, <1>6, <1>7, <1>8, <1>9 DEF Step

LEMMA LiveNext == ASSUME LiveInv, [Next]_vars PROVE LiveInv'
<1>1. CASE UNCHANGED <<rules, pc, list, at, rule, live>>
  <2>1. Table' = Table
    BY <1>1 DEF Table
  <2> QED
    BY <1>1, <2>1 DEF LiveInv, Shape, Name
<1>2. CASE \E t \in Threads : Step(t)
  BY <1>2, LiveStep
<1>3. CASE AddRule \/ RemoveRule
  <2>1. PICK name \in Names, new \in Rules \cup {NoRule} : Change(name, new)
    BY <1>3 DEF AddRule, RemoveRule
  <2>2. SetRule(name, new) /\ UNCHANGED <<pc, list, at, rule>>
    BY <2>1 DEF Change, localVars
  <2>3. pc' \in [Threads -> PC]
    BY <2>2 DEF LiveInv, Shape
  <2> QED
    BY <2>2, <2>3, LiveChange
<1>4. ASSUME Tick \/ StepBack \/ Finished \/ UNCHANGED vars
      PROVE  UNCHANGED <<rules, pc, list, at, rule, live>>
  BY <1>4 DEF Tick, StepBack, Finished, vars, tableVars, localVars, historyVars
<1> QED
  BY <1>1, <1>2, <1>3, <1>4 DEF Next

\* No check is decided under a rule that had left the table before it began,
\* whatever add_rule, remove_rule and the decorator do meanwhile.
THEOREM LiveRuleHolds == Spec => []DecidedUnderLiveRule
<1>1. Init => LiveInv
  BY LiveInit
<1>2. LiveInv /\ [Next]_vars => LiveInv'
  BY LiveNext
<1>3. LiveInv => DecidedUnderLiveRule
  BY DEF LiveInv, DecidedUnderLiveRule
<1> QED
  BY <1>1, <1>2, <1>3, PTL DEF Spec

-----------------------------------------------------------------------------

\* The threads at a program counter.
In(p) == {t \in Threads : pc[t] = p}

\* Before the flag is set, whoever added the rule is about to set it; and a thread
\* that adds it again can only be one that found the flag unset.
OnceInv ==
    /\ pc \in [Threads -> PC] /\ created \in BOOLEAN /\ creations \in Nat
    /\ creations + Cardinality(In("create")) <= Cardinality(Threads)
    /\ ~created => creations <= Cardinality(In("created"))

LEMMA InType ==
    ASSUME IsFiniteSet(Threads), NEW p
    PROVE  In(p) \in SUBSET Threads /\ IsFiniteSet(In(p)) /\ Cardinality(In(p)) \in Nat
  BY FS_Subset, FS_CardinalityType DEF In

\* A thread that moves leaves one set for another.
LEMMA Moved ==
    ASSUME IsFiniteSet(Threads), pc \in [Threads -> PC],
           NEW t \in Threads, NEW from \in PC, NEW to \in PC \ {from}, Goto(t, from, to), NEW p
    PROVE  Cardinality(In(p)') = IF p = to THEN Cardinality(In(p)) + 1
                                 ELSE IF p = from THEN Cardinality(In(p)) - 1
                                 ELSE Cardinality(In(p))
<1>1. pc' = [pc EXCEPT ![t] = to] /\ pc[t] = from
  BY DEF Goto
<1>2. IsFiniteSet(In(p))
  BY InType
<1>3. CASE p = to
  <2>1. In(p)' = In(p) \cup {t} /\ t \notin In(p)
    BY <1>1, <1>3 DEF In
  <2> QED
    BY <1>2, <1>3, <2>1, FS_AddElement
<1>4. CASE p # to /\ p = from
  <2>1. In(p)' = In(p) \ {t} /\ t \in In(p)
    BY <1>1, <1>4 DEF In
  <2> QED
    BY <1>2, <1>4, <2>1, FS_RemoveElement
<1>5. CASE p # to /\ p # from
  <2>1. In(p)' = In(p)
    BY <1>1, <1>5 DEF In
  <2> QED
    BY <1>5, <2>1
<1> QED
  BY <1>3, <1>4, <1>5

\* Two sets that share no thread.
LEMMA SetsApart ==
    ASSUME NEW S \in SUBSET Threads, NEW T \in SUBSET Threads, S \cap T = {}, IsFiniteSet(Threads)
    PROVE  Cardinality(S) + Cardinality(T) <= Cardinality(Threads)
<1>1. IsFiniteSet(S) /\ IsFiniteSet(T) /\ S \cup T \in SUBSET Threads
  BY FS_Subset
<1>2. Cardinality(S \cup T) = Cardinality(S) + Cardinality(T) - Cardinality(S \cap T)
  BY <1>1, FS_Union
<1>3. Cardinality(S \cap T) = 0 /\ Cardinality(S) \in Nat /\ Cardinality(T) \in Nat
  BY <1>1, FS_EmptySet, FS_CardinalityType
<1>4. Cardinality(S \cup T) <= Cardinality(Threads)
  BY <1>1, FS_Subset
<1> QED
  BY <1>2, <1>3, <1>4

\* A step that neither begins nor ends the adding of the rule.
LEMMA OnceElsewhere ==
    ASSUME IsFiniteSet(Threads), OnceInv, NEW t \in Threads,
           NEW from \in PC \ {"create", "created"}, NEW to \in PC \ {"create", "created"},
           Goto(t, from, to), UNCHANGED <<created, creations>>
    PROVE  OnceInv'
<1>1. pc' \in [Threads -> PC]
  BY DEF Goto, OnceInv
<1>2. In("create")' = In("create") /\ In("created")' = In("created")
  BY DEF Goto, OnceInv, In
<1> QED
  BY <1>1, <1>2 DEF OnceInv

LEMMA OnceStep ==
    ASSUME IsFiniteSet(Threads), OnceInv, NEW t \in Threads, Step(t)
    PROVE  OnceInv'
<1> USE DEF PC
<1>0. /\ pc \in [Threads -> PC] /\ created \in BOOLEAN /\ creations \in Nat
      /\ Cardinality(In("create")) \in Nat /\ Cardinality(In("created")) \in Nat
      /\ Cardinality(Threads) \in Nat
  BY InType, FS_CardinalityType DEF OnceInv
<1>1. CASE Check(t)
  <2>1. Goto(t, "idle", "resolve") /\ UNCHANGED <<created, creations>>
    BY <1>1 DEF Check, StartOf, tableVars
  <2> QED
    BY <2>1, OnceElsewhere
<1>2. CASE CallDecorated(t)
  <2>1. /\ Goto(t, "idle", IF created THEN "resolve" ELSE "create")
        /\ UNCHANGED <<created, creations>>
    BY <1>2 DEF CallDecorated, StartOf, tableVars
  <2>2. CASE created
    BY <2>1, <2>2, OnceElsewhere
  <2>3. CASE ~created
    <3>1. Goto(t, "idle", "create")
      BY <2>1, <2>3
    <3>2. pc' \in [Threads -> PC]
      BY <1>0, <3>1 DEF Goto
    <3>3. /\ Cardinality(In("create")') = Cardinality(In("create")) + 1
          /\ Cardinality(In("created")') = Cardinality(In("created"))
      BY <1>0, <3>1, Moved
    <3>4. Cardinality(In("create")') + Cardinality(In("created")') <= Cardinality(Threads)
      <4>1. In("create")' \in SUBSET Threads /\ In("created")' \in SUBSET Threads
        BY DEF In
      <4>2. In("create")' \cap In("created")' = {}
        BY DEF In
      <4> QED
        BY <4>1, <4>2, SetsApart
    <3> QED
      BY <1>0, <2>1, <2>3, <3>2, <3>3, <3>4 DEF OnceInv
  <2> QED
    BY <1>0, <2>2, <2>3
<1>3. CASE CreateRule(t)
  <2>1. Goto(t, "create", "created") /\ created' = created /\ creations' = creations + 1
    BY <1>3 DEF CreateRule
  <2>2. pc' \in [Threads -> PC]
    BY <1>0, <2>1 DEF Goto
  <2>3. /\ Cardinality(In("create")') = Cardinality(In("create")) - 1
        /\ Cardinality(In("created")') = Cardinality(In("created")) + 1
    BY <1>0, <2>1, Moved
  <2> QED
    BY <1>0, <2>1, <2>2, <2>3 DEF OnceInv
<1>4. CASE MarkCreated(t)
  <2>1. Goto(t, "created", "resolve") /\ created' = TRUE /\ creations' = creations
    BY <1>4 DEF MarkCreated, historyVars
  <2>2. pc' \in [Threads -> PC]
    BY <1>0, <2>1 DEF Goto
  <2>3. Cardinality(In("create")') = Cardinality(In("create"))
    BY <1>0, <2>1, Moved
  <2> QED
    BY <1>0, <2>1, <2>2, <2>3 DEF OnceInv
<1>5. CASE Resolve(t)
  BY <1>5, OnceElsewhere DEF Resolve, tableVars, historyVars
<1>6. CASE Unknown(t) \/ EmptyList(t)
  BY <1>6, OnceElsewhere DEF Unknown, EmptyList, Raise, tableVars
<1>7. CASE ReadClock(t)
  BY <1>7, OnceElsewhere DEF ReadClock, tableVars, historyVars
<1>8. CASE Admitted(t)
  <2>1. PICK to \in {"idle", "resolve"} : Goto(t, "store", to)
    BY <1>8 DEF Admitted
  <2>2. UNCHANGED <<created, creations>>
    BY <1>8 DEF Admitted, tableVars
  <2> QED
    BY <2>1, <2>2, OnceElsewhere
<1>9. CASE Refused(t)
  BY <1>9, OnceElsewhere DEF Refused, tableVars
<1> QED
  BY <1>1, <1>2, <1>3, <1>4, <1>5, <1>6, <1>7, <1>8, <1>9 DEF Step

LEMMA OnceNext == ASSUME IsFiniteSet(Threads), OnceInv, [Next]_vars PROVE OnceInv'
<1>1. ASSUME UNCHANGED <<pc, created, creations>>
      PROVE  OnceInv'
  BY <1>1 DEF OnceInv, In
<1>2. CASE \E t \in Threads : Step(t)
  BY <1>2, OnceStep
<1>3. ASSUME AddRule \/ RemoveRule \/ Tick \/ StepBack \/ Finished \/ UNCHANGED vars
      PROVE  UNCHANGED <<pc, created, creations>>
  BY <1>3 DEF AddRule, RemoveRule, Change, Tick, StepBack, Finished, vars, tableVars, localVars, historyVars
<1> QED
  BY <1>1, <1>2, <1>3 DEF Next

\* However many first calls of the decorated function find the flag unset, each
\* thread adds its rule at most once.
THEOREM AddedOncePerThreadHolds == Spec => []AddedOncePerThread
<1>1. Init => OnceInv
  <2> SUFFICES ASSUME Init PROVE OnceInv
    OBVIOUS
  <2>1. In("create") = {}
    BY DEF Init, In
  <2>2. Cardinality(In("create")) = 0 /\ Cardinality(In("created")) \in Nat
    BY <2>1, FS_EmptySet, InType, ThreadsAssumption
  <2>3. Cardinality(Threads) \in Nat
    BY FS_CardinalityType, ThreadsAssumption
  <2>4. pc \in [Threads -> PC] /\ created = FALSE /\ creations = 0
    BY DEF Init, PC
  <2>5. /\ creations \in Nat /\ creations + Cardinality(In("create")) <= Cardinality(Threads)
        /\ creations <= Cardinality(In("created"))
    BY <2>2, <2>3, <2>4
  <2> QED
    BY <2>4, <2>5, Zenon DEF OnceInv
<1>2. OnceInv /\ [Next]_vars => OnceInv'
  BY OnceNext, ThreadsAssumption
<1>3. OnceInv => AddedOncePerThread
  <2> SUFFICES ASSUME OnceInv PROVE AddedOncePerThread
    OBVIOUS
  <2>1. Cardinality(In("create")) \in Nat /\ Cardinality(Threads) \in Nat
    BY InType, FS_CardinalityType, ThreadsAssumption
  <2> QED
    BY <2>1 DEF OnceInv, AddedOncePerThread
<1> QED
  BY <1>1, <1>2, <1>3, PTL DEF Spec

-----------------------------------------------------------------------------
\* The ledgers are counts, and a check in progress is at a position of its list or at
\* the one behind its end.
LedgerInv ==
    /\ LiveInv
    /\ served \in Ledger /\ lost \in Ledger
    /\ \A t \in Threads : pc[t] # "idle" => at[t] <= Len(list[t]) + 1

\* What the checks have paid for is as it was.
PaidKept == \A n \in Names : Paid(n)' = Paid(n)

LEMMA AdmittedFinite ==
    ASSUME LedgerInv, NEW t \in Threads, NEW n
    PROVE  IsFiniteSet(AdmittedSoFar(t, n)) /\ Cardinality(AdmittedSoFar(t, n)) \in Nat
<1>1. at[t] - 1 \in Int
  BY DEF LedgerInv, LiveInv, Shape
<1>2. IsFiniteSet(1 .. at[t] - 1)
  BY <1>1, FS_Interval
<1>3. AdmittedSoFar(t, n) \in SUBSET (1 .. at[t] - 1)
  BY DEF AdmittedSoFar
<1> QED
  BY <1>2, <1>3, FS_Subset, FS_CardinalityType

\* A step of t changes what is in progress by as much as what t has been admitted by.
LEMMA ProgressMoves ==
    ASSUME LedgerInv, NEW t \in Threads, NEW n, NEW S, IsFiniteSet(S),
           AdmittedSoFar(t, n)' = S,
           \A u \in Threads \ {t} : AdmittedSoFar(u, n)' = AdmittedSoFar(u, n)
    PROVE  /\ Cardinality(InProgress(n)) \in Nat /\ Cardinality(InProgress(n)') \in Nat
           /\ Cardinality(InProgress(n)') + Cardinality(AdmittedSoFar(t, n))
                  = Cardinality(InProgress(n)) + Cardinality(S)
<1> DEFINE F == [u \in Threads |-> AdmittedSoFar(u, n)]
           G == [u \in Threads |-> AdmittedSoFar(u, n)']
<1>1. \A u \in Threads : IsFiniteSet(F[u])
  BY AdmittedFinite
<1>2. IsFiniteSet(G[t]) /\ \A u \in Threads \ {t} : G[u] = F[u]
  OBVIOUS
<1>3. InProgress(n) = UNION {{u} \X F[u] : u \in Threads}
  BY DEF InProgress
<1>4. InProgress(n)' = UNION {{u} \X G[u] : u \in Threads}
  BY DEF InProgress
<1>5. F[t] = AdmittedSoFar(t, n) /\ G[t] = S
  OBVIOUS
<1> HIDE DEF F, G
<1> QED
  BY <1>1, <1>2, <1>3, <1>4, <1>5, ThreadsAssumption, OneSetReplaced

\* The name at the position of t, admitted too.
LEMMA OneMore ==
    ASSUME LedgerInv, NEW t \in Threads, NEW n, pc[t] # "idle", at[t] \in DOMAIN list[t]
    PROVE  LET S == {i \in 1 .. at[t] : list[t][i] = n}
           IN  /\ IsFiniteSet(S)
               /\ Cardinality(S) = Cardinality(AdmittedSoFar(t, n)) + (IF Name(t) = n THEN 1 ELSE 0)
<1> DEFINE S == {i \in 1 .. at[t] : list[t][i] = n}
<1>1. at[t] \in Nat \ {0}
  BY DEF LedgerInv, LiveInv, Shape
<1>2. AdmittedSoFar(t, n) = {i \in 1 .. at[t] - 1 : list[t][i] = n}
  BY DEF AdmittedSoFar
<1>3. CASE Name(t) = n
  <2>1. S = AdmittedSoFar(t, n) \cup {at[t]} /\ at[t] \notin AdmittedSoFar(t, n)
    BY <1>1, <1>2, <1>3 DEF Name
  <2> QED
    BY <1>3, <2>1, AdmittedFinite, FS_AddElement
<1>4. CASE Name(t) # n
  <2>1. S = AdmittedSoFar(t, n)
    BY <1>1, <1>2, <1>4 DEF Name
  <2> QED
    BY <1>4, <2>1, AdmittedFinite
<1> QED
  BY <1>3, <1>4

\* The positions up to the one of t, entered in a ledger.
LEMMA BookedPrefix ==
    ASSUME LedgerInv, NEW t \in Threads, pc[t] # "idle", NEW ledger \in Ledger, NEW n \in Names
    PROVE  Booked(ledger, SubSeq(list[t], 1, at[t] - 1))[n]
               = ledger[n] + Cardinality(AdmittedSoFar(t, n))
<1> DEFINE names == SubSeq(list[t], 1, at[t] - 1)
<1>1. /\ list[t] \in Seq(Names) /\ at[t] \in Nat \ {0} /\ at[t] <= Len(list[t]) + 1
  BY DEF LedgerInv, LiveInv, Shape
<1>2. /\ DOMAIN names = 1 .. at[t] - 1
      /\ \A i \in 1 .. at[t] - 1 : names[i] = list[t][i]
  BY <1>1
<1>3. {i \in DOMAIN names : names[i] = n} = AdmittedSoFar(t, n)
  BY <1>2 DEF AdmittedSoFar
<1> QED
  BY <1>3 DEF Booked

LEMMA BookedType ==
    ASSUME NEW ledger \in Ledger, NEW names \in Seq(Names)
    PROVE  Booked(ledger, names) \in Ledger
<1>1. ASSUME NEW n \in Names
      PROVE  Cardinality({i \in DOMAIN names : names[i] = n}) \in Nat
  <2>1. IsFiniteSet(1 .. Len(names)) /\ DOMAIN names = 1 .. Len(names)
    BY FS_Interval
  <2>2. {i \in DOMAIN names : names[i] = n} \in SUBSET (1 .. Len(names))
    BY <2>1
  <2> QED
    BY <2>1, <2>2, FS_Subset, FS_CardinalityType
<1> QED
  BY <1>1 DEF Booked, Ledger

-----------------------------------------------------------------------------

\* A step that neither decides nor ends a check, and leaves the position as it is or
\* sets it to the first.
LEMMA LedgerElsewhere ==
    ASSUME LedgerInv, LiveInv', NEW t \in Threads, NEW from \in PC, NEW to \in PC \ {"idle"},
           Goto(t, from, to), UNCHANGED ledgerVars,
           \A u \in Threads \ {t} : at'[u] = at[u] /\ list'[u] = list[u],
           IF from = "idle" THEN at'[t] = 1 ELSE at'[t] = at[t] /\ list'[t] = list[t]
    PROVE  LedgerInv' /\ PaidKept
<1>1. pc' = [pc EXCEPT ![t] = to] /\ pc[t] = from /\ pc \in [Threads -> PC]
  BY DEF Goto, LedgerInv, LiveInv, Shape
<1>2. list'[t] \in Seq(Names)
  BY DEF LiveInv, Shape
<1>3. \A u \in Threads : pc'[u] # "idle" => at'[u] <= Len(list'[u]) + 1
  BY <1>1, <1>2 DEF LedgerInv
<1>4. ASSUME NEW u \in Threads, NEW n
      PROVE  AdmittedSoFar(u, n)' = AdmittedSoFar(u, n)
  <2>1. CASE u # t \/ from # "idle"
    BY <1>1, <2>1 DEF AdmittedSoFar
  <2>2. CASE u = t /\ from = "idle"
    BY <1>1, <2>2 DEF AdmittedSoFar
  <2> QED
    BY <2>1, <2>2
<1>5. \A n : InProgress(n)' = InProgress(n)
  BY <1>4 DEF InProgress
<1>6. PaidKept
  BY <1>5 DEF PaidKept, Paid, ledgerVars
<1> QED
  BY <1>3, <1>6 DEF LedgerInv, ledgerVars

\* A check that is ended: what it has been admitted by is lost.
LEMMA LedgerEnds ==
    ASSUME LedgerInv, LiveInv', NEW t \in Threads, NEW from \in PC \ {"idle"},
           Goto(t, from, "idle"), UNCHANGED <<list, at, served>>,
           lost' = Booked(lost, SubSeq(list[t], 1, at[t] - 1))
    PROVE  LedgerInv' /\ PaidKept
<1>1. pc' = [pc EXCEPT ![t] = "idle"] /\ pc[t] = from /\ pc \in [Threads -> PC]
  BY DEF Goto, LedgerInv, LiveInv, Shape
<1>2. \A u \in Threads : pc'[u] # "idle" => at'[u] <= Len(list'[u]) + 1
  BY <1>1 DEF LedgerInv
<1>3. served \in Ledger /\ lost \in Ledger
  BY DEF LedgerInv
<1>4. SubSeq(list[t], 1, at[t] - 1) \in Seq(Names)
  <2>1. list[t] \in Seq(Names) /\ at[t] \in Nat \ {0} /\ at[t] <= Len(list[t]) + 1
    BY <1>1 DEF LedgerInv, LiveInv, Shape
  <2>2. \A i \in 1 .. at[t] - 1 : list[t][i] \in Names
    BY <2>1
  <2> QED
    BY <2>1, <2>2, SubSeqProperties
<1>5. lost' \in Ledger
  BY <1>3, <1>4, BookedType
<1>6. ASSUME NEW n \in Names
      PROVE  Paid(n)' = Paid(n)
  <2>1. AdmittedSoFar(t, n)' = {} /\ \A u \in Threads \ {t} : AdmittedSoFar(u, n)' = AdmittedSoFar(u, n)
    BY <1>1 DEF AdmittedSoFar
  <2>2. /\ Cardinality(InProgress(n)) \in Nat /\ Cardinality(InProgress(n)') \in Nat
        /\ Cardinality(InProgress(n)') + Cardinality(AdmittedSoFar(t, n)) = Cardinality(InProgress(n)) + 0
    BY <2>1, ProgressMoves, FS_EmptySet, ZenonT(40)
  <2>3. lost'[n] = lost[n] + Cardinality(AdmittedSoFar(t, n))
    BY <1>1, <1>3, BookedPrefix
  <2>4. served[n] \in Nat /\ lost[n] \in Nat /\ Cardinality(AdmittedSoFar(t, n)) \in Nat
    BY <1>3, AdmittedFinite DEF Ledger
  <2>5. Paid(n)' = served[n] + lost'[n] + Cardinality(InProgress(n)')
    BY DEF Paid
  <2> QED
    BY <2>2, <2>3, <2>4, <2>5 DEF Paid
<1> QED
  BY <1>2, <1>3, <1>5, <1>6 DEF LedgerInv, PaidKept

\* An admission that is not the last of its check is in progress, one that is pays
\* with the others for a check that is allowed.
LEMMA LedgerAdmitted ==
    ASSUME LedgerInv, LiveInv', NEW t \in Threads, Admitted(t)
    PROVE  /\ LedgerInv'
           /\ \A n \in Names : Paid(n)' = Paid(n) + (IF Name(t) = n THEN 1 ELSE 0)
<1> DEFINE last == at[t] = Len(list[t])
<1>1. /\ pc \in [Threads -> PC] /\ pc[t] = "store"
      /\ pc' = [pc EXCEPT ![t] = IF last THEN "idle" ELSE "resolve"]
      /\ at' = [at EXCEPT ![t] = @ + 1] /\ UNCHANGED <<list, lost>>
      /\ served' = IF last THEN Booked(served, list[t]) ELSE served
  BY DEF Admitted, Goto, LedgerInv, LiveInv, Shape
<1>2. /\ list[t] \in Seq(Names) /\ at[t] \in DOMAIN list[t]
      /\ at \in [Threads -> Nat \ {0}]
  BY <1>1 DEF LedgerInv, LiveInv, Shape
<1>3. served \in Ledger /\ lost \in Ledger
  BY DEF LedgerInv
<1>4. served' \in Ledger
  BY <1>1, <1>2, <1>3, BookedType
<1>5. ASSUME NEW u \in Threads, pc'[u] # "idle"
      PROVE  at'[u] <= Len(list'[u]) + 1
  <2>1. CASE u = t
    BY <1>1, <1>2, <2>1
  <2>2. CASE u # t
    BY <1>1, <1>2, <1>5, <2>2 DEF LedgerInv
  <2> QED
    BY <2>1, <2>2
<1>6. ASSUME NEW n \in Names
      PROVE  Paid(n)' = Paid(n) + (IF Name(t) = n THEN 1 ELSE 0)
  <2> DEFINE S == {i \in 1 .. at[t] : list[t][i] = n}
             one == IF Name(t) = n THEN 1 ELSE 0
  <2>1. IsFiniteSet(S) /\ Cardinality(S) = Cardinality(AdmittedSoFar(t, n)) + one
    BY <1>1, <1>2, OneMore
  <2>2. \A u \in Threads \ {t} : AdmittedSoFar(u, n)' = AdmittedSoFar(u, n)
    BY <1>1, <1>2 DEF AdmittedSoFar
  <2>3. /\ served[n] \in Nat /\ lost[n] \in Nat /\ one \in Nat
        /\ Cardinality(AdmittedSoFar(t, n)) \in Nat
    BY <1>3, AdmittedFinite DEF Ledger
  <2>4. Paid(n)' = served'[n] + lost[n] + Cardinality(InProgress(n)')
    BY <1>1 DEF Paid
  <2>5. CASE last
    <3>1. AdmittedSoFar(t, n)' = {}
      BY <1>1, <2>5 DEF AdmittedSoFar
    <3>2. /\ Cardinality(InProgress(n)) \in Nat /\ Cardinality(InProgress(n)') \in Nat
          /\ Cardinality(InProgress(n)') + Cardinality(AdmittedSoFar(t, n)) = Cardinality(InProgress(n)) + 0
      BY <2>2, <3>1, ProgressMoves, FS_EmptySet
    <3>3. S = {i \in DOMAIN list[t] : list[t][i] = n}
      BY <1>2, <2>5
    <3>4. served'[n] = served[n] + Cardinality(S)
      BY <1>1, <2>5, <3>3 DEF Booked
    <3>5. Paid(n) = served[n] + lost[n] + Cardinality(InProgress(n))
      BY DEF Paid
    <3> HIDE DEF S, one
    <3>6. Paid(n)' = Paid(n) + one
      BY <2>1, <2>3, <2>4, <3>2, <3>4, <3>5
    <3> QED
      BY <3>6 DEF one
  <2>6. CASE ~last
    <3>1. AdmittedSoFar(t, n)' = S
      BY <1>1, <1>2, <2>6 DEF AdmittedSoFar
    <3>2. /\ Cardinality(InProgress(n)) \in Nat /\ Cardinality(InProgress(n)') \in Nat
          /\ Cardinality(InProgress(n)') + Cardinality(AdmittedSoFar(t, n))
                 = Cardinality(InProgress(n)) + Cardinality(S)
      BY <2>1, <2>2, <3>1, ProgressMoves, ZenonT(40)
    <3>3. served'[n] = served[n] /\ Paid(n) = served[n] + lost[n] + Cardinality(InProgress(n))
      BY <1>1, <2>6 DEF Paid
    <3> HIDE DEF S, one
    <3>4. Paid(n)' = Paid(n) + one
      BY <2>1, <2>3, <2>4, <3>2, <3>3
    <3> QED
      BY <3>4 DEF one
  <2> QED
    BY <2>5, <2>6
<1> QED
  BY <1>1, <1>3, <1>4, <1>5, <1>6 DEF LedgerInv

LEMMA LedgerStep ==
    ASSUME LedgerInv, LiveInv', NEW t \in Threads, Step(t)
    PROVE  LedgerInv' /\ (Admitted(t) \/ PaidKept)
<1> USE DEF PC
<1>0. at \in [Threads -> Nat \ {0}] /\ list \in [Threads -> Seq(Names)]
  BY DEF LedgerInv, LiveInv, Shape
<1>1. CASE Check(t) \/ CallDecorated(t)
  <2>0. PICK to \in {"resolve", "create"} : Goto(t, "idle", to)
    BY <1>1 DEF Check, CallDecorated
  <2>1. PICK names : StartOf(t, names)
    BY <1>1 DEF Check, CallDecorated
  <2>2. /\ list' = [list EXCEPT ![t] = names] /\ at' = [at EXCEPT ![t] = 1]
        /\ UNCHANGED ledgerVars
    BY <2>1 DEF StartOf
  <2> QED
    BY <1>0, <2>0, <2>2, LedgerElsewhere
<1>2. CASE CreateRule(t)
  BY <1>2, LedgerElsewhere DEF CreateRule
<1>3. CASE MarkCreated(t)
  BY <1>3, LedgerElsewhere DEF MarkCreated, historyVars
<1>4. CASE Resolve(t)
  BY <1>4, LedgerElsewhere DEF Resolve, historyVars
<1>5. CASE Unknown(t) \/ EmptyList(t)
  BY <1>5, LedgerEnds DEF Unknown, EmptyList, Raise
<1>6. CASE ReadClock(t)
  BY <1>6, LedgerElsewhere DEF ReadClock, historyVars
<1>7. CASE Admitted(t)
  BY <1>7, LedgerAdmitted
<1>8. CASE Refused(t)
  BY <1>8, LedgerEnds DEF Refused
<1> QED
  BY <1>1, <1>2, <1>3, <1>4, <1>5, <1>6, <1>7, <1>8 DEF Step

\* A step outside of a check.
LEMMA LedgerWaits ==
    ASSUME LedgerInv, LiveInv', UNCHANGED <<pc, list, at, ledgerVars>>
    PROVE  LedgerInv' /\ PaidKept
<1>1. \A n : InProgress(n)' = InProgress(n)
  BY DEF InProgress, AdmittedSoFar
<1> QED
  BY <1>1 DEF LedgerInv, PaidKept, Paid, ledgerVars

LEMMA LedgerNext == ASSUME LedgerInv, [Next]_vars PROVE LedgerInv'
<1>1. LiveInv'
  BY LiveNext DEF LedgerInv
<1>2. CASE \E t \in Threads : Step(t)
  BY <1>1, <1>2, LedgerStep
<1>3. ASSUME AddRule \/ RemoveRule \/ Tick \/ StepBack \/ Finished \/ UNCHANGED vars
      PROVE  UNCHANGED <<pc, list, at, ledgerVars>>
  BY <1>3 DEF AddRule, RemoveRule, Change, Tick, StepBack, Finished, vars, localVars, historyVars
<1> QED
  BY <1>1, <1>2, <1>3, LedgerWaits DEF Next

LEMMA LedgerInit == ASSUME Init PROVE LedgerInv
<1>1. LiveInv
  BY LiveInit
<1> QED
  BY <1>1 DEF Init, LedgerInv, Ledger

-----------------------------------------------------------------------------
\* Strictest finds a result that has no more to give than any other.
LEMMA StrictestFound ==
    ASSUME NEW found \in Seq(Result), found # <<>>
    PROVE  /\ Strictest(found) \in Result
           /\ \A i \in 1 .. Len(found) : Strictest(found).remaining <= found[i].remaining
<1>1. PICK first : first = Strictest(found)
  OBVIOUS
<1>2. PICK among : among = {found[i] : i \in DOMAIN found}
  OBVIOUS
<1>3. among = Range(found)
  BY <1>2 DEF Range
<1>4. first = CHOOSE r \in among : \A s \in among :
                  \/ r.remaining < s.remaining
                  \/ r.remaining = s.remaining /\ r.reset_at <= s.reset_at
  BY <1>1, <1>3, Zenon DEF Strictest
<1>5. /\ first \in Result
      /\ \A i \in 1 .. Len(found) : first.remaining <= found[i].remaining
  BY <1>2, <1>4, FirstFound, ZenonT(40) DEF Result
<1> QED
  BY <1>1, <1>5

-----------------------------------------------------------------------------
\* TypeOK, with entries that have the shape of their algorithm and with a rule in the
\* hands of every thread that is about to decide.
TypeInv ==
    /\ LedgerInv
    /\ TypeOK
    /\ \A a \in Algorithms, n \in Names : db[a][n] \in EntryOf(a)
    /\ \A t \in Threads : pc[t] \in {"clock", "store"} => rule[t] \in Rules

\* What TypeOK says of the variables that LedgerInv does not mention.
LocalTypes ==
    /\ created \in BOOLEAN
    /\ clock \in 0 .. MaxTime /\ stepsBack \in 0 .. MaxStepsBack
    /\ changes \in 0 .. MaxChanges
    /\ list \in [Threads -> Lists \cup {<<LazyName>>, <<>>}]
    /\ now \in [Threads -> 0 .. MaxTime]
    /\ results \in [Threads -> Seq(Result)]
    /\ checks \in [Threads -> 0 .. MaxChecks]
    /\ reply \in [Threads -> Reply]
    /\ denials \in [Threads -> Nat]
    /\ creations \in Nat

DictTypes ==
    /\ DOMAIN db = Algorithms
    /\ \A a \in Algorithms : db[a] \in [Names -> Entry]
    /\ \A a \in Algorithms, n \in Names : db[a][n] \in EntryOf(a)

HeldTypes == \A t \in Threads : pc[t] \in {"clock", "store"} => rule[t] \in Rules

LEMMA TypeParts == TypeInv <=> LedgerInv /\ LocalTypes /\ DictTypes /\ HeldTypes
  BY DEF TypeInv, TypeOK, LedgerInv, LiveInv, Shape, LocalTypes, DictTypes, HeldTypes, Changing

LEMMA DecisionType ==
    ASSUME LedgerInv, LocalTypes, DictTypes, HeldTypes, NEW t \in Threads, pc[t] = "store"
    PROVE  /\ rule[t].algorithm \in Algorithms /\ Name(t) \in Names
           /\ Decision(t) \in Outcome
           /\ Decision(t).entry \in Entry
           /\ Decision(t).entry \in EntryOf(rule[t].algorithm)
<1>1. rule[t] \in LimitRule
  BY RuleTableAssumption DEF HeldTypes
<1>2. rule[t].algorithm \in Algorithms
  BY <1>1 DEF LimitRule, WindowRule, BucketRule, Algorithms
<1>3. Name(t) \in Names
  <2>1. at[t] \in DOMAIN list[t] /\ list[t] \in Seq(Names)
    BY DEF LedgerInv, LiveInv, Shape
  <2> QED
    BY <2>1 DEF Name
<1>4. EntryUnder(rule[t]) = EntryOf(rule[t].algorithm)
  BY Zenon DEF EntryUnder, EntryOf
<1>5. db[rule[t].algorithm][Name(t)] \in EntryUnder(rule[t])
  BY <1>2, <1>3, <1>4 DEF DictTypes
<1>6. now[t] \in Nat
  BY BoundsAssumption DEF LocalTypes
<1>7. Decision(t) \in Outcome /\ Decision(t).entry \in EntryUnder(rule[t])
  BY <1>1, <1>5, <1>6, DecideType DEF Decision
<1>8. Decision(t).entry \in Entry
  BY <1>7 DEF Outcome
<1> QED
  BY <1>2, <1>3, <1>4, <1>7, <1>8

LEMMA StoredType ==
    ASSUME LedgerInv, LocalTypes, DictTypes, HeldTypes, NEW t \in Threads, pc[t] = "store",
           StoreEntry(t)
    PROVE  DictTypes'
<1> DEFINE alg == rule[t].algorithm
<1>1. /\ alg \in Algorithms /\ Name(t) \in Names
      /\ Decision(t).entry \in Entry /\ Decision(t).entry \in EntryOf(alg)
  BY DecisionType
<1>2. db' = [db EXCEPT ![alg][Name(t)] = Decision(t).entry]
  BY DEF StoreEntry
<1> HIDE DEF alg
<1>3. DOMAIN db' = Algorithms
  BY <1>2 DEF DictTypes
<1>4. ASSUME NEW a \in Algorithms
      PROVE  db'[a] \in [Names -> Entry] /\ \A n \in Names : db'[a][n] \in EntryOf(a)
  <2>1. CASE a = alg
    <3>1. db'[a] = [db[a] EXCEPT ![Name(t)] = Decision(t).entry]
      BY <1>2, <2>1 DEF DictTypes
    <3> QED
      BY <1>1, <2>1, <3>1 DEF DictTypes
  <2>2. CASE a # alg
    <3>1. db'[a] = db[a]
      BY <1>2, <2>2 DEF DictTypes
    <3> QED
      BY <3>1 DEF DictTypes
  <2> QED
    BY <2>1, <2>2
<1> QED
  BY <1>3, <1>4 DEF DictTypes

\* Steps that do not decide.
LEMMA TypeElsewhere ==
    ASSUME TypeInv, LedgerInv', LocalTypes', db' = db,
           \A u \in Threads : pc'[u] \in {"clock", "store"} =>
               rule'[u] \in Rules \/ (pc[u] \in {"clock", "store"} /\ rule'[u] = rule[u])
    PROVE  TypeInv'
<1>1. LedgerInv /\ DictTypes /\ HeldTypes
  BY TypeParts
<1>2. DictTypes'
  BY <1>1 DEF DictTypes
<1>3. HeldTypes'
  BY <1>1 DEF HeldTypes
<1>4. TypeInv' <=> LedgerInv' /\ LocalTypes' /\ DictTypes' /\ HeldTypes'
  BY TypeParts, PTL
<1> QED
  BY <1>2, <1>3, <1>4

LEMMA TypeStart ==
    ASSUME TypeInv, LedgerInv', NEW t \in Threads, NEW to \in {"resolve", "create"},
           NEW names \in Lists \cup {<<LazyName>>}, Goto(t, "idle", to), StartOf(t, names)
    PROVE  TypeInv'
<1>1. LocalTypes
  BY TypeParts
<1>2. LocalTypes'
  <2>1. checks'[t] \in 0 .. MaxChecks /\ checks' = [checks EXCEPT ![t] = checks'[t]]
    BY <1>1, BoundsAssumption DEF StartOf, LocalTypes
  <2>2. checks' \in [Threads -> 0 .. MaxChecks]
    BY <1>1, <2>1 DEF LocalTypes
  <2>3. list' \in [Threads -> Lists \cup {<<LazyName>>, <<>>}] /\ results' \in [Threads -> Seq(Result)]
    BY <1>1 DEF StartOf, LocalTypes
  <2>4. reply' \in [Threads -> Reply]
    BY <1>1 DEF StartOf, LocalTypes, NoReply, Reply
  <2>5. denials' \in [Threads -> Nat]
    BY <1>1 DEF StartOf, LocalTypes
  <2> QED
    BY <1>1, <2>2, <2>3, <2>4, <2>5 DEF StartOf, LocalTypes, tableVars, clockVars
<1>3. db' = db /\ rule' = rule
  BY DEF StartOf
<1>4. \A u \in Threads : pc'[u] \in {"clock", "store"} => pc[u] \in {"clock", "store"}
  BY DEF Goto, LedgerInv, LiveInv, Shape, TypeInv
<1> QED
  BY <1>2, <1>3, <1>4, TypeElsewhere

LEMMA TypeAdmitted ==
    ASSUME TypeInv, LedgerInv', NEW t \in Threads, Admitted(t)
    PROVE  TypeInv'
<1>1. LedgerInv /\ LocalTypes /\ DictTypes /\ HeldTypes
  BY TypeParts
<1>2. pc[t] = "store" /\ StoreEntry(t)
  BY DEF Admitted, Goto
<1>3. DictTypes'
  BY <1>1, <1>2, StoredType
<1>4. HeldTypes'
  BY <1>1 DEF Admitted, Goto, HeldTypes, LedgerInv, LiveInv, Shape
<1>5. Decision(t).remaining \in Nat /\ Decision(t).reset_at \in Int
  BY <1>1, <1>2, DecisionType DEF Outcome
<1>6. ResultOf(Decision(t)) \in Result
  BY <1>5 DEF ResultOf, Result
<1> DEFINE found == Append(results[t], ResultOf(Decision(t)))
<1>7. found \in Seq(Result) /\ found # <<>>
  <2>1. results[t] \in Seq(Result)
    BY <1>1 DEF LocalTypes
  <2> QED
    BY <1>6, <2>1, AppendProperties
<1>8. Answer("allowed", Strictest(found)) \in Reply
  <2>1. Strictest(found) \in Result
    BY <1>7, StrictestFound
  <2> QED
    BY <2>1 DEF Answer, Reply, Result
<1>9. results' = [results EXCEPT ![t] = found] /\ reply' \in {reply, [reply EXCEPT ![t] = Answer("allowed", Strictest(found))]}
  BY DEF Admitted
<1> HIDE DEF found
<1>10. results' \in [Threads -> Seq(Result)] /\ reply' \in [Threads -> Reply]
  BY <1>1, <1>7, <1>8, <1>9 DEF LocalTypes
<1>11. LocalTypes'
  BY <1>1, <1>10 DEF Admitted, LocalTypes, tableVars, clockVars
<1>12. TypeInv' <=> LedgerInv' /\ LocalTypes' /\ DictTypes' /\ HeldTypes'
  BY TypeParts, PTL
<1> QED
  BY <1>3, <1>4, <1>11, <1>12

LEMMA TypeRefused ==
    ASSUME TypeInv, LedgerInv', NEW t \in Threads, Refused(t)
    PROVE  TypeInv'
<1>1. LedgerInv /\ LocalTypes /\ DictTypes /\ HeldTypes
  BY TypeParts
<1>2. pc[t] = "store" /\ StoreEntry(t)
  BY DEF Refused, Goto
<1>3. DictTypes'
  BY <1>1, <1>2, StoredType
<1>4. HeldTypes'
  BY <1>1 DEF Refused, Goto, HeldTypes, LedgerInv, LiveInv, Shape
<1>5. Decision(t).remaining \in Nat /\ Decision(t).reset_at \in Int
  BY <1>1, <1>2, DecisionType DEF Outcome
<1>6. Answer("denied", ResultOf(Decision(t))) \in Reply
  BY <1>5 DEF Answer, ResultOf, Reply
<1>7. /\ reply' = [reply EXCEPT ![t] = Answer("denied", ResultOf(Decision(t)))]
      /\ denials' = [denials EXCEPT ![t] = @ + 1]
  BY DEF Refused
<1>8. reply' \in [Threads -> Reply] /\ denials' \in [Threads -> Nat]
  BY <1>1, <1>6, <1>7 DEF LocalTypes
<1>9. LocalTypes'
  BY <1>1, <1>8 DEF Refused, LocalTypes, tableVars, clockVars
<1>10. TypeInv' <=> LedgerInv' /\ LocalTypes' /\ DictTypes' /\ HeldTypes'
  BY TypeParts, PTL
<1> QED
  BY <1>3, <1>4, <1>9, <1>10

LEMMA TypeStep ==
    ASSUME TypeInv, LedgerInv', NEW t \in Threads, Step(t)
    PROVE  TypeInv'
<1>0. /\ LocalTypes /\ LedgerInv /\ pc \in [Threads -> PC] /\ rule \in [Threads -> Rules \cup {NoRule}]
      /\ list[t] \in Seq(Names) /\ at[t] \in Nat \ {0} /\ rules \in [Names -> Rules \cup {NoRule}]
  BY TypeParts DEF LedgerInv, LiveInv, Shape
<1>1. CASE Check(t)
  <2>1. PICK names \in Lists : Goto(t, "idle", "resolve") /\ StartOf(t, names)
    BY <1>1 DEF Check
  <2> QED
    BY <2>1, TypeStart
<1>2. CASE CallDecorated(t)
  <2>1. Goto(t, "idle", IF created THEN "resolve" ELSE "create") /\ StartOf(t, <<LazyName>>)
    BY <1>2 DEF CallDecorated
  <2> QED
    BY <2>1, TypeStart
<1>3. CASE CreateRule(t)
  <2>1. LocalTypes'
    BY <1>0, <1>3 DEF CreateRule, LocalTypes, clockVars
  <2>2. \A u \in Threads : pc'[u] \in {"clock", "store"} => pc[u] \in {"clock", "store"}
    BY <1>0, <1>3 DEF CreateRule, Goto
  <2> QED
    BY <1>3, <2>1, <2>2, TypeElsewhere DEF CreateRule
<1>4. CASE MarkCreated(t)
  <2>1. LocalTypes'
    BY <1>0, <1>4 DEF MarkCreated, LocalTypes, clockVars, historyVars
  <2>2. \A u \in Threads : pc'[u] \in {"clock", "store"} => pc[u] \in {"clock", "store"}
    BY <1>0, <1>4 DEF MarkCreated, Goto
  <2> QED
    BY <1>4, <2>1, <2>2, TypeElsewhere DEF MarkCreated
<1>5. CASE Resolve(t)
  <2>1. LocalTypes'
    BY <1>0, <1>5 DEF Resolve, LocalTypes, clockVars, tableVars, historyVars
  <2>2. /\ pc' = [pc EXCEPT ![t] = "clock"] /\ rule' = [rule EXCEPT ![t] = rules[Name(t)]]
        /\ rules[Name(t)] # NoRule /\ Name(t) \in Names
    BY <1>0, <1>5 DEF Resolve, Goto, Name
  <2>3. rules[Name(t)] \in Rules
    BY <1>0, <2>2
  <2>4. ASSUME NEW u \in Threads, pc'[u] \in {"clock", "store"}
        PROVE  rule'[u] \in Rules \/ (pc[u] \in {"clock", "store"} /\ rule'[u] = rule[u])
    BY <1>0, <2>2, <2>3, <2>4
  <2> QED
    BY <1>5, <2>1, <2>4, TypeElsewhere DEF Resolve
<1>6. CASE Unknown(t) \/ EmptyList(t)
  <2>1. Raise(t)
    BY <1>6 DEF Unknown, EmptyList
  <2>2. reply' \in [Threads -> Reply]
    BY <1>0, <2>1 DEF Raise, LocalTypes, Reply
  <2>3. LocalTypes'
    BY <1>0, <2>1, <2>2 DEF Raise, LocalTypes, tableVars, clockVars
  <2>4. \A u \in Threads : pc'[u] \in {"clock", "store"} => pc[u] \in {"clock", "store"}
    BY <1>0, <2>1 DEF Raise, Goto
  <2> QED
    BY <2>1, <2>3, <2>4, TypeElsewhere DEF Raise
<1>7. CASE ReadClock(t)
  <2>1. LocalTypes'
    BY <1>0, <1>7 DEF ReadClock, LocalTypes, clockVars, tableVars, historyVars
  <2>2. \A u \in Threads : pc'[u] \in {"clock", "store"} => pc[u] \in {"clock", "store"}
    BY <1>0, <1>7 DEF ReadClock, Goto
  <2> QED
    BY <1>7, <2>1, <2>2, TypeElsewhere DEF ReadClock
<1>8. CASE Admitted(t)
  BY <1>8, TypeAdmitted
<1>9. CASE Refused(t)
  BY <1>9, TypeRefused
<1> QED
  BY <1>1, <1>2, <1>3, <1>4, <1>5, <1>6, <1>7, <1>8, <1>9 DEF Step

LEMMA TypeNext == ASSUME TypeInv, [Next]_vars PROVE TypeInv'
<1>1. LedgerInv' /\ LocalTypes
  BY LedgerNext, TypeParts DEF TypeInv
<1>2. CASE \E t \in Threads : Step(t)
  BY <1>1, <1>2, TypeStep
<1>3. CASE AddRule \/ RemoveRule
  <2>1. PICK name, new : Change(name, new)
    BY <1>3 DEF AddRule, RemoveRule
  <2>2. LocalTypes'
    BY <1>1, <2>1, BoundsAssumption DEF Change, LocalTypes, clockVars, localVars
  <2> QED
    BY <1>1, <2>1, <2>2, TypeElsewhere DEF Change, localVars
<1>4. CASE Tick
  <2>1. LocalTypes'
    BY <1>1, <1>4, BoundsAssumption DEF Tick, LocalTypes, tableVars, localVars, historyVars
  <2> QED
    BY <1>1, <1>4, <2>1, TypeElsewhere DEF Tick, localVars
<1>5. CASE StepBack
  <2>1. PICK earlier \in 0 .. clock - 1 : clock' = earlier
    BY <1>5 DEF StepBack
  <2>2. clock' \in 0 .. MaxTime /\ stepsBack' \in 0 .. MaxStepsBack
    BY <1>1, <1>5, <2>1, BoundsAssumption DEF StepBack, LocalTypes
  <2>3. LocalTypes'
    BY <1>1, <1>5, <2>2 DEF StepBack, LocalTypes, tableVars, localVars, historyVars
  <2> QED
    BY <1>1, <1>5, <2>3, TypeElsewhere DEF StepBack, localVars
<1>6. CASE Finished \/ UNCHANGED vars
  <2>1. UNCHANGED vars
    BY <1>6 DEF Finished
  <2>2. LocalTypes'
    BY <1>1, <2>1 DEF vars, LocalTypes, clockVars, tableVars, localVars, historyVars
  <2> QED
    BY <1>1, <2>1, <2>2, TypeElsewhere DEF vars, localVars
<1> QED
  BY <1>2, <1>3, <1>4, <1>5, <1>6 DEF Next

LEMMA TypeInit == ASSUME Init PROVE TypeInv
<1>1. LedgerInv
  BY LedgerInit
<1>2. LocalTypes
  <2>1. NoReply \in Reply
    BY DEF NoReply, Reply
  <2>2. 0 \in 0 .. MaxTime /\ 0 \in 0 .. MaxChanges /\ 0 \in 0 .. MaxChecks /\ 0 \in 0 .. MaxStepsBack
    BY BoundsAssumption
  <2>3. <<>> \in Seq(Result)
    BY EmptySeq
  <2> QED
    BY <2>1, <2>2, <2>3 DEF Init, LocalTypes
<1>3. \A a \in Algorithms : <<>> \in EntryOf(a)
  BY DEF EntryOf, EntryUnder, Entry
<1>4. DictTypes
  BY <1>3 DEF Init, DictTypes, Entry
<1>5. HeldTypes
  BY DEF Init, HeldTypes
<1> QED
  BY <1>1, <1>2, <1>4, <1>5, TypeParts

\* Whatever rule an entry meets, and however late: `remaining' is a natural number and
\* the entry is one that its algorithm can read.
THEOREM TypesHold == Spec => []TypeOK
<1>1. Init => TypeInv
  BY TypeInit
<1>2. TypeInv /\ [Next]_vars => TypeInv'
  BY TypeNext
<1>3. TypeInv => TypeOK
  BY DEF TypeInv
<1> QED
  BY <1>1, <1>2, <1>3, PTL DEF Spec

-----------------------------------------------------------------------------
(***************************************************************************)
(* What a decision adds to the requests that the storage holds.            *)
(***************************************************************************)

Counting == {"sliding_window", "fixed_window", "leaky_bucket"}

\* The requests in an entry.
SizeOf(algorithm, entry) == IF algorithm = "sliding_window" THEN Len(entry) ELSE CountOf(entry)

\* From entry to its successor: at most one more, and none less while stamp is in span.
Adds(algorithm, entry, outcome, stamp, span) ==
    LET one == IF outcome.allowed THEN 1 ELSE 0
    IN  /\ outcome.entry \in Seq(Nat)
        /\ SizeOf(algorithm, outcome.entry) <= SizeOf(algorithm, entry) + one
        /\ stamp < span => SizeOf(algorithm, outcome.entry) = SizeOf(algorithm, entry) + one

LEMMA SlidingAdds ==
    ASSUME NEW entry \in Seq(Nat), NEW window \in Positive, NEW limit \in Positive, NEW stamp \in Nat,
           NEW outcome, outcome = sliding_window(entry, window, limit, stamp)
    PROVE  Adds("sliding_window", entry, outcome, stamp, window)
<1>0. PICK m \in Nat : m = Len(entry)
  BY LenProperties
<1>1. entry \in Entry /\ stamp - window \in Int /\ \A i \in 1 .. m : entry[i] \in Nat
  BY <1>0, ElementOfSeq DEF Entry, Positive
<1>2. PICK q : q = Pruned(entry, stamp - window)
  OBVIOUS
<1>3. PICK d \in 0 .. m :
          /\ q \in Entry /\ Len(q) = m - d
          /\ \A i \in 1 .. d : entry[i] <= stamp - window
          /\ \A i \in 1 .. m - d : q[i] = entry[i + d]
  BY <1>0, <1>1, <1>2, PrunedIsSuffix
<1>4. q \in Seq(Nat)
  <2>1. ASSUME NEW i \in 1 .. Len(q)
        PROVE  q[i] \in Nat
    <3>1. i \in 1 .. m - d /\ i + d \in 1 .. m
      BY <1>3
    <3> QED
      BY <1>1, <1>3, <3>1
  <2> QED
    BY <1>3, <2>1 DEF Entry
<1>5. stamp < window => d = 0
  <2> SUFFICES ASSUME stamp < window, d # 0 PROVE FALSE
    OBVIOUS
  <2>1. 1 \in 1 .. d /\ 1 \in 1 .. m
    OBVIOUS
  <2>2. entry[1] <= stamp - window /\ entry[1] \in Nat
    BY <1>1, <1>3, <2>1
  <2> QED
    BY <2>2 DEF Positive
<1>6. /\ outcome.allowed => outcome.entry = Append(q, stamp)
      /\ ~outcome.allowed => outcome.entry = q
  BY <1>2 DEF sliding_window, Admit, Deny
<1>7. outcome.allowed \in BOOLEAN
  BY <1>2 DEF sliding_window, Admit, Deny
<1>8. CASE outcome.allowed
  <2>1. outcome.entry = Append(q, stamp)
    BY <1>6, <1>8
  <2>2. outcome.entry \in Seq(Nat) /\ Len(outcome.entry) = Len(q) + 1
    BY <1>4, <2>1, AppendProperties
  <2> QED
    BY <1>0, <1>3, <1>5, <1>8, <2>2 DEF Adds, SizeOf
<1>9. CASE ~outcome.allowed
  BY <1>0, <1>3, <1>4, <1>5, <1>6, <1>9 DEF Adds, SizeOf
<1> QED
  BY <1>8, <1>9

\* An entry of two natural numbers, or none.
Pair(entry) == entry \in Seq(Nat) /\ Len(entry) \in {0, 2}

LEMMA PairOf ==
    ASSUME NEW entry, Pair(entry)
    PROVE  /\ CountOf(entry) \in Nat
           /\ entry # <<>> => entry[1] \in Nat /\ entry[2] \in Nat /\ CountOf(entry) = entry[1]
<1>1. CASE entry = <<>>
  BY <1>1 DEF CountOf
<1>2. CASE entry # <<>>
  <2>1. Len(entry) = 2
    BY <1>2, EmptySeq DEF Pair
  <2>2. entry[1] \in Nat /\ entry[2] \in Nat
    <3>1. entry \in Seq(Nat) /\ 1 \in 1 .. Len(entry) /\ 2 \in 1 .. Len(entry)
      BY <2>1 DEF Pair
    <3> QED
      BY <3>1, ElementOfSeq
  <2> QED
    BY <1>2, <2>2 DEF CountOf
<1> QED
  BY <1>1, <1>2

LEMMA PairSize ==
    ASSUME NEW x \in Nat, NEW y \in Nat
    PROVE  Pair(<<x, y>>) /\ CountOf(<<x, y>>) = x
<1>1. <<x, y>> \in Seq(Nat) /\ Len(<<x, y>>) = 2 /\ <<x, y>>[1] = x /\ <<x, y>> # <<>>
  OBVIOUS
<1> QED
  BY <1>1 DEF Pair, CountOf

LEMMA FixedAdds ==
    ASSUME NEW entry, Pair(entry), NEW window \in Positive, NEW limit \in Positive, NEW stamp \in Nat,
           NEW outcome, outcome = fixed_window(entry, window, limit, stamp)
    PROVE  Adds("fixed_window", entry, outcome, stamp, window)
<1>1. PICK start \in Nat : start = Aligned(stamp, window) /\ (stamp < window => start = 0)
  <2>1. PICK k \in Nat : k = stamp \div window /\ k * window <= stamp
    BY DivIsInt
  <2>2. window \in Nat /\ window >= 1
    BY DEF Positive
  <2>3. k * window \in Nat
    BY <2>1, <2>2
  <2>4. stamp < window => k = 0
    <3> SUFFICES ASSUME stamp < window, k >= 1 PROVE FALSE
      BY <2>1
    <3>1. k * window >= window
      BY <2>1, <2>2
    <3> QED
      BY <2>1, <2>2, <2>3, <3>1
  <2>5. stamp < window => k * window = 0
    BY <2>2, <2>4
  <2> QED
    BY <2>1, <2>3, <2>5 DEF Aligned
<1>2. PICK current : current = CurrentWindow(entry, start)
  OBVIOUS
<1>3. /\ current[1] \in Nat /\ current[2] \in Nat /\ current[1] <= CountOf(entry)
      /\ stamp < window => current[1] = CountOf(entry)
  <2>1. CountOf(entry) \in Nat /\ (entry # <<>> => entry[1] \in Nat /\ entry[2] \in Nat /\ CountOf(entry) = entry[1])
    BY PairOf
  <2>2. CASE entry = <<>>
    BY <1>2, <2>2 DEF CurrentWindow, CountOf
  <2>3. CASE entry # <<>>
    <3>1. CASE entry[2] < start
      <4>1. current = <<0, start>>
        BY <1>2, <3>1 DEF CurrentWindow
      <4> QED
        BY <1>1, <2>1, <2>3, <3>1, <4>1
    <3>2. CASE ~(entry[2] < start)
      <4>1. current = entry
        BY <1>2, <2>3, <3>2 DEF CurrentWindow
      <4> QED
        BY <2>1, <2>3, <4>1
    <3> QED
      BY <3>1, <3>2
  <2> QED
    BY <2>2, <2>3
<1>4. /\ outcome.allowed => outcome.entry = <<current[1] + 1, current[2]>>
      /\ ~outcome.allowed => outcome.entry = entry
      /\ outcome.allowed \in BOOLEAN
  BY <1>1, <1>2 DEF fixed_window, Admit, Deny
<1>5. CountOf(entry) \in Nat /\ entry \in Seq(Nat)
  BY PairOf DEF Pair
<1>6. CASE outcome.allowed
  <2>1. outcome.entry \in Seq(Nat) /\ CountOf(outcome.entry) = current[1] + 1
    <3>1. PICK x \in Nat, y \in Nat : x = current[1] + 1 /\ y = current[2]
      BY <1>3
    <3>2. outcome.entry = <<x, y>>
      BY <1>4, <1>6, <3>1
    <3>3. Pair(<<x, y>>) /\ CountOf(<<x, y>>) = x
      BY <3>1, PairSize
    <3> QED
      BY <3>1, <3>2, <3>3 DEF Pair
  <2> QED
    BY <1>3, <1>5, <1>6, <2>1 DEF Adds, SizeOf
<1>7. CASE ~outcome.allowed
  BY <1>4, <1>5, <1>7 DEF Adds, SizeOf
<1> QED
  BY <1>6, <1>7

LEMMA LeakyAdds ==
    ASSUME NEW entry, Pair(entry), NEW capacity \in Positive, NEW interval \in Positive, NEW stamp \in Nat,
           NEW outcome, outcome = leaky_bucket(entry, capacity, interval, stamp)
    PROVE  Adds("leaky_bucket", entry, outcome, stamp, interval)
<1>1. PICK bucket : bucket = IF entry = <<>> THEN <<0, stamp>> ELSE entry
  OBVIOUS
<1>2. bucket[1] \in Nat /\ bucket[2] \in Nat /\ bucket[1] = CountOf(entry)
  BY <1>1, PairOf DEF CountOf
<1>3. PICK elapsed \in Nat : elapsed = Elapsed(stamp, bucket[2]) /\ elapsed <= stamp
  BY <1>2 DEF Elapsed, AtLeastZero
<1>4. PICK leaked \in Nat : leaked = Leaked(elapsed, interval) /\ (elapsed < interval => leaked = 0)
  <2>1. PICK k \in Nat : k = elapsed \div interval /\ k * interval <= elapsed
    BY DivIsInt
  <2>2. interval \in Nat /\ interval >= 1
    BY DEF Positive
  <2>3. elapsed < interval => k = 0
    <3> SUFFICES ASSUME elapsed < interval, k >= 1 PROVE FALSE
      BY <2>1
    <3>1. k * interval >= interval
      BY <2>1, <2>2
    <3> QED
      BY <2>1, <2>2, <3>1
  <2> QED
    BY <2>1, <2>3 DEF Leaked
<1>5. PICK queue \in Nat : /\ queue = AtLeastZero(bucket[1] - leaked) /\ queue <= CountOf(entry)
                           /\ leaked = 0 => queue = CountOf(entry)
  BY <1>2, <1>4 DEF AtLeastZero
<1>6. PICK last \in Nat : last = bucket[2] + leaked * interval
  BY <1>2, <1>4 DEF Positive
<1>7. /\ outcome.allowed => outcome.entry = <<queue + 1, last>>
      /\ ~outcome.allowed => outcome.entry = entry
      /\ outcome.allowed \in BOOLEAN
  BY <1>1, <1>3, <1>4, <1>5, <1>6 DEF leaky_bucket, Admit, Deny
<1>8. CountOf(entry) \in Nat /\ entry \in Seq(Nat)
  BY PairOf DEF Pair
<1>9. CASE outcome.allowed
  <2>1. outcome.entry \in Seq(Nat) /\ CountOf(outcome.entry) = queue + 1
    <3>1. PICK x \in Nat : x = queue + 1
      BY <1>5
    <3>2. outcome.entry = <<x, last>>
      BY <1>7, <1>9, <3>1
    <3>3. Pair(<<x, last>>) /\ CountOf(<<x, last>>) = x
      BY <1>6, <3>1, PairSize
    <3> QED
      BY <3>1, <3>2, <3>3 DEF Pair
  <2>2. stamp < interval => queue = CountOf(entry)
    BY <1>3, <1>4, <1>5 DEF Positive
  <2> QED
    BY <1>5, <1>8, <1>9, <2>1, <2>2 DEF Adds, SizeOf
<1>10. CASE ~outcome.allowed
  BY <1>7, <1>8, <1>10 DEF Adds, SizeOf
<1> QED
  BY <1>9, <1>10

\* The same of every rule that counts requests.
LEMMA DecisionAdds ==
    ASSUME NEW r \in LimitRule, r.algorithm \in Counting, NEW entry \in Seq(Nat), entry \in EntryUnder(r),
           NEW stamp \in Nat, NEW outcome, outcome = Decide(r, entry, stamp)
    PROVE  Adds(r.algorithm, entry, outcome, stamp, Span(r))
<1>1. CASE r.algorithm = "sliding_window"
  <2>1. r.window \in Positive /\ r.limit \in Positive
    BY <1>1 DEF LimitRule, WindowRule, BucketRule
  <2>2. outcome = sliding_window(entry, r.window, r.limit, stamp)
    BY <1>1 DEF Decide
  <2> QED
    BY <1>1, <2>1, <2>2, SlidingAdds DEF Span
<1>2. CASE r.algorithm = "fixed_window"
  <2>1. r.window \in Positive /\ r.limit \in Positive
    BY <1>2 DEF LimitRule, WindowRule, BucketRule
  <2>2. outcome = fixed_window(entry, r.window, r.limit, stamp)
    BY <1>2 DEF Decide
  <2>3. Pair(entry)
    BY <1>2 DEF Pair, EntryUnder
  <2> QED
    BY <1>2, <2>1, <2>2, <2>3, FixedAdds DEF Span
<1>3. CASE r.algorithm = "leaky_bucket"
  <2>1. r.capacity \in Positive /\ r.interval \in Positive
    BY <1>3 DEF LimitRule, WindowRule, BucketRule
  <2>2. outcome = leaky_bucket(entry, r.capacity, r.interval, stamp)
    BY <1>3 DEF Decide
  <2>3. Pair(entry)
    BY <1>3 DEF Pair, EntryUnder
  <2> QED
    BY <1>3, <2>1, <2>2, <2>3, LeakyAdds DEF Span
<1> QED
  BY <1>1, <1>2, <1>3 DEF Counting

-----------------------------------------------------------------------------
\* LedgerBalances, with counts that are natural numbers, and stamps that are not ahead
\* of a clock that has not been set back.
CountTypes == \A a \in Counting, n \in Names : db[a][n] \in Seq(Nat)

StampsPast == stepsBack = 0 => \A t \in Threads : now[t] <= clock

BalanceInv == TypeInv /\ CountTypes /\ StampsPast /\ LedgerBalances

LEMMA PaidType ==
    ASSUME LedgerInv, NEW n \in Names
    PROVE  Paid(n) \in Nat
<1> DEFINE Places == {{t} \X AdmittedSoFar(t, n) : t \in Threads}
<1>1. IsFiniteSet(Places)
  <2> DEFINE placesOf == [t \in Threads |-> {t} \X AdmittedSoFar(t, n)]
  <2>1. Places = {placesOf[t] : t \in Threads}
    OBVIOUS
  <2>2. placesOf \in [Threads -> Places]
    OBVIOUS
  <2>3. placesOf \in Surjection(Threads, Places)
    BY <2>1, <2>2 DEF Surjection
  <2> QED
    BY <2>3, FS_Surjection, ThreadsAssumption
<1>2. \A S \in Places : IsFiniteSet(S)
  <2> SUFFICES ASSUME NEW t \in Threads
               PROVE  IsFiniteSet({t} \X AdmittedSoFar(t, n))
    OBVIOUS
  <2>1. IsFiniteSet({t}) /\ IsFiniteSet(AdmittedSoFar(t, n))
    BY AdmittedFinite, FS_Singleton
  <2> QED
    BY <2>1, FS_Product
<1>3. InProgress(n) = UNION Places
  BY DEF InProgress
<1> HIDE DEF Places
<1>4. Cardinality(InProgress(n)) \in Nat
  BY <1>1, <1>2, <1>3, FS_UNION, FS_CardinalityType
<1> QED
  BY <1>4 DEF Paid, LedgerInv, Ledger

\* The three summands of Held.
LEMMA HeldType ==
    ASSUME TypeInv, CountTypes, NEW n \in Names
    PROVE  \A a \in Counting : db[a][n] \in EntryOf(a) /\ SizeOf(a, db[a][n]) \in Nat
<1>1. \A a \in Counting : db[a][n] \in Seq(Nat) /\ db[a][n] \in EntryOf(a)
  BY DEF TypeInv, CountTypes, Counting, Algorithms
<1>2. CountOf(db["fixed_window"][n]) \in Nat
  <2>1. Pair(db["fixed_window"][n])
    BY <1>1 DEF Counting, EntryOf, EntryUnder, Pair
  <2> QED
    BY <2>1, PairOf
<1>3. CountOf(db["leaky_bucket"][n]) \in Nat
  <2>1. Pair(db["leaky_bucket"][n])
    BY <1>1 DEF Counting, EntryOf, EntryUnder, Pair
  <2> QED
    BY <2>1, PairOf
<1>4. Len(db["sliding_window"][n]) \in Nat
  BY <1>1, LenProperties DEF Counting
<1> QED
  BY <1>1, <1>2, <1>3, <1>4 DEF SizeOf, Counting

LEMMA SpanType ==
    ASSUME NEW r \in LimitRule, r.algorithm \in Counting
    PROVE  Span(r) \in Nat
  BY DEF Span, Counting, LimitRule, WindowRule, BucketRule, Positive

\* A decision adds one request to the storage and one to what has been paid for, or
\* none to both.
LEMMA BalanceDecided ==
    ASSUME BalanceInv, NEW t \in Threads, pc[t] = "store", StoreEntry(t), UNCHANGED clockVars,
           \A n \in Names :
               Paid(n)' = Paid(n) + (IF Decision(t).allowed /\ Name(t) = n THEN 1 ELSE 0)
    PROVE  CountTypes' /\ LedgerBalances'
<1> DEFINE alg == rule[t].algorithm
           old == db[alg][Name(t)]
           new == Decision(t).entry
<1>1. /\ alg \in Algorithms /\ Name(t) \in Names /\ rule[t] \in Rules /\ rule[t] \in LimitRule
      /\ now[t] \in Nat /\ clock \in Nat /\ Decision(t).allowed \in BOOLEAN
  <2>1. LedgerInv /\ LocalTypes /\ DictTypes /\ HeldTypes
    BY TypeParts DEF BalanceInv
  <2>2. alg \in Algorithms /\ Name(t) \in Names /\ Decision(t) \in Outcome
    BY <2>1, DecisionType
  <2>3. now[t] \in Nat /\ clock \in Nat
    BY <2>1, BoundsAssumption DEF LocalTypes
  <2>4. rule[t] \in Rules
    BY <2>1 DEF HeldTypes
  <2> QED
    BY <2>2, <2>3, <2>4, RuleTableAssumption DEF Outcome
<1>2. ASSUME NEW a \in Counting, NEW n \in Names
      PROVE  db'[a][n] = IF a = alg /\ n = Name(t) THEN new ELSE db[a][n]
  <2>1. a \in DOMAIN db /\ db[a] \in [Names -> Entry]
    BY DEF BalanceInv, TypeInv, TypeOK, Counting, Algorithms
  <2>2. db' = [db EXCEPT ![alg][Name(t)] = new]
    BY DEF StoreEntry
  <2> HIDE DEF alg, new
  <2>3. db'[a] = IF a = alg THEN [db[a] EXCEPT ![Name(t)] = new] ELSE db[a]
    BY <2>1, <2>2
  <2> QED
    BY <2>1, <2>3
<1>3. NothingForgotten' <=> NothingForgotten
  BY DEF NothingForgotten, clockVars
<1>4. NothingForgotten => alg \in Counting /\ now[t] < Span(rule[t])
  <2>1. alg \in Counting => Span(rule[t]) \in Nat
    BY <1>1, SpanType
  <2>2. stepsBack = 0 => now[t] <= clock
    BY DEF BalanceInv, StampsPast
  <2> QED
    BY <1>1, <2>1, <2>2 DEF NothingForgotten, Counting
<1>5. alg \in Counting => Adds(alg, old, Decision(t), now[t], Span(rule[t]))
  <2> SUFFICES ASSUME alg \in Counting PROVE Adds(alg, old, Decision(t), now[t], Span(rule[t]))
    OBVIOUS
  <2>1. old \in Seq(Nat) /\ old \in EntryOf(alg)
    BY <1>1, HeldType DEF BalanceInv, CountTypes
  <2>2. EntryUnder(rule[t]) = EntryOf(alg)
    BY Zenon DEF EntryUnder, EntryOf
  <2>3. Decision(t) = Decide(rule[t], old, now[t])
    BY DEF Decision
  <2> QED
    BY <1>1, <2>1, <2>2, <2>3, DecisionAdds
<1>6. CountTypes'
  BY <1>2, <1>5 DEF CountTypes, BalanceInv, Adds
<1>7. ASSUME NEW n \in Names
      PROVE  Held(n)' <= Paid(n)' /\ (NothingForgotten' => Held(n)' = Paid(n)')
  <2> DEFINE sizes == [a \in Counting |-> SizeOf(a, db[a][n])]
             after == [a \in Counting |-> SizeOf(a, db'[a][n])]
             one   == IF Decision(t).allowed /\ Name(t) = n THEN 1 ELSE 0
             added == IF Decision(t).allowed THEN 1 ELSE 0
  <2>1. Paid(n)' = Paid(n) + one /\ Paid(n) \in Nat /\ one \in Nat
    BY PaidType DEF BalanceInv, TypeInv
  <2>2. \A a \in Counting : sizes[a] \in Nat
    BY HeldType DEF BalanceInv
  <2>3. Held(n) = sizes["sliding_window"] + sizes["fixed_window"] + sizes["leaky_bucket"]
    BY DEF Held, SizeOf, Counting
  <2>4. Held(n)' = after["sliding_window"] + after["fixed_window"] + after["leaky_bucket"]
    BY DEF Held, SizeOf, CountOf, Counting
  <2>5. Held(n) <= Paid(n) /\ (NothingForgotten => Held(n) = Paid(n))
    BY DEF BalanceInv, LedgerBalances
  <2>6. CASE alg \in Counting /\ n = Name(t)
    <3>1. \A a \in Counting \ {alg} : after[a] = sizes[a]
      BY <1>2, <2>6
    <3>2. after[alg] = SizeOf(alg, new) /\ sizes[alg] = SizeOf(alg, old)
      BY <1>2, <2>6
    <3>3. SizeOf(alg, new) \in Nat
      <4>1. new \in Seq(Nat) /\ new \in EntryOf(alg)
        <5>1. LedgerInv /\ LocalTypes /\ DictTypes /\ HeldTypes
          BY TypeParts DEF BalanceInv
        <5>2. new \in EntryOf(alg)
          BY <5>1, DecisionType
        <5> QED
          BY <1>5, <2>6, <5>2 DEF Adds
      <4>2. alg # "sliding_window" => Pair(new)
        BY <2>6, <4>1 DEF Counting, EntryOf, EntryUnder, Pair
      <4> QED
        BY <4>1, <4>2, PairOf, LenProperties DEF SizeOf
    <3>4. /\ after[alg] <= sizes[alg] + added
          /\ NothingForgotten => after[alg] = sizes[alg] + added
          /\ added = one
      BY <1>4, <1>5, <2>6, <3>2 DEF Adds
    <3>5. after[alg] \in Nat
      BY <3>2, <3>3
    <3> HIDE DEF sizes, after, one, added, alg
    <3> QED
      BY <1>3, <2>1, <2>2, <2>3, <2>4, <2>5, <2>6, <3>1, <3>4, <3>5 DEF Counting
  <2>7. CASE ~(alg \in Counting /\ n = Name(t))
    <3>1. \A a \in Counting : after[a] = sizes[a]
      BY <1>2, <2>7
    <3>2. NothingForgotten => one = 0
      BY <1>4, <2>7
    <3> HIDE DEF sizes, after, one, alg
    <3> QED
      BY <1>3, <2>1, <2>2, <2>3, <2>4, <2>5, <3>1, <3>2 DEF Counting
  <2> QED
    BY <2>6, <2>7
<1> QED
  BY <1>6, <1>7 DEF LedgerBalances

\* A step that decides nothing.
LEMMA BalanceKept ==
    ASSUME BalanceInv, TypeInv', PaidKept, db' = db, StampsPast',
           NothingForgotten' => NothingForgotten
    PROVE  BalanceInv'
<1>1. CountTypes'
  BY DEF BalanceInv, CountTypes
<1>2. \A n \in Names : Held(n)' = Held(n) /\ Paid(n)' = Paid(n)
  BY DEF Held, CountOf, PaidKept
<1>3. LedgerBalances'
  BY <1>2 DEF BalanceInv, LedgerBalances
<1> QED
  BY <1>1, <1>3 DEF BalanceInv

LEMMA BalanceStep ==
    ASSUME BalanceInv, TypeInv', NEW t \in Threads, Step(t)
    PROVE  BalanceInv'
<1>1. LedgerInv /\ LiveInv' /\ pc \in [Threads -> PC]
  BY DEF BalanceInv, TypeInv, LedgerInv, LiveInv, Shape
<1>2. UNCHANGED clockVars
  BY DEF Step, Check, CallDecorated, StartOf, CreateRule, MarkCreated, Resolve, Unknown, EmptyList,
         Raise, ReadClock, Admitted, Refused
<1>3. NothingForgotten' => NothingForgotten
  BY <1>2 DEF NothingForgotten, clockVars
<1>4. LedgerInv' /\ (Admitted(t) \/ PaidKept)
  BY <1>1, LedgerStep
<1>5. CASE Admitted(t) \/ Refused(t)
  <2>1. pc[t] = "store" /\ StoreEntry(t) /\ now' = now
    BY <1>5 DEF Admitted, Refused, Goto
  <2>2. ASSUME NEW n \in Names
        PROVE  Paid(n)' = Paid(n) + (IF Decision(t).allowed /\ Name(t) = n THEN 1 ELSE 0)
    <3>1. CASE Admitted(t)
      <4>1. Decision(t).allowed
        BY <3>1 DEF Admitted
      <4> QED
        BY <1>1, <3>1, <4>1, LedgerAdmitted
    <3>2. CASE Refused(t)
      <4>1. ~Decision(t).allowed
        BY <3>2 DEF Refused
      <4>2. PaidKept
        BY <1>4, <4>1 DEF Admitted
      <4>3. Paid(n) \in Nat
        BY <1>1, PaidType
      <4> QED
        BY <4>1, <4>2, <4>3 DEF PaidKept
    <3> QED
      BY <1>5, <3>1, <3>2
  <2>3. CountTypes' /\ LedgerBalances'
    BY <1>2, <2>1, <2>2, BalanceDecided
  <2>4. StampsPast'
    BY <1>2, <2>1 DEF BalanceInv, StampsPast, clockVars
  <2> QED
    BY <2>3, <2>4 DEF BalanceInv
<1>6. CASE ~(Admitted(t) \/ Refused(t))
  <2>1. PaidKept
    BY <1>4, <1>6
  <2>2. db' = db
    BY <1>6 DEF Step, Check, CallDecorated, StartOf, CreateRule, MarkCreated, Resolve, Unknown, EmptyList,
                Raise, ReadClock
  <2>3. now' = now \/ now' = [now EXCEPT ![t] = clock]
    BY <1>6 DEF Step, Check, CallDecorated, StartOf, CreateRule, MarkCreated, Resolve, Unknown, EmptyList,
                Raise, ReadClock
  <2>4. clock \in Nat /\ now \in [Threads -> 0 .. MaxTime]
    BY BoundsAssumption DEF BalanceInv, TypeInv, TypeOK
  <2>5. StampsPast'
    BY <1>2, <2>3, <2>4 DEF BalanceInv, StampsPast, clockVars
  <2> QED
    BY <1>3, <2>1, <2>2, <2>5, BalanceKept
<1> QED
  BY <1>5, <1>6

LEMMA BalanceNext == ASSUME BalanceInv, [Next]_vars PROVE BalanceInv'
<1>1. TypeInv' /\ LedgerInv /\ LiveInv'
  BY TypeNext DEF BalanceInv, TypeInv, LedgerInv
<1>2. clock \in Nat /\ stepsBack \in Nat /\ now \in [Threads -> 0 .. MaxTime]
  BY BoundsAssumption DEF BalanceInv, TypeInv, TypeOK
<1>3. CASE \E t \in Threads : Step(t)
  BY <1>1, <1>3, BalanceStep
<1>4. CASE AddRule \/ RemoveRule \/ Finished \/ UNCHANGED vars
  <2>1. UNCHANGED <<pc, list, at, ledgerVars, db, now, clock, stepsBack>>
    BY <1>4 DEF AddRule, RemoveRule, Change, Finished, vars, localVars, historyVars, clockVars
  <2>2. PaidKept
    BY <1>1, <2>1, LedgerWaits
  <2>3. StampsPast' /\ (NothingForgotten' => NothingForgotten)
    BY <2>1 DEF BalanceInv, StampsPast, NothingForgotten
  <2> QED
    BY <1>1, <2>1, <2>2, <2>3, BalanceKept
<1>5. CASE Tick
  <2>1. UNCHANGED <<pc, list, at, ledgerVars, db, now, stepsBack>> /\ clock' = clock + 1
    BY <1>5 DEF Tick, localVars, historyVars
  <2>2. PaidKept
    BY <1>1, <2>1, LedgerWaits
  <2>3. StampsPast'
    BY <1>2, <2>1 DEF BalanceInv, StampsPast
  <2>4. NothingForgotten' => NothingForgotten
    <3> SUFFICES ASSUME NothingForgotten'
                 PROVE  NothingForgotten
      OBVIOUS
    <3>1. ASSUME NEW r \in Rules
          PROVE  r.algorithm \in Counting /\ clock < Span(r)
      <4>1. r.algorithm \in Counting /\ clock + 1 < Span(r)
        BY <2>1 DEF NothingForgotten, Counting, Span
      <4>2. Span(r) \in Nat
        BY <4>1, SpanType, RuleTableAssumption
      <4> QED
        BY <1>2, <4>1, <4>2
    <3> QED
      BY <2>1, <3>1 DEF NothingForgotten, Counting
  <2> QED
    BY <1>1, <2>1, <2>2, <2>3, <2>4, BalanceKept
<1>6. CASE StepBack
  <2>1. UNCHANGED <<pc, list, at, ledgerVars, db>> /\ stepsBack' = stepsBack + 1
    BY <1>6 DEF StepBack, localVars, historyVars
  <2>2. PaidKept
    BY <1>1, <2>1, LedgerWaits
  <2>3. stepsBack' # 0
    BY <1>2, <2>1
  <2>4. StampsPast' /\ ~NothingForgotten'
    BY <2>3 DEF StampsPast, NothingForgotten
  <2> QED
    BY <1>1, <2>1, <2>2, <2>4, BalanceKept
<1> QED
  BY <1>3, <1>4, <1>5, <1>6 DEF Next

LEMMA BalanceInit == ASSUME Init PROVE BalanceInv
<1>1. TypeInv
  BY TypeInit
<1>2. CountTypes /\ StampsPast
  BY DEF Init, CountTypes, StampsPast, Counting, Algorithms
<1>3. ASSUME NEW n \in Names
      PROVE  Held(n) = 0 /\ Paid(n) = 0
  <2>1. InProgress(n) = {}
    BY DEF Init, InProgress, AdmittedSoFar
  <2>2. Cardinality(InProgress(n)) = 0
    BY <2>1, FS_EmptySet
  <2>3. db["sliding_window"][n] = <<>> /\ db["fixed_window"][n] = <<>> /\ db["leaky_bucket"][n] = <<>>
    BY DEF Init, Algorithms
  <2> QED
    BY <2>2, <2>3 DEF Init, Held, Paid, CountOf
<1> QED
  BY <1>1, <1>2, <1>3 DEF BalanceInv, LedgerBalances

\* Whatever threads, lists and rules there are, however the table changes and the clock
\* is set back: the counts in the storage are covered by what checks have paid, and are
\* exactly that while nothing can be forgotten.
THEOREM LedgerBalancesHolds == Spec => []LedgerBalances
<1>1. Init => BalanceInv
  BY BalanceInit
<1>2. BalanceInv /\ [Next]_vars => BalanceInv'
  BY BalanceNext
<1>3. BalanceInv => LedgerBalances
  BY DEF BalanceInv
<1> QED
  BY <1>1, <1>2, <1>3, PTL DEF Spec

-----------------------------------------------------------------------------
(***************************************************************************)
(* The promise of a reply.  While a check goes through its list, every     *)
(* rule it has passed still has what its result said was left (Owing):     *)
(* names do not repeat, so a later rule has a dictionary entry of its own. *)
(* Attempt is a fold and the repetition of it a recursive function; both   *)
(* exist, and each attempt takes one from what every rule has left.        *)
(***************************************************************************)

LEMMA AttemptTries ==
    ASSUME NEW names \in Seq(Names), \A i \in 1 .. Len(names) : rules[names[i]] \in LimitRule,
           NEW d \in Dictionaries(Names), NEW stamp \in Nat
    PROVE  Tries(Len(names), names, [i \in 1 .. Len(names) |-> rules[names[i]]], d, stamp,
                 Attempt(names, d, stamp))
<1>1. PICK r : r = rules
  OBVIOUS
<1>2. Attempt(names, d, stamp) = (CHOOSE g : Folds(g, rules, names, d, stamp))[DOMAIN names]
  BY Zenon DEF Attempt, FoldLeft, MapThenFoldSet, Folds, Tried
<1>3. PICK n \in Nat : n = Len(names) /\ names \in [1 .. n -> Names]
  OBVIOUS
<1>4. \A i \in 1 .. n : r[names[i]] \in LimitRule
  BY <1>1, <1>3
<1>5. Tries(n, names, [i \in 1 .. n |-> r[names[i]]], d, stamp,
            (CHOOSE g : Folds(g, r, names, d, stamp))[DOMAIN names])
  BY <1>3, <1>4, FoldTries
<1> QED
  BY <1>1, <1>2, <1>3, <1>5

\* The attempts that RemainingIsPromise makes.
Again(t, g) == g = [k \in Nat |-> Attempt(list[t], IF k = 0 THEN db ELSE g[k - 1].db, clock)]

LEMMA AttemptType ==
    ASSUME NEW names \in Seq(Names), \A i \in 1 .. Len(names) : rules[names[i]] \in LimitRule,
           NEW d \in Dictionaries(Names), NEW stamp \in Nat
    PROVE  Attempt(names, d, stamp) \in Attempts(Names)
<1>0. PICK n \in Nat : n = Len(names)
  OBVIOUS
<1>1. PICK table : n = Len(names) /\ table = [i \in 1 .. n |-> rules[names[i]]]
  BY <1>0
<1>2. table \in [1 .. n -> LimitRule] /\ names \in [1 .. n -> Names]
  BY <1>1
<1>3. PICK result : result = Attempt(names, d, stamp)
  OBVIOUS
<1>4. Tries(n, names, table, d, stamp, result)
  BY <1>1, <1>3, AttemptTries
<1>5. PICK w : TriesInTurn(w, n, names, table, d, stamp) /\ result = w[n]
  BY <1>4 DEF Tries
<1>6. \A i \in 0 .. n : w[i] \in Attempts(Names)
  BY <1>2, <1>5, TriesType
<1> QED
  BY <1>1, <1>3, <1>5, <1>6

LEMMA PromiseKept ==
    ASSUME NEW t \in Threads, list[t] \in Seq(Names), db \in Dictionaries(Names), clock \in Nat,
           \A i, j \in 1 .. Len(list[t]) : list[t][i] = list[t][j] => i = j,
           \A i \in 1 .. Len(list[t]) : rules[list[t][i]] \in LimitRule, NEW m \in Nat,
           AllHaveLeft(Len(list[t]), list[t], [i \in 1 .. Len(list[t]) |-> rules[list[t][i]]], db, clock, m)
    PROVE  \A k \in 0 .. m - 1 : (CHOOSE g : Again(t, g))[k].allowed
<1>0. PICK names \in Seq(Names), stamp \in Nat, d \in Dictionaries(Names), n \in Nat :
          names = list[t] /\ stamp = clock /\ d = db /\ n = Len(list[t])
  <2>1. Len(list[t]) \in Nat
    OBVIOUS
  <2> QED
    BY <2>1
<1>1. PICK table : /\ names = list[t] /\ stamp = clock /\ d = db /\ n = Len(list[t])
                   /\ table = [i \in 1 .. n |-> rules[list[t][i]]]
  BY <1>0
<1>2. /\ names \in [1 .. n -> Names] /\ table \in [1 .. n -> LimitRule]
      /\ \A i, j \in 1 .. n : names[i] = names[j] => i = j
      /\ \A i \in 1 .. Len(names) : rules[names[i]] \in LimitRule
  BY <1>1
<1>3. AllHaveLeft(n, names, table, d, stamp, m)
  BY <1>1
<1> DEFINE A == [e \in Dictionaries(Names) |-> Attempt(names, e, stamp)]
<1>4. \A e \in Dictionaries(Names) :
          /\ Attempt(names, e, stamp) \in Attempts(Names)
          /\ Tries(n, names, table, e, stamp, Attempt(names, e, stamp))
  BY <1>1, <1>2, AttemptType, AttemptTries
<1>5. A \in [Dictionaries(Names) -> Attempts(Names)]
  BY <1>4
<1>6. PICK f \in [Nat -> Attempts(Names)] : InRow(f, d, A)
  <2> HIDE DEF A
  <2>1. CanRepeat(Names, d, A)
    BY <1>1, <1>5, RepetitionExists
  <2> QED
    BY <2>1 DEF CanRepeat
<1>7. ASSUME NEW k \in Nat
      PROVE  f[k] = Attempt(names, IF k = 0 THEN d ELSE f[k - 1].db, stamp)
  <2>1. (IF k = 0 THEN d ELSE f[k - 1].db) \in Dictionaries(Names)
    <3>1. CASE k = 0
      BY <1>1, <3>1
    <3>2. CASE k # 0
      <4>1. f[k - 1] \in Attempts(Names)
        BY <1>6, <3>2
      <4> QED
        BY <3>2, <4>1 DEF Attempts
    <3> QED
      BY <3>1, <3>2
  <2>2. PICK e \in Dictionaries(Names) : e = IF k = 0 THEN d ELSE f[k - 1].db
    BY <2>1
  <2>3. f[k] = A[e]
    BY <1>6, <2>2 DEF InRow
  <2> QED
    BY <2>2, <2>3
<1>8. Again(t, f)
  <2>1. f = [k \in Nat |-> f[k]]
    BY <1>6
  <2> QED
    BY <1>1, <1>7, <2>1, Zenon DEF Again
<1>9. PICK again : again = (CHOOSE g : Again(t, g)) /\ Again(t, again)
  BY <1>8, Zenon
<1>10. \A k \in Nat : again[k] = Attempt(names, IF k = 0 THEN d ELSE again[k - 1].db, stamp)
  <2>1. again = [k \in Nat |-> Attempt(list[t], IF k = 0 THEN db ELSE again[k - 1].db, clock)]
    BY <1>9, Zenon DEF Again
  <2>2. again = [k \in Nat |-> Attempt(names, IF k = 0 THEN d ELSE again[k - 1].db, stamp)]
    BY <1>1, <2>1
  <2>3. PICK self :
            /\ self = again
            /\ again = [k \in Nat |-> Attempt(names, IF k = 0 THEN d ELSE self[k - 1].db, stamp)]
    BY <2>2
  <2> QED
    BY <2>3, Zenon
<1>11. Tries(n, names, table, d, stamp, again[0])
  <2>1. again[0] = Attempt(names, d, stamp)
    <3>1. PICK zero \in Nat : zero = 0
      OBVIOUS
    <3>2. PICK e : e = IF zero = 0 THEN d ELSE again[zero - 1].db
      OBVIOUS
    <3>3. again[zero] = Attempt(names, e, stamp)
      BY <1>10, <3>2
    <3>4. e = d
      BY <3>1, <3>2
    <3> QED
      BY <3>1, <3>3, <3>4, Zenon
  <2> QED
    BY <1>1, <1>4, <2>1
<1>12. ASSUME NEW k \in Nat, again[k].db \in Dictionaries(Names)
       PROVE  Tries(n, names, table, again[k].db, stamp, again[k + 1])
  <2>1. k + 1 \in Nat /\ k + 1 # 0 /\ (k + 1) - 1 = k
    OBVIOUS
  <2>2. again[k + 1] = Attempt(names, again[k].db, stamp)
    <3>1. PICK j \in Nat : j = k + 1 /\ j # 0 /\ j - 1 = k
      BY <2>1
    <3>2. again[j] = Attempt(names, IF j = 0 THEN d ELSE again[j - 1].db, stamp)
      BY <1>10
    <3>3. (IF j = 0 THEN d ELSE again[j - 1].db) = again[k].db
      BY <3>1
    <3> QED
      BY <3>1, <3>2, <3>3
  <2> QED
    BY <1>4, <1>12, <2>2
<1>13. \A k \in 0 .. m - 1 : again[k].allowed
  BY <1>1, <1>2, <1>3, <1>11, <1>12, TriesRepeated
<1> QED
  BY <1>9, <1>13

LEMMA PromiseUnfolded ==
    RemainingIsPromise <=>
        \A t \in Threads :
            pc[t] = "idle" /\ reply[t].kind = "allowed" =>
                \A k \in 0 .. reply[t].remaining - 1 : (CHOOSE g : Again(t, g))[k].allowed
  BY Zenon DEF RemainingIsPromise, Again

\* One thread, a table that nobody else changes, a clock that is never set back and
\* lists without repetition.
Alone ==
    /\ \E t : Threads = {t}
    /\ MaxChanges = 0 /\ MaxStepsBack = 0
    /\ \A names \in Lists : \A i, j \in 1 .. Len(names) : names[i] = names[j] => i = j

ThreadPromise(t) ==
    /\ pc[t] \in {"create", "created"} => at[t] = 1
    /\ pc[t] \in {"clock", "store"} => rule[t] = rules[Name(t)]
    /\ pc[t] = "store" => now[t] <= clock
    /\ pc[t] # "idle" => Owing(rules, db, clock, list[t], results[t], at[t] - 1)
    /\ pc[t] = "idle" /\ reply[t].kind = "allowed" =>
           /\ Owing(rules, db, clock, list[t], results[t], Len(list[t]))
           /\ \A i \in 1 .. Len(list[t]) : reply[t].remaining <= results[t][i].remaining

PromiseInv == TypeInv /\ db \in Countings(Names) /\ \A t \in Threads : ThreadPromise(t)

LEMMA ListDistinct ==
    ASSUME Alone, TypeInv, NEW t \in Threads
    PROVE  \A i, j \in 1 .. Len(list[t]) : list[t][i] = list[t][j] => i = j
<1>1. list[t] \in Lists \cup {<<LazyName>>, <<>>}
  BY TypeParts DEF LocalTypes
<1>2. CASE list[t] \in Lists
  BY <1>2 DEF Alone
<1>3. CASE list[t] \in {<<LazyName>>, <<>>}
  BY <1>3
<1> QED
  BY <1>1, <1>2, <1>3

\* What TypeInv says of a thread.
LEMMA ThreadTypes ==
    ASSUME TypeInv, NEW t \in Threads
    PROVE  /\ pc[t] \in PC /\ list[t] \in Seq(Names) /\ at[t] \in Nat \ {0} /\ at[t] - 1 \in Nat
           /\ clock \in Nat /\ now[t] \in Nat /\ results[t] \in Seq(Result) /\ reply[t] \in Reply
           /\ \A i \in 1 .. Len(results[t]) : results[t][i].remaining \in Nat
<1>1. LocalTypes /\ LiveInv
  BY TypeParts DEF LedgerInv
<1>2. results[t] \in Seq(Result)
  BY <1>1 DEF LocalTypes
<1>3. \A i \in 1 .. Len(results[t]) : results[t][i] \in Result
  BY <1>2, ElementOfSeq
<1> QED
  BY <1>1, <1>2, <1>3, BoundsAssumption, SMTT(40) DEF LocalTypes, LiveInv, Shape, Result

\* A decision that is stored.
LEMMA CountingsStored ==
    ASSUME TypeInv, db \in Countings(Names), NEW t \in Threads, pc[t] = "store", StoreEntry(t)
    PROVE  /\ rule[t] \in LimitRule /\ Name(t) \in Names
           /\ NeverNegative(rule[t], db[rule[t].algorithm][Name(t)])
           /\ db' \in Countings(Names)
           /\ db'[rule[t].algorithm][Name(t)] = Decision(t).entry
           /\ \A a \in AlgorithmIds, n \in Names \ {Name(t)} : db'[a][n] = db[a][n]
<1>1. PICK under \in LimitRule : under = rule[t]
  BY TypeParts, RuleTableAssumption DEF HeldTypes
<1>2. PICK key \in Names : key = Name(t)
  BY TypeParts, DecisionType
<1>3. PICK stamp \in Nat : stamp = now[t]
  BY ThreadTypes
<1>4. PICK d \in Countings(Names) : d = db
  OBVIOUS
<1>5. PICK outcome : outcome = Decide(under, d[under.algorithm][key], stamp)
  OBVIOUS
<1>6. NeverNegative(under, d[under.algorithm][key])
  BY CellOfCounting
<1>7. PICK entry : entry = outcome.entry /\ NeverNegative(under, entry)
  <2>1. PICK before : before = d[under.algorithm][key]
    OBVIOUS
  <2> QED
    BY <1>5, <1>6, <2>1, DecisionBacks
<1>8. Decision(t) = outcome
  BY <1>1, <1>2, <1>3, <1>4, <1>5 DEF Decision
<1>9. db' = [d EXCEPT ![under.algorithm][key] = entry]
  <2>1. db' = [db EXCEPT ![rule[t].algorithm][Name(t)] = Decision(t).entry]
    BY DEF StoreEntry
  <2>2. Decision(t).entry = entry
    BY <1>7, <1>8
  <2> QED
    BY <1>1, <1>2, <1>4, <2>1, <2>2, Zenon
<1>10. PICK e : e = db'
  OBVIOUS
<1>11. /\ e \in Countings(Names) /\ e[under.algorithm][key] = entry
       /\ \A a \in AlgorithmIds, j \in Names \ {key} : e[a][j] = d[a][j]
  <2>1. e = Put(d, under.algorithm, key, entry)
    BY <1>9, <1>10, Zenon DEF Put
  <2> QED
    BY <1>7, <2>1, CountingStored
<1> QED
  BY <1>1, <1>2, <1>4, <1>6, <1>7, <1>8, <1>10, <1>11

\* A step that decides nothing and leaves the list and the results alone.
LEMMA OwingKept ==
    ASSUME TypeInv, db \in Countings(Names), NEW t \in Threads, NEW n \in Nat,
           rules' = rules, db' = db, list'[t] = list[t], results'[t] = results[t],
           clock' \in Nat, clock <= clock', Owing(rules, db, clock, list[t], results[t], n)
    PROVE  Owing(rules', db', clock', list'[t], results'[t], n)
<1>1. PICK names \in Seq(Names) : names = list[t]
  BY ThreadTypes
<1>2. PICK found : found = results[t]
  OBVIOUS
<1>3. PICK stamp \in Nat, later \in Nat : stamp = clock /\ later = clock'
  BY ThreadTypes
<1>4. PICK d \in Countings(Names) : d = db
  OBVIOUS
<1>5. PICK r : r = rules
  OBVIOUS
<1>6. Owing(r, d, stamp, names, found, n)
  BY <1>1, <1>2, <1>3, <1>4, <1>5
<1>7. \A i \in 1 .. n : found[i].remaining \in Nat
  BY <1>2, <1>6, ThreadTypes DEF Owing
<1>8. stamp <= later
  BY <1>3
<1>9. Owing(r, d, later, names, found, n)
  BY <1>6, <1>7, <1>8, OwingLater
<1> QED
  BY <1>1, <1>2, <1>3, <1>4, <1>5, <1>9

\* No rule has been decided yet.
LEMMA OwingNone ==
    ASSUME NEW r, NEW d, NEW stamp, NEW names \in Seq(Names)
    PROVE  Owing(r, d, stamp, names, <<>>, 0)
  BY DEF Owing

LEMMA PromiseStart ==
    ASSUME PromiseInv, NEW t \in Threads, NEW to \in {"resolve", "create"},
           NEW names \in Lists \cup {<<LazyName>>}, Goto(t, "idle", to), StartOf(t, names)
    PROVE  ThreadPromise(t)'
<1>0. /\ pc \in [Threads -> PC] /\ list \in [Threads -> Seq(Names)] /\ at \in [Threads -> Nat \ {0}]
      /\ results \in [Threads -> Seq(Result)]
  BY DEF PromiseInv, TypeInv, LedgerInv, LiveInv, Shape, TypeOK
<1>1. pc'[t] = to /\ at'[t] = 1 /\ results'[t] = <<>> /\ list'[t] = names
  BY <1>0 DEF Goto, StartOf
<1>2. names \in Seq(Names)
  <2>1. CASE names \in Lists
    BY <2>1, RuleTableAssumption
  <2>2. CASE names = <<LazyName>>
    BY <2>2, RuleTableAssumption
  <2> QED
    BY <2>1, <2>2
<1>3. Owing(rules', db', clock', list'[t], results'[t], 0)
  BY <1>1, <1>2, OwingNone
<1>4. at'[t] - 1 = 0
  BY <1>1
<1> QED
  BY <1>1, <1>3, <1>4 DEF ThreadPromise

\* Steps between two decisions.
LEMMA PromiseElsewhere ==
    ASSUME PromiseInv, NEW t \in Threads, NEW to \in PC \ {"idle"},
           pc[t] # "idle", pc'[t] = to, rules' = rules, db' = db, clock' = clock,
           list'[t] = list[t], results'[t] = results[t], at'[t] = at[t],
           to \in {"create", "created"} => at[t] = 1,
           to \in {"clock", "store"} => rule'[t] = rules[Name(t)],
           to = "store" => now'[t] <= clock
    PROVE  ThreadPromise(t)'
<1>1. at[t] - 1 \in Nat /\ clock \in Nat /\ clock <= clock
  BY ThreadTypes DEF PromiseInv
<1>2. Owing(rules, db, clock, list[t], results[t], at[t] - 1)
  BY DEF PromiseInv, ThreadPromise
<1>3. Owing(rules', db', clock', list'[t], results'[t], at[t] - 1)
  BY <1>2
<1>4. Name(t)' = Name(t)
  BY DEF Name
<1> QED
  BY <1>3, <1>4 DEF ThreadPromise

\* The decorator adds its rule before the check has decided anything.
LEMMA PromiseCreate ==
    ASSUME PromiseInv, NEW t \in Threads, CreateRule(t)
    PROVE  ThreadPromise(t)'
<1>0. pc \in [Threads -> PC] /\ list[t] \in Seq(Names)
  BY ThreadTypes DEF PromiseInv, TypeInv, LedgerInv, LiveInv, Shape
<1>1. /\ pc[t] = "create" /\ pc'[t] = "created" /\ at'[t] = at[t]
      /\ list'[t] = list[t] /\ results'[t] = results[t]
  BY <1>0 DEF CreateRule, Goto
<1>2. at[t] = 1 /\ Owing(rules, db, clock, list[t], results[t], at[t] - 1)
  BY <1>1 DEF PromiseInv, ThreadPromise
<1>3. at[t] - 1 = 0 /\ Len(results[t]) = 0
  BY <1>2 DEF Owing
<1>4. results[t] = <<>>
  BY <1>3, ThreadTypes, EmptySeq DEF PromiseInv
<1>5. Owing(rules', db', clock', list'[t], results'[t], at'[t] - 1)
  BY <1>0, <1>1, <1>3, <1>4, OwingNone
<1> QED
  BY <1>1, <1>2, <1>5 DEF ThreadPromise

LEMMA PromiseAdmitted ==
    ASSUME Alone, PromiseInv, NEW t \in Threads, Admitted(t)
    PROVE  db' \in Countings(Names) /\ ThreadPromise(t)'
<1> DEFINE last == at[t] = Len(list[t])
           outcome == Decision(t)
           more == Append(results[t], ResultOf(outcome))
<1>1. /\ TypeInv /\ db \in Countings(Names) /\ ThreadPromise(t)
      /\ pc \in [Threads -> PC] /\ at \in [Threads -> Nat \ {0}] /\ results \in [Threads -> Seq(Result)]
      /\ reply \in [Threads -> Reply]
  BY DEF PromiseInv, TypeInv, LedgerInv, LiveInv, Shape, TypeOK
<1>2. /\ pc[t] = "store" /\ StoreEntry(t) /\ at'[t] = at[t] + 1 /\ results'[t] = more
      /\ pc'[t] = IF last THEN "idle" ELSE "resolve"
      /\ last => reply'[t] = Answer("allowed", Strictest(more))
      /\ rules' = rules /\ clock' = clock /\ list' = list
  BY <1>1 DEF Admitted, Goto, tableVars, clockVars
<1>3. /\ rule[t] \in LimitRule /\ Name(t) \in Names
      /\ NeverNegative(rule[t], db[rule[t].algorithm][Name(t)])
      /\ db' \in Countings(Names)
      /\ db'[rule[t].algorithm][Name(t)] = Decision(t).entry
      /\ \A a \in AlgorithmIds, n \in Names \ {Name(t)} : db'[a][n] = db[a][n]
  BY <1>1, <1>2, CountingsStored
<1>4. rule[t] = rules[Name(t)] /\ now[t] <= clock /\ Owing(rules, db, clock, list[t], results[t], at[t] - 1)
  BY <1>1, <1>2 DEF ThreadPromise
<1>5. PICK n \in Nat, stamp \in Nat, found \in Seq(Result), names \in Seq(Names),
          key \in Names, under \in LimitRule :
          /\ n = at[t] - 1 /\ stamp = clock /\ found = results[t] /\ names = list[t]
          /\ key = Name(t) /\ under = rule[t]
  BY <1>1, <1>3, ThreadTypes
<1>6. n + 1 = at[t] /\ n < Len(names) /\ key = names[n + 1]
  <2>1. at[t] \in DOMAIN list[t]
    BY <1>1, <1>2 DEF TypeInv, LedgerInv, LiveInv
  <2> QED
    BY <1>5, <2>1 DEF Name
<1>7. \A i \in 1 .. n : names[i] # key
  <2> SUFFICES ASSUME NEW i \in 1 .. n, names[i] = key PROVE FALSE
    OBVIOUS
  <2>1. i \in 1 .. Len(list[t]) /\ n + 1 \in 1 .. Len(list[t]) /\ list[t][i] = list[t][n + 1]
    BY <1>5, <1>6
  <2>2. i = n + 1
    BY <1>1, <2>1, ListDistinct
  <2> QED
    BY <2>2
<1>8. /\ outcome.remaining \in Nat
      /\ Backs(under, outcome.entry, stamp, outcome.remaining)
  <2>1. PICK entry : entry = db[under.algorithm][key] /\ NeverNegative(under, entry)
    BY <1>3, <1>5
  <2>2. PICK read \in Nat : read = now[t] /\ read <= stamp
    BY <1>1, <1>4, <1>5, ThreadTypes
  <2>3. PICK out : out = outcome /\ out = Decide(under, entry, read)
    BY <1>5, <2>1, <2>2 DEF Decision
  <2>4. out.remaining \in Nat /\ Backs(under, out.entry, stamp, out.remaining)
    BY <2>1, <2>2, <2>3, DecisionBacksLater
  <2> QED
    BY <2>3, <2>4
<1>9. more \in Seq(Result) /\ Len(more) = n + 1 /\ more[n + 1].remaining = outcome.remaining
      /\ \A i \in 1 .. n : more[i] = found[i]
  <2>1. Len(found) = n
    BY <1>4, <1>5 DEF Owing
  <2>2. ResultOf(outcome) \in Result
    <3>1. outcome \in Outcome
      BY <1>1, <1>2, TypeParts, DecisionType
    <3> QED
      BY <3>1 DEF Outcome, ResultOf, Result
  <2>3. PICK one \in Result : one = ResultOf(outcome) /\ one.remaining = outcome.remaining
    BY <2>2 DEF ResultOf
  <2>4. more = Append(found, one)
    BY <1>5, <2>3
  <2> HIDE DEF more, outcome
  <2> QED
    BY <2>1, <2>3, <2>4
<1> HIDE DEF more, outcome
<1>10. PICK longer \in Seq(Result) : longer = more
  BY <1>9
<1>11. PICK e \in Countings(Names) : e = db'
  BY <1>3
<1>12. Owing(rules, e, stamp, names, longer, n + 1)
  <2>1. PICK d \in Countings(Names) : d = db
    BY <1>1
  <2>2. PICK r : r = rules
    OBVIOUS
  <2>3. Owing(r, d, stamp, names, found, n)
    BY <1>4, <1>5, <2>1, <2>2
  <2>4. r[key] = under
    BY <1>4, <1>5, <2>2
  <2>5. SameElsewhere(Names, key, e, d)
    BY <1>3, <1>5, <1>11, <2>1 DEF SameElsewhere
  <2>6. Len(longer) = n + 1 /\ \A i \in 1 .. n : longer[i] = found[i]
    BY <1>9, <1>10
  <2>7. Backs(r[key], e[r[key].algorithm][key], stamp, longer[n + 1].remaining)
    <3>1. e[under.algorithm][key] = outcome.entry
      BY <1>3, <1>5, <1>11 DEF outcome
    <3> QED
      BY <1>8, <1>9, <1>10, <2>4, <3>1
  <2>8. r[key] \in LimitRule
    BY <2>4
  <2>9. PICK next : next = n + 1
    OBVIOUS
  <2>10. Owing(r, e, stamp, names, longer, next)
    <3>1. n < Len(names) /\ key = names[next]
      BY <1>6, <2>9
    <3>2. Len(longer) = next /\ \A i \in 1 .. n : longer[i] = found[i]
      BY <2>6, <2>9
    <3>3. Backs(r[key], e[r[key].algorithm][key], stamp, longer[next].remaining)
      BY <2>7, <2>9
    <3> QED
      <4>1. OwesOneMore(Names, r, d, e, stamp, names, key, found, longer, n, next)
        BY <1>7, <2>3, <2>5, <2>8, <2>9, <3>1, <3>2, <3>3 DEF OwesOneMore
      <4> QED
        BY <4>1, OwingOneMore
  <2> QED
    BY <2>2, <2>9, <2>10
<1>13. Owing(rules', db', clock', list'[t], results'[t], at[t])
  BY <1>2, <1>5, <1>6, <1>10, <1>11, <1>12
<1>14. CASE last
  <2>1. \A i \in 1 .. Len(longer) : Strictest(longer).remaining <= longer[i].remaining
    <3>1. longer # <<>>
      BY <1>9, <1>10
    <3> QED
      BY <3>1, StrictestFound
  <2>2. reply'[t].remaining = Strictest(longer).remaining
    BY <1>2, <1>10, <1>14 DEF Answer
  <2>3. Len(longer) = Len(list'[t]) /\ at[t] = Len(list'[t])
    BY <1>2, <1>5, <1>6, <1>9, <1>10, <1>14
  <2>4. \A i \in 1 .. Len(list'[t]) : reply'[t].remaining <= results'[t][i].remaining
    BY <1>2, <1>10, <2>1, <2>2, <2>3
  <2> QED
    BY <1>2, <1>3, <1>13, <1>14, <2>3, <2>4 DEF ThreadPromise
<1>15. CASE ~last
  <2>1. at'[t] = at[t] + 1 /\ at[t] \in Nat
    BY <1>1, <1>2
  <2>2. at'[t] - 1 = at[t]
    BY <2>1
  <2> QED
    BY <1>2, <1>3, <1>13, <1>15, <2>2 DEF ThreadPromise
<1> QED
  BY <1>14, <1>15

LEMMA PromiseStep ==
    ASSUME Alone, PromiseInv, NEW t \in Threads, Step(t)
    PROVE  db' \in Countings(Names) /\ ThreadPromise(t)'
<1> USE DEF PC
<1>0. /\ pc \in [Threads -> PC] /\ rule \in [Threads -> Rules \cup {NoRule}]
      /\ now \in [Threads -> 0 .. MaxTime] /\ reply \in [Threads -> Reply]
      /\ db \in Countings(Names) /\ ThreadPromise(t)
  BY DEF PromiseInv, TypeInv, LedgerInv, LiveInv, Shape, TypeOK
<1>1. CASE Check(t) \/ CallDecorated(t)
  <2>1. PICK to \in {"resolve", "create"} :
            /\ Goto(t, "idle", to)
            /\ \E names \in Lists \cup {<<LazyName>>} : StartOf(t, names)
    BY <1>1 DEF Check, CallDecorated
  <2>2. PICK names \in Lists \cup {<<LazyName>>} : StartOf(t, names)
    BY <2>1
  <2>3. ThreadPromise(t)'
    BY <2>1, <2>2, PromiseStart
  <2> QED
    BY <1>0, <2>2, <2>3 DEF StartOf
<1>2. CASE CreateRule(t)
  <2>1. ThreadPromise(t)'
    BY <1>2, PromiseCreate
  <2> QED
    BY <1>0, <1>2, <2>1 DEF CreateRule
<1>3. CASE MarkCreated(t)
  <2>1. pc[t] = "created" /\ pc'[t] = "resolve" /\ UNCHANGED <<rules, db, clock, list, results, at>>
    BY <1>0, <1>3 DEF MarkCreated, Goto, clockVars
  <2> QED
    BY <1>0, <2>1, PromiseElsewhere
<1>4. CASE Resolve(t)
  <2>1. /\ pc[t] = "resolve" /\ pc'[t] = "clock" /\ rule'[t] = rules[Name(t)]
        /\ UNCHANGED <<rules, db, clock, list, results, at>>
    BY <1>0, <1>4 DEF Resolve, Goto, tableVars, Name, clockVars
  <2> QED
    BY <1>0, <2>1, PromiseElsewhere
<1>5. CASE Unknown(t) \/ EmptyList(t)
  <2>1. Raise(t)
    BY <1>5 DEF Unknown, EmptyList
  <2>2. pc'[t] = "idle" /\ reply'[t].kind # "allowed" /\ db' = db
    BY <1>0, <2>1 DEF Raise, Goto
  <2> QED
    BY <1>0, <2>2 DEF ThreadPromise
<1>6. CASE ReadClock(t)
  <2>1. /\ pc[t] = "clock" /\ pc'[t] = "store" /\ now'[t] = clock /\ UNCHANGED <<rules, rule>>
        /\ UNCHANGED <<db, clock, list, results, at>>
    BY <1>0, <1>6 DEF ReadClock, Goto, tableVars, clockVars
  <2>2. rule[t] = rules[Name(t)]
    BY <1>0, <2>1 DEF ThreadPromise
  <2>3. now'[t] <= clock
    BY <2>1, ThreadTypes DEF PromiseInv
  <2> QED
    BY <1>0, <2>1, <2>2, <2>3, PromiseElsewhere
<1>7. CASE Admitted(t)
  BY <1>7, PromiseAdmitted
<1>8. CASE Refused(t)
  <2>1. pc[t] = "store" /\ pc'[t] = "idle" /\ StoreEntry(t) /\ reply'[t].kind = "denied"
    BY <1>0, <1>8 DEF Refused, Goto, Answer
  <2>2. db' \in Countings(Names)
    BY <1>0, <2>1, CountingsStored DEF PromiseInv
  <2> QED
    BY <2>1, <2>2 DEF ThreadPromise
<1> QED
  BY <1>1, <1>2, <1>3, <1>4, <1>5, <1>6, <1>7, <1>8 DEF Step

\* Time passes, or nothing happens.
LEMMA PromiseWaits ==
    ASSUME PromiseInv, NEW t \in Threads, clock' \in Nat, clock <= clock',
           UNCHANGED <<rules, db, pc, list, at, rule, now, results, reply>>
    PROVE  ThreadPromise(t)'
<1>1. /\ TypeInv /\ db \in Countings(Names) /\ ThreadPromise(t)
      /\ at[t] - 1 \in Nat /\ Len(list[t]) \in Nat /\ clock \in Nat /\ now[t] \in Nat
  BY ThreadTypes DEF PromiseInv
<1>2. \A n \in Nat : Owing(rules, db, clock, list[t], results[t], n)
                         => Owing(rules', db', clock', list'[t], results'[t], n)
  BY <1>1, OwingKept
<1>3. pc[t] = "store" => now[t] <= clock'
  BY <1>1 DEF ThreadPromise
<1>4. Name(t)' = Name(t)
  BY DEF Name
<1> QED
  BY <1>1, <1>2, <1>3, <1>4 DEF ThreadPromise

LEMMA PromiseNext == ASSUME Alone, PromiseInv, [Next]_vars PROVE PromiseInv'
<1>1. TypeInv'
  BY TypeNext DEF PromiseInv
<1>2. PICK t \in Threads : Threads = {t}
  BY DEF Alone
<1>3. CASE \E u \in Threads : Step(u)
  <2>1. Step(t)
    BY <1>2, <1>3
  <2>2. db' \in Countings(Names) /\ ThreadPromise(t)'
    BY <2>1, PromiseStep
  <2> QED
    BY <1>1, <1>2, <2>2 DEF PromiseInv
<1>4. CASE UNCHANGED <<rules, db, pc, list, at, rule, now, results, reply>> /\ clock' \in {clock, clock + 1}
  <2>1. clock' \in Nat /\ clock <= clock'
    BY <1>4, ThreadTypes DEF PromiseInv
  <2>2. ThreadPromise(t)'
    BY <1>4, <2>1, PromiseWaits
  <2> QED
    BY <1>1, <1>2, <1>4, <2>2 DEF PromiseInv
<1>5. ~AddRule /\ ~RemoveRule /\ ~StepBack
  <2>1. changes \in 0 .. 0 /\ stepsBack \in 0 .. 0
    BY DEF Alone, PromiseInv, TypeInv, TypeOK
  <2> QED
    BY <2>1 DEF Alone, AddRule, RemoveRule, Change, StepBack
<1>6. ASSUME Tick \/ Finished \/ UNCHANGED vars
      PROVE  UNCHANGED <<rules, db, pc, list, at, rule, now, results, reply>> /\ clock' \in {clock, clock + 1}
  BY <1>6 DEF Tick, Finished, vars, clockVars, tableVars, localVars, historyVars
<1> QED
  BY <1>3, <1>4, <1>5, <1>6 DEF Next

LEMMA PromiseInit == ASSUME Init PROVE PromiseInv
<1>1. TypeInv
  BY TypeInit
<1>2. db \in Countings(Names)
  <2>1. \A a \in Algorithms : <<>> \in EntryOf(a) /\ <<>> \in Entry
    BY DEF EntryOf, EntryUnder, Entry
  <2>2. db = [a \in Algorithms |-> [n \in Names |-> <<>>]]
    BY DEF Init
  <2> QED
    BY <2>1, <2>2 DEF Countings, Dictionaries, Algorithms, AlgorithmIds
<1>3. \A t \in Threads : ThreadPromise(t)
  BY DEF Init, ThreadPromise, NoReply
<1> QED
  BY <1>1, <1>2, <1>3 DEF PromiseInv

\* A lone client is given what a reply has promised: `remaining' more checks of the
\* whole list, at once, whatever rules and lists without repetition there are.
THEOREM RemainingIsPromiseHolds == Alone => (Spec => []RemainingIsPromise)
<1> SUFFICES ASSUME Alone PROVE Spec => []RemainingIsPromise
  OBVIOUS
<1>1. Init => PromiseInv
  BY PromiseInit
<1>2. PromiseInv /\ [Next]_vars => PromiseInv'
  BY PromiseNext
<1>3. PromiseInv => RemainingIsPromise
  <2> SUFFICES ASSUME PromiseInv, NEW t \in Threads, pc[t] = "idle", reply[t].kind = "allowed"
               PROVE  \A k \in 0 .. reply[t].remaining - 1 : (CHOOSE g : Again(t, g))[k].allowed
    BY PromiseUnfolded, Zenon
  <2>1. /\ TypeInv /\ db \in Countings(Names)
        /\ Owing(rules, db, clock, list[t], results[t], Len(list[t]))
        /\ \A i \in 1 .. Len(list[t]) : reply[t].remaining <= results[t][i].remaining
    BY DEF PromiseInv, ThreadPromise
  <2>2. PICK names \in Seq(Names), found \in Seq(Result), stamp \in Nat, d \in Countings(Names), m \in Nat :
            names = list[t] /\ found = results[t] /\ stamp = clock /\ d = db /\ m = reply[t].remaining
    <3>1. reply[t].remaining \in Nat
      BY <2>1, ThreadTypes DEF Reply
    <3> QED
      BY <2>1, <3>1, ThreadTypes
  <2>3. PICK n \in Nat : n = Len(names)
    BY <2>2
  <2>4. PICK r : r = rules
    OBVIOUS
  <2>5. Owing(r, d, stamp, names, found, n)
    BY <2>1, <2>2, <2>3, <2>4
  <2>6. \A i \in 1 .. n : found[i].remaining \in Nat /\ m <= found[i].remaining
    <3>1. Len(found) = n
      BY <2>5 DEF Owing
    <3> QED
      BY <2>1, <2>2, <2>3, <3>1, ThreadTypes
  <2>7. /\ \A i \in 1 .. n : r[names[i]] \in LimitRule
        /\ AllHaveLeft(n, names, [i \in 1 .. n |-> r[names[i]]], d, stamp, m)
    BY <2>2, <2>3, <2>5, <2>6, OwingThrough, ZenonT(40)
  <2>8. \A i, j \in 1 .. Len(list[t]) : list[t][i] = list[t][j] => i = j
    BY <2>1, ListDistinct
  <2>9. db \in Dictionaries(Names)
    BY <2>1 DEF Countings
  <2>10. \A k \in 0 .. m - 1 : (CHOOSE g : Again(t, g))[k].allowed
    BY <2>2, <2>3, <2>4, <2>7, <2>8, <2>9, PromiseKept
  <2> QED
    BY <2>2, <2>10
<1> QED
  BY <1>1, <1>2, <1>3, PTL DEF Spec

-----------------------------------------------------------------------------
\* Sets of positions compared as binary numbers are: the last position in which they
\* differ decides.  The value of a set is the number of sets below it.
Below(C, B) == \E j \in B \ C : \A i \in Nat : i > j => (i \in B <=> i \in C)

BelowIn(n, B) == {C \in SUBSET (1 .. n) : Below(C, B)}

Value(n, B) == Cardinality(BelowIn(n, B))

LEMMA Subsets ==
    ASSUME NEW n \in Nat
    PROVE  IsFiniteSet(SUBSET (1 .. n)) /\ Cardinality(SUBSET (1 .. n)) = 2 ^ n
<1>1. IsFiniteSet(1 .. n) /\ Cardinality(1 .. n) = n
  <2>1. IsFiniteSet(1 .. n) /\ Cardinality(1 .. n) = IF 1 > n THEN 0 ELSE n - 1 + 1
    BY FS_Interval
  <2> QED
    BY <2>1
<1>2. PICK S : S = 1 .. n
  OBVIOUS
<1>3. IsFiniteSet(SUBSET S) /\ Cardinality(SUBSET S) = 2 ^ Cardinality(S)
  BY <1>1, <1>2, FS_SUBSET
<1> QED
  BY <1>1, <1>2, <1>3

LEMMA BelowFinite ==
    ASSUME NEW n \in Nat, NEW B \in SUBSET (1 .. n)
    PROVE  /\ IsFiniteSet(BelowIn(n, B)) /\ Value(n, B) \in Nat
           /\ B \notin BelowIn(n, B)
<1>1. BelowIn(n, B) \in SUBSET (SUBSET (1 .. n))
  BY DEF BelowIn
<1>2. IsFiniteSet(BelowIn(n, B))
  BY <1>1, Subsets, FS_Subset
<1>3. ~Below(B, B)
  BY DEF Below
<1> QED
  BY <1>2, <1>3, FS_CardinalityType DEF BelowIn, Value

LEMMA ValueBound ==
    ASSUME NEW n \in Nat, NEW B \in SUBSET (1 .. n)
    PROVE  Value(n, B) <= 2 ^ n - 1
<1>1. PICK all : all = SUBSET (1 .. n)
  OBVIOUS
<1>2. IsFiniteSet(all) /\ Cardinality(all) = 2 ^ n /\ B \in all
  BY <1>1, Subsets
<1>3. IsFiniteSet(all \ {B}) /\ Cardinality(all \ {B}) = 2 ^ n - 1
  BY <1>2, FS_RemoveElement
<1>4. BelowIn(n, B) \in SUBSET (all \ {B})
  BY <1>1, BelowFinite DEF BelowIn
<1>5. Cardinality(BelowIn(n, B)) <= Cardinality(all \ {B})
  BY <1>3, <1>4, FS_Subset
<1> QED
  BY <1>3, <1>5 DEF Value

\* A position that is added, while those before it are cleared, counts one more.
LEMMA ValueGrows ==
    ASSUME NEW n \in Nat, NEW B \in SUBSET (1 .. n), NEW p \in 1 .. n, p \notin B,
           NEW A, A = {k \in B : k > p} \cup {p}
    PROVE  A \in SUBSET (1 .. n) /\ Value(n, B) + 1 <= Value(n, A)
<1>1. A \in SUBSET (1 .. n) /\ p \in A /\ \A i \in Nat : i > p => (i \in A <=> i \in B)
  <2>1. A \in SUBSET (1 .. n) /\ p \in A
    OBVIOUS
  <2>2. ASSUME NEW i \in Nat, i > p
        PROVE  i \in A <=> i \in B
    BY <2>2
  <2> QED
    BY <2>1, <2>2
<1>2. Below(B, A)
  BY <1>1 DEF Below
<1>3. ASSUME NEW C \in SUBSET (1 .. n), Below(C, B)
      PROVE  Below(C, A)
  <2>1. PICK j \in B \ C : \A i \in Nat : i > j => (i \in B <=> i \in C)
    BY <1>3 DEF Below
  <2>2. j \in Nat /\ p \in Nat /\ j # p
    OBVIOUS
  <2>3. CASE j > p
    <3>1. j \in A \ C
      BY <1>1, <2>1, <2>3
    <3>2. ASSUME NEW i \in Nat, i > j
          PROVE  i \in A <=> i \in C
      BY <1>1, <2>1, <2>2, <2>3, <3>2
    <3> QED
      BY <3>1, <3>2 DEF Below
  <2>4. CASE j < p
    <3>1. p \in A \ C
      BY <1>1, <2>1, <2>2, <2>4
    <3>2. ASSUME NEW i \in Nat, i > p
          PROVE  i \in A <=> i \in C
      BY <1>1, <2>1, <2>2, <2>4, <3>2
    <3> QED
      BY <3>1, <3>2 DEF Below
  <2> QED
    BY <2>2, <2>3, <2>4
<1>4. BelowIn(n, B) \cup {B} \in SUBSET BelowIn(n, A)
  BY <1>2, <1>3 DEF BelowIn
<1>5. Cardinality(BelowIn(n, B) \cup {B}) = Value(n, B) + 1
  BY BelowFinite, FS_AddElement DEF Value
<1>6. Cardinality(BelowIn(n, B) \cup {B}) <= Value(n, A)
  <2>1. IsFiniteSet(BelowIn(n, A))
    BY <1>1, BelowFinite
  <2> QED
    BY <1>4, <2>1, FS_Subset DEF Value
<1> QED
  BY <1>1, <1>5, <1>6

-----------------------------------------------------------------------------
\* The rules at the positions of B, from the first on, admit at any time from the stamp.
Ready(r, d, names, B, first, stamp) ==
    \A j \in B : j >= first =>
        r[names[j]] \in LimitRule /\ Serves(r[names[j]], d[r[names[j]].algorithm][names[j]], stamp)

\* A caller that has been refused so often.
Waiting(r, d, names, count, first, stamp) ==
    \E B \in SUBSET (1 .. Len(names)) :
        count <= Value(Len(names), B) /\ Ready(r, d, names, B, first, stamp)

LEMMA ServesLater ==
    ASSUME NEW r, NEW entry, NEW from \in Int, NEW later \in Int, from <= later, Serves(r, entry, from)
    PROVE  Serves(r, entry, later)
  BY DEF Serves

LEMMA WaitingLater ==
    ASSUME NEW r, NEW d, NEW names \in Seq(Names), NEW count, NEW first \in Int, NEW next \in Int,
           first <= next, NEW from \in Int, NEW later \in Int, from <= later,
           Waiting(r, d, names, count, first, from)
    PROVE  Waiting(r, d, names, count, next, later)
<1>1. PICK B \in SUBSET (1 .. Len(names)) :
          count <= Value(Len(names), B) /\ Ready(r, d, names, B, first, from)
  BY DEF Waiting
<1>2. ASSUME NEW j \in B, j >= next
      PROVE  /\ r[names[j]] \in LimitRule
             /\ Serves(r[names[j]], d[r[names[j]].algorithm][names[j]], later)
  <2>1. j >= first
    BY <1>2
  <2>2. r[names[j]] \in LimitRule /\ Serves(r[names[j]], d[r[names[j]].algorithm][names[j]], from)
    BY <1>1, <2>1 DEF Ready
  <2> QED
    BY <2>2, ServesLater
<1>3. Ready(r, d, names, B, next, later)
  BY <1>2 DEF Ready
<1> QED
  BY <1>1, <1>3 DEF Waiting

LEMMA WaitingNone ==
    ASSUME NEW r, NEW d, NEW names \in Seq(Names), NEW first, NEW stamp
    PROVE  Waiting(r, d, names, 0, first, stamp)
<1>1. {} \in SUBSET (1 .. Len(names)) /\ Len(names) \in Nat
  OBVIOUS
<1>2. 0 <= Value(Len(names), {})
  BY <1>1, BelowFinite
<1>3. Ready(r, d, names, {}, first, stamp)
  BY DEF Ready
<1> QED
  BY <1>1, <1>2, <1>3 DEF Waiting

LEMMA WaitingBound ==
    ASSUME NEW r, NEW d, NEW names \in Seq(Names), NEW count \in Nat, NEW first, NEW stamp,
           Waiting(r, d, names, count, first, stamp)
    PROVE  count <= 2 ^ Len(names) - 1
<1>1. PICK n \in Nat : n = Len(names)
  OBVIOUS
<1>2. PICK B \in SUBSET (1 .. n) : count <= Value(n, B)
  BY <1>1 DEF Waiting
<1>3. Value(n, B) <= 2 ^ n - 1 /\ Value(n, B) \in Nat
  BY ValueBound, BelowFinite
<1>4. 2 ^ n \in Int
  OBVIOUS
<1> QED
  BY <1>1, <1>2, <1>3, <1>4

\* A name that is passed.
LEMMA WaitingPassed ==
    ASSUME NEW r, NEW d, NEW names \in Seq(Names), NEW count, NEW p \in 1 .. Len(names), NEW stamp \in Int,
           \A i, j \in 1 .. Len(names) : names[i] = names[j] => i = j,
           NEW e, \A a \in AlgorithmIds, k \in Names \ {names[p]} : e[a][k] = d[a][k],
           Waiting(r, d, names, count, p, stamp)
    PROVE  Waiting(r, e, names, count, p + 1, stamp)
<1>1. PICK B \in SUBSET (1 .. Len(names)) :
          count <= Value(Len(names), B) /\ Ready(r, d, names, B, p, stamp)
  BY DEF Waiting
<1>2. ASSUME NEW j \in B, j >= p + 1
      PROVE  /\ r[names[j]] \in LimitRule
             /\ Serves(r[names[j]], e[r[names[j]].algorithm][names[j]], stamp)
  <2>1. j >= p /\ j # p
    BY <1>2
  <2>2. r[names[j]] \in LimitRule /\ Serves(r[names[j]], d[r[names[j]].algorithm][names[j]], stamp)
    BY <1>1, <2>1 DEF Ready
  <2>3. r[names[j]].algorithm \in AlgorithmIds
    BY <2>2 DEF LimitRule, WindowRule, BucketRule, AlgorithmIds
  <2>4. names[j] \in Names \ {names[p]}
    BY <2>1
  <2>5. e[r[names[j]].algorithm][names[j]] = d[r[names[j]].algorithm][names[j]]
    BY <2>3, <2>4
  <2> QED
    BY <2>2, <2>5
<1>3. Ready(r, e, names, B, p + 1, stamp)
  BY <1>2 DEF Ready
<1> QED
  BY <1>1, <1>3 DEF Waiting

\* The name at p refuses until the reset, and the tables of entries d and e are the same.
Refusing(r, d, e, names, p, stamp, reset) ==
    /\ r[names[p]] \in LimitRule
    /\ ~Decide(r[names[p]], d[r[names[p]].algorithm][names[p]], stamp).allowed
    /\ Serves(r[names[p]], d[r[names[p]].algorithm][names[p]], reset)
    /\ e[r[names[p]].algorithm][names[p]] = d[r[names[p]].algorithm][names[p]]
    /\ \A a \in AlgorithmIds, k \in Names \ {names[p]} : e[a][k] = d[a][k]

\* A name that refuses: it had not done so since it was last passed, so the set of
\* those that have counts one more.
LEMMA WaitingRefused ==
    ASSUME NEW r, NEW d, NEW e, NEW names \in Seq(Names), NEW count \in Nat, NEW p \in 1 .. Len(names),
           NEW stamp \in Int, NEW reset \in Int, stamp <= reset,
           Refusing(r, d, e, names, p, stamp, reset), Waiting(r, d, names, count, p, stamp),
           NEW one \in Int, one = 1, NEW more \in Int, more = count + 1
    PROVE  Waiting(r, e, names, more, one, reset)
<1> USE DEF Refusing
<1>0. PICK n \in Nat : n = Len(names)
  OBVIOUS
<1>1. PICK B \in SUBSET (1 .. n) : count <= Value(n, B) /\ Ready(r, d, names, B, p, stamp)
  BY <1>0 DEF Waiting
<1>2. p \notin B
  <2> SUFFICES ASSUME p \in B PROVE FALSE
    OBVIOUS
  <2>1. Serves(r[names[p]], d[r[names[p]].algorithm][names[p]], stamp)
    BY <1>1 DEF Ready
  <2>2. Decide(r[names[p]], d[r[names[p]].algorithm][names[p]], stamp).allowed
    BY <2>1, SMTT(40) DEF Serves
  <2> QED
    BY <2>2
<1>3. PICK A : A = {k \in B : k > p} \cup {p}
  OBVIOUS
<1>4. A \in SUBSET (1 .. n) /\ Value(n, B) + 1 <= Value(n, A)
  BY <1>0, <1>2, <1>3, ValueGrows
<1>5. Value(n, A) \in Nat /\ Value(n, B) \in Nat
  BY <1>4, BelowFinite
<1>6. more <= Value(n, A)
  BY <1>1, <1>4, <1>5
<1>7. ASSUME NEW j \in A
      PROVE  /\ r[names[j]] \in LimitRule
             /\ Serves(r[names[j]], d[r[names[j]].algorithm][names[j]], reset)
  <2>1. CASE j = p
    BY <2>1
  <2>2. CASE j # p
    <3>1. j \in B /\ j >= p
      BY <1>3, <2>2
    <3>2. r[names[j]] \in LimitRule /\ Serves(r[names[j]], d[r[names[j]].algorithm][names[j]], stamp)
      BY <1>1, <3>1 DEF Ready
    <3> QED
      BY <3>2, ServesLater
  <2> QED
    BY <2>1, <2>2
<1>8. ASSUME NEW j \in A
      PROVE  e[r[names[j]].algorithm][names[j]] = d[r[names[j]].algorithm][names[j]]
  <2>1. r[names[j]].algorithm \in AlgorithmIds
    BY <1>7 DEF LimitRule, WindowRule, BucketRule, AlgorithmIds
  <2>2. names[j] \in Names
    BY <1>0, <1>4
  <2>3. CASE names[j] = names[p]
    BY <2>3
  <2>4. CASE names[j] # names[p]
    BY <2>1, <2>2, <2>4
  <2> QED
    BY <2>3, <2>4
<1>9. Ready(r, e, names, A, one, reset)
  BY <1>7, <1>8 DEF Ready
<1> QED
  BY <1>0, <1>4, <1>6, <1>9 DEF Waiting

-----------------------------------------------------------------------------
\* A table that nobody changes, not even the decorator.
Steady == Alone /\ FirstRules[LazyName] = LazyRule

\* The time a thread acts at: its clock, or the stamp that it has read.
Stamp(t) == IF pc[t] = "store" THEN now[t] ELSE clock

\* The entries are those of the rules in the table.
Tidy(r, d, stamp) ==
    \A n \in Names : r[n] \in Rules => FitsRule(r[n], d[r[n].algorithm][n], stamp)

Denied(t) == pc[t] = "idle" /\ reply[t].kind = "denied"

\* The rules that have refused t and have not admitted it since are ready for it: at
\* the positions ahead of a check, or in the whole list at the time that it was told.
Patient(t) ==
    /\ Tidy(rules, db, Stamp(t))
    /\ pc[t] # "idle" => Waiting(rules, db, list[t], denials[t], at[t], Stamp(t))
    /\ Denied(t) => Waiting(rules, db, list[t], denials[t], 1, reply[t].reset_at)
    /\ pc[t] = "idle" /\ reply[t].kind # "denied" =>
           Waiting(rules, db, list[t], denials[t], Len(list[t]) + 1, clock)

PatienceInv ==
    /\ PromiseInv
    /\ rules = FirstRules
    /\ \A t \in Threads : Patient(t)

LEMMA TidyLater ==
    ASSUME NEW r, NEW d, NEW from \in Int, NEW later \in Int, from <= later, Tidy(r, d, from)
    PROVE  Tidy(r, d, later)
<1>1. ASSUME NEW n \in Names, r[n] \in Rules
      PROVE  FitsRule(r[n], d[r[n].algorithm][n], later)
  <2>1. r[n] \in LimitRule
    BY <1>1, RuleTableAssumption
  <2>2. FitsRule(r[n], d[r[n].algorithm][n], from)
    BY <1>1 DEF Tidy
  <2> QED
    BY <2>1, <2>2, FitsLater
<1> QED
  BY <1>1 DEF Tidy

LEMMA TidyStored ==
    ASSUME NEW r, NEW d, NEW stamp, Tidy(r, d, stamp), NEW key \in Names, r[key] \in Rules,
           NEW e, \A a \in AlgorithmIds, n \in Names \ {key} : e[a][n] = d[a][n],
           FitsRule(r[key], e[r[key].algorithm][key], stamp)
    PROVE  Tidy(r, e, stamp)
<1>1. ASSUME NEW n \in Names, r[n] \in Rules
      PROVE  FitsRule(r[n], e[r[n].algorithm][n], stamp)
  <2>1. CASE n = key
    BY <2>1
  <2>2. CASE n # key
    <3>1. r[n].algorithm \in AlgorithmIds
      BY <1>1, RuleTableAssumption DEF LimitRule, WindowRule, BucketRule, AlgorithmIds
    <3>2. e[r[n].algorithm][n] = d[r[n].algorithm][n]
      BY <2>2, <3>1
    <3>3. FitsRule(r[n], d[r[n].algorithm][n], stamp)
      BY <1>1 DEF Tidy
    <3> QED
      BY <3>2, <3>3
  <2> QED
    BY <2>1, <2>2
<1> QED
  BY <1>1 DEF Tidy

\* What PatienceInv says of a thread.
LEMMA PatientTypes ==
    ASSUME PatienceInv, NEW t \in Threads
    PROVE  /\ list[t] \in Seq(Names) /\ Len(list[t]) \in Nat /\ at[t] \in Nat \ {0}
           /\ pc[t] # "idle" => at[t] <= Len(list[t]) + 1
           /\ Stamp(t) \in Nat /\ clock \in Nat /\ Stamp(t) <= clock
           /\ denials[t] \in Nat
           /\ Denied(t) => reply[t].reset_at \in Int
<1>1. TypeInv /\ ThreadPromise(t) /\ LedgerInv /\ LocalTypes
  BY TypeParts DEF PatienceInv, PromiseInv
<1>2. list[t] \in Seq(Names) /\ at[t] \in Nat \ {0} /\ clock \in Nat /\ now[t] \in Nat /\ reply[t] \in Reply
  BY <1>1, ThreadTypes
<1>3. Stamp(t) \in Nat /\ Stamp(t) <= clock
  BY <1>1, <1>2 DEF Stamp, ThreadPromise
<1>4. Denied(t) => reply[t].reset_at \in Int
  BY <1>2 DEF Denied, Reply
<1> QED
  BY <1>1, <1>2, <1>3, <1>4 DEF LedgerInv, LocalTypes

\* Steps that decide nothing, of a check or of the time.
LEMMA PatientElsewhere ==
    ASSUME PatienceInv, NEW t \in Threads, rules' = rules, db' = db, list'[t] = list[t],
           denials'[t] = denials[t], at'[t] = at[t], Stamp(t)' \in Nat, Stamp(t) <= Stamp(t)',
           clock' \in Nat, clock <= clock', Stamp(t) <= clock',
           \/ pc[t] # "idle" /\ pc'[t] # "idle"
           \/ pc[t] # "idle" /\ pc'[t] = "idle" /\ reply'[t].kind = "raised"
           \/ pc[t] = "idle" /\ pc'[t] = "idle" /\ reply'[t] = reply[t]
    PROVE  Patient(t)'
<1>1. PICK names \in Seq(Names), n \in Nat : names = list[t] /\ n = Len(list[t])
  BY PatientTypes
<1>2. PICK r : r = rules
  OBVIOUS
<1>3. PICK d : d = db
  OBVIOUS
<1>4. PICK from \in Nat, later \in Nat, old \in Nat, new \in Nat, count \in Nat, p \in Nat \ {0} :
          /\ from = Stamp(t) /\ later = Stamp(t)' /\ old = clock /\ new = clock'
          /\ count = denials[t] /\ p = at[t]
  <2>1. Stamp(t) \in Nat /\ clock \in Nat /\ denials[t] \in Nat /\ at[t] \in Nat \ {0}
    BY PatientTypes
  <2> HIDE DEF Stamp
  <2> QED
    BY <2>1
<1>5. from <= later /\ old <= new /\ from <= new /\ p <= p /\ n + 1 <= n + 1 /\ (pc[t] # "idle" => p <= n + 1)
  BY <1>1, <1>4, PatientTypes
<1>6. /\ Tidy(r, d, from)
      /\ pc[t] # "idle" => Waiting(r, d, names, count, p, from)
      /\ Denied(t) => Waiting(r, d, names, count, 1, reply[t].reset_at)
      /\ pc[t] = "idle" /\ reply[t].kind # "denied" => Waiting(r, d, names, count, n + 1, old)
  BY <1>1, <1>2, <1>3, <1>4 DEF PatienceInv, Patient
<1>7. Tidy(r, d, later)
  BY <1>5, <1>6, TidyLater
<1>8. pc[t] # "idle" => Waiting(r, d, names, count, p, later) /\ Waiting(r, d, names, count, n + 1, new)
  BY <1>5, <1>6, WaitingLater
<1>9. pc[t] = "idle" /\ reply[t].kind # "denied" => Waiting(r, d, names, count, n + 1, new)
  BY <1>5, <1>6, WaitingLater
<1>10. /\ rules' = r /\ db' = d /\ list'[t] = names /\ denials'[t] = count /\ at'[t] = p /\ Len(list'[t]) = n
       /\ Stamp(t)' = later /\ clock' = new
  BY <1>1, <1>2, <1>3, <1>4
<1>11. CASE pc[t] # "idle" /\ pc'[t] # "idle"
  BY <1>7, <1>8, <1>10, <1>11 DEF Patient, Denied
<1>12. CASE pc[t] # "idle" /\ pc'[t] = "idle" /\ reply'[t].kind = "raised"
  BY <1>7, <1>8, <1>10, <1>12 DEF Patient, Denied
<1>13. CASE pc[t] = "idle" /\ pc'[t] = "idle" /\ reply'[t] = reply[t]
  BY <1>6, <1>7, <1>9, <1>10, <1>13 DEF Patient, Denied
<1> QED
  BY <1>11, <1>12, <1>13

LEMMA PatientStart ==
    ASSUME PatienceInv, NEW t \in Threads, NEW to \in {"resolve", "create"},
           NEW names \in Lists \cup {<<LazyName>>}, Goto(t, "idle", to), StartOf(t, names)
    PROVE  Patient(t)'
<1>0. /\ pc \in [Threads -> PC] /\ list \in [Threads -> Seq(Names)] /\ at \in [Threads -> Nat \ {0}]
      /\ denials \in [Threads -> Nat] /\ clock \in Nat
  BY BoundsAssumption DEF PatienceInv, PromiseInv, TypeInv, LedgerInv, LiveInv, Shape, TypeOK
<1>1. /\ pc[t] = "idle" /\ pc'[t] = to /\ at'[t] = 1 /\ list'[t] = names
      /\ denials'[t] = IF WaitedAsTold(t, names) THEN denials[t] ELSE 0
      /\ rules' = rules /\ db' = db /\ clock' = clock
  BY <1>0 DEF Goto, StartOf, tableVars, clockVars
<1>2. names \in Seq(Names)
  <2>1. CASE names \in Lists
    BY <2>1, RuleTableAssumption
  <2>2. CASE names = <<LazyName>>
    BY <2>2, RuleTableAssumption
  <2> QED
    BY <2>1, <2>2
<1>3. Stamp(t) = clock /\ Stamp(t)' = clock
  BY <1>1 DEF Stamp
<1>4. Waiting(rules, db, names, denials'[t], 1, clock)
  <2>1. CASE WaitedAsTold(t, names)
    <3>1. Denied(t) /\ list[t] = names /\ clock >= reply[t].reset_at
      BY <1>1, <2>1 DEF WaitedAsTold, Denied
    <3>2. reply[t].reset_at \in Int
      BY <3>1, PatientTypes
    <3>3. Waiting(rules, db, names, denials[t], 1, reply[t].reset_at)
      BY <3>1 DEF PatienceInv, Patient
    <3>4. PICK from \in Int, later \in Int : from = reply[t].reset_at /\ later = clock /\ from <= later
      <4>1. PICK from \in Int : from = reply[t].reset_at
        BY <3>2
      <4>2. PICK later \in Int : later = clock
        BY <1>0
      <4> QED
        BY <3>1, <4>1, <4>2
    <3>5. PICK r : r = rules
      OBVIOUS
    <3>6. PICK d : d = db
      OBVIOUS
    <3>7. PICK count : count = denials[t]
      OBVIOUS
    <3>8. Waiting(r, d, names, count, 1, later)
      <4>1. Waiting(r, d, names, count, 1, from)
        BY <3>3, <3>4, <3>5, <3>6, <3>7
      <4>2. PICK one \in Int : one = 1 /\ one <= one
        OBVIOUS
      <4>3. Waiting(r, d, names, count, one, later)
        BY <1>2, <3>4, <4>1, <4>2, WaitingLater
      <4> QED
        BY <4>2, <4>3
    <3> QED
      BY <1>1, <2>1, <3>4, <3>5, <3>6, <3>7, <3>8
  <2>2. CASE ~WaitedAsTold(t, names)
    BY <1>1, <1>2, <2>2, WaitingNone
  <2> QED
    BY <2>1, <2>2
<1>5. Tidy(rules, db, clock)
  BY <1>3 DEF PatienceInv, Patient
<1> QED
  BY <1>1, <1>3, <1>4, <1>5 DEF Patient, Denied

\* What the storage finds and leaves, at a decision.
LEMMA PatientDecision ==
    ASSUME Alone, PatienceInv, NEW t \in Threads, pc[t] = "store", StoreEntry(t), rules' = rules
    PROVE  /\ rule[t] \in LimitRule /\ Name(t) \in Names /\ at[t] \in 1 .. Len(list[t])
           /\ rule[t] = rules[Name(t)] /\ now[t] <= clock /\ now[t] \in Nat
           /\ Tidy(rules, db', now[t])
           /\ Decision(t).reset_at >= now[t] /\ Decision(t).reset_at \in Int
           /\ \A a \in AlgorithmIds, n \in Names \ {Name(t)} : db'[a][n] = db[a][n]
           /\ Decision(t).allowed \in BOOLEAN
           /\ ~Decision(t).allowed =>
                  /\ db'[rule[t].algorithm][Name(t)] = db[rule[t].algorithm][Name(t)]
                  /\ Serves(rule[t], db[rule[t].algorithm][Name(t)], Decision(t).reset_at)
<1>1. /\ TypeInv /\ db \in Countings(Names) /\ ThreadPromise(t) /\ Patient(t)
      /\ rule[t] \in Rules /\ at[t] \in DOMAIN list[t] /\ list[t] \in Seq(Names)
  BY ThreadTypes DEF PatienceInv, PromiseInv, TypeInv, LedgerInv, LiveInv
<1>2. /\ rule[t] \in LimitRule /\ Name(t) \in Names
      /\ db'[rule[t].algorithm][Name(t)] = Decision(t).entry
      /\ \A a \in AlgorithmIds, n \in Names \ {Name(t)} : db'[a][n] = db[a][n]
  BY <1>1, CountingsStored
<1>3. rule[t] = rules[Name(t)] /\ now[t] <= clock /\ now[t] \in Nat
  BY <1>1, ThreadTypes DEF ThreadPromise
<1>4. PICK read \in Nat : read = now[t]
  BY <1>3
<1>5. PICK key \in Names, under \in LimitRule : key = Name(t) /\ under = rule[t]
  BY <1>2
<1>6. PICK r : r = rules
  OBVIOUS
<1>7. PICK d : d = db
  OBVIOUS
<1>8. PICK e : e = db'
  OBVIOUS
<1>9. PICK entry : entry = d[under.algorithm][key]
  OBVIOUS
<1>10. PICK out : out = Decide(under, entry, read)
  OBVIOUS
<1>11. out = Decision(t)
  BY <1>4, <1>5, <1>7, <1>9, <1>10 DEF Decision
<1>12. Tidy(r, d, read)
  BY <1>1, <1>4, <1>6, <1>7 DEF Patient, Stamp
<1>13. r[key] = under /\ r[key] \in Rules
  BY <1>1, <1>3, <1>5, <1>6
<1>14. FitsRule(under, entry, read)
  BY <1>9, <1>12, <1>13 DEF Tidy
<1>15. /\ out \in Outcome
       /\ FitsRule(under, out.entry, read)
       /\ out.reset_at >= read
       /\ ~out.allowed => out.entry = entry /\ Serves(under, entry, out.reset_at)
  BY <1>10, <1>14, DecideFits
<1>16. e[under.algorithm][key] = out.entry /\ \A a \in AlgorithmIds, n \in Names \ {key} : e[a][n] = d[a][n]
  BY <1>2, <1>5, <1>7, <1>8, <1>11
<1>17. Tidy(r, e, read)
  BY <1>12, <1>13, <1>15, <1>16, TidyStored
<1>18. out.reset_at \in Int /\ out.allowed \in BOOLEAN
  BY <1>15 DEF Outcome
<1>21. at[t] \in 1 .. Len(list[t])
  BY <1>1
<1> HIDE DEF Decision
<1>19. Tidy(rules, db', now[t])
  BY <1>4, <1>6, <1>8, <1>17
<1>20. ~out.allowed => /\ e[under.algorithm][key] = d[under.algorithm][key]
                       /\ Serves(under, d[under.algorithm][key], out.reset_at)
  BY <1>9, <1>15, <1>16
<1> QED
  BY <1>1, <1>2, <1>3, <1>4, <1>5, <1>7, <1>8, <1>11, <1>15, <1>18, <1>19, <1>20, <1>21

LEMMA PatientAdmitted ==
    ASSUME Alone, PatienceInv, NEW t \in Threads, Admitted(t)
    PROVE  Patient(t)'
<1>0. /\ pc \in [Threads -> PC] /\ at \in [Threads -> Nat \ {0}] /\ reply \in [Threads -> Reply] /\ TypeInv
  BY DEF PatienceInv, PromiseInv, TypeInv, LedgerInv, LiveInv, Shape, TypeOK
<1>1. /\ pc[t] = "store" /\ StoreEntry(t) /\ at'[t] = at[t] + 1
      /\ pc'[t] = IF at[t] = Len(list[t]) THEN "idle" ELSE "resolve"
      /\ at[t] = Len(list[t]) => reply'[t].kind = "allowed"
      /\ rules' = rules /\ clock' = clock /\ list' = list /\ denials' = denials
  BY <1>0 DEF Admitted, Goto, tableVars, Answer, clockVars
<1>2. /\ Name(t) \in Names /\ at[t] \in 1 .. Len(list[t]) /\ now[t] <= clock /\ now[t] \in Nat
      /\ Tidy(rules, db', now[t])
      /\ \A a \in AlgorithmIds, n \in Names \ {Name(t)} : db'[a][n] = db[a][n]
  BY <1>1, PatientDecision
<1>3. PICK names \in Seq(Names) : names = list[t]
  BY PatientTypes
<1>4. PICK p \in 1 .. Len(names) : p = at[t]
  BY <1>2, <1>3
<1>5. PICK read \in Nat, stamp \in Nat : read = now[t] /\ stamp = clock /\ read <= stamp
  BY <1>0, <1>2, ThreadTypes
<1>6. PICK r : r = rules
  OBVIOUS
<1>7. PICK d : d = db
  OBVIOUS
<1>8. PICK e : e = db'
  OBVIOUS
<1>9. PICK count : count = denials[t]
  OBVIOUS
<1>10. Waiting(r, d, names, count, p, read)
  BY <1>1, <1>3, <1>4, <1>5, <1>6, <1>7, <1>9 DEF PatienceInv, Patient, Stamp
<1>11. Waiting(r, e, names, count, p + 1, read)
  <2>1. \A i, j \in 1 .. Len(names) : names[i] = names[j] => i = j
    BY <1>0, <1>3, ListDistinct
  <2>2. \A a \in AlgorithmIds, n \in Names \ {names[p]} : e[a][n] = d[a][n]
    BY <1>2, <1>3, <1>4, <1>7, <1>8 DEF Name
  <2> QED
    BY <1>3, <1>4, <1>5, <1>10, <2>1, <2>2, WaitingPassed
<1>12. Waiting(r, e, names, count, p + 1, stamp)
  <2>1. PICK next \in Int : next = p + 1 /\ next <= next
    OBVIOUS
  <2>2. Waiting(r, e, names, count, next, stamp)
    BY <1>5, <1>11, <2>1, WaitingLater
  <2> QED
    BY <2>1, <2>2
<1>13. Tidy(r, e, stamp)
  BY <1>2, <1>5, <1>6, <1>8, TidyLater
<1>14. /\ rules' = r /\ db' = e /\ list'[t] = names /\ denials'[t] = count /\ at'[t] = p + 1
       /\ Stamp(t)' = stamp /\ clock' = stamp /\ pc'[t] # "store"
  BY <1>1, <1>3, <1>4, <1>5, <1>6, <1>8, <1>9 DEF Stamp
<1>15. CASE at[t] = Len(list[t])
  <2>1. pc'[t] = "idle" /\ reply'[t].kind = "allowed" /\ p = Len(names)
    BY <1>1, <1>3, <1>4, <1>15
  <2> QED
    BY <1>12, <1>13, <1>14, <2>1 DEF Patient, Denied
<1>16. CASE at[t] # Len(list[t])
  <2>1. pc'[t] = "resolve"
    BY <1>1, <1>16
  <2> QED
    BY <1>12, <1>13, <1>14, <2>1 DEF Patient, Denied
<1> QED
  BY <1>15, <1>16

LEMMA PatientRefused ==
    ASSUME Alone, PatienceInv, NEW t \in Threads, Refused(t)
    PROVE  Patient(t)'
<1>0. /\ pc \in [Threads -> PC] /\ denials \in [Threads -> Nat] /\ reply \in [Threads -> Reply] /\ TypeInv
  BY DEF PatienceInv, PromiseInv, TypeInv, LedgerInv, LiveInv, Shape, TypeOK
<1>1. /\ pc[t] = "store" /\ StoreEntry(t) /\ pc'[t] = "idle" /\ ~Decision(t).allowed
      /\ reply'[t].kind = "denied" /\ reply'[t].reset_at = Decision(t).reset_at
      /\ rules' = rules /\ clock' = clock /\ list' = list /\ denials'[t] = denials[t] + 1
  BY <1>0 DEF Refused, Goto, tableVars, Answer, ResultOf, clockVars
<1>2. /\ rule[t] \in LimitRule /\ Name(t) \in Names /\ at[t] \in 1 .. Len(list[t])
      /\ rule[t] = rules[Name(t)] /\ now[t] <= clock /\ now[t] \in Nat
      /\ Tidy(rules, db', now[t])
      /\ Decision(t).reset_at >= now[t] /\ Decision(t).reset_at \in Int
      /\ \A a \in AlgorithmIds, n \in Names \ {Name(t)} : db'[a][n] = db[a][n]
      /\ db'[rule[t].algorithm][Name(t)] = db[rule[t].algorithm][Name(t)]
      /\ Serves(rule[t], db[rule[t].algorithm][Name(t)], Decision(t).reset_at)
  BY <1>1, PatientDecision
<1>3. PICK names \in Seq(Names) : names = list[t]
  BY PatientTypes
<1>4. PICK p \in 1 .. Len(names), key \in Names, under \in LimitRule :
          p = at[t] /\ key = Name(t) /\ under = rule[t]
  BY <1>2, <1>3
<1>5. PICK read \in Nat, stamp \in Nat : read = now[t] /\ stamp = clock /\ read <= stamp
  BY <1>0, <1>2, ThreadTypes
<1>6. PICK r : r = rules
  OBVIOUS
<1>7. PICK d : d = db
  OBVIOUS
<1>8. PICK e : e = db'
  OBVIOUS
<1>9. PICK count \in Nat : count = denials[t]
  BY <1>0
<1>10. PICK reset \in Int : reset = Decision(t).reset_at /\ read <= reset
  BY <1>2, <1>5
<1>11. PICK entry : entry = d[under.algorithm][key]
  OBVIOUS
<1>12. ~Decide(under, entry, read).allowed
  BY <1>1, <1>4, <1>5, <1>7, <1>11 DEF Decision
<1>13. Serves(under, entry, reset)
  BY <1>2, <1>4, <1>7, <1>10, <1>11
<1>14. under = r[names[p]] /\ entry = d[under.algorithm][names[p]]
  BY <1>2, <1>3, <1>4, <1>6, <1>11 DEF Name
<1>15. Waiting(r, d, names, count, p, read)
  BY <1>1, <1>3, <1>4, <1>5, <1>6, <1>7, <1>9 DEF PatienceInv, Patient, Stamp
<1>16. Waiting(r, e, names, count + 1, 1, reset)
  <2>1. \A a \in AlgorithmIds, n \in Names \ {names[p]} : e[a][n] = d[a][n]
    BY <1>2, <1>3, <1>4, <1>7, <1>8 DEF Name
  <2>2. e[under.algorithm][names[p]] = entry
    BY <1>2, <1>3, <1>4, <1>7, <1>8, <1>11 DEF Name
  <2>3. /\ r[names[p]] \in LimitRule
        /\ ~Decide(r[names[p]], d[r[names[p]].algorithm][names[p]], read).allowed
        /\ Serves(r[names[p]], d[r[names[p]].algorithm][names[p]], reset)
        /\ e[r[names[p]].algorithm][names[p]] = d[r[names[p]].algorithm][names[p]]
    BY <1>4, <1>12, <1>13, <1>14, <2>2
  <2>4. PICK one \in Int : one = 1
    OBVIOUS
  <2>5. PICK more \in Int : more = count + 1
    BY <1>9
  <2>6. Refusing(r, d, e, names, p, read, reset)
    BY <2>1, <2>3 DEF Refusing
  <2>7. Waiting(r, e, names, more, one, reset)
    BY <1>3, <1>4, <1>5, <1>9, <1>10, <1>15, <2>4, <2>5, <2>6, WaitingRefused
  <2> QED
    BY <2>4, <2>5, <2>7
<1>17. Tidy(r, e, stamp)
  BY <1>2, <1>5, <1>6, <1>8, TidyLater
<1>18. /\ rules' = r /\ db' = e /\ list'[t] = names /\ denials'[t] = count + 1
       /\ Stamp(t)' = stamp /\ reply'[t].kind = "denied" /\ reply'[t].reset_at = reset /\ pc'[t] = "idle"
  BY <1>1, <1>3, <1>5, <1>6, <1>8, <1>9, <1>10 DEF Stamp
<1> QED
  BY <1>16, <1>17, <1>18 DEF Patient, Denied

LEMMA PatientStep ==
    ASSUME Steady, PatienceInv, NEW t \in Threads, Step(t)
    PROVE  rules' = rules /\ Patient(t)'
<1> USE DEF PC
<1>0. /\ pc \in [Threads -> PC] /\ now \in [Threads -> 0 .. MaxTime] /\ reply \in [Threads -> Reply]
      /\ rules = FirstRules /\ Alone /\ LazyName \in Names /\ FirstRules \in [Names -> Rules \cup {NoRule}]
  BY RuleTableAssumption DEF Steady, PatienceInv, PromiseInv, TypeInv, LedgerInv, LiveInv, Shape, TypeOK
<1>1. clock \in Nat /\ clock <= clock /\ Stamp(t) \in Nat /\ Stamp(t) <= clock /\ Stamp(t) <= Stamp(t)
  BY PatientTypes
<1>2. CASE Check(t) \/ CallDecorated(t)
  <2>1. PICK to \in {"resolve", "create"} :
            /\ Goto(t, "idle", to)
            /\ \E names \in Lists \cup {<<LazyName>>} : StartOf(t, names)
    BY <1>2 DEF Check, CallDecorated
  <2>2. PICK names \in Lists \cup {<<LazyName>>} : StartOf(t, names)
    BY <2>1
  <2>3. Patient(t)'
    BY <2>1, <2>2, PatientStart
  <2> QED
    BY <2>2, <2>3 DEF StartOf, tableVars
<1>3. CASE CreateRule(t) \/ MarkCreated(t) \/ Resolve(t)
  <2>1. /\ pc[t] \in {"create", "created", "resolve"} /\ pc'[t] \in {"created", "resolve", "clock"}
        /\ UNCHANGED <<db, clock, list, denials, at>>
    BY <1>0, <1>3 DEF CreateRule, MarkCreated, Resolve, Goto, tableVars, historyVars, clockVars
  <2>2. rules' = rules
    <3>1. [rules EXCEPT ![LazyName] = LazyRule] = rules
      BY <1>0 DEF Steady
    <3> QED
      BY <1>3, <3>1 DEF CreateRule, SetRule, MarkCreated, Resolve, tableVars
  <2>3. Stamp(t) = clock /\ Stamp(t)' = clock /\ pc[t] # "idle" /\ pc'[t] # "idle" /\ clock' = clock
    BY <2>1 DEF Stamp
  <2>4. Patient(t)'
    BY <1>1, <2>1, <2>2, <2>3, PatientElsewhere
  <2> QED
    BY <2>2, <2>4
<1>4. CASE Unknown(t) \/ EmptyList(t)
  <2>1. Raise(t)
    BY <1>4 DEF Unknown, EmptyList
  <2>2. /\ pc[t] = "resolve" /\ pc'[t] = "idle" /\ reply'[t].kind = "raised"
        /\ UNCHANGED <<rules, db, clock, list, denials, at>>
    BY <1>0, <2>1 DEF Raise, Goto, tableVars, clockVars
  <2>3. Stamp(t) = clock /\ Stamp(t)' = clock /\ clock' = clock
    BY <2>2 DEF Stamp
  <2>4. Patient(t)'
    BY <1>1, <2>2, <2>3, PatientElsewhere
  <2> QED
    BY <2>2, <2>4
<1>5. CASE ReadClock(t)
  <2>1. /\ pc[t] = "clock" /\ pc'[t] = "store" /\ now'[t] = clock
        /\ UNCHANGED <<rules, db, clock, list, denials, at>>
    BY <1>0, <1>5 DEF ReadClock, Goto, tableVars, historyVars, clockVars
  <2>2. Stamp(t) = clock /\ Stamp(t)' = clock /\ pc[t] # "idle" /\ pc'[t] # "idle" /\ clock' = clock
    BY <2>1 DEF Stamp
  <2>3. Patient(t)'
    BY <1>1, <2>1, <2>2, PatientElsewhere
  <2> QED
    BY <2>1, <2>3
<1>6. CASE Admitted(t)
  <2>1. Patient(t)'
    BY <1>0, <1>6, PatientAdmitted
  <2> QED
    BY <1>6, <2>1 DEF Admitted, tableVars
<1>7. CASE Refused(t)
  <2>1. Patient(t)'
    BY <1>0, <1>7, PatientRefused
  <2> QED
    BY <1>7, <2>1 DEF Refused, tableVars
<1> QED
  BY <1>2, <1>3, <1>4, <1>5, <1>6, <1>7 DEF Step

LEMMA PatienceNext == ASSUME Steady, PatienceInv, [Next]_vars PROVE PatienceInv'
<1>1. PromiseInv'
  BY PromiseNext DEF Steady, PatienceInv
<1>2. PICK t \in Threads : Threads = {t}
  BY DEF Steady, Alone
<1>3. CASE \E u \in Threads : Step(u)
  <2>1. Step(t)
    BY <1>2, <1>3
  <2>2. rules' = rules /\ Patient(t)'
    BY <2>1, PatientStep
  <2> QED
    BY <1>1, <1>2, <2>2 DEF PatienceInv
<1>4. CASE UNCHANGED <<rules, db, pc, list, at, now, reply, denials>> /\ clock' \in {clock, clock + 1}
  <2>1. clock \in Nat /\ Stamp(t) \in Nat /\ Stamp(t) <= clock
    BY PatientTypes
  <2>2. clock' \in Nat /\ clock <= clock'
    BY <1>4, <2>1
  <2>3. Stamp(t)' \in Nat /\ Stamp(t) <= Stamp(t)' /\ Stamp(t) <= clock'
    <3>1. Stamp(t)' = IF pc[t] = "store" THEN now[t] ELSE clock'
      BY <1>4 DEF Stamp
    <3>2. CASE pc[t] = "store"
      BY <2>1, <2>2, <3>1, <3>2 DEF Stamp
    <3>3. CASE pc[t] # "store"
      BY <2>1, <2>2, <3>1, <3>3 DEF Stamp
    <3> QED
      BY <3>2, <3>3
  <2>4. Patient(t)'
    BY <1>4, <2>2, <2>3, PatientElsewhere
  <2> QED
    BY <1>1, <1>2, <1>4, <2>4 DEF PatienceInv
<1>5. ~AddRule /\ ~RemoveRule /\ ~StepBack
  <2>1. changes \in 0 .. 0 /\ stepsBack \in 0 .. 0
    BY DEF Steady, Alone, PatienceInv, PromiseInv, TypeInv, TypeOK
  <2> QED
    BY <2>1 DEF Steady, Alone, AddRule, RemoveRule, Change, StepBack
<1>6. ASSUME Tick \/ Finished \/ UNCHANGED vars
      PROVE  UNCHANGED <<rules, db, pc, list, at, now, reply, denials>> /\ clock' \in {clock, clock + 1}
  BY <1>6 DEF Tick, Finished, vars, clockVars, tableVars, localVars, historyVars
<1> QED
  BY <1>3, <1>4, <1>5, <1>6 DEF Next

LEMMA PatienceInit == ASSUME Init PROVE PatienceInv
<1>1. PromiseInv
  BY PromiseInit
<1>2. rules = FirstRules
  BY DEF Init
<1>3. ASSUME NEW t \in Threads
      PROVE  Patient(t)
  <2>1. /\ pc[t] = "idle" /\ reply[t].kind = "none" /\ denials[t] = 0 /\ list[t] = <<>>
        /\ db = [a \in Algorithms |-> [n \in Names |-> <<>>]]
    BY DEF Init, NoReply
  <2>2. Waiting(rules, db, list[t], denials[t], Len(list[t]) + 1, clock)
    <3>1. list[t] \in Seq(Names)
      BY <2>1
    <3> QED
      BY <2>1, <3>1, WaitingNone
  <2>3. Tidy(rules, db, Stamp(t))
    <3>1. ASSUME NEW n \in Names, rules[n] \in Rules
          PROVE  FitsRule(rules[n], db[rules[n].algorithm][n], Stamp(t))
      <4>1. rules[n] \in LimitRule
        BY <3>1, RuleTableAssumption
      <4>2. db[rules[n].algorithm][n] = <<>>
        BY <2>1, <4>1 DEF Algorithms, LimitRule, WindowRule, BucketRule
      <4>3. PICK r \in LimitRule : r = rules[n]
        BY <4>1
      <4>4. FitsRule(r, <<>>, Stamp(t))
        <5>1. <<>> \in EntryUnder(r) /\ Len(<<>>) = 0
          BY DEF EntryUnder, Entry
        <5> QED
          BY <4>3, <5>1 DEF FitsRule, LimitRule, WindowRule, BucketRule, Positive
      <4> QED
        BY <4>2, <4>3, <4>4
    <3> QED
      BY <3>1 DEF Tidy
  <2> QED
    BY <2>1, <2>2, <2>3 DEF Patient, Denied
<1> QED
  BY <1>1, <1>2, <1>3 DEF PatienceInv

\* A lone client that waits as it is told is refused at most 2^n - 1 times by a list of
\* n different rules, whatever rules and lists without repetition there are: each
\* refusal raises the number whose digits are the rules that have refused it.
THEOREM PatienceRewardedHolds == Steady => (Spec => []PatienceRewarded)
<1> SUFFICES ASSUME Steady PROVE Spec => []PatienceRewarded
  OBVIOUS
<1>1. Init => PatienceInv
  BY PatienceInit
<1>2. PatienceInv /\ [Next]_vars => PatienceInv'
  BY PatienceNext
<1>3. PatienceInv => PatienceRewarded
  <2> SUFFICES ASSUME PatienceInv, NEW t \in Threads PROVE denials[t] <= 2 ^ Len(list[t]) - 1
    BY DEF PatienceRewarded
  <2>1. PICK names \in Seq(Names) : names = list[t]
    BY PatientTypes
  <2>2. PICK count \in Nat : count = denials[t]
    BY PatientTypes
  <2>3. \E first, stamp : Waiting(rules, db, names, count, first, stamp)
    BY <2>1, <2>2 DEF PatienceInv, Patient, Denied
  <2>4. count <= 2 ^ Len(names) - 1
    BY <2>3, WaitingBound
  <2> QED
    BY <2>1, <2>2, <2>4
<1> QED
  BY <1>1, <1>2, <1>3, PTL DEF Spec

=============================================================================
