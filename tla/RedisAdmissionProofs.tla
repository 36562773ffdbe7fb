------------------------ MODULE RedisAdmissionProofs ------------------------
(***************************************************************************)
(* How much RedisStorage admits, for any callers, processes, rules and     *)
(* faults: OrphansAreFaults and FixedOnTime, of the fixed window, a call   *)
(* of which is up to three commands; SkewEnvelope, of the scripts; and     *)
(* OutageEnvelope, of Redis and the fallback storages together.            *)
(***************************************************************************)
EXTENDS RedisStorageProofs, FunctionTheorems

\* INCR and EXPIRE at the counter of the window, and at no other.
LEMMA IncrWrites ==
    ASSUME Typed, NEW k \in FixedKeys, NEW t \in Times, Incr(k, t),
           NEW w, w = WindowStart(k, t)
    PROVE  /\ w \in Starts(k) /\ LiveCounter(k, w) \in Counter
           /\ counters'[k][w] = [LiveCounter(k, w) EXCEPT !.count = LiveCounter(k, w).count + 1]
           /\ OnlyCounter(k, w)
<1>1. w \in Starts(k)
  BY StartAsked DEF FixedKeys
<1>2. PICK live \in Counter : live = LiveCounter(k, w)
  BY <1>1, LookedUp
<1>3. PICK value : value = [live EXCEPT !.count = live.count + 1]
  OBVIOUS
<1>4. counters' = [counters EXCEPT ![k][w] = value] /\ value \in Counter
  BY <1>2, <1>3 DEF Incr, Counter
<1>5. /\ counters'[k][w] = value
      /\ OnlyCounter(k, w)
  BY <1>1, <1>4, CounterWritten
<1>6. counters'[k][w] = [LiveCounter(k, w) EXCEPT !.count = LiveCounter(k, w).count + 1]
  BY <1>2, <1>3, <1>5
<1> QED
  BY <1>1, <1>2, <1>5, <1>6, Zenon

LEMMA ExpireWrites ==
    ASSUME Typed, NEW k \in FixedKeys, NEW t \in Times, Expire(k, t),
           NEW w, w = WindowStart(k, t)
    PROVE  /\ w \in Starts(k) /\ counters[k][w] \in Counter
           /\ counters'[k][w] = IF LiveCounter(k, w) = Zero THEN counters[k][w]
                                ELSE [counters[k][w] EXCEPT !.expires = clock + RuleOf[k].window]
           /\ RuleOf[k].window \in Positive /\ clock \in Nat
           /\ OnlyCounter(k, w)
<1>1. w \in Starts(k)
  BY StartAsked DEF FixedKeys
<1>2. PICK old \in Counter : old = counters[k][w]
  BY <1>1 DEF Typed, ServerTyped
<1>3. PICK value : value = IF LiveCounter(k, w) = Zero THEN old
                           ELSE [old EXCEPT !.expires = clock + RuleOf[k].window]
  OBVIOUS
<1>4. counters' = [counters EXCEPT ![k][w] = value]
  <2>1. counters' = [counters EXCEPT ![k][w] =
                        IF LiveCounter(k, w) = Zero THEN counters[k][w]
                        ELSE [counters[k][w] EXCEPT !.expires = clock + RuleOf[k].window]]
    BY <1>1 DEF Expire, Typed, ServerTyped
  <2> QED
    BY <1>2, <1>3, <2>1
<1>5. RuleOf[k].window \in Positive /\ clock \in Nat
  <2>1. RuleOf[k] \in LimitRule /\ RuleOf[k].algorithm = "fixed_window"
    BY RedisAssumption DEF FixedKeys, IsFixed
  <2> QED
    BY <2>1, ClockReading DEF LimitRule, WindowRule, BucketRule, Typed, ClientsTyped
<1>6. value \in Counter
  BY <1>2, <1>3, <1>5 DEF Counter, Positive
<1>7. /\ counters'[k][w] = value
      /\ OnlyCounter(k, w)
  BY <1>1, <1>4, <1>6, CounterWritten
<1>8. counters'[k][w] = IF LiveCounter(k, w) = Zero THEN counters[k][w]
                        ELSE [counters[k][w] EXCEPT !.expires = clock + RuleOf[k].window]
  BY <1>2, <1>3, <1>7
<1> QED
  BY <1>1, <1>2, <1>5, <1>7, <1>8, Zenon

-----------------------------------------------------------------------------
(***************************************************************************)
(* OrphansAreFaults.  An orphan is lost when no caller is about to send    *)
(* EXPIRE for it.  A fault loses one, or sets one INCR adrift that may     *)
(* make one later.                                                         *)
(***************************************************************************)

Pending == {c \in Callers : ExpirePending(c)}

\* The counter that c is concerned with.
Window(c) == <<key[c], WindowStart(key[c], local[c].now)>>

Lost  == {o \in Orphans : \A c \in Pending : Window(c) # o}
Incrs == {m \in adrift : m.op = "INCR"}

LostInv ==
    /\ IsFiniteSet(Lost)
    /\ Cardinality(Lost) + Cardinality(Incrs) <= faults

LEMMA OrphanIs ==
    \A o : o \in Orphans <=>
        \E k \in FixedKeys : \E w \in Starts(k) :
            o = <<k, w>> /\ counters[k][w].count > 0 /\ counters[k][w].expires = Never
BY DEF Orphans

LEMMA OrphanWillBe ==
    \A o : o \in Orphans' <=>
        \E k \in FixedKeys : \E w \in Starts(k) :
            o = <<k, w>> /\ counters'[k][w].count > 0 /\ counters'[k][w].expires = Never
BY DEF Orphans

\* INCR makes an orphan where there was no counter.
LEMMA IncrOrphans ==
    ASSUME Typed, NEW k \in FixedKeys, NEW t \in Times, Incr(k, t),
           NEW w, w = WindowStart(k, t), NEW o \in Orphans'
    PROVE  o \in Orphans \/ (o = <<k, w>> /\ LiveCounter(k, w).count = 0)
<1>1. PICK l \in FixedKeys : \E v \in Starts(l) :
            o = <<l, v>> /\ counters'[l][v].count > 0 /\ counters'[l][v].expires = Never
  BY OrphanWillBe
<1>2. PICK v \in Starts(l) :
            o = <<l, v>> /\ counters'[l][v].count > 0 /\ counters'[l][v].expires = Never
  BY <1>1
<1>3. /\ w \in Starts(k) /\ LiveCounter(k, w) \in Counter
      /\ counters'[k][w] = [LiveCounter(k, w) EXCEPT !.count = LiveCounter(k, w).count + 1]
      /\ OnlyCounter(k, w)
  BY IncrWrites
<1>4. CASE <<l, v>> # <<k, w>>
  BY <1>2, <1>3, <1>4, OrphanIs DEF OnlyCounter
<1>5. CASE <<l, v>> = <<k, w>> /\ LiveCounter(k, w).count # 0
  <2>1. LiveCounter(k, w) = counters[k][w] /\ LiveCounter(k, w).count > 0
    BY <1>3, <1>5 DEF LiveCounter, Zero, Counter
  <2>2. counters[k][w].expires = Never
    BY <1>2, <1>3, <1>5, <2>1 DEF Counter
  <2> QED
    BY <1>2, <1>3, <1>5, <2>1, <2>2, OrphanIs
<1> QED
  BY <1>2, <1>4, <1>5

\* EXPIRE leaves none behind.
LEMMA ExpireOrphans ==
    ASSUME Typed, NEW k \in FixedKeys, NEW t \in Times, Expire(k, t),
           NEW w, w = WindowStart(k, t), NEW o \in Orphans'
    PROVE  o \in Orphans /\ o # <<k, w>>
<1>1. PICK l \in FixedKeys : \E v \in Starts(l) :
            o = <<l, v>> /\ counters'[l][v].count > 0 /\ counters'[l][v].expires = Never
  BY OrphanWillBe
<1>2. PICK v \in Starts(l) :
            o = <<l, v>> /\ counters'[l][v].count > 0 /\ counters'[l][v].expires = Never
  BY <1>1
<1>3. /\ w \in Starts(k) /\ counters[k][w] \in Counter
      /\ counters'[k][w] = IF LiveCounter(k, w) = Zero THEN counters[k][w]
                           ELSE [counters[k][w] EXCEPT !.expires = clock + RuleOf[k].window]
      /\ RuleOf[k].window \in Positive /\ clock \in Nat
      /\ OnlyCounter(k, w)
  BY ExpireWrites
<1>4. CASE <<l, v>> # <<k, w>>
  BY <1>2, <1>3, <1>4, OrphanIs DEF OnlyCounter
<1>5. ASSUME <<l, v>> = <<k, w>>
      PROVE  FALSE
  <2>1. l = k /\ v = w
    BY <1>5
  <2>2. CASE LiveCounter(k, w) = Zero
    <3>1. counters[k][w].count > 0 /\ counters[k][w].expires = Never
      BY <1>2, <1>3, <2>1, <2>2
    <3>2. LiveCounter(k, w) = counters[k][w]
      BY <3>1 DEF LiveCounter, Gone
    <3>3. counters[k][w].count = 0
      BY <2>2, <3>2 DEF Zero
    <3> QED
      BY <3>1, <3>3
  <2>3. CASE LiveCounter(k, w) # Zero
    <3>1. counters'[k][w].expires = clock + RuleOf[k].window
      BY <1>3, <2>3 DEF Counter
    <3>2. counters'[k][w].expires = Never
      BY <1>2, <2>1
    <3>3. clock + RuleOf[k].window > Never
      BY <1>3 DEF Never, Positive
    <3> QED
      BY <3>1, <3>2, <3>3 DEF Never
  <2> QED
    BY <2>2, <2>3
<1> QED
  BY <1>2, <1>4, <1>5

\* An orphan is not lost by the step of a caller that is about to see to it, and still is.
LEMMA StillLost ==
    ASSUME NEW c \in Callers, OthersStay(c), NEW o, o \in Lost', o \in Orphans,
           ExpirePending(c) => Window(c) # o \/ (ExpirePending(c)' /\ Window(c)' = Window(c))
    PROVE  o \in Lost
<1>1. \A d \in Callers \ {c} : ExpirePending(d)' = ExpirePending(d) /\ Window(d)' = Window(d)
  BY DEF OthersStay, ExpirePending, Window
<1>2. \A d \in Callers : ExpirePending(d)' => Window(d)' # o
  BY DEF Lost, Pending
<1>3. \A d \in Callers : ExpirePending(d) => Window(d) # o
  BY <1>1, <1>2
<1> QED
  BY <1>3 DEF Lost, Pending

\* No server step and no caller's own step loses an orphan.
LEMMA ServedLoses ==
    ASSUME Typed, NEW c \in Callers, Served(c)
    PROVE  Lost' \in SUBSET Lost
<1> SUFFICES ASSUME NEW o \in Lost' PROVE o \in Lost
  OBVIOUS
<1>1. o \in Orphans'
  BY DEF Lost
<1>2. /\ OthersStay(c) /\ pc[c] = "sent" /\ pc'[c] = "executed" /\ key' = key
      /\ local'[c].op = local[c].op
  BY OthersStayed, CallerStep
<1>3. CASE ServeTime(c) \/ ServeEval(c)
  <2>1. local[c].op \in {"TIME", "EVAL"} /\ counters' = counters
    BY <1>3, Zenon DEF ServeTime, ServeEval, Serve, Eval, serverVars
  <2>2. ~ExpirePending(c)
    BY <1>2, <2>1 DEF ExpirePending
  <2>3. o \in Orphans
    BY <1>1, <2>1, OrphanIs, OrphanWillBe
  <2> QED
    BY <1>2, <2>2, <2>3, StillLost
<1>4. CASE ServeIncr(c)
  <2>1. local[c].op = "INCR"
    BY <1>4 DEF ServeIncr, Serve
  <2>2. PICK k \in FixedKeys, t \in Times : k = key[c] /\ t = local[c].now /\ Incr(k, t)
    BY <1>2, <1>4, <2>1, CommandsTyped DEF ServeIncr
  <2>3. PICK w : w = WindowStart(k, t)
    OBVIOUS
  <2>4. LiveCounter(k, w) \in Counter
    BY <2>2, <2>3, IncrWrites
  <2>5. local'[c].count = LiveCounter(k, w).count + 1 /\ local'[c].now = local[c].now
    <3>1. PICK next, allowed :
              /\ next = LiveCounter(k, w).count + 1
              /\ local' = [local EXCEPT ![c].count = next, ![c].allowed = allowed]
      BY <1>4, <2>2, <2>3, Zenon DEF ServeIncr
    <3>2. local \in [Callers -> Locals]
      BY DEF Typed, ClientsTyped
    <3> QED
      BY <3>1, <3>2 DEF Locals
  <2>6. ~ExpirePending(c)
    BY <1>2, <2>1 DEF ExpirePending
  <2>7. ASSUME o = <<k, w>>, LiveCounter(k, w).count = 0
        PROVE  FALSE
    <3>1. local'[c].count = 1
      BY <2>5, <2>7
    <3>2. ExpirePending(c)'
      BY <1>2, <2>1, <3>1 DEF ExpirePending
    <3>3. Window(c)' = <<k, w>>
      BY <1>2, <2>2, <2>3, <2>5 DEF Window, WindowStart
    <3> QED
      BY <2>7, <3>2, <3>3 DEF Lost, Pending
  <2>8. o \in Orphans
    BY <1>1, <2>2, <2>3, <2>7, IncrOrphans
  <2> QED
    BY <1>2, <2>6, <2>8, StillLost
<1>5. CASE ServeExpire(c)
  <2>1. local[c].op = "EXPIRE"
    BY <1>5 DEF ServeExpire, Serve
  <2>2. PICK k \in FixedKeys, t \in Times : k = key[c] /\ t = local[c].now /\ Expire(k, t)
    BY <1>2, <1>5, <2>1, CommandsTyped DEF ServeExpire
  <2>3. PICK w : w = WindowStart(k, t)
    OBVIOUS
  <2>4. o \in Orphans /\ o # <<k, w>>
    BY <1>1, <2>2, <2>3, ExpireOrphans
  <2>5. Window(c) # o
    BY <2>2, <2>3, <2>4 DEF Window
  <2> QED
    BY <1>2, <2>4, <2>5, StillLost
<1> QED
  BY <1>3, <1>4, <1>5 DEF Served

LEMMA ProceedLoses ==
    ASSUME Typed, NEW c \in Callers, Proceed(c)
    PROVE  Lost' \in SUBSET Lost
<1> SUFFICES ASSUME NEW o \in Lost' PROVE o \in Lost
  OBVIOUS
<1>1. OthersStay(c) /\ counters' = counters
  BY OthersStayed, CallerStep DEF Proceed, serverVars
<1>2. o \in Orphans
  <2>1. o \in Orphans'
    BY DEF Lost
  <2> QED
    BY <1>1, <2>1, OrphanIs, OrphanWillBe
<1>3. CASE ReceiveAndGoOn(c) /\ ExpirePending(c)
  <2>1. /\ pc[c] = "executed" /\ pc'[c] = "sent" /\ key' = key
        /\ local'[c].op \in FollowUps(c)
    BY <1>3, CallerStep
  <2>2. local[c].op = "INCR" /\ local'[c].op = "EXPIRE"
    BY <1>3, <2>1 DEF ExpirePending, FollowUps
  <2>3. local'[c].now = local[c].now
    <3>1. PICK next : local' = [local EXCEPT ![c].op = next]
      BY <1>3 DEF ReceiveAndGoOn
    <3>2. local \in [Callers -> Locals]
      BY DEF Typed, ClientsTyped
    <3> QED
      BY <3>1, <3>2 DEF Locals
  <2>4. ExpirePending(c)' /\ Window(c)' = Window(c)
    BY <2>1, <2>2, <2>3 DEF ExpirePending, Window, WindowStart
  <2> QED
    BY <1>1, <1>2, <2>4, StillLost
<1>4. CASE ~ExpirePending(c)
  BY <1>1, <1>2, <1>4, StillLost
<1>5. CASE Begin(c)
  BY <1>4, <1>5 DEF Begin, ExpirePending
<1>6. CASE Return(c)
  BY <1>4, <1>6 DEF Return, ExpirePending, FollowUps
<1>7. CASE ResortToMemory(c) \/ FailOpen(c) \/ FailClosed(c)
  <2>1. pc[c] = "failed"
    BY <1>7, Zenon DEF ResortToMemory, FailOpen, FailClosed, FellBack
  <2> QED
    BY <1>4, <2>1 DEF ExpirePending
<1> QED
  BY <1>3, <1>4, <1>5, <1>6, <1>7 DEF Proceed

\* A fault loses what its caller was about to see to.
LEMMA FaultLoses ==
    ASSUME Typed, NEW c \in Callers, Fault(c)
    PROVE  /\ Lost' \in SUBSET (Lost \cup {Window(c)})
           /\ ~ExpirePending(c) => Lost' \in SUBSET Lost
<1>1. OthersStay(c) /\ counters' = counters
  BY OthersStayed, CallerStep DEF serverVars
<1>2. Lost' \in SUBSET Orphans
  BY <1>1, OrphanIs, OrphanWillBe DEF Lost
<1> QED
  BY <1>1, <1>2, StillLost

LEMMA LateLoses ==
    ASSUME Typed, NEW m \in adrift,
           \/ m.op = "EVAL" /\ Eval(m.id, m.process, m.key, m.now)
           \/ m.op = "INCR" /\ Incr(m.key, m.now)
           \/ m.op = "EXPIRE" /\ Expire(m.key, m.now),
           UNCHANGED <<pc, key, local>>
    PROVE  IF m.op = "INCR" THEN \E x : Lost' \in SUBSET (Lost \cup {x})
                            ELSE Lost' \in SUBSET Lost
<1>1. \A o \in Lost' : o \in Orphans' /\ (o \in Orphans => o \in Lost)
  BY DEF Lost, Pending, ExpirePending, Window
<1>2. CASE m.op = "EVAL" /\ Eval(m.id, m.process, m.key, m.now)
  <2>1. counters' = counters
    BY <1>2, Zenon DEF Eval
  <2>2. Orphans' \in SUBSET Orphans
    BY <2>1, OrphanIs, OrphanWillBe
  <2> QED
    BY <1>1, <1>2, <2>2
<1>3. CASE m.op = "INCR" /\ Incr(m.key, m.now)
  <2>1. PICK k \in FixedKeys, t \in Times : Incr(k, t)
    BY <1>3, CommandsTyped
  <2>2. PICK w, x : w = WindowStart(k, t) /\ x = <<k, w>>
    OBVIOUS
  <2>3. \A o \in Orphans' : o \in Orphans \/ o = x
    BY <2>1, <2>2, IncrOrphans
  <2> QED
    BY <1>1, <1>3, <2>3
<1>4. CASE m.op = "EXPIRE" /\ Expire(m.key, m.now)
  <2>1. PICK k \in FixedKeys, t \in Times : Expire(k, t)
    BY <1>4, CommandsTyped
  <2>2. PICK w : w = WindowStart(k, t)
    OBVIOUS
  <2>3. \A o \in Orphans' : o \in Orphans
    BY <2>1, <2>2, ExpireOrphans
  <2> QED
    BY <1>1, <1>4, <2>3
<1> QED
  BY <1>2, <1>3, <1>4

\* One orphan more is paid for by a fault, or by a late INCR that is carried out.
LEMMA LostCounted ==
    ASSUME LostInv, IsFiniteSet(adrift), IsFiniteSet(adrift'), faults \in Nat, faults' \in Nat,
           NEW more \in {0, 1}, NEW launched \in Int,
           IF more = 1 THEN \E x : Lost' \in SUBSET (Lost \cup {x}) ELSE Lost' \in SUBSET Lost,
           Cardinality(Incrs') <= Cardinality(Incrs) + launched,
           more + launched + faults <= faults'
    PROVE  LostInv'
<1>1. PICK a \in Nat, b \in Nat : a = Cardinality(Incrs) /\ b = Cardinality(Incrs')
  <2>1. Incrs \in SUBSET adrift /\ Incrs' \in SUBSET adrift'
    BY DEF Incrs
  <2>2. IsFiniteSet(Incrs) /\ IsFiniteSet(Incrs')
    BY <2>1, FS_Subset
  <2> QED
    BY <2>2, FS_CardinalityType
<1>2. IsFiniteSet(Lost) /\ Cardinality(Lost) \in Nat
  BY FS_CardinalityType DEF LostInv
<1>3. IsFiniteSet(Lost') /\ Cardinality(Lost') \in Nat /\ Cardinality(Lost') <= Cardinality(Lost) + more
  <2>1. CASE more = 0
    <3>1. IsFiniteSet(Lost') /\ Cardinality(Lost') <= Cardinality(Lost)
      BY <1>2, <2>1, FS_Subset
    <3> QED
      BY <1>2, <2>1, <3>1, FS_CardinalityType
  <2>2. CASE more = 1
    <3>1. PICK x : Lost' \in SUBSET (Lost \cup {x})
      BY <2>2
    <3>2. PICK larger : larger = Lost \cup {x}
      OBVIOUS
    <3>3. IsFiniteSet(larger) /\ Cardinality(larger) <= Cardinality(Lost) + 1
      <4>1. /\ IsFiniteSet(larger)
            /\ Cardinality(larger) = IF x \in Lost THEN Cardinality(Lost) ELSE Cardinality(Lost) + 1
        BY <1>2, <3>2, FS_AddElement
      <4> QED
        BY <1>2, <4>1
    <3>4. IsFiniteSet(Lost') /\ Cardinality(Lost') <= Cardinality(larger)
      BY <3>1, <3>2, <3>3, FS_Subset
    <3>5. Cardinality(Lost') \in Nat /\ Cardinality(larger) \in Nat
      BY <3>3, <3>4, FS_CardinalityType
    <3> QED
      BY <1>2, <2>2, <3>3, <3>4, <3>5
  <2> QED
    BY <2>1, <2>2
<1>4. PICK m \in Nat, n \in Nat, f \in Nat, g \in Nat, more1 \in Int :
          m = Cardinality(Lost) /\ n = Cardinality(Lost') /\ f = faults /\ g = faults' /\ more1 = more
  BY <1>2, <1>3
<1>5. m + a <= f /\ n <= m + more1 /\ b <= a + launched /\ more1 + launched + f <= g
  BY <1>1, <1>3, <1>4 DEF LostInv
<1>6. n + b <= g
  BY <1>5
<1> QED
  BY <1>1, <1>3, <1>4, <1>6 DEF LostInv

LEMMA LostKept ==
    ASSUME Typed, Typed', IsFiniteSet(adrift), IsFiniteSet(adrift'), LostInv, [Next]_vars
    PROVE  LostInv'
<1>1. faults \in Nat /\ faults' \in Nat
  BY DEF Typed, ClientsTyped
<1>2. IsFiniteSet(Incrs) /\ Cardinality(Incrs) \in Nat
  <2>1. Incrs \in SUBSET adrift
    BY DEF Incrs
  <2> QED
    BY <2>1, FS_Subset, FS_CardinalityType
<1>3. PICK zero \in {0, 1}, one \in {0, 1} : zero = 0 /\ one = 1
  OBVIOUS
<1>4. /\ zero \in Int /\ one \in Int /\ Cardinality(Incrs) <= Cardinality(Incrs) + zero
      /\ zero + zero + faults <= faults
  BY <1>1, <1>2, <1>3
<1>5. ASSUME Lost' \in SUBSET Lost, adrift' = adrift, faults' = faults
      PROVE  LostInv'
  <2>1. Incrs' = Incrs
    BY <1>5 DEF Incrs
  <2>2. /\ IF zero = 1 THEN \E x : Lost' \in SUBSET (Lost \cup {x}) ELSE Lost' \in SUBSET Lost
        /\ Cardinality(Incrs') <= Cardinality(Incrs) + zero
        /\ zero + zero + faults <= faults'
    BY <1>3, <1>4, <1>5, <2>1
  <2> QED
    BY <1>1, <1>4, <2>2, LostCounted
<1>6. ASSUME NEW c \in Callers, Served(c) \/ Proceed(c)
      PROVE  LostInv'
  <2>1. adrift' = adrift /\ faults' = faults
    BY <1>6, CallerStep DEF Proceed
  <2> QED
    BY <1>5, <1>6, <2>1, ServedLoses, ProceedLoses
<1>7. ASSUME NEW c \in Callers, Fault(c)
      PROVE  LostInv'
  <2>1. /\ Lost' \in SUBSET (Lost \cup {Window(c)})
        /\ ~ExpirePending(c) => Lost' \in SUBSET Lost
    BY <1>7, FaultLoses
  <2>2. GiveUp(c)
    BY <1>7, CallerStep
  <2>3. faults' = faults + 1
    BY <2>2, GivenUp
  <2>4. CASE Incrs' = Incrs
    <3>1. /\ IF one = 1 THEN \E x : Lost' \in SUBSET (Lost \cup {x}) ELSE Lost' \in SUBSET Lost
          /\ Cardinality(Incrs') <= Cardinality(Incrs) + zero
          /\ one + zero + faults <= faults'
      BY <1>1, <1>3, <1>4, <2>1, <2>3, <2>4
    <3> QED
      BY <1>1, <1>4, <3>1, LostCounted
  <2>5. CASE Incrs' # Incrs
    <3>1. PICK m \in Commands : m.op = local[c].op /\ pc[c] = "sent" /\ adrift' = adrift \cup {m}
      BY <2>2, <2>5, GivenUp DEF Incrs
    <3>2. m.op = "INCR" /\ Incrs' = Incrs \cup {m}
      BY <2>5, <3>1 DEF Incrs
    <3>3. ~ExpirePending(c)
      BY <3>1, <3>2 DEF ExpirePending
    <3>4. m \notin Incrs
      BY <2>5, <3>2
    <3>5. Cardinality(Incrs \cup {m}) = Cardinality(Incrs) + 1
      BY <1>2, <3>4, FS_AddElement
    <3>6. /\ IF zero = 1 THEN \E x : Lost' \in SUBSET (Lost \cup {x}) ELSE Lost' \in SUBSET Lost
          /\ Cardinality(Incrs') <= Cardinality(Incrs) + one
          /\ zero + one + faults <= faults'
      BY <1>1, <1>2, <1>3, <2>1, <2>3, <3>2, <3>3, <3>5
    <3> QED
      BY <1>1, <1>4, <3>6, LostCounted
  <2> QED
    BY <2>4, <2>5
<1>8. CASE ServeLate
  <2>1. PICK m \in adrift :
            /\ \/ m.op = "EVAL" /\ Eval(m.id, m.process, m.key, m.now)
               \/ m.op = "INCR" /\ Incr(m.key, m.now)
               \/ m.op = "EXPIRE" /\ Expire(m.key, m.now)
            /\ adrift' = adrift \ {m}
            /\ UNCHANGED <<faults, pc, key, local>>
    BY <1>8, Zenon DEF ServeLate, callVars
  <2>2. IF m.op = "INCR" THEN \E x : Lost' \in SUBSET (Lost \cup {x}) ELSE Lost' \in SUBSET Lost
    BY <2>1, LateLoses
  <2>3. CASE m.op = "INCR"
    <3>1. m \in Incrs /\ Incrs' = Incrs \ {m}
      BY <2>1, <2>3 DEF Incrs
    <3>2. Cardinality(Incrs \ {m}) = Cardinality(Incrs) - 1
      BY <1>2, <3>1, FS_RemoveElement
    <3>3. PICK fewer \in Int : fewer = 0 - 1
      OBVIOUS
    <3>4. /\ IF one = 1 THEN \E x : Lost' \in SUBSET (Lost \cup {x}) ELSE Lost' \in SUBSET Lost
          /\ Cardinality(Incrs') <= Cardinality(Incrs) + fewer
          /\ one + fewer + faults <= faults'
      BY <1>1, <1>2, <1>3, <2>1, <2>2, <2>3, <3>1, <3>2, <3>3
    <3> QED
      BY <1>1, <3>4, LostCounted
  <2>4. CASE m.op # "INCR"
    <3>1. Incrs' = Incrs
      BY <2>1, <2>4 DEF Incrs
    <3>2. /\ IF zero = 1 THEN \E x : Lost' \in SUBSET (Lost \cup {x}) ELSE Lost' \in SUBSET Lost
          /\ Cardinality(Incrs') <= Cardinality(Incrs) + zero
          /\ zero + zero + faults <= faults'
      BY <1>3, <1>4, <2>1, <2>2, <2>4, <3>1
    <3> QED
      BY <1>1, <1>4, <3>2, LostCounted
  <2> QED
    BY <2>3, <2>4
<1>9. CASE Tick \/ Finished \/ UNCHANGED vars
  <2>1. UNCHANGED <<counters, adrift, faults, pc, key, local>>
    BY <1>9, Zenon DEF Tick, Finished, vars, callVars, serverVars
  <2>2. Lost' = Lost
    BY <2>1 DEF Lost, Orphans, Pending, ExpirePending, Window, WindowStart
  <2> QED
    BY <1>5, <2>1, <2>2
<1> QED
  BY <1>6, <1>7, <1>8, <1>9 DEF Next

\* Each caller sees to one orphan at most.
LEMMA SeenTo ==
    ASSUME Typed, LostInv, IsFiniteSet(adrift)
    PROVE  OrphansAreFaults
<1> DEFINE Awaited == {Window(c) : c \in Pending}
<1>1. IsFiniteSet(Pending) /\ Pending = {c \in Callers : ExpirePending(c)}
  <2>1. IsFiniteSet(Callers) /\ Pending \in SUBSET Callers
    BY RedisAssumption DEF Pending
  <2> QED
    BY <2>1, FS_Subset DEF Pending
<1>2. IsFiniteSet(Awaited) /\ Cardinality(Awaited) <= Cardinality(Pending)
  <2>1. [c \in Pending |-> Window(c)] \in Surjection(Pending, Awaited)
    BY DEF Surjection
  <2> QED
    BY <1>1, <2>1, FS_Surjection
<1>3. Orphans \in SUBSET (Lost \cup Awaited)
  BY DEF Lost
<1> HIDE DEF Awaited
<1>4. IsFiniteSet(Lost) /\ IsFiniteSet(Incrs)
  <2>1. Incrs \in SUBSET adrift
    BY DEF Incrs
  <2> QED
    BY <2>1, FS_Subset DEF LostInv
<1>5. /\ IsFiniteSet(Lost \cup Awaited)
      /\ Cardinality(Lost \cup Awaited) =
             Cardinality(Lost) + Cardinality(Awaited) - Cardinality(Lost \cap Awaited)
      /\ IsFiniteSet(Lost \cap Awaited)
  BY <1>2, <1>4, FS_Union, FS_Intersection
<1>6. IsFiniteSet(Orphans) /\ Cardinality(Orphans) <= Cardinality(Lost \cup Awaited)
  BY <1>3, <1>5, FS_Subset
<1>7. PICK o \in Nat, u \in Nat, i \in Nat, l \in Nat, a \in Nat, p \in Nat, n \in Nat :
         /\ o = Cardinality(Orphans) /\ u = Cardinality(Lost \cup Awaited)
         /\ i = Cardinality(Lost \cap Awaited) /\ l = Cardinality(Lost)
         /\ a = Cardinality(Awaited) /\ p = Cardinality(Pending) /\ n = Cardinality(Incrs)
  BY <1>1, <1>2, <1>4, <1>5, <1>6, FS_CardinalityType
<1>8. PICK f \in Nat : f = faults
  BY DEF Typed, ClientsTyped
<1>9. o <= u /\ u = l + a - i /\ a <= p /\ l + n <= f
  BY <1>2, <1>5, <1>6, <1>7, <1>8 DEF LostInv
<1>10. o <= f + p
  BY <1>9
<1> QED
  BY <1>1, <1>7, <1>8, <1>10 DEF OrphansAreFaults

LEMMA LostInvHolds == Spec => []LostInv
<1>1. Init => LostInv
  <2> SUFFICES ASSUME Init PROVE LostInv
    OBVIOUS
  <2>1. adrift = {} /\ faults = 0 /\ \A k \in FixedKeys : \A w \in Starts(k) : counters[k][w].count = 0
    BY DEF Init, Zero
  <2>2. Lost = {} /\ Incrs = {}
    BY <2>1, OrphanIs DEF Lost, Incrs
  <2> QED
    BY <2>1, <2>2, FS_EmptySet DEF LostInv
<1>2. LedgerInv => Typed /\ IsFiniteSet(adrift)
  BY DEF LedgerInv, IdsKnown
<1>3. /\ Typed /\ Typed' /\ IsFiniteSet(adrift) /\ IsFiniteSet(adrift)' /\ LostInv /\ [Next]_vars
      => LostInv'
  BY LostKept
<1> QED
  BY <1>1, <1>2, <1>3, LedgerInvHolds, PTL DEF Spec

\* OrphansAreFaults: but for those that a caller is about to send EXPIRE for, there
\* are no more counters without expiry than there have been faults.
THEOREM OrphansAreFaultsHolds == Spec => []OrphansAreFaults
<1>1. Typed /\ LostInv /\ IdsKnown => OrphansAreFaults
  BY SeenTo DEF IdsKnown
<1>2. LedgerInv => Typed /\ IdsKnown
  BY DEF LedgerInv
<1> QED
  BY <1>1, <1>2, LostInvHolds, LedgerInvHolds, PTL

-----------------------------------------------------------------------------
(***************************************************************************)
(* FixedOnTime.  Under the server's clock, a counter outlives its window:  *)
(* until the window is over, it counts every request that was admitted     *)
(* into it, and after that nothing is on time any more.                    *)
(***************************************************************************)

ServerWindows == FixedKeys \cap ServerTimed

\* TIME has been answered.
TimeTold(c) ==
    \/ pc[c] = "executed"
    \/ pc[c] = "sent" /\ local[c].op # "TIME"

\* The server is not sent a time that it has not told.
TimesPast ==
    \A k \in ServerWindows :
        /\ \A c \in Callers : key[c] = k /\ TimeTold(c) => local[c].now <= clock
        /\ \A m \in adrift : m.key = k => m.now <= clock

CountersLast ==
    \A k \in ServerWindows : \A w \in Starts(k) :
        counters[k][w].expires # Never => counters[k][w].expires >= w + RuleOf[k].window

OnTime(k, w) ==
    {i \in DOMAIN granted[k] : /\ WindowStart(k, granted[k][i].stamp) = w
                               /\ granted[k][i].at <= w + RuleOf[k].window}

CountedAt(k, w) ==
    /\ Cardinality(OnTime(k, w)) <= RuleOf[k].limit
    /\ clock <= w + RuleOf[k].window => Cardinality(OnTime(k, w)) <= counters[k][w].count

CountedOnTime == \A k \in ServerWindows : \A w \in Starts(k) : CountedAt(k, w)

LEMMA WindowNumbers ==
    ASSUME Typed, NEW k \in ServerWindows
    PROVE  /\ k \in FixedKeys /\ k \in Keys
           /\ RuleOf[k].limit \in Positive /\ RuleOf[k].window \in Positive
           /\ \A w \in Starts(k) : w \in Int /\ counters[k][w] \in Counter
           /\ \A w : IsFiniteSet(OnTime(k, w)) /\ Cardinality(OnTime(k, w)) \in Nat
<1>1. k \in FixedKeys /\ k \in Keys
  BY DEF ServerWindows, FixedKeys
<1>2. RuleOf[k].limit \in Positive /\ RuleOf[k].window \in Positive
  <2>1. RuleOf[k] \in LimitRule /\ RuleOf[k].algorithm = "fixed_window"
    BY <1>1, RedisAssumption DEF FixedKeys, IsFixed
  <2> QED
    BY <2>1 DEF LimitRule, WindowRule, BucketRule
<1>3. ASSUME NEW w \in Starts(k)
      PROVE  w \in Int /\ counters[k][w] \in Counter
  <2>1. PICK t \in Int : w = WindowStart(k, t)
    <3>1. MaxTime \in Nat /\ Skew \in [Processes -> Nat]
      BY RedisAssumption
    <3> QED
      BY <3>1 DEF Starts
  <2>2. Aligned(t, RuleOf[k].window) \in Int
    BY <1>2, AlignedOrder
  <2> QED
    BY <1>1, <2>1, <2>2 DEF WindowStart, Typed, ServerTyped
<1>4. ASSUME NEW w
      PROVE  IsFiniteSet(OnTime(k, w)) /\ Cardinality(OnTime(k, w)) \in Nat
  <2>1. PICK n \in Nat : DOMAIN granted[k] = 1 .. n
    BY <1>1, LenProperties DEF Typed, ServerTyped
  <2>2. n \in Int
    OBVIOUS
  <2>3. IsFiniteSet(1 .. n)
    BY <2>2, FS_Interval
  <2>4. OnTime(k, w) \in SUBSET (1 .. n)
    BY <2>1 DEF OnTime
  <2> QED
    BY <2>3, <2>4, FS_Subset, FS_CardinalityType
<1> QED
  BY <1>1, <1>2, <1>3, <1>4

\* EXPIRE puts the end of a counter behind that of its window.
LEMMA ExpireLasts ==
    ASSUME Typed, CountersLast, CountedOnTime, clock' = clock, granted' = granted,
           NEW k \in FixedKeys, NEW t \in Times, Expire(k, t), k \in ServerTimed => t <= clock
    PROVE  CountersLast' /\ CountedOnTime'
<1>1. PICK w \in Starts(k) : w = WindowStart(k, t)
  BY StartAsked DEF FixedKeys
<1>2. /\ counters[k][w] \in Counter
      /\ counters'[k][w] = IF LiveCounter(k, w) = Zero THEN counters[k][w]
                           ELSE [counters[k][w] EXCEPT !.expires = clock + RuleOf[k].window]
      /\ RuleOf[k].window \in Positive /\ clock \in Nat
      /\ OnlyCounter(k, w)
  BY <1>1, ExpireWrites
<1>3. counters'[k][w].count = counters[k][w].count
  BY <1>2 DEF Counter
<1>4. ASSUME k \in ServerTimed, counters'[k][w].expires # Never
      PROVE  counters'[k][w].expires >= w + RuleOf[k].window
  <2>1. CASE LiveCounter(k, w) = Zero
    BY <1>1, <1>2, <1>4, <2>1 DEF CountersLast, ServerWindows
  <2>2. CASE LiveCounter(k, w) # Zero
    <3>1. counters'[k][w].expires = clock + RuleOf[k].window
      BY <1>2, <2>2 DEF Counter
    <3>2. t <= clock /\ t \in Int /\ RuleOf[k].window \in Int
      BY <1>2, <1>4, ClockReading DEF Positive, Typed, ClientsTyped
    <3>3. w <= t /\ w \in Int
      BY <1>1, <1>2, <3>2, AlignedOrder DEF WindowStart
    <3> QED
      BY <1>2, <3>1, <3>2, <3>3
  <2> QED
    BY <2>1, <2>2
<1>5. \A l \in ServerWindows : \A v \in Starts(l) :
          /\ counters'[l][v].count = counters[l][v].count
          /\ <<l, v>> # <<k, w>> => counters'[l][v] = counters[l][v]
  BY <1>2, <1>3 DEF OnlyCounter, ServerWindows
<1>6. CountersLast'
  <2> SUFFICES ASSUME NEW l \in ServerWindows, NEW v \in Starts(l), counters'[l][v].expires # Never
               PROVE  counters'[l][v].expires >= v + RuleOf[l].window
    BY DEF CountersLast
  <2>1. CASE l = k /\ v = w
    BY <1>4, <2>1 DEF ServerWindows
  <2>2. CASE ~(l = k /\ v = w)
    <3>1. counters'[l][v] = counters[l][v]
      BY <1>5, <2>2
    <3> QED
      BY <3>1 DEF CountersLast
  <2> QED
    BY <2>1, <2>2
<1>7. CountedOnTime'
  <2>1. \A l \in ServerWindows : \A v \in Starts(l) : OnTime(l, v)' = OnTime(l, v)
    BY DEF OnTime
  <2> QED
    BY <1>5, <2>1 DEF CountedOnTime, CountedAt
<1> QED
  BY <1>6, <1>7

\* INCR counts what it admits, as long as the window lasts.
LEMMA IncrCounts ==
    ASSUME Typed, CountersLast, CountedOnTime, clock' = clock,
           NEW k \in FixedKeys, NEW t \in Times, Incr(k, t)
    PROVE  CountersLast' /\ CountedOnTime'
<1>1. PICK w \in Starts(k) : w = WindowStart(k, t)
  BY StartAsked DEF FixedKeys
<1>2. /\ LiveCounter(k, w) \in Counter
      /\ counters'[k][w] = [LiveCounter(k, w) EXCEPT !.count = LiveCounter(k, w).count + 1]
      /\ OnlyCounter(k, w)
  BY <1>1, IncrWrites
<1>3. /\ counters'[k][w].count = LiveCounter(k, w).count + 1
      /\ counters'[k][w].expires = LiveCounter(k, w).expires
  BY <1>2 DEF Counter
<1>4. PICK allowed \in BOOLEAN : allowed <=> LiveCounter(k, w).count + 1 <= RuleOf[k].limit
  OBVIOUS
<1>5. PICK old \in Seq(Grants), new \in Grants :
         /\ old = granted[k] /\ new.stamp = t /\ new.at = clock
         /\ granted'[k] = IF allowed THEN Append(old, new) ELSE old
         /\ \A l \in Keys \ {k} : granted'[l] = granted[l]
  <2>1. Grant(k, allowed, t)
    BY <1>1, <1>4 DEF Incr, Grant
  <2>2. /\ \A l \in Keys \ {k} : granted'[l] = granted[l]
        /\ granted'[k] = IF allowed THEN Append(granted[k], [stamp |-> t, at |-> clock])
                                    ELSE granted[k]
    BY <2>1, GrantTyped DEF FixedKeys
  <2>3. PICK new \in Grants : new = [stamp |-> t, at |-> clock]
    BY DEF Grants, Typed, ClientsTyped
  <2>4. granted[k] \in Seq(Grants) /\ new.stamp = t /\ new.at = clock
    BY <2>3 DEF Typed, ServerTyped, FixedKeys
  <2> QED
    BY <2>2, <2>3, <2>4
<1>6. PICK n \in Nat :
         /\ DOMAIN old = 1 .. n /\ n + 1 \notin DOMAIN old
         /\ DOMAIN Append(old, new) = 1 .. n + 1
         /\ \A i \in 1 .. n : Append(old, new)[i] = old[i]
         /\ Append(old, new)[n + 1] = new
  <2>1. /\ Len(old) \in Nat /\ DOMAIN old = 1 .. Len(old) /\ Len(old) + 1 \notin DOMAIN old
        /\ DOMAIN Append(old, new) = 1 .. Len(old) + 1
        /\ \A i \in 1 .. Len(old) : Append(old, new)[i] = old[i]
        /\ Append(old, new)[Len(old) + 1] = new
    BY LenProperties, AppendProperties
  <2> QED
    BY <2>1
\* Elsewhere nothing changes.
<1>7. ASSUME NEW l \in ServerWindows, NEW v \in Starts(l), ~(l = k /\ v = w)
      PROVE  counters'[l][v] = counters[l][v] /\ OnTime(l, v)' = OnTime(l, v)
  <2>1. counters'[l][v] = counters[l][v]
    BY <1>2, <1>7 DEF OnlyCounter, ServerWindows
  <2>2. CASE l # k
    BY <1>5, <2>1, <2>2 DEF OnTime, ServerWindows, FixedKeys
  <2>3. CASE l = k /\ v # w
    <3>1. CASE allowed
      <4>1. granted'[k] = Append(old, new) /\ granted[k] = old
        BY <1>5, <3>1
      <4>2. WindowStart(k, new.stamp) # v
        BY <1>1, <1>5, <2>3
      <4>3. \A i : i \in DOMAIN Append(old, new) <=> i \in 1 .. n \/ i = n + 1
        BY <1>6
      <4> QED
        BY <1>6, <2>1, <2>3, <4>1, <4>2, <4>3 DEF OnTime
    <3>2. CASE ~allowed
      BY <1>5, <2>1, <2>3, <3>2 DEF OnTime
    <3> QED
      BY <3>1, <3>2
  <2> QED
    BY <1>7, <2>2, <2>3, <2>1
\* What the window itself gains.
<1>8. ASSUME k \in ServerTimed
      PROVE  /\ CountedAt(k, w)'
             /\ counters'[k][w].expires # Never =>
                    counters'[k][w].expires >= w + RuleOf[k].window
  <2>1. /\ k \in ServerWindows /\ RuleOf[k].limit \in Nat /\ RuleOf[k].window \in Nat
        /\ w \in Int /\ counters[k][w] \in Counter
        /\ IsFiniteSet(OnTime(k, w)) /\ Cardinality(OnTime(k, w)) \in Nat
    BY <1>8, WindowNumbers DEF ServerWindows, Positive
  <2>2. clock \in Nat
    BY ClockReading DEF Typed, ClientsTyped
  <2>3. CountedAt(k, w)
    BY <2>1 DEF CountedOnTime
  <2>4. counters'[k][w].expires # Never => counters'[k][w].expires >= w + RuleOf[k].window
    <3>1. LiveCounter(k, w) = Zero \/ LiveCounter(k, w) = counters[k][w]
      BY DEF LiveCounter
    <3> QED
      BY <1>3, <2>1, <3>1 DEF CountersLast, Zero
  <2>5. CASE clock <= w + RuleOf[k].window
    <3>1. ~Gone(counters[k][w])
      BY <2>1, <2>2, <2>5 DEF Gone, CountersLast, Counter
    <3>2. LiveCounter(k, w) = counters[k][w]
      BY <3>1 DEF LiveCounter
    <3>3. CASE allowed
      <4>1. granted'[k] = Append(old, new) /\ granted[k] = old
        BY <1>5, <3>3
      <4>2. \A i : i \in DOMAIN Append(old, new) <=> i \in 1 .. n \/ i = n + 1
        BY <1>6
      <4>3. OnTime(k, w)' = OnTime(k, w) \cup {n + 1} /\ n + 1 \notin OnTime(k, w)
        BY <1>1, <1>5, <1>6, <2>5, <4>1, <4>2 DEF OnTime
      <4>4. Cardinality(OnTime(k, w)') = Cardinality(OnTime(k, w)) + 1
        BY <2>1, <4>3, FS_AddElement
      <4>5. counters[k][w].count \in Nat
        BY <2>1 DEF Counter
      <4> QED
        BY <1>3, <1>4, <2>1, <2>3, <2>4, <2>5, <3>2, <3>3, <4>4, <4>5, SMTT(40) DEF CountedAt
    <3>4. CASE ~allowed
      <4>1. OnTime(k, w)' = OnTime(k, w)
        BY <1>5, <3>4 DEF OnTime
      <4>2. counters[k][w].count \in Nat
        BY <2>1 DEF Counter
      <4> QED
        BY <1>3, <2>1, <2>3, <2>4, <2>5, <3>2, <4>1, <4>2 DEF CountedAt
    <3> QED
      BY <3>3, <3>4
  <2>6. CASE ~(clock <= w + RuleOf[k].window)
    <3>1. OnTime(k, w)' = OnTime(k, w)
      <4>1. CASE allowed
        <5>1. granted'[k] = Append(old, new) /\ granted[k] = old
          BY <1>5, <4>1
        <5>2. \A i : i \in DOMAIN Append(old, new) <=> i \in 1 .. n \/ i = n + 1
          BY <1>6
        <5> QED
          BY <1>5, <1>6, <2>6, <5>1, <5>2 DEF OnTime
      <4>2. CASE ~allowed
        BY <1>5, <4>2 DEF OnTime
      <4> QED
        BY <4>1, <4>2
    <3> QED
      BY <2>3, <2>4, <2>6, <3>1 DEF CountedAt
  <2> QED
    BY <2>4, <2>5, <2>6
<1>9. CountersLast'
  <2> SUFFICES ASSUME NEW l \in ServerWindows, NEW v \in Starts(l), counters'[l][v].expires # Never
               PROVE  counters'[l][v].expires >= v + RuleOf[l].window
    BY DEF CountersLast
  <2>1. CASE l = k /\ v = w
    BY <1>8, <2>1 DEF ServerWindows
  <2>2. CASE ~(l = k /\ v = w)
    <3>1. counters'[l][v] = counters[l][v]
      BY <1>7, <2>2
    <3> QED
      BY <3>1 DEF CountersLast
  <2> QED
    BY <2>1, <2>2
<1>10. CountedOnTime'
  <2> SUFFICES ASSUME NEW l \in ServerWindows, NEW v \in Starts(l) PROVE CountedAt(l, v)'
    BY DEF CountedOnTime
  <2>1. CASE l = k /\ v = w
    BY <1>8, <2>1 DEF ServerWindows
  <2>2. CASE ~(l = k /\ v = w)
    <3>1. counters'[l][v] = counters[l][v] /\ OnTime(l, v)' = OnTime(l, v)
      BY <1>7, <2>2
    <3> QED
      BY <3>1 DEF CountedOnTime, CountedAt
  <2> QED
    BY <2>1, <2>2
<1> QED
  BY <1>9, <1>10

\* The time that a caller of k has been told is past.
TimeKnown(c) == key[c] \in ServerWindows /\ TimeTold(c) => local[c].now <= clock

\* A caller uses the time that TIME told it, and no other.
LEMMA NowMoves ==
    ASSUME Typed, NEW c \in Callers, TimeKnown(c), Served(c) \/ Proceed(c) \/ Fault(c)
    PROVE  TimeKnown(c)' /\ clock' = clock
<1>1. /\ pc \in [Callers -> Places] /\ key \in [Callers -> Keys] /\ local \in [Callers -> Locals]
      /\ local[c] \in Locals /\ clock \in Nat
      /\ key[c] \in ServerWindows /\ pc[c] \in {"sent", "executed"} => local[c].op # "EVAL"
  BY ClockReading, CommandsTyped DEF Typed, ClientsTyped, ServerWindows
<1>2. CASE Served(c)
  <2>1. CASE ServeTime(c)
    <3>1. local'[c].now = clock /\ clock' = clock
      BY <1>1, <2>1 DEF ServeTime, Serve, Locals
    <3> QED
      BY <1>1, <3>1 DEF TimeKnown
  <2>2. CASE ServeIncr(c) \/ ServeExpire(c)
    <3>1. /\ local'[c].now = local[c].now /\ clock' = clock /\ key' = key
          /\ pc[c] = "sent" /\ local[c].op # "TIME"
      BY <1>1, <2>2 DEF ServeIncr, ServeExpire, Serve, Locals
    <3> QED
      BY <3>1 DEF TimeKnown, TimeTold
  <2>3. CASE ServeEval(c)
    <3>1. local[c].op = "EVAL" /\ pc[c] = "sent" /\ key' = key /\ clock' = clock
      BY <2>3 DEF ServeEval, Serve
    <3> QED
      BY <1>1, <3>1 DEF TimeKnown
  <2> QED
    BY <1>2, <2>1, <2>2, <2>3 DEF Served
<1>3. CASE Begin(c)
  <2>1. PICK k \in Keys :
            /\ key' = [key EXCEPT ![c] = k]
            /\ local' = [local EXCEPT ![c].op = FirstCommand(k),
                                      ![c].stamp = LocalClock(c), ![c].now = LocalClock(c)]
    BY <1>3, Zenon DEF Begin
  <2>2. key'[c] = k /\ local'[c].op = FirstCommand(k) /\ pc'[c] = "sent" /\ clock' = clock
    BY <1>1, <1>3, <2>1, CallerStep DEF Begin, Locals
  <2>3. k \in ServerWindows => FirstCommand(k) = "TIME"
    BY DEF ServerWindows, FixedKeys, FirstCommand
  <2> QED
    BY <2>2, <2>3 DEF TimeKnown, TimeTold
<1>4. CASE ReceiveAndGoOn(c)
  <2>1. /\ local'[c].now = local[c].now /\ clock' = clock /\ key' = key
        /\ pc[c] = "executed"
    BY <1>1, <1>4 DEF ReceiveAndGoOn, Locals
  <2> QED
    BY <2>1 DEF TimeKnown, TimeTold
<1>5. CASE Return(c) \/ ResortToMemory(c) \/ FailOpen(c) \/ FailClosed(c)
  <2>1. pc'[c] = "idle"
    BY <1>5, CallerStep
  <2>2. clock' = clock
    BY <1>5, Zenon DEF Return, ResortToMemory, FailOpen, FailClosed, Answer, End
  <2> QED
    BY <2>1, <2>2 DEF TimeKnown, TimeTold
<1>6. CASE Fault(c)
  <2>1. pc'[c] \in {"failed", "idle"} \/ Resend(c)
    BY <1>1, <1>6, CallerStep DEF Fault, Fail, Cancel, End
  <2>2. clock' = clock
    BY <1>6, Zenon DEF Fault, Resend, Fail, Cancel, End
  <2>3. CASE Resend(c)
    <3>1. /\ local'[c].now = local[c].now /\ local'[c].op = local[c].op /\ key' = key
          /\ pc'[c] = "sent"
      BY <1>1, <2>3 DEF Resend, Locals
    <3>2. pc[c] \in {"sent", "executed"}
      BY <2>3, GivenUp DEF Resend
    <3> QED
      BY <2>2, <3>1, <3>2 DEF TimeKnown, TimeTold
  <2> QED
    BY <2>1, <2>2, <2>3 DEF TimeKnown, TimeTold
<1> QED
  BY <1>2, <1>3, <1>4, <1>5, <1>6 DEF Proceed

\* What is set adrift carries the time of the caller that gave it up.
LEMMA AdriftTold ==
    ASSUME Typed, NEW c \in Callers, TimeKnown(c), Served(c) \/ Proceed(c) \/ Fault(c)
    PROVE  \A m \in adrift' : m \in adrift \/ (m.key \in ServerWindows => m.now <= clock)
<1>1. CASE Served(c) \/ Proceed(c)
  <2>1. CASE Served(c) \/ Begin(c) \/ ReceiveAndGoOn(c)
    BY <2>1, CallerStep
  <2>2. CASE Return(c) \/ ResortToMemory(c) \/ FailOpen(c) \/ FailClosed(c)
    BY <2>2, CallerStep
  <2> QED
    BY <1>1, <2>1, <2>2 DEF Proceed
<1>2. CASE Fault(c)
  <2>1. PICK m : m = [op |-> local[c].op, key |-> key[c], process |-> ProcessOf[c],
                      id |-> CallId(c), nr |-> faults, now |-> local[c].now]
    OBVIOUS
  <2>2. GiveUp(c)
    BY <1>2, CallerStep
  <2>3. \/ adrift' = adrift
        \/ pc[c] = "sent" /\ local[c].op # "TIME" /\ adrift' = adrift \cup {m}
    BY <2>1, <2>2 DEF GiveUp
  <2>4. m.key = key[c] /\ m.now = local[c].now
    BY <2>1
  <2> QED
    BY <2>3, <2>4 DEF TimeKnown, TimeTold
<1> QED
  BY <1>1, <1>2

LEMMA TimesKept ==
    ASSUME Typed, TimesPast, [Next]_vars
    PROVE  TimesPast'
<1>1. clock \in Nat
  BY ClockReading DEF Typed, ClientsTyped
<1>2. \A c \in Callers : TimeKnown(c)
  BY DEF TimesPast, TimeKnown
<1>3. SUFFICES /\ \A c \in Callers : TimeKnown(c)'
               /\ \A m \in adrift' : m.key \in ServerWindows => m.now <= clock'
  BY DEF TimesPast, TimeKnown
<1>4. ASSUME NEW c \in Callers, Served(c) \/ Proceed(c) \/ Fault(c)
      PROVE  /\ \A d \in Callers : TimeKnown(d)'
             /\ \A m \in adrift' : m.key \in ServerWindows => m.now <= clock'
  <2>1. TimeKnown(c)' /\ clock' = clock
    BY <1>2, <1>4, NowMoves
  <2>2. \A m \in adrift' : m \in adrift \/ (m.key \in ServerWindows => m.now <= clock)
    BY <1>2, <1>4, AdriftTold
  <2>3. \A d \in Callers \ {c} : pc'[d] = pc[d] /\ key'[d] = key[d] /\ local'[d] = local[d]
    BY <1>4, OthersStayed DEF OthersStay
  <2>4. \A d \in Callers \ {c} : TimeKnown(d)'
    BY <1>2, <2>1, <2>3 DEF TimeKnown, TimeTold
  <2>5. \A m \in adrift : m.key \in ServerWindows => m.now <= clock
    BY DEF TimesPast
  <2> QED
    BY <2>1, <2>2, <2>4, <2>5
<1>5. CASE ServeLate
  <2>1. clock' = clock /\ pc' = pc /\ key' = key /\ local' = local /\ adrift' \in SUBSET adrift
    BY <1>5 DEF ServeLate, callVars
  <2> QED
    BY <1>2, <2>1 DEF TimesPast, TimeKnown, TimeTold
<1>6. CASE Tick
  <2>1. clock' = clock + 1 /\ pc' = pc /\ key' = key /\ local' = local /\ adrift' = adrift
    BY <1>6 DEF Tick, callVars
  <2>2. \A n \in Int : n <= clock => n <= clock'
    BY <1>1, <2>1
  <2>3. \A c \in Callers : local[c].now \in Int
    BY ClockReading, CommandsTyped DEF Typed, ClientsTyped
  <2>4. \A m \in adrift : m.now \in Int
    BY ClockReading, CommandsTyped DEF Typed, ClientsTyped
  <2>5. \A c \in Callers : TimeKnown(c)'
    BY <1>2, <2>1, <2>2, <2>3 DEF TimeKnown, TimeTold
  <2> QED
    BY <2>1, <2>2, <2>4, <2>5 DEF TimesPast
<1>7. CASE UNCHANGED vars
  <2>1. clock' = clock /\ pc' = pc /\ key' = key /\ local' = local /\ adrift' = adrift
    BY <1>7 DEF vars, callVars
  <2> QED
    BY <1>2, <2>1 DEF TimesPast, TimeKnown, TimeTold
<1> QED
  BY <1>4, <1>5, <1>6, <1>7 DEF Next, Finished

\* With time, less is on time.
LEMMA WindowsPass ==
    ASSUME Typed, CountersLast, CountedOnTime, counters' = counters,
           \A k \in FixedKeys : granted'[k] = granted[k],
           clock' = clock \/ clock' = clock + 1
    PROVE  CountersLast' /\ CountedOnTime'
<1>1. CountersLast'
  BY DEF CountersLast
<1>2. ASSUME NEW k \in ServerWindows, NEW w \in Starts(k)
      PROVE  CountedAt(k, w)'
  <2>1. /\ k \in FixedKeys /\ RuleOf[k].limit \in Positive /\ RuleOf[k].window \in Positive /\ w \in Int
        /\ counters[k][w] \in Counter /\ Cardinality(OnTime(k, w)) \in Nat
    BY WindowNumbers
  <2>2. OnTime(k, w)' = OnTime(k, w)
    BY <2>1 DEF OnTime
  <2>3. clock \in Nat /\ RuleOf[k].window \in Int
    BY <2>1, ClockReading DEF Typed, ClientsTyped, Positive
  <2>4. clock' <= w + RuleOf[k].window => clock <= w + RuleOf[k].window
    BY <2>1, <2>3
  <2> QED
    BY <2>2, <2>4 DEF CountedOnTime, CountedAt
<1> QED
  BY <1>1, <1>2 DEF CountedOnTime

\* A script leaves the fixed windows alone.
LEMMA ScriptsApart ==
    ASSUME Typed, NEW k \in Keys \ FixedKeys, NEW t \in Times, NEW id \in RequestIds, NEW p,
           Eval(id, p, k, t)
    PROVE  counters' = counters /\ \A l \in FixedKeys : granted'[l] = granted[l]
<1>1. PICK allowed : allowed = Evaluated(id, k, t).outcome.allowed
  OBVIOUS
<1>2. \A l \in Keys \ {k} : granted'[l] = granted[l]
  BY <1>1, EvalRecords
<1>3. counters' = counters
  BY DEF Eval
<1> QED
  BY <1>2, <1>3 DEF FixedKeys

LEMMA WindowsKept ==
    ASSUME Typed, TimesPast, CountersLast, CountedOnTime, [Next]_vars
    PROVE  CountersLast' /\ CountedOnTime'
<1>1. ASSUME NEW c \in Callers, Served(c)
      PROVE  CountersLast' /\ CountedOnTime'
  <2>1. /\ key[c] \in Keys /\ local[c].now \in Times /\ local[c].stamp \in Times
        /\ CallId(c) \in RequestIds
        /\ pc[c] = "sent" => IF local[c].op = "EVAL" THEN key[c] \in Keys \ FixedKeys
                                                     ELSE key[c] \in FixedKeys
    BY CommandsTyped
  <2>2. CASE ServeTime(c)
    <3>1. counters' = counters /\ granted' = granted /\ clock' = clock
      BY <2>2 DEF ServeTime, Serve, serverVars
    <3> QED
      BY <3>1, WindowsPass
  <2>3. CASE ServeIncr(c)
    <3>1. Incr(key[c], local[c].now) /\ clock' = clock /\ key[c] \in FixedKeys
      BY <2>1, <2>3 DEF ServeIncr, Serve
    <3> QED
      BY <2>1, <3>1, IncrCounts
  <2>4. CASE ServeExpire(c)
    <3>1. /\ Expire(key[c], local[c].now) /\ clock' = clock /\ key[c] \in FixedKeys
          /\ pc[c] = "sent" /\ local[c].op # "TIME"
      BY <2>1, <2>4 DEF ServeExpire, Serve
    <3>2. granted' = granted
      BY <3>1 DEF Expire
    <3>3. key[c] \in ServerTimed => local[c].now <= clock
      BY <3>1 DEF TimesPast, ServerWindows, TimeTold
    <3> QED
      BY <2>1, <3>1, <3>2, <3>3, ExpireLasts
  <2>5. CASE ServeEval(c)
    <3>1. /\ Eval(CallId(c), ProcessOf[c], key[c], local[c].stamp) /\ clock' = clock
          /\ key[c] \in Keys \ FixedKeys
      BY <2>1, <2>5 DEF ServeEval, Serve
    <3> QED
      BY <2>1, <3>1, ScriptsApart, WindowsPass
  <2> QED
    BY <1>1, <2>2, <2>3, <2>4, <2>5 DEF Served
<1>2. ASSUME NEW c \in Callers, Proceed(c) \/ Fault(c)
      PROVE  CountersLast' /\ CountedOnTime'
  <2>1. counters' = counters /\ granted' = granted
    BY <1>2, CallerStep DEF Proceed, serverVars
  <2>2. clock' = clock
    BY <1>2, Zenon DEF Proceed, Begin, ReceiveAndGoOn, Return, ResortToMemory, FailOpen,
                       FailClosed, Answer, End, Fault, Resend, Fail, Cancel
  <2> QED
    BY <2>1, <2>2, WindowsPass
<1>3. CASE ServeLate
  <2>1. PICK m \in adrift :
            /\ \/ m.op = "EVAL" /\ Eval(m.id, m.process, m.key, m.now)
               \/ m.op = "INCR" /\ Incr(m.key, m.now)
               \/ m.op = "EXPIRE" /\ Expire(m.key, m.now)
            /\ clock' = clock
    BY <1>3, Zenon DEF ServeLate
  <2>2. /\ m.key \in Keys /\ m.now \in Times /\ m.id \in RequestIds
        /\ IF m.op = "EVAL" THEN m.key \in Keys \ FixedKeys ELSE m.key \in FixedKeys
    BY CommandsTyped
  <2>3. CASE m.op = "EVAL" /\ Eval(m.id, m.process, m.key, m.now)
    BY <2>1, <2>2, <2>3, ScriptsApart, WindowsPass
  <2>4. CASE m.op = "INCR" /\ Incr(m.key, m.now)
    BY <2>1, <2>2, <2>4, IncrCounts
  <2>5. CASE m.op = "EXPIRE" /\ Expire(m.key, m.now)
    <3>1. granted' = granted
      BY <2>5 DEF Expire
    <3>2. m.key \in ServerTimed => m.now <= clock
      BY <2>2, <2>5 DEF TimesPast, ServerWindows
    <3> QED
      BY <2>1, <2>2, <2>5, <3>1, <3>2, ExpireLasts
  <2> QED
    BY <2>1, <2>3, <2>4, <2>5
<1>4. CASE Tick \/ UNCHANGED vars
  <2>1. counters' = counters /\ granted' = granted /\ (clock' = clock \/ clock' = clock + 1)
    BY <1>4 DEF Tick, vars, serverVars, historyVars
  <2> QED
    BY <2>1, WindowsPass
<1> QED
  BY <1>1, <1>2, <1>3, <1>4 DEF Next, Finished

LEMMA WindowsInit ==
    ASSUME Init, Typed
    PROVE  TimesPast /\ CountersLast /\ CountedOnTime
<1>1. TimesPast
  BY DEF Init, TimesPast, TimeTold
<1>2. ASSUME NEW k \in ServerWindows, NEW w \in Starts(k)
      PROVE  counters[k][w].expires = Never /\ CountedAt(k, w)
  <2>1. k \in FixedKeys /\ k \in Keys /\ RuleOf[k].limit \in Positive
    BY WindowNumbers
  <2>2. counters[k][w] = Zero
    BY <2>1 DEF Init
  <2>3. granted[k] = <<>>
    BY <2>1 DEF Init
  <2>4. OnTime(k, w) = {}
    BY <2>3 DEF OnTime
  <2>5. Cardinality(OnTime(k, w)) = 0
    BY <2>4, FS_EmptySet
  <2> QED
    BY <2>1, <2>2, <2>5 DEF Zero, CountedAt, Positive
<1> QED
  BY <1>1, <1>2 DEF CountersLast, CountedOnTime

\* FixedOnTime: under the server's clock a window admits no more than its limit by
\* the time it is over.
THEOREM FixedOnTimeHolds == Spec => []FixedOnTime
<1>1. Init /\ Typed => TimesPast /\ CountersLast /\ CountedOnTime
  BY WindowsInit
<1>2. Typed /\ TimesPast /\ CountersLast /\ CountedOnTime /\ [Next]_vars
        => TimesPast' /\ CountersLast' /\ CountedOnTime'
  BY TimesKept, WindowsKept
<1>3. CountedOnTime => FixedOnTime
  BY DEF CountedOnTime, CountedAt, FixedOnTime, ServerWindows, OnTime
<1> QED
  BY <1>1, <1>2, <1>3, TypesHold, PTL DEF Spec

-----------------------------------------------------------------------------
(***************************************************************************)
(* SkewEnvelope.  Each script keeps a record of the requests it admitted   *)
(* from which the spacing of any of them follows, whatever the clocks that *)
(* their stamps were read from, and whether the key has expired since.     *)
(***************************************************************************)

\* The stamps were off the server's clock by the drift at most.
Within(g, drift) ==
    \A i \in 1 .. Len(g) : g[i].stamp <= g[i].at + drift /\ g[i].at <= g[i].stamp + drift

\* When the server admitted the last of them.
LastAt(g) == IF Len(g) = 0 THEN 0 ELSE g[Len(g)].at

AdmittedInOrder(g, time) ==
    /\ LastAt(g) <= time
    /\ \A i, j \in 1 .. Len(g) : i <= j => g[i].at <= g[j].at

LEMMA GrantNumbers ==
    ASSUME NEW grant \in Grants
    PROVE  grant.stamp \in Nat /\ grant.at \in Nat
<1>1. MaxTime \in Nat /\ Skew \in [Processes -> Nat]
  BY RedisAssumption
<1>2. Times \in SUBSET Nat
  BY <1>1 DEF Times
<1>3. grant.stamp \in Times /\ grant.at \in 0 .. MaxTime
  BY DEF Grants
<1>4. grant.stamp \in Nat
  BY <1>2, <1>3
<1>5. grant.at \in Nat
  BY <1>1, <1>3
<1> QED
  BY <1>4, <1>5

LEMMA GrantsRead ==
    ASSUME NEW g \in Seq(Grants)
    PROVE  /\ Len(g) \in Nat /\ DOMAIN g = 1 .. Len(g) /\ LastAt(g) \in Nat
           /\ \A i \in 1 .. Len(g) : g[i] \in Grants /\ g[i].stamp \in Nat /\ g[i].at \in Nat
<1>1. /\ Len(g) \in Nat /\ DOMAIN g = 1 .. Len(g)
      /\ \A i \in 1 .. Len(g) : g[i] \in Grants
  BY LenProperties, ElementOfSeq
<1>2. \A i \in 1 .. Len(g) : g[i].stamp \in Nat /\ g[i].at \in Nat
  BY <1>1, GrantNumbers
<1>3. CASE Len(g) = 0
  BY <1>1, <1>2, <1>3 DEF LastAt
<1>4. CASE Len(g) # 0
  <2>1. Len(g) \in 1 .. Len(g)
    BY <1>1, <1>4
  <2> QED
    BY <1>1, <1>2, <1>4, <2>1 DEF LastAt
<1> QED
  BY <1>1, <1>2, <1>3, <1>4

LEMMA GrantsMore ==
    ASSUME NEW g \in Seq(Grants), NEW grant \in Grants
    PROVE  /\ Append(g, grant) \in Seq(Grants)
           /\ Len(Append(g, grant)) = Len(g) + 1
           /\ \A i \in 1 .. Len(g) : Append(g, grant)[i] = g[i]
           /\ Append(g, grant)[Len(g) + 1] = grant
           /\ LastAt(Append(g, grant)) = grant.at
<1>1. PICK n \in Nat : n = Len(g)
  BY LenProperties
<1>2. PICK more : more = Append(g, grant)
  OBVIOUS
<1>3. /\ more \in Seq(Grants) /\ Len(more) = n + 1
      /\ \A i \in 1 .. n : more[i] = g[i]
      /\ more[n + 1] = grant
  BY <1>1, <1>2, AppendProperties
<1>4. LastAt(more) = grant.at
  BY <1>1, <1>3 DEF LastAt
<1> QED
  BY <1>1, <1>2, <1>3, <1>4

LEMMA OrderKept ==
    ASSUME NEW g \in Seq(Grants), NEW time \in 0 .. MaxTime, AdmittedInOrder(g, time),
           NEW grant \in Grants, grant.at = time
    PROVE  /\ AdmittedInOrder(Append(g, grant), time)
           /\ \A i \in 1 .. Len(g) : g[i].at <= LastAt(g)
<1>1. PICK n \in Nat : n = Len(g)
  BY LenProperties
<1>2. PICK more \in Seq(Grants) :
            /\ more = Append(g, grant) /\ Len(more) = n + 1
            /\ \A i \in 1 .. n : more[i] = g[i]
            /\ more[n + 1] = grant
            /\ LastAt(more) = time
  BY <1>1, GrantsMore
<1>3. \A i \in 1 .. n : g[i].at \in Nat /\ g[i].at <= LastAt(g) /\ g[i].at <= time
  <2> SUFFICES ASSUME NEW i \in 1 .. n
               PROVE  g[i].at \in Nat /\ g[i].at <= LastAt(g) /\ g[i].at <= time
    OBVIOUS
  <2>1. n \in 1 .. n /\ i <= n /\ n # 0
    BY <1>1
  <2>2. g[i].at <= g[n].at /\ LastAt(g) = g[n].at /\ LastAt(g) <= time
    BY <1>1, <2>1 DEF AdmittedInOrder, LastAt
  <2>3. g[i].at \in Nat /\ g[n].at \in Nat
    BY <1>1, <2>1, GrantsRead
  <2> QED
    BY <2>2, <2>3
<1>4. \A i, j \in 1 .. n + 1 : i <= j => more[i].at <= more[j].at
  <2> SUFFICES ASSUME NEW i \in 1 .. n + 1, NEW j \in 1 .. n + 1, i <= j
               PROVE  more[i].at <= more[j].at
    OBVIOUS
  <2>1. CASE j \in 1 .. n
    <3>1. i \in 1 .. n
      BY <2>1
    <3> QED
      BY <1>1, <1>2, <2>1, <3>1 DEF AdmittedInOrder
  <2>2. CASE j = n + 1 /\ i \in 1 .. n
    BY <1>2, <1>3, <2>2
  <2>3. CASE j = n + 1 /\ i = n + 1
    BY <1>2, <2>3
  <2> QED
    BY <2>1, <2>2, <2>3
<1> QED
  BY <1>1, <1>2, <1>3, <1>4 DEF AdmittedInOrder

-----------------------------------------------------------------------------
\* A request has left the window by the latest stamp, or the key has expired between
\* its admission and the last one.
Departed(grant, latest, last, window) ==
    grant.stamp + window <= latest \/ grant.at + window < last

\* A position of the sorted set holds at most one request of the history; every
\* request is held, or has departed.
Covers(held, members, g, latest, last, window) ==
    \A i \in 1 .. Len(g) :
        \/ Departed(g[i], latest, last, window)
        \/ \E p \in 1 .. Len(members) : held[p] = i /\ members[p][1] = g[i].stamp

Covered(members, g, latest, last, window) ==
    \E held \in [1 .. Len(members) -> Nat] : Covers(held, members, g, latest, last, window)

SlidingRecord(entry, expires, g, latest, limit, window) ==
    /\ Len(entry) <= limit
    /\ \A i \in 1 .. Len(g) : g[i].at + window <= expires
    /\ Covered(entry, g, latest, LastAt(g), window)

LEMMA PruningCovers ==
    ASSUME NEW members \in Seq(Members), NEW g \in Seq(Grants), NEW latest \in Nat,
           NEW last \in Nat, NEW window \in Nat, NEW now \in Nat,
           Covered(members, g, latest, last, window),
           NEW kept, kept = Unexpired(members, now - window)
    PROVE  /\ kept \in Seq(Members) /\ Len(kept) <= Len(members)
           /\ Covered(kept, g, Later(latest, now), last, window)
<1>1. PICK n \in Nat, m \in Nat : n = Len(g) /\ m = Len(members)
  BY LenProperties
<1>0. now - window \in Int
  OBVIOUS
<1>2. kept \in Seq(Members)
  BY <1>0, UnexpiredIsSuffix
<1>3. PICK d \in 0 .. m :
          /\ \A p \in 1 .. d : ~(members[p][1] > now - window)
          /\ Len(kept) = m - d
          /\ \A p \in 1 .. m - d : kept[p] = members[p + d]
  <2>1. CutBefore(kept, members, {i \in 1 .. Len(members) : members[i][1] > now - window})
    BY <1>0, UnexpiredIsSuffix
  <2>2. PICK d \in 0 .. m :
          /\ \A p \in 1 .. d : p \notin {i \in 1 .. m : members[i][1] > now - window}
          /\ Len(kept) = m - d
          /\ \A p \in 1 .. m - d : kept[p] = members[p + d]
    BY <1>1, <2>1 DEF CutBefore
  <2>3. \A p \in 1 .. d : p \in 1 .. m
    BY <1>1
  <2> QED
    BY <2>2, <2>3
<1>4. PICK held \in [1 .. m -> Nat] : Covers(held, members, g, latest, last, window)
  BY <1>1 DEF Covered
<1>5. PICK newest \in Nat : newest = Later(latest, now) /\ newest >= latest /\ newest >= now
  BY DEF Later
<1>6. PICK moved : moved = [p \in 1 .. m - d |-> held[p + d]]
  OBVIOUS
<1>7. moved \in [1 .. Len(kept) -> Nat] /\ \A p \in 1 .. m - d : moved[p] = held[p + d]
  <2>1. \A p \in 1 .. m - d : p + d \in 1 .. m
    BY <1>1
  <2> QED
    BY <1>3, <1>6, <2>1
<1>8. ASSUME NEW i \in 1 .. n
      PROVE  \/ Departed(g[i], newest, last, window)
             \/ \E p \in 1 .. m - d : moved[p] = i /\ kept[p][1] = g[i].stamp
  <2>1. PICK stamp \in Nat, at \in Nat : stamp = g[i].stamp /\ at = g[i].at
    BY <1>1, GrantsRead
  <2>2. CASE Departed(g[i], latest, last, window)
    BY <1>5, <2>1, <2>2, SMTT(40) DEF Departed
  <2>3. CASE \E p \in 1 .. m : held[p] = i /\ members[p][1] = stamp
    <3>1. PICK p \in 1 .. m : held[p] = i /\ members[p][1] = stamp
      BY <2>3
    <3>2. CASE p <= d
      <4>1. ~(stamp > now - window)
        BY <1>1, <1>3, <3>1, <3>2
      <4>2. stamp + window <= newest
        BY <1>5, <2>1, <4>1, SMTT(40)
      <4> QED
        BY <2>1, <4>2 DEF Departed
    <3>3. CASE p > d
      <4>1. PICK r \in 1 .. m - d : p = r + d
        <5>1. p - d \in 1 .. m - d /\ p = (p - d) + d
          BY <1>1, <3>3
        <5> QED
          BY <5>1
      <4>2. moved[r] = i /\ kept[r] = members[p]
        BY <1>3, <1>7, <3>1, <4>1
      <4> QED
        BY <2>1, <3>1, <4>2
    <3> QED
      BY <1>1, <3>2, <3>3
  <2> QED
    BY <1>1, <1>4, <2>1, <2>2, <2>3 DEF Covers
<1>9. Covers(moved, kept, g, newest, last, window)
  BY <1>1, <1>3, <1>8 DEF Covers
<1> QED
  BY <1>1, <1>2, <1>3, <1>5, <1>7, <1>9 DEF Covered

NewTo(member, members) == \A p \in 1 .. Len(members) : members[p] # member

LEMMA AdmissionCovers ==
    ASSUME NEW members \in Seq(Members), NEW g \in Seq(Grants), NEW latest \in Nat,
           NEW last \in Nat, NEW window \in Nat,
           Covered(members, g, latest, last, window),
           NEW member \in Members, NEW grant \in Grants, member[1] = grant.stamp,
           NewTo(member, members),
           NEW result \in Seq(Members), Placed(result, members, member)
    PROVE  /\ Len(result) = Len(members) + 1
           /\ Covered(result, Append(g, grant), latest, last, window)
<1>1. PICK n \in Nat, m \in Nat : n = Len(g) /\ m = Len(members)
  BY LenProperties
<1>2. PICK place \in 1 .. m + 1 :
            /\ Len(result) = m + 1
            /\ result[place] = member
            /\ \A p \in 1 .. place - 1 : result[p] = members[p]
            /\ \A p \in place .. m : result[p + 1] = members[p]
  BY <1>1 DEF Placed, NewTo
<1>3. PICK held \in [1 .. m -> Nat] : Covers(held, members, g, latest, last, window)
  BY <1>1 DEF Covered
<1>4. PICK more : /\ more = Append(g, grant) /\ Len(more) = n + 1
                  /\ \A i \in 1 .. n : more[i] = g[i]
                  /\ more[n + 1] = grant
  <2>1. PICK more : more = Append(g, grant)
    OBVIOUS
  <2>2. /\ Len(more) = Len(g) + 1
        /\ \A i \in 1 .. Len(g) : more[i] = g[i]
        /\ more[Len(g) + 1] = grant
    BY <2>1, AppendProperties
  <2> QED
    BY <1>1, <2>1, <2>2
<1>5. PICK moved : moved = [p \in 1 .. m + 1 |-> IF p < place THEN held[p]
                                                 ELSE IF p = place THEN n + 1 ELSE held[p - 1]]
  OBVIOUS
<1>6. /\ place \in Int /\ 1 <= place /\ place <= m + 1 /\ place \in 1 .. m + 1
  BY <1>1
<1>7. /\ moved \in [1 .. m + 1 -> Nat]
      /\ moved[place] = n + 1
      /\ \A p \in 1 .. m : IF p < place THEN moved[p] = held[p] ELSE moved[p + 1] = held[p]
  <2>1. \A p \in 1 .. m + 1 : /\ p < place => p \in 1 .. m
                              /\ p > place => p - 1 \in 1 .. m
    BY <1>1, <1>6
  <2>2. moved \in [1 .. m + 1 -> Nat]
    BY <1>1, <1>5, <1>6, <2>1
  <2>3. moved[place] = n + 1
    BY <1>5, <1>6
  <2>4. ASSUME NEW p \in 1 .. m
        PROVE  IF p < place THEN moved[p] = held[p] ELSE moved[p + 1] = held[p]
    <3>1. p \in 1 .. m + 1 /\ p + 1 \in 1 .. m + 1 /\ (p + 1) - 1 = p
      BY <1>1
    <3>2. CASE p < place
      BY <1>5, <3>1, <3>2
    <3>3. CASE ~(p < place)
      <4>1. ~(p + 1 < place) /\ p + 1 # place
        BY <1>6, <3>3
      <4>2. moved[p + 1] = held[(p + 1) - 1]
        BY <1>5, <3>1, <4>1
      <4> QED
        BY <3>1, <3>3, <4>2
    <3> QED
      BY <3>2, <3>3
  <2> QED
    BY <2>2, <2>3, <2>4
<1>8. ASSUME NEW i \in 1 .. n + 1
      PROVE  \/ Departed(more[i], latest, last, window)
             \/ \E p \in 1 .. m + 1 : moved[p] = i /\ result[p][1] = more[i].stamp
  <2>1. CASE i = n + 1
    BY <1>2, <1>4, <1>6, <1>7, <2>1
  <2>2. CASE i \in 1 .. n /\ Departed(g[i], latest, last, window)
    BY <1>4, <2>2
  <2>3. CASE i \in 1 .. n /\ \E p \in 1 .. m : held[p] = i /\ members[p][1] = g[i].stamp
    <3>1. PICK p \in 1 .. m : held[p] = i /\ members[p][1] = g[i].stamp
      BY <2>3
    <3>2. CASE p < place
      <4>1. p \in 1 .. place - 1 /\ p \in 1 .. m + 1
        BY <1>1, <1>6, <3>2
      <4>2. result[p] = members[p] /\ moved[p] = held[p]
        BY <1>2, <1>7, <3>2, <4>1
      <4> QED
        BY <1>4, <2>3, <3>1, <4>1, <4>2
    <3>3. CASE ~(p < place)
      <4>1. p \in place .. m /\ p + 1 \in 1 .. m + 1
        BY <1>1, <1>6, <3>3
      <4>2. result[p + 1] = members[p] /\ moved[p + 1] = held[p]
        BY <1>2, <1>7, <3>3, <4>1
      <4> QED
        BY <1>4, <2>3, <3>1, <4>1, <4>2
    <3> QED
      BY <3>2, <3>3
  <2>4. i = n + 1 \/ i \in 1 .. n
    BY <1>1
  <2> QED
    BY <1>1, <1>3, <2>1, <2>2, <2>3, <2>4 DEF Covers
<1>9. Covers(moved, result, more, latest, last, window)
  BY <1>2, <1>4, <1>8 DEF Covers
<1> QED
  BY <1>1, <1>2, <1>4, <1>7, <1>9 DEF Covered

\* What the server looks up at the time.
Lasting(entry, expires, time) == IF expires # Never /\ time > expires THEN <<>> ELSE entry

\* The expiry after the script.
Prolonged(expires, script, time) == IF script.outcome.allowed THEN time + script.ttl ELSE expires

\* The request was admitted by an earlier execution of its command.
Remembered(members, stamp, id) == \E i \in DOMAIN members : members[i] = <<stamp, id>>

\* The history after the script: a remembered request is in it already.
SlidingHistory(g, grant, outcome, members, id) ==
    IF outcome.allowed /\ ~Remembered(members, grant.stamp, id) THEN Append(g, grant) ELSE g

\* The script keeps its record.
LEMMA SlidingRecordKept ==
    ASSUME NEW entry \in Seq(Members), NEW expires \in Int, NEW g \in Seq(Grants),
           NEW latest \in Nat, NEW limit \in Positive, NEW window \in Positive,
           SlidingRecord(entry, expires, g, latest, limit, window),
           NEW time \in 0 .. MaxTime, AdmittedInOrder(g, time),
           NEW grant \in Grants, grant.at = time,
           NEW now, now = grant.stamp, NEW id \in RequestIds,
           NEW live, live = Lasting(entry, expires, time),
           NEW script, script = sliding_window_script(live, window, limit, now, id),
           NEW more, more = SlidingHistory(g, grant, script.outcome, live, id),
           NEW until, until = Prolonged(expires, script, time)
    PROVE  SlidingRecord(script.outcome.entry, until, more, Later(latest, now), limit, window)
<1>0. /\ live = IF expires # Never /\ time > expires THEN <<>> ELSE entry
      /\ more = IF script.outcome.allowed /\ ~Remembered(live, now, id) THEN Append(g, grant) ELSE g
      /\ until = IF script.outcome.allowed THEN time + script.ttl ELSE expires
  BY DEF Lasting, SlidingHistory, Prolonged
<1>1. PICK stamp \in Nat, n \in Nat, w \in Nat, l \in Nat :
          /\ stamp = now /\ n = Len(g) /\ w = window /\ l = limit /\ w >= 1 /\ l >= 1
  <2>1. grant.stamp \in Nat /\ Len(g) \in Nat
    BY GrantNumbers, LenProperties
  <2>2. window \in Nat /\ limit \in Nat /\ window >= 1 /\ limit >= 1
    BY DEF Positive
  <2> QED
    BY <2>1, <2>2
<1>2. time \in Nat /\ MaxTime \in Nat
  BY RedisAssumption
<1>3. PICK last \in Nat :
          /\ last = LastAt(g) /\ last <= time
          /\ \A i \in 1 .. n : g[i].at \in Nat /\ g[i].at <= last /\ g[i].stamp \in Nat
  <2>1. LastAt(g) \in Nat /\ \A i \in 1 .. n : g[i].at \in Nat /\ g[i].stamp \in Nat
    BY <1>1, GrantsRead
  <2>2. LastAt(g) <= time /\ \A i \in 1 .. n : g[i].at <= LastAt(g)
    BY <1>1, OrderKept DEF AdmittedInOrder
  <2> QED
    BY <2>1, <2>2
<1>4. /\ Len(entry) <= l /\ \A i \in 1 .. n : g[i].at + w <= expires
      /\ Covered(entry, g, latest, last, w)
  BY <1>1, <1>3 DEF SlidingRecord
<1>5. PICK member \in Members : member = <<now, id>> /\ member[1] = stamp
  <2>1. <<stamp, id>> \in Members /\ <<stamp, id>>[1] = stamp
    BY DEF Members
  <2> QED
    BY <1>1, <2>1, Zenon
<1>6. live \in Seq(Members) /\ DOMAIN live = 1 .. Len(live) /\ Len(live) \in Nat /\ Len(live) <= l
  <2>1. CASE expires # Never /\ time > expires
    <3>1. live = <<>>
      BY <1>0, <2>1
    <3>2. live \in Seq(Members) /\ Len(live) = 0
      BY <3>1, EmptySeq, Zenon
    <3> QED
      BY <1>1, <3>2, LenProperties
  <2>2. CASE ~(expires # Never /\ time > expires)
    BY <1>0, <1>4, <2>2, LenProperties
  <2> QED
    BY <2>1, <2>2
<1>7. PICK kept : kept = Unexpired(live, stamp - w)
  OBVIOUS
<1>8. stamp - w \in Int
  OBVIOUS
<1>9. /\ kept \in Seq(Members) /\ Len(kept) \in Nat /\ Len(kept) <= Len(live)
      /\ \A p \in 1 .. Len(kept) : \E i \in 1 .. Len(live) : kept[p] = live[i]
      /\ \A i \in 1 .. Len(live) : live[i][1] > stamp - w => \E p \in 1 .. Len(kept) : kept[p] = live[i]
  <2>1. /\ kept \in Seq(Members)
        /\ CutBefore(kept, live, {i \in 1 .. Len(live) : live[i][1] > stamp - w})
    BY <1>6, <1>7, <1>8, UnexpiredIsSuffix
  <2>2. PICK m \in Nat : m = Len(live)
    BY <1>6
  <2>3. PICK d \in 0 .. m :
          /\ \A p \in 1 .. d : p \notin {i \in 1 .. m : live[i][1] > stamp - w}
          /\ Len(kept) = m - d
          /\ \A p \in 1 .. m - d : kept[p] = live[p + d]
    BY <2>1, <2>2 DEF CutBefore
  <2>4. \A p \in 1 .. m - d : p + d \in 1 .. m
    OBVIOUS
  <2>5. ASSUME NEW i \in 1 .. m, live[i][1] > stamp - w
        PROVE  \E p \in 1 .. m - d : kept[p] = live[i]
    <3>1. ~(i \in 1 .. d)
      BY <2>3, <2>5
    <3>2. i - d \in 1 .. m - d /\ (i - d) + d = i
      BY <3>1
    <3>3. kept[i - d] = live[(i - d) + d]
      BY <2>3, <3>2
    <3> QED
      BY <3>2, <3>3
  <2>6. m - d \in Nat /\ m - d <= m
    OBVIOUS
  <2> QED
    BY <2>1, <2>2, <2>3, <2>4, <2>5, <2>6
<1>10. PICK newest \in Nat : newest = Later(latest, now)
  BY <1>1 DEF Later
<1>11. script = Expiring(IF Len(kept) < l
                         THEN Admit(l - Len(kept) - 1, stamp + w, WithMember(kept, member))
                         ELSE Deny(kept[1][1] + w, kept),
                         w)
  BY <1>1, <1>5, <1>7 DEF sliding_window_script
<1>12. /\ script.ttl = w
       /\ Len(kept) < l => script.outcome.allowed = TRUE /\ script.outcome.entry = WithMember(kept, member)
       /\ ~(Len(kept) < l) => script.outcome.allowed = FALSE /\ script.outcome.entry = kept
  BY <1>11 DEF Expiring, Admit, Deny
<1>13. until \in Int /\ \A i \in 1 .. n : g[i].at + w <= until
  <2>1. CASE until = expires
    BY <1>4, <2>1
  <2>2. CASE until = time + w
    <3> SUFFICES ASSUME NEW i \in 1 .. n
                 PROVE  time + w \in Int /\ g[i].at + w <= time + w
      BY <1>2, <2>2
    <3>1. PICK at \in Nat : at = g[i].at /\ at <= last
      BY <1>3
    <3>2. at + w <= time + w
      BY <1>1, <1>2, <1>3, <3>1
    <3> QED
      BY <1>1, <1>2, <3>1, <3>2
  <2> QED
    BY <1>0, <1>1, <1>12, <2>1, <2>2
<1>14. CASE script.outcome.allowed /\ ~Remembered(live, now, id)
  <2>1. Len(kept) < l /\ script.outcome.entry = WithMember(kept, member) /\ more = Append(g, grant)
        /\ until = time + w
    BY <1>0, <1>12, <1>14
  <2>2. NewTo(member, kept)
    <3>1. \A i \in 1 .. Len(live) : live[i] # member
      BY <1>5, <1>6, <1>14 DEF Remembered
    <3> SUFFICES ASSUME NEW p \in 1 .. Len(kept)
                 PROVE  kept[p] # member
      BY DEF NewTo
    <3>2. PICK i \in 1 .. Len(live) : kept[p] = live[i]
      BY <1>9
    <3> QED
      BY <3>1, <3>2
  <2>3. PICK result \in Seq(Members) :
            result = WithMember(kept, member) /\ Placed(result, kept, member)
    BY <1>9, MemberPlaced
  <2>4. Covered(live, g, latest, time, w)
    <3>1. CASE expires # Never /\ time > expires
      <4>1. live = <<>> /\ Len(live) = 0
        BY <1>0, <3>1, EmptySeq, Zenon
      <4>2. PICK held : held = [p \in 1 .. Len(live) |-> 0]
        OBVIOUS
      <4>3. \A i \in 1 .. n : Departed(g[i], latest, time, w)
        <5> SUFFICES ASSUME NEW i \in 1 .. n
                     PROVE  g[i].at + w < time
          BY DEF Departed
        <5>1. PICK at \in Nat : at = g[i].at /\ at + w <= expires
          BY <1>3, <1>4
        <5>2. at + w < time
          BY <1>1, <1>2, <3>1, <5>1
        <5> QED
          BY <5>1, <5>2
      <4>4. held \in [1 .. Len(live) -> Nat] /\ Covers(held, live, g, latest, time, w)
        BY <1>1, <4>2, <4>3 DEF Covers
      <4> QED
        BY <4>4 DEF Covered
    <3>2. CASE ~(expires # Never /\ time > expires)
      <4>1. live = entry
        BY <1>0, <3>2
      <4>2. PICK held \in [1 .. Len(live) -> Nat] : Covers(held, live, g, latest, last, w)
        BY <1>4, <4>1 DEF Covered
      <4>3. \A i \in 1 .. n : Departed(g[i], latest, last, w) => Departed(g[i], latest, time, w)
        BY <1>1, <1>2, <1>3 DEF Departed
      <4>4. Covers(held, live, g, latest, time, w)
        BY <1>1, <4>2, <4>3 DEF Covers
      <4> QED
        BY <4>4 DEF Covered
    <3> QED
      BY <3>1, <3>2
  <2>5. Covered(kept, g, newest, time, w)
    BY <1>1, <1>2, <1>6, <1>7, <1>10, <2>4, PruningCovers
  <2>6. Len(result) = Len(kept) + 1 /\ Covered(result, Append(g, grant), newest, time, w)
    <3>1. member[1] = grant.stamp /\ time \in Nat /\ newest \in Nat
      BY <1>1, <1>2, <1>5
    <3>2. member \in Members /\ kept \in Seq(Members) /\ result \in Seq(Members) /\ w \in Nat
      BY <1>1, <1>5, <1>9, <2>3
    <3>3. Placed(result, kept, member)
      BY <2>3
    <3> QED
      BY <2>2, <2>5, <3>1, <3>2, <3>3, AdmissionCovers
  <2>7. PICK after \in Seq(Grants) :
            /\ after = more /\ Len(after) = n + 1 /\ LastAt(after) = time
            /\ \A i \in 1 .. n : after[i] = g[i]
            /\ after[n + 1] = grant
    <3>1. PICK after : after = Append(g, grant)
      OBVIOUS
    <3>2. /\ after \in Seq(Grants) /\ Len(after) = Len(g) + 1
          /\ \A i \in 1 .. Len(g) : after[i] = g[i]
          /\ after[Len(g) + 1] = grant
      BY <3>1, AppendProperties
    <3>3. LastAt(after) = time
      BY <3>1, GrantsMore
    <3> QED
      BY <1>1, <2>1, <3>1, <3>2, <3>3
  <2>8. \A i \in 1 .. n + 1 : after[i].at + w <= until
    <3> SUFFICES ASSUME NEW i \in 1 .. n + 1
                 PROVE  after[i].at + w <= until
      OBVIOUS
    <3>1. CASE i \in 1 .. n
      BY <1>13, <2>7, <3>1
    <3>2. CASE i = n + 1
      BY <1>2, <2>1, <2>7, <3>2
    <3> QED
      BY <3>1, <3>2
  <2>9. Len(result) <= l
    BY <1>9, <2>1, <2>6
  <2>10. SlidingRecord(result, until, after, newest, l, w)
    BY <2>1, <2>6, <2>7, <2>8, <2>9 DEF SlidingRecord
  <2> QED
    BY <1>1, <1>10, <2>1, <2>3, <2>7, <2>10
<1>15. CASE ~(script.outcome.allowed /\ ~Remembered(live, now, id))
  <2>1. more = g
    BY <1>0, <1>15
  <2>2. ~(expires # Never /\ time > expires) /\ live = entry
    <3> SUFFICES ASSUME expires # Never /\ time > expires PROVE FALSE
      BY <1>0
    <3>1. live = <<>> /\ Len(live) = 0
      BY <1>0, EmptySeq, Zenon
    <3>2. Len(kept) < l /\ DOMAIN live = {}
      BY <1>1, <1>6, <1>9, <3>1
    <3> QED
      BY <1>12, <1>15, <3>2 DEF Remembered
  <2>3. Covered(kept, g, newest, last, w)
    BY <1>1, <1>4, <1>6, <1>7, <1>10, <2>2, PruningCovers
  <2>4. script.outcome.entry = kept
    <3>1. CASE script.outcome.allowed
      <4>1. PICK i \in 1 .. Len(live) : live[i] = member
        BY <1>5, <1>6, <1>15, <3>1 DEF Remembered
      <4>2. live[i][1] > stamp - w
        BY <1>1, <1>5, <4>1
      <4>3. \E p \in DOMAIN kept : kept[p] = member
        <5>1. PICK p \in 1 .. Len(kept) : kept[p] = live[i]
          BY <1>9, <4>1, <4>2
        <5> QED
          BY <1>9, <4>1, <5>1, LenProperties
      <4>4. WithMember(kept, member) = kept
        BY <4>3 DEF WithMember
      <4> QED
        BY <1>12, <3>1, <4>4
    <3>2. CASE ~script.outcome.allowed
      BY <1>12, <3>2
    <3> QED
      BY <3>1, <3>2
  <2>5. Len(kept) <= l
    BY <1>6, <1>9
  <2>6. SlidingRecord(kept, until, g, newest, l, w)
    BY <1>1, <1>3, <1>13, <2>3, <2>5 DEF SlidingRecord
  <2> QED
    BY <1>1, <1>10, <2>1, <2>4, <2>6
<1> QED
  BY <1>14, <1>15

LEMMA SpacedNumbers ==
    ASSUME NEW si \in Nat, NEW ai \in Nat, NEW sj \in Nat, NEW aj \in Nat, NEW an \in Nat,
           NEW drift \in Nat, si <= ai + drift, aj <= sj + drift, ai <= aj, aj <= an,
           NEW latest \in Nat, NEW newest \in Nat, newest >= latest, newest >= an,
           NEW width \in Nat, sj + width <= latest \/ aj + width < an
    PROVE  newest - si >= width - 2 * drift
OBVIOUS

\* More requests than the limit are not all in the sorted set.
LEMMA SlidingSpaced ==
    ASSUME NEW entry \in Seq(Members), NEW expires \in Int, NEW g \in Seq(Grants),
           NEW latest \in Nat, NEW limit \in Positive, NEW window \in Positive,
           SlidingRecord(entry, expires, g, latest, limit, window),
           NEW time \in Nat, AdmittedInOrder(g, time),
           NEW drift \in Nat, Within(g, drift),
           NEW i \in 1 .. Len(g), Len(g) - i + 1 > limit
    PROVE  Later(latest, g[Len(g)].at) - g[i].stamp >= window - 2 * drift
<1>1. PICK n \in Nat, m \in Nat, w \in Nat, l \in Nat :
          n = Len(g) /\ m = Len(entry) /\ w = window /\ l = limit /\ m <= l
  BY LenProperties DEF SlidingRecord, Positive
<1>2. n \in 1 .. n /\ LastAt(g) = g[n].at
  BY <1>1 DEF LastAt
<1>3. PICK held \in [1 .. m -> Nat] : Covers(held, entry, g, latest, g[n].at, w)
  BY <1>1, <1>2 DEF SlidingRecord, Covered
<1>4. PICK j \in i .. n : Departed(g[j], latest, g[n].at, w)
  <2> SUFFICES ASSUME \A j \in i .. n : ~Departed(g[j], latest, g[n].at, w)
               PROVE  FALSE
    OBVIOUS
  <2>1. \A j \in i .. n : \E p \in 1 .. m : held[p] = j
    BY <1>1, <1>3 DEF Covers
  <2>2. PICK image : image = {held[p] : p \in 1 .. m}
    OBVIOUS
  <2>3. IsFiniteSet(1 .. m) /\ Cardinality(1 .. m) = m
    BY FS_Interval
  <2>4. IsFiniteSet(image) /\ Cardinality(image) <= m
    <3>1. held \in Surjection(1 .. m, image)
      BY <2>2 DEF Surjection
    <3> QED
      BY <2>3, <3>1, FS_Surjection
  <2>5. i .. n \in SUBSET image
    BY <2>1, <2>2
  <2>6. Cardinality(i .. n) <= Cardinality(image) /\ Cardinality(image) \in Nat
    BY <2>4, <2>5, FS_Subset, FS_CardinalityType
  <2>7. Cardinality(i .. n) = n - i + 1
    BY <1>1, FS_Interval
  <2> QED
    BY <1>1, <2>4, <2>6, <2>7
<1>5. PICK si \in Nat, ai \in Nat, sj \in Nat, aj \in Nat, an \in Nat :
          /\ si = g[i].stamp /\ ai = g[i].at /\ sj = g[j].stamp /\ aj = g[j].at /\ an = g[n].at
          /\ si <= ai + drift /\ aj <= sj + drift /\ ai <= aj /\ aj <= an
  <2>1. i \in 1 .. n /\ j \in 1 .. n /\ i <= j /\ j <= n
    BY <1>1
  <2>2. /\ g[i].stamp \in Nat /\ g[i].at \in Nat /\ g[j].stamp \in Nat /\ g[j].at \in Nat
        /\ g[n].at \in Nat
    BY <1>1, <1>2, <2>1, GrantsRead
  <2>3. g[i].at <= g[j].at /\ g[j].at <= g[n].at
    BY <1>1, <1>2, <2>1 DEF AdmittedInOrder
  <2>4. g[i].stamp <= g[i].at + drift /\ g[j].at <= g[j].stamp + drift
    BY <1>1, <2>1 DEF Within
  <2> QED
    BY <2>2, <2>3, <2>4
<1>6. PICK newest \in Nat : newest = Later(latest, an) /\ newest >= latest /\ newest >= an
  BY DEF Later
<1>7. sj + w <= latest \/ aj + w < an
  BY <1>4, <1>5 DEF Departed
<1>8. newest - si >= w - 2 * drift
  BY <1>1, <1>5, <1>6, <1>7, SpacedNumbers, ZenonT(30)
<1> QED
  BY <1>1, <1>5, <1>6, <1>8

-----------------------------------------------------------------------------
\* A request and the count of those admitted since, itself included: both the
\* theoretical arrival time and the expiry of the key are past it by an interval
\* for each, but for the drift of each, and so is the burst.
GcraSpread(tat, expires, newest, count, stamp, capacity, interval, drift) ==
    /\ stamp + count * interval <= tat + count * drift
    /\ stamp + count * interval <= expires + count * drift
    /\ count * interval <= (newest - stamp) + capacity * interval + (count - 1) * drift

GcraRecord(entry, expires, g, latest, capacity, interval, drift) ==
    \A i \in 1 .. Len(g) :
        /\ entry # <<>>
        /\ GcraSpread(entry[1], expires, Later(latest, LastAt(g)), Len(g) - i + 1, g[i].stamp,
                      capacity, interval, drift)

\* Another request is admitted, by the theoretical arrival time or because the key
\* has expired.
LEMMA SpreadNext ==
    ASSUME NEW tat \in Int, NEW expires \in Int, NEW newest \in Nat, NEW count \in Nat,
           NEW stamp \in Nat, NEW capacity \in Positive, NEW interval \in Positive,
           NEW drift \in Nat,
           GcraSpread(tat, expires, newest, count, stamp, capacity, interval, drift),
           NEW now \in Nat, NEW time \in Nat, now <= time + drift, time <= now + drift,
           NEW from \in Int, from = tat \/ (from = now /\ time > expires),
           from <= now + (capacity * interval - interval),
           NEW due \in Int, due >= from + interval, due >= now + interval,
           NEW latest \in Nat, latest >= now, latest >= time
    PROVE  GcraSpread(due, time + (due - now), latest, count + 1, stamp, capacity, interval, drift)
<1> DEFINE a == count * interval
           b == count * drift
           c == capacity * interval
<1>1. a \in Int /\ b \in Int /\ c \in Int /\ interval \in Nat /\ c >= interval
  BY DEF Positive
<1>2. /\ (count + 1) * interval = a + interval
      /\ (count + 1) * drift = b + drift
      /\ ((count + 1) - 1) * drift = b
  BY DEF Positive
<1>3. stamp + a <= tat + b /\ stamp + a <= expires + b
  BY DEF GcraSpread
<1> HIDE DEF a, b, c
<1>4. /\ stamp + (a + interval) <= due + (b + drift)
      /\ stamp + (a + interval) <= (time + (due - now)) + (b + drift)
      /\ a + interval <= (latest - stamp) + c + b
  <2>1. from <= now + (c - interval)
    BY DEF c
  <2>2. CASE from = tat
    BY <1>1, <1>3, <2>1, <2>2
  <2>3. CASE from = now /\ time > expires
    BY <1>1, <1>3, <2>3
  <2> QED
    BY <2>2, <2>3
<1> QED
  BY <1>2, <1>4 DEF GcraSpread, c

LEMMA SpreadFirst ==
    ASSUME NEW capacity \in Positive, NEW interval \in Positive, NEW drift \in Nat,
           NEW now \in Nat, NEW time \in Nat, now <= time + drift,
           NEW due \in Int, due >= now + interval,
           NEW latest \in Nat, latest >= now
    PROVE  GcraSpread(due, time + (due - now), latest, 1, now, capacity, interval, drift)
<1> DEFINE c == capacity * interval
<1>1. c \in Int /\ interval \in Nat /\ c >= interval
  BY DEF Positive
<1>2. 1 * interval = interval /\ 1 * drift = drift /\ (1 - 1) * drift = 0
  BY <1>1
<1> HIDE DEF c
<1>3. /\ now + interval <= due + drift
      /\ now + interval <= (time + (due - now)) + drift
      /\ interval <= (latest - now) + c + 0
  BY <1>1
<1> QED
  BY <1>2, <1>3 DEF GcraSpread, c

LEMMA SpreadLater ==
    ASSUME NEW tat \in Int, NEW expires \in Int, NEW newest \in Nat, NEW count \in Nat,
           NEW stamp \in Nat, NEW capacity \in Positive, NEW interval \in Positive,
           NEW drift \in Nat,
           GcraSpread(tat, expires, newest, count, stamp, capacity, interval, drift),
           NEW latest \in Nat, latest >= newest
    PROVE  GcraSpread(tat, expires, latest, count, stamp, capacity, interval, drift)
<1> DEFINE a == count * interval
           b == (count - 1) * drift
           c == capacity * interval
<1>1. a \in Int /\ b \in Int /\ c \in Int
  BY DEF Positive
<1>2. a <= (newest - stamp) + c + b
  BY DEF GcraSpread
<1> HIDE DEF a, b, c
<1>3. a <= (latest - stamp) + c + b
  BY <1>1, <1>2
<1> QED
  BY <1>3 DEF GcraSpread, a, b, c

\* The script keeps its record.
LEMMA GcraRecordKept ==
    ASSUME NEW entry \in Entry, Len(entry) \in {0, 1}, NEW expires \in Int,
           NEW g \in Seq(Grants), NEW latest \in Nat,
           NEW capacity \in Positive, NEW interval \in Positive, NEW drift \in Nat,
           GcraRecord(entry, expires, g, latest, capacity, interval, drift),
           NEW time \in 0 .. MaxTime, AdmittedInOrder(g, time),
           NEW grant \in Grants, grant.at = time,
           NEW now, now = grant.stamp,
           NEW live, live = Lasting(entry, expires, time),
           NEW outcome, outcome = gcra(live, capacity, interval, now),
           NEW script, script = Expiring(outcome, outcome.reset_at - now),
           NEW more, more = History(g, grant, outcome),
           Within(more, drift),
           NEW until, until = Prolonged(expires, script, time)
    PROVE  GcraRecord(outcome.entry, until, more, Later(latest, now), capacity, interval, drift)
<1>0. /\ live = IF expires # Never /\ time > expires THEN <<>> ELSE entry
      /\ more = IF outcome.allowed THEN Append(g, grant) ELSE g
      /\ until = IF outcome.allowed THEN time + (outcome.reset_at - now) ELSE expires
  BY DEF Lasting, History, Prolonged, Expiring
<1>1. PICK stamp \in Nat, n \in Nat, t \in Nat, last \in Nat :
          /\ stamp = now /\ n = Len(g) /\ t = time /\ last = LastAt(g) /\ last <= t
  <2>1. grant.stamp \in Nat /\ Len(g) \in Nat /\ LastAt(g) \in Nat
    BY GrantNumbers, GrantsRead
  <2>2. time \in Nat /\ LastAt(g) <= time
    BY RedisAssumption DEF AdmittedInOrder
  <2> QED
    BY <2>1, <2>2
<1>2. PICK burst \in Nat : burst = BurstInterval(capacity, interval) /\ burst = capacity * interval - interval
  BY DEF BurstInterval, Positive
<1>3. PICK from \in Int, due \in Int :
          /\ from = IF live = <<>> THEN stamp ELSE live[1]
          /\ due = Later(from, stamp) + interval
          /\ due >= from + interval /\ due >= stamp + interval
  <2>1. live # <<>> => live[1] \in Int
    BY <1>0 DEF Entry
  <2>2. PICK from \in Int : from = IF live = <<>> THEN stamp ELSE live[1]
    BY <2>1
  <2>3. /\ Later(from, stamp) + interval \in Int
        /\ Later(from, stamp) >= from /\ Later(from, stamp) >= stamp
    BY DEF Later, Positive
  <2> QED
    BY <2>2, <2>3 DEF Later, Positive
<1>4. /\ from <= stamp + burst => /\ outcome.allowed = TRUE /\ outcome.entry = <<due>>
                                  /\ outcome.reset_at = due
      /\ ~(from <= stamp + burst) => outcome.allowed = FALSE /\ outcome.entry = live
  <2>1. PICK spare : outcome = IF from <= stamp + burst
                               THEN Admit(AtLeastZero(spare \div interval), due, <<due>>)
                               ELSE Deny(from - burst, live)
    BY <1>1, <1>2, <1>3 DEF gcra
  <2> QED
    BY <2>1 DEF Admit, Deny
<1>5. PICK newest \in Nat, latter \in Nat :
          /\ newest = Later(latest, last) /\ latter = Later(Later(latest, stamp), last)
          /\ latter >= newest
  BY DEF Later
<1>6. \A i \in 1 .. n : /\ entry # <<>> /\ entry[1] \in Int
                        /\ GcraSpread(entry[1], expires, newest, n - i + 1, g[i].stamp,
                                      capacity, interval, drift)
                        /\ g[i].stamp \in Nat /\ n - i + 1 \in Nat
  <2> SUFFICES ASSUME NEW i \in 1 .. n
               PROVE  /\ entry # <<>> /\ entry[1] \in Int
                      /\ GcraSpread(entry[1], expires, newest, n - i + 1, g[i].stamp,
                                    capacity, interval, drift)
                      /\ g[i].stamp \in Nat /\ n - i + 1 \in Nat
    OBVIOUS
  <2>1. /\ entry # <<>>
        /\ GcraSpread(entry[1], expires, newest, n - i + 1, g[i].stamp, capacity, interval, drift)
    BY <1>1, <1>5 DEF GcraRecord
  <2>2. entry[1] \in Int
    BY <2>1 DEF Entry
  <2>3. g[i].stamp \in Nat /\ n - i + 1 \in Nat
    BY <1>1, GrantsRead
  <2> QED
    BY <2>1, <2>2, <2>3
<1>7. CASE from <= stamp + burst
  <2>1. /\ more = Append(g, grant) /\ outcome.entry = <<due>>
        /\ until = t + (due - stamp)
    BY <1>0, <1>1, <1>4, <1>7
  <2>2. PICK after \in Seq(Grants) :
            /\ after = more /\ Len(after) = n + 1 /\ LastAt(after) = t
            /\ \A i \in 1 .. n : after[i] = g[i]
            /\ after[n + 1] = grant
    <3>1. PICK after : after = Append(g, grant)
      OBVIOUS
    <3>2. /\ after \in Seq(Grants) /\ Len(after) = Len(g) + 1
          /\ \A i \in 1 .. Len(g) : after[i] = g[i]
          /\ after[Len(g) + 1] = grant
      BY <3>1, AppendProperties
    <3>3. LastAt(after) = t
      BY <1>1, <3>1, GrantsMore
    <3> QED
      BY <1>1, <2>1, <3>1, <3>2, <3>3
  <2>3. stamp <= t + drift /\ t <= stamp + drift
    <3>1. n + 1 \in 1 .. Len(after)
      BY <2>2
    <3> QED
      BY <1>1, <2>2, <3>1, SMTT(40) DEF Within
  <2>4. PICK newer \in Nat : /\ newer = Later(Later(latest, stamp), t)
                             /\ newer >= stamp /\ newer >= t
    BY DEF Later
  <2>5. from <= stamp + (capacity * interval - interval)
    BY <1>2, <1>7
  <2>6. GcraSpread(due, t + (due - stamp), newer, 1, stamp, capacity, interval, drift)
    BY <1>3, <2>3, <2>4, SpreadFirst
  <2>7. ASSUME NEW i \in 1 .. n
        PROVE  GcraSpread(due, t + (due - stamp), newer, n - i + 1 + 1, g[i].stamp,
                          capacity, interval, drift)
    <3>1. PICK s \in Nat, count \in Nat, tat \in Int :
              /\ s = g[i].stamp /\ count = n - i + 1 /\ tat = entry[1] /\ entry # <<>>
              /\ GcraSpread(tat, expires, newest, count, s, capacity, interval, drift)
      BY <1>6
    <3>2. from = tat \/ (from = stamp /\ t > expires)
      BY <1>0, <1>1, <1>3, <3>1
    <3>3. GcraSpread(due, t + (due - stamp), newer, count + 1, s, capacity, interval, drift)
      <4>1. /\ tat \in Int /\ expires \in Int /\ newest \in Nat /\ count \in Nat /\ s \in Nat
            /\ stamp \in Nat /\ t \in Nat /\ from \in Int /\ due \in Int /\ newer \in Nat
        BY <1>1, <1>3, <1>5, <2>4, <3>1
      <4>2. due >= from + interval /\ due >= stamp + interval
        BY <1>3
      <4>3. GcraSpread(tat, expires, newest, count, s, capacity, interval, drift)
        BY <3>1
      <4> QED
        BY <2>3, <2>4, <2>5, <3>2, <4>1, <4>2, <4>3, SpreadNext, ZenonT(30)
    <3> QED
      BY <3>1, <3>3
  <2>8. ASSUME NEW i \in 1 .. n + 1
        PROVE  GcraSpread(due, until, newer, (n + 1) - i + 1, after[i].stamp,
                          capacity, interval, drift)
    <3>1. CASE i \in 1 .. n
      <4>1. (n + 1) - i + 1 = n - i + 1 + 1
        OBVIOUS
      <4> QED
        BY <2>1, <2>2, <2>7, <3>1, <4>1
    <3>2. CASE i = n + 1
      <4>1. (n + 1) - i + 1 = 1
        BY <3>2
      <4> QED
        BY <1>1, <2>1, <2>2, <2>6, <3>2, <4>1
    <3> QED
      BY <3>1, <3>2
  <2>9. <<due>> # <<>> /\ <<due>>[1] = due
    OBVIOUS
  <2>10. GcraRecord(<<due>>, until, after, Later(latest, stamp), capacity, interval, drift)
    BY <2>2, <2>4, <2>8, <2>9 DEF GcraRecord
  <2> QED
    BY <1>1, <2>1, <2>2, <2>10
<1>8. CASE ~(from <= stamp + burst)
  <2>1. outcome.allowed = FALSE /\ live # <<>>
    BY <1>1, <1>3, <1>4, <1>8
  <2>2. more = g /\ until = expires /\ outcome.entry = entry
    BY <1>0, <1>4, <1>8, <2>1
  <2>3. ASSUME NEW i \in 1 .. n
        PROVE  GcraSpread(entry[1], expires, latter, n - i + 1, g[i].stamp,
                          capacity, interval, drift)
    <3>1. PICK s \in Nat, count \in Nat, tat \in Int :
              /\ s = g[i].stamp /\ count = n - i + 1 /\ tat = entry[1]
              /\ GcraSpread(tat, expires, newest, count, s, capacity, interval, drift)
      BY <1>6
    <3>2. GcraSpread(tat, expires, latter, count, s, capacity, interval, drift)
      BY <1>5, <3>1, SpreadLater
    <3> QED
      BY <3>1, <3>2
  <2>4. GcraRecord(entry, expires, g, Later(latest, stamp), capacity, interval, drift)
    BY <1>1, <1>5, <1>6, <2>3 DEF GcraRecord
  <2> QED
    BY <1>1, <2>2, <2>4
<1> QED
  BY <1>7, <1>8

LEMMA GcraSpaced ==
    ASSUME NEW entry, NEW expires, NEW g \in Seq(Grants), NEW latest \in Nat,
           NEW capacity \in Positive, NEW interval \in Positive, NEW drift \in Nat,
           GcraRecord(entry, expires, g, latest, capacity, interval, drift),
           NEW i \in 1 .. Len(g)
    PROVE  (Len(g) - i + 1) * interval
               <= (Later(latest, g[Len(g)].at) - g[i].stamp) + capacity * interval
                      + ((Len(g) - i + 1) - 1) * drift
<1>1. LastAt(g) = g[Len(g)].at
  BY LenProperties DEF LastAt
<1> QED
  BY <1>1 DEF GcraRecord, GcraSpread

-----------------------------------------------------------------------------
\* Under the server's clock, the bucket has leaked out before its key expires.
LeakyRecord(entry, expires, stamps, latest, capacity, interval) ==
    /\ LeakyAccount(entry, stamps, latest, capacity, interval)
    /\ entry # <<>> => entry[2] + BucketTTL <= expires

LEMMA LeakyForgets ==
    ASSUME NEW capacity \in Positive, NEW interval \in Positive, NEW now \in Nat
    PROVE  /\ leaky_bucket(<<>>, capacity, interval, now)
                  = leaky_bucket(<<0, now>>, capacity, interval, now)
           /\ leaky_bucket(<<>>, capacity, interval, now).allowed = TRUE
<1> DEFINE leaked == Leaked(Elapsed(now, now), interval)
           queue  == AtLeastZero(0 - leaked)
<1>1. leaked \in Nat
  <2>1. Elapsed(now, now) = 0
    BY DEF Elapsed, AtLeastZero
  <2>2. 0 \div interval \in Nat
    BY DivIsInt
  <2> QED
    BY <2>1, <2>2 DEF Leaked
<1> HIDE DEF leaked
<1>2. queue = 0
  BY <1>1 DEF AtLeastZero
<1>3. <<0, now>> # <<>> /\ <<0, now>>[1] = 0 /\ <<0, now>>[2] = now
  OBVIOUS
<1> DEFINE admission == Admit(capacity - (queue + 1), now + interval, <<queue + 1, now + leaked * interval>>)
<1>4. queue < capacity
  BY <1>2 DEF Positive
<1> HIDE DEF queue
<1>5. leaky_bucket(<<>>, capacity, interval, now) = admission
  BY <1>3, <1>4 DEF leaky_bucket, leaked, queue
<1>6. leaky_bucket(<<0, now>>, capacity, interval, now) = admission
  BY <1>3, <1>4 DEF leaky_bucket, leaked, queue
<1>7. admission.allowed = TRUE
  BY DEF Admit
<1> QED
  BY <1>5, <1>6, <1>7

\* The script keeps its record.
LEMMA LeakyRecordKept ==
    ASSUME NEW capacity \in Positive, NEW interval \in Positive, capacity * interval <= BucketTTL,
           NEW entry \in Entry, Len(entry) \in {0, 2}, NEW expires \in Int,
           NEW stamps \in Seq(Nat), NEW latest \in Nat, NEW now \in Nat, latest <= now,
           LeakyRecord(entry, expires, stamps, latest, capacity, interval),
           NEW live, live = Lasting(entry, expires, now),
           NEW outcome, outcome = leaky_bucket(live, capacity, interval, now),
           NEW script, script = Expiring(outcome, BucketTTL),
           NEW until, until = Prolonged(expires, script, now)
    PROVE  LeakyRecord(outcome.entry, until, History(stamps, now, outcome), now,
                       capacity, interval)
<1>0. /\ live = IF expires # Never /\ now > expires THEN <<>> ELSE entry
      /\ until = IF outcome.allowed THEN now + BucketTTL ELSE expires
  BY DEF Lasting, Prolonged, Expiring
<1>1. BucketTTL \in Nat
  BY BucketTTLAssumption DEF Positive
<1>2. LeakyAccount(entry, stamps, latest, capacity, interval)
  BY DEF LeakyRecord
<1>3. Later(latest, now) = now /\ Later(now, now) = now
  BY DEF Later
<1>4. LeakyAccount(outcome.entry, History(stamps, now, outcome), now, capacity, interval)
  <2>1. CASE live = entry
    BY <1>2, <1>3, <2>1, LeakyKeepsAccount
  <2>2. CASE live # entry
    <3>1. live = <<>> /\ now > expires /\ entry # <<>>
      BY <1>0, <2>2
    <3>2. entry[1] \in Int /\ entry[2] \in Int
      BY <3>1, PairEntry
    <3>3. <<0, now>> \in Entry /\ Len(<<0, now>>) = 2 /\ <<0, now>>[1] = 0 /\ <<0, now>>[2] = now
      BY PairWritten
    <3>4. ASSUME NEW i \in 1 .. Len(stamps)
          PROVE  (Len(stamps) - i + 1) * interval
                     <= 0 * interval + (now - stamps[i]) + interval - 1
      <4>1. PICK span, size, last, held, burst, stamp :
                /\ span = (Len(stamps) - i + 1) * interval /\ size = entry[1] /\ last = entry[2]
                /\ held = entry[1] * interval /\ burst = capacity * interval /\ stamp = stamps[i]
        OBVIOUS
      <4>2. span \in Int /\ held \in Int /\ burst \in Int /\ stamp \in Nat /\ last \in Int
        <5>1. Len(stamps) \in Nat /\ interval \in Nat /\ capacity \in Nat /\ stamps[i] \in Nat
          BY LenProperties, ElementOfSeq DEF Positive
        <5> QED
          BY <3>2, <4>1, <5>1
      <4>3. held <= burst
        BY <1>2, <3>1, <3>2, <4>1, SMTT(40) DEF LeakyAccount, Positive
      <4>4. span <= held + (last - stamp) + interval - 1
        BY <1>2, <3>1, <4>1 DEF LeakyAccount
      <4>5. last + BucketTTL <= expires /\ burst <= BucketTTL
        BY <3>1, <4>1 DEF LeakyRecord
      <4>6. span <= 0 + (now - stamp) + interval - 1
        BY <1>1, <3>1, <4>2, <4>3, <4>4, <4>5 DEF Positive
      <4>7. 0 * interval = 0
        BY DEF Positive
      <4> QED
        BY <4>1, <4>6, <4>7
    <3>5. LeakyAccount(<<0, now>>, stamps, now, capacity, interval)
      <4>1. 0 <= capacity /\ now <= now
        BY DEF Positive
      <4>2. PICK pair \in Entry : pair = <<0, now>> /\ Len(pair) = 2 /\ pair # <<>>
                                  /\ pair[1] = 0 /\ pair[2] = now
        BY <3>3
      <4>3. LeakyAccount(pair, stamps, now, capacity, interval)
        BY <3>4, <4>1, <4>2 DEF LeakyAccount
      <4> QED
        BY <4>2, <4>3
    <3>6. outcome = leaky_bucket(<<0, now>>, capacity, interval, now)
      BY <3>1, LeakyForgets
    <3> QED
      BY <1>3, <3>3, <3>5, <3>6, LeakyKeepsAccount
  <2> QED
    BY <2>1, <2>2
<1>5. outcome.entry # <<>> => outcome.entry[2] + BucketTTL <= until
  <2>1. SUFFICES ASSUME outcome.entry # <<>>
                 PROVE  outcome.entry[2] + BucketTTL <= until
    OBVIOUS
  <2>2. live \in Entry /\ Len(live) \in {0, 2}
    BY <1>0, EmptySeq DEF Entry
  <2>3. outcome \in Outcome /\ Len(outcome.entry) \in {0, 2}
    BY <2>2, LeakyType
  <2>4. outcome.entry[2] \in Int /\ outcome.entry[2] <= now
    <3>1. outcome.entry \in Entry
      BY <2>3 DEF Outcome
    <3> QED
      BY <1>4, <2>1, <2>3, <3>1, PairEntry DEF LeakyAccount
  <2>5. CASE outcome.allowed
    BY <1>0, <1>1, <2>4, <2>5
  <2>6. CASE ~outcome.allowed
    <3>1. live # <<>>
      BY <2>6, LeakyForgets
    <3>2. live = entry
      BY <1>0, <3>1
    <3>3. outcome.entry = live
      <4>1. PICK remaining, reset_at, written, denied_at :
              outcome \in {Admit(remaining, reset_at, written), Deny(denied_at, live)}
        BY Zenon DEF leaky_bucket
      <4> QED
        BY <2>6, <4>1 DEF Admit, Deny
    <3>4. until = expires
      BY <1>0, <2>6
    <3> QED
      BY <2>1, <3>2, <3>3, <3>4 DEF LeakyRecord
  <2> QED
    BY <2>5, <2>6
<1> QED
  BY <1>4, <1>5 DEF LeakyRecord

-----------------------------------------------------------------------------
\* The bucket has drained before the server forgets it.
LeakyOutlive ==
    \A k \in KeysUnder("leaky_bucket") \cap ServerTimed :
        RuleOf[k].capacity * RuleOf[k].interval <= BucketTTL

\* The record of k: value is what the store has, g the history, latest the latest
\* stamp decided with.
RecordAt(k, value, g, latest) ==
    /\ RuleOf[k].algorithm = "sliding_window" =>
           SlidingRecord(value.entry, value.expires, g, latest, RuleOf[k].limit, RuleOf[k].window)
    /\ RuleOf[k].algorithm = "gcra" =>
           \A drift \in Nat : Within(g, drift) =>
               GcraRecord(value.entry, value.expires, g, latest,
                          RuleOf[k].capacity, RuleOf[k].interval, drift)
    /\ RuleOf[k].algorithm = "leaky_bucket" /\ k \in ServerTimed =>
           LeakyRecord(value.entry, value.expires, StampsOf(g), latest,
                       RuleOf[k].capacity, RuleOf[k].interval)

RecordsKept ==
    \A k \in Keys \ FixedKeys :
        /\ AdmittedInOrder(granted[k], clock)
        /\ k \in ServerTimed => high[k] <= clock
        /\ RecordAt(k, store[k], granted[k], high[k])

LEMMA ScriptKeys ==
    ASSUME NEW k \in Keys \ FixedKeys
    PROVE  /\ RuleOf[k] \in LimitRule
           /\ RuleOf[k].algorithm \in {"sliding_window", "token_bucket", "leaky_bucket", "gcra"}
           /\ RuleOf[k].algorithm = "sliding_window" =>
                  RuleOf[k].limit \in Positive /\ RuleOf[k].window \in Positive
           /\ RuleOf[k].algorithm # "sliding_window" =>
                  RuleOf[k].capacity \in Positive /\ RuleOf[k].interval \in Positive
<1>1. RuleOf[k] \in LimitRule /\ RuleOf[k].algorithm # "fixed_window"
  BY RedisAssumption DEF FixedKeys, IsFixed
<1> QED
  BY <1>1 DEF LimitRule, WindowRule, BucketRule

\* What EVAL writes of its key.
LEMMA EvalWrites ==
    ASSUME Typed, NEW k \in Keys \ FixedKeys, NEW t \in Times, NEW id \in RequestIds, NEW p,
           Eval(id, p, k, t),
           NEW script, script = Evaluated(id, k, t),
           NEW grant, grant = [stamp |-> ScriptTime(k, t), at |-> clock]
    PROVE  /\ store'[k].entry = script.outcome.entry
           /\ store'[k].expires = IF script.outcome.allowed THEN clock + script.ttl
                                                            ELSE store[k].expires
           /\ granted'[k] = IF script.outcome.allowed /\ ~Known(id, k, t)
                            THEN Append(granted[k], grant) ELSE granted[k]
           /\ high'[k] = Later(high[k], ScriptTime(k, t))
           /\ grant \in Grants /\ grant.at = clock /\ grant.stamp = ScriptTime(k, t)
           /\ \A l \in Keys \ {k} : /\ store'[l] = store[l] /\ granted'[l] = granted[l]
                                    /\ high'[l] = high[l]
<1>1. ScriptTime(k, t) \in Times /\ clock \in 0 .. MaxTime
  BY ClockReading DEF Typed, ClientsTyped
<1>2. Grant(k, script.outcome.allowed /\ ~Known(id, k, t), ScriptTime(k, t))
  BY DEF Eval
<1>3. /\ \A l \in Keys \ {k} : granted'[l] = granted[l]
      /\ granted'[k] = IF script.outcome.allowed /\ ~Known(id, k, t)
                       THEN Append(granted[k], grant) ELSE granted[k]
  BY <1>1, <1>2, GrantTyped
<1>4. /\ store'[k].entry = script.outcome.entry
      /\ store'[k].expires = IF script.outcome.allowed THEN clock + script.ttl
                                                       ELSE store[k].expires
      /\ \A l \in Keys \ {k} : store'[l] = store[l]
  BY DEF Eval, Typed, ServerTyped
<1>5. high'[k] = Later(high[k], ScriptTime(k, t)) /\ \A l \in Keys \ {k} : high'[l] = high[l]
  BY DEF Eval, Typed, ServerTyped
<1>6. grant \in Grants /\ grant.at = clock /\ grant.stamp = ScriptTime(k, t)
  BY <1>1 DEF Grants
<1> QED
  BY <1>3, <1>4, <1>5, <1>6

LEMMA EvalKeepsRecords ==
    ASSUME Typed, LeakyOutlive, RecordsKept,
           NEW k \in Keys \ FixedKeys, NEW t \in Times, NEW id \in RequestIds, NEW p,
           Eval(id, p, k, t), clock' = clock
    PROVE  RecordsKept'
<1>1. PICK script, live, now, grant :
          /\ script = Evaluated(id, k, t) /\ live = LiveEntry(k)
          /\ now = ScriptTime(k, t) /\ grant = [stamp |-> ScriptTime(k, t), at |-> clock]
  OBVIOUS
<1>2. PICK g, latest, time, entry, expires :
          /\ g = granted[k] /\ latest = high[k] /\ time = clock
          /\ entry = store[k].entry /\ expires = store[k].expires
          /\ g \in Seq(Grants) /\ latest \in Nat /\ time \in 0 .. MaxTime
          /\ expires \in Int /\ entry \in StoredUnder(RuleOf[k])
  <2>1. /\ granted[k] \in Seq(Grants) /\ high[k] \in Nat /\ clock \in 0 .. MaxTime
        /\ store[k].expires \in Int /\ store[k].entry \in StoredUnder(RuleOf[k])
    BY DEF Typed, ServerTyped, ClientsTyped
  <2> QED
    BY <2>1
<1>3. PICK more, written, until, newest :
          /\ more = granted'[k] /\ written = store'[k].entry /\ until = store'[k].expires
          /\ newest = high'[k]
  OBVIOUS
<1>4. /\ written = script.outcome.entry
      /\ until = Prolonged(expires, script, time)
      /\ newest = Later(latest, now)
      /\ grant \in Grants /\ grant.at = time /\ grant.stamp = now
      /\ RuleOf[k].algorithm = "sliding_window" =>
             more = SlidingHistory(g, grant, script.outcome, live, id)
      /\ RuleOf[k].algorithm # "sliding_window" => more = History(g, grant, script.outcome)
      /\ more = Append(g, grant) \/ more = g
  <2>1. Known(id, k, t) <=> RuleOf[k].algorithm = "sliding_window" /\ Remembered(live, now, id)
    BY <1>1, Zenon DEF Known, Remembered
  <2>2. /\ written = script.outcome.entry
        /\ until = IF script.outcome.allowed THEN time + script.ttl ELSE expires
        /\ newest = Later(latest, now)
        /\ grant \in Grants /\ grant.at = time /\ grant.stamp = now
        /\ more = IF script.outcome.allowed /\ ~Known(id, k, t) THEN Append(g, grant) ELSE g
    BY <1>1, <1>2, <1>3, EvalWrites
  <2> QED
    BY <2>1, <2>2 DEF Prolonged, SlidingHistory, History
<1>5. /\ script = Script(RuleOf[k], live, now, id)
      /\ live = Lasting(entry, expires, time)
  BY <1>1, <1>2 DEF Evaluated, LiveEntry, Gone, Lasting
<1>6. AdmittedInOrder(g, time) /\ AdmittedInOrder(Append(g, grant), time)
  BY <1>2, <1>4, OrderKept DEF RecordsKept
<1>7. AdmittedInOrder(more, time)
  BY <1>4, <1>6
<1>8. k \in ServerTimed => newest <= time /\ now = time /\ latest <= time
  BY <1>1, <1>2, <1>4, RedisAssumption DEF ScriptTime, RecordsKept, Later
<1>9. ASSUME RuleOf[k].algorithm = "sliding_window"
      PROVE  SlidingRecord(written, until, more, newest, RuleOf[k].limit, RuleOf[k].window)
  <2>1. PICK limit \in Positive, window \in Positive :
            limit = RuleOf[k].limit /\ window = RuleOf[k].window
    BY <1>9, ScriptKeys
  <2>2. entry \in Seq(Members)
    BY <1>2, <1>9 DEF StoredUnder
  <2>3. SlidingRecord(entry, expires, g, latest, limit, window)
    BY <1>2, <1>9, <2>1 DEF RecordsKept, RecordAt
  <2>4. script = sliding_window_script(live, window, limit, now, id)
    BY <1>5, <1>9, <2>1, Zenon DEF Script
  <2>5. more = SlidingHistory(g, grant, script.outcome, live, id)
    BY <1>4, <1>9
  <2>6. SlidingRecord(script.outcome.entry, until, more, Later(latest, now), limit, window)
    <3>1. /\ entry \in Seq(Members) /\ expires \in Int /\ g \in Seq(Grants)
          /\ latest \in Nat /\ limit \in Positive /\ window \in Positive
          /\ SlidingRecord(entry, expires, g, latest, limit, window)
          /\ time \in 0 .. MaxTime /\ AdmittedInOrder(g, time)
          /\ grant \in Grants /\ grant.at = time /\ now = grant.stamp /\ id \in RequestIds
          /\ live = Lasting(entry, expires, time)
          /\ until = Prolonged(expires, script, time)
      BY <1>2, <1>4, <1>5, <1>6, <2>1, <2>2, <2>3
    <3> HIDE <1>2, <1>4, <1>5, <1>6, <2>1, <2>2, <2>3
    <3> QED
      BY <3>1, <2>4, <2>5, SlidingRecordKept, ZenonT(60)
  <2> QED
    BY <1>4, <2>1, <2>6
<1>10. ASSUME RuleOf[k].algorithm = "gcra", NEW drift \in Nat, Within(more, drift)
       PROVE  GcraRecord(written, until, more, newest, RuleOf[k].capacity, RuleOf[k].interval, drift)
  <2>1. PICK capacity \in Positive, interval \in Positive :
            capacity = RuleOf[k].capacity /\ interval = RuleOf[k].interval
    BY <1>10, ScriptKeys
  <2>2. entry \in Entry /\ Len(entry) \in {0, 1}
    BY <1>2, <1>10 DEF StoredUnder, EntryUnder
  <2>3. Within(g, drift)
    <3>1. CASE more = g
      BY <1>10, <3>1
    <3>2. CASE more = Append(g, grant)
      <4>1. /\ Len(g) \in Nat /\ Len(more) = Len(g) + 1
            /\ \A i \in 1 .. Len(g) : more[i] = g[i]
        BY <1>2, <1>4, <3>2, GrantsMore, LenProperties
      <4>2. \A i \in 1 .. Len(g) : i \in 1 .. Len(more)
        BY <4>1
      <4> QED
        BY <1>10, <4>1, <4>2 DEF Within
    <3> QED
      BY <1>4, <3>1, <3>2
  <2>4. GcraRecord(entry, expires, g, latest, capacity, interval, drift)
    BY <1>2, <1>10, <2>1, <2>3 DEF RecordsKept, RecordAt
  <2>5. PICK outcome : /\ outcome = gcra(live, capacity, interval, now)
                       /\ script = Expiring(outcome, outcome.reset_at - now)
    <3>1. script = gcra_script(live, capacity, interval, now)
      BY <1>5, <1>10, <2>1, Zenon DEF Script
    <3> QED
      BY <3>1 DEF gcra_script
  <2>6. script.outcome = outcome
    BY <2>5 DEF Expiring
  <2>7. more = History(g, grant, outcome)
    BY <1>4, <1>10, <2>6
  <2>8. GcraRecord(outcome.entry, until, more, Later(latest, now), capacity, interval, drift)
    BY <1>2, <1>4, <1>5, <1>6, <1>10, <2>1, <2>2, <2>4, <2>5, <2>7, GcraRecordKept, ZenonT(60)
  <2> QED
    BY <1>4, <2>1, <2>6, <2>8
<1>11. ASSUME RuleOf[k].algorithm = "leaky_bucket", k \in ServerTimed
       PROVE  LeakyRecord(written, until, StampsOf(more), newest,
                          RuleOf[k].capacity, RuleOf[k].interval)
  <2>1. PICK capacity \in Positive, interval \in Positive :
            /\ capacity = RuleOf[k].capacity /\ interval = RuleOf[k].interval
            /\ capacity * interval <= BucketTTL
    BY <1>11, ScriptKeys DEF LeakyOutlive, KeysUnder
  <2>2. entry \in Entry /\ Len(entry) \in {0, 2}
    BY <1>2, <1>11 DEF StoredUnder, EntryUnder
  <2>3. PICK stamps \in Seq(Nat) : stamps = StampsOf(g)
    <3>1. StampsOf(g) \in Seq(Times)
      BY <1>2, <1>4, StampsOfMore
    <3>2. Times \in SUBSET Nat
      BY RedisAssumption DEF Times
    <3>3. PICK s \in Seq(Times) : s = StampsOf(g)
      BY <3>1
    <3>4. \A i \in 1 .. Len(s) : s[i] \in Nat
      BY <3>2, ElementOfSeq
    <3>5. s \in Seq(Nat)
      BY <3>4, LenProperties, SeqDef
    <3> QED
      BY <3>3, <3>5
  <2>4. LeakyRecord(entry, expires, stamps, latest, capacity, interval)
    BY <1>2, <1>11, <2>1, <2>3 DEF RecordsKept, RecordAt
  <2>5. PICK outcome : /\ outcome = leaky_bucket(live, capacity, interval, now)
                       /\ script = Expiring(outcome, BucketTTL)
    <3>1. script = leaky_bucket_script(live, capacity, interval, now)
      BY <1>5, <1>11, <2>1, Zenon DEF Script
    <3> QED
      BY <3>1 DEF leaky_bucket_script
  <2>6. script.outcome = outcome
    BY <2>5 DEF Expiring
  <2>7. StampsOf(more) = History(stamps, now, outcome)
    <3>1. more = History(g, grant, outcome)
      BY <1>4, <1>11, <2>6
    <3>2. StampsOf(Append(g, grant)) = Append(stamps, now)
      BY <1>2, <1>4, <2>3, StampsOfMore
    <3> QED
      BY <2>3, <3>1, <3>2 DEF History
  <2>8. now = time /\ latest <= now /\ now \in Nat /\ newest = now
    BY <1>2, <1>4, <1>8, <1>11, RedisAssumption DEF Later
  <2>9. live = Lasting(entry, expires, now) /\ until = Prolonged(expires, script, now)
    BY <1>4, <1>5, <2>8
  <2>10. LeakyRecord(outcome.entry, until, History(stamps, now, outcome), now, capacity, interval)
    BY <1>2, <2>1, <2>2, <2>3, <2>4, <2>5, <2>8, <2>9, LeakyRecordKept, ZenonT(60)
  <2> QED
    BY <1>4, <2>1, <2>6, <2>7, <2>8, <2>10
<1>12. RecordAt(k, store'[k], more, newest)
  BY <1>3, <1>9, <1>10, <1>11 DEF RecordAt
<1>13. /\ AdmittedInOrder(granted'[k], clock')
       /\ k \in ServerTimed => high'[k] <= clock'
       /\ RecordAt(k, store'[k], granted'[k], high'[k])
  BY <1>2, <1>3, <1>7, <1>8, <1>12
<1>14. ASSUME NEW l \in Keys \ FixedKeys, l # k
       PROVE  /\ AdmittedInOrder(granted'[l], clock')
              /\ l \in ServerTimed => high'[l] <= clock'
              /\ RecordAt(l, store'[l], granted'[l], high'[l])
  <2>1. store'[l] = store[l] /\ granted'[l] = granted[l] /\ high'[l] = high[l]
    BY <1>1, <1>14, EvalWrites
  <2> QED
    BY <1>14, <2>1 DEF RecordsKept
<1> QED
  BY <1>13, <1>14 DEF RecordsKept

LEMMA RecordsStay ==
    ASSUME Typed, RecordsKept, Passive, clock' \in {clock, clock + 1},
           \A k \in Keys \ FixedKeys : granted'[k] = granted[k]
    PROVE  RecordsKept'
<1> SUFFICES ASSUME NEW k \in Keys \ FixedKeys
             PROVE  /\ AdmittedInOrder(granted'[k], clock')
                    /\ k \in ServerTimed => high'[k] <= clock'
                    /\ RecordAt(k, store'[k], granted'[k], high'[k])
  BY DEF RecordsKept
<1>1. granted'[k] = granted[k] /\ high'[k] = high[k] /\ store'[k] = store[k]
  BY DEF Passive
<1>2. PICK g \in Seq(Grants), time \in Nat, later \in Nat, latest \in Nat :
          /\ g = granted[k] /\ time = clock /\ later = clock' /\ time <= later
          /\ latest = high[k] /\ LastAt(g) \in Nat
  <2>1. granted[k] \in Seq(Grants) /\ high[k] \in Nat /\ clock \in Nat
    BY RedisAssumption DEF Typed, ServerTyped, ClientsTyped
  <2> QED
    BY <2>1, GrantsRead
<1>3. /\ AdmittedInOrder(g, time)
      /\ k \in ServerTimed => latest <= time
      /\ RecordAt(k, store[k], g, latest)
  BY <1>2 DEF RecordsKept
<1>4. AdmittedInOrder(g, later)
  BY <1>2, <1>3 DEF AdmittedInOrder
<1>5. k \in ServerTimed => latest <= later
  BY <1>2, <1>3
<1> QED
  BY <1>1, <1>2, <1>3, <1>4, <1>5

LEMMA RecordsInit == Init => RecordsKept
<1> SUFFICES ASSUME Init, NEW k \in Keys \ FixedKeys
             PROVE  /\ AdmittedInOrder(granted[k], clock)
                    /\ k \in ServerTimed => high[k] <= clock
                    /\ RecordAt(k, store[k], granted[k], high[k])
  BY DEF RecordsKept
<1>1. /\ granted[k] = <<>> /\ clock = 0 /\ high[k] = 0
      /\ store[k].entry = <<>> /\ store[k].expires = Never
  BY DEF Init, Absent
<1>2. PICK none : none = <<>> /\ Len(none) = 0 /\ StampsOf(none) = <<>>
  BY DEF StampsOf
<1>3. AdmittedInOrder(none, 0)
  BY <1>2 DEF AdmittedInOrder, LastAt
<1>4. ASSUME RuleOf[k].algorithm = "sliding_window"
      PROVE  SlidingRecord(none, Never, none, 0, RuleOf[k].limit, RuleOf[k].window)
  <2>1. PICK held : held = [p \in 1 .. Len(none) |-> 0]
    OBVIOUS
  <2>2. held \in [1 .. Len(none) -> Nat] /\ Covers(held, none, none, 0, LastAt(none), RuleOf[k].window)
    BY <1>2, <2>1 DEF Covers
  <2>3. Covered(none, none, 0, LastAt(none), RuleOf[k].window)
    BY <2>2 DEF Covered
  <2>4. Len(none) <= RuleOf[k].limit
    BY <1>2, <1>4, ScriptKeys DEF Positive
  <2> QED
    BY <1>2, <2>3, <2>4 DEF SlidingRecord
<1>5. \A drift \in Nat : GcraRecord(none, Never, none, 0, RuleOf[k].capacity, RuleOf[k].interval, drift)
  BY <1>2 DEF GcraRecord
<1>6. ASSUME RuleOf[k].algorithm = "leaky_bucket"
      PROVE  LeakyRecord(none, Never, none, 0, RuleOf[k].capacity, RuleOf[k].interval)
  BY <1>2 DEF LeakyRecord, LeakyAccount
<1>7. RecordAt(k, store[k], none, 0)
  BY <1>1, <1>2, <1>4, <1>5, <1>6 DEF RecordAt
<1> QED
  BY <1>1, <1>2, <1>3, <1>7

LEMMA LaterBounds ==
    ASSUME NEW a \in Nat, NEW b \in Nat
    PROVE  Later(a, b) \in Nat /\ Later(a, b) >= a /\ Later(a, b) >= b
BY DEF Later

LEMMA RecordsBound ==
    ASSUME Typed, RecordsKept
    PROVE  SkewEnvelope
<1> SUFFICES ASSUME NEW k \in Keys, NEW drift \in Drifts(k), \A d \in Drifts(k) : d <= drift,
                    NEW i \in DOMAIN granted[k]
             PROVE  /\ k \in KeysUnder("sliding_window") /\ AdmittedSince(k, i) > RuleOf[k].limit =>
                           Age(k, i) >= RuleOf[k].window - 2 * drift
                    /\ k \in KeysUnder("gcra") =>
                           BurstThenRate(k, i, (AdmittedSince(k, i) - 1) * drift)
                    /\ k \in KeysUnder("leaky_bucket") \cap ServerTimed =>
                           BurstThenRate(k, i, RuleOf[k].interval - 1)
  BY DEF SkewEnvelope
<1>0. PICK value : value = store[k]
  OBVIOUS
<1>1. PICK g \in Seq(Grants), n \in Nat, time \in Nat, latest \in Nat :
          /\ g = granted[k] /\ n = Len(g) /\ time = clock /\ latest = high[k] /\ value = store[k]
          /\ value.expires \in Int /\ value.entry \in StoredUnder(RuleOf[k])
          /\ DOMAIN g = 1 .. n /\ i \in 1 .. n
  <2>1. /\ granted[k] \in Seq(Grants) /\ high[k] \in Nat /\ clock \in Nat
        /\ store[k].expires \in Int /\ store[k].entry \in StoredUnder(RuleOf[k])
    BY RedisAssumption DEF Typed, ServerTyped, ClientsTyped
  <2> QED
    BY <1>0, <2>1, GrantsRead
<1>2. \A j \in 1 .. n : g[j].stamp \in Nat /\ g[j].at \in Nat
  BY <1>1, GrantsRead
<1>3. Within(g, drift) /\ drift \in Nat
  <2>1. ASSUME NEW j \in 1 .. n
        PROVE  \E d \in Drifts(k) : /\ d \in Nat
                                    /\ g[j].stamp <= g[j].at + d /\ g[j].at <= g[j].stamp + d
    <3>1. PICK stamp \in Nat, at \in Nat : stamp = g[j].stamp /\ at = g[j].at
      BY <1>2
    <3>2. PICK d : d = IF stamp > at THEN stamp - at ELSE at - stamp
      OBVIOUS
    <3>3. d \in Drifts(k)
      BY <1>1, <3>1, <3>2 DEF Drifts
    <3>4. d \in Nat /\ stamp <= at + d /\ at <= stamp + d
      BY <3>2
    <3> QED
      BY <3>1, <3>3, <3>4
  <2>2. drift \in Nat
    <3>1. PICK j \in 1 .. n : drift = IF g[j].stamp > g[j].at THEN g[j].stamp - g[j].at
                                                            ELSE g[j].at - g[j].stamp
      BY <1>1 DEF Drifts
    <3>2. PICK stamp \in Nat, at \in Nat : stamp = g[j].stamp /\ at = g[j].at
      BY <1>2
    <3> QED
      BY <3>1, <3>2
  <2>3. ASSUME NEW j \in 1 .. n
        PROVE  g[j].stamp <= g[j].at + drift /\ g[j].at <= g[j].stamp + drift
    <3>1. PICK d \in Nat : /\ d <= drift
                           /\ g[j].stamp <= g[j].at + d /\ g[j].at <= g[j].stamp + d
      BY <2>1
    <3> QED
      BY <1>2, <2>2, <3>1
  <2> QED
    BY <1>1, <2>2, <2>3 DEF Within
<1>4. ASSUME k \notin FixedKeys
      PROVE  AdmittedInOrder(g, time) /\ RecordAt(k, value, g, latest)
  BY <1>1, <1>4 DEF RecordsKept
<1>5. AdmittedSince(k, i) = Len(g) - i + 1 /\ Age(k, i) = Later(latest, g[Len(g)].at) - g[i].stamp
  BY <1>1 DEF AdmittedSince, Age
<1>6. ASSUME k \in KeysUnder("sliding_window"), AdmittedSince(k, i) > RuleOf[k].limit
      PROVE  Age(k, i) >= RuleOf[k].window - 2 * drift
  <2>1. k \in Keys \ FixedKeys /\ RuleOf[k].algorithm = "sliding_window"
    BY <1>6 DEF KeysUnder, FixedKeys, IsFixed
  <2>2. PICK limit \in Positive, window \in Positive :
            limit = RuleOf[k].limit /\ window = RuleOf[k].window
    BY <2>1, ScriptKeys
  <2>3. SlidingRecord(value.entry, value.expires, g, latest, limit, window)
    BY <1>4, <2>1, <2>2 DEF RecordAt
  <2>4. /\ value.entry \in Seq(Members) /\ AdmittedInOrder(g, time)
        /\ i \in 1 .. Len(g) /\ Len(g) - i + 1 > limit
    BY <1>1, <1>4, <1>5, <1>6, <2>1, <2>2 DEF StoredUnder
  <2>5. Later(latest, g[Len(g)].at) - g[i].stamp >= window - 2 * drift
    BY <1>1, <1>3, <2>3, <2>4, SlidingSpaced, ZenonT(30)
  <2> QED
    BY <1>5, <2>2, <2>5
<1>7. ASSUME k \in KeysUnder("gcra")
      PROVE  BurstThenRate(k, i, (AdmittedSince(k, i) - 1) * drift)
  <2>1. k \in Keys \ FixedKeys /\ RuleOf[k].algorithm = "gcra"
    BY <1>7 DEF KeysUnder, FixedKeys, IsFixed
  <2>2. PICK capacity \in Positive, interval \in Positive :
            capacity = RuleOf[k].capacity /\ interval = RuleOf[k].interval
    BY <2>1, ScriptKeys
  <2>3. GcraRecord(value.entry, value.expires, g, latest, capacity, interval, drift)
    BY <1>3, <1>4, <2>1, <2>2 DEF RecordAt
  <2>4. (Len(g) - i + 1) * interval
            <= (Later(latest, g[Len(g)].at) - g[i].stamp) + capacity * interval
                   + ((Len(g) - i + 1) - 1) * drift
    BY <1>1, <1>3, <2>3, GcraSpaced
  <2> QED
    BY <1>5, <2>2, <2>4, Zenon DEF BurstThenRate
<1>8. ASSUME k \in KeysUnder("leaky_bucket"), k \in ServerTimed
      PROVE  BurstThenRate(k, i, RuleOf[k].interval - 1)
  <2>1. k \in Keys \ FixedKeys /\ RuleOf[k].algorithm = "leaky_bucket"
    BY <1>8 DEF KeysUnder, FixedKeys, IsFixed
  <2>2. PICK capacity \in Positive, interval \in Positive :
            capacity = RuleOf[k].capacity /\ interval = RuleOf[k].interval
    BY <2>1, ScriptKeys
  <2>3. PICK stamps \in Seq(Nat) : /\ stamps = StampsOf(g) /\ Len(stamps) = n
                                   /\ stamps[i] = g[i].stamp
    <3>1. StampsOf(g) = [j \in 1 .. n |-> g[j].stamp]
      BY <1>1 DEF StampsOf
    <3>2. PICK s \in [1 .. n -> Nat] : s = StampsOf(g) /\ s[i] = g[i].stamp
      BY <1>1, <1>2, <3>1
    <3>3. s \in Seq(Nat) /\ Len(s) = n
      BY <3>2
    <3> QED
      BY <3>2, <3>3
  <2>4. LeakyAccount(value.entry, stamps, latest, capacity, interval)
    BY <1>4, <1>8, <2>1, <2>2, <2>3 DEF RecordAt, LeakyRecord
  <2>5. value.entry \in Entry /\ Len(value.entry) \in {0, 2} /\ i \in 1 .. Len(stamps)
    BY <1>1, <2>1, <2>3 DEF StoredUnder, EntryUnder
  <2>6. (Len(stamps) - i + 1) * interval
            <= (latest - stamps[i]) + capacity * interval + (interval - 1)
    BY <1>1, <2>3, <2>4, <2>5, LeakyAccountBounds, ZenonT(30)
  <2>7. PICK span \in Int, burst \in Int, stamp \in Nat, at \in Nat, slack \in Int :
            /\ span = (n - i + 1) * interval /\ burst = capacity * interval
            /\ stamp = g[i].stamp /\ at = g[n].at /\ slack = interval - 1
    <3>1. (n - i + 1) * interval \in Int /\ capacity * interval \in Int /\ interval - 1 \in Int
      BY <1>1 DEF Positive
    <3>2. g[i].stamp \in Nat /\ g[n].at \in Nat
      BY <1>1, <1>2
    <3> QED
      BY <3>1, <3>2
  <2>8. span <= (latest - stamp) + burst + slack
    BY <2>3, <2>6, <2>7
  <2>9. span <= (Later(latest, at) - stamp) + burst + slack
    <3>1. PICK newest \in Nat : newest = Later(latest, at) /\ newest >= latest
      BY <1>1, <2>7, LaterBounds, Zenon
    <3> HIDE <1>1, <2>7
    <3>2. span \in Int /\ burst \in Int /\ slack \in Int /\ stamp \in Nat /\ latest \in Nat
      BY <1>1, <2>7
    <3> QED
      BY <2>8, <3>1, <3>2
  <2> QED
    BY <1>1, <1>5, <2>2, <2>7, <2>9 DEF BurstThenRate
<1> QED
  BY <1>6, <1>7, <1>8 DEF KeysUnder

\* Whatever the clocks of the callers, the delays of their commands and the expiry of
\* their keys, the admissions of a sliding window, of GCRA, and of a leaky bucket under
\* the server's clock, are spread as SkewEnvelope says (redis.py: the scripts with
\* PEXPIRE, and use_redis_time).
THEOREM SkewEnvelopeHolds ==
    ASSUME LeakyOutlive
    PROVE  Spec => []SkewEnvelope
<1>1. Init => RecordsKept
  BY RecordsInit
<1>2. Typed /\ RecordsKept /\ [Next]_vars => RecordsKept'
  <2> SUFFICES ASSUME Typed, RecordsKept, [Next]_vars
               PROVE  RecordsKept'
    OBVIOUS
  <2>1. CASE \E k \in Keys \ FixedKeys, t \in Times, id \in RequestIds, p \in Processes :
                Eval(id, p, k, t) /\ clock' = clock
    BY <2>1, EvalKeepsRecords
  <2>2. CASE /\ Passive /\ clock' \in {clock, clock + 1}
             /\ \A k \in Keys \ FixedKeys : granted'[k] = granted[k]
    BY <2>2, RecordsStay
  <2> QED
    BY <2>1, <2>2, ServerStep
<1>3. Typed /\ RecordsKept => SkewEnvelope
  BY RecordsBound
<1>4. Spec => []Typed
  BY TypesHold
<1> QED
  BY <1>1, <1>2, <1>3, <1>4, PTL DEF Spec

-----------------------------------------------------------------------------
(***************************************************************************)
(* OutageEnvelope.  The server and the fallback storage of every process   *)
(* each keep GCRA's ration between any two instants, and every answer is   *)
(* an admission of the storage that it names.                              *)
(***************************************************************************)

\* Between two instants a storage admits count requests, an interval each: they fit
\* between the first instant and the theoretical arrival time, which is a burst past
\* the last instant at most.  The clock of the stamps is ahead of the instants.
Rationed(entry, ahead, count, first, last, capacity, interval) ==
    /\ count # 0 => entry # <<>> /\ count * interval <= (entry[1] - ahead) - first
    /\ first <= last => count * interval <= (last - first) + capacity * interval

\* What gcra decides of the entry: the request is denied, or the arrival time moves on.
MovesArrival(entry, outcome, capacity, interval, now) ==
    \/ outcome.allowed = FALSE /\ outcome.entry = entry /\ entry # <<>>
    \/ /\ outcome.allowed = TRUE
       /\ \E due \in Int : /\ outcome.entry = <<due>> /\ outcome.reset_at = due
                           /\ due >= now + interval /\ due <= now + capacity * interval
                           /\ entry # <<>> => due >= entry[1] + interval

LEMMA GcraDecides ==
    ASSUME NEW entry \in Entry, Len(entry) \in {0, 1},
           NEW capacity \in Positive, NEW interval \in Positive, NEW now \in Nat,
           NEW outcome, outcome = gcra(entry, capacity, interval, now)
    PROVE  MovesArrival(entry, outcome, capacity, interval, now)
<1>1. PICK burst \in Int, all \in Int : /\ burst = BurstInterval(capacity, interval)
                                        /\ all = capacity * interval
                                        /\ burst = all - interval /\ burst >= 0
  <2>1. /\ capacity * interval \in Int
        /\ BurstInterval(capacity, interval) = capacity * interval - interval
        /\ capacity * interval >= interval
    BY DEF BurstInterval, Positive
  <2> QED
    BY <2>1 DEF Positive
<1>2. interval \in Nat /\ interval >= 1
  BY DEF Positive
<1>3. PICK from \in Int : from = IF entry = <<>> THEN now ELSE entry[1]
  <2>1. entry # <<>> => entry[1] \in Int
    BY DEF Entry
  <2> QED
    BY <2>1
<1>4. PICK due \in Int : /\ due = Later(from, now) + interval
                         /\ due >= from + interval /\ due >= now + interval
                         /\ due = from + interval \/ due = now + interval
  BY <1>2 DEF Later
<1>5. PICK spare : outcome = IF from <= now + burst
                             THEN Admit(AtLeastZero(spare \div interval), due, <<due>>)
                             ELSE Deny(from - burst, entry)
  BY <1>1, <1>3, <1>4 DEF gcra
<1>6. CASE from <= now + burst
  <2>1. outcome.allowed = TRUE /\ outcome.entry = <<due>> /\ outcome.reset_at = due
    BY <1>5, <1>6 DEF Admit
  <2>2. due <= now + all
    BY <1>1, <1>2, <1>4, <1>6
  <2>3. entry # <<>> => due >= entry[1] + interval
    BY <1>3, <1>4
  <2> QED
    BY <1>1, <1>4, <2>1, <2>2, <2>3 DEF MovesArrival
<1>7. CASE ~(from <= now + burst)
  <2>1. outcome.allowed = FALSE /\ outcome.entry = entry
    BY <1>5, <1>7 DEF Deny
  <2>2. entry # <<>>
    BY <1>1, <1>3, <1>7
  <2> QED
    BY <2>1, <2>2 DEF MovesArrival
<1> QED
  BY <1>6, <1>7

\* The arithmetic of one more request; spent is what the earlier ones take.
LEMMA RationNumbers ==
    ASSUME NEW spent \in Int, NEW burst \in Int, NEW interval \in Nat, NEW first \in Int,
           NEW last \in Int, NEW ahead \in Int, NEW now \in Int, NEW due \in Int,
           first <= now - ahead, now - ahead <= last,
           due >= now + interval, due <= now + burst,
           spent = 0 \/ spent + interval <= (due - ahead) - first
    PROVE  /\ spent + interval <= (due - ahead) - first
           /\ spent + interval <= (last - first) + burst
  OBVIOUS

\* The next decision keeps the ration, also when it is made of an absent entry instead
\* of one that is due by now.
LEMMA RationKept ==
    ASSUME NEW capacity \in Positive, NEW interval \in Positive,
           NEW entry \in Entry, Len(entry) \in {0, 1}, NEW now \in Nat,
           NEW live, live = entry \/ (live = <<>> /\ entry # <<>> /\ entry[1] <= now),
           NEW ahead \in Nat, NEW count \in Nat, NEW first \in Int, NEW last \in Int,
           Rationed(entry, ahead, count, first, last, capacity, interval),
           NEW outcome, outcome = gcra(live, capacity, interval, now),
           NEW more \in Nat,
           more = count + (IF outcome.allowed /\ now - ahead \in first .. last THEN 1 ELSE 0)
    PROVE  Rationed(outcome.entry, ahead, more, first, last, capacity, interval)
<1>1. live \in Entry /\ Len(live) \in {0, 1}
  BY EmptySeq DEF Entry
<1>2. entry # <<>> => entry[1] \in Int
  BY DEF Entry
<1>3. CASE outcome.allowed = FALSE /\ outcome.entry = live /\ live # <<>>
  BY <1>3
<1>4. ASSUME outcome.allowed = TRUE, NEW due \in Int, outcome.entry = <<due>>,
             due >= now + interval, due <= now + capacity * interval,
             live # <<>> => due >= live[1] + interval
      PROVE  Rationed(outcome.entry, ahead, more, first, last, capacity, interval)
  <2>1. PICK spent \in Int, burst \in Int, unit \in Nat, next \in Int :
            /\ spent = count * interval /\ burst = capacity * interval /\ unit = interval
            /\ unit >= 1 /\ next = (count + 1) * interval /\ next = spent + unit
            /\ count = 0 => spent = 0
    <3>1. /\ count * interval \in Int /\ capacity * interval \in Int /\ interval \in Nat /\ interval >= 1
          /\ (count + 1) * interval = count * interval + interval
          /\ count = 0 => count * interval = 0
      BY DEF Positive
    <3> QED
      BY <3>1
  <2>2. entry # <<>> => due >= entry[1] + unit
    BY <1>2, <1>4, <2>1, SMTT(40)
  <2>3. PICK then : then = <<due>> /\ then # <<>> /\ then[1] = due
    <3>1. <<due>> # <<>> /\ <<due>>[1] = due
      OBVIOUS
    <3> QED
      BY <3>1
  <2>4. /\ count # 0 => entry # <<>> /\ spent <= (entry[1] - ahead) - first
        /\ first <= last => spent <= (last - first) + burst
    BY <2>1 DEF Rationed
  <2>5. spent = 0 \/ spent + unit <= (due - ahead) - first
    BY <1>2, <2>1, <2>2, <2>4
  <2>6. CASE now - ahead \in first .. last
    <3>1. more = count + 1
      BY <1>4, <2>6
    <3>2. first <= now - ahead /\ now - ahead <= last /\ now \in Int /\ ahead \in Int
      BY <2>6
    <3>3. due >= now + unit /\ due <= now + burst
      BY <1>4, <2>1
    <3>4. spent + unit <= (due - ahead) - first /\ spent + unit <= (last - first) + burst
      BY <2>5, <3>2, <3>3, RationNumbers
    <3> QED
      BY <1>4, <2>1, <2>3, <3>1, <3>4 DEF Rationed
  <2>7. CASE ~(now - ahead \in first .. last)
    <3>1. more = count
      BY <2>7
    <3>2. count # 0 => spent <= (due - ahead) - first
      BY <1>2, <2>1, <2>2, <2>4
    <3> QED
      BY <1>4, <2>1, <2>3, <2>4, <3>1, <3>2 DEF Rationed
  <2> QED
    BY <2>6, <2>7
<1>5. MovesArrival(live, outcome, capacity, interval, now)
  <2>1. /\ live \in Entry /\ Len(live) \in {0, 1} /\ capacity \in Positive /\ interval \in Positive
        /\ now \in Nat /\ outcome = gcra(live, capacity, interval, now)
    BY <1>1
  <2> QED
    BY <2>1, GcraDecides, ZenonT(30)
<1> QED
  BY <1>3, <1>4, <1>5 DEF MovesArrival

-----------------------------------------------------------------------------
\* The positions of a sequence with an element of the set.
Occurrences(s, T) == {i \in DOMAIN s : s[i] \in T}

LEMMA OccurrencesCounted ==
    ASSUME NEW S, NEW s \in Seq(S), NEW T
    PROVE  IsFiniteSet(Occurrences(s, T)) /\ Cardinality(Occurrences(s, T)) \in Nat
<1>1. PICK n \in Nat : n = Len(s) /\ DOMAIN s = 1 .. n
  BY LenProperties
<1>2. IsFiniteSet(1 .. n)
  <2>1. 1 \in Int /\ n \in Int
    OBVIOUS
  <2> QED
    BY <2>1, FS_Interval
<1>3. Occurrences(s, T) \in SUBSET (1 .. n)
  BY <1>1 DEF Occurrences
<1> QED
  BY <1>2, <1>3, FS_Subset, FS_CardinalityType

LEMMA OccurrencesMore ==
    ASSUME NEW S, NEW s \in Seq(S), NEW x \in S, NEW T
    PROVE  /\ IsFiniteSet(Occurrences(s, T)) /\ Cardinality(Occurrences(s, T)) \in Nat
           /\ Cardinality(Occurrences(Append(s, x), T)) = Cardinality(Occurrences(s, T)) + One(x, T)
<1>1. PICK n \in Nat : n = Len(s) /\ DOMAIN s = 1 .. n
  BY LenProperties
<1>2. PICK more : /\ more = Append(s, x) /\ DOMAIN more = 1 .. n + 1
                  /\ \A i \in 1 .. n : more[i] = s[i]
                  /\ more[n + 1] = x
  <2>1. PICK more : more = Append(s, x)
    OBVIOUS
  <2>2. /\ more \in Seq(S) /\ Len(more) = Len(s) + 1
        /\ \A i \in 1 .. Len(s) : more[i] = s[i]
        /\ more[Len(s) + 1] = x
    BY <2>1, AppendProperties
  <2>3. DOMAIN more = 1 .. Len(more)
    BY <2>2, LenProperties
  <2> QED
    BY <1>1, <2>1, <2>2, <2>3
<1>3. IsFiniteSet(Occurrences(s, T)) /\ Cardinality(Occurrences(s, T)) \in Nat
  BY OccurrencesCounted
<1>4. n + 1 \notin Occurrences(s, T)
  BY <1>1 DEF Occurrences
<1>5. CASE x \in T
  <2>1. Occurrences(more, T) = Occurrences(s, T) \cup {n + 1}
    BY <1>1, <1>2, <1>5 DEF Occurrences
  <2> QED
    BY <1>2, <1>3, <1>4, <1>5, <2>1, FS_AddElement DEF One
<1>6. CASE x \notin T
  <2>1. Occurrences(more, T) = Occurrences(s, T)
    BY <1>1, <1>2, <1>6 DEF Occurrences
  <2> QED
    BY <1>2, <1>3, <1>6, <2>1 DEF One
<1> QED
  BY <1>3, <1>5, <1>6

\* Each of the sources has given no more than bound; so they have given no more than
\* that for each source.  By an injection: no induction over the sources is needed.
LEMMA SharesAddUp ==
    ASSUME NEW D, IsFiniteSet(D), NEW by, DOMAIN by = D, NEW unit \in Nat, NEW bound \in Nat,
           NEW Sources, Sources = {by[a] : a \in D},
           \A s \in Sources : Cardinality({a \in D : by[a] = s}) * unit <= bound
    PROVE  /\ IsFiniteSet(Sources) /\ Cardinality(Sources) \in Nat /\ Cardinality(D) \in Nat
           /\ Cardinality(D) * unit <= Cardinality(Sources) * bound
<1>1. PICK f : f = [a \in D |-> by[a]]
  OBVIOUS
<1>2. f \in Surjection(D, Sources)
  BY <1>1 DEF Surjection
<1>3. IsFiniteSet(Sources) /\ Cardinality(Sources) \in Nat /\ Cardinality(D) \in Nat
  BY <1>2, FS_Surjection, FS_CardinalityType
<1>4. PICK U, B : /\ U = 1 .. unit /\ IsFiniteSet(U) /\ Cardinality(U) = unit
                  /\ B = 1 .. bound /\ IsFiniteSet(B) /\ Cardinality(B) = bound
  <2>1. /\ IsFiniteSet(1 .. unit) /\ Cardinality(1 .. unit) = IF 1 > unit THEN 0 ELSE unit - 1 + 1
        /\ IsFiniteSet(1 .. bound) /\ Cardinality(1 .. bound) = IF 1 > bound THEN 0 ELSE bound - 1 + 1
    <3>1. 1 \in Int /\ unit \in Int /\ bound \in Int
      OBVIOUS
    <3> QED
      BY <3>1, FS_Interval
  <2> QED
    BY <2>1
<1> DEFINE Share(s) == {a \in D : by[a] = s}
<1>5. \A s \in Sources : Injection(Share(s) \X U, B) # {}
  <2> SUFFICES ASSUME NEW s \in Sources PROVE Injection(Share(s) \X U, B) # {}
    OBVIOUS
  <2>1. PICK F : F = Share(s) /\ IsFiniteSet(F) /\ Cardinality(F) * unit <= bound
    BY FS_Subset
  <2>2. PICK m : m = Cardinality(F \X U) /\ IsFiniteSet(F \X U) /\ m <= bound /\ m \in Nat
    <3>1. IsFiniteSet(F \X U) /\ Cardinality(F \X U) = Cardinality(F) * Cardinality(U)
      BY <1>4, <2>1, FS_Product
    <3> QED
      BY <1>4, <2>1, <3>1, FS_CardinalityType
  <2>3. ExistsBijection(F \X U, 1 .. m)
    BY <2>2, FS_CardinalityType, Fun_ExistsBijSymmetric
  <2>4. PICK g : g \in Bijection(F \X U, 1 .. m)
    BY <2>3 DEF ExistsBijection
  <2>5. g \in Injection(F \X U, 1 .. m)
    BY <2>4 DEF Bijection
  <2>6. 1 .. m \in SUBSET B
    BY <1>4, <2>2
  <2>7. g \in Injection(F \X U, B)
    BY <2>5, <2>6 DEF Injection
  <2> QED
    BY <2>1, <2>7
<1>6. PICK h : h = [s \in Sources |-> CHOOSE g : g \in Injection(Share(s) \X U, B)]
  OBVIOUS
<1>7. \A s \in Sources : h[s] \in Injection(Share(s) \X U, B)
  BY <1>5, <1>6
<1>8. \A s \in Sources : \A x \in Share(s) \X U :
          /\ h[s][x] \in B
          /\ \A y \in Share(s) \X U : h[s][x] = h[s][y] => x = y
  <2> SUFFICES ASSUME NEW s \in Sources, NEW x \in Share(s) \X U
               PROVE  /\ h[s][x] \in B
                      /\ \A y \in Share(s) \X U : h[s][x] = h[s][y] => x = y
    OBVIOUS
  <2>1. PICK into, X : into = h[s] /\ X = Share(s) \X U
    OBVIOUS
  <2>2. into \in [X -> B] /\ \A y, z \in X : into[y] = into[z] => y = z
    <3>1. into \in Injection(X, B)
      BY <1>7, <2>1
    <3> QED
      BY <3>1 DEF Injection, IsInjective
  <2> QED
    BY <2>1, <2>2
<1>9. \A x \in D \X U : x[1] \in D /\ by[x[1]] \in Sources /\ x \in Share(by[x[1]]) \X U
  OBVIOUS
<1>10. PICK g : g = [x \in D \X U |-> <<by[x[1]], h[by[x[1]]][x]>>]
  OBVIOUS
<1>11. g \in Injection(D \X U, Sources \X B)
  <2>1. g \in [D \X U -> Sources \X B]
    BY <1>8, <1>9, <1>10
  <2>2. ASSUME NEW x \in D \X U, NEW y \in D \X U, g[x] = g[y]
        PROVE  x = y
    <3>1. by[x[1]] = by[y[1]] /\ h[by[x[1]]][x] = h[by[y[1]]][y]
      BY <1>10, <2>2
    <3>2. PICK s \in Sources : s = by[x[1]] /\ x \in Share(s) \X U /\ y \in Share(s) \X U
      BY <1>9, <3>1
    <3> QED
      BY <1>8, <3>1, <3>2
  <2> QED
    BY <2>1, <2>2 DEF Injection, IsInjective
<1>12. /\ IsFiniteSet(D \X U) /\ Cardinality(D \X U) = Cardinality(D) * unit
       /\ IsFiniteSet(Sources \X B) /\ Cardinality(Sources \X B) = Cardinality(Sources) * bound
  BY <1>3, <1>4, FS_Product, ZenonT(60)
<1>13. Cardinality(D \X U) <= Cardinality(Sources \X B)
  BY <1>11, <1>12, FS_Injection
<1> QED
  BY <1>3, <1>12, <1>13

-----------------------------------------------------------------------------
\* The admissions of k that the storage s answered with, and those that the server
\* recorded, between two instants; and the callers that have yet to return with one.
AnsweredIn(k, s, first, last) == Occurrences(answers[k], [by : {s}, at : first .. last])
GrantedIn(k, first, last)     == Occurrences(granted[k], {g \in Grants : g.stamp \in first .. last})
HeldIn(k, first, last)        == {c \in Callers : Holds(c, k) /\ local[c].now \in first .. last}

\* The key is gone no sooner than the theoretical arrival time.
ServerRationed(k) ==
    /\ store[k].entry # <<>> => store[k].entry[1] <= store[k].expires
    /\ \A first, last \in Int :
           Rationed(store[k].entry, 0, Cardinality(GrantedIn(k, first, last)), first, last,
                    RuleOf[k].capacity, RuleOf[k].interval)

ProcessRationed(k, p) ==
    \A first, last \in Int :
        Rationed(fallback[p][k], Skew[p], Cardinality(AnsweredIn(k, p, first, last)), first, last,
                 RuleOf[k].capacity, RuleOf[k].interval)

\* Nobody answers for the server but with an admission of its own.
AccountedIn(k, first, last) ==
    Cardinality(AnsweredIn(k, "server", first, last)) + Cardinality(HeldIn(k, first, last))
        <= Cardinality(GrantedIn(k, first, last))

AnsweredByStorages(k) ==
    PolicyOf[k] = "memory" =>
        \A a \in DOMAIN answers[k] : answers[k][a].by \in Processes \cup {"server"}

FallbackTyped == fallback \in [Processes -> [Keys -> Entry]]
                 /\ \A p \in Processes, k \in Keys : fallback[p][k] \in EntryUnder(RuleOf[k])

RationedKeys == KeysUnder("gcra") \cap ServerTimed

OutageInv ==
    /\ FallbackTyped
    /\ \A k \in RationedKeys :
           /\ ServerRationed(k)
           /\ \A first, last \in Int : AccountedIn(k, first, last)
    /\ \A k \in KeysUnder("gcra"), p \in Processes : ProcessRationed(k, p)
    /\ \A k \in Keys : AnsweredByStorages(k)

LEMMA RationedRule ==
    ASSUME NEW k \in KeysUnder("gcra")
    PROVE  /\ k \in Keys \ FixedKeys /\ RuleOf[k].algorithm = "gcra" /\ RuleOf[k] \in LimitRule
           /\ RuleOf[k].capacity \in Positive /\ RuleOf[k].interval \in Positive
           /\ StoredUnder(RuleOf[k]) = {e \in Entry : Len(e) \in {0, 1}}
           /\ EntryUnder(RuleOf[k]) = {e \in Entry : Len(e) \in {0, 1}}
<1>1. k \in Keys /\ RuleOf[k].algorithm = "gcra" /\ RuleOf[k] \in LimitRule
  BY RedisAssumption DEF KeysUnder
<1>2. k \in Keys \ FixedKeys
  BY <1>1 DEF FixedKeys, IsFixed
<1>3. RuleOf[k].capacity \in Positive /\ RuleOf[k].interval \in Positive
  BY <1>1 DEF LimitRule, WindowRule, BucketRule
<1>4. /\ EntryUnder(RuleOf[k]) = {e \in Entry : Len(e) \in {0, 1}}
      /\ StoredUnder(RuleOf[k]) = EntryUnder(RuleOf[k])
  BY <1>1 DEF StoredUnder, EntryUnder
<1> QED
  BY <1>1, <1>2, <1>3, <1>4

\* How the counts move with a history.
LEMMA GrantedMore ==
    ASSUME Typed, NEW k \in Keys, NEW first \in Int, NEW last \in Int,
           NEW grant \in Grants, NEW allowed,
           granted'[k] = IF allowed THEN Append(granted[k], grant) ELSE granted[k]
    PROVE  /\ Cardinality(GrantedIn(k, first, last)) \in Nat
           /\ Cardinality(GrantedIn(k, first, last)') =
                  Cardinality(GrantedIn(k, first, last))
                    + (IF allowed /\ grant.stamp \in first .. last THEN 1 ELSE 0)
<1>1. PICK T : T = {g \in Grants : g.stamp \in first .. last}
  OBVIOUS
<1>2. PICK g \in Seq(Grants) : g = granted[k]
  BY DEF Typed, ServerTyped
<1>3. /\ Cardinality(Occurrences(g, T)) \in Nat
      /\ Cardinality(Occurrences(Append(g, grant), T)) = Cardinality(Occurrences(g, T)) + One(grant, T)
  BY OccurrencesMore
<1>4. One(grant, T) = IF grant.stamp \in first .. last THEN 1 ELSE 0
  BY <1>1 DEF One
<1>5. /\ GrantedIn(k, first, last) = Occurrences(g, T)
      /\ GrantedIn(k, first, last)' = Occurrences(granted'[k], T)
  BY <1>1, <1>2 DEF GrantedIn
<1>6. CASE allowed
  BY <1>2, <1>3, <1>4, <1>5, <1>6
<1>7. CASE ~allowed
  BY <1>2, <1>3, <1>5, <1>7
<1> QED
  BY <1>6, <1>7

\* An answer to c that AnsweredIn(k, s, first, last) counts.
Tells(c, allowed, by, at, k, s, first, last) ==
    k = key[c] /\ allowed /\ by = s /\ at \in first .. last

LEMMA AnsweredMore ==
    ASSUME Typed, NEW c \in Callers, NEW allowed, NEW by \in Answerers, NEW at \in Int,
           Answer(c, allowed, by, at),
           NEW k \in Keys, NEW s, NEW first \in Int, NEW last \in Int
    PROVE  /\ Cardinality(AnsweredIn(k, s, first, last)) \in Nat
           /\ Tells(c, allowed, by, at, k, s, first, last) =>
                  Cardinality(AnsweredIn(k, s, first, last)') =
                      Cardinality(AnsweredIn(k, s, first, last)) + 1
           /\ ~Tells(c, allowed, by, at, k, s, first, last) =>
                  Cardinality(AnsweredIn(k, s, first, last)') =
                      Cardinality(AnsweredIn(k, s, first, last))
<1>1. PICK T : T = [by : {s}, at : first .. last]
  OBVIOUS
<1>2. PICK told \in Seq([by : Answerers, at : Int]), answer \in [by : Answerers, at : Int] :
          told = answers[k] /\ answer = [by |-> by, at |-> at]
  BY DEF Typed, AnswersTyped
<1>3. answers'[k] = IF k = key[c] /\ allowed THEN Append(told, answer) ELSE told
  <2>1. /\ \A l \in Keys \ {key[c]} : answers'[l] = answers[l]
        /\ answers'[key[c]] = IF allowed THEN Append(answers[key[c]], [by |-> by, at |-> at])
                                         ELSE answers[key[c]]
    BY Answered
  <2> QED
    BY <1>2, <2>1
<1>4. /\ Cardinality(Occurrences(told, T)) \in Nat
      /\ Cardinality(Occurrences(Append(told, answer), T)) =
             Cardinality(Occurrences(told, T)) + One(answer, T)
  BY OccurrencesMore
<1>5. One(answer, T) = IF by = s /\ at \in first .. last THEN 1 ELSE 0
  <2>1. answer \in T <=> by = s /\ at \in first .. last
    BY <1>1, <1>2
  <2> QED
    BY <2>1 DEF One
<1>6. /\ AnsweredIn(k, s, first, last) = Occurrences(told, T)
      /\ AnsweredIn(k, s, first, last)' = Occurrences(answers'[k], T)
  <2>1. AnsweredIn(k, s, first, last)' = Occurrences(answers'[k], T)
    BY <1>1 DEF AnsweredIn
  <2> QED
    BY <1>1, <1>2, <2>1 DEF AnsweredIn
<1>7. CASE k = key[c] /\ allowed
  BY <1>3, <1>4, <1>5, <1>6, <1>7 DEF Tells
<1>8. CASE ~(k = key[c] /\ allowed)
  BY <1>3, <1>4, <1>6, <1>8 DEF Tells
<1> QED
  BY <1>7, <1>8

-----------------------------------------------------------------------------
LEMMA ServerRationedKept ==
    ASSUME Typed, NEW k \in RationedKeys, ServerRationed(k), [Next]_vars
    PROVE  ServerRationed(k)'
<1>1. /\ k \in KeysUnder("gcra") /\ k \in Keys \ FixedKeys /\ k \in ServerTimed
      /\ RuleOf[k].algorithm = "gcra"
  BY RationedRule DEF RationedKeys
<1>2. PICK capacity \in Positive, interval \in Positive :
          capacity = RuleOf[k].capacity /\ interval = RuleOf[k].interval
  BY <1>1, RationedRule
<1>3. ASSUME store'[k] = store[k], granted'[k] = granted[k]
      PROVE  ServerRationed(k)'
  <2>1. \A first, last \in Int : GrantedIn(k, first, last)' = GrantedIn(k, first, last)
    BY <1>3 DEF GrantedIn
  <2> QED
    BY <1>3, <2>1 DEF ServerRationed
<1>4. ASSUME NEW l \in Keys \ FixedKeys, NEW t \in Times, NEW id \in RequestIds, NEW p,
             Eval(id, p, l, t), l # k
      PROVE  ServerRationed(k)'
  <2>1. PICK script, grant : script = Evaluated(id, l, t)
                             /\ grant = [stamp |-> ScriptTime(l, t), at |-> clock]
    OBVIOUS
  <2>2. store'[k] = store[k] /\ granted'[k] = granted[k]
    BY <1>1, <1>4, <2>1, EvalWrites
  <2> QED
    BY <1>3, <2>2
<1>5. ASSUME NEW t \in Times, NEW id \in RequestIds, NEW p, Eval(id, p, k, t)
      PROVE  ServerRationed(k)'
  <2>1. PICK script, live, now, grant :
            /\ script = Evaluated(id, k, t) /\ live = LiveEntry(k) /\ now = clock
            /\ grant = [stamp |-> ScriptTime(k, t), at |-> clock] /\ ScriptTime(k, t) = now
    BY <1>1 DEF ScriptTime
  <2>2. PICK entry \in Entry, expires \in Int :
            /\ entry = store[k].entry /\ expires = store[k].expires /\ Len(entry) \in {0, 1}
            /\ now \in Nat
            /\ entry # <<>> => entry[1] <= expires
    <3>1. store[k].entry \in StoredUnder(RuleOf[k]) /\ store[k].expires \in Int /\ clock \in Nat
      BY <1>1, RedisAssumption DEF Typed, ServerTyped, ClientsTyped
    <3>2. store[k].entry # <<>> => store[k].entry[1] <= store[k].expires
      BY DEF ServerRationed
    <3> QED
      BY <1>1, <2>1, <3>1, <3>2, RationedRule
  <2>3. PICK outcome : /\ outcome = gcra(live, capacity, interval, now)
                       /\ script = Expiring(outcome, outcome.reset_at - now)
    <3>1. script = gcra_script(live, capacity, interval, now)
      BY <1>1, <1>2, <2>1, Zenon DEF Evaluated, Script
    <3> QED
      BY <3>1 DEF gcra_script
  <2>4. /\ store'[k].entry = outcome.entry
        /\ store'[k].expires = IF outcome.allowed THEN now + (outcome.reset_at - now) ELSE expires
        /\ granted'[k] = IF outcome.allowed THEN Append(granted[k], grant) ELSE granted[k]
        /\ grant \in Grants /\ grant.stamp = now
    <3>1. /\ store'[k].entry = script.outcome.entry
          /\ store'[k].expires = IF script.outcome.allowed THEN clock + script.ttl
                                                           ELSE store[k].expires
          /\ granted'[k] = IF script.outcome.allowed /\ ~Known(id, k, t)
                           THEN Append(granted[k], grant) ELSE granted[k]
          /\ grant \in Grants /\ grant.stamp = ScriptTime(k, t)
      BY <1>1, <1>5, <2>1, EvalWrites
    <3>2. ~Known(id, k, t)
      BY <1>1 DEF Known
    <3>3. script.outcome = outcome /\ script.ttl = outcome.reset_at - now
      BY <2>3 DEF Expiring
    <3> QED
      BY <2>1, <2>2, <3>1, <3>2, <3>3
  <2>5. live = entry \/ (live = <<>> /\ entry # <<>> /\ entry[1] <= now)
    <3>1. live = IF expires # Never /\ now > expires THEN <<>> ELSE entry
      BY <2>1, <2>2 DEF LiveEntry, Gone
    <3>2. entry # <<>> => entry[1] \in Int
      BY <2>2 DEF Entry
    <3>3. CASE expires # Never /\ now > expires
      <4>1. entry # <<>> => entry[1] <= now
        BY <2>2, <3>2, <3>3
      <4> QED
        BY <3>1, <3>3, <4>1
    <3>4. CASE ~(expires # Never /\ now > expires)
      BY <3>1, <3>4
    <3> QED
      BY <3>3, <3>4
  <2>6. live \in Entry /\ Len(live) \in {0, 1}
    BY <2>2, <2>5, EmptySeq DEF Entry
  <2>7. outcome.entry # <<>> => outcome.entry[1] <= store'[k].expires
    <3>1. CASE outcome.allowed = FALSE /\ outcome.entry = live /\ live # <<>>
      <4>1. live = entry /\ store'[k].expires = expires
        BY <2>4, <2>5, <3>1
      <4> QED
        BY <2>2, <3>1, <4>1
    <3>2. ASSUME outcome.allowed = TRUE, NEW due \in Int, outcome.entry = <<due>>,
                 outcome.reset_at = due
          PROVE  outcome.entry[1] <= store'[k].expires
      <4>1. store'[k].expires = now + (due - now) /\ outcome.entry[1] = due /\ now \in Int
        BY <2>2, <2>4, <3>2
      <4> QED
        BY <3>2, <4>1
    <3>3. MovesArrival(live, outcome, capacity, interval, now)
      <4>1. /\ live \in Entry /\ Len(live) \in {0, 1} /\ capacity \in Positive /\ interval \in Positive
            /\ now \in Nat /\ outcome = gcra(live, capacity, interval, now)
        BY <2>2, <2>3, <2>6
      <4> QED
        BY <4>1, GcraDecides, ZenonT(30)
    <3> QED
      BY <3>1, <3>2, <3>3 DEF MovesArrival
  <2>8. ASSUME NEW first \in Int, NEW last \in Int
        PROVE  Rationed(outcome.entry, 0, Cardinality(GrantedIn(k, first, last)'), first, last,
                        capacity, interval)
    <3>1. PICK count \in Nat, more \in Nat :
              /\ count = Cardinality(GrantedIn(k, first, last))
              /\ more = Cardinality(GrantedIn(k, first, last)')
              /\ more = count + (IF outcome.allowed /\ now \in first .. last THEN 1 ELSE 0)
      <4>1. /\ Cardinality(GrantedIn(k, first, last)) \in Nat
            /\ Cardinality(GrantedIn(k, first, last)') =
                   Cardinality(GrantedIn(k, first, last))
                      + (IF outcome.allowed /\ grant.stamp \in first .. last THEN 1 ELSE 0)
        BY <1>1, <2>4, GrantedMore
      <4>2. PICK more : more = Cardinality(GrantedIn(k, first, last)')
        OBVIOUS
      <4>3. more \in Nat /\ more = Cardinality(GrantedIn(k, first, last))
                                    + (IF outcome.allowed /\ now \in first .. last THEN 1 ELSE 0)
        BY <2>4, <4>1, <4>2
      <4> QED
        BY <4>1, <4>2, <4>3
    <3>2. Rationed(entry, 0, count, first, last, capacity, interval)
      BY <1>2, <2>2, <3>1 DEF ServerRationed
    <3>3. more = count + (IF outcome.allowed /\ now - 0 \in first .. last THEN 1 ELSE 0)
      BY <2>2, <3>1
    <3>4. Rationed(outcome.entry, 0, more, first, last, capacity, interval)
      <4>1. /\ capacity \in Positive /\ interval \in Positive /\ entry \in Entry
            /\ Len(entry) \in {0, 1} /\ now \in Nat /\ 0 \in Nat /\ count \in Nat /\ more \in Nat
            /\ first \in Int /\ last \in Int
            /\ live = entry \/ (live = <<>> /\ entry # <<>> /\ entry[1] <= now)
            /\ outcome = gcra(live, capacity, interval, now)
        BY <2>2, <2>3, <2>5
      <4> QED
        BY <3>2, <3>3, <4>1, RationKept, ZenonT(60)
    <3> QED
      BY <3>1, <3>4
  <2> QED
    BY <1>2, <2>4, <2>7, <2>8 DEF ServerRationed
<1>6. CASE Passive /\ \A l \in Keys \ FixedKeys : granted'[l] = granted[l]
  BY <1>1, <1>3, <1>6 DEF Passive
<1> QED
  BY <1>4, <1>5, <1>6, ServerStep

LEMMA GrantsGrow ==
    ASSUME Typed, NEW k \in Keys \ FixedKeys, NEW first \in Int, NEW last \in Int, [Next]_vars
    PROVE  /\ Cardinality(GrantedIn(k, first, last)) \in Nat
           /\ Cardinality(GrantedIn(k, first, last)') \in Nat
           /\ Cardinality(GrantedIn(k, first, last)) <= Cardinality(GrantedIn(k, first, last)')
<1>1. ASSUME NEW grant \in Grants, NEW allowed,
             granted'[k] = IF allowed THEN Append(granted[k], grant) ELSE granted[k]
      PROVE  /\ Cardinality(GrantedIn(k, first, last)) \in Nat
             /\ Cardinality(GrantedIn(k, first, last)') \in Nat
             /\ Cardinality(GrantedIn(k, first, last)) <= Cardinality(GrantedIn(k, first, last)')
  <2>1. /\ Cardinality(GrantedIn(k, first, last)) \in Nat
        /\ Cardinality(GrantedIn(k, first, last)') =
               Cardinality(GrantedIn(k, first, last))
                  + (IF allowed /\ grant.stamp \in first .. last THEN 1 ELSE 0)
    BY <1>1, GrantedMore
  <2> QED
    BY <2>1
<1>2. PICK some : some \in Grants
  <2>1. 0 \in Times /\ 0 \in 0 .. MaxTime
    BY RedisAssumption DEF Times
  <2>2. [stamp |-> 0, at |-> 0] \in Grants
    BY <2>1 DEF Grants
  <2> QED
    BY <2>2
<1>3. ASSUME granted'[k] = granted[k]
      PROVE  granted'[k] = IF FALSE THEN Append(granted[k], some) ELSE granted[k]
  BY <1>3
<1>4. CASE granted'[k] = granted[k]
  BY <1>1, <1>2, <1>3, <1>4
<1>5. ASSUME NEW l \in Keys \ FixedKeys, NEW t \in Times, NEW id \in RequestIds, NEW p,
             Eval(id, p, l, t)
      PROVE  \/ granted'[k] = granted[k]
             \/ \E grant \in Grants : granted'[k] = Append(granted[k], grant)
  <2>1. PICK script, grant : script = Evaluated(id, l, t)
                             /\ grant = [stamp |-> ScriptTime(l, t), at |-> clock]
    OBVIOUS
  <2>2. /\ granted'[l] = IF script.outcome.allowed /\ ~Known(id, l, t)
                         THEN Append(granted[l], grant) ELSE granted[l]
        /\ grant \in Grants
        /\ \A m \in Keys \ {l} : granted'[m] = granted[m]
    BY <1>5, <2>1, EvalWrites
  <2> QED
    BY <2>2
<1>6. ASSUME NEW grant \in Grants, granted'[k] = Append(granted[k], grant)
      PROVE  granted'[k] = IF TRUE THEN Append(granted[k], grant) ELSE granted[k]
  BY <1>6
<1>7. CASE \E grant \in Grants : granted'[k] = Append(granted[k], grant)
  BY <1>1, <1>6, <1>7
<1> QED
  BY <1>4, <1>5, <1>7, ServerStep

-----------------------------------------------------------------------------
\* A caller holds an admission of a script once it has been executed.
LEMMA HeldPlaces ==
    ASSUME NEW k \in Keys \ FixedKeys, NEW c \in Callers
    PROVE  /\ ClientsTyped =>
                 (Holds(c, k) <=> key[c] = k /\ local[c].allowed /\ pc[c] = "executed")
           /\ ClientsTyped' =>
                 (Holds(c, k)' <=> key'[c] = k /\ local'[c].allowed /\ pc'[c] = "executed")
<1>1. ~IsFixed(k)
  BY DEF FixedKeys
<1>2. ASSUME ClientsTyped
      PROVE  Holds(c, k) <=> key[c] = k /\ local[c].allowed /\ pc[c] = "executed"
  <2>1. pc[c] = "sent" /\ key[c] = k => local[c].op = "EVAL"
    BY <1>1, <1>2 DEF ClientsTyped
  <2> QED
    BY <2>1 DEF Holds
<1>3. ASSUME ClientsTyped'
      PROVE  Holds(c, k)' <=> key'[c] = k /\ local'[c].allowed /\ pc'[c] = "executed"
  <2>1. pc'[c] = "sent" /\ key'[c] = k => local'[c].op = "EVAL"
    BY <1>1, <1>3 DEF ClientsTyped, IsFixed
  <2> QED
    BY <2>1 DEF Holds
<1> QED
  BY <1>2, <1>3

LEMMA HeldMoves ==
    ASSUME NEW c \in Callers, OthersStay(c), NEW k, NEW first, NEW last
    PROVE  /\ Cardinality(HeldIn(k, first, last)) \in Nat
           /\ Cardinality(HeldIn(k, first, last)') \in Nat
           /\ Cardinality(HeldIn(k, first, last)') + One(c, HeldIn(k, first, last))
                 <= Cardinality(HeldIn(k, first, last)) + One(c, HeldIn(k, first, last)')
<1>1. PICK h \in SUBSET Callers, r \in SUBSET Callers :
          h = HeldIn(k, first, last) /\ r = HeldIn(k, first, last)'
  BY DEF HeldIn
<1>2. \A d \in Callers \ {c} : d \in r => d \in h
  BY <1>1 DEF HeldIn, OthersStay, Holds
<1>3. r \in SUBSET (h \cup {c})
  BY <1>2
<1>4. IsFiniteSet(h)
  BY RedisAssumption, FS_Subset
<1>5. /\ Cardinality(r) \in Nat /\ Cardinality(h) \in Nat
      /\ Cardinality(r) + One(c, h) <= Cardinality(h) + One(c, r)
  BY <1>3, <1>4, OneApart
<1> QED
  BY <1>1, <1>5

\* The execution of a caller's script.
LEMMA AccountServed ==
    ASSUME Typed, NEW c \in Callers, ServeEval(c), key[c] \in RationedKeys, OthersStay(c),
           NEW k, k = key[c], NEW first \in Int, NEW last \in Int, AccountedIn(k, first, last),
           Cardinality(AnsweredIn(k, "server", first, last)) \in Nat,
           ClientsTyped'
    PROVE  AccountedIn(k, first, last)'
<1>1. /\ k \in Keys \ FixedKeys /\ k \in ServerTimed /\ RuleOf[k].algorithm = "gcra"
  BY RationedRule DEF RationedKeys
<1>2. PICK id \in RequestIds, t \in Times, p \in Processes :
          id = CallId(c) /\ t = local[c].stamp /\ p = ProcessOf[c]
  BY CommandsTyped, RedisAssumption
<1>3. PICK script, grant, allowed : script = Evaluated(id, k, t)
                           /\ grant = [stamp |-> ScriptTime(k, t), at |-> clock]
                           /\ allowed = script.outcome.allowed
  OBVIOUS
<1>4. /\ pc[c] = "sent" /\ pc'[c] = "executed" /\ key' = key /\ answers' = answers
      /\ Eval(id, p, k, t)
      /\ local'[c].allowed = allowed /\ local'[c].now = clock
  <2>1. /\ pc[c] = "sent" /\ pc'[c] = "executed" /\ key' = key /\ answers' = answers
    BY CallerStep DEF Served
  <2>2. Eval(id, p, k, t)
    BY <1>2 DEF ServeEval
  <2>3. local' = [local EXCEPT ![c].now = ScriptTime(k, @), ![c].allowed = allowed]
    BY <1>2, <1>3 DEF ServeEval
  <2>4. local \in [Callers -> Locals] /\ local[c] \in Locals
    BY DEF Typed, ClientsTyped
  <2>5. local'[c].allowed = allowed /\ local'[c].now = ScriptTime(k, local[c].now)
    BY <2>3, <2>4 DEF Locals
  <2>6. ScriptTime(k, local[c].now) = clock
    BY <1>1 DEF ScriptTime
  <2> QED
    BY <2>1, <2>2, <2>5, <2>6
<1>5. /\ granted'[k] = IF allowed THEN Append(granted[k], grant) ELSE granted[k]
      /\ grant \in Grants /\ grant.stamp = clock
  <2>1. /\ granted'[k] = IF script.outcome.allowed /\ ~Known(id, k, t)
                         THEN Append(granted[k], grant) ELSE granted[k]
        /\ grant \in Grants /\ grant.stamp = ScriptTime(k, t)
    BY <1>1, <1>3, <1>4, EvalWrites
  <2>2. ~Known(id, k, t) /\ ScriptTime(k, t) = clock
    BY <1>1 DEF Known, ScriptTime
  <2> QED
    BY <1>3, <2>1, <2>2
<1>6. PICK A \in Nat, H \in Nat, G \in Nat, more \in Nat, held \in Nat :
          /\ A = Cardinality(AnsweredIn(k, "server", first, last))
          /\ H = Cardinality(HeldIn(k, first, last)) /\ G = Cardinality(GrantedIn(k, first, last))
          /\ more = Cardinality(GrantedIn(k, first, last)')
          /\ held = Cardinality(HeldIn(k, first, last)')
          /\ more = G + (IF allowed /\ clock \in first .. last THEN 1 ELSE 0)
          /\ held + One(c, HeldIn(k, first, last)) <= H + One(c, HeldIn(k, first, last)')
  <2>1. /\ Cardinality(GrantedIn(k, first, last)) \in Nat
        /\ Cardinality(GrantedIn(k, first, last)') =
               Cardinality(GrantedIn(k, first, last))
                  + (IF allowed /\ grant.stamp \in first .. last THEN 1 ELSE 0)
    BY <1>1, <1>5, GrantedMore
  <2>2. /\ Cardinality(HeldIn(k, first, last)) \in Nat
        /\ Cardinality(HeldIn(k, first, last)') \in Nat
        /\ Cardinality(HeldIn(k, first, last)') + One(c, HeldIn(k, first, last))
              <= Cardinality(HeldIn(k, first, last)) + One(c, HeldIn(k, first, last)')
    BY HeldMoves
  <2> QED
    BY <1>5, <2>1, <2>2
<1>7. One(c, HeldIn(k, first, last)) = 0
  <2>1. ~Holds(c, k)
    BY <1>1, <1>4, HeldPlaces DEF Typed
  <2> QED
    BY <2>1 DEF One, HeldIn
<1>8. One(c, HeldIn(k, first, last)') = IF allowed /\ clock \in first .. last THEN 1 ELSE 0
  <2>1. Holds(c, k)' <=> allowed
    BY <1>1, <1>4, HeldPlaces
  <2>2. c \in HeldIn(k, first, last)' <=> allowed /\ clock \in first .. last
    BY <1>4, <2>1 DEF HeldIn
  <2> QED
    BY <2>2 DEF One
<1>9. AnsweredIn(k, "server", first, last)' = AnsweredIn(k, "server", first, last)
  BY <1>4 DEF AnsweredIn
<1>10. A + H <= G
  BY <1>6 DEF AccountedIn
<1>11. A + held <= more
  BY <1>6, <1>7, <1>8, <1>10
<1> QED
  BY <1>6, <1>9, <1>11 DEF AccountedIn

LEMMA AnswerStep ==
    ASSUME Typed, [Next]_vars
    PROVE  \/ answers' = answers /\ fallback' = fallback
           \/ \E c \in Callers : ResortToMemory(c)
           \/ \E c \in Callers : /\ Return(c) \/ FailOpen(c) \/ FailClosed(c)
                                 /\ fallback' = fallback
<1>1. CASE ServeLate \/ Tick \/ Finished \/ UNCHANGED vars
  BY <1>1, Zenon DEF ServeLate, Tick, Finished, vars, historyVars
<1>2. ASSUME NEW c \in Callers, Served(c) \/ Begin(c) \/ ReceiveAndGoOn(c) \/ Fault(c)
      PROVE  answers' = answers /\ fallback' = fallback
  BY <1>2, Zenon DEF Served, ServeTime, ServeIncr, ServeExpire, ServeEval, Serve, Begin, ReceiveAndGoOn,
     Fault, Resend, Fail, Cancel, historyVars
<1>3. ASSUME NEW c \in Callers, Return(c) \/ FailOpen(c) \/ FailClosed(c)
      PROVE  fallback' = fallback
  BY <1>3, Zenon DEF Return, FailOpen, FailClosed
<1> QED
  BY <1>1, <1>2, <1>3, Zenon DEF Next, Proceed

\* Answers that count nothing at a process.
LEMMA OtherAnswers ==
    ASSUME Typed, NEW c \in Callers, Return(c) \/ FailOpen(c) \/ FailClosed(c)
    PROVE  \E allowed : \E by \in {"server", "open", "closed"}, at \in Int :
                /\ Answer(c, allowed, by, at)
                /\ by = "server" => Return(c) /\ allowed = local[c].allowed /\ at = local[c].now
                /\ by # "server" => PolicyOf[key[c]] = by
<1>1. local[c].now \in Int /\ clock \in Int
  BY ClockReading, CommandsTyped DEF Typed, ClientsTyped
<1>2. CASE Return(c)
  <2>1. Answer(c, local[c].allowed, "server", local[c].now)
    BY <1>2 DEF Return
  <2>2. PICK allowed : allowed = local[c].allowed
    OBVIOUS
  <2>3. Answer(c, allowed, "server", local[c].now)
    BY <2>1, <2>2
  <2> QED
    BY <1>1, <1>2, <2>2, <2>3
<1>3. CASE FailOpen(c)
  <2>1. Answer(c, TRUE, "open", clock) /\ PolicyOf[key[c]] = "open"
    BY <1>3, Zenon DEF FailOpen, FellBack
  <2>2. PICK allowed : Answer(c, allowed, "open", clock)
    BY <2>1, Zenon
  <2> QED
    BY <1>1, <2>1, <2>2
<1>4. CASE FailClosed(c)
  <2>1. Answer(c, FALSE, "closed", clock) /\ PolicyOf[key[c]] = "closed"
    BY <1>4, Zenon DEF FailClosed, FellBack
  <2>2. PICK allowed : Answer(c, allowed, "closed", clock)
    BY <2>1, Zenon
  <2> QED
    BY <1>1, <2>1, <2>2
<1> QED
  BY <1>2, <1>3, <1>4

LEMMA AnsweredCounted ==
    ASSUME NEW k \in Keys, NEW s, NEW first, NEW last
    PROVE  /\ AnswersTyped => Cardinality(AnsweredIn(k, s, first, last)) \in Nat
           /\ AnswersTyped' => Cardinality(AnsweredIn(k, s, first, last)') \in Nat
<1>1. PICK T : T = [by : {s}, at : first .. last]
  OBVIOUS
<1>2. AnsweredIn(k, s, first, last) = Occurrences(answers[k], T)
  BY <1>1 DEF AnsweredIn
<1>3. AnsweredIn(k, s, first, last)' = Occurrences(answers'[k], T)
  BY <1>1 DEF AnsweredIn
<1>4. AnswersTyped => answers[k] \in Seq([by : Answerers, at : Int])
  BY DEF AnswersTyped
<1>5. AnswersTyped' => answers'[k] \in Seq([by : Answerers, at : Int])
  BY DEF AnswersTyped, Answerers
<1> QED
  BY <1>2, <1>3, <1>4, <1>5, OccurrencesCounted

\* The answer of the fallback storage.
LEMMA MemoryAnswers ==
    ASSUME Typed, FallbackTyped, NEW c \in Callers, ResortToMemory(c),
           NEW k, k = key[c], NEW p, p = ProcessOf[c], NEW stamp, stamp = local[c].stamp,
           NEW outcome, outcome = Decide(RuleOf[k], fallback[p][k], stamp)
    PROVE  /\ k \in Keys /\ p \in Processes /\ p \notin {"server", "open", "closed"} /\ p \in Answerers
           /\ Skew[p] \in Nat /\ stamp \in Nat /\ stamp - Skew[p] \in Int
           /\ PolicyOf[k] = "memory"
           /\ Answer(c, outcome.allowed, p, stamp - Skew[p])
           /\ fallback'[p][k] = outcome.entry
           /\ \A q \in Processes, l \in Keys : <<q, l>> # <<p, k>> => fallback'[q][l] = fallback[q][l]
           /\ FallbackTyped'
<1>1. /\ k \in Keys /\ p \in Processes /\ p \notin {"server", "open", "closed"} /\ p \in Answerers
      /\ Skew[p] \in Nat /\ RuleOf[k] \in LimitRule
  BY CommandsTyped, RedisAssumption DEF Answerers
<1>2. stamp \in Nat
  BY CommandsTyped, ClockReading DEF Typed, ClientsTyped
<1>3. stamp - Skew[p] \in Int
  BY <1>1, <1>2
<1>4. /\ PolicyOf[k] = "memory" /\ Answer(c, outcome.allowed, p, stamp - Skew[p])
      /\ fallback' = [fallback EXCEPT ![p][k] = outcome.entry]
  BY DEF ResortToMemory, FellBack
<1>5. outcome.entry \in EntryUnder(RuleOf[k]) /\ outcome.entry \in Entry
  <2>1. PICK entry \in EntryUnder(RuleOf[k]) : entry = fallback[p][k]
    BY <1>1 DEF FallbackTyped
  <2>2. outcome.entry \in EntryUnder(RuleOf[k])
    BY <1>1, <1>2, <2>1, DecideType
  <2> QED
    BY <2>2 DEF EntryUnder
<1>6. PICK entry : entry = outcome.entry
  OBVIOUS
<1>7. fallback \in [Processes -> [Keys -> Entry]] /\ fallback' = [fallback EXCEPT ![p][k] = entry]
  BY <1>4, <1>6 DEF FallbackTyped
<1>8. fallback' \in [Processes -> [Keys -> Entry]]
  BY <1>1, <1>5, <1>6, <1>7
<1>9. fallback'[p][k] = entry
  BY <1>1, <1>7
<1>10. \A q \in Processes, l \in Keys : q # p \/ l # k => fallback'[q][l] = fallback[q][l]
  BY <1>1, <1>7
<1>11. \A q \in Processes, l \in Keys : fallback'[q][l] \in EntryUnder(RuleOf[l])
  <2> SUFFICES ASSUME NEW q \in Processes, NEW l \in Keys
               PROVE  fallback'[q][l] \in EntryUnder(RuleOf[l])
    OBVIOUS
  <2>1. CASE q = p /\ l = k
    BY <1>5, <1>6, <1>9, <2>1
  <2>2. CASE q # p \/ l # k
    BY <1>10, <2>2 DEF FallbackTyped
  <2> QED
    BY <2>1, <2>2
<1>12. FallbackTyped'
  BY <1>8, <1>11 DEF FallbackTyped
<1> QED
  BY <1>1, <1>2, <1>3, <1>4, <1>6, <1>9, <1>10, <1>12

LEMMA FallbackKept == ASSUME Typed, FallbackTyped, [Next]_vars PROVE FallbackTyped'
<1>1. CASE fallback' = fallback
  BY <1>1 DEF FallbackTyped
<1>2. ASSUME NEW c \in Callers, ResortToMemory(c)
      PROVE  FallbackTyped'
  BY <1>2, MemoryAnswers
<1> QED
  BY <1>1, <1>2, AnswerStep

LEMMA ProcessRationedKept ==
    ASSUME Typed, FallbackTyped, NEW k \in KeysUnder("gcra"), NEW p \in Processes,
           ProcessRationed(k, p), [Next]_vars
    PROVE  ProcessRationed(k, p)'
<1>1. /\ k \in Keys /\ RuleOf[k].algorithm = "gcra"
      /\ EntryUnder(RuleOf[k]) = {e \in Entry : Len(e) \in {0, 1}}
  BY RationedRule
<1>2. PICK capacity \in Positive, interval \in Positive :
          capacity = RuleOf[k].capacity /\ interval = RuleOf[k].interval
  BY RationedRule
<1>3. p \notin {"server", "open", "closed"} /\ Skew[p] \in Nat
  BY RedisAssumption
<1>4. ASSUME fallback'[p][k] = fallback[p][k],
             \A first, last \in Int : Cardinality(AnsweredIn(k, p, first, last)')
                                          = Cardinality(AnsweredIn(k, p, first, last))
      PROVE  ProcessRationed(k, p)'
  BY <1>4 DEF ProcessRationed
<1>5. CASE answers' = answers /\ fallback' = fallback
  BY <1>4, <1>5 DEF AnsweredIn
<1>6. ASSUME NEW c \in Callers, Return(c) \/ FailOpen(c) \/ FailClosed(c), fallback' = fallback
      PROVE  ProcessRationed(k, p)'
  <2>1. PICK allowed : \E by \in {"server", "open", "closed"}, at \in Int : Answer(c, allowed, by, at)
    BY <1>6, OtherAnswers
  <2>2. PICK by \in {"server", "open", "closed"}, at \in Int : Answer(c, allowed, by, at)
    BY <2>1
  <2>3. by \in Answerers /\ by # p
    BY <1>3, <2>2 DEF Answerers
  <2>4. ASSUME NEW first \in Int, NEW last \in Int
        PROVE  Cardinality(AnsweredIn(k, p, first, last)')
                   = Cardinality(AnsweredIn(k, p, first, last))
    <3>1. /\ by \in Answerers /\ at \in Int /\ Answer(c, allowed, by, at) /\ by # p /\ k \in Keys
          /\ c \in Callers /\ first \in Int /\ last \in Int
      BY <1>1, <1>6, <2>2, <2>3, <2>4
    <3>2. ~Tells(c, allowed, by, at, k, p, first, last)
      BY <2>3 DEF Tells
    <3> QED
      BY <3>1, <3>2, AnsweredMore
  <2> QED
    BY <1>4, <1>6, <2>4
<1>7. ASSUME NEW c \in Callers, ResortToMemory(c)
      PROVE  ProcessRationed(k, p)'
  <2>1. PICK q, l, now, outcome : /\ l = key[c] /\ q = ProcessOf[c] /\ now = local[c].stamp
                                  /\ outcome = Decide(RuleOf[l], fallback[q][l], now)
    OBVIOUS
  <2>2. /\ l \in Keys /\ q \in Processes /\ q \in Answerers /\ now \in Nat
        /\ now - Skew[q] \in Int
        /\ Answer(c, outcome.allowed, q, now - Skew[q])
        /\ fallback'[q][l] = outcome.entry
        /\ \A r \in Processes, m \in Keys : <<r, m>> # <<q, l>> => fallback'[r][m] = fallback[r][m]
    BY <1>7, <2>1, MemoryAnswers
  <2>3. PICK allowed, at : at \in Int /\ allowed = outcome.allowed /\ at = now - Skew[q]
    BY <2>2
  <2>4. ASSUME NEW first \in Int, NEW last \in Int
        PROVE  /\ Cardinality(AnsweredIn(k, p, first, last)) \in Nat
               /\ Tells(c, allowed, q, at, k, p, first, last) =>
                      Cardinality(AnsweredIn(k, p, first, last)') =
                          Cardinality(AnsweredIn(k, p, first, last)) + 1
               /\ ~Tells(c, allowed, q, at, k, p, first, last) =>
                      Cardinality(AnsweredIn(k, p, first, last)') =
                          Cardinality(AnsweredIn(k, p, first, last))
    <3>1. /\ q \in Answerers /\ at \in Int /\ Answer(c, allowed, q, at) /\ k \in Keys /\ l = key[c]
          /\ c \in Callers /\ first \in Int /\ last \in Int
      BY <1>1, <1>7, <2>1, <2>2, <2>3, <2>4
    <3> QED
      BY <3>1, AnsweredMore
  <2>5. CASE ~(k = l /\ p = q)
    <3>1. fallback'[p][k] = fallback[p][k]
      BY <1>1, <2>2, <2>5
    <3>2. \A first, last \in Int : Cardinality(AnsweredIn(k, p, first, last)')
                                       = Cardinality(AnsweredIn(k, p, first, last))
      BY <2>1, <2>4, <2>5 DEF Tells
    <3> QED
      BY <1>4, <3>1, <3>2
  <2>6. CASE k = l /\ p = q
    <3>1. PICK entry \in Entry : entry = fallback[p][k] /\ Len(entry) \in {0, 1}
      BY <1>1 DEF FallbackTyped
    <3>2. PICK result : result = outcome.entry /\ fallback'[p][k] = result
                        /\ outcome = gcra(entry, capacity, interval, now)
      <4>1. outcome = Decide(RuleOf[k], entry, now)
        BY <2>1, <2>6, <3>1
      <4>2. outcome = gcra(entry, capacity, interval, now)
        BY <1>1, <1>2, <4>1 DEF Decide
      <4> QED
        BY <2>2, <2>6, <4>2
    <3>3. ASSUME NEW first \in Int, NEW last \in Int
          PROVE  Rationed(result, Skew[p], Cardinality(AnsweredIn(k, p, first, last)'), first, last,
                          capacity, interval)
      <4>1. PICK count, more :
                /\ count = Cardinality(AnsweredIn(k, p, first, last)) /\ count \in Nat
                /\ more = Cardinality(AnsweredIn(k, p, first, last)')
                /\ Tells(c, allowed, q, at, k, p, first, last) => more = count + 1
                /\ ~Tells(c, allowed, q, at, k, p, first, last) => more = count
        BY <2>4
      <4>2. more \in Nat
            /\ more = count + (IF outcome.allowed /\ now - Skew[p] \in first .. last THEN 1 ELSE 0)
        BY <2>1, <2>3, <2>6, <4>1 DEF Tells
      <4>3. Rationed(entry, Skew[p], count, first, last, capacity, interval)
        BY <1>2, <3>1, <4>1 DEF ProcessRationed
      <4>4. /\ capacity \in Positive /\ interval \in Positive /\ entry \in Entry
            /\ Len(entry) \in {0, 1} /\ now \in Nat /\ Skew[p] \in Nat /\ count \in Nat
            /\ first \in Int /\ last \in Int /\ entry = entry
        BY <1>3, <2>2, <3>1, <4>1
      <4>5. Rationed(outcome.entry, Skew[p], more, first, last, capacity, interval)
        BY <3>2, <4>2, <4>3, <4>4, RationKept, ZenonT(60)
      <4> QED
        BY <3>2, <4>1, <4>5
    <3> QED
      BY <1>2, <3>2, <3>3 DEF ProcessRationed
  <2> QED
    BY <2>5, <2>6
<1> QED
  BY <1>5, <1>6, <1>7, AnswerStep

LEMMA StoragesAnswer ==
    ASSUME Typed, FallbackTyped, NEW k \in Keys, AnsweredByStorages(k), [Next]_vars
    PROVE  AnsweredByStorages(k)'
<1> SUFFICES ASSUME PolicyOf[k] = "memory"
             PROVE  \A a \in DOMAIN answers'[k] : answers'[k][a].by \in Processes \cup {"server"}
  BY DEF AnsweredByStorages
<1>1. PICK told \in Seq([by : Answerers, at : Int]) :
          told = answers[k] /\ \A a \in DOMAIN told : told[a].by \in Processes \cup {"server"}
  BY DEF Typed, AnswersTyped, AnsweredByStorages
<1>2. CASE answers'[k] = answers[k]
  BY <1>1, <1>2
<1>3. ASSUME NEW answer \in [by : Answerers, at : Int], answers'[k] = Append(told, answer),
             answer.by \in Processes \cup {"server"}
      PROVE  \A a \in DOMAIN answers'[k] : answers'[k][a].by \in Processes \cup {"server"}
  <2>1. PICK more : more = Append(told, answer)
    OBVIOUS
  <2>2. /\ more \in Seq([by : Answerers, at : Int]) /\ Len(more) = Len(told) + 1
        /\ \A a \in 1 .. Len(told) : more[a] = told[a]
        /\ more[Len(told) + 1] = answer
    BY <2>1, AppendProperties
  <2>3. DOMAIN more = 1 .. Len(told) + 1 /\ DOMAIN told = 1 .. Len(told) /\ Len(told) \in Nat
    BY <2>2, LenProperties
  <2>4. \A a \in DOMAIN more : a \in DOMAIN told \/ a = Len(told) + 1
    BY <2>3
  <2> QED
    BY <1>1, <1>3, <2>1, <2>2, <2>3, <2>4
<1>4. ASSUME NEW c \in Callers, NEW allowed, NEW by \in Processes \cup {"server"}, NEW at \in Int,
             Answer(c, allowed, by, at)
      PROVE  \A a \in DOMAIN answers'[k] : answers'[k][a].by \in Processes \cup {"server"}
  <2>1. by \in Answerers /\ at \in Int
    BY <1>4 DEF Answerers
  <2>2. PICK answer \in [by : Answerers, at : Int] : answer = [by |-> by, at |-> at] /\ answer.by = by
    <3>1. [by |-> by, at |-> at] \in [by : Answerers, at : Int] /\ [by |-> by, at |-> at].by = by
      BY <2>1
    <3> QED
      BY <3>1
  <2>3. answers'[k] = answers[k] \/ answers'[k] = Append(told, answer)
    <3>1. /\ \A l \in Keys \ {key[c]} : answers'[l] = answers[l]
          /\ answers'[key[c]] = IF allowed THEN Append(answers[key[c]], [by |-> by, at |-> at])
                                           ELSE answers[key[c]]
      BY <1>4, <2>1, Answered
    <3> QED
      BY <1>1, <2>2, <3>1
  <2> QED
    BY <1>2, <1>3, <2>2, <2>3
<1>5. ASSUME NEW c \in Callers, Return(c) \/ FailOpen(c) \/ FailClosed(c)
      PROVE  \A a \in DOMAIN answers'[k] : answers'[k][a].by \in Processes \cup {"server"}
  <2>1. PICK allowed : \E by \in {"server", "open", "closed"}, at \in Int :
                           /\ Answer(c, allowed, by, at)
                           /\ by # "server" => PolicyOf[key[c]] = by
    BY <1>5, OtherAnswers
  <2>2. PICK by \in {"server", "open", "closed"}, at \in Int :
            Answer(c, allowed, by, at) /\ (by # "server" => PolicyOf[key[c]] = by)
    BY <2>1, Zenon
  <2>3. CASE by = "server"
    BY <1>4, <2>2, <2>3
  <2>4. CASE by # "server"
    <3>1. key[c] # k
      BY <2>2, <2>4
    <3>2. by \in Answerers
      BY <2>2 DEF Answerers
    <3>3. answers'[k] = answers[k]
      BY <2>2, <3>1, <3>2, Answered
    <3> QED
      BY <1>2, <3>3
  <2> QED
    BY <2>3, <2>4
<1>6. ASSUME NEW c \in Callers, ResortToMemory(c)
      PROVE  \A a \in DOMAIN answers'[k] : answers'[k][a].by \in Processes \cup {"server"}
  <2>1. PICK q, allowed, at : /\ q \in Processes /\ at \in Int /\ Answer(c, allowed, q, at)
    BY <1>6, MemoryAnswers
  <2> QED
    BY <1>4, <2>1
<1> QED
  BY <1>2, <1>5, <1>6, AnswerStep

\* A caller comes to hold an admission of k by the execution of its script only.
LEMMA HeldBefore ==
    ASSUME Typed, ClientsTyped', NEW k \in Keys \ FixedKeys, NEW c \in Callers,
           Served(c) \/ Proceed(c) \/ Fault(c), ~(ServeEval(c) /\ key[c] = k),
           NEW first, NEW last
    PROVE  /\ c \notin HeldIn(k, first, last)'
           /\ Cardinality(HeldIn(k, first, last)) \in Nat
           /\ Cardinality(HeldIn(k, first, last)') \in Nat
           /\ Cardinality(HeldIn(k, first, last)') + One(c, HeldIn(k, first, last))
                 <= Cardinality(HeldIn(k, first, last))
<1>1. ~(pc'[c] = "executed" /\ key'[c] = k)
  <2>1. CASE Served(c)
    <3>1. key' = key /\ pc[c] = "sent"
      BY <2>1, CallerStep
    <3>2. CASE key[c] = k
      <4>1. local[c].op = "EVAL"
        BY <3>1, <3>2 DEF Typed, ClientsTyped, FixedKeys
      <4>2. ServeEval(c)
        BY <2>1, <4>1 DEF Served, ServeTime, ServeIncr, ServeExpire, Serve
      <4> QED
        BY <3>2, <4>2
    <3> QED
      BY <3>1, <3>2
  <2>2. CASE Proceed(c) \/ Fault(c)
    <3>1. pc'[c] # "executed"
      BY <2>2, CallerStep DEF Proceed
    <3> QED
      BY <3>1
  <2> QED
    BY <2>1, <2>2
<1>2. c \notin HeldIn(k, first, last)'
  <2>1. ~Holds(c, k)'
    BY <1>1, HeldPlaces
  <2> QED
    BY <2>1 DEF HeldIn
<1>3. One(c, HeldIn(k, first, last)') = 0
  BY <1>2 DEF One
<1>4. /\ Cardinality(HeldIn(k, first, last)) \in Nat
      /\ Cardinality(HeldIn(k, first, last)') \in Nat
      /\ Cardinality(HeldIn(k, first, last)') + One(c, HeldIn(k, first, last))
            <= Cardinality(HeldIn(k, first, last)) + One(c, HeldIn(k, first, last)')
  BY OthersStayed, HeldMoves
<1> QED
  BY <1>2, <1>3, <1>4

LEMMA AccountKept ==
    ASSUME Typed, FallbackTyped, NEW k \in RationedKeys, NEW first \in Int, NEW last \in Int,
           AccountedIn(k, first, last), [Next]_vars
    PROVE  AccountedIn(k, first, last)'
<1>1. k \in Keys /\ k \in Keys \ FixedKeys
  BY RationedRule DEF RationedKeys
<1>2. ClientsTyped' /\ AnswersTyped'
  BY ClientsKept, AnswersKept
<1>3. PICK A, A2, G, G2 :
          /\ A = Cardinality(AnsweredIn(k, "server", first, last)) /\ A \in Nat
          /\ A2 = Cardinality(AnsweredIn(k, "server", first, last)') /\ A2 \in Nat
          /\ G = Cardinality(GrantedIn(k, first, last)) /\ G \in Nat
          /\ G2 = Cardinality(GrantedIn(k, first, last)') /\ G2 \in Nat
          /\ G <= G2
  BY <1>1, <1>2, AnsweredCounted, GrantsGrow DEF Typed
<1>4. ASSUME NEW H \in Nat, NEW H2 \in Nat,
             H = Cardinality(HeldIn(k, first, last)), H2 = Cardinality(HeldIn(k, first, last)'),
             A2 + H2 <= A + H
      PROVE  AccountedIn(k, first, last)'
  <2>1. A + H <= G
    BY <1>3, <1>4 DEF AccountedIn
  <2>2. A2 + H2 <= G2
    BY <1>3, <1>4, <2>1
  <2> QED
    BY <1>3, <1>4, <2>2 DEF AccountedIn
<1>5. ASSUME NEW c \in Callers, ServeEval(c), key[c] = k
      PROVE  AccountedIn(k, first, last)'
  <2>1. OthersStay(c)
    BY <1>5, OthersStayed DEF Served
  <2> QED
    BY <1>2, <1>3, <1>5, <2>1, AccountServed
<1>6. ASSUME NEW c \in Callers, Served(c) \/ Proceed(c) \/ Fault(c), ~(ServeEval(c) /\ key[c] = k)
      PROVE  AccountedIn(k, first, last)'
  <2>1. PICK H, H2, mine : /\ H = Cardinality(HeldIn(k, first, last)) /\ H \in Nat
                           /\ H2 = Cardinality(HeldIn(k, first, last)') /\ H2 \in Nat
                           /\ mine = One(c, HeldIn(k, first, last)) /\ mine \in {0, 1}
                           /\ H2 + mine <= H
    BY <1>1, <1>2, <1>6, HeldBefore DEF One
  <2>2. ASSUME A2 = A
        PROVE  AccountedIn(k, first, last)'
    BY <1>3, <1>4, <2>1, <2>2
  <2>3. CASE answers' = answers
    BY <1>3, <2>2, <2>3 DEF AnsweredIn
  <2>4. CASE ResortToMemory(c)
    <3>1. PICK q, allowed, at : /\ q \in Answerers /\ q # "server" /\ at \in Int
                                /\ Answer(c, allowed, q, at)
      BY <2>4, MemoryAnswers
    <3>2. A2 = A
      <4>1. /\ q \in Answerers /\ at \in Int /\ Answer(c, allowed, q, at) /\ q # "server" /\ k \in Keys
            /\ c \in Callers /\ first \in Int /\ last \in Int
        BY <1>1, <1>6, <3>1
      <4>2. ~Tells(c, allowed, q, at, k, "server", first, last)
        BY <3>1 DEF Tells
      <4> QED
        BY <1>3, <4>1, <4>2, AnsweredMore
    <3> QED
      BY <2>2, <3>2
  <2>5. CASE Return(c) \/ FailOpen(c) \/ FailClosed(c)
    <3>1. PICK allowed : \E by \in {"server", "open", "closed"}, at \in Int :
                /\ Answer(c, allowed, by, at)
                /\ by = "server" => Return(c) /\ allowed = local[c].allowed /\ at = local[c].now
      BY <2>5, OtherAnswers
    <3>2. PICK by \in {"server", "open", "closed"}, at \in Int :
                /\ Answer(c, allowed, by, at)
                /\ by = "server" => Return(c) /\ allowed = local[c].allowed /\ at = local[c].now
      BY <3>1
    <3>3. by \in Answerers
      BY <3>2 DEF Answerers
    <3>4. /\ Tells(c, allowed, by, at, k, "server", first, last) => A2 = A + 1
          /\ ~Tells(c, allowed, by, at, k, "server", first, last) => A2 = A
      <4>1. /\ by \in Answerers /\ at \in Int /\ Answer(c, allowed, by, at) /\ k \in Keys
            /\ c \in Callers /\ first \in Int /\ last \in Int
        BY <1>1, <1>6, <3>2, <3>3
      <4> QED
        BY <1>3, <4>1, AnsweredMore
    <3>5. CASE Tells(c, allowed, by, at, k, "server", first, last)
      <4>1. Holds(c, k) /\ local[c].now \in first .. last
        BY <3>2, <3>5 DEF Return, Holds, Tells
      <4>2. mine = 1
        BY <2>1, <4>1 DEF One, HeldIn
      <4>3. A2 = A + 1
        BY <3>4, <3>5
      <4> QED
        BY <1>3, <1>4, <2>1, <4>2, <4>3
    <3>6. CASE ~Tells(c, allowed, by, at, k, "server", first, last)
      <4>1. A2 = A
        BY <1>3, <3>4, <3>6
      <4> QED
        BY <2>2, <4>1
    <3> QED
      BY <3>5, <3>6
  <2>6. \/ answers' = answers
        \/ ResortToMemory(c) \/ Return(c) \/ FailOpen(c) \/ FailClosed(c)
    BY <1>6, CallerStep DEF Proceed
  <2> QED
    BY <2>3, <2>4, <2>5, <2>6
<1>7. CASE ServeLate \/ Tick \/ Finished \/ UNCHANGED vars
  <2>1. answers' = answers /\ pc' = pc /\ key' = key /\ local' = local
    BY <1>7, Zenon DEF ServeLate, Tick, Finished, vars, callVars, historyVars
  <2>2. A2 = A /\ HeldIn(k, first, last)' = HeldIn(k, first, last)
    BY <1>3, <2>1 DEF AnsweredIn, HeldIn, Holds
  <2>3. Cardinality(HeldIn(k, first, last)) \in Nat
    BY RedisAssumption, FS_Subset, FS_CardinalityType DEF HeldIn
  <2> QED
    BY <1>3, <1>4, <2>2, <2>3
<1> QED
  BY <1>5, <1>6, <1>7 DEF Next

LEMMA OutageInit == Init => OutageInv
<1> SUFFICES ASSUME Init PROVE OutageInv
  OBVIOUS
<1>1. FallbackTyped
  <2>1. \A rule \in LimitRule : <<>> \in EntryUnder(rule)
    BY Zenon, EmptySeq DEF EntryUnder, Entry
  <2>2. <<>> \in Entry
    BY Zenon, EmptySeq DEF Entry
  <2>3. fallback = [p \in Processes |-> [k \in Keys |-> <<>>]]
    BY DEF Init
  <2>4. \A k \in Keys : RuleOf[k] \in LimitRule
    BY RedisAssumption
  <2> QED
    BY <2>1, <2>2, <2>3, <2>4 DEF FallbackTyped
<1>2. \A k \in Keys : granted[k] = <<>> /\ answers[k] = <<>> /\ store[k].entry = <<>>
  BY DEF Init, Absent
<1>3. \A T : Occurrences(<<>>, T) = {}
  BY DEF Occurrences
<1>4. Cardinality({}) = 0
  BY FS_EmptySet
<1>5. \A k \in Keys : \A s, first, last :
          /\ Cardinality(GrantedIn(k, first, last)) = 0
          /\ Cardinality(AnsweredIn(k, s, first, last)) = 0
          /\ Cardinality(HeldIn(k, first, last)) = 0
  <2> SUFFICES ASSUME NEW k \in Keys, NEW s, NEW first, NEW last
               PROVE  /\ GrantedIn(k, first, last) = {} /\ AnsweredIn(k, s, first, last) = {}
                      /\ HeldIn(k, first, last) = {}
    BY <1>4
  <2>1. \A c \in Callers : ~Holds(c, k)
    BY DEF Init, Holds
  <2> QED
    BY <1>2, <1>3, <2>1 DEF GrantedIn, AnsweredIn, HeldIn
<1>6. ASSUME NEW entry, NEW ahead \in Nat, NEW first \in Int, NEW last \in Int,
             NEW capacity \in Positive, NEW interval \in Positive
      PROVE  Rationed(entry, ahead, 0, first, last, capacity, interval)
  <2>1. capacity * interval \in Nat /\ 0 * interval = 0
    BY DEF Positive
  <2> QED
    BY <2>1 DEF Rationed
<1>7. ASSUME NEW k \in RationedKeys
      PROVE  /\ ServerRationed(k)
             /\ \A first, last \in Int : AccountedIn(k, first, last)
  <2>1. k \in Keys /\ RuleOf[k].capacity \in Positive /\ RuleOf[k].interval \in Positive
    BY RationedRule DEF RationedKeys
  <2>2. ServerRationed(k)
    BY <1>2, <1>5, <1>6, <2>1 DEF ServerRationed
  <2> QED
    BY <1>5, <2>1, <2>2 DEF AccountedIn
<1>8. ASSUME NEW k \in KeysUnder("gcra"), NEW p \in Processes
      PROVE  ProcessRationed(k, p)
  <2>1. k \in Keys /\ RuleOf[k].capacity \in Positive /\ RuleOf[k].interval \in Positive
        /\ Skew[p] \in Nat
    BY RationedRule, RedisAssumption
  <2> QED
    BY <1>5, <1>6, <2>1 DEF ProcessRationed
<1>9. \A k \in Keys : AnsweredByStorages(k)
  BY <1>2 DEF AnsweredByStorages
<1> QED
  BY <1>1, <1>7, <1>8, <1>9 DEF OutageInv

LEMMA OutageKept == ASSUME Typed, OutageInv, [Next]_vars PROVE OutageInv'
<1>1. FallbackTyped /\ FallbackTyped'
  BY FallbackKept DEF OutageInv
<1>2. ASSUME NEW k \in RationedKeys
      PROVE  /\ ServerRationed(k)'
             /\ \A first, last \in Int : AccountedIn(k, first, last)'
  <2>1. ServerRationed(k) /\ \A first, last \in Int : AccountedIn(k, first, last)
    BY <1>2 DEF OutageInv
  <2>2. ServerRationed(k)'
    BY <1>2, <2>1, ServerRationedKept
  <2>3. ASSUME NEW first \in Int, NEW last \in Int
        PROVE  AccountedIn(k, first, last)'
    BY <1>1, <1>2, <2>1, <2>3, AccountKept
  <2> QED
    BY <2>2, <2>3
<1>3. ASSUME NEW k \in KeysUnder("gcra"), NEW p \in Processes
      PROVE  ProcessRationed(k, p)'
  BY <1>1, <1>3, ProcessRationedKept DEF OutageInv
<1>4. ASSUME NEW k \in Keys
      PROVE  AnsweredByStorages(k)'
  BY <1>1, <1>4, StoragesAnswer DEF OutageInv
<1>5. RationedKeys' = RationedKeys /\ KeysUnder("gcra")' = KeysUnder("gcra")
  BY DEF RationedKeys, KeysUnder
<1> QED
  BY <1>1, <1>2, <1>3, <1>4, <1>5 DEF OutageInv

\* A part of a ration is within it.
LEMMA PartOfRation ==
    ASSUME NEW part \in Nat, NEW other \in Nat, NEW count \in Nat, NEW unit \in Nat, NEW bound \in Int,
           part + other <= count, count * unit <= bound
    PROVE  part * unit <= bound
<1>1. PICK rest \in Nat : count = part + rest
  <2>1. count - part \in Nat /\ count = part + (count - part)
    OBVIOUS
  <2> QED
    BY <2>1
<1>2. (part + rest) * unit = part * unit + rest * unit /\ rest * unit \in Nat /\ part * unit \in Nat
  OBVIOUS
<1> QED
  BY <1>1, <1>2

\* What a storage answered with between two instants.
LEMMA ShareBound ==
    ASSUME Typed, OutageInv, NEW k \in RationedKeys, NEW s \in Processes \cup {"server"},
           NEW first \in Int, NEW last \in Int, first <= last
    PROVE  Cardinality(AnsweredIn(k, s, first, last)) * RuleOf[k].interval
               <= (last - first) + RuleOf[k].capacity * RuleOf[k].interval
<1>1. k \in KeysUnder("gcra") /\ k \in Keys /\ k \in Keys \ FixedKeys
  BY RationedRule DEF RationedKeys
<1>2. CASE s \in Processes
  <2>1. ProcessRationed(k, s)
    BY <1>1, <1>2 DEF OutageInv
  <2> QED
    BY <2>1 DEF ProcessRationed, Rationed
<1>3. CASE s = "server"
  <2>1. PICK unit \in Nat, bound \in Int : /\ unit = RuleOf[k].interval
                                           /\ bound = (last - first) + RuleOf[k].capacity * RuleOf[k].interval
    <3>1. RuleOf[k].interval \in Nat /\ RuleOf[k].capacity * RuleOf[k].interval \in Int
      BY <1>1, RationedRule DEF Positive
    <3> QED
      BY <3>1
  <2>2. Cardinality(GrantedIn(k, first, last)) * unit <= bound
    BY <2>1 DEF OutageInv, ServerRationed, Rationed
  <2>3. AccountedIn(k, first, last)
    BY DEF OutageInv
  <2>4. /\ Cardinality(AnsweredIn(k, "server", first, last)) \in Nat
        /\ Cardinality(HeldIn(k, first, last)) \in Nat
        /\ Cardinality(GrantedIn(k, first, last)) \in Nat
    <3>1. Cardinality(AnsweredIn(k, "server", first, last)) \in Nat
      BY <1>1, AnsweredCounted DEF Typed
    <3>2. Cardinality(HeldIn(k, first, last)) \in Nat
      BY RedisAssumption, FS_Subset, FS_CardinalityType DEF HeldIn
    <3>3. Cardinality(GrantedIn(k, first, last)) \in Nat
      BY <1>1, OccurrencesCounted DEF GrantedIn, Typed, ServerTyped
    <3> QED
      BY <3>1, <3>2, <3>3
  <2> QED
    BY <1>3, <2>1, <2>2, <2>3, <2>4, PartOfRation DEF AccountedIn
<1> QED
  BY <1>2, <1>3

\* Redis and the fallback storages that answered share nothing: over any stretch of an
\* outage, a key gets at most the burst and the rate of each of them, whatever is lost,
\* late, repeated or cancelled (core/storage/redis.py, with_fallback).
THEOREM OutageEnvelopeHolds == Spec => []OutageEnvelope
<1>1. Typed /\ OutageInv => OutageEnvelope
  <2> SUFFICES ASSUME Typed, OutageInv, NEW k \in RationedKeys, PolicyOf[k] = "memory",
                      NEW i \in DOMAIN answers[k], NEW j \in DOMAIN answers[k],
                      NEW first, first = answers[k][i].at, NEW last, last = answers[k][j].at,
                      first <= last,
                      NEW during, during = {a \in DOMAIN answers[k] : answers[k][a].at \in first .. last},
                      NEW Sources, Sources = {answers[k][a].by : a \in during}
               PROVE  Cardinality(during) * RuleOf[k].interval
                          <= Cardinality(Sources)
                                * (last - first + RuleOf[k].capacity * RuleOf[k].interval)
    BY DEF OutageEnvelope, RationedKeys
  <2>1. k \in Keys /\ RuleOf[k].interval \in Positive /\ RuleOf[k].capacity \in Positive
    BY RationedRule DEF RationedKeys
  <2>2. PICK told \in Seq([by : Answerers, at : Int]) : told = answers[k]
    BY <2>1 DEF Typed, AnswersTyped
  <2>3. \A a \in DOMAIN told : told[a].by \in Answerers /\ told[a].at \in Int
                               /\ told[a] = [by |-> told[a].by, at |-> told[a].at]
                               /\ \A S, T : told[a] \in [by : S, at : T] <=> told[a].by \in S /\ told[a].at \in T
    <3>1. \A a \in DOMAIN told : told[a] \in [by : Answerers, at : Int]
      BY <2>2, LenProperties, ElementOfSeq
    <3> QED
      BY <3>1
  <2>4. first \in Int /\ last \in Int
    BY <2>2, <2>3
  <2>5. PICK unit \in Nat, bound \in Nat :
            /\ unit = RuleOf[k].interval
            /\ bound = last - first + RuleOf[k].capacity * RuleOf[k].interval
    <3>1. RuleOf[k].interval \in Nat /\ RuleOf[k].capacity * RuleOf[k].interval \in Nat
      BY <2>1 DEF Positive
    <3> QED
      BY <2>4, <3>1
  <2>6. PICK by : by = [a \in during |-> answers[k][a].by]
    OBVIOUS
  <2>7. IsFiniteSet(during)
    <3>1. during = Occurrences(told, [by : Answerers, at : first .. last])
      BY <2>2, <2>3, <2>4 DEF Occurrences
    <3> QED
      BY <2>2, <3>1, OccurrencesCounted
  <2>8. ASSUME NEW s \in Sources
        PROVE  Cardinality({a \in during : by[a] = s}) * unit <= bound
    <3>1. {a \in during : by[a] = s} = AnsweredIn(k, s, first, last)
      BY <2>2, <2>3, <2>4, <2>6 DEF AnsweredIn, Occurrences
    <3>2. s \in Processes \cup {"server"}
      BY <2>1 DEF OutageInv, AnsweredByStorages
    <3>3. Cardinality(AnsweredIn(k, s, first, last)) * RuleOf[k].interval
              <= (last - first) + RuleOf[k].capacity * RuleOf[k].interval
      BY <2>4, <3>2, ShareBound
    <3> QED
      BY <2>5, <3>1, <3>3
  <2>9. Sources = {by[a] : a \in during} /\ DOMAIN by = during
    BY <2>6
  <2>10. Cardinality(during) * unit <= Cardinality(Sources) * bound
    <3>1. /\ IsFiniteSet(during) /\ DOMAIN by = during /\ unit \in Nat /\ bound \in Nat
          /\ Sources = {by[a] : a \in during}
          /\ \A s \in Sources : Cardinality({a \in during : by[a] = s}) * unit <= bound
      BY <2>5, <2>7, <2>8, <2>9
    <3> QED
      BY <3>1, SharesAddUp
  <2> QED
    BY <2>5, <2>10
<1>2. Typed /\ OutageInv /\ [Next]_vars => OutageInv'
  BY OutageKept
<1> QED
  BY <1>1, <1>2, OutageInit, TypesHold, PTL DEF Spec
=============================================================================
