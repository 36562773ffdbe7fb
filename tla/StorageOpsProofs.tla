-------------------------- MODULE StorageOpsProofs --------------------------
(***************************************************************************)
(* What the operations of StorageOps return, for every rule, entry and     *)
(* time stamp: entries and results of the right type; what a denial tells  *)
(* of the decisions to come; the accounts, each of which relates an entry  *)
(* to the admissions behind it and outlasts every decision; that two       *)
(* decisions in a row tell `remaining' one apart, and later ones no more;  *)
(* and what a list of rules makes of the dictionaries of a storage.        *)
(***************************************************************************)
EXTENDS StorageOps, SequenceTheorems, FiniteSetTheorems, TLAPS

\* A nonempty set of naturals has a least element, and Min finds it.
LEMMA MinOfNaturals ==
    ASSUME NEW S \in SUBSET Nat, S # {}
    PROVE  Min(S) \in S /\ \A y \in S : Min(S) <= y
<1> DEFINE less == {ss \in Nat \X Nat : ss[1] < ss[2]}
<1>1. IsWellFoundedOn(less, Nat)
  BY NatLessThanWellFounded DEF OpToRel
<1>2. PICK x \in S : \A y \in S : ~(<<y, x>> \in less)
  BY <1>1, WFMin, Zenon
<1>3. \A y \in S : <<y, x>> \in Nat \X Nat /\ x <= y
  BY <1>2
<1> QED
  BY <1>3 DEF Min

\* kept is what is left of q from the first of the positions on that are recent.
CutBefore(kept, q, recent) ==
    \E dropped \in 0 .. Len(q) :
        /\ \A i \in 1 .. dropped : i \notin recent
        /\ Len(kept) = Len(q) - dropped
        /\ \A i \in 1 .. Len(q) - dropped : kept[i] = q[i + dropped]
        /\ dropped < Len(q) => dropped + 1 \in recent

LEMMA SuffixFrom ==
    ASSUME NEW S, NEW q \in Seq(S), NEW recent \in SUBSET (1 .. Len(q)),
           NEW kept, kept = IF recent = {} THEN <<>> ELSE SubSeq(q, Min(recent), Len(q))
    PROVE  kept \in Seq(S) /\ CutBefore(kept, q, recent)
<1>1. Len(q) \in Nat /\ \A i \in 1 .. Len(q) : q[i] \in S
  BY ElementOfSeq, LenProperties
<1>2. CASE recent = {}
  <2>1. kept = <<>>
    BY <1>2
  <2>0. kept \in Seq(S) /\ Len(kept) = 0
    BY <2>1, EmptySeq, Zenon
  <2>2. \A i \in 1 .. Len(q) - Len(q) : kept[i] = q[i + Len(q)]
    BY <1>1
  <2>3. Len(q) \in 0 .. Len(q) /\ Len(kept) = Len(q) - Len(q) /\ ~(Len(q) < Len(q))
    BY <1>1, <2>0
  <2>4. \E dropped \in 0 .. Len(q) :
            /\ \A i \in 1 .. dropped : i \notin recent
            /\ Len(kept) = Len(q) - dropped
            /\ \A i \in 1 .. Len(q) - dropped : kept[i] = q[i + dropped]
            /\ dropped < Len(q) => dropped + 1 \in recent
    <3> WITNESS Len(q) \in 0 .. Len(q)
    <3> QED
      BY <1>2, <2>2, <2>3, Zenon
  <2> QED
    BY <2>0, <2>4 DEF CutBefore
<1>3. CASE recent # {}
  <2>1. recent \in SUBSET Nat
    BY <1>1
  <2>2. PICK first \in recent : \A y \in recent : first <= y
    BY <1>3, <2>1, MinOfNaturals, Zenon
  <2>3. Min(recent) = first
    <3>1. Min(recent) \in recent /\ \A y \in recent : Min(recent) <= y
      BY <1>3, <2>1, MinOfNaturals, Zenon
    <3>2. Min(recent) \in Nat /\ first \in Nat /\ Min(recent) <= first /\ first <= Min(recent)
      BY <2>1, <2>2, <3>1
    <3> HIDE DEF Min
    <3> QED
      BY <3>2
  <2>4. first \in 1 .. Len(q)
    BY <2>2
  <2>5. kept = SubSeq(q, first, Len(q))
    BY <1>3, <2>3
  <2>6. /\ kept \in Seq(S)
        /\ Len(kept) = IF first <= Len(q) THEN Len(q) - first + 1 ELSE 0
        /\ \A i \in 1 .. Len(q) - first + 1 : kept[i] = q[first + i - 1]
    <3>1. first \in Int /\ Len(q) \in Int /\ \A i \in first .. Len(q) : q[i] \in S
      BY <1>1, <2>4
    <3>2. /\ SubSeq(q, first, Len(q)) \in Seq(S)
          /\ Len(SubSeq(q, first, Len(q))) = IF first <= Len(q) THEN Len(q) - first + 1 ELSE 0
          /\ \A i \in 1 .. Len(q) - first + 1 : SubSeq(q, first, Len(q))[i] = q[first + i - 1]
      BY <3>1, SubSeqProperties
    <3> QED
      BY <2>5, <3>2, Zenon
  <2> DEFINE dropped == first - 1
  <2>7. /\ dropped \in 0 .. Len(q) /\ Len(kept) = Len(q) - dropped /\ dropped + 1 = first
        /\ Len(q) - first + 1 = Len(q) - dropped
        /\ \A i \in 1 .. Len(q) - dropped : first + i - 1 = i + dropped
    BY <1>1, <2>4, <2>6
  <2>8. \A i \in 1 .. dropped : i \notin recent
    BY <2>1, <2>2, <2>4
  <2> HIDE DEF dropped
  <2>9. \A i \in 1 .. Len(q) - dropped : kept[i] = q[i + dropped]
    BY <2>6, <2>7
  <2> QED
    BY <2>2, <2>6, <2>7, <2>8, <2>9 DEF CutBefore
<1> QED
  BY <1>2, <1>3

\* What the pruning of the deque keeps is a suffix of it.  Either everything was
\* too old, or the first stamp kept is recent and all those dropped are not.
LEMMA PrunedIsSuffix ==
    ASSUME NEW q \in Entry, NEW cutoff \in Int
    PROVE  /\ Pruned(q, cutoff) \in Entry
           /\ \E dropped \in 0 .. Len(q) :
                /\ \A i \in 1 .. dropped : q[i] <= cutoff
                /\ Len(Pruned(q, cutoff)) = Len(q) - dropped
                /\ \A i \in 1 .. Len(q) - dropped : Pruned(q, cutoff)[i] = q[i + dropped]
                /\ dropped < Len(q) => q[dropped + 1] > cutoff
<1> DEFINE recent == {i \in DOMAIN q : q[i] > cutoff}
<1>1. q \in Seq(Int) /\ Len(q) \in Nat /\ DOMAIN q = 1 .. Len(q) /\ \A i \in 1 .. Len(q) : q[i] \in Int
  BY DEF Entry
<1>2. PICK positions : positions = recent /\ positions \in SUBSET (1 .. Len(q))
  BY <1>1
<1>3. PICK kept : /\ kept = Pruned(q, cutoff)
                  /\ kept = IF positions = {} THEN <<>> ELSE SubSeq(q, Min(positions), Len(q))
  BY <1>2 DEF Pruned
<1> HIDE DEF recent
<1>4. kept \in Seq(Int) /\ CutBefore(kept, q, positions)
  BY <1>1, <1>2, <1>3, SuffixFrom, Zenon
<1>5. PICK dropped \in 0 .. Len(q) :
            /\ \A i \in 1 .. dropped : i \notin positions
            /\ Len(kept) = Len(q) - dropped
            /\ \A i \in 1 .. Len(q) - dropped : kept[i] = q[i + dropped]
            /\ dropped < Len(q) => dropped + 1 \in positions
  BY <1>4 DEF CutBefore
<1>6. /\ \A i \in 1 .. dropped : q[i] <= cutoff
      /\ dropped < Len(q) => q[dropped + 1] > cutoff
  BY <1>1, <1>2, <1>5 DEF recent
<1> QED
  BY <1>3, <1>4, <1>5, <1>6 DEF Entry

-----------------------------------------------------------------------------
\* The tuples that fixed_window, token_bucket and leaky_bucket write, and gcra's.
LEMMA PairWritten ==
    ASSUME NEW a \in Int, NEW b \in Int
    PROVE  <<a, b>> \in Entry /\ Len(<<a, b>>) = 2
BY DEF Entry

LEMMA SingleWritten ==
    ASSUME NEW a \in Int
    PROVE  <<a>> \in Entry /\ Len(<<a>>) = 1
BY DEF Entry

\* Reading back an entry of fixed_window, token_bucket or leaky_bucket: absent,
\* or two numbers.
LEMMA PairEntry ==
    ASSUME NEW entry \in Entry, Len(entry) \in {0, 2}
    PROVE  entry = <<>> \/ (entry # <<>> /\ entry[1] \in Int /\ entry[2] \in Int)
BY DEF Entry

LEMMA DivIsInt ==
    ASSUME NEW a \in Int, NEW b \in Positive
    PROVE  /\ a \div b \in Int
           /\ a >= 0 => a \div b \in Nat
           /\ (a \div b) * b <= a
           /\ a < (a \div b) * b + b
BY DEF Positive

\* Each operation returns a well-formed reply and an entry of the shape it reads.
LEMMA SlidingType ==
    ASSUME NEW entry \in Entry, NEW window \in Positive, NEW limit \in Positive, NEW now \in Nat
    PROVE  sliding_window(entry, window, limit, now) \in Outcome
<1> DEFINE q == Pruned(entry, now - window)
<1>1. q \in Entry /\ now - window \in Int
  BY PrunedIsSuffix DEF Positive
<1> HIDE DEF q
<1>2. CASE Len(q) < limit
  <2>1. /\ Append(q, now) \in Entry
        /\ Len(Append(q, now)) = Len(q) + 1
        /\ Append(q, now)[1] \in Int
    BY <1>1 DEF Entry
  <2>2. limit - Len(Append(q, now)) \in Nat /\ Append(q, now)[1] + window \in Int
    BY <1>1, <1>2, <2>1 DEF Positive, Entry
  <2> QED
    BY <1>2, <2>1, <2>2 DEF sliding_window, q, Admit, Outcome
<1>3. CASE ~(Len(q) < limit)
  <2>1. q[1] + window \in Int
    BY <1>1, <1>3 DEF Positive, Entry
  <2> QED
    BY <1>1, <1>3, <2>1 DEF sliding_window, q, Deny, Outcome
<1> QED
  BY <1>2, <1>3

LEMMA FixedType ==
    ASSUME NEW entry \in Entry, Len(entry) \in {0, 2},
           NEW window \in Positive, NEW limit \in Positive, NEW now \in Nat
    PROVE  /\ fixed_window(entry, window, limit, now) \in Outcome
           /\ Len(fixed_window(entry, window, limit, now).entry) \in {0, 2}
<1> DEFINE current == CurrentWindow(entry, Aligned(now, window))
<1>1. Aligned(now, window) \in Int
  BY DivIsInt DEF Aligned, Positive
<1>2. current[1] \in Int /\ current[2] \in Int
  BY <1>1, PairEntry DEF CurrentWindow
<1> HIDE DEF current
<1>3. current[2] + window \in Int /\ current[1] + 1 \in Int
  BY <1>2 DEF Positive
<1>6. /\ <<current[1] + 1, current[2]>> \in Entry
      /\ Len(<<current[1] + 1, current[2]>>) = 2
  BY <1>2, <1>3, PairWritten, Zenon
<1>4. CASE current[1] < limit
  <2>1. limit - (current[1] + 1) \in Nat
    BY <1>2, <1>4 DEF Positive
  <2> QED
    BY <1>3, <1>4, <1>6, <2>1 DEF fixed_window, current, Admit, Outcome
<1>5. CASE ~(current[1] < limit)
  BY <1>3, <1>5 DEF fixed_window, current, Deny, Outcome
<1> QED
  BY <1>4, <1>5

LEMMA TokenType ==
    ASSUME NEW entry \in Entry, Len(entry) \in {0, 2},
           NEW capacity \in Positive, NEW interval \in Positive, NEW now \in Nat
    PROVE  /\ token_bucket(entry, capacity, interval, now) \in Outcome
           /\ Len(token_bucket(entry, capacity, interval, now).entry) \in {0, 2}
<1> DEFINE full   == capacity * interval
           bucket == IF entry = <<>> THEN <<full, now>> ELSE entry
           level  == AtMost(bucket[1] + Elapsed(now, bucket[2]), full)
           left   == level - interval
<1>1. full \in Int
  BY DEF Positive
<1>2. bucket[1] \in Int /\ bucket[2] \in Int
  BY <1>1, PairEntry
<1> HIDE DEF full, bucket
<1>3. level \in Int /\ left \in Int
  BY <1>1, <1>2 DEF Elapsed, AtLeastZero, AtMost, Positive
<1> HIDE DEF level
<1>4. now \in Int /\ now + (full - left) \in Int /\ now + (interval - level) \in Int
  BY <1>1, <1>3 DEF Positive
<1> HIDE DEF left
<1>7. <<left, now>> \in Entry /\ Len(<<left, now>>) = 2
  BY <1>3, <1>4, PairWritten, Zenon
<1>5. CASE level >= interval
  <2>1. left \div interval \in Nat
    BY <1>3, <1>5, DivIsInt DEF Positive, left
  <2> QED
    BY <1>4, <1>5, <1>7, <2>1 DEF token_bucket, full, bucket, level, left, Admit, Outcome
<1>6. CASE ~(level >= interval)
  BY <1>4, <1>6 DEF token_bucket, full, bucket, level, Deny, Outcome
<1> QED
  BY <1>5, <1>6

LEMMA LeakyType ==
    ASSUME NEW entry \in Entry, Len(entry) \in {0, 2},
           NEW capacity \in Positive, NEW interval \in Positive, NEW now \in Nat
    PROVE  /\ leaky_bucket(entry, capacity, interval, now) \in Outcome
           /\ Len(leaky_bucket(entry, capacity, interval, now).entry) \in {0, 2}
<1> DEFINE bucket == IF entry = <<>> THEN <<0, now>> ELSE entry
           leaked == Leaked(Elapsed(now, bucket[2]), interval)
           queue  == AtLeastZero(bucket[1] - leaked)
<1>1. bucket[1] \in Int /\ bucket[2] \in Int
  BY PairEntry
<1> HIDE DEF bucket
<1>2. leaked \in Int
  BY <1>1, DivIsInt DEF Leaked, Elapsed, AtLeastZero
<1> HIDE DEF leaked
<1>3. queue \in Nat
  BY <1>1, <1>2 DEF AtLeastZero
<1> HIDE DEF queue
<1>4. queue + 1 \in Int /\ bucket[2] + leaked * interval \in Int /\ now + interval \in Int
  BY <1>1, <1>2, <1>3 DEF Positive
<1>7. /\ <<queue + 1, bucket[2] + leaked * interval>> \in Entry
      /\ Len(<<queue + 1, bucket[2] + leaked * interval>>) = 2
  BY <1>4, PairWritten, Zenon
<1>5. CASE queue < capacity
  <2>1. capacity - (queue + 1) \in Nat
    BY <1>3, <1>5 DEF Positive
  <2> QED
    BY <1>4, <1>5, <1>7, <2>1 DEF leaky_bucket, bucket, leaked, queue, Admit, Outcome
<1>6. CASE ~(queue < capacity)
  BY <1>4, <1>6 DEF leaky_bucket, bucket, leaked, queue, Deny, Outcome
<1> QED
  BY <1>5, <1>6

LEMMA GcraType ==
    ASSUME NEW entry \in Entry, Len(entry) \in {0, 1},
           NEW capacity \in Positive, NEW interval \in Positive, NEW now \in Nat
    PROVE  /\ gcra(entry, capacity, interval, now) \in Outcome
           /\ Len(gcra(entry, capacity, interval, now).entry) \in {0, 1}
<1> DEFINE tat     == IF entry = <<>> THEN now ELSE entry[1]
           burst   == BurstInterval(capacity, interval)
           new_tat == Later(tat, now) + interval
           spare   == capacity * interval - (new_tat - now)
<1>1. tat \in Int
  BY DEF Entry
<1> HIDE DEF tat
<1>2. burst \in Int /\ new_tat \in Int /\ spare \in Int
  BY <1>1 DEF BurstInterval, Later, Positive
<1> HIDE DEF burst, new_tat, spare
<1>3. AtLeastZero(spare \div interval) \in Nat
  BY <1>2, DivIsInt DEF AtLeastZero
<1>4. tat - burst \in Int
  BY <1>1, <1>2
<1>7. <<new_tat>> \in Entry /\ Len(<<new_tat>>) = 1
  BY <1>2, SingleWritten, Zenon
<1>5. CASE tat <= now + burst
  BY <1>2, <1>3, <1>5, <1>7 DEF gcra, tat, burst, new_tat, spare, Admit, Outcome
<1>6. CASE ~(tat <= now + burst)
  BY <1>4, <1>6 DEF gcra, tat, burst, new_tat, spare, Deny, Outcome
<1> QED
  BY <1>5, <1>6

\* The dispatch keeps entries of different algorithms apart.
LEMMA DecideType ==
    ASSUME NEW rule \in LimitRule, NEW entry \in EntryUnder(rule), NEW now \in Nat
    PROVE  /\ Decide(rule, entry, now) \in Outcome
           /\ Decide(rule, entry, now).entry \in EntryUnder(rule)
<1>1. entry \in Entry
  BY DEF EntryUnder
<1>2. CASE rule.algorithm = "sliding_window"
  <2>1. rule.window \in Positive /\ rule.limit \in Positive
    BY <1>2 DEF LimitRule, WindowRule, BucketRule
  <2>2. Decide(rule, entry, now) = sliding_window(entry, rule.window, rule.limit, now)
    BY <1>2 DEF Decide
  <2> QED
    BY <1>1, <1>2, <2>1, <2>2, SlidingType DEF EntryUnder, Outcome
<1>3. CASE rule.algorithm = "fixed_window"
  <2>1. rule.window \in Positive /\ rule.limit \in Positive
    BY <1>3 DEF LimitRule, WindowRule, BucketRule
  <2>2. Decide(rule, entry, now) = fixed_window(entry, rule.window, rule.limit, now)
    BY <1>3 DEF Decide
  <2> QED
    BY <1>1, <1>3, <2>1, <2>2, FixedType DEF EntryUnder, Outcome
<1>4. CASE rule.algorithm = "token_bucket"
  <2>1. rule.capacity \in Positive /\ rule.interval \in Positive
    BY <1>4 DEF LimitRule, WindowRule, BucketRule
  <2>2. Decide(rule, entry, now) = token_bucket(entry, rule.capacity, rule.interval, now)
    BY <1>4 DEF Decide
  <2> QED
    BY <1>1, <1>4, <2>1, <2>2, TokenType DEF EntryUnder, Outcome
<1>5. CASE rule.algorithm = "leaky_bucket"
  <2>1. rule.capacity \in Positive /\ rule.interval \in Positive
    BY <1>5 DEF LimitRule, WindowRule, BucketRule
  <2>2. Decide(rule, entry, now) = leaky_bucket(entry, rule.capacity, rule.interval, now)
    BY <1>5 DEF Decide
  <2> QED
    BY <1>1, <1>5, <2>1, <2>2, LeakyType DEF EntryUnder, Outcome
<1>6. CASE rule.algorithm = "gcra"
  <2>1. rule.capacity \in Positive /\ rule.interval \in Positive
    BY <1>6 DEF LimitRule, WindowRule, BucketRule
  <2>2. Decide(rule, entry, now) = gcra(entry, rule.capacity, rule.interval, now)
    BY <1>6 DEF Decide
  <2> QED
    BY <1>1, <1>6, <2>1, <2>2, GcraType DEF EntryUnder, Outcome
<1>7. rule.algorithm \in {"sliding_window", "fixed_window", "token_bucket", "leaky_bucket", "gcra"}
  BY DEF LimitRule, WindowRule, BucketRule
<1> QED
  BY <1>2, <1>3, <1>4, <1>5, <1>6, <1>7

-----------------------------------------------------------------------------
\* A set of pairs sorted by its first members: when one of the sets of second
\* members is replaced, the number of pairs changes by as much as that set does.
LEMMA OneSetReplaced ==
    ASSUME NEW T, IsFiniteSet(T), NEW t \in T, NEW F, NEW G,
           \A u \in T : IsFiniteSet(F[u]), IsFiniteSet(G[t]),
           \A u \in T \ {t} : G[u] = F[u],
           NEW before, before = UNION {{u} \X F[u] : u \in T},
           NEW after, after = UNION {{u} \X G[u] : u \in T}
    PROVE  /\ Cardinality(before) \in Nat /\ Cardinality(after) \in Nat
           /\ Cardinality(F[t]) \in Nat /\ Cardinality(G[t]) \in Nat
           /\ Cardinality(after) + Cardinality(F[t]) = Cardinality(before) + Cardinality(G[t])
<1> DEFINE column == [u \in T |-> {u} \X F[u]]
           others == UNION {column[u] : u \in T \ {t}}
<1>1. IsFiniteSet(others)
  <2>1. column \in Surjection(T, {column[u] : u \in T})
    BY DEF Surjection
  <2>2. IsFiniteSet({column[u] : u \in T})
    BY <2>1, FS_Surjection
  <2>3. \A u \in T : IsFiniteSet(column[u])
    BY FS_Singleton, FS_Product
  <2>4. IsFiniteSet(UNION {column[u] : u \in T})
    BY <2>2, <2>3, FS_UNION
  <2>5. others \in SUBSET (UNION {column[u] : u \in T})
    OBVIOUS
  <2> QED
    BY <2>4, <2>5, FS_Subset
<1>2. ASSUME NEW S, IsFiniteSet(S)
      PROVE  /\ Cardinality(others \cup ({t} \X S)) = Cardinality(others) + Cardinality(S)
             /\ Cardinality(others) \in Nat /\ Cardinality(S) \in Nat
  <2>1. IsFiniteSet({t}) /\ Cardinality({t}) = 1
    BY FS_Singleton
  <2>2. IsFiniteSet({t} \X S) /\ Cardinality({t} \X S) = 1 * Cardinality(S)
    BY <1>2, <2>1, FS_Product
  <2>3. others \cap ({t} \X S) = {}
    OBVIOUS
  <2>4. Cardinality(others \cap ({t} \X S)) = 0
    BY <2>3, FS_EmptySet
  <2>5. Cardinality(others) \in Nat /\ Cardinality(S) \in Nat
    BY <1>1, <1>2, FS_CardinalityType
  <2>6. Cardinality(others \cup ({t} \X S)) =
            Cardinality(others) + Cardinality({t} \X S) - Cardinality(others \cap ({t} \X S))
    BY <1>1, <2>2, FS_Union
  <2> QED
    BY <2>2, <2>4, <2>5, <2>6
<1>3. before = others \cup ({t} \X F[t])
  OBVIOUS
<1>4. after = others \cup ({t} \X G[t])
  OBVIOUS
<1>5. /\ Cardinality(before) = Cardinality(others) + Cardinality(F[t])
      /\ Cardinality(others) \in Nat /\ Cardinality(F[t]) \in Nat
  BY <1>2, <1>3
<1>6. /\ Cardinality(after) = Cardinality(others) + Cardinality(G[t])
      /\ Cardinality(G[t]) \in Nat
  BY <1>2, <1>4
<1> HIDE DEF others
<1> QED
  BY <1>5, <1>6


-----------------------------------------------------------------------------
(***************************************************************************)
(* What a denial tells: when the operation, called with the entry that the *)
(* denial left, admits.                                                    *)
(***************************************************************************)
\* What the alignment of stamps keeps of their order.
LEMMA AlignedOrder ==
    ASSUME NEW window \in Positive, NEW a \in Int, NEW b \in Int
    PROVE  /\ Aligned(a, window) \in Int
           /\ Aligned(a, window) <= a
           /\ a < Aligned(a, window) + window
           /\ a <= b => Aligned(a, window) <= Aligned(b, window)
           /\ Aligned(a, window) < Aligned(b, window) =>
                  Aligned(a, window) + window <= Aligned(b, window)
<1> DEFINE m == a \div window
           n == b \div window
<1>1. m \in Int /\ m * window <= a /\ a < m * window + window
  BY DivIsInt
<1>2. n \in Int /\ n * window <= b /\ b < n * window + window
  BY DivIsInt
<1>3. Aligned(a, window) = m * window /\ Aligned(b, window) = n * window
  BY DEF Aligned
<1> HIDE DEF m, n
<1>4. window \in Int /\ window >= 1 /\ m * window \in Int /\ n * window \in Int
  BY <1>1, <1>2 DEF Positive
<1>5. m + 1 <= n => m * window + window <= n * window
  <2>1. SUFFICES ASSUME m + 1 <= n PROVE m * window + window <= n * window
    OBVIOUS
  <2>2. (m + 1) * window <= n * window
    BY <1>1, <1>2, <1>4, <2>1
  <2>3. (m + 1) * window = m * window + window
    BY <1>1, <1>4
  <2> QED
    BY <2>2, <2>3
<1>6. n <= m => n * window <= m * window
  BY <1>1, <1>2, <1>4
<1>7. m + 1 <= n \/ n <= m
  BY <1>1, <1>2
<1>8. n + 1 <= m => n * window + window <= m * window
  <2>1. SUFFICES ASSUME n + 1 <= m PROVE n * window + window <= m * window
    OBVIOUS
  <2>2. (n + 1) * window <= m * window
    BY <1>1, <1>2, <1>4, <2>1
  <2>3. (n + 1) * window = n * window + window
    BY <1>2, <1>4
  <2> QED
    BY <2>2, <2>3
<1>9. n + 1 <= m \/ m = n \/ m + 1 <= n
  BY <1>1, <1>2
<1> DEFINE first == m * window
           second == n * window
<1>10. m = n => first = second
  OBVIOUS
<1> HIDE DEF first, second
<1>11. /\ first \in Int /\ second \in Int
       /\ first <= a /\ a < first + window /\ second <= b /\ b < second + window
       /\ first + window <= second \/ second <= first
       /\ second + window <= first \/ first = second \/ first + window <= second
  BY <1>1, <1>2, <1>4, <1>5, <1>6, <1>7, <1>8, <1>9, <1>10 DEF first, second
<1>12. /\ first <= a /\ a < first + window
       /\ a <= b => first <= second
       /\ first < second => first + window <= second
  BY <1>4, <1>11
<1> QED
  BY <1>3, <1>11, <1>12 DEF first, second

\* From reset_at on, the operation op admits on the entry that its denial left.
\* Before it, and from the denied stamp on, it denies.
LEMMA SlidingRetry ==
    ASSUME NEW limit \in Positive, NEW window \in Positive,
           NEW entry \in Entry, Len(entry) <= limit, NEW now \in Nat,
           NEW result, result = sliding_window(entry, window, limit, now), ~result.allowed,
           NEW stamp \in Int
    PROVE  /\ result.reset_at <= stamp =>
                  sliding_window(result.entry, window, limit, stamp).allowed
           /\ now <= stamp /\ stamp < result.reset_at =>
                  ~sliding_window(result.entry, window, limit, stamp).allowed
<1> DEFINE q == Pruned(entry, now - window)
           r == Pruned(q, stamp - window)
<1>1. now - window \in Int /\ stamp - window \in Int /\ limit \in Nat /\ limit >= 1 /\ window \in Nat
  BY DEF Positive
<1>2. q \in Entry /\ Len(q) \in Nat /\ Len(q) <= limit
  <2>1. q \in Entry /\ \E n \in 0 .. Len(entry) : Len(q) = Len(entry) - n
    BY <1>1, PrunedIsSuffix
  <2> HIDE DEF q
  <2>2. Len(entry) \in Nat /\ Len(q) \in Nat
    BY <2>1 DEF Entry
  <2> QED
    BY <1>1, <2>1, <2>2
<1>3. ~(Len(q) < limit) /\ result.entry = q /\ result.reset_at = q[1] + window
  BY DEF sliding_window, Admit, Deny
<1> HIDE DEF q
<1>4. Len(q) = limit /\ q[1] \in Int
  BY <1>1, <1>2, <1>3 DEF Entry
<1>5. PICK dropped \in 0 .. Len(q) :
          /\ \A i \in 1 .. dropped : q[i] <= stamp - window
          /\ Len(r) = Len(q) - dropped
          /\ dropped < Len(q) => q[dropped + 1] > stamp - window
  BY <1>1, <1>2, PrunedIsSuffix
<1>6. sliding_window(q, window, limit, stamp).allowed <=> Len(r) < limit
  BY DEF sliding_window, Admit, Deny
<1> HIDE DEF r
<1>7. q[1] <= stamp - window => dropped >= 1
  BY <1>1, <1>4, <1>5
<1>8. q[1] > stamp - window => dropped = 0
  BY <1>1, <1>4, <1>5
<1> QED
  BY <1>1, <1>3, <1>4, <1>5, <1>6, <1>7, <1>8

LEMMA FixedRetry ==
    ASSUME NEW limit \in Positive, NEW window \in Positive,
           NEW entry \in Entry, Len(entry) \in {0, 2}, NEW now \in Nat,
           NEW latest \in Nat, entry # <<>> => entry[2] = Aligned(latest, window),
           NEW result, result = fixed_window(entry, window, limit, now), ~result.allowed,
           NEW stamp \in Int
    PROVE  /\ result.reset_at <= stamp =>
                  fixed_window(result.entry, window, limit, stamp).allowed
           /\ now <= stamp /\ stamp < result.reset_at =>
                  ~fixed_window(result.entry, window, limit, stamp).allowed
<1> DEFINE start == Aligned(now, window)
           later == Aligned(stamp, window)
<1>1. limit \in Nat /\ limit >= 1 /\ window \in Nat
  BY DEF Positive
<1>2. entry # <<>> /\ ~(entry[2] < start) /\ ~(entry[1] < limit)
  BY <1>1 DEF fixed_window, CurrentWindow, Admit, Deny
<1>3. result.entry = entry /\ result.reset_at = entry[2] + window
  BY <1>2 DEF fixed_window, CurrentWindow, Admit, Deny
<1>4. entry[2] = Aligned(latest, window) /\ entry[2] \in Int
  BY <1>2, PairEntry
<1>5. /\ later \in Int /\ later <= stamp /\ stamp < later + window
      /\ entry[2] < later => entry[2] + window <= later
  BY <1>4, AlignedOrder
<1>6. fixed_window(entry, window, limit, stamp).allowed <=> entry[2] < later
  <2>1. CASE entry[2] < later
    BY <1>1, <1>2, <2>1 DEF fixed_window, CurrentWindow, Admit, Deny
  <2>2. CASE ~(entry[2] < later)
    BY <1>2, <2>2 DEF fixed_window, CurrentWindow, Admit, Deny
  <2> QED
    BY <2>1, <2>2
<1> DEFINE since == entry[2]
<1> HIDE DEF later, since
<1>7. /\ since + window <= stamp => since < later
      /\ stamp < since + window => ~(since < later)
  BY <1>1, <1>4, <1>5 DEF since
<1> QED
  BY <1>3, <1>6, <1>7 DEF since

LEMMA TokenRetry ==
    ASSUME NEW capacity \in Positive, NEW interval \in Positive,
           NEW entry \in Entry, Len(entry) \in {0, 2}, NEW now \in Nat,
           entry # <<>> => entry[2] <= now,
           NEW result, result = token_bucket(entry, capacity, interval, now), ~result.allowed,
           NEW stamp \in Int
    PROVE  /\ result.reset_at <= stamp =>
                  token_bucket(result.entry, capacity, interval, stamp).allowed
           /\ now <= stamp /\ stamp < result.reset_at =>
                  ~token_bucket(result.entry, capacity, interval, stamp).allowed
<1> DEFINE full == capacity * interval
           size == entry[1]
           last == entry[2]
           level(t) == AtMost(size + Elapsed(t, last), full)
<1>1. interval \in Nat /\ interval >= 1 /\ full \in Nat /\ full >= interval
  BY DEF Positive
<1>2. entry # <<>>
  <2> SUFFICES ASSUME entry = <<>> PROVE FALSE
    OBVIOUS
  <2>1. AtMost(full + Elapsed(now, now), full) >= interval
    BY <1>1 DEF AtMost, Elapsed, AtLeastZero
  <2> HIDE DEF full
  <2>2. result.allowed
    BY <2>1 DEF token_bucket, Admit, full
  <2> QED
    BY <2>2
<1>3. size \in Int /\ last \in Int /\ last <= now
  BY <1>2, PairEntry
<1>4. \A t \in Int : token_bucket(entry, capacity, interval, t).allowed <=> level(t) >= interval
  BY <1>2 DEF token_bucket, Admit, Deny
<1>5. result.entry = entry /\ result.reset_at = now + (interval - level(now))
  BY <1>2 DEF token_bucket, Admit, Deny
<1>6. level(now) < interval
  BY <1>1, <1>3, <1>4 DEF AtMost, Elapsed, AtLeastZero
<1> HIDE DEF full, size, last
<1>7. level(now) = size + (now - last)
  BY <1>1, <1>3, <1>6 DEF AtMost, Elapsed, AtLeastZero
<1>8. /\ result.reset_at <= stamp => level(stamp) >= interval
      /\ now <= stamp /\ stamp < result.reset_at => ~(level(stamp) >= interval)
  BY <1>1, <1>3, <1>5, <1>6, <1>7 DEF AtMost, Elapsed, AtLeastZero
<1> QED
  BY <1>4, <1>5, <1>8

LEMMA LeakyRetry ==
    ASSUME NEW capacity \in Positive, NEW interval \in Positive,
           NEW entry \in Entry, Len(entry) \in {0, 2}, NEW now \in Nat,
           entry # <<>> => entry[1] <= capacity /\ entry[2] <= now,
           NEW result, result = leaky_bucket(entry, capacity, interval, now), ~result.allowed,
           NEW stamp \in Int, result.reset_at <= stamp
    PROVE  leaky_bucket(result.entry, capacity, interval, stamp).allowed
<1> DEFINE size   == entry[1]
           last   == entry[2]
           leaked == Leaked(Elapsed(stamp, last), interval)
<1>1. interval \in Nat /\ interval >= 1 /\ capacity \in Nat /\ capacity >= 1
  BY DEF Positive
<1>2. entry # <<>>
  <2> SUFFICES ASSUME entry = <<>> PROVE FALSE
    OBVIOUS
  <2>1. Elapsed(now, now) = 0
    BY DEF Elapsed, AtLeastZero
  <2>2. Leaked(0, interval) = 0
    BY <1>1 DEF Leaked
  <2>3. AtLeastZero(0 - 0) = 0
    BY DEF AtLeastZero
  <2> QED
    BY <1>1, <2>1, <2>2, <2>3 DEF leaky_bucket, Admit
<1>3. size \in Int /\ last \in Int /\ size <= capacity /\ last <= now
  BY <1>2, PairEntry
<1>4. result.entry = entry /\ result.reset_at = now + interval
  BY <1>2 DEF leaky_bucket, Admit, Deny
<1>5. leaked >= 1 /\ leaked \in Int
  <2> DEFINE elapsed == Elapsed(stamp, last)
  <2>1. elapsed \in Int /\ elapsed >= interval
    BY <1>1, <1>3, <1>4 DEF Elapsed, AtLeastZero
  <2> HIDE DEF elapsed
  <2> DEFINE n == elapsed \div interval
  <2>2. n \in Int /\ elapsed < n * interval + interval
    BY <2>1, DivIsInt
  <2> HIDE DEF n
  <2>3. n >= 1
    <3> SUFFICES ASSUME n <= 0 PROVE FALSE
      BY <2>2
    <3>1. n * interval <= 0
      BY <1>1, <2>2
    <3> DEFINE product == n * interval
    <3>2. product \in Int /\ product <= 0 /\ elapsed < product + interval
      BY <1>1, <2>2, <3>1
    <3> HIDE DEF product
    <3> QED
      BY <1>1, <2>1, <3>2
  <2> QED
    BY <2>2, <2>3 DEF Leaked, elapsed, n
<1> HIDE DEF leaked
<1>6. AtLeastZero(size - leaked) < capacity
  BY <1>1, <1>3, <1>5 DEF AtLeastZero
<1>7. leaky_bucket(entry, capacity, interval, stamp).allowed
  BY <1>2, <1>6 DEF leaky_bucket, Admit, leaked, size, last
<1> QED
  BY <1>4, <1>7

LEMMA GcraRetry ==
    ASSUME NEW capacity \in Positive, NEW interval \in Positive,
           NEW entry \in Entry, Len(entry) \in {0, 1}, NEW now \in Nat,
           NEW result, result = gcra(entry, capacity, interval, now), ~result.allowed,
           NEW stamp \in Int
    PROVE  /\ result.reset_at <= stamp => gcra(result.entry, capacity, interval, stamp).allowed
           /\ now <= stamp /\ stamp < result.reset_at =>
                  ~gcra(result.entry, capacity, interval, stamp).allowed
<1> DEFINE burst == BurstInterval(capacity, interval)
           tat   == entry[1]
<1>1. burst \in Nat
  BY DEF BurstInterval, Positive
<1> HIDE DEF burst
<1>2. entry # <<>>
  BY <1>1 DEF gcra, Admit, burst
<1>3. tat \in Int
  BY <1>2 DEF Entry
<1>4. \A t \in Int : gcra(entry, capacity, interval, t).allowed <=> tat <= t + burst
  BY <1>2 DEF gcra, Admit, Deny, burst
<1>5. result.entry = entry /\ result.reset_at = tat - burst
  BY <1>2 DEF gcra, Admit, Deny, burst
<1> HIDE DEF tat
<1>6. (tat - burst <= stamp) <=> (tat <= stamp + burst)
  BY <1>1, <1>3
<1> QED
  BY <1>1, <1>3, <1>4, <1>5, <1>6

-----------------------------------------------------------------------------
(***************************************************************************)
(* Accounts.  What an entry says of the history g of the admissions that   *)
(* it stands for: each operation keeps the account of its entry, whatever  *)
(* stamps it is called with (the token bucket: with stamps in order).      *)
(***************************************************************************)

\* The history after a call decided as `result'.
History(g, now, result) == IF result.allowed THEN Append(g, now) ELSE g

LEMMA HistoryGrows ==
    ASSUME NEW g \in Seq(Nat), NEW now \in Nat
    PROVE  /\ Append(g, now) \in Seq(Nat)
           /\ Len(Append(g, now)) = Len(g) + 1
           /\ \A i \in 1 .. Len(g) : Append(g, now)[i] = g[i]
           /\ Append(g, now)[Len(g) + 1] = now
           /\ Len(g) \in Nat
           /\ \A i \in 1 .. Len(g) : g[i] \in Nat
  OBVIOUS

-----------------------------------------------------------------------------
\* GCRA's account: the theoretical arrival time is past every admission by an
\* interval for each request admitted since, and past the clock by the burst at most.
GcraAccount(entry, g, latest, capacity, interval) ==
    /\ entry = <<>> => g = <<>>
    /\ entry # <<>> =>
          /\ entry[1] <= latest + capacity * interval
          /\ \A i \in 1 .. Len(g) : (Len(g) - i + 1) * interval <= entry[1] - g[i]

\* A call to gcra keeps the account.
LEMMA GcraKeepsAccount ==
    ASSUME NEW capacity \in Positive, NEW interval \in Positive,
           NEW entry \in Entry, Len(entry) \in {0, 1},
           NEW g \in Seq(Nat), NEW latest \in Nat, NEW now \in Nat,
           GcraAccount(entry, g, latest, capacity, interval),
           NEW result, result = gcra(entry, capacity, interval, now)
    PROVE  GcraAccount(result.entry, History(g, now, result), Later(latest, now),
                       capacity, interval)
<1> DEFINE tat     == IF entry = <<>> THEN now ELSE entry[1]
           new_tat == Later(tat, now) + interval
           burst   == capacity * interval
<1>1. /\ tat \in Int /\ new_tat \in Int /\ burst \in Int
      /\ Later(latest, now) \in Nat /\ Later(latest, now) >= latest /\ Later(latest, now) >= now
      /\ new_tat >= tat + interval /\ new_tat >= now + interval
  BY DEF Later, Entry, Positive
<1>2. CASE tat <= now + BurstInterval(capacity, interval)
  <2>1. result.entry = <<new_tat>> /\ result.allowed
    BY <1>2 DEF gcra, Admit
  <2>2. tat <= now + burst - interval
    BY <1>1, <1>2 DEF BurstInterval, Positive
  <2>3. new_tat <= now + burst
    <3>1. burst >= interval
      BY DEF Positive
    <3>2. new_tat = tat + interval \/ new_tat = now + interval
      BY DEF Later
    <3> HIDE DEF tat, new_tat, burst
    <3> QED
      BY <1>1, <2>2, <3>1, <3>2 DEF Positive
  <2>4. \A i \in 1 .. Len(g) : (Len(g) - i + 1) * interval <= tat - g[i]
    BY HistoryGrows DEF GcraAccount
  <2> HIDE DEF tat, new_tat, burst
  <2>5. \A i \in 1 .. Len(g) : (Len(g) + 1 - i + 1) * interval <= new_tat - g[i]
    <3> TAKE i \in 1 .. Len(g)
    <3>1. (Len(g) + 1 - i + 1) * interval = (Len(g) - i + 1) * interval + interval
      BY HistoryGrows DEF Positive
    <3>2. (Len(g) - i + 1) * interval \in Int /\ g[i] \in Nat
      BY HistoryGrows DEF Positive
    <3> QED
      BY <1>1, <2>4, <3>1, <3>2, SMTT(40) DEF Positive
  <2>6. (Len(g) + 1 - (Len(g) + 1) + 1) * interval <= new_tat - now
    BY <1>1, HistoryGrows DEF Positive
  <2>7. \A i \in 1 .. Len(Append(g, now)) :
            (Len(Append(g, now)) - i + 1) * interval <= new_tat - Append(g, now)[i]
    BY <2>5, <2>6, HistoryGrows
  <2>8. new_tat <= Later(latest, now) + capacity * interval
    BY <1>1, <2>3 DEF burst
  <2> QED
    BY <2>1, <2>7, <2>8 DEF GcraAccount, History
<1>3. CASE ~(tat <= now + BurstInterval(capacity, interval))
  <2>1. result.entry = entry /\ ~result.allowed
    BY <1>3 DEF gcra, Deny
  <2>2. entry # <<>> => entry[1] <= Later(latest, now) + capacity * interval
    BY <1>1 DEF GcraAccount, Entry, Positive
  <2> QED
    BY <2>1, <2>2 DEF GcraAccount, History
<1> QED
  BY <1>2, <1>3

-----------------------------------------------------------------------------
\* Sliding window's account: the deque holds the latest admissions, `limit' of
\* them at most, and those it no longer holds have left the window.
SlidingAccount(q, g, latest, limit, window) ==
    /\ Len(q) <= limit
    /\ Len(q) <= Len(g)
    /\ \A i \in 1 .. Len(q) : q[i] = g[i + (Len(g) - Len(q))]
    /\ \A i \in 1 .. Len(g) - Len(q) : g[i] <= latest - window

\* A call to sliding_window keeps the account.
LEMMA SlidingKeepsAccount ==
    ASSUME NEW limit \in Positive, NEW window \in Positive,
           NEW entry \in Entry, NEW g \in Seq(Nat), NEW latest \in Nat, NEW now \in Nat,
           SlidingAccount(entry, g, latest, limit, window),
           NEW result, result = sliding_window(entry, window, limit, now)
    PROVE  SlidingAccount(result.entry, History(g, now, result), Later(latest, now),
                          limit, window)
<1> DEFINE q == Pruned(entry, now - window)
           newest == Later(latest, now)
<1>1. /\ newest \in Nat /\ newest >= latest /\ newest >= now
      /\ now - window \in Int
      /\ Len(g) \in Nat /\ Len(entry) \in Nat
      /\ \A i \in 1 .. Len(g) : g[i] \in Nat
  BY DEF Later, Positive, Entry
<1>2. q \in Entry
  BY <1>1, PrunedIsSuffix
<1>3. PICK dropped \in 0 .. Len(entry) :
          /\ \A i \in 1 .. dropped : entry[i] <= now - window
          /\ Len(q) = Len(entry) - dropped
          /\ \A i \in 1 .. Len(entry) - dropped : q[i] = entry[i + dropped]
  BY <1>1, PrunedIsSuffix
<1> HIDE DEF q, newest
<1>4. SlidingAccount(q, g, newest, limit, window)
  <2>1. Len(q) \in Nat /\ Len(q) <= limit /\ Len(q) <= Len(g)
    BY <1>1, <1>3 DEF SlidingAccount, Positive
  <2>2. \A i \in 1 .. Len(q) : q[i] = g[i + (Len(g) - Len(q))]
    <3> TAKE i \in 1 .. Len(q)
    <3>1. q[i] = entry[i + dropped] /\ i + dropped \in 1 .. Len(entry)
      BY <1>1, <1>3
    <3>2. entry[i + dropped] = g[i + dropped + (Len(g) - Len(entry))]
      BY <3>1 DEF SlidingAccount
    <3>3. i + dropped + (Len(g) - Len(entry)) = i + (Len(g) - Len(q))
      BY <1>1, <1>3, <2>1
    <3> QED
      BY <3>1, <3>2, <3>3
  <2>3. \A i \in 1 .. Len(g) - Len(q) : g[i] <= newest - window
    <3> TAKE i \in 1 .. Len(g) - Len(q)
    <3>0. i \in 1 .. Len(g)
      BY <1>1, <2>1
    <3>1. CASE i <= Len(g) - Len(entry)
      BY <1>1, <3>0, <3>1, SMTT(40) DEF SlidingAccount, Positive
    <3>2. CASE i > Len(g) - Len(entry)
      <4> DEFINE j == i - (Len(g) - Len(entry))
      <4>1. j \in 1 .. dropped /\ j \in 1 .. Len(entry)
        BY <1>1, <1>3, <2>1, <3>0, <3>2 DEF SlidingAccount
      <4>2. j + (Len(g) - Len(entry)) = i
        BY <1>1, <3>0
      <4>3. g[i] = entry[j]
        BY <4>1, <4>2 DEF SlidingAccount
      <4>4. entry[j] <= now - window
        BY <1>3, <4>1
      <4> HIDE DEF j
      <4> QED
        BY <1>1, <3>0, <4>3, <4>4 DEF Positive
    <3> QED
      BY <1>1, <3>0, <3>1, <3>2
  <2> QED
    BY <2>1, <2>2, <2>3 DEF SlidingAccount
<1>5. CASE Len(q) < limit
  <2>1. result.entry = Append(q, now) /\ result.allowed
    BY <1>5 DEF sliding_window, Admit, q
  <2>2. /\ Len(q) \in Nat /\ Len(Append(q, now)) = Len(q) + 1
        /\ \A i \in 1 .. Len(q) : Append(q, now)[i] = q[i]
        /\ Append(q, now)[Len(q) + 1] = now
    BY <1>2 DEF Entry
  <2>3. /\ Len(Append(g, now)) = Len(g) + 1
        /\ \A i \in 1 .. Len(g) : Append(g, now)[i] = g[i]
        /\ Append(g, now)[Len(g) + 1] = now
    BY HistoryGrows
  <2>4. (Len(g) + 1) - (Len(q) + 1) = Len(g) - Len(q)
    BY <1>1, <2>2
  <2>5. \A i \in 1 .. Len(q) + 1 : Append(q, now)[i] = Append(g, now)[i + (Len(g) - Len(q))]
    <3> TAKE i \in 1 .. Len(q) + 1
    <3>1. CASE i \in 1 .. Len(q)
      <4>1. i + (Len(g) - Len(q)) \in 1 .. Len(g)
        BY <1>1, <1>4, <2>2, <3>1 DEF SlidingAccount
      <4> QED
        BY <1>4, <2>2, <2>3, <3>1, <4>1 DEF SlidingAccount
    <3>2. CASE i = Len(q) + 1
      <4>1. i + (Len(g) - Len(q)) = Len(g) + 1
        BY <1>1, <2>2, <3>2
      <4> QED
        BY <2>2, <2>3, <3>2, <4>1
    <3>3. i \in 1 .. Len(q) \/ i = Len(q) + 1
      BY <2>2
    <3> QED
      BY <3>1, <3>2, <3>3
  <2>6. \A i \in 1 .. Len(g) - Len(q) : Append(g, now)[i] <= newest - window
    BY <1>1, <1>4, <2>2, <2>3 DEF SlidingAccount
  <2>7. Len(q) + 1 <= limit /\ Len(q) + 1 <= Len(g) + 1
    BY <1>1, <1>4, <1>5, <2>2 DEF SlidingAccount, Positive
  <2>8. SlidingAccount(Append(q, now), Append(g, now), newest, limit, window)
    BY <2>2, <2>3, <2>4, <2>5, <2>6, <2>7 DEF SlidingAccount
  <2> QED
    BY <2>1, <2>8 DEF History, newest
<1>6. CASE ~(Len(q) < limit)
  <2>1. result.entry = q /\ ~result.allowed
    BY <1>6 DEF sliding_window, Deny, q
  <2> QED
    BY <1>4, <2>1 DEF History, newest
<1> QED
  BY <1>5, <1>6

-----------------------------------------------------------------------------
\* Leaky bucket's account: what the queue does not hold has leaked out since,
\* at one request per interval, counted in whole intervals up to last_leak_time.
LeakyAccount(entry, g, latest, capacity, interval) ==
    /\ entry = <<>> => g = <<>>
    /\ entry # <<>> =>
          /\ entry[1] <= capacity
          /\ entry[2] <= latest
          /\ \A i \in 1 .. Len(g) :
                (Len(g) - i + 1) * interval
                    <= entry[1] * interval + (entry[2] - g[i]) + interval - 1

\* A call to leaky_bucket keeps the account.
LEMMA LeakyKeepsAccount ==
    ASSUME NEW capacity \in Positive, NEW interval \in Positive,
           NEW entry \in Entry, Len(entry) \in {0, 2},
           NEW g \in Seq(Nat), NEW latest \in Nat, NEW now \in Nat,
           LeakyAccount(entry, g, latest, capacity, interval),
           NEW result, result = leaky_bucket(entry, capacity, interval, now)
    PROVE  LeakyAccount(result.entry, History(g, now, result), Later(latest, now),
                        capacity, interval)
<1> DEFINE bucket == IF entry = <<>> THEN <<0, now>> ELSE entry
           size   == bucket[1]
           since  == bucket[2]
           leaked == Leaked(Elapsed(now, since), interval)
           queue  == AtLeastZero(size - leaked)
           last   == since + leaked * interval
           newest == Later(latest, now)
<1>1. size \in Int /\ since \in Int
  BY PairEntry
<1>2. /\ newest \in Nat /\ newest >= latest /\ newest >= now
      /\ Len(g) \in Nat /\ \A i \in 1 .. Len(g) : g[i] \in Nat
      /\ interval \in Nat /\ interval >= 1 /\ capacity \in Nat
  BY DEF Later, Positive
<1>3. since <= newest
  BY <1>1, <1>2 DEF LeakyAccount
<1>4. \A i \in 1 .. Len(g) : (Len(g) - i + 1) * interval
                                  <= size * interval + (since - g[i]) + interval - 1
  BY <1>1, <1>2 DEF LeakyAccount
<1> HIDE DEF bucket, size, since, newest
<1> DEFINE elapsed == Elapsed(now, since)
<1>5. /\ elapsed \in Nat /\ elapsed >= now - since
      /\ elapsed = 0 \/ elapsed = now - since
  BY <1>1 DEF Elapsed, AtLeastZero
<1> HIDE DEF elapsed
<1>6. /\ leaked \in Nat /\ leaked * interval \in Nat
      /\ leaked * interval <= elapsed /\ elapsed < leaked * interval + interval
  <2>1. leaked = elapsed \div interval
    BY DEF Leaked, elapsed
  <2> HIDE DEF leaked
  <2>2. leaked \in Nat /\ leaked * interval <= elapsed /\ elapsed < leaked * interval + interval
    BY <1>5, <2>1, DivIsInt
  <2> QED
    BY <1>2, <2>2
<1> HIDE DEF leaked
<1>7. last \in Int /\ last <= newest /\ last >= since /\ last >= now - (interval - 1)
  BY <1>1, <1>2, <1>3, <1>5, <1>6
<1>8. queue \in Nat /\ queue >= size - leaked
  BY <1>1, <1>6 DEF AtLeastZero
<1> HIDE DEF queue
<1>9. CASE queue < capacity
  <2>1. result.entry = <<queue + 1, last>> /\ result.allowed
    BY <1>9 DEF leaky_bucket, Admit, bucket, size, since, leaked, elapsed, queue
  <2>2. (queue + 1) * interval + last >= size * interval + since + interval
    <3>1. queue * interval >= (size - leaked) * interval
      BY <1>1, <1>2, <1>6, <1>8
    <3>2. (size - leaked) * interval = size * interval - leaked * interval
      BY <1>1, <1>2, <1>6
    <3>3. (queue + 1) * interval = queue * interval + interval
      BY <1>2, <1>8
    <3> DEFINE held == size * interval
               kept == queue * interval
               gone == leaked * interval
    <3>4. held \in Int /\ kept \in Int /\ gone \in Int
      BY <1>1, <1>2, <1>6, <1>8
    <3>5. kept >= held - gone
      BY <3>1, <3>2
    <3> HIDE DEF held, kept, gone
    <3>6. kept + interval + (since + gone) >= held + since + interval
      BY <1>1, <1>2, <3>4, <3>5
    <3> QED
      BY <3>3, <3>6 DEF held, kept, gone
  <2>3. (queue + 1) * interval \in Int /\ (queue + 1) * interval >= interval
    BY <1>2, <1>8
  <2> HIDE DEF last
  <2>4. \A i \in 1 .. Len(g) : (Len(g) + 1 - i + 1) * interval
                                   <= (queue + 1) * interval + (last - g[i]) + interval - 1
    <3> TAKE i \in 1 .. Len(g)
    <3>1. (Len(g) + 1 - i + 1) * interval = (Len(g) - i + 1) * interval + interval
      BY <1>2
    <3> DEFINE span  == (Len(g) - i + 1) * interval
               held  == size * interval
               holds == (queue + 1) * interval
               stamp == g[i]
    <3>2. span \in Int /\ held \in Int /\ holds \in Int /\ stamp \in Nat
      BY <1>1, <1>2, <1>8
    <3>3. span <= held + (since - stamp) + interval - 1
      BY <1>4
    <3>4. holds + last >= held + since + interval
      BY <2>2
    <3> HIDE DEF span, held, holds, stamp
    <3>5. span + interval <= holds + (last - stamp) + interval - 1
      BY <1>1, <1>2, <1>7, <3>2, <3>3, <3>4
    <3> QED
      BY <3>1, <3>5 DEF span, holds, stamp
  <2>5. (Len(g) + 1 - (Len(g) + 1) + 1) * interval
            <= (queue + 1) * interval + (last - now) + interval - 1
    <3>1. (Len(g) + 1 - (Len(g) + 1) + 1) * interval = interval
      BY <1>2
    <3> QED
      BY <1>2, <1>7, <2>3, <3>1
  <2>6. \A i \in 1 .. Len(Append(g, now)) : (Len(Append(g, now)) - i + 1) * interval
            <= (queue + 1) * interval + (last - Append(g, now)[i]) + interval - 1
    BY <2>4, <2>5, HistoryGrows
  <2>7. queue + 1 <= capacity
    BY <1>2, <1>8, <1>9
  <2> QED
    BY <1>7, <2>1, <2>6, <2>7 DEF LeakyAccount, History, newest
<1>10. CASE ~(queue < capacity)
  <2>1. result.entry = entry /\ ~result.allowed
    BY <1>10 DEF leaky_bucket, Deny, bucket, size, since, leaked, elapsed, queue
  <2>2. entry # <<>> => entry[2] <= newest
    BY <1>3 DEF bucket, since
  <2> QED
    BY <2>1, <2>2 DEF LeakyAccount, History, newest
<1> QED
  BY <1>9, <1>10

-----------------------------------------------------------------------------
\* Token bucket's account: what was admitted is what is missing from the bucket
\* and what was refilled since.
TokenAccount(entry, g, latest, capacity, interval) ==
    /\ entry = <<>> => g = <<>>
    /\ entry # <<>> =>
          /\ entry[1] >= 0
          /\ entry[2] <= latest
          /\ \A i \in 1 .. Len(g) :
                (Len(g) - i + 1) * interval
                    <= (capacity * interval - entry[1]) + (entry[2] - g[i])

\* A call to token_bucket keeps the account when its stamp is not a stale one.
LEMMA TokenKeepsAccount ==
    ASSUME NEW capacity \in Positive, NEW interval \in Positive,
           NEW entry \in Entry, Len(entry) \in {0, 2},
           NEW g \in Seq(Nat), NEW latest \in Nat, NEW now \in Nat, now >= latest,
           TokenAccount(entry, g, latest, capacity, interval),
           NEW result, result = token_bucket(entry, capacity, interval, now)
    PROVE  TokenAccount(result.entry, History(g, now, result), Later(latest, now),
                        capacity, interval)
<1> DEFINE full   == capacity * interval
           bucket == IF entry = <<>> THEN <<full, now>> ELSE entry
           size   == bucket[1]
           since  == bucket[2]
           level  == AtMost(size + Elapsed(now, since), full)
           left   == level - interval
<1>1. /\ full \in Nat /\ interval \in Nat
      /\ Len(g) \in Nat /\ \A i \in 1 .. Len(g) : g[i] \in Nat
      /\ Later(latest, now) = now
  BY DEF Later, Positive
<1>2. size \in Int /\ since \in Int /\ since <= now
  BY <1>1, PairEntry DEF TokenAccount
<1>3. \A i \in 1 .. Len(g) : (Len(g) - i + 1) * interval
                                  <= (full - size) + (since - g[i])
  BY DEF TokenAccount
<1> HIDE DEF bucket, size, since, full
<1>4. level \in Int /\ level <= full /\ level <= size + (now - since)
  <2>1. Elapsed(now, since) = now - since
    BY <1>2 DEF Elapsed, AtLeastZero
  <2> QED
    BY <1>1, <1>2, <2>1 DEF AtMost
<1> HIDE DEF level
<1>5. CASE level >= interval
  <2>1. result.entry = <<left, now>> /\ result.allowed
    BY <1>5 DEF token_bucket, Admit, full, bucket, size, since, level
  <2>2. left >= 0 /\ left \in Int
    BY <1>1, <1>4, <1>5
  <2>3. \A i \in 1 .. Len(g) : (Len(g) + 1 - i + 1) * interval <= (full - left) + (now - g[i])
    <3> TAKE i \in 1 .. Len(g)
    <3>1. (Len(g) + 1 - i + 1) * interval = (Len(g) - i + 1) * interval + interval
      BY <1>1
    <3> DEFINE span  == (Len(g) - i + 1) * interval
               stamp == g[i]
    <3>2. span \in Int /\ stamp \in Nat
      BY <1>1
    <3>3. span <= (full - size) + (since - stamp)
      BY <1>3
    <3> HIDE DEF span, stamp
    <3>4. span + interval <= (full - left) + (now - stamp)
      BY <1>1, <1>2, <1>4, <3>2, <3>3
    <3> QED
      BY <3>1, <3>4 DEF span, stamp
  <2>4. (Len(g) + 1 - (Len(g) + 1) + 1) * interval <= (full - left) + (now - now)
    <3>1. (Len(g) + 1 - (Len(g) + 1) + 1) * interval = interval
      BY <1>1
    <3> QED
      BY <1>1, <1>4, <3>1
  <2> HIDE DEF left
  <2>5. \A i \in 1 .. Len(Append(g, now)) : (Len(Append(g, now)) - i + 1) * interval
            <= (full - left) + (now - Append(g, now)[i])
    BY <2>3, <2>4, HistoryGrows
  <2>6. now <= now
    OBVIOUS
  <2> QED
    BY <1>1, <2>1, <2>2, <2>5, <2>6 DEF TokenAccount, History, full
<1>6. CASE ~(level >= interval)
  <2>1. result.entry = entry /\ ~result.allowed
    BY <1>6 DEF token_bucket, Deny, full, bucket, size, since, level
  <2>2. entry # <<>> => entry[2] <= now
    BY <1>2 DEF bucket, since
  <2> QED
    BY <1>1, <2>1, <2>2 DEF TokenAccount, History
<1> QED
  BY <1>5, <1>6

-----------------------------------------------------------------------------
\* What an account says of a single admission.
LEMMA SlidingAccountBounds ==
    ASSUME NEW limit \in Positive, NEW window \in Positive, NEW q \in Entry,
           NEW g \in Seq(Nat), NEW latest \in Nat,
           SlidingAccount(q, g, latest, limit, window),
           NEW i \in 1 .. Len(g), Len(g) - i + 1 > limit
    PROVE  latest - g[i] >= window
<1>1. Len(q) \in Nat /\ Len(g) \in Nat /\ Len(q) <= limit
  BY DEF Entry, SlidingAccount
<1>2. i \in 1 .. Len(g) - Len(q)
  BY <1>1 DEF Positive
<1>3. g[i] <= latest - window /\ g[i] \in Nat
  BY <1>2 DEF SlidingAccount
<1> DEFINE stamp == g[i]
<1> HIDE DEF stamp
<1>4. stamp <= latest - window /\ stamp \in Nat
  BY <1>3 DEF stamp
<1>5. latest - stamp >= window
  BY <1>4 DEF Positive
<1> QED
  BY <1>5 DEF stamp

LEMMA GcraAccountBounds ==
    ASSUME NEW capacity \in Positive, NEW interval \in Positive, NEW entry \in Entry,
           NEW g \in Seq(Nat), NEW latest \in Nat,
           GcraAccount(entry, g, latest, capacity, interval),
           NEW i \in 1 .. Len(g)
    PROVE  (Len(g) - i + 1) * interval <= (latest - g[i]) + capacity * interval + 0
<1> DEFINE stamp == g[i]
           span  == (Len(g) - i + 1) * interval
           burst == capacity * interval
           tat   == entry[1]
<1>1. entry # <<>>
  BY DEF GcraAccount
<1>2. tat \in Int /\ stamp \in Nat /\ span \in Int /\ burst \in Int
  BY <1>1 DEF Entry, Positive
<1>3. tat <= latest + burst /\ span <= tat - stamp
  BY <1>1 DEF GcraAccount
<1> HIDE DEF stamp, span, burst, tat
<1>4. span <= (latest - stamp) + burst + 0
  BY <1>2, <1>3
<1> QED
  BY <1>4 DEF stamp, span, burst

LEMMA LeakyAccountBounds ==
    ASSUME NEW capacity \in Positive, NEW interval \in Positive,
           NEW entry \in Entry, Len(entry) \in {0, 2},
           NEW g \in Seq(Nat), NEW latest \in Nat,
           LeakyAccount(entry, g, latest, capacity, interval),
           NEW i \in 1 .. Len(g)
    PROVE  (Len(g) - i + 1) * interval
               <= (latest - g[i]) + capacity * interval + (interval - 1)
<1> DEFINE stamp == g[i]
           span  == (Len(g) - i + 1) * interval
           burst == capacity * interval
           size  == entry[1]
           held  == size * interval
           last  == entry[2]
<1>1. entry # <<>>
  BY DEF LeakyAccount
<1>2. size \in Int /\ last \in Int
  BY <1>1, PairEntry
<1>3. size <= capacity /\ last <= latest /\ span <= held + (last - stamp) + interval - 1
  BY <1>1 DEF LeakyAccount
<1>4. stamp \in Nat /\ span \in Int
  BY DEF Positive
<1> HIDE DEF stamp, span, size, last
<1>5. held \in Int /\ burst \in Int /\ held <= burst
  BY <1>2, <1>3 DEF Positive
<1> HIDE DEF held, burst
<1>6. span <= (latest - stamp) + burst + (interval - 1)
  BY <1>2, <1>3, <1>4, <1>5 DEF Positive
<1> QED
  BY <1>6 DEF stamp, span, burst

\* A token bucket is written with a stamp that is not later than the latest.
LEMMA TokenWrites ==
    ASSUME NEW capacity \in Positive, NEW interval \in Positive,
           NEW entry \in Entry, NEW latest \in Nat, NEW now \in Nat,
           Len(entry) \in {0, 2}, entry # <<>> => entry[2] <= latest,
           NEW result, result = token_bucket(entry, capacity, interval, now)
    PROVE  result.entry # <<>> => result.entry[2] <= Later(latest, now)
<1>1. Later(latest, now) >= latest /\ Later(latest, now) >= now /\ Later(latest, now) \in Nat
  BY DEF Later
<1>2. result.entry = entry \/ \E left : result.entry = <<left, now>>
  BY DEF token_bucket, Admit, Deny
<1> QED
  BY <1>1, <1>2, PairEntry

\* What is left in a token bucket bounds what was admitted.
LEMMA TokenAccountBounds ==
    ASSUME NEW capacity \in Positive, NEW interval \in Positive,
           NEW entry \in Entry, Len(entry) \in {0, 2},
           NEW g \in Seq(Nat), NEW latest \in Nat,
           TokenAccount(entry, g, latest, capacity, interval),
           NEW i \in 1 .. Len(g)
    PROVE  (Len(g) - i + 1) * interval <= (latest - g[i]) + capacity * interval + 0
<1> DEFINE stamp == g[i]
           span  == (Len(g) - i + 1) * interval
           burst == capacity * interval
           level == entry[1]
           last  == entry[2]
<1>1. entry # <<>>
  BY DEF TokenAccount
<1>2. level \in Int /\ last \in Int
  BY <1>1, PairEntry
<1>3. level >= 0 /\ last <= latest /\ span <= (burst - level) + (last - stamp)
  BY <1>1 DEF TokenAccount
<1>4. stamp \in Nat /\ span \in Int /\ burst \in Int
  BY DEF Positive
<1> HIDE DEF stamp, span, burst, level, last
<1>5. span <= (latest - stamp) + burst + 0
  BY <1>2, <1>3, <1>4
<1> QED
  BY <1>5 DEF stamp, span, burst

-----------------------------------------------------------------------------
\* Fixed window's account: the window of the entry is that of the latest stamp, the
\* admissions it does not count are stamped before it, and those that the window
\* before it cannot have counted either are a whole window older.
FixedAccount(entry, g, latest, limit, window) ==
    /\ entry = <<>> => g = <<>> /\ latest = 0
    /\ entry # <<>> =>
          /\ entry[1] \in 0 .. limit
          /\ entry[2] = Aligned(latest, window)
          /\ \A i \in 1 .. Len(g) :
                /\ g[i] < entry[2] + window
                /\ i <= Len(g) - entry[1] => g[i] < entry[2]
                /\ i <= Len(g) - entry[1] - limit => g[i] + window <= entry[2]

\* A call to fixed_window keeps the account.
LEMMA FixedKeepsAccount ==
    ASSUME NEW limit \in Positive, NEW window \in Positive,
           NEW entry \in Entry, Len(entry) \in {0, 2},
           NEW g \in Seq(Nat), NEW latest \in Nat, NEW now \in Nat,
           FixedAccount(entry, g, latest, limit, window),
           NEW result, result = fixed_window(entry, window, limit, now)
    PROVE  FixedAccount(result.entry, History(g, now, result), Later(latest, now),
                        limit, window)
<1> DEFINE start   == Aligned(now, window)
           current == CurrentWindow(entry, start)
           count   == current[1]
           since   == current[2]
           newest  == Later(latest, now)
<1>1. /\ newest \in Nat /\ newest >= latest /\ newest >= now /\ newest \in {latest, now}
      /\ Len(g) \in Nat /\ \A i \in 1 .. Len(g) : g[i] \in Nat
      /\ limit \in Nat /\ limit >= 1 /\ window \in Nat /\ window >= 1
  BY DEF Later, Positive
<1>2. /\ start \in Int /\ start <= now /\ now < start + window
      /\ Aligned(latest, window) \in Int /\ Aligned(newest, window) \in Int
      /\ latest <= now => Aligned(latest, window) <= start
      /\ now <= latest => start <= Aligned(latest, window)
      /\ Aligned(latest, window) < start => Aligned(latest, window) + window <= start
  <2> HIDE DEF newest
  <2>1. latest \in Int /\ now \in Int /\ newest \in Int
    BY <1>1
  <2> QED
    BY <2>1, AlignedOrder
\* The account holds of the window that the request is counted in.
<1>3. /\ count \in 0 .. limit /\ since \in Int /\ since = Aligned(newest, window)
      /\ \A i \in 1 .. Len(g) :
            /\ g[i] < since + window
            /\ i <= Len(g) - count => g[i] < since
            /\ i <= Len(g) - count - limit => g[i] + window <= since
  <2>1. CASE entry = <<>>
    <3>1. count = 0 /\ since = start /\ g = <<>> /\ latest = 0
      BY <2>1 DEF CurrentWindow, FixedAccount
    <3>2. newest = now
      BY <3>1 DEF Later
    <3> HIDE DEF newest, count, since, start
    <3> QED
      BY <1>1, <1>2, <3>1, <3>2 DEF start
  <2>2. CASE entry # <<>> /\ entry[2] < start
    <3>1. count = 0 /\ since = start
      BY <2>2 DEF CurrentWindow
    <3>2. entry[1] \in 0 .. limit /\ entry[2] = Aligned(latest, window)
      BY <2>2 DEF FixedAccount
    <3>3. newest = now
      BY <1>1, <1>2, <2>2, <3>2
    <3>4. \A i \in 1 .. Len(g) :
            /\ g[i] < entry[2] + window
            /\ i <= Len(g) - entry[1] => g[i] < entry[2]
            /\ i <= Len(g) - entry[1] - limit => g[i] + window <= entry[2]
      BY <2>2 DEF FixedAccount
    <3> DEFINE was == entry[2]
               had == entry[1]
    <3>5. /\ was \in Int /\ had \in 0 .. limit /\ was + window <= start
          /\ \A i \in 1 .. Len(g) :
                /\ g[i] < was + window
                /\ i <= Len(g) - had => g[i] < was
      BY <1>2, <2>2, <3>2, <3>4
    <3> HIDE DEF was, had, start, newest, count, since
    <3>6. ASSUME NEW i \in 1 .. Len(g)
          PROVE  g[i] < start /\ (i <= Len(g) - 0 - limit => g[i] + window <= start)
      <4>1. g[i] \in Nat /\ g[i] < was + window /\ (i <= Len(g) - had => g[i] < was)
        BY <1>1, <3>5
      <4>2. i <= Len(g) - 0 - limit => i <= Len(g) - had
        BY <1>1, <3>5
      <4> DEFINE stamp == g[i]
      <4>3. stamp \in Nat /\ stamp < was + window /\ (i <= Len(g) - 0 - limit => stamp < was)
        BY <4>1, <4>2
      <4> HIDE DEF stamp
      <4>4. stamp < start /\ (i <= Len(g) - 0 - limit => stamp + window <= start)
        BY <1>1, <1>2, <3>5, <4>3
      <4> QED
        BY <4>4 DEF stamp
    <3> QED
      BY <1>1, <1>2, <3>1, <3>3, <3>6 DEF start
  <2>3. CASE entry # <<>> /\ ~(entry[2] < start)
    <3>1. count = entry[1] /\ since = entry[2]
      BY <2>3 DEF CurrentWindow
    <3>2. Aligned(newest, window) = Aligned(latest, window)
      BY <1>1, <1>2, <2>3 DEF FixedAccount
    <3>3. /\ entry[1] \in 0 .. limit /\ entry[2] = Aligned(latest, window)
          /\ \A i \in 1 .. Len(g) :
                /\ g[i] < entry[2] + window
                /\ i <= Len(g) - entry[1] => g[i] < entry[2]
                /\ i <= Len(g) - entry[1] - limit => g[i] + window <= entry[2]
      BY <2>3 DEF FixedAccount
    <3> DEFINE was == entry[2]
               had == entry[1]
    <3>4. /\ had \in 0 .. limit /\ was = Aligned(newest, window) /\ was \in Int
          /\ \A i \in 1 .. Len(g) :
                /\ g[i] < was + window
                /\ i <= Len(g) - had => g[i] < was
                /\ i <= Len(g) - had - limit => g[i] + window <= was
      BY <1>2, <3>2, <3>3
    <3>5. count = had /\ since = was
      BY <3>1
    <3> HIDE DEF count, since, newest, had, was
    <3> QED
      BY <3>4, <3>5
  <2> QED
    BY <2>1, <2>2, <2>3
<1> HIDE DEF newest
<1>4. CASE count < limit
  <2>1. result.entry = <<count + 1, since>> /\ result.allowed
    BY <1>4 DEF fixed_window, Admit
  <2> HIDE DEF count, since
  <2>2. /\ Len(Append(g, now)) = Len(g) + 1
        /\ \A i \in 1 .. Len(g) : Append(g, now)[i] = g[i]
        /\ Append(g, now)[Len(g) + 1] = now
    BY HistoryGrows
  <2>3. \A i \in 1 .. Len(g) + 1 :
            /\ Append(g, now)[i] < since + window
            /\ i <= Len(g) + 1 - (count + 1) => Append(g, now)[i] < since
            /\ i <= Len(g) + 1 - (count + 1) - limit => Append(g, now)[i] + window <= since
    <3> TAKE i \in 1 .. Len(g) + 1
    <3>1. CASE i \in 1 .. Len(g)
      <4>1. count \in Nat /\ Len(g) \in Nat /\ limit \in Nat
        BY <1>1, <1>3
      <4>2. Append(g, now)[i] = g[i] /\ Len(g) + 1 - (count + 1) = Len(g) - count
        BY <2>2, <3>1, <4>1
      <4>3. /\ g[i] < since + window
            /\ i <= Len(g) - count => g[i] < since
            /\ i <= Len(g) - count - limit => g[i] + window <= since
        BY <1>3, <3>1
      <4> QED
        BY <1>1, <1>3, <3>1, <4>1, <4>2, <4>3, SMTT(40)
    <3>2. CASE i = Len(g) + 1
      <4>1. count \in Nat /\ Len(g) \in Nat /\ limit \in Nat
        BY <1>1, <1>3
      <4>2. ~(i <= Len(g) + 1 - (count + 1)) /\ ~(i <= Len(g) + 1 - (count + 1) - limit)
        BY <3>2, <4>1
      <4>3. Append(g, now)[i] = now
        BY <2>2, <3>2
      <4>4. now < since + window
        <5>1. newest \in Int
          BY <1>1
        <5>2. newest < Aligned(newest, window) + window
          BY <5>1, AlignedOrder
        <5> QED
          BY <1>1, <1>3, <5>2
      <4> QED
        BY <4>2, <4>3, <4>4
    <3> QED
      BY <1>1, <3>1, <3>2
  <2>4. count + 1 \in 0 .. limit
    BY <1>1, <1>3, <1>4
  <2>5. History(g, now, result) = Append(g, now)
    BY <2>1 DEF History
  <2> DEFINE pair == <<count + 1, since>>
             h    == Append(g, now)
  <2>6. pair # <<>> /\ pair[1] = count + 1 /\ pair[2] = since
    OBVIOUS
  <2>7. \A i \in 1 .. Len(h) :
            /\ h[i] < since + window
            /\ i <= Len(h) - (count + 1) => h[i] < since
            /\ i <= Len(h) - (count + 1) - limit => h[i] + window <= since
    <3>1. Len(h) = Len(g) + 1
      BY <2>2
    <3>2. \A i \in 1 .. Len(g) + 1 :
            /\ h[i] < since + window
            /\ i <= Len(g) + 1 - (count + 1) => h[i] < since
            /\ i <= Len(g) + 1 - (count + 1) - limit => h[i] + window <= since
      BY <2>3
    <3> HIDE DEF h
    <3> TAKE i \in 1 .. Len(h)
    <3>3. i \in 1 .. Len(g) + 1
      BY <3>1
    <3> QED
      BY <1>1, <1>3, <3>1, <3>2, <3>3
  <2> HIDE DEF pair, h
  <2>8. FixedAccount(pair, h, newest, limit, window)
    BY <1>3, <2>4, <2>6, <2>7 DEF FixedAccount
  <2> QED
    BY <2>1, <2>5, <2>8 DEF newest, pair, h
<1>5. CASE ~(count < limit)
  <2>1. result.entry = entry /\ ~result.allowed
    BY <1>5 DEF fixed_window, Deny
  <2>2. entry # <<>> /\ count = entry[1] /\ since = entry[2]
    BY <1>1, <1>5 DEF CurrentWindow
  <2> HIDE DEF count, since
  <2> QED
    BY <1>3, <2>1, <2>2 DEF FixedAccount, History, newest
<1> QED
  BY <1>4, <1>5

\* How the account bounds the admissions since any of them.
LEMMA FixedAccountBounds ==
    ASSUME NEW limit \in Positive, NEW window \in Positive,
           NEW entry \in Entry, Len(entry) \in {0, 2},
           NEW g \in Seq(Nat), NEW latest \in Nat,
           FixedAccount(entry, g, latest, limit, window),
           NEW i \in 1 .. Len(g)
    PROVE  /\ Len(g) - i + 1 > limit => Aligned(g[i], window) < Aligned(latest, window)
           /\ Len(g) - i + 1 > 2 * limit => latest - g[i] >= window
<1> DEFINE stamp == g[i]
           size  == Len(g)
           count == entry[1]
           start == Aligned(latest, window)
<1>1. /\ stamp \in Nat /\ size \in Nat /\ i \in Nat
      /\ limit \in Nat /\ limit >= 1 /\ window \in Nat /\ window >= 1
  BY DEF Positive
<1>2. entry # <<>>
  BY DEF FixedAccount
<1>3. count \in 0 .. limit /\ entry[2] = start
  BY <1>2 DEF FixedAccount
<1>4. /\ i <= size - count => stamp < start
      /\ i <= size - count - limit => stamp + window <= start
  BY <1>2, <1>3 DEF FixedAccount
<1>5. start \in Int /\ start <= latest
  BY AlignedOrder
<1>6. Aligned(stamp, window) \in Int /\ Aligned(stamp, window) <= stamp
  <2> HIDE DEF stamp
  <2>1. stamp \in Int
    BY <1>1
  <2> QED
    BY <2>1, AlignedOrder
<1> DEFINE own == Aligned(stamp, window)
<1> HIDE DEF stamp, size, count, start, own
<1>7. /\ size - i + 1 > limit => own < start
      /\ size - i + 1 > 2 * limit => latest - stamp >= window
  BY <1>1, <1>3, <1>4, <1>5, <1>6 DEF own
<1> QED
  BY <1>7 DEF stamp, size, start, own

-----------------------------------------------------------------------------
(***************************************************************************)
(* While stamps arrive in order, the history rises with them, a sliding    *)
(* window's queue has nothing in it that has expired (Fresh), and a        *)
(* request of a fixed window falls into a later window than the one        *)
(* `limit' places before it (Spaced).                                      *)
(***************************************************************************)

Rising(g, latest) ==
    \A i \in 1 .. Len(g) : g[i] <= latest /\ \A j \in 1 .. i : g[j] <= g[i]

Fresh(q, latest, window) == \A i \in 1 .. Len(q) : q[i] > latest - window

Spaced(g, limit, window) ==
    \A i \in 1 .. Len(g) - limit : Aligned(g[i], window) < Aligned(g[i + limit], window)

LEMMA OrderGrows ==
    ASSUME NEW g \in Seq(Nat), NEW latest \in Nat, NEW now \in Nat, latest <= now,
           Rising(g, latest), NEW result
    PROVE  Rising(History(g, now, result), now)
<1>1. Len(g) \in Nat /\ \A i \in 1 .. Len(g) : g[i] \in Nat
  BY HistoryGrows
<1>2. \A i \in 1 .. Len(g) : g[i] <= now /\ \A j \in 1 .. i : g[j] <= g[i]
  <2> TAKE i \in 1 .. Len(g)
  <2>1. PICK stamp \in Nat : stamp = g[i] /\ stamp <= latest
    BY <1>1 DEF Rising
  <2>2. g[i] <= now
    BY <2>1
  <2> QED
    BY <2>2 DEF Rising
<1>3. CASE result.allowed
  <2>1. PICK h \in Seq(Nat), n \in Nat :
            /\ h = Append(g, now) /\ n = Len(g) /\ Len(h) = n + 1
            /\ \A i \in 1 .. n : h[i] = g[i]
            /\ h[n + 1] = now
    <3>1. PICK h : h = Append(g, now)
      OBVIOUS
    <3>2. /\ h \in Seq(Nat) /\ Len(h) = Len(g) + 1
          /\ \A i \in 1 .. Len(g) : h[i] = g[i]
          /\ h[Len(g) + 1] = now
      BY <3>1, HistoryGrows
    <3> QED
      BY <1>1, <3>1, <3>2
  <2>2. ASSUME NEW i \in 1 .. n + 1
        PROVE  h[i] <= now /\ \A j \in 1 .. i : h[j] <= h[i]
    <3>1. CASE i \in 1 .. n
      <4>1. \A j \in 1 .. i : j \in 1 .. n
        BY <3>1
      <4>2. h[i] = g[i] /\ \A j \in 1 .. i : h[j] = g[j]
        BY <2>1, <3>1, <4>1
      <4> QED
        BY <1>2, <2>1, <3>1, <4>2
    <3>2. CASE i = n + 1
      <4>1. \A j \in 1 .. i : j \in 1 .. n \/ j = n + 1
        BY <3>2
      <4>2. \A j \in 1 .. n : h[j] <= now
        BY <1>2, <2>1
      <4> QED
        BY <2>1, <3>2, <4>1, <4>2
    <3> QED
      BY <3>1, <3>2
  <2>3. Rising(h, now)
    BY <2>1, <2>2 DEF Rising
  <2> QED
    BY <1>3, <2>1, <2>3 DEF History
<1>4. CASE ~result.allowed
  BY <1>2, <1>4 DEF History, Rising
<1> QED
  BY <1>3, <1>4

LEMMA QueueStaysFresh ==
    ASSUME NEW limit \in Positive, NEW window \in Positive,
           NEW entry \in Entry, NEW g \in Seq(Nat), NEW latest \in Nat, NEW now \in Nat,
           SlidingAccount(entry, g, latest, limit, window), Rising(g, latest),
           NEW result, result = sliding_window(entry, window, limit, now)
    PROVE  Fresh(result.entry, now, window)
<1>1. PICK cutoff \in Int, m \in Nat, n \in Nat :
          /\ cutoff = now - window /\ cutoff < now /\ m = Len(entry) /\ n = Len(g)
  <2>1. window \in Nat /\ window >= 1
    BY DEF Positive
  <2>2. now - window \in Int /\ now - window < now
    BY <2>1
  <2>3. Len(entry) \in Nat
    BY LenProperties DEF Entry
  <2>4. Len(g) \in Nat
    BY LenProperties
  <2> QED
    BY <2>2, <2>3, <2>4
<1>2. /\ m <= n /\ \A i \in 1 .. m : entry[i] = g[i + (n - m)]
      /\ \A i \in 1 .. n : g[i] \in Nat /\ \A j \in 1 .. i : g[j] <= g[i]
  BY <1>1, HistoryGrows DEF SlidingAccount, Rising
<1>3. PICK q \in Entry, d \in 0 .. m :
          /\ q = Pruned(entry, cutoff) /\ Len(q) = m - d
          /\ \A i \in 1 .. m - d : q[i] = entry[i + d]
          /\ d < m => entry[d + 1] > cutoff
  <2>1. /\ Pruned(entry, cutoff) \in Entry
        /\ \E d \in 0 .. m :
              /\ Len(Pruned(entry, cutoff)) = m - d
              /\ \A i \in 1 .. m - d : Pruned(entry, cutoff)[i] = entry[i + d]
              /\ d < m => entry[d + 1] > cutoff
    BY <1>1, PrunedIsSuffix
  <2> QED
    BY <2>1
<1>4. ASSUME NEW i \in 1 .. m - d
      PROVE  q[i] > cutoff
  <2>1. /\ i + d \in 1 .. m /\ d + 1 \in 1 .. m /\ d < m
        /\ i + d + (n - m) \in 1 .. n /\ d + 1 + (n - m) \in 1 .. i + d + (n - m)
    BY <1>2, <1>3
  <2>2. entry[d + 1] <= entry[i + d] /\ entry[i + d] \in Nat /\ entry[d + 1] \in Nat
    <3>1. entry[i + d] = g[i + d + (n - m)] /\ entry[d + 1] = g[d + 1 + (n - m)]
      BY <1>2, <2>1
    <3>2. d + 1 + (n - m) \in 1 .. n
      BY <1>2, <2>1
    <3> QED
      BY <1>2, <2>1, <3>1, <3>2
  <2>3. PICK first \in Nat, stamp \in Nat : first = entry[d + 1] /\ stamp = entry[i + d]
    BY <2>2
  <2>4. stamp > cutoff
    BY <1>1, <1>3, <2>1, <2>2, <2>3
  <2> QED
    BY <1>3, <2>3, <2>4
<1>5. CASE Len(q) < limit
  <2>1. result.entry = Append(q, now)
    BY <1>1, <1>3, <1>5 DEF sliding_window, Admit
  <2>2. PICK more : more = Append(q, now)
    OBVIOUS
  <2>3. /\ Len(more) = m - d + 1 /\ more[m - d + 1] = now
        /\ \A i \in 1 .. m - d : more[i] = q[i]
    <3>1. q \in Seq(Int) /\ now \in Int
      BY <1>3 DEF Entry
    <3>2. /\ Len(more) = Len(q) + 1 /\ more[Len(q) + 1] = now
          /\ \A i \in 1 .. Len(q) : more[i] = q[i]
      BY <2>2, <3>1, AppendProperties
    <3> QED
      BY <1>3, <3>2
  <2>4. \A i \in 1 .. m - d + 1 : i \in 1 .. m - d \/ i = m - d + 1
    BY <1>3
  <2>5. \A i \in 1 .. m - d + 1 : more[i] > cutoff
    BY <1>1, <1>4, <2>3, <2>4
  <2> QED
    BY <1>1, <2>1, <2>2, <2>3, <2>5 DEF Fresh
<1>6. CASE ~(Len(q) < limit)
  <2>1. result.entry = q
    BY <1>1, <1>3, <1>6 DEF sliding_window, Deny
  <2> QED
    BY <1>1, <1>3, <1>4, <2>1 DEF Fresh
<1> QED
  BY <1>5, <1>6

LEMMA SpacingGrows ==
    ASSUME NEW limit \in Positive, NEW window \in Positive,
           NEW g \in Seq(Nat), NEW now \in Nat, Spaced(g, limit, window),
           NEW result, NEW entry \in Entry, Len(entry) \in {0, 2},
           FixedAccount(entry, History(g, now, result), now, limit, window)
    PROVE  Spaced(History(g, now, result), limit, window)
<1>1. CASE ~result.allowed
  BY <1>1 DEF History
<1>2. CASE result.allowed
  <2>1. PICK h \in Seq(Nat), n \in Nat :
            /\ h = Append(g, now) /\ n = Len(g) /\ Len(h) = n + 1
            /\ \A i \in 1 .. n : h[i] = g[i]
            /\ h[n + 1] = now
    <3>1. PICK h : h = Append(g, now)
      OBVIOUS
    <3>2. /\ h \in Seq(Nat) /\ Len(h) = Len(g) + 1 /\ Len(g) \in Nat
          /\ \A i \in 1 .. Len(g) : h[i] = g[i]
          /\ h[Len(g) + 1] = now
      BY <3>1, HistoryGrows
    <3> QED
      BY <3>1, <3>2
  <2>2. FixedAccount(entry, h, now, limit, window)
    BY <1>2, <2>1 DEF History
  <2>3. limit \in Nat /\ limit >= 1
    BY DEF Positive
  <2>4. ASSUME NEW i \in 1 .. (n + 1) - limit
        PROVE  Aligned(h[i], window) < Aligned(h[i + limit], window)
    <3>1. i \in 1 .. n + 1 /\ i \in 1 .. n /\ i + limit \in 1 .. n + 1
      BY <2>3
    <3>2. CASE i + limit \in 1 .. n
      <4>1. i \in 1 .. n - limit
        BY <2>3, <3>2
      <4>2. Aligned(g[i], window) < Aligned(g[i + limit], window)
        BY <2>1, <4>1 DEF Spaced
      <4> QED
        BY <2>1, <3>1, <3>2, <4>2
    <3>3. CASE i + limit = n + 1
      <4>1. i \in 1 .. Len(h) /\ Len(h) - i + 1 > limit
        BY <2>1, <2>3, <3>1, <3>3
      <4>2. Len(h) - i + 1 > limit => Aligned(h[i], window) < Aligned(now, window)
        BY <2>1, <2>2, <4>1, FixedAccountBounds, Zenon
      <4>3. Aligned(h[i], window) < Aligned(now, window)
        BY <4>1, <4>2
      <4> QED
        BY <2>1, <3>3, <4>3
    <3>4. \A m \in 1 .. n + 1 : m \in 1 .. n \/ m = n + 1
      OBVIOUS
    <3>5. i + limit \in 1 .. n \/ i + limit = n + 1
      BY <3>1, <3>4, Zenon
    <3> QED
      BY <3>2, <3>3, <3>5
  <2>5. Spaced(h, limit, window)
    BY <2>1, <2>4 DEF Spaced
  <2> QED
    BY <1>2, <2>1, <2>5 DEF History
<1> QED
  BY <1>1, <1>2

\* The queue holds exactly the admissions that are in the window.
LEMMA QueueCounts ==
    ASSUME NEW limit \in Positive, NEW window \in Positive, NEW q \in Entry,
           NEW g \in Seq(Nat), NEW latest \in Nat,
           SlidingAccount(q, g, latest, limit, window), Fresh(q, latest, window)
    PROVE  Len(q) = Cardinality({i \in DOMAIN g : latest - g[i] < window})
<1> DEFINE recent == {i \in DOMAIN g : latest - g[i] < window}
<1>1. PICK m \in Nat, n \in Nat : m = Len(q) /\ n = Len(g)
  BY LenProperties DEF Entry
<1>2. /\ DOMAIN g = 1 .. n /\ window \in Nat
      /\ \A i \in 1 .. n : g[i] \in Nat
  BY <1>1, LenProperties, ElementOfSeq DEF Positive
<1>3. /\ m <= n
      /\ \A i \in 1 .. m : q[i] = g[i + (n - m)] /\ q[i] > latest - window
      /\ \A i \in 1 .. n - m : g[i] <= latest - window
  BY <1>1 DEF SlidingAccount, Fresh
<1>4. ASSUME NEW i \in 1 .. n
      PROVE  latest - g[i] < window <=> i \in n - m + 1 .. n
  <2>1. PICK stamp \in Nat : stamp = g[i]
    BY <1>2
  <2>2. CASE i \in 1 .. n - m
    <3>1. stamp <= latest - window
      BY <1>3, <2>1, <2>2
    <3> QED
      BY <1>1, <1>2, <2>1, <2>2, <3>1
  <2>3. CASE i \notin 1 .. n - m
    <3>1. i - (n - m) \in 1 .. m /\ i - (n - m) + (n - m) = i /\ i \in n - m + 1 .. n
      BY <1>3, <2>3
    <3>2. g[i - (n - m) + (n - m)] > latest - window
      BY <1>3, <3>1
    <3>3. stamp > latest - window
      BY <2>1, <3>1, <3>2
    <3> QED
      BY <1>2, <2>1, <3>1, <3>3
  <2> QED
    BY <2>2, <2>3
<1>5. recent = n - m + 1 .. n
  <2>1. \A i \in n - m + 1 .. n : i \in 1 .. n
    BY <1>3
  <2> QED
    BY <1>2, <1>4, <2>1
<1>6. Cardinality(n - m + 1 .. n) = m
  <2>1. n - m + 1 \in Int /\ n \in Int
    OBVIOUS
  <2>2. Cardinality(n - m + 1 .. n) = IF n - m + 1 > n THEN 0 ELSE n - (n - m + 1) + 1
    BY <2>1, FS_Interval
  <2> QED
    BY <2>2
<1> QED
  BY <1>1, <1>5, <1>6

\* No more than `limit' admissions are stamped in one aligned window.
LEMMA WindowHoldsFew ==
    ASSUME NEW limit \in Positive, NEW window \in Positive, NEW g \in Seq(Nat), NEW latest,
           Rising(g, latest), Spaced(g, limit, window), NEW i \in DOMAIN g
    PROVE  Cardinality({j \in DOMAIN g : Aligned(g[j], window) = Aligned(g[i], window)}) <= limit
<1> DEFINE together == {j \in DOMAIN g : Aligned(g[j], window) = Aligned(g[i], window)}
<1>1. PICK n \in Nat : n = Len(g)
  BY LenProperties
<1>2. /\ DOMAIN g = 1 .. n /\ limit \in Nat /\ limit >= 1
      /\ \A j \in 1 .. n : g[j] \in Nat
      /\ \A j \in 1 .. n : \A h \in 1 .. j : g[h] <= g[j]
      /\ \A j \in 1 .. n - limit : Aligned(g[j], window) < Aligned(g[j + limit], window)
  BY <1>1, LenProperties, ElementOfSeq DEF Positive, Rising, Spaced
<1>3. PICK first \in together : \A j \in together : first <= j
  <2>1. together \in SUBSET Nat /\ together # {}
    BY <1>2
  <2> QED
    BY <2>1, MinOfNaturals
<1>4. first \in 1 .. n /\ Aligned(g[first], window) = Aligned(g[i], window)
  BY <1>2
<1>5. ASSUME NEW j \in together
      PROVE  j \in first .. first + limit - 1
  <2>1. j \in 1 .. n /\ Aligned(g[j], window) = Aligned(g[first], window) /\ first <= j
    BY <1>2, <1>3, <1>4
  <2>2. CASE j >= first + limit
    <3>1. first \in 1 .. n - limit /\ first + limit \in 1 .. n /\ first + limit \in 1 .. j
      BY <1>2, <1>4, <2>1, <2>2
    <3>2. PICK a \in Nat, b \in Nat, c \in Nat :
              a = g[first] /\ b = g[first + limit] /\ c = g[j]
      BY <1>2, <1>4, <2>1, <3>1
    <3>3. b <= c /\ Aligned(a, window) < Aligned(b, window)
      BY <1>2, <2>1, <3>1, <3>2
    <3>4. /\ Aligned(a, window) \in Int /\ Aligned(b, window) \in Int /\ Aligned(c, window) \in Int
          /\ Aligned(b, window) <= Aligned(c, window)
      BY <3>3, AlignedOrder
    <3> QED
      BY <2>1, <3>2, <3>3, <3>4
  <2>3. CASE ~(j >= first + limit)
    BY <1>2, <1>4, <2>1, <2>3
  <2> QED
    BY <2>2, <2>3
<1>6. first \in Int /\ first + limit - 1 \in Int
  BY <1>2, <1>4
<1>7. /\ IsFiniteSet(first .. first + limit - 1)
      /\ Cardinality(first .. first + limit - 1) = limit
  <2>1. PICK a \in Int, b \in Int : a = first /\ b = first + limit - 1
    BY <1>6
  <2>2. IsFiniteSet(a .. b) /\ Cardinality(a .. b) = IF a > b THEN 0 ELSE b - a + 1
    BY FS_Interval
  <2>3. a <= b /\ b - a + 1 = limit
    BY <1>2, <1>6, <2>1
  <2>4. Cardinality(a .. b) = limit
    BY <2>2, <2>3
  <2> QED
    BY <2>1, <2>2, <2>4
<1>8. together \in SUBSET (first .. first + limit - 1)
  BY <1>5
<1>9. Cardinality(together) <= Cardinality(first .. first + limit - 1)
  BY <1>7, <1>8, FS_Subset
<1> QED
  BY <1>7, <1>9

-----------------------------------------------------------------------------
(***************************************************************************)
(* Induction over the naturals, as the existence of a least exception, and *)
(* what it gives: a step can be taken any number of times.                 *)
(***************************************************************************)


\* Induction, over a set of naturals.
LEMMA ByInduction ==
    ASSUME NEW S \in SUBSET Nat, 0 \in S, \A n \in S : n + 1 \in S
    PROVE  S = Nat
<1> SUFFICES ASSUME NEW gap \in Nat \ S PROVE FALSE
  OBVIOUS
<1>1. PICK least : least = Min(Nat \ S)
  OBVIOUS
<1>2. least \in Nat \ S /\ \A y \in Nat \ S : least <= y
  BY <1>1, MinOfNaturals
<1>3. least # 0 /\ least - 1 \in Nat /\ least - 1 \notin Nat \ S
  BY <1>2
<1>4. (least - 1) + 1 = least /\ least - 1 \in S
  BY <1>2, <1>3
<1> QED
  BY <1>2, <1>4

\* The function that starts with s0 and goes on with step.
Iterates(g, n, S, s0, step) ==
    /\ g \in [0 .. n -> S] /\ g[0] = s0
    /\ \A i \in 0 .. n - 1 : g[i + 1] = step[g[i]]

LEMMA IteratesAgree ==
    ASSUME NEW S, NEW s0 \in S, NEW step \in [S -> S],
           NEW n \in Nat, NEW m \in Nat, NEW g, NEW h,
           Iterates(g, n, S, s0, step), Iterates(h, m, S, s0, step),
           NEW i \in Nat, i <= n, i <= m
    PROVE  g[i] = h[i]
<1> DEFINE same == {j \in Nat : j <= n /\ j <= m => g[j] = h[j]}
<1>1. 0 \in same
  BY DEF Iterates
<1>2. ASSUME NEW j \in same
      PROVE  j + 1 \in same
  <2> SUFFICES ASSUME j + 1 <= n, j + 1 <= m
               PROVE  g[j + 1] = h[j + 1]
    OBVIOUS
  <2>1. j \in 0 .. n - 1 /\ j \in 0 .. m - 1 /\ g[j] = h[j]
    OBVIOUS
  <2> QED
    BY <2>1 DEF Iterates
<1>3. same = Nat
  <2> HIDE DEF same
  <2>1. same \in SUBSET Nat
    BY DEF same
  <2> QED
    BY <1>1, <1>2, <2>1, ByInduction
<1> QED
  BY <1>3

CanIterate(S, s0, step) ==
    \E g \in [Nat -> S] : g[0] = s0 /\ \A n \in Nat : g[n + 1] = step[g[n]]

LEMMA IterationExists ==
    ASSUME NEW S, NEW s0 \in S, NEW step \in [S -> S]
    PROVE  CanIterate(S, s0, step)
<1> DEFINE reached == {n \in Nat : \E g : Iterates(g, n, S, s0, step)}
<1>1. 0 \in reached
  <2>1. Iterates([i \in 0 .. 0 |-> s0], 0, S, s0, step)
    BY DEF Iterates
  <2> QED
    BY <2>1
<1>2. ASSUME NEW n \in reached
      PROVE  n + 1 \in reached
  <2>1. PICK g : Iterates(g, n, S, s0, step)
    OBVIOUS
  <2> DEFINE longer == [i \in 0 .. n + 1 |-> IF i = n + 1 THEN step[g[n]] ELSE g[i]]
  <2>2. n \in Nat /\ g \in [0 .. n -> S] /\ g[n] \in S
    BY <2>1 DEF Iterates
  <2>3. longer \in [0 .. n + 1 -> S] /\ longer[0] = s0
    BY <2>1, <2>2 DEF Iterates
  <2>4. ASSUME NEW i \in 0 .. n
        PROVE  longer[i + 1] = step[longer[i]]
    <3>1. longer[i] = g[i] /\ i + 1 \in 0 .. n + 1
      BY <2>2
    <3>2. CASE i = n
      BY <2>2, <3>1, <3>2
    <3>3. CASE i # n
      <4>1. i \in 0 .. n - 1 /\ i + 1 # n + 1
        BY <2>2, <3>3
      <4>2. g[i + 1] = step[g[i]]
        BY <2>1, <4>1 DEF Iterates
      <4> QED
        BY <3>1, <4>1, <4>2
    <3> QED
      BY <3>2, <3>3
  <2>5. (n + 1) - 1 = n
    BY <2>2
  <2> HIDE DEF longer
  <2>6. Iterates(longer, n + 1, S, s0, step)
    BY <2>3, <2>4, <2>5 DEF Iterates
  <2> QED
    BY <2>2, <2>6
<1>3. reached = Nat
  <2> HIDE DEF reached
  <2>1. reached \in SUBSET Nat
    BY DEF reached
  <2> QED
    BY <1>1, <1>2, <2>1, ByInduction
<1> DEFINE first(n) == CHOOSE g : Iterates(g, n, S, s0, step)
           g == [n \in Nat |-> first(n)[n]]
<1>4. ASSUME NEW n \in Nat
      PROVE  Iterates(first(n), n, S, s0, step)
  <2>1. \E f : Iterates(f, n, S, s0, step)
    BY <1>3
  <2> QED
    BY <2>1
<1> HIDE DEF first, reached
<1>5. g \in [Nat -> S]
  <2> SUFFICES ASSUME NEW n \in Nat PROVE first(n)[n] \in S
    OBVIOUS
  <2>1. first(n) \in [0 .. n -> S] /\ n \in 0 .. n
    BY <1>4 DEF Iterates
  <2> QED
    BY <2>1
<1>6. g[0] = s0
  BY <1>4 DEF Iterates
<1>7. ASSUME NEW n \in Nat
      PROVE  g[n + 1] = step[g[n]]
  <2>1. n \in 0 .. (n + 1) - 1 /\ n + 1 \in Nat /\ n <= n + 1 /\ n <= n
    OBVIOUS
  <2>2. Iterates(first(n + 1), n + 1, S, s0, step) /\ Iterates(first(n), n, S, s0, step)
    BY <1>4, <2>1
  <2>3. first(n + 1)[n + 1] = step[first(n + 1)[n]]
    BY <2>1, <2>2 DEF Iterates
  <2>4. first(n + 1)[n] = first(n)[n]
    BY <2>1, <2>2, IteratesAgree
  <2> QED
    BY <2>1, <2>3, <2>4
<1> QED
  BY <1>5, <1>6, <1>7 DEF CanIterate

-----------------------------------------------------------------------------
(***************************************************************************)
(* The next decision at the same instant has one less to give.             *)
(***************************************************************************)

\* A queue whose head is recent is not pruned.
LEMMA NothingPruned ==
    ASSUME NEW q \in Entry, NEW cutoff \in Int, q # <<>> => q[1] > cutoff
    PROVE  Pruned(q, cutoff) = q
<1>1. PICK kept : kept = Pruned(q, cutoff)
  OBVIOUS
<1>2. PICK dropped \in 0 .. Len(q) :
          /\ \A i \in 1 .. dropped : q[i] <= cutoff
          /\ Len(kept) = Len(q) - dropped
          /\ \A i \in 1 .. Len(q) - dropped : kept[i] = q[i + dropped]
  BY <1>1, PrunedIsSuffix
<1>3. Len(q) \in Nat /\ \A i \in 1 .. Len(q) : q[i] \in Int
  BY LenProperties, ElementOfSeq DEF Entry
<1>4. dropped = 0
  <2> SUFFICES ASSUME dropped >= 1 PROVE FALSE
    BY <1>2, <1>3
  <2>1. q # <<>> /\ 1 \in 1 .. dropped /\ 1 \in 1 .. Len(q)
    BY <1>2, <1>3, EmptySeq DEF Entry
  <2> QED
    BY <1>2, <1>3, <2>1
<1>5. Len(kept) = Len(q) /\ \A i \in 1 .. Len(q) : kept[i] = q[i]
  <2>1. Len(q) - dropped = Len(q) /\ \A i \in 1 .. Len(q) : i + dropped = i
    BY <1>3, <1>4
  <2> QED
    BY <1>2, <2>1
<1>6. kept \in Entry
  BY <1>1, PrunedIsSuffix
<1> QED
  BY <1>1, <1>5, <1>6, SeqEqual DEF Entry

LEMMA PrunedHead ==
    ASSUME NEW entry \in Entry, NEW cutoff \in Int,
           NEW q, q = Pruned(entry, cutoff), q # <<>>
    PROVE  q[1] \in Int /\ q[1] > cutoff
<1>0. PICK m \in Nat : m = Len(entry)
  BY LenProperties DEF Entry
<1>1. PICK d \in 0 .. m :
          /\ q \in Entry /\ Len(q) = m - d
          /\ \A i \in 1 .. m - d : q[i] = entry[i + d]
          /\ d < m => entry[d + 1] > cutoff
  BY <1>0, PrunedIsSuffix
<1>2. Len(q) # 0
  BY <1>1, EmptySeq DEF Entry
<1>3. 1 \in 1 .. m - d /\ d < m /\ 1 + d = d + 1 /\ d + 1 \in 1 .. m
  BY <1>1, <1>2
<1>4. entry[d + 1] \in Int
  BY <1>0, <1>3, ElementOfSeq DEF Entry
<1> QED
  BY <1>1, <1>3, <1>4

\* What follows a decision at the same instant.
OneFewer(outcome, next) ==
    /\ next.allowed <=> outcome.remaining > 0
    /\ next.allowed => next.remaining = outcome.remaining - 1

LEMMA SlidingOneFewer ==
    ASSUME NEW limit \in Positive, NEW window \in Positive,
           NEW entry \in Entry, NEW now \in Nat,
           NEW outcome, outcome = sliding_window(entry, window, limit, now),
           NEW next, next = sliding_window(outcome.entry, window, limit, now)
    PROVE  OneFewer(outcome, next)
<1>1. PICK cutoff \in Int : cutoff = now - window
  BY DEF Positive
<1>2. window \in Nat /\ window >= 1 /\ limit \in Nat
  BY DEF Positive
<1>3. PICK q \in Entry, n \in Nat : q = Pruned(entry, cutoff) /\ n = Len(q)
  BY <1>1, PrunedIsSuffix, LenProperties DEF Entry
<1>4. q # <<>> => q[1] \in Int /\ q[1] > cutoff
  BY <1>3, PrunedHead
<1>5. CASE n < limit
  <2>1. PICK queued : queued = Append(q, now)
    OBVIOUS
  <2>2. /\ queued \in Entry /\ Len(queued) = n + 1
        /\ queued[n + 1] = now /\ \A i \in 1 .. n : queued[i] = q[i]
    BY <1>3, <2>1, AppendProperties DEF Entry
  <2>3. queued[1] > cutoff
    <3>1. n = 0 => queued[1] = now
      BY <2>2
    <3>2. n # 0 => q # <<>> /\ queued[1] = q[1]
      <4>1. n # 0 => q # <<>> /\ 1 \in 1 .. n
        BY <1>3, EmptySeq
      <4> QED
        BY <2>2, <4>1
    <3> QED
      BY <1>1, <1>2, <1>4, <3>1, <3>2
  <2>4. Pruned(queued, cutoff) = queued
    BY <2>2, <2>3, NothingPruned
  <2>5. outcome.entry = queued /\ outcome.remaining = limit - (n + 1)
    <3>1. outcome = Admit(limit - Len(queued), queued[1] + window, queued)
      BY <1>1, <1>3, <1>5, <2>1 DEF sliding_window
    <3> QED
      BY <2>2, <3>1 DEF Admit
  <2>6. PICK longer : longer = Append(queued, now)
    OBVIOUS
  <2>7. Len(longer) = n + 2
    BY <1>3, <2>2, <2>6, AppendProperties DEF Entry
  <2>8. next = IF n + 1 < limit
               THEN Admit(limit - Len(longer), longer[1] + window, longer)
               ELSE Deny(queued[1] + window, queued)
    BY <1>1, <2>2, <2>4, <2>5, <2>6 DEF sliding_window
  <2>9. CASE n + 1 < limit
    <3>1. next.allowed /\ next.remaining = limit - (n + 2)
      BY <2>7, <2>8, <2>9 DEF Admit
    <3>2. limit - (n + 1) > 0 /\ limit - (n + 2) = (limit - (n + 1)) - 1
      BY <1>2, <1>3, <2>9
    <3> QED
      BY <2>5, <3>1, <3>2 DEF OneFewer
  <2>10. CASE ~(n + 1 < limit)
    <3>1. ~next.allowed
      BY <2>8, <2>10 DEF Deny
    <3>2. ~(limit - (n + 1) > 0)
      BY <1>2, <1>3, <2>10
    <3> QED
      BY <2>5, <3>1, <3>2 DEF OneFewer
  <2> QED
    BY <2>9, <2>10
<1>6. CASE ~(n < limit)
  <2>1. outcome = Deny(q[1] + window, q)
    BY <1>1, <1>3, <1>6 DEF sliding_window
  <2>2. outcome.entry = q /\ outcome.remaining = 0
    BY <2>1 DEF Deny
  <2>3. Pruned(q, cutoff) = q
    BY <1>4, NothingPruned
  <2>4. next = Deny(q[1] + window, q)
    BY <1>1, <1>3, <1>6, <2>2, <2>3 DEF sliding_window
  <2> QED
    BY <2>2, <2>4 DEF Deny, OneFewer
<1> QED
  BY <1>5, <1>6

LEMMA FixedOneFewer ==
    ASSUME NEW limit \in Positive, NEW window \in Positive,
           NEW entry \in Entry, Len(entry) \in {0, 2}, NEW now \in Nat,
           NEW outcome, outcome = fixed_window(entry, window, limit, now),
           NEW next, next = fixed_window(outcome.entry, window, limit, now)
    PROVE  OneFewer(outcome, next)
<1> DEFINE start   == Aligned(now, window)
           current == CurrentWindow(entry, start)
<1>1. limit \in Nat /\ start \in Int
  <2>1. limit \in Nat /\ now \in Int
    BY DEF Positive
  <2> QED
    BY <2>1, AlignedOrder
<1>2. entry # <<>> => entry[1] \in Int /\ entry[2] \in Int
  BY PairEntry
<1>3. PICK count \in Int, since \in Int :
          current[1] = count /\ current[2] = since /\ ~(since < start)
  <2> HIDE DEF start
  <2>1. CASE entry = <<>> \/ entry[2] < start
    BY <1>1, <2>1 DEF CurrentWindow
  <2>2. CASE ~(entry = <<>> \/ entry[2] < start)
    <3>1. current = entry
      BY <2>2 DEF CurrentWindow
    <3> HIDE DEF current
    <3> QED
      BY <1>2, <2>2, <3>1
  <2> QED
    BY <2>1, <2>2
<1>4. CASE count < limit
  <2>1. outcome = Admit(limit - (count + 1), since + window, <<count + 1, since>>)
    BY <1>3, <1>4 DEF fixed_window
  <2>2. outcome.remaining = limit - (count + 1) /\ outcome.entry = <<count + 1, since>>
    BY <2>1 DEF Admit
  <2>3. CurrentWindow(outcome.entry, start) = <<count + 1, since>>
    BY <1>3, <2>2 DEF CurrentWindow
  <2>4. next = IF count + 1 < limit
               THEN Admit(limit - (count + 2), since + window, <<count + 2, since>>)
               ELSE Deny(since + window, outcome.entry)
    <3> HIDE DEF start, current
    <3>1. (count + 1) + 1 = count + 2
      BY <1>3
    <3> QED
      BY <2>3, <3>1 DEF fixed_window, start
  <2> HIDE DEF start, current
  <2>5. CASE count + 1 < limit
    <3>1. next.allowed /\ next.remaining = limit - (count + 2)
      BY <2>4, <2>5 DEF Admit
    <3>2. limit - (count + 1) > 0 /\ limit - (count + 2) = (limit - (count + 1)) - 1
      BY <1>1, <1>3, <2>5
    <3> QED
      BY <2>2, <3>1, <3>2 DEF OneFewer
  <2>6. CASE ~(count + 1 < limit)
    <3>1. ~next.allowed
      BY <2>4, <2>6 DEF Deny
    <3>2. ~(limit - (count + 1) > 0)
      BY <1>1, <1>3, <2>6
    <3> QED
      BY <2>2, <3>1, <3>2 DEF OneFewer
  <2> QED
    BY <2>5, <2>6
<1>5. CASE ~(count < limit)
  <2>1. outcome = Deny(since + window, entry)
    BY <1>3, <1>5 DEF fixed_window
  <2>2. outcome.remaining = 0 /\ outcome.entry = entry /\ ~outcome.allowed
    BY <2>1 DEF Deny
  <2>3. next = outcome
    BY <2>2
  <2> QED
    BY <2>2, <2>3 DEF OneFewer
<1> QED
  BY <1>4, <1>5

\* Taking one interval from a number of ticks takes one from its whole intervals.
LEMMA DivLessOne ==
    ASSUME NEW a \in Int, NEW b \in Positive
    PROVE  /\ (a - b) \div b = (a \div b) - 1
           /\ a >= b <=> a \div b > 0
           /\ a < b => AtLeastZero(a \div b) = 0
<1> DEFINE m == a \div b
           n == (a - b) \div b
<1>1. b \in Nat /\ b >= 1 /\ a - b \in Int
  BY DEF Positive
<1>2. m \in Int /\ m * b <= a /\ a < m * b + b
  BY DivIsInt
<1>3. n \in Int /\ n * b <= a - b /\ a - b < n * b + b
  BY <1>1, DivIsInt
<1> HIDE DEF m, n
<1>4. n * b + b = (n + 1) * b /\ m * b + b = (m + 1) * b /\ (n + 1) * b + b = (n + 2) * b
  BY <1>1, <1>2, <1>3
<1>5. (n + 1) * b <= a /\ a < (n + 2) * b
  <2> DEFINE p == n * b
  <2>1. p \in Int
    BY <1>1, <1>3
  <2> HIDE DEF p
  <2>2. p <= a - b /\ a - b < p + b => p + b <= a /\ a < p + b + b
    BY <1>1, <2>1
  <2> QED
    BY <1>3, <1>4, <2>2 DEF p
<1>6. n + 1 <= m
  <2> SUFFICES ASSUME m + 1 <= n + 1 PROVE FALSE
    BY <1>2, <1>3
  <2>1. (m + 1) * b <= (n + 1) * b
    BY <1>1, <1>2, <1>3
  <2>2. (m + 1) * b \in Int /\ (n + 1) * b \in Int
    BY <1>1, <1>2, <1>3
  <2> QED
    BY <1>2, <1>4, <1>5, <2>1, <2>2
<1>7. m <= n + 1
  <2> SUFFICES ASSUME n + 2 <= m PROVE FALSE
    BY <1>2, <1>3
  <2>1. (n + 2) * b <= m * b
    BY <1>1, <1>2, <1>3
  <2>2. (n + 2) * b \in Int /\ m * b \in Int
    BY <1>1, <1>2, <1>3
  <2> QED
    BY <1>2, <1>5, <2>1, <2>2
<1>8. n = m - 1
  BY <1>2, <1>3, <1>6, <1>7
<1>9. a >= b => m > 0
  <2> SUFFICES ASSUME m + 1 <= 1, a >= b PROVE FALSE
    BY <1>2
  <2>1. (m + 1) * b <= 1 * b
    BY <1>1, <1>2
  <2>2. (m + 1) * b \in Int /\ 1 * b = b
    BY <1>1, <1>2
  <2> QED
    BY <1>1, <1>2, <1>4, <2>1, <2>2
<1>10. m > 0 => a >= b
  <2> SUFFICES ASSUME 1 <= m PROVE a >= b
    BY <1>2
  <2>1. 1 * b <= m * b
    BY <1>1, <1>2
  <2>2. m * b \in Int /\ 1 * b = b
    BY <1>1, <1>2
  <2> QED
    BY <1>1, <1>2, <2>1, <2>2
<1>11. a < b => ~(m > 0)
  BY <1>1, <1>10
<1>12. ~(m > 0) => AtLeastZero(m) = 0
  BY <1>2 DEF AtLeastZero
<1> QED
  BY <1>8, <1>9, <1>10, <1>11, <1>12 DEF m, n

LEMMA TokenOfBucket ==
    ASSUME NEW capacity, NEW interval, NEW bucket, bucket # <<>>, NEW now,
           NEW level, level = AtMost(bucket[1] + Elapsed(now, bucket[2]), capacity * interval)
    PROVE  token_bucket(bucket, capacity, interval, now) =
               IF level >= interval
               THEN Admit((level - interval) \div interval,
                          now + (capacity * interval - (level - interval)),
                          <<level - interval, now>>)
               ELSE Deny(now + (interval - level), bucket)
<1>1. \A x : (IF bucket = <<>> THEN x ELSE bucket) = bucket
  OBVIOUS
<1> QED
  BY <1>1, Zenon DEF token_bucket

LEMMA LeakyOfBucket ==
    ASSUME NEW capacity, NEW interval, NEW bucket, bucket # <<>>, NEW now,
           NEW queue, queue = AtLeastZero(bucket[1] - Leaked(Elapsed(now, bucket[2]), interval))
    PROVE  \E after : leaky_bucket(bucket, capacity, interval, now) =
               IF queue < capacity
               THEN Admit(capacity - (queue + 1), now + interval, after)
               ELSE Deny(now + interval, bucket)
<1>1. \A x : (IF bucket = <<>> THEN x ELSE bucket) = bucket
  OBVIOUS
<1> QED
  BY <1>1, Zenon DEF leaky_bucket

LEMMA TokenOneFewer ==
    ASSUME NEW capacity \in Positive, NEW interval \in Positive,
           NEW entry \in Entry, Len(entry) \in {0, 2}, NEW now \in Nat,
           NEW outcome, outcome = token_bucket(entry, capacity, interval, now),
           NEW next, next = token_bucket(outcome.entry, capacity, interval, now)
    PROVE  OneFewer(outcome, next)
<1> DEFINE full   == capacity * interval
           bucket == IF entry = <<>> THEN <<full, now>> ELSE entry
           level  == AtMost(bucket[1] + Elapsed(now, bucket[2]), full)
<1>1. interval \in Nat /\ interval >= 1 /\ full \in Nat
  BY DEF Positive
<1>2. bucket[1] \in Int /\ bucket[2] \in Int
  BY <1>1, PairEntry
<1> HIDE DEF bucket, full
<1>3. PICK l \in Int : l = level /\ l <= full
  <2>1. Elapsed(now, bucket[2]) \in Int
    BY <1>2 DEF Elapsed, AtLeastZero
  <2> QED
    BY <1>1, <1>2, <2>1 DEF AtMost
<1>4. CASE l >= interval
  <2>1. PICK left \in Int : left = l - interval
    BY <1>1, <1>3
  <2>2. outcome = Admit(left \div interval, now + (full - left), <<left, now>>)
    BY <1>3, <1>4, <2>1 DEF token_bucket, bucket, full
  <2>3. outcome.remaining = left \div interval /\ outcome.entry = <<left, now>>
    BY <2>2 DEF Admit
  <2>4. Elapsed(now, now) = 0 /\ left + 0 = left /\ left <= full
    BY <1>1, <1>3, <2>1 DEF Elapsed, AtLeastZero
  <2>5. AtMost(left + Elapsed(now, now), full) = left
    BY <1>1, <2>1, <2>4 DEF AtMost
  <2>6. next = IF left >= interval
               THEN Admit((left - interval) \div interval, now + (full - (left - interval)),
                          <<left - interval, now>>)
               ELSE Deny(now + (interval - left), outcome.entry)
    <3>1. PICK kept : kept = outcome.entry /\ kept # <<>> /\ kept[1] = left /\ kept[2] = now
      BY <2>3
    <3>2. left = AtMost(kept[1] + Elapsed(now, kept[2]), capacity * interval)
      BY <2>5, <3>1 DEF full
    <3> QED
      BY <3>1, <3>2, TokenOfBucket DEF full
  <2>7. /\ (left - interval) \div interval = (left \div interval) - 1
        /\ left >= interval <=> left \div interval > 0
    BY <2>1, DivLessOne
  <2>8. CASE left >= interval
    <3>1. next.allowed /\ next.remaining = (left - interval) \div interval
      BY <2>6, <2>8 DEF Admit
    <3> QED
      BY <2>3, <2>7, <2>8, <3>1 DEF OneFewer
  <2>9. CASE ~(left >= interval)
    <3>1. ~next.allowed
      BY <2>6, <2>9 DEF Deny
    <3> QED
      BY <2>3, <2>7, <2>9, <3>1 DEF OneFewer
  <2> QED
    BY <2>8, <2>9
<1>5. CASE ~(l >= interval)
  <2>1. outcome = Deny(now + (interval - l), entry)
    BY <1>3, <1>5 DEF token_bucket, bucket, full
  <2>2. outcome.remaining = 0 /\ outcome.entry = entry /\ ~outcome.allowed
    BY <2>1 DEF Deny
  <2>3. next = outcome
    BY <2>2
  <2> QED
    BY <2>2, <2>3 DEF OneFewer
<1> QED
  BY <1>4, <1>5

LEMMA LeakyOneFewer ==
    ASSUME NEW capacity \in Positive, NEW interval \in Positive,
           NEW entry \in Entry, Len(entry) \in {0, 2}, NEW now \in Nat,
           NEW outcome, outcome = leaky_bucket(entry, capacity, interval, now),
           NEW next, next = leaky_bucket(outcome.entry, capacity, interval, now)
    PROVE  OneFewer(outcome, next)
<1> DEFINE bucket == IF entry = <<>> THEN <<0, now>> ELSE entry
           last   == bucket[2]
           leaked == Leaked(Elapsed(now, last), interval)
           queue  == AtLeastZero(bucket[1] - leaked)
<1>1. interval \in Nat /\ interval >= 1 /\ capacity \in Nat
  BY DEF Positive
<1>2. bucket[1] \in Int /\ last \in Int
  BY PairEntry
<1> HIDE DEF bucket
<1>3. PICK m \in Nat, p \in Int :
          /\ m = leaked /\ p = m * interval
          /\ Leaked(Elapsed(now, last + p), interval) = 0
  <2>1. PICK elapsed \in Nat : /\ elapsed = Elapsed(now, last)
                               /\ now >= last => elapsed = now - last
                               /\ now < last => elapsed = 0
    BY <1>2 DEF Elapsed, AtLeastZero
  <2>2. PICK m : m = elapsed \div interval
    OBVIOUS
  <2>3. m \in Nat /\ m * interval <= elapsed /\ elapsed < m * interval + interval
    BY <2>1, <2>2, DivIsInt
  <2>4. PICK p \in Int : p = m * interval
    BY <1>1, <2>3
  <2>5. p >= 0
    BY <1>1, <2>3, <2>4
  <2>6. PICK left \in Nat : left = Elapsed(now, last + p) /\ left < interval
    BY <1>1, <1>2, <2>1, <2>3, <2>4, <2>5 DEF Elapsed, AtLeastZero
  <2>7. left \div interval = 0
    <3>1. PICK k : k = left \div interval
      OBVIOUS
    <3>2. k \in Nat /\ k * interval <= left
      BY <2>6, <3>1, DivIsInt
    <3>3. ~(k >= 1)
      <4> SUFFICES ASSUME k >= 1 PROVE FALSE
        OBVIOUS
      <4>1. 1 * interval <= k * interval
        BY <1>1, <3>2
      <4>2. k * interval \in Int /\ 1 * interval = interval
        BY <1>1, <3>2
      <4> QED
        BY <1>1, <2>6, <3>2, <4>1, <4>2
    <3> QED
      BY <3>1, <3>2, <3>3
  <2>8. Leaked(Elapsed(now, last + p), interval) = 0
    BY <2>6, <2>7 DEF Leaked
  <2>9. m = leaked
    BY <2>1, <2>2 DEF Leaked
  <2> QED
    BY <2>3, <2>4, <2>8, <2>9
<1>4. PICK q \in Nat : q = queue
  BY <1>2, <1>3 DEF AtLeastZero
<1> HIDE DEF last, leaked, queue
<1>5. CASE q < capacity
  <2>1. outcome = Admit(capacity - (q + 1), now + interval, <<q + 1, last + p>>)
    BY <1>3, <1>4, <1>5 DEF leaky_bucket, bucket, leaked, queue, last
  <2>2. outcome.remaining = capacity - (q + 1) /\ outcome.entry = <<q + 1, last + p>>
    BY <2>1 DEF Admit
  <2>3. AtLeastZero((q + 1) - 0) = q + 1
    BY <1>4 DEF AtLeastZero
  <2>4. \E after : next = IF q + 1 < capacity
                          THEN Admit(capacity - ((q + 1) + 1), now + interval, after)
                          ELSE Deny(now + interval, outcome.entry)
    <3>1. PICK kept : /\ kept = outcome.entry /\ kept # <<>>
                      /\ kept[1] = q + 1 /\ kept[2] = last + p
      BY <2>2
    <3>2. PICK more : more = q + 1
      OBVIOUS
    <3>3. more = AtLeastZero(kept[1] - Leaked(Elapsed(now, kept[2]), interval))
      BY <1>3, <2>3, <3>1, <3>2
    <3>4. \E after : leaky_bucket(kept, capacity, interval, now) =
              IF more < capacity THEN Admit(capacity - (more + 1), now + interval, after)
              ELSE Deny(now + interval, kept)
      BY <3>1, <3>3, LeakyOfBucket
    <3> QED
      BY <3>1, <3>2, <3>4
  <2>5. CASE q + 1 < capacity
    <3>1. next.allowed /\ next.remaining = capacity - ((q + 1) + 1)
      BY <2>4, <2>5 DEF Admit
    <3>2. capacity - (q + 1) > 0 /\ capacity - ((q + 1) + 1) = (capacity - (q + 1)) - 1
      BY <1>1, <1>4, <2>5
    <3> QED
      BY <2>2, <3>1, <3>2 DEF OneFewer
  <2>6. CASE ~(q + 1 < capacity)
    <3>1. ~next.allowed
      BY <2>4, <2>6 DEF Deny
    <3>2. ~(capacity - (q + 1) > 0)
      BY <1>1, <1>4, <2>6
    <3> QED
      BY <2>2, <3>1, <3>2 DEF OneFewer
  <2> QED
    BY <2>5, <2>6
<1>6. CASE ~(q < capacity)
  <2>1. outcome = Deny(now + interval, entry)
    BY <1>4, <1>6 DEF leaky_bucket, bucket, leaked, queue, last
  <2>2. outcome.remaining = 0 /\ outcome.entry = entry /\ ~outcome.allowed
    BY <2>1 DEF Deny
  <2>3. next = outcome
    BY <2>2
  <2> QED
    BY <2>2, <2>3 DEF OneFewer
<1> QED
  BY <1>5, <1>6

LEMMA GcraOneFewer ==
    ASSUME NEW capacity \in Positive, NEW interval \in Positive,
           NEW entry \in Entry, Len(entry) \in {0, 1}, NEW now \in Nat,
           NEW outcome, outcome = gcra(entry, capacity, interval, now),
           NEW next, next = gcra(outcome.entry, capacity, interval, now)
    PROVE  OneFewer(outcome, next)
<1> DEFINE tat   == IF entry = <<>> THEN now ELSE entry[1]
           full  == capacity * interval
           burst == BurstInterval(capacity, interval)
           later == Later(tat, now) + interval
           spare == full - (later - now)
<1>1. interval \in Nat /\ interval >= 1 /\ full \in Nat /\ burst \in Int /\ burst = full - interval
  BY DEF Positive, BurstInterval
<1>2. tat \in Int
  BY DEF Entry
<1> HIDE DEF burst, full
<1>3. later \in Int /\ later >= now + interval
  BY <1>1, <1>2 DEF Later
<1> HIDE DEF tat, later
<1>4. spare \in Int
  BY <1>1, <1>3
<1>5. CASE tat <= now + burst
  <2>1. outcome = Admit(AtLeastZero(spare \div interval), later, <<later>>)
    BY <1>5 DEF gcra, tat, later, burst, full
  <2>2. outcome.remaining = AtLeastZero(spare \div interval) /\ outcome.entry = <<later>>
    BY <2>1 DEF Admit
  <2>3. Later(later, now) = later
    BY <1>1, <1>3 DEF Later
  <2>4. full - ((later + interval) - now) = spare - interval
    BY <1>1, <1>3
  <2>5. \E reset, after :
            next = IF later <= now + burst
                   THEN Admit(AtLeastZero((spare - interval) \div interval), reset, after)
                   ELSE Deny(reset, outcome.entry)
    <3>1. next = IF later <= now + burst
                 THEN Admit(AtLeastZero((full - ((later + interval) - now)) \div interval),
                            later + interval, <<later + interval>>)
                 ELSE Deny(later - burst, outcome.entry)
      <4>1. PICK kept : kept = outcome.entry /\ kept # <<>> /\ kept[1] = later
        BY <2>2
      <4> QED
        BY <2>3, <4>1 DEF gcra, burst, full
    <3> QED
      BY <2>4, <3>1
  <2>6. later <= now + burst <=> spare >= interval
    BY <1>1, <1>3
  <2> HIDE DEF spare
  <2>7. PICK k \in Int : k = spare \div interval
    BY <1>4, DivIsInt
  <2>8. /\ (spare - interval) \div interval = k - 1
        /\ spare >= interval <=> k > 0
        /\ spare < interval => AtLeastZero(k) = 0
    BY <1>4, <2>7, DivLessOne
  <2>9. CASE later <= now + burst
    <3>1. next.allowed /\ next.remaining = AtLeastZero(k - 1)
      BY <2>5, <2>8, <2>9 DEF Admit
    <3>2. k > 0 /\ AtLeastZero(k) = k /\ AtLeastZero(k - 1) = k - 1
      BY <2>6, <2>7, <2>8, <2>9 DEF AtLeastZero
    <3> QED
      BY <2>2, <2>7, <3>1, <3>2 DEF OneFewer
  <2>10. CASE ~(later <= now + burst)
    <3>1. ~next.allowed
      BY <2>5, <2>10 DEF Deny
    <3>2. AtLeastZero(k) = 0
      BY <1>1, <1>4, <2>6, <2>8, <2>10
    <3> QED
      BY <2>2, <2>7, <3>1, <3>2 DEF OneFewer
  <2> QED
    BY <2>9, <2>10
<1>6. CASE ~(tat <= now + burst)
  <2>1. outcome = Deny(tat - burst, entry)
    BY <1>6 DEF gcra, tat, burst
  <2>2. outcome.remaining = 0 /\ outcome.entry = entry /\ ~outcome.allowed
    BY <2>1 DEF Deny
  <2>3. next = outcome
    BY <2>2
  <2> QED
    BY <2>2, <2>3 DEF OneFewer
<1> QED
  BY <1>5, <1>6

LEMMA DecideOneFewer ==
    ASSUME NEW rule \in LimitRule, NEW entry \in EntryUnder(rule), NEW now \in Nat,
           NEW outcome, outcome = Decide(rule, entry, now),
           NEW next, next = Decide(rule, outcome.entry, now)
    PROVE  OneFewer(outcome, next)
<1>1. entry \in Entry
  BY DEF EntryUnder
<1>2. CASE rule.algorithm = "sliding_window"
  <2>1. rule.window \in Positive /\ rule.limit \in Positive
    BY <1>2 DEF LimitRule, WindowRule, BucketRule
  <2>2. \A e : Decide(rule, e, now) = sliding_window(e, rule.window, rule.limit, now)
    BY <1>2 DEF Decide
  <2> QED
    BY <1>1, <2>1, <2>2, SlidingOneFewer
<1>3. CASE rule.algorithm = "fixed_window"
  <2>1. rule.window \in Positive /\ rule.limit \in Positive
    BY <1>3 DEF LimitRule, WindowRule, BucketRule
  <2>2. \A e : Decide(rule, e, now) = fixed_window(e, rule.window, rule.limit, now)
    BY <1>3 DEF Decide
  <2>3. Len(entry) \in {0, 2}
    BY <1>3 DEF EntryUnder
  <2> QED
    BY <1>1, <2>1, <2>2, <2>3, FixedOneFewer
<1>4. CASE rule.algorithm = "token_bucket"
  <2>1. rule.capacity \in Positive /\ rule.interval \in Positive
    BY <1>4 DEF LimitRule, WindowRule, BucketRule
  <2>2. \A e : Decide(rule, e, now) = token_bucket(e, rule.capacity, rule.interval, now)
    BY <1>4 DEF Decide
  <2>3. Len(entry) \in {0, 2}
    BY <1>4 DEF EntryUnder
  <2> QED
    BY <1>1, <2>1, <2>2, <2>3, TokenOneFewer
<1>5. CASE rule.algorithm = "leaky_bucket"
  <2>1. rule.capacity \in Positive /\ rule.interval \in Positive
    BY <1>5 DEF LimitRule, WindowRule, BucketRule
  <2>2. \A e : Decide(rule, e, now) = leaky_bucket(e, rule.capacity, rule.interval, now)
    BY <1>5 DEF Decide
  <2>3. Len(entry) \in {0, 2}
    BY <1>5 DEF EntryUnder
  <2> QED
    BY <1>1, <2>1, <2>2, <2>3, LeakyOneFewer
<1>6. CASE rule.algorithm = "gcra"
  <2>1. rule.capacity \in Positive /\ rule.interval \in Positive
    BY <1>6 DEF LimitRule, WindowRule, BucketRule
  <2>2. \A e : Decide(rule, e, now) = gcra(e, rule.capacity, rule.interval, now)
    BY <1>6 DEF Decide
  <2>3. Len(entry) \in {0, 1}
    BY <1>6 DEF EntryUnder
  <2> QED
    BY <1>1, <2>1, <2>2, <2>3, GcraOneFewer
<1>7. rule.algorithm \in {"sliding_window", "fixed_window", "token_bucket", "leaky_bucket", "gcra"}
  BY DEF LimitRule, WindowRule, BucketRule
<1> QED
  BY <1>2, <1>3, <1>4, <1>5, <1>6, <1>7

\* Call after call at one instant: the entries that a recursive definition like
\* EntryAfter goes through exist, and are entries of the rule.
LEMMA CallsGoOn ==
    ASSUME NEW rule \in LimitRule, NEW first \in EntryUnder(rule), NEW stamp \in Nat
    PROVE  \E g \in [Nat -> EntryUnder(rule)] :
               g = [n \in Nat |-> IF n = 0 THEN first ELSE Decide(rule, g[n - 1], stamp).entry]
<1> DEFINE S == EntryUnder(rule)
           step == [e \in S |-> Decide(rule, e, stamp).entry]
<1>1. \A e \in S : Decide(rule, e, stamp).entry \in S
  BY DecideType, Zenon
<1>2. first \in S
  OBVIOUS
<1> HIDE DEF S
<1>3. step \in [S -> S]
  BY <1>1
<1>4. \A e \in S : step[e] = Decide(rule, e, stamp).entry
  OBVIOUS
<1> HIDE DEF step
<1>5. PICK g \in [Nat -> S] : g[0] = first /\ \A n \in Nat : g[n + 1] = step[g[n]]
  <2>1. CanIterate(S, first, step)
    BY <1>2, <1>3, IterationExists, Zenon
  <2> QED
    BY <2>1 DEF CanIterate
<1> DEFINE f == [n \in Nat |-> IF n = 0 THEN first ELSE Decide(rule, g[n - 1], stamp).entry]
<1>6. ASSUME NEW n \in Nat
      PROVE  g[n] = f[n]
  <2>1. CASE n = 0
    BY <1>5, <2>1
  <2>2. CASE n # 0
    <3>1. n - 1 \in Nat /\ (n - 1) + 1 = n
      BY <2>2
    <3>2. g[n] = step[g[n - 1]] /\ g[n - 1] \in S
      BY <1>5, <3>1
    <3> QED
      BY <1>4, <2>2, <3>2
  <2> QED
    BY <2>1, <2>2
<1>7. g = [n \in Nat |-> g[n]] /\ f = [n \in Nat |-> f[n]]
  BY <1>5
<1>8. g = f
  <2> HIDE DEF f
  <2> QED
    BY <1>6, <1>7
<1> QED
  BY <1>5, <1>8 DEF S

-----------------------------------------------------------------------------
(***************************************************************************)
(* Decisions, with the stamps of a clock that is not set back.             *)
(***************************************************************************)

\* An entry of the rule that was written no later than now.
FitsRule(rule, entry, now) ==
    /\ entry \in EntryUnder(rule)
    /\ rule.algorithm = "sliding_window" => Len(entry) <= rule.limit
    /\ rule.algorithm = "fixed_window" /\ entry # <<>> =>
           \E latest \in Nat : entry[2] = Aligned(latest, rule.window)
    /\ rule.algorithm = "token_bucket" /\ entry # <<>> => entry[2] <= now
    /\ rule.algorithm = "leaky_bucket" /\ entry # <<>> =>
           entry[1] <= rule.capacity /\ entry[2] <= now

\* From some time on the entry admits.
Serves(rule, entry, from) ==
    \A stamp \in Int : from <= stamp => Decide(rule, entry, stamp).allowed

LEMMA SlidingFits ==
    ASSUME NEW limit \in Positive, NEW window \in Positive,
           NEW entry \in Entry, Len(entry) <= limit, NEW now \in Nat,
           NEW outcome, outcome = sliding_window(entry, window, limit, now)
    PROVE  /\ Len(outcome.entry) <= limit
           /\ outcome.reset_at >= now
           /\ ~outcome.allowed => outcome.entry = entry
<1>1. PICK cutoff \in Int, m \in Nat : cutoff = now - window /\ m = Len(entry) /\ m <= limit
  BY LenProperties DEF Positive, Entry
<1>2. PICK q \in Entry, d \in 0 .. m :
          /\ q = Pruned(entry, cutoff) /\ Len(q) = m - d
          /\ \A i \in 1 .. m - d : q[i] = entry[i + d]
          /\ d < m => entry[d + 1] > cutoff
  BY <1>1, PrunedIsSuffix
<1>3. window \in Nat /\ window >= 1 /\ limit \in Nat /\ limit >= 1
  BY DEF Positive
<1>4. q # <<>> => q[1] \in Int /\ q[1] > cutoff
  <2> SUFFICES ASSUME q # <<>>
               PROVE  q[1] \in Int /\ q[1] > cutoff
    OBVIOUS
  <2>1. Len(q) # 0
    BY EmptySeq DEF Entry
  <2>2. 1 \in 1 .. m - d /\ d < m /\ 1 + d = d + 1
    BY <1>1, <1>2, <2>1
  <2>3. q[1] = entry[d + 1] /\ d + 1 \in 1 .. m
    BY <1>2, <2>2
  <2>4. entry[d + 1] \in Int
    BY <1>1, <2>3, ElementOfSeq DEF Entry
  <2> QED
    BY <1>2, <2>2, <2>3, <2>4
<1>5. CASE m - d < limit
  <2>1. PICK queued : queued = Append(q, now)
    OBVIOUS
  <2>2. /\ Len(queued) = (m - d) + 1
        /\ q = <<>> => queued[1] = now
        /\ q # <<>> => queued[1] = q[1]
    <3>1. Len(queued) = Len(q) + 1 /\ queued[Len(q) + 1] = now
          /\ \A i \in 1 .. Len(q) : queued[i] = q[i]
      BY <2>1, AppendProperties DEF Entry
    <3>2. q # <<>> => 1 \in 1 .. Len(q)
      BY EmptySeq, LenProperties DEF Entry
    <3>3. q = <<>> => Len(q) = 0
      BY EmptySeq
    <3> QED
      BY <1>2, <3>1, <3>2, <3>3
  <2>3. outcome = Admit(limit - Len(queued), queued[1] + window, queued)
    BY <1>1, <1>2, <1>5, <2>1 DEF sliding_window
  <2>4. queued[1] \in Int /\ queued[1] + window >= now
    BY <1>1, <1>3, <1>4, <2>2
  <2> QED
    BY <1>1, <1>2, <1>3, <1>5, <2>2, <2>3, <2>4 DEF Admit
<1>6. CASE ~(m - d < limit)
  <2>1. outcome = Deny(q[1] + window, q)
    BY <1>1, <1>2, <1>6 DEF sliding_window
  <2>2. d = 0 /\ m = limit
    BY <1>1, <1>2, <1>3, <1>6
  <2>3. Len(q) = Len(entry) /\ \A i \in 1 .. Len(q) : q[i] = entry[i]
    <3>1. \A i \in 1 .. m : i + d = i
      BY <2>2
    <3>2. Len(q) = m /\ m - d = m
      BY <1>2, <2>2
    <3> QED
      BY <1>1, <1>2, <3>1, <3>2
  <2>4. q = entry
    BY <2>3, SeqEqual DEF Entry
  <2>5. q # <<>>
    BY <1>1, <1>3, <2>2, <2>3, EmptySeq
  <2>6. q[1] + window >= now
    BY <1>1, <1>3, <1>4, <2>5
  <2>7. ~outcome.allowed /\ outcome.reset_at = q[1] + window /\ outcome.entry = entry
    BY <2>1, <2>4 DEF Deny
  <2> QED
    BY <2>6, <2>7
<1> QED
  BY <1>5, <1>6

LEMMA FixedFits ==
    ASSUME NEW limit \in Positive, NEW window \in Positive,
           NEW entry \in Entry, Len(entry) \in {0, 2}, NEW now \in Nat,
           entry # <<>> => \E latest \in Nat : entry[2] = Aligned(latest, window),
           NEW outcome, outcome = fixed_window(entry, window, limit, now)
    PROVE  /\ outcome.entry # <<>> =>
                  \E latest \in Nat : outcome.entry[2] = Aligned(latest, window)
           /\ outcome.reset_at >= now
           /\ ~outcome.allowed => outcome.entry = entry
<1> DEFINE current == CurrentWindow(entry, Aligned(now, window))
<1>1. window \in Nat /\ limit \in Nat /\ limit >= 1 /\ now \in Int
  BY DEF Positive
<1>2. Aligned(now, window) \in Int /\ now < Aligned(now, window) + window
  BY <1>1, AlignedOrder
<1>3. entry # <<>> => entry[1] \in Int /\ entry[2] \in Int
  BY PairEntry
<1>4. PICK count \in Int, since \in Int :
          /\ current[1] = count /\ current[2] = since
          /\ since >= Aligned(now, window)
          /\ \E latest \in Nat : since = Aligned(latest, window)
  <2>1. CASE entry = <<>> \/ entry[2] < Aligned(now, window)
    BY <1>2, <2>1 DEF CurrentWindow
  <2>2. CASE ~(entry = <<>> \/ entry[2] < Aligned(now, window))
    <3>1. current = entry
      BY <2>2 DEF CurrentWindow
    <3> HIDE DEF current
    <3> QED
      BY <1>2, <1>3, <2>2, <3>1
  <2> QED
    BY <2>1, <2>2
<1> HIDE DEF current
<1>5. since + window >= now
  BY <1>1, <1>2, <1>4
<1>6. CASE count < limit
  <2>1. outcome = Admit(limit - (count + 1), since + window, <<count + 1, since>>)
    BY <1>4, <1>6 DEF fixed_window, current
  <2>2. outcome.allowed /\ outcome.reset_at = since + window /\ outcome.entry[2] = since
    BY <2>1 DEF Admit
  <2> QED
    BY <1>4, <1>5, <2>2
<1>7. CASE ~(count < limit)
  <2>1. outcome = Deny(since + window, entry)
    BY <1>4, <1>7 DEF fixed_window, current
  <2>2. ~outcome.allowed /\ outcome.reset_at = since + window /\ outcome.entry = entry
    BY <2>1 DEF Deny
  <2> QED
    BY <1>5, <2>2
<1> QED
  BY <1>6, <1>7

LEMMA TokenFits ==
    ASSUME NEW capacity \in Positive, NEW interval \in Positive,
           NEW entry \in Entry, Len(entry) \in {0, 2}, NEW now \in Nat,
           entry # <<>> => entry[2] <= now,
           NEW outcome, outcome = token_bucket(entry, capacity, interval, now)
    PROVE  /\ outcome.entry # <<>> => outcome.entry[2] <= now
           /\ outcome.reset_at >= now
           /\ ~outcome.allowed => outcome.entry = entry
<1> DEFINE full   == capacity * interval
           bucket == IF entry = <<>> THEN <<full, now>> ELSE entry
           level  == AtMost(bucket[1] + Elapsed(now, bucket[2]), full)
<1>1. interval \in Nat /\ interval >= 1 /\ full \in Nat
  BY DEF Positive
<1>2. bucket[1] \in Int /\ bucket[2] \in Int
  BY <1>1, PairEntry
<1> HIDE DEF bucket, full
<1>3. PICK l \in Int : l = level /\ l <= full
  <2>1. Elapsed(now, bucket[2]) \in Int
    BY <1>2 DEF Elapsed, AtLeastZero
  <2> QED
    BY <1>1, <1>2, <2>1 DEF AtMost
<1>4. CASE l >= interval
  <2>1. outcome = Admit((l - interval) \div interval, now + (full - (l - interval)),
                        <<l - interval, now>>)
    BY <1>3, <1>4 DEF token_bucket, bucket, full
  <2>2. /\ outcome.allowed /\ outcome.reset_at = now + (full - (l - interval))
        /\ outcome.entry[2] = now
    BY <2>1 DEF Admit
  <2>3. now + (full - (l - interval)) >= now /\ now <= now
    BY <1>1, <1>3
  <2> QED
    BY <2>2, <2>3
<1>5. CASE ~(l >= interval)
  <2>1. outcome = Deny(now + (interval - l), entry)
    BY <1>3, <1>5 DEF token_bucket, bucket, full
  <2>2. ~outcome.allowed /\ outcome.reset_at = now + (interval - l) /\ outcome.entry = entry
    BY <2>1 DEF Deny
  <2>3. now + (interval - l) >= now
    BY <1>1, <1>3, <1>5
  <2> QED
    BY <2>2, <2>3
<1> QED
  BY <1>4, <1>5

LEMMA LeakyFits ==
    ASSUME NEW capacity \in Positive, NEW interval \in Positive,
           NEW entry \in Entry, Len(entry) \in {0, 2}, NEW now \in Nat,
           entry # <<>> => entry[1] <= capacity /\ entry[2] <= now,
           NEW outcome, outcome = leaky_bucket(entry, capacity, interval, now)
    PROVE  /\ outcome.entry # <<>> => outcome.entry[1] <= capacity /\ outcome.entry[2] <= now
           /\ outcome.reset_at >= now
           /\ ~outcome.allowed => outcome.entry = entry
<1> DEFINE bucket == IF entry = <<>> THEN <<0, now>> ELSE entry
           leaked == Leaked(Elapsed(now, bucket[2]), interval)
           queue  == AtLeastZero(bucket[1] - leaked)
<1>1. interval \in Nat /\ interval >= 1 /\ capacity \in Nat
  BY DEF Positive
<1>2. bucket[1] \in Int /\ bucket[2] \in Int /\ bucket[2] <= now
  BY <1>1, PairEntry
<1> HIDE DEF bucket
<1>3. leaked \in Nat /\ leaked * interval <= now - bucket[2]
  <2>1. PICK elapsed \in Nat : elapsed = Elapsed(now, bucket[2]) /\ elapsed = now - bucket[2]
    BY <1>2 DEF Elapsed, AtLeastZero
  <2>2. elapsed \div interval \in Nat /\ (elapsed \div interval) * interval <= elapsed
    BY <2>1, DivIsInt
  <2> QED
    BY <2>1, <2>2 DEF Leaked
<1> HIDE DEF leaked
<1>4. PICK q \in Int : q = queue
  BY <1>2, <1>3 DEF AtLeastZero
<1>5. now + interval >= now
  BY <1>1
<1>6. CASE q < capacity
  <2>1. outcome = Admit(capacity - (q + 1), now + interval,
                        <<q + 1, bucket[2] + leaked * interval>>)
    BY <1>4, <1>6 DEF leaky_bucket, bucket, leaked
  <2>2. /\ outcome.allowed /\ outcome.reset_at = now + interval
        /\ outcome.entry[1] = q + 1 /\ outcome.entry[2] = bucket[2] + leaked * interval
    BY <2>1 DEF Admit
  <2>3. q + 1 <= capacity
    BY <1>1, <1>4, <1>6
  <2>4. bucket[2] + leaked * interval <= now
    <3> DEFINE product == leaked * interval
    <3>1. product \in Int /\ product <= now - bucket[2]
      BY <1>1, <1>3
    <3> HIDE DEF product
    <3>2. bucket[2] + product <= now
      BY <1>2, <3>1
    <3> QED
      BY <3>2 DEF product
  <2> QED
    BY <1>5, <2>2, <2>3, <2>4
<1>7. CASE ~(q < capacity)
  <2>1. outcome = Deny(now + interval, entry)
    BY <1>4, <1>7 DEF leaky_bucket, bucket, leaked
  <2>2. ~outcome.allowed /\ outcome.reset_at = now + interval /\ outcome.entry = entry
    BY <2>1 DEF Deny
  <2> QED
    BY <1>5, <2>2
<1> QED
  BY <1>6, <1>7

LEMMA GcraFits ==
    ASSUME NEW capacity \in Positive, NEW interval \in Positive,
           NEW entry \in Entry, Len(entry) \in {0, 1}, NEW now \in Nat,
           NEW outcome, outcome = gcra(entry, capacity, interval, now)
    PROVE  /\ outcome.reset_at >= now
           /\ ~outcome.allowed => outcome.entry = entry
<1> DEFINE tat   == IF entry = <<>> THEN now ELSE entry[1]
           burst == BurstInterval(capacity, interval)
           later == Later(tat, now) + interval
<1>1. interval \in Nat /\ interval >= 1 /\ burst \in Nat
  BY DEF Positive, BurstInterval
<1>2. tat \in Int
  BY DEF Entry
<1>3. later >= now
  BY <1>1, <1>2 DEF Later
<1> HIDE DEF burst
<1>4. CASE tat <= now + burst
  <2>1. \E remaining : outcome = Admit(remaining, later, <<later>>)
    BY <1>4 DEF gcra, burst
  <2>2. outcome.allowed /\ outcome.reset_at = later
    BY <2>1 DEF Admit
  <2> QED
    BY <1>3, <2>2
<1>5. CASE ~(tat <= now + burst)
  <2>1. outcome = Deny(tat - burst, entry)
    BY <1>5 DEF gcra, burst
  <2>2. ~outcome.allowed /\ outcome.reset_at = tat - burst /\ outcome.entry = entry
    BY <2>1 DEF Deny
  <2> HIDE DEF tat
  <2>3. tat - burst >= now
    BY <1>1, <1>2, <1>5
  <2> QED
    BY <2>2, <2>3
<1> QED
  BY <1>4, <1>5

LEMMA FitsLater ==
    ASSUME NEW rule \in LimitRule, NEW entry, NEW before \in Int, NEW now \in Int,
           before <= now, FitsRule(rule, entry, before)
    PROVE  FitsRule(rule, entry, now)
<1>1. /\ entry \in EntryUnder(rule)
      /\ rule.algorithm = "token_bucket" /\ entry # <<>> => entry[2] <= before
      /\ rule.algorithm = "leaky_bucket" /\ entry # <<>> => entry[2] <= before
  BY DEF FitsRule
<1>2. rule.algorithm \in {"token_bucket", "leaky_bucket"} /\ entry # <<>> => entry[2] \in Int
  BY <1>1, PairEntry DEF EntryUnder
<1>3. /\ rule.algorithm = "token_bucket" /\ entry # <<>> => entry[2] <= now
      /\ rule.algorithm = "leaky_bucket" /\ entry # <<>> => entry[2] <= now
  BY <1>1, <1>2
<1> QED
  BY <1>3 DEF FitsRule

\* A decision leaves an entry that fits; a refusal leaves it as it was, and tells
\* from when on the next decision is to admit.
LEMMA DecideFits ==
    ASSUME NEW rule \in LimitRule, NEW entry, NEW now \in Nat, FitsRule(rule, entry, now),
           NEW outcome, outcome = Decide(rule, entry, now)
    PROVE  /\ outcome \in Outcome
           /\ FitsRule(rule, outcome.entry, now)
           /\ outcome.reset_at >= now
           /\ ~outcome.allowed => outcome.entry = entry /\ Serves(rule, entry, outcome.reset_at)
<1>1. outcome \in Outcome /\ outcome.entry \in EntryUnder(rule)
  BY DecideType DEF FitsRule
<1>2. entry \in Entry /\ entry \in EntryUnder(rule)
  BY DEF FitsRule, EntryUnder
<1>3. CASE rule.algorithm = "sliding_window"
  <2>1. rule.window \in Positive /\ rule.limit \in Positive
    BY <1>3 DEF LimitRule, WindowRule, BucketRule
  <2>2. \A stamp \in Int : Decide(rule, entry, stamp) = sliding_window(entry, rule.window, rule.limit, stamp)
    BY <1>3 DEF Decide
  <2>3. outcome = sliding_window(entry, rule.window, rule.limit, now)
    BY <2>2
  <2>4. entry \in Entry /\ Len(entry) <= rule.limit
    BY <1>2, <1>3 DEF FitsRule, EntryUnder
  <2>5. /\ outcome.reset_at >= now
        /\ ~outcome.allowed => outcome.entry = entry
        /\ Len(outcome.entry) <= rule.limit
    BY <2>1, <2>3, <2>4, SlidingFits
  <2>6. FitsRule(rule, outcome.entry, now)
    BY <1>1, <1>3, <2>5 DEF FitsRule
  <2>7. ASSUME ~outcome.allowed
        PROVE  Serves(rule, entry, outcome.reset_at)
    <3>1. outcome.entry = entry
      BY <2>5, <2>7
    <3> SUFFICES ASSUME NEW stamp \in Int, outcome.reset_at <= stamp
                 PROVE  sliding_window(entry, rule.window, rule.limit, stamp).allowed
      BY <2>2 DEF Serves
    <3> QED
      BY <2>1, <2>3, <2>4, <2>7, <3>1, SlidingRetry
  <2> QED
    BY <1>1, <2>5, <2>6, <2>7
<1>4. CASE rule.algorithm = "fixed_window"
  <2>1. rule.window \in Positive /\ rule.limit \in Positive
    BY <1>4 DEF LimitRule, WindowRule, BucketRule
  <2>2. \A stamp \in Int : Decide(rule, entry, stamp) = fixed_window(entry, rule.window, rule.limit, stamp)
    BY <1>4 DEF Decide
  <2>3. outcome = fixed_window(entry, rule.window, rule.limit, now)
    BY <2>2
  <2>4. /\ entry \in Entry /\ Len(entry) \in {0, 2}
        /\ entry # <<>> => \E latest \in Nat : entry[2] = Aligned(latest, rule.window)
    BY <1>2, <1>4 DEF FitsRule, EntryUnder
  <2>5. /\ outcome.reset_at >= now
        /\ ~outcome.allowed => outcome.entry = entry
        /\ outcome.entry # <<>> =>
              \E latest \in Nat : outcome.entry[2] = Aligned(latest, rule.window)
    BY <2>1, <2>3, <2>4, FixedFits
  <2>6. FitsRule(rule, outcome.entry, now)
    BY <1>1, <1>4, <2>5 DEF FitsRule
  <2>7. ASSUME ~outcome.allowed
        PROVE  Serves(rule, entry, outcome.reset_at)
    <3>1. outcome.entry = entry
      BY <2>5, <2>7
    <3> SUFFICES ASSUME NEW stamp \in Int, outcome.reset_at <= stamp
                 PROVE  fixed_window(entry, rule.window, rule.limit, stamp).allowed
      BY <2>2 DEF Serves
    <3> QED
      BY <2>1, <2>3, <2>4, <2>7, <3>1, FixedRetry
  <2> QED
    BY <1>1, <2>5, <2>6, <2>7
<1>5. CASE rule.algorithm = "token_bucket"
  <2>1. rule.capacity \in Positive /\ rule.interval \in Positive
    BY <1>5 DEF LimitRule, WindowRule, BucketRule
  <2>2. \A stamp \in Int : Decide(rule, entry, stamp) =
            token_bucket(entry, rule.capacity, rule.interval, stamp)
    BY <1>5 DEF Decide
  <2>3. outcome = token_bucket(entry, rule.capacity, rule.interval, now)
    BY <2>2
  <2>4. /\ entry \in Entry /\ Len(entry) \in {0, 2}
        /\ entry # <<>> => entry[2] <= now
    BY <1>2, <1>5 DEF FitsRule, EntryUnder
  <2>5. /\ outcome.reset_at >= now
        /\ ~outcome.allowed => outcome.entry = entry
        /\ outcome.entry # <<>> => outcome.entry[2] <= now
    BY <2>1, <2>3, <2>4, TokenFits
  <2>6. FitsRule(rule, outcome.entry, now)
    BY <1>1, <1>5, <2>5 DEF FitsRule
  <2>7. ASSUME ~outcome.allowed
        PROVE  Serves(rule, entry, outcome.reset_at)
    <3>1. outcome.entry = entry
      BY <2>5, <2>7
    <3> SUFFICES ASSUME NEW stamp \in Int, outcome.reset_at <= stamp
                 PROVE  token_bucket(entry, rule.capacity, rule.interval, stamp).allowed
      BY <2>2 DEF Serves
    <3> QED
      BY <2>1, <2>3, <2>4, <2>7, <3>1, TokenRetry
  <2> QED
    BY <1>1, <2>5, <2>6, <2>7
<1>6. CASE rule.algorithm = "leaky_bucket"
  <2>1. rule.capacity \in Positive /\ rule.interval \in Positive
    BY <1>6 DEF LimitRule, WindowRule, BucketRule
  <2>2. \A stamp \in Int : Decide(rule, entry, stamp) =
            leaky_bucket(entry, rule.capacity, rule.interval, stamp)
    BY <1>6 DEF Decide
  <2>3. outcome = leaky_bucket(entry, rule.capacity, rule.interval, now)
    BY <2>2
  <2>4. /\ entry \in Entry /\ Len(entry) \in {0, 2}
        /\ entry # <<>> => entry[1] <= rule.capacity /\ entry[2] <= now
    BY <1>2, <1>6 DEF FitsRule, EntryUnder
  <2>5. /\ outcome.reset_at >= now
        /\ ~outcome.allowed => outcome.entry = entry
        /\ outcome.entry # <<>> =>
              outcome.entry[1] <= rule.capacity /\ outcome.entry[2] <= now
    BY <2>1, <2>3, <2>4, LeakyFits
  <2>6. FitsRule(rule, outcome.entry, now)
    BY <1>1, <1>6, <2>5 DEF FitsRule
  <2>7. ASSUME ~outcome.allowed
        PROVE  Serves(rule, entry, outcome.reset_at)
    <3>1. outcome.entry = entry
      BY <2>5, <2>7
    <3> SUFFICES ASSUME NEW stamp \in Int, outcome.reset_at <= stamp
                 PROVE  leaky_bucket(entry, rule.capacity, rule.interval, stamp).allowed
      BY <2>2 DEF Serves
    <3> QED
      BY <2>1, <2>3, <2>4, <2>7, <3>1, LeakyRetry
  <2> QED
    BY <1>1, <2>5, <2>6, <2>7
<1>7. CASE rule.algorithm = "gcra"
  <2>1. rule.capacity \in Positive /\ rule.interval \in Positive
    BY <1>7 DEF LimitRule, WindowRule, BucketRule
  <2>2. \A stamp \in Int : Decide(rule, entry, stamp) = gcra(entry, rule.capacity, rule.interval, stamp)
    BY <1>7 DEF Decide
  <2>3. outcome = gcra(entry, rule.capacity, rule.interval, now)
    BY <2>2
  <2>4. entry \in Entry /\ Len(entry) \in {0, 1}
    BY <1>2, <1>7 DEF FitsRule, EntryUnder
  <2>5. /\ outcome.reset_at >= now
        /\ ~outcome.allowed => outcome.entry = entry
    BY <2>1, <2>3, <2>4, GcraFits
  <2>6. FitsRule(rule, outcome.entry, now)
    BY <1>1, <1>7, <2>5 DEF FitsRule
  <2>7. ASSUME ~outcome.allowed
        PROVE  Serves(rule, entry, outcome.reset_at)
    <3>1. outcome.entry = entry
      BY <2>5, <2>7
    <3> SUFFICES ASSUME NEW stamp \in Int, outcome.reset_at <= stamp
                 PROVE  gcra(entry, rule.capacity, rule.interval, stamp).allowed
      BY <2>2 DEF Serves
    <3> QED
      BY <2>1, <2>3, <2>4, <2>7, <3>1, GcraRetry
  <2> QED
    BY <1>1, <2>5, <2>6, <2>7
<1>8. rule.algorithm \in {"sliding_window", "fixed_window", "token_bucket", "leaky_bucket", "gcra"}
  BY DEF LimitRule, WindowRule, BucketRule
<1> QED
  BY <1>3, <1>4, <1>5, <1>6, <1>7, <1>8

-----------------------------------------------------------------------------
(***************************************************************************)
(* A later decision has at most one less to give, whatever the algorithm.  *)
(***************************************************************************)

\* What follows a decision, at the same instant or later.
NoFewer(outcome, next) ==
    outcome.remaining > 0 => next.allowed /\ next.remaining >= outcome.remaining - 1

LEMMA DivMonotone ==
    ASSUME NEW a \in Int, NEW b \in Int, a <= b, NEW c \in Positive
    PROVE  a \div c <= b \div c
<1>1. PICK m \in Int, n \in Int :
          /\ m = a \div c /\ n = b \div c
          /\ m * c <= a /\ b < n * c + c
  BY DivIsInt
<1>2. c \in Nat /\ c >= 1
  BY DEF Positive
<1>3. SUFFICES ASSUME n + 1 <= m
               PROVE  FALSE
  BY <1>1
<1>4. (n + 1) * c <= m * c
  <2>1. \A x, y \in Int : x <= y => x * c <= y * c
    BY <1>2
  <2> QED
    BY <1>1, <1>3, <2>1
<1>5. (n + 1) * c = n * c + c
  BY <1>1, <1>2
<1>6. PICK p \in Int, r \in Int : p = m * c /\ r = n * c
  BY <1>1, <1>2
<1> QED
  BY <1>1, <1>2, <1>4, <1>5, <1>6

LEMMA SlidingNoFewer ==
    ASSUME NEW limit \in Positive, NEW window \in Positive,
           NEW entry \in Entry, NEW now \in Nat, NEW later \in Nat,
           NEW outcome, outcome = sliding_window(entry, window, limit, now),
           NEW next, next = sliding_window(outcome.entry, window, limit, later)
    PROVE  NoFewer(outcome, next)
<1>1. PICK cutoff \in Int, then \in Int : cutoff = now - window /\ then = later - window
  BY DEF Positive
<1>2. limit \in Nat
  BY DEF Positive
<1>3. PICK q \in Entry, n \in Nat : q = Pruned(entry, cutoff) /\ n = Len(q)
  BY <1>1, PrunedIsSuffix, LenProperties DEF Entry
<1>4. CASE n < limit
  <2>1. PICK queued : queued = Append(q, now)
    OBVIOUS
  <2>2. queued \in Entry /\ Len(queued) = n + 1
    BY <1>3, <2>1, AppendProperties DEF Entry
  <2>3. outcome.entry = queued /\ outcome.remaining = limit - (n + 1)
    <3>1. outcome = Admit(limit - Len(queued), queued[1] + window, queued)
      BY <1>1, <1>3, <1>4, <2>1 DEF sliding_window
    <3> QED
      BY <2>2, <3>1 DEF Admit
  <2>4. PICK kept \in Entry, m \in Nat : kept = Pruned(queued, then) /\ m = Len(kept) /\ m <= n + 1
    <3>1. PICK kept : kept = Pruned(queued, then)
      OBVIOUS
    <3>2. kept \in Entry /\ \E dropped \in 0 .. Len(queued) : Len(kept) = Len(queued) - dropped
      BY <1>1, <2>2, <3>1, PrunedIsSuffix
    <3>3. PICK dropped \in 0 .. n + 1 : Len(kept) = (n + 1) - dropped
      BY <2>2, <3>2
    <3>4. Len(kept) \in Nat /\ Len(kept) <= n + 1
      BY <1>3, <3>3
    <3> QED
      BY <3>1, <3>2, <3>4
  <2>5. PICK longer : longer = Append(kept, later)
    OBVIOUS
  <2>6. Len(longer) = m + 1
    BY <2>4, <2>5, AppendProperties DEF Entry
  <2>7. m < limit => next = Admit(limit - Len(longer), longer[1] + window, longer)
    BY <1>1, <2>3, <2>4, <2>5 DEF sliding_window
  <2>8. m < limit => next.allowed /\ next.remaining = limit - (m + 1)
    BY <2>6, <2>7 DEF Admit
  <2>9. limit - (n + 1) > 0 => m < limit /\ limit - (m + 1) >= (limit - (n + 1)) - 1
    BY <1>2, <1>3, <2>4
  <2> QED
    BY <2>3, <2>8, <2>9 DEF NoFewer
<1>5. CASE ~(n < limit)
  <2>1. outcome = Deny(q[1] + window, q)
    BY <1>1, <1>3, <1>5 DEF sliding_window
  <2>2. outcome.remaining = 0
    BY <2>1 DEF Deny
  <2> QED
    BY <2>2 DEF NoFewer
<1> QED
  BY <1>4, <1>5

LEMMA FixedNoFewer ==
    ASSUME NEW limit \in Positive, NEW window \in Positive,
           NEW entry \in Entry, Len(entry) \in {0, 2}, entry # <<>> => entry[1] >= 0,
           NEW now \in Nat, NEW later \in Nat,
           NEW outcome, outcome = fixed_window(entry, window, limit, now),
           NEW next, next = fixed_window(outcome.entry, window, limit, later)
    PROVE  /\ NoFewer(outcome, next)
           /\ outcome.entry # <<>> => outcome.entry[1] >= 0
<1> DEFINE start   == Aligned(now, window)
           current == CurrentWindow(entry, start)
<1>1. limit \in Nat /\ limit >= 1 /\ start \in Int
  <2>1. limit \in Nat /\ limit >= 1 /\ now \in Int
    BY DEF Positive
  <2> QED
    BY <2>1, AlignedOrder
<1>2. entry # <<>> => entry[1] \in Int /\ entry[2] \in Int
  BY PairEntry
<1>3. PICK count \in Nat, since \in Int : current[1] = count /\ current[2] = since
  <2> HIDE DEF start
  <2>1. CASE entry = <<>> \/ entry[2] < start
    BY <1>1, <2>1 DEF CurrentWindow
  <2>2. CASE ~(entry = <<>> \/ entry[2] < start)
    <3>1. current = entry
      BY <2>2 DEF CurrentWindow
    <3> HIDE DEF current
    <3> QED
      BY <1>2, <2>2, <3>1
  <2> QED
    BY <2>1, <2>2
<1>4. CASE count < limit
  <2>1. outcome = Admit(limit - (count + 1), since + window, <<count + 1, since>>)
    BY <1>3, <1>4 DEF fixed_window
  <2>2. outcome.remaining = limit - (count + 1) /\ outcome.entry = <<count + 1, since>>
    BY <2>1 DEF Admit
  <2>3. PICK kept : kept = outcome.entry /\ kept # <<>> /\ kept[1] = count + 1 /\ kept[2] = since
    BY <2>2
  <2>4. PICK m \in Nat, after \in Seq(Int) :
            after = CurrentWindow(kept, Aligned(later, window)) /\ after[1] = m /\ m <= count + 1
    <3> DEFINE again == Aligned(later, window)
    <3>1. again \in Int
      <4>1. later \in Int
        OBVIOUS
      <4> QED
        BY <4>1, AlignedOrder
    <3> HIDE DEF again
    <3>2. CASE kept[2] < again
      <4>1. CurrentWindow(kept, again) = <<0, again>>
        BY <3>2 DEF CurrentWindow
      <4>2. PICK new : new = <<0, again>> /\ new \in Seq(Int) /\ new[1] = 0
        <5>1. <<0, again>> \in Seq(Int) /\ <<0, again>>[1] = 0
          BY <3>1
        <5> QED
          BY <5>1
      <4>3. 0 \in Nat /\ 0 <= count + 1
        BY <1>3
      <4> QED
        BY <4>1, <4>2, <4>3 DEF again
    <3>3. CASE ~(kept[2] < again)
      <4>1. CurrentWindow(kept, again) = kept
        BY <2>3, <3>3 DEF CurrentWindow
      <4>2. kept \in Seq(Int)
        BY <1>3, <2>2, <2>3
      <4> QED
        BY <1>3, <2>3, <4>1, <4>2 DEF again
    <3> QED
      BY <3>2, <3>3
  <2>5. m < limit => \E reset, entered : next = Admit(limit - (m + 1), reset, entered)
    BY <2>3, <2>4 DEF fixed_window
  <2>6. ASSUME m < limit
        PROVE  next.allowed /\ next.remaining = limit - (m + 1)
    <3>1. PICK reset, entered : next = Admit(limit - (m + 1), reset, entered)
      BY <2>5, <2>6
    <3> QED
      BY <3>1 DEF Admit
  <2>7. limit - (count + 1) > 0 => m < limit /\ limit - (m + 1) >= (limit - (count + 1)) - 1
    BY <1>1, <1>3, <2>4
  <2> QED
    BY <1>3, <2>2, <2>3, <2>6, <2>7 DEF NoFewer
<1>5. CASE ~(count < limit)
  <2>1. outcome = Deny(since + window, entry)
    BY <1>3, <1>5 DEF fixed_window
  <2>2. outcome.remaining = 0 /\ outcome.entry = entry
    BY <2>1 DEF Deny
  <2> QED
    BY <2>2 DEF NoFewer
<1> QED
  BY <1>4, <1>5

LEMMA TokenNoFewer ==
    ASSUME NEW capacity \in Positive, NEW interval \in Positive,
           NEW entry \in Entry, Len(entry) \in {0, 2},
           NEW now \in Nat, NEW later \in Nat, now <= later,
           NEW outcome, outcome = token_bucket(entry, capacity, interval, now),
           NEW next, next = token_bucket(outcome.entry, capacity, interval, later)
    PROVE  NoFewer(outcome, next)
<1> DEFINE full   == capacity * interval
           bucket == IF entry = <<>> THEN <<full, now>> ELSE entry
           level  == AtMost(bucket[1] + Elapsed(now, bucket[2]), full)
<1>1. interval \in Nat /\ interval >= 1 /\ full \in Nat
  BY DEF Positive
<1>2. bucket[1] \in Int /\ bucket[2] \in Int
  BY <1>1, PairEntry
<1> HIDE DEF bucket, full
<1>3. PICK l \in Int : l = level /\ l <= full
  <2>1. Elapsed(now, bucket[2]) \in Int
    BY <1>2 DEF Elapsed, AtLeastZero
  <2> QED
    BY <1>1, <1>2, <2>1 DEF AtMost
<1>4. CASE l >= interval
  <2>1. PICK left \in Int : left = l - interval /\ left <= full
    BY <1>1, <1>3
  <2>2. outcome = Admit(left \div interval, now + (full - left), <<left, now>>)
    BY <1>3, <1>4, <2>1 DEF token_bucket, bucket, full
  <2>3. outcome.remaining = left \div interval /\ outcome.entry = <<left, now>>
    BY <2>2 DEF Admit
  <2>4. PICK more \in Int : more = AtMost(left + Elapsed(later, now), full) /\ left <= more
    <3>0. Elapsed(later, now) \in Nat
      BY DEF Elapsed, AtLeastZero
    <3>1. PICK elapsed \in Nat : elapsed = Elapsed(later, now)
      BY <3>0
    <3>2. AtMost(left + elapsed, full) \in Int /\ left <= AtMost(left + elapsed, full)
      BY <1>1, <2>1, <3>1 DEF AtMost
    <3> QED
      BY <3>1, <3>2
  <2>5. more >= interval => \E reset, after : next = Admit((more - interval) \div interval, reset, after)
    <3>1. PICK kept : kept = outcome.entry /\ kept # <<>> /\ kept[1] = left /\ kept[2] = now
      BY <2>3
    <3>2. more = AtMost(kept[1] + Elapsed(later, kept[2]), capacity * interval)
      BY <2>4, <3>1 DEF full
    <3>3. next = IF more >= interval
                 THEN Admit((more - interval) \div interval,
                            later + (full - (more - interval)), <<more - interval, later>>)
                 ELSE Deny(later + (interval - more), kept)
      BY <3>1, <3>2, TokenOfBucket DEF full
    <3> QED
      BY <3>3
  <2>6. ASSUME more >= interval
        PROVE  next.allowed /\ next.remaining = (more - interval) \div interval
    <3>1. PICK reset, after : next = Admit((more - interval) \div interval, reset, after)
      BY <2>5, <2>6
    <3> QED
      BY <3>1 DEF Admit
  <2>7. /\ (left - interval) \div interval = (left \div interval) - 1
        /\ left >= interval <=> left \div interval > 0
    BY <2>1, DivLessOne
  <2>8. (left - interval) \div interval <= (more - interval) \div interval
    <3>1. left - interval \in Int /\ more - interval \in Int /\ left - interval <= more - interval
      BY <1>1, <2>1, <2>4
    <3> QED
      BY <3>1, DivMonotone
  <2>9. left >= interval => more >= interval
    BY <1>1, <2>1, <2>4
  <2>10. left \div interval \in Int /\ (more - interval) \div interval \in Int
    BY <1>1, <2>1, <2>4, DivIsInt
  <2> QED
    BY <2>3, <2>6, <2>7, <2>8, <2>9, <2>10 DEF NoFewer
<1>5. CASE ~(l >= interval)
  <2>1. outcome = Deny(now + (interval - l), entry)
    BY <1>3, <1>5 DEF token_bucket, bucket, full
  <2>2. outcome.remaining = 0
    BY <2>1 DEF Deny
  <2> QED
    BY <2>2 DEF NoFewer
<1> QED
  BY <1>4, <1>5

LEMMA LeakyNoFewer ==
    ASSUME NEW capacity \in Positive, NEW interval \in Positive,
           NEW entry \in Entry, Len(entry) \in {0, 2}, NEW now \in Nat, NEW later \in Nat,
           NEW outcome, outcome = leaky_bucket(entry, capacity, interval, now),
           NEW next, next = leaky_bucket(outcome.entry, capacity, interval, later)
    PROVE  NoFewer(outcome, next)
<1> DEFINE bucket == IF entry = <<>> THEN <<0, now>> ELSE entry
           leaked == Leaked(Elapsed(now, bucket[2]), interval)
           queue  == AtLeastZero(bucket[1] - leaked)
<1>1. interval \in Nat /\ interval >= 1 /\ capacity \in Nat
  BY DEF Positive
<1>2. bucket[1] \in Int /\ bucket[2] \in Int
  BY PairEntry
<1>3. \A stamp \in Nat, last \in Int : Leaked(Elapsed(stamp, last), interval) \in Nat
  <2> SUFFICES ASSUME NEW stamp \in Nat, NEW last \in Int
               PROVE  Leaked(Elapsed(stamp, last), interval) \in Nat
    OBVIOUS
  <2>1. Elapsed(stamp, last) \in Nat
    BY DEF Elapsed, AtLeastZero
  <2> QED
    BY <2>1, DivIsInt DEF Leaked
<1> HIDE DEF bucket
<1>4. PICK l \in Nat, q \in Nat : l = leaked /\ q = queue
  <2>1. leaked \in Nat
    BY <1>2, <1>3
  <2> HIDE DEF leaked
  <2> QED
    BY <1>2, <2>1 DEF AtLeastZero
<1> HIDE DEF leaked, queue
<1>5. CASE q < capacity
  <2>1. PICK last \in Int : last = bucket[2] + l * interval
    BY <1>1, <1>2, <1>4
  <2>2. outcome = Admit(capacity - (q + 1), now + interval, <<q + 1, last>>)
    BY <1>4, <1>5, <2>1 DEF leaky_bucket, bucket, leaked, queue
  <2>3. outcome.remaining = capacity - (q + 1) /\ outcome.entry = <<q + 1, last>>
    BY <2>2 DEF Admit
  <2>4. PICK m \in Nat : m = AtLeastZero((q + 1) - Leaked(Elapsed(later, last), interval)) /\ m <= q + 1
    <3>1. PICK gone \in Nat : gone = Leaked(Elapsed(later, last), interval)
      BY <1>3, <2>1
    <3> QED
      BY <1>4, <3>1 DEF AtLeastZero
  <2>5. m < capacity => \E after : next = Admit(capacity - (m + 1), later + interval, after)
    <3>1. PICK kept : kept = outcome.entry /\ kept # <<>> /\ kept[1] = q + 1 /\ kept[2] = last
      BY <2>3
    <3>2. m = AtLeastZero(kept[1] - Leaked(Elapsed(later, kept[2]), interval))
      BY <2>4, <3>1
    <3> QED
      BY <3>1, <3>2, LeakyOfBucket
  <2>6. ASSUME m < capacity
        PROVE  next.allowed /\ next.remaining = capacity - (m + 1)
    <3>1. PICK after : next = Admit(capacity - (m + 1), later + interval, after)
      BY <2>5, <2>6
    <3> QED
      BY <3>1 DEF Admit
  <2>7. capacity - (q + 1) > 0 => m < capacity /\ capacity - (m + 1) >= (capacity - (q + 1)) - 1
    BY <1>1, <1>4, <2>4
  <2> QED
    BY <2>3, <2>6, <2>7 DEF NoFewer
<1>6. CASE ~(q < capacity)
  <2>1. outcome = Deny(now + interval, entry)
    BY <1>4, <1>6 DEF leaky_bucket, bucket, leaked, queue
  <2>2. outcome.remaining = 0
    BY <2>1 DEF Deny
  <2> QED
    BY <2>2 DEF NoFewer
<1> QED
  BY <1>5, <1>6

LEMMA GcraNoFewer ==
    ASSUME NEW capacity \in Positive, NEW interval \in Positive,
           NEW entry \in Entry, Len(entry) \in {0, 1},
           NEW now \in Nat, NEW later \in Nat, now <= later,
           NEW outcome, outcome = gcra(entry, capacity, interval, now),
           NEW next, next = gcra(outcome.entry, capacity, interval, later)
    PROVE  NoFewer(outcome, next)
<1> DEFINE tat   == IF entry = <<>> THEN now ELSE entry[1]
           full  == capacity * interval
           burst == BurstInterval(capacity, interval)
<1>1. interval \in Nat /\ interval >= 1 /\ full \in Nat /\ burst \in Int /\ burst = full - interval
  BY DEF Positive, BurstInterval
<1>2. tat \in Int
  BY DEF Entry
<1> HIDE DEF burst, full
<1>3. PICK due \in Int : due = Later(tat, now) + interval /\ due >= now + interval
  BY <1>1, <1>2 DEF Later
<1> HIDE DEF tat
<1>4. PICK spare \in Int : spare = full - (due - now)
  BY <1>1, <1>3
<1>5. CASE tat <= now + burst
  <2>1. outcome = Admit(AtLeastZero(spare \div interval), due, <<due>>)
    BY <1>3, <1>4, <1>5 DEF gcra, tat, burst, full
  <2>2. outcome.remaining = AtLeastZero(spare \div interval) /\ outcome.entry = <<due>>
    BY <2>1 DEF Admit
  <2>3. PICK most \in Int : most = Later(due, later) /\ most - later <= due - now
    <3>1. Later(due, later) \in Int /\ Later(due, later) - later <= due - now
      BY <1>1, <1>3 DEF Later
    <3> QED
      BY <3>1
  <2>4. PICK left \in Int : left = full - ((most + interval) - later) /\ spare - interval <= left
    <3>1. PICK gap \in Int, ahead \in Int :
              gap = due - now /\ ahead = most - later /\ ahead <= gap /\ spare = full - gap
      BY <1>3, <1>4, <2>3
    <3>2. full - ((most + interval) - later) = (full - ahead) - interval
      BY <1>1, <2>3, <3>1
    <3>3. (full - ahead) - interval \in Int /\ spare - interval <= (full - ahead) - interval
      BY <1>1, <3>1
    <3> QED
      BY <3>2, <3>3
  <2>5. due <= later + burst => \E reset, after : next = Admit(AtLeastZero(left \div interval), reset, after)
    <3>1. PICK kept : kept = outcome.entry /\ kept # <<>> /\ kept[1] = due
      BY <2>2
    <3> QED
      BY <2>3, <2>4, <3>1 DEF gcra, burst, full
  <2>6. ASSUME due <= later + burst
        PROVE  next.allowed /\ next.remaining = AtLeastZero(left \div interval)
    <3>1. PICK reset, after : next = Admit(AtLeastZero(left \div interval), reset, after)
      BY <2>5, <2>6
    <3> QED
      BY <3>1 DEF Admit
  <2>7. PICK k \in Int, n \in Int :
            /\ k = spare \div interval /\ n = left \div interval
            /\ k > 0 <=> spare >= interval
            /\ k - 1 <= n
    <3>1. /\ (spare - interval) \div interval = (spare \div interval) - 1
          /\ spare >= interval <=> spare \div interval > 0
      BY <1>4, DivLessOne
    <3>2. (spare - interval) \div interval <= left \div interval
      <4>1. spare - interval \in Int
        BY <1>1, <1>4
      <4> QED
        BY <2>4, <4>1, DivMonotone
    <3>3. PICK k \in Int, n \in Int : k = spare \div interval /\ n = left \div interval
      BY <1>4, <2>4, DivIsInt
    <3>4. (spare - interval) \div interval = k - 1 /\ (k > 0 <=> spare >= interval)
      BY <3>1, <3>3
    <3>5. k - 1 <= n
      BY <3>2, <3>3, <3>4
    <3> QED
      BY <3>3, <3>4, <3>5
  <2>8. spare >= interval => due <= later + burst
    BY <1>1, <1>3, <1>4
  <2>9. AtLeastZero(k) > 0 => k > 0 /\ AtLeastZero(k) = k
    BY <2>7 DEF AtLeastZero
  <2>10. AtLeastZero(n) >= n /\ AtLeastZero(n) \in Nat
    BY <2>7 DEF AtLeastZero
  <2>11. AtLeastZero(k) > 0 => next.allowed /\ next.remaining >= AtLeastZero(k) - 1
    BY <2>6, <2>7, <2>8, <2>9, <2>10
  <2> QED
    BY <2>2, <2>7, <2>11 DEF NoFewer
<1>6. CASE ~(tat <= now + burst)
  <2>1. outcome = Deny(tat - burst, entry)
    BY <1>6 DEF gcra, tat, burst
  <2>2. outcome.remaining = 0
    BY <2>1 DEF Deny
  <2> QED
    BY <2>2 DEF NoFewer
<1> QED
  BY <1>5, <1>6

\* An entry of the rule whose count of requests, if it keeps one, is not negative.
NeverNegative(rule, entry) ==
    /\ entry \in EntryUnder(rule)
    /\ rule.algorithm = "fixed_window" /\ entry # <<>> => entry[1] >= 0

LEMMA DecideNoFewer ==
    ASSUME NEW rule \in LimitRule, NEW entry, NeverNegative(rule, entry),
           NEW now \in Nat, NEW later \in Nat, now <= later,
           NEW outcome, outcome = Decide(rule, entry, now),
           NEW next, next = Decide(rule, outcome.entry, later)
    PROVE  NoFewer(outcome, next) /\ NeverNegative(rule, outcome.entry)
<1>1. entry \in EntryUnder(rule) /\ entry \in Entry
  BY DEF NeverNegative, EntryUnder
<1>2. outcome.entry \in EntryUnder(rule)
  BY <1>1, DecideType
<1>3. CASE rule.algorithm = "sliding_window"
  <2>1. rule.window \in Positive /\ rule.limit \in Positive
    BY <1>3 DEF LimitRule, WindowRule, BucketRule
  <2>2. \A e, s : Decide(rule, e, s) = sliding_window(e, rule.window, rule.limit, s)
    BY <1>3 DEF Decide
  <2>3. NoFewer(outcome, next)
    BY <1>1, <2>1, <2>2, SlidingNoFewer
  <2> QED
    BY <1>2, <1>3, <2>3 DEF NeverNegative
<1>4. CASE rule.algorithm = "fixed_window"
  <2>1. rule.window \in Positive /\ rule.limit \in Positive
    BY <1>4 DEF LimitRule, WindowRule, BucketRule
  <2>2. \A e, s : Decide(rule, e, s) = fixed_window(e, rule.window, rule.limit, s)
    BY <1>4 DEF Decide
  <2>3. Len(entry) \in {0, 2} /\ (entry # <<>> => entry[1] >= 0)
    BY <1>4 DEF NeverNegative, EntryUnder
  <2>4. NoFewer(outcome, next) /\ (outcome.entry # <<>> => outcome.entry[1] >= 0)
    BY <1>1, <2>1, <2>2, <2>3, FixedNoFewer
  <2> QED
    BY <1>2, <1>4, <2>4 DEF NeverNegative
<1>5. CASE rule.algorithm = "token_bucket"
  <2>1. rule.capacity \in Positive /\ rule.interval \in Positive
    BY <1>5 DEF LimitRule, WindowRule, BucketRule
  <2>2. \A e, s : Decide(rule, e, s) = token_bucket(e, rule.capacity, rule.interval, s)
    BY <1>5 DEF Decide
  <2>3. Len(entry) \in {0, 2}
    BY <1>1, <1>5 DEF EntryUnder
  <2>4. NoFewer(outcome, next)
    BY <1>1, <2>1, <2>2, <2>3, TokenNoFewer
  <2> QED
    BY <1>2, <1>5, <2>4 DEF NeverNegative
<1>6. CASE rule.algorithm = "leaky_bucket"
  <2>1. rule.capacity \in Positive /\ rule.interval \in Positive
    BY <1>6 DEF LimitRule, WindowRule, BucketRule
  <2>2. \A e, s : Decide(rule, e, s) = leaky_bucket(e, rule.capacity, rule.interval, s)
    BY <1>6 DEF Decide
  <2>3. Len(entry) \in {0, 2}
    BY <1>1, <1>6 DEF EntryUnder
  <2>4. NoFewer(outcome, next)
    BY <1>1, <2>1, <2>2, <2>3, LeakyNoFewer
  <2> QED
    BY <1>2, <1>6, <2>4 DEF NeverNegative
<1>7. CASE rule.algorithm = "gcra"
  <2>1. rule.capacity \in Positive /\ rule.interval \in Positive
    BY <1>7 DEF LimitRule, WindowRule, BucketRule
  <2>2. \A e, s : Decide(rule, e, s) = gcra(e, rule.capacity, rule.interval, s)
    BY <1>7 DEF Decide
  <2>3. Len(entry) \in {0, 1}
    BY <1>1, <1>7 DEF EntryUnder
  <2>4. NoFewer(outcome, next)
    BY <1>1, <2>1, <2>2, <2>3, GcraNoFewer
  <2> QED
    BY <1>2, <1>7, <2>4 DEF NeverNegative
<1>8. rule.algorithm \in {"sliding_window", "fixed_window", "token_bucket", "leaky_bucket", "gcra"}
  BY DEF LimitRule, WindowRule, BucketRule
<1> QED
  BY <1>3, <1>4, <1>5, <1>6, <1>7, <1>8

\* The entry has m requests to give at the stamp.
HasLeft(rule, entry, stamp, m) ==
    m > 0 => Decide(rule, entry, stamp).allowed /\ Decide(rule, entry, stamp).remaining >= m - 1

\* It has them at any time from then on.
Backs(rule, entry, from, m) ==
    \A stamp \in Nat : from <= stamp => HasLeft(rule, entry, stamp, m)

\* What a decision says remains, its entry has from then on.
LEMMA DecisionBacks ==
    ASSUME NEW rule \in LimitRule, NEW entry, NeverNegative(rule, entry), NEW now \in Nat,
           NEW outcome, outcome = Decide(rule, entry, now)
    PROVE  NeverNegative(rule, outcome.entry) /\ Backs(rule, outcome.entry, now, outcome.remaining)
<1>1. NeverNegative(rule, outcome.entry)
  BY DecideNoFewer
<1>2. ASSUME NEW stamp \in Nat, now <= stamp
      PROVE  HasLeft(rule, outcome.entry, stamp, outcome.remaining)
  <2>1. NoFewer(outcome, Decide(rule, outcome.entry, stamp))
    BY <1>2, DecideNoFewer
  <2> QED
    BY <2>1 DEF NoFewer, HasLeft
<1> QED
  BY <1>1, <1>2 DEF Backs

\* Who has m requests to give has fewer, and from later on.
LEMMA BacksFewer ==
    ASSUME NEW rule \in LimitRule, NEW entry, NeverNegative(rule, entry),
           NEW from \in Nat, NEW since \in Nat, from <= since, NEW m \in Nat, NEW n \in Nat, n <= m,
           Backs(rule, entry, from, m)
    PROVE  Backs(rule, entry, since, n)
<1> SUFFICES ASSUME NEW stamp \in Nat, since <= stamp, n > 0
             PROVE  /\ Decide(rule, entry, stamp).allowed
                    /\ Decide(rule, entry, stamp).remaining >= n - 1
  BY DEF Backs, HasLeft
<1>1. from <= stamp /\ m > 0
  OBVIOUS
<1>2. Decide(rule, entry, stamp).allowed /\ Decide(rule, entry, stamp).remaining >= m - 1
  BY <1>1 DEF Backs, HasLeft
<1>3. PICK left \in Nat : left = Decide(rule, entry, stamp).remaining
  BY DecideType DEF NeverNegative, Outcome
<1> QED
  BY <1>2, <1>3

\* A request that is given leaves one less, at the same stamp.
LEMMA HasOneLess ==
    ASSUME NEW rule \in LimitRule, NEW entry, NeverNegative(rule, entry), NEW stamp \in Nat,
           NEW m \in Nat, m > 0, HasLeft(rule, entry, stamp, m),
           NEW outcome, outcome = Decide(rule, entry, stamp)
    PROVE  outcome.allowed /\ NeverNegative(rule, outcome.entry) /\ HasLeft(rule, outcome.entry, stamp, m - 1)
<1>1. outcome.allowed /\ outcome.remaining >= m - 1
  BY DEF HasLeft
<1>2. PICK next : next = Decide(rule, outcome.entry, stamp)
  OBVIOUS
<1>3. NoFewer(outcome, next) /\ NeverNegative(rule, outcome.entry)
  <2>1. stamp <= stamp
    OBVIOUS
  <2> QED
    BY <1>2, <2>1, DecideNoFewer
<1>4. outcome.remaining \in Nat /\ next.remaining \in Nat
  BY <1>2, <1>3, DecideType DEF NeverNegative, Outcome
<1>5. m - 1 > 0 => next.allowed /\ next.remaining >= (m - 1) - 1
  BY <1>1, <1>3, <1>4 DEF NoFewer
<1> QED
  BY <1>1, <1>2, <1>3, <1>5 DEF HasLeft

-----------------------------------------------------------------------------
(***************************************************************************)
(* Folds over a list: the function that a recursive definition describes   *)
(* exists, and is walked from one prefix of the list to the next.          *)
(***************************************************************************)

\* The greatest of some positions, as Max finds it.
LEMMA MaxIs ==
    ASSUME NEW S \in SUBSET Int, NEW x \in S, \A y \in S : y <= x
    PROVE  Max(S) = x
<1>1. \A y \in S : x >= y
  OBVIOUS
<1>2. Max(S) \in S /\ \A y \in S : Max(S) >= y
  BY <1>1, Zenon DEF Max
<1>3. PICK y \in S : y = Max(S) /\ y >= x
  BY <1>2
<1> QED
  BY <1>3

LEMMA MaxOfPositions ==
    ASSUME NEW n \in Nat, NEW S \in SUBSET (1 .. n), S # {}
    PROVE  Max(S) \in S
<1> DEFINE below == {n - x : x \in S}
<1>0. PICK some \in S : TRUE
  OBVIOUS
<1>1. below \in SUBSET Nat /\ n - some \in below
  OBVIOUS
<1>2. PICK least : least = Min(below)
  OBVIOUS
<1>3. least \in below /\ \A y \in below : least <= y
  <2>1. below # {}
    BY <1>1
  <2> HIDE DEF below
  <2> QED
    BY <1>1, <1>2, <2>1, MinOfNaturals
<1>4. PICK x \in S : least = n - x
  BY <1>3
<1>5. \A y \in S : y <= x
  <2> SUFFICES ASSUME NEW y \in S PROVE y <= x
    OBVIOUS
  <2>1. n - y \in below
    OBVIOUS
  <2> HIDE DEF below
  <2>2. n - x <= n - y
    BY <1>3, <1>4, <2>1
  <2>3. x \in Int /\ y \in Int
    OBVIOUS
  <2> QED
    BY <2>2, <2>3
<1>6. Max(S) = x
  BY <1>5, MaxIs
<1> QED
  BY <1>6

\* A function that does to the positions of a list, from the first to the last of a
\* set of them, what the functions F[i] tell.
InTurn(g, n, base, F) ==
    \A s \in SUBSET (1 .. n) : g[s] = IF s = {} THEN base ELSE F[Max(s)][g[s \ {Max(s)}]]

CanFold(S, n, base, F) == \E g \in [SUBSET (1 .. n) -> S] : InTurn(g, n, base, F)

LEMMA FoldLonger ==
    ASSUME NEW S, NEW base \in S, NEW n \in Nat, NEW k \in 0 .. n - 1,
           NEW F \in [1 .. n -> [S -> S]], CanFold(S, k, base, F)
    PROVE  CanFold(S, k + 1, base, F)
<1> DEFINE i == k + 1
<1>1. PICK g \in [SUBSET (1 .. k) -> S] : InTurn(g, k, base, F)
  BY DEF CanFold
<1> DEFINE longer == [s \in SUBSET (1 .. i) |-> IF i \in s THEN F[i][g[s \ {i}]] ELSE g[s]]
<1>2. i \in 1 .. n /\ F[i] \in [S -> S] /\ i \notin 1 .. k
  OBVIOUS
<1>3. \A s \in SUBSET (1 .. i) : s \ {i} \in SUBSET (1 .. k) /\ (i \notin s => s \in SUBSET (1 .. k))
  OBVIOUS
<1>4. longer \in [SUBSET (1 .. i) -> S]
  <2> SUFFICES ASSUME NEW s \in SUBSET (1 .. i)
               PROVE  (IF i \in s THEN F[i][g[s \ {i}]] ELSE g[s]) \in S
    OBVIOUS
  <2>1. CASE i \in s
    BY <1>2, <1>3, <2>1
  <2>2. CASE i \notin s
    BY <1>3, <2>2
  <2> QED
    BY <2>1, <2>2
<1> HIDE DEF longer
<1>0. \A s \in SUBSET (1 .. i) : longer[s] = IF i \in s THEN F[i][g[s \ {i}]] ELSE g[s]
  BY DEF longer
<1>5. ASSUME NEW s \in SUBSET (1 .. i)
      PROVE  longer[s] = IF s = {} THEN base ELSE F[Max(s)][longer[s \ {Max(s)}]]
  <2>1. CASE i \in s
    <3>1. Max(s) = i
      <4>1. s \in SUBSET Int /\ \A y \in s : y <= i
        OBVIOUS
      <4> QED
        BY <2>1, <4>1, MaxIs
    <3>2. longer[s \ {i}] = g[s \ {i}]
      <4>1. s \ {i} \in SUBSET (1 .. i) /\ i \notin s \ {i}
        OBVIOUS
      <4> QED
        BY <1>0, <4>1
    <3> QED
      BY <1>0, <2>1, <3>1, <3>2
  <2>2. CASE i \notin s
    <3>1. s \in SUBSET (1 .. k) /\ longer[s] = g[s]
      BY <1>0, <1>3, <2>2
    <3>2. CASE s = {}
      BY <1>1, <3>1, <3>2 DEF InTurn
    <3>3. CASE s # {}
      <4>1. PICK max \in s : max = Max(s)
        BY <3>1, <3>3, MaxOfPositions
      <4>2. g[s] = F[max][g[s \ {max}]]
        BY <1>1, <3>1, <3>3, <4>1 DEF InTurn
      <4>3. longer[s \ {max}] = g[s \ {max}]
        <5>1. s \ {max} \in SUBSET (1 .. i) /\ i \notin s \ {max}
          BY <2>2
        <5> QED
          BY <1>0, <5>1
      <4>4. longer[s] = F[max][longer[s \ {max}]]
        BY <3>1, <4>2, <4>3
      <4> QED
        BY <3>3, <4>1, <4>4, Zenon
    <3> QED
      BY <3>2, <3>3
  <2> QED
    BY <2>1, <2>2
<1>6. InTurn(longer, i, base, F)
  BY <1>5 DEF InTurn
<1> QED
  BY <1>4, <1>6 DEF CanFold

LEMMA FoldExists ==
    ASSUME NEW S, NEW base \in S, NEW n \in Nat, NEW F \in [1 .. n -> [S -> S]]
    PROVE  CanFold(S, n, base, F)
<1> DEFINE done == {k \in Nat : k <= n => CanFold(S, k, base, F)}
<1>1. 0 \in done
  <2> DEFINE g == [s \in SUBSET (1 .. 0) |-> base]
  <2>1. g \in [SUBSET (1 .. 0) -> S]
    OBVIOUS
  <2>2. \A s \in SUBSET (1 .. 0) : s = {} /\ g[s] = base
    OBVIOUS
  <2> HIDE DEF g
  <2>3. InTurn(g, 0, base, F)
    BY <2>2 DEF InTurn
  <2> QED
    BY <2>1, <2>3 DEF CanFold
<1>2. ASSUME NEW k \in done
      PROVE  k + 1 \in done
  <2>1. ASSUME k + 1 <= n
        PROVE  CanFold(S, k + 1, base, F)
    <3>1. k \in 0 .. n - 1 /\ CanFold(S, k, base, F)
      BY <2>1
    <3> QED
      BY <3>1, FoldLonger
  <2> QED
    BY <2>1
<1>3. done = Nat
  <2>1. done \in SUBSET Nat
    OBVIOUS
  <2> HIDE DEF done
  <2> QED
    BY <1>1, <1>2, <2>1, ByInduction
<1> QED
  BY <1>3

\* From one prefix of the list to the next.
LEMMA LongerPrefix ==
    ASSUME NEW n \in Nat, NEW i \in 0 .. n - 1
    PROVE  /\ 1 .. i + 1 \in SUBSET (1 .. n) /\ 1 .. i + 1 # {}
           /\ Max(1 .. i + 1) = i + 1
           /\ (1 .. i + 1) \ {Max(1 .. i + 1)} = 1 .. i
<1>1. i + 1 \in 1 .. i + 1 /\ 1 .. i + 1 \in SUBSET Int /\ \A y \in 1 .. i + 1 : y <= i + 1
  OBVIOUS
<1>2. Max(1 .. i + 1) = i + 1
  BY <1>1, MaxIs
<1>3. (1 .. i + 1) \ {i + 1} = 1 .. i
  OBVIOUS
<1> QED
  BY <1>1, <1>2, <1>3

-----------------------------------------------------------------------------
(***************************************************************************)
(* A list of rules tried at one instant.                                   *)
(***************************************************************************)

AlgorithmIds == {"sliding_window", "fixed_window", "token_bucket", "leaky_bucket", "gcra"}

\* The entries of an algorithm, whatever rule they were written under.
EntryOf(algorithm) == EntryUnder([algorithm |-> algorithm])

\* A storage's dictionaries, and how far an attempt of a list has come on them.
Dictionaries(Keys) ==
    {d \in [AlgorithmIds -> [Keys -> Entry]] : \A a \in AlgorithmIds, k \in Keys : d[a][k] \in EntryOf(a)}

Attempts(Keys) == [allowed : BOOLEAN, db : Dictionaries(Keys)]

\* One more rule of the list.
Tried(rule, acc, key, stamp) ==
    IF ~acc.allowed THEN acc
    ELSE LET outcome == Decide(rule, acc.db[rule.algorithm][key], stamp)
         IN  [allowed |-> outcome.allowed,
              db |-> [acc.db EXCEPT ![rule.algorithm][key] = outcome.entry]]

\* Two dictionaries that differ at a key only.
SameElsewhere(Keys, key, e, d) == \A a \in AlgorithmIds, k \in Keys \ {key} : e[a][k] = d[a][k]

LEMMA TriedOne ==
    ASSUME NEW Keys, NEW rule \in LimitRule, NEW acc \in Attempts(Keys), NEW key \in Keys,
           NEW stamp \in Nat, NEW next, next = Tried(rule, acc, key, stamp)
    PROVE  /\ next \in Attempts(Keys)
           /\ acc.allowed =>
                LET outcome == Decide(rule, acc.db[rule.algorithm][key], stamp)
                IN  /\ next.allowed = outcome.allowed
                    /\ next.db[rule.algorithm][key] = outcome.entry
                    /\ SameElsewhere(Keys, key, next.db, acc.db)
<1>1. CASE ~acc.allowed
  BY <1>1 DEF Tried
<1>2. CASE acc.allowed
  <2>1. PICK d : d = acc.db /\ d \in Dictionaries(Keys)
    BY DEF Attempts
  <2>2. PICK alg : alg = rule.algorithm /\ alg \in AlgorithmIds
    BY DEF LimitRule, WindowRule, BucketRule, AlgorithmIds
  <2>3. d[alg][key] \in EntryUnder(rule)
    <3>1. d[alg][key] \in EntryOf(alg)
      BY <2>1, <2>2 DEF Dictionaries
    <3>2. EntryUnder(rule) = EntryOf(alg)
      BY <2>2, Zenon DEF EntryUnder, EntryOf
    <3> QED
      BY <3>1, <3>2
  <2>4. PICK outcome : outcome = Decide(rule, d[alg][key], stamp)
    OBVIOUS
  <2>5. outcome \in Outcome /\ outcome.entry \in EntryUnder(rule)
    BY <2>3, <2>4, DecideType
  <2>6. PICK entry : entry = outcome.entry /\ entry \in Entry /\ entry \in EntryOf(alg)
    <3>1. outcome.entry \in Entry
      BY <2>5 DEF Outcome
    <3>2. outcome.entry \in EntryOf(alg)
      BY <2>2, <2>5, Zenon DEF EntryUnder, EntryOf
    <3> QED
      BY <3>1, <3>2
  <2>7. PICK changed : changed = [d EXCEPT ![alg][key] = entry]
    OBVIOUS
  <2>8. next = [allowed |-> outcome.allowed, db |-> changed]
    BY <1>2, <2>1, <2>2, <2>4, <2>6, <2>7 DEF Tried
  <2>9. d \in [AlgorithmIds -> [Keys -> Entry]]
    BY <2>1 DEF Dictionaries
  <2>10. /\ changed \in [AlgorithmIds -> [Keys -> Entry]]
         /\ changed[alg][key] = entry
         /\ \A a \in AlgorithmIds, k \in Keys : a # alg \/ k # key => changed[a][k] = d[a][k]
    BY <2>2, <2>6, <2>7, <2>9
  <2>11. changed \in Dictionaries(Keys)
    <3>1. ASSUME NEW a \in AlgorithmIds, NEW k \in Keys
          PROVE  changed[a][k] \in EntryOf(a)
      <4>1. CASE a = alg /\ k = key
        BY <2>6, <2>10, <4>1
      <4>2. CASE a # alg \/ k # key
        BY <2>1, <2>10, <4>2 DEF Dictionaries
      <4> QED
        BY <4>1, <4>2
    <3> QED
      BY <2>10, <3>1 DEF Dictionaries
  <2>12. next \in Attempts(Keys)
    BY <2>5, <2>8, <2>11 DEF Attempts, Outcome
  <2>13. SameElsewhere(Keys, key, next.db, d)
    BY <2>8, <2>10 DEF SameElsewhere
  <2> QED
    BY <2>1, <2>2, <2>4, <2>6, <2>8, <2>10, <2>12, <2>13
<1> QED
  BY <1>1, <1>2

\* A name that is tried after an admission of those before it.
LEMMA TriedDecides ==
    ASSUME NEW Keys, NEW rule \in LimitRule, NEW acc \in Attempts(Keys), acc.allowed, NEW key \in Keys,
           NEW stamp \in Nat, NEW next, next = Tried(rule, acc, key, stamp),
           NEW outcome, outcome = Decide(rule, acc.db[rule.algorithm][key], stamp)
    PROVE  /\ next.allowed = outcome.allowed /\ next.db[rule.algorithm][key] = outcome.entry
           /\ SameElsewhere(Keys, key, next.db, acc.db)
  BY TriedOne

\* What a list makes of the dictionaries, name by name.
TriesInTurn(w, n, names, table, d, stamp) ==
    /\ w[0] = [allowed |-> TRUE, db |-> d]
    /\ \A i \in 0 .. n - 1 : w[i + 1] = Tried(table[i + 1], w[i], names[i + 1], stamp)

LEMMA TriesType ==
    ASSUME NEW Keys, NEW n \in Nat, NEW names \in [1 .. n -> Keys], NEW table \in [1 .. n -> LimitRule],
           NEW d \in Dictionaries(Keys), NEW stamp \in Nat,
           NEW w, TriesInTurn(w, n, names, table, d, stamp)
    PROVE  \A i \in 0 .. n : w[i] \in Attempts(Keys)
<1> DEFINE typed == {i \in Nat : i <= n => w[i] \in Attempts(Keys)}
<1>1. 0 \in typed
  <2>1. w[0] = [allowed |-> TRUE, db |-> d]
    BY DEF TriesInTurn
  <2>2. [allowed |-> TRUE, db |-> d] \in Attempts(Keys)
    BY DEF Attempts
  <2> QED
    BY <2>1, <2>2
<1>2. ASSUME NEW i \in typed
      PROVE  i + 1 \in typed
  <2>1. ASSUME i + 1 <= n
        PROVE  w[i + 1] \in Attempts(Keys)
    <3>1. i \in 0 .. n - 1 /\ i + 1 \in 1 .. n /\ w[i] \in Attempts(Keys)
      BY <2>1
    <3>2. w[i + 1] = Tried(table[i + 1], w[i], names[i + 1], stamp)
      BY <3>1 DEF TriesInTurn
    <3>3. PICK rule \in LimitRule, key \in Keys : rule = table[i + 1] /\ key = names[i + 1]
      BY <3>1
    <3>4. PICK acc \in Attempts(Keys) : acc = w[i]
      BY <3>1
    <3>5. Tried(rule, acc, key, stamp) \in Attempts(Keys)
      BY TriedOne
    <3> QED
      BY <3>2, <3>3, <3>4, <3>5
  <2> QED
    BY <2>1
<1>3. typed = Nat
  <2>1. typed \in SUBSET Nat
    OBVIOUS
  <2> HIDE DEF typed
  <2> QED
    BY <1>1, <1>2, <2>1, ByInduction
<1> QED
  BY <1>3

\* Every rule of the list has m requests to give at the stamp.
AllHaveLeft(n, names, table, d, stamp, m) ==
    \A i \in 1 .. n :
        /\ NeverNegative(table[i], d[table[i].algorithm][names[i]])
        /\ HasLeft(table[i], d[table[i].algorithm][names[i]], stamp, m)

\* If every rule of a list without repetition has something to give, the list is
\* admitted, and every rule has one less.
LEMMA TriesSucceed ==
    ASSUME NEW Keys, NEW n \in Nat, NEW names \in [1 .. n -> Keys], NEW table \in [1 .. n -> LimitRule],
           \A i, j \in 1 .. n : names[i] = names[j] => i = j,
           NEW d \in Dictionaries(Keys), NEW stamp \in Nat,
           NEW m \in Nat, m > 0, AllHaveLeft(n, names, table, d, stamp, m),
           NEW w, TriesInTurn(w, n, names, table, d, stamp)
    PROVE  w[n].allowed /\ AllHaveLeft(n, names, table, w[n].db, stamp, m - 1)
<1> DEFINE Kept(i, e, k) == /\ NeverNegative(table[i], e[table[i].algorithm][names[i]])
                            /\ HasLeft(table[i], e[table[i].algorithm][names[i]], stamp, k)
           far == {k \in Nat : k <= n => /\ w[k].allowed
                                         /\ \A i \in 1 .. k : Kept(i, w[k].db, m - 1)
                                         /\ \A i \in k + 1 .. n : Kept(i, w[k].db, m)}
<1>1. 0 \in far
  <2>1. w[0].allowed /\ w[0].db = d
    BY DEF TriesInTurn
  <2>2. \A i \in 1 .. n : Kept(i, d, m)
    BY DEF AllHaveLeft
  <2> HIDE DEF Kept
  <2> QED
    BY <2>1, <2>2
<1>2. ASSUME NEW k \in far
      PROVE  k + 1 \in far
  <2> HIDE DEF Kept
  <2> SUFFICES ASSUME k + 1 <= n
               PROVE  /\ w[k + 1].allowed
                      /\ \A i \in 1 .. k + 1 : Kept(i, w[k + 1].db, m - 1)
                      /\ \A i \in (k + 1) + 1 .. n : Kept(i, w[k + 1].db, m)
    OBVIOUS
  <2>1. /\ w[k].allowed
        /\ \A i \in 1 .. k : Kept(i, w[k].db, m - 1)
        /\ \A i \in k + 1 .. n : Kept(i, w[k].db, m)
    OBVIOUS
  <2>0. k \in Nat
    OBVIOUS
  <2> HIDE DEF far
  <2>2. k \in 0 .. n - 1 /\ k \in 0 .. n /\ k + 1 \in 1 .. n /\ k + 1 \in k + 1 .. n
    BY <2>0
  <2>3. w[k] \in Attempts(Keys)
    <3>1. \A i \in 0 .. n : w[i] \in Attempts(Keys)
      BY TriesType
    <3> QED
      BY <2>2, <3>1
  <2>4. PICK rule \in LimitRule, key \in Keys : rule = table[k + 1] /\ key = names[k + 1]
    BY <2>2
  <2>5. w[k + 1] = Tried(rule, w[k], key, stamp)
    BY <2>2, <2>4 DEF TriesInTurn
  <2>6. PICK entry : entry = w[k].db[rule.algorithm][key]
    OBVIOUS
  <2>7. PICK outcome : outcome = Decide(rule, entry, stamp)
    OBVIOUS
  <2>8. /\ w[k + 1].allowed = outcome.allowed
        /\ w[k + 1].db[rule.algorithm][key] = outcome.entry
        /\ \A a \in AlgorithmIds, j \in Keys \ {key} : w[k + 1].db[a][j] = w[k].db[a][j]
    <3>1. PICK acc \in Attempts(Keys) : acc = w[k] /\ acc.allowed
      BY <2>1, <2>3
    <3>2. PICK next : next = w[k + 1] /\ next = Tried(rule, acc, key, stamp)
      BY <2>5, <3>1
    <3>3. outcome = Decide(rule, acc.db[rule.algorithm][key], stamp)
      BY <2>6, <2>7, <3>1
    <3>4. /\ next.allowed = outcome.allowed
          /\ next.db[rule.algorithm][key] = outcome.entry
          /\ SameElsewhere(Keys, key, next.db, acc.db)
      BY <3>1, <3>2, <3>3, TriedDecides
    <3> QED
      BY <3>1, <3>2, <3>4 DEF SameElsewhere
  <2>9. NeverNegative(rule, entry) /\ HasLeft(rule, entry, stamp, m)
    BY <2>1, <2>2, <2>4, <2>6 DEF Kept
  <2>10. outcome.allowed /\ NeverNegative(rule, outcome.entry) /\ HasLeft(rule, outcome.entry, stamp, m - 1)
    BY <2>4, <2>7, <2>9, HasOneLess
  <2>11. Kept(k + 1, w[k + 1].db, m - 1)
    BY <2>4, <2>8, <2>10 DEF Kept
  <2>12. ASSUME NEW i \in 1 .. n, i # k + 1, NEW c, Kept(i, w[k].db, c)
         PROVE  Kept(i, w[k + 1].db, c)
    <3>1. names[i] \in Keys \ {key} /\ table[i] \in LimitRule
      BY <2>2, <2>4, <2>12
    <3>2. table[i].algorithm \in AlgorithmIds
      BY <3>1 DEF LimitRule, WindowRule, BucketRule, AlgorithmIds
    <3>3. w[k + 1].db[table[i].algorithm][names[i]] = w[k].db[table[i].algorithm][names[i]]
      BY <2>8, <3>1, <3>2
    <3> QED
      BY <2>12, <3>3 DEF Kept
  <2>13. ASSUME NEW i \in 1 .. k + 1
         PROVE  Kept(i, w[k + 1].db, m - 1)
    <3>1. CASE i = k + 1
      BY <2>11, <3>1
    <3>2. CASE i # k + 1
      <4>1. i \in 1 .. k /\ i \in 1 .. n
        BY <2>2, <3>2
      <4> QED
        BY <2>1, <2>12, <3>2, <4>1
    <3> QED
      BY <3>1, <3>2
  <2>14. ASSUME NEW i \in (k + 1) + 1 .. n
         PROVE  Kept(i, w[k + 1].db, m)
    <3>1. i \in k + 1 .. n /\ i \in 1 .. n /\ i # k + 1
      BY <2>2
    <3> QED
      BY <2>1, <2>12, <3>1
  <2> QED
    BY <2>8, <2>10, <2>13, <2>14
<1>3. far = Nat
  <2>1. far \in SUBSET Nat
    OBVIOUS
  <2> HIDE DEF far, Kept
  <2> QED
    BY <1>1, <1>2, <2>1, ByInduction
<1>4. w[n].allowed /\ \A i \in 1 .. n : Kept(i, w[n].db, m - 1)
  BY <1>3
<1> QED
  BY <1>4 DEF AllHaveLeft

\* Result is what an attempt of the list ends with.
Tries(n, names, table, d, stamp, result) ==
    \E w : TriesInTurn(w, n, names, table, d, stamp) /\ result = w[n]

\* Repeated attempts of a list whose rules have m requests to give.
LEMMA TriesRepeated ==
    ASSUME NEW Keys, NEW n \in Nat, NEW names \in [1 .. n -> Keys], NEW table \in [1 .. n -> LimitRule],
           \A i, j \in 1 .. n : names[i] = names[j] => i = j,
           NEW d \in Dictionaries(Keys), NEW stamp \in Nat,
           NEW m \in Nat, AllHaveLeft(n, names, table, d, stamp, m),
           NEW again,
           Tries(n, names, table, d, stamp, again[0]),
           \A k \in Nat : again[k].db \in Dictionaries(Keys) =>
               Tries(n, names, table, again[k].db, stamp, again[k + 1])
    PROVE  \A k \in 0 .. m - 1 : again[k].allowed
<1> DEFINE Good(k) == /\ again[k].allowed /\ again[k].db \in Dictionaries(Keys)
                      /\ AllHaveLeft(n, names, table, again[k].db, stamp, m - (k + 1))
           good == {k \in Nat : k < m => Good(k)}
<1>1. ASSUME NEW e \in Dictionaries(Keys), NEW c \in Nat, c > 0, AllHaveLeft(n, names, table, e, stamp, c),
             NEW result, Tries(n, names, table, e, stamp, result)
      PROVE  /\ result.allowed /\ result.db \in Dictionaries(Keys)
             /\ AllHaveLeft(n, names, table, result.db, stamp, c - 1)
  <2>1. PICK w : TriesInTurn(w, n, names, table, e, stamp) /\ result = w[n]
    BY <1>1 DEF Tries
  <2>2. w[n].allowed /\ AllHaveLeft(n, names, table, w[n].db, stamp, c - 1)
    BY <1>1, <2>1, TriesSucceed
  <2>3. w[n] \in Attempts(Keys)
    <3>1. \A i \in 0 .. n : w[i] \in Attempts(Keys)
      BY <2>1, TriesType
    <3> QED
      BY <3>1
  <2> QED
    BY <2>1, <2>2, <2>3 DEF Attempts
<1>2. 0 \in good
  <2>1. ASSUME 0 < m
        PROVE  Good(0)
    <3>1. /\ again[0].allowed /\ again[0].db \in Dictionaries(Keys)
          /\ AllHaveLeft(n, names, table, again[0].db, stamp, m - 1)
      BY <1>1, <2>1
    <3>2. m - (0 + 1) = m - 1
      OBVIOUS
    <3> QED
      BY <3>1, <3>2
  <2> HIDE DEF Good
  <2> QED
    BY <2>1
<1>3. ASSUME NEW k \in good
      PROVE  k + 1 \in good
  <2>1. ASSUME k + 1 < m
        PROVE  Good(k + 1)
    <3>1. k \in Nat /\ k < m
      BY <2>1
    <3>2. Good(k)
      BY <3>1
    <3>3. PICK c \in Nat : c = m - (k + 1) /\ c > 0
      BY <2>1, <3>1
    <3>4. PICK result : result = again[k + 1]
      OBVIOUS
    <3>5. Tries(n, names, table, again[k].db, stamp, result)
      BY <3>1, <3>2, <3>4
    <3>6. PICK e \in Dictionaries(Keys) : e = again[k].db
      BY <3>2
    <3>7. AllHaveLeft(n, names, table, e, stamp, c) /\ Tries(n, names, table, e, stamp, result)
      BY <3>2, <3>3, <3>5, <3>6
    <3>8. /\ result.allowed /\ result.db \in Dictionaries(Keys)
          /\ AllHaveLeft(n, names, table, result.db, stamp, c - 1)
      BY <1>1, <3>3, <3>7
    <3>9. c - 1 = m - ((k + 1) + 1)
      BY <3>1, <3>3
    <3> QED
      BY <3>4, <3>8, <3>9
  <2> HIDE DEF Good
  <2> QED
    BY <2>1
<1>4. good = Nat
  <2>1. good \in SUBSET Nat
    OBVIOUS
  <2> HIDE DEF good
  <2> QED
    BY <1>2, <1>3, <2>1, ByInduction
<1>5. \A k \in Nat : k < m => again[k].allowed
  BY <1>4
<1> QED
  BY <1>5

\* A fold over the positions of a list.
Folds(g, r, names, d, stamp) ==
    g = [s \in SUBSET (DOMAIN names) |->
            IF s = {} THEN [allowed |-> TRUE, db |-> d]
            ELSE Tried(r[names[Max(s)]], g[s \ {Max(s)}], names[Max(s)], stamp)]

LEMMA FoldTries ==
    ASSUME NEW Keys, NEW n \in Nat, NEW names \in [1 .. n -> Keys], NEW r,
           \A i \in 1 .. n : r[names[i]] \in LimitRule,
           NEW d \in Dictionaries(Keys), NEW stamp \in Nat
    PROVE  /\ Tries(n, names, [i \in 1 .. n |-> r[names[i]]], d, stamp,
                    (CHOOSE g : Folds(g, r, names, d, stamp))[DOMAIN names])
<1> DEFINE F == [i \in 1 .. n |-> [acc \in Attempts(Keys) |-> Tried(r[names[i]], acc, names[i], stamp)]]
           base == [allowed |-> TRUE, db |-> d]
<1>1. ASSUME NEW i \in 1 .. n, NEW acc \in Attempts(Keys)
      PROVE  Tried(r[names[i]], acc, names[i], stamp) \in Attempts(Keys)
  <2>1. PICK rule \in LimitRule, key \in Keys : rule = r[names[i]] /\ key = names[i]
    OBVIOUS
  <2>2. Tried(rule, acc, key, stamp) \in Attempts(Keys)
    BY TriedOne
  <2> QED
    BY <2>1, <2>2
<1>2. F \in [1 .. n -> [Attempts(Keys) -> Attempts(Keys)]]
  BY <1>1
<1>3. base \in Attempts(Keys)
  BY DEF Attempts
<1>4. \A i \in 1 .. n, acc \in Attempts(Keys) : F[i][acc] = Tried(r[names[i]], acc, names[i], stamp)
  OBVIOUS
<1> HIDE DEF F
<1>5. PICK g \in [SUBSET (1 .. n) -> Attempts(Keys)] : InTurn(g, n, base, F)
  <2>1. CanFold(Attempts(Keys), n, base, F)
    BY <1>2, <1>3, FoldExists
  <2> QED
    BY <2>1 DEF CanFold
<1>6. ASSUME NEW s \in SUBSET (1 .. n)
      PROVE  g[s] = IF s = {} THEN base ELSE Tried(r[names[Max(s)]], g[s \ {Max(s)}], names[Max(s)], stamp)
  <2>1. CASE s = {}
    BY <1>5, <2>1 DEF InTurn
  <2>2. CASE s # {}
    <3>1. PICK max \in 1 .. n : max = Max(s)
      BY <2>2, MaxOfPositions
    <3>2. PICK acc \in Attempts(Keys) : acc = g[s \ {max}]
      <4>1. s \ {max} \in SUBSET (1 .. n)
        OBVIOUS
      <4> QED
        BY <1>5, <4>1
    <3>3. g[s] = F[max][acc]
      BY <1>5, <2>2, <3>1, <3>2 DEF InTurn
    <3>4. g[s] = Tried(r[names[max]], g[s \ {max}], names[max], stamp)
      BY <1>4, <3>2, <3>3
    <3> QED
      BY <2>2, <3>1, <3>4, Zenon
  <2> QED
    BY <2>1, <2>2
<1>7. Folds(g, r, names, d, stamp)
  <2>1. DOMAIN names = 1 .. n /\ g = [s \in SUBSET (1 .. n) |-> g[s]]
    BY <1>5
  <2> QED
    BY <1>6, <2>1, Zenon DEF Folds
<1>8. PICK h : h = (CHOOSE f : Folds(f, r, names, d, stamp)) /\ Folds(h, r, names, d, stamp)
  BY <1>7, Zenon
<1>9. \A s \in SUBSET (1 .. n) :
          h[s] = IF s = {} THEN base ELSE Tried(r[names[Max(s)]], h[s \ {Max(s)}], names[Max(s)], stamp)
  <2>1. DOMAIN names = 1 .. n
    OBVIOUS
  <2> QED
    BY <1>8, <2>1, Zenon DEF Folds
<1> DEFINE table == [i \in 1 .. n |-> r[names[i]]]
           w == [i \in 0 .. n |-> h[1 .. i]]
<1>10. w[0] = base
  <2>1. 1 .. 0 = {} /\ {} \in SUBSET (1 .. n)
    OBVIOUS
  <2>2. w[0] = h[{}]
    BY <2>1
  <2> QED
    BY <1>9, <2>1, <2>2
<1>11. ASSUME NEW i \in 0 .. n - 1
       PROVE  w[i + 1] = Tried(table[i + 1], w[i], names[i + 1], stamp)
  <2>1. i + 1 \in 1 .. n /\ i + 1 \in 0 .. n /\ i \in 0 .. n
    OBVIOUS
  <2>2. /\ 1 .. i + 1 \in SUBSET (1 .. n) /\ 1 .. i + 1 # {}
        /\ Max(1 .. i + 1) = i + 1
        /\ (1 .. i + 1) \ {Max(1 .. i + 1)} = 1 .. i
    BY LongerPrefix
  <2>3. PICK s \in SUBSET (1 .. n) : s = 1 .. i + 1 /\ s # {} /\ Max(s) = i + 1 /\ s \ {Max(s)} = 1 .. i
    BY <2>2
  <2>4. h[s] = Tried(r[names[Max(s)]], h[s \ {Max(s)}], names[Max(s)], stamp)
    BY <1>9, <2>3
  <2>5. h[s] = Tried(r[names[i + 1]], h[1 .. i], names[i + 1], stamp)
    BY <2>3, <2>4
  <2>6. w[i + 1] = h[s] /\ w[i] = h[1 .. i] /\ table[i + 1] = r[names[i + 1]]
    BY <2>1, <2>3
  <2> QED
    BY <2>5, <2>6
<1>12. w[n] = h[DOMAIN names]
  <2>1. DOMAIN names = 1 .. n /\ n \in 0 .. n
    OBVIOUS
  <2> QED
    BY <2>1
<1> HIDE DEF w, table
<1>13. TriesInTurn(w, n, names, table, d, stamp)
  BY <1>10, <1>11 DEF TriesInTurn
<1>14. Tries(n, names, table, d, stamp, h[DOMAIN names])
  BY <1>12, <1>13 DEF Tries
<1> QED
  BY <1>8, <1>14 DEF table

\* Attempts one after the other, each on what the one before has left.
InRow(g, d, A) == \A k \in Nat : g[k] = A[IF k = 0 THEN d ELSE g[k - 1].db]

CanRepeat(Keys, d, A) == \E g \in [Nat -> Attempts(Keys)] : InRow(g, d, A)

LEMMA RepetitionExists ==
    ASSUME NEW Keys, NEW d \in Dictionaries(Keys), NEW A \in [Dictionaries(Keys) -> Attempts(Keys)]
    PROVE  CanRepeat(Keys, d, A)
<1> DEFINE step == [e \in Dictionaries(Keys) |-> A[e].db]
<1>1. step \in [Dictionaries(Keys) -> Dictionaries(Keys)]
  BY DEF Attempts
<1>2. \A e \in Dictionaries(Keys) : step[e] = A[e].db
  OBVIOUS
<1> HIDE DEF step
<1>3. PICK h \in [Nat -> Dictionaries(Keys)] : h[0] = d /\ \A k \in Nat : h[k + 1] = step[h[k]]
  <2>1. CanIterate(Dictionaries(Keys), d, step)
    BY <1>1, IterationExists
  <2> QED
    BY <2>1 DEF CanIterate
<1> DEFINE g == [k \in Nat |-> A[h[k]]]
<1>4. g \in [Nat -> Attempts(Keys)]
  BY <1>3
<1>5. ASSUME NEW k \in Nat
      PROVE  g[k] = A[IF k = 0 THEN d ELSE g[k - 1].db]
  <2>1. CASE k = 0
    BY <1>3, <2>1
  <2>2. CASE k # 0
    <3>1. k - 1 \in Nat /\ (k - 1) + 1 = k
      BY <2>2
    <3>2. h[k] = step[h[k - 1]] /\ h[k - 1] \in Dictionaries(Keys)
      BY <1>3, <3>1
    <3>3. h[k] = g[k - 1].db
      BY <1>2, <3>1, <3>2
    <3> QED
      BY <2>2, <3>3
  <2> QED
    BY <2>1, <2>2
<1> HIDE DEF g
<1>6. InRow(g, d, A)
  BY <1>5 DEF InRow
<1> QED
  BY <1>4, <1>6 DEF CanRepeat

\* Dictionaries in which no count of a fixed window is negative.
Countings(Keys) ==
    {d \in Dictionaries(Keys) :
        \A k \in Keys : d["fixed_window"][k] # <<>> => d["fixed_window"][k][1] >= 0}

LEMMA CellOfCounting ==
    ASSUME NEW Keys, NEW d \in Countings(Keys), NEW r \in LimitRule, NEW k \in Keys
    PROVE  r.algorithm \in AlgorithmIds /\ NeverNegative(r, d[r.algorithm][k])
<1>1. r.algorithm \in AlgorithmIds
  BY DEF LimitRule, WindowRule, BucketRule, AlgorithmIds
<1>2. d[r.algorithm][k] \in EntryOf(r.algorithm)
  BY <1>1 DEF Countings, Dictionaries
<1>3. d[r.algorithm][k] \in EntryUnder(r)
  BY <1>2, Zenon DEF EntryUnder, EntryOf
<1> QED
  BY <1>1, <1>3 DEF NeverNegative, Countings

Put(d, algorithm, key, entry) == [d EXCEPT ![algorithm][key] = entry]

LEMMA CountingStored ==
    ASSUME NEW Keys, NEW d \in Countings(Keys), NEW r \in LimitRule, NEW k \in Keys,
           NEW entry, NeverNegative(r, entry), NEW e, e = Put(d, r.algorithm, k, entry)
    PROVE  /\ e \in Countings(Keys)
           /\ e[r.algorithm][k] = entry
           /\ \A a \in AlgorithmIds, j \in Keys \ {k} : e[a][j] = d[a][j]
<1>1. PICK alg \in AlgorithmIds : alg = r.algorithm
  BY CellOfCounting
<1>2. entry \in Entry /\ entry \in EntryOf(alg)
  <2>1. entry \in EntryUnder(r)
    BY DEF NeverNegative
  <2>2. entry \in EntryOf(alg)
    BY <1>1, <2>1, Zenon DEF EntryUnder, EntryOf
  <2> QED
    BY <2>1, <2>2 DEF EntryUnder
<1>3. d \in [AlgorithmIds -> [Keys -> Entry]] /\ \A a \in AlgorithmIds, j \in Keys : d[a][j] \in EntryOf(a)
  BY DEF Countings, Dictionaries
<1>5. /\ e \in [AlgorithmIds -> [Keys -> Entry]]
      /\ e[alg][k] = entry
      /\ \A a \in AlgorithmIds, j \in Keys : a # alg \/ j # k => e[a][j] = d[a][j]
  BY <1>1, <1>2, <1>3 DEF Put
<1>6. e \in Dictionaries(Keys)
  <2>1. ASSUME NEW a \in AlgorithmIds, NEW j \in Keys
        PROVE  e[a][j] \in EntryOf(a)
    <3>1. CASE a = alg /\ j = k
      BY <1>2, <1>5, <3>1
    <3>2. CASE a # alg \/ j # k
      BY <1>3, <1>5, <3>2
    <3> QED
      BY <3>1, <3>2
  <2> QED
    BY <1>5, <2>1 DEF Dictionaries
<1>7. ASSUME NEW j \in Keys, e["fixed_window"][j] # <<>>
      PROVE  e["fixed_window"][j][1] >= 0
  <2>1. "fixed_window" \in AlgorithmIds
    BY DEF AlgorithmIds
  <2>2. CASE "fixed_window" = alg /\ j = k
    BY <1>1, <1>5, <1>7, <2>2 DEF NeverNegative
  <2>3. CASE "fixed_window" # alg \/ j # k
    <3>1. e["fixed_window"][j] = d["fixed_window"][j]
      BY <1>5, <2>1, <2>3
    <3> QED
      BY <1>7, <3>1 DEF Countings
  <2> QED
    BY <2>2, <2>3
<1>8. e \in Countings(Keys)
  BY <1>6, <1>7 DEF Countings
<1> QED
  BY <1>1, <1>5, <1>8

\* The rules of the first n names of a list, which their results found having so many
\* requests to give, still have them.
Owing(r, d, stamp, names, found, n) ==
    /\ Len(found) = n /\ n <= Len(names)
    /\ \A i \in 1 .. n :
           /\ r[names[i]] \in LimitRule
           /\ Backs(r[names[i]], d[r[names[i]].algorithm][names[i]], stamp, found[i].remaining)

LEMMA OwingLater ==
    ASSUME NEW Keys, NEW r, NEW d \in Countings(Keys), NEW stamp \in Nat, NEW later \in Nat, stamp <= later,
           NEW names \in Seq(Keys), NEW found, NEW n \in Nat, Owing(r, d, stamp, names, found, n),
           \A i \in 1 .. n : found[i].remaining \in Nat
    PROVE  Owing(r, d, later, names, found, n)
<1>1. ASSUME NEW i \in 1 .. n
      PROVE  Backs(r[names[i]], d[r[names[i]].algorithm][names[i]], later, found[i].remaining)
  <2>1. i \in 1 .. Len(names)
    BY DEF Owing
  <2>2. PICK under \in LimitRule, key \in Keys, m \in Nat :
            under = r[names[i]] /\ key = names[i] /\ m = found[i].remaining
    BY <2>1 DEF Owing
  <2>3. PICK entry : entry = d[under.algorithm][key] /\ NeverNegative(under, entry)
    BY CellOfCounting
  <2>4. Backs(under, entry, stamp, m)
    BY <2>2, <2>3 DEF Owing
  <2>5. Backs(under, entry, later, m)
    <3>1. m <= m
      OBVIOUS
    <3> QED
      BY <2>3, <2>4, <3>1, BacksFewer
  <2> QED
    BY <2>2, <2>3, <2>5
<1> QED
  BY <1>1 DEF Owing

LEMMA DecisionBacksLater ==
    ASSUME NEW rule \in LimitRule, NEW entry, NeverNegative(rule, entry),
           NEW now \in Nat, NEW stamp \in Nat, now <= stamp, NEW outcome, outcome = Decide(rule, entry, now)
    PROVE  /\ outcome.remaining \in Nat /\ NeverNegative(rule, outcome.entry)
           /\ Backs(rule, outcome.entry, stamp, outcome.remaining)
<1>1. NeverNegative(rule, outcome.entry) /\ Backs(rule, outcome.entry, now, outcome.remaining)
  BY DecisionBacks
<1>2. outcome.remaining \in Nat
  BY DecideType DEF NeverNegative, Outcome
<1>3. PICK last : last = outcome.entry
  OBVIOUS
<1>4. PICK m \in Nat : m = outcome.remaining
  BY <1>2
<1>5. m <= m
  OBVIOUS
<1>6. Backs(rule, last, stamp, m)
  BY <1>1, <1>3, <1>4, <1>5, BacksFewer
<1> QED
  BY <1>1, <1>2, <1>3, <1>4, <1>6

\* The next name of the list is admitted, and what the others have is left alone.
OwesOneMore(Keys, r, d, e, stamp, names, key, found, more, n, next) ==
    /\ d \in Countings(Keys) /\ names \in Seq(Keys) /\ n \in Nat
    /\ Owing(r, d, stamp, names, found, n) /\ n < Len(names) /\ next = n + 1
    /\ key = names[next] /\ r[key] \in LimitRule /\ \A i \in 1 .. n : names[i] # key
    /\ SameElsewhere(Keys, key, e, d)
    /\ Len(more) = next /\ \A i \in 1 .. n : more[i] = found[i]
    /\ Backs(r[key], e[r[key].algorithm][key], stamp, more[next].remaining)

LEMMA OwingOneMore ==
    ASSUME NEW Keys, NEW r, NEW d, NEW e, NEW stamp, NEW names, NEW key, NEW found, NEW more,
           NEW n, NEW next, OwesOneMore(Keys, r, d, e, stamp, names, key, found, more, n, next)
    PROVE  Owing(r, e, stamp, names, more, next)
<1> USE DEF OwesOneMore
<1>1. ASSUME NEW i \in 1 .. n
      PROVE  /\ r[names[i]] \in LimitRule
             /\ Backs(r[names[i]], e[r[names[i]].algorithm][names[i]], stamp, more[i].remaining)
  <2>1. names[i] \in Keys \ {key}
    OBVIOUS
  <2>2. /\ r[names[i]] \in LimitRule
        /\ Backs(r[names[i]], d[r[names[i]].algorithm][names[i]], stamp, found[i].remaining)
    BY DEF Owing
  <2>3. r[names[i]].algorithm \in AlgorithmIds
    BY <2>1, <2>2, CellOfCounting
  <2>4. e[r[names[i]].algorithm][names[i]] = d[r[names[i]].algorithm][names[i]]
    BY <2>1, <2>3 DEF SameElsewhere
  <2> QED
    BY <2>2, <2>4
<1>2. ASSUME NEW i \in 1 .. next
      PROVE  /\ r[names[i]] \in LimitRule
             /\ Backs(r[names[i]], e[r[names[i]].algorithm][names[i]], stamp, more[i].remaining)
  <2>1. CASE i = next
    BY <2>1
  <2>2. CASE i # next
    <3>1. i \in 1 .. n
      BY <2>2
    <3> QED
      BY <1>1, <3>1
  <2> QED
    BY <2>1, <2>2
<1>3. next <= Len(names)
  OBVIOUS
<1> QED
  BY <1>2, <1>3 DEF Owing

\* A list that is through: every rule has as many requests to give as the fewest that
\* one of them has.
LEMMA OwingThrough ==
    ASSUME NEW Keys, NEW r, NEW d \in Countings(Keys), NEW stamp \in Nat,
           NEW names \in Seq(Keys), NEW found, NEW n \in Nat, n = Len(names),
           Owing(r, d, stamp, names, found, n), NEW m \in Nat,
           \A i \in 1 .. n : found[i].remaining \in Nat /\ m <= found[i].remaining
    PROVE  /\ \A i \in 1 .. n : r[names[i]] \in LimitRule
           /\ AllHaveLeft(n, names, [i \in 1 .. n |-> r[names[i]]], d, stamp, m)
<1>1. ASSUME NEW i \in 1 .. n
      PROVE  /\ NeverNegative(r[names[i]], d[r[names[i]].algorithm][names[i]])
             /\ HasLeft(r[names[i]], d[r[names[i]].algorithm][names[i]], stamp, m)
  <2>1. PICK under \in LimitRule, key \in Keys, c \in Nat :
            under = r[names[i]] /\ key = names[i] /\ c = found[i].remaining
    BY DEF Owing
  <2>2. PICK entry : entry = d[under.algorithm][key] /\ NeverNegative(under, entry)
    BY CellOfCounting
  <2>3. Backs(under, entry, stamp, c) /\ m <= c
    BY <2>1, <2>2 DEF Owing
  <2>4. Backs(under, entry, stamp, m)
    <3>1. stamp <= stamp
      OBVIOUS
    <3> QED
      BY <2>2, <2>3, <3>1, BacksFewer
  <2>5. HasLeft(under, entry, stamp, m)
    BY <2>4 DEF Backs
  <2> QED
    BY <2>1, <2>2, <2>5
<1>2. \A i \in 1 .. n : r[names[i]] \in LimitRule
  BY DEF Owing
<1> QED
  BY <1>1, <1>2 DEF AllHaveLeft

\* Among pairs of numbers there is one that no other precedes.  (The shortest sequence
\* without one would have one in it that is shorter.)
LEMMA FirstPair ==
    ASSUME NEW n \in Nat \ {0}, NEW p \in [1 .. n -> Nat], NEW q \in [1 .. n -> Int]
    PROVE  \E i \in 1 .. n : \A j \in 1 .. n : p[i] < p[j] \/ (p[i] = p[j] /\ q[i] <= q[j])
<1> DEFINE Best(k, i) == \A j \in 1 .. k : p[i] < p[j] \/ (p[i] = p[j] /\ q[i] <= q[j])
           without == {k \in 1 .. n : \A i \in 1 .. k : ~Best(k, i)}
<1>1. \A k \in 1 .. n : p[k] \in Nat /\ q[k] \in Int
  OBVIOUS
<1>2. ASSUME without # {}
      PROVE  FALSE
  <2>1. without \in SUBSET Nat
    OBVIOUS
  <2>2. PICK least \in without : \A k \in without : least <= k
    <3> HIDE DEF without
    <3> QED
      BY <1>2, <2>1, MinOfNaturals
  <2>3. least \in 1 .. n /\ least \in Nat \ {0} /\ \A i \in 1 .. least : ~Best(least, i)
    OBVIOUS
  <2>4. least - 1 \notin without
    <3> HIDE DEF without
    <3> QED
      BY <2>1, <2>2, <2>3
  <2>5. CASE least = 1
    <3>1. Best(least, 1)
      BY <1>1, <2>3, <2>5
    <3> QED
      BY <2>3, <2>5, <3>1
  <2>6. CASE least # 1
    <3>1. least - 1 \in 1 .. n
      BY <2>3, <2>6
    <3>2. PICK i \in 1 .. least - 1 : Best(least - 1, i)
      BY <2>4, <3>1
    <3>3. i \in 1 .. least /\ least \in 1 .. least /\ i \in 1 .. n
      BY <2>3, <3>1, <3>2
    <3>4. p[i] \in Nat /\ q[i] \in Int /\ p[least] \in Nat /\ q[least] \in Int
      BY <1>1, <2>3, <3>3
    <3>5. CASE p[i] < p[least] \/ (p[i] = p[least] /\ q[i] <= q[least])
      <4>1. Best(least, i)
        BY <2>3, <3>2, <3>5
      <4> QED
        BY <2>3, <3>3, <4>1
    <3>6. CASE ~(p[i] < p[least] \/ (p[i] = p[least] /\ q[i] <= q[least]))
      <4>1. ASSUME NEW j \in 1 .. least
            PROVE  p[least] < p[j] \/ (p[least] = p[j] /\ q[least] <= q[j])
        <5>1. CASE j = least
          BY <3>4, <5>1
        <5>2. CASE j # least
          <6>1. j \in 1 .. least - 1 /\ j \in 1 .. n
            BY <2>3, <5>2
          <6>2. p[i] < p[j] \/ (p[i] = p[j] /\ q[i] <= q[j])
            BY <3>2, <6>1
          <6>3. p[j] \in Nat /\ q[j] \in Int
            BY <1>1, <6>1
          <6> QED
            BY <3>4, <3>6, <6>2, <6>3
        <5> QED
          BY <5>1, <5>2
      <4>2. Best(least, least)
        BY <4>1
      <4> QED
        BY <2>3, <3>3, <4>2
    <3> QED
      BY <3>5, <3>6
  <2> QED
    BY <2>5, <2>6
<1>3. without = {}
  <2> HIDE DEF without
  <2> QED
    BY <1>2
<1>4. PICK i \in 1 .. n : Best(n, i)
  <2>1. n \in 1 .. n
    OBVIOUS
  <2> QED
    BY <1>3, <2>1
<1> QED
  BY <1>4

\* Among results there is a strictest one, which is found: none has less to give.
LEMMA FirstFound ==
    ASSUME NEW found \in Seq([remaining : Nat, reset_at : Int]), found # <<>>,
           NEW among, among = {found[i] : i \in DOMAIN found},
           NEW first, first = CHOOSE r \in among : \A s \in among :
                                  \/ r.remaining < s.remaining
                                  \/ r.remaining = s.remaining /\ r.reset_at <= s.reset_at
    PROVE  /\ first \in [remaining : Nat, reset_at : Int]
           /\ \A i \in 1 .. Len(found) : first.remaining <= found[i].remaining
<1> DEFINE Result == [remaining : Nat, reset_at : Int]
<1> DEFINE p == [i \in 1 .. Len(found) |-> found[i].remaining]
           q == [i \in 1 .. Len(found) |-> found[i].reset_at]
<1>1. /\ Len(found) \in Nat \ {0} /\ DOMAIN found = 1 .. Len(found)
      /\ \A i \in 1 .. Len(found) : found[i] \in Result
  <2>1. Len(found) \in Nat \ {0}
    BY EmptySeq
  <2>2. \A i \in 1 .. Len(found) : found[i] \in Result
    BY ElementOfSeq
  <2> QED
    BY <2>1, <2>2
<1>2. p \in [1 .. Len(found) -> Nat] /\ q \in [1 .. Len(found) -> Int]
  BY <1>1
<1>3. PICK i \in 1 .. Len(found) : \A j \in 1 .. Len(found) : p[i] < p[j] \/ (p[i] = p[j] /\ q[i] <= q[j])
  <2> HIDE DEF p, q
  <2> QED
    BY <1>1, <1>2, FirstPair
<1>4. among = {found[j] : j \in 1 .. Len(found)}
  BY <1>1
<1> DEFINE First(r) ==
               \A s \in among :
                   \/ r.remaining < s.remaining
                   \/ r.remaining = s.remaining /\ r.reset_at <= s.reset_at
<1>5. found[i] \in among /\ First(found[i])
  BY <1>3, <1>4
<1>6. first \in among /\ First(first)
  BY <1>5, Zenon
<1>7. PICK least \in Result : least = first /\ First(least)
  BY <1>1, <1>4, <1>6
<1>8. ASSUME NEW j \in 1 .. Len(found)
      PROVE  least.remaining <= found[j].remaining
  <2>1. found[j] \in among /\ found[j] \in Result
    BY <1>1, <1>4
  <2>2. least.remaining \in Nat /\ found[j].remaining \in Nat
    BY <2>1
  <2>3. least.remaining < found[j].remaining \/ least.remaining = found[j].remaining
    BY <1>7, <2>1
  <2> QED
    BY <2>2, <2>3, SMTT(40)
<1> QED
  BY <1>7, <1>8

=============================================================================
