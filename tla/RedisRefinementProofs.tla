------------------------ MODULE RedisRefinementProofs ------------------------
(***************************************************************************)
(* The keys under the server's clock implement the atomic storage, and     *)
(* what follows for the callers that are denied: for any callers,          *)
(* processes, clocks, keys, rules and numbers of faults.                   *)
(***************************************************************************)
EXTENDS RedisStorageProofs

-----------------------------------------------------------------------------
(***************************************************************************)
(* The sorted set, by its scores, is the deque of the memory storage.      *)
(***************************************************************************)

Scores(members) == [i \in DOMAIN members |-> members[i][1]]

LEMMA ScoresRead ==
    ASSUME NEW members \in Seq(Members)
    PROVE  /\ Scores(members) \in Seq(Int) /\ Len(Scores(members)) = Len(members)
           /\ DOMAIN members = 1 .. Len(members) /\ Len(members) \in Nat
           /\ \A i \in 1 .. Len(members) : /\ Scores(members)[i] = members[i][1]
                                           /\ members[i] \in Members /\ members[i][1] \in Nat
<1>1. /\ DOMAIN members = 1 .. Len(members) /\ Len(members) \in Nat
      /\ \A i \in 1 .. Len(members) : members[i] \in Members
  BY LenProperties, ElementOfSeq
<1>2. \A i \in 1 .. Len(members) : members[i][1] \in Nat
  BY <1>1 DEF Members
<1>3. PICK n \in Nat : n = Len(members)
  BY <1>1
<1>4. Scores(members) = [i \in 1 .. n |-> members[i][1]]
  BY <1>1, <1>3 DEF Scores
<1>5. Scores(members) \in [1 .. n -> Int]
  BY <1>2, <1>3, <1>4
<1>6. Scores(members) \in Seq(Int) /\ Len(Scores(members)) = n
  BY <1>5
<1> QED
  BY <1>1, <1>2, <1>3, <1>4, <1>6

\* ZREMRANGEBYSCORE drops what the loop over the deque drops.
LEMMA ScoresPruned ==
    ASSUME NEW members \in Seq(Members), NEW cutoff \in Int
    PROVE  Pruned(Scores(members), cutoff) = Scores(Unexpired(members, cutoff))
<1>1. PICK kept \in Seq(Members) :
          /\ kept = Unexpired(members, cutoff)
          /\ CutBefore(kept, members, {i \in 1 .. Len(members) : members[i][1] > cutoff})
  BY UnexpiredIsSuffix
<1>2. PICK d \in 0 .. Len(members) :
          /\ \A i \in 1 .. d : i \notin {j \in 1 .. Len(members) : members[j][1] > cutoff}
          /\ Len(kept) = Len(members) - d
          /\ \A i \in 1 .. Len(members) - d : kept[i] = members[i + d]
          /\ d < Len(members) => d + 1 \in {j \in 1 .. Len(members) : members[j][1] > cutoff}
  BY <1>1 DEF CutBefore
<1>3. PICK n \in Nat : n = Len(members) /\ Len(Scores(members)) = n
  BY ScoresRead
<1>4. \A i \in 1 .. n : Scores(members)[i] = members[i][1] /\ members[i][1] \in Nat
  BY <1>3, ScoresRead
<1>5. Scores(members) \in Entry
  BY ScoresRead DEF Entry
<1>6. PICK q \in Entry : q = Pruned(Scores(members), cutoff)
  BY <1>5, PrunedIsSuffix
<1>7. PICK e \in 0 .. n :
          /\ \A i \in 1 .. e : Scores(members)[i] <= cutoff
          /\ Len(q) = n - e
          /\ \A i \in 1 .. n - e : q[i] = Scores(members)[i + e]
          /\ e < n => Scores(members)[e + 1] > cutoff
  <2>1. \E x \in 0 .. n :
          /\ \A i \in 1 .. x : Scores(members)[i] <= cutoff
          /\ Len(q) = n - x
          /\ \A i \in 1 .. n - x : q[i] = Scores(members)[i + x]
          /\ x < n => Scores(members)[x + 1] > cutoff
    BY <1>3, <1>5, <1>6, PrunedIsSuffix
  <2> QED
    BY <2>1
<1>8. d = e
  <2>1. d \in 0 .. n
    BY <1>2, <1>3
  <2>2. CASE d < e
    <3>1. d + 1 \in 1 .. n /\ d + 1 \in 1 .. e /\ d < n
      BY <1>7, <2>1, <2>2
    <3>2. Scores(members)[d + 1] <= cutoff /\ members[d + 1][1] > cutoff
      BY <1>2, <1>3, <1>7, <3>1
    <3> QED
      BY <1>4, <3>1, <3>2
  <2>3. CASE e < d
    <3>1. e + 1 \in 1 .. n /\ e + 1 \in 1 .. d /\ e < n
      BY <1>7, <2>1, <2>3
    <3>2. Scores(members)[e + 1] > cutoff /\ ~(members[e + 1][1] > cutoff)
      BY <1>2, <1>3, <1>7, <3>1
    <3> QED
      BY <1>4, <3>1, <3>2
  <2> QED
    BY <1>7, <2>1, <2>2, <2>3
<1>9. /\ Scores(kept) \in Seq(Int) /\ Len(Scores(kept)) = n - e
      /\ \A i \in 1 .. n - e : Scores(kept)[i] = kept[i][1]
  <2>1. /\ Scores(kept) \in Seq(Int) /\ Len(Scores(kept)) = Len(kept)
        /\ \A i \in 1 .. Len(kept) : Scores(kept)[i] = kept[i][1]
    BY ScoresRead
  <2>2. Len(kept) = n - e
    BY <1>2, <1>3, <1>8
  <2> QED
    BY <2>1, <2>2, Zenon
<1>10. \A i \in 1 .. n - e : q[i] = Scores(kept)[i]
  <2> SUFFICES ASSUME NEW i \in 1 .. n - e PROVE q[i] = Scores(kept)[i]
    OBVIOUS
  <2>1. i + e \in 1 .. n
    BY <1>7
  <2>2. q[i] = members[i + e][1]
    BY <1>4, <1>7, <2>1
  <2>3. kept[i] = members[i + e]
    BY <1>2, <1>3, <1>8
  <2> QED
    BY <1>9, <2>2, <2>3
<1>11. q = Scores(kept)
  BY <1>6, <1>7, <1>9, <1>10, SeqEqual DEF Entry
<1> QED
  BY <1>1, <1>6, <1>11

\* In the order of time, ZADD appends.
LEMMA ScoresAppended ==
    ASSUME NEW members \in Seq(Members), NEW member \in Members,
           \A i \in 1 .. Len(members) : members[i][1] <= member[1] /\ members[i] # member
    PROVE  WithMember(members, member) = Append(members, member)
<1>1. PICK result \in Seq(Members) :
          result = WithMember(members, member) /\ Placed(result, members, member)
  BY MemberPlaced
<1>2. PICK n \in Nat : n = Len(members)
  BY LenProperties
<1>3. \A i \in 1 .. n : members[i][1] \in Nat /\ member[1] \in Nat
  BY <1>2, ScoresRead DEF Members
<1>4. PICK place \in 1 .. n + 1 :
            /\ Len(result) = n + 1
            /\ result[place] = member
            /\ \A i \in 1 .. place - 1 : result[i] = members[i]
            /\ place <= n => members[place][1] > member[1]
  BY <1>1, <1>2 DEF Placed
<1>5. place = n + 1
  BY <1>2, <1>3, <1>4
<1>6. /\ Append(members, member) \in Seq(Members) /\ Len(Append(members, member)) = n + 1
      /\ \A i \in 1 .. n : Append(members, member)[i] = members[i]
      /\ Append(members, member)[n + 1] = member
  BY <1>2, AppendProperties
<1>7. \A i \in 1 .. n + 1 : result[i] = Append(members, member)[i]
  BY <1>4, <1>5, <1>6
<1>8. Len(result) = Len(Append(members, member))
      /\ \A i \in 1 .. Len(result) : result[i] = Append(members, member)[i]
  BY <1>4, <1>6, <1>7
<1> QED
  BY <1>1, <1>6, <1>8, SeqEqual

LEMMA ScoresOfMore ==
    ASSUME NEW members \in Seq(Members), NEW member \in Members
    PROVE  Scores(Append(members, member)) = Append(Scores(members), member[1])
<1>1. PICK n \in Nat : n = Len(members)
  BY LenProperties
<1>2. PICK more \in Seq(Members) :
            /\ more = Append(members, member) /\ Len(more) = n + 1
            /\ \A i \in 1 .. n : more[i] = members[i]
            /\ more[n + 1] = member
  BY <1>1, AppendProperties
<1>3. PICK scores \in Seq(Int) :
            /\ scores = Scores(more) /\ Len(scores) = n + 1
            /\ \A i \in 1 .. n + 1 : scores[i] = more[i][1]
  BY <1>2, ScoresRead
<1>4. PICK before \in Seq(Int) :
            /\ before = Scores(members) /\ Len(before) = n
            /\ \A i \in 1 .. n : before[i] = members[i][1]
  BY <1>1, ScoresRead
<1>5. PICK score \in Int : score = member[1]
  BY DEF Members
<1>6. PICK plain \in Seq(Int) :
            /\ plain = Append(before, score) /\ Len(plain) = n + 1
            /\ \A i \in 1 .. n : plain[i] = before[i]
            /\ plain[n + 1] = score
  <2>1. PICK plain : plain = Append(before, score)
    OBVIOUS
  <2>2. /\ plain \in Seq(Int) /\ Len(plain) = Len(before) + 1
        /\ \A i \in 1 .. Len(before) : plain[i] = before[i]
        /\ plain[Len(before) + 1] = score
    BY <2>1, AppendProperties
  <2> QED
    BY <1>4, <2>1, <2>2, Zenon
<1>7. ASSUME NEW i \in 1 .. n + 1
      PROVE  scores[i] = plain[i]
  <2>1. i \in 1 .. n \/ i = n + 1
    OBVIOUS
  <2>2. scores[i] = more[i][1]
    BY <1>3
  <2>3. CASE i \in 1 .. n
    BY <1>2, <1>4, <1>6, <2>2, <2>3
  <2>4. CASE i = n + 1
    BY <1>2, <1>5, <1>6, <2>2, <2>4
  <2> QED
    BY <2>1, <2>3, <2>4
<1>8. Len(scores) = Len(plain) /\ \A i \in 1 .. Len(scores) : scores[i] = plain[i]
  BY <1>3, <1>6, <1>7
<1>9. scores = plain
  BY <1>8, SeqEqual
<1> QED
  BY <1>2, <1>3, <1>4, <1>5, <1>6, <1>9

-----------------------------------------------------------------------------
(***************************************************************************)
(* Expiry goes unnoticed: an entry that the server has dropped would have  *)
(* been decided as an absent one.                                          *)
(***************************************************************************)

\* A bucket is full again by the time that it expires.
BucketsOutlive ==
    \A k \in Exact : RuleOf[k].algorithm = "token_bucket" =>
        RuleOf[k].capacity * RuleOf[k].interval <= BucketTTL

InOrder(members) == \A i, j \in DOMAIN members : i < j => members[i][1] <= members[j][1]

\* The value of k, kept since the script was run last: the sorted set is in order and
\* within the window, and every entry lives for as long as it matters.
Current(k, value, latest) ==
    LET rule == RuleOf[k]
        entry == value.entry
    IN  /\ rule.algorithm = "sliding_window" =>
               /\ InOrder(entry)
               /\ \A i \in DOMAIN entry :
                      /\ latest - rule.window < entry[i][1] /\ entry[i][1] <= latest
                      /\ value.expires >= entry[i][1] + rule.window
        /\ rule.algorithm = "token_bucket" /\ entry # <<>> =>
               entry[1] >= 0 /\ value.expires >= entry[2] + BucketTTL
        /\ rule.algorithm = "gcra" /\ entry # <<>> => value.expires >= entry[1]

InTime == \A k \in Exact : high[k] <= clock /\ Current(k, store[k], high[k])

LEMMA ExactKeys ==
    ASSUME NEW k \in Exact
    PROVE  /\ k \in Keys /\ k \in Keys \ FixedKeys /\ k \in ServerTimed
           /\ \A t : ScriptTime(k, t) = clock
           /\ RuleOf[k] \in LimitRule
           /\ RuleOf[k].algorithm \in {"sliding_window", "token_bucket", "gcra"}
           /\ RuleOf[k].algorithm = "sliding_window" =>
                  RuleOf[k].limit \in Positive /\ RuleOf[k].window \in Positive
           /\ RuleOf[k].algorithm # "sliding_window" =>
                  RuleOf[k].capacity \in Positive /\ RuleOf[k].interval \in Positive
<1>1. k \in ServerTimed /\ k \in Keys /\ RuleOf[k] \in LimitRule
      /\ RuleOf[k].algorithm \in {"sliding_window", "token_bucket", "gcra"}
  BY RedisAssumption DEF Exact
<1> QED
  BY <1>1 DEF ScriptTime, FixedKeys, IsFixed, LimitRule, WindowRule, BucketRule

\* An arrival time that has passed is none.
LEMMA GcraForgets ==
    ASSUME NEW tat \in Int, NEW now \in Nat, tat < now,
           NEW capacity \in Positive, NEW interval \in Positive
    PROVE  gcra(<<tat>>, capacity, interval, now) = gcra(<<>>, capacity, interval, now)
<1>1. PICK burst \in Nat : burst = BurstInterval(capacity, interval)
  <2>1. capacity - 1 \in Nat /\ interval \in Nat
    BY DEF Positive
  <2> QED
    BY <2>1 DEF BurstInterval
<1>2. Later(tat, now) = now /\ Later(now, now) = now /\ tat <= now + burst /\ now <= now + burst
  BY <1>1 DEF Later
<1>3. <<tat>> # <<>> /\ <<tat>>[1] = tat
  OBVIOUS
<1> QED
  BY <1>1, <1>2, <1>3 DEF gcra

\* A bucket that has been full for long is a new one.
LEMMA TokenForgets ==
    ASSUME NEW level \in Nat, NEW last \in Int, NEW now \in Nat,
           NEW capacity \in Positive, NEW interval \in Positive,
           last + capacity * interval <= now
    PROVE  token_bucket(<<level, last>>, capacity, interval, now)
               = token_bucket(<<>>, capacity, interval, now)
<1>1. PICK full \in Nat : full = capacity * interval
  BY DEF Positive
<1>2. Elapsed(now, last) = now - last /\ Elapsed(now, now) = 0
  BY <1>1 DEF Elapsed, AtLeastZero
<1>3. AtMost(level + Elapsed(now, last), full) = full /\ AtMost(full + Elapsed(now, now), full) = full
  BY <1>1, <1>2 DEF AtMost
<1>4. /\ <<level, last>> # <<>> /\ <<level, last>>[1] = level /\ <<level, last>>[2] = last
      /\ <<full, now>>[1] = full /\ <<full, now>>[2] = now
  OBVIOUS
<1>5. full >= interval
  BY <1>1 DEF Positive
<1>6. token_bucket(<<level, last>>, capacity, interval, now)
        = Admit((full - interval) \div interval, now + (full - (full - interval)),
                <<full - interval, now>>)
  BY <1>1, <1>3, <1>4, <1>5, Zenon DEF token_bucket
<1>7. token_bucket(<<>>, capacity, interval, now)
        = Admit((full - interval) \div interval, now + (full - (full - interval)),
                <<full - interval, now>>)
  BY <1>1, <1>3, <1>4, <1>5, Zenon DEF token_bucket
<1> QED
  BY <1>6, <1>7

\* What the server would decide for k at this moment, and what the atomic storage.
LEMMA ExpiryUnnoticed ==
    ASSUME Typed, InTime, BucketsOutlive, NEW k \in Exact, RuleOf[k].algorithm # "sliding_window"
    PROVE  Decide(RuleOf[k], LiveEntry(k), clock) = Decide(RuleOf[k], store[k].entry, clock)
<1>1. PICK entry, expires : entry = store[k].entry /\ expires = store[k].expires
  OBVIOUS
<1>2. /\ clock \in Nat /\ expires \in Int /\ entry \in EntryUnder(RuleOf[k])
      /\ RuleOf[k].capacity \in Positive /\ RuleOf[k].interval \in Positive
      /\ RuleOf[k].algorithm \in {"token_bucket", "gcra"}
  BY <1>1, ExactKeys, ClockReading DEF Typed, ServerTyped, ClientsTyped, StoredUnder
<1>3. /\ RuleOf[k].algorithm = "token_bucket" /\ entry # <<>> =>
             entry[1] >= 0 /\ expires >= entry[2] + BucketTTL
      /\ RuleOf[k].algorithm = "gcra" /\ entry # <<>> => expires >= entry[1]
  <2>1. Current(k, store[k], high[k])
    BY DEF InTime
  <2> QED
    BY <1>1, <2>1, Zenon DEF Current
<1>4. CASE ~Gone(store[k]) \/ entry = <<>>
  BY <1>1, <1>4 DEF LiveEntry
<1>5. CASE Gone(store[k]) /\ entry # <<>>
  <2>1. LiveEntry(k) = <<>> /\ clock > expires
    BY <1>1, <1>5 DEF LiveEntry, Gone
  <2>2. CASE RuleOf[k].algorithm = "gcra"
    <3>1. entry \in Seq(Int) /\ Len(entry) \in {0, 1}
      BY <1>2, <2>2 DEF EntryUnder, Entry
    <3>2. PICK tat \in Int : entry = <<tat>>
      <4>1. entry[1] \in Int /\ entry = <<entry[1]>>
        BY <1>5, <3>1
      <4> QED
        BY <4>1
    <3>3. expires >= tat
      <4>1. expires >= entry[1] /\ entry[1] = tat
        BY <1>5, <1>3, <2>2, <3>2
      <4> QED
        BY <4>1, Zenon
    <3>4. gcra(<<tat>>, RuleOf[k].capacity, RuleOf[k].interval, clock)
            = gcra(<<>>, RuleOf[k].capacity, RuleOf[k].interval, clock)
      BY <1>2, <2>1, <3>3, GcraForgets
    <3> QED
      BY <1>1, <2>1, <2>2, <3>2, <3>4 DEF Decide
  <2>3. CASE RuleOf[k].algorithm = "token_bucket"
    <3>1. entry \in Seq(Int) /\ Len(entry) \in {0, 2}
      BY <1>2, <2>3 DEF EntryUnder, Entry
    <3>2. PICK level \in Int, last \in Int : entry = <<level, last>>
      <4>1. entry[1] \in Int /\ entry[2] \in Int /\ entry = <<entry[1], entry[2]>>
        BY <1>5, <3>1
      <4> QED
        BY <4>1
    <3>3. level >= 0 /\ expires >= last + BucketTTL
      <4>1. entry[1] >= 0 /\ expires >= entry[2] + BucketTTL
        BY <1>5, <1>3, <2>3
      <4>2. entry[1] = level /\ entry[2] = last
        BY <3>2
      <4> QED
        BY <4>1, <4>2, Zenon
    <3>4. PICK full \in Int : full = RuleOf[k].capacity * RuleOf[k].interval /\ full <= BucketTTL
      BY <1>2, <2>3 DEF BucketsOutlive, Positive
    <3>5. last + full <= clock /\ level \in Nat
      BY <1>2, <2>1, <3>3, <3>4, BucketTTLAssumption DEF Positive
    <3>6. token_bucket(<<level, last>>, RuleOf[k].capacity, RuleOf[k].interval, clock)
            = token_bucket(<<>>, RuleOf[k].capacity, RuleOf[k].interval, clock)
      <4>1. PICK capacity \in Positive, interval \in Positive, now \in Nat :
                /\ capacity = RuleOf[k].capacity /\ interval = RuleOf[k].interval
                /\ now = clock
        BY <1>2
      <4>2. last + capacity * interval <= now
        BY <3>4, <3>5, <4>1, Zenon
      <4>3. token_bucket(<<level, last>>, capacity, interval, now)
              = token_bucket(<<>>, capacity, interval, now)
        BY <3>5, <4>2, TokenForgets
      <4> QED
        BY <4>1, <4>3, Zenon
    <3> QED
      BY <1>1, <2>1, <2>3, <3>2, <3>6 DEF Decide
  <2> QED
    BY <1>2, <2>2, <2>3
<1> QED
  BY <1>4, <1>5

-----------------------------------------------------------------------------
(***************************************************************************)
(* The sliding window.                                                     *)
(***************************************************************************)

\* The members that the script goes on with.
Left(k) == Unexpired(store[k].entry, clock - RuleOf[k].window)

LEMMA LeftInTime ==
    ASSUME Typed, InTime, NEW k \in Exact, RuleOf[k].algorithm = "sliding_window"
    PROVE  /\ Left(k) \in Seq(Members) /\ InOrder(Left(k))
           /\ Unexpired(LiveEntry(k), clock - RuleOf[k].window) = Left(k)
           /\ \A i \in 1 .. Len(Left(k)) :
                /\ clock - RuleOf[k].window < Left(k)[i][1] /\ Left(k)[i][1] <= clock
                /\ store[k].expires >= Left(k)[i][1] + RuleOf[k].window
                /\ \E j \in DOMAIN LiveEntry(k) : LiveEntry(k)[j] = Left(k)[i]
           /\ \A j \in DOMAIN LiveEntry(k) : LiveEntry(k)[j][1] = clock =>
                Left(k) = store[k].entry /\ high[k] = clock
<1>1. PICK members \in Seq(Members), n \in Nat, window \in Nat, latest \in Nat, expires \in Int :
          /\ members = store[k].entry /\ n = Len(members) /\ window = RuleOf[k].window
          /\ latest = high[k] /\ expires = store[k].expires
  <2>1. store[k].entry \in Seq(Members) /\ store[k].expires \in Int /\ high[k] \in Nat
    BY ExactKeys DEF Typed, ServerTyped, StoredUnder
  <2>2. RuleOf[k].window \in Nat
    BY ExactKeys DEF Positive
  <2> QED
    BY <2>1, <2>2, LenProperties
<1>2. clock \in Nat /\ latest <= clock /\ clock - window \in Int
  BY <1>1, ClockReading DEF Typed, ClientsTyped, InTime
<1>3. /\ DOMAIN members = 1 .. n
      /\ \A i \in 1 .. n : members[i] \in Members /\ members[i][1] \in Nat
  BY <1>1, ScoresRead
<1>4. /\ \A i, j \in 1 .. n : i < j => members[i][1] <= members[j][1]
      /\ \A i \in 1 .. n : /\ latest - window < members[i][1] /\ members[i][1] <= latest
                           /\ expires >= members[i][1] + window
  <2>1. Current(k, store[k], latest)
    BY <1>1 DEF InTime
  <2> QED
    BY <1>1, <1>3, <2>1 DEF Current, InOrder
<1>5. PICK left \in Seq(Members), d \in 0 .. n :
          /\ left = Left(k) /\ Len(left) = n - d
          /\ \A i \in 1 .. d : members[i][1] <= clock - window
          /\ \A i \in 1 .. n - d : left[i] = members[i + d]
          /\ d < n => members[d + 1][1] > clock - window
  <2>1. PICK left \in Seq(Members) :
            /\ left = Left(k)
            /\ CutBefore(left, members, {i \in 1 .. Len(members) : members[i][1] > clock - window})
    BY <1>1, <1>2, UnexpiredIsSuffix DEF Left
  <2>2. PICK d \in 0 .. n :
            /\ \A i \in 1 .. d : i \notin {j \in 1 .. n : members[j][1] > clock - window}
            /\ Len(left) = n - d
            /\ \A i \in 1 .. n - d : left[i] = members[i + d]
            /\ d < n => d + 1 \in {j \in 1 .. n : members[j][1] > clock - window}
    BY <1>1, <2>1 DEF CutBefore
  <2>3. \A i \in 1 .. d : members[i][1] <= clock - window
    BY <1>2, <1>3, <2>2
  <2>4. d < n => members[d + 1][1] > clock - window
    BY <2>2
  <2> QED
    BY <2>1, <2>2, <2>3, <2>4
<1>6. \A i \in 1 .. n - d : i + d \in 1 .. n /\ d + 1 \in 1 .. n /\ (i = 1 \/ d + 1 < i + d) /\ d < n
  BY <1>5
<1>7. \A i \in 1 .. n - d :
          /\ clock - window < left[i][1] /\ left[i][1] <= clock /\ left[i][1] \in Nat
          /\ expires >= left[i][1] + window
  <2> SUFFICES ASSUME NEW i \in 1 .. n - d
               PROVE  /\ clock - window < left[i][1] /\ left[i][1] <= clock /\ left[i][1] \in Nat
                      /\ expires >= left[i][1] + window
    OBVIOUS
  <2>1. left[i] = members[i + d] /\ i + d \in 1 .. n /\ members[i + d][1] \in Nat
    BY <1>3, <1>5, <1>6
  <2>2. members[d + 1][1] <= members[i + d][1] /\ members[d + 1][1] > clock - window
        /\ members[d + 1][1] \in Nat
    BY <1>3, <1>4, <1>5, <1>6
  <2>3. members[i + d][1] <= latest /\ expires >= members[i + d][1] + window
    BY <1>4, <2>1
  <2>4. PICK first \in Nat, score \in Nat : first = members[d + 1][1] /\ score = members[i + d][1]
    BY <2>1, <2>2
  <2>5. clock - window < first /\ first <= score /\ score <= latest
    BY <2>2, <2>3, <2>4
  <2>6. clock - window < score /\ score <= clock
    BY <1>2, <2>5
  <2> QED
    BY <2>1, <2>3, <2>4, <2>6
<1>8. InOrder(left)
  <2>1. DOMAIN left = 1 .. n - d
    BY <1>5, LenProperties
  <2> SUFFICES ASSUME NEW i \in 1 .. n - d, NEW j \in 1 .. n - d, i < j
               PROVE  left[i][1] <= left[j][1]
    BY <2>1 DEF InOrder
  <2>2. left[i] = members[i + d] /\ left[j] = members[j + d] /\ i + d < j + d
    BY <1>5
  <2> QED
    BY <1>4, <1>6, <2>2
<1>9. CASE Gone(store[k])
  <2>1. clock > expires /\ LiveEntry(k) = <<>>
    BY <1>1, <1>9 DEF Gone, LiveEntry
  <2>2. d = n
    <3>1. SUFFICES ASSUME d < n PROVE FALSE
      BY <1>5
    <3>2. d + 1 \in 1 .. n
      BY <1>5, <3>1
    <3>3. members[d + 1][1] > clock - window /\ expires >= members[d + 1][1] + window
      BY <1>4, <1>5, <3>1, <3>2
    <3>4. PICK score \in Nat : score = members[d + 1][1]
      BY <1>3, <3>2
    <3>5. score > clock - window /\ expires >= score + window /\ clock > expires
      BY <2>1, <3>3, <3>4
    <3> QED
      BY <1>2, <3>5
  <2>3. left = <<>>
    BY <1>5, <2>2, EmptySeq
  <2>4. Unexpired(<<>>, clock - window) = <<>>
    BY DEF Unexpired
  <2> QED
    BY <1>1, <1>5, <1>8, <2>1, <2>3, <2>4
<1>10. CASE ~Gone(store[k])
  <2>1. LiveEntry(k) = members
    BY <1>1, <1>10 DEF LiveEntry
  <2>2. Unexpired(LiveEntry(k), clock - RuleOf[k].window) = left
    BY <1>1, <1>5, <2>1 DEF Left
  <2>3. \A i \in 1 .. n - d : \E j \in DOMAIN LiveEntry(k) : LiveEntry(k)[j] = left[i]
    BY <1>3, <1>5, <1>6, <2>1
  <2>4. ASSUME NEW j \in 1 .. n, members[j][1] = clock
        PROVE  left = members /\ latest = clock
    <3>1. latest = clock
      BY <1>2, <1>4, <2>4
    <3>2. d = 0
      <4>1. SUFFICES ASSUME 1 <= d PROVE FALSE
        BY <1>5
      <4>2. 1 \in 1 .. d /\ 1 \in 1 .. n
        BY <1>5, <4>1
      <4>3. members[1][1] <= clock - window /\ latest - window < members[1][1]
        BY <1>4, <1>5, <4>2
      <4> QED
        BY <1>2, <1>3, <3>1, <4>2, <4>3
    <3>3. Len(left) = n /\ \A i \in 1 .. n : left[i] = members[i]
      BY <1>5, <3>2
    <3>4. left = members
      BY <1>1, <3>3, SeqEqual
    <3> QED
      BY <3>1, <3>4
  <2>5. \A j \in DOMAIN LiveEntry(k) : LiveEntry(k)[j][1] = clock => left = members /\ latest = clock
    BY <1>3, <2>1, <2>4
  <2>6. \A i \in 1 .. Len(left) :
                /\ clock - window < left[i][1] /\ left[i][1] <= clock
                /\ expires >= left[i][1] + window
                /\ \E j \in DOMAIN LiveEntry(k) : LiveEntry(k)[j] = left[i]
    BY <1>5, <1>7, <2>3
  <2> QED
    BY <1>1, <1>5, <1>8, <2>2, <2>5, <2>6, Zenon
<1> QED
  BY <1>9, <1>10

\* The server has recorded the request, at this very time.
Recalled(k, id) == \E j \in DOMAIN LiveEntry(k) : LiveEntry(k)[j] = <<clock, id>>

\* What the script decides is what the memory storage would, but that the script
\* reports a later reset_at, and that it knows a request again.
AgreesOn(k, outcome) ==
    LET decision == Decide(RuleOf[k], Plain(k, store[k].entry), clock)
    IN  /\ PlainResult(k, [outcome EXCEPT !.entry = Plain(k, @)]) = decision
        /\ decision.allowed = outcome.allowed
        /\ decision.entry = Plain(k, outcome.entry)

LEMMA AdmissionWritten ==
    ASSUME NEW remaining, NEW reset_at, NEW entry, NEW later, NEW other
    PROVE  /\ [Admit(remaining, reset_at, entry) EXCEPT !.entry = other]
                  = Admit(remaining, reset_at, other)
           /\ [Admit(remaining, reset_at, entry) EXCEPT !.reset_at = later]
                  = Admit(remaining, later, entry)
<1> DEFINE Admissions == [allowed : {TRUE}, remaining : {remaining},
                          reset_at : {reset_at, later}, entry : {entry, other}]
<1>1. /\ Admit(remaining, reset_at, entry) \in Admissions
      /\ Admit(remaining, reset_at, entry).entry = entry
      /\ Admit(remaining, reset_at, entry).reset_at = reset_at
  BY DEF Admit
<1>2. /\ [Admit(remaining, reset_at, entry) EXCEPT !.entry = other] \in Admissions
      /\ [Admit(remaining, reset_at, entry) EXCEPT !.entry = other].entry = other
      /\ [Admit(remaining, reset_at, entry) EXCEPT !.entry = other].reset_at = reset_at
  BY <1>1
<1>3. /\ [Admit(remaining, reset_at, entry) EXCEPT !.reset_at = later] \in Admissions
      /\ [Admit(remaining, reset_at, entry) EXCEPT !.reset_at = later].entry = entry
      /\ [Admit(remaining, reset_at, entry) EXCEPT !.reset_at = later].reset_at = later
  BY <1>1
<1>4. ASSUME NEW x \in Admissions
      PROVE  /\ x.entry = other /\ x.reset_at = reset_at => x = Admit(remaining, reset_at, other)
             /\ x.entry = entry /\ x.reset_at = later => x = Admit(remaining, later, entry)
  BY <1>4 DEF Admit
<1> QED
  BY <1>2, <1>3, <1>4

LEMMA DenialWritten ==
    ASSUME NEW reset_at, NEW entry, NEW other
    PROVE  [Deny(reset_at, entry) EXCEPT !.entry = other] = Deny(reset_at, other)
<1> DEFINE Denials == [allowed : {FALSE}, remaining : {0}, reset_at : {reset_at}, entry : {entry, other}]
<1>1. Deny(reset_at, entry) \in Denials
  BY DEF Deny
<1>2. /\ [Deny(reset_at, entry) EXCEPT !.entry = other] \in Denials
      /\ [Deny(reset_at, entry) EXCEPT !.entry = other].entry = other
  BY <1>1
<1>3. ASSUME NEW x \in Denials, x.entry = other
      PROVE  x = Deny(reset_at, other)
  BY <1>3 DEF Deny
<1> QED
  BY <1>2, <1>3

LEMMA SlidingAgrees ==
    ASSUME Typed, InTime, NEW k \in Exact, RuleOf[k].algorithm = "sliding_window",
           NEW id \in RequestIds,
           NEW outcome, outcome = Script(RuleOf[k], LiveEntry(k), clock, id).outcome
    PROVE  /\ outcome.allowed /\ Recalled(k, id) => outcome.entry = store[k].entry /\ high[k] = clock
           /\ outcome.allowed /\ ~Recalled(k, id) =>
                  outcome.entry = Append(Left(k), <<clock, id>>) /\ AgreesOn(k, outcome)
           /\ ~outcome.allowed => outcome.entry = Left(k) /\ AgreesOn(k, outcome)
<1>1. PICK left \in Seq(Members), n \in Nat, window \in Nat, limit \in Nat :
          /\ left = Left(k) /\ n = Len(left) /\ window = RuleOf[k].window /\ limit = RuleOf[k].limit
          /\ limit >= 1
  <2>1. RuleOf[k].window \in Nat /\ RuleOf[k].limit \in Nat /\ RuleOf[k].limit >= 1
    BY ExactKeys DEF Positive
  <2>2. PICK left \in Seq(Members) : left = Left(k)
    BY LeftInTime
  <2>3. Len(left) \in Nat
    BY LenProperties
  <2> QED
    BY <2>1, <2>2, <2>3
<1>2. clock \in Nat /\ <<clock, id>> \in Members
  BY ClockReading DEF Typed, ClientsTyped, Members
<1>3. PICK member \in Members : member = <<clock, id>> /\ member[1] = clock
  BY <1>2
<1>4. PICK members \in Seq(Members) : members = store[k].entry
  BY ExactKeys DEF Typed, ServerTyped, StoredUnder
<1>5. PICK q \in Seq(Int) : /\ q = Scores(left) /\ Len(q) = n
                            /\ q = Pruned(Plain(k, members), clock - window)
                            /\ Plain(k, left) = q
                            /\ \A i \in 1 .. n : q[i] = left[i][1]
  <2>1. Plain(k, members) = Scores(members) /\ Plain(k, left) = Scores(left)
    BY DEF Plain, Scores
  <2>2. clock - window \in Int
    BY <1>1, <1>2
  <2>3. Pruned(Scores(members), clock - window) = Scores(left)
    BY <1>1, <1>4, <2>2, ScoresPruned DEF Left
  <2>4. /\ Scores(left) \in Seq(Int) /\ Len(Scores(left)) = n
        /\ \A i \in 1 .. n : Scores(left)[i] = left[i][1]
    BY <1>1, ScoresRead
  <2> QED
    BY <2>1, <2>3, <2>4
<1>6. Decide(RuleOf[k], Plain(k, store[k].entry), clock)
        = IF n < limit
          THEN Admit(limit - Len(Append(q, clock)), Append(q, clock)[1] + window, Append(q, clock))
          ELSE Deny(q[1] + window, q)
  <2>1. Decide(RuleOf[k], Plain(k, members), clock)
          = sliding_window(Plain(k, members), window, limit, clock)
    BY <1>1 DEF Decide
  <2> QED
    BY <1>4, <1>5, <2>1 DEF sliding_window
<1>7. outcome = IF n < limit
                THEN Admit(limit - n - 1, clock + window, WithMember(left, member))
                ELSE Deny(left[1][1] + window, left)
  <2>1. Unexpired(LiveEntry(k), clock - window) = left
    BY <1>1, LeftInTime
  <2>2. Script(RuleOf[k], LiveEntry(k), clock, id)
          = sliding_window_script(LiveEntry(k), window, limit, clock, id)
    BY <1>1 DEF Script
  <2> QED
    BY <1>1, <1>3, <2>1, <2>2 DEF sliding_window_script, Expiring
<1>8. \A i \in 1 .. n : left[i][1] <= clock /\ \E j \in DOMAIN LiveEntry(k) : LiveEntry(k)[j] = left[i]
  BY <1>1, LeftInTime
<1>9. CASE n < limit /\ Recalled(k, id)
  <2>1. PICK j \in DOMAIN LiveEntry(k) : LiveEntry(k)[j] = member
    BY <1>3, <1>9 DEF Recalled
  <2>2. left = members /\ high[k] = clock
    BY <1>1, <1>3, <1>4, <2>1, LeftInTime
  <2>3. LiveEntry(k) = members
    BY <1>4, <2>1 DEF LiveEntry
  <2>4. WithMember(left, member) = left
    BY <2>1, <2>2, <2>3 DEF WithMember
  <2>5. outcome.allowed = TRUE /\ outcome.entry = members
    BY <1>7, <1>9, <2>2, <2>4 DEF Admit
  <2> QED
    BY <1>4, <1>9, <2>2, <2>5
<1>10. CASE n < limit /\ ~Recalled(k, id)
  <2>1. \A i \in 1 .. Len(left) : left[i][1] <= member[1] /\ left[i] # member
    BY <1>1, <1>3, <1>8, <1>10 DEF Recalled
  <2>2. WithMember(left, member) = Append(left, member)
    BY <2>1, ScoresAppended
  <2>3. PICK queued \in Seq(Int) : queued = Append(q, clock) /\ Len(queued) = n + 1
    <3>1. Append(q, clock) \in Seq(Int) /\ Len(Append(q, clock)) = Len(q) + 1
      BY <1>2, AppendProperties
    <3> QED
      BY <1>5, <3>1
  <2>4. Plain(k, Append(left, member)) = queued
    <3>1. Plain(k, Append(left, member)) = Scores(Append(left, member))
      BY DEF Plain, Scores
    <3>2. Scores(Append(left, member)) = Append(q, clock)
      BY <1>3, <1>5, ScoresOfMore
    <3> QED
      BY <2>3, <3>1, <3>2
  <2>5. outcome = Admit(limit - n - 1, clock + window, Append(left, member))
    BY <1>7, <1>10, <2>2
  <2>6. outcome.allowed = TRUE /\ outcome.entry = Append(left, member)
    BY <2>5 DEF Admit
  <2>7. [outcome EXCEPT !.entry = Plain(k, @)] = Admit(limit - n - 1, clock + window, queued)
    <3>1. Plain(k, outcome.entry) = queued
      BY <2>4, <2>6, Zenon
    <3>2. [outcome EXCEPT !.entry = queued] = Admit(limit - n - 1, clock + window, queued)
      <4>1. PICK remaining, reset_at, entry :
                remaining = limit - n - 1 /\ reset_at = clock + window /\ entry = Append(left, member)
        OBVIOUS
      <4>2. [Admit(remaining, reset_at, entry) EXCEPT !.entry = queued]
                = Admit(remaining, reset_at, queued)
        BY AdmissionWritten
      <4> QED
        BY <2>5, <4>1, <4>2, Zenon
    <3> QED
      BY <3>1, <3>2, Zenon
  <2>8. PlainResult(k, Admit(limit - n - 1, clock + window, queued))
          = Admit(limit - n - 1, queued[1] + window, queued)
    BY <1>1 DEF PlainResult, Admit
  <2>9. limit - Len(queued) = limit - n - 1
    BY <2>3
  <2>10. Decide(RuleOf[k], Plain(k, store[k].entry), clock)
           = Admit(limit - n - 1, queued[1] + window, queued)
    BY <1>6, <1>10, <2>3, <2>9
  <2>11. /\ Admit(limit - n - 1, queued[1] + window, queued).allowed = TRUE
         /\ Admit(limit - n - 1, queued[1] + window, queued).entry = queued
    BY DEF Admit
  <2>12. AgreesOn(k, outcome)
    BY <2>4, <2>6, <2>7, <2>8, <2>10, <2>11, Zenon DEF AgreesOn
  <2> QED
    BY <1>1, <1>3, <1>10, <2>6, <2>12, Zenon
<1>11. CASE ~(n < limit)
  <2>1. outcome = Deny(left[1][1] + window, left)
    BY <1>7, <1>11
  <2>2. outcome.allowed = FALSE /\ outcome.entry = left
    BY <2>1 DEF Deny
  <2>3. left[1][1] = q[1]
    BY <1>1, <1>5, <1>11
  <2>4. [outcome EXCEPT !.entry = Plain(k, @)] = Deny(q[1] + window, q)
    <3>1. Plain(k, outcome.entry) = q
      BY <1>5, <2>2, Zenon
    <3>2. [outcome EXCEPT !.entry = q] = Deny(q[1] + window, q)
      <4>1. PICK reset_at : reset_at = q[1] + window
        OBVIOUS
      <4>2. [Deny(reset_at, left) EXCEPT !.entry = q] = Deny(reset_at, q)
        BY DenialWritten
      <4> QED
        BY <2>1, <2>3, <4>1, <4>2, Zenon
    <3> QED
      BY <3>1, <3>2, Zenon
  <2>5. PlainResult(k, Deny(q[1] + window, q)) = Deny(q[1] + window, q)
    BY DEF PlainResult, Deny
  <2>6. Decide(RuleOf[k], Plain(k, store[k].entry), clock) = Deny(q[1] + window, q)
    BY <1>6, <1>11
  <2>7. AgreesOn(k, outcome)
    <3>1. Deny(q[1] + window, q).allowed = FALSE /\ Deny(q[1] + window, q).entry = q
      BY DEF Deny
    <3> QED
      BY <1>5, <2>2, <2>4, <2>5, <2>6, <3>1, Zenon DEF AgreesOn
  <2> QED
    BY <1>1, <2>2, <2>7, Zenon
<1> QED
  BY <1>9, <1>10, <1>11

-----------------------------------------------------------------------------
(***************************************************************************)
(* The refinement.                                                         *)
(***************************************************************************)

\* What the atomic storage sees of the server stays as it is.
LEMMA Unseen ==
    ASSUME \A k \in Exact : /\ store'[k].entry = store[k].entry /\ granted'[k] = granted[k]
                            /\ high'[k] = high[k],
           reply' = reply
    PROVE  UNCHANGED Atomic!atomicVars
<1>1. PlainReply' = PlainReply
  BY DEF PlainReply
<1>2. [k \in Exact |-> Plain(k, store[k].entry)]' = [k \in Exact |-> Plain(k, store[k].entry)]
  OBVIOUS
<1> QED
  BY <1>1, <1>2 DEF Atomic!atomicVars

LEMMA SameDecisions ==
    ASSUME NEW rule, NEW entry, NEW now
    PROVE  Atomic!Decide(rule, entry, now) = Decide(rule, entry, now)
BY Zenon DEF Atomic!Decide, Decide, Atomic!sliding_window, sliding_window, Atomic!fixed_window, fixed_window,
   Atomic!token_bucket, token_bucket, Atomic!leaky_bucket, leaky_bucket, Atomic!gcra, gcra,
   Atomic!Pruned, Pruned, Atomic!Admit, Admit, Atomic!Deny, Deny, Atomic!AtMost, AtMost,
   Atomic!AtLeastZero, AtLeastZero, Atomic!Elapsed, Elapsed, Atomic!Leaked, Leaked,
   Atomic!Later, Later, Atomic!BurstInterval, BurstInterval, Atomic!Aligned, Aligned,
   Atomic!CurrentWindow, CurrentWindow, Atomic!Min, Min

\* The other algorithms have nothing to translate.
LEMMA OthersAgree ==
    ASSUME Typed, InTime, BucketsOutlive, NEW k \in Exact, RuleOf[k].algorithm # "sliding_window",
           NEW id, NEW script, script = Script(RuleOf[k], LiveEntry(k), clock, id)
    PROVE  /\ AgreesOn(k, script.outcome)
           /\ script.outcome = Decide(RuleOf[k], store[k].entry, clock)
           /\ script.ttl = IF RuleOf[k].algorithm = "gcra" THEN script.outcome.reset_at - clock
                                                           ELSE BucketTTL
<1>1. RuleOf[k].algorithm \in {"token_bucket", "leaky_bucket", "gcra"} /\ RuleOf[k] \in LimitRule
  BY ExactKeys
<1>2. PICK entry : entry = store[k].entry
  OBVIOUS
<1>3. entry \in EntryUnder(RuleOf[k]) /\ clock \in Nat
  BY <1>2, ExactKeys, ClockReading DEF Typed, ServerTyped, ClientsTyped, StoredUnder
<1>4. PICK outcome \in Outcome : outcome = Decide(RuleOf[k], entry, clock)
  BY <1>1, <1>3, DecideType
<1>5. /\ script.outcome = outcome
      /\ script.ttl = IF RuleOf[k].algorithm = "gcra" THEN outcome.reset_at - clock ELSE BucketTTL
  <2>1. Decide(RuleOf[k], LiveEntry(k), clock) = outcome
    BY <1>2, <1>4, ExpiryUnnoticed
  <2> QED
    BY <1>1, <2>1, ScriptDecides
<1>6. \A e : Plain(k, e) = e
  BY DEF Plain
<1>7. [outcome EXCEPT !.entry = Plain(k, @)] = outcome
  <2>1. [outcome EXCEPT !.entry = Plain(k, @)] \in Outcome
    BY <1>6 DEF Outcome
  <2> QED
    BY <1>6 DEF Outcome
<1>8. PlainResult(k, outcome) = outcome
  BY DEF PlainResult
<1>9. AgreesOn(k, outcome)
  BY <1>2, <1>4, <1>6, <1>7, <1>8, Zenon DEF AgreesOn
<1> QED
  BY <1>2, <1>4, <1>5, <1>9, Zenon

\* The script of an exact key either does what the atomic storage would, or is run a
\* second time for a request that it has admitted.
LEMMA EvalCommits ==
    ASSUME Typed, InTime, BucketsOutlive, NEW k \in Exact, NEW t \in Times, NEW id \in RequestIds,
           NEW p, Eval(id, p, k, t)
    PROVE  Atomic!OrderedNext \/ UNCHANGED Atomic!atomicVars
<1>1. PICK outcome : outcome = Evaluated(id, k, t).outcome
                     /\ outcome = Script(RuleOf[k], LiveEntry(k), clock, id).outcome
  BY ExactKeys DEF Evaluated
<1>2. PICK again \in BOOLEAN : again <=> outcome.allowed /\ Known(id, k, t)
  OBVIOUS
<1>3. /\ k \in Keys /\ clock \in 0 .. MaxTime /\ ScriptTime(k, t) = clock
      /\ clock \in Times /\ clock \in Nat
  BY ExactKeys, ClockReading DEF Typed, ClientsTyped
<1>4. /\ store'[k].entry = outcome.entry
      /\ \A l \in Keys \ {k} : store'[l] = store[l]
      /\ high' = [high EXCEPT ![k] = Later(@, clock)]
  BY <1>1, <1>3 DEF Eval, Typed, ServerTyped
<1>5. PICK allowed \in BOOLEAN : allowed <=> outcome.allowed /\ ~again
  OBVIOUS
<1>6. /\ granted'[k] = IF allowed THEN Append(granted[k], [stamp |-> clock, at |-> clock])
                                  ELSE granted[k]
      /\ \A l \in Keys \ {k} : granted'[l] = granted[l]
  <2>1. PICK admitted : admitted = (outcome.allowed /\ ~again) /\ Grant(k, admitted, clock)
    <3>1. Grant(k, outcome.allowed /\ ~(outcome.allowed /\ Known(id, k, t)), clock)
      BY <1>1, <1>3 DEF Eval
    <3> QED
      BY <1>2, <3>1 DEF Grant
  <2>2. /\ granted'[k] = IF admitted THEN Append(granted[k], [stamp |-> clock, at |-> clock])
                                     ELSE granted[k]
        /\ \A l \in Keys \ {k} : granted'[l] = granted[l]
    BY <1>3, <2>1, GrantTyped
  <2> QED
    BY <1>5, <2>1, <2>2
<1>7. /\ high[k] \in Nat /\ high[k] <= clock
      /\ high'[k] = clock /\ \A l \in Keys \ {k} : high'[l] = high[l]
  BY <1>3, <1>4 DEF Typed, ServerTyped, InTime, Later
<1>8. \A l \in Exact : l \in Keys
  BY ExactKeys
<1>9. again => /\ RuleOf[k].algorithm = "sliding_window" /\ Recalled(k, id)
  BY <1>2, <1>3 DEF Known, Recalled
<1>10. ~again => ~outcome.allowed \/ RuleOf[k].algorithm # "sliding_window" \/ ~Recalled(k, id)
  BY <1>2, <1>3 DEF Known, Recalled
<1>11. CASE again
  <2>1. outcome.entry = store[k].entry /\ high[k] = clock
    BY <1>1, <1>2, <1>9, <1>11, SlidingAgrees
  <2>2. reply' = reply
    BY <1>1, <1>2, <1>11 DEF Eval
  <2>3. \A l \in Exact : /\ store'[l].entry = store[l].entry /\ granted'[l] = granted[l]
                         /\ high'[l] = high[l]
    BY <1>4, <1>5, <1>6, <1>7, <1>8, <1>11, <2>1
  <2> QED
    BY <2>2, <2>3, Unseen
<1>12. CASE ~again
  <2>1. AgreesOn(k, outcome)
    <3>1. CASE RuleOf[k].algorithm = "sliding_window"
      BY <1>1, <1>10, <1>12, <3>1, SlidingAgrees
    <3>2. CASE RuleOf[k].algorithm # "sliding_window"
      BY <1>1, <3>2, OthersAgree
    <3> QED
      BY <3>1, <3>2
  <2>2. PICK decision :
            /\ decision = Decide(RuleOf[k], Plain(k, store[k].entry), clock)
            /\ decision = PlainResult(k, [outcome EXCEPT !.entry = Plain(k, @)])
            /\ decision.allowed = outcome.allowed
            /\ decision.entry = Plain(k, outcome.entry)
    BY <2>1, Zenon DEF AgreesOn
  <2>3. [x \in Exact |-> Plain(x, store[x].entry)]'
            = [[x \in Exact |-> Plain(x, store[x].entry)] EXCEPT ![k] = decision.entry]
    BY <1>4, <1>8, <2>2
  <2>4. [x \in Exact |-> [i \in DOMAIN granted[x] |-> granted[x][i].stamp]]'
            = [[x \in Exact |-> [i \in DOMAIN granted[x] |-> granted[x][i].stamp]] EXCEPT ![k] =
                  IF decision.allowed THEN Append(@, clock) ELSE @]
    <3>1. PICK grant \in Grants : grant = [stamp |-> clock, at |-> clock] /\ grant.stamp = clock
      <4>1. [stamp |-> clock, at |-> clock] \in Grants
        BY <1>3 DEF Grants
      <4> QED
        BY <4>1
    <3>2. granted[k] \in Seq(Grants)
      BY <1>3 DEF Typed, ServerTyped
    <3>3. StampsOf(granted'[k]) = IF decision.allowed THEN Append(StampsOf(granted[k]), clock)
                                                      ELSE StampsOf(granted[k])
      BY <1>5, <1>6, <1>12, <2>2, <3>1, <3>2, StampsOfMore
    <3>4. \A x \in Exact : x # k => StampsOf(granted'[x]) = StampsOf(granted[x])
      BY <1>6, <1>8
    <3>5. [x \in Exact |-> StampsOf(granted'[x])]
            = [[x \in Exact |-> StampsOf(granted[x])] EXCEPT ![k] =
                  IF decision.allowed THEN Append(@, clock) ELSE @]
      BY <3>3, <3>4
    <3> QED
      BY <3>5, Zenon DEF StampsOf
  <2>5. [x \in Exact |-> high[x]]' = [[x \in Exact |-> high[x]] EXCEPT ![k] = Atomic!Later(@, clock)]
    <3>1. [x \in Exact |-> high[x]][k] = high[k] /\ Atomic!Later(high[k], clock) = clock
      BY <1>3, <1>7 DEF Atomic!Later
    <3>2. [x \in Exact |-> high'[x]] = [[x \in Exact |-> high[x]] EXCEPT ![k] = clock]
      BY <1>7, <1>8
    <3> QED
      BY <3>1, <3>2, Zenon
  <2>6. PlainReply' = [called |-> TRUE, key |-> k, now |-> clock, result |-> decision]
    <3>1. reply' = [called |-> TRUE, key |-> k, now |-> clock,
                    result |-> [outcome EXCEPT !.entry = Plain(k, @)],
                    stamp |-> t, skew |-> Skew[p]]
      BY <1>1, <1>2, <1>3, <1>12 DEF Eval
    <3> QED
      BY <2>2, <3>1 DEF PlainReply
  <2>7. Atomic!Decide(ExactRules[k], [x \in Exact |-> Plain(x, store[x].entry)][k], clock) = decision
    BY <2>2, SameDecisions DEF ExactRules
  <2>8. PICK now \in 0 .. MaxTime : now = clock
    BY <1>3
  <2>9. Atomic!Commit(k, now)
    BY <2>3, <2>4, <2>5, <2>6, <2>7, <2>8, Zenon DEF Atomic!Commit, Atomic!Record
  <2>10. Atomic!OrderedCommit(k, now)
    BY <1>7, <2>8, <2>9 DEF Atomic!OrderedCommit
  <2> QED
    BY <2>10 DEF Atomic!OrderedNext, Atomic!Stamps
<1> QED
  BY <1>11, <1>12

\* What the buckets write.
LEMMA GcraWrites ==
    ASSUME NEW entry, NEW capacity, NEW interval, NEW now,
           NEW outcome, outcome = gcra(entry, capacity, interval, now)
    PROVE  /\ ~outcome.allowed => outcome.entry = entry
           /\ outcome.allowed => outcome.entry = <<outcome.reset_at>>
<1>1. PICK tat, burst, new_tat, spare :
        outcome = IF tat <= now + burst
                  THEN Admit(AtLeastZero(spare \div interval), new_tat, <<new_tat>>)
                  ELSE Deny(tat - burst, entry)
  BY Zenon DEF gcra
<1> QED
  BY <1>1 DEF Admit, Deny

LEMMA TokenPays ==
    ASSUME NEW entry \in Entry, Len(entry) \in {0, 2}, NEW now \in Nat,
           NEW capacity \in Positive, NEW interval \in Positive,
           NEW outcome, outcome = token_bucket(entry, capacity, interval, now)
    PROVE  /\ ~outcome.allowed => outcome.entry = entry
           /\ outcome.allowed => \E left \in Nat : outcome.entry = <<left, now>>
<1> DEFINE full   == capacity * interval
           bucket == IF entry = <<>> THEN <<full, now>> ELSE entry
           level  == AtMost(bucket[1] + Elapsed(now, bucket[2]), full)
<1>1. full \in Int
  BY DEF Positive
<1>2. bucket[1] \in Int /\ bucket[2] \in Int
  BY <1>1, PairEntry
<1> HIDE DEF full, bucket
<1>3. level \in Int /\ interval \in Int
  BY <1>1, <1>2 DEF Elapsed, AtLeastZero, AtMost, Positive
<1> HIDE DEF level
<1>4. CASE level >= interval
  <2>1. PICK left \in Nat : left = level - interval
    BY <1>3, <1>4
  <2>2. outcome = Admit(left \div interval, now + (full - left), <<left, now>>)
    BY <1>4, <2>1 DEF token_bucket, full, bucket, level
  <2> QED
    BY <2>2 DEF Admit
<1>5. CASE ~(level >= interval)
  <2>1. outcome = Deny(now + (interval - level), entry)
    BY <1>5 DEF token_bucket, full, bucket, level
  <2> QED
    BY <2>1 DEF Deny
<1> QED
  BY <1>4, <1>5

\* What the script writes is current at once.
LEMMA SlidingWrites ==
    ASSUME Typed, InTime, NEW k \in Exact, RuleOf[k].algorithm = "sliding_window",
           NEW id \in RequestIds,
           NEW script, script = Script(RuleOf[k], LiveEntry(k), clock, id),
           NEW value, value.entry = script.outcome.entry,
           value.expires = IF script.outcome.allowed THEN clock + script.ttl ELSE store[k].expires
    PROVE  Current(k, value, clock)
<1>1. PICK window \in Nat, now \in Nat : window = RuleOf[k].window /\ now = clock /\ window >= 1
  BY ExactKeys, ClockReading DEF Positive, Typed, ClientsTyped
<1>2. script.ttl = window
  BY <1>1 DEF Script, sliding_window_script, Expiring
<1>3. PICK outcome : outcome = script.outcome
  OBVIOUS
<1>4. PICK expires \in Int :
          expires = value.expires /\ expires = IF outcome.allowed THEN now + window ELSE store[k].expires
  BY <1>1, <1>2, <1>3, ExactKeys DEF Typed, ServerTyped, StoredUnder
<1>5. PICK left \in Seq(Members), n \in Nat :
          /\ left = Left(k) /\ n = Len(left) /\ DOMAIN left = 1 .. n /\ InOrder(left)
          /\ \A i \in 1 .. n : /\ now - window < left[i][1] /\ left[i][1] <= now
                               /\ store[k].expires >= left[i][1] + window
                               /\ left[i][1] \in Nat
  BY <1>1, LeftInTime, ScoresRead
<1>6. SUFFICES ASSUME NEW entry \in Seq(Members), entry = outcome.entry,
                      NEW m \in Nat, DOMAIN entry = 1 .. m
               PROVE  /\ InOrder(entry)
                      /\ \A i \in 1 .. m : /\ now - window < entry[i][1] /\ entry[i][1] <= now
                                           /\ expires >= entry[i][1] + window
  <2>1. PICK entry \in Seq(Members), m \in Nat : entry = outcome.entry /\ DOMAIN entry = 1 .. m
    <3>1. outcome.entry \in Seq(Members)
      <4>1. CASE outcome.allowed /\ Recalled(k, id)
        <5>1. outcome.entry = store[k].entry
          BY <1>3, <4>1, SlidingAgrees
        <5> QED
          BY <5>1, ExactKeys DEF Typed, ServerTyped, StoredUnder
      <4>2. CASE outcome.allowed /\ ~Recalled(k, id)
        <5>1. outcome.entry = Append(left, <<clock, id>>)
          BY <1>3, <1>5, <4>2, SlidingAgrees
        <5>2. <<clock, id>> \in Members
          BY <1>1 DEF Members
        <5> QED
          BY <5>1, <5>2, AppendProperties
      <4>3. CASE ~outcome.allowed
        BY <1>3, <1>5, <4>3, SlidingAgrees
      <4> QED
        BY <4>1, <4>2, <4>3
    <3> QED
      BY <3>1, LenProperties
  <2> QED
    BY <1>1, <1>3, <1>4, <1>6, <2>1 DEF Current
<1>7. CASE outcome.allowed /\ Recalled(k, id)
  <2>1. entry = store[k].entry /\ high[k] = now
    BY <1>1, <1>3, <1>6, <1>7, SlidingAgrees
  <2>2. Current(k, store[k], high[k])
    BY DEF InTime
  <2>3. /\ InOrder(entry)
        /\ \A i \in 1 .. m : now - window < entry[i][1] /\ entry[i][1] <= now
    BY <1>1, <1>6, <2>1, <2>2 DEF Current
  <2>4. \A i \in 1 .. m : entry[i][1] \in Nat
    BY <1>6, ScoresRead
  <2>5. expires = now + window
    BY <1>4, <1>7
  <2>6. ASSUME NEW i \in 1 .. m
        PROVE  expires >= entry[i][1] + window
    <3>1. PICK score \in Nat : score = entry[i][1] /\ score <= now
      BY <2>3, <2>4
    <3>2. now + window >= score + window
      BY <1>1, <3>1
    <3> QED
      BY <2>5, <3>1, <3>2, Zenon
  <2> QED
    BY <2>3, <2>6
<1>8. CASE outcome.allowed /\ ~Recalled(k, id)
  <2>1. PICK member \in Members : member = <<clock, id>> /\ member[1] = now
    <3>1. <<now, id>> \in Members /\ <<now, id>>[1] = now
      BY <1>1 DEF Members
    <3> QED
      BY <1>1, <3>1, Zenon
  <2>2. entry = Append(left, member)
    BY <1>3, <1>5, <1>6, <1>8, <2>1, SlidingAgrees
  <2>3. /\ m = n + 1
        /\ \A i \in 1 .. n : entry[i] = left[i]
        /\ entry[n + 1] = member
    <3>1. /\ Len(entry) = Len(left) + 1
          /\ \A i \in 1 .. Len(left) : entry[i] = left[i]
          /\ entry[Len(left) + 1] = member
      BY <2>2, AppendProperties
    <3>2. Len(entry) = m
      BY <1>6, LenProperties
    <3> QED
      BY <1>5, <3>1, <3>2
  <2>4. \A i \in 1 .. n + 1 : i \in 1 .. n \/ i = n + 1
    OBVIOUS
  <2>5. expires = now + window
    BY <1>4, <1>8
  <2>6. \A i \in 1 .. m : /\ now - window < entry[i][1] /\ entry[i][1] <= now
                          /\ expires >= entry[i][1] + window
    <3> SUFFICES ASSUME NEW i \in 1 .. n + 1
                 PROVE  /\ now - window < entry[i][1] /\ entry[i][1] <= now
                        /\ expires >= entry[i][1] + window
      BY <2>3
    <3>1. PICK score \in Nat : score = entry[i][1] /\ now - window < score /\ score <= now
      <4>1. CASE i \in 1 .. n
        BY <1>5, <2>3, <4>1
      <4>2. CASE i = n + 1
        BY <1>1, <2>1, <2>3, <4>2
      <4> QED
        BY <2>4, <4>1, <4>2
    <3> QED
      BY <2>5, <3>1
  <2>7. InOrder(entry)
    <3> SUFFICES ASSUME NEW i \in 1 .. m, NEW j \in 1 .. m, i < j
                 PROVE  entry[i][1] <= entry[j][1]
      BY <1>6 DEF InOrder
    <3>1. i \in 1 .. n
      BY <2>3
    <3>2. CASE j \in 1 .. n
      BY <1>5, <2>3, <3>1, <3>2 DEF InOrder
    <3>3. CASE j = n + 1
      BY <1>5, <2>1, <2>3, <3>1, <3>3
    <3> QED
      BY <2>3, <2>4, <3>2, <3>3
  <2> QED
    BY <2>6, <2>7
<1>9. CASE ~outcome.allowed
  <2>1. entry = left
    BY <1>3, <1>5, <1>6, <1>9, SlidingAgrees
  <2>2. m = n /\ expires = store[k].expires
    BY <1>4, <1>5, <1>6, <1>9, <2>1, LenProperties
  <2> QED
    BY <1>5, <2>1, <2>2
<1> QED
  BY <1>7, <1>8, <1>9

LEMMA EvalKeepsTime ==
    ASSUME Typed, InTime, BucketsOutlive, NEW k \in Keys \ FixedKeys, NEW t \in Times,
           NEW id \in RequestIds, NEW p, Eval(id, p, k, t), clock' = clock
    PROVE  InTime'
<1>1. PICK script : script = Evaluated(id, k, t)
  OBVIOUS
<1>2. PICK outcome, expires :
          /\ outcome = script.outcome
          /\ expires = IF outcome.allowed THEN clock + script.ttl ELSE store[k].expires
  OBVIOUS
<1>3. /\ store'[k].entry = outcome.entry /\ store'[k].expires = expires
      /\ \A l \in Keys \ {k} : store'[l] = store[l]
      /\ high' = [high EXCEPT ![k] = Later(@, ScriptTime(k, t))]
  BY <1>1, <1>2 DEF Eval, Typed, ServerTyped
<1>4. ASSUME NEW l \in Exact, l # k
      PROVE  high'[l] <= clock' /\ Current(l, store'[l], high'[l])
  <2>1. store'[l] = store[l] /\ high'[l] = high[l]
    BY <1>3, <1>4, ExactKeys DEF Typed, ServerTyped
  <2> QED
    BY <2>1 DEF InTime
<1>5. ASSUME k \in Exact
      PROVE  high'[k] <= clock' /\ Current(k, store'[k], high'[k])
  <2>1. /\ clock \in Nat /\ high[k] \in Nat /\ high[k] <= clock
        /\ Current(k, store[k], high[k]) /\ script = Script(RuleOf[k], LiveEntry(k), clock, id)
        /\ <<clock, id>> \in Members
    BY <1>1, <1>5, ExactKeys, ClockReading
       DEF Typed, ClientsTyped, ServerTyped, InTime, Evaluated, Members
  <2>2. high'[k] = clock
    BY <1>3, <1>5, <2>1, ExactKeys DEF Typed, ServerTyped, Later
  <2>3. CASE RuleOf[k].algorithm = "sliding_window"
    <3>1. PICK value : value = store'[k]
      OBVIOUS
    <3>2. /\ value.entry = script.outcome.entry
          /\ value.expires = IF script.outcome.allowed THEN clock + script.ttl ELSE store[k].expires
      BY <1>2, <1>3, <3>1
    <3>3. Current(k, value, clock)
      BY <1>5, <2>1, <2>3, <3>2, SlidingWrites
    <3> QED
      BY <2>1, <2>2, <3>1, <3>3
  <2>4. CASE RuleOf[k].algorithm # "sliding_window"
    <3>1. /\ outcome = Decide(RuleOf[k], store[k].entry, clock)
          /\ script.ttl = IF RuleOf[k].algorithm = "gcra" THEN outcome.reset_at - clock ELSE BucketTTL
          /\ RuleOf[k].algorithm \in {"gcra", "token_bucket"}
          /\ RuleOf[k] \in LimitRule
      BY <1>2, <1>5, <2>1, <2>4, OthersAgree, ExactKeys
    <3>2. store[k].entry \in EntryUnder(RuleOf[k]) /\ store[k].expires \in Int
      BY <1>5, <2>4, ExactKeys DEF Typed, ServerTyped, StoredUnder
    <3>3. outcome.reset_at \in Int
      BY <2>1, <3>1, <3>2, DecideType DEF Outcome
    <3>4. ~outcome.allowed => outcome.entry = store[k].entry
      <4>1. CASE RuleOf[k].algorithm = "gcra"
        BY <3>1, <4>1, GcraWrites DEF Decide
      <4>2. CASE RuleOf[k].algorithm = "token_bucket"
        BY <1>5, <2>1, <2>4, <3>1, <3>2, <4>2, ExactKeys, TokenPays DEF Decide, EntryUnder
      <4> QED
        BY <3>1, <4>1, <4>2
    <3>5. CASE ~outcome.allowed
      BY <1>2, <1>3, <2>1, <2>2, <2>4, <3>4, <3>5 DEF Current
    <3>6. CASE outcome.allowed /\ RuleOf[k].algorithm = "gcra"
      <4>1. outcome.entry = <<outcome.reset_at>>
        BY <3>1, <3>6, GcraWrites DEF Decide
      <4>2. expires = clock + (outcome.reset_at - clock)
        BY <1>2, <3>1, <3>6
      <4>3. outcome.entry[1] = outcome.reset_at /\ expires = outcome.reset_at
        BY <2>1, <3>3, <4>1, <4>2
      <4> QED
        BY <1>3, <2>1, <2>2, <2>4, <3>3, <3>6, <4>3 DEF Current
    <3>7. CASE outcome.allowed /\ RuleOf[k].algorithm = "token_bucket"
      <4>1. PICK left \in Nat : outcome.entry = <<left, clock>>
        BY <1>5, <2>1, <2>4, <3>1, <3>2, <3>7, ExactKeys, TokenPays DEF Decide, EntryUnder
      <4>2. expires = clock + BucketTTL /\ BucketTTL \in Nat
        BY <1>2, <3>1, <3>7, BucketTTLAssumption DEF Positive
      <4>3. outcome.entry[1] >= 0 /\ outcome.entry[2] = clock
        BY <4>1
      <4> QED
        BY <1>3, <2>1, <2>2, <2>4, <3>7, <4>2, <4>3 DEF Current
    <3> QED
      BY <3>1, <3>5, <3>6, <3>7
  <2> QED
    BY <2>3, <2>4
<1> QED
  BY <1>4, <1>5 DEF InTime

\* A step of the server is a step of the atomic storage, or none.
Implemented == Atomic!OrderedNext \/ UNCHANGED Atomic!atomicVars

LEMMA EvalImplements ==
    ASSUME Typed, InTime, BucketsOutlive, NEW k \in Keys \ FixedKeys, NEW t \in Times,
           NEW id \in RequestIds, NEW p, Eval(id, p, k, t), clock' = clock
    PROVE  Implemented /\ InTime'
<1>1. InTime'
  BY EvalKeepsTime
<1>2. CASE k \in Exact
  BY <1>1, <1>2, EvalCommits DEF Implemented
<1>3. CASE k \notin Exact
  <2>1. \A l \in Exact : l \in Keys \ {k}
    BY <1>3, ExactKeys
  <2>2. PICK allowed : allowed = Evaluated(id, k, t).outcome.allowed
    OBVIOUS
  <2>3. \A l \in Keys \ {k} : granted'[l] = granted[l]
    BY <2>2, EvalRecords
  <2>4. /\ reply' = reply
        /\ \A l \in Keys \ {k} : store'[l] = store[l] /\ high'[l] = high[l]
    BY <1>3 DEF Eval, Typed, ServerTyped
  <2>5. UNCHANGED Atomic!atomicVars
    BY <2>1, <2>3, <2>4, Unseen
  <2> QED
    BY <1>1, <2>5 DEF Implemented
<1> QED
  BY <1>2, <1>3

LEMMA PassiveStep ==
    ASSUME Typed, InTime, Passive, clock' \in {clock, clock + 1},
           \A k \in Exact : granted'[k] = granted[k]
    PROVE  Implemented /\ InTime'
<1>1. UNCHANGED Atomic!atomicVars
  BY Unseen DEF Passive
<1>2. ASSUME NEW k \in Exact
      PROVE  high'[k] <= clock' /\ Current(k, store'[k], high'[k])
  <2>1. high[k] \in Nat /\ clock \in Nat
    BY ExactKeys, ClockReading DEF Typed, ClientsTyped, ServerTyped
  <2>2. high[k] <= clock /\ Current(k, store[k], high[k])
    BY DEF InTime
  <2> QED
    BY <2>1, <2>2 DEF Passive
<1> QED
  BY <1>1, <1>2 DEF Implemented, InTime

LEMMA NextImplements ==
    ASSUME Typed, InTime, BucketsOutlive, [Next]_vars
    PROVE  Implemented /\ InTime'
<1>1. ASSUME NEW k \in Keys \ FixedKeys, NEW t \in Times, NEW id \in RequestIds,
             NEW p \in Processes, Eval(id, p, k, t), clock' = clock
      PROVE  Implemented /\ InTime'
  BY <1>1, EvalImplements
<1>2. CASE Passive /\ clock' \in {clock, clock + 1}
           /\ \A k \in Keys \ FixedKeys : granted'[k] = granted[k]
  <2>1. \A k \in Exact : k \in Keys \ FixedKeys
    BY ExactKeys
  <2> QED
    BY <1>2, <2>1, PassiveStep
<1> QED
  BY <1>1, <1>2, ServerStep

LEMMA InitImplements ==
    ASSUME Init
    PROVE  Atomic!AtomicInit /\ InTime
<1>1. \A k \in Exact : k \in Keys
  BY ExactKeys
<1>2. \A k \in Exact : store[k] = Absent /\ granted[k] = <<>> /\ high[k] = 0
  BY <1>1 DEF Init
<1>3. [k \in Exact |-> Plain(k, store[k].entry)] = [k \in Exact |-> <<>>]
  BY <1>2 DEF Absent, Plain
<1>4. [k \in Exact |-> [i \in DOMAIN granted[k] |-> granted[k][i].stamp]] = [k \in Exact |-> <<>>]
  BY <1>2
<1>5. [k \in Exact |-> high[k]] = [k \in Exact |-> 0]
  BY <1>2
<1>6. PlainReply = Atomic!NoReply
  BY DEF Init, PlainReply, NoReply, Atomic!NoReply
<1>7. Atomic!AtomicInit
  BY <1>3, <1>4, <1>5, <1>6 DEF Atomic!AtomicInit
<1>8. InTime
  BY <1>2 DEF Init, InTime, Current, InOrder, Absent
<1> QED
  BY <1>7, <1>8

\* ImplementsAtomicStorage: as long as no bucket can take longer to fill than its key
\* lives, each call of an exact key takes effect at one instant, decided as the atomic
\* storage would, whatever becomes of commands and replies.
THEOREM ImplementsAtomicStorageHolds ==
    ASSUME BucketsOutlive
    PROVE  Spec => ImplementsAtomicStorage
<1>1. Init => Atomic!AtomicInit /\ InTime
  BY InitImplements
<1>2. Typed /\ InTime /\ [Next]_vars => [Atomic!OrderedNext]_(Atomic!atomicVars) /\ InTime'
  BY NextImplements DEF Implemented
<1> QED
  BY <1>1, <1>2, TypesHold, PTL DEF Spec, ImplementsAtomicStorage, Atomic!OrderedSpec

-----------------------------------------------------------------------------
(***************************************************************************)
(* What a denied caller is told.                                           *)
(***************************************************************************)

LEMMA RoomRemains ==
    ASSUME NEW q \in Entry, NEW limit \in Positive, NEW window \in Positive, Len(q) < limit,
           NEW stamp \in Int
    PROVE  sliding_window(q, window, limit, stamp).allowed
<1>1. stamp - window \in Int /\ limit \in Int
  BY DEF Positive
<1>2. PICK kept \in Entry, dropped \in 0 .. Len(q) :
          kept = Pruned(q, stamp - window) /\ Len(kept) = Len(q) - dropped
  <2>1. Pruned(q, stamp - window) \in Entry
        /\ \E dropped \in 0 .. Len(q) : Len(Pruned(q, stamp - window)) = Len(q) - dropped
    BY <1>1, PrunedIsSuffix
  <2> QED
    BY <2>1
<1>3. Len(kept) < limit
  BY <1>1, <1>2 DEF Entry
<1>4. PICK remaining, reset_at, entry :
          sliding_window(q, window, limit, stamp) = Admit(remaining, reset_at, entry)
  BY <1>2, <1>3 DEF sliding_window
<1> QED
  BY <1>4 DEF Admit

\* The script of the sliding window never keeps more than `limit' members, denies
\* just as the memory storage would, and when it runs again for a request that it
\* knows there is room left.
LEMMA SlidingReplies ==
    ASSUME NEW live \in Seq(Members), NEW window \in Positive, NEW limit \in Positive,
           Len(live) <= limit, NEW now \in Nat, NEW id \in RequestIds,
           NEW outcome, outcome = sliding_window_script(live, window, limit, now, id).outcome,
           NEW result, result = [outcome EXCEPT !.entry = Scores(@)]
    PROVE  /\ outcome.entry \in Seq(Members) /\ Len(outcome.entry) <= limit
           /\ result.allowed = outcome.allowed /\ result.entry = Scores(outcome.entry)
           /\ ~outcome.allowed => result = sliding_window(Scores(live), window, limit, now)
           /\ outcome.allowed /\ (\E j \in DOMAIN live : live[j] = <<now, id>>) =>
                  \A stamp \in Int :
                      sliding_window(Scores(outcome.entry), window, limit, stamp).allowed
<1>1. PICK cutoff \in Int : cutoff = now - window /\ now > cutoff
  BY DEF Positive
<1>2. PICK member \in Members : member = <<now, id>> /\ member[1] = now
  <2>1. <<now, id>> \in Members /\ <<now, id>>[1] = now
    BY DEF Members
  <2> QED
    BY <2>1
<1>3. PICK recent \in Seq(Members), d \in 0 .. Len(live) :
          /\ recent = Unexpired(live, cutoff)
          /\ \A i \in 1 .. d : i \notin {j \in 1 .. Len(live) : live[j][1] > cutoff}
          /\ Len(recent) = Len(live) - d
          /\ \A i \in 1 .. Len(live) - d : recent[i] = live[i + d]
  <2>1. PICK recent \in Seq(Members) :
            /\ recent = Unexpired(live, cutoff)
            /\ CutBefore(recent, live, {i \in 1 .. Len(live) : live[i][1] > cutoff})
    BY UnexpiredIsSuffix
  <2> QED
    BY <2>1 DEF CutBefore
<1>4. PICK n \in Nat, m \in Nat :
          /\ n = Len(recent) /\ m = Len(live) /\ n = m - d /\ m <= limit /\ limit \in Nat
          /\ DOMAIN live = 1 .. m
  BY <1>3, LenProperties DEF Positive
<1>5. outcome = IF n < limit
                THEN Admit(limit - n - 1, now + window, WithMember(recent, member))
                ELSE Deny(recent[1][1] + window, recent)
  BY <1>1, <1>2, <1>3, <1>4 DEF sliding_window_script, Expiring
<1>6. /\ Scores(recent) = Pruned(Scores(live), cutoff)
      /\ Scores(recent) \in Entry /\ Len(Scores(recent)) = n
  BY <1>3, <1>4, ScoresPruned, ScoresRead DEF Entry
<1>7. CASE n < limit
  <2>1. PICK entry \in Seq(Members) :
            entry = WithMember(recent, member) /\ Placed(entry, recent, member)
    BY MemberPlaced
  <2>2. Len(entry) = n \/ Len(entry) = n + 1
    BY <1>4, <2>1 DEF Placed
  <2>3. PICK remaining, reset_at :
            outcome = Admit(remaining, reset_at, entry)
    BY <1>5, <1>7, <2>1
  <2>4. outcome.entry = entry /\ outcome.allowed = TRUE
    BY <2>3 DEF Admit
  <2>5. result = Admit(remaining, reset_at, Scores(entry))
    <3>1. PICK scores : scores = Scores(entry)
      OBVIOUS
    <3>2. result = [outcome EXCEPT !.entry = scores]
      BY <2>4, <3>1
    <3> QED
      BY <2>3, <3>1, <3>2, AdmissionWritten
  <2>6. result.allowed = TRUE /\ result.entry = Scores(entry)
    BY <2>5 DEF Admit
  <2>7. Len(outcome.entry) <= limit
    BY <1>4, <1>7, <2>2, <2>4
  <2>8. ASSUME NEW j \in DOMAIN live, live[j] = <<now, id>>, NEW stamp \in Int
        PROVE  sliding_window(Scores(outcome.entry), window, limit, stamp).allowed
    <3>1. j \in 1 .. m /\ live[j][1] > cutoff
      BY <1>1, <1>2, <1>4, <2>8
    <3>2. j \notin 1 .. d
      BY <1>3, <1>4, <3>1
    <3>3. PICK i \in 1 .. n : j = i + d
      <4>1. j - d \in 1 .. n /\ j = (j - d) + d
        BY <1>3, <1>4, <3>1, <3>2
      <4> QED
        BY <4>1
    <3>4. recent[i] = member
      BY <1>2, <1>3, <1>4, <2>8, <3>3
    <3>5. entry = recent
      BY <1>4, <2>1, <3>4 DEF Placed
    <3> QED
      BY <1>6, <1>7, <2>4, <3>5, RoomRemains
  <2> QED
    BY <2>4, <2>1, <2>6, <2>7, <2>8
<1>8. CASE ~(n < limit)
  <2>1. PICK reset_at : outcome = Deny(reset_at, recent) /\ reset_at = recent[1][1] + window
    BY <1>5, <1>8
  <2>2. outcome.entry = recent /\ outcome.allowed = FALSE
    BY <2>1 DEF Deny
  <2>3. result = Deny(reset_at, Scores(recent))
    <3>1. PICK scores : scores = Scores(recent)
      OBVIOUS
    <3>2. result = [outcome EXCEPT !.entry = scores]
      BY <2>2, <3>1
    <3> QED
      BY <2>1, <3>1, <3>2, DenialWritten
  <2>4. Scores(recent)[1] = recent[1][1]
    <3>1. 1 \in 1 .. Len(recent)
      BY <1>4, <1>8 DEF Positive
    <3> QED
      BY <3>1, ScoresRead
  <2>5. sliding_window(Scores(live), window, limit, now) = Deny(reset_at, Scores(recent))
    BY <1>1, <1>6, <1>8, <2>1, <2>4 DEF sliding_window
  <2>6. result.allowed = FALSE /\ result.entry = Scores(recent)
    BY <2>3 DEF Deny
  <2>7. Len(outcome.entry) <= limit
    BY <1>3, <1>4, <2>2
  <2> QED
    BY <2>2, <2>3, <2>5, <2>6, <2>7
<1> QED
  BY <1>7, <1>8

\* A value that the script of k leaves at the time now.
FitsAt(k, entry, now) ==
    LET rule == RuleOf[k]
    IN  /\ rule.algorithm = "sliding_window" => Len(entry) <= rule.limit
        /\ rule.algorithm = "token_bucket" /\ entry # <<>> => entry[2] <= now

Fits == \A k \in Exact : FitsAt(k, store[k].entry, clock)

\* From reset_at on, a call of k is admitted.
Honoured(k, entry, reset_at) ==
    \A stamp \in Int : reset_at <= stamp => Decide(RuleOf[k], Plain(k, entry), stamp).allowed

\* What the reply says of the outcome of a script.
Replied(k, outcome, result) == result = [outcome EXCEPT !.entry = Plain(k, @)]

LEMMA SlidingHonoured ==
    ASSUME Typed, Fits, NEW k \in Exact, RuleOf[k].algorithm = "sliding_window",
           NEW t \in Times, NEW id \in RequestIds,
           NEW outcome, outcome = Evaluated(id, k, t).outcome,
           NEW result, Replied(k, outcome, result)
    PROVE  /\ FitsAt(k, outcome.entry, clock)
           /\ result.allowed = outcome.allowed
           /\ ~outcome.allowed =>
                  result.reset_at \in Int /\ Honoured(k, outcome.entry, result.reset_at)
           /\ outcome.allowed /\ Known(id, k, t) =>
                  \A reset_at : Honoured(k, outcome.entry, reset_at)
<1>1. PICK window \in Positive, limit \in Positive :
          window = RuleOf[k].window /\ limit = RuleOf[k].limit
  BY ExactKeys
<1>2. clock \in Nat /\ k \in Keys
  BY ExactKeys, ClockReading DEF Typed, ClientsTyped
<1>3. PICK live \in Seq(Members) : live = LiveEntry(k) /\ Len(live) <= limit
  <2>1. LiveEntry(k) \in Seq(Members)
    BY <1>2, LookedUp DEF StoredUnder
  <2>2. Len(store[k].entry) <= limit
    BY <1>1 DEF Fits, FitsAt
  <2>3. Len(<<>>) <= limit
    BY DEF Positive
  <2> QED
    BY <2>1, <2>2, <2>3 DEF LiveEntry
<1>4. outcome = sliding_window_script(live, window, limit, clock, id).outcome
  BY <1>1, <1>3, ExactKeys DEF Evaluated, Script
<1>5. \A entry : Plain(k, entry) = Scores(entry)
  BY DEF Plain, Scores
<1>6. result = [outcome EXCEPT !.entry = Scores(@)]
  BY <1>5 DEF Replied
<1>7. /\ outcome.entry \in Seq(Members) /\ Len(outcome.entry) <= limit
      /\ result.allowed = outcome.allowed /\ result.entry = Scores(outcome.entry)
      /\ ~outcome.allowed => result = sliding_window(Scores(live), window, limit, clock)
      /\ outcome.allowed /\ (\E j \in DOMAIN live : live[j] = <<clock, id>>) =>
             \A stamp \in Int : sliding_window(Scores(outcome.entry), window, limit, stamp).allowed
  <2>1. PICK now \in Nat : now = clock
    BY <1>2
  <2>2. outcome = sliding_window_script(live, window, limit, now, id).outcome /\ Len(live) <= limit
    BY <1>3, <1>4, <2>1
  <2>3. /\ outcome.entry \in Seq(Members) /\ Len(outcome.entry) <= limit
        /\ result.allowed = outcome.allowed /\ result.entry = Scores(outcome.entry)
        /\ ~outcome.allowed => result = sliding_window(Scores(live), window, limit, now)
        /\ outcome.allowed /\ (\E j \in DOMAIN live : live[j] = <<now, id>>) =>
               \A stamp \in Int : sliding_window(Scores(outcome.entry), window, limit, stamp).allowed
    <3>1. now \in Nat /\ window \in Positive /\ limit \in Positive /\ live \in Seq(Members)
      BY <1>1, <1>3, <2>1
    <3> QED
      BY <1>6, <2>2, <3>1, SlidingReplies
  <2> QED
    BY <2>1, <2>3
<1>8. \A entry, stamp : Decide(RuleOf[k], Plain(k, entry), stamp)
                          = sliding_window(Scores(entry), window, limit, stamp)
  BY <1>1, <1>5 DEF Decide
<1>9. ASSUME ~outcome.allowed
      PROVE  result.reset_at \in Int /\ Honoured(k, outcome.entry, result.reset_at)
  <2>1. Scores(live) \in Entry /\ Len(Scores(live)) <= limit
    BY <1>3, ScoresRead DEF Entry
  <2>2. result = sliding_window(Scores(live), window, limit, clock) /\ ~result.allowed
    BY <1>7, <1>9
  <2>3. result.reset_at \in Int
    <3>1. PICK rule : rule = RuleOf[k]
      OBVIOUS
    <3>2. rule \in LimitRule /\ rule.algorithm = "sliding_window"
      BY <3>1, ExactKeys
    <3>3. Scores(live) \in EntryUnder(rule)
      BY <2>1, <3>2 DEF EntryUnder
    <3>4. Decide(rule, Scores(live), clock) \in Outcome
      BY <1>2, <3>2, <3>3, DecideType
    <3>5. Decide(rule, Scores(live), clock) = result
      BY <1>1, <2>2, <3>1, <3>2 DEF Decide
    <3> QED
      BY <3>4, <3>5 DEF Outcome
  <2>4. ASSUME NEW stamp \in Int, result.reset_at <= stamp
        PROVE  Decide(RuleOf[k], Plain(k, outcome.entry), stamp).allowed
    <3>1. PICK now \in Nat, q \in Entry : now = clock /\ q = Scores(live) /\ Len(q) <= limit
      BY <1>2, <2>1
    <3>2. result = sliding_window(q, window, limit, now) /\ ~result.allowed
      BY <2>2, <3>1
    <3>3. sliding_window(result.entry, window, limit, stamp).allowed
      <4>1. /\ now \in Nat /\ window \in Positive /\ limit \in Positive /\ q \in Entry
            /\ Len(q) <= limit
        BY <1>1, <3>1
      <4> QED
        BY <2>4, <3>2, <4>1, SlidingRetry
    <3> QED
      BY <1>7, <1>8, <3>3
  <2> QED
    BY <2>3, <2>4 DEF Honoured
<1>10. ASSUME outcome.allowed, Known(id, k, t), NEW reset_at
       PROVE  Honoured(k, outcome.entry, reset_at)
  <2>1. \E j \in DOMAIN live : live[j] = <<clock, id>>
    BY <1>3, <1>10, ExactKeys DEF Known
  <2> QED
    BY <1>7, <1>8, <1>10, <2>1 DEF Honoured
<1> QED
  BY <1>1, <1>7, <1>9, <1>10 DEF FitsAt

LEMMA BucketsHonoured ==
    ASSUME Typed, Fits, NEW k \in Exact, RuleOf[k].algorithm # "sliding_window",
           NEW t \in Times, NEW id \in RequestIds,
           NEW outcome, outcome = Evaluated(id, k, t).outcome,
           NEW result, Replied(k, outcome, result)
    PROVE  /\ FitsAt(k, outcome.entry, clock)
           /\ result.allowed = outcome.allowed
           /\ ~outcome.allowed =>
                  result.reset_at \in Int /\ Honoured(k, outcome.entry, result.reset_at)
<1>1. PICK capacity \in Positive, interval \in Positive :
          capacity = RuleOf[k].capacity /\ interval = RuleOf[k].interval
  BY ExactKeys
<1>2. /\ clock \in Nat /\ k \in Keys /\ RuleOf[k] \in LimitRule
      /\ RuleOf[k].algorithm \in {"gcra", "token_bucket"}
  BY ExactKeys, ClockReading DEF Typed, ClientsTyped
<1>3. PICK live : live = LiveEntry(k) /\ live \in EntryUnder(RuleOf[k])
                  /\ (RuleOf[k].algorithm = "token_bucket" /\ live # <<>> => live[2] <= clock)
  <2>1. LiveEntry(k) \in EntryUnder(RuleOf[k])
    BY <1>2, LookedUp DEF StoredUnder
  <2>2. FitsAt(k, store[k].entry, clock)
    BY DEF Fits
  <2> QED
    BY <2>1, <2>2 DEF LiveEntry, FitsAt
<1>4. outcome = Decide(RuleOf[k], live, clock) /\ outcome \in Outcome
  <2>1. outcome = Script(RuleOf[k], live, clock, id).outcome
    BY <1>3, ExactKeys DEF Evaluated
  <2>2. outcome = Decide(RuleOf[k], live, clock)
    BY <1>2, <2>1, ScriptDecides
  <2> QED
    BY <1>2, <1>3, <2>2, DecideType
<1>5. \A entry : Plain(k, entry) = entry
  BY DEF Plain
<1>6. result = outcome
  <2>1. result \in Outcome
    BY <1>4, <1>5 DEF Outcome, Replied
  <2> QED
    BY <1>4, <1>5, <2>1 DEF Outcome, Replied
<1>7. live \in Entry
  BY <1>3 DEF EntryUnder
<1>8. CASE RuleOf[k].algorithm = "gcra"
  <2>1. \A entry, stamp : Decide(RuleOf[k], entry, stamp) = gcra(entry, capacity, interval, stamp)
    BY <1>1, <1>8 DEF Decide
  <2>2. Len(live) \in {0, 1}
    BY <1>3, <1>8 DEF EntryUnder
  <2>3. ASSUME ~outcome.allowed, NEW stamp \in Int, outcome.reset_at <= stamp
        PROVE  Decide(RuleOf[k], Plain(k, outcome.entry), stamp).allowed
    BY <1>2, <1>4, <1>5, <1>7, <2>1, <2>2, <2>3, GcraRetry
  <2> QED
    BY <1>4, <1>6, <1>8, <2>3 DEF Honoured, FitsAt, Outcome
<1>9. CASE RuleOf[k].algorithm = "token_bucket"
  <2>1. \A entry, stamp : Decide(RuleOf[k], entry, stamp) = token_bucket(entry, capacity, interval, stamp)
    BY <1>1, <1>9 DEF Decide
  <2>2. Len(live) \in {0, 2}
    BY <1>3, <1>9 DEF EntryUnder
  <2>3. ASSUME ~outcome.allowed, NEW stamp \in Int, outcome.reset_at <= stamp
        PROVE  Decide(RuleOf[k], Plain(k, outcome.entry), stamp).allowed
    <3>1. token_bucket(outcome.entry, capacity, interval, stamp).allowed
      BY <1>2, <1>3, <1>4, <1>7, <1>9, <2>1, <2>2, <2>3, TokenRetry
    <3> QED
      BY <1>5, <2>1, <3>1
  <2>4. FitsAt(k, outcome.entry, clock)
    <3>1. /\ ~outcome.allowed => outcome.entry = live
          /\ outcome.allowed => \E left \in Nat : outcome.entry = <<left, clock>>
      BY <1>2, <1>4, <1>7, <2>1, <2>2, TokenPays
    <3>2. CASE outcome.allowed
      <4>1. PICK left : outcome.entry = <<left, clock>>
        BY <3>1, <3>2
      <4>2. outcome.entry[2] = clock
        BY <4>1
      <4> QED
        BY <1>2, <1>9, <4>2 DEF FitsAt
    <3>3. CASE ~outcome.allowed
      BY <1>3, <1>9, <3>1, <3>3 DEF FitsAt
    <3> QED
      BY <3>2, <3>3
  <2> QED
    BY <1>4, <1>6, <2>3, <2>4 DEF Honoured, Outcome
<1> QED
  BY <1>2, <1>8, <1>9

\* The clocks that were read are behind the clocks now.
StampRead(c) ==
    /\ local[c].stamp <= clock + Skew[ProcessOf[c]]
    /\ local[c].now <= clock + Skew[ProcessOf[c]]

StampsRead ==
    /\ \A c \in Callers : StampRead(c)
    /\ \A m \in adrift : m.now <= clock + Skew[m.process]

LEMMA StampMoves ==
    ASSUME Typed, NEW c \in Callers, StampRead(c), Served(c) \/ Proceed(c) \/ Fault(c)
    PROVE  /\ StampRead(c)' /\ clock' = clock
           /\ \A m \in adrift' : m \in adrift \/ m.now <= clock + Skew[m.process]
<1>1. /\ local \in [Callers -> Locals] /\ local[c] \in Locals /\ clock \in Nat
      /\ Skew[ProcessOf[c]] \in Nat
  BY ClockReading, RedisAssumption DEF Typed, ClientsTyped
<1>2. clock' = clock
  <2>1. CASE Served(c)
    BY <2>1, Zenon DEF Served, ServeTime, ServeIncr, ServeExpire, ServeEval, Serve
  <2>2. CASE Proceed(c)
    BY <2>2, Zenon DEF Proceed, Begin, ReceiveAndGoOn, Return, ResortToMemory, FailOpen, FailClosed,
                       Answer, End
  <2>3. CASE Fault(c)
    BY <2>3, Zenon DEF Fault, Resend, Fail, Cancel, End
  <2> QED
    BY <2>1, <2>2, <2>3
<1>3. /\ local'[c].stamp \in {local[c].stamp, LocalClock(c), 0}
      /\ local'[c].now \in {local[c].now, LocalClock(c), clock, 0}
  <2>1. CASE Served(c)
    <3>1. CASE ServeTime(c)
      BY <1>1, <3>1 DEF ServeTime, Locals
    <3>2. CASE ServeIncr(c)
      BY <1>1, <3>2 DEF ServeIncr, Locals
    <3>3. CASE ServeExpire(c)
      BY <3>3 DEF ServeExpire
    <3>4. CASE ServeEval(c)
      BY <1>1, <3>4 DEF ServeEval, Locals, ScriptTime
    <3> QED
      BY <2>1, <3>1, <3>2, <3>3, <3>4 DEF Served
  <2>2. CASE Begin(c)
    <3>1. PICK k \in Keys :
              local' = [local EXCEPT ![c].op = FirstCommand(k),
                                     ![c].stamp = LocalClock(c), ![c].now = LocalClock(c)]
      BY <2>2, Zenon DEF Begin
    <3> QED
      BY <1>1, <3>1 DEF Locals
  <2>3. CASE ReceiveAndGoOn(c)
    BY <1>1, <2>3 DEF ReceiveAndGoOn, Locals
  <2>4. CASE Return(c) \/ ResortToMemory(c) \/ FailOpen(c) \/ FailClosed(c)
    <3>1. local'[c] = NoCall
      BY <2>4, CallerStep
    <3> QED
      BY <3>1 DEF NoCall
  <2>5. CASE Fault(c)
    <3>1. CASE Resend(c)
      BY <1>1, <3>1 DEF Resend, Locals
    <3>2. CASE Fail(c)
      BY <3>2 DEF Fail, callVars
    <3>3. CASE Cancel(c)
      BY <1>1, <3>3 DEF Cancel, End, NoCall
    <3> QED
      BY <2>5, <3>1, <3>2, <3>3 DEF Fault
  <2> QED
    BY <1>1, <2>1, <2>2, <2>3, <2>4, <2>5 DEF Proceed
<1>4. StampRead(c)'
  <2>1. PICK skew \in Nat : skew = Skew[ProcessOf[c]]
    BY <1>1
  <2>2. local[c].stamp <= clock + skew /\ local[c].now <= clock + skew /\ LocalClock(c) = clock + skew
    BY <2>1 DEF StampRead, LocalClock
  <2>3. clock <= clock + skew /\ 0 <= clock + skew /\ clock + skew <= clock + skew
    BY <1>1
  <2>4. local'[c].stamp <= clock + skew /\ local'[c].now <= clock + skew
    BY <1>3, <2>2, <2>3
  <2> QED
    BY <1>2, <2>1, <2>4 DEF StampRead
<1>5. ASSUME NEW m \in adrift', m \notin adrift
      PROVE  m.now <= clock + Skew[m.process]
  <2>1. CASE Served(c) \/ Begin(c) \/ ReceiveAndGoOn(c)
    BY <1>5, <2>1, CallerStep
  <2>2. CASE Return(c) \/ ResortToMemory(c) \/ FailOpen(c) \/ FailClosed(c)
    BY <1>5, <2>2, CallerStep
  <2>3. CASE Fault(c)
    <3>1. PICK command : command = [op |-> local[c].op, key |-> key[c], process |-> ProcessOf[c],
                                    id |-> CallId(c), nr |-> faults, now |-> local[c].now]
      OBVIOUS
    <3>2. GiveUp(c)
      BY <2>3, CallerStep
    <3>3. adrift' = adrift \/ adrift' = adrift \cup {command}
      BY <3>1, <3>2 DEF GiveUp
    <3>4. m = command
      BY <1>5, <3>3
    <3>5. m.now = local[c].now /\ m.process = ProcessOf[c]
      BY <3>1, <3>4
    <3> QED
      BY <3>5 DEF StampRead
  <2> QED
    BY <1>5, <2>1, <2>2, <2>3 DEF Proceed
<1> QED
  BY <1>2, <1>4, <1>5

LEMMA StampsKept ==
    ASSUME Typed, StampsRead, [Next]_vars
    PROVE  StampsRead'
<1>1. clock \in Nat
  BY ClockReading DEF Typed, ClientsTyped
<1>2. ASSUME NEW c \in Callers, Served(c) \/ Proceed(c) \/ Fault(c)
      PROVE  StampsRead'
  <2>1. /\ StampRead(c)' /\ clock' = clock
        /\ \A m \in adrift' : m \in adrift \/ m.now <= clock + Skew[m.process]
    BY <1>2, StampMoves DEF StampsRead
  <2>2. \A d \in Callers \ {c} : local'[d] = local[d]
    BY <1>2, OthersStayed DEF OthersStay
  <2>3. \A d \in Callers : StampRead(d)'
    BY <2>1, <2>2 DEF StampsRead, StampRead
  <2> QED
    BY <2>1, <2>3 DEF StampsRead
<1>3. CASE ServeLate
  <2>1. clock' = clock /\ local' = local /\ adrift' \in SUBSET adrift
    BY <1>3 DEF ServeLate, callVars
  <2> QED
    BY <2>1 DEF StampsRead, StampRead
<1>4. CASE Tick
  <2>1. clock' = clock + 1 /\ local' = local /\ adrift' = adrift
    BY <1>4 DEF Tick, callVars
  <2>2. \A n \in Int, skew \in Nat : n <= clock + skew => n <= clock' + skew
    BY <1>1, <2>1
  <2>3. ASSUME NEW c \in Callers
        PROVE  StampRead(c)'
    <3>1. /\ local[c].stamp \in Int /\ local[c].now \in Int /\ Skew[ProcessOf[c]] \in Nat
      BY ClockReading, CommandsTyped, RedisAssumption DEF Typed, ClientsTyped
    <3>2. StampRead(c)
      BY DEF StampsRead
    <3> QED
      BY <2>1, <2>2, <3>1, <3>2 DEF StampRead
  <2>4. ASSUME NEW m \in adrift
        PROVE  m.now <= clock' + Skew[m.process]
    <3>1. m.now \in Int /\ Skew[m.process] \in Nat
      BY ClockReading, CommandsTyped, RedisAssumption DEF Typed, ClientsTyped, Commands
    <3>2. m.now <= clock + Skew[m.process]
      BY DEF StampsRead
    <3> QED
      BY <2>2, <3>1, <3>2
  <2> QED
    BY <2>1, <2>3, <2>4 DEF StampsRead
<1>5. CASE UNCHANGED vars
  <2>1. clock' = clock /\ local' = local /\ adrift' = adrift
    BY <1>5 DEF vars, callVars
  <2> QED
    BY <2>1 DEF StampsRead, StampRead
<1> QED
  BY <1>2, <1>3, <1>4, <1>5 DEF Next, Finished

\* What the last reply, of an exact key with this entry, is worth.
PromisedBy(last, entry) ==
    /\ last.key \in Exact /\ last.now \in Nat /\ last.stamp \in Nat /\ last.skew \in Nat
    /\ last.stamp <= last.now + last.skew
    /\ ~last.result.allowed =>
           last.result.reset_at \in Int /\ Honoured(last.key, entry, last.result.reset_at)

Promised == reply.called => PromisedBy(reply, store[reply.key].entry)

LEMMA EvalPromises ==
    ASSUME Typed, Fits, Promised, NEW k \in Keys \ FixedKeys, NEW t \in Times,
           NEW id \in RequestIds, NEW p \in Processes, t <= clock + Skew[p],
           Eval(id, p, k, t), clock' = clock
    PROVE  Fits' /\ Promised'
<1>1. PICK outcome : outcome = Evaluated(id, k, t).outcome
  OBVIOUS
<1>2. /\ store'[k].entry = outcome.entry
      /\ \A l \in Keys \ {k} : store'[l] = store[l]
  BY <1>1 DEF Eval, Typed, ServerTyped
<1>3. \A l \in Exact : l \in Keys
  BY ExactKeys
<1>4. ASSUME k \notin Exact
      PROVE  Fits' /\ Promised'
  <2>1. \A l \in Exact : store'[l] = store[l]
    BY <1>2, <1>3, <1>4
  <2>2. reply' = reply
    BY <1>4 DEF Eval
  <2>3. Fits'
    BY <1>4, <2>1 DEF Fits
  <2>4. reply.called => reply.key \in Exact
    BY DEF Promised, PromisedBy
  <2> QED
    BY <2>1, <2>2, <2>3, <2>4 DEF Promised
<1>5. ASSUME k \in Exact
      PROVE  Fits' /\ Promised'
  <2>1. PICK result : Replied(k, outcome, result)
    BY DEF Replied
  <2>2. /\ FitsAt(k, outcome.entry, clock)
        /\ result.allowed = outcome.allowed
        /\ ~outcome.allowed =>
               result.reset_at \in Int /\ Honoured(k, outcome.entry, result.reset_at)
        /\ outcome.allowed /\ Known(id, k, t) =>
               \A reset_at : Honoured(k, outcome.entry, reset_at)
    <3>1. CASE RuleOf[k].algorithm = "sliding_window"
      BY <1>1, <1>5, <2>1, <3>1, SlidingHonoured
    <3>2. CASE RuleOf[k].algorithm # "sliding_window"
      <4>1. ~Known(id, k, t)
        BY <3>2 DEF Known
      <4>2. /\ FitsAt(k, outcome.entry, clock)
            /\ result.allowed = outcome.allowed
            /\ ~outcome.allowed =>
                   result.reset_at \in Int /\ Honoured(k, outcome.entry, result.reset_at)
        BY <1>1, <1>5, <2>1, <3>2, BucketsHonoured
      <4> QED
        BY <4>1, <4>2
    <3> QED
      BY <3>1, <3>2
  <2>3. Fits'
    <3> SUFFICES ASSUME NEW l \in Exact PROVE FitsAt(l, store'[l].entry, clock)
      BY <1>5 DEF Fits
    <3>1. CASE l = k
      BY <1>2, <2>2, <3>1
    <3>2. CASE l # k
      BY <1>2, <1>3, <3>2 DEF Fits
    <3> QED
      BY <3>1, <3>2
  <2>4. CASE outcome.allowed /\ Known(id, k, t)
    <3>1. reply' = reply
      BY <1>1, <2>4 DEF Eval
    <3>2. SUFFICES ASSUME reply.called PROVE PromisedBy(reply, store'[reply.key].entry)
      BY <2>3, <3>1 DEF Promised
    <3>3. PICK last : last = reply /\ last.key \in Exact /\ PromisedBy(last, store[last.key].entry)
      BY <3>2 DEF Promised, PromisedBy
    <3>4. PICK l \in Exact : l = last.key /\ PromisedBy(last, store[l].entry)
      BY <3>3
    <3>5. CASE l = k
      <4>1. \A reset_at : Honoured(l, store'[l].entry, reset_at)
        BY <1>2, <2>2, <2>4, <3>5
      <4> QED
        BY <3>3, <3>4, <4>1 DEF PromisedBy
    <3>6. CASE l # k
      BY <1>2, <1>3, <3>3, <3>6, <3>4
    <3> QED
      BY <3>5, <3>6
  <2>5. CASE ~(outcome.allowed /\ Known(id, k, t))
    <3>1. PICK now \in Nat, skew \in Nat : now = clock /\ skew = Skew[p]
      BY ClockReading, RedisAssumption DEF Typed, ClientsTyped
    <3>2. reply' = [called |-> TRUE, key |-> k, now |-> now, result |-> result,
                    stamp |-> t, skew |-> skew]
      <4>1. ScriptTime(k, t) = now
        BY <1>5, <3>1, ExactKeys
      <4>2. reply' = [called |-> TRUE, key |-> k, now |-> ScriptTime(k, t),
                      result |-> [outcome EXCEPT !.entry = Plain(k, @)],
                      stamp |-> t, skew |-> Skew[p]]
        BY <1>1, <1>5, <2>5 DEF Eval
      <4> QED
        BY <2>1, <3>1, <4>1, <4>2 DEF Replied
    <3>3. PICK last : last = reply'
      OBVIOUS
    <3>4. /\ last.key = k /\ last.now = now /\ last.result = result
          /\ last.stamp = t /\ last.skew = skew
      BY <3>2, <3>3
    <3>5. t \in Nat /\ t <= now + skew
      BY <3>1, ClockReading DEF Typed, ClientsTyped
    <3>6. PromisedBy(last, store'[k].entry)
      BY <1>2, <1>5, <2>2, <3>1, <3>4, <3>5 DEF PromisedBy
    <3> QED
      BY <2>3, <3>3, <3>4, <3>6 DEF Promised
  <2> QED
    BY <2>3, <2>4, <2>5
<1> QED
  BY <1>4, <1>5

LEMMA PassivePromises ==
    ASSUME Typed, Fits, Promised, store' = store, reply' = reply, clock' \in {clock, clock + 1}
    PROVE  Fits' /\ Promised'
<1>1. ASSUME NEW k \in Exact
      PROVE  FitsAt(k, store'[k].entry, clock')
  <2>1. FitsAt(k, store[k].entry, clock) /\ clock \in Nat
    BY ClockReading DEF Fits, Typed, ClientsTyped
  <2>2. CASE RuleOf[k].algorithm = "token_bucket"
    <3>1. store[k].entry \in Entry /\ Len(store[k].entry) \in {0, 2}
      BY <2>2, ExactKeys DEF Typed, ServerTyped, StoredUnder, EntryUnder
    <3>2. PICK entry \in Entry : entry = store[k].entry /\ Len(entry) \in {0, 2}
      BY <3>1
    <3>3. entry # <<>> => entry[2] \in Int
      BY <3>2, PairEntry
    <3>4. entry # <<>> => entry[2] <= clock
      BY <2>1, <2>2, <3>2 DEF FitsAt
    <3>5. entry # <<>> => entry[2] <= clock'
      BY <2>1, <3>3, <3>4
    <3> QED
      BY <2>2, <3>2, <3>5 DEF FitsAt
  <2>3. CASE RuleOf[k].algorithm # "token_bucket"
    BY <2>1, <2>3 DEF FitsAt
  <2> QED
    BY <2>2, <2>3
<1> QED
  BY <1>1 DEF Fits, Promised

LEMMA PromisesKept ==
    ASSUME Typed, StampsRead, Fits, Promised, [Next]_vars
    PROVE  Fits' /\ Promised'
<1>1. CASE UNCHANGED vars \/ Finished \/ Tick
  <2>1. store' = store /\ reply' = reply /\ clock' \in {clock, clock + 1}
    BY <1>1 DEF vars, serverVars, historyVars, Finished, Tick
  <2> QED
    BY <2>1, PassivePromises
<1>2. CASE ServeLate
  <2>1. PICK m \in adrift :
            /\ \/ m.op = "EVAL" /\ Eval(m.id, m.process, m.key, m.now)
               \/ m.op = "INCR" /\ Incr(m.key, m.now)
               \/ m.op = "EXPIRE" /\ Expire(m.key, m.now)
            /\ clock' = clock
    BY <1>2 DEF ServeLate
  <2>2. PICK k, t, id, p : k = m.key /\ t = m.now /\ id = m.id /\ p = m.process
    OBVIOUS
  <2>3. CASE m.op = "EVAL"
    <3>1. Eval(id, p, k, t)
      BY <2>1, <2>2, <2>3
    <3>2. k \in Keys \ FixedKeys /\ t \in Times /\ id \in RequestIds
      BY <2>2, <2>3, CommandsTyped
    <3>3. p \in Processes /\ t <= clock + Skew[p]
      BY <2>2 DEF StampsRead, Typed, ClientsTyped, Commands
    <3> QED
      BY <2>1, <3>1, <3>2, <3>3, EvalPromises
  <2>4. CASE m.op # "EVAL"
    <3>1. store' = store /\ reply' = reply
      BY <2>1, <2>4 DEF Incr, Expire
    <3> QED
      BY <2>1, <3>1, PassivePromises
  <2> QED
    BY <2>3, <2>4
<1>3. ASSUME NEW c \in Callers, Served(c) \/ Proceed(c) \/ Fault(c)
      PROVE  Fits' /\ Promised'
  <2>1. clock' = clock
    BY <1>3, StampMoves DEF StampsRead
  <2>2. CASE ServeEval(c)
    <3>1. PICK k \in Keys, t \in Times, id \in RequestIds, p \in Processes :
            /\ k = key[c] /\ t = local[c].stamp /\ id = CallId(c) /\ p = ProcessOf[c]
      BY CommandsTyped, RedisAssumption
    <3>2. Eval(id, p, k, t) /\ local[c].op = "EVAL" /\ pc[c] = "sent"
      BY <2>2, <3>1 DEF ServeEval, Serve
    <3>3. k \in Keys \ FixedKeys
      BY <3>1, <3>2, CommandsTyped
    <3>4. t <= clock + Skew[p]
      BY <3>1 DEF StampsRead, StampRead
    <3> QED
      BY <2>1, <3>2, <3>3, <3>4, EvalPromises
  <2>3. CASE ~ServeEval(c)
    <3>1. store' = store /\ reply' = reply
      <4>1. CASE Served(c)
        BY <2>3, <4>1 DEF Served, ServeTime, ServeIncr, ServeExpire, Incr, Expire, serverVars
      <4>2. CASE Proceed(c)
        BY <4>2 DEF Proceed, Begin, ReceiveAndGoOn, Return, ResortToMemory, FailOpen, FailClosed,
                    Answer, End, serverVars, historyVars
      <4>3. CASE Fault(c)
        BY <4>3 DEF Fault, Resend, Fail, Cancel, End, serverVars, historyVars
      <4> QED
        BY <1>3, <4>1, <4>2, <4>3
    <3> QED
      BY <2>1, <3>1, PassivePromises
  <2> QED
    BY <2>2, <2>3
<1> QED
  BY <1>1, <1>2, <1>3 DEF Next

LEMMA PromisesInit ==
    ASSUME Init
    PROVE  StampsRead /\ Fits /\ Promised
<1>1. StampsRead
  <2>1. ASSUME NEW c \in Callers
        PROVE  StampRead(c)
    <3>1. clock = 0 /\ local[c].stamp = 0 /\ local[c].now = 0 /\ Skew[ProcessOf[c]] \in Nat
      BY RedisAssumption DEF Init, NoCall
    <3> QED
      BY <3>1 DEF StampRead
  <2> QED
    BY <2>1 DEF Init, StampsRead
<1>2. ASSUME NEW k \in Exact
      PROVE  FitsAt(k, store[k].entry, clock)
  <2>1. store[k].entry = <<>>
    BY ExactKeys DEF Init, Absent
  <2>2. RuleOf[k].algorithm = "sliding_window" => Len(<<>>) <= RuleOf[k].limit
    BY ExactKeys DEF Positive
  <2> QED
    BY <2>1, <2>2 DEF FitsAt
<1>3. ~reply.called
  BY DEF Init, NoReply
<1> QED
  BY <1>1, <1>2, <1>3 DEF Fits, Promised

LEMMA PromiseHonoured ==
    ASSUME Promised
    PROVE  RetryAfterHonoured
<1>1. SUFFICES ASSUME reply.called, ~reply.result.allowed, NEW wait \in 0 .. 2
               PROVE  Decide(RuleOf[reply.key], Plain(reply.key, store[reply.key].entry),
                             reply.now + RetryAfter(reply.result.reset_at, reply.stamp)
                                 + reply.skew + wait).allowed
  BY Zenon DEF RetryAfterHonoured
<1>2. PICK now \in Nat, stamp \in Nat, skew \in Nat, reset_at \in Int, k \in Exact :
          /\ now = reply.now /\ stamp = reply.stamp /\ skew = reply.skew
          /\ reset_at = reply.result.reset_at /\ k = reply.key
          /\ stamp <= now + skew /\ Honoured(k, store[k].entry, reset_at)
  BY <1>1 DEF Promised, PromisedBy
<1>3. PICK entry : entry = store[k].entry /\ Honoured(k, entry, reset_at)
  BY <1>2
<1>4. PICK again \in Int : again = now + RetryAfter(reset_at, stamp) + skew + wait /\ again >= reset_at
  BY <1>2 DEF RetryAfter, AtLeastZero
<1>5. Decide(RuleOf[k], Plain(k, entry), again).allowed
  BY <1>4, <1>3 DEF Honoured
<1> QED
  BY <1>2, <1>4, <1>5, <1>3, Zenon

\* RetryAfterHonoured: when nobody came in between, a denied caller that waits
\* retry_after, and as long again as its clock is ahead of the server's, is admitted.
THEOREM RetryAfterHonouredHolds == Spec => []RetryAfterHonoured
<1>1. Init => StampsRead /\ Fits /\ Promised
  BY PromisesInit
<1>2. Typed /\ StampsRead /\ Fits /\ Promised /\ [Next]_vars => (StampsRead /\ Fits /\ Promised)'
  BY StampsKept, PromisesKept
<1>3. Promised => RetryAfterHonoured
  BY PromiseHonoured
<1> QED
  BY <1>1, <1>2, <1>3, TypesHold, PTL DEF Spec
=============================================================================
