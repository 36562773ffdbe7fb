------------------------- MODULE RedisStorageProofs -------------------------
(***************************************************************************)
(* What Redis, the network and the clients guarantee, for any callers,     *)
(* processes, clocks, keys, rules, policies and numbers of faults.         *)
(***************************************************************************)
EXTENDS RedisStorage, StorageOpsProofs

-----------------------------------------------------------------------------
(***************************************************************************)
(* The sorted set and the scripts.                                         *)
(***************************************************************************)

RequestIds == Callers \X Nat

Members == Nat \X RequestIds

\* What ZREMRANGEBYSCORE keeps is a suffix of the sorted set.
LEMMA UnexpiredIsSuffix ==
    ASSUME NEW members \in Seq(Members), NEW cutoff \in Int
    PROVE  /\ Unexpired(members, cutoff) \in Seq(Members)
           /\ CutBefore(Unexpired(members, cutoff), members,
                        {i \in 1 .. Len(members) : members[i][1] > cutoff})
<1>1. DOMAIN members = 1 .. Len(members)
  BY LenProperties
<1>2. PICK recent \in SUBSET (1 .. Len(members)) :
            recent = {i \in 1 .. Len(members) : members[i][1] > cutoff}
  OBVIOUS
<1>3. PICK kept : /\ kept = Unexpired(members, cutoff)
                  /\ kept = IF recent = {} THEN <<>> ELSE SubSeq(members, Min(recent), Len(members))
  BY <1>1, <1>2 DEF Unexpired
<1>4. kept \in Seq(Members) /\ CutBefore(kept, members, recent)
  BY <1>3, SuffixFrom, Zenon
<1> QED
  BY <1>2, <1>3, <1>4, Zenon

\* result is the sorted set members with member added to it.
Placed(result, members, member) ==
    \/ /\ result = members
       /\ \E i \in 1 .. Len(members) : members[i] = member
    \/ /\ \A i \in 1 .. Len(members) : members[i] # member
       /\ \E place \in 1 .. Len(members) + 1 :
            /\ Len(result) = Len(members) + 1
            /\ result[place] = member
            /\ \A i \in 1 .. place - 1 : result[i] = members[i] /\ members[i][1] <= member[1]
            /\ \A i \in place .. Len(members) : result[i + 1] = members[i]
            /\ place <= Len(members) => members[place][1] > member[1]

\* ZADD puts the member behind those of its score.
LEMMA MemberPlaced ==
    ASSUME NEW members \in Seq(Members), NEW member \in Members
    PROVE  /\ WithMember(members, member) \in Seq(Members)
           /\ Placed(WithMember(members, member), members, member)
<1>1. /\ DOMAIN members = 1 .. Len(members) /\ Len(members) \in Nat
      /\ \A i \in 1 .. Len(members) : members[i] \in Members
  BY LenProperties, ElementOfSeq
<1>2. CASE \E i \in DOMAIN members : members[i] = member
  BY <1>1, <1>2 DEF WithMember, Placed
<1>3. CASE ~\E i \in DOMAIN members : members[i] = member
  <2>1. PICK later \in SUBSET (1 .. Len(members)) :
              later = {i \in DOMAIN members : members[i][1] > member[1]}
    BY <1>1
  <2>2. PICK place \in 1 .. Len(members) + 1 :
            /\ place = IF later = {} THEN Len(members) + 1 ELSE Min(later)
            /\ \A i \in 1 .. place - 1 : i \notin later
            /\ place <= Len(members) => place \in later
    <3>1. CASE later = {}
      BY <1>1, <3>1
    <3>2. CASE later # {}
      <4>1. later \in SUBSET Nat
        BY <1>1, <2>1
      <4>2. PICK first \in later : first = Min(later) /\ \A i \in later : first <= i
        BY <3>2, <4>1, MinOfNaturals, Zenon
      <4>3. first \in 1 .. Len(members) + 1
        BY <1>1
      <4>4. \A i \in 1 .. first - 1 : i \notin later
        BY <4>1, <4>2
      <4> QED
        BY <3>2, <4>2, <4>3, <4>4
    <3> QED
      BY <3>1, <3>2
  <2>3. PICK result : /\ result = WithMember(members, member)
                      /\ result = [i \in 1 .. Len(members) + 1 |->
                                    IF i < place THEN members[i]
                                    ELSE IF i = place THEN member ELSE members[i - 1]]
    BY <1>3, <2>1, <2>2, Zenon DEF WithMember
  <2>4. place \in Int /\ Len(members) \in Nat /\ 1 <= place /\ place <= Len(members) + 1
    BY <1>1
  <2>5. \A i \in 1 .. Len(members) + 1 : result[i] \in Members
    <3> SUFFICES ASSUME NEW i \in 1 .. Len(members) + 1
                 PROVE  result[i] \in Members
      OBVIOUS
    <3>1. /\ i < place => i \in 1 .. Len(members)
          /\ i > place => i - 1 \in 1 .. Len(members)
      BY <2>4
    <3> QED
      BY <1>1, <2>3, <2>4, <3>1
  <2>6. result \in Seq(Members) /\ Len(result) = Len(members) + 1
    BY <2>3, <2>4, <2>5
  <2>9. /\ result[place] = member
        /\ \A i \in 1 .. place - 1 : result[i] = members[i]
        /\ \A i \in place .. Len(members) : result[i + 1] = members[i]
    BY <2>3, <2>4
  <2>10. /\ \A i \in 1 .. place - 1 : members[i][1] <= member[1]
         /\ place <= Len(members) => members[place][1] > member[1]
    <3>1. \A i \in 1 .. Len(members) : members[i][1] \in Nat /\ member[1] \in Nat
      BY <1>1 DEF Members
    <3>2. \A i \in 1 .. Len(members) : i \in later <=> members[i][1] > member[1]
      BY <1>1, <2>1
    <3>3. ASSUME NEW i \in 1 .. place - 1
          PROVE  members[i][1] <= member[1]
      <4>1. i \in 1 .. Len(members) /\ i \notin later
        BY <1>1, <2>2
      <4> QED
        BY <3>1, <3>2, <4>1
    <3>4. place <= Len(members) => place \in 1 .. Len(members)
      BY <1>1, <2>2
    <3> QED
      BY <2>2, <3>2, <3>3, <3>4
  <2>11. Placed(result, members, member)
    BY <1>1, <1>3, <2>6, <2>9, <2>10 DEF Placed
  <2> QED
    BY <2>3, <2>6, <2>11
<1> QED
  BY <1>2, <1>3

StoredUnder(rule) ==
    IF rule.algorithm = "sliding_window" THEN Seq(Members) ELSE EntryUnder(rule)

\* The requests recorded in an entry of a sorted set.
IdsIn(members) == {members[i][2] : i \in DOMAIN members}

\* The request joins those that are recorded, of which the script forgets some.
LEMMA SlidingScript ==
    ASSUME NEW members \in Seq(Members), NEW window \in Positive, NEW limit \in Positive,
           NEW now \in Nat, NEW id \in RequestIds,
           NEW outcome,
           outcome = sliding_window_script(members, window, limit, now, id).outcome
    PROVE  /\ outcome.allowed \in BOOLEAN /\ outcome.reset_at \in Int
           /\ outcome.entry \in Seq(Members)
           /\ IdsIn(outcome.entry) \in SUBSET (IdsIn(members) \cup {id})
           /\ outcome.allowed => id \in IdsIn(outcome.entry)
           /\ ~outcome.allowed => IdsIn(outcome.entry) \in SUBSET IdsIn(members)
<1>1. now - window \in Int /\ now + window \in Int /\ limit \in Nat /\ limit >= 1
  BY DEF Positive
<1>2. PICK recent \in Seq(Members) :
          recent = Unexpired(members, now - window) /\ IdsIn(recent) \in SUBSET IdsIn(members)
  <2>1. PICK recent \in Seq(Members) :
            /\ recent = Unexpired(members, now - window)
            /\ CutBefore(recent, members, {i \in 1 .. Len(members) : members[i][1] > now - window})
    BY <1>1, UnexpiredIsSuffix
  <2>2. PICK dropped \in 0 .. Len(members) :
            /\ Len(recent) = Len(members) - dropped
            /\ \A i \in 1 .. Len(members) - dropped : recent[i] = members[i + dropped]
    BY <2>1 DEF CutBefore
  <2>3. DOMAIN recent = 1 .. Len(members) - dropped /\ DOMAIN members = 1 .. Len(members)
        /\ Len(members) \in Nat
    BY <2>2, LenProperties
  <2>4. \A i \in DOMAIN recent : i + dropped \in DOMAIN members /\ recent[i] = members[i + dropped]
    BY <2>2, <2>3
  <2> QED
    BY <2>1, <2>4 DEF IdsIn
<1>3. CASE Len(recent) < limit
  <2>1. <<now, id>> \in Members
    BY DEF Members
  <2>2. PICK result \in Seq(Members) :
            result = WithMember(recent, <<now, id>>) /\ Placed(result, recent, <<now, id>>)
    BY <2>1, MemberPlaced
  <2>3. outcome = Admit(limit - Len(recent) - 1, now + window, result)
    BY <1>2, <1>3, <2>2 DEF sliding_window_script, Expiring
  <2>4. IdsIn(result) \in SUBSET (IdsIn(recent) \cup {id}) /\ id \in IdsIn(result)
    <3>1. /\ DOMAIN recent = 1 .. Len(recent) /\ Len(recent) \in Nat
          /\ DOMAIN result = 1 .. Len(result)
      BY LenProperties
    <3>2. CASE result = recent /\ \E i \in 1 .. Len(recent) : recent[i] = <<now, id>>
      BY <3>1, <3>2 DEF IdsIn
    <3>3. CASE \E place \in 1 .. Len(recent) + 1 :
                   /\ Len(result) = Len(recent) + 1
                   /\ result[place] = <<now, id>>
                   /\ \A i \in 1 .. place - 1 : result[i] = recent[i]
                   /\ \A i \in place .. Len(recent) : result[i + 1] = recent[i]
      <4>1. PICK place \in 1 .. Len(recent) + 1 :
                   /\ Len(result) = Len(recent) + 1
                   /\ result[place] = <<now, id>>
                   /\ \A i \in 1 .. place - 1 : result[i] = recent[i]
                   /\ \A i \in place .. Len(recent) : result[i + 1] = recent[i]
        BY <3>3
      <4>2. place \in DOMAIN result
        BY <3>1, <4>1
      <4>3. ASSUME NEW i \in DOMAIN result
            PROVE  result[i] = <<now, id>> \/ \E j \in DOMAIN recent : result[i] = recent[j]
        <5>1. /\ i \in Int /\ 1 <= i /\ i <= Len(recent) + 1 /\ Len(recent) \in Nat
              /\ place \in Int /\ 1 <= place /\ place <= Len(recent) + 1
          BY <3>1, <4>1
        <5>2. CASE i < place
          <6>1. i \in 1 .. place - 1 /\ i \in 1 .. Len(recent)
            BY <5>1, <5>2
          <6>2. i \in DOMAIN recent /\ result[i] = recent[i]
            BY <3>1, <4>1, <6>1
          <6> QED
            BY <6>2
        <5>3. CASE i > place
          <6>0. i - 1 \in place .. Len(recent) /\ i = (i - 1) + 1
            BY <5>1, <5>3
          <6>1. PICK j \in place .. Len(recent) : i = j + 1
            BY <6>0
          <6>2. j \in 1 .. Len(recent)
            BY <5>1
          <6>3. j \in DOMAIN recent /\ result[j + 1] = recent[j]
            BY <3>1, <4>1, <6>2
          <6> QED
            BY <6>1, <6>3
        <5>4. CASE i = place
          BY <4>1, <5>4
        <5>5. i < place \/ i > place \/ i = place
          BY <5>1
        <5> QED
          BY <5>2, <5>3, <5>4, <5>5
      <4> QED
        BY <4>1, <4>2, <4>3 DEF IdsIn
    <3> QED
      BY <2>2, <3>2, <3>3 DEF Placed
  <2>5. /\ outcome.allowed = TRUE /\ outcome.reset_at = now + window
        /\ outcome.entry = result
    BY <2>3 DEF Admit
  <2>6. IdsIn(result) \in SUBSET (IdsIn(members) \cup {id})
    BY <1>2, <2>4
  <2> QED
    BY <1>1, <2>4, <2>5, <2>6
<1>4. CASE ~(Len(recent) < limit)
  <2>1. recent[1][1] \in Nat
    BY <1>1, <1>4 DEF Members
  <2>2. outcome = Deny(recent[1][1] + window, recent)
    BY <1>2, <1>4 DEF sliding_window_script, Expiring
  <2>3. recent[1][1] + window \in Int
    BY <2>1 DEF Positive
  <2> QED
    BY <1>2, <2>2, <2>3 DEF Deny
<1> QED
  BY <1>3, <1>4

\* The other scripts decide as the memory storage does.
LEMMA ScriptDecides ==
    ASSUME NEW rule, rule.algorithm \in {"token_bucket", "leaky_bucket", "gcra"},
           NEW entry, NEW now, NEW id
    PROVE  /\ Script(rule, entry, now, id).outcome = Decide(rule, entry, now)
           /\ Script(rule, entry, now, id).ttl =
                  IF rule.algorithm = "gcra"
                  THEN Decide(rule, entry, now).reset_at - now
                  ELSE BucketTTL
<1>1. CASE rule.algorithm = "token_bucket"
  BY <1>1, Zenon DEF Script, Decide, token_bucket_script, Expiring
<1>2. CASE rule.algorithm = "leaky_bucket"
  BY <1>2, Zenon DEF Script, Decide, leaky_bucket_script, Expiring
<1>3. CASE rule.algorithm = "gcra"
  BY <1>3, Zenon DEF Script, Decide, gcra_script, Expiring
<1> QED
  BY <1>1, <1>2, <1>3

LEMMA ScriptType ==
    ASSUME NEW rule \in LimitRule, rule.algorithm # "fixed_window",
           NEW entry \in StoredUnder(rule), NEW now \in Nat, NEW id \in RequestIds,
           NEW script, script = Script(rule, entry, now, id)
    PROVE  /\ script.outcome.allowed \in BOOLEAN /\ script.outcome.reset_at \in Int
           /\ script.outcome.entry \in StoredUnder(rule)
           /\ script.ttl \in Int
<1>1. CASE rule.algorithm = "sliding_window"
  <2>1. rule.window \in Positive /\ rule.limit \in Positive
    BY <1>1 DEF LimitRule, WindowRule, BucketRule
  <2>2. script = sliding_window_script(entry, rule.window, rule.limit, now, id)
    BY <1>1, Zenon DEF Script
  <2>3. entry \in Seq(Members)
    BY <1>1 DEF StoredUnder
  <2>4. PICK outcome : outcome = script.outcome
    OBVIOUS
  <2>5. /\ outcome.allowed \in BOOLEAN /\ outcome.reset_at \in Int
        /\ outcome.entry \in Seq(Members)
    BY <2>1, <2>2, <2>3, <2>4, SlidingScript
  <2>6. script.ttl = rule.window
    BY <2>2 DEF sliding_window_script, Expiring
  <2> QED
    BY <1>1, <2>1, <2>4, <2>5, <2>6 DEF StoredUnder, Positive
<1>2. CASE rule.algorithm # "sliding_window"
  <2>1. rule.algorithm \in {"token_bucket", "leaky_bucket", "gcra"}
    BY <1>2 DEF LimitRule, WindowRule, BucketRule
  <2>2. entry \in EntryUnder(rule)
    BY <1>2 DEF StoredUnder
  <2>3. PICK outcome \in Outcome : outcome = Decide(rule, entry, now) /\ outcome.entry \in EntryUnder(rule)
    BY <2>2, DecideType
  <2>4. script.outcome = outcome /\ script.ttl \in {outcome.reset_at - now, BucketTTL}
    BY <2>1, <2>3, ScriptDecides
  <2>5. outcome.allowed \in BOOLEAN /\ outcome.reset_at \in Int
    BY DEF Outcome
  <2> QED
    BY <1>2, <2>3, <2>4, <2>5, BucketTTLAssumption DEF StoredUnder, Positive
<1> QED
  BY <1>1, <1>2

-----------------------------------------------------------------------------
(***************************************************************************)
(* Types.                                                                  *)
(***************************************************************************)

\* What a clock may show.
Times == {t + ahead : t \in 0 .. MaxTime, ahead \in {0} \cup {Skew[p] : p \in Processes}}

Places == {"idle", "sent", "executed", "failed"}

Locals == [op : Ops, stamp : Times, now : Times, count : Nat, allowed : BOOLEAN, resends : Nat]

Commands == [op : Ops \ {"TIME"}, key : Keys, process : Processes, id : RequestIds,
             nr : Nat, now : Times]

\* The scripts serve the keys that are not fixed windows, and only those.
ClientsTyped ==
    /\ clock \in 0 .. MaxTime
    /\ pc \in [Callers -> Places] /\ key \in [Callers -> Keys]
    /\ calls \in [Callers -> Nat] /\ local \in [Callers -> Locals]
    /\ faults \in Nat /\ adrift \in SUBSET Commands
    /\ \A c \in Callers : pc[c] \in {"sent", "executed"} =>
                              (local[c].op = "EVAL" <=> ~IsFixed(key[c]))
    /\ \A m \in adrift : m.op = "EVAL" <=> ~IsFixed(m.key)

Grants == [stamp : Times, at : 0 .. MaxTime]

Counter == [count : Nat, expires : Int]

ServerTyped ==
    /\ DOMAIN store = Keys
    /\ \A k \in Keys : store[k] \in [entry : StoredUnder(RuleOf[k]), expires : Int]
    /\ DOMAIN counters = FixedKeys
    /\ \A k \in FixedKeys : counters[k] \in [Starts(k) -> Counter]
    /\ granted \in [Keys -> Seq(Grants)]
    /\ high \in [Keys -> Nat]

Answerers == Processes \cup {"server", "open", "closed"}

AnswersTyped == answers \in [Keys -> Seq([by : Answerers, at : Int])]

Typed == ClientsTyped /\ ServerTyped /\ AnswersTyped

LEMMA ClockReading ==
    ASSUME clock \in 0 .. MaxTime
    PROVE  /\ Times \in SUBSET Nat /\ clock \in Times /\ clock \in Nat /\ MaxTime \in Nat
           /\ \A c \in Callers : LocalClock(c) \in Times
           /\ \A k \in Keys, t \in Times : ScriptTime(k, t) \in Times
<1>1. MaxTime \in Nat /\ Skew \in [Processes -> Nat] /\ ProcessOf \in [Callers -> Processes]
  BY RedisAssumption
<1>2. Times \in SUBSET Nat
  BY <1>1 DEF Times
<1>3. clock \in Nat /\ clock + 0 \in Times
  BY <1>1 DEF Times
<1>4. \A c \in Callers : LocalClock(c) \in Times
  BY <1>1 DEF Times, LocalClock
<1> QED
  BY <1>1, <1>2, <1>3, <1>4 DEF ScriptTime

LEMMA StartAsked ==
    ASSUME NEW k \in Keys, NEW t \in Times
    PROVE  WindowStart(k, t) \in Starts(k)
BY DEF Times, Starts

LEMMA NoCallTyped == NoCall \in Locals
<1>1. 0 + 0 \in Times /\ 0 + 0 = 0
  BY RedisAssumption DEF Times
<1> QED
  BY <1>1 DEF NoCall, Locals, Ops

LEMMA ClientsInit == Init => ClientsTyped
<1> SUFFICES ASSUME Init PROVE ClientsTyped
  OBVIOUS
<1>1. clock \in 0 .. MaxTime
  BY RedisAssumption DEF Init
<1> QED
  BY <1>1, NoCallTyped DEF Init, ClientsTyped, Places

\* What the server looks up.
LEMMA LookedUp ==
    ASSUME Typed
    PROVE  /\ \A k \in Keys : LiveEntry(k) \in StoredUnder(RuleOf[k])
           /\ \A k \in FixedKeys : \A w \in Starts(k) : LiveCounter(k, w) \in Counter
<1>1. \A rule \in LimitRule : <<>> \in StoredUnder(rule)
  BY Zenon, EmptySeq DEF StoredUnder, EntryUnder, Entry
<1>2. \A k \in Keys : store[k].entry \in StoredUnder(RuleOf[k]) /\ RuleOf[k] \in LimitRule
  BY RedisAssumption DEF Typed, ServerTyped
<1>3. \A k \in Keys : LiveEntry(k) \in StoredUnder(RuleOf[k])
  BY <1>1, <1>2 DEF LiveEntry
<1>4. Zero \in Counter
  BY DEF Zero, Counter, Never
<1>5. \A k \in FixedKeys : \A w \in Starts(k) : counters[k][w] \in Counter
  BY DEF Typed, ServerTyped
<1> QED
  BY <1>3, <1>4, <1>5 DEF LiveCounter

\* What the script of a key decides.
LEMMA EvaluatedType ==
    ASSUME Typed, NEW k \in Keys \ FixedKeys, NEW t \in Times, NEW id \in RequestIds,
           NEW script, script = Evaluated(id, k, t)
    PROVE  /\ script.outcome.allowed \in BOOLEAN /\ script.outcome.reset_at \in Int
           /\ script.outcome.entry \in StoredUnder(RuleOf[k])
           /\ script.ttl \in Int
<1>1. RuleOf[k] \in LimitRule /\ RuleOf[k].algorithm # "fixed_window"
  BY RedisAssumption DEF FixedKeys, IsFixed
<1>2. ScriptTime(k, t) \in Nat
  BY ClockReading DEF Typed, ClientsTyped
<1>3. LiveEntry(k) \in StoredUnder(RuleOf[k])
  BY LookedUp
<1> QED
  BY <1>1, <1>2, <1>3, ScriptType DEF Evaluated

\* A caller's own step: the command goes where it goes, and its key stays that of
\* its command.
LEMMA ClientsMove ==
    ASSUME ClientsTyped, NEW c \in Callers, NEW place \in Places, NEW values \in Locals,
           pc' = [pc EXCEPT ![c] = place], local' = [local EXCEPT ![c] = values],
           place \in {"sent", "executed"} => (values.op = "EVAL" <=> ~IsFixed(key[c])),
           UNCHANGED <<clock, key, calls, faults, adrift>>
    PROVE  ClientsTyped'
<1>1. pc' \in [Callers -> Places] /\ local' \in [Callers -> Locals]
  BY DEF ClientsTyped
<1>2. \A d \in Callers : IF d = c THEN pc'[d] = place /\ local'[d] = values
                                  ELSE pc'[d] = pc[d] /\ local'[d] = local[d]
  BY DEF ClientsTyped
<1>3. \A d \in Callers : pc'[d] \in {"sent", "executed"} =>
                              (local'[d].op = "EVAL" <=> ~IsFixed(key'[d]))
  BY <1>2 DEF ClientsTyped
<1> QED
  BY <1>1, <1>3 DEF ClientsTyped, IsFixed

LEMMA ClientsServed ==
    ASSUME Typed, NEW c \in Callers, Served(c)
    PROVE  ClientsTyped'
<1> USE DEF Ops
<1>1. /\ pc[c] = "sent" /\ pc' = [pc EXCEPT ![c] = "executed"]
      /\ UNCHANGED <<clock, key, calls, faults, adrift>>
  BY DEF Served, ServeTime, ServeIncr, ServeExpire, ServeEval, Serve
<1>2. /\ local[c] \in Locals /\ local \in [Callers -> Locals] /\ key[c] \in Keys
      /\ local[c].op = "EVAL" <=> ~IsFixed(key[c])
      /\ local[c].now \in Times /\ local[c].stamp \in Times
  BY <1>1 DEF Typed, ClientsTyped, Locals
<1>3. ASSUME NEW values \in Locals, local' = [local EXCEPT ![c] = values], values.op = local[c].op
      PROVE  ClientsTyped'
  BY <1>1, <1>2, <1>3, ClientsMove DEF Places, Typed
<1>4. CASE ServeTime(c)
  <2>1. clock \in Times
    BY ClockReading DEF Typed, ClientsTyped
  <2>2. [local[c] EXCEPT !.now = clock] \in Locals
    BY <1>2, <2>1 DEF Locals
  <2>3. local' = [local EXCEPT ![c] = [local[c] EXCEPT !.now = clock]]
    BY <1>4 DEF ServeTime
  <2> QED
    BY <1>2, <1>3, <2>2, <2>3 DEF Locals
<1>5. CASE ServeIncr(c)
  <2>1. PICK next : next = LiveCounter(key[c], WindowStart(key[c], local[c].now)).count + 1
    OBVIOUS
  <2>2. key[c] \in FixedKeys
    BY <1>2, <1>5 DEF ServeIncr, Serve, FixedKeys
  <2>3. next \in Nat
    <3>1. WindowStart(key[c], local[c].now) \in Starts(key[c])
      BY <1>2, StartAsked
    <3>2. LiveCounter(key[c], WindowStart(key[c], local[c].now)) \in Counter
      BY <2>2, <3>1, LookedUp
    <3> QED
      BY <2>1, <3>2 DEF Counter
  <2>4. (next <= RuleOf[key[c]].limit) \in BOOLEAN
    OBVIOUS
  <2>5. PICK values : values = [local[c] EXCEPT !.count = next, !.allowed = next <= RuleOf[key[c]].limit]
    OBVIOUS
  <2>6. values \in Locals /\ values.op = local[c].op
    BY <1>2, <2>3, <2>4, <2>5 DEF Locals
  <2>7. local' = [local EXCEPT ![c] = values]
    BY <1>5, <2>1, <2>5 DEF ServeIncr
  <2> QED
    BY <1>3, <2>6, <2>7
<1>6. CASE ServeExpire(c)
  <2>1. local' = [local EXCEPT ![c] = local[c]]
    BY <1>2, <1>6 DEF ServeExpire
  <2> QED
    BY <1>2, <1>3, <2>1
<1>7. CASE ServeEval(c)
  <2>1. PICK script : script = Evaluated(CallId(c), key[c], local[c].stamp)
    OBVIOUS
  <2>2. key[c] \in Keys \ FixedKeys /\ CallId(c) \in RequestIds
    BY <1>2, <1>7 DEF ServeEval, Serve, FixedKeys, CallId, RequestIds, Typed, ClientsTyped
  <2>3. script.outcome.allowed \in BOOLEAN
    BY <1>2, <2>1, <2>2, EvaluatedType
  <2>4. PICK time \in Times : time = ScriptTime(key[c], local[c].now)
    BY <1>2, ClockReading DEF Typed, ClientsTyped
  <2>5. PICK values : values = [local[c] EXCEPT !.now = time, !.allowed = script.outcome.allowed]
    OBVIOUS
  <2>6. values \in Locals /\ values.op = local[c].op
    BY <1>2, <2>3, <2>4, <2>5 DEF Locals
  <2>7. local' = [local EXCEPT ![c] = values]
    BY <1>2, <1>7, <2>1, <2>4, <2>5 DEF ServeEval
  <2> QED
    BY <1>3, <2>6, <2>7
<1> QED
  BY <1>4, <1>5, <1>6, <1>7 DEF Served

LEMMA ClientsProceed ==
    ASSUME Typed, NEW c \in Callers, Proceed(c)
    PROVE  ClientsTyped'
<1>1. CASE Begin(c)
  <2>1. PICK k \in Keys :
            /\ key' = [key EXCEPT ![c] = k]
            /\ local' = [local EXCEPT ![c].op = FirstCommand(k),
                                      ![c].stamp = LocalClock(c), ![c].now = LocalClock(c)]
    BY <1>1, Zenon DEF Begin
  <2>2. /\ calls' = [calls EXCEPT ![c] = @ + 1] /\ pc' = [pc EXCEPT ![c] = "sent"]
        /\ UNCHANGED <<clock, adrift, faults>>
    BY <1>1 DEF Begin
  <2>3. LocalClock(c) \in Times
    BY ClockReading DEF Typed, ClientsTyped
  <2>4. FirstCommand(k) \in Ops /\ (FirstCommand(k) = "EVAL" <=> ~IsFixed(k))
    BY DEF FirstCommand, Ops
  <2>5. /\ local' \in [Callers -> Locals] /\ local'[c].op = FirstCommand(k)
        /\ \A d \in Callers \ {c} : local'[d] = local[d]
    <3>1. PICK values : values = [local[c] EXCEPT !.op = FirstCommand(k),
                                     !.stamp = LocalClock(c), !.now = LocalClock(c)]
      OBVIOUS
    <3>2. values \in Locals /\ values.op = FirstCommand(k)
      BY <2>3, <2>4, <3>1 DEF Typed, ClientsTyped, Locals
    <3>3. local' = [local EXCEPT ![c] = values]
      BY <2>1, <3>1
    <3> QED
      BY <3>2, <3>3 DEF Typed, ClientsTyped
  <2>6. /\ key' \in [Callers -> Keys] /\ calls' \in [Callers -> Nat] /\ pc' \in [Callers -> Places]
        /\ key'[c] = k
        /\ \A d \in Callers \ {c} : key'[d] = key[d] /\ pc'[d] = pc[d]
    BY <2>1, <2>2 DEF Typed, ClientsTyped, Places
  <2>7. \A d \in Callers : pc'[d] \in {"sent", "executed"} =>
                              (local'[d].op = "EVAL" <=> ~IsFixed(key'[d]))
    BY <2>4, <2>5, <2>6 DEF Typed, ClientsTyped
  <2> QED
    BY <2>2, <2>5, <2>6, <2>7 DEF Typed, ClientsTyped, IsFixed
<1>2. CASE ReceiveAndGoOn(c)
  <2>1. PICK next \in FollowUps(c) : local' = [local EXCEPT ![c].op = next]
    BY <1>2 DEF ReceiveAndGoOn
  <2>2. /\ pc[c] = "executed" /\ pc' = [pc EXCEPT ![c] = "sent"]
        /\ UNCHANGED <<clock, key, calls, faults, adrift>>
    BY <1>2 DEF ReceiveAndGoOn
  <2>3. next \in {"INCR", "EXPIRE"} /\ local[c].op \in {"TIME", "INCR"}
    BY <2>1 DEF FollowUps
  <2>4. PICK values : values = [local[c] EXCEPT !.op = next]
    OBVIOUS
  <2>5. /\ values \in Locals /\ values.op = next
        /\ local' = [local EXCEPT ![c] = values]
    BY <2>1, <2>3, <2>4 DEF Typed, ClientsTyped, Locals, Ops
  <2>6. IsFixed(key[c])
    BY <2>2, <2>3 DEF Typed, ClientsTyped
  <2> QED
    BY <2>2, <2>3, <2>5, <2>6, ClientsMove DEF Places, Typed
<1>3. CASE Return(c) \/ ResortToMemory(c) \/ FailOpen(c) \/ FailClosed(c)
  <2>1. End(c) /\ UNCHANGED <<adrift, faults>>
    BY <1>3, Zenon DEF Return, ResortToMemory, FailOpen, FailClosed, Answer
  <2> QED
    BY <2>1, NoCallTyped, ClientsMove DEF End, Places, Typed
<1> QED
  BY <1>1, <1>2, <1>3 DEF Proceed

LEMMA GivenUp ==
    ASSUME Typed, NEW c \in Callers, GiveUp(c)
    PROVE  /\ pc[c] \in {"sent", "executed"}
           /\ faults' = faults + 1 /\ faults' \in Nat /\ faults \in Nat
           /\ \/ adrift' = adrift
              \/ \E m \in Commands :
                     /\ m.op = local[c].op /\ m.key = key[c] /\ m.id = CallId(c) /\ m.nr = faults
                     /\ pc[c] = "sent" /\ m.op # "TIME"
                     /\ adrift' = adrift \cup {m}
<1>1. PICK m : m = [op |-> local[c].op, key |-> key[c], process |-> ProcessOf[c],
                    id |-> CallId(c), nr |-> faults, now |-> local[c].now]
  OBVIOUS
<1>2. /\ faults' = faults + 1
      /\ \/ pc[c] \in {"sent", "executed"} /\ adrift' = adrift
         \/ pc[c] = "sent" /\ local[c].op # "TIME" /\ adrift' = adrift \cup {m}
  BY <1>1 DEF GiveUp
<1>3. faults \in Nat
  BY DEF Typed, ClientsTyped
<1>4. /\ m.op = local[c].op /\ m.key = key[c] /\ m.id = CallId(c) /\ m.nr = faults
      /\ local[c].op # "TIME" => m \in Commands
  <2>1. /\ local[c] \in Locals /\ key[c] \in Keys /\ calls[c] \in Nat /\ ProcessOf[c] \in Processes
    BY RedisAssumption DEF Typed, ClientsTyped
  <2> QED
    BY <1>1, <1>3, <2>1 DEF Locals, Commands, CallId, RequestIds
<1> QED
  BY <1>2, <1>3, <1>4

\* A command that is given up has the number of its fault, which no other has.
LEMMA ClientsFault ==
    ASSUME Typed, NEW c \in Callers, Fault(c)
    PROVE  ClientsTyped'
<1>1. GiveUp(c)
  BY DEF Fault, Resend, Fail, Cancel
<1>2. pc[c] \in {"sent", "executed"}
  BY <1>1, GivenUp
<1>3. faults' \in Nat
  BY <1>1, GivenUp
<1>4. adrift' \in SUBSET Commands /\ \A m \in adrift' : m.op = "EVAL" <=> ~IsFixed(m.key)
  <2>1. adrift \in SUBSET Commands /\ \A m \in adrift : m.op = "EVAL" <=> ~IsFixed(m.key)
    BY DEF Typed, ClientsTyped
  <2>2. local[c].op = "EVAL" <=> ~IsFixed(key[c])
    BY <1>2 DEF Typed, ClientsTyped
  <2>3. CASE adrift' = adrift
    BY <2>1, <2>3
  <2>4. CASE \E m \in Commands : m.op = local[c].op /\ m.key = key[c] /\ adrift' = adrift \cup {m}
    BY <2>1, <2>2, <2>4
  <2> QED
    BY <1>1, <2>3, <2>4, GivenUp
<1>5. PICK place \in Places, values \in Locals :
          /\ pc' = [pc EXCEPT ![c] = place] /\ local' = [local EXCEPT ![c] = values]
          /\ place \in {"sent", "executed"} => values.op = local[c].op
          /\ UNCHANGED <<clock, key, calls>>
  <2>1. local[c] \in Locals
    BY DEF Typed, ClientsTyped
  <2>2. CASE Resend(c)
    <3>1. PICK values : values = [local[c] EXCEPT !.resends = @ + 1]
      OBVIOUS
    <3>2. values \in Locals /\ values.op = local[c].op
      BY <2>1, <3>1 DEF Locals
    <3>3. local' = [local EXCEPT ![c] = values] /\ pc' = [pc EXCEPT ![c] = "sent"]
      BY <2>2, <3>1 DEF Resend
    <3> QED
      BY <2>2, <3>2, <3>3 DEF Resend, Places
  <2>3. CASE Fail(c)
    <3>1. local' = [local EXCEPT ![c] = local[c]]
      BY <2>3 DEF Fail, callVars, Typed, ClientsTyped
    <3> QED
      BY <2>1, <2>3, <3>1 DEF Fail, callVars, Places
  <2>4. CASE Cancel(c)
    BY <2>4, NoCallTyped DEF Cancel, End, Places
  <2> QED
    BY <2>2, <2>3, <2>4 DEF Fault
<1>6. pc' \in [Callers -> Places] /\ local' \in [Callers -> Locals]
  BY <1>5 DEF Typed, ClientsTyped
<1>7. \A d \in Callers : pc'[d] \in {"sent", "executed"} =>
                              (local'[d].op = "EVAL" <=> ~IsFixed(key'[d]))
  <2>1. \A d \in Callers : IF d = c THEN pc'[d] = place /\ local'[d] = values
                                    ELSE pc'[d] = pc[d] /\ local'[d] = local[d]
    BY <1>5 DEF Typed, ClientsTyped
  <2>2. ASSUME NEW d \in Callers, pc'[d] \in {"sent", "executed"}
        PROVE  local'[d].op = local[d].op /\ pc[d] \in {"sent", "executed"} /\ key'[d] = key[d]
    BY <1>2, <1>5, <2>1, <2>2
  <2> QED
    BY <2>2 DEF Typed, ClientsTyped
<1> QED
  BY <1>3, <1>4, <1>5, <1>6, <1>7 DEF Typed, ClientsTyped, IsFixed

LEMMA ClientsKept == ASSUME Typed, [Next]_vars PROVE ClientsTyped'
<1>1. CASE \E c \in Callers : Served(c) \/ Proceed(c) \/ Fault(c)
  BY <1>1, ClientsServed, ClientsProceed, ClientsFault
<1>2. CASE ServeLate
  <2>1. /\ \E m \in adrift : adrift' = adrift \ {m}
        /\ UNCHANGED <<clock, faults, pc, key, calls, local>>
    BY <1>2, Zenon DEF ServeLate, callVars
  <2> QED
    BY <2>1 DEF Typed, ClientsTyped, IsFixed
<1>3. CASE Tick
  <2>1. /\ clock < MaxTime /\ clock' = clock + 1
        /\ UNCHANGED <<faults, adrift, pc, key, calls, local>>
    BY <1>3 DEF Tick, callVars
  <2>2. clock' \in 0 .. MaxTime
    BY <2>1, RedisAssumption DEF Typed, ClientsTyped
  <2> QED
    BY <2>1, <2>2 DEF Typed, ClientsTyped, IsFixed
<1>4. CASE Finished \/ UNCHANGED vars
  <2>1. UNCHANGED <<clock, faults, adrift, pc, key, calls, local>>
    BY <1>4 DEF Finished, vars, callVars
  <2> QED
    BY <2>1 DEF Typed, ClientsTyped, IsFixed
<1> QED
  BY <1>1, <1>2, <1>3, <1>4 DEF Next

LEMMA GrantTyped ==
    ASSUME Typed, NEW k \in Keys, NEW allowed, NEW t \in Times, Grant(k, allowed, t)
    PROVE  /\ granted' \in [Keys -> Seq(Grants)]
           /\ \A l \in Keys \ {k} : granted'[l] = granted[l]
           /\ granted'[k] = IF allowed THEN Append(granted[k], [stamp |-> t, at |-> clock])
                                       ELSE granted[k]
<1>1. [stamp |-> t, at |-> clock] \in Grants /\ granted \in [Keys -> Seq(Grants)]
  BY DEF Typed, ClientsTyped, ServerTyped, Grants
<1>2. granted[k] \in Seq(Grants)
  BY <1>1
<1>3. Append(granted[k], [stamp |-> t, at |-> clock]) \in Seq(Grants)
  BY <1>1, <1>2, AppendProperties
<1> QED
  BY <1>1, <1>2, <1>3 DEF Grant

LEMMA EvalTyped ==
    ASSUME Typed, NEW k \in Keys \ FixedKeys, NEW t \in Times, NEW id \in RequestIds, NEW p,
           Eval(id, p, k, t)
    PROVE  ServerTyped'
<1>1. PICK script : script = Evaluated(id, k, t)
  OBVIOUS
<1>2. /\ store' = [store EXCEPT ![k] =
                      [entry |-> script.outcome.entry,
                       expires |-> IF script.outcome.allowed THEN clock + script.ttl ELSE @.expires]]
      /\ high' = [high EXCEPT ![k] = Later(@, ScriptTime(k, t))]
      /\ counters' = counters
  BY <1>1 DEF Eval
<1>3. /\ script.outcome.entry \in StoredUnder(RuleOf[k])
      /\ script.ttl \in Int
  BY <1>1, EvaluatedType
<1>4. clock \in Nat /\ ScriptTime(k, t) \in Times /\ ScriptTime(k, t) \in Nat
  BY ClockReading DEF Typed, ClientsTyped
<1>5. store[k].expires \in Int
  BY DEF Typed, ServerTyped
<1>6. clock + script.ttl \in Int
  BY <1>3, <1>4
<1>7. /\ DOMAIN store' = Keys
      /\ \A l \in Keys : store'[l] \in [entry : StoredUnder(RuleOf[l]), expires : Int]
  BY <1>2, <1>3, <1>5, <1>6 DEF Typed, ServerTyped
<1>8. high' \in [Keys -> Nat]
  BY <1>2, <1>4 DEF Typed, ServerTyped, Later
<1>9. granted' \in [Keys -> Seq(Grants)]
  <2>1. PICK allowed : Grant(k, allowed, ScriptTime(k, t))
    BY DEF Eval
  <2> QED
    BY <1>4, <2>1, GrantTyped
<1> QED
  BY <1>2, <1>7, <1>8, <1>9 DEF Typed, ServerTyped

\* INCR and EXPIRE write one counter of the key.
OnlyCounter(k, w) ==
    \A l \in FixedKeys : \A v \in Starts(l) :
        <<l, v>> # <<k, w>> => counters'[l][v] = counters[l][v]

LEMMA CounterWritten ==
    ASSUME Typed, NEW k \in FixedKeys, NEW w \in Starts(k), NEW value \in Counter,
           counters' = [counters EXCEPT ![k][w] = value]
    PROVE  /\ DOMAIN counters' = FixedKeys
           /\ \A l \in FixedKeys : counters'[l] \in [Starts(l) -> Counter]
           /\ counters'[k][w] = value
           /\ OnlyCounter(k, w)
<1>1. DOMAIN counters = FixedKeys /\ \A l \in FixedKeys : counters[l] \in [Starts(l) -> Counter]
  BY DEF Typed, ServerTyped
<1>2. counters'[k] = [counters[k] EXCEPT ![w] = value]
  BY <1>1
<1>3. \A l \in FixedKeys \ {k} : counters'[l] = counters[l]
  BY <1>1
<1>4. counters'[k] \in [Starts(k) -> Counter] /\ counters'[k][w] = value
  BY <1>1, <1>2
<1>5. \A v \in Starts(k) \ {w} : counters'[k][v] = counters[k][v]
  BY <1>1, <1>2
<1> QED
  BY <1>1, <1>3, <1>4, <1>5 DEF OnlyCounter

LEMMA IncrTyped ==
    ASSUME Typed, NEW k \in FixedKeys, NEW t \in Times, Incr(k, t)
    PROVE  ServerTyped'
<1>1. PICK w \in Starts(k) : w = WindowStart(k, t)
  BY StartAsked DEF FixedKeys
<1>2. PICK live \in Counter : live = LiveCounter(k, w)
  BY LookedUp
<1>3. PICK value : value = [live EXCEPT !.count = live.count + 1]
  OBVIOUS
<1>4. counters' = [counters EXCEPT ![k][w] = value] /\ UNCHANGED <<store, high>>
  BY <1>1, <1>2, <1>3 DEF Incr
<1>5. value \in Counter
  BY <1>3 DEF Counter
<1>6. /\ DOMAIN counters' = FixedKeys
      /\ \A l \in FixedKeys : counters'[l] \in [Starts(l) -> Counter]
  BY <1>4, <1>5, CounterWritten
<1>7. granted' \in [Keys -> Seq(Grants)]
  <2>1. PICK allowed : Grant(k, allowed, t)
    BY DEF Incr
  <2> QED
    BY <2>1, GrantTyped DEF FixedKeys
<1> QED
  BY <1>4, <1>6, <1>7 DEF Typed, ServerTyped

LEMMA ExpireTyped ==
    ASSUME Typed, NEW k \in FixedKeys, NEW t \in Times, Expire(k, t)
    PROVE  ServerTyped'
<1>1. PICK w \in Starts(k) : w = WindowStart(k, t)
  BY StartAsked DEF FixedKeys
<1>2. PICK old \in Counter : old = counters[k][w]
  BY DEF Typed, ServerTyped
<1>3. PICK value : value = IF LiveCounter(k, w) = Zero THEN old
                           ELSE [old EXCEPT !.expires = clock + RuleOf[k].window]
  OBVIOUS
<1>4. counters' = [counters EXCEPT ![k][w] = value] /\ UNCHANGED <<store, high, granted>>
  <2>1. counters' = [counters EXCEPT ![k][w] =
                        IF LiveCounter(k, w) = Zero THEN counters[k][w]
                        ELSE [counters[k][w] EXCEPT !.expires = clock + RuleOf[k].window]]
    BY <1>1 DEF Expire, Typed, ServerTyped
  <2> QED
    BY <1>2, <1>3, <2>1 DEF Expire
<1>5. value \in Counter
  <2>1. RuleOf[k].window \in Nat /\ clock \in Nat
    <3>1. RuleOf[k] \in LimitRule /\ RuleOf[k].algorithm = "fixed_window"
      BY RedisAssumption DEF FixedKeys, IsFixed
    <3> QED
      BY <3>1, ClockReading DEF LimitRule, WindowRule, BucketRule, Positive, Typed, ClientsTyped
  <2> QED
    BY <1>3, <2>1 DEF Counter
<1>6. /\ DOMAIN counters' = FixedKeys
      /\ \A l \in FixedKeys : counters'[l] \in [Starts(l) -> Counter]
  BY <1>4, <1>5, CounterWritten
<1> QED
  BY <1>4, <1>6 DEF Typed, ServerTyped

\* A step of the server carries out one command, sent or late, of the key that it is for.
LEMMA CommandsTyped ==
    ASSUME Typed
    PROVE  /\ \A c \in Callers :
                /\ key[c] \in Keys /\ local[c].now \in Times /\ local[c].stamp \in Times
                /\ CallId(c) \in RequestIds
                /\ pc[c] \in {"sent", "executed"} =>
                       (IF local[c].op = "EVAL" THEN key[c] \in Keys \ FixedKeys
                                                ELSE key[c] \in FixedKeys)
           /\ \A m \in adrift :
                /\ m.key \in Keys /\ m.now \in Times /\ m.id \in RequestIds
                /\ IF m.op = "EVAL" THEN m.key \in Keys \ FixedKeys ELSE m.key \in FixedKeys
BY DEF Typed, ClientsTyped, Locals, Commands, CallId, RequestIds, FixedKeys

LEMMA ServerKept == ASSUME Typed, [Next]_vars PROVE ServerTyped'
<1>1. ASSUME UNCHANGED <<store, counters, granted, high>>
      PROVE  ServerTyped'
  BY <1>1 DEF Typed, ServerTyped
<1>2. ASSUME NEW c \in Callers, Served(c)
      PROVE  ServerTyped'
  <2>1. CASE ServeTime(c)
    BY <1>1, <2>1 DEF ServeTime, serverVars
  <2>2. CASE ServeIncr(c)
    BY <2>2, IncrTyped, CommandsTyped DEF ServeIncr, Serve
  <2>3. CASE ServeExpire(c)
    BY <2>3, ExpireTyped, CommandsTyped DEF ServeExpire, Serve
  <2>4. CASE ServeEval(c)
    BY <2>4, EvalTyped, CommandsTyped DEF ServeEval, Serve
  <2> QED
    BY <1>2, <2>1, <2>2, <2>3, <2>4 DEF Served
<1>3. CASE ServeLate
  <2>1. PICK m \in adrift : \/ m.op = "EVAL" /\ Eval(m.id, m.process, m.key, m.now)
                            \/ m.op = "INCR" /\ Incr(m.key, m.now)
                            \/ m.op = "EXPIRE" /\ Expire(m.key, m.now)
    BY <1>3, Zenon DEF ServeLate
  <2>2. m.key \in Keys /\ m.now \in Times /\ m.id \in RequestIds
        /\ IF m.op = "EVAL" THEN m.key \in Keys \ FixedKeys ELSE m.key \in FixedKeys
    BY CommandsTyped
  <2> QED
    BY <2>1, <2>2, EvalTyped, IncrTyped, ExpireTyped
<1>4. ASSUME NEW c \in Callers, Proceed(c) \/ Fault(c)
      PROVE  UNCHANGED <<store, counters, granted, high>>
  BY <1>4, Zenon DEF Proceed, Begin, ReceiveAndGoOn, Return, ResortToMemory, FailOpen, FailClosed,
     Answer, End, Fault, Resend, Fail, Cancel, serverVars, historyVars
<1>5. CASE Tick \/ Finished \/ UNCHANGED vars
  BY <1>1, <1>5 DEF Tick, Finished, vars, serverVars, historyVars
<1> QED
  BY <1>1, <1>2, <1>3, <1>4, <1>5 DEF Next

\* A call that ends with an answer.
LEMMA Answered ==
    ASSUME Typed, NEW c \in Callers, NEW allowed, NEW by \in Answerers, NEW at \in Int,
           Answer(c, allowed, by, at)
    PROVE  /\ AnswersTyped'
           /\ \A k \in Keys \ {key[c]} : answers'[k] = answers[k]
           /\ answers'[key[c]] = IF allowed THEN Append(answers[key[c]], [by |-> by, at |-> at])
                                            ELSE answers[key[c]]
<1>1. /\ answers \in [Keys -> Seq([by : Answerers, at : Int])] /\ key[c] \in Keys
      /\ answers[key[c]] \in Seq([by : Answerers, at : Int])
  BY DEF Typed, ClientsTyped, AnswersTyped
<1>2. PICK answer \in [by : Answerers, at : Int] : answer = [by |-> by, at |-> at]
  OBVIOUS
<1>3. Append(answers[key[c]], answer) \in Seq([by : Answerers, at : Int])
  BY <1>1, AppendProperties
<1>4. answers' = [answers EXCEPT ![key[c]] = IF allowed THEN Append(answers[key[c]], answer)
                                                        ELSE answers[key[c]]]
  BY <1>1, <1>2 DEF Answer
<1> QED
  BY <1>1, <1>2, <1>3, <1>4 DEF AnswersTyped

LEMMA Answering ==
    ASSUME Typed, NEW c \in Callers,
           Return(c) \/ ResortToMemory(c) \/ FailOpen(c) \/ FailClosed(c)
    PROVE  \E allowed : \E by \in Answerers, at \in Int :
                /\ Answer(c, allowed, by, at)
                /\ \/ pc[c] = "executed" /\ FollowUps(c) = {} /\ by = "server"
                          /\ allowed = local[c].allowed
                   \/ pc[c] = "failed" /\ by # "server"
<1>1. local[c].now \in Int /\ local[c].stamp \in Int /\ clock \in Int
  BY ClockReading, CommandsTyped DEF Typed, ClientsTyped
<1>2. ProcessOf[c] \in Processes /\ Skew[ProcessOf[c]] \in Nat /\ "server" \notin Processes
  BY RedisAssumption
<1>3. CASE Return(c)
  <2>1. PICK allowed : /\ Answer(c, allowed, "server", local[c].now) /\ allowed = local[c].allowed
                       /\ pc[c] = "executed" /\ FollowUps(c) = {}
    BY <1>3 DEF Return
  <2>2. "server" \in Answerers /\ local[c].now \in Int
    BY <1>1 DEF Answerers
  <2>3. \E by \in Answerers, at \in Int : Answer(c, allowed, by, at) /\ by = "server"
    BY <2>1, <2>2
  <2> QED
    BY <2>1, <2>3
<1>4. CASE ResortToMemory(c)
  <2>1. PICK allowed : Answer(c, allowed, ProcessOf[c], local[c].stamp - Skew[ProcessOf[c]])
    BY <1>4, Zenon DEF ResortToMemory
  <2>2. ProcessOf[c] \in Answerers /\ ProcessOf[c] # "server"
    BY <1>2 DEF Answerers
  <2>3. local[c].stamp - Skew[ProcessOf[c]] \in Int
    BY <1>1, <1>2
  <2>4. pc[c] = "failed"
    BY <1>4, Zenon DEF ResortToMemory, FellBack
  <2> QED
    BY <2>1, <2>2, <2>3, <2>4
<1>5. CASE FailOpen(c)
  <2>0. Answer(c, TRUE, "open", clock) /\ pc[c] = "failed"
    BY <1>5, Zenon DEF FailOpen, FellBack
  <2>1. PICK allowed : Answer(c, allowed, "open", clock) /\ pc[c] = "failed"
    BY <2>0, Zenon
  <2>2. "open" \in Answerers /\ clock \in Int /\ "open" # "server"
    BY <1>1 DEF Answerers
  <2>3. \E by \in Answerers, at \in Int : Answer(c, allowed, by, at) /\ by # "server"
    BY <2>1, <2>2
  <2> QED
    BY <2>1, <2>3
<1>6. CASE FailClosed(c)
  <2>0. Answer(c, FALSE, "closed", clock) /\ pc[c] = "failed"
    BY <1>6, Zenon DEF FailClosed, FellBack
  <2>1. PICK allowed : Answer(c, allowed, "closed", clock) /\ pc[c] = "failed"
    BY <2>0, Zenon
  <2>2. "closed" \in Answerers /\ clock \in Int /\ "closed" # "server"
    BY <1>1 DEF Answerers
  <2>3. \E by \in Answerers, at \in Int : Answer(c, allowed, by, at) /\ by # "server"
    BY <2>1, <2>2
  <2> QED
    BY <2>1, <2>3
<1> QED
  BY <1>3, <1>4, <1>5, <1>6

LEMMA AnswersKept == ASSUME Typed, [Next]_vars PROVE AnswersTyped'
<1>1. ASSUME answers' = answers
      PROVE  AnswersTyped'
  BY <1>1 DEF Typed, AnswersTyped
<1>2. ASSUME NEW c \in Callers, Return(c) \/ ResortToMemory(c) \/ FailOpen(c) \/ FailClosed(c)
      PROVE  AnswersTyped'
  BY <1>2, Answering, Answered
<1>3. ASSUME NEW c \in Callers, Served(c) \/ Begin(c) \/ ReceiveAndGoOn(c) \/ Fault(c)
      PROVE  answers' = answers
  BY <1>3, Zenon DEF Served, ServeTime, ServeIncr, ServeExpire, ServeEval, Serve, Begin, ReceiveAndGoOn,
     Fault, Resend, Fail, Cancel, historyVars
<1>4. CASE ServeLate
  BY <1>1, <1>4, Zenon DEF ServeLate
<1>5. CASE Tick \/ Finished \/ UNCHANGED vars
  BY <1>1, <1>5 DEF Tick, Finished, vars, historyVars
<1> QED
  BY <1>1, <1>2, <1>3, <1>4, <1>5 DEF Next, Proceed

THEOREM TypesHold == Spec => []Typed
<1>1. Init => Typed
  <2> SUFFICES ASSUME Init PROVE ServerTyped /\ AnswersTyped
    BY ClientsInit DEF Typed
  <2>1. \A rule \in LimitRule : <<>> \in StoredUnder(rule)
    BY Zenon, EmptySeq DEF StoredUnder, EntryUnder, Entry
  <2>2. \A k \in Keys : RuleOf[k] \in LimitRule
    BY RedisAssumption
  <2>3. /\ DOMAIN store = Keys
        /\ \A k \in Keys : store[k] \in [entry : StoredUnder(RuleOf[k]), expires : Int]
    <3>1. store = [k \in Keys |-> Absent] /\ Absent.entry = <<>> /\ Absent.expires \in Int
          /\ Absent = [entry |-> Absent.entry, expires |-> Absent.expires]
      BY DEF Init, Absent, Never
    <3>2. \A k \in Keys : Absent \in [entry : StoredUnder(RuleOf[k]), expires : Int]
      BY <2>1, <2>2, <3>1
    <3> QED
      BY <3>1, <3>2
  <2>4. Zero \in Counter
    BY DEF Zero, Counter, Never
  <2>5. /\ DOMAIN counters = FixedKeys
        /\ \A k \in FixedKeys : counters[k] \in [Starts(k) -> Counter]
    BY <2>4 DEF Init
  <2>6. granted \in [Keys -> Seq(Grants)] /\ high \in [Keys -> Nat]
    BY DEF Init
  <2>7. answers \in [Keys -> Seq([by : Answerers, at : Int])]
    BY DEF Init
  <2> QED
    BY <2>3, <2>5, <2>6, <2>7 DEF ServerTyped, AnswersTyped
<1>2. Typed /\ [Next]_vars => Typed'
  BY ClientsKept, ServerKept, AnswersKept DEF Typed
<1> QED
  BY <1>1, <1>2, PTL DEF Spec

-----------------------------------------------------------------------------
(***************************************************************************)
(* What the scripts keep, only EVAL touches.                               *)
(***************************************************************************)

Passive == store' = store /\ high' = high /\ reply' = reply

LEMMA ServerStep ==
    ASSUME Typed, [Next]_vars
    PROVE  \/ \E k \in Keys \ FixedKeys, t \in Times, id \in RequestIds, p \in Processes :
                 Eval(id, p, k, t) /\ clock' = clock
           \/ /\ Passive /\ clock' \in {clock, clock + 1}
              /\ \A k \in Keys \ FixedKeys : granted'[k] = granted[k]
<1> DEFINE Decides == \E k \in Keys \ FixedKeys, t \in Times, id \in RequestIds, p \in Processes :
                          Eval(id, p, k, t) /\ clock' = clock
           Rests   == /\ Passive /\ clock' \in {clock, clock + 1}
                      /\ \A k \in Keys \ FixedKeys : granted'[k] = granted[k]
<1>1. CASE UNCHANGED vars \/ Finished \/ Tick
  BY <1>1 DEF vars, Finished, Tick, serverVars, historyVars, Passive
<1>2. ASSUME NEW k \in FixedKeys, NEW t \in Times, Incr(k, t) \/ Expire(k, t), clock' = clock
      PROVE  Rests
  <2>1. k \in Keys
    BY DEF FixedKeys
  <2>2. Passive
    BY <1>2 DEF Incr, Expire, Passive
  <2>3. \A l \in Keys \ {k} : granted'[l] = granted[l]
    <3>1. CASE Incr(k, t)
      <4>1. PICK admitted : Grant(k, admitted, t)
        BY <3>1 DEF Incr
      <4> QED
        BY <2>1, <4>1, GrantTyped
    <3>2. CASE Expire(k, t)
      BY <3>2 DEF Expire
    <3> QED
      BY <1>2, <3>1, <3>2
  <2> QED
    BY <1>2, <2>2, <2>3
<1>3. CASE ServeLate
  <2>1. PICK m \in adrift :
            /\ \/ m.op = "EVAL" /\ Eval(m.id, m.process, m.key, m.now)
               \/ m.op = "INCR" /\ Incr(m.key, m.now)
               \/ m.op = "EXPIRE" /\ Expire(m.key, m.now)
            /\ clock' = clock
    BY <1>3 DEF ServeLate
  <2>2. PICK k, t, id, p : k = m.key /\ t = m.now /\ id = m.id /\ p = m.process
    OBVIOUS
  <2>3. /\ k \in Keys /\ t \in Times /\ id \in RequestIds
        /\ IF m.op = "EVAL" THEN k \in Keys \ FixedKeys ELSE k \in FixedKeys
    BY <2>2, CommandsTyped
  <2>6. p \in Processes
    BY <2>1, <2>2 DEF Typed, ClientsTyped, Commands
  <2>4. CASE m.op = "EVAL"
    <3>1. Eval(id, p, k, t)
      BY <2>1, <2>2, <2>4
    <3> QED
      BY <2>1, <2>3, <2>4, <2>6, <3>1
  <2>5. CASE m.op # "EVAL"
    <3>1. Incr(k, t) \/ Expire(k, t)
      BY <2>1, <2>2, <2>5
    <3> QED
      BY <1>2, <2>1, <2>3, <2>5, <3>1
  <2> QED
    BY <2>4, <2>5
<1>4. ASSUME NEW c \in Callers, Served(c)
      PROVE  Decides \/ Rests
  <2>1. PICK k \in Keys, t \in Times, s \in Times, id \in RequestIds, p \in Processes :
            /\ k = key[c] /\ t = local[c].now /\ s = local[c].stamp /\ id = CallId(c)
            /\ p = ProcessOf[c]
    BY CommandsTyped, RedisAssumption
  <2>2. pc[c] = "sent" /\ clock' = clock
    BY <1>4 DEF Served, ServeTime, ServeIncr, ServeExpire, ServeEval, Serve
  <2>3. IF local[c].op = "EVAL" THEN k \in Keys \ FixedKeys ELSE k \in FixedKeys
    BY <2>1, <2>2, CommandsTyped
  <2>4. CASE ServeTime(c)
    <3>1. Passive /\ granted' = granted
      BY <2>4 DEF ServeTime, serverVars, Passive
    <3> QED
      BY <2>2, <3>1 DEF Passive
  <2>5. CASE ServeIncr(c)
    <3>1. Incr(k, t) /\ local[c].op = "INCR"
      BY <2>1, <2>5 DEF ServeIncr, Serve
    <3> QED
      BY <1>2, <2>2, <2>3, <3>1
  <2>6. CASE ServeExpire(c)
    <3>1. Expire(k, t) /\ local[c].op = "EXPIRE"
      BY <2>1, <2>6 DEF ServeExpire, Serve
    <3> QED
      BY <1>2, <2>2, <2>3, <3>1
  <2>7. CASE ServeEval(c)
    <3>1. Eval(id, p, k, s) /\ local[c].op = "EVAL"
      BY <2>1, <2>7 DEF ServeEval, Serve
    <3> QED
      BY <2>2, <2>3, <3>1
  <2> QED
    BY <1>4, <2>4, <2>5, <2>6, <2>7 DEF Served
<1>5. ASSUME NEW c \in Callers, Proceed(c) \/ Fault(c)
      PROVE  Decides \/ Rests
  <2>1. Passive /\ granted' = granted /\ clock' = clock
    <3>1. CASE Proceed(c)
      BY <3>1 DEF Proceed, Begin, ReceiveAndGoOn, Return, ResortToMemory, FailOpen, FailClosed,
                  Answer, End, serverVars, historyVars, Passive
    <3>2. CASE Fault(c)
      BY <3>2 DEF Fault, Resend, Fail, Cancel, End, serverVars, historyVars, Passive
    <3> QED
      BY <1>5, <3>1, <3>2
  <2> QED
    BY <2>1 DEF Passive
<1> QED
  BY <1>1, <1>3, <1>4, <1>5 DEF Next

\* The stamps of a history.
StampsOf(grants) == [i \in DOMAIN grants |-> grants[i].stamp]

LEMMA StampsOfMore ==
    ASSUME NEW grants \in Seq(Grants), NEW grant \in Grants
    PROVE  /\ StampsOf(grants) \in Seq(Times)
           /\ StampsOf(Append(grants, grant)) = Append(StampsOf(grants), grant.stamp)
<1>1. ASSUME NEW s \in Seq(Grants)
      PROVE  /\ StampsOf(s) \in Seq(Times) /\ Len(StampsOf(s)) = Len(s)
             /\ \A i \in 1 .. Len(s) : StampsOf(s)[i] = s[i].stamp
  <2>1. DOMAIN s = 1 .. Len(s) /\ Len(s) \in Nat /\ \A i \in 1 .. Len(s) : s[i] \in Grants
    BY LenProperties, ElementOfSeq
  <2>2. PICK n \in Nat : n = Len(s)
    BY <2>1
  <2>3. StampsOf(s) = [i \in 1 .. n |-> s[i].stamp] /\ \A i \in 1 .. n : s[i].stamp \in Times
    BY <2>1, <2>2 DEF StampsOf, Grants
  <2>4. StampsOf(s) \in [1 .. n -> Times]
    BY <2>3
  <2>5. StampsOf(s) \in Seq(Times) /\ Len(StampsOf(s)) = n
    BY <2>4
  <2> QED
    BY <2>2, <2>3, <2>5
<1>2. PICK n \in Nat : n = Len(grants)
  BY LenProperties
<1>3. PICK more \in Seq(Grants) :
            /\ more = Append(grants, grant) /\ Len(more) = n + 1
            /\ \A i \in 1 .. n : more[i] = grants[i]
            /\ more[n + 1] = grant
  BY <1>2, AppendProperties
<1>4. PICK stamps \in Seq(Times) :
            /\ stamps = StampsOf(more) /\ Len(stamps) = n + 1
            /\ \A i \in 1 .. n + 1 : stamps[i] = more[i].stamp
  BY <1>1, <1>3
<1>5. PICK before \in Seq(Times) :
            /\ before = StampsOf(grants) /\ Len(before) = n
            /\ \A i \in 1 .. n : before[i] = grants[i].stamp
  BY <1>1, <1>2
<1>6. PICK stamp \in Times : stamp = grant.stamp
  BY DEF Grants
<1>7. PICK plain \in Seq(Times) :
            /\ plain = Append(before, stamp) /\ Len(plain) = n + 1
            /\ \A i \in 1 .. n : plain[i] = before[i]
            /\ plain[n + 1] = stamp
  <2>1. PICK plain : plain = Append(before, stamp)
    OBVIOUS
  <2>2. /\ plain \in Seq(Times) /\ Len(plain) = Len(before) + 1
        /\ \A i \in 1 .. Len(before) : plain[i] = before[i]
        /\ plain[Len(before) + 1] = stamp
    BY <2>1, AppendProperties
  <2> QED
    BY <1>5, <2>1, <2>2, Zenon
<1>8. ASSUME NEW i \in 1 .. n + 1
      PROVE  stamps[i] = plain[i]
  <2>1. i \in 1 .. n \/ i = n + 1
    OBVIOUS
  <2>2. CASE i \in 1 .. n
    BY <1>3, <1>4, <1>5, <1>7, <2>2
  <2>3. CASE i = n + 1
    BY <1>3, <1>4, <1>6, <1>7, <2>3
  <2> QED
    BY <2>1, <2>2, <2>3
<1>9. Len(stamps) = Len(plain) /\ \A i \in 1 .. Len(stamps) : stamps[i] = plain[i]
  BY <1>4, <1>7, <1>8
<1>10. stamps = plain
  BY <1>9, SeqEqual
<1> QED
  BY <1>3, <1>4, <1>5, <1>6, <1>7, <1>10

-----------------------------------------------------------------------------
(***************************************************************************)
(* LedgerBalances.  A fault wastes one admission at most: the one that its *)
(* caller held, or that of the command which it sets adrift.  An admission *)
(* that was wasted by a lost reply may be found again, when the command is *)
(* repeated and the request is known; there are as many wasted ones as     *)
(* callers that may still find theirs.                                     *)
(***************************************************************************)

\* The requests that the sorted set of a key names.
Recorded(k) ==
    IF RuleOf[k].algorithm = "sliding_window" THEN IdsIn(store[k].entry) ELSE {}

\* The command of c may be told of an admission that was recorded before.
Repeatable(c, k) ==
    /\ key[c] = k /\ pc[c] \in {"sent", "executed"} /\ local[c].op = "EVAL"
    /\ ~Holds(c, k)
    /\ CallId(c) \in Recorded(k)

Holders(k)   == {c \in Callers : Holds(c, k)}
Repeaters(k) == {c \in Callers : Repeatable(c, k)}

ServerAnswers(k) == {i \in DOMAIN answers[k] : answers[k][i].by = "server"}

\* Late commands that may still admit a request to k.
Afloat(k) == {m \in adrift : m.key = k /\ m.op # "EXPIRE"}

\* No request is known to the server before its call has begun.
IdsKnown ==
    /\ IsFiniteSet(adrift)
    /\ \A m \in adrift : m.id[2] <= calls[m.id[1]]
    /\ \A k \in Keys : \A id \in Recorded(k) : id[2] <= calls[id[1]]

\* What a caller knows of its admission while it sends one command after another.
AllowedKnown ==
    \A c \in Callers :
        /\ pc[c] = "idle" => local[c] = NoCall
        /\ local[c].op = "TIME" => ~local[c].allowed
        /\ local[c].op = "EXPIRE" => local[c].allowed
        /\ pc[c] = "executed" /\ local[c].op = "INCR" /\ local[c].count = 1 => local[c].allowed

BalancedAt(k) ==
    /\ Wasted(k) + Cardinality(Afloat(k)) <= faults
    /\ Cardinality(Repeaters(k)) <= Wasted(k)

Balanced == \A k \in Keys : BalancedAt(k)

LedgerInv == Typed /\ IdsKnown /\ AllowedKnown /\ Balanced

-----------------------------------------------------------------------------
One(x, S) == IF x \in S THEN 1 ELSE 0

\* Two sets that differ in one element at most.
LEMMA OneApart ==
    ASSUME NEW S, NEW R, NEW x, IsFiniteSet(S), R \in SUBSET (S \cup {x})
    PROVE  /\ IsFiniteSet(R) /\ Cardinality(R) \in Nat /\ Cardinality(S) \in Nat
           /\ Cardinality(R) + One(x, S) <= Cardinality(S) + One(x, R)
<1>1. IsFiniteSet(S \cup {x})
  BY FS_AddElement
<1>2. IsFiniteSet(R)
  BY <1>1, FS_Subset
<1>3. /\ IsFiniteSet(S \ {x}) /\ Cardinality(S \ {x}) = Cardinality(S) - One(x, S)
  <2>1. /\ IsFiniteSet(S \ {x})
        /\ Cardinality(S \ {x}) = IF x \in S THEN Cardinality(S) - 1 ELSE Cardinality(S)
    BY FS_RemoveElement
  <2>2. Cardinality(S) \in Nat
    BY FS_CardinalityType
  <2> QED
    BY <2>1, <2>2 DEF One
<1>4. /\ IsFiniteSet(R \ {x}) /\ Cardinality(R \ {x}) = Cardinality(R) - One(x, R)
  <2>1. /\ IsFiniteSet(R \ {x})
        /\ Cardinality(R \ {x}) = IF x \in R THEN Cardinality(R) - 1 ELSE Cardinality(R)
    BY <1>2, FS_RemoveElement
  <2>2. Cardinality(R) \in Nat
    BY <1>2, FS_CardinalityType
  <2> QED
    BY <2>1, <2>2 DEF One
<1>5. Cardinality(R \ {x}) <= Cardinality(S \ {x})
  <2>1. R \ {x} \in SUBSET (S \ {x})
    OBVIOUS
  <2> QED
    BY <1>3, <2>1, FS_Subset
<1>6. Cardinality(R) \in Nat /\ Cardinality(S) \in Nat /\ One(x, S) \in Nat /\ One(x, R) \in Nat
  BY <1>2, FS_CardinalityType DEF One
<1> QED
  BY <1>2, <1>3, <1>4, <1>5, <1>6

\* Of the callers only c has moved.
OthersStay(c) ==
    \A d \in Callers \ {c} : /\ pc'[d] = pc[d] /\ key'[d] = key[d]
                             /\ local'[d] = local[d] /\ calls'[d] = calls[d]

\* Nor has the server recorded a request of another.
OnlyMoved(c) ==
    /\ OthersStay(c)
    /\ \A k \in Keys : Recorded(k)' \in SUBSET (Recorded(k) \cup ({c} \X Nat))

LEMMA CallersCounted ==
    ASSUME NEW c \in Callers, OnlyMoved(c), NEW k \in Keys
    PROVE  /\ Cardinality(Holders(k)) \in Nat /\ Cardinality(Holders(k)') \in Nat
           /\ Cardinality(Repeaters(k)) \in Nat /\ Cardinality(Repeaters(k)') \in Nat
           /\ Cardinality(Holders(k)') + One(c, Holders(k)) =
                  Cardinality(Holders(k)) + One(c, Holders(k)')
           /\ Cardinality(Repeaters(k)') + One(c, Repeaters(k)) <=
                  Cardinality(Repeaters(k)) + One(c, Repeaters(k)')
<1>1. \A d \in Callers \ {c} : Holds(d, k)' <=> Holds(d, k)
  BY DEF OnlyMoved, OthersStay, Holds
<1>2. \A d \in Callers \ {c} : Repeatable(d, k)' => Repeatable(d, k)
  <2> SUFFICES ASSUME NEW d \in Callers \ {c}, Repeatable(d, k)' PROVE Repeatable(d, k)
    OBVIOUS
  <2>1. CallId(d)' = CallId(d) /\ CallId(d) = <<d, calls[d]>>
    BY DEF OnlyMoved, OthersStay, CallId
  <2>2. CallId(d) \in Recorded(k)'
    BY <2>1 DEF Repeatable
  <2>3. CallId(d) \notin {c} \X Nat
    BY <2>1
  <2>4. CallId(d) \in Recorded(k)
    BY <2>2, <2>3 DEF OnlyMoved
  <2> QED
    BY <1>1, <2>4 DEF Repeatable, OnlyMoved, OthersStay
<1>3. IsFiniteSet(Callers)
  BY RedisAssumption
<1>4. PICK h \in SUBSET Callers, i \in SUBSET Callers, r \in SUBSET Callers, s \in SUBSET Callers :
        h = Holders(k) /\ i = Holders(k)' /\ r = Repeaters(k) /\ s = Repeaters(k)'
  BY DEF Holders, Repeaters
<1>5. i \in SUBSET (h \cup {c}) /\ h \in SUBSET (i \cup {c}) /\ s \in SUBSET (r \cup {c})
  BY <1>1, <1>2, <1>4 DEF Holders, Repeaters
<1>6. IsFiniteSet(h) /\ IsFiniteSet(i) /\ IsFiniteSet(r)
  BY <1>3, FS_Subset
<1>7. /\ Cardinality(i) \in Nat /\ Cardinality(h) \in Nat
      /\ Cardinality(i) + One(c, h) <= Cardinality(h) + One(c, i)
  BY <1>5, <1>6, OneApart
<1>8. Cardinality(h) + One(c, i) <= Cardinality(i) + One(c, h)
  BY <1>5, <1>6, OneApart
<1>9. /\ Cardinality(s) \in Nat /\ Cardinality(r) \in Nat
      /\ Cardinality(s) + One(c, r) <= Cardinality(r) + One(c, s)
  BY <1>5, <1>6, OneApart
<1>10. One(c, h) \in Nat /\ One(c, i) \in Nat
  BY DEF One
<1>11. Cardinality(i) + One(c, h) = Cardinality(h) + One(c, i)
  BY <1>7, <1>8, <1>10
<1> QED
  BY <1>4, <1>7, <1>9, <1>11

\* What the ledger has to know of a script: whether it admits a request, and whether
\* that request is a new one.
LEMMA EvalRecords ==
    ASSUME Typed, NEW k \in Keys \ FixedKeys, NEW t \in Times, NEW id \in RequestIds, NEW p,
           Eval(id, p, k, t),
           NEW allowed, allowed = Evaluated(id, k, t).outcome.allowed
    PROVE  /\ \A l \in Keys \ {k} : granted'[l] = granted[l] /\ Recorded(l)' = Recorded(l)
           /\ Recorded(k)' \in SUBSET (Recorded(k) \cup {id})
           /\ \E admitted \in {0, 1} :
                /\ Len(granted'[k]) = Len(granted[k]) + admitted
                /\ admitted = 1 => allowed
                /\ allowed /\ admitted = 0 => id \in Recorded(k)
                /\ admitted = 0 => Recorded(k)' \in SUBSET Recorded(k)
<1>1. PICK script : script = Evaluated(id, k, t)
  OBVIOUS
<1>2. PICK again \in BOOLEAN : again = (allowed /\ Known(id, k, t))
  OBVIOUS
<1>3. /\ store' = [store EXCEPT ![k] =
                      [entry |-> script.outcome.entry,
                       expires |-> IF allowed THEN clock + script.ttl ELSE @.expires]]
      /\ Grant(k, allowed /\ ~again, ScriptTime(k, t))
  BY <1>1, <1>2 DEF Eval
<1>4. allowed \in BOOLEAN
  BY EvaluatedType
<1>5. PICK new \in BOOLEAN : new = (allowed /\ ~again)
  OBVIOUS
<1>6. ScriptTime(k, t) \in Times
  BY ClockReading DEF Typed, ClientsTyped
<1>7. Grant(k, new, ScriptTime(k, t))
  BY <1>3, <1>5
<1>8. /\ \A l \in Keys \ {k} : granted'[l] = granted[l]
      /\ Len(granted'[k]) = Len(granted[k]) + (IF new THEN 1 ELSE 0)
  <2>1. /\ \A l \in Keys \ {k} : granted'[l] = granted[l]
        /\ granted'[k] = IF new THEN Append(granted[k], [stamp |-> ScriptTime(k, t), at |-> clock])
                                ELSE granted[k]
    BY <1>6, <1>7, GrantTyped
  <2>2. granted[k] \in Seq(Grants) /\ Len(granted[k]) \in Nat
    BY LenProperties DEF Typed, ServerTyped
  <2>3. Len(Append(granted[k], [stamp |-> ScriptTime(k, t), at |-> clock])) = Len(granted[k]) + 1
    BY <2>2
  <2>4. CASE new
    BY <2>1, <2>3, <2>4
  <2>5. CASE ~new
    <3>1. granted'[k] = granted[k]
      BY <2>1, <2>5
    <3> QED
      BY <2>1, <2>2, <2>5, <3>1
  <2> QED
    BY <2>4, <2>5
<1>9. /\ \A l \in Keys \ {k} : Recorded(l)' = Recorded(l)
      /\ store'[k].entry = script.outcome.entry
  BY <1>3 DEF Typed, ServerTyped, Recorded
<1>10. /\ Recorded(k)' \in SUBSET (Recorded(k) \cup {id})
       /\ ~allowed \/ again => Recorded(k)' \in SUBSET Recorded(k)
       /\ again => id \in Recorded(k)
  <2>1. CASE RuleOf[k].algorithm # "sliding_window"
    BY <1>2, <2>1 DEF Recorded, Known
  <2>2. CASE RuleOf[k].algorithm = "sliding_window"
    <3>1. RuleOf[k].window \in Positive /\ RuleOf[k].limit \in Positive
      BY <2>2, RedisAssumption DEF LimitRule, WindowRule, BucketRule
    <3>2. ScriptTime(k, t) \in Nat
      BY ClockReading DEF Typed, ClientsTyped
    <3>3. PICK live \in Seq(Members) : live = LiveEntry(k)
      BY <2>2, LookedUp DEF StoredUnder
    <3>4. IdsIn(live) \in SUBSET Recorded(k)
      BY <2>2, <3>3 DEF LiveEntry, Recorded, IdsIn
    <3>5. script = sliding_window_script(live, RuleOf[k].window, RuleOf[k].limit, ScriptTime(k, t), id)
      BY <1>1, <2>2, <3>3, Zenon DEF Evaluated, Script
    <3>6. PICK outcome : outcome = script.outcome
      OBVIOUS
    <3>7. /\ IdsIn(outcome.entry) \in SUBSET (IdsIn(live) \cup {id})
          /\ ~outcome.allowed => IdsIn(outcome.entry) \in SUBSET IdsIn(live)
      BY <3>1, <3>2, <3>5, <3>6, SlidingScript
    <3>8. again => id \in IdsIn(live)
      <4> SUFFICES ASSUME again PROVE id \in IdsIn(live)
        OBVIOUS
      <4>1. PICK i \in DOMAIN live : live[i] = <<ScriptTime(k, t), id>>
        BY <1>2, <3>3 DEF Known
      <4>2. live[i][2] = id
        BY <4>1
      <4> QED
        BY <4>2 DEF IdsIn
    <3>9. allowed = outcome.allowed /\ Recorded(k)' = IdsIn(outcome.entry)
      BY <1>1, <1>9, <2>2, <3>6 DEF Recorded
    <3> QED
      BY <3>4, <3>7, <3>8, <3>9
  <2> QED
    BY <2>1, <2>2
<1>11. PICK admitted \in {0, 1} : admitted = IF new THEN 1 ELSE 0
  OBVIOUS
<1>12. /\ admitted = 1 => allowed
       /\ allowed /\ admitted = 0 => again
       /\ admitted = 0 => ~allowed \/ again
  BY <1>2, <1>4, <1>5, <1>11
<1>13. Len(granted'[k]) = Len(granted[k]) + admitted
  BY <1>8, <1>11
<1> QED
  BY <1>8, <1>9, <1>10, <1>12, <1>13

LEMMA OthersStayed ==
    ASSUME Typed, NEW c \in Callers, Served(c) \/ Proceed(c) \/ Fault(c)
    PROVE  OthersStay(c)
<1>1. /\ DOMAIN pc = Callers /\ DOMAIN key = Callers /\ DOMAIN local = Callers /\ DOMAIN calls = Callers
  BY DEF Typed, ClientsTyped
<1>2. CASE Served(c)
  <2>1. Serve(c, local[c].op) /\ \A d \in Callers \ {c} : local'[d] = local[d]
    <3>1. CASE ServeTime(c)
      BY <1>1, <3>1 DEF ServeTime, Serve
    <3>2. CASE ServeIncr(c)
      <4>1. PICK next, allowed : local' = [local EXCEPT ![c].count = next, ![c].allowed = allowed]
        BY <3>2, Zenon DEF ServeIncr
      <4>2. \A d \in Callers \ {c} : local'[d] = local[d]
        BY <1>1, <4>1
      <4> QED
        BY <3>2, <4>2 DEF ServeIncr, Serve
    <3>3. CASE ServeExpire(c)
      BY <3>3 DEF ServeExpire, Serve
    <3>4. CASE ServeEval(c)
      BY <1>1, <3>4 DEF ServeEval, Serve
    <3> QED
      BY <1>2, <3>1, <3>2, <3>3, <3>4 DEF Served
  <2> QED
    BY <1>1, <2>1 DEF Serve, OthersStay
<1>3. CASE Begin(c)
  BY <1>1, <1>3 DEF Begin, OthersStay
<1>4. CASE ReceiveAndGoOn(c)
  BY <1>1, <1>4 DEF ReceiveAndGoOn, OthersStay
<1>5. CASE Return(c) \/ ResortToMemory(c) \/ FailOpen(c) \/ FailClosed(c)
  <2>1. End(c)
    BY <1>5, Zenon DEF Return, ResortToMemory, FailOpen, FailClosed, Answer
  <2> QED
    BY <1>1, <2>1 DEF End, OthersStay
<1>6. CASE Resend(c)
  BY <1>1, <1>6 DEF Resend, OthersStay
<1>7. CASE Fail(c)
  BY <1>1, <1>7 DEF Fail, callVars, OthersStay
<1>8. CASE Cancel(c)
  BY <1>1, <1>8 DEF Cancel, End, OthersStay
<1> QED
  BY <1>2, <1>3, <1>4, <1>5, <1>6, <1>7, <1>8 DEF Proceed, Fault

\* How the step of a caller leaves its place, its key and what it knows.
LEMMA CallerStep ==
    ASSUME Typed, NEW c \in Callers
    PROVE  /\ Served(c) => /\ pc[c] = "sent" /\ pc'[c] = "executed" /\ key' = key /\ calls' = calls
                           /\ local'[c].op = local[c].op
                           /\ UNCHANGED <<adrift, faults, answers>>
           /\ Begin(c) => /\ pc[c] = "idle" /\ pc'[c] = "sent" /\ calls'[c] = calls[c] + 1
                          /\ local'[c].op \in {"TIME", "INCR", "EVAL"}
                          /\ local'[c].allowed = local[c].allowed
                          /\ UNCHANGED <<serverVars, granted, answers, adrift, faults>>
           /\ ReceiveAndGoOn(c) =>
                 /\ pc[c] = "executed" /\ pc'[c] = "sent" /\ key' = key /\ calls' = calls
                 /\ local'[c].op \in FollowUps(c) /\ local'[c].allowed = local[c].allowed
                 /\ UNCHANGED <<serverVars, granted, answers, adrift, faults>>
           /\ Return(c) \/ ResortToMemory(c) \/ FailOpen(c) \/ FailClosed(c) =>
                 /\ pc'[c] = "idle" /\ local'[c] = NoCall /\ key' = key /\ calls' = calls
                 /\ UNCHANGED <<serverVars, granted, adrift, faults>>
           /\ Fault(c) => /\ GiveUp(c) /\ key' = key /\ calls' = calls
                          /\ \/ pc'[c] = "sent" /\ local'[c].op = local[c].op
                                                /\ local'[c].allowed = local[c].allowed
                             \/ pc'[c] = "failed" /\ local'[c] = local[c]
                             \/ pc'[c] = "idle" /\ local'[c] = NoCall
                          /\ UNCHANGED <<serverVars, granted, answers>>
<1>1. /\ pc \in [Callers -> Places] /\ key \in [Callers -> Keys] /\ local \in [Callers -> Locals]
      /\ calls \in [Callers -> Nat] /\ local[c] \in Locals
  BY DEF Typed, ClientsTyped
<1>2. ASSUME Served(c)
      PROVE  /\ pc[c] = "sent" /\ pc'[c] = "executed" /\ key' = key /\ calls' = calls
             /\ local'[c].op = local[c].op
             /\ UNCHANGED <<adrift, faults, answers>>
  <2>1. CASE ServeTime(c)
    BY <1>1, <2>1 DEF ServeTime, Serve, Locals
  <2>2. CASE ServeIncr(c)
    BY <1>1, <2>2 DEF ServeIncr, Serve, Locals
  <2>3. CASE ServeExpire(c)
    BY <1>1, <2>3 DEF ServeExpire, Serve, Locals
  <2>4. CASE ServeEval(c)
    BY <1>1, <2>4 DEF ServeEval, Serve, Locals
  <2> QED
    BY <1>2, <2>1, <2>2, <2>3, <2>4 DEF Served
<1>3. ASSUME Begin(c)
      PROVE  /\ pc[c] = "idle" /\ pc'[c] = "sent" /\ calls'[c] = calls[c] + 1
             /\ local'[c].op \in {"TIME", "INCR", "EVAL"}
             /\ local'[c].allowed = local[c].allowed
             /\ UNCHANGED <<serverVars, granted, answers, adrift, faults>>
  <2>1. PICK k \in Keys :
            local' = [local EXCEPT ![c].op = FirstCommand(k),
                                   ![c].stamp = LocalClock(c), ![c].now = LocalClock(c)]
    BY <1>3, Zenon DEF Begin
  <2>2. local'[c].op = FirstCommand(k) /\ local'[c].allowed = local[c].allowed
    BY <1>1, <2>1 DEF Locals
  <2>3. FirstCommand(k) \in {"TIME", "INCR", "EVAL"}
    BY DEF FirstCommand
  <2> QED
    BY <1>1, <1>3, <2>2, <2>3 DEF Begin, historyVars
<1>4. ASSUME ReceiveAndGoOn(c)
      PROVE  /\ pc[c] = "executed" /\ pc'[c] = "sent" /\ key' = key /\ calls' = calls
             /\ local'[c].op \in FollowUps(c) /\ local'[c].allowed = local[c].allowed
             /\ UNCHANGED <<serverVars, granted, answers, adrift, faults>>
  BY <1>1, <1>4 DEF ReceiveAndGoOn, historyVars, Locals
<1>5. ASSUME Return(c) \/ ResortToMemory(c) \/ FailOpen(c) \/ FailClosed(c)
      PROVE  /\ pc'[c] = "idle" /\ local'[c] = NoCall /\ key' = key /\ calls' = calls
             /\ UNCHANGED <<serverVars, granted, adrift, faults>>
  <2>1. End(c) /\ UNCHANGED <<adrift, faults>>
    BY <1>5, Zenon DEF Return, ResortToMemory, FailOpen, FailClosed, Answer
  <2> QED
    BY <1>1, <2>1 DEF End
<1>6. ASSUME Fault(c)
      PROVE  /\ GiveUp(c) /\ key' = key /\ calls' = calls
             /\ \/ pc'[c] = "sent" /\ local'[c].op = local[c].op /\ local'[c].allowed = local[c].allowed
                \/ pc'[c] = "failed" /\ local'[c] = local[c]
                \/ pc'[c] = "idle" /\ local'[c] = NoCall
             /\ UNCHANGED <<serverVars, granted, answers>>
  <2>1. CASE Resend(c)
    BY <1>1, <2>1 DEF Resend, historyVars, Locals
  <2>2. CASE Fail(c)
    BY <1>1, <2>2 DEF Fail, callVars, historyVars
  <2>3. CASE Cancel(c)
    BY <1>1, <2>3 DEF Cancel, End
  <2> QED
    BY <1>6, <2>1, <2>2, <2>3 DEF Fault
<1> QED
  BY <1>2, <1>3, <1>4, <1>5, <1>6

\* What the answer to a command of a fixed window leaves in the local variables.
LEMMA WindowReplies ==
    ASSUME Typed, NEW c \in Callers
    PROVE  /\ ServeTime(c) \/ ServeExpire(c) => local'[c].allowed = local[c].allowed
           /\ ServeIncr(c) =>
                LET next == LiveCounter(key[c], WindowStart(key[c], local[c].now)).count + 1
                IN  /\ next \in Nat /\ local'[c].count = next
                    /\ (local'[c].allowed <=> next <= RuleOf[key[c]].limit)
                    /\ RuleOf[key[c]].limit \in Positive
<1>1. local \in [Callers -> Locals] /\ local[c] \in Locals
  BY DEF Typed, ClientsTyped
<1>2. ASSUME ServeTime(c) \/ ServeExpire(c)
      PROVE  local'[c].allowed = local[c].allowed
  BY <1>1, <1>2 DEF ServeTime, ServeExpire, Locals
<1>3. ASSUME ServeIncr(c)
      PROVE  LET next == LiveCounter(key[c], WindowStart(key[c], local[c].now)).count + 1
             IN  /\ next \in Nat /\ local'[c].count = next
                 /\ (local'[c].allowed <=> next <= RuleOf[key[c]].limit)
                 /\ RuleOf[key[c]].limit \in Positive
  <2>1. PICK next : next = LiveCounter(key[c], WindowStart(key[c], local[c].now)).count + 1
    OBVIOUS
  <2>2. pc[c] = "sent" /\ local[c].op = "INCR"
    BY <1>3 DEF ServeIncr, Serve
  <2>3. key[c] \in FixedKeys /\ local[c].now \in Times
    BY <2>2, CommandsTyped
  <2>4. next \in Nat
    <3>1. WindowStart(key[c], local[c].now) \in Starts(key[c])
      BY <2>3, StartAsked DEF FixedKeys
    <3>2. LiveCounter(key[c], WindowStart(key[c], local[c].now)) \in Counter
      BY <2>3, <3>1, LookedUp
    <3> QED
      BY <2>1, <3>2 DEF Counter
  <2>5. local' = [local EXCEPT ![c].count = next, ![c].allowed = next <= RuleOf[key[c]].limit]
    BY <1>3, <2>1 DEF ServeIncr
  <2>6. local'[c].count = next /\ (local'[c].allowed <=> next <= RuleOf[key[c]].limit)
    BY <1>1, <2>5 DEF Locals
  <2>7. RuleOf[key[c]].limit \in Positive
    BY <2>3, RedisAssumption DEF FixedKeys, IsFixed, LimitRule, WindowRule, BucketRule
  <2> QED
    BY <2>1, <2>4, <2>6, <2>7
<1> QED
  BY <1>2, <1>3

LEMMA AllowedMoves ==
    ASSUME AllowedKnown, NEW c \in Callers, OthersStay(c),
           pc'[c] = "idle" => local'[c] = NoCall,
           local'[c].op = "TIME" => ~local'[c].allowed,
           local'[c].op = "EXPIRE" => local'[c].allowed,
           pc'[c] = "executed" /\ local'[c].op = "INCR" /\ local'[c].count = 1 => local'[c].allowed
    PROVE  AllowedKnown'
BY DEF AllowedKnown, OthersStay

LEMMA AllowedKept == ASSUME Typed, AllowedKnown, [Next]_vars PROVE AllowedKnown'
<1>0. NoCall.op = "EVAL" /\ NoCall.allowed = FALSE
  BY DEF NoCall
<1>1. ASSUME NEW c \in Callers, Served(c)
      PROVE  AllowedKnown'
  <2>1. OthersStay(c) /\ pc'[c] = "executed" /\ local'[c].op = local[c].op
    BY <1>1, OthersStayed, CallerStep
  <2>2. CASE ServeTime(c) \/ ServeExpire(c)
    <3>1. local[c].op \in {"TIME", "EXPIRE"} /\ local'[c].allowed = local[c].allowed
      BY <2>2, WindowReplies DEF ServeTime, ServeExpire, Serve
    <3> QED
      BY <2>1, <3>1, AllowedMoves DEF AllowedKnown
  <2>3. CASE ServeIncr(c)
    <3>1. local[c].op = "INCR"
      BY <2>3 DEF ServeIncr, Serve
    <3>2. local'[c].count = 1 => local'[c].allowed
      <4>1. PICK next \in Nat : /\ local'[c].count = next
                                /\ (local'[c].allowed <=> next <= RuleOf[key[c]].limit)
                                /\ RuleOf[key[c]].limit \in Positive
        BY <2>3, WindowReplies
      <4> QED
        BY <4>1 DEF Positive
    <3> QED
      BY <2>1, <3>1, <3>2, AllowedMoves
  <2>4. CASE ServeEval(c)
    <3>1. local[c].op = "EVAL"
      BY <2>4 DEF ServeEval, Serve
    <3> QED
      BY <2>1, <3>1, AllowedMoves
  <2> QED
    BY <1>1, <2>2, <2>3, <2>4 DEF Served
<1>2. ASSUME NEW c \in Callers, Begin(c)
      PROVE  AllowedKnown'
  <2>1. OthersStay(c)
    BY <1>2, OthersStayed DEF Proceed
  <2>2. pc'[c] = "sent" /\ local'[c].op \in {"TIME", "INCR", "EVAL"} /\ ~local'[c].allowed
    BY <1>0, <1>2, CallerStep DEF AllowedKnown
  <2> QED
    BY <2>1, <2>2, AllowedMoves
<1>3. ASSUME NEW c \in Callers, ReceiveAndGoOn(c)
      PROVE  AllowedKnown'
  <2>1. OthersStay(c)
    BY <1>3, OthersStayed DEF Proceed
  <2>2. /\ pc[c] = "executed" /\ pc'[c] = "sent"
        /\ local'[c].op \in FollowUps(c) /\ local'[c].allowed = local[c].allowed
    BY <1>3, CallerStep
  <2>3. local'[c].op \in {"INCR", "EXPIRE"} /\ (local'[c].op = "EXPIRE" => local'[c].allowed)
    BY <2>2 DEF FollowUps, AllowedKnown
  <2> QED
    BY <2>1, <2>2, <2>3, AllowedMoves
<1>4. ASSUME NEW c \in Callers, Return(c) \/ ResortToMemory(c) \/ FailOpen(c) \/ FailClosed(c)
      PROVE  AllowedKnown'
  <2>1. OthersStay(c)
    BY <1>4, OthersStayed DEF Proceed
  <2>2. pc'[c] = "idle" /\ local'[c] = NoCall
    BY <1>4, CallerStep
  <2> QED
    BY <1>0, <2>1, <2>2, AllowedMoves
<1>5. ASSUME NEW c \in Callers, Fault(c)
      PROVE  AllowedKnown'
  <2>1. OthersStay(c)
    BY <1>5, OthersStayed
  <2>2. \/ pc'[c] = "sent" /\ local'[c].op = local[c].op /\ local'[c].allowed = local[c].allowed
        \/ pc'[c] = "failed" /\ local'[c] = local[c]
        \/ pc'[c] = "idle" /\ local'[c] = NoCall
    BY <1>5, CallerStep
  <2> QED
    BY <1>0, <2>1, <2>2, AllowedMoves DEF AllowedKnown
<1>6. CASE ServeLate \/ Tick \/ Finished \/ UNCHANGED vars
  <2>1. UNCHANGED <<pc, local>>
    BY <1>6, Zenon DEF ServeLate, Tick, Finished, vars, callVars
  <2> QED
    BY <2>1 DEF AllowedKnown
<1> QED
  BY <1>1, <1>2, <1>3, <1>4, <1>5, <1>6 DEF Next, Proceed

\* A step of the server records the request of the command that it carries out.
LEMMA RecordedServed ==
    ASSUME Typed, NEW c \in Callers, Served(c), NEW k \in Keys
    PROVE  Recorded(k)' \in SUBSET (Recorded(k) \cup {CallId(c)})
<1>1. CASE ServeEval(c)
  <2>0. PICK l \in Keys \ FixedKeys, id \in RequestIds, t \in Times :
            l = key[c] /\ id = CallId(c) /\ Eval(id, ProcessOf[c], l, t)
    BY <1>1, CommandsTyped DEF ServeEval, Serve
  <2>1. PICK p : l = key[c] /\ id = CallId(c) /\ Eval(id, p, l, t)
    BY <2>0
  <2>2. PICK allowed : allowed = Evaluated(id, l, t).outcome.allowed
    OBVIOUS
  <2>3. /\ \A n \in Keys \ {l} : Recorded(n)' = Recorded(n)
        /\ Recorded(l)' \in SUBSET (Recorded(l) \cup {id})
    BY <2>1, <2>2, EvalRecords
  <2> QED
    BY <2>1, <2>3
<1>2. CASE ServeTime(c) \/ ServeIncr(c) \/ ServeExpire(c)
  <2>1. store' = store
    BY <1>2, Zenon DEF ServeTime, ServeIncr, ServeExpire, Incr, Expire, serverVars
  <2> QED
    BY <2>1 DEF Recorded
<1> QED
  BY <1>1, <1>2 DEF Served

LEMMA RecordedLate ==
    ASSUME Typed, NEW m \in adrift, NEW k \in Keys,
           \/ m.op = "EVAL" /\ Eval(m.id, m.process, m.key, m.now)
           \/ m.op = "INCR" /\ Incr(m.key, m.now)
           \/ m.op = "EXPIRE" /\ Expire(m.key, m.now)
    PROVE  Recorded(k)' \in SUBSET (Recorded(k) \cup {m.id})
<1>1. CASE m.op = "EVAL" /\ Eval(m.id, m.process, m.key, m.now)
  <2>0. PICK l \in Keys \ FixedKeys, id \in RequestIds, t \in Times :
            l = m.key /\ id = m.id /\ Eval(id, m.process, l, t)
    BY <1>1, CommandsTyped
  <2>1. PICK p : l = m.key /\ id = m.id /\ Eval(id, p, l, t)
    BY <2>0
  <2>2. PICK allowed : allowed = Evaluated(id, l, t).outcome.allowed
    OBVIOUS
  <2>3. /\ \A n \in Keys \ {l} : Recorded(n)' = Recorded(n)
        /\ Recorded(l)' \in SUBSET (Recorded(l) \cup {id})
    BY <2>1, <2>2, EvalRecords
  <2> QED
    BY <2>1, <2>3
<1>2. CASE Incr(m.key, m.now) \/ Expire(m.key, m.now)
  <2>1. store' = store
    BY <1>2, Zenon DEF Incr, Expire
  <2> QED
    BY <2>1 DEF Recorded
<1> QED
  BY <1>1, <1>2

LEMMA IdsKept == ASSUME Typed, IdsKnown, [Next]_vars PROVE IdsKnown'
<1>0. \A c \in Callers : calls[c] \in Nat /\ CallId(c) \in RequestIds
                         /\ CallId(c)[1] = c /\ CallId(c)[2] <= calls[c]
  BY DEF Typed, ClientsTyped, CallId, RequestIds
<1>1. \A k \in Keys : Recorded(k) \in SUBSET RequestIds
  <2> SUFFICES ASSUME NEW k \in Keys, RuleOf[k].algorithm = "sliding_window"
               PROVE  IdsIn(store[k].entry) \in SUBSET RequestIds
    BY DEF Recorded
  <2>1. store[k].entry \in Seq(Members)
    BY DEF Typed, ServerTyped, StoredUnder
  <2>2. \A i \in DOMAIN store[k].entry : store[k].entry[i] \in Members
    BY <2>1, ElementOfSeq, LenProperties
  <2> QED
    BY <2>2 DEF IdsIn, Members
<1>2. \A m \in adrift : m.id \in RequestIds
  BY CommandsTyped
<1>3. ASSUME NEW c \in Callers, Served(c)
      PROVE  IdsKnown'
  <2>1. adrift' = adrift /\ calls' = calls
    BY <1>3, CallerStep
  <2>2. \A k \in Keys : Recorded(k)' \in SUBSET (Recorded(k) \cup {CallId(c)})
    BY <1>3, RecordedServed
  <2> QED
    BY <1>0, <2>1, <2>2 DEF IdsKnown
<1>4. CASE ServeLate
  <2>1. PICK m \in adrift :
            /\ \/ m.op = "EVAL" /\ Eval(m.id, m.process, m.key, m.now)
               \/ m.op = "INCR" /\ Incr(m.key, m.now)
               \/ m.op = "EXPIRE" /\ Expire(m.key, m.now)
            /\ adrift' = adrift \ {m} /\ calls' = calls
    BY <1>4, Zenon DEF ServeLate, callVars
  <2>2. \A k \in Keys : Recorded(k)' \in SUBSET (Recorded(k) \cup {m.id})
    BY <2>1, RecordedLate
  <2>3. IsFiniteSet(adrift')
    BY <2>1, FS_RemoveElement DEF IdsKnown
  <2> QED
    BY <2>1, <2>2, <2>3 DEF IdsKnown
<1>5. ASSUME NEW c \in Callers, Begin(c)
      PROVE  IdsKnown'
  <2>1. calls'[c] = calls[c] + 1 /\ UNCHANGED <<store, adrift>> /\ OthersStay(c)
    BY <1>5, CallerStep, OthersStayed DEF Proceed, serverVars
  <2>2. \A d \in Callers : calls[d] \in Nat /\ calls'[d] \in Nat /\ calls[d] <= calls'[d]
    BY <1>0, <2>1 DEF OthersStay
  <2>3. \A id \in RequestIds : id[1] \in Callers /\ id[2] \in Nat
    BY DEF RequestIds
  <2>4. ASSUME NEW id \in RequestIds, id[2] <= calls[id[1]]
        PROVE  id[2] <= calls'[id[1]]
    BY <2>2, <2>3, <2>4
  <2>5. \A k \in Keys : Recorded(k)' = Recorded(k)
    BY <2>1 DEF Recorded
  <2> QED
    BY <1>1, <1>2, <2>1, <2>4, <2>5 DEF IdsKnown
<1>6. ASSUME NEW c \in Callers, Fault(c)
      PROVE  IdsKnown'
  <2>1. GiveUp(c) /\ calls' = calls /\ store' = store
    BY <1>6, CallerStep DEF serverVars
  <2>2. \A k \in Keys : Recorded(k)' = Recorded(k)
    BY <2>1 DEF Recorded
  <2>3. CASE adrift' = adrift
    BY <2>1, <2>2, <2>3 DEF IdsKnown
  <2>4. CASE \E m \in Commands : m.id = CallId(c) /\ adrift' = adrift \cup {m}
    <3>1. PICK m \in Commands : m.id = CallId(c) /\ adrift' = adrift \cup {m}
      BY <2>4
    <3>2. IsFiniteSet(adrift')
      BY <3>1, FS_AddElement DEF IdsKnown
    <3>3. m.id[2] <= calls[m.id[1]]
      BY <1>0, <3>1
    <3> QED
      BY <2>1, <2>2, <3>1, <3>2, <3>3 DEF IdsKnown
  <2> QED
    BY <2>1, <2>3, <2>4, GivenUp
<1>7. ASSUME NEW c \in Callers, ReceiveAndGoOn(c) \/ Return(c) \/ ResortToMemory(c) \/ FailOpen(c) \/ FailClosed(c)
      PROVE  IdsKnown'
  <2>1. UNCHANGED <<adrift, calls, store>>
    BY <1>7, CallerStep DEF serverVars
  <2> QED
    BY <2>1 DEF IdsKnown, Recorded
<1>8. CASE Tick \/ Finished \/ UNCHANGED vars
  <2>1. UNCHANGED <<adrift, calls, store>>
    BY <1>8, Zenon DEF Tick, Finished, vars, callVars, serverVars
  <2> QED
    BY <2>1 DEF IdsKnown, Recorded
<1> QED
  BY <1>3, <1>4, <1>5, <1>6, <1>7, <1>8 DEF Next, Proceed

\* What a step of c does to the account of a key: the admissions that the server
\* records, those that callers are told of, and the commands that are set adrift.
LEMMA BalanceMoves ==
    ASSUME LedgerInv, Typed', IsFiniteSet(adrift'), NEW c \in Callers, OnlyMoved(c), NEW k \in Keys,
           NEW admitted \in Int, NEW told \in Int, NEW launched \in Int,
           Len(granted'[k]) = Len(granted[k]) + admitted,
           Cardinality(ServerAnswers(k)') = Cardinality(ServerAnswers(k)) + told,
           Cardinality(Afloat(k)') <= Cardinality(Afloat(k)) + launched,
           admitted + One(c, Holders(k)) + launched + faults
               <= told + One(c, Holders(k)') + faults',
           One(c, Repeaters(k)') + told + One(c, Holders(k)')
               <= admitted + One(c, Holders(k)) + One(c, Repeaters(k))
    PROVE  BalancedAt(k)'
<1>1. PICK l \in Nat, n \in Nat : l = Len(granted[k]) /\ n = Len(granted'[k])
  <2>1. granted[k] \in Seq(Grants) /\ granted'[k] \in Seq(Grants')
    BY DEF LedgerInv, Typed, ServerTyped
  <2> QED
    BY <2>1, LenProperties
<1>2. PICK t \in Nat, u \in Nat : t = Cardinality(ServerAnswers(k)) /\ u = Cardinality(ServerAnswers(k)')
  <2>1. /\ answers[k] \in Seq([by : Answerers, at : Int])
        /\ answers'[k] \in Seq([by : Answerers, at : Int])
    BY DEF LedgerInv, Typed, AnswersTyped, Answerers
  <2>2. /\ DOMAIN answers[k] = 1 .. Len(answers[k]) /\ Len(answers[k]) \in Nat
        /\ DOMAIN answers'[k] = 1 .. Len(answers'[k]) /\ Len(answers'[k]) \in Nat
    BY <2>1, LenProperties
  <2>3. IsFiniteSet(DOMAIN answers[k]) /\ IsFiniteSet(DOMAIN answers'[k])
    <3>1. PICK x \in Nat, y \in Nat : DOMAIN answers[k] = 1 .. x /\ DOMAIN answers'[k] = 1 .. y
      BY <2>2
    <3>2. x \in Int /\ y \in Int
      OBVIOUS
    <3>3. IsFiniteSet(1 .. x)
      BY <3>2, FS_Interval
    <3>4. IsFiniteSet(1 .. y)
      BY <3>2, FS_Interval
    <3> QED
      BY <3>1, <3>3, <3>4, Zenon
  <2>4. /\ ServerAnswers(k) \in SUBSET (DOMAIN answers[k])
        /\ ServerAnswers(k)' \in SUBSET (DOMAIN answers'[k])
    BY DEF ServerAnswers
  <2>5. IsFiniteSet(ServerAnswers(k)) /\ IsFiniteSet(ServerAnswers(k)')
    BY <2>3, <2>4, FS_Subset
  <2> QED
    BY <2>5, FS_CardinalityType
<1>3. PICK a \in Nat, b \in Nat : a = Cardinality(Afloat(k)) /\ b = Cardinality(Afloat(k)')
  <2>1. Afloat(k) \in SUBSET adrift /\ Afloat(k)' \in SUBSET adrift'
    BY DEF Afloat
  <2>2. IsFiniteSet(Afloat(k)) /\ IsFiniteSet(Afloat(k)')
    BY <2>1, FS_Subset DEF LedgerInv, IdsKnown
  <2> QED
    BY <2>2, FS_CardinalityType
<1>4. PICK h \in Nat, i \in Nat, r \in Nat, s \in Nat :
         /\ h = Cardinality(Holders(k)) /\ i = Cardinality(Holders(k)')
         /\ r = Cardinality(Repeaters(k)) /\ s = Cardinality(Repeaters(k)')
         /\ i + One(c, Holders(k)) = h + One(c, Holders(k)')
         /\ s + One(c, Repeaters(k)) <= r + One(c, Repeaters(k)')
  BY CallersCounted
<1>5. PICK hc \in Nat, ic \in Nat, rc \in Nat, sc \in Nat :
         /\ hc = One(c, Holders(k)) /\ ic = One(c, Holders(k)')
         /\ rc = One(c, Repeaters(k)) /\ sc = One(c, Repeaters(k)')
  BY DEF One
<1>6. faults \in Nat /\ faults' \in Nat
  BY DEF LedgerInv, Typed, ClientsTyped
<1>7. Wasted(k) = l - t - h /\ Wasted(k)' = n - u - i
  BY <1>1, <1>2, <1>4 DEF Wasted, ServerAnswers, Holders
<1>8. l - t - h + a <= faults /\ r <= l - t - h
  BY <1>3, <1>4, <1>7 DEF LedgerInv, Balanced, BalancedAt
<1>9. n = l + admitted /\ u = t + told /\ b <= a + launched
  BY <1>1, <1>2, <1>3
<1>10. /\ i + hc = h + ic /\ s + rc <= r + sc
       /\ admitted + hc + launched + faults <= told + ic + faults'
       /\ sc + told + ic <= admitted + hc + rc
  BY <1>4, <1>5, <1>6
<1>11. n - u - i = l - t - h + (admitted + hc) - (told + ic)
  BY <1>9, <1>10
<1>12. n - u - i + b <= faults'
  <2>1. PICK f \in Nat, g \in Nat : f = faults /\ g = faults'
    BY <1>6
  <2>2. l - t - h + a <= f /\ b <= a + launched
    BY <1>8, <1>9, <2>1
  <2>3. admitted + hc + launched + f <= told + ic + g
    BY <1>10, <2>1
  <2>4. n - u - i + b <= g
    BY <1>11, <2>2, <2>3
  <2> QED
    BY <2>1, <2>4
<1>13. s <= n - u - i
  BY <1>8, <1>10, <1>11
<1> QED
  BY <1>3, <1>4, <1>7, <1>12, <1>13 DEF BalancedAt

LEMMA CallerMoved ==
    ASSUME Typed, NEW c \in Callers, Served(c) \/ Proceed(c) \/ Fault(c)
    PROVE  OnlyMoved(c)
<1>1. OthersStay(c)
  BY OthersStayed
<1>2. CASE Served(c)
  <2>1. CallId(c) \in {c} \X Nat
    BY DEF CallId, Typed, ClientsTyped
  <2>2. \A k \in Keys : Recorded(k)' \in SUBSET (Recorded(k) \cup {CallId(c)})
    BY <1>2, RecordedServed
  <2> QED
    BY <1>1, <2>1, <2>2 DEF OnlyMoved
<1>3. CASE Proceed(c) \/ Fault(c)
  <2>1. store' = store
    BY <1>3, CallerStep DEF Proceed, serverVars
  <2> QED
    BY <1>1, <2>1 DEF OnlyMoved, Recorded
<1> QED
  BY <1>2, <1>3

LEMMA LedgerNumbers ==
    ASSUME LedgerInv, NEW k \in Keys
    PROVE  /\ Len(granted[k]) \in Nat /\ faults \in Nat
           /\ Cardinality(ServerAnswers(k)) \in Nat
           /\ IsFiniteSet(Afloat(k)) /\ Cardinality(Afloat(k)) \in Nat
<1>1. Len(granted[k]) \in Nat /\ faults \in Nat
  BY LenProperties DEF LedgerInv, Typed, ServerTyped, ClientsTyped
<1>2. Cardinality(ServerAnswers(k)) \in Nat
  <2>1. PICK n \in Nat : DOMAIN answers[k] = 1 .. n
    <3>1. answers[k] \in Seq([by : Answerers, at : Int])
      BY DEF LedgerInv, Typed, AnswersTyped
    <3> QED
      BY <3>1, LenProperties
  <2>2. n \in Int
    OBVIOUS
  <2>3. IsFiniteSet(1 .. n)
    BY <2>2, FS_Interval
  <2>4. ServerAnswers(k) \in SUBSET (1 .. n)
    BY <2>1 DEF ServerAnswers
  <2> QED
    BY <2>3, <2>4, FS_Subset, FS_CardinalityType
<1>3. IsFiniteSet(Afloat(k))
  <2>1. Afloat(k) \in SUBSET adrift
    BY DEF Afloat
  <2> QED
    BY <2>1, FS_Subset DEF LedgerInv, IdsKnown
<1>4. Cardinality(Afloat(k)) \in Nat
  BY <1>3, FS_CardinalityType
<1> QED
  BY <1>1, <1>2, <1>3, <1>4

\* A step without an answer or a fault.
LEMMA QuietBalance ==
    ASSUME LedgerInv, Typed', NEW c \in Callers, OnlyMoved(c), NEW k \in Keys,
           UNCHANGED <<adrift, faults, answers>>,
           NEW admitted \in {0, 1}, Len(granted'[k]) = Len(granted[k]) + admitted,
           admitted + One(c, Holders(k)) <= One(c, Holders(k)'),
           One(c, Repeaters(k)') + One(c, Holders(k)')
               <= admitted + One(c, Holders(k)) + One(c, Repeaters(k))
    PROVE  BalancedAt(k)'
<1>1. PICK zero \in Int : zero = 0
  OBVIOUS
<1>2. /\ Cardinality(ServerAnswers(k)') = Cardinality(ServerAnswers(k)) + zero
      /\ Cardinality(Afloat(k)') <= Cardinality(Afloat(k)) + zero
  <2>1. ServerAnswers(k)' = ServerAnswers(k) /\ Afloat(k)' = Afloat(k)
    BY DEF ServerAnswers, Afloat
  <2> QED
    BY <1>1, <2>1, LedgerNumbers
<1>3. IsFiniteSet(adrift')
  BY DEF LedgerInv, IdsKnown
<1>4. PICK h \in Nat, i \in Nat, r \in Nat, s \in Nat :
          /\ h = One(c, Holders(k)) /\ i = One(c, Holders(k)')
          /\ r = One(c, Repeaters(k)) /\ s = One(c, Repeaters(k)')
  BY DEF One
<1>5. /\ admitted + h <= i /\ s + i <= admitted + h + r
      /\ faults \in Nat /\ faults' = faults /\ admitted \in Int
  BY <1>4, LedgerNumbers
<1>6. /\ admitted + h + zero + faults <= zero + i + faults'
      /\ s + zero + i <= admitted + h + r
  BY <1>1, <1>5
<1>7. /\ admitted + One(c, Holders(k)) + zero + faults <= zero + One(c, Holders(k)') + faults'
      /\ One(c, Repeaters(k)') + zero + One(c, Holders(k)')
             <= admitted + One(c, Holders(k)) + One(c, Repeaters(k))
  BY <1>4, <1>6
<1> QED
  BY <1>2, <1>3, <1>5, <1>7, BalanceMoves

\* INCR records an admission just when the count it returns is within the limit.
LEMMA IncrRecords ==
    ASSUME Typed, NEW k \in FixedKeys, NEW t \in Times, Incr(k, t),
           NEW allowed \in BOOLEAN,
           allowed <=> LiveCounter(k, WindowStart(k, t)).count + 1 <= RuleOf[k].limit
    PROVE  /\ \A l \in Keys \ {k} : granted'[l] = granted[l]
           /\ Len(granted'[k]) = Len(granted[k]) + (IF allowed THEN 1 ELSE 0)
<1>1. Grant(k, allowed, t)
  BY DEF Incr, Grant
<1>2. /\ \A l \in Keys \ {k} : granted'[l] = granted[l]
      /\ granted'[k] = IF allowed THEN Append(granted[k], [stamp |-> t, at |-> clock]) ELSE granted[k]
  BY <1>1, GrantTyped DEF FixedKeys
<1>3. Len(granted[k]) \in Nat /\ granted[k] \in Seq(Grants)
  BY LenProperties DEF Typed, ServerTyped, FixedKeys
<1>4. Len(Append(granted[k], [stamp |-> t, at |-> clock])) = Len(granted[k]) + 1
  BY <1>3
<1>5. CASE allowed
  BY <1>2, <1>4, <1>5
<1>6. CASE ~allowed
  <2>1. granted'[k] = granted[k]
    BY <1>2, <1>6
  <2> QED
    BY <1>2, <1>3, <1>6, <2>1
<1> QED
  BY <1>5, <1>6

\* The server carries out the command of a caller.
LEMMA ServedBalance ==
    ASSUME LedgerInv, Typed', NEW c \in Callers, Served(c), NEW k \in Keys
    PROVE  BalancedAt(k)'
<1>1. /\ OnlyMoved(c) /\ Typed
      /\ pc[c] = "sent" /\ pc'[c] = "executed" /\ key' = key /\ calls' = calls
      /\ local'[c].op = local[c].op
      /\ UNCHANGED <<adrift, faults, answers>>
  BY CallerMoved, CallerStep DEF LedgerInv
<1>2. \A l \in Keys : Len(granted[l]) \in Nat
  BY LedgerNumbers
<1>3. CASE ServeTime(c) \/ ServeExpire(c)
  <2>1. /\ local[c].op \in {"TIME", "EXPIRE"} /\ granted' = granted
        /\ local'[c].allowed = local[c].allowed
    BY <1>1, <1>3, WindowReplies, Zenon DEF ServeTime, ServeExpire, Serve, Expire
  <2>2. local[c].op = "TIME" => ~local[c].allowed
    BY DEF LedgerInv, AllowedKnown
  <2>3. c \in Holders(k)' <=> c \in Holders(k)
    BY <1>1, <2>1, <2>2 DEF Holders, Holds
  <2>4. c \notin Repeaters(k) /\ c \notin Repeaters(k)'
    BY <1>1, <2>1 DEF Repeaters, Repeatable
  <2>5. PICK admitted \in {0, 1} : admitted = 0
    OBVIOUS
  <2>6. /\ Len(granted'[k]) = Len(granted[k]) + admitted
        /\ admitted + One(c, Holders(k)) <= One(c, Holders(k)')
        /\ One(c, Repeaters(k)') + One(c, Holders(k)')
               <= admitted + One(c, Holders(k)) + One(c, Repeaters(k))
    BY <1>2, <2>1, <2>3, <2>4, <2>5 DEF One
  <2> QED
    BY <1>1, <2>6, QuietBalance
<1>4. CASE ServeIncr(c)
  <2>1. PICK l \in FixedKeys, t \in Times : l = key[c] /\ t = local[c].now /\ Incr(l, t)
    BY <1>1, <1>4, CommandsTyped DEF ServeIncr, Serve
  <2>2. local[c].op = "INCR"
    BY <1>4 DEF ServeIncr, Serve
  <2>3. PICK allowed \in BOOLEAN :
            /\ allowed <=> LiveCounter(l, WindowStart(l, t)).count + 1 <= RuleOf[l].limit
            /\ allowed <=> local'[c].allowed
    BY <1>1, <1>4, <2>1, WindowReplies
  <2>4. /\ \A n \in Keys \ {l} : granted'[n] = granted[n]
        /\ Len(granted'[l]) = Len(granted[l]) + (IF allowed THEN 1 ELSE 0)
    BY <1>1, <2>1, <2>3, IncrRecords
  <2>5. PICK admitted \in {0, 1} : admitted = IF k = l /\ allowed THEN 1 ELSE 0
    OBVIOUS
  <2>6. Len(granted'[k]) = Len(granted[k]) + admitted
    <3>1. CASE k = l
      BY <2>4, <2>5, <3>1
    <3>2. CASE k # l
      <4>1. granted'[k] = granted[k] /\ admitted = 0
        BY <2>4, <2>5, <3>2
      <4> QED
        BY <1>2, <4>1
    <3> QED
      BY <3>1, <3>2
  <2>7. c \notin Holders(k) /\ (c \in Holders(k)' <=> admitted = 1)
    BY <1>1, <2>1, <2>2, <2>3, <2>5 DEF Holders, Holds
  <2>8. c \notin Repeaters(k) /\ c \notin Repeaters(k)'
    BY <1>1, <2>2 DEF Repeaters, Repeatable
  <2>9. /\ admitted + One(c, Holders(k)) <= One(c, Holders(k)')
        /\ One(c, Repeaters(k)') + One(c, Holders(k)')
               <= admitted + One(c, Holders(k)) + One(c, Repeaters(k))
    BY <2>7, <2>8 DEF One
  <2> QED
    BY <1>1, <2>6, <2>9, QuietBalance
<1>5. CASE ServeEval(c)
  <2>1. local[c].op = "EVAL"
    BY <1>5 DEF ServeEval, Serve
  <2>2. PICK l \in Keys \ FixedKeys, t \in Times, id \in RequestIds :
            l = key[c] /\ t = local[c].stamp /\ id = CallId(c)
    BY <1>1, <2>1, CommandsTyped
  <2>3. PICK p : Eval(id, p, l, t)
    BY <1>5, <2>2 DEF ServeEval
  <2>4. PICK allowed : allowed = Evaluated(id, l, t).outcome.allowed
    OBVIOUS
  <2>5. /\ \A n \in Keys \ {l} : granted'[n] = granted[n] /\ Recorded(n)' = Recorded(n)
        /\ \E admitted \in {0, 1} :
                /\ Len(granted'[l]) = Len(granted[l]) + admitted
                /\ admitted = 1 => allowed
                /\ allowed /\ admitted = 0 => id \in Recorded(l)
                /\ admitted = 0 => Recorded(l)' \in SUBSET Recorded(l)
    BY <1>1, <2>2, <2>3, <2>4, EvalRecords
  <2>6. local'[c].allowed <=> allowed
    <3>1. PICK a \in BOOLEAN : a = allowed
      BY <1>1, <2>2, <2>4, EvaluatedType
    <3>2. local' = [local EXCEPT ![c].now = ScriptTime(key[c], @), ![c].allowed = a]
      BY <1>5, <2>2, <2>4, <3>1 DEF ServeEval
    <3>3. local \in [Callers -> Locals]
      BY <1>1 DEF Typed, ClientsTyped
    <3> QED
      BY <3>1, <3>2, <3>3 DEF Locals
  <2>7. c \notin Holders(k) /\ (c \in Holders(k)' <=> k = l /\ allowed)
    BY <1>1, <2>1, <2>2, <2>6 DEF Holders, Holds
  <2>8. CallId(c)' = id
    BY <1>1, <2>2 DEF CallId
  <2>9. /\ c \in Repeaters(k) <=> k = l /\ id \in Recorded(k)
        /\ c \in Repeaters(k)' <=> k = l /\ ~allowed /\ id \in Recorded(k)'
    <3>1. c \in Repeaters(k) <=> k = l /\ id \in Recorded(k)
      BY <1>1, <2>1, <2>2, <2>7 DEF Repeaters, Repeatable, Holders
    <3>2. c \in Repeaters(k)' <=> k = l /\ ~Holds(c, k)' /\ id \in Recorded(k)'
      BY <1>1, <2>1, <2>2, <2>8 DEF Repeaters, Repeatable
    <3>3. Holds(c, k)' <=> c \in Holders(k)'
      BY DEF Holders
    <3> QED
      BY <2>7, <3>1, <3>2, <3>3
  <2>10. CASE k = l
    <3>1. PICK admitted \in {0, 1} :
                /\ Len(granted'[l]) = Len(granted[l]) + admitted
                /\ admitted = 1 => allowed
                /\ allowed /\ admitted = 0 => id \in Recorded(l)
                /\ admitted = 0 => Recorded(l)' \in SUBSET Recorded(l)
      BY <2>5
    <3>2. /\ admitted + One(c, Holders(k)) <= One(c, Holders(k)')
          /\ One(c, Repeaters(k)') + One(c, Holders(k)')
                 <= admitted + One(c, Holders(k)) + One(c, Repeaters(k))
      BY <2>7, <2>9, <2>10, <3>1 DEF One
    <3> QED
      BY <1>1, <2>10, <3>1, <3>2, QuietBalance
  <2>11. CASE k # l
    <3>1. PICK admitted \in {0, 1} : admitted = 0
      OBVIOUS
    <3>2. Len(granted'[k]) = Len(granted[k]) + admitted
      BY <1>2, <2>5, <2>11, <3>1
    <3>3. /\ admitted + One(c, Holders(k)) <= One(c, Holders(k)')
          /\ One(c, Repeaters(k)') + One(c, Holders(k)')
                 <= admitted + One(c, Holders(k)) + One(c, Repeaters(k))
      BY <2>7, <2>9, <2>11, <3>1 DEF One
    <3> QED
      BY <1>1, <3>2, <3>3, QuietBalance
  <2> QED
    BY <2>10, <2>11
<1> QED
  BY <1>3, <1>4, <1>5 DEF Served

\* An answer is the server's, or none of its ledger's concern.
LEMMA AnswerCounted ==
    ASSUME LedgerInv, NEW c \in Callers, NEW allowed, NEW by \in Answerers, NEW at \in Int,
           Answer(c, allowed, by, at), NEW k \in Keys
    PROVE  Cardinality(ServerAnswers(k)') =
               Cardinality(ServerAnswers(k)) + (IF k = key[c] /\ allowed /\ by = "server" THEN 1 ELSE 0)
<1>1. /\ \A l \in Keys \ {key[c]} : answers'[l] = answers[l]
      /\ answers'[key[c]] = IF allowed THEN Append(answers[key[c]], [by |-> by, at |-> at])
                                       ELSE answers[key[c]]
  BY Answered DEF LedgerInv
<1>2. Cardinality(ServerAnswers(k)) \in Nat
  BY LedgerNumbers
<1>3. CASE k # key[c] \/ ~allowed
  <2>1. ServerAnswers(k)' = ServerAnswers(k)
    BY <1>1, <1>3 DEF ServerAnswers
  <2> QED
    BY <1>2, <1>3, <2>1
<1>4. CASE k = key[c] /\ allowed
  <2>1. PICK old \in Seq([by : Answerers, at : Int]), new \in [by : Answerers, at : Int] :
            old = answers[k] /\ new = [by |-> by, at |-> at]
    BY DEF LedgerInv, Typed, AnswersTyped
  <2>2. answers'[k] = Append(old, new) /\ new.by = by
    BY <1>1, <1>4, <2>1
  <2>3. /\ Len(old) \in Nat /\ DOMAIN old = 1 .. Len(old)
        /\ DOMAIN Append(old, new) = 1 .. Len(old) + 1
        /\ \A i \in 1 .. Len(old) : Append(old, new)[i] = old[i]
        /\ Append(old, new)[Len(old) + 1] = new
    BY LenProperties, AppendProperties
  <2>4. PICK n \in Nat : n = Len(old) + 1 /\ n \notin DOMAIN old
    BY <2>3
  <2>5. ServerAnswers(k)' = IF by = "server" THEN ServerAnswers(k) \cup {n} ELSE ServerAnswers(k)
    BY <2>1, <2>2, <2>3, <2>4 DEF ServerAnswers
  <2>6. CASE by = "server"
    <3>1. IsFiniteSet(ServerAnswers(k)) /\ n \notin ServerAnswers(k)
      <4>1. ServerAnswers(k) \in SUBSET (DOMAIN old)
        BY <2>1 DEF ServerAnswers
      <4>2. PICK m \in Nat : DOMAIN old = 1 .. m
        BY <2>3
      <4>3. IsFiniteSet(1 .. m)
        <5>1. m \in Int
          OBVIOUS
        <5> QED
          BY <5>1, FS_Interval
      <4> QED
        BY <2>4, <4>1, <4>2, <4>3, FS_Subset
    <3>2. Cardinality(ServerAnswers(k) \cup {n}) = Cardinality(ServerAnswers(k)) + 1
      BY <3>1, FS_AddElement
    <3> QED
      BY <1>4, <2>5, <2>6, <3>2
  <2>7. CASE by # "server"
    BY <1>2, <2>5, <2>7
  <2> QED
    BY <2>6, <2>7
<1> QED
  BY <1>3, <1>4

\* The caller goes its own way, and nothing is lost.
LEMMA ProceedBalance ==
    ASSUME LedgerInv, Typed', NEW c \in Callers, Proceed(c), NEW k \in Keys
    PROVE  BalancedAt(k)'
<1>1. OnlyMoved(c) /\ Typed
  BY CallerMoved DEF LedgerInv
<1>2. Len(granted[k]) \in Nat
  BY LedgerNumbers
<1>3. \A d \in Callers : local[d] = NoCall => ~local[d].allowed
  BY DEF NoCall
<1>4. CASE Begin(c)
  <2>1. /\ pc[c] = "idle" /\ pc'[c] = "sent" /\ calls'[c] = calls[c] + 1
        /\ local'[c].op \in {"TIME", "INCR", "EVAL"}
        /\ local'[c].allowed = local[c].allowed
        /\ UNCHANGED <<store, granted, answers, adrift, faults>>
    BY <1>1, <1>4, CallerStep DEF serverVars
  <2>2. ~local[c].allowed
    BY <1>3, <2>1 DEF LedgerInv, AllowedKnown
  <2>3. c \notin Holders(k) /\ c \notin Holders(k)' /\ c \notin Repeaters(k)
    BY <2>1, <2>2 DEF Holders, Holds, Repeaters, Repeatable
  <2>4. c \notin Repeaters(k)'
    <3>1. Recorded(k)' = Recorded(k)
      BY <2>1 DEF Recorded
    <3>2. CallId(c)' = <<c, calls[c] + 1>> /\ calls[c] \in Nat
      BY <1>1, <2>1 DEF CallId, Typed, ClientsTyped
    <3>3. CallId(c)' \notin Recorded(k)
      BY <3>2 DEF LedgerInv, IdsKnown
    <3> QED
      BY <3>1, <3>3 DEF Repeaters, Repeatable
  <2>5. PICK admitted \in {0, 1} : admitted = 0
    OBVIOUS
  <2>6. /\ Len(granted'[k]) = Len(granted[k]) + admitted
        /\ admitted + One(c, Holders(k)) <= One(c, Holders(k)')
        /\ One(c, Repeaters(k)') + One(c, Holders(k)')
               <= admitted + One(c, Holders(k)) + One(c, Repeaters(k))
    BY <1>2, <2>1, <2>3, <2>4, <2>5 DEF One
  <2> QED
    BY <1>1, <2>1, <2>6, QuietBalance
<1>5. CASE ReceiveAndGoOn(c)
  <2>1. /\ pc[c] = "executed" /\ pc'[c] = "sent" /\ key' = key
        /\ local'[c].op \in FollowUps(c) /\ local'[c].allowed = local[c].allowed
        /\ UNCHANGED <<granted, answers, adrift, faults>>
    BY <1>1, <1>5, CallerStep
  <2>2. \/ local[c].op = "TIME" /\ local'[c].op = "INCR" /\ ~local[c].allowed
        \/ local[c].op = "INCR" /\ local'[c].op = "EXPIRE" /\ local[c].allowed
    BY <2>1 DEF FollowUps, LedgerInv, AllowedKnown
  <2>3. /\ c \in Holders(k)' <=> c \in Holders(k)
        /\ c \notin Repeaters(k) /\ c \notin Repeaters(k)'
    BY <2>1, <2>2 DEF Holders, Holds, Repeaters, Repeatable
  <2>4. PICK admitted \in {0, 1} : admitted = 0
    OBVIOUS
  <2>5. /\ Len(granted'[k]) = Len(granted[k]) + admitted
        /\ admitted + One(c, Holders(k)) <= One(c, Holders(k)')
        /\ One(c, Repeaters(k)') + One(c, Holders(k)')
               <= admitted + One(c, Holders(k)) + One(c, Repeaters(k))
    BY <1>2, <2>1, <2>3, <2>4 DEF One
  <2> QED
    BY <1>1, <2>1, <2>5, QuietBalance
<1>6. CASE Return(c) \/ ResortToMemory(c) \/ FailOpen(c) \/ FailClosed(c)
  <2>1. /\ pc'[c] = "idle" /\ local'[c] = NoCall
        /\ UNCHANGED <<granted, adrift, faults>>
    BY <1>1, <1>6, CallerStep
  <2>0. PICK allowed : \E by \in Answerers, at \in Int :
                /\ Answer(c, allowed, by, at)
                /\ \/ pc[c] = "executed" /\ by = "server" /\ allowed = local[c].allowed
                   \/ pc[c] = "failed" /\ by # "server"
    BY <1>1, <1>6, Answering
  <2>2. PICK by \in Answerers, at \in Int :
                /\ Answer(c, allowed, by, at)
                /\ \/ pc[c] = "executed" /\ by = "server" /\ allowed = local[c].allowed
                   \/ pc[c] = "failed" /\ by # "server"
    BY <2>0
  <2>3. PICK told \in Int : told = IF k = key[c] /\ allowed /\ by = "server" THEN 1 ELSE 0
    OBVIOUS
  <2>4. Cardinality(ServerAnswers(k)') = Cardinality(ServerAnswers(k)) + told
    BY <2>2, <2>3, AnswerCounted
  <2>5. c \in Holders(k) <=> told = 1
    BY <1>1, <2>2, <2>3 DEF Holders, Holds
  <2>6. c \notin Holders(k)' /\ c \notin Repeaters(k)'
    BY <2>1 DEF Holders, Holds, Repeaters, Repeatable, NoCall
  <2>7. PICK zero \in Int : zero = 0
    OBVIOUS
  <2>8. /\ Len(granted'[k]) = Len(granted[k]) + zero
        /\ Cardinality(Afloat(k)') <= Cardinality(Afloat(k)) + zero
    <3>1. Afloat(k)' = Afloat(k)
      BY <2>1 DEF Afloat
    <3> QED
      BY <1>2, <2>1, <2>7, <3>1, LedgerNumbers
  <2>9. PICK f \in Nat : f = faults /\ f = faults'
    BY <2>1, LedgerNumbers
  <2>10. /\ zero + One(c, Holders(k)) + zero + faults <= told + One(c, Holders(k)') + faults'
         /\ One(c, Repeaters(k)') + told + One(c, Holders(k)')
                <= zero + One(c, Holders(k)) + One(c, Repeaters(k))
    <3>1. One(c, Holders(k)) = told /\ One(c, Holders(k)') = 0 /\ One(c, Repeaters(k)') = 0
      BY <2>3, <2>5, <2>6 DEF One
    <3>2. PICK r \in Nat : r = One(c, Repeaters(k))
      BY DEF One
    <3>3. /\ zero + told + zero + f <= told + 0 + f
          /\ 0 + told + 0 <= zero + told + r
      BY <2>7
    <3> QED
      BY <2>9, <3>1, <3>2, <3>3, Zenon
  <2>11. IsFiniteSet(adrift')
    BY <2>1 DEF LedgerInv, IdsKnown
  <2> QED
    BY <1>1, <2>4, <2>8, <2>10, <2>11, BalanceMoves
<1> QED
  BY <1>4, <1>5, <1>6 DEF Proceed

\* A fault wastes what its caller held, or sets adrift what may be wasted later.
LEMMA FaultBalance ==
    ASSUME LedgerInv, Typed', NEW c \in Callers, Fault(c), IsFiniteSet(adrift'), NEW k \in Keys
    PROVE  BalancedAt(k)'
<1>1. /\ OnlyMoved(c) /\ Typed
      /\ GiveUp(c) /\ key' = key /\ calls' = calls
      /\ \/ pc'[c] = "sent" /\ local'[c].op = local[c].op /\ local'[c].allowed = local[c].allowed
         \/ pc'[c] = "failed" /\ local'[c] = local[c]
         \/ pc'[c] = "idle" /\ local'[c] = NoCall
      /\ UNCHANGED <<store, granted, answers>>
  BY CallerMoved, CallerStep DEF LedgerInv, serverVars
<1>2. pc[c] \in {"sent", "executed"} /\ faults' = faults + 1 /\ faults \in Nat
  BY <1>1, GivenUp
<1>3. PICK launched \in {0, 1} :
         /\ Cardinality(Afloat(k)') <= Cardinality(Afloat(k)) + launched
         /\ launched = 1 => pc[c] = "sent" /\ local[c].op # "EXPIRE"
  <2>1. /\ Cardinality(Afloat(k)) \in Nat /\ IsFiniteSet(Afloat(k))
        /\ 0 \in {0, 1} /\ 1 \in {0, 1}
    BY LedgerNumbers
  <2>2. CASE Afloat(k)' = Afloat(k)
    <3>1. Cardinality(Afloat(k)') <= Cardinality(Afloat(k)) + 0
      BY <2>1, <2>2
    <3> QED
      BY <2>1, <3>1
  <2>3. CASE Afloat(k)' # Afloat(k)
    <3>1. PICK m \in Commands : m.op = local[c].op /\ pc[c] = "sent" /\ adrift' = adrift \cup {m}
      BY <1>1, <2>3, GivenUp DEF Afloat
    <3>2. m.op # "EXPIRE" /\ Afloat(k)' = Afloat(k) \cup {m}
      BY <2>3, <3>1 DEF Afloat
    <3>3. Cardinality(Afloat(k) \cup {m}) <= Cardinality(Afloat(k)) + 1
      <4>1. m \notin Afloat(k)
        BY <2>3, <3>2
      <4>2. Cardinality(Afloat(k) \cup {m}) = Cardinality(Afloat(k)) + 1
        BY <2>1, <4>1, FS_AddElement
      <4> QED
        BY <2>1, <4>2
    <3> QED
      BY <2>1, <3>1, <3>2, <3>3
  <2> QED
    BY <2>2, <2>3
<1>4. /\ c \in Holders(k)' => c \in Holders(k)
      /\ launched = 1 => c \notin Holders(k)
  <2>1. ~NoCall.allowed
    BY DEF NoCall
  <2> QED
    BY <1>1, <1>2, <1>3, <2>1 DEF Holders, Holds
<1>5. c \in Repeaters(k)' => c \in Repeaters(k) \/ (c \in Holders(k) /\ c \notin Holders(k)')
  <2>1. ASSUME c \in Repeaters(k)', c \notin Holders(k)
        PROVE  c \in Repeaters(k)
    <3>1. pc'[c] = "sent" /\ local'[c].op = local[c].op /\ local[c].op = "EVAL" /\ key[c] = k
      BY <1>1, <2>1 DEF Repeaters, Repeatable
    <3>2. CallId(c)' = CallId(c) /\ Recorded(k)' = Recorded(k)
      BY <1>1 DEF CallId, Recorded
    <3> QED
      BY <1>2, <2>1, <3>1, <3>2 DEF Repeaters, Repeatable, Holders
  <2>2. c \in Repeaters(k)' => c \notin Holders(k)'
    BY DEF Repeaters, Repeatable, Holders
  <2> QED
    BY <2>1, <2>2
<1>6. PICK zero \in Int : zero = 0
  OBVIOUS
<1>7. PICK h \in Nat, i \in Nat, r \in Nat, s \in Nat :
          /\ h = One(c, Holders(k)) /\ i = One(c, Holders(k)')
          /\ r = One(c, Repeaters(k)) /\ s = One(c, Repeaters(k)')
  BY DEF One
<1>8. h + launched <= 1 + i /\ i <= h /\ s + i <= h + r
  BY <1>3, <1>4, <1>5, <1>7 DEF One, Repeaters, Repeatable, Holders
<1>9. /\ zero + h + launched + faults <= zero + i + faults'
      /\ s + zero + i <= zero + h + r
  BY <1>2, <1>3, <1>6, <1>7, <1>8
<1>10. /\ zero + One(c, Holders(k)) + launched + faults <= zero + One(c, Holders(k)') + faults'
       /\ One(c, Repeaters(k)') + zero + One(c, Holders(k)')
              <= zero + One(c, Holders(k)) + One(c, Repeaters(k))
  BY <1>7, <1>9, Zenon
<1>11. /\ Len(granted'[k]) = Len(granted[k]) + zero
       /\ Cardinality(ServerAnswers(k)') = Cardinality(ServerAnswers(k)) + zero
  <2>1. ServerAnswers(k)' = ServerAnswers(k) /\ granted'[k] = granted[k]
    BY <1>1 DEF ServerAnswers
  <2> QED
    BY <1>6, <2>1, LedgerNumbers
<1>12. launched \in Int
  BY <1>3
<1> QED
  BY <1>1, <1>3, <1>6, <1>10, <1>11, <1>12, BalanceMoves

\* A late command wastes what it admits, and is adrift no more.
LEMMA LateBalance ==
    ASSUME LedgerInv, Typed', ServeLate, IsFiniteSet(adrift'), NEW k \in Keys
    PROVE  BalancedAt(k)'
<1>1. PICK m \in adrift :
         /\ \/ m.op = "EVAL" /\ Eval(m.id, m.process, m.key, m.now)
            \/ m.op = "INCR" /\ Incr(m.key, m.now)
            \/ m.op = "EXPIRE" /\ Expire(m.key, m.now)
         /\ adrift' = adrift \ {m}
         /\ UNCHANGED <<faults, pc, key, calls, local, answers>>
  BY Zenon DEF ServeLate, callVars
<1>2. /\ Typed /\ m.key \in Keys /\ m.now \in Times /\ m.id \in RequestIds
      /\ IF m.op = "EVAL" THEN m.key \in Keys \ FixedKeys ELSE m.key \in FixedKeys
  BY CommandsTyped DEF LedgerInv
<1>3. PICK c \in Callers : m.id \in {c} \X Nat
  BY <1>2 DEF RequestIds
<1>4. OnlyMoved(c)
  <2>1. \A l \in Keys : Recorded(l)' \in SUBSET (Recorded(l) \cup {m.id})
    BY <1>1, <1>2, RecordedLate
  <2>2. OthersStay(c)
    BY <1>1 DEF OthersStay
  <2> QED
    BY <1>3, <2>1, <2>2 DEF OnlyMoved
<1>5. \A d \in Callers : CallId(d)' = CallId(d)
  BY <1>1 DEF CallId
<1>6. c \in Holders(k)' <=> c \in Holders(k)
  BY <1>1 DEF Holders, Holds
<1>7. /\ Len(granted[k]) \in Nat /\ faults \in Nat
      /\ Cardinality(ServerAnswers(k)) \in Nat
      /\ IsFiniteSet(Afloat(k)) /\ Cardinality(Afloat(k)) \in Nat
  BY LedgerNumbers
\* What the command admits, and what is known of it.
<1>8. PICK admitted \in {0, 1} :
         /\ Len(granted'[k]) = Len(granted[k]) + admitted
         /\ admitted = 1 => m.key = k /\ m.op # "EXPIRE"
         /\ admitted = 0 => Recorded(k)' \in SUBSET Recorded(k)
  <2>1. 0 \in {0, 1} /\ 1 \in {0, 1}
    OBVIOUS
  <2>2. CASE granted'[k] = granted[k] /\ Recorded(k)' \in SUBSET Recorded(k)
    <3>1. Len(granted'[k]) = Len(granted[k]) + 0
      BY <1>7, <2>2
    <3> QED
      BY <2>1, <2>2, <3>1
  <2>3. CASE m.op = "EVAL" /\ Eval(m.id, m.process, m.key, m.now)
    <3>1. PICK l \in Keys \ FixedKeys, t \in Times, id \in RequestIds :
              l = m.key /\ t = m.now /\ id = m.id
      BY <1>2, <2>3
    <3>2. PICK p : Eval(id, p, l, t)
      BY <2>3, <3>1
    <3>3. PICK allowed : allowed = Evaluated(id, l, t).outcome.allowed
      OBVIOUS
    <3>4. /\ \A n \in Keys \ {l} : granted'[n] = granted[n] /\ Recorded(n)' = Recorded(n)
          /\ \E admitted \in {0, 1} :
                /\ Len(granted'[l]) = Len(granted[l]) + admitted
                /\ admitted = 0 => Recorded(l)' \in SUBSET Recorded(l)
      BY <1>2, <3>2, <3>3, EvalRecords
    <3>5. CASE k = l
      BY <2>3, <3>1, <3>4, <3>5
    <3>6. CASE k # l
      BY <2>2, <3>4, <3>6
    <3> QED
      BY <3>5, <3>6
  <2>4. CASE m.op = "INCR" /\ Incr(m.key, m.now)
    <3>1. PICK l \in FixedKeys, t \in Times : l = m.key /\ Incr(l, t)
      BY <1>2, <2>4
    <3>2. PICK allowed \in BOOLEAN :
              allowed <=> LiveCounter(l, WindowStart(l, t)).count + 1 <= RuleOf[l].limit
      OBVIOUS
    <3>3. /\ \A n \in Keys \ {l} : granted'[n] = granted[n]
          /\ Len(granted'[l]) = Len(granted[l]) + (IF allowed THEN 1 ELSE 0)
      BY <1>2, <3>1, <3>2, IncrRecords
    <3>4. Recorded(k)' = Recorded(k)
      BY <2>4 DEF Incr, Recorded
    <3>5. CASE k = l
      BY <2>1, <2>4, <3>1, <3>3, <3>4, <3>5
    <3>6. CASE k # l
      BY <2>2, <3>3, <3>4, <3>6
    <3> QED
      BY <3>5, <3>6
  <2>5. CASE m.op = "EXPIRE" /\ Expire(m.key, m.now)
    BY <2>2, <2>5 DEF Expire, Recorded
  <2> QED
    BY <1>1, <2>3, <2>4, <2>5
<1>9. c \in Repeaters(k)' => c \in Repeaters(k) \/ admitted = 1
  BY <1>1, <1>5, <1>6, <1>8 DEF Repeaters, Repeatable, Holders
<1>10. Cardinality(Afloat(k)') <= Cardinality(Afloat(k)) - admitted
  <2>1. CASE admitted = 0
    <3>1. Afloat(k)' \in SUBSET Afloat(k)
      BY <1>1 DEF Afloat
    <3>2. Cardinality(Afloat(k)') <= Cardinality(Afloat(k)) /\ Cardinality(Afloat(k)') \in Nat
      BY <1>7, <3>1, FS_Subset, FS_CardinalityType
    <3> QED
      BY <1>7, <2>1, <3>2
  <2>2. CASE admitted = 1
    <3>1. Afloat(k)' = Afloat(k) \ {m} /\ m \in Afloat(k)
      BY <1>1, <1>8, <2>2 DEF Afloat
    <3>2. Cardinality(Afloat(k) \ {m}) = Cardinality(Afloat(k)) - 1
      BY <1>7, <3>1, FS_RemoveElement
    <3> QED
      BY <1>7, <2>2, <3>1, <3>2
  <2> QED
    BY <1>8, <2>1, <2>2
<1>11. PICK zero \in Int, launched \in Int : zero = 0 /\ launched = 0 - admitted
  BY <1>8
<1>12. PICK h \in Nat, r \in Nat, s \in Nat :
          /\ h = One(c, Holders(k)) /\ h = One(c, Holders(k)')
          /\ r = One(c, Repeaters(k)) /\ s = One(c, Repeaters(k)')
          /\ s <= admitted + r
  BY <1>6, <1>8, <1>9 DEF One
<1>13. /\ admitted + h + launched + faults <= zero + h + faults'
       /\ s + zero + h <= admitted + h + r
  BY <1>1, <1>7, <1>8, <1>11, <1>12, SMTT(40)
<1>14. /\ admitted + One(c, Holders(k)) + launched + faults <= zero + One(c, Holders(k)') + faults'
       /\ One(c, Repeaters(k)') + zero + One(c, Holders(k)')
              <= admitted + One(c, Holders(k)) + One(c, Repeaters(k))
  BY <1>12, <1>13, Zenon
<1>15. /\ Cardinality(ServerAnswers(k)') = Cardinality(ServerAnswers(k)) + zero
       /\ Cardinality(Afloat(k)') <= Cardinality(Afloat(k)) + launched
  <2>1. ServerAnswers(k)' = ServerAnswers(k)
    BY <1>1 DEF ServerAnswers
  <2> QED
    BY <1>7, <1>8, <1>10, <1>11, <2>1
<1>16. admitted \in Int
  BY <1>8
<1> QED
  BY <1>4, <1>8, <1>11, <1>14, <1>15, <1>16, BalanceMoves

LEMMA BalanceKept ==
    ASSUME LedgerInv, Typed', IsFiniteSet(adrift'), [Next]_vars
    PROVE  Balanced'
<1> SUFFICES ASSUME NEW k \in Keys PROVE BalancedAt(k)'
  BY DEF Balanced
<1>1. CASE \E c \in Callers : Served(c) \/ Proceed(c) \/ Fault(c)
  BY <1>1, ServedBalance, ProceedBalance, FaultBalance
<1>2. CASE ServeLate
  BY <1>2, LateBalance
<1>3. CASE Tick \/ Finished \/ UNCHANGED vars
  <2>1. UNCHANGED <<granted, answers, store, adrift, faults, pc, key, local, calls>>
    BY <1>3, Zenon DEF Tick, Finished, vars, callVars, historyVars, serverVars
  <2>2. /\ Holders(k)' = Holders(k) /\ ServerAnswers(k)' = ServerAnswers(k)
        /\ Afloat(k)' = Afloat(k)
    BY <2>1 DEF Holders, Holds, ServerAnswers, Afloat
  <2>3. Repeaters(k)' = Repeaters(k)
    BY <2>1 DEF Repeaters, Repeatable, Holds, Recorded, CallId
  <2>4. Wasted(k)' = Wasted(k)
    BY <2>1, <2>2 DEF Wasted, Holders, ServerAnswers
  <2> QED
    BY <2>1, <2>2, <2>3, <2>4 DEF LedgerInv, Balanced, BalancedAt
<1> QED
  BY <1>1, <1>2, <1>3 DEF Next

LEMMA BalanceInit == Init => IdsKnown /\ AllowedKnown /\ Balanced
<1> SUFFICES ASSUME Init PROVE IdsKnown /\ AllowedKnown /\ Balanced
  OBVIOUS
<1>1. NoCall.op = "EVAL" /\ NoCall.allowed = FALSE /\ Absent.entry = <<>>
  BY DEF NoCall, Absent
<1>2. /\ adrift = {} /\ faults = 0
      /\ \A c \in Callers : pc[c] = "idle" /\ local[c] = NoCall /\ calls[c] = 0
      /\ \A k \in Keys : store[k] = Absent /\ granted[k] = <<>> /\ answers[k] = <<>>
  BY DEF Init
<1>3. \A k \in Keys : Recorded(k) = {}
  BY <1>1, <1>2 DEF Recorded, IdsIn
<1>4. IdsKnown
  BY <1>2, <1>3, FS_EmptySet DEF IdsKnown
<1>5. AllowedKnown
  BY <1>1, <1>2 DEF AllowedKnown
<1>6. ASSUME NEW k \in Keys
      PROVE  BalancedAt(k)
  <2>1. /\ Holders(k) = {} /\ Repeaters(k) = {} /\ ServerAnswers(k) = {} /\ Afloat(k) = {}
    BY <1>1, <1>2 DEF Holders, Holds, Repeaters, Repeatable, ServerAnswers, Afloat
  <2>2. Cardinality({}) = 0 /\ Len(granted[k]) = 0
    BY <1>2, FS_EmptySet
  <2>3. Wasted(k) = 0
    <3>1. Wasted(k) = Len(granted[k]) - Cardinality(ServerAnswers(k)) - Cardinality(Holders(k))
      BY DEF Wasted, Holders, ServerAnswers
    <3>2. Wasted(k) = 0 - 0 - 0
      BY <2>1, <2>2, <3>1, Zenon
    <3> QED
      BY <3>2
  <2> QED
    BY <1>2, <2>1, <2>2, <2>3 DEF BalancedAt
<1> QED
  BY <1>4, <1>5, <1>6 DEF Balanced

LEMMA LedgerInvHolds == Spec => []LedgerInv
<1>1. Init => IdsKnown /\ AllowedKnown /\ Balanced
  BY BalanceInit
<1>2. Typed /\ Typed' /\ LedgerInv /\ [Next]_vars => LedgerInv'
  <2> SUFFICES ASSUME Typed, Typed', LedgerInv, [Next]_vars PROVE LedgerInv'
    OBVIOUS
  <2>1. IdsKnown' /\ AllowedKnown'
    BY IdsKept, AllowedKept DEF LedgerInv
  <2>2. Balanced'
    BY <2>1, BalanceKept DEF IdsKnown
  <2> QED
    BY <2>1, <2>2 DEF LedgerInv
<1>3. Typed /\ IdsKnown /\ AllowedKnown /\ Balanced => LedgerInv
  BY DEF LedgerInv
<1> QED
  BY <1>1, <1>2, <1>3, TypesHold, PTL DEF Spec

\* LedgerBalances: at all times, the admissions that the Redis server has recorded of
\* a key and that no caller has learned of, or is about to, number none or as many as
\* there have been faults at most: nobody is let through by the server without being
\* counted, and a lost, late or repeated command wastes one request.
THEOREM LedgerBalancesHolds == Spec => []LedgerBalances
<1>1. LedgerInv => LedgerBalances
  <2> SUFFICES ASSUME LedgerInv, NEW k \in Keys PROVE Wasted(k) \in 0 .. faults
    BY DEF LedgerBalances
  <2>1. Wasted(k) + Cardinality(Afloat(k)) <= faults /\ Cardinality(Repeaters(k)) <= Wasted(k)
    BY DEF LedgerInv, Balanced, BalancedAt
  <2>2. PICK a \in Nat, r \in Nat, l \in Nat, t \in Nat, h \in Nat :
            /\ a = Cardinality(Afloat(k)) /\ r = Cardinality(Repeaters(k))
            /\ l = Len(granted[k]) /\ t = Cardinality(ServerAnswers(k)) /\ h = Cardinality(Holders(k))
    <3>1. Holders(k) \in SUBSET Callers /\ Repeaters(k) \in SUBSET Callers /\ IsFiniteSet(Callers)
      BY RedisAssumption DEF Holders, Repeaters
    <3>2. Cardinality(Holders(k)) \in Nat /\ Cardinality(Repeaters(k)) \in Nat
      BY <3>1, FS_Subset, FS_CardinalityType
    <3> QED
      BY <3>2, LedgerNumbers
  <2>3. Wasted(k) = l - t - h
    BY <2>2 DEF Wasted, ServerAnswers, Holders
  <2> QED
    BY <2>1, <2>2, <2>3, LedgerNumbers, SMTT(40)
<1> QED
  BY <1>1, LedgerInvHolds, PTL
=============================================================================
