------------------------ MODULE WebAdaptersProofs ------------------------
(***************************************************************************)
(* What the replies of WebAdapters tell, for any requests, stacks of       *)
(* layers, rules and failures of storages: the status says why             *)
(* (StatusTellsWhy), the headers are those of one check (OneLayersQuota),  *)
(* and Retry-After is long enough (RetryAfterSuffices).                    *)
(***************************************************************************)
EXTENDS WebAdapters, StorageOpsProofs

-----------------------------------------------------------------------------
(***************************************************************************)
(* Results and headers.                                                    *)
(***************************************************************************)

Verdict == [allowed : BOOLEAN, remaining : Nat, reset_at : Int, limit : Nat,
            retry_after : Int, layer : Nat, serial : Nat]

\* Who is admitted knows when the quota is whole again, and is told no time to wait;
\* neither is who was refused for want of a storage.
Honest(v) ==
    /\ v.allowed => v.reset_at # Never /\ v.retry_after = Never
    /\ v.reset_at = Never => v.retry_after = Never

Quota == {"Limit", "Remaining", "Reset"}

\* The quota that the headers tell is the one of v.
Reads(headers, v) ==
    /\ Quota \cap DOMAIN headers = Quota \cap DOMAIN from_result(v)
    /\ \A n \in Quota \cap DOMAIN headers : headers[n] = from_result(v)[n]

ReadFrom(headers, results) ==
    DOMAIN headers = {} \/ \E v \in ToSet(results) : Reads(headers, v)

\* The headers tell the time that v asks to wait.
Waits(headers, v) ==
    "Retry-After" \in DOMAIN headers =>
        ~v.allowed /\ v.retry_after # Never /\ headers["Retry-After"] = v.retry_after

\* Only the last check of a request can tell it to wait.
Asks(headers, results) ==
    "Retry-After" \in DOMAIN headers => results # <<>> /\ Waits(headers, Last(results))

LEMMA HeadersOf ==
    ASSUME NEW v \in Verdict
    PROVE  /\ {"Limit", "Remaining"} \subseteq DOMAIN from_result(v)
           /\ "Reset" \in DOMAIN from_result(v) <=> v.reset_at # Never
           /\ "Retry-After" \in DOMAIN from_result(v) <=> v.retry_after # Never
           /\ v.retry_after # Never => from_result(v)["Retry-After"] = v.retry_after
<1> DEFINE known == {"Limit", "Remaining"}
                        \cup (IF v.reset_at = Never THEN {} ELSE {"Reset"})
                        \cup (IF v.retry_after = Never THEN {} ELSE {"Retry-After"})
<1>1. DOMAIN from_result(v) = known
  BY DEF from_result
<1>2. \A n \in known : from_result(v)[n] = (CASE n = "Limit"     -> v.limit
                                              [] n = "Remaining" -> v.remaining
                                              [] n = "Reset"     -> v.reset_at \div Second
                                              [] OTHER           -> v.retry_after)
  BY DEF from_result
<1>3. v.retry_after # Never => "Retry-After" \in known
  OBVIOUS
<1>4. v.retry_after # Never => from_result(v)["Retry-After"] = v.retry_after
  BY <1>2, <1>3
<1> QED
  BY <1>1, <1>4

\* The headers of one who was admitted hide the quota of any others.
LEMMA QuotaHidden ==
    ASSUME NEW v \in Verdict, Honest(v), v.allowed, NEW headers,
           NEW over, over = Over(from_result(v), headers)
    PROVE  /\ Reads(over, v) /\ DOMAIN over # {}
           /\ "Retry-After" \in DOMAIN over <=> "Retry-After" \in DOMAIN headers
           /\ "Retry-After" \in DOMAIN over => over["Retry-After"] = headers["Retry-After"]
<1>1. /\ Quota \subseteq DOMAIN from_result(v)
      /\ "Retry-After" \notin DOMAIN from_result(v)
  BY HeadersOf DEF Honest, Quota
<1>2. /\ DOMAIN over = DOMAIN from_result(v) \cup DOMAIN headers
      /\ \A n \in DOMAIN from_result(v) : over[n] = from_result(v)[n]
      /\ \A n \in DOMAIN headers \ DOMAIN from_result(v) : over[n] = headers[n]
  BY DEF Over
<1>3. "Limit" \in DOMAIN over
  BY <1>2, HeadersOf
<1> QED
  BY <1>1, <1>2, <1>3 DEF Reads

LEMMA QuotaTold ==
    ASSUME NEW v \in Verdict, NEW over, over = Over(from_result(v), NoHeaders)
    PROVE  Reads(over, v) /\ over = from_result(v)
<1>1. DOMAIN NoHeaders = {}
  BY DEF NoHeaders
<1>2. from_result(v) = [n \in DOMAIN from_result(v) |-> from_result(v)[n]]
  BY DEF from_result
<1>3. over = [n \in DOMAIN from_result(v) |-> from_result(v)[n]]
  BY <1>1 DEF Over
<1> QED
  BY <1>2, <1>3 DEF Reads

LEMMA Refused ==
    ASSUME NEW layer, NEW v \in Verdict, NEW reply, reply = Refusal(layer, v)
    PROVE  /\ reply = [status |-> reply.status, headers |-> from_result(v)]
           /\ reply.status \in {"503", "429", "custom"}
           /\ reply.status = "503" <=> storage_unavailable(v)
<1>1. PICK status \in {"503", "429", "custom"} :
          /\ status = "503" <=> storage_unavailable(v)
          /\ reply = with_headers([NoReply EXCEPT !.status = status], v)
  BY Zenon DEF Refusal
<1>2. [NoReply EXCEPT !.status = status] = [status |-> status, headers |-> NoHeaders]
  BY DEF NoReply
<1>3. Over(from_result(v), NoHeaders) = from_result(v)
  BY QuotaTold
<1>4. reply = [status |-> status, headers |-> from_result(v)]
  BY <1>1, <1>2, <1>3 DEF with_headers
<1> QED
  BY <1>1, <1>4

LEMMA AppendedTo ==
    ASSUME NEW S, NEW s \in Seq(S), NEW v \in S
    PROVE  /\ Append(s, v) \in Seq(S) /\ Last(Append(s, v)) = v
           /\ ToSet(Append(s, v)) = ToSet(s) \cup {v}
           /\ Len(Append(s, v)) = Len(s) + 1 /\ Len(s) \in Nat
<1>1. PICK more : more = Append(s, v)
  OBVIOUS
<1>2. /\ more \in Seq(S) /\ Len(more) = Len(s) + 1 /\ Len(s) \in Nat
      /\ \A i \in 1 .. Len(s) : more[i] = s[i]
      /\ more[Len(s) + 1] = v
  BY <1>1, AppendProperties, LenProperties
<1>3. DOMAIN more = 1 .. Len(s) + 1 /\ DOMAIN s = 1 .. Len(s)
  BY <1>2, LenProperties
<1>4. ToSet(more) = ToSet(s) \cup {v}
  <2>1. ASSUME NEW x \in ToSet(more)
        PROVE  x \in ToSet(s) \cup {v}
    BY <1>2, <1>3, <2>1 DEF ToSet
  <2>2. \A i \in 1 .. Len(s) : i \in 1 .. Len(s) + 1
    BY <1>2
  <2>3. Len(s) + 1 \in 1 .. Len(s) + 1
    BY <1>2
  <2> QED
    BY <1>2, <1>3, <2>1, <2>2, <2>3 DEF ToSet
<1> QED
  BY <1>1, <1>2, <1>4 DEF Last

LEMMA ReadAgain ==
    ASSUME NEW s \in Seq(Verdict), NEW v \in Verdict, NEW headers, ReadFrom(headers, s)
    PROVE  ReadFrom(headers, Append(s, v))
BY AppendedTo DEF ReadFrom

-----------------------------------------------------------------------------
(***************************************************************************)
(* Types.                                                                  *)
(***************************************************************************)

WebTypes ==
    /\ stack \in Stacks
    /\ clock \in Nat
    /\ entries = [i \in Layers |-> entries[i]]
    /\ \A i \in Layers : FitsRule(stack[i].rule, entries[i], clock)
    /\ phase \in [Requests -> {"idle", "inbound", "view", "outbound"}]
    /\ at \in [Requests -> 0 .. Len(stack)]
    /\ path \in [Requests -> {"limited", "excluded"}]
    /\ kept \in [Requests -> [Layers -> Verdict]]
    /\ DOMAIN early = Requests
    /\ response = [r \in Requests |-> [status  |-> response[r].status,
                                       headers |-> response[r].headers]]
    /\ verdicts \in [Requests -> Seq(Verdict)]
    /\ admitted \in [Layers -> Nat]
    /\ DOMAIN told = Layers
    /\ \A r \in Requests : phase[r] = "inbound" => at[r] \in Layers

LEMMA StackFacts ==
    ASSUME stack \in Stacks
    PROVE  /\ Len(stack) \in Nat /\ Len(stack) >= 1 /\ Layers = 1 .. Len(stack)
           /\ \A i \in Layers : /\ stack[i].rule \in LimitRule
                                /\ stack[i].fail_open \in BOOLEAN
                                /\ Slot(i) \in Layers
                                /\ BackFrom(i) \in 0 .. Len(stack)
<1>1. stack \in Seq(Layer) /\ stack # <<>>
  BY WebAssumption
<1>2. Len(stack) \in Nat /\ Len(stack) >= 1 /\ Layers = 1 .. Len(stack)
  BY <1>1, EmptySeq, LenProperties DEF Layers
<1>3. \A i \in Layers : stack[i] \in Layer
  BY <1>1, <1>2, ElementOfSeq
<1>4. \A i \in Layers : stack[i].rule \in LimitRule /\ stack[i].fail_open \in BOOLEAN
  BY <1>3 DEF Layer
<1>5. \A i \in Layers : Slot(i) \in Layers
  BY <1>2 DEF Slot
<1>6. \A i \in Layers : BackFrom(i) \in 0 .. Len(stack)
  <2> DEFINE outermost == {j \in Layers : stack[j].kind = "flask_middleware"}
  <2>1. IsFiniteSet(Layers) /\ Cardinality(Layers) = Len(stack)
    BY <1>2, FS_Interval
  <2>2. IsFiniteSet(outermost) /\ Cardinality(outermost) <= Len(stack)
    BY <2>1, FS_Subset
  <2>3. Cardinality(outermost) \in Nat
    BY <2>2, FS_CardinalityType
  <2>4. \A i \in Layers : i - 1 \in 0 .. Len(stack)
    BY <1>2
  <2> QED
    BY <1>2, <2>2, <2>3, <2>4 DEF BackFrom
<1> QED
  BY <1>2, <1>4, <1>5, <1>6

LEMMA CeilSuffices ==
    ASSUME NEW ticks \in Int
    PROVE  Ceil(AtLeastZero(ticks)) \in Nat /\ ticks <= Ceil(AtLeastZero(ticks)) * Second
<1>1. PICK least \in Nat : least = AtLeastZero(ticks) /\ ticks <= least
  BY DEF AtLeastZero
<1>2. Second \in Positive /\ Second \in Nat /\ Second >= 1
  BY WebAssumption DEF Positive
<1>3. PICK c : c = (least + Second - 1) \div Second
  OBVIOUS
<1>4. least + Second - 1 \in Int /\ least + Second - 1 >= 0
  BY <1>1, <1>2
<1>5. c \in Nat /\ least + Second - 1 < c * Second + Second
  BY <1>2, <1>3, <1>4, DivIsInt
<1>6. PICK product \in Int : product = c * Second
  BY <1>2, <1>5
<1>7. ticks <= product
  BY <1>1, <1>2, <1>5, <1>6
<1> QED
  BY <1>1, <1>3, <1>5, <1>6, <1>7 DEF Ceil

\* What the check of r at its layer did, with the result that it got.
Consulted(r, result) ==
    /\ result \in Verdict /\ Honest(result)
    /\ result.layer = at[r] /\ result.serial = admitted[at[r]]
    /\ ~result.allowed =>
          /\ result.reset_at # Never => ~Decide(stack[at[r]].rule, entries[at[r]], clock).allowed
          /\ result.retry_after # Never =>
                /\ result.reset_at <= clock + result.retry_after * Second
                /\ Serves(stack[at[r]].rule, entries[at[r]], result.reset_at)
          /\ UNCHANGED entries
          /\ TurnAway(r, result)
    /\ result.allowed => LetIn(r, result)
    /\ \E entry : /\ entries' = [entries EXCEPT ![at[r]] = entry]
                  /\ FitsRule(stack[at[r]].rule, entry, clock)
    /\ verdicts' = [verdicts EXCEPT ![r] = Append(@, result)]
    /\ UNCHANGED <<stack, clock, path, received>>

LEMMA CheckedFacts ==
    ASSUME WebTypes, NEW i \in Layers,
           NEW outcome, outcome = Decide(stack[i].rule, entries[i], clock),
           NEW result, result = Checked(i, outcome)
    PROVE  /\ result \in Verdict /\ Honest(result)
           /\ result.layer = i /\ result.serial = admitted[i]
           /\ result.allowed = outcome.allowed
           /\ ~result.allowed =>
                 /\ outcome.entry = entries[i]
                 /\ result.reset_at <= clock + result.retry_after * Second
                 /\ Serves(stack[i].rule, entries[i], result.reset_at)
           /\ FitsRule(stack[i].rule, outcome.entry, clock)
<1>1. /\ stack[i].rule \in LimitRule /\ clock \in Nat /\ i \in Nat
      /\ FitsRule(stack[i].rule, entries[i], clock) /\ admitted[i] \in Nat
  BY StackFacts DEF WebTypes
<1>2. /\ outcome \in Outcome /\ FitsRule(stack[i].rule, outcome.entry, clock)
      /\ outcome.reset_at >= clock
      /\ ~outcome.allowed => /\ outcome.entry = entries[i]
                             /\ Serves(stack[i].rule, entries[i], outcome.reset_at)
  BY <1>1, DecideFits
<1>3. /\ outcome.allowed \in BOOLEAN /\ outcome.remaining \in Nat /\ outcome.reset_at \in Int
  BY <1>2 DEF Outcome
<1>4. PICK limit \in Nat : limit = LimitOf(stack[i].rule)
  BY <1>1 DEF LimitOf, LimitRule, WindowRule, BucketRule, Positive
<1>5. PICK wait \in Nat : /\ wait = Ceil(AtLeastZero(outcome.reset_at - clock))
                          /\ outcome.reset_at - clock <= wait * Second
  BY <1>1, <1>3, CeilSuffices
<1>6. result = [allowed |-> outcome.allowed, remaining |-> outcome.remaining,
                reset_at |-> outcome.reset_at, limit |-> limit,
                retry_after |-> IF outcome.allowed THEN Never ELSE wait,
                layer |-> i, serial |-> admitted[i]]
  BY <1>4, <1>5 DEF Checked
<1>7. Never \in Int /\ outcome.reset_at # Never /\ wait # Never
  BY <1>1, <1>2, <1>3 DEF Never
<1>8. result \in Verdict
  BY <1>1, <1>3, <1>6, <1>7 DEF Verdict
<1>9. Honest(result)
  BY <1>6, <1>7 DEF Honest
<1>10. PICK product \in Int : product = wait * Second
  BY WebAssumption DEF Positive
<1>11. outcome.reset_at <= clock + wait * Second
  <2>1. outcome.reset_at <= clock + product
    BY <1>1, <1>3, <1>5, <1>10
  <2> QED
    BY <1>10, <2>1
<1> QED
  BY <1>2, <1>6, <1>8, <1>9, <1>11

LEMMA UnaskedFacts ==
    ASSUME WebTypes, NEW i \in Layers, NEW result, result = Unasked(i)
    PROVE  /\ result \in Verdict /\ Honest(result)
           /\ result.layer = i /\ result.serial = admitted[i]
           /\ ~result.allowed => result.reset_at = Never /\ result.retry_after = Never
<1>1. /\ stack[i].rule \in LimitRule /\ clock \in Nat /\ i \in Nat
      /\ admitted[i] \in Nat
  BY StackFacts, SMTT(40) DEF WebTypes
<1>2. PICK limit \in Nat : limit = LimitOf(stack[i].rule)
  BY <1>1 DEF LimitOf, LimitRule, WindowRule, BucketRule, Positive
<1>3. PICK hour \in Nat : hour = clock + 3600 * Second
  BY <1>1, WebAssumption DEF Positive
<1>4. Never \in Int /\ hour # Never
  BY DEF Never
<1> DEFINE base == [NoResult EXCEPT !.limit = limit, !.layer = i, !.serial = admitted[i]]
<1>5. result = IF stack[i].fail_open
               THEN [base EXCEPT !.allowed = TRUE, !.remaining = 9999, !.reset_at = hour]
               ELSE base
  BY <1>2, <1>3 DEF Unasked
<1>6. /\ base \in Verdict /\ base.layer = i /\ base.serial = admitted[i]
      /\ ~base.allowed /\ base.reset_at = Never /\ base.retry_after = Never
  BY <1>1, <1>4 DEF NoResult, Verdict
<1> HIDE DEF base
<1>7. CASE stack[i].fail_open
  <2>1. result = [base EXCEPT !.allowed = TRUE, !.remaining = 9999, !.reset_at = hour]
    BY <1>5, <1>7
  <2>2. /\ result.layer = base.layer /\ result.serial = base.serial
        /\ result.allowed /\ result.reset_at = hour /\ result.retry_after = base.retry_after
    BY <1>6, <2>1 DEF Verdict
  <2>3. result \in Verdict
    <3> DEFINE opened  == [base EXCEPT !.allowed = TRUE]
               counted == [opened EXCEPT !.remaining = 9999]
    <3>1. opened \in Verdict
      BY <1>6 DEF Verdict
    <3> HIDE DEF opened
    <3>2. counted \in Verdict
      BY <3>1 DEF Verdict
    <3> HIDE DEF counted
    <3>3. [counted EXCEPT !.reset_at = hour] \in Verdict
      BY <1>3, <3>2 DEF Verdict
    <3>4. result = [counted EXCEPT !.reset_at = hour]
      BY <2>1 DEF opened, counted
    <3> QED
      BY <3>3, <3>4
  <2> QED
    BY <1>4, <1>6, <2>2, <2>3 DEF Honest
<1>8. CASE ~stack[i].fail_open
  BY <1>5, <1>6, <1>8 DEF Honest
<1> QED
  BY <1>7, <1>8

LEMMA ConsultFacts ==
    ASSUME WebTypes, NEW r \in Requests, at[r] \in Layers, Consult(r)
    PROVE  \E result : Consulted(r, result)
<1>1. PICK i \in Layers : i = at[r]
  OBVIOUS
<1>2. PICK outcome : outcome = Decide(stack[i].rule, entries[i], clock)
  OBVIOUS
<1>3. PICK result \in {Checked(i, outcome), Unasked(i)} :
          /\ IF result = Unasked(i)
             THEN outages < MaxOutages /\ outages' = outages + 1 /\ UNCHANGED entries
             ELSE entries' = [entries EXCEPT ![i] = outcome.entry] /\ UNCHANGED outages
          /\ IF result.allowed THEN LetIn(r, result) ELSE TurnAway(r, result)
          /\ verdicts' = [verdicts EXCEPT ![r] = Append(@, result)]
  BY <1>1, <1>2 DEF Consult
<1>4. UNCHANGED <<stack, clock, path, received>>
  BY DEF Consult
<1>5. entries = [j \in Layers |-> entries[j]] /\ FitsRule(stack[i].rule, entries[i], clock)
  BY DEF WebTypes
<1>6. CASE result = Unasked(i)
  <2>1. /\ result \in Verdict /\ Honest(result)
        /\ result.layer = i /\ result.serial = admitted[i]
        /\ ~result.allowed => result.reset_at = Never /\ result.retry_after = Never
    BY <1>6, UnaskedFacts
  <2>2. UNCHANGED entries
    BY <1>3, <1>6
  <2>3. entries' = [entries EXCEPT ![i] = entries[i]]
    BY <1>5, <2>2
  <2> QED
    BY <1>1, <1>3, <1>4, <1>5, <2>1, <2>2, <2>3 DEF Consulted
<1>7. CASE result # Unasked(i)
  <2>1. /\ result \in Verdict /\ Honest(result)
        /\ result.layer = i /\ result.serial = admitted[i]
        /\ result.allowed = outcome.allowed
        /\ ~result.allowed =>
              /\ outcome.entry = entries[i]
              /\ result.reset_at <= clock + result.retry_after * Second
              /\ Serves(stack[i].rule, entries[i], result.reset_at)
        /\ FitsRule(stack[i].rule, outcome.entry, clock)
    BY <1>2, <1>3, <1>7, CheckedFacts
  <2>2. entries' = [entries EXCEPT ![i] = outcome.entry]
    BY <1>3, <1>7
  <2>3. ~result.allowed => UNCHANGED entries
    BY <1>5, <2>1, <2>2
  <2> QED
    BY <1>1, <1>2, <1>3, <1>4, <2>1, <2>2, <2>3 DEF Consulted
<1> QED
  BY <1>6, <1>7

\* A step of r takes it on: to the next layer, or to the view.
LEMMA GoneOn ==
    ASSUME WebTypes, NEW r \in Requests, phase[r] = "inbound", GoOn(r)
    PROVE  /\ phase' \in [Requests -> {"idle", "inbound", "view", "outbound"}]
           /\ at' \in [Requests -> 0 .. Len(stack)]
           /\ \A q \in Requests : phase'[q] = "inbound" => at'[q] \in Layers
           /\ \A q \in Requests : q # r => phase'[q] = phase[q] /\ at'[q] = at[q]
           /\ at[r] < Len(stack) => phase'[r] = "inbound" /\ at'[r] = at[r] + 1
           /\ at[r] >= Len(stack) => phase'[r] = "view" /\ at[r] = Len(stack)
           /\ phase'[r] # "outbound"
<1>1. /\ phase \in [Requests -> {"idle", "inbound", "view", "outbound"}]
      /\ at \in [Requests -> 0 .. Len(stack)] /\ stack \in Stacks
      /\ \A q \in Requests : phase[q] = "inbound" => at[q] \in Layers
  BY DEF WebTypes
<1>2. Len(stack) \in Nat /\ Len(stack) >= 1 /\ Layers = 1 .. Len(stack)
  BY <1>1, StackFacts
<1>3. CASE at[r] < Len(stack)
  <2>1. at' = [at EXCEPT ![r] = at[r] + 1] /\ phase' = phase
    BY <1>3 DEF GoOn
  <2>2. at[r] + 1 \in Layers /\ at[r] + 1 \in 0 .. Len(stack)
    BY <1>1, <1>2, <1>3
  <2>3. ~(at[r] >= Len(stack))
    BY <1>1, <1>2, <1>3
  <2> QED
    BY <1>1, <2>1, <2>2, <2>3
<1>4. CASE ~(at[r] < Len(stack))
  <2>1. phase' = [phase EXCEPT ![r] = "view"] /\ at' = at
    BY <1>4 DEF GoOn
  <2>2. at[r] = Len(stack)
    BY <1>1, <1>2, <1>4
  <2> QED
    BY <1>1, <1>4, <2>1, <2>2
<1> QED
  BY <1>3, <1>4

LEMMA TypesInitially ==
    ASSUME Init
    PROVE  WebTypes
<1>1. stack \in Stacks /\ Len(stack) \in Nat /\ \A i \in Layers : stack[i].rule \in LimitRule
  BY StackFacts DEF Init
<1>2. \A i \in Layers : entries[i] = <<>>
  BY DEF Init
<1>3. \A i \in Layers : FitsRule(stack[i].rule, entries[i], clock)
  <2> SUFFICES ASSUME NEW i \in Layers PROVE FitsRule(stack[i].rule, entries[i], clock)
    OBVIOUS
  <2>1. entries[i] = <<>> /\ <<>> \in Entry /\ Len(<<>>) = 0
    BY <1>2 DEF Entry
  <2>2. entries[i] \in EntryUnder(stack[i].rule)
    BY <2>1 DEF EntryUnder
  <2>3. stack[i].rule.algorithm = "sliding_window" => 0 <= stack[i].rule.limit
    BY <1>1 DEF LimitRule, WindowRule, BucketRule, Positive
  <2> QED
    BY <2>1, <2>2, <2>3 DEF FitsRule
<1>4. NoResult \in Verdict
  BY DEF NoResult, Verdict, Never
<1>5. NoReply = [status |-> NoReply.status, headers |-> NoReply.headers]
  BY DEF NoReply
<1>6. <<>> \in Seq(Verdict) /\ Never \in Int
  BY DEF Never
<1> QED
  BY <1>1, <1>3, <1>4, <1>5, <1>6 DEF Init, WebTypes

LEMMA TypesKept ==
    ASSUME WebTypes, [Next]_vars
    PROVE  WebTypes'
<1>1. /\ Len(stack) \in Nat /\ Len(stack) >= 1 /\ Layers = 1 .. Len(stack)
      /\ \A i \in Layers : /\ stack[i].rule \in LimitRule
                           /\ Slot(i) \in Layers
                           /\ BackFrom(i) \in 0 .. Len(stack)
  BY StackFacts DEF WebTypes
<1>2. CASE UNCHANGED vars
  BY <1>2 DEF WebTypes, vars, requestVars, Layers
<1>3. CASE Finished
  BY <1>3 DEF WebTypes, Finished, vars, requestVars, Layers
<1>4. CASE Tick
  <2>1. clock' = clock + 1 /\ clock \in Nat
    BY <1>4 DEF Tick, WebTypes
  <2>2. UNCHANGED <<stack, entries, requestVars, admitted, told>> /\ Layers' = Layers
    BY <1>4 DEF Tick, Layers
  <2>3. \A i \in Layers : FitsRule(stack[i].rule, entries[i], clock')
    <3> SUFFICES ASSUME NEW i \in Layers PROVE FitsRule(stack[i].rule, entries[i], clock')
      OBVIOUS
    <3>1. FitsRule(stack[i].rule, entries[i], clock)
      BY DEF WebTypes
    <3>2. clock \in Int /\ clock' \in Int /\ clock <= clock'
      BY <2>1
    <3> QED
      BY <1>1, <3>1, <3>2, FitsLater
  <2> QED
    BY <2>1, <2>2, <2>3 DEF WebTypes, requestVars
<1>5. ASSUME NEW r \in Requests, Receive(r)
      PROVE  WebTypes'
  <2>1. 1 \in 0 .. Len(stack) /\ 1 \in Layers
    BY <1>1
  <2>2. PICK p \in {"limited", "excluded"} : path' = [path EXCEPT ![r] = p]
    BY <1>5 DEF Receive, Paths
  <2>3. /\ UNCHANGED <<stack, entries, clock, kept, early, response, verdicts, admitted, told>>
        /\ phase' = [phase EXCEPT ![r] = "inbound"] /\ at' = [at EXCEPT ![r] = 1]
        /\ Layers' = Layers
    BY <1>5 DEF Receive, Layers
  <2> QED
    BY <2>1, <2>2, <2>3 DEF WebTypes
<1>6. ASSUME NEW r \in Requests, Skip(r)
      PROVE  WebTypes'
  <2>1. /\ UNCHANGED <<stack, entries, clock, path, kept, early, response, verdicts, admitted, told>>
        /\ phase[r] = "inbound" /\ GoOn(r) /\ Layers' = Layers
    BY <1>6 DEF Skip, Layers
  <2>2. /\ phase' \in [Requests -> {"idle", "inbound", "view", "outbound"}]
        /\ at' \in [Requests -> 0 .. Len(stack)]
        /\ \A q \in Requests : phase'[q] = "inbound" => at'[q] \in Layers
    BY <2>1, GoneOn
  <2> QED
    BY <2>1, <2>2 DEF WebTypes
<1>7. ASSUME NEW r \in Requests, Consult(r)
      PROVE  WebTypes'
  <2>1. phase[r] = "inbound" /\ at[r] \in Layers
    BY <1>7 DEF Consult, WebTypes
  <2>2. PICK result : Consulted(r, result)
    BY <1>7, <2>1, ConsultFacts
  <2>3. /\ UNCHANGED <<stack, clock, path>> /\ Layers' = Layers
        /\ result \in Verdict
        /\ verdicts' = [verdicts EXCEPT ![r] = Append(@, result)]
    BY <2>2 DEF Consulted, Layers
  <2>4. verdicts' \in [Requests -> Seq(Verdict)]
    <3>1. verdicts \in [Requests -> Seq(Verdict)]
      BY DEF WebTypes
    <3>2. Append(verdicts[r], result) \in Seq(Verdict)
      BY <2>3, <3>1, AppendedTo
    <3> QED
      BY <2>3, <3>1, <3>2
  <2>5. PICK entry : /\ entries' = [entries EXCEPT ![at[r]] = entry]
                     /\ FitsRule(stack[at[r]].rule, entry, clock)
    BY <2>2 DEF Consulted
  <2>6. /\ entries' = [i \in Layers |-> entries'[i]]
        /\ \A i \in Layers : FitsRule(stack[i].rule, entries'[i], clock)
    BY <2>1, <2>5 DEF WebTypes
  <2>7. CASE result.allowed
    <3>1. /\ GoOn(r) /\ UNCHANGED response
          /\ kept' = [kept EXCEPT ![r][Slot(at[r])] = result]
          /\ admitted' = [admitted EXCEPT ![at[r]] = @ + 1]
          /\ told' = [told EXCEPT ![at[r]] = Never]
          /\ DOMAIN early' = DOMAIN early
      BY <2>2, <2>7 DEF Consulted, LetIn
    <3>2. /\ phase' \in [Requests -> {"idle", "inbound", "view", "outbound"}]
          /\ at' \in [Requests -> 0 .. Len(stack)]
          /\ \A q \in Requests : phase'[q] = "inbound" => at'[q] \in Layers
      BY <2>1, <3>1, GoneOn
    <3>3. kept' \in [Requests -> [Layers -> Verdict]]
      <4>1. PICK slot \in Layers : kept' = [kept EXCEPT ![r] = [kept[r] EXCEPT ![slot] = result]]
        BY <1>1, <2>1, <3>1
      <4>2. kept \in [Requests -> [Layers -> Verdict]]
        BY DEF WebTypes
      <4>3. [kept[r] EXCEPT ![slot] = result] \in [Layers -> Verdict]
        BY <2>3, <4>1, <4>2
      <4> QED
        BY <4>1, <4>2, <4>3
    <3>4. admitted' \in [Layers -> Nat] /\ DOMAIN told' = Layers
      BY <2>1, <3>1 DEF WebTypes
    <3> QED
      BY <2>3, <2>4, <2>6, <3>1, <3>2, <3>3, <3>4 DEF WebTypes
  <2>8. CASE ~result.allowed
    <3>1. /\ response' = [response EXCEPT ![r] = Refusal(stack[at[r]], result)]
          /\ phase' = [phase EXCEPT ![r] = "outbound"]
          /\ at' = [at EXCEPT ![r] = BackFrom(at[r])]
          /\ UNCHANGED <<kept, early, admitted, told>>
      BY <2>2, <2>8 DEF Consulted, TurnAway
    <3>2. PICK reply : /\ reply = Refusal(stack[at[r]], result)
                       /\ reply = [status |-> reply.status, headers |-> reply.headers]
      BY <2>3, Refused
    <3>3. response' = [q \in Requests |-> [status  |-> response'[q].status,
                                           headers |-> response'[q].headers]]
      BY <3>1, <3>2 DEF WebTypes
    <3>4. BackFrom(at[r]) \in 0 .. Len(stack)
      BY <1>1, <2>1
    <3>5. /\ phase' \in [Requests -> {"idle", "inbound", "view", "outbound"}]
          /\ at' \in [Requests -> 0 .. Len(stack)]
          /\ \A q \in Requests : phase'[q] = "inbound" => at'[q] \in Layers
      BY <3>1, <3>4 DEF WebTypes
    <3> QED
      BY <2>3, <2>4, <2>6, <3>1, <3>3, <3>5 DEF WebTypes
  <2> QED
    BY <2>7, <2>8
<1>8. ASSUME NEW r \in Requests, View(r)
      PROVE  WebTypes'
  <2>1. /\ UNCHANGED <<stack, entries, clock, at, path, kept, early, verdicts, admitted, told>>
        /\ phase' = [phase EXCEPT ![r] = "outbound"] /\ Layers' = Layers
    BY <1>8 DEF View, Layers
  <2>2. PICK status, headers :
            response' = [response EXCEPT ![r] = [status |-> status, headers |-> headers]]
    BY <1>8 DEF View
  <2>3. response' = [q \in Requests |-> [status  |-> response'[q].status,
                                         headers |-> response'[q].headers]]
    BY <2>2 DEF WebTypes
  <2> QED
    BY <2>1, <2>3 DEF WebTypes
<1>9. ASSUME NEW r \in Requests, Return(r)
      PROVE  WebTypes'
  <2>1. /\ UNCHANGED <<stack, entries, clock, phase, path, kept, early, verdicts, admitted, told>>
        /\ phase[r] = "outbound" /\ at[r] > 0 /\ at' = [at EXCEPT ![r] = at[r] - 1]
        /\ Layers' = Layers
    BY <1>9 DEF Return, Layers
  <2>2. PICK reply : reply = Passed(stack[at[r]], response[r])
    OBVIOUS
  <2>3. reply = [status |-> reply.status, headers |-> reply.headers]
    BY <2>2 DEF WebTypes, Passed
  <2>4. \A v : with_headers(reply, v) = [status  |-> with_headers(reply, v).status,
                                         headers |-> with_headers(reply, v).headers]
    BY <2>3 DEF with_headers
  <2>5. PICK passed : /\ response' = [response EXCEPT ![r] = passed]
                      /\ passed = [status |-> passed.status, headers |-> passed.headers]
    BY <1>9, <2>2, <2>3, <2>4 DEF Return
  <2>6. response' = [q \in Requests |-> [status  |-> response'[q].status,
                                         headers |-> response'[q].headers]]
    BY <2>5 DEF WebTypes
  <2>7. at[r] - 1 \in 0 .. Len(stack)
    BY <1>1, <2>1 DEF WebTypes
  <2>8. /\ at' \in [Requests -> 0 .. Len(stack)]
        /\ \A q \in Requests : phase'[q] = "inbound" => at'[q] \in Layers
    BY <2>1, <2>7 DEF WebTypes
  <2> QED
    BY <2>1, <2>6, <2>8 DEF WebTypes
<1>10. ASSUME NEW r \in Requests, Reply(r)
       PROVE  WebTypes'
  <2>1. /\ UNCHANGED <<stack, entries, clock, at, admitted>> /\ Layers' = Layers
        /\ phase' = [phase EXCEPT ![r] = "idle"]
        /\ path' = [path EXCEPT ![r] = "limited"]
        /\ kept' = [kept EXCEPT ![r] = [i \in Layers |-> NoResult]]
        /\ early' = [early EXCEPT ![r] = NoHeaders]
        /\ response' = [response EXCEPT ![r] = NoReply]
        /\ verdicts' = [verdicts EXCEPT ![r] = <<>>]
    BY <1>10 DEF Reply, Layers
  <2>2. DOMAIN told' = DOMAIN told
    BY <1>10 DEF Reply
  <2>3. NoResult \in Verdict
    BY DEF NoResult, Verdict, Never
  <2>4. NoReply = [status |-> NoReply.status, headers |-> NoReply.headers]
    BY DEF NoReply
  <2>5. <<>> \in Seq(Verdict)
    OBVIOUS
  <2>6. response' = [q \in Requests |-> [status  |-> response'[q].status,
                                         headers |-> response'[q].headers]]
    BY <2>1, <2>4 DEF WebTypes
  <2>7. verdicts' \in [Requests -> Seq(Verdict)]
    BY <2>1, <2>5 DEF WebTypes
  <2>8. kept' \in [Requests -> [Layers -> Verdict]]
    BY <2>1, <2>3 DEF WebTypes
  <2> QED
    BY <2>1, <2>2, <2>6, <2>7, <2>8 DEF WebTypes
<1> QED
  BY <1>2, <1>3, <1>4, <1>5, <1>6, <1>7, <1>8, <1>9, <1>10 DEF Next

LEMMA PassedOn ==
    ASSUME WebTypes, NEW r \in Requests, NEW layer, NEW reply, reply = Passed(layer, response[r])
    PROVE  /\ reply = [status |-> reply.status, headers |-> response[r].headers]
           /\ reply.status = response[r].status
                  \/ (reply.status = "500" /\ response[r].status = "raised")
<1>1. PICK got : got = response[r]
  OBVIOUS
<1>2. got = [status |-> got.status, headers |-> got.headers]
  BY <1>1 DEF WebTypes
<1>3. CASE got.status = "raised" /\ layer.kind \in {"flask_middleware", "django_middleware"}
  <2>1. reply = [got EXCEPT !.status = "500"]
    BY <1>1, <1>3 DEF Passed
  <2>2. reply = [status |-> "500", headers |-> got.headers]
    BY <1>2, <2>1
  <2> QED
    BY <1>1, <1>3, <2>2
<1>4. CASE ~(got.status = "raised" /\ layer.kind \in {"flask_middleware", "django_middleware"})
  <2>1. reply = got
    BY <1>1, <1>4 DEF Passed
  <2> QED
    BY <1>1, <1>2, <2>1
<1> QED
  BY <1>3, <1>4

\* Nothing of the request q is touched.
Aside(q) ==
    /\ phase'[q] = phase[q] /\ at'[q] = at[q] /\ path'[q] = path[q] /\ kept'[q] = kept[q]
    /\ early'[q] = early[q] /\ response'[q] = response[q] /\ verdicts'[q] = verdicts[q]
    /\ stack' = stack

StepOf(r) == Receive(r) \/ Skip(r) \/ Consult(r) \/ View(r) \/ Return(r) \/ Reply(r)

LEMMA OthersAside ==
    ASSUME WebTypes, NEW r \in Requests, StepOf(r), NEW q \in Requests, q # r
    PROVE  Aside(q)
<1>1. CASE Receive(r)
  BY <1>1 DEF Receive, Aside, WebTypes
<1>2. CASE Skip(r)
  <2>1. phase'[q] = phase[q] /\ at'[q] = at[q]
    BY <1>2, GoneOn DEF Skip
  <2> QED
    BY <1>2, <2>1 DEF Skip, Aside
<1>3. CASE Consult(r)
  <2>1. phase[r] = "inbound" /\ at[r] \in Layers
    BY <1>3 DEF Consult, WebTypes
  <2>2. PICK result : Consulted(r, result)
    BY <1>3, <2>1, ConsultFacts
  <2>3. verdicts'[q] = verdicts[q] /\ UNCHANGED <<stack, path>>
    BY <2>2 DEF Consulted, WebTypes
  <2>4. CASE result.allowed
    <3>1. GoOn(r)
      BY <2>2, <2>4 DEF Consulted, LetIn
    <3>2. phase'[q] = phase[q] /\ at'[q] = at[q]
      BY <2>1, <3>1, GoneOn
    <3>3. kept'[q] = kept[q] /\ early'[q] = early[q] /\ response' = response
      BY <2>2, <2>4 DEF Consulted, LetIn, WebTypes
    <3> QED
      BY <2>3, <3>2, <3>3 DEF Aside
  <2>5. CASE ~result.allowed
    <3>1. TurnAway(r, result)
      BY <2>2, <2>5 DEF Consulted
    <3>2. /\ phase'[q] = phase[q] /\ at'[q] = at[q] /\ response'[q] = response[q]
          /\ kept' = kept /\ early' = early
      BY <3>1 DEF TurnAway, WebTypes
    <3> QED
      BY <2>3, <3>2 DEF Aside
  <2> QED
    BY <2>4, <2>5
<1>4. CASE View(r)
  BY <1>4 DEF View, Aside, WebTypes
<1>5. CASE Return(r)
  BY <1>5 DEF Return, Aside, WebTypes
<1>6. CASE Reply(r)
  BY <1>6 DEF Reply, Aside, WebTypes
<1> QED
  BY <1>1, <1>2, <1>3, <1>4, <1>5, <1>6 DEF StepOf

-----------------------------------------------------------------------------
(***************************************************************************)
(* Where a request is, and who let it in.                                  *)
(***************************************************************************)

\* The layers up to n that ask about r.
Limited(r, n) ==
    {j \in 1 .. n : ~(path[r] = "excluded" /\ stack[j].kind = "fastapi_middleware")}

LetInBy(r, n) ==
    /\ \A v \in ToSet(verdicts[r]) : v.allowed
    /\ Len(verdicts[r]) = Cardinality(Limited(r, n))

StatusTells(r) ==
    /\ response[r].status = "503" => storage_unavailable(Last(verdicts[r]))
    /\ response[r].status \in {"429", "custom"} =>
           ~Last(verdicts[r]).allowed /\ ~storage_unavailable(Last(verdicts[r]))
    /\ response[r].status \notin {"503", "429", "custom"} => LetInBy(r, Len(stack))

Whereabouts(r) ==
    /\ phase[r] = "idle" => verdicts[r] = <<>>
    /\ phase[r] = "inbound" => LetInBy(r, at[r] - 1)
    /\ phase[r] = "view" => LetInBy(r, Len(stack))
    /\ phase[r] = "outbound" => StatusTells(r)

LEMMA NobodyYet ==
    ASSUME NEW r
    PROVE  Cardinality(Limited(r, 0)) = 0
<1>1. Limited(r, 0) = {}
  BY DEF Limited
<1> QED
  BY <1>1, FS_EmptySet

LEMMA OneMoreLimited ==
    ASSUME NEW r, NEW n \in Nat, n >= 1
    PROVE  Cardinality(Limited(r, n)) =
               IF path[r] = "excluded" /\ stack[n].kind = "fastapi_middleware"
               THEN Cardinality(Limited(r, n - 1)) ELSE Cardinality(Limited(r, n - 1)) + 1
<1>1. /\ \A j : j \in 1 .. n <=> j \in 1 .. n - 1 \/ j = n
      /\ n \notin 1 .. n - 1
  OBVIOUS
<1>2. CASE path[r] = "excluded" /\ stack[n].kind = "fastapi_middleware"
  <2>1. Limited(r, n) = Limited(r, n - 1)
    BY <1>1, <1>2 DEF Limited
  <2> QED
    BY <1>2, <2>1
<1>3. CASE ~(path[r] = "excluded" /\ stack[n].kind = "fastapi_middleware")
  <2>1. Limited(r, n) = Limited(r, n - 1) \cup {n} /\ n \notin Limited(r, n - 1)
    BY <1>1, <1>3 DEF Limited
  <2>2. IsFiniteSet(1 .. n - 1) /\ Limited(r, n - 1) \subseteq 1 .. n - 1
    BY FS_Interval DEF Limited
  <2>3. IsFiniteSet(Limited(r, n - 1))
    BY <2>2, FS_Subset
  <2> QED
    BY <1>3, <2>1, <2>3, FS_AddElement
<1> QED
  BY <1>2, <1>3

LEMMA WhereaboutsAside ==
    ASSUME NEW q, Aside(q), Whereabouts(q)
    PROVE  Whereabouts(q)'
BY DEF Aside, Whereabouts, LetInBy, Limited, StatusTells

LEMMA WhereaboutsKept ==
    ASSUME WebTypes, NEW r \in Requests, StepOf(r), Whereabouts(r)
    PROVE  Whereabouts(r)'
<1>1. /\ Len(stack) \in Nat /\ Len(stack) >= 1 /\ Layers = 1 .. Len(stack)
  BY StackFacts DEF WebTypes
<1>2. verdicts[r] \in Seq(Verdict)
  BY DEF WebTypes
<1>3. CASE Receive(r)
  <2>1. /\ phase[r] = "idle" /\ verdicts' = verdicts /\ stack' = stack
        /\ phase'[r] = "inbound" /\ at'[r] = 1
    BY <1>3 DEF Receive, WebTypes
  <2>2. verdicts'[r] = <<>>
    BY <2>1 DEF Whereabouts
  <2>3. ToSet(verdicts'[r]) = {} /\ Len(verdicts'[r]) = 0
    BY <2>2 DEF ToSet
  <2>4. Cardinality(Limited(r, 0)') = 0
    <3>1. Limited(r, 0)' = {}
      BY DEF Limited
    <3> QED
      BY <3>1, FS_EmptySet
  <2>5. LetInBy(r, 0)'
    BY <2>3, <2>4 DEF LetInBy
  <2> QED
    BY <2>1, <2>5 DEF Whereabouts
<1>4. CASE Skip(r)
  <2>1. /\ phase[r] = "inbound" /\ at[r] \in Layers /\ GoOn(r) /\ Excluded(r)
        /\ UNCHANGED <<stack, path, verdicts>>
    BY <1>4 DEF Skip, WebTypes
  <2>2. PICK i \in Nat : i = at[r] /\ i >= 1
    BY <1>1, <2>1
  <2>3. LetInBy(r, i - 1)
    BY <2>1, <2>2 DEF Whereabouts
  <2>4. LetInBy(r, i)
    BY <2>1, <2>2, <2>3, OneMoreLimited DEF LetInBy, Excluded
  <2>5. LetInBy(r, i)'
    BY <2>1, <2>4 DEF LetInBy, Limited
  <2>6. /\ i < Len(stack) => phase'[r] = "inbound" /\ at'[r] = i + 1
        /\ i >= Len(stack) => phase'[r] = "view" /\ i = Len(stack)
    BY <2>1, <2>2, GoneOn
  <2>7. CASE i < Len(stack)
    <3>1. at'[r] - 1 = i /\ phase'[r] = "inbound"
      BY <2>2, <2>6, <2>7
    <3> QED
      BY <2>5, <3>1 DEF Whereabouts
  <2>8. CASE i >= Len(stack)
    BY <2>1, <2>5, <2>6, <2>8 DEF Whereabouts
  <2> QED
    BY <1>1, <2>2, <2>7, <2>8
<1>5. CASE Consult(r)
  <2>1. phase[r] = "inbound" /\ at[r] \in Layers /\ ~Excluded(r)
    BY <1>5 DEF Consult, WebTypes
  <2>2. PICK result : Consulted(r, result)
    BY <1>5, <2>1, ConsultFacts
  <2>3. PICK more : more = Append(verdicts[r], result)
    OBVIOUS
  <2>4. /\ UNCHANGED <<stack, path>> /\ verdicts'[r] = more
        /\ result \in Verdict
    BY <2>2, <2>3 DEF Consulted, WebTypes
  <2>5. /\ Last(more) = result /\ ToSet(more) = ToSet(verdicts[r]) \cup {result}
        /\ Len(more) = Len(verdicts[r]) + 1
    BY <1>2, <2>3, <2>4, AppendedTo
  <2>6. CASE result.allowed
    <3>1. PICK i \in Nat : i = at[r] /\ i >= 1
      BY <1>1, <2>1
    <3>2. LetInBy(r, i - 1)
      BY <2>1, <3>1 DEF Whereabouts
    <3>3. Cardinality(Limited(r, i)) = Cardinality(Limited(r, i - 1)) + 1
      BY <2>1, <3>1, OneMoreLimited DEF Excluded
    <3>4. /\ \A v \in ToSet(more) : v.allowed
          /\ Len(more) = Cardinality(Limited(r, i))
      BY <2>5, <2>6, <3>2, <3>3 DEF LetInBy
    <3>5. LetInBy(r, i)'
      BY <2>4, <3>4 DEF LetInBy, Limited
    <3>6. GoOn(r)
      BY <2>2, <2>6 DEF Consulted, LetIn
    <3>7. /\ i < Len(stack) => phase'[r] = "inbound" /\ at'[r] = i + 1
          /\ i >= Len(stack) => phase'[r] = "view" /\ i = Len(stack)
      BY <2>1, <3>1, <3>6, GoneOn
    <3>8. CASE i < Len(stack)
      <4>1. at'[r] - 1 = i /\ phase'[r] = "inbound"
        BY <3>1, <3>7, <3>8
      <4> QED
        BY <3>5, <4>1 DEF Whereabouts
    <3>9. CASE i >= Len(stack)
      BY <2>4, <3>5, <3>7, <3>9 DEF Whereabouts
    <3> QED
      BY <1>1, <3>1, <3>8, <3>9
  <2>7. CASE ~result.allowed
    <3>1. PICK reply : reply = Refusal(stack[at[r]], result)
      OBVIOUS
    <3>2. phase'[r] = "outbound" /\ response'[r] = reply
      BY <2>2, <2>7, <3>1 DEF Consulted, TurnAway, WebTypes
    <3>3. /\ reply.status \in {"503", "429", "custom"}
          /\ reply.status = "503" <=> storage_unavailable(result)
      BY <2>4, <3>1, Refused
    <3>4. StatusTells(r)'
      BY <2>4, <2>5, <2>7, <3>2, <3>3 DEF StatusTells, storage_unavailable
    <3> QED
      BY <3>2, <3>4 DEF Whereabouts
  <2> QED
    BY <2>6, <2>7
<1>6. CASE View(r)
  <2>1. /\ phase[r] = "view" /\ phase'[r] = "outbound" /\ UNCHANGED <<stack, path, verdicts>>
        /\ response'[r].status \in {"200", "raised"}
    BY <1>6 DEF View, WebTypes
  <2>2. LetInBy(r, Len(stack))
    BY <2>1 DEF Whereabouts
  <2>3. StatusTells(r)'
    BY <2>1, <2>2 DEF StatusTells, LetInBy, Limited
  <2> QED
    BY <2>1, <2>3 DEF Whereabouts
<1>7. CASE Return(r)
  <2>1. phase[r] = "outbound" /\ phase' = phase /\ UNCHANGED <<stack, path, verdicts>>
    BY <1>7 DEF Return
  <2>2. PICK reply : reply = Passed(stack[at[r]], response[r])
    OBVIOUS
  <2>3. /\ reply = [status |-> reply.status, headers |-> response[r].headers]
        /\ reply.status = response[r].status
               \/ (reply.status = "500" /\ response[r].status = "raised")
    BY <2>2, PassedOn
  <2>4. \A v : with_headers(reply, v).status = reply.status
    BY <2>3 DEF with_headers
  <2>5. response'[r].status = reply.status
    <3>1. PICK passed : response' = [response EXCEPT ![r] = passed] /\ passed.status = reply.status
      BY <1>7, <2>2, <2>4 DEF Return
    <3>2. DOMAIN response = Requests
      BY DEF WebTypes
    <3> QED
      BY <3>1, <3>2
  <2>6. StatusTells(r)
    BY <2>1 DEF Whereabouts
  <2>7. StatusTells(r)'
    BY <2>1, <2>3, <2>5, <2>6 DEF StatusTells, LetInBy, Limited
  <2> QED
    BY <2>1, <2>7 DEF Whereabouts
<1>8. CASE Reply(r)
  <2>1. phase'[r] = "idle" /\ verdicts'[r] = <<>>
    BY <1>8 DEF Reply, WebTypes
  <2> QED
    BY <2>1 DEF Whereabouts
<1> QED
  BY <1>3, <1>4, <1>5, <1>6, <1>7, <1>8 DEF StepOf

-----------------------------------------------------------------------------
(***************************************************************************)
(* Whose headers a reply carries.                                          *)
(***************************************************************************)

HeadersTell(r) ==
    /\ \A v \in ToSet(verdicts[r]) : Honest(v)
    /\ \A i \in Layers : kept[r][i] = NoResult \/ kept[r][i] \in ToSet(verdicts[r])
    /\ ReadFrom(early[r], verdicts[r]) /\ "Retry-After" \notin DOMAIN early[r]
    /\ phase[r] = "outbound" => /\ ReadFrom(response[r].headers, verdicts[r])
                               /\ Asks(response[r].headers, verdicts[r])

LEMMA HeadersAside ==
    ASSUME NEW q, Aside(q), HeadersTell(q)
    PROVE  HeadersTell(q)'
<1>1. Layers' = Layers
  BY DEF Aside, Layers
<1> QED
  BY <1>1 DEF Aside, HeadersTell

LEMMA HeadersKept ==
    ASSUME WebTypes, NEW r \in Requests, StepOf(r), HeadersTell(r)
    PROVE  HeadersTell(r)'
<1>1. /\ verdicts[r] \in Seq(Verdict) /\ kept[r] \in [Layers -> Verdict]
      /\ \A i \in Layers : Slot(i) \in Layers
      /\ Layers = 1 .. Len(stack) /\ Len(stack) \in Nat
  BY StackFacts DEF WebTypes
<1>2. DOMAIN NoHeaders = {} /\ NoResult.allowed = FALSE
  BY DEF NoHeaders, NoResult
<1>3. CASE Receive(r)
  <2>1. /\ UNCHANGED <<stack, kept, early, verdicts>> /\ Layers' = Layers
        /\ phase'[r] = "inbound"
    BY <1>3 DEF Receive, WebTypes, Layers
  <2> QED
    BY <2>1 DEF HeadersTell
<1>4. CASE Skip(r)
  <2>1. /\ UNCHANGED <<stack, kept, early, verdicts>> /\ Layers' = Layers
        /\ phase[r] = "inbound" /\ at[r] \in Layers /\ GoOn(r)
    BY <1>4 DEF Skip, WebTypes, Layers
  <2>2. phase'[r] # "outbound"
    BY <1>1, <2>1, GoneOn
  <2> QED
    BY <2>1, <2>2 DEF HeadersTell
<1>5. CASE Consult(r)
  <2>1. phase[r] = "inbound" /\ at[r] \in Layers
    BY <1>5 DEF Consult, WebTypes
  <2>2. PICK result : Consulted(r, result)
    BY <1>5, <2>1, ConsultFacts
  <2>3. PICK more : more = Append(verdicts[r], result)
    OBVIOUS
  <2>4. /\ Layers' = Layers /\ verdicts'[r] = more
        /\ result \in Verdict /\ Honest(result)
    BY <2>2, <2>3 DEF Consulted, WebTypes, Layers
  <2>5. /\ Last(more) = result /\ ToSet(more) = ToSet(verdicts[r]) \cup {result}
        /\ more # <<>>
    <3>1. /\ Last(more) = result /\ ToSet(more) = ToSet(verdicts[r]) \cup {result}
          /\ Len(more) = Len(verdicts[r]) + 1 /\ Len(verdicts[r]) \in Nat
      BY <1>1, <2>3, <2>4, AppendedTo
    <3> QED
      BY <3>1
  <2>6. \A v \in ToSet(more) : Honest(v)
    BY <2>4, <2>5 DEF HeadersTell
  <2>7. \A headers : ReadFrom(headers, verdicts[r]) => ReadFrom(headers, more)
    BY <2>5 DEF ReadFrom
  <2>8. CASE result.allowed
    <3>1. PICK slot \in Layers : slot = Slot(at[r])
      BY <1>1, <2>1
    <3>2. GoOn(r) /\ kept' = [kept EXCEPT ![r][slot] = result]
      BY <2>2, <2>8, <3>1 DEF Consulted, LetIn
    <3>3. kept'[r] = [kept[r] EXCEPT ![slot] = result]
      BY <3>2 DEF WebTypes
    <3>4. \A i \in Layers : kept'[r][i] = NoResult \/ kept'[r][i] \in ToSet(more)
      BY <1>1, <2>5, <3>3 DEF HeadersTell
    <3>5. phase'[r] # "outbound"
      BY <1>1, <2>1, <3>2, GoneOn
    <3>6. ReadFrom(early'[r], more) /\ "Retry-After" \notin DOMAIN early'[r]
      <4>1. PICK over : over = Over(from_result(result), early[r])
        OBVIOUS
      <4>2. \/ early'[r] = over
            \/ early'[r] = early[r]
        BY <2>2, <2>8, <4>1 DEF Consulted, LetIn, WebTypes
      <4>3. Reads(over, result) /\ "Retry-After" \notin DOMAIN over
        <5>1. "Retry-After" \notin DOMAIN early[r]
          BY DEF HeadersTell
        <5> QED
          BY <2>4, <2>8, <4>1, <5>1, QuotaHidden
      <4>4. ReadFrom(over, more)
        BY <2>5, <4>3 DEF ReadFrom
      <4> QED
        BY <2>7, <4>2, <4>3, <4>4 DEF HeadersTell
    <3> QED
      BY <2>4, <2>6, <3>4, <3>5, <3>6 DEF HeadersTell
  <2>9. CASE ~result.allowed
    <3>1. PICK reply : reply = Refusal(stack[at[r]], result)
      OBVIOUS
    <3>2. /\ response'[r] = reply /\ kept' = kept /\ early' = early
      BY <2>2, <2>9, <3>1 DEF Consulted, TurnAway, WebTypes
    <3>3. reply.headers = from_result(result)
      BY <2>4, <3>1, Refused
    <3>4. Reads(reply.headers, result)
      BY <3>3 DEF Reads
    <3>5. ReadFrom(reply.headers, more)
      BY <2>5, <3>4 DEF ReadFrom
    <3>6. Asks(reply.headers, more)
      BY <2>4, <2>5, <2>9, <3>3, HeadersOf DEF Asks, Waits
    <3>7. \A i \in Layers : kept'[r][i] = NoResult \/ kept'[r][i] \in ToSet(more)
      BY <2>5, <3>2 DEF HeadersTell
    <3>8. ReadFrom(early'[r], more) /\ "Retry-After" \notin DOMAIN early'[r]
      BY <2>7, <3>2 DEF HeadersTell
    <3> QED
      BY <2>4, <2>6, <3>2, <3>5, <3>6, <3>7, <3>8 DEF HeadersTell
  <2> QED
    BY <2>8, <2>9
<1>6. CASE View(r)
  <2>1. UNCHANGED <<stack, kept, early, verdicts>> /\ Layers' = Layers
    BY <1>6 DEF View, Layers
  <2>2. PICK status, headers :
            /\ response' = [response EXCEPT ![r] = [status |-> status, headers |-> headers]]
            /\ headers = early[r] \/ headers = NoHeaders
    BY <1>6 DEF View
  <2>3. response'[r].headers = headers
    BY <2>2 DEF WebTypes
  <2>4. ReadFrom(headers, verdicts[r]) /\ "Retry-After" \notin DOMAIN headers
    BY <1>2, <2>2 DEF HeadersTell, ReadFrom
  <2>5. ReadFrom(response'[r].headers, verdicts[r]) /\ Asks(response'[r].headers, verdicts[r])
    BY <2>3, <2>4 DEF Asks
  <2> QED
    BY <2>1, <2>5 DEF HeadersTell
<1>7. CASE Return(r)
  <2>1. /\ UNCHANGED <<stack, kept, early, verdicts, phase>> /\ Layers' = Layers
        /\ phase[r] = "outbound" /\ at[r] > 0
    BY <1>7 DEF Return, Layers
  <2>2. at[r] \in Layers
    BY <1>1, <2>1 DEF WebTypes
  <2>3. PICK reply : reply = Passed(stack[at[r]], response[r])
    OBVIOUS
  <2>4. reply = [status |-> reply.status, headers |-> response[r].headers]
    BY <2>3, PassedOn
  <2>5. PICK result \in Verdict : result = kept[r][Slot(at[r])]
    BY <1>1, <2>2
  <2>6. PICK over : over = Over(from_result(result), response[r].headers)
    OBVIOUS
  <2>7. with_headers(reply, result) = [status |-> reply.status, headers |-> over]
    BY <2>4, <2>6 DEF with_headers
  <2>8. PICK passed : /\ response' = [response EXCEPT ![r] = passed]
                      /\ \/ passed = reply
                         \/ result.allowed /\ passed = with_headers(reply, result)
    BY <1>7, <2>3, <2>5 DEF Return
  <2>9. response'[r] = passed
    BY <2>8 DEF WebTypes
  <2>10. ReadFrom(response[r].headers, verdicts[r]) /\ Asks(response[r].headers, verdicts[r])
    BY <2>1 DEF HeadersTell
  <2>11. CASE passed = reply
    <3>1. response'[r].headers = response[r].headers
      BY <2>4, <2>9, <2>11
    <3> QED
      BY <2>1, <2>10, <3>1 DEF HeadersTell
  <2>12. CASE result.allowed /\ passed = with_headers(reply, result)
    <3>1. response'[r].headers = over
      BY <2>7, <2>9, <2>12
    <3>2. result \in ToSet(verdicts[r])
      BY <1>1, <1>2, <2>2, <2>5, <2>12 DEF HeadersTell
    <3>3. Honest(result)
      BY <3>2 DEF HeadersTell
    <3>4. /\ Reads(over, result)
          /\ "Retry-After" \in DOMAIN over <=> "Retry-After" \in DOMAIN response[r].headers
          /\ "Retry-After" \in DOMAIN over =>
                 over["Retry-After"] = response[r].headers["Retry-After"]
      BY <2>5, <2>6, <2>12, <3>3, QuotaHidden
    <3>5. ReadFrom(over, verdicts[r])
      BY <3>2, <3>4 DEF ReadFrom
    <3>6. Asks(over, verdicts[r])
      BY <2>10, <3>4 DEF Asks, Waits
    <3> QED
      BY <2>1, <3>1, <3>5, <3>6 DEF HeadersTell
  <2> QED
    BY <2>8, <2>11, <2>12
<1>8. CASE Reply(r)
  <2>1. /\ phase'[r] = "idle" /\ verdicts'[r] = <<>> /\ early'[r] = NoHeaders
        /\ kept'[r] = [i \in Layers |-> NoResult] /\ Layers' = Layers
    BY <1>8 DEF Reply, WebTypes, Layers
  <2>2. ToSet(verdicts'[r]) = {}
    BY <2>1 DEF ToSet
  <2> QED
    BY <1>2, <2>1, <2>2 DEF HeadersTell, ReadFrom
<1> QED
  BY <1>3, <1>4, <1>5, <1>6, <1>7, <1>8 DEF StepOf

-----------------------------------------------------------------------------
(***************************************************************************)
(* What a client was told, and what becomes of it.                         *)
(***************************************************************************)

\* A layer that told its client to come back is going to admit it then.
ToldTrue(i) ==
    told[i] # Never => told[i] \in Int /\ Serves(stack[i].rule, entries[i], told[i])

\* So is one whose refusal is on its way, unless it has admitted others since.
Promised(v) ==
    /\ v.layer \in Layers /\ v.serial <= admitted[v.layer]
    /\ v.retry_after # Never =>
          /\ v.reset_at <= clock + v.retry_after * Second
          /\ v.serial = admitted[v.layer] =>
                 Serves(stack[v.layer].rule, entries[v.layer], v.reset_at)

PromisesKept ==
    /\ \A i \in Layers : ToldTrue(i)
    /\ \A r \in Requests : \A v \in ToSet(verdicts[r]) : Promised(v)

LEMMA OfVerdicts ==
    ASSUME WebTypes, NEW r \in Requests, NEW v \in ToSet(verdicts[r])
    PROVE  v \in Verdict
<1>1. verdicts[r] \in Seq(Verdict)
  BY DEF WebTypes
<1>2. PICK n \in DOMAIN verdicts[r] : v = verdicts[r][n]
  BY DEF ToSet
<1>3. n \in 1 .. Len(verdicts[r])
  BY <1>1, <1>2, LenProperties
<1> QED
  BY <1>1, <1>2, <1>3, ElementOfSeq

LEMMA NothingPromised ==
    ASSUME PromisesKept, UNCHANGED <<stack, entries, clock, verdicts, admitted, told>>
    PROVE  PromisesKept'
<1>1. Layers' = Layers
  BY DEF Layers
<1>2. \A i \in Layers : ToldTrue(i)'
  BY DEF PromisesKept, ToldTrue
<1>3. \A r \in Requests : \A v \in ToSet(verdicts[r]) : Promised(v)'
  BY <1>1 DEF PromisesKept, Promised
<1> QED
  BY <1>1, <1>2, <1>3 DEF PromisesKept

LEMMA PromisesStep ==
    ASSUME WebTypes, PromisesKept, \A r \in Requests : HeadersTell(r), [Next]_vars
    PROVE  PromisesKept'
<1>1. CASE UNCHANGED vars
  BY <1>1, NothingPromised DEF vars, requestVars
<1>2. CASE Finished
  BY <1>2, NothingPromised DEF Finished, vars, requestVars
<1>3. CASE Tick
  <2>1. /\ UNCHANGED <<stack, entries, verdicts, admitted, told>> /\ Layers' = Layers
        /\ clock' = clock + 1 /\ clock \in Nat
    BY <1>3 DEF Tick, requestVars, Layers, WebTypes
  <2>2. \A i \in Layers : ToldTrue(i)'
    BY <2>1 DEF PromisesKept, ToldTrue
  <2>3. ASSUME NEW r \in Requests, NEW v \in ToSet(verdicts[r])
        PROVE  Promised(v)'
    <3>1. Promised(v)
      BY DEF PromisesKept
    <3>2. v.retry_after \in Int /\ v.reset_at \in Int
      BY OfVerdicts DEF Verdict
    <3>3. PICK product \in Int : product = v.retry_after * Second
      BY <3>2, WebAssumption DEF Positive
    <3>4. v.retry_after # Never => v.reset_at <= clock + product
      BY <3>1, <3>3 DEF Promised
    <3>5. v.retry_after # Never => v.reset_at <= clock' + product
      BY <2>1, <3>2, <3>3, <3>4
    <3> QED
      BY <2>1, <3>1, <3>3, <3>5 DEF Promised
  <2> QED
    BY <2>1, <2>2, <2>3 DEF PromisesKept
<1>4. ASSUME NEW r \in Requests, Receive(r)
      PROVE  PromisesKept'
  BY <1>4, NothingPromised DEF Receive
<1>5. ASSUME NEW r \in Requests, Skip(r)
      PROVE  PromisesKept'
  BY <1>5, NothingPromised DEF Skip
<1>6. ASSUME NEW r \in Requests, Consult(r)
      PROVE  PromisesKept'
  <2>1. phase[r] = "inbound" /\ at[r] \in Layers
    BY <1>6 DEF Consult, WebTypes
  <2>2. PICK result : Consulted(r, result)
    BY <1>6, <2>1, ConsultFacts
  <2>3. PICK i \in Layers : i = at[r]
    BY <2>1
  <2>4. /\ UNCHANGED <<stack, clock>> /\ Layers' = Layers
        /\ result \in Verdict /\ Honest(result)
        /\ result.layer = i /\ result.serial = admitted[i]
        /\ verdicts' = [verdicts EXCEPT ![r] = Append(verdicts[r], result)]
    BY <2>2, <2>3 DEF Consulted, Layers
  <2>5. admitted \in [Layers -> Nat] /\ DOMAIN told = Layers
    BY DEF WebTypes
  <2>6. ASSUME NEW q \in Requests, NEW v \in ToSet(verdicts'[q])
        PROVE  v \in ToSet(verdicts[q]) \/ v = result
    <3>1. verdicts \in [Requests -> Seq(Verdict)]
      BY DEF WebTypes
    <3>2. ToSet(Append(verdicts[r], result)) = ToSet(verdicts[r]) \cup {result}
      BY <2>4, <3>1, AppendedTo
    <3>3. verdicts'[q] = IF q = r THEN Append(verdicts[r], result) ELSE verdicts[q]
      BY <2>4, <3>1
    <3> QED
      BY <2>6, <3>2, <3>3
  <2>7. CASE result.allowed
    <3>1. /\ admitted' = [admitted EXCEPT ![i] = @ + 1]
          /\ told' = [told EXCEPT ![i] = Never]
      BY <2>2, <2>3, <2>7 DEF Consulted, LetIn
    <3>2. \A j \in Layers : j # i => entries'[j] = entries[j]
      BY <2>2, <2>3 DEF Consulted, WebTypes
    <3>3. \A j \in Layers : ToldTrue(j)'
      BY <2>4, <2>5, <3>1, <3>2 DEF PromisesKept, ToldTrue
    <3>5. ASSUME NEW q \in Requests, NEW v \in ToSet(verdicts[q])
          PROVE  Promised(v)'
      <4>1. Promised(v) /\ v.layer \in Layers /\ v.serial \in Nat
        BY OfVerdicts DEF PromisesKept, Promised, Verdict
      <4>2. CASE v.layer = i
        <5>1. v.serial <= admitted'[i] /\ v.serial # admitted'[i]
          <6>1. PICK before \in Nat : before = admitted[i] /\ admitted'[i] = before + 1
            BY <2>5, <3>1
          <6>2. v.serial <= before
            BY <4>1, <4>2, <6>1 DEF Promised
          <6> QED
            BY <4>1, <6>1, <6>2
        <5> QED
          BY <2>4, <4>1, <4>2, <5>1 DEF Promised
      <4>3. CASE v.layer # i
        <5>1. admitted'[v.layer] = admitted[v.layer] /\ entries'[v.layer] = entries[v.layer]
          BY <2>5, <3>1, <3>2, <4>1, <4>3
        <5> QED
          BY <2>4, <4>1, <5>1 DEF Promised
      <4> QED
        BY <4>2, <4>3
    <3>6. Promised(result)'
      <4>1. result.retry_after = Never
        BY <2>4, <2>7 DEF Honest
      <4>2. admitted[i] <= admitted'[i]
        BY <2>5, <3>1
      <4> QED
        BY <2>4, <4>1, <4>2 DEF Promised
    <3> QED
      BY <2>4, <2>6, <3>3, <3>5, <3>6 DEF PromisesKept
  <2>8. CASE ~result.allowed
    <3>1. UNCHANGED <<entries, admitted, told>>
      BY <2>2, <2>8 DEF Consulted, TurnAway
    <3>2. \A j \in Layers : ToldTrue(j)'
      BY <2>4, <3>1 DEF PromisesKept, ToldTrue
    <3>3. \A q \in Requests : \A v \in ToSet(verdicts[q]) : Promised(v)'
      BY <2>4, <3>1 DEF PromisesKept, Promised
    <3>4. Promised(result)'
      <4>1. result.retry_after # Never =>
                /\ result.reset_at <= clock + result.retry_after * Second
                /\ Serves(stack[i].rule, entries[i], result.reset_at)
        BY <2>2, <2>3, <2>8 DEF Consulted
      <4>2. admitted[i] <= admitted[i]
        BY <2>5
      <4> QED
        BY <2>4, <3>1, <4>1, <4>2 DEF Promised
    <3> QED
      BY <2>4, <2>6, <3>2, <3>3, <3>4 DEF PromisesKept
  <2> QED
    BY <2>7, <2>8
<1>7. ASSUME NEW r \in Requests, View(r)
      PROVE  PromisesKept'
  BY <1>7, NothingPromised DEF View
<1>8. ASSUME NEW r \in Requests, Return(r)
      PROVE  PromisesKept'
  BY <1>8, NothingPromised DEF Return
<1>9. ASSUME NEW r \in Requests, Reply(r)
      PROVE  PromisesKept'
  <2>1. /\ UNCHANGED <<stack, entries, clock, admitted>> /\ Layers' = Layers
        /\ verdicts' = [verdicts EXCEPT ![r] = <<>>] /\ phase[r] = "outbound"
    BY <1>9 DEF Reply, Layers
  <2>2. ASSUME NEW q \in Requests, NEW v \in ToSet(verdicts'[q])
        PROVE  v \in ToSet(verdicts[q])
    <3>1. verdicts'[q] = IF q = r THEN <<>> ELSE verdicts[q]
      BY <2>1 DEF WebTypes
    <3> QED
      BY <2>2, <3>1 DEF ToSet
  <2>3. \A q \in Requests : \A v \in ToSet(verdicts'[q]) : Promised(v)'
    BY <2>1, <2>2 DEF PromisesKept, Promised
  <2>4. \A i \in Layers : ToldTrue(i)'
    <3>1. CASE "Retry-After" \notin DOMAIN response[r].headers
      <4>1. told' = told
        BY <1>9, <3>1 DEF Reply
      <4> QED
        BY <2>1, <4>1 DEF PromisesKept, ToldTrue
    <3>2. CASE "Retry-After" \in DOMAIN response[r].headers
      <4>1. PICK refusal : refusal = Last(verdicts[r])
        OBVIOUS
      <4>2. /\ verdicts[r] # <<>> /\ refusal.retry_after # Never
            /\ response[r].headers["Retry-After"] = refusal.retry_after
        BY <2>1, <3>2, <4>1 DEF HeadersTell, Asks, Waits
      <4>3. refusal \in ToSet(verdicts[r])
        <5>1. verdicts[r] \in Seq(Verdict)
          BY DEF WebTypes
        <5>2. Len(verdicts[r]) \in DOMAIN verdicts[r]
          BY <4>2, <5>1, EmptySeq, LenProperties
        <5> QED
          BY <4>1, <5>2 DEF ToSet, Last
      <4>4. Promised(refusal) /\ refusal \in Verdict
        BY <4>3, OfVerdicts DEF PromisesKept
      <4>5. PICK product \in Int : product = refusal.retry_after * Second
        BY <4>4, WebAssumption DEF Verdict, Positive
      <4>6. told' = [told EXCEPT ![refusal.layer] =
                         IF refusal.serial = admitted[refusal.layer]
                         THEN clock + product ELSE @]
        BY <1>9, <3>2, <4>1, <4>2, <4>5 DEF Reply
      <4>7. ASSUME NEW i \in Layers
            PROVE  ToldTrue(i)'
        <5>1. CASE i = refusal.layer /\ refusal.serial = admitted[refusal.layer]
          <6>1. told'[i] = clock + product /\ clock + product \in Int
            BY <4>5, <4>6, <5>1 DEF WebTypes
          <6>2. /\ refusal.reset_at <= clock + product /\ refusal.reset_at \in Int
                /\ Serves(stack[i].rule, entries[i], refusal.reset_at)
            BY <4>2, <4>4, <4>5, <5>1 DEF Promised, Verdict
          <6>3. \A stamp \in Int : clock + product <= stamp => refusal.reset_at <= stamp
            BY <6>1, <6>2
          <6>4. Serves(stack[i].rule, entries[i], clock + product)
            BY <6>2, <6>3 DEF Serves
          <6> QED
            BY <2>1, <6>1, <6>4 DEF ToldTrue
        <5>2. CASE ~(i = refusal.layer /\ refusal.serial = admitted[refusal.layer])
          <6>1. told'[i] = told[i]
            BY <4>6, <5>2 DEF WebTypes
          <6> QED
            BY <2>1, <6>1 DEF PromisesKept, ToldTrue
        <5> QED
          BY <5>1, <5>2
      <4> QED
        BY <4>7
    <3> QED
      BY <3>1, <3>2
  <2> QED
    BY <2>1, <2>3, <2>4 DEF PromisesKept
<1> QED
  BY <1>1, <1>2, <1>3, <1>4, <1>5, <1>6, <1>7, <1>8, <1>9 DEF Next

-----------------------------------------------------------------------------
(***************************************************************************)
(* The invariant, and the properties.                                      *)
(***************************************************************************)

WebInvariant ==
    /\ WebTypes
    /\ \A r \in Requests : Whereabouts(r)
    /\ \A r \in Requests : HeadersTell(r)
    /\ PromisesKept

LEMMA InvariantInitially ==
    ASSUME Init
    PROVE  WebInvariant
<1>1. WebTypes
  BY TypesInitially
<1>2. \A r \in Requests : /\ phase[r] = "idle" /\ verdicts[r] = <<>> /\ early[r] = NoHeaders
                         /\ \A i \in Layers : kept[r][i] = NoResult
  BY DEF Init
<1>3. DOMAIN NoHeaders = {} /\ ToSet(<<>>) = {}
  BY DEF NoHeaders, ToSet
<1>4. \A r \in Requests : Whereabouts(r)
  BY <1>2 DEF Whereabouts
<1>5. \A r \in Requests : HeadersTell(r)
  BY <1>2, <1>3 DEF HeadersTell, ReadFrom
<1>6. \A i \in Layers : told[i] = Never
  BY DEF Init
<1>7. PromisesKept
  BY <1>2, <1>3, <1>6 DEF PromisesKept, ToldTrue
<1> QED
  BY <1>1, <1>4, <1>5, <1>7 DEF WebInvariant

LEMMA InvariantKept ==
    ASSUME WebInvariant, [Next]_vars
    PROVE  WebInvariant'
<1>1. WebTypes' /\ PromisesKept'
  BY TypesKept, PromisesStep DEF WebInvariant
<1>2. WebTypes
  BY DEF WebInvariant
<1>3. ASSUME NEW r \in Requests
      PROVE  Whereabouts(r)' /\ HeadersTell(r)'
  <2>1. Whereabouts(r) /\ HeadersTell(r)
    BY DEF WebInvariant
  <2>2. CASE Aside(r)
    BY <2>1, <2>2, WhereaboutsAside, HeadersAside
  <2>3. CASE UNCHANGED vars \/ Tick \/ Finished
    <3>1. Aside(r)
      BY <2>3 DEF Tick, Finished, vars, requestVars, Aside
    <3> QED
      BY <2>2, <3>1
  <2>4. ASSUME NEW q \in Requests, StepOf(q)
        PROVE  Whereabouts(r)' /\ HeadersTell(r)'
    <3>1. CASE q = r
      BY <1>2, <2>1, <2>4, <3>1, WhereaboutsKept, HeadersKept
    <3>2. CASE q # r
      BY <1>2, <2>2, <2>4, <3>2, OthersAside
    <3> QED
      BY <3>1, <3>2
  <2>5. UNCHANGED vars \/ Tick \/ Finished \/ \E q \in Requests : StepOf(q)
    BY DEF Next, StepOf
  <2> QED
    BY <2>3, <2>4, <2>5
<1> QED
  BY <1>1, <1>3 DEF WebInvariant

\* The invariant is one of every reachable state.
LEMMA InvariantHolds == Spec => []WebInvariant
<1>1. Init => WebInvariant
  BY InvariantInitially
<1>2. WebInvariant /\ [Next]_vars => WebInvariant'
  BY InvariantKept
<1> QED
  BY <1>1, <1>2, PTL DEF Spec

\* The status of an answer tells why, in stacks of any layers: whatever the layers that
\* the reply passes do to it (Refusal, with_headers and Passed of flask/middleware.py,
\* django/middleware.py, fastapi/middleware.py and the decorators), 503 is a storage
\* that failed closed, 429 and on_limit's reply are a quota, and anything else was let
\* in by every layer that asks about its path.
THEOREM StatusTellsWhyHolds == Spec => []StatusTellsWhy
<1>1. WebInvariant => StatusTellsWhy
  <2> SUFFICES ASSUME WebInvariant, NEW r \in Requests, Answered(r)
               PROVE  CASE response[r].status = "503" -> storage_unavailable(Last(verdicts[r]))
                        [] response[r].status \in {"429", "custom"} ->
                              /\ ~Last(verdicts[r]).allowed
                              /\ ~storage_unavailable(Last(verdicts[r]))
                        [] OTHER -> /\ \A v \in ToSet(verdicts[r]) : v.allowed
                                    /\ Len(verdicts[r]) = Cardinality({j \in Layers :
                                          ~(/\ path[r] = "excluded"
                                            /\ stack[j].kind = "fastapi_middleware")})
    BY DEF StatusTellsWhy
  <2>1. StatusTells(r)
    BY DEF WebInvariant, Whereabouts, Answered
  <2>2. Layers = 1 .. Len(stack)
    BY StackFacts DEF WebInvariant, WebTypes
  <2>3. Limited(r, Len(stack)) =
            {j \in Layers : ~(path[r] = "excluded" /\ stack[j].kind = "fastapi_middleware")}
    BY <2>2 DEF Limited
  <2>4. CASE response[r].status = "503"
    BY <2>1, <2>4 DEF StatusTells
  <2>5. CASE response[r].status \in {"429", "custom"}
    BY <2>1, <2>5 DEF StatusTells
  <2>6. CASE response[r].status \notin {"503", "429", "custom"}
    BY <2>1, <2>3, <2>6 DEF StatusTells, LetInBy
  <2> QED
    BY <2>4, <2>5, <2>6
<1> QED
  BY <1>1, InvariantHolds, PTL

\* The limit, the remaining quota and the reset time that a client reads are those of
\* one check of its own request, whichever layers have overwritten which headers.
THEOREM OneLayersQuotaHolds == Spec => []OneLayersQuota
<1>1. WebInvariant => OneLayersQuota
  BY DEF WebInvariant, HeadersTell, Answered, OneLayersQuota, ReadFrom, Reads, Quota
<1> QED
  BY <1>1, InvariantHolds, PTL

\* A client that waits as long as Retry-After says, while nobody else is admitted by the
\* layer that refused it, is not refused there again: RateLimitHeaders rounds the time
\* up to seconds, outer layers do not overwrite it, and each operation admits from the
\* reset_at of its denial on.
THEOREM RetryAfterSufficesHolds == Spec => RetryAfterSuffices
<1> DEFINE Suffices(r) ==
        /\ Len(verdicts'[r]) > Len(verdicts[r])
        /\ ~Last(verdicts'[r]).allowed /\ ~storage_unavailable(Last(verdicts'[r]))
        => told[at[r]] = Never \/ clock < told[at[r]]
<1>1. WebInvariant /\ [Next]_vars => [\A r \in Requests : Suffices(r)]_vars
  <2> SUFFICES ASSUME WebInvariant, Next, NEW r \in Requests,
                      Len(verdicts'[r]) > Len(verdicts[r]),
                      ~Last(verdicts'[r]).allowed, ~storage_unavailable(Last(verdicts'[r])),
                      told[at[r]] # Never
               PROVE  clock < told[at[r]]
    OBVIOUS
  <2>1. WebTypes /\ PromisesKept /\ verdicts[r] \in Seq(Verdict) /\ clock \in Int
    BY DEF WebInvariant, WebTypes
  <2>2. Len(verdicts[r]) \in Nat /\ verdicts'[r] # verdicts[r] /\ verdicts'[r] # <<>>
    BY <2>1
  <2>3. Consult(r)
    <3>1. ~Aside(r)
      BY <2>2 DEF Aside
    <3>2. \E q \in Requests : StepOf(q)
      BY <2>2 DEF Next, StepOf, Tick, Finished, vars, requestVars
    <3>3. StepOf(r)
      BY <2>1, <3>1, <3>2, OthersAside
    <3>4. ~Reply(r)
      BY <2>1, <2>2 DEF Reply, WebTypes
    <3> QED
      BY <2>2, <3>3, <3>4 DEF StepOf, Receive, Skip, View, Return
  <2>4. at[r] \in Layers
    BY <2>1, <2>3 DEF Consult, WebTypes
  <2>5. PICK result : Consulted(r, result)
    BY <2>1, <2>3, <2>4, ConsultFacts
  <2>6. Last(verdicts'[r]) = result
    <3>1. verdicts'[r] = Append(verdicts[r], result) /\ result \in Verdict
      BY <2>1, <2>5 DEF Consulted, WebTypes
    <3> QED
      BY <2>1, <3>1, AppendedTo
  <2>7. ~Decide(stack[at[r]].rule, entries[at[r]], clock).allowed
    BY <2>5, <2>6 DEF Consulted, storage_unavailable
  <2>8. /\ told[at[r]] \in Int
        /\ Serves(stack[at[r]].rule, entries[at[r]], told[at[r]])
    BY <2>1, <2>4 DEF PromisesKept, ToldTrue
  <2>9. ~(told[at[r]] <= clock)
    BY <2>1, <2>7, <2>8 DEF Serves
  <2> QED
    BY <2>1, <2>8, <2>9
<1>2. Spec => [][\A r \in Requests : Suffices(r)]_vars
  BY <1>1, InvariantHolds, PTL DEF Spec
<1> QED
  BY <1>2 DEF RetryAfterSuffices
=============================================================================
