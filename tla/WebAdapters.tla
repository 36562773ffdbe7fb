----------------------------- MODULE WebAdapters -----------------------------
(***************************************************************************)
(* adapters/flask, adapters/django and adapters/fastapi, with              *)
(* RateLimitHeaders of core/models.py: HTTP requests of one client that    *)
(* pass, on their way to the view and back, a stack of rate limiters.      *)
(* Every layer of the stack checks a rule of its own on a storage of its   *)
(* own, and writes its headers on the reply when it passes there.          *)
(*                                                                         *)
(*   idle      Receive                a request arrives                    *)
(*   inbound   Consult, Skip          limiter.check of the layer at[r]     *)
(*   view      View                   the view function                    *)
(*   outbound  Return                 the layer at[r] passes the reply on  *)
(*             Reply                  the client has it                    *)
(*                                                                         *)
(* What a framework does between two layers is modelled as the adapters    *)
(* rely on it: decorators, Django's and FastAPI's middleware call the next *)
(* layer; Flask runs all before_request functions, then the view, then all *)
(* after_request functions, also when a before_request function replied;   *)
(* FastAPI puts the headers that its dependencies set on the reply of a    *)
(* view that returned.                                                     *)
(***************************************************************************)
EXTENDS StorageOps, SequencesExt

CONSTANTS
    Requests,    \* requests in flight
    Stacks,      \* stacks of layers, the outermost first
    Second,      \* ticks in a second
    MaxTime,     \* bound: the last tick
    MaxReceived, \* bound: requests that arrive
    MaxOutages   \* bound: checks that find the storage unavailable

Kinds == {"flask_middleware", "flask_decorator", "django_middleware", "django_decorator",
          "fastapi_middleware", "fastapi_dependency"}

\* on_limit: the callback of the decorators, which may return None ("declines").
\* fail_open: what the layer's storage does while Redis is down.
Layer == [kind : Kinds, rule : LimitRule, on_limit : {"absent", "declines", "responds"},
          fail_open : BOOLEAN]

ASSUME WebAssumption ==
    /\ Stacks \subseteq Seq(Layer) \ {<<>>}
    /\ Second \in Positive /\ {MaxTime, MaxReceived, MaxOutages} \subseteq Nat

VARIABLES
    stack,    \* the layers of the application, fixed at first
    entries,  \* entries[i]: the client's entry in the storage of layer i
    clock,    \* time.time(), in ticks
    phase, at,\* of each request: where it is
    path,     \* path[r]: "limited", or one of the exclude_paths
    kept,     \* kept[r][i]: the result that layer i holds for the way back
    early,    \* early[r]: headers on FastAPI's `response' parameter
    response, \* response[r]: the reply on its way back
    received, outages,
    \* History, read by the properties only:
    verdicts, \* verdicts[r]: the results of r's checks, in order
    admitted, \* admitted[i]: how many checks of layer i were allowed
    told      \* told[i]: the tick at which the client may retry, as a reply said

requestVars == <<phase, at, path, kept, early, response, verdicts>>
vars == <<stack, entries, clock, requestVars, received, outages, admitted, told>>

Layers == DOMAIN stack

\* float("inf") and None: a time that is not known.
Never == -1

NoHeaders == [n \in {} |-> 0]
NoReply   == [status |-> "none", headers |-> NoHeaders]
NoResult  == [allowed |-> FALSE, remaining |-> 0, reset_at |-> Never, limit |-> 0,
              retry_after |-> Never, layer |-> 0, serial |-> 0]

Init ==
    /\ stack \in Stacks
    /\ entries = [i \in Layers |-> <<>>]
    /\ clock = 0
    /\ phase = [r \in Requests |-> "idle"]
    /\ at = [r \in Requests |-> 0]
    /\ path = [r \in Requests |-> "limited"]
    /\ kept = [r \in Requests |-> [i \in Layers |-> NoResult]]
    /\ early = [r \in Requests |-> NoHeaders]
    /\ response = [r \in Requests |-> NoReply]
    /\ received = 0
    /\ outages = 0
    /\ verdicts = [r \in Requests |-> <<>>]
    /\ admitted = [i \in Layers |-> 0]
    /\ told = [i \in Layers |-> Never]

-----------------------------------------------------------------------------
\* math.ceil of a number of seconds
Ceil(ticks) == (ticks + Second - 1) \div Second

LimitOf(limit_rule) ==
    IF limit_rule \in WindowRule THEN limit_rule.limit ELSE limit_rule.capacity

\* The RateLimitResult that limiter.check builds from the storage's reply (`layer',
\* which asked, and `serial', the number of its earlier admissions, are history).
Checked(i, outcome) ==
    [allowed |-> outcome.allowed, remaining |-> outcome.remaining,
     reset_at |-> outcome.reset_at, limit |-> LimitOf(stack[i].rule),
     retry_after |-> IF outcome.allowed THEN Never
                     ELSE Ceil(AtLeastZero(outcome.reset_at - clock)),
     layer |-> i, serial |-> admitted[i]]

\* The same, when the storage could not ask Redis and has no fallback.
Unasked(i) ==
    LET result == [NoResult EXCEPT !.limit = LimitOf(stack[i].rule),
                                   !.layer = i, !.serial = admitted[i]]
    IN  IF stack[i].fail_open
        THEN [result EXCEPT !.allowed = TRUE, !.remaining = 9999,
                            !.reset_at = clock + 3600 * Second]
        ELSE result

storage_unavailable(result) == ~result.allowed /\ result.reset_at = Never

\* retry_after computed for every result that has none.
from_result_mutant(result) ==
    LET known == {"Limit", "Remaining"}
                     \cup (IF result.reset_at = Never THEN {} ELSE {"Reset", "Retry-After"})
    IN  [n \in known |->
            CASE n = "Limit"     -> result.limit
              [] n = "Remaining" -> result.remaining
              [] n = "Reset"     -> result.reset_at \div Second
              [] OTHER           -> Ceil(AtLeastZero(result.reset_at - clock))]

\* RateLimitHeaders.from_result(result).to_dict(): reset is truncated to a second and
\* retry_after is rounded up; one that is not known is left out.
from_result(result) ==
    LET known == {"Limit", "Remaining"}
                     \cup (IF result.reset_at = Never THEN {} ELSE {"Reset"})
                     \cup (IF result.retry_after = Never THEN {} ELSE {"Retry-After"})
    IN  [n \in known |->
            CASE n = "Limit"     -> result.limit
              [] n = "Remaining" -> result.remaining
              [] n = "Reset"     -> result.reset_at \div Second
              [] OTHER           -> result.retry_after]

\* headers[name] = value for each of the new headers: the others stay.
Over(new, old) ==
    [n \in DOMAIN new \cup DOMAIN old |-> IF n \in DOMAIN new THEN new[n] ELSE old[n]]

\* Headers that are there already are kept.
with_headers_mutant(reply, result) ==
    [reply EXCEPT !.headers = Over(reply.headers, from_result(result))]

\* The headers of a result are written on a reply.
with_headers(reply, result) ==
    [reply EXCEPT !.headers = Over(from_result(result), reply.headers)]

\* on_limit asked before storage_unavailable.
Refusal_mutant(layer, result) ==
    LET status == IF layer.on_limit = "responds" THEN "custom"
                  ELSE IF storage_unavailable(result) THEN "503" ELSE "429"
    IN  with_headers([NoReply EXCEPT !.status = status], result)

\* The reply of a layer whose check refused the request.
Refusal(layer, result) ==
    LET status == IF storage_unavailable(result) THEN "503"
                  ELSE IF layer.on_limit = "responds" THEN "custom" ELSE "429"
    IN  with_headers([NoReply EXCEPT !.status = status], result)

-----------------------------------------------------------------------------
\* Only FastAPI's middleware looks at the path.
Paths == IF \E i \in Layers : stack[i].kind = "fastapi_middleware"
         THEN {"limited", "excluded"} ELSE {"limited"}

Receive(r) ==
    /\ phase[r] = "idle" /\ received < MaxReceived
    /\ received' = received + 1
    /\ phase' = [phase EXCEPT ![r] = "inbound"]
    /\ at' = [at EXCEPT ![r] = 1]
    /\ \E p \in Paths : path' = [path EXCEPT ![r] = p]
    /\ UNCHANGED <<stack, entries, clock, kept, early, response, outages, verdicts,
                   admitted, told>>

\* The request goes on to the next layer, or to the view behind the last one.
GoOn(r) ==
    IF at[r] < Len(stack)
    THEN at' = [at EXCEPT ![r] = at[r] + 1] /\ UNCHANGED phase
    ELSE phase' = [phase EXCEPT ![r] = "view"] /\ UNCHANGED at

\* exclude_paths of FastAPI's middleware.
Excluded(r) == path[r] = "excluded" /\ stack[at[r]].kind = "fastapi_middleware"

Skip(r) ==
    /\ phase[r] = "inbound" /\ Excluded(r)
    /\ GoOn(r)
    /\ UNCHANGED <<stack, entries, clock, path, kept, early, response, received, outages,
                   verdicts, admitted, told>>

\* Where a layer keeps its result: in a local variable, but Flask's middleware in
\* request.environ["_rate_limit_result"], which is one for the whole application.
Slot(i) == IF stack[i].kind = "flask_middleware" THEN 1 ELSE i

\* The last layer that sees the reply of layer i: the one before it, or, in Flask,
\* the last of the application's after_request functions.
BackFrom(i) ==
    IF stack[i].kind = "flask_middleware"
    THEN Cardinality({j \in Layers : stack[j].kind = "flask_middleware"})
    ELSE i - 1

\* A check that was allowed: the result waits for the way back, or is put on the
\* `response' parameter at once.
LetIn(r, result) ==
    LET i == at[r]
    IN  /\ GoOn(r)
        /\ kept' = [kept EXCEPT ![r][Slot(i)] = result]
        /\ early' = [early EXCEPT ![r] =
               IF stack[i].kind = "fastapi_dependency" THEN Over(from_result(result), @) ELSE @]
        /\ admitted' = [admitted EXCEPT ![i] = @ + 1]
        /\ told' = [told EXCEPT ![i] = Never]
        /\ UNCHANGED response

\* A check that was refused: the reply takes the request's place.
TurnAway(r, result) ==
    LET i == at[r]
    IN  /\ response' = [response EXCEPT ![r] = Refusal(stack[i], result)]
        /\ phase' = [phase EXCEPT ![r] = "outbound"]
        /\ at' = [at EXCEPT ![r] = BackFrom(i)]
        /\ UNCHANGED <<kept, early, admitted, told>>

Consult(r) ==
    LET i       == at[r]
        outcome == Decide(stack[i].rule, entries[i], clock)
    IN  /\ phase[r] = "inbound" /\ ~Excluded(r)
        /\ \E result \in {Checked(i, outcome), Unasked(i)} :
              /\ IF result = Unasked(i)
                 THEN outages < MaxOutages /\ outages' = outages + 1 /\ UNCHANGED entries
                 ELSE entries' = [entries EXCEPT ![i] = outcome.entry] /\ UNCHANGED outages
              /\ IF result.allowed THEN LetIn(r, result) ELSE TurnAway(r, result)
              /\ verdicts' = [verdicts EXCEPT ![r] = Append(@, result)]
        /\ UNCHANGED <<stack, clock, path, received>>

\* The view returns, with the headers of the dependencies, or raises an exception.
View(r) ==
    /\ phase[r] = "view"
    /\ phase' = [phase EXCEPT ![r] = "outbound"]
    /\ \E status \in {"200", "raised"} :
          response' = [response EXCEPT ![r] =
              [status |-> status,
               headers |-> IF status = "200" THEN early[r] ELSE NoHeaders]]
    /\ UNCHANGED <<stack, entries, clock, at, path, kept, early, received, outages,
                   verdicts, admitted, told>>

\* The reply that a layer gets from the one behind it: Flask and Django have turned
\* an exception into a 500 before their middleware sees it.
Passed(layer, reply) ==
    IF reply.status = "raised" /\ layer.kind \in {"flask_middleware", "django_middleware"}
    THEN [reply EXCEPT !.status = "500"]
    ELSE reply

\* A layer that has a result adds its headers to the reply and passes it on.
Return(r) ==
    LET i     == at[r]
        reply == Passed(stack[i], response[r])
    IN  /\ phase[r] = "outbound" /\ i > 0
        /\ response' = [response EXCEPT ![r] =
               IF /\ kept[r][Slot(i)].allowed /\ reply.status # "raised"
                  /\ stack[i].kind # "fastapi_dependency"
               THEN with_headers(reply, kept[r][Slot(i)])
               ELSE reply]
        /\ at' = [at EXCEPT ![r] = i - 1]
        /\ UNCHANGED <<stack, entries, clock, phase, path, kept, early, received, outages,
                       verdicts, admitted, told>>

\* The client has its reply.  What it is told to wait is remembered if nobody has
\* been admitted by the layer that refused it in the meantime.
Reply(r) ==
    /\ phase[r] = "outbound" /\ at[r] = 0
    /\ told' = IF "Retry-After" \in DOMAIN response[r].headers
               THEN LET refusal == Last(verdicts[r])
                    IN  [told EXCEPT ![refusal.layer] =
                            IF refusal.serial = admitted[refusal.layer]
                            THEN clock + response[r].headers["Retry-After"] * Second ELSE @]
               ELSE told
    /\ phase' = [phase EXCEPT ![r] = "idle"]
    /\ path' = [path EXCEPT ![r] = "limited"]
    /\ kept' = [kept EXCEPT ![r] = [i \in Layers |-> NoResult]]
    /\ early' = [early EXCEPT ![r] = NoHeaders]
    /\ response' = [response EXCEPT ![r] = NoReply]
    /\ verdicts' = [verdicts EXCEPT ![r] = <<>>]
    /\ UNCHANGED <<stack, entries, clock, at, received, outages, admitted>>

\* The clock is taken as monotone: it is the watch of the clients that wait, too.
Tick ==
    /\ clock < MaxTime
    /\ clock' = clock + 1
    /\ UNCHANGED <<stack, entries, requestVars, received, outages, admitted, told>>

\* No request is left to come.
Finished ==
    /\ received = MaxReceived /\ \A r \in Requests : phase[r] = "idle"
    /\ UNCHANGED vars

Next ==
    \/ Tick \/ Finished
    \/ \E r \in Requests : Receive(r) \/ Skip(r) \/ Consult(r) \/ View(r) \/ Return(r) \/ Reply(r)

Spec == Init /\ [][Next]_vars

-----------------------------------------------------------------------------
\* A request that its client is about to have answered.
Answered(r) == phase[r] = "outbound" /\ at[r] = 0

\* The status tells why, whatever layers the reply has passed since: 503 for a
\* fail-closed storage only, 429 or on_limit's reply for a quota only, and the view's
\* own reply if and only if every layer on the path has admitted this very request.
StatusTellsWhy ==
    \A r \in Requests : Answered(r) =>
        LET results == verdicts[r]
            status  == response[r].status
        IN  CASE status = "503" -> storage_unavailable(Last(results))
              [] status \in {"429", "custom"} ->
                    ~Last(results).allowed /\ ~storage_unavailable(Last(results))
              [] OTHER -> /\ \A v \in ToSet(results) : v.allowed
                          /\ Len(results) = Cardinality({j \in Layers :
                                 ~(path[r] = "excluded" /\ stack[j].kind = "fastapi_middleware")})

\* Layers overwrite each other's headers, never in part: the limit, the remaining
\* quota and the reset time that a client reads are those of one check of its own
\* request, all three, and a reset time is left out only where that check had none.
OneLayersQuota ==
    \A r \in Requests : Answered(r) =>
        LET headers == response[r].headers
            quota   == {"Limit", "Remaining", "Reset"}
        IN  DOMAIN headers = {} \/ \E v \in ToSet(verdicts[r]) :
                /\ quota \cap DOMAIN headers = quota \cap DOMAIN from_result(v)
                /\ \A n \in quota \cap DOMAIN headers : headers[n] = from_result(v)[n]

\* Retry-After, in whole seconds and on a reply that outer layers have written their
\* headers on, is long enough for the layer that refused: a client that waits for it,
\* while nobody else is admitted, is not refused there again.
RetryAfterSuffices ==
    [][\A r \in Requests :
           /\ Len(verdicts'[r]) > Len(verdicts[r])
           /\ ~Last(verdicts'[r]).allowed /\ ~storage_unavailable(Last(verdicts'[r]))
           => told[at[r]] = Never \/ clock < told[at[r]]]_vars
=============================================================================
