---------------------------- MODULE MCWebAdapters ----------------------------
(***************************************************************************)
(* WebAdapters on stacks of two layers of each framework, a wide rule      *)
(* outside a strict one and the other way round.                           *)
(***************************************************************************)
EXTENDS WebAdapters

CONSTANTS r1, r2   \* requests

\* With a second of two ticks: a request every second and a half, and two in a second.
\* Reset times fall between two whole seconds.
Slow   == [algorithm |-> "gcra", capacity |-> 1, interval |-> 3]
Double == [algorithm |-> "sliding_window", limit |-> 2, window |-> 2]

Plain(kind, limit_rule) ==
    [kind |-> kind, rule |-> limit_rule, on_limit |-> "absent", fail_open |-> FALSE]
Calls(callback, layer) == [layer EXCEPT !.on_limit = callback]
Open(layer) == [layer EXCEPT !.fail_open = TRUE]

SmallStacks ==
    {<<Plain("flask_middleware", Double), Plain("flask_middleware", Slow)>>,
     <<Plain("flask_middleware", Double), Calls("responds", Plain("flask_decorator", Slow))>>,
     <<Plain("django_middleware", Slow), Calls("declines", Plain("django_decorator", Double))>>,
     <<Open(Plain("django_decorator", Double)), Calls("responds", Plain("django_decorator", Slow))>>,
     <<Plain("fastapi_middleware", Double), Plain("fastapi_dependency", Slow)>>,
     <<Plain("fastapi_dependency", Slow), Open(Plain("fastapi_dependency", Double))>>}

\* The requests differ in nothing but their names.
Symmetry == Permutations(Requests)
=============================================================================
