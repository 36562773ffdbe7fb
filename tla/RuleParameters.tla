--------------------------- MODULE RuleParameters ---------------------------
(***************************************************************************)
(* The fields of a LimitRule (core/models.py): which combinations the      *)
(* validator accepts, and what the algorithm classes (core/algorithms)     *)
(* make of them before they call the storage.  The two are written apart,  *)
(* and a rule that one accepts must not be refused by the other, which     *)
(* would raise at every check of the rule.                                 *)
(***************************************************************************)
EXTENDS StorageOps

\* A field that is None.  A field that is given is positive.
Unset == 0

Algorithms == {"sliding_window", "fixed_window", "token_bucket", "leaky_bucket", "gcra"}

\* refill and leak are the intervals of refill_rate and leak_rate, as in StorageOps.
Fields == [algorithm : Algorithms,
           limit : Nat, window : Nat, capacity : Nat, refill : Nat, leak : Nat]

Given(field) == field # Unset

IsWindow(fields) == fields.algorithm \in {"sliding_window", "fixed_window"}

\* `capacity' or, in its place, `limit'.
CapacityOf(fields) == IF Given(fields.capacity) THEN fields.capacity ELSE fields.limit

\* The rate that a rule of this algorithm may give: a token bucket and GCRA are
\* refilled, a leaky bucket leaks.
OwnInterval(fields) ==
    IF fields.algorithm = "leaky_bucket" THEN fields.leak ELSE fields.refill

\* LimitRule.validate_algorithm_parameters
Accepted(fields) ==
    IF IsWindow(fields)
    THEN Given(fields.limit) /\ Given(fields.window)
    ELSE /\ Given(fields.capacity) \/ Given(fields.limit)
         /\ Given(OwnInterval(fields)) \/ Given(fields.window)

\* The tick is chosen so that the rate capacity / window has a whole interval.
Ticked(fields) ==
    ~IsWindow(fields) /\ ~Given(OwnInterval(fields)) =>
        /\ CapacityOf(fields) <= fields.window
        /\ fields.window % CapacityOf(fields) = 0

\* The interval of the rule: its own rate, or `capacity / window'.
IntervalOf(fields) ==
    IF Given(OwnInterval(fields)) THEN OwnInterval(fields)
    ELSE fields.window \div CapacityOf(fields)

\* The arguments of the storage call.
Parameters(fields) ==
    IF IsWindow(fields)
    THEN [algorithm |-> fields.algorithm, limit |-> fields.limit, window |-> fields.window]
    ELSE [algorithm |-> fields.algorithm, capacity |-> CapacityOf(fields),
          interval |-> IntervalOf(fields)]

\* The ValueErrors of the algorithm classes.
Raises(fields) ==
    IF IsWindow(fields)
    THEN ~Given(fields.limit) \/ ~Given(fields.window)
    ELSE \/ ~Given(CapacityOf(fields))
         \/ ~Given(OwnInterval(fields)) /\ ~Given(fields.window)
=============================================================================
