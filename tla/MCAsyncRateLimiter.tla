-------------------------- MODULE MCAsyncRateLimiter --------------------------
(***************************************************************************)
(* AsyncRateLimiter with two tasks of one client and three rules, with the *)
(* storage and the resolver of the package and with those that wait.       *)
(***************************************************************************)
EXTENDS AsyncRateLimiter

CONSTANTS a, b, c   \* rule names

None  == [limit |-> Unset, window |-> Unset, capacity |-> Unset, refill |-> Unset, leak |-> Unset]
Wide  == [algorithm |-> "sliding_window", limit |-> 2, window |-> 1] @@ None
\* Three requests in three seconds, written as a limit and a window.
Paced == [algorithm |-> "gcra", limit |-> 3, window |-> 3] @@ None

TwoRules   == {Wide, Paced}
FirstTable == [n \in Names |-> IF n = a THEN Wide ELSE IF n = b THEN Paced ELSE NoRule]
TwoLists   == {<<a, b>>, <<>>}
AllSetups  == Setup

\* Where tasks wait, they interleave, and less of them is enough; where they do not,
\* the table stays as it is between them.
Plain      == [storage |-> "memory", resolver |-> "table"]
FewChecks  == [s \in Setup |-> IF s = Plain THEN 2 ELSE 1]
FewChanges == [s \in Setup |-> IF s = Plain THEN 0 ELSE 1]

\* Only the memory storage's decisions depend on the order of the stamps here.
FewStepsBack == [s \in Setup |-> IF s.storage = "memory" THEN 1 ELSE 0]
=============================================================================
