------------------------ MODULE MemoryStorageProofs ------------------------
(***************************************************************************)
(* Theorems about AtomicStorage and the threads that implement it, for     *)
(* every number of threads, every set of keys and every rule.              *)
(*                                                                         *)
(* Of AtomicStorage, in every order of stamps: type correctness, the       *)
(* envelopes of the algorithms, when a client that was denied may come     *)
(* back, and how many more requests an admitted one may make; for stamps   *)
(* in order, that the entries are the windows that the documentation       *)
(* speaks of.  Each envelope follows from an account (see                  *)
(* StorageOpsProofs) that relates a key's entry to the history of its      *)
(* admissions; a call keeps the account of its own key and leaves the      *)
(* others alone.                                                           *)
(*                                                                         *)
(* Of MemoryStorage: the locks exclude, and the threads implement          *)
(* AtomicSpec, whose theorems then hold of the threads.  The inductive     *)
(* invariant LockInv says why one lock per key is enough: a lock is        *)
(* installed only under the global lock and only where there is none, so   *)
(* the lock a thread has found is the one in the table for good; the       *)
(* thread inside it owns it; and what it has read is still there when it   *)
(* writes.                                                                 *)
(***************************************************************************)
EXTENDS MemoryStorage, StorageOpsProofs

-----------------------------------------------------------------------------
\* What one call does to the state, its outcome named.
LEMMA CommitEffect ==
    ASSUME RulesAssumption, TimeAssumption, AtomicTypeOK,
           NEW k \in Keys, NEW at \in Stamps, Commit(k, at)
    PROVE  \E result \in Outcome :
             /\ result = Decide(RuleOf[k], db[k], at)
             /\ result.entry \in EntryUnder(RuleOf[k])
             /\ db' = [db EXCEPT ![k] = result.entry]
             /\ granted' = [granted EXCEPT ![k] = History(granted[k], at, result)]
             /\ high' = [high EXCEPT ![k] = Later(high[k], at)]
             /\ reply' = [called |-> TRUE, key |-> k, now |-> at, result |-> result]
<1> DEFINE result == Decide(RuleOf[k], db[k], at)
<1>1. RuleOf[k] \in LimitRule /\ db[k] \in EntryUnder(RuleOf[k]) /\ at \in Nat
  BY DEF RulesAssumption, TimeAssumption, Stamps, AtomicTypeOK
<1>2. result \in Outcome /\ result.entry \in EntryUnder(RuleOf[k])
  BY <1>1, DecideType, Zenon
<1>3. /\ db' = [db EXCEPT ![k] = result.entry]
      /\ granted' = [granted EXCEPT ![k] = History(granted[k], at, result)]
      /\ high' = [high EXCEPT ![k] = Later(high[k], at)]
      /\ reply' = [called |-> TRUE, key |-> k, now |-> at, result |-> result]
  BY Zenon DEF Commit, Record, History
<1> HIDE DEF result
<1>4. result = Decide(RuleOf[k], db[k], at)
  BY DEF result
<1> QED
  BY <1>2, <1>3, <1>4, Zenon

LEMMA TypeKept ==
    ASSUME RulesAssumption, TimeAssumption, AtomicTypeOK, [AtomicNext]_atomicVars
    PROVE  AtomicTypeOK'
<1>1. CASE UNCHANGED atomicVars
  BY <1>1 DEF AtomicTypeOK, atomicVars
<1>2. CASE AtomicNext
  <2>1. PICK k \in Keys, at \in Stamps : Commit(k, at)
    BY <1>2 DEF AtomicNext
  <2>2. PICK result \in Outcome :
             /\ result.entry \in EntryUnder(RuleOf[k])
             /\ db' = [db EXCEPT ![k] = result.entry]
             /\ granted' = [granted EXCEPT ![k] = History(granted[k], at, result)]
             /\ high' = [high EXCEPT ![k] = Later(high[k], at)]
             /\ reply' = [called |-> TRUE, key |-> k, now |-> at, result |-> result]
    BY <2>1, CommitEffect, Zenon
  <2>3. DOMAIN db' = Keys /\ \A j \in Keys : db'[j] \in EntryUnder(RuleOf[j])
    BY <2>2 DEF AtomicTypeOK
  <2>4. History(granted[k], at, result) \in Seq(Stamps)
    BY DEF AtomicTypeOK, History
  <2>5. granted' \in [Keys -> Seq(Stamps)]
    BY <2>2, <2>4 DEF AtomicTypeOK
  <2>6. at \in Nat /\ Later(high[k], at) \in Nat
    BY DEF AtomicTypeOK, Stamps, Later
  <2>7. high' \in [Keys -> Nat]
    BY <2>2, <2>6 DEF AtomicTypeOK
  <2>8. reply' \in Reply
    BY <2>2 DEF Reply
  <2> QED
    BY <2>3, <2>5, <2>7, <2>8 DEF AtomicTypeOK
<1> QED
  BY <1>1, <1>2 DEF AtomicNext

\* Every reachable state is well typed: the entry of a key keeps the shape its
\* algorithm reads and writes.
THEOREM TypeCorrect == AtomicSpec => []AtomicTypeOK
<1>1. AtomicInit => AtomicTypeOK
  <2> SUFFICES ASSUME AtomicInit PROVE AtomicTypeOK
    OBVIOUS
  <2>1. \A k \in Keys : <<>> \in EntryUnder(RuleOf[k])
    BY DEF EntryUnder, Entry
  <2> QED
    BY <2>1 DEF AtomicInit, AtomicTypeOK
<1>2. AtomicTypeOK /\ [AtomicNext]_atomicVars => AtomicTypeOK'
  BY TypeKept, RulesAssumption, TimeAssumption
<1> QED
  BY <1>1, <1>2, PTL DEF AtomicSpec

-----------------------------------------------------------------------------
\* The accounts of the algorithms that need no order of stamps.
Accounts ==
    /\ \A k \in KeysUnder("gcra") :
           GcraAccount(db[k], granted[k], high[k], RuleOf[k].capacity, RuleOf[k].interval)
    /\ \A k \in KeysUnder("leaky_bucket") :
           LeakyAccount(db[k], granted[k], high[k], RuleOf[k].capacity, RuleOf[k].interval)
    /\ \A k \in KeysUnder("sliding_window") :
           SlidingAccount(db[k], granted[k], high[k], RuleOf[k].limit, RuleOf[k].window)

\* What the rule of a key says about its parameters and its entry.
LEMMA KeyTypes ==
    ASSUME RulesAssumption, TimeAssumption, AtomicTypeOK, NEW k \in Keys
    PROVE  /\ db[k] \in Entry /\ granted[k] \in Seq(Nat) /\ high[k] \in Nat
           /\ k \in KeysUnder("sliding_window") =>
                 RuleOf[k].limit \in Positive /\ RuleOf[k].window \in Positive
           /\ k \in KeysUnder("token_bucket") \cup KeysUnder("leaky_bucket") =>
                 /\ RuleOf[k].capacity \in Positive /\ RuleOf[k].interval \in Positive
                 /\ Len(db[k]) \in {0, 2}
           /\ k \in KeysUnder("gcra") =>
                 /\ RuleOf[k].capacity \in Positive /\ RuleOf[k].interval \in Positive
                 /\ Len(db[k]) \in {0, 1}
<1>1. RuleOf[k] \in LimitRule /\ db[k] \in EntryUnder(RuleOf[k])
  BY DEF RulesAssumption, AtomicTypeOK
<1>2. granted[k] \in Seq(Stamps) /\ high[k] \in Nat
  BY DEF AtomicTypeOK
<1>3. granted[k] \in Seq(Nat)
  BY <1>2, SeqMonotonic DEF Stamps
<1>4. db[k] \in Entry
  BY <1>1 DEF EntryUnder
<1>5. ASSUME k \in KeysUnder("sliding_window")
      PROVE  RuleOf[k].limit \in Positive /\ RuleOf[k].window \in Positive
  BY <1>1, <1>5 DEF KeysUnder, LimitRule, WindowRule, BucketRule
<1>6. ASSUME RuleOf[k].algorithm \in {"token_bucket", "leaky_bucket", "gcra"}
      PROVE  RuleOf[k].capacity \in Positive /\ RuleOf[k].interval \in Positive
  BY <1>1, <1>6 DEF LimitRule, WindowRule, BucketRule
<1>7. ASSUME RuleOf[k].algorithm \in {"token_bucket", "leaky_bucket"}
      PROVE  Len(db[k]) \in {0, 2}
  BY <1>1, <1>7 DEF EntryUnder
<1>8. ASSUME RuleOf[k].algorithm = "gcra"
      PROVE  Len(db[k]) \in {0, 1}
  BY <1>1, <1>8 DEF EntryUnder
<1> QED
  BY <1>2, <1>3, <1>4, <1>5, <1>6, <1>7, <1>8 DEF KeysUnder

LEMMA AccountsKept ==
    ASSUME RulesAssumption, TimeAssumption, AtomicTypeOK, Accounts, [AtomicNext]_atomicVars
    PROVE  Accounts'
<1>1. CASE UNCHANGED atomicVars
  BY <1>1 DEF Accounts, atomicVars, KeysUnder
<1>2. CASE AtomicNext
  <2>1. PICK k \in Keys, at \in Stamps : Commit(k, at)
    BY <1>2 DEF AtomicNext
  <2>2. PICK result \in Outcome :
             /\ result = Decide(RuleOf[k], db[k], at)
             /\ result.entry \in EntryUnder(RuleOf[k])
             /\ db' = [db EXCEPT ![k] = result.entry]
             /\ granted' = [granted EXCEPT ![k] = History(granted[k], at, result)]
             /\ high' = [high EXCEPT ![k] = Later(high[k], at)]
             /\ reply' = [called |-> TRUE, key |-> k, now |-> at, result |-> result]
    BY <2>1, CommitEffect, Zenon
  <2>3. /\ db'[k] = result.entry
        /\ granted'[k] = History(granted[k], at, result)
        /\ high'[k] = Later(high[k], at)
        /\ \A j \in Keys \ {k} : db'[j] = db[j] /\ granted'[j] = granted[j] /\ high'[j] = high[j]
    BY <2>2 DEF AtomicTypeOK
  <2>4. at \in Nat
    BY DEF Stamps
  <2>5. ASSUME NEW j \in KeysUnder("gcra")
        PROVE  GcraAccount(db'[j], granted'[j], high'[j], RuleOf[j].capacity, RuleOf[j].interval)
    <3>1. CASE j = k
      <4>1. result = gcra(db[k], RuleOf[k].capacity, RuleOf[k].interval, at)
        BY <2>2, <3>1 DEF KeysUnder, Decide
      <4> QED
        BY <2>3, <2>4, <3>1, <4>1, GcraKeepsAccount, KeyTypes DEF Accounts
    <3>2. CASE j # k
      BY <2>3, <3>2 DEF Accounts, KeysUnder
    <3> QED
      BY <3>1, <3>2
  <2>6. ASSUME NEW j \in KeysUnder("leaky_bucket")
        PROVE  LeakyAccount(db'[j], granted'[j], high'[j], RuleOf[j].capacity, RuleOf[j].interval)
    <3>1. CASE j = k
      <4>1. result = leaky_bucket(db[k], RuleOf[k].capacity, RuleOf[k].interval, at)
        BY <2>2, <3>1 DEF KeysUnder, Decide
      <4> QED
        BY <2>3, <2>4, <3>1, <4>1, LeakyKeepsAccount, KeyTypes DEF Accounts
    <3>2. CASE j # k
      BY <2>3, <3>2 DEF Accounts, KeysUnder
    <3> QED
      BY <3>1, <3>2
  <2>7. ASSUME NEW j \in KeysUnder("sliding_window")
        PROVE  SlidingAccount(db'[j], granted'[j], high'[j], RuleOf[j].limit, RuleOf[j].window)
    <3>1. CASE j = k
      <4>1. result = sliding_window(db[k], RuleOf[k].window, RuleOf[k].limit, at)
        BY <2>2, <3>1 DEF KeysUnder, Decide
      <4> QED
        BY <2>3, <2>4, <3>1, <4>1, SlidingKeepsAccount, KeyTypes DEF Accounts
    <3>2. CASE j # k
      BY <2>3, <3>2 DEF Accounts, KeysUnder
    <3> QED
      BY <3>1, <3>2
  <2> QED
    BY <2>5, <2>6, <2>7 DEF Accounts, KeysUnder
<1> QED
  BY <1>1, <1>2

\* The accounts hold throughout.
LEMMA AccountsHold == AtomicSpec => [](AtomicTypeOK /\ Accounts)
<1>1. AtomicInit /\ AtomicTypeOK => Accounts
  <2> SUFFICES ASSUME AtomicInit, AtomicTypeOK PROVE Accounts
    OBVIOUS
  <2>1. \A k \in Keys : db[k] = <<>> /\ granted[k] = <<>>
    BY DEF AtomicInit
  <2>2. \A k \in KeysUnder("gcra") :
           GcraAccount(db[k], granted[k], high[k], RuleOf[k].capacity, RuleOf[k].interval)
    BY <2>1 DEF GcraAccount, KeysUnder
  <2>3. \A k \in KeysUnder("leaky_bucket") :
           LeakyAccount(db[k], granted[k], high[k], RuleOf[k].capacity, RuleOf[k].interval)
    BY <2>1 DEF LeakyAccount, KeysUnder
  <2>4. \A k \in KeysUnder("sliding_window") :
           SlidingAccount(db[k], granted[k], high[k], RuleOf[k].limit, RuleOf[k].window)
    <3> TAKE k \in KeysUnder("sliding_window")
    <3>1. RuleOf[k].limit \in Positive
      BY KeyTypes, RulesAssumption, TimeAssumption DEF KeysUnder
    <3> DEFINE limit == RuleOf[k].limit
               window == RuleOf[k].window
    <3>2. limit >= 0
      BY <3>1 DEF Positive
    <3> HIDE DEF limit, window
    <3>3. SlidingAccount(<<>>, <<>>, high[k], limit, window)
      BY <3>2 DEF SlidingAccount
    <3> QED
      BY <2>1, <3>3 DEF KeysUnder, limit, window
  <2> QED
    BY <2>2, <2>3, <2>4 DEF Accounts
<1>2. AtomicTypeOK /\ Accounts /\ [AtomicNext]_atomicVars => Accounts'
  BY AccountsKept, RulesAssumption, TimeAssumption
<1> QED
  BY <1>1, <1>2, TypeCorrect, PTL DEF AtomicSpec

\* Sliding window admits no more than its limit per window, for every limit,
\* window and order in which the stamps reach the storage.
THEOREM SlidingEnvelopeHolds == AtomicSpec => []SlidingEnvelope
<1>1. AtomicTypeOK /\ Accounts => SlidingEnvelope
  <2> SUFFICES ASSUME AtomicTypeOK, Accounts,
                      NEW k \in KeysUnder("sliding_window"), NEW i \in DOMAIN granted[k],
                      AdmittedSince(k, i) > RuleOf[k].limit
               PROVE  Age(k, i) >= RuleOf[k].window
    BY DEF SlidingEnvelope
  <2>1. k \in Keys /\ SlidingAccount(db[k], granted[k], high[k], RuleOf[k].limit, RuleOf[k].window)
    BY DEF Accounts, KeysUnder
  <2> QED
    BY <2>1, KeyTypes, RulesAssumption, TimeAssumption, SlidingAccountBounds
    DEF AdmittedSince, Age
<1> QED
  BY <1>1, AccountsHold, PTL

\* GCRA admits no more than a burst of `capacity' and one request per interval
\* after it, for every rule and order of stamps.
THEOREM GcraEnvelopeHolds == AtomicSpec => []GcraEnvelope
<1>1. AtomicTypeOK /\ Accounts => GcraEnvelope
  <2> SUFFICES ASSUME AtomicTypeOK, Accounts,
                      NEW k \in KeysUnder("gcra"), NEW i \in DOMAIN granted[k]
               PROVE  AdmittedSince(k, i) * RuleOf[k].interval
                          <= Age(k, i) + RuleOf[k].capacity * RuleOf[k].interval + 0
    BY DEF GcraEnvelope, BurstThenRate
  <2>1. k \in Keys /\ GcraAccount(db[k], granted[k], high[k], RuleOf[k].capacity, RuleOf[k].interval)
    BY DEF Accounts, KeysUnder
  <2>2. /\ db[k] \in Entry /\ Len(db[k]) \in {0, 1}
        /\ granted[k] \in Seq(Nat) /\ high[k] \in Nat
        /\ RuleOf[k].capacity \in Positive /\ RuleOf[k].interval \in Positive
    BY <2>1, KeyTypes, RulesAssumption, TimeAssumption
  <2>3. i \in 1 .. Len(granted[k])
    BY <2>2
  <2>4. (Len(granted[k]) - i + 1) * RuleOf[k].interval
            <= (high[k] - granted[k][i]) + RuleOf[k].capacity * RuleOf[k].interval + 0
    BY <2>1, <2>2, <2>3, GcraAccountBounds, Zenon
  <2> QED
    BY <2>4, Zenon DEF AdmittedSince, Age
<1> QED
  BY <1>1, AccountsHold, PTL

\* The leaky bucket admits no more than its capacity and one request per interval
\* after it, less the interval in progress, for every rule and order of stamps.
THEOREM LeakyEnvelopeHolds == AtomicSpec => []LeakyEnvelope
<1>1. AtomicTypeOK /\ Accounts => LeakyEnvelope
  <2> SUFFICES ASSUME AtomicTypeOK, Accounts,
                      NEW k \in KeysUnder("leaky_bucket"), NEW i \in DOMAIN granted[k]
               PROVE  AdmittedSince(k, i) * RuleOf[k].interval
                          <= Age(k, i) + RuleOf[k].capacity * RuleOf[k].interval
                             + (RuleOf[k].interval - 1)
    BY DEF LeakyEnvelope, BurstThenRate
  <2>1. k \in Keys /\ LeakyAccount(db[k], granted[k], high[k], RuleOf[k].capacity, RuleOf[k].interval)
    BY DEF Accounts, KeysUnder
  <2>2. /\ db[k] \in Entry /\ Len(db[k]) \in {0, 2}
        /\ granted[k] \in Seq(Nat) /\ high[k] \in Nat
        /\ RuleOf[k].capacity \in Positive /\ RuleOf[k].interval \in Positive
    BY <2>1, KeyTypes, RulesAssumption, TimeAssumption
  <2>3. i \in 1 .. Len(granted[k])
    BY <2>2
  <2>4. (Len(granted[k]) - i + 1) * RuleOf[k].interval
            <= (high[k] - granted[k][i]) + RuleOf[k].capacity * RuleOf[k].interval + (RuleOf[k].interval - 1)
    BY <2>1, <2>2, <2>3, LeakyAccountBounds, Zenon
  <2> QED
    BY <2>4, Zenon DEF AdmittedSince, Age
<1> QED
  BY <1>1, AccountsHold, PTL

-----------------------------------------------------------------------------
TokenAccounts ==
    \A k \in KeysUnder("token_bucket") :
       TokenAccount(db[k], granted[k], high[k], RuleOf[k].capacity, RuleOf[k].interval)

LEMMA TokenAccountsKept ==
    ASSUME RulesAssumption, TimeAssumption, AtomicTypeOK, TokenAccounts,
           NEW k \in Keys, NEW at \in Stamps, OrderedCommit(k, at)
    PROVE  TokenAccounts'
<1>1. Commit(k, at) /\ at >= high[k] /\ at \in Nat
  BY DEF OrderedCommit, Stamps
<1>2. PICK result \in Outcome :
           /\ result = Decide(RuleOf[k], db[k], at)
           /\ result.entry \in EntryUnder(RuleOf[k])
           /\ db' = [db EXCEPT ![k] = result.entry]
           /\ granted' = [granted EXCEPT ![k] = History(granted[k], at, result)]
           /\ high' = [high EXCEPT ![k] = Later(high[k], at)]
           /\ reply' = [called |-> TRUE, key |-> k, now |-> at, result |-> result]
  BY <1>1, CommitEffect, Zenon
<1>3. /\ db'[k] = result.entry
      /\ granted'[k] = History(granted[k], at, result)
      /\ high'[k] = Later(high[k], at)
      /\ \A j \in Keys \ {k} : db'[j] = db[j] /\ granted'[j] = granted[j] /\ high'[j] = high[j]
  BY <1>2 DEF AtomicTypeOK
<1>4. ASSUME NEW j \in KeysUnder("token_bucket")
      PROVE  TokenAccount(db'[j], granted'[j], high'[j], RuleOf[j].capacity, RuleOf[j].interval)
  <2>1. CASE j = k
    <3>1. result = token_bucket(db[k], RuleOf[k].capacity, RuleOf[k].interval, at)
      BY <1>2, <2>1 DEF KeysUnder, Decide
    <3> QED
      BY <1>1, <1>3, <2>1, <3>1, TokenKeepsAccount, KeyTypes, SMTT(40) DEF TokenAccounts
  <2>2. CASE j # k
    BY <1>3, <2>2 DEF TokenAccounts, KeysUnder
  <2> QED
    BY <2>1, <2>2
<1> QED
  BY <1>4 DEF TokenAccounts, KeysUnder

\* Callers whose stamps arrive in order are a special case.
LEMMA OrderedIsAtomic == OrderedSpec => AtomicSpec
<1>1. [OrderedNext]_atomicVars => [AtomicNext]_atomicVars
  BY Zenon DEF OrderedNext, AtomicNext, OrderedCommit
<1> QED
  BY <1>1, PTL DEF OrderedSpec, AtomicSpec

\* While the stamps of a key arrive in order, its token bucket admits no more than
\* the capacity at once and refill_rate on average.
THEOREM TokenEnvelopeHolds == OrderedSpec => []TokenEnvelope
<1>1. AtomicInit => TokenAccounts
  BY DEF AtomicInit, TokenAccounts, TokenAccount, KeysUnder
<1>2. AtomicTypeOK /\ TokenAccounts /\ [OrderedNext]_atomicVars => TokenAccounts'
  <2> SUFFICES ASSUME AtomicTypeOK, TokenAccounts, [OrderedNext]_atomicVars
               PROVE  TokenAccounts'
    OBVIOUS
  <2>1. CASE UNCHANGED atomicVars
    BY <2>1 DEF TokenAccounts, atomicVars, KeysUnder
  <2>2. CASE OrderedNext
    BY <2>2, TokenAccountsKept, RulesAssumption, TimeAssumption DEF OrderedNext
  <2> QED
    BY <2>1, <2>2
<1>3. AtomicTypeOK /\ TokenAccounts => TokenEnvelope
  <2> SUFFICES ASSUME AtomicTypeOK, TokenAccounts,
                      NEW k \in KeysUnder("token_bucket"), NEW i \in DOMAIN granted[k]
               PROVE  AdmittedSince(k, i) * RuleOf[k].interval
                          <= Age(k, i) + RuleOf[k].capacity * RuleOf[k].interval + 0
    BY DEF TokenEnvelope, BurstThenRate
  <2>1. k \in Keys /\ TokenAccount(db[k], granted[k], high[k], RuleOf[k].capacity, RuleOf[k].interval)
    BY DEF TokenAccounts, KeysUnder
  <2>2. /\ db[k] \in Entry /\ Len(db[k]) \in {0, 2}
        /\ granted[k] \in Seq(Nat) /\ high[k] \in Nat
        /\ RuleOf[k].capacity \in Positive /\ RuleOf[k].interval \in Positive
    BY <2>1, KeyTypes, RulesAssumption, TimeAssumption
  <2>3. i \in 1 .. Len(granted[k])
    BY <2>2
  <2>4. (Len(granted[k]) - i + 1) * RuleOf[k].interval
            <= (high[k] - granted[k][i]) + RuleOf[k].capacity * RuleOf[k].interval + 0
    BY <2>1, <2>2, <2>3, TokenAccountBounds, Zenon
  <2> QED
    BY <2>4, Zenon DEF AdmittedSince, Age
<1> QED
  BY <1>1, <1>2, <1>3, OrderedIsAtomic, TypeCorrect, PTL DEF OrderedSpec

-----------------------------------------------------------------------------
FixedAccounts ==
    \A k \in KeysUnder("fixed_window") :
       FixedAccount(db[k], granted[k], high[k], RuleOf[k].limit, RuleOf[k].window)

LEMMA FixedKeyTypes ==
    ASSUME RulesAssumption, AtomicTypeOK, NEW k \in KeysUnder("fixed_window")
    PROVE  /\ k \in Keys /\ Len(db[k]) \in {0, 2}
           /\ RuleOf[k].limit \in Positive /\ RuleOf[k].window \in Positive
<1>1. k \in Keys /\ RuleOf[k].algorithm = "fixed_window"
  BY DEF KeysUnder
<1>2. RuleOf[k] \in LimitRule /\ db[k] \in EntryUnder(RuleOf[k])
  BY <1>1 DEF RulesAssumption, AtomicTypeOK
<1>3. Len(db[k]) \in {0, 2}
  BY <1>1, <1>2 DEF EntryUnder
<1> QED
  BY <1>1, <1>2, <1>3 DEF LimitRule, WindowRule, BucketRule

LEMMA FixedAccountsKept ==
    ASSUME RulesAssumption, TimeAssumption, AtomicTypeOK, FixedAccounts, [AtomicNext]_atomicVars
    PROVE  FixedAccounts'
<1>1. CASE UNCHANGED atomicVars
  BY <1>1 DEF FixedAccounts, atomicVars, KeysUnder
<1>2. CASE AtomicNext
  <2>1. PICK k \in Keys, at \in Stamps : Commit(k, at)
    BY <1>2 DEF AtomicNext
  <2>2. PICK result \in Outcome :
             /\ result = Decide(RuleOf[k], db[k], at)
             /\ result.entry \in EntryUnder(RuleOf[k])
             /\ db' = [db EXCEPT ![k] = result.entry]
             /\ granted' = [granted EXCEPT ![k] = History(granted[k], at, result)]
             /\ high' = [high EXCEPT ![k] = Later(high[k], at)]
             /\ reply' = [called |-> TRUE, key |-> k, now |-> at, result |-> result]
    BY <2>1, CommitEffect, Zenon
  <2>3. /\ db'[k] = result.entry
        /\ granted'[k] = History(granted[k], at, result)
        /\ high'[k] = Later(high[k], at)
        /\ \A j \in Keys \ {k} : db'[j] = db[j] /\ granted'[j] = granted[j] /\ high'[j] = high[j]
    BY <2>2 DEF AtomicTypeOK
  <2>4. at \in Nat
    BY DEF Stamps
  <2>5. ASSUME NEW j \in KeysUnder("fixed_window")
        PROVE  FixedAccount(db'[j], granted'[j], high'[j], RuleOf[j].limit, RuleOf[j].window)
    <3>1. CASE j = k
      <4>1. result = fixed_window(db[k], RuleOf[k].window, RuleOf[k].limit, at)
        BY <2>2, <3>1 DEF KeysUnder, Decide
      <4> QED
        BY <2>3, <2>4, <3>1, <4>1, FixedKeepsAccount, FixedKeyTypes, KeyTypes DEF FixedAccounts
    <3>2. CASE j # k
      BY <2>3, <3>2 DEF FixedAccounts, KeysUnder
    <3> QED
      BY <3>1, <3>2
  <2> QED
    BY <2>5 DEF FixedAccounts, KeysUnder
<1> QED
  BY <1>1, <1>2

LEMMA FixedAccountsHold == AtomicSpec => []FixedAccounts
<1>1. AtomicInit => FixedAccounts
  BY DEF AtomicInit, FixedAccounts, FixedAccount, KeysUnder
<1>2. AtomicTypeOK /\ FixedAccounts /\ [AtomicNext]_atomicVars => FixedAccounts'
  BY FixedAccountsKept, RulesAssumption, TimeAssumption
<1> QED
  BY <1>1, <1>2, TypeCorrect, PTL DEF AtomicSpec

\* However the stamps of a key arrive, its fixed window admits no more than `limit'
\* requests after it has moved to a new aligned window, and no more than twice as
\* many within the length of one.
THEOREM FixedEnvelopeHolds == AtomicSpec => []FixedEnvelope
<1>1. AtomicTypeOK /\ FixedAccounts => FixedEnvelope
  <2> SUFFICES ASSUME AtomicTypeOK, FixedAccounts,
                      NEW k \in KeysUnder("fixed_window"), NEW i \in DOMAIN granted[k]
               PROVE  /\ AdmittedSince(k, i) > RuleOf[k].limit =>
                             Aligned(granted[k][i], RuleOf[k].window)
                                 < Aligned(high[k], RuleOf[k].window)
                      /\ AdmittedSince(k, i) > 2 * RuleOf[k].limit => Age(k, i) >= RuleOf[k].window
    BY DEF FixedEnvelope
  <2>1. /\ k \in Keys /\ Len(db[k]) \in {0, 2}
        /\ RuleOf[k].limit \in Positive /\ RuleOf[k].window \in Positive
    BY FixedKeyTypes, RulesAssumption
  <2>2. db[k] \in Entry /\ granted[k] \in Seq(Nat) /\ high[k] \in Nat
    BY <2>1, KeyTypes, RulesAssumption, TimeAssumption
  <2>3. FixedAccount(db[k], granted[k], high[k], RuleOf[k].limit, RuleOf[k].window)
    BY DEF FixedAccounts
  <2>4. i \in 1 .. Len(granted[k])
    BY <2>2
  <2> QED
    BY <2>1, <2>2, <2>3, <2>4, FixedAccountBounds, Zenon DEF AdmittedSince, Age
<1> QED
  BY <1>1, FixedAccountsHold, TypeCorrect, PTL

-----------------------------------------------------------------------------
(***************************************************************************)
(* What a denied caller is told: RetryHonoured and RetryTight, for every   *)
(* rule, key and order of stamps.  Both are about the entry that the       *)
(* denial left behind, so they need of the state before it only what the   *)
(* accounts say, and that a token bucket was last written with a stamp no  *)
(* later than the latest.                                                  *)
(***************************************************************************)

\* A token bucket was last written with a stamp that is not later than the latest.
TokensWritten ==
    \A k \in KeysUnder("token_bucket") : db[k] # <<>> => db[k][2] <= high[k]

RetryInv == AtomicTypeOK /\ Accounts /\ FixedAccounts /\ TokensWritten

LEMMA TokensWrittenKept ==
    ASSUME RulesAssumption, TimeAssumption, AtomicTypeOK, TokensWritten, [AtomicNext]_atomicVars
    PROVE  TokensWritten'
<1>1. CASE UNCHANGED atomicVars
  BY <1>1 DEF TokensWritten, atomicVars, KeysUnder
<1>2. CASE AtomicNext
  <2>1. PICK k \in Keys, at \in Stamps : Commit(k, at)
    BY <1>2 DEF AtomicNext
  <2>2. PICK result \in Outcome :
             /\ result = Decide(RuleOf[k], db[k], at)
             /\ result.entry \in EntryUnder(RuleOf[k])
             /\ db' = [db EXCEPT ![k] = result.entry]
             /\ granted' = [granted EXCEPT ![k] = History(granted[k], at, result)]
             /\ high' = [high EXCEPT ![k] = Later(high[k], at)]
             /\ reply' = [called |-> TRUE, key |-> k, now |-> at, result |-> result]
    BY <2>1, CommitEffect, Zenon
  <2>3. /\ db'[k] = result.entry /\ high'[k] = Later(high[k], at)
        /\ \A j \in Keys \ {k} : db'[j] = db[j] /\ high'[j] = high[j]
    BY <2>2 DEF AtomicTypeOK
  <2>4. at \in Nat
    BY DEF Stamps
  <2>5. ASSUME NEW j \in KeysUnder("token_bucket"), db'[j] # <<>>
        PROVE  db'[j][2] <= high'[j]
    <3>1. CASE j = k
      <4>1. result = token_bucket(db[k], RuleOf[k].capacity, RuleOf[k].interval, at)
        BY <2>2, <3>1 DEF KeysUnder, Decide
      <4>2. /\ db[k] \in Entry /\ high[k] \in Nat /\ Len(db[k]) \in {0, 2}
            /\ RuleOf[k].capacity \in Positive /\ RuleOf[k].interval \in Positive
        BY <3>1, KeyTypes
      <4> QED
        BY <2>3, <2>4, <2>5, <3>1, <4>1, <4>2, TokenWrites DEF TokensWritten
    <3>2. CASE j # k
      BY <2>3, <2>5, <3>2 DEF TokensWritten, KeysUnder
    <3> QED
      BY <3>1, <3>2
  <2> QED
    BY <2>5 DEF TokensWritten, KeysUnder
<1> QED
  BY <1>1, <1>2

\* What a denied call leaves for later ones: its result and its entry are those of
\* one of the five operations, to which the lemmas above apply.
LEMMA DenialTold ==
    ASSUME RulesAssumption, TimeAssumption, RetryInv,
           NEW k \in Keys, NEW at \in Stamps, Commit(k, at), ~reply'.result.allowed,
           NEW stamp \in Int
    PROVE  LET rule == RuleOf[k]
               reset_at == reply'.result.reset_at
               again == Decide(rule, db'[k], stamp).allowed
           IN  /\ rule.algorithm \in {"sliding_window", "fixed_window", "gcra"} =>
                      /\ reset_at <= stamp => again
                      /\ at <= stamp /\ stamp < reset_at => ~again
               /\ rule.algorithm = "token_bucket" /\ at = high'[k] =>
                      /\ reset_at <= stamp => again
                      /\ at <= stamp /\ stamp < reset_at => ~again
               /\ rule.algorithm = "leaky_bucket" /\ at = high'[k] =>
                      (reset_at <= stamp => again)
<1>1. PICK result \in Outcome :
             /\ result = Decide(RuleOf[k], db[k], at)
             /\ db' = [db EXCEPT ![k] = result.entry]
             /\ high' = [high EXCEPT ![k] = Later(high[k], at)]
             /\ reply' = [called |-> TRUE, key |-> k, now |-> at, result |-> result]
  BY CommitEffect, Zenon DEF RetryInv
<1>2. /\ db'[k] = result.entry /\ high'[k] = Later(high[k], at)
      /\ reply'.result = result /\ ~result.allowed
  BY <1>1 DEF RetryInv, AtomicTypeOK
<1>3. at \in Nat /\ db[k] \in Entry /\ high[k] \in Nat
  BY KeyTypes DEF RetryInv, Stamps
<1>4. at = high'[k] => high[k] <= at
  BY <1>2, <1>3 DEF Later
<1>5. ASSUME RuleOf[k].algorithm = "sliding_window"
      PROVE  /\ result.reset_at <= stamp => Decide(RuleOf[k], result.entry, stamp).allowed
             /\ at <= stamp /\ stamp < result.reset_at =>
                    ~Decide(RuleOf[k], result.entry, stamp).allowed
  <2>1. k \in KeysUnder("sliding_window")
    BY <1>5 DEF KeysUnder
  <2>2. RuleOf[k].limit \in Positive /\ RuleOf[k].window \in Positive
    BY <2>1, KeyTypes DEF RetryInv
  <2>3. Len(db[k]) <= RuleOf[k].limit
    BY <2>1 DEF RetryInv, Accounts, SlidingAccount
  <2>4. \A e, t : Decide(RuleOf[k], e, t) = sliding_window(e, RuleOf[k].window, RuleOf[k].limit, t)
    BY <1>5 DEF Decide
  <2>5. result = sliding_window(db[k], RuleOf[k].window, RuleOf[k].limit, at)
    BY <1>1, <2>4
  <2> QED
    BY <1>2, <1>3, <2>2, <2>3, <2>4, <2>5, SlidingRetry, SMTT(40)
<1>6. ASSUME RuleOf[k].algorithm = "fixed_window"
      PROVE  /\ result.reset_at <= stamp => Decide(RuleOf[k], result.entry, stamp).allowed
             /\ at <= stamp /\ stamp < result.reset_at =>
                    ~Decide(RuleOf[k], result.entry, stamp).allowed
  <2>1. k \in KeysUnder("fixed_window")
    BY <1>6 DEF KeysUnder
  <2>2. RuleOf[k].limit \in Positive /\ RuleOf[k].window \in Positive /\ Len(db[k]) \in {0, 2}
    BY <2>1, FixedKeyTypes DEF RetryInv
  <2>3. db[k] # <<>> => db[k][2] = Aligned(high[k], RuleOf[k].window)
    BY <2>1 DEF RetryInv, FixedAccounts, FixedAccount
  <2>4. \A e, t : Decide(RuleOf[k], e, t) = fixed_window(e, RuleOf[k].window, RuleOf[k].limit, t)
    BY <1>6 DEF Decide
  <2>5. result = fixed_window(db[k], RuleOf[k].window, RuleOf[k].limit, at)
    BY <1>1, <2>4
  <2> QED
    BY <1>2, <1>3, <2>2, <2>3, <2>4, <2>5, FixedRetry
<1>7. ASSUME RuleOf[k].algorithm = "token_bucket", high[k] <= at
      PROVE  /\ result.reset_at <= stamp => Decide(RuleOf[k], result.entry, stamp).allowed
             /\ at <= stamp /\ stamp < result.reset_at =>
                    ~Decide(RuleOf[k], result.entry, stamp).allowed
  <2>1. k \in KeysUnder("token_bucket")
    BY <1>7 DEF KeysUnder
  <2>2. RuleOf[k].capacity \in Positive /\ RuleOf[k].interval \in Positive /\ Len(db[k]) \in {0, 2}
    BY <2>1, KeyTypes DEF RetryInv
  <2>3. db[k] # <<>> => db[k][2] <= at
    BY <1>3, <1>7, <2>1, <2>2, PairEntry DEF RetryInv, TokensWritten
  <2>4. \A e, t : Decide(RuleOf[k], e, t) = token_bucket(e, RuleOf[k].capacity, RuleOf[k].interval, t)
    BY <1>7 DEF Decide
  <2>5. result = token_bucket(db[k], RuleOf[k].capacity, RuleOf[k].interval, at)
    BY <1>1, <2>4
  <2> QED
    BY <1>2, <1>3, <2>2, <2>3, <2>4, <2>5, TokenRetry
<1>8. ASSUME RuleOf[k].algorithm = "leaky_bucket", high[k] <= at, result.reset_at <= stamp
      PROVE  Decide(RuleOf[k], result.entry, stamp).allowed
  <2>1. k \in KeysUnder("leaky_bucket")
    BY <1>8 DEF KeysUnder
  <2>2. RuleOf[k].capacity \in Positive /\ RuleOf[k].interval \in Positive /\ Len(db[k]) \in {0, 2}
    BY <2>1, KeyTypes DEF RetryInv
  <2>3. db[k] # <<>> => db[k][1] <= RuleOf[k].capacity /\ db[k][2] <= high[k]
    BY <2>1 DEF RetryInv, Accounts, LeakyAccount
  <2>4. db[k] # <<>> => db[k][1] <= RuleOf[k].capacity /\ db[k][2] <= at
    BY <1>3, <1>8, <2>2, <2>3, PairEntry
  <2>5. \A e, t : Decide(RuleOf[k], e, t) = leaky_bucket(e, RuleOf[k].capacity, RuleOf[k].interval, t)
    BY <1>8 DEF Decide
  <2>6. result = leaky_bucket(db[k], RuleOf[k].capacity, RuleOf[k].interval, at)
    BY <1>1, <2>5
  <2> QED
    BY <1>2, <1>3, <1>8, <2>2, <2>4, <2>5, <2>6, LeakyRetry
<1>9. ASSUME RuleOf[k].algorithm = "gcra"
      PROVE  /\ result.reset_at <= stamp => Decide(RuleOf[k], result.entry, stamp).allowed
             /\ at <= stamp /\ stamp < result.reset_at =>
                    ~Decide(RuleOf[k], result.entry, stamp).allowed
  <2>1. k \in KeysUnder("gcra")
    BY <1>9 DEF KeysUnder
  <2>2. RuleOf[k].capacity \in Positive /\ RuleOf[k].interval \in Positive /\ Len(db[k]) \in {0, 1}
    BY <2>1, KeyTypes DEF RetryInv
  <2>3. \A e, t : Decide(RuleOf[k], e, t) = gcra(e, RuleOf[k].capacity, RuleOf[k].interval, t)
    BY <1>9 DEF Decide
  <2>4. result = gcra(db[k], RuleOf[k].capacity, RuleOf[k].interval, at)
    BY <1>1, <2>3
  <2> QED
    BY <1>2, <1>3, <2>2, <2>3, <2>4, GcraRetry
<1> QED
  BY <1>2, <1>4, <1>5, <1>6, <1>7, <1>8, <1>9

LEMMA RetryInvHolds == AtomicSpec => []RetryInv
<1>1. AtomicInit => TokensWritten
  BY DEF AtomicInit, TokensWritten, KeysUnder
<1>2. AtomicTypeOK /\ TokensWritten /\ [AtomicNext]_atomicVars => TokensWritten'
  BY TokensWrittenKept, RulesAssumption, TimeAssumption
<1> QED
  BY <1>1, <1>2, AccountsHold, FixedAccountsHold, PTL DEF AtomicSpec, RetryInv

LEMMA RetryTold ==
    ASSUME RetryInv, RetryHonoured, RetryTight, [AtomicNext]_atomicVars
    PROVE  RetryHonoured' /\ RetryTight'
<1>1. CASE UNCHANGED atomicVars
  BY <1>1, Zenon DEF atomicVars, RetryHonoured, RetryTight, DeniedUnder, UpToDate,
        AdmittedFromResetOn, DeniedBeforeReset, DecideAt
<1>2. CASE AtomicNext
  <2>1. PICK k \in Keys, at \in Stamps : Commit(k, at)
    BY <1>2 DEF AtomicNext
  <2>2. PICK result \in Outcome :
             /\ result = Decide(RuleOf[k], db[k], at)
             /\ result.entry \in EntryUnder(RuleOf[k])
             /\ db' = [db EXCEPT ![k] = result.entry]
             /\ granted' = [granted EXCEPT ![k] = History(granted[k], at, result)]
             /\ high' = [high EXCEPT ![k] = Later(high[k], at)]
             /\ reply' = [called |-> TRUE, key |-> k, now |-> at, result |-> result]
    BY <2>1, CommitEffect, RulesAssumption, TimeAssumption, Zenon DEF RetryInv
  <2>3. reply'.key = k /\ reply'.now = at /\ reply'.result = result
    BY <2>2
  <2>4. result.reset_at \in Int /\ at \in Int
    BY TimeAssumption DEF Outcome, Stamps
  <2> DEFINE told(stamp) == Decide(RuleOf[k], db'[k], stamp).allowed
  <2>5. ASSUME ~result.allowed, NEW stamp \in Int
        PROVE  /\ RuleOf[k].algorithm \in {"sliding_window", "fixed_window", "gcra"} =>
                      /\ result.reset_at <= stamp => told(stamp)
                      /\ at <= stamp /\ stamp < result.reset_at => ~told(stamp)
               /\ RuleOf[k].algorithm = "token_bucket" /\ at = high'[k] =>
                      /\ result.reset_at <= stamp => told(stamp)
                      /\ at <= stamp /\ stamp < result.reset_at => ~told(stamp)
               /\ RuleOf[k].algorithm = "leaky_bucket" /\ at = high'[k] =>
                      (result.reset_at <= stamp => told(stamp))
    BY <2>1, <2>3, <2>5, DenialTold, RulesAssumption, TimeAssumption
  <2>6. ASSUME ~result.allowed,
               \A stamp \in Int : result.reset_at <= stamp => told(stamp)
        PROVE  AdmittedFromResetOn'
    <3>1. \A wait \in 0 .. 3 : told(result.reset_at + wait)
      BY <2>4, <2>6
    <3> QED
      BY <2>3, <3>1, Zenon DEF AdmittedFromResetOn, DecideAt
  <2>7. ASSUME ~result.allowed,
               \A stamp \in Int : at <= stamp /\ stamp < result.reset_at => ~told(stamp)
        PROVE  DeniedBeforeReset'
    <3>1. \A stamp \in at .. result.reset_at - 1 : ~told(stamp)
      BY <2>4, <2>7
    <3> QED
      BY <2>3, <3>1, Zenon DEF DeniedBeforeReset, DecideAt
  <2> HIDE DEF told
  <2>8. ASSUME NEW algorithms, DeniedUnder(algorithms)'
        PROVE  ~result.allowed /\ RuleOf[k].algorithm \in algorithms
    BY <2>3, <2>8 DEF DeniedUnder
  <2>9. UpToDate' => at = high'[k]
    BY <2>2, <2>3 DEF UpToDate
  <2> QED
    BY <2>5, <2>6, <2>7, <2>8, <2>9 DEF RetryHonoured, RetryTight
<1> QED
  BY <1>1, <1>2

\* A denied caller that comes back at reset_at or later, with nobody in between, is
\* admitted: Retry-After never makes it wait in vain.
THEOREM RetryHonouredHolds == AtomicSpec => []RetryHonoured
<1>1. AtomicInit => RetryHonoured /\ RetryTight
  BY DEF AtomicInit, NoReply, RetryHonoured, RetryTight, DeniedUnder
<1> QED
  BY <1>1, RetryTold, RetryInvHolds, PTL DEF AtomicSpec

\* And it would have been denied had it come before: outside the leaky bucket,
\* Retry-After is no longer than it has to be.
THEOREM RetryTightHolds == AtomicSpec => []RetryTight
<1>1. AtomicInit => RetryHonoured /\ RetryTight
  BY DEF AtomicInit, NoReply, RetryHonoured, RetryTight, DeniedUnder
<1> QED
  BY <1>1, RetryTold, RetryInvHolds, PTL DEF AtomicSpec

-----------------------------------------------------------------------------
(***************************************************************************)
(* `remaining': each reply has exactly one less to give than the last.     *)
(***************************************************************************)

\* EntryAfter is what its recursive definition says, and stays an entry of the rule.
LEMMA EntriesAfter ==
    ASSUME RulesAssumption, AtomicTypeOK, reply \in Reply
    PROVE  /\ EntryAfter[0] = db[reply.key]
           /\ \A n \in Nat :
                 /\ EntryAfter[n] \in EntryUnder(RuleOf[reply.key])
                 /\ EntryAfter[n + 1] = Decide(RuleOf[reply.key], EntryAfter[n], reply.now).entry
<1> DEFINE rule == RuleOf[reply.key]
           Recursive(g) == g = [n \in Nat |-> IF n = 0 THEN db[reply.key]
                                              ELSE Decide(rule, g[n - 1], reply.now).entry]
<1>1. reply.key \in Keys /\ reply.now \in Nat
  BY DEF Reply, Stamps
<1>2. rule \in LimitRule /\ db[reply.key] \in EntryUnder(rule)
  BY <1>1 DEF RulesAssumption, AtomicTypeOK
<1> HIDE DEF rule
<1>3. PICK g \in [Nat -> EntryUnder(rule)] : Recursive(g)
  BY <1>1, <1>2, CallsGoOn
<1>4. Recursive(EntryAfter)
  <2>1. EntryAfter = CHOOSE f : Recursive(f)
    BY Zenon DEF EntryAfter, rule
  <2> HIDE DEF Recursive
  <2> QED
    BY <1>3, <2>1
<1>5. EntryAfter[0] = db[reply.key]
  BY <1>4
<1>6. ASSUME NEW n \in Nat
      PROVE  EntryAfter[n + 1] = Decide(rule, EntryAfter[n], reply.now).entry
  <2>1. n + 1 \in Nat /\ n + 1 # 0 /\ (n + 1) - 1 = n
    OBVIOUS
  <2> QED
    BY <1>4, <2>1
<1> DEFINE typed == {n \in Nat : EntryAfter[n] \in EntryUnder(rule)}
<1>7. 0 \in typed
  BY <1>2, <1>5
<1>8. ASSUME NEW n \in typed
      PROVE  n + 1 \in typed
  <2>1. n \in Nat /\ EntryAfter[n] \in EntryUnder(rule)
    OBVIOUS
  <2>2. Decide(rule, EntryAfter[n], reply.now).entry \in EntryUnder(rule)
    BY <1>1, <1>2, <2>1, DecideType
  <2> QED
    BY <1>6, <2>1, <2>2
<1>9. typed \in SUBSET Nat
  OBVIOUS
<1>10. typed = Nat
  <2> HIDE DEF typed
  <2> QED
    BY <1>7, <1>8, <1>9, ByInduction
<1> QED
  BY <1>5, <1>6, <1>10 DEF rule

\* The next call at the stamp of the last one has one less to give.
NextHasOneFewer == reply.called => OneFewer(reply.result, DecideAt(reply.now))

LEMMA NextHasOneFewerKept ==
    ASSUME RulesAssumption, TimeAssumption, AtomicTypeOK, NextHasOneFewer,
           [AtomicNext]_atomicVars
    PROVE  NextHasOneFewer'
<1>1. CASE UNCHANGED atomicVars
  BY <1>1 DEF NextHasOneFewer, DecideAt, atomicVars
<1>2. CASE AtomicNext
  <2>1. PICK k \in Keys, at \in Stamps : Commit(k, at)
    BY <1>2 DEF AtomicNext
  <2>2. PICK result \in Outcome :
             /\ result = Decide(RuleOf[k], db[k], at)
             /\ result.entry \in EntryUnder(RuleOf[k])
             /\ db' = [db EXCEPT ![k] = result.entry]
             /\ granted' = [granted EXCEPT ![k] = History(granted[k], at, result)]
             /\ high' = [high EXCEPT ![k] = Later(high[k], at)]
             /\ reply' = [called |-> TRUE, key |-> k, now |-> at, result |-> result]
    BY <2>1, CommitEffect, Zenon
  <2>3. RuleOf[k] \in LimitRule /\ db[k] \in EntryUnder(RuleOf[k]) /\ at \in Nat
    BY DEF RulesAssumption, TimeAssumption, Stamps, AtomicTypeOK
  <2>4. OneFewer(result, Decide(RuleOf[k], result.entry, at))
    BY <2>2, <2>3, DecideOneFewer
  <2>5. reply'.key = k /\ reply'.now = at /\ reply'.result = result /\ db'[k] = result.entry
    BY <2>2 DEF AtomicTypeOK
  <2> QED
    BY <2>4, <2>5, Zenon DEF NextHasOneFewer, DecideAt
<1> QED
  BY <1>1, <1>2

\* What is left runs out one by one: after n more admissions, remaining - n are left.
LEMMA RunsOut ==
    ASSUME RulesAssumption, TimeAssumption, AtomicTypeOK, NextHasOneFewer, reply.called
    PROVE  LET remaining == reply.result.remaining
               Admitted(n) == Decide(RuleOf[reply.key], EntryAfter[n], reply.now).allowed
           IN  /\ \A n \in 0 .. remaining - 1 : Admitted(n)
               /\ ~Admitted(remaining)
<1> DEFINE remaining == reply.result.remaining
           next(n) == Decide(RuleOf[reply.key], EntryAfter[n], reply.now)
           told == {n \in Nat : n <= remaining =>
                       /\ next(n).allowed <=> n < remaining
                       /\ next(n).allowed => next(n).remaining = remaining - n - 1}
<1>1. reply \in Reply
  BY DEF AtomicTypeOK, NoReply
<1>2. remaining \in Nat /\ RuleOf[reply.key] \in LimitRule /\ reply.now \in Nat
  BY <1>1 DEF Reply, Outcome, RulesAssumption, Stamps
<1>3. 0 \in told
  <2>1. next(0) = DecideAt(reply.now)
    BY <1>1, EntriesAfter DEF DecideAt
  <2>2. OneFewer(reply.result, next(0))
    BY <2>1, Zenon DEF NextHasOneFewer
  <2> HIDE DEF next
  <2> QED
    BY <1>2, <2>2 DEF OneFewer
<1>4. ASSUME NEW n \in told
      PROVE  n + 1 \in told
  <2>1. n \in Nat
    OBVIOUS
  <2>2. OneFewer(next(n), next(n + 1))
    BY <1>1, <1>2, <2>1, EntriesAfter, DecideOneFewer
  <2> HIDE DEF next
  <2>3. ASSUME n + 1 <= remaining
        PROVE  /\ next(n + 1).allowed <=> n + 1 < remaining
               /\ next(n + 1).allowed => next(n + 1).remaining = remaining - (n + 1) - 1
    <3>1. n < remaining /\ n <= remaining
      BY <1>2, <2>1, <2>3
    <3>2. next(n).remaining = remaining - n - 1
      BY <3>1
    <3>3. /\ remaining - n - 1 > 0 <=> n + 1 < remaining
          /\ (remaining - n - 1) - 1 = remaining - (n + 1) - 1
      BY <1>2, <2>1
    <3> QED
      BY <2>2, <3>2, <3>3 DEF OneFewer
  <2> QED
    BY <2>1, <2>3
<1>5. told = Nat
  <2>1. told \in SUBSET Nat
    OBVIOUS
  <2> HIDE DEF told
  <2> QED
    BY <1>3, <1>4, <2>1, ByInduction
<1>6. ASSUME NEW n \in Nat, n <= remaining
      PROVE  next(n).allowed <=> n < remaining
  BY <1>5, <1>6
<1> HIDE DEF told
<1>7. \A n \in 0 .. remaining - 1 : n \in Nat /\ n <= remaining /\ n < remaining
  BY <1>2
<1>8. remaining <= remaining /\ ~(remaining < remaining)
  BY <1>2
<1> QED
  BY <1>2, <1>6, <1>7, <1>8

\* `remaining' is exact, whatever the rule, the entry and the order of the
\* stamps: exactly that many more requests at the same instant are admitted.
THEOREM RemainingIsExactHolds == AtomicSpec => []RemainingIsExact
<1>1. AtomicInit => NextHasOneFewer
  BY DEF AtomicInit, NoReply, NextHasOneFewer
<1>2. AtomicTypeOK /\ NextHasOneFewer /\ [AtomicNext]_atomicVars => NextHasOneFewer'
  BY NextHasOneFewerKept, RulesAssumption, TimeAssumption
<1>3. AtomicTypeOK /\ NextHasOneFewer => RemainingIsExact
  BY RunsOut, RulesAssumption, TimeAssumption, Zenon DEF RemainingIsExact
<1> QED
  BY <1>1, <1>2, <1>3, TypeCorrect, PTL DEF AtomicSpec

-----------------------------------------------------------------------------
(***************************************************************************)
(* While the stamps of a key arrive in order, as the documentation has it: *)
(* the history is in order too, the queue of a sliding window holds the    *)
(* requests in the window and no other, and a request of a fixed window    *)
(* falls into a later window than the one `limit' places before it.        *)
(***************************************************************************)

\* What holds of the history of each key while its stamps arrive in order.
OrderedAccounts ==
    /\ \A k \in Keys : Rising(granted[k], high[k])
    /\ \A k \in KeysUnder("sliding_window") : Fresh(db[k], high[k], RuleOf[k].window)
    /\ \A k \in KeysUnder("fixed_window") :
           Spaced(granted[k], RuleOf[k].limit, RuleOf[k].window)

LEMMA OrderedAccountsKept ==
    ASSUME RulesAssumption, TimeAssumption, AtomicTypeOK, Accounts, FixedAccounts',
           AtomicTypeOK', OrderedAccounts,
           NEW k \in Keys, NEW at \in Stamps, OrderedCommit(k, at)
    PROVE  OrderedAccounts'
<1>1. Commit(k, at) /\ at >= high[k] /\ at \in Nat
  BY DEF OrderedCommit, Stamps
<1>2. PICK result \in Outcome :
           /\ result = Decide(RuleOf[k], db[k], at)
           /\ result.entry \in EntryUnder(RuleOf[k])
           /\ db' = [db EXCEPT ![k] = result.entry]
           /\ granted' = [granted EXCEPT ![k] = History(granted[k], at, result)]
           /\ high' = [high EXCEPT ![k] = Later(high[k], at)]
           /\ reply' = [called |-> TRUE, key |-> k, now |-> at, result |-> result]
  BY <1>1, CommitEffect, Zenon
<1>3. /\ db[k] \in Entry /\ granted[k] \in Seq(Nat) /\ high[k] \in Nat
      /\ Rising(granted[k], high[k])
  BY KeyTypes DEF OrderedAccounts
<1>4. Later(high[k], at) = at
  BY <1>1, <1>3 DEF Later
<1>5. /\ db'[k] = result.entry
      /\ granted'[k] = History(granted[k], at, result)
      /\ high'[k] = at
      /\ \A j \in Keys \ {k} : db'[j] = db[j] /\ granted'[j] = granted[j] /\ high'[j] = high[j]
  BY <1>2, <1>4 DEF AtomicTypeOK
<1>6. ASSUME NEW j \in Keys
      PROVE  Rising(granted'[j], high'[j])
  <2>1. CASE j = k
    BY <1>1, <1>3, <1>5, <2>1, OrderGrows
  <2>2. CASE j # k
    BY <1>5, <2>2 DEF OrderedAccounts
  <2> QED
    BY <2>1, <2>2
<1>7. ASSUME NEW j \in KeysUnder("sliding_window")
      PROVE  Fresh(db'[j], high'[j], RuleOf[j].window)
  <2>1. CASE j = k
    <3>1. result = sliding_window(db[k], RuleOf[k].window, RuleOf[k].limit, at)
      BY <1>2, <2>1 DEF KeysUnder, Decide
    <3>2. /\ RuleOf[k].limit \in Positive /\ RuleOf[k].window \in Positive
          /\ SlidingAccount(db[k], granted[k], high[k], RuleOf[k].limit, RuleOf[k].window)
      BY <2>1, KeyTypes DEF Accounts
    <3>3. Fresh(result.entry, at, RuleOf[k].window)
      BY <1>1, <1>3, <3>1, <3>2, QueueStaysFresh
    <3> QED
      BY <1>5, <2>1, <3>3
  <2>2. CASE j # k
    BY <1>5, <2>2 DEF OrderedAccounts, KeysUnder
  <2> QED
    BY <2>1, <2>2
<1>8. ASSUME NEW j \in KeysUnder("fixed_window")
      PROVE  Spaced(granted'[j], RuleOf[j].limit, RuleOf[j].window)
  <2>1. CASE j = k
    <3>1. RuleOf[k].limit \in Positive /\ RuleOf[k].window \in Positive
      BY <2>1, FixedKeyTypes
    <3>2. Spaced(granted[k], RuleOf[k].limit, RuleOf[k].window)
      BY <2>1 DEF OrderedAccounts
    <3>3. result.entry \in Entry /\ Len(result.entry) \in {0, 2}
      BY <1>2, <2>1 DEF KeysUnder, EntryUnder
    <3>4. FixedAccount(db'[k], granted'[k], high'[k], RuleOf[k].limit, RuleOf[k].window)
      BY <2>1 DEF FixedAccounts, KeysUnder
    <3>5. FixedAccount(result.entry, History(granted[k], at, result), at,
                       RuleOf[k].limit, RuleOf[k].window)
      BY <1>5, <3>4
    <3>6. Spaced(History(granted[k], at, result), RuleOf[k].limit, RuleOf[k].window)
      BY <1>1, <1>3, <3>1, <3>2, <3>3, <3>5, SpacingGrows
    <3> QED
      BY <1>5, <2>1, <3>6
  <2>2. CASE j # k
    BY <1>5, <2>2 DEF OrderedAccounts, KeysUnder
  <2> QED
    BY <2>1, <2>2
<1> QED
  BY <1>6, <1>7, <1>8 DEF OrderedAccounts, KeysUnder

LEMMA OrderedAccountsHold == OrderedSpec => [](AtomicTypeOK /\ Accounts /\ OrderedAccounts)
<1>1. AtomicInit => OrderedAccounts
  <2> SUFFICES ASSUME AtomicInit PROVE OrderedAccounts
    OBVIOUS
  <2>1. \A k \in Keys : db[k] = <<>> /\ granted[k] = <<>>
    BY DEF AtomicInit
  <2>2. ASSUME NEW limit \in Positive
        PROVE  1 .. Len(<<>>) - limit = {}
    BY DEF Positive
  <2>3. \A k \in Keys : Rising(granted[k], high[k])
    BY <2>1 DEF Rising
  <2>4. \A k \in KeysUnder("sliding_window") : Fresh(db[k], high[k], RuleOf[k].window)
    BY <2>1 DEF Fresh, KeysUnder
  <2>5. ASSUME NEW k \in KeysUnder("fixed_window")
        PROVE  Spaced(granted[k], RuleOf[k].limit, RuleOf[k].window)
    <3>1. k \in Keys /\ RuleOf[k] \in LimitRule /\ RuleOf[k].algorithm = "fixed_window"
      BY RulesAssumption DEF KeysUnder
    <3>2. RuleOf[k].limit \in Positive
      BY <3>1 DEF LimitRule, WindowRule, BucketRule
    <3>3. 1 .. Len(granted[k]) - RuleOf[k].limit = {}
      BY <2>1, <2>2, <3>1, <3>2
    <3> QED
      BY <3>3 DEF Spaced
  <2> QED
    BY <2>3, <2>4, <2>5 DEF OrderedAccounts
<1>2. /\ AtomicTypeOK /\ Accounts /\ OrderedAccounts /\ [OrderedNext]_atomicVars
      /\ AtomicTypeOK' /\ FixedAccounts'
      => OrderedAccounts'
  <2> SUFFICES ASSUME AtomicTypeOK, Accounts, OrderedAccounts, [OrderedNext]_atomicVars,
                      AtomicTypeOK', FixedAccounts'
               PROVE  OrderedAccounts'
    OBVIOUS
  <2>1. CASE UNCHANGED atomicVars
    BY <2>1 DEF OrderedAccounts, atomicVars, KeysUnder
  <2>2. CASE OrderedNext
    BY <2>2, OrderedAccountsKept, RulesAssumption, TimeAssumption DEF OrderedNext
  <2> QED
    BY <2>1, <2>2
<1> QED
  BY <1>1, <1>2, OrderedIsAtomic, AccountsHold, FixedAccountsHold, PTL DEF OrderedSpec

\* While the stamps of a key arrive in order, the length of a sliding window's
\* queue is the number of requests in the window.
THEOREM QueueIsWindowHolds == OrderedSpec => []QueueIsWindow
<1>1. AtomicTypeOK /\ Accounts /\ OrderedAccounts => QueueIsWindow
  <2> SUFFICES ASSUME AtomicTypeOK, Accounts, OrderedAccounts,
                      NEW k \in KeysUnder("sliding_window")
               PROVE  Len(db[k]) =
                          Cardinality({i \in DOMAIN granted[k] : Age(k, i) < RuleOf[k].window})
    BY Zenon DEF QueueIsWindow
  <2>1. k \in Keys
    BY DEF KeysUnder
  <2>2. /\ db[k] \in Entry /\ granted[k] \in Seq(Nat) /\ high[k] \in Nat
        /\ RuleOf[k].limit \in Positive /\ RuleOf[k].window \in Positive
    BY <2>1, KeyTypes, RulesAssumption, TimeAssumption
  <2>3. /\ SlidingAccount(db[k], granted[k], high[k], RuleOf[k].limit, RuleOf[k].window)
        /\ Fresh(db[k], high[k], RuleOf[k].window)
    BY DEF Accounts, OrderedAccounts
  <2>4. Len(db[k]) =
            Cardinality({i \in DOMAIN granted[k] : high[k] - granted[k][i] < RuleOf[k].window})
    <3>1. PICK q \in Entry, g \in Seq(Nat), latest \in Nat,
               limit \in Positive, window \in Positive :
              /\ q = db[k] /\ g = granted[k] /\ latest = high[k]
              /\ limit = RuleOf[k].limit /\ window = RuleOf[k].window
      BY <2>2
    <3>2. SlidingAccount(q, g, latest, limit, window) /\ Fresh(q, latest, window)
      BY <2>3, <3>1
    <3>3. Len(q) = Cardinality({i \in DOMAIN g : latest - g[i] < window})
      BY <3>2, QueueCounts
    <3> QED
      BY <3>1, <3>3
  <2> QED
    BY <2>4, Zenon DEF Age
<1> QED
  BY <1>1, OrderedAccountsHold, PTL

\* While the stamps of a key arrive in order, no aligned window of its fixed window
\* sees more than `limit' requests stamped in it.
THEOREM FixedPerWindowHolds == OrderedSpec => []FixedPerWindow
<1>1. AtomicTypeOK /\ OrderedAccounts => FixedPerWindow
  <2> SUFFICES ASSUME AtomicTypeOK, OrderedAccounts,
                      NEW k \in KeysUnder("fixed_window"), NEW i \in DOMAIN granted[k]
               PROVE  Cardinality({j \in DOMAIN granted[k] :
                                       Aligned(granted[k][j], RuleOf[k].window)
                                           = Aligned(granted[k][i], RuleOf[k].window)})
                          <= RuleOf[k].limit
    BY DEF FixedPerWindow
  <2>1. /\ k \in Keys
        /\ RuleOf[k].limit \in Positive /\ RuleOf[k].window \in Positive
    BY FixedKeyTypes, RulesAssumption
  <2>2. granted[k] \in Seq(Nat)
    BY <2>1, KeyTypes, RulesAssumption, TimeAssumption
  <2>3. Rising(granted[k], high[k]) /\ Spaced(granted[k], RuleOf[k].limit, RuleOf[k].window)
    BY <2>1 DEF OrderedAccounts
  <2> QED
    BY <2>1, <2>2, <2>3, WindowHoldsFew
<1> QED
  BY <1>1, OrderedAccountsHold, PTL

-----------------------------------------------------------------------------
(***************************************************************************)
(* The threads.                                                            *)
(***************************************************************************)

\* Types of everything but the dictionary and what was read from it.
ThreadTypes ==
    /\ clock \in Stamps
    /\ stepsBack \in Nat
    /\ keyLocks \in [Keys -> Lock \cup {NoLock}]
    /\ globalOwner \in Threads \cup {NoThread}
    /\ owner \in [Lock -> Threads \cup {NoThread}]
    /\ pc \in [Threads -> PC]
    /\ key \in [Threads -> Keys]
    /\ now \in [Threads -> Stamps]
    /\ lock \in [Threads -> Lock \cup {NoLock}]
    /\ entry = [t \in Threads |-> entry[t]]
    /\ checks \in [Threads -> Nat]

\* Only one thread at a time is where locks are installed.
GlobalSection ==
    \A t \in Threads : pc[t] \in {"recheck", "install", "leave"} => globalOwner = t

\* What the table says of the key's lock while a thread looks for it.
LockFound ==
    \A t \in Threads :
        /\ pc[t] = "install" => keyLocks[key[t]] = NoLock
        /\ pc[t] \in {"leave", "reread"} => keyLocks[key[t]] # NoLock
        /\ pc[t] \in {"acquire", "load", "store", "release"} =>
               keyLocks[key[t]] # NoLock /\ lock[t] = keyLocks[key[t]]

\* A thread inside `with lock' owns the lock.
LockHeld == \A t \in Threads : InCriticalSection(t) => owner[lock[t]] = t

\* What was read is still in the dictionary when it is written.
EntryFresh == \A t \in Threads : pc[t] = "store" => entry[t] = db[key[t]]

LockInv == GlobalSection /\ LockFound /\ LockHeld /\ EntryFresh

\* No thread shares the key of a thread inside `with lock'.
LEMMA LocksExclude == ThreadTypes /\ LockInv => MutualExclusion
<1> SUFFICES ASSUME ThreadTypes, LockInv, NEW t \in Threads, NEW u \in Threads, t # u,
                    InCriticalSection(t), InCriticalSection(u), key[t] = key[u]
             PROVE  FALSE
  BY DEF MutualExclusion
<1>1. lock[t] = lock[u]
  BY DEF LockInv, LockFound, InCriticalSection
<1>2. owner[lock[t]] = t /\ owner[lock[u]] = u
  BY DEF LockInv, LockHeld
<1> QED
  BY <1>1, <1>2

LEMMA LockIsNotNoLock == \A l \in Lock : l # NoLock
  BY DEF Lock, NoLock

\* A step of a thread keeps the types.
LEMMA ThreadTypesKept ==
    ASSUME ThreadsAssumption, TimeAssumption, ThreadTypes, LockInv, [Next]_vars
    PROVE  ThreadTypes'
<1> USE DEF ThreadTypes, lockVars, timeVars, localVars
<1>1. CASE UNCHANGED vars
  BY <1>1 DEF vars
<1>2. CASE Tick
  BY <1>2 DEF Tick, Stamps, TimeAssumption
<1>3. CASE StepBack
  BY <1>3 DEF StepBack, Stamps, TimeAssumption
<1>4. CASE Finished
  BY <1>4 DEF Finished, vars
<1>5. ASSUME NEW t \in Threads, Step(t)
      PROVE  ThreadTypes'
  <2>1. CASE Begin(t)
    BY <2>1 DEF Begin, Goto, PC
  <2>2. CASE FindLock(t)
    BY <2>2 DEF FindLock, Goto, PC
  <2>3. CASE MissLock(t)
    BY <2>3 DEF MissLock, Goto, PC
  <2>4. CASE EnterGlobal(t)
    BY <2>4 DEF EnterGlobal, Goto, PC
  <2>5. CASE Recheck(t)
    BY <2>5 DEF Recheck, Goto, PC
  <2>6. CASE InstallLock(t)
    BY <2>6 DEF InstallLock, Goto, PC, Lock
  <2>7. CASE LeaveGlobal(t)
    BY <2>7 DEF LeaveGlobal, Goto, PC
  <2>8. CASE RereadLock(t)
    BY <2>8 DEF RereadLock, Goto, PC
  <2>9. CASE Acquire(t)
    BY <2>9 DEF Acquire, Goto, PC
  <2>10. CASE Load(t)
    BY <2>10 DEF Load, Goto, PC
  <2>11. CASE Store(t)
    BY <2>11 DEF Store, Goto, PC
  <2>12. CASE Release(t)
    BY <2>12 DEF Release, Goto, PC
  <2> QED
    BY <1>5, <2>1, <2>2, <2>3, <2>4, <2>5, <2>6, <2>7, <2>8, <2>9, <2>10, <2>11, <2>12 DEF Step
<1> QED
  BY <1>1, <1>2, <1>3, <1>4, <1>5 DEF Next

\* A step of a thread keeps the lock invariant.  Only the actions that move a
\* lock, the table or the dictionary can disturb what holds of other threads.
LEMMA LockInvKept ==
    ASSUME ThreadsAssumption, ThreadTypes, LockInv, NEW t \in Threads, Step(t)
    PROVE  LockInv'
<1>0. NoThread \notin Threads
  BY DEF ThreadsAssumption
<1>1. CASE Begin(t)
  BY <1>1 DEF Begin, Goto, ThreadTypes, LockInv, GlobalSection, LockFound, LockHeld, EntryFresh,
     InCriticalSection, lockVars, atomicVars
<1>2. CASE FindLock(t)
  BY <1>2 DEF FindLock, Goto, ThreadTypes, LockInv, GlobalSection, LockFound, LockHeld, EntryFresh,
     InCriticalSection, lockVars, atomicVars
<1>3. CASE MissLock(t)
  BY <1>3 DEF MissLock, Goto, ThreadTypes, LockInv, GlobalSection, LockFound, LockHeld, EntryFresh,
     InCriticalSection, lockVars, atomicVars
<1>4. CASE EnterGlobal(t)
  BY <1>0, <1>4 DEF EnterGlobal, Goto, ThreadTypes, LockInv, GlobalSection, LockFound, LockHeld,
     EntryFresh, InCriticalSection, atomicVars
<1>5. CASE Recheck(t)
  BY <1>5 DEF Recheck, Goto, ThreadTypes, LockInv, GlobalSection, LockFound, LockHeld, EntryFresh,
     InCriticalSection, lockVars, atomicVars
<1>6. CASE InstallLock(t)
  <2> USE <1>6 DEF InstallLock, Goto
  <2>1. /\ pc[t] = "install" /\ keyLocks[key[t]] = NoLock
        /\ pc' = [pc EXCEPT ![t] = "leave"]
        /\ keyLocks' = [keyLocks EXCEPT ![key[t]] = <<key[t], t>>]
        /\ <<key[t], t>> # NoLock
    BY DEF LockInv, LockFound, NoLock
  <2>2. \A u \in Threads \ {t} : pc[u] # "install"
    BY <2>1 DEF LockInv, GlobalSection
  <2>3. GlobalSection'
    BY <2>1 DEF LockInv, GlobalSection, ThreadTypes
  <2>4. LockFound'
    BY <2>1, <2>2 DEF LockInv, LockFound, ThreadTypes
  <2>5. LockHeld' /\ EntryFresh'
    BY <2>1 DEF LockInv, LockHeld, EntryFresh, InCriticalSection, ThreadTypes, atomicVars
  <2> QED
    BY <2>3, <2>4, <2>5 DEF LockInv
<1>7. CASE LeaveGlobal(t)
  BY <1>0, <1>7 DEF LeaveGlobal, Goto, ThreadTypes, LockInv, GlobalSection, LockFound, LockHeld,
     EntryFresh, InCriticalSection, atomicVars
<1>8. CASE RereadLock(t)
  BY <1>8 DEF RereadLock, Goto, ThreadTypes, LockInv, GlobalSection, LockFound, LockHeld, EntryFresh,
     InCriticalSection, lockVars, atomicVars
<1>9. CASE Acquire(t)
  <2>1. /\ pc[t] = "acquire" /\ pc' = [pc EXCEPT ![t] = "load"]
        /\ owner[lock[t]] = NoThread /\ owner' = [owner EXCEPT ![lock[t]] = t]
        /\ UNCHANGED <<keyLocks, globalOwner, key, lock, entry, db>>
    BY <1>9 DEF Acquire, Goto, atomicVars
  <2>2. lock[t] \in Lock
    BY <2>1 DEF LockInv, LockFound, ThreadTypes
  <2>3. \A u \in Threads : InCriticalSection(u) => lock[u] # lock[t]
    BY <1>0, <2>1 DEF LockInv, LockHeld
  <2>4. GlobalSection' /\ LockFound' /\ EntryFresh'
    BY <2>1 DEF LockInv, GlobalSection, LockFound, EntryFresh, ThreadTypes
  <2>5. LockHeld'
    BY <2>1, <2>2, <2>3 DEF LockInv, LockHeld, InCriticalSection, ThreadTypes
  <2> QED
    BY <2>4, <2>5 DEF LockInv
<1>10. CASE Load(t)
  BY <1>10 DEF Load, Goto, ThreadTypes, LockInv, GlobalSection, LockFound, LockHeld, EntryFresh,
     InCriticalSection, lockVars, atomicVars
<1>11. CASE Store(t)
  <2>1. /\ pc[t] = "store" /\ pc' = [pc EXCEPT ![t] = "release"]
        /\ UNCHANGED <<keyLocks, globalOwner, owner, key, lock, entry>>
    BY <1>11 DEF Store, Goto, lockVars
  <2>2. PICK written : db' = [db EXCEPT ![key[t]] = written]
    BY <1>11, Zenon DEF Store, Record
  <2>3. \A u \in Threads \ {t} : pc[u] = "store" => key[u] # key[t]
    BY <2>1, LocksExclude DEF MutualExclusion, InCriticalSection
  <2>4. GlobalSection' /\ LockFound' /\ LockHeld'
    BY <2>1 DEF LockInv, GlobalSection, LockFound, LockHeld, InCriticalSection, ThreadTypes
  <2>5. EntryFresh'
    BY <2>1, <2>2, <2>3 DEF LockInv, EntryFresh, ThreadTypes
  <2> QED
    BY <2>4, <2>5 DEF LockInv
<1>12. CASE Release(t)
  <2>1. /\ pc[t] = "release" /\ pc' = [pc EXCEPT ![t] = "idle"]
        /\ owner' = [owner EXCEPT ![lock[t]] = NoThread]
        /\ UNCHANGED <<keyLocks, globalOwner, key, lock, entry, db>>
    BY <1>12 DEF Release, Goto, atomicVars
  <2>2. \A u \in Threads \ {t} : InCriticalSection(u) => lock[u] # lock[t]
    BY <2>1 DEF LockInv, LockHeld, InCriticalSection
  <2>3. GlobalSection' /\ LockFound' /\ EntryFresh'
    BY <2>1 DEF LockInv, GlobalSection, LockFound, EntryFresh, ThreadTypes
  <2>4. LockHeld'
    BY <2>1, <2>2 DEF LockInv, LockHeld, InCriticalSection, ThreadTypes
  <2> QED
    BY <2>3, <2>4 DEF LockInv
<1> QED
  BY <1>1, <1>2, <1>3, <1>4, <1>5, <1>6, <1>7, <1>8, <1>9, <1>10, <1>11, <1>12 DEF Step

\* The lock invariant holds throughout.
LEMMA LocksCorrect == Spec => [](ThreadTypes /\ LockInv)
<1>1. Init => ThreadTypes /\ LockInv
  BY TimeAssumption DEF Init, ThreadTypes, LockInv, GlobalSection, LockFound, LockHeld, EntryFresh,
     InCriticalSection, PC, Stamps, TimeAssumption
<1>2. ThreadTypes /\ LockInv /\ [Next]_vars => (ThreadTypes /\ LockInv)'
  <2> SUFFICES ASSUME ThreadTypes, LockInv, [Next]_vars
               PROVE  ThreadTypes' /\ LockInv'
    OBVIOUS
  <2>1. ThreadTypes'
    BY ThreadTypesKept, ThreadsAssumption, TimeAssumption
  <2>2. ASSUME UNCHANGED <<lockVars, localVars, atomicVars>>
        PROVE  LockInv'
    BY <2>2 DEF LockInv, GlobalSection, LockFound, LockHeld, EntryFresh, InCriticalSection,
       lockVars, localVars, atomicVars
  <2>3. CASE Tick \/ StepBack \/ Finished \/ UNCHANGED vars
    BY <2>1, <2>2, <2>3 DEF Tick, StepBack, Finished, vars
  <2>4. CASE \E t \in Threads : Step(t)
    BY <2>1, <2>4, LockInvKept, ThreadsAssumption
  <2> QED
    BY <2>1, <2>3, <2>4 DEF Next
<1> QED
  BY <1>1, <1>2, PTL DEF Spec

-----------------------------------------------------------------------------
\* Two checks of one key are never inside their read-modify-write together.
THEOREM MutualExclusionHolds == Spec => []MutualExclusion
  BY LocksCorrect, LocksExclude, PTL

\* The threads of MemoryStorage implement the atomic storage: the Store of a
\* check is its one call, and every other step leaves the storage as it is.
THEOREM ThreadsImplementAtomicSpec == Spec => AtomicSpec
<1>1. Init => AtomicInit
  BY DEF Init
<1>2. ThreadTypes /\ LockInv /\ [Next]_vars => [AtomicNext]_atomicVars
  <2> SUFFICES ASSUME ThreadTypes, LockInv, [Next]_vars
               PROVE  [AtomicNext]_atomicVars
    OBVIOUS
  <2>1. CASE Tick \/ StepBack \/ Finished \/ UNCHANGED vars
    BY <2>1 DEF Tick, StepBack, Finished, vars
  <2>2. ASSUME NEW t \in Threads, Step(t)
        PROVE  [AtomicNext]_atomicVars
    <3>1. CASE Store(t)
      <4>1. entry[t] = db[key[t]] /\ key[t] \in Keys /\ now[t] \in Stamps
        BY <3>1 DEF Store, Goto, LockInv, EntryFresh, ThreadTypes
      <4>2. Commit(key[t], now[t])
        BY <3>1, <4>1, Zenon DEF Store, Commit
      <4> QED
        BY <4>1, <4>2, Zenon DEF AtomicNext
    <3>2. CASE ~Store(t)
      BY <2>2, <3>2 DEF Step, Begin, FindLock, MissLock, EnterGlobal, Recheck, InstallLock,
         LeaveGlobal, RereadLock, Acquire, Load, Release
    <3> QED
      BY <3>1, <3>2
  <2> QED
    BY <2>1, <2>2 DEF Next
<1> QED
  BY <1>1, <1>2, LocksCorrect, PTL DEF Spec, AtomicSpec

\* GCRA keeps to its burst and rate under any number of threads.
THEOREM ThreadsKeepGcraEnvelope == Spec => []GcraEnvelope
  BY ThreadsImplementAtomicSpec, GcraEnvelopeHolds, PTL

\* Sliding window keeps to its limit under any number of threads.
THEOREM ThreadsKeepSlidingEnvelope == Spec => []SlidingEnvelope
  BY ThreadsImplementAtomicSpec, SlidingEnvelopeHolds, PTL

\* The leaky bucket keeps to its capacity and rate under any number of threads.
THEOREM ThreadsKeepLeakyEnvelope == Spec => []LeakyEnvelope
  BY ThreadsImplementAtomicSpec, LeakyEnvelopeHolds, PTL

\* Fixed window keeps to its limit on the two sides of a boundary under any number of
\* threads.
THEOREM ThreadsKeepFixedEnvelope == Spec => []FixedEnvelope
  BY ThreadsImplementAtomicSpec, FixedEnvelopeHolds, PTL

\* A thread that was denied and comes back when it was told is admitted, unless
\* another one came in between.
THEOREM ThreadsHonourRetry == Spec => []RetryHonoured
  BY ThreadsImplementAtomicSpec, RetryHonouredHolds, PTL

\* And what it is told to be left is left, to the last request.
THEOREM ThreadsTellRemaining == Spec => []RemainingIsExact
  BY ThreadsImplementAtomicSpec, RemainingIsExactHolds, PTL

\* Every reachable state of the threads is well typed.
THEOREM ThreadsTypeCorrect == Spec => []TypeOK
<1> DEFINE EntriesRead == entry \in [Threads -> Entry]
<1>1. Init => EntriesRead
  BY DEF Init, Entry
<1>2. ThreadTypes /\ AtomicTypeOK /\ EntriesRead /\ [Next]_vars => EntriesRead'
  <2> SUFFICES ASSUME ThreadTypes, AtomicTypeOK, EntriesRead, [Next]_vars
               PROVE  EntriesRead'
    OBVIOUS
  <2>1. CASE Tick \/ StepBack \/ Finished \/ UNCHANGED vars
    BY <2>1 DEF Tick, StepBack, Finished, vars, localVars
  <2>2. ASSUME NEW t \in Threads, Step(t)
        PROVE  EntriesRead'
    <3>1. CASE Load(t)
      <4>1. db[key[t]] \in Entry
        BY KeyTypes, RulesAssumption, TimeAssumption DEF ThreadTypes
      <4> QED
        BY <3>1, <4>1 DEF Load
    <3>2. CASE ~Load(t)
      BY <2>2, <3>2 DEF Step, Begin, FindLock, MissLock, EnterGlobal, Recheck, InstallLock,
         LeaveGlobal, RereadLock, Acquire, Store, Release
    <3> QED
      BY <3>1, <3>2
  <2> QED
    BY <2>1, <2>2 DEF Next
<1>3. ThreadTypes /\ EntriesRead /\ AtomicTypeOK => TypeOK
  BY DEF ThreadTypes, TypeOK
<1> QED
  BY <1>1, <1>2, <1>3, LocksCorrect, ThreadsImplementAtomicSpec, TypeCorrect, PTL DEF Spec
=============================================================================
