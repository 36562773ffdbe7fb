---------------------------- MODULE MemoryStorage ----------------------------
(***************************************************************************)
(* core/storage/memory.py under the threads of a server: MemoryStorage     *)
(* with its five dictionaries, one lock per storage key created on demand  *)
(* under a global lock, and the `check' of core/algorithms that reads the  *)
(* clock and then calls it.                                                *)
(*                                                                         *)
(* A thread runs one check at a time:                                      *)
(*   idle     Begin       now = time.time(); storage_key = ...             *)
(*   find     FindLock or MissLock     `if key in self._key_locks'         *)
(*   global   EnterGlobal              `with self._global_lock'            *)
(*   recheck  Recheck                  `if key not in self._key_locks'     *)
(*   install  InstallLock              self._key_locks[key] = Lock()       *)
(*   leave    LeaveGlobal              end of the `with' block             *)
(*   reread   RereadLock               return self._key_locks[key]         *)
(*   acquire  Acquire                  `with lock'                         *)
(*   load     Load                     the dictionary read                 *)
(*   store    Store                    decision and dictionary write       *)
(*   release  Release                  end of the with block, return       *)
(* Other threads may run between any two of these steps.                   *)
(*                                                                         *)
(* The module extends AtomicStorage: db, granted, high and reply are its   *)
(* variables, and that the threads implement it is AtomicSpec itself.      *)
(***************************************************************************)
EXTENDS AtomicStorage

CONSTANTS
    Threads,       \* threads that call check
    NoThread,      \* the owner of a free lock
    MaxChecks,     \* bound: checks made by one thread
    MaxStepsBack   \* bound: times the system clock is set back

ASSUME ThreadsAssumption == NoThread \notin Threads

\* A threading.Lock: the key it was created for and the thread that created it.
Lock == Keys \X Threads
NoLock == <<>>

PC == {"idle", "find", "global", "recheck", "install", "leave", "reread",
       "acquire", "load", "store", "release"}

VARIABLES
    clock,        \* time.time(), which may be set back
    stepsBack,    \* how often it was
    keyLocks,     \* _key_locks: key -> lock, NoLock when absent
    globalOwner,  \* the thread inside `with self._global_lock'
    owner,        \* the thread that holds each key lock
    \* Locals of each thread:
    pc, key, now, lock, entry,
    checks        \* checks begun so far

lockVars  == <<keyLocks, globalOwner, owner>>
timeVars  == <<clock, stepsBack>>
localVars == <<pc, key, now, lock, entry, checks>>
vars      == <<lockVars, timeVars, localVars, atomicVars>>

TypeOK ==
    /\ clock \in Stamps
    /\ stepsBack \in Nat
    /\ keyLocks \in [Keys -> Lock \cup {NoLock}]
    /\ globalOwner \in Threads \cup {NoThread}
    /\ owner \in [Lock -> Threads \cup {NoThread}]
    /\ pc \in [Threads -> PC]
    /\ key \in [Threads -> Keys]
    /\ now \in [Threads -> Stamps]
    /\ lock \in [Threads -> Lock \cup {NoLock}]
    /\ entry \in [Threads -> Entry]
    /\ checks \in [Threads -> Nat]
    /\ AtomicTypeOK

Init ==
    /\ clock = 0
    /\ stepsBack = 0
    /\ keyLocks = [k \in Keys |-> NoLock]
    /\ globalOwner = NoThread
    /\ owner = [l \in Lock |-> NoThread]
    /\ pc = [t \in Threads |-> "idle"]
    /\ key \in [Threads -> Keys]
    /\ now = [t \in Threads |-> 0]
    /\ lock = [t \in Threads |-> NoLock]
    /\ entry = [t \in Threads |-> <<>>]
    /\ checks = [t \in Threads |-> 0]
    /\ AtomicInit

-----------------------------------------------------------------------------

Goto(t, from, to) == pc[t] = from /\ pc' = [pc EXCEPT ![t] = to]

\* The algorithm's check: the stamp is read here, before any lock is held.
Begin(t) ==
    /\ Goto(t, "idle", "find")
    /\ checks[t] < MaxChecks
    /\ checks' = [checks EXCEPT ![t] = @ + 1]
    /\ \E k \in Keys : key' = [key EXCEPT ![t] = k]
    /\ now' = [now EXCEPT ![t] = clock]
    /\ UNCHANGED <<lockVars, timeVars, lock, entry, atomicVars>>

\* get_lock, the fast path taken without the global lock.
FindLock(t) ==
    /\ Goto(t, "find", "acquire")
    /\ keyLocks[key[t]] # NoLock
    /\ lock' = [lock EXCEPT ![t] = keyLocks[key[t]]]
    /\ UNCHANGED <<lockVars, timeVars, key, now, entry, checks, atomicVars>>

MissLock(t) ==
    /\ Goto(t, "find", "global")
    /\ keyLocks[key[t]] = NoLock
    /\ UNCHANGED <<lockVars, timeVars, key, now, lock, entry, checks, atomicVars>>

\* No global lock.
EnterGlobalUnguarded_mutant(t) ==
    /\ Goto(t, "global", "recheck")
    /\ globalOwner' = t
    /\ UNCHANGED <<keyLocks, owner, timeVars, key, now, lock, entry, checks, atomicVars>>

EnterGlobal(t) ==
    /\ Goto(t, "global", "recheck")
    /\ globalOwner = NoThread
    /\ globalOwner' = t
    /\ UNCHANGED <<keyLocks, owner, timeVars, key, now, lock, entry, checks, atomicVars>>

\* No second look at the table.
RecheckSkipped_mutant(t) ==
    /\ Goto(t, "recheck", "install")
    /\ UNCHANGED <<lockVars, timeVars, key, now, lock, entry, checks, atomicVars>>

\* Another thread may have created the lock while t waited for the global one.
Recheck(t) ==
    /\ Goto(t, "recheck", IF keyLocks[key[t]] = NoLock THEN "install" ELSE "leave")
    /\ UNCHANGED <<lockVars, timeVars, key, now, lock, entry, checks, atomicVars>>

InstallLock(t) ==
    /\ Goto(t, "install", "leave")
    /\ keyLocks' = [keyLocks EXCEPT ![key[t]] = <<key[t], t>>]
    /\ UNCHANGED <<globalOwner, owner, timeVars, key, now, lock, entry, checks, atomicVars>>

\* The global lock is not given back.
LeaveGlobalKept_mutant(t) ==
    /\ Goto(t, "leave", "reread")
    /\ UNCHANGED <<lockVars, timeVars, key, now, lock, entry, checks, atomicVars>>

LeaveGlobal(t) ==
    /\ Goto(t, "leave", "reread")
    /\ globalOwner' = NoThread
    /\ UNCHANGED <<keyLocks, owner, timeVars, key, now, lock, entry, checks, atomicVars>>

RereadLock(t) ==
    /\ Goto(t, "reread", "acquire")
    /\ lock' = [lock EXCEPT ![t] = keyLocks[key[t]]]
    /\ UNCHANGED <<lockVars, timeVars, key, now, entry, checks, atomicVars>>

Acquire(t) ==
    /\ Goto(t, "acquire", "load")
    /\ owner[lock[t]] = NoThread
    /\ owner' = [owner EXCEPT ![lock[t]] = t]
    /\ UNCHANGED <<keyLocks, globalOwner, timeVars, key, now, lock, entry, checks, atomicVars>>

\* The dictionary read.
Load(t) ==
    /\ Goto(t, "load", "store")
    /\ entry' = [entry EXCEPT ![t] = db[key[t]]]
    /\ UNCHANGED <<lockVars, timeVars, key, now, lock, checks, atomicVars>>

\* The decision on what was read, and the dictionary write.
Store(t) ==
    /\ Goto(t, "store", "release")
    /\ Record(key[t], now[t], Decide(RuleOf[key[t]], entry[t], now[t]))
    /\ UNCHANGED <<lockVars, timeVars, key, now, lock, entry, checks>>

Release(t) ==
    /\ Goto(t, "release", "idle")
    /\ owner' = [owner EXCEPT ![lock[t]] = NoThread]
    /\ UNCHANGED <<keyLocks, globalOwner, timeVars, key, now, lock, entry, checks, atomicVars>>

Step(t) ==
    \/ Begin(t) \/ FindLock(t) \/ MissLock(t) \/ EnterGlobal(t) \/ Recheck(t)
    \/ InstallLock(t) \/ LeaveGlobal(t) \/ RereadLock(t) \/ Acquire(t) \/ Load(t) \/ Store(t) \/ Release(t)

-----------------------------------------------------------------------------

Tick ==
    /\ clock < MaxTime
    /\ clock' = clock + 1
    /\ UNCHANGED <<stepsBack, lockVars, localVars, atomicVars>>

\* The system clock is set back (NTP, an operator); time.time() follows it.
StepBack ==
    /\ stepsBack < MaxStepsBack
    /\ stepsBack' = stepsBack + 1
    /\ \E earlier \in 0 .. clock - 1 : clock' = earlier
    /\ UNCHANGED <<lockVars, localVars, atomicVars>>

\* Every thread has made its last check: nothing is left to do.
Finished ==
    /\ \A t \in Threads : pc[t] = "idle" /\ checks[t] = MaxChecks
    /\ UNCHANGED vars

Next == Tick \/ StepBack \/ Finished \/ \E t \in Threads : Step(t)

Spec == Init /\ [][Next]_vars

\* The operating system runs every thread that can run.  A lock is not fair:
\* a waiter gets it only when it is free and stays free.
FairSpec == Spec /\ \A t \in Threads : WF_vars(Step(t))

-----------------------------------------------------------------------------

\* The threads inside `with lock'.
InCriticalSection(t) == pc[t] \in {"load", "store", "release"}

\* Two checks of one key are never inside their read-modify-write together,
\* which get_lock ensures by never letting two locks for one key get out.
MutualExclusion ==
    \A t, u \in Threads :
        t # u /\ InCriticalSection(t) /\ InCriticalSection(u) => key[t] # key[u]

\* Every check returns, although the key locks are not fair, because the
\* threads stop asking.
EveryCheckReturns == \A t \in Threads : pc[t] # "idle" ~> pc[t] = "idle"
=============================================================================
