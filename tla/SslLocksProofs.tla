---------------------------- MODULE SslLocksProofs ----------------------------
(***************************************************************************)
(* Theorems about SslLocks, for any number of locks and of sessions.       *)
(***************************************************************************)
EXTENDS SslLocks, TLAPS

\* OpenSSL takes no lock twice.
Distinct == \A i, j \in DOMAIN wants : wants[i] = wants[j] => i = j

\* LocksMatch by itself does not say that an array can be replaced between two
\* sessions only, when nothing is held, nor that an array there is once callbacks are.
LocksInv ==
    /\ TypeOK
    /\ Distinct
    /\ LocksMatch
    /\ phase = "between" => wants = <<>>
    /\ callbacks = "set" => arrays > 0
    /\ CrashNeedsEarlierSetup

\* What is held once a lock has been taken.
LEMMA TakeHolds ==
    ASSUME LocksInv, NEW n \in Locks \cup {Dyn}, Take(n)
    PROVE  /\ wants' \in Seq(Locks \cup {Dyn})
           /\ Held' = Held \cup {n}
           /\ Distinct'
<1>1. wants \in Seq(Locks \cup {Dyn}) /\ Distinct
  BY DEF LocksInv, TypeOK
<1>2. wants' = Append(wants, n) /\ \A i \in DOMAIN wants : wants[i] # n
  BY DEF Take, Held
<1>3. DOMAIN wants' = DOMAIN wants \cup {Len(wants) + 1} /\ Len(wants) \in Nat
  BY <1>1, <1>2
<1>4. \A i \in DOMAIN wants : wants'[i] = wants[i] /\ i # Len(wants) + 1
  BY <1>1, <1>2
<1>5. wants'[Len(wants) + 1] = n
  BY <1>1, <1>2
<1>6. Held' = Held \cup {n}
  BY <1>3, <1>4, <1>5 DEF Held
<1>7. Distinct'
  BY <1>1, <1>2, <1>3, <1>4, <1>5 DEF Distinct
<1> QED
  BY <1>1, <1>2, <1>6, <1>7

\* What is held once the last lock taken has been given back.
LEMMA GiveBackHolds ==
    ASSUME LocksInv, NEW n, GiveBack(n)
    PROVE  /\ n \in Held
           /\ wants' \in Seq(Locks \cup {Dyn})
           /\ Held' = Held \ {n}
           /\ Distinct'
<1>1. wants \in Seq(Locks \cup {Dyn}) /\ Distinct
  BY DEF LocksInv, TypeOK
<1>2. wants # <<>> /\ n = wants[Len(wants)] /\ wants' = SubSeq(wants, 1, Len(wants) - 1)
  BY DEF GiveBack
<1>3. Len(wants) \in DOMAIN wants /\ DOMAIN wants = 1..Len(wants) /\ Len(wants) \in Nat
  BY <1>1, <1>2
<1>4. wants' \in Seq(Locks \cup {Dyn}) /\ DOMAIN wants' = 1..(Len(wants) - 1)
  BY <1>1, <1>2, <1>3
<1>5. \A i \in 1..(Len(wants) - 1) : wants'[i] = wants[i]
  BY <1>1, <1>2, <1>3
<1>6. \A i \in 1..(Len(wants) - 1) : wants[i] # n
  BY <1>1, <1>2, <1>3 DEF Distinct
<1>7. Held' = Held \ {n}
  <2>1. Held' = {wants[i] : i \in 1..(Len(wants) - 1)}
    BY <1>4, <1>5 DEF Held
  <2>2. \A i \in DOMAIN wants : i \in 1..(Len(wants) - 1) \/ i = Len(wants)
    BY <1>3
  <2>3. 1..(Len(wants) - 1) \subseteq DOMAIN wants
    BY <1>3
  <2> QED
    BY <1>2, <1>6, <2>1, <2>2, <2>3, Zenon DEF Held
<1>8. Distinct'
  BY <1>1, <1>3, <1>4, <1>5 DEF Distinct
<1>9. n \in Held
  BY <1>2, <1>3 DEF Held
<1> QED
  BY <1>4, <1>7, <1>8, <1>9

LEMMA LocksInvInductive == LocksInv /\ [Next]_vars => LocksInv'
<1> SUFFICES ASSUME LocksInv, [Next]_vars PROVE LocksInv'
  OBVIOUS
<1> USE SslLocksAssumption DEF LocksInv, LocksMatch, CrashNeedsEarlierSetup, InSession,
        NULL, Dyn, Locks
<1>1. CASE ssl_thread_setup
  <2>1. wants = <<>> /\ Held = {} /\ locked = {} /\ UNCHANGED <<wants, locked>>
    BY <1>1 DEF ssl_thread_setup, BeginSession, Held
  <2>2. Held' = {}
    BY <2>1 DEF Held
  <2>3. TypeOK'
    BY <1>1, <2>1 DEF ssl_thread_setup, BeginSession, TypeOK
  <2> QED
    BY <1>1, <2>1, <2>2, <2>3 DEF ssl_thread_setup, BeginSession, TypeOK, Distinct
<1>2. ASSUME NEW n \in Locks, Lock(n) PROVE LocksInv'
  <2>1. /\ wants' \in Seq(Locks \cup {Dyn})
        /\ Held' = Held \cup {n}
        /\ Distinct'
    BY <1>2, TakeHolds DEF Lock
  <2>2. CASE mutex_buf = NULL
    BY <1>2, <2>1, <2>2 DEF Lock, TypeOK
  <2>3. CASE mutex_buf # NULL
    <3>1. locked' = {<<mutex_buf', k>> : k \in Held' \ {Dyn}}
      BY <1>2, <2>1, <2>3 DEF Lock
    <3>2. TypeOK'
      BY <1>2, <2>1, <2>3 DEF Lock, TypeOK
    <3> QED
      BY <1>2, <2>1, <2>3, <3>1, <3>2 DEF Lock
  <2> QED
    BY <2>2, <2>3
<1>3. ASSUME NEW n \in Locks, Unlock(n) PROVE LocksInv'
  <2>1. /\ n \in Held
        /\ wants' \in Seq(Locks \cup {Dyn})
        /\ Held' = Held \ {n}
        /\ Distinct'
    BY <1>3, GiveBackHolds DEF Unlock
  <2>2. locked' = {<<mutex_buf', k>> : k \in Held' \ {Dyn}}
    BY <1>3, <2>1 DEF Unlock
  <2>3. proc' = proc
    BY <1>3, <2>1 DEF Unlock
  <2> QED
    BY <1>3, <2>1, <2>2, <2>3 DEF Unlock, TypeOK
<1>4. CASE DynCreate \/ DynDestroy
  BY <1>4 DEF DynCreate, DynDestroy, TypeOK, Distinct, Held
<1>5. CASE DynLock
  <2>1. /\ wants' \in Seq(Locks \cup {Dyn})
        /\ Held' = Held \cup {Dyn}
        /\ Distinct'
    BY <1>5, TakeHolds DEF DynLock
  <2> QED
    BY <1>5, <2>1 DEF DynLock, TypeOK
<1>6. CASE DynUnlock
  <2>1. /\ Dyn \in Held
        /\ wants' \in Seq(Locks \cup {Dyn})
        /\ Held' = Held \ {Dyn}
        /\ Distinct'
    BY <1>6, GiveBackHolds DEF DynUnlock
  <2> QED
    BY <1>6, <2>1 DEF DynUnlock, TypeOK
<1>7. CASE EndSession \/ Done \/ UNCHANGED vars
  BY <1>7 DEF EndSession, Done, vars, TypeOK, Distinct, Held
<1> QED
  BY <1>1, <1>2, <1>3, <1>4, <1>5, <1>6, <1>7 DEF Next

LEMMA LocksInvariant == Spec => []LocksInv
<1>1. Init => LocksInv
  BY SslLocksAssumption DEF Init, LocksInv, TypeOK, Distinct, LocksMatch, Held,
     CrashNeedsEarlierSetup, NULL, Dyn, Locks
<1> QED
  BY <1>1, LocksInvInductive, PTL DEF Spec

\* Every variable keeps its type: no lock is outside the array it was allocated for.
THEOREM TypeCorrect == Spec => []TypeOK
BY LocksInvariant, PTL DEF LocksInv

\* A lock taken in one array is never given back in another, however many sessions
\* replace the array.
THEOREM LocksStayInTheirArray == Spec => []LocksMatch
BY LocksInvariant, PTL DEF LocksInv

\* Only a set-up after a successful one can leave OpenSSL with a null array.
THEOREM FirstFailureIsHarmless == Spec => []CrashNeedsEarlierSetup
BY LocksInvariant, PTL DEF LocksInv

===============================================================================
