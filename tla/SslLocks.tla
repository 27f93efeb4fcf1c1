-------------------------------- MODULE SslLocks --------------------------------
(***************************************************************************)
(* The lock callbacks that sslthreadwrapper.h registers with OpenSSL 1.0.  *)
(* initialise_context calls ssl_thread_setup for each session anew: every  *)
(* call replaces the array of mutexes that mutex_buf names, and its result *)
(* is not looked at.  One thread of the process uses OpenSSL, the listener *)
(* thread of a server or the sender thread of a client.  Nothing ever      *)
(* calls ssl_thread_cleanup, so arrays are never freed.                    *)
(***************************************************************************)
EXTENDS Integers, Sequences

CONSTANTS
    NumLocks,      \* CRYPTO_num_locks()
    MaxSessions,   \* bound: sessions of the process
    Faults         \* "malloc": an allocation may fail

ASSUME SslLocksAssumption ==
    /\ NumLocks \in Nat \ {0}
    /\ MaxSessions \in Nat
    /\ Faults \subseteq {"malloc"}

VARIABLES
    proc,        \* "running", "crashed" or "undefined" (a mutex misused)
    session,     \* number of sessions begun
    phase,       \* "between" two sessions or "in" one
    mutex_buf,   \* number of the array it names, NULL for none
    arrays,      \* arrays allocated so far
    callbacks,   \* "unset", or "set" once they are registered
    locked,      \* the mutexes locked, <<array, lock>>
    dynlock,     \* OpenSSL's one dynamic lock: "none", "unlocked" or "locked"
    wants        \* the locks OpenSSL holds, by its own reckoning, last one last

vars == <<proc, session, phase, mutex_buf, arrays, callbacks, locked, dynlock, wants>>

NULL == 0
Locks == 1..NumLocks
Dyn == 0   \* stands for the dynamic lock in wants

Held == {wants[i] : i \in DOMAIN wants}

TypeOK ==
    /\ proc \in {"running", "crashed", "undefined"}
    /\ session \in 0..MaxSessions
    /\ phase \in {"between", "in"}
    /\ mutex_buf \in NULL..arrays
    /\ arrays \in 0..session
    /\ callbacks \in {"unset", "set"}
    /\ locked \subseteq (1..arrays) \X Locks
    /\ dynlock \in {"none", "unlocked", "locked"}
    /\ wants \in Seq(Locks \cup {Dyn})

Init ==
    /\ proc = "running"
    /\ session = 0
    /\ phase = "between"
    /\ mutex_buf = NULL
    /\ arrays = 0
    /\ callbacks = "unset"
    /\ locked = {}
    /\ dynlock = "none"
    /\ wants = <<>>

InSession == proc = "running" /\ phase = "in"

-------------------------------------------------------------------------------

BeginSession ==
    /\ proc = "running" /\ phase = "between"
    /\ session < MaxSessions
    /\ session' = session + 1
    /\ phase' = "in"

\* Mutant: the callbacks are registered before the array is allocated.
RegisterFirst ==
    /\ BeginSession
    /\ callbacks' = "set"
    /\ \/ arrays' = arrays + 1 /\ mutex_buf' = arrays'
       \/ "malloc" \in Faults /\ mutex_buf' = NULL /\ UNCHANGED arrays
    /\ UNCHANGED <<proc, locked, dynlock, wants>>

\* A failed allocation leaves no array, and the callbacks of an earlier session.
ssl_thread_setup ==
    /\ BeginSession
    /\ \/ arrays' = arrays + 1 /\ mutex_buf' = arrays' /\ callbacks' = "set"
       \/ "malloc" \in Faults /\ mutex_buf' = NULL /\ UNCHANGED <<arrays, callbacks>>
    /\ UNCHANGED <<proc, locked, dynlock, wants>>

\* OpenSSL takes a lock it does not hold, n.
Take(n) == n \notin Held /\ wants' = Append(wants, n)

\* OpenSSL gives back the lock it took last, n.
GiveBack(n) ==
    /\ wants # <<>> /\ n = wants[Len(wants)]
    /\ wants' = SubSeq(wants, 1, Len(wants) - 1)

\* Mutant: the index is one too high.
LockOffByOne(n) ==
    /\ InSession /\ callbacks = "set"
    /\ mutex_buf # NULL
    /\ Take(n)
    /\ locked' = locked \cup {<<mutex_buf, n + 1>>}
    /\ UNCHANGED <<proc, session, phase, mutex_buf, arrays, callbacks, dynlock>>

\* locking_function with CRYPTO_LOCK; pthread_mutex_lock waits for ever for a mutex
\* its own thread holds.
Lock(n) ==
    /\ InSession /\ callbacks = "set"
    /\ Take(n)
    /\ IF mutex_buf = NULL
         THEN proc' = "crashed" /\ UNCHANGED locked
         ELSE /\ <<mutex_buf, n>> \notin locked
              /\ locked' = locked \cup {<<mutex_buf, n>>}
              /\ UNCHANGED proc
    /\ UNCHANGED <<session, phase, mutex_buf, arrays, callbacks, dynlock>>

\* Mutant: the flag is tested with the wrong mask, and nothing is unlocked.
UnlockForgotten(n) ==
    /\ InSession /\ callbacks = "set"
    /\ GiveBack(n)
    /\ UNCHANGED <<proc, session, phase, mutex_buf, arrays, callbacks, locked, dynlock>>

\* locking_function without it, on the array of now, whichever the lock was taken in.
Unlock(n) ==
    /\ InSession /\ callbacks = "set"
    /\ GiveBack(n)
    /\ proc' = IF <<mutex_buf, n>> \in locked THEN proc ELSE "undefined"
    /\ locked' = locked \ {<<mutex_buf, n>>}
    /\ UNCHANGED <<session, phase, mutex_buf, arrays, callbacks, dynlock>>

\* dyn_create_function; one that fails is not used.
DynCreate ==
    /\ InSession /\ callbacks = "set"
    /\ dynlock = "none"
    /\ dynlock' = "unlocked"
    /\ UNCHANGED <<proc, session, phase, mutex_buf, arrays, callbacks, locked, wants>>

\* dyn_lock_function.
DynLock ==
    /\ InSession
    /\ dynlock = "unlocked"
    /\ Take(Dyn)
    /\ dynlock' = "locked"
    /\ UNCHANGED <<proc, session, phase, mutex_buf, arrays, callbacks, locked>>

DynUnlock ==
    /\ InSession
    /\ GiveBack(Dyn)
    /\ proc' = IF dynlock = "locked" THEN proc ELSE "undefined"
    /\ dynlock' = "unlocked"
    /\ UNCHANGED <<session, phase, mutex_buf, arrays, callbacks, locked>>

\* dyn_destroy_function, for a lock that OpenSSL does not hold.
DynDestroy ==
    /\ InSession
    /\ dynlock # "none" /\ Dyn \notin Held
    /\ dynlock' = "none"
    /\ UNCHANGED <<proc, session, phase, mutex_buf, arrays, callbacks, locked, wants>>

\* The session's last call of OpenSSL has returned: it holds no lock then.
EndSession ==
    /\ InSession
    /\ wants = <<>>
    /\ phase' = "between"
    /\ UNCHANGED <<proc, session, mutex_buf, arrays, callbacks, locked, dynlock, wants>>

Done ==
    /\ proc # "running" \/ (phase = "between" /\ session = MaxSessions)
    /\ UNCHANGED vars

Next ==
    \/ ssl_thread_setup
    \/ \E n \in Locks : Lock(n) \/ Unlock(n)
    \/ DynCreate \/ DynLock \/ DynUnlock \/ DynDestroy
    \/ EndSession \/ Done

Spec == Init /\ [][Next]_vars

-------------------------------------------------------------------------------
(* Properties. *)

\* The mutexes locked are those of the locks that OpenSSL believes it holds, and of
\* the array mutex_buf names now: although the array is replaced under OpenSSL for
\* each session, no lock is taken in one array and given back in another.
LocksMatch ==
    proc # "crashed" =>
        /\ locked = {<<mutex_buf, n>> : n \in Held \ {Dyn}}
        /\ (dynlock = "locked") <=> (Dyn \in Held)

\* A set-up that fails ends the process only if an earlier one has succeeded, as its
\* callbacks are still registered; when the first one fails, OpenSSL runs without
\* locks, which one thread does not need.
CrashNeedsEarlierSetup == proc = "crashed" => mutex_buf = NULL /\ arrays > 0

===============================================================================
