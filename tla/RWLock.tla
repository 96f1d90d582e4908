------------------------------- MODULE RWLock -------------------------------
(***************************************************************************)
(* aux::rw_lock (platform/aux/include/aux/rw_lock.hpp), one step per       *)
(* atomic access to lock_.  The word is 0 when the lock is free, n > 0     *)
(* when n readers hold it and -1 when a writer does.                       *)
(*                                                                         *)
(* A reader loads the word once and then attempts one fixed exchange:      *)
(* expected -> expected + 1, where expected is the loaded count, or 0 when *)
(* the load saw a writer.  It never loads again.  reader_try_lock gives up *)
(* after Attempts exchanges (1000 in the code), reader_lock and            *)
(* writer_lock never do.                                                   *)
(***************************************************************************)
EXTENDS Integers, FiniteSets

CONSTANTS Threads,
          Attempts \* exchanges reader_try_lock makes before it fails

ASSUME ThreadsAssumption == IsFiniteSet(Threads)
ASSUME AttemptsAssumption == Attempts \in Nat \ {0}

VARIABLES lock_,
          pc,       \* where each thread is
          expected, \* the value each thread's exchange expects
          attempts  \* exchanges left to a thread in reader_try_lock

vars == <<lock_, pc, expected, attempts>>

Locations == {"idle", "try_read", "want_read", "reading", "want_write", "writing"}

Readers == {t \in Threads : pc[t] = "reading"}
Writers == {t \in Threads : pc[t] = "writing"}

Init ==
    /\ lock_ = 0
    /\ pc = [t \in Threads |-> "idle"]
    /\ expected = [t \in Threads |-> 0]
    /\ attempts = [t \in Threads |-> 0]

-----------------------------------------------------------------------------
\* A defect: the loaded word is expected as it is, a writer's -1 included.
ExpectedAsLoaded(val) == val

\* The value a reader's exchange expects, from the word it loaded.
ExpectedFrom(val) == IF val < 0 THEN 0 ELSE val

Goto(t, loc) == pc' = [pc EXCEPT ![t] = loc]

\* reader_try_lock: the load.
ReaderTryLoad(t) ==
    /\ pc[t] = "idle"
    /\ expected' = [expected EXCEPT ![t] = ExpectedFrom(lock_)]
    /\ attempts' = [attempts EXCEPT ![t] = Attempts]
    /\ Goto(t, "try_read")
    /\ UNCHANGED lock_

\* reader_try_lock: an exchange that succeeds.
ReaderTryExchange(t) ==
    /\ pc[t] = "try_read"
    /\ lock_ = expected[t]
    /\ lock_' = expected[t] + 1
    /\ Goto(t, "reading")
    /\ UNCHANGED <<expected, attempts>>

\* A defect: a failed attempt is not counted.
TryMissUncounted(t) ==
    /\ pc[t] = "try_read"
    /\ lock_ # expected[t]
    /\ UNCHANGED vars

\* reader_try_lock: an exchange that fails; the last one returns false.
ReaderTryMiss(t) ==
    /\ pc[t] = "try_read"
    /\ lock_ # expected[t]
    /\ attempts' = [attempts EXCEPT ![t] = @ - 1]
    /\ Goto(t, IF attempts[t] = 1 THEN "idle" ELSE "try_read")
    /\ UNCHANGED <<lock_, expected>>

\* reader_lock: the load.
ReaderLoad(t) ==
    /\ pc[t] = "idle"
    /\ expected' = [expected EXCEPT ![t] = ExpectedFrom(lock_)]
    /\ Goto(t, "want_read")
    /\ UNCHANGED <<lock_, attempts>>

\* reader_lock: the exchange that succeeds; a failing one changes nothing.
ReaderExchange(t) ==
    /\ pc[t] = "want_read"
    /\ lock_ = expected[t]
    /\ lock_' = expected[t] + 1
    /\ Goto(t, "reading")
    /\ UNCHANGED <<expected, attempts>>

\* A defect: the last reader's unlock, whoever else is still reading.
ReaderUnlockAll(t) ==
    /\ pc[t] = "reading"
    /\ lock_' = 0
    /\ Goto(t, "idle")
    /\ UNCHANGED <<expected, attempts>>

ReaderUnlock(t) ==
    /\ pc[t] = "reading"
    /\ lock_' = lock_ - 1
    /\ Goto(t, "idle")
    /\ UNCHANGED <<expected, attempts>>

\* writer_lock: a call begins, and spins until the word is 0.
WriterCall(t) ==
    /\ pc[t] = "idle"
    /\ Goto(t, "want_write")
    /\ UNCHANGED <<lock_, expected, attempts>>

WriterExchange(t) ==
    /\ pc[t] = "want_write"
    /\ lock_ = 0
    /\ lock_' = -1
    /\ Goto(t, "writing")
    /\ UNCHANGED <<expected, attempts>>

\* A defect: a writer that leaves the way a reader does.
WriterUnlockByOne(t) ==
    /\ pc[t] = "writing"
    /\ lock_' = lock_ - 1
    /\ Goto(t, "idle")
    /\ UNCHANGED <<expected, attempts>>

WriterUnlock(t) ==
    /\ pc[t] = "writing"
    /\ lock_' = 0
    /\ Goto(t, "idle")
    /\ UNCHANGED <<expected, attempts>>

-----------------------------------------------------------------------------
\* The steps of a call in progress, and the release that follows it.
Progress(t) ==
    \/ ReaderTryExchange(t)
    \/ ReaderTryMiss(t)
    \/ ReaderExchange(t)
    \/ ReaderUnlock(t)
    \/ WriterExchange(t)
    \/ WriterUnlock(t)

Next ==
    \E t \in Threads :
        \/ ReaderTryLoad(t)
        \/ ReaderLoad(t)
        \/ WriterCall(t)
        \/ Progress(t)

Spec == Init /\ [][Next]_vars

\* A thread inside a call, or holding the lock, keeps running.
FairSpec == Spec /\ \A t \in Threads : WF_vars(Progress(t))

-----------------------------------------------------------------------------
TypeOK ==
    /\ lock_ \in Int
    /\ pc \in [Threads -> Locations]
    /\ expected \in [Threads -> Nat]
    /\ attempts \in [Threads -> 0 .. Attempts]

\* The word tells who holds the lock: -1 for one writer and no reader, else
\* the number of readers.
WordCountsHolders ==
    lock_ = IF Writers # {} THEN -1 ELSE Cardinality(Readers)

\* Readers and a writer never hold the lock together: every exchange of the
\* code that admits a thread leaves the others' claim intact, the stale count
\* a reader may still expect included.
MutualExclusion ==
    /\ Writers # {} => Readers = {}
    /\ \A t, u \in Writers : t = u

\* rw_lock implements the readers-writer lock of RWLockSpec: each holder set
\* changes only as that specification allows.
Abstract == INSTANCE RWLockSpec WITH readers <- Readers, writers <- Writers
ImplementsRWLock == Abstract!LockSpec

\* reader_try_lock always returns, locked or not, whatever the others do: the
\* attempts are counted down (rw_lock.hpp:29, 37).
TryLockReturns ==
    \A t \in Threads : pc[t] = "try_read" ~> pc[t] # "try_read"

\* A reader_lock that loaded 0 or saw a writer is admitted once the other
\* threads stay out of the lock.  Nothing of the kind holds for a reader that
\* loaded a positive count: it waits for exactly that count to come back.
FreshReaderAdmitted ==
    \A t \in Threads :
        [](/\ pc[t] = "want_read"
           /\ expected[t] = 0
           /\ [](\A u \in Threads \ {t} : pc[u] = "idle")
           => <>(pc[t] = "reading"))

=============================================================================
