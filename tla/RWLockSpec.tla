----------------------------- MODULE RWLockSpec -----------------------------
(***************************************************************************)
(* What aux::rw_lock promises: any number of readers, or one writer.  The  *)
(* detailed module RWLock implements this one; Workset takes its lock from *)
(* here.                                                                   *)
(***************************************************************************)

CONSTANT Threads

VARIABLES readers, \* the threads that hold the lock for reading
          writers  \* the threads that hold it for writing

lockVars == <<readers, writers>>

LockInit ==
    /\ readers = {}
    /\ writers = {}

AcquireRead(t) ==
    /\ writers = {}
    /\ t \notin readers
    /\ readers' = readers \cup {t}
    /\ UNCHANGED writers

ReleaseRead(t) ==
    /\ t \in readers
    /\ readers' = readers \ {t}
    /\ UNCHANGED writers

AcquireWrite(t) ==
    /\ readers = {}
    /\ writers = {}
    /\ writers' = {t}
    /\ UNCHANGED readers

ReleaseWrite(t) ==
    /\ t \in writers
    /\ writers' = writers \ {t}
    /\ UNCHANGED readers

LockNext ==
    \E t \in Threads :
        \/ AcquireRead(t)
        \/ ReleaseRead(t)
        \/ AcquireWrite(t)
        \/ ReleaseWrite(t)

LockSpec == LockInit /\ [][LockNext]_lockVars

=============================================================================
