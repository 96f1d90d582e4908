---------------------------- MODULE RWLockProofs ----------------------------
(***************************************************************************)
(* rw_lock excludes writers from readers and from each other for any set   *)
(* of threads and any number of attempts, and implements RWLockSpec.       *)
(***************************************************************************)
EXTENDS RWLock, FiniteSetTheorems, TLAPS

\* A thread in reader_try_lock has an exchange left.
AttemptsRemain ==
    \A t \in Threads : pc[t] = "try_read" => attempts[t] # 0

\* The inductive invariant: mutual exclusion needs the word to count the
\* holders, and the count needs the two holder sets never to be mixed.
LockInv ==
    /\ TypeOK
    /\ AttemptsRemain
    /\ WordCountsHolders
    /\ MutualExclusion

-----------------------------------------------------------------------------
\* Sets of threads are finite, so that their cardinalities are numbers.
LEMMA HolderSetsFinite == IsFiniteSet(Readers) /\ IsFiniteSet(Writers)
  BY ThreadsAssumption, FS_Subset DEF Readers, Writers

\* A thread that enters the lock as a reader finds no writer in it, and adds
\* itself to the readers (rw_lock.hpp:32, 40, 57, 65).
LEMMA ReaderEnters ==
  ASSUME LockInv,
         NEW t \in Threads,
         pc[t] # "reading", pc[t] # "writing",
         lock_ = expected[t],
         lock_' = expected[t] + 1,
         Goto(t, "reading")
  PROVE  /\ Writers = {} /\ Writers' = {}
         /\ Readers' = Readers \cup {t}
         /\ WordCountsHolders'
         /\ MutualExclusion'
<1>1. Writers = {}
  BY DEF LockInv, TypeOK, WordCountsHolders
<1>2. Writers' = {}
  BY <1>1 DEF LockInv, TypeOK, Goto, Writers
<1>3. Readers' = Readers \cup {t} /\ t \notin Readers
  BY DEF LockInv, TypeOK, Goto, Readers
<1>4. Cardinality(Readers \cup {t}) = Cardinality(Readers) + 1
  BY <1>3, HolderSetsFinite, FS_AddElement
<1>5. WordCountsHolders'
  BY <1>1, <1>2, <1>3, <1>4 DEF LockInv, WordCountsHolders
<1>6. MutualExclusion'
  BY <1>2 DEF MutualExclusion
<1>7. QED
  BY <1>1, <1>2, <1>3, <1>5, <1>6

\* A reader that leaves takes itself out of the readers; there is no writer.
LEMMA ReaderLeaves ==
  ASSUME LockInv, NEW t \in Threads, ReaderUnlock(t)
  PROVE  /\ Writers = {} /\ Writers' = {}
         /\ t \in Readers
         /\ Readers' = Readers \ {t}
         /\ WordCountsHolders'
         /\ MutualExclusion'
<1>1. t \in Readers /\ Readers' = Readers \ {t}
  BY DEF LockInv, TypeOK, ReaderUnlock, Goto, Readers
<1>2. Writers = {}
  BY <1>1 DEF LockInv, MutualExclusion
<1>3. Writers' = {}
  BY <1>2 DEF LockInv, TypeOK, ReaderUnlock, Goto, Writers
<1>4. Cardinality(Readers \ {t}) = Cardinality(Readers) - 1
  BY <1>1, HolderSetsFinite, FS_RemoveElement
<1>5. WordCountsHolders'
  BY <1>1, <1>2, <1>3, <1>4 DEF LockInv, WordCountsHolders, ReaderUnlock
<1>6. MutualExclusion'
  BY <1>3 DEF MutualExclusion
<1>7. QED
  BY <1>1, <1>2, <1>3, <1>5, <1>6

\* A writer enters only an empty lock (rw_lock.hpp:83).
LEMMA WriterEnters ==
  ASSUME LockInv, NEW t \in Threads, WriterExchange(t)
  PROVE  /\ Readers = {} /\ Readers' = {}
         /\ Writers = {} /\ Writers' = {t}
         /\ WordCountsHolders'
         /\ MutualExclusion'
<1>1. Writers = {} /\ Cardinality(Readers) = 0
  BY DEF LockInv, WordCountsHolders, WriterExchange
<1>2. Readers = {}
  BY <1>1, HolderSetsFinite, FS_EmptySet
<1>3. Readers' = {}
  BY <1>2 DEF LockInv, TypeOK, WriterExchange, Goto, Readers
<1>4. Writers' = {t}
  BY <1>1 DEF LockInv, TypeOK, WriterExchange, Goto, Writers
<1>5. WordCountsHolders' /\ MutualExclusion'
  BY <1>3, <1>4 DEF WordCountsHolders, MutualExclusion, WriterExchange
<1>6. QED
  BY <1>1, <1>2, <1>3, <1>4, <1>5

\* A writer that leaves was alone: storing 0 forgets nobody (rw_lock.hpp:89).
LEMMA WriterLeaves ==
  ASSUME LockInv, NEW t \in Threads, WriterUnlock(t)
  PROVE  /\ Readers = {} /\ Readers' = {}
         /\ Writers = {t} /\ Writers' = {}
         /\ WordCountsHolders'
         /\ MutualExclusion'
<1>1. Writers = {t}
  BY DEF LockInv, TypeOK, MutualExclusion, WriterUnlock, Writers
<1>2. Readers = {}
  BY <1>1 DEF LockInv, MutualExclusion
<1>3. Readers' = {} /\ Writers' = {}
  BY <1>1, <1>2 DEF LockInv, TypeOK, WriterUnlock, Goto, Readers, Writers
<1>4. Cardinality({}) = 0
  BY FS_EmptySet
<1>5. WordCountsHolders' /\ MutualExclusion'
  BY <1>3, <1>4 DEF WordCountsHolders, MutualExclusion, WriterUnlock
<1>6. QED
  BY <1>1, <1>2, <1>3, <1>5

\* A step that moves a thread between locations outside the lock, and leaves
\* the word alone, keeps both holder sets.
LEMMA HoldersKept ==
  ASSUME LockInv,
         NEW t \in Threads, NEW loc \in Locations,
         loc # "reading", loc # "writing",
         pc[t] # "reading", pc[t] # "writing",
         Goto(t, loc),
         UNCHANGED lock_
  PROVE  /\ Readers' = Readers
         /\ Writers' = Writers
         /\ WordCountsHolders'
         /\ MutualExclusion'
<1>1. Readers' = Readers /\ Writers' = Writers
  BY DEF LockInv, TypeOK, Goto, Readers, Writers
<1>2. QED
  BY <1>1 DEF LockInv, WordCountsHolders, MutualExclusion

-----------------------------------------------------------------------------
LEMMA LockInvInit == Init => LockInv
<1> SUFFICES ASSUME Init PROVE LockInv
  OBVIOUS
<1>1. Readers = {} /\ Writers = {}
  BY DEF Init, Readers, Writers
<1>2. Cardinality({}) = 0
  BY FS_EmptySet
<1>3. TypeOK /\ AttemptsRemain
  BY AttemptsAssumption DEF Init, TypeOK, AttemptsRemain, Locations
<1>4. QED
  BY <1>1, <1>2, <1>3 DEF LockInv, WordCountsHolders, MutualExclusion, Init

\* Types and the remaining attempts, for every step.
LEMMA TypeOKStep ==
  ASSUME LockInv, Next
  PROVE  TypeOK' /\ AttemptsRemain'
<1> USE AttemptsAssumption DEF LockInv, TypeOK, AttemptsRemain, Goto, Locations
<1>1. PICK t \in Threads :
        \/ ReaderTryLoad(t)
        \/ ReaderLoad(t)
        \/ WriterCall(t)
        \/ Progress(t)
  BY DEF Next
<1>2. CASE ReaderTryLoad(t)
  BY <1>2 DEF ReaderTryLoad, ExpectedFrom
<1>3. CASE ReaderLoad(t)
  BY <1>3 DEF ReaderLoad, ExpectedFrom
<1>4. CASE WriterCall(t)
  BY <1>4 DEF WriterCall
<1>5. CASE ReaderTryExchange(t)
  BY <1>5 DEF ReaderTryExchange
<1>6. CASE ReaderTryMiss(t)
  BY <1>6 DEF ReaderTryMiss
<1>7. CASE ReaderExchange(t)
  BY <1>7 DEF ReaderExchange
<1>8. CASE ReaderUnlock(t)
  BY <1>8 DEF ReaderUnlock
<1>9. CASE WriterExchange(t)
  BY <1>9 DEF WriterExchange
<1>10. CASE WriterUnlock(t)
  BY <1>10 DEF WriterUnlock
<1>11. QED
  BY <1>1, <1>2, <1>3, <1>4, <1>5, <1>6, <1>7, <1>8, <1>9, <1>10 DEF Progress

\* What every step does to the holders: the invariant again, and a step of
\* RWLockSpec or none.
LEMMA HolderStep ==
  ASSUME LockInv, Next
  PROVE  /\ WordCountsHolders'
         /\ MutualExclusion'
         /\ [Abstract!LockNext]_<<Readers, Writers>>
<1>1. PICK t \in Threads :
        \/ ReaderTryLoad(t)
        \/ ReaderLoad(t)
        \/ WriterCall(t)
        \/ Progress(t)
  BY DEF Next
<1>2. CASE ReaderTryLoad(t) \/ ReaderLoad(t) \/ WriterCall(t) \/ ReaderTryMiss(t)
  <2>1. PICK loc \in Locations :
          /\ loc # "reading" /\ loc # "writing"
          /\ Goto(t, loc)
    BY <1>2 DEF ReaderTryLoad, ReaderLoad, WriterCall, ReaderTryMiss, Locations
  <2>2. pc[t] # "reading" /\ pc[t] # "writing" /\ UNCHANGED lock_
    BY <1>2 DEF ReaderTryLoad, ReaderLoad, WriterCall, ReaderTryMiss
  <2>3. QED
    BY <2>1, <2>2, HoldersKept
<1>3. CASE ReaderTryExchange(t) \/ ReaderExchange(t)
  <2>1. /\ pc[t] # "reading" /\ pc[t] # "writing"
        /\ lock_ = expected[t] /\ lock_' = expected[t] + 1
        /\ Goto(t, "reading")
    BY <1>3 DEF ReaderTryExchange, ReaderExchange
  <2>2. t \notin Readers
    BY <2>1 DEF Readers
  <2>3. Abstract!AcquireRead(t) /\ WordCountsHolders' /\ MutualExclusion'
    BY <2>1, <2>2, ReaderEnters DEF Abstract!AcquireRead
  <2>4. QED
    BY <2>3 DEF Abstract!LockNext
<1>4. CASE ReaderUnlock(t)
  <2>1. Abstract!ReleaseRead(t) /\ WordCountsHolders' /\ MutualExclusion'
    BY <1>4, ReaderLeaves DEF Abstract!ReleaseRead
  <2>2. QED
    BY <2>1 DEF Abstract!LockNext
<1>5. CASE WriterExchange(t)
  <2>1. Abstract!AcquireWrite(t) /\ WordCountsHolders' /\ MutualExclusion'
    BY <1>5, WriterEnters DEF Abstract!AcquireWrite
  <2>2. QED
    BY <2>1 DEF Abstract!LockNext
<1>6. CASE WriterUnlock(t)
  <2>1. Abstract!ReleaseWrite(t) /\ WordCountsHolders' /\ MutualExclusion'
    BY <1>6, WriterLeaves DEF Abstract!ReleaseWrite
  <2>2. QED
    BY <2>1 DEF Abstract!LockNext
<1>7. QED
  BY <1>1, <1>2, <1>3, <1>4, <1>5, <1>6 DEF Progress

LEMMA LockInvStep == LockInv /\ [Next]_vars => LockInv'
<1> SUFFICES ASSUME LockInv, [Next]_vars PROVE LockInv'
  OBVIOUS
<1>1. CASE Next
  BY <1>1, TypeOKStep, HolderStep DEF LockInv
<1>2. CASE UNCHANGED vars
  BY <1>2 DEF vars, LockInv, TypeOK, AttemptsRemain, WordCountsHolders,
              MutualExclusion, Readers, Writers
<1>3. QED
  BY <1>1, <1>2

\* The inductive invariant holds throughout.
THEOREM LockInvariance == Spec => []LockInv
  BY LockInvInit, LockInvStep, PTL DEF Spec

\* The word counts the holders, and readers and a writer never hold the lock
\* together, however reader_try_lock, reader_lock and writer_lock interleave.
THEOREM MutualExclusionHolds == Spec => [](TypeOK /\ WordCountsHolders /\ MutualExclusion)
<1>1. LockInv => TypeOK /\ WordCountsHolders /\ MutualExclusion
  BY DEF LockInv
<1>2. QED
  BY <1>1, LockInvariance, PTL

\* rw_lock implements the abstract readers-writer lock, so a component that
\* uses it may be modelled over RWLockSpec.
THEOREM RWLockRefinement == Spec => ImplementsRWLock
<1>1. Init => Abstract!LockInit
  BY DEF Init, Abstract!LockInit, Readers, Writers
<1>2. LockInv /\ [Next]_vars => [Abstract!LockNext]_(Abstract!lockVars)
  <2> SUFFICES ASSUME LockInv, [Next]_vars
               PROVE  [Abstract!LockNext]_(Abstract!lockVars)
    OBVIOUS
  <2>1. CASE Next
    BY <2>1, HolderStep DEF Abstract!lockVars
  <2>2. CASE UNCHANGED vars
    BY <2>2 DEF vars, Readers, Writers, Abstract!lockVars
  <2>3. QED
    BY <2>1, <2>2
<1>3. QED
  BY <1>1, <1>2, LockInvariance, PTL DEF Spec, ImplementsRWLock, Abstract!LockSpec

=============================================================================
