---------------------------- MODULE WorksetProofs ---------------------------
(***************************************************************************)
(* For any set of publishers and subscribers and any capacity: a           *)
(* subscriber's index follows its last pop, num_available is a promise,    *)
(* and the workset implements WorksetLog.                                  *)
(***************************************************************************)
EXTENDS Workset, SequenceTheorems, TLAPS

\* The lock is held by exactly the threads inside a locked section, a writer
\* alone, and only registered handles are inside one.
LockDiscipline ==
    /\ writers = {p \in Publishers : pc[p] \in {"shift", "store"}}
    /\ readers = {s \in Subscribers : pc[s] \in {"pop", "count"}}
    /\ \A p \in Publishers : pc[p] \in {"idle", "shift", "store"}
    /\ \A s \in Subscribers : pc[s] \in {"idle", "pop", "count"}
    /\ \A p \in Publishers :
          pc[p] # "idle" => p \in publishers_ /\ num_pushed < MaxPushes
    /\ \A s \in Subscribers : pc[s] # "idle" => s \in subscribers_
    /\ \A p, q \in writers : p = q
    /\ writers # {} => readers = {}

\* The buffer is full from the Capacity-th push on, and holds every entry
\* before.
BufferFilled ==
    Len(workset_) = IF num_pushed < Capacity THEN num_pushed ELSE Capacity

\* A pop never runs ahead of the pushes, and a handle that is gone has
\* neither popped nor counted.
HandleState ==
    /\ \A s \in Subscribers : popped[s] <= num_pushed
    /\ \A s \in Subscribers \ subscribers_ :
          popped[s] = 0 /\ available[s] = NoAnswer

WorksetInv ==
    /\ TypeOK
    /\ LockDiscipline
    /\ BufferFilled
    /\ BufferHoldsLast
    /\ HandleState
    /\ IndexFollowsLastPop
    /\ AvailableIsPromise

\* The part of the invariant about the buffer and the indexes.
DataInv ==
    /\ BufferFilled
    /\ BufferHoldsLast
    /\ HandleState
    /\ IndexFollowsLastPop
    /\ AvailableIsPromise

LEMMA WorksetInvInit == Init => WorksetInv
<1> SUFFICES ASSUME Init PROVE WorksetInv
  OBVIOUS
<1> USE CapacityAssumption, MaxPushesAssumption, HandlesAssumption
<1>1. Len(workset_) = 0 /\ workset_ \in Seq(1 .. num_pushed)
  BY DEF Init
<1>2. TypeOK
  BY <1>1 DEF Init, TypeOK, Lock!LockInit, Threads, Locations, NoAnswer
<1>3. LockDiscipline
  BY DEF Init, LockDiscipline, Lock!LockInit, Threads
<1>4. DataInv
  BY <1>1 DEF Init, DataInv, BufferFilled, BufferHoldsLast, HandleState,
              IndexFollowsLastPop, AvailableIsPromise
<1>5. QED
  BY <1>2, <1>3, <1>4 DEF WorksetInv, DataInv

-----------------------------------------------------------------------------
\* Gone counts the overwritten entries, at most one of them still stored.
LEMMA GoneRange ==
  ASSUME TypeOK, BufferFilled
  PROVE  /\ Gone \in Nat
         /\ Gone >= num_pushed - Len(workset_)
<1>1. num_pushed \in Nat /\ Len(workset_) \in Nat
  BY MaxPushesAssumption, LenProperties DEF TypeOK
<1>2. num_pushed - Len(workset_) \in Nat
  BY <1>1, CapacityAssumption DEF BufferFilled
<1>3. QED
  BY <1>2 DEF Gone

\* No index is beyond the buffer, so num_available never wraps around
\* (workset.hpp:126).
LEMMA IndexInBuffer ==
  ASSUME WorksetInv, NEW s \in subscribers_
  PROVE  current_index_[s] <= Len(workset_)
<1>1. /\ num_pushed \in Nat /\ Len(workset_) \in Nat
      /\ popped[s] \in Nat /\ popped[s] <= num_pushed
  BY MaxPushesAssumption, LenProperties DEF WorksetInv, TypeOK, HandleState
<1>2. Gone \in Nat /\ Gone >= num_pushed - Len(workset_)
  BY GoneRange DEF WorksetInv
<1>3. current_index_[s] = IF popped[s] > Gone THEN popped[s] - Gone ELSE 0
  BY DEF WorksetInv, IndexFollowsLastPop
<1>4. QED
  BY <1>1, <1>2, <1>3

\* What circular_buffer::push_back leaves (workset.hpp:56, 243): the buffer
\* with the new entry last, without its first entry when it was full.
LEMMA PushBackResult ==
  ASSUME TypeOK, BufferFilled, BufferHoldsLast, PushBack(num_pushed + 1)
  PROVE  /\ workset_' \in Seq(1 .. num_pushed + 1)
         /\ Len(workset_') = IF full THEN Len(workset_) ELSE Len(workset_) + 1
         /\ \A i \in 1 .. Len(workset_') :
               workset_'[i] = (num_pushed + 1 - Len(workset_')) + i
<1> DEFINE kept == IF full THEN Tail(workset_) ELSE workset_
           N == 1 .. num_pushed + 1
<1> USE CapacityAssumption
<1>1. num_pushed \in Nat /\ workset_ \in Seq(N) /\ num_pushed + 1 \in N
  BY MaxPushesAssumption DEF TypeOK
<1>0. full => workset_ # <<>>
  BY <1>1, EmptySeq DEF full
<1>2. kept \in Seq(N) /\ Len(kept) = IF full THEN Len(workset_) - 1 ELSE Len(workset_)
  <2>1. CASE full
    BY <2>1, <1>1, <1>0, HeadTailProperties
  <2>2. CASE ~full
    BY <2>2, <1>1
  <2>3. QED
    BY <2>1, <2>2
<1>3. \A i \in 1 .. Len(kept) : kept[i] = (num_pushed - Len(kept)) + i
  <2>1. CASE full
    <3>1. workset_ # <<>>
      BY <2>1, <1>0
    <3>2. \A i \in 1 .. Len(kept) : kept[i] = workset_[i + 1]
      BY <2>1, <3>1, <1>1, HeadTailProperties
    <3>3. QED
      BY <2>1, <3>2, <1>1, <1>2 DEF BufferHoldsLast
  <2>2. CASE ~full
    BY <2>2, <1>1 DEF BufferHoldsLast
  <2>3. QED
    BY <2>1, <2>2
<1>4. workset_' = Append(kept, num_pushed + 1)
  BY DEF PushBack
<1> HIDE DEF kept
<1>5. /\ workset_' \in Seq(N)
      /\ Len(workset_') = Len(kept) + 1
      /\ \A i \in 1 .. Len(kept) : workset_'[i] = kept[i]
      /\ workset_'[Len(kept) + 1] = num_pushed + 1
  BY <1>1, <1>2, <1>4, AppendProperties
<1>6. Len(kept) \in Nat /\ Len(workset_) \in Nat
  BY <1>1, <1>2, LenProperties
<1>7. ASSUME NEW i \in 1 .. Len(workset_')
      PROVE  workset_'[i] = (num_pushed + 1 - Len(workset_')) + i
  <2>1. CASE i \in 1 .. Len(kept)
    BY <2>1, <1>1, <1>3, <1>5, <1>6
  <2>2. CASE i = Len(kept) + 1
    BY <2>2, <1>1, <1>5, <1>6
  <2>3. QED
    BY <2>1, <2>2, <1>5, <1>6
<1>8. Len(workset_') = IF full THEN Len(workset_) ELSE Len(workset_) + 1
  BY <1>2, <1>5, <1>6
<1>9. QED
  BY <1>5, <1>7, <1>8

\* Where a subscriber stands when no push is under way: the entry at its
\* index is the oldest one retained after its last pop (workset.hpp:104-107).
LEMMA NextEntry ==
  ASSUME WorksetInv,
         NEW s \in subscribers_, pc[s] = "pop",
         current_index_[s] < Len(workset_)
  PROVE  LET n == workset_[current_index_[s] + 1] IN
         /\ n \in Log!Retained
         /\ n > popped[s]
         /\ \A m \in Log!Retained : m > popped[s] => n <= m
         /\ Gone = num_pushed - Len(workset_)
         /\ n = Gone + current_index_[s] + 1
<1> DEFINE i == current_index_[s]
           n == workset_[i + 1]
<1> USE CapacityAssumption, MaxPushesAssumption
<1>1. s \in readers /\ writers = {}
  BY DEF WorksetInv, LockDiscipline, TypeOK
<1>2. \A p \in Publishers : pc[p] # "store"
  BY <1>1 DEF WorksetInv, LockDiscipline
<1>3. Gone = num_pushed - Len(workset_)
  BY <1>2 DEF Gone, WorksetInv, TypeOK
<1>4. s \in Subscribers /\ i \in Nat /\ popped[s] \in Nat /\ num_pushed \in Nat /\ Len(workset_) \in Nat
  BY LenProperties DEF WorksetInv, TypeOK
<1>5. n = Gone + i + 1
  <2>1. i + 1 \in 1 .. Len(workset_)
    BY <1>4
  <2>2. workset_[i + 1] = (num_pushed - Len(workset_)) + (i + 1)
    BY <2>1 DEF WorksetInv, BufferHoldsLast
  <2>3. QED
    BY <2>2, <1>3, <1>4
<1>6. i = IF popped[s] > Gone THEN popped[s] - Gone ELSE 0
  BY DEF WorksetInv, IndexFollowsLastPop
<1>7. Len(workset_) = IF num_pushed < Capacity THEN num_pushed ELSE Capacity
  BY DEF WorksetInv, BufferFilled
<1>8. Log!Retained = {k \in 1 .. num_pushed : k > num_pushed - Capacity}
  BY DEF Log!Retained
<1> HIDE DEF n
<1>9. n \in Log!Retained /\ n > popped[s]
  <2>1. Gone = (IF num_pushed < Capacity THEN 0 ELSE num_pushed - Capacity)
    BY <1>3, <1>4, <1>7
  <2>2. i < Len(workset_)
    OBVIOUS
  <2>3. n \in 1 .. num_pushed /\ n > num_pushed - Capacity
    BY <1>3, <1>4, <1>5, <1>7, <2>1, <2>2
  <2>4. n > popped[s]
    BY <1>4, <1>5, <1>6, <2>1
  <2>5. QED
    BY <1>8, <2>3, <2>4
<1>10. \A m \in Log!Retained : m > popped[s] => n <= m
  BY <1>3, <1>4, <1>5, <1>6, <1>7, <1>8
<1>11. QED
  BY <1>3, <1>5, <1>9, <1>10 DEF n

-----------------------------------------------------------------------------
\* Types, for every step.
LEMMA TypeOKStep ==
  ASSUME WorksetInv, Next
  PROVE  TypeOK'
<1> USE CapacityAssumption, MaxPushesAssumption, HandlesAssumption
    DEF WorksetInv, TypeOK, Threads, Locations, NoAnswer, Goto
<1>0. Len(workset_) \in Nat
  BY LenProperties
<1>1. ASSUME NEW p \in Publishers, PublisherNext(p) PROVE TypeOK'
  <2>1. CASE GetPublisher(p)
    BY <2>1 DEF GetPublisher
  <2>2. CASE ReleasePublisher(p)
    BY <2>2 DEF ReleasePublisher
  <2>3. CASE PushLock(p)
    BY <2>3 DEF PushLock, Lock!AcquireWrite
  <2>4. CASE PushShift(p)
    BY <2>4 DEF PushShift, ShiftedIndex
  <2>5. CASE PushStore(p)
    <3>1. num_pushed < MaxPushes
      BY <2>5 DEF PushStore, LockDiscipline
    <3>2. /\ workset_' \in Seq(1 .. num_pushed')
          /\ Len(workset_') <= Capacity
      BY <2>5, <1>0, PushBackResult DEF PushStore, full
    <3>3. QED
      BY <2>5, <3>1, <3>2 DEF PushStore, Lock!ReleaseWrite
  <2>6. QED
    BY <1>1, <2>1, <2>2, <2>3, <2>4, <2>5 DEF PublisherNext
<1>2. ASSUME NEW s \in Subscribers, SubscriberNext(s) PROVE TypeOK'
  <2>1. CASE GetSubscriber(s)
    BY <2>1 DEF GetSubscriber
  <2>2. CASE ReleaseSubscriber(s)
    BY <2>2 DEF ReleaseSubscriber
  <2>3. CASE TryPopLock(s)
    BY <2>3 DEF TryPopLock, Lock!AcquireRead
  <2>4. CASE TryPopTake(s)
    <3>1. workset_[current_index_[s] + 1] \in 0 .. MaxPushes
      BY <2>4, <1>0 DEF TryPopTake, HasEntry
    <3>2. current_index_[s] + 1 \in 0 .. Capacity
      BY <2>4, <1>0 DEF TryPopTake, HasEntry
    <3>3. QED
      BY <2>4, <3>1, <3>2 DEF TryPopTake, Lock!ReleaseRead
  <2>5. CASE TryPopMiss(s)
    BY <2>5 DEF TryPopMiss, Lock!ReleaseRead
  <2>6. CASE NumAvailableLock(s)
    BY <2>6 DEF NumAvailableLock, Lock!AcquireRead
  <2>7. CASE NumAvailable(s)
    <3>1. s \in subscribers_
      BY <2>7 DEF NumAvailable, LockDiscipline
    <3>2. current_index_[s] <= Len(workset_)
      BY <3>1, IndexInBuffer
    <3>3. Len(workset_) - current_index_[s] \in 0 .. Capacity
      BY <3>1, <3>2, <1>0
    <3>4. QED
      BY <2>7, <3>3 DEF NumAvailable, Lock!ReleaseRead
  <2>8. QED
    BY <1>2, <2>1, <2>2, <2>3, <2>4, <2>5, <2>6, <2>7 DEF SubscriberNext
<1>3. QED
  BY <1>1, <1>2 DEF Next

\* The lock is held by the threads inside a locked section, for every step.
LEMMA LockDisciplineStep ==
  ASSUME WorksetInv, Next
  PROVE  LockDiscipline'
<1> USE HandlesAssumption
    DEF WorksetInv, TypeOK, LockDiscipline, Threads, Goto, LockFree
<1>1. ASSUME NEW p \in Publishers, PublisherNext(p) PROVE LockDiscipline'
  <2>1. CASE GetPublisher(p)
    BY <2>1 DEF GetPublisher
  <2>2. CASE ReleasePublisher(p)
    BY <2>2 DEF ReleasePublisher
  <2>3. CASE PushLock(p)
    BY <2>3 DEF PushLock, Lock!AcquireWrite
  <2>4. CASE PushShift(p)
    BY <2>4 DEF PushShift
  <2>5. CASE PushStore(p)
    BY <2>5 DEF PushStore, Lock!ReleaseWrite
  <2>6. QED
    BY <1>1, <2>1, <2>2, <2>3, <2>4, <2>5 DEF PublisherNext
<1>2. ASSUME NEW s \in Subscribers, SubscriberNext(s) PROVE LockDiscipline'
  <2>1. CASE GetSubscriber(s)
    BY <2>1 DEF GetSubscriber
  <2>2. CASE ReleaseSubscriber(s)
    BY <2>2 DEF ReleaseSubscriber
  <2>3. CASE TryPopLock(s)
    BY <2>3 DEF TryPopLock, Lock!AcquireRead
  <2>4. CASE TryPopTake(s)
    BY <2>4 DEF TryPopTake, Lock!ReleaseRead
  <2>5. CASE TryPopMiss(s)
    BY <2>5 DEF TryPopMiss, Lock!ReleaseRead
  <2>6. CASE NumAvailableLock(s)
    BY <2>6 DEF NumAvailableLock, Lock!AcquireRead
  <2>7. CASE NumAvailable(s)
    BY <2>7 DEF NumAvailable, Lock!ReleaseRead
  <2>8. QED
    BY <1>2, <2>1, <2>2, <2>3, <2>4, <2>5, <2>6, <2>7 DEF SubscriberNext
<1>3. QED
  BY <1>1, <1>2 DEF Next

\* A step that leaves the buffer, the indexes and the pops alone, and starts
\* or ends no store, keeps the data invariant.
LEMMA DataKept ==
  ASSUME WorksetInv,
         UNCHANGED <<workset_, subscribers_, current_index_, num_pushed,
                     popped, available>>,
         \A p \in Publishers : pc'[p] = "store" <=> pc[p] = "store"
  PROVE  DataInv'
<1>1. Gone' = Gone
  BY DEF Gone, full
<1>2. QED
  BY <1>1 DEF WorksetInv, DataInv, BufferFilled, BufferHoldsLast, HandleState,
              IndexFollowsLastPop, AvailableIsPromise

\* The overwriting push: every index moves down with the buffer
\* (workset.hpp:49-55).
LEMMA PushShiftData ==
  ASSUME WorksetInv, NEW p \in Publishers, PushShift(p)
  PROVE  DataInv'
<1>1. /\ num_pushed \in Nat /\ Len(workset_) \in Nat
      /\ current_index_ \in [Subscribers -> Nat]
      /\ popped \in [Subscribers -> Nat]
      /\ Gone \in Nat
  BY MaxPushesAssumption, LenProperties, GoneRange DEF WorksetInv, TypeOK
<1>2. Gone = num_pushed - Len(workset_)
  BY <1>1 DEF Gone, WorksetInv, LockDiscipline, PushShift
<1>3. Gone' = Gone + IF full THEN 1 ELSE 0
  <2>1. pc'[p] = "store"
    BY DEF WorksetInv, TypeOK, Threads, PushShift, Goto
  <2>2. UNCHANGED <<workset_, num_pushed>> /\ full' = full
    BY DEF PushShift, full
  <2>3. QED
    BY <1>1, <1>2, <2>1, <2>2 DEF Gone
<1>4. ASSUME NEW s \in subscribers_
      PROVE  /\ current_index_'[s] =
                   IF popped[s] > Gone' THEN popped[s] - Gone' ELSE 0
             /\ available[s] <= Len(workset_) - current_index_'[s]
  <2>1. s \in Subscribers
    BY DEF WorksetInv, TypeOK
  <2>2. current_index_'[s] =
          IF full THEN ShiftedIndex(current_index_[s]) ELSE current_index_[s]
    BY <2>1 DEF PushShift
  <2>3. current_index_[s] = IF popped[s] > Gone THEN popped[s] - Gone ELSE 0
    BY DEF WorksetInv, IndexFollowsLastPop
  <2>4. current_index_'[s] <= current_index_[s] /\ current_index_'[s] \in Nat
    BY <1>1, <2>1, <2>2 DEF ShiftedIndex
  <2>5. available[s] <= Len(workset_) - current_index_[s] /\ available[s] \in Int
    BY <2>1, CapacityAssumption DEF WorksetInv, AvailableIsPromise, TypeOK, NoAnswer
  <2>6. available[s] <= Len(workset_) - current_index_'[s]
    BY <1>1, <2>1, <2>4, <2>5
  <2>7. QED
    BY <1>1, <1>3, <2>1, <2>2, <2>3, <2>6 DEF ShiftedIndex
<1>5. UNCHANGED <<workset_, subscribers_, num_pushed, popped, available>>
  BY DEF PushShift
<1>6. QED
  BY <1>4, <1>5 DEF WorksetInv, DataInv, BufferFilled, BufferHoldsLast,
                    HandleState, IndexFollowsLastPop, AvailableIsPromise

\* The entry is stored where the indexes already expect it (workset.hpp:56).
LEMMA PushStoreData ==
  ASSUME WorksetInv, NEW p \in Publishers, PushStore(p)
  PROVE  DataInv'
<1> USE CapacityAssumption
<1>1. /\ num_pushed \in Nat /\ Len(workset_) \in Nat
      /\ num_pushed' = num_pushed + 1
  BY MaxPushesAssumption, LenProperties DEF WorksetInv, TypeOK, PushStore
<1>2. /\ Len(workset_') = IF full THEN Len(workset_) ELSE Len(workset_) + 1
      /\ \A i \in 1 .. Len(workset_') :
            workset_'[i] = (num_pushed' - Len(workset_')) + i
  BY PushBackResult, <1>1 DEF WorksetInv, PushStore
<1>3. BufferFilled' /\ BufferHoldsLast'
  BY <1>1, <1>2 DEF WorksetInv, BufferFilled, BufferHoldsLast, full
<1>4. \A q \in Publishers : pc'[q] # "store"
  BY HandlesAssumption
     DEF WorksetInv, LockDiscipline, TypeOK, Threads, PushStore, Goto
<1>5. Gone' = Gone
  <2>1. Gone' = num_pushed' - Len(workset_')
    BY <1>1, <1>2, <1>4 DEF Gone
  <2>2. Gone = (num_pushed - Len(workset_)) + IF full THEN 1 ELSE 0
    BY DEF Gone, PushStore
  <2>3. QED
    BY <1>1, <1>2, <2>1, <2>2
<1>6. UNCHANGED <<subscribers_, current_index_, available, popped>>
  BY DEF PushStore
<1>7. HandleState'
  BY <1>1, <1>6, MaxPushesAssumption DEF WorksetInv, TypeOK, HandleState
<1>8. IndexFollowsLastPop'
  BY <1>5, <1>6 DEF WorksetInv, IndexFollowsLastPop
<1>9. AvailableIsPromise'
  <2> SUFFICES ASSUME NEW s \in subscribers_
               PROVE  available[s] <= Len(workset_') - current_index_[s]
    BY <1>6 DEF AvailableIsPromise
  <2>1. /\ available[s] \in Int /\ current_index_[s] \in Int
        /\ available[s] <= Len(workset_) - current_index_[s]
    BY DEF WorksetInv, TypeOK, NoAnswer, AvailableIsPromise
  <2>2. QED
    BY <1>1, <1>2, <2>1
<1>10. QED
  BY <1>3, <1>7, <1>8, <1>9 DEF DataInv

\* A new handle starts at the oldest entry; a released one forgets.
LEMMA SubscriptionData ==
  ASSUME WorksetInv, NEW s \in Subscribers,
         GetSubscriber(s) \/ ReleaseSubscriber(s)
  PROVE  DataInv'
<1>1. /\ Gone' = Gone /\ Gone \in Nat /\ Len(workset_) \in Nat
      /\ num_pushed \in Nat
  BY SMTT(30), GoneRange, LenProperties, MaxPushesAssumption
     DEF WorksetInv, TypeOK, Gone, full, GetSubscriber, ReleaseSubscriber
<1>2. BufferFilled' /\ BufferHoldsLast'
  BY DEF WorksetInv, BufferFilled, BufferHoldsLast, GetSubscriber, ReleaseSubscriber
<1>3. CASE GetSubscriber(s)
  <2>1. popped[s] = 0 /\ available[s] = NoAnswer
    BY <1>3 DEF GetSubscriber, WorksetInv, HandleState
  <2>2. HandleState'
    BY <1>3 DEF GetSubscriber, WorksetInv, HandleState
  <2>3. ASSUME NEW u \in subscribers_'
        PROVE  /\ current_index_'[u] =
                     IF popped[u] > Gone THEN popped[u] - Gone ELSE 0
               /\ available[u] <= Len(workset_) - current_index_'[u]
    <3>1. CASE u = s
      BY <1>1, <1>3, <2>1, <3>1 DEF GetSubscriber, WorksetInv, TypeOK, NoAnswer
    <3>2. CASE u # s
      BY <1>3, <2>3, <3>2
         DEF GetSubscriber, WorksetInv, TypeOK, IndexFollowsLastPop, AvailableIsPromise
    <3>3. QED
      BY <3>1, <3>2
  <2>4. IndexFollowsLastPop' /\ AvailableIsPromise'
    BY <1>1, <1>3, <2>3 DEF GetSubscriber, IndexFollowsLastPop, AvailableIsPromise
  <2>5. QED
    BY <1>2, <2>2, <2>4 DEF DataInv
<1>4. CASE ReleaseSubscriber(s)
  <2>1. HandleState'
    BY <1>1, <1>4 DEF ReleaseSubscriber, WorksetInv, TypeOK, HandleState
  <2>2. IndexFollowsLastPop' /\ AvailableIsPromise'
    BY <1>1, <1>4 DEF ReleaseSubscriber, WorksetInv, TypeOK, IndexFollowsLastPop,
                      AvailableIsPromise
  <2>3. QED
    BY <1>2, <2>1, <2>2 DEF DataInv
<1>5. QED
  BY <1>3, <1>4

\* A pop moves the index with the entry it takes (workset.hpp:106-107).
LEMMA TryPopTakeData ==
  ASSUME WorksetInv, NEW s \in Subscribers, TryPopTake(s)
  PROVE  DataInv'
<1> DEFINE n == workset_[current_index_[s] + 1]
<1>1. s \in subscribers_ /\ pc[s] = "pop" /\ current_index_[s] < Len(workset_)
  BY DEF TryPopTake, HasEntry, WorksetInv, LockDiscipline
<1>2. /\ n \in Log!Retained
      /\ Gone = num_pushed - Len(workset_)
      /\ n = Gone + current_index_[s] + 1
  BY <1>1, NextEntry
<1> HIDE DEF n
<1>3. /\ num_pushed \in Nat /\ Len(workset_) \in Nat /\ Gone \in Nat
      /\ current_index_ \in [Subscribers -> Nat]
      /\ popped \in [Subscribers -> Nat]
  BY MaxPushesAssumption, LenProperties, GoneRange DEF WorksetInv, TypeOK
<1>4. n \in Nat /\ n <= num_pushed
  BY <1>2, <1>3 DEF Log!Retained
<1>5. /\ popped' = [popped EXCEPT ![s] = n]
      /\ current_index_' = [current_index_ EXCEPT ![s] = @ + 1]
      /\ available' = [available EXCEPT ![s] = NoAnswer]
      /\ UNCHANGED <<workset_, subscribers_, num_pushed>>
  BY DEF TryPopTake, n
<1>6. Gone' = Gone
  <2>1. \A p \in Publishers : pc'[p] = pc[p]
    BY HandlesAssumption DEF TryPopTake, Goto, WorksetInv, TypeOK, Threads
  <2>2. QED
    BY <2>1, <1>5 DEF Gone, full
<1>7. BufferFilled' /\ BufferHoldsLast'
  BY <1>5 DEF WorksetInv, BufferFilled, BufferHoldsLast
<1>8. HandleState'
  BY <1>1, <1>3, <1>4, <1>5 DEF WorksetInv, TypeOK, HandleState
<1>9. ASSUME NEW u \in subscribers_
      PROVE  /\ current_index_'[u] =
                   IF popped'[u] > Gone THEN popped'[u] - Gone ELSE 0
             /\ available'[u] <= Len(workset_) - current_index_'[u]
  <2>1. u \in Subscribers /\ available \in [Subscribers -> Int]
    BY CapacityAssumption DEF WorksetInv, TypeOK, NoAnswer
  <2>2. CASE u = s
    BY SMTT(30), <1>1, <1>2, <1>3, <1>4, <1>5, <2>1, <2>2 DEF NoAnswer
  <2>3. CASE u # s
    BY <1>5, <2>1, <2>3 DEF WorksetInv, IndexFollowsLastPop, AvailableIsPromise
  <2>4. QED
    BY <2>2, <2>3
<1>10. IndexFollowsLastPop' /\ AvailableIsPromise'
  BY <1>5, <1>6, <1>9 DEF IndexFollowsLastPop, AvailableIsPromise
<1>11. QED
  BY <1>7, <1>8, <1>10 DEF DataInv

\* num_available answers what the buffer holds beyond the index.
LEMMA NumAvailableData ==
  ASSUME WorksetInv, NEW s \in Subscribers, NumAvailable(s)
  PROVE  DataInv'
<1>1. Gone' = Gone
  <2>1. \A p \in Publishers : pc'[p] = pc[p]
    BY HandlesAssumption DEF NumAvailable, Goto, WorksetInv, TypeOK, Threads
  <2>2. QED
    BY <2>1 DEF Gone, full, NumAvailable
<1>2. s \in subscribers_
  BY DEF NumAvailable, WorksetInv, LockDiscipline
<1>3. BufferFilled' /\ BufferHoldsLast' /\ IndexFollowsLastPop'
  BY <1>1 DEF WorksetInv, BufferFilled, BufferHoldsLast, IndexFollowsLastPop,
              NumAvailable
<1>4. HandleState'
  BY <1>2 DEF WorksetInv, TypeOK, HandleState, NumAvailable
<1>5. AvailableIsPromise'
  BY <1>2, LenProperties DEF WorksetInv, TypeOK, AvailableIsPromise, NumAvailable
<1>6. QED
  BY <1>3, <1>4, <1>5 DEF DataInv

LEMMA DataStep ==
  ASSUME WorksetInv, Next
  PROVE  DataInv'
<1>1. ASSUME NEW p \in Publishers, PublisherNext(p) PROVE DataInv'
  <2>1. CASE GetPublisher(p) \/ ReleasePublisher(p)
    BY <2>1, DataKept DEF GetPublisher, ReleasePublisher
  <2>2. CASE PushLock(p)
    <3>1. \A q \in Publishers : pc'[q] = "store" <=> pc[q] = "store"
      BY <2>2 DEF PushLock, Goto, WorksetInv, TypeOK, Threads
    <3>2. QED
      BY <2>2, <3>1, DataKept DEF PushLock
  <2>3. CASE PushShift(p)
    BY <2>3, PushShiftData
  <2>4. CASE PushStore(p)
    BY <2>4, PushStoreData
  <2>5. QED
    BY <1>1, <2>1, <2>2, <2>3, <2>4 DEF PublisherNext
<1>2. ASSUME NEW s \in Subscribers, SubscriberNext(s) PROVE DataInv'
  <2>1. CASE GetSubscriber(s) \/ ReleaseSubscriber(s)
    BY <2>1, SubscriptionData
  <2>2. CASE TryPopLock(s) \/ TryPopMiss(s) \/ NumAvailableLock(s)
    <3>1. \A q \in Publishers : pc'[q] = "store" <=> pc[q] = "store"
      BY <2>2, HandlesAssumption
         DEF TryPopLock, TryPopMiss, NumAvailableLock, Goto, WorksetInv, TypeOK, Threads
    <3>2. QED
      BY <2>2, <3>1, DataKept DEF TryPopLock, TryPopMiss, NumAvailableLock
  <2>3. CASE TryPopTake(s)
    BY <2>3, TryPopTakeData
  <2>4. CASE NumAvailable(s)
    BY <2>4, NumAvailableData
  <2>5. QED
    BY <1>2, <2>1, <2>2, <2>3, <2>4 DEF SubscriberNext
<1>3. QED
  BY <1>1, <1>2 DEF Next

LEMMA WorksetInvStep == WorksetInv /\ [Next]_vars => WorksetInv'
<1> SUFFICES ASSUME WorksetInv, [Next]_vars PROVE WorksetInv'
  OBVIOUS
<1>1. CASE Next
  BY <1>1, TypeOKStep, LockDisciplineStep, DataStep DEF WorksetInv, DataInv
<1>2. CASE UNCHANGED vars
  <2>1. LockDiscipline'
    BY <1>2 DEF vars, WorksetInv, LockDiscipline
  <2>2. TypeOK'
    BY <1>2 DEF vars, WorksetInv, TypeOK
  <2>3. DataInv'
    BY <1>2, DataKept DEF vars
  <2>4. QED
    BY <2>1, <2>2, <2>3 DEF WorksetInv, DataInv
<1>3. QED
  BY <1>1, <1>2

\* The inductive invariant holds throughout.
THEOREM WorksetInvariance == Spec => []WorksetInv
  BY WorksetInvInit, WorksetInvStep, PTL DEF Spec

\* A subscriber's index follows its last pop, and no num_available answer is
\* taken back, whatever the publishers and the other subscribers do.
THEOREM IndexesAreSound ==
    Spec => [](TypeOK /\ BufferHoldsLast /\ IndexFollowsLastPop /\ AvailableIsPromise)
<1>1. WorksetInv => TypeOK /\ BufferHoldsLast /\ IndexFollowsLastPop /\ AvailableIsPromise
  BY DEF WorksetInv
<1>2. QED
  BY <1>1, WorksetInvariance, PTL

-----------------------------------------------------------------------------
\* Every step of the workset is a step of WorksetLog or none.
LEMMA WorksetStepIsLogStep ==
  ASSUME WorksetInv, [Next]_vars
  PROVE  [Log!LogNext]_(Log!logVars)
<1> USE DEF Log!logVars
<1>1. ASSUME NEW p \in Publishers, PublisherNext(p)
      PROVE  [Log!LogNext]_(Log!logVars)
  <2>1. CASE PushStore(p)
    BY <2>1 DEF PushStore, Log!LogNext, Log!AppendEntry
  <2>2. CASE ~PushStore(p)
    BY <1>1, <2>2 DEF PublisherNext, GetPublisher, ReleasePublisher, PushLock, PushShift
  <2>3. QED
    BY <2>1, <2>2
<1>2. ASSUME NEW s \in Subscribers, SubscriberNext(s)
      PROVE  [Log!LogNext]_(Log!logVars)
  <2>1. CASE GetSubscriber(s)
    <3>1. Log!Subscribe(s)
      BY <2>1 DEF GetSubscriber, Log!Subscribe
    <3>2. QED
      BY <3>1 DEF Log!LogNext
  <2>2. CASE ReleaseSubscriber(s)
    <3>1. Log!Unsubscribe(s)
      BY <2>2 DEF ReleaseSubscriber, Log!Unsubscribe
    <3>2. QED
      BY <3>1 DEF Log!LogNext
  <2>3. CASE TryPopTake(s)
    <3>1. s \in subscribers_ /\ pc[s] = "pop" /\ current_index_[s] < Len(workset_)
      BY <2>3 DEF TryPopTake, HasEntry, WorksetInv, LockDiscipline
    <3>2. Log!Deliver(s)
      BY <2>3, <3>1, NextEntry DEF TryPopTake, Log!Deliver
    <3>3. QED
      BY <3>2 DEF Log!LogNext
  <2>4. CASE TryPopLock(s) \/ TryPopMiss(s) \/ NumAvailableLock(s) \/ NumAvailable(s)
    BY <2>4 DEF TryPopLock, TryPopMiss, NumAvailableLock, NumAvailable
  <2>5. QED
    BY <1>2, <2>1, <2>2, <2>3, <2>4 DEF SubscriberNext
<1>3. CASE UNCHANGED vars
  BY <1>3 DEF vars
<1>4. QED
  BY <1>1, <1>2, <1>3 DEF Next

\* The workset implements WorksetLog: each subscriber is handed the oldest
\* retained entry after its last one, for any capacity.
THEOREM WorksetRefinement == Spec => ImplementsLog
<1>1. Init => Log!LogInit
  BY DEF Init, Log!LogInit
<1>2. WorksetInv /\ [Next]_vars => [Log!LogNext]_(Log!logVars)
  BY WorksetStepIsLogStep
<1>3. QED
  BY <1>1, <1>2, WorksetInvariance, PTL DEF Spec, ImplementsLog, Log!LogSpec

=============================================================================
