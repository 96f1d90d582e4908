------------------------------- MODULE Workset ------------------------------
(***************************************************************************)
(* quant::Workset (common/quant/include/quant/workset.hpp): publishers     *)
(* push entries into one circular buffer, and each subscriber pops them at *)
(* its own index into that buffer.  A push into a full buffer overwrites   *)
(* the oldest entry, and first moves every subscriber's index down by one, *)
(* but not below zero.                                                     *)
(*                                                                         *)
(* Every handle belongs to a thread of its own.  The lock is RWLockSpec,   *)
(* which aux::rw_lock implements (RWLockProofs).  A call is split where    *)
(* another thread could see its work half done: taking the lock, moving    *)
(* the indexes, storing the entry and releasing the lock.  Entries are     *)
(* numbered in the order they are stored.                                  *)
(***************************************************************************)
EXTENDS Integers, Sequences

CONSTANTS Publishers, Subscribers,
          Capacity, \* capacity_ of the circular buffer
          MaxPushes \* bound on the number of entries pushed

ASSUME HandlesAssumption == Publishers \cap Subscribers = {}
ASSUME CapacityAssumption == Capacity \in Nat \ {0}
ASSUME MaxPushesAssumption == MaxPushes \in Nat

VARIABLES workset_,       \* the buffer, oldest entry first
          publishers_,    \* the registered publishers
          subscribers_,   \* the registered subscribers
          current_index_, \* each subscriber's index, counted from 0
          readers, writers, \* the holders of workset_lock_
          pc,             \* where each handle's thread is
          available,      \* what num_available last returned to a subscriber
          num_pushed,     \* entries stored so far, to number them
          popped          \* the last entry each subscriber popped, 0 for none

lockVars == <<readers, writers>>
vars == <<workset_, publishers_, subscribers_, current_index_, readers,
          writers, pc, available, num_pushed, popped>>

Threads == Publishers \cup Subscribers

Lock == INSTANCE RWLockSpec

Locations == {"idle", "shift", "store", "pop", "count"}

\* No answer of num_available is in use.
NoAnswer == -1

Init ==
    /\ workset_ = <<>>
    /\ publishers_ = {}
    /\ subscribers_ = {}
    /\ current_index_ = [s \in Subscribers |-> 0]
    /\ Lock!LockInit
    /\ pc = [t \in Threads |-> "idle"]
    /\ available = [s \in Subscribers |-> NoAnswer]
    /\ num_pushed = 0
    /\ popped = [s \in Subscribers |-> 0]

-----------------------------------------------------------------------------
\* boost::circular_buffer as the workset uses it.
full == Len(workset_) = Capacity

PushBack(entry) ==
    workset_' = Append(IF full THEN Tail(workset_) ELSE workset_, entry)

Goto(t, loc) == pc' = [pc EXCEPT ![t] = loc]

LockFree == readers = {} /\ writers = {}

\* get_publisher, release: one section under the writer lock each, and
\* nobody looks at the publishers outside it.
GetPublisher(p) ==
    /\ LockFree
    /\ p \notin publishers_
    /\ publishers_' = publishers_ \cup {p}
    /\ UNCHANGED <<workset_, subscribers_, current_index_, readers, writers,
                   pc, available, num_pushed, popped>>

ReleasePublisher(p) ==
    /\ LockFree
    /\ p \in publishers_
    /\ pc[p] = "idle"
    /\ publishers_' = publishers_ \ {p}
    /\ UNCHANGED <<workset_, subscribers_, current_index_, readers, writers,
                   pc, available, num_pushed, popped>>

\* get_subscriber: a new subscriber starts at the oldest entry.
GetSubscriber(s) ==
    /\ LockFree
    /\ s \notin subscribers_
    /\ subscribers_' = subscribers_ \cup {s}
    /\ current_index_' = [current_index_ EXCEPT ![s] = 0]
    /\ UNCHANGED <<workset_, publishers_, readers, writers, pc, available,
                   num_pushed, popped>>

\* release: the handle is deleted, and what its owner knew goes with it.
ReleaseSubscriber(s) ==
    /\ LockFree
    /\ s \in subscribers_
    /\ pc[s] = "idle"
    /\ subscribers_' = subscribers_ \ {s}
    /\ available' = [available EXCEPT ![s] = NoAnswer]
    /\ popped' = [popped EXCEPT ![s] = 0]
    /\ UNCHANGED <<workset_, publishers_, current_index_, readers, writers,
                   pc, num_pushed>>

-----------------------------------------------------------------------------
\* Publisher::push: writer_lock.
PushLock(p) ==
    /\ p \in publishers_
    /\ pc[p] = "idle"
    /\ num_pushed < MaxPushes
    /\ Lock!AcquireWrite(p)
    /\ Goto(p, "shift")
    /\ UNCHANGED <<workset_, publishers_, subscribers_, current_index_,
                   available, num_pushed, popped>>

\* A subscriber's index after one entry is overwritten.
ShiftedIndex(i) == IF i > 0 THEN i - 1 ELSE 0

\* A defect: the indexes move although nothing is overwritten.
PushShiftAlways(p) ==
    /\ pc[p] = "shift"
    /\ current_index_' =
          [s \in Subscribers |->
              IF s \in subscribers_ THEN ShiftedIndex(current_index_[s])
                                    ELSE current_index_[s]]
    /\ Goto(p, "store")
    /\ UNCHANGED <<workset_, publishers_, subscribers_, readers, writers,
                   available, num_pushed, popped>>

\* Publisher::push: the loop over the subscribers.
PushShift(p) ==
    /\ pc[p] = "shift"
    /\ current_index_' =
          [s \in Subscribers |->
              IF full /\ s \in subscribers_ THEN ShiftedIndex(current_index_[s])
                                            ELSE current_index_[s]]
    /\ Goto(p, "store")
    /\ UNCHANGED <<workset_, publishers_, subscribers_, readers, writers,
                   available, num_pushed, popped>>

\* Publisher::push: push_back and writer_unlock.
PushStore(p) ==
    /\ pc[p] = "store"
    /\ PushBack(num_pushed + 1)
    /\ num_pushed' = num_pushed + 1
    /\ Lock!ReleaseWrite(p)
    /\ Goto(p, "idle")
    /\ UNCHANGED <<publishers_, subscribers_, current_index_, available, popped>>

\* A defect: try_pop goes ahead without the lock a push holds.
TryPopUnlocked(s) ==
    /\ s \in subscribers_
    /\ pc[s] = "idle"
    /\ readers' = readers \cup {s}
    /\ Goto(s, "pop")
    /\ UNCHANGED <<workset_, publishers_, subscribers_, current_index_,
                   writers, available, num_pushed, popped>>

\* Subscriber::try_pop: reader_try_lock succeeds.  When it fails, which it may
\* at any time, try_pop returns false and nothing has changed.
TryPopLock(s) ==
    /\ s \in subscribers_
    /\ pc[s] = "idle"
    /\ Lock!AcquireRead(s)
    /\ Goto(s, "pop")
    /\ UNCHANGED <<workset_, publishers_, subscribers_, current_index_,
                   available, num_pushed, popped>>

\* A defect: off by one at the end of the buffer.
HasTwoEntries(s) == current_index_[s] + 1 < Len(workset_)

HasEntry(s) == current_index_[s] < Len(workset_)

\* Subscriber::try_pop: an entry is there, it is copied out and passed.
TryPopTake(s) ==
    /\ pc[s] = "pop"
    /\ HasEntry(s)
    /\ popped' = [popped EXCEPT ![s] = workset_[current_index_[s] + 1]]
    /\ current_index_' = [current_index_ EXCEPT ![s] = @ + 1]
    /\ available' = [available EXCEPT ![s] = NoAnswer]
    /\ Lock!ReleaseRead(s)
    /\ Goto(s, "idle")
    /\ UNCHANGED <<workset_, publishers_, subscribers_, num_pushed>>

\* Subscriber::try_pop: no entry is there for this subscriber.
TryPopMiss(s) ==
    /\ pc[s] = "pop"
    /\ ~HasEntry(s)
    /\ Lock!ReleaseRead(s)
    /\ Goto(s, "idle")
    /\ UNCHANGED <<workset_, publishers_, subscribers_, current_index_,
                   available, num_pushed, popped>>

\* Subscriber::num_available: reader_lock, the difference, reader_unlock.
NumAvailableLock(s) ==
    /\ s \in subscribers_
    /\ pc[s] = "idle"
    /\ Lock!AcquireRead(s)
    /\ Goto(s, "count")
    /\ UNCHANGED <<workset_, publishers_, subscribers_, current_index_,
                   available, num_pushed, popped>>

\* A defect: the entries in the buffer, whatever this subscriber has popped.
NumAvailableAll(s) ==
    /\ pc[s] = "count"
    /\ available' = [available EXCEPT ![s] = Len(workset_)]
    /\ Lock!ReleaseRead(s)
    /\ Goto(s, "idle")
    /\ UNCHANGED <<workset_, publishers_, subscribers_, current_index_,
                   num_pushed, popped>>

NumAvailable(s) ==
    /\ pc[s] = "count"
    /\ available' = [available EXCEPT ![s] = Len(workset_) - current_index_[s]]
    /\ Lock!ReleaseRead(s)
    /\ Goto(s, "idle")
    /\ UNCHANGED <<workset_, publishers_, subscribers_, current_index_,
                   num_pushed, popped>>

-----------------------------------------------------------------------------
PublisherNext(p) ==
    \/ GetPublisher(p)
    \/ ReleasePublisher(p)
    \/ PushLock(p)
    \/ PushShift(p)
    \/ PushStore(p)

SubscriberNext(s) ==
    \/ GetSubscriber(s)
    \/ ReleaseSubscriber(s)
    \/ TryPopLock(s)
    \/ TryPopTake(s)
    \/ TryPopMiss(s)
    \/ NumAvailableLock(s)
    \/ NumAvailable(s)

Next ==
    \/ \E p \in Publishers : PublisherNext(p)
    \/ \E s \in Subscribers : SubscriberNext(s)

Spec == Init /\ [][Next]_vars

\* Threads inside a call run on; a subscriber that holds a handle keeps
\* polling, and is not for ever refused a lock that is free again and again.
FairSpec ==
    /\ Spec
    /\ \A p \in Publishers : WF_vars(PushShift(p) \/ PushStore(p))
    /\ \A s \in Subscribers :
          /\ WF_vars(TryPopTake(s) \/ TryPopMiss(s) \/ NumAvailable(s))
          /\ SF_vars(TryPopLock(s))

-----------------------------------------------------------------------------
TypeOK ==
    /\ workset_ \in Seq(1 .. num_pushed)
    /\ Len(workset_) <= Capacity
    /\ publishers_ \subseteq Publishers
    /\ subscribers_ \subseteq Subscribers
    /\ current_index_ \in [Subscribers -> 0 .. Capacity]
    /\ readers \subseteq Subscribers
    /\ writers \subseteq Publishers
    /\ pc \in [Threads -> Locations]
    /\ available \in [Subscribers -> {NoAnswer} \cup 0 .. Capacity]
    /\ num_pushed \in 0 .. MaxPushes
    /\ popped \in [Subscribers -> 0 .. MaxPushes]

\* The entries that are gone, the one a push is about to overwrite included
\* from the moment the indexes have made room for it.
Gone ==
    LET overwriting == full /\ \E p \in Publishers : pc[p] = "store"
    IN  (num_pushed - Len(workset_)) + IF overwriting THEN 1 ELSE 0

\* The buffer holds the last entries pushed, in order.
BufferHoldsLast ==
    \A i \in 1 .. Len(workset_) : workset_[i] = (num_pushed - Len(workset_)) + i

\* However pushes, pops, subscriptions and releases interleave, a
\* subscriber's index stands right after the entry it popped last, or at the
\* oldest entry when the publishers have lapped it (workset.hpp:49-56, 104).
IndexFollowsLastPop ==
    \A s \in subscribers_ :
        current_index_[s] = IF popped[s] > Gone THEN popped[s] - Gone ELSE 0

\* What num_available returned stays a promise until the next pop: pushes
\* that overwrite entries in between never leave the subscriber with fewer.
\* The loop of Utils::draw_workset_png (utils.cpp:260-264) spins on try_pop
\* for ever should this fail.
AvailableIsPromise ==
    \A s \in subscribers_ : available[s] <= Len(workset_) - current_index_[s]

\* The workset delivers what WorksetLog promises: entries in order, none
\* twice, and none left out that is still in the buffer.
Log == INSTANCE WorksetLog WITH
          head <- num_pushed,
          subscribed <- subscribers_,
          last <- popped
ImplementsLog == Log!LogSpec

\* A subscriber that keeps its handle and keeps polling has seen the last
\* entry again and again, the publishers being silent after MaxPushes.
Drained ==
    \A s \in Subscribers :
        <>[](s \in subscribers_) => []<>(popped[s] = num_pushed)

=============================================================================
