-------------------------- MODULE HttpServerProofs --------------------------
(***************************************************************************)
(* For any number of acceptors, endpoints and connections: the server      *)
(* holds a connection object in one place at most, and none it holds has   *)
(* been deleted; a pool entry stands under its connection's own id; and as *)
(* long as no endpoint has come back before its entry left the pool, no    *)
(* object is lost and none is queued while its coroutine serves requests.  *)
(***************************************************************************)
EXTENDS HttpServer, FiniteSetTheorems, SequenceTheorems, TLAPS

\* An acceptor holds an object that is in neither the pool nor the queue.
Holds(a) == acceptor[a].pc \in {"reinit", "insert"}

Pooled(c) == \E e \in Endpoints : connection_pool_[e] = c

\* What an acceptor has at each of its locations.
AcceptorShape ==
    \A a \in Acceptors :
        /\ acceptor[a].pc \in {"accept", "ended"} <=> acceptor[a].ep = NoEndpoint
        /\ acceptor[a].pc \in {"reinit", "insert", "start"} <=> acceptor[a].conn \in Conns
        /\ acceptor[a].pc = "insert" => id_[acceptor[a].conn] = acceptor[a].ep

\* An object has an id from the moment it exists; coroutines and acceptors
\* know only objects that were created.
Made ==
    /\ \A c \in Conns : object[c] # "none" => id_[c] \in Endpoints
    /\ \A i \in 1 .. Len(cor) : object[cor[i].conn] # "none"
    /\ \A a \in Acceptors : acceptor[a].conn # NoConn => object[acceptor[a].conn] # "none"

\* Queue, pool and acceptors hold different objects, and each of them one
\* object once.  (The pool does because of PoolKeyIsId.)
HeldApart ==
    /\ \A i, j \in 1 .. Len(connections_to_delete_) :
          connections_to_delete_[i] = connections_to_delete_[j] => i = j
    /\ \A e \in Endpoints, i \in 1 .. Len(connections_to_delete_) :
          connection_pool_[e] # connections_to_delete_[i]
    /\ \A a \in Acceptors : Holds(a) =>
          /\ ~Pooled(acceptor[a].conn)
          /\ ~Queued(acceptor[a].conn)
          /\ \A b \in Acceptors : Holds(b) /\ acceptor[b].conn = acceptor[a].conn => a = b

HeldLive ==
    /\ \A e \in Endpoints : connection_pool_[e] # NoConn => object[connection_pool_[e]] = "live"
    /\ \A i \in 1 .. Len(connections_to_delete_) : object[connections_to_delete_[i]] = "live"
    /\ \A a \in Acceptors : Holds(a) => object[acceptor[a].conn] = "live"

\* The bound on the number of connections counts those still being accepted.
Starts == Len(cor) + Cardinality(Unfinished) <= MaxStarts

\* Acceptors deal with different endpoints, and the pool's entry of an
\* endpoint being dealt with is free.
EndpointsApart ==
    ~returned =>
        /\ \A a, b \in Acceptors :
              a # b /\ acceptor[a].ep = acceptor[b].ep => acceptor[a].ep = NoEndpoint
        /\ \A a \in Acceptors :
              acceptor[a].pc \in {"take", "reinit", "create", "insert"} =>
                  connection_pool_[acceptor[a].ep] = NoConn

Kept ==
    ~returned =>
        \A c \in Conns : object[c] = "live" =>
            Pooled(c) \/ Queued(c) \/ \E a \in Acceptors : Holds(a) /\ acceptor[a].conn = c

\* A coroutine that has not come to schedule_connection_delete yet.
Active(i) == cor[i].pc \in {"serving", "stopped"}

\* An object has one such coroutine at most, about to be started or running,
\* and stays in the pool until that coroutine takes it out.
ServedArePooled ==
    phase = "up" /\ ~returned =>
        /\ \A i \in 1 .. Len(cor) : Active(i) => Pooled(cor[i].conn)
        /\ \A a \in Acceptors : acceptor[a].pc = "start" => Pooled(acceptor[a].conn)
        /\ \A i, j \in 1 .. Len(cor) :
              Active(i) /\ Active(j) /\ cor[i].conn = cor[j].conn => i = j
        /\ \A a, b \in Acceptors :
              /\ acceptor[a].pc = "start" /\ acceptor[b].pc = "start"
              /\ acceptor[a].conn = acceptor[b].conn
              => a = b
        /\ \A a \in Acceptors, i \in 1 .. Len(cor) :
              acceptor[a].pc = "start" /\ Active(i) => cor[i].conn # acceptor[a].conn

ServerInv ==
    /\ TypeOK
    /\ AcceptorShape
    /\ Made
    /\ HeldApart
    /\ HeldLive
    /\ PoolKeyIsId
    /\ Starts
    /\ EndpointsApart
    /\ Kept
    /\ ServedArePooled

-----------------------------------------------------------------------------
\* A set any two of whose elements are the same has one element at most.
LEMMA AtMostOne ==
  ASSUME NEW S, \A x, y \in S : x = y
  PROVE  Cardinality(S) <= 1
<1>1. CASE S = {}
  BY <1>1, FS_EmptySet
<1>2. CASE S # {}
  <2>1. PICK x \in S : TRUE
    BY <1>2
  <2>2. S = {x}
    BY <2>1
  <2>3. QED
    BY <2>2, FS_Singleton
<1>3. QED
  BY <1>1, <1>2

\* The invariant counts no places: two places of one object are the same.
LEMMA OnePlace ==
  ASSUME ServerInv, NEW c \in Conns
  PROVE  Cardinality(Places(c)) <= 1
<1>1. \A e, f \in Endpoints : connection_pool_[e] = c /\ connection_pool_[f] = c => e = f
  BY NoConnAssumption DEF ServerInv, PoolKeyIsId
<1>2. \A i, j \in 1 .. Len(connections_to_delete_) :
         connections_to_delete_[i] = c /\ connections_to_delete_[j] = c => i = j
  BY DEF ServerInv, HeldApart
<1>3. \A a, b \in Acceptors :
         acceptor[a].conn = c /\ Holds(a) /\ acceptor[b].conn = c /\ Holds(b) => a = b
  BY DEF ServerInv, HeldApart
<1>4. \A e \in Endpoints, i \in 1 .. Len(connections_to_delete_) :
         ~(connection_pool_[e] = c /\ connections_to_delete_[i] = c)
  BY DEF ServerInv, HeldApart
<1>5. \A a \in Acceptors : acceptor[a].conn = c /\ Holds(a) => ~Pooled(c) /\ ~Queued(c)
  BY DEF ServerInv, HeldApart
<1>6. \A x, y \in Places(c) : x = y
  BY <1>1, <1>2, <1>3, <1>4, <1>5 DEF Places, Holds, Pooled, Queued
<1>7. QED
  BY <1>6, AtMostOne

\* The pool holds finitely many objects.
LEMMA PooledFinite ==
  ASSUME TypeOK
  PROVE  IsFiniteSet(PooledConns)
<1> DEFINE all == {connection_pool_[e] : e \in Endpoints}
<1>1. connection_pool_ \in Surjection(Endpoints, all)
  BY DEF TypeOK, Surjection
<1>2. IsFiniteSet(all)
  BY <1>1, FiniteAssumption, FS_Surjection
<1>3. QED
  BY <1>2, FS_RemoveElement DEF PooledConns

\* An order of the pooled objects in which none stands twice has them all.
LEMMA OrderHasAll ==
  ASSUME TypeOK,
         NEW order \in [1 .. Cardinality(PooledConns) -> PooledConns],
         \A i, j \in DOMAIN order : i # j => order[i] # order[j],
         NEW c \in PooledConns
  PROVE  \E i \in DOMAIN order : order[i] = c
<1>1. IsFiniteSet(PooledConns) /\ Cardinality(PooledConns) \in Nat
  BY PooledFinite, FS_CardinalityType
<1>2. Cardinality(1 .. Cardinality(PooledConns)) = Cardinality(PooledConns)
  BY <1>1, FS_Interval
<1>3. order \in Injection(1 .. Cardinality(PooledConns), PooledConns)
  BY DEF Injection, IsInjective
<1>4. order \in Surjection(1 .. Cardinality(PooledConns), PooledConns)
  BY <1>1, <1>2, <1>3, FS_Injection
<1>5. QED
  BY <1>4 DEF Surjection

LEMMA CorTyped ==
  ASSUME TypeOK, NEW i \in 1 .. Len(cor)
  PROVE  /\ cor[i].conn \in Conns
         /\ cor[i].pc \in {"serving", "stopped", "scheduled", "done"}
<1>1. cor[i] \in [conn : Conns, pc : {"serving", "stopped", "scheduled", "done"}]
  BY ElementOfSeq DEF TypeOK
<1>2. QED
  BY <1>1

\* A coroutine moves on; the others stay where they are.
LEMMA CorStep ==
  ASSUME TypeOK, NEW i \in 1 .. Len(cor),
         NEW pc \in {"serving", "stopped", "scheduled", "done"},
         cor' = [cor EXCEPT ![i].pc = pc]
  PROVE  /\ cor' \in Seq([conn : Conns, pc : {"serving", "stopped", "scheduled", "done"}])
         /\ Len(cor') = Len(cor)
         /\ \A j \in 1 .. Len(cor) : /\ cor'[j].conn = cor[j].conn
                                     /\ cor'[j].pc = IF j = i THEN pc ELSE cor[j].pc
<1> DEFINE R == [conn : Conns, pc : {"serving", "stopped", "scheduled", "done"}]
           r == [cor[i] EXCEPT !.pc = pc]
<1>1. cor \in Seq(R) /\ \A j \in 1 .. Len(cor) : cor[j] \in R
  BY ElementOfSeq DEF TypeOK
<1>2. r \in R /\ r.conn = cor[i].conn /\ r.pc = pc
  BY <1>1
<1>3. cor' = [cor EXCEPT ![i] = r]
  BY <1>1, LenProperties
<1> HIDE DEF R, r
<1>4. /\ cor' \in Seq(R)
      /\ Len(cor') = Len(cor)
      /\ \A j \in 1 .. Len(cor) : cor'[j] = IF j = i THEN r ELSE cor[j]
  BY <1>1, <1>2, <1>3, ExceptSeq
<1>5. QED
  BY <1>2, <1>4 DEF R

LEMMA CorStarted ==
  ASSUME TypeOK, NEW c \in Conns, cor' = Append(cor, [conn |-> c, pc |-> "serving"])
  PROVE  /\ cor' \in Seq([conn : Conns, pc : {"serving", "stopped", "scheduled", "done"}])
         /\ Len(cor) \in Nat /\ Len(cor') = Len(cor) + 1
         /\ cor'[Len(cor) + 1] = [conn |-> c, pc |-> "serving"]
         /\ \A j \in 1 .. Len(cor) : cor'[j] = cor[j]
BY DEF TypeOK

-----------------------------------------------------------------------------
\* The acceptors that count for the bound: one more, one less, as before.
LEMMA UnfinishedFinite == IsFiniteSet(Unfinished) /\ Cardinality(Unfinished) \in Nat
BY FiniteAssumption, FS_Subset, FS_CardinalityType DEF Unfinished

LEMMA StartsKept ==
  ASSUME ServerInv, Len(cor') = Len(cor), Unfinished' = Unfinished
  PROVE  Starts'
<1>1. Cardinality(Unfinished)' = Cardinality(Unfinished)
  OBVIOUS
<1>2. QED
  BY <1>1 DEF ServerInv, Starts

\* A step that leaves alone all the invariant is about.
LEMMA AsideStep ==
  ASSUME ServerInv, TypeOK',
         UNCHANGED <<object, id_, connection_pool_, connections_to_delete_, acceptor, cor,
                     phase, returned>>
  PROVE  ServerInv'
<1>1. Unfinished' = Unfinished
  BY DEF Unfinished
<1>2. Starts'
  BY <1>1, StartsKept
<1>3. AcceptorShape' /\ Made' /\ HeldApart' /\ HeldLive' /\ PoolKeyIsId'
  BY DEF ServerInv, AcceptorShape, Made, HeldApart, HeldLive, PoolKeyIsId, Holds, Pooled, Queued
<1>4. EndpointsApart' /\ Kept' /\ ServedArePooled'
  BY DEF ServerInv, EndpointsApart, Kept, ServedArePooled, Active, Holds, Pooled, Queued
<1>5. QED
  BY <1>2, <1>3, <1>4 DEF ServerInv

\* A step of a coroutine that leaves pool and queue alone.
LEMMA CoroutineStep ==
  ASSUME ServerInv, TypeOK', NEW i \in 1 .. Len(cor),
         NEW pc \in {"stopped", "scheduled", "done"}, pc = "stopped" => cor[i].pc = "serving",
         cor' = [cor EXCEPT ![i].pc = pc],
         UNCHANGED <<object, id_, connection_pool_, connections_to_delete_, acceptor,
                     phase, returned>>
  PROVE  ServerInv'
<1>1. /\ Len(cor') = Len(cor)
      /\ \A j \in 1 .. Len(cor) : cor'[j].conn = cor[j].conn /\ (Active(j)' => Active(j))
  BY CorStep DEF ServerInv, Active
<1>2. Unfinished' = Unfinished
  BY DEF Unfinished
<1>3. Starts'
  BY <1>1, <1>2, StartsKept
<1>4. AcceptorShape' /\ HeldApart' /\ HeldLive' /\ PoolKeyIsId'
  BY DEF ServerInv, AcceptorShape, HeldApart, HeldLive, PoolKeyIsId, Holds, Pooled, Queued
<1>5. Made'
  BY <1>1 DEF ServerInv, Made
<1>6. EndpointsApart' /\ Kept'
  BY DEF ServerInv, EndpointsApart, Kept, Holds, Pooled, Queued
<1>7. ServedArePooled'
  BY <1>1 DEF ServerInv, ServedArePooled, Pooled
<1>8. QED
  BY <1>3, <1>4, <1>5, <1>6, <1>7 DEF ServerInv

\* An acceptor goes on without taking or giving an object.
LEMMA AcceptStep ==
  ASSUME ServerInv, TypeOK', NEW a \in Acceptors, NEW e \in Endpoints, Accept(a, e)
  PROVE  ServerInv'
<1>1. acceptor'[a] = [pc |-> "take", ep |-> e, conn |-> NoConn, reset |-> FALSE]
  BY DEF ServerInv, TypeOK, Accept
<1>2. \A b \in Acceptors \ {a} : acceptor'[b] = acceptor[b]
  BY DEF ServerInv, TypeOK, Accept
<1>3. AcceptorShape'
  BY <1>1, <1>2, NoConnAssumption, NoEndpointAssumption DEF ServerInv, AcceptorShape, Accept, members
<1>4. Made'
  BY <1>1, <1>2 DEF ServerInv, Made, Accept, members
<1>5. HeldApart' /\ HeldLive' /\ PoolKeyIsId'
  BY <1>1, <1>2 DEF ServerInv, HeldApart, HeldLive, PoolKeyIsId, Holds, Pooled, Queued, Accept, members
<1>6. Starts'
  <2>1. Unfinished' = Unfinished \cup {a} /\ a \notin Unfinished
    BY <1>1, <1>2 DEF Unfinished, Accept
  <2>2. Cardinality(Unfinished)' = Cardinality(Unfinished) + 1
    BY <2>1, UnfinishedFinite, FS_AddElement
  <2>3. Len(cor) \in Nat
    BY DEF ServerInv, TypeOK
  <2>4. QED
    BY <2>2, <2>3, UnfinishedFinite, BoundAssumption DEF Starts, Accept
<1>7. EndpointsApart'
  <2>1. SUFFICES ASSUME ~returned' PROVE EndpointsApart'
    BY DEF EndpointsApart
  <2>2. ~returned /\ connection_pool_[e] = NoConn
        /\ \A b \in Acceptors : acceptor[b].ep = e => acceptor[b].pc = "accept"
    BY <2>1 DEF Accept, KnownToServer
  <2>3. \A b \in Acceptors : acceptor[b].ep # e
    BY <2>2, NoEndpointAssumption DEF ServerInv, AcceptorShape
  <2>4. QED
    BY <1>1, <1>2, <2>2, <2>3 DEF ServerInv, EndpointsApart, Accept
<1>8. /\ UNCHANGED <<object, id_, connection_pool_, connections_to_delete_, cor, phase>>
      /\ ~returned' => ~returned
      /\ ~Holds(a) /\ \A b \in Acceptors \ {a} : Holds(b)' <=> Holds(b)
  BY <1>2 DEF Accept, members, Holds
<1>9. Kept'
  BY <1>2, <1>8 DEF ServerInv, Kept, Pooled, Queued
<1>10. ServedArePooled'
  BY <1>1, <1>2, <1>8 DEF ServerInv, ServedArePooled, Active, Pooled
<1>11. QED
  BY <1>3, <1>4, <1>5, <1>6, <1>7, <1>9, <1>10 DEF ServerInv

\* As before, for TakeNone and PeerResetEarly: the acceptor keeps its endpoint.
LEMMA SameEndpointStep ==
  ASSUME ServerInv, TypeOK', NEW a \in Acceptors, TakeNone(a) \/ PeerResetEarly(a)
  PROVE  ServerInv'
<1>1. /\ acceptor'[a].ep = acceptor[a].ep /\ acceptor'[a].conn = acceptor[a].conn
      /\ \/ acceptor[a].pc = "take" /\ acceptor'[a].pc = "create"
         \/ acceptor[a].pc \in {"take", "reinit", "create"} /\ acceptor'[a].pc = acceptor[a].pc
  BY DEF ServerInv, TypeOK, TakeNone, PeerResetEarly
<1>2. \A b \in Acceptors \ {a} : acceptor'[b] = acceptor[b]
  BY DEF ServerInv, TypeOK, TakeNone, PeerResetEarly
<1>3. UNCHANGED <<object, id_, connection_pool_, connections_to_delete_, cor, phase, returned>>
  BY DEF TakeNone, PeerResetEarly, members
<1>4. AcceptorShape'
  BY <1>1, <1>2, <1>3 DEF ServerInv, AcceptorShape
<1>5. Made'
  BY <1>1, <1>2, <1>3 DEF ServerInv, Made
<1>6. HeldApart' /\ HeldLive' /\ PoolKeyIsId'
  BY <1>1, <1>2, <1>3 DEF ServerInv, HeldApart, HeldLive, PoolKeyIsId, Holds, Pooled, Queued
<1>7. Unfinished' = Unfinished
  BY <1>1, <1>2 DEF Unfinished
<1>8. Starts'
  BY <1>3, <1>7, StartsKept
<1>9. EndpointsApart'
  BY <1>1, <1>2, <1>3 DEF ServerInv, EndpointsApart
<1>10. Kept'
  BY <1>1, <1>2, <1>3 DEF ServerInv, Kept, Holds, Pooled, Queued
<1>11. ServedArePooled'
  BY <1>1, <1>2, <1>3 DEF ServerInv, ServedArePooled, Active, Pooled
<1>12. QED
  BY <1>4, <1>5, <1>6, <1>8, <1>9, <1>10, <1>11 DEF ServerInv

-----------------------------------------------------------------------------
\* The object at the front of the queue goes into the acceptor's hand.
LEMMA TakeQueuedStep ==
  ASSUME ServerInv, TypeOK', NEW a \in Acceptors, TakeQueued(a)
  PROVE  ServerInv'
<1> DEFINE q == connections_to_delete_
<1>1. /\ acceptor[a].pc = "take" /\ acceptor'[a].pc = "reinit"
      /\ acceptor'[a].ep = acceptor[a].ep /\ acceptor'[a].conn = q[1]
      /\ \A b \in Acceptors \ {a} : acceptor'[b] = acceptor[b]
  BY DEF ServerInv, TypeOK, TakeQueued
<1>2. UNCHANGED <<object, id_, connection_pool_, cor, phase, returned>>
  BY DEF TakeQueued, members
<1>3. /\ 1 \in 1 .. Len(q) /\ q[1] \in Conns
      /\ Len(q') = Len(q) - 1
      /\ \A i \in 1 .. Len(q') : i + 1 \in 1 .. Len(q) /\ q'[i] = q[i + 1]
      /\ \A i \in 1 .. Len(q) : i = 1 \/ (i - 1 \in 1 .. Len(q') /\ q'[i - 1] = q[i])
  BY DEF ServerInv, TypeOK, TakeQueued
<1> HIDE DEF q
<1>4. AcceptorShape'
  BY <1>1, <1>2, <1>3 DEF ServerInv, AcceptorShape
<1>5. Made'
  BY <1>1, <1>2, <1>3 DEF ServerInv, Made, HeldLive, q
<1>6. HeldApart'
  <2>1. \A c : Queued(c)' => Queued(c) /\ c # q[1]
    BY <1>3 DEF Queued, ServerInv, HeldApart, q
  <2>2. \A b \in Acceptors \ {a} : Holds(b)' => Holds(b) /\ acceptor[b].conn # q[1]
    BY <1>1, <1>3 DEF ServerInv, HeldApart, Holds, Queued, q
  <2>3. ~Pooled(q[1])
    BY <1>3 DEF ServerInv, HeldApart, Pooled, q
  <2>4. \A i, j \in 1 .. Len(q') : q'[i] = q'[j] => i = j
    BY <1>3 DEF ServerInv, HeldApart, q
  <2>5. \A e \in Endpoints, i \in 1 .. Len(q') : connection_pool_'[e] # q'[i]
    BY <1>2, <1>3 DEF ServerInv, HeldApart, q
  <2>6. QED
    BY <1>1, <1>2, <2>1, <2>2, <2>3, <2>4, <2>5 DEF ServerInv, HeldApart, Pooled, q
<1>7. HeldLive' /\ PoolKeyIsId'
  BY <1>1, <1>2, <1>3 DEF ServerInv, HeldLive, PoolKeyIsId, Holds, q
<1>8. Unfinished' = Unfinished
  BY <1>1 DEF Unfinished
<1>9. Starts'
  BY <1>2, <1>8, StartsKept
<1>10. EndpointsApart'
  BY <1>1, <1>2 DEF ServerInv, EndpointsApart
<1>11. Kept'
  <2>1. \A c : Queued(c) => c = q[1] \/ Queued(c)'
    BY <1>3 DEF Queued, q
  <2>2. \A b \in Acceptors : Holds(b) => Holds(b)' /\ acceptor'[b].conn = acceptor[b].conn
    BY <1>1 DEF Holds
  <2>3. Holds(a)' /\ acceptor'[a].conn = q[1]
    BY <1>1 DEF Holds
  <2>4. QED
    BY <1>2, <2>1, <2>2, <2>3 DEF ServerInv, Kept, Pooled
<1>12. ServedArePooled'
  BY <1>1, <1>2 DEF ServerInv, ServedArePooled, Active, Pooled
<1>13. QED
  BY <1>4, <1>5, <1>6, <1>7, <1>9, <1>10, <1>11, <1>12 DEF ServerInv

\* The object in the hand gets its new id; nobody else has it.
LEMMA ReinitStep ==
  ASSUME ServerInv, TypeOK', NEW a \in Acceptors, Reinit(a)
  PROVE  ServerInv'
<1> DEFINE c == acceptor[a].conn
<1>1. /\ acceptor[a].pc = "reinit" /\ acceptor'[a].pc = "insert"
      /\ acceptor'[a].ep = acceptor[a].ep /\ acceptor'[a].conn = c
      /\ \A b \in Acceptors \ {a} : acceptor'[b] = acceptor[b]
  BY DEF ServerInv, TypeOK, Reinit
<1>2. UNCHANGED <<object, connection_pool_, connections_to_delete_, cor, phase, returned>>
  BY DEF Reinit
<1>3. /\ c \in Conns /\ acceptor[a].ep \in Endpoints
      /\ id_'[c] = acceptor[a].ep
      /\ \A d \in Conns \ {c} : id_'[d] = id_[d]
  BY <1>1 DEF ServerInv, TypeOK, AcceptorShape, Reinit, ReinitMembers
<1> HIDE DEF c
<1>4. AcceptorShape'
  BY <1>1, <1>2, <1>3 DEF ServerInv, AcceptorShape, HeldApart, Holds, c
<1>5. Made'
  BY <1>1, <1>2, <1>3 DEF ServerInv, Made, c
<1>6. HeldApart' /\ HeldLive'
  BY <1>1, <1>2, <1>3 DEF ServerInv, HeldApart, HeldLive, Holds, Pooled, Queued, c
<1>7. PoolKeyIsId'
  BY <1>1, <1>2, <1>3 DEF ServerInv, TypeOK, HeldApart, PoolKeyIsId, Holds, Pooled, c
<1>8. Unfinished' = Unfinished
  BY <1>1 DEF Unfinished
<1>9. Starts'
  BY <1>2, <1>8, StartsKept
<1>10. EndpointsApart'
  BY <1>1, <1>2 DEF ServerInv, EndpointsApart
<1>11. Kept'
  BY <1>1, <1>2 DEF ServerInv, Kept, Holds, Pooled, Queued, c
<1>12. ServedArePooled'
  BY <1>1, <1>2 DEF ServerInv, ServedArePooled, Active, Pooled
<1>13. QED
  BY <1>4, <1>5, <1>6, <1>7, <1>9, <1>10, <1>11, <1>12 DEF ServerInv

\* A new object, which nobody knows, comes into the acceptor's hand.
LEMMA CreateStep ==
  ASSUME ServerInv, TypeOK', NEW a \in Acceptors, NEW c \in Conns, Create(a, c)
  PROVE  ServerInv'
<1>1. /\ acceptor[a].pc = "create" /\ acceptor'[a].pc = "insert"
      /\ acceptor'[a].ep = acceptor[a].ep /\ acceptor'[a].conn = c
      /\ \A b \in Acceptors \ {a} : acceptor'[b] = acceptor[b]
  BY DEF ServerInv, TypeOK, Create
<1>2. UNCHANGED <<connection_pool_, connections_to_delete_, cor, phase, returned>>
  BY DEF Create
<1>3. /\ acceptor[a].ep \in Endpoints
      /\ id_'[c] = acceptor[a].ep
      /\ \A d \in Conns \ {c} : id_'[d] = id_[d]
  BY SMTT(30), <1>1 DEF ServerInv, TypeOK, AcceptorShape, Create, ReinitMembers
<1>4. /\ object[c] = "none" /\ object'[c] = "live"
      /\ \A d \in Conns \ {c} : object'[d] = object[d]
  BY DEF ServerInv, TypeOK, Create
<1>5. /\ ~Pooled(c) /\ ~Queued(c)
      /\ \A b \in Acceptors : acceptor[b].conn # c
  BY <1>4, NoConnAssumption DEF ServerInv, HeldLive, Made, Pooled, Queued
<1>6. AcceptorShape'
  BY <1>1, <1>2, <1>3, <1>5 DEF ServerInv, AcceptorShape
<1>7. Made'
  <2>1. \A d \in Conns : object[d] # "none" => object'[d] # "none" /\ d # c
    BY <1>4
  <2>2. \A d \in Conns : object'[d] # "none" => id_'[d] \in Endpoints
    BY <1>3, <1>4 DEF ServerInv, Made
  <2>3. \A i \in 1 .. Len(cor) : cor[i].conn \in Conns
    BY CorTyped DEF ServerInv
  <2>4. \A b \in Acceptors : acceptor[b].conn \in Conns \cup {NoConn}
    BY DEF ServerInv, TypeOK
  <2>5. QED
    BY <1>1, <1>2, <1>4, <2>1, <2>2, <2>3, <2>4 DEF ServerInv, Made
<1>8. HeldApart'
  BY <1>1, <1>2, <1>5 DEF ServerInv, HeldApart, Holds, Pooled, Queued
<1>9. HeldLive'
  <2>1. \A d \in Conns : object[d] = "live" => object'[d] = "live"
    BY <1>4
  <2>2. \A e \in Endpoints : connection_pool_[e] # NoConn => connection_pool_[e] \in Conns
    BY DEF ServerInv, TypeOK
  <2>3. \A i \in 1 .. Len(connections_to_delete_) : connections_to_delete_[i] \in Conns
    BY ElementOfSeq DEF ServerInv, TypeOK
  <2>4. \A b \in Acceptors : Holds(b) => acceptor[b].conn \in Conns
    BY DEF ServerInv, AcceptorShape, Holds
  <2>5. QED
    BY <1>1, <1>2, <1>4, <2>1, <2>2, <2>3, <2>4 DEF ServerInv, HeldLive, Holds
<1>10. PoolKeyIsId'
  BY <1>2, <1>3, <1>5 DEF ServerInv, TypeOK, PoolKeyIsId, Pooled
<1>11. Unfinished' = Unfinished
  BY <1>1 DEF Unfinished
<1>12. Starts'
  BY <1>2, <1>11, StartsKept
<1>13. EndpointsApart'
  BY <1>1, <1>2 DEF ServerInv, EndpointsApart
<1>14. Kept'
  BY <1>1, <1>2, <1>4 DEF ServerInv, Kept, Holds, Pooled, Queued
<1>15. ServedArePooled'
  BY <1>1, <1>2 DEF ServerInv, ServedArePooled, Active, Pooled
<1>16. QED
  BY <1>6, <1>7, <1>8, <1>9, <1>10, <1>12, <1>13, <1>14, <1>15 DEF ServerInv

\* The object goes from the acceptor's hand into the pool.
LEMMA InsertStep ==
  ASSUME ServerInv, TypeOK', NEW a \in Acceptors, Insert(a)
  PROVE  ServerInv'
<1> DEFINE c == acceptor[a].conn
           e == acceptor[a].ep
<1>1. /\ acceptor[a].pc = "insert" /\ acceptor'[a].pc = "start"
      /\ acceptor'[a].ep = e /\ acceptor'[a].conn = c
      /\ \A b \in Acceptors \ {a} : acceptor'[b] = acceptor[b]
  BY DEF ServerInv, TypeOK, Insert
<1>2. UNCHANGED <<object, id_, connections_to_delete_, cor, phase, returned>>
  BY DEF Insert, members
<1>3. /\ c \in Conns /\ e \in Endpoints /\ id_[c] = e
      /\ ~Pooled(c) /\ ~Queued(c) /\ object[c] = "live"
      /\ \A b \in Acceptors \ {a} : Holds(b) => acceptor[b].conn # c
  BY ZenonT(60), <1>1, NoConnAssumption DEF ServerInv, TypeOK, AcceptorShape, HeldApart, HeldLive, Holds
<1>4. /\ connection_pool_'[e] = c
      /\ \A f \in Endpoints \ {e} : connection_pool_'[f] = connection_pool_[f]
  BY <1>3 DEF ServerInv, TypeOK, Insert
<1> HIDE DEF c, e
<1>5. AcceptorShape' /\ Made'
  BY <1>1, <1>2 DEF ServerInv, AcceptorShape, Made, c, e
<1>6. HeldApart'
  <2>1. \A d : Pooled(d)' => Pooled(d) \/ d = c
    BY <1>4 DEF Pooled
  <2>2. \A d : Queued(d)' <=> Queued(d)
    BY <1>2 DEF Queued
  <2>3. \A b \in Acceptors : Holds(b)' => Holds(b) /\ b # a /\ acceptor'[b] = acceptor[b]
    BY <1>1 DEF Holds
  <2>4. \A f \in Endpoints, i \in 1 .. Len(connections_to_delete_) :
           connection_pool_'[f] # connections_to_delete_[i]
    BY <1>3, <1>4 DEF ServerInv, HeldApart, Queued
  <2>5. QED
    BY <1>2, <1>3, <2>1, <2>2, <2>3, <2>4 DEF ServerInv, HeldApart
<1>7. HeldLive' /\ PoolKeyIsId'
  BY <1>1, <1>2, <1>3, <1>4 DEF ServerInv, HeldLive, PoolKeyIsId, Holds
<1>8. Unfinished' = Unfinished
  BY <1>1 DEF Unfinished
<1>9. Starts'
  BY <1>2, <1>8, StartsKept
<1>10. EndpointsApart'
  <2> SUFFICES ASSUME ~returned
               PROVE  EndpointsApart'
    BY <1>2 DEF EndpointsApart
  <2>1. \A b \in Acceptors : acceptor'[b].ep = acceptor[b].ep
    BY <1>1 DEF e
  <2>2. \A b \in Acceptors \ {a} : acceptor[b].ep # e
    BY <1>3, NoEndpointAssumption DEF ServerInv, EndpointsApart, e
  <2>3. ASSUME NEW b \in Acceptors, acceptor'[b].pc \in {"take", "reinit", "create", "insert"}
        PROVE  connection_pool_'[acceptor'[b].ep] = NoConn
    <3>1. b # a /\ acceptor'[b] = acceptor[b]
      BY <1>1, <2>3
    <3>2. acceptor[b].ep \in Endpoints
      BY <2>3, <3>1 DEF ServerInv, TypeOK, AcceptorShape
    <3>3. QED
      BY <1>4, <2>2, <2>3, <3>1, <3>2 DEF ServerInv, EndpointsApart
  <2>4. QED
    BY <2>1, <2>3 DEF ServerInv, EndpointsApart
<1>11. ~returned => \A d : Pooled(d) \/ d = c => Pooled(d)' \/ d = NoConn
  BY <1>1, <1>3, <1>4 DEF ServerInv, EndpointsApart, Pooled, e
<1>12. Kept'
  <2>1. \A b \in Acceptors : Holds(b) => acceptor[b].conn = c \/ (Holds(b)' /\ acceptor'[b].conn = acceptor[b].conn)
    BY <1>1 DEF Holds, c
  <2>2. QED
    BY <1>2, <1>11, <2>1, NoConnAssumption DEF ServerInv, Kept, Queued
<1>13. ServedArePooled'
  <2> SUFFICES ASSUME phase = "up", ~returned
               PROVE  ServedArePooled'
    BY <1>2 DEF ServedArePooled
  <2>1. \A i \in 1 .. Len(cor) : cor[i].conn \in Conns
    BY CorTyped DEF ServerInv
  <2>2. \A b \in Acceptors : acceptor[b].pc = "start" => acceptor[b].conn \in Conns
    BY DEF ServerInv, AcceptorShape
  <2>3. \A i \in 1 .. Len(cor) : Active(i) => cor[i].conn # c
    BY <1>3 DEF ServerInv, ServedArePooled
  <2>4. \A b \in Acceptors : acceptor[b].pc = "start" => acceptor[b].conn # c
    BY <1>3 DEF ServerInv, ServedArePooled
  <2>5. \A d \in Conns : Pooled(d) \/ d = c => Pooled(d)'
    BY <1>11, NoConnAssumption
  <2>6. \A b \in Acceptors : acceptor'[b].pc = "start" =>
           /\ acceptor'[b].conn = acceptor[b].conn
           /\ \/ b # a /\ acceptor[b].pc = "start"
              \/ b = a /\ acceptor[b].conn = c
    BY <1>1 DEF c
  <2>7. QED
    BY <1>2, <1>3, <2>1, <2>2, <2>3, <2>4, <2>5, <2>6 DEF ServerInv, ServedArePooled, Active
<1>14. QED
  BY <1>5, <1>6, <1>7, <1>9, <1>10, <1>12, <1>13 DEF ServerInv

\* The connection's coroutine starts, and the acceptor forgets the object.
LEMMA StartStep ==
  ASSUME ServerInv, TypeOK', NEW a \in Acceptors, Start(a)
  PROVE  ServerInv'
<1> DEFINE c == acceptor[a].conn
           n == Len(cor)
<1>1. /\ acceptor[a].pc = "start" /\ acceptor'[a].pc \in {"accept", "ended"}
      /\ acceptor'[a].ep = NoEndpoint /\ acceptor'[a].conn = NoConn
      /\ \A b \in Acceptors \ {a} : acceptor'[b] = acceptor[b]
  BY DEF ServerInv, TypeOK, Start, Accepting
<1>2. UNCHANGED <<object, id_, connection_pool_, connections_to_delete_, phase, returned>>
  BY DEF Start
<1>3. c \in Conns
  BY <1>1 DEF ServerInv, AcceptorShape
<1>4. /\ n \in Nat /\ Len(cor') = n + 1
      /\ cor'[n + 1].conn = c
      /\ \A i \in 1 .. n : cor'[i] = cor[i]
  BY <1>3, CorStarted DEF ServerInv, Start
<1> HIDE DEF c, n
<1>5. AcceptorShape'
  BY <1>1, <1>2, NoConnAssumption, NoEndpointAssumption DEF ServerInv, AcceptorShape
<1>6. Made'
  BY <1>1, <1>2, <1>3, <1>4, NoConnAssumption DEF ServerInv, Made, c, n
<1>7. HeldApart' /\ HeldLive' /\ PoolKeyIsId'
  BY <1>1, <1>2 DEF ServerInv, HeldApart, HeldLive, PoolKeyIsId, Holds, Pooled, Queued
<1>8. Starts'
  <2>1. Unfinished' = Unfinished \ {a} /\ a \in Unfinished
    BY <1>1 DEF Unfinished
  <2>2. Cardinality(Unfinished)' = Cardinality(Unfinished) - 1
    BY <2>1, UnfinishedFinite, FS_RemoveElement
  <2>3. QED
    BY <1>4, <2>2, UnfinishedFinite, BoundAssumption DEF ServerInv, Starts, n
<1>9. EndpointsApart'
  BY <1>1, <1>2 DEF ServerInv, EndpointsApart
<1>10. Kept'
  BY <1>1, <1>2 DEF ServerInv, Kept, Holds, Pooled, Queued
<1>11. ServedArePooled'
  <2> SUFFICES ASSUME phase = "up", ~returned
               PROVE  ServedArePooled'
    BY <1>2 DEF ServedArePooled
  <2>1. \A i \in 1 .. n + 1 : i = n + 1 \/ i \in 1 .. n
    BY <1>4
  <2>2. \A i \in 1 .. n + 1 : Active(i)' => i = n + 1 \/ (i \in 1 .. n /\ Active(i))
    BY <1>4, <2>1 DEF Active
  <2>3. \A d : Pooled(d)' <=> Pooled(d)
    BY <1>2 DEF Pooled
  <2>4. Pooled(c) /\ \A i \in 1 .. n : Active(i) => cor[i].conn # c
    BY <1>1 DEF ServerInv, ServedArePooled, c, n
  <2>5. \A b \in Acceptors : acceptor'[b].pc = "start" => b # a /\ acceptor'[b] = acceptor[b]
    BY <1>1
  <2>6. \A b \in Acceptors : acceptor'[b].pc = "start" => acceptor'[b].conn # c
    BY <1>1, <2>5 DEF ServerInv, ServedArePooled, c
  <2>7. \A i \in 1 .. Len(cor') : (Active(i) => Pooled(cor[i].conn))'
    BY <1>4, <2>2, <2>3, <2>4 DEF ServerInv, ServedArePooled, n
  <2>8. \A i, j \in 1 .. Len(cor') : Active(i)' /\ Active(j)' /\ cor'[i].conn = cor'[j].conn => i = j
    BY <1>4, <2>2, <2>4 DEF ServerInv, ServedArePooled, n
  <2>9. \A b \in Acceptors, i \in 1 .. Len(cor') :
           acceptor'[b].pc = "start" /\ Active(i)' => cor'[i].conn # acceptor'[b].conn
    BY <1>4, <2>2, <2>5, <2>6 DEF ServerInv, ServedArePooled, n
  <2>10. QED
    BY <1>2, <2>3, <2>5, <2>7, <2>8, <2>9 DEF ServerInv, ServedArePooled
<1>12. QED
  BY <1>5, <1>6, <1>7, <1>8, <1>9, <1>10, <1>11 DEF ServerInv

-----------------------------------------------------------------------------
\* schedule_connection_delete, when there is an entry under the id: what
\* stands there goes to the end of the queue.
LEMMA MoveStep ==
  ASSUME ServerInv, TypeOK', NEW i \in 1 .. Len(cor), KillSchedule(i),
         connection_pool_[id_[cor[i].conn]] # NoConn
  PROVE  ServerInv'
<1> DEFINE c == cor[i].conn
           e == id_[c]
           m == connection_pool_[e]
           q == connections_to_delete_
<1>1. UNCHANGED <<object, id_, acceptor, phase, returned>>
  BY DEF KillSchedule, members
<1>2. c \in Conns /\ e \in Endpoints /\ m \in Conns
  BY CorTyped DEF ServerInv, TypeOK, Made
<1>3. /\ Len(cor') = Len(cor)
      /\ \A j \in 1 .. Len(cor) : /\ cor'[j].conn = cor[j].conn
                                  /\ Active(j)' <=> Active(j) /\ j # i
      /\ Active(i)
  BY CorStep DEF ServerInv, KillSchedule, Active
<1>4. /\ Len(q) \in Nat /\ Len(q') = Len(q) + 1
      /\ q'[Len(q) + 1] = m
      /\ \A j \in 1 .. Len(q) : q'[j] = q[j]
      /\ \A j \in 1 .. Len(q') : j = Len(q) + 1 \/ j \in 1 .. Len(q)
  BY <1>2 DEF ServerInv, TypeOK, KillSchedule, MoveToDeleteQueue
<1>5. /\ connection_pool_'[e] = NoConn
      /\ \A f \in Endpoints \ {e} : connection_pool_'[f] = connection_pool_[f]
  BY <1>2 DEF ServerInv, TypeOK, KillSchedule, MoveToDeleteQueue
<1> HIDE DEF c, e, m, q
<1>6. ~Queued(m) /\ \A a \in Acceptors : Holds(a) => acceptor[a].conn # m
  BY <1>2 DEF ServerInv, HeldApart, Pooled, Queued, m
<1>7. \A f \in Endpoints \ {e} : connection_pool_[f] # m
  BY <1>2, NoConnAssumption DEF ServerInv, PoolKeyIsId, m
<1>8. /\ \A d : Queued(d)' <=> Queued(d) \/ d = m
      /\ \A d \in Conns : Pooled(d)' <=> Pooled(d) /\ d # m
  <2>1. \A d : Queued(d) \/ d = m => Queued(d)'
    BY <1>4 DEF Queued, q
  <2>2. \A d : Queued(d)' => Queued(d) \/ d = m
    BY <1>4 DEF Queued, q
  <2>3. \A d \in Conns : Pooled(d)' => Pooled(d) /\ d # m
    BY <1>5, <1>7, NoConnAssumption DEF Pooled
  <2>4. \A d \in Conns : Pooled(d) /\ d # m => Pooled(d)'
    BY <1>5 DEF Pooled, m
  <2>5. QED
    BY <2>1, <2>2, <2>3, <2>4
<1>9. AcceptorShape' /\ Made'
  BY <1>1, <1>3 DEF ServerInv, AcceptorShape, Made
<1>10. HeldApart'
  <2>1. \A j, k \in 1 .. Len(q') : q'[j] = q'[k] => j = k
    BY <1>4, <1>6 DEF ServerInv, HeldApart, Queued, q
  <2>2. \A f \in Endpoints, j \in 1 .. Len(q') : connection_pool_'[f] # q'[j]
    <3>1. \A j \in 1 .. Len(q') : q'[j] \in Conns
      BY ElementOfSeq DEF ServerInv, TypeOK, q
    <3>2. QED
      BY <1>4, <1>5, <1>7, <3>1, NoConnAssumption DEF ServerInv, HeldApart, q
  <2>3. \A a \in Acceptors : Holds(a)' <=> Holds(a)
    BY <1>1 DEF Holds
  <2>4. \A a \in Acceptors : Holds(a) => acceptor[a].conn \in Conns
    BY DEF ServerInv, AcceptorShape, Holds
  <2>5. QED
    BY <1>1, <1>6, <1>8, <2>1, <2>2, <2>3, <2>4 DEF ServerInv, HeldApart, q
<1>11. HeldLive' /\ PoolKeyIsId'
  <2>1. \A f \in Endpoints : connection_pool_'[f] # NoConn => connection_pool_'[f] = connection_pool_[f]
    BY <1>5
  <2>2. object[m] = "live"
    BY <1>2, NoConnAssumption DEF ServerInv, HeldLive, m
  <2>3. \A j \in 1 .. Len(q') : object[q'[j]] = "live"
    BY <1>4, <2>2 DEF ServerInv, HeldLive, q
  <2>4. QED
    BY <1>1, <2>1, <2>3 DEF ServerInv, HeldLive, PoolKeyIsId, Holds, q
<1>12. Unfinished' = Unfinished
  BY <1>1 DEF Unfinished
<1>13. Starts'
  BY <1>3, <1>12, StartsKept
<1>14. EndpointsApart'
  <2> SUFFICES ASSUME ~returned
               PROVE  EndpointsApart'
    BY <1>1 DEF EndpointsApart
  <2>1. \A a \in Acceptors : acceptor[a].pc \in {"take", "reinit", "create", "insert"} =>
           acceptor[a].ep \in Endpoints
    BY DEF ServerInv, TypeOK, AcceptorShape
  <2>2. QED
    BY <1>1, <1>5, <2>1 DEF ServerInv, EndpointsApart
<1>15. Kept'
  BY <1>1, <1>8 DEF ServerInv, Kept, Holds
<1>16. ServedArePooled'
  <2> SUFFICES ASSUME phase = "up", ~returned
               PROVE  ServedArePooled'
    BY <1>1 DEF ServedArePooled
  <2>1. m = c
    BY <1>2, <1>3, NoConnAssumption DEF ServerInv, ServedArePooled, PoolKeyIsId, Pooled, c, e, m
  <2>2. \A j \in 1 .. Len(cor) : cor[j].conn \in Conns
    BY CorTyped DEF ServerInv
  <2>3. \A a \in Acceptors : acceptor[a].pc = "start" => acceptor[a].conn \in Conns
    BY DEF ServerInv, AcceptorShape
  <2>4. \A j \in 1 .. Len(cor) : Active(j)' => Pooled(cor[j].conn) /\ cor[j].conn # m
    BY <1>3, <2>1 DEF ServerInv, ServedArePooled, c
  <2>5. \A a \in Acceptors : acceptor[a].pc = "start" => Pooled(acceptor[a].conn) /\ acceptor[a].conn # m
    BY <1>3, <2>1 DEF ServerInv, ServedArePooled, c
  <2>6. QED
    BY <1>1, <1>3, <1>8, <2>2, <2>3, <2>4, <2>5 DEF ServerInv, ServedArePooled
<1>17. QED
  BY <1>9, <1>10, <1>11, <1>13, <1>14, <1>15, <1>16 DEF ServerInv

\* What was queued, or queued and pooled, is deleted.
LEMMA DeleteStep ==
  ASSUME ServerInv, TypeOK', NEW gone, DeleteAll(gone),
         \A c \in Conns : Queued(c) => c \in gone,
         \A c \in gone : Queued(c) \/ Pooled(c),
         connections_to_delete_' = <<>>,
         \A e \in Endpoints : IF connection_pool_[e] \in gone
                              THEN connection_pool_'[e] = NoConn
                              ELSE connection_pool_'[e] = connection_pool_[e],
         phase' = phase \/ phase' # "up",
         \A c \in gone : phase' = "up" => Queued(c),
         UNCHANGED <<id_, acceptor, cor, returned>>
  PROVE  ServerInv'
<1>1. \A c \in Conns : IF c \in gone THEN object'[c] = "deleted" ELSE object'[c] = object[c]
  BY DEF DeleteAll
<1>2. \A c : ~Queued(c)'
  BY DEF Queued
<1>3. \A a \in Acceptors : Holds(a)' <=> Holds(a)
  BY DEF Holds
<1>4. \A a \in Acceptors : Holds(a) => acceptor[a].conn \in Conns \ gone
  BY DEF ServerInv, AcceptorShape, HeldApart, Holds
<1>5. \A c \in Conns : Pooled(c)' <=> Pooled(c) /\ c \notin gone
  BY NoConnAssumption DEF Pooled
<1>6. AcceptorShape'
  BY DEF ServerInv, AcceptorShape
<1>7. Made'
  <2>1. \A i \in 1 .. Len(cor) : cor[i].conn \in Conns
    BY CorTyped DEF ServerInv
  <2>2. \A a \in Acceptors : acceptor[a].conn \in Conns \cup {NoConn}
    BY DEF ServerInv, TypeOK
  <2>3. \A c \in Conns : Queued(c) \/ Pooled(c) => object[c] = "live"
    BY NoConnAssumption DEF ServerInv, HeldLive, Pooled, Queued
  <2>4. \A c \in Conns : object'[c] # "none" <=> object[c] # "none"
    BY <1>1, <2>3
  <2>5. QED
    BY <2>1, <2>2, <2>4 DEF ServerInv, Made
<1>8. HeldApart'
  BY <1>2, <1>3, <1>4, <1>5 DEF ServerInv, HeldApart
<1>9. HeldLive'
  <2>1. \A e \in Endpoints : connection_pool_'[e] # NoConn =>
           connection_pool_[e] \in Conns \ gone /\ connection_pool_'[e] = connection_pool_[e]
    BY DEF ServerInv, TypeOK
  <2>2. QED
    BY <1>1, <1>3, <1>4, <2>1 DEF ServerInv, HeldLive
<1>10. PoolKeyIsId'
  BY DEF ServerInv, PoolKeyIsId
<1>11. Unfinished' = Unfinished
  BY DEF Unfinished
<1>12. Starts'
  BY <1>11, StartsKept
<1>13. EndpointsApart'
  <2>1. \A a \in Acceptors : acceptor[a].pc \in {"take", "reinit", "create", "insert"} =>
           acceptor[a].ep \in Endpoints
    BY DEF ServerInv, TypeOK, AcceptorShape
  <2>2. QED
    BY <2>1 DEF ServerInv, EndpointsApart
<1>14. Kept'
  BY <1>1, <1>3, <1>5 DEF ServerInv, Kept
<1>15. ServedArePooled'
  <2> SUFFICES ASSUME phase' = "up", phase = "up", ~returned
               PROVE  ServedArePooled'
    BY DEF ServedArePooled
  <2>1. \A c \in Conns : Pooled(c) => c \notin gone
    BY DEF ServerInv, HeldApart, Pooled, Queued
  <2>2. \A i \in 1 .. Len(cor) : cor[i].conn \in Conns
    BY CorTyped DEF ServerInv
  <2>3. \A a \in Acceptors : acceptor[a].pc = "start" => acceptor[a].conn \in Conns
    BY DEF ServerInv, AcceptorShape
  <2>4. \A i \in 1 .. Len(cor) : Active(i)' <=> Active(i)
    BY DEF Active
  <2>5. QED
    BY <1>5, <2>1, <2>2, <2>3, <2>4 DEF ServerInv, ServedArePooled
<1>16. QED
  BY <1>6, <1>7, <1>8, <1>9, <1>10, <1>12, <1>13, <1>14, <1>15 DEF ServerInv

\* stop() queues every pooled object once.
LEMMA StopMoveStep ==
  ASSUME ServerInv, TypeOK', StopMove
  PROVE  ServerInv'
<1> DEFINE q == connections_to_delete_
           n == Cardinality(PooledConns)
<1>1. UNCHANGED <<object, id_, acceptor, cor, returned>> /\ phase' = "moved"
      /\ connection_pool_' = [e \in Endpoints |-> NoConn]
  BY DEF StopMove
<1>2. PICK order \in [1 .. n -> PooledConns] :
         /\ \A i, j \in DOMAIN order : i # j => order[i] # order[j]
         /\ q' = q \o order
  BY DEF StopMove
<1>3. n \in Nat /\ PooledConns \subseteq Conns
  BY PooledFinite, FS_CardinalityType DEF ServerInv, TypeOK, PooledConns
<1>4. \A c \in Conns : Pooled(c) <=> c \in PooledConns
  BY NoConnAssumption DEF Pooled, PooledConns
<1> HIDE DEF n
<1>5. \A c \in PooledConns : \E i \in 1 .. n : order[i] = c
  BY <1>2, OrderHasAll DEF ServerInv, n
<1>6. order \in Seq(Conns) /\ Len(order) = n
  BY <1>2, <1>3
<1>7. /\ Len(q) \in Nat /\ Len(q') = Len(q) + n
      /\ \A i \in 1 .. Len(q) + n : q'[i] = IF i <= Len(q) THEN q[i] ELSE order[i - Len(q)]
  <2>1. q \in Seq(Conns)
    BY DEF ServerInv, TypeOK
  <2> HIDE DEF q
  <2>2. /\ Len(q) \in Nat
        /\ Len(q \o order) = Len(q) + Len(order)
        /\ \A i \in 1 .. Len(q) + Len(order) :
              (q \o order)[i] = IF i <= Len(q) THEN q[i] ELSE order[i - Len(q)]
    BY <1>6, <2>1, ConcatProperties, LenProperties
  <2>3. QED
    BY <1>2, <1>6, <2>2
<1> HIDE DEF q
<1>8. \A i \in 1 .. Len(q') :
         \/ i \in 1 .. Len(q) /\ q'[i] = q[i]
         \/ i - Len(q) \in 1 .. n /\ q'[i] = order[i - Len(q)]
  BY <1>3, <1>7
<1>9. \A i \in 1 .. n : order[i] \in PooledConns
  BY <1>2
<1>10. \A c \in Conns : Queued(c)' <=> Queued(c) \/ Pooled(c)
  <2>1. \A c \in Conns : Queued(c)' => Queued(c) \/ Pooled(c)
    BY <1>4, <1>8, <1>9 DEF Queued, q
  <2>2. \A i \in 1 .. Len(q) : i \in 1 .. Len(q') /\ q'[i] = q[i]
    BY <1>3, <1>7
  <2>3. \A i \in 1 .. n : i + Len(q) \in 1 .. Len(q') /\ q'[i + Len(q)] = order[i]
    BY <1>3, <1>7
  <2>4. \A c \in Conns : Queued(c) => Queued(c)'
    BY <2>2 DEF Queued, q
  <2>5. \A c \in Conns : Pooled(c) => Queued(c)'
    BY <1>4, <1>5, <2>3 DEF Queued, q
  <2>6. QED
    BY <2>1, <2>4, <2>5
<1>11. \A a \in Acceptors : Holds(a)' <=> Holds(a)
  BY <1>1 DEF Holds
<1>12. \A a \in Acceptors : Holds(a) => acceptor[a].conn \in Conns
  BY DEF ServerInv, AcceptorShape, Holds
<1>13. AcceptorShape' /\ Made'
  BY <1>1 DEF ServerInv, AcceptorShape, Made
<1>14. HeldApart'
  <2>1. ASSUME NEW i \in 1 .. Len(q'), NEW j \in 1 .. Len(q'), q'[i] = q'[j]
        PROVE  i = j
    <3>1. \A k \in 1 .. Len(q), l \in 1 .. n : q[k] # order[l]
      BY <1>9 DEF ServerInv, HeldApart, PooledConns, q
    <3>2. \A k, l \in 1 .. n : order[k] = order[l] => k = l
      BY <1>2
    <3>3. \A k, l \in 1 .. Len(q) : q[k] = q[l] => k = l
      BY DEF ServerInv, HeldApart, q
    <3>4. CASE i \in 1 .. Len(q) /\ q'[i] = q[i]
      BY <1>8, <2>1, <3>1, <3>3, <3>4
    <3>5. CASE i - Len(q) \in 1 .. n /\ q'[i] = order[i - Len(q)]
      <4>1. CASE j \in 1 .. Len(q) /\ q'[j] = q[j]
        BY <2>1, <3>1, <3>5, <4>1
      <4>2. CASE j - Len(q) \in 1 .. n /\ q'[j] = order[j - Len(q)]
        <5>1. i - Len(q) = j - Len(q)
          BY <2>1, <3>2, <3>5, <4>2
        <5>2. QED
          BY <1>3, <1>7, <5>1
      <4>3. QED
        BY <1>8, <4>1, <4>2
    <3>6. QED
      BY <1>8, <3>4, <3>5
  <2>2. \A c \in Conns : ~Pooled(c)'
    BY <1>1, NoConnAssumption DEF Pooled
  <2>3. \A i \in 1 .. Len(q') : q'[i] \in Conns
    BY ElementOfSeq DEF ServerInv, TypeOK, q
  <2>4. \A e \in Endpoints, i \in 1 .. Len(q') : connection_pool_'[e] # q'[i]
    BY <1>1, <2>3, NoConnAssumption
  <2>5. QED
    BY <1>1, <1>10, <1>11, <1>12, <2>1, <2>2, <2>4 DEF ServerInv, HeldApart, q
<1>15. HeldLive'
  <2>1. \A c \in PooledConns : object[c] = "live"
    BY DEF ServerInv, HeldLive, PooledConns
  <2>2. \A i \in 1 .. Len(q') : object[q'[i]] = "live"
    BY <1>8, <1>9, <2>1 DEF ServerInv, HeldLive, q
  <2>3. QED
    BY <1>1, <1>11, <2>2 DEF ServerInv, HeldLive, q
<1>16. PoolKeyIsId'
  BY <1>1 DEF PoolKeyIsId
<1>17. Unfinished' = Unfinished
  BY <1>1 DEF Unfinished
<1>18. Starts'
  BY <1>1, <1>17, StartsKept
<1>19. EndpointsApart'
  <2>1. \A a \in Acceptors : acceptor[a].pc \in {"take", "reinit", "create", "insert"} =>
           acceptor[a].ep \in Endpoints
    BY DEF ServerInv, TypeOK, AcceptorShape
  <2>2. QED
    BY <1>1, <2>1 DEF ServerInv, EndpointsApart
<1>20. Kept'
  BY <1>1, <1>10, <1>11 DEF ServerInv, Kept
<1>21. ServedArePooled'
  BY <1>1 DEF ServedArePooled
<1>22. QED
  BY <1>13, <1>14, <1>15, <1>16, <1>18, <1>19, <1>20, <1>21 DEF ServerInv

\* The closing of the acceptor ends those that wait for a connection.
LEMMA StopCloseStep ==
  ASSUME ServerInv, TypeOK', StopClose
  PROVE  ServerInv'
<1>1. UNCHANGED <<object, id_, connection_pool_, connections_to_delete_, cor, returned>>
      /\ phase' = "closed"
  BY DEF StopClose, members
<1>2. \A a \in Acceptors :
         /\ acceptor'[a].ep = acceptor[a].ep /\ acceptor'[a].conn = acceptor[a].conn
         /\ \/ acceptor'[a].pc = acceptor[a].pc
            \/ acceptor[a].pc = "accept" /\ acceptor'[a].pc = "ended"
  BY DEF ServerInv, TypeOK, StopClose
<1>3. \A a \in Acceptors : Holds(a)' <=> Holds(a)
  BY <1>2 DEF Holds
<1>4. AcceptorShape' /\ Made'
  BY <1>1, <1>2 DEF ServerInv, AcceptorShape, Made
<1>5. HeldApart' /\ HeldLive' /\ PoolKeyIsId'
  BY <1>1, <1>2, <1>3 DEF ServerInv, HeldApart, HeldLive, PoolKeyIsId, Pooled, Queued
<1>6. Unfinished' = Unfinished
  BY <1>2 DEF Unfinished
<1>7. Starts'
  BY <1>1, <1>6, StartsKept
<1>8. EndpointsApart'
  BY <1>1, <1>2 DEF ServerInv, EndpointsApart
<1>9. Kept'
  BY <1>1, <1>2, <1>3 DEF ServerInv, Kept, Pooled, Queued
<1>10. ServedArePooled'
  BY <1>1 DEF ServedArePooled
<1>11. QED
  BY <1>4, <1>5, <1>7, <1>8, <1>9, <1>10 DEF ServerInv

-----------------------------------------------------------------------------
\* The variables the invariant gives nothing but a type.
TypedFlags ==
    /\ socket_ \in [Conns -> {"closed", "open", "reset"}]
    /\ running_ \in [Conns -> BOOLEAN]
    /\ deletion_sheduled_ \in [Conns -> BOOLEAN]
    /\ phase \in Phases
    /\ deleter \in {"waiting", "ended"}
    /\ returned \in BOOLEAN
    /\ terminated \in BOOLEAN

TypedObjects ==
    /\ object \in [Conns -> {"none", "live", "deleted"}]
    /\ id_ \in [Conns -> Endpoints \cup {NoEndpoint}]

TypedPool ==
    /\ connection_pool_ \in [Endpoints -> Conns \cup {NoConn}]
    /\ connections_to_delete_ \in Seq(Conns)

TypedAcceptor ==
    acceptor \in [Acceptors -> [pc : AcceptorLocations,
                                ep : Endpoints \cup {NoEndpoint},
                                conn : Conns \cup {NoConn},
                                reset : BOOLEAN]]

TypedCor ==
    /\ cor \in Seq([conn : Conns, pc : {"serving", "stopped", "scheduled", "done"}])
    /\ Len(cor) <= MaxStarts

LEMMA TypeOKParts ==
  TypeOK <=> TypedFlags /\ TypedObjects /\ TypedPool /\ TypedAcceptor /\ TypedCor
BY DEF TypeOK, TypedFlags, TypedObjects, TypedPool, TypedAcceptor, TypedCor

LEMMA TypedNext ==
  ASSUME TypedFlags', TypedObjects', TypedPool', TypedAcceptor', TypedCor'
  PROVE  TypeOK'
BY DEF TypeOK, TypedFlags, TypedObjects, TypedPool, TypedAcceptor, TypedCor

\* An acceptor that is going to start a coroutine has been counted.
LEMMA RoomToStart ==
  ASSUME ServerInv, NEW a \in Acceptors, acceptor[a].pc = "start"
  PROVE  Len(cor) + 1 <= MaxStarts
<1>1. a \in Unfinished
  BY DEF Unfinished
<1>2. Cardinality(Unfinished) # 0
  BY <1>1, UnfinishedFinite, FS_EmptySet
<1>3. Len(cor) \in Nat
  BY DEF ServerInv, TypeOK
<1>4. QED
  BY <1>2, <1>3, UnfinishedFinite, BoundAssumption DEF ServerInv, Starts

LEMMA AcceptorTyped ==
  ASSUME ServerInv, NEW a \in Acceptors, AcceptorNext(a)
  PROVE  TypeOK'
<1>1. TypedFlags /\ TypedObjects /\ TypedPool /\ TypedAcceptor /\ TypedCor
  BY TypeOKParts DEF ServerInv
<1> USE DEF AcceptorLocations
<1>2. ASSUME NEW e \in Endpoints, Accept(a, e) PROVE TypeOK'
  <2>1. TypedFlags' /\ TypedObjects' /\ TypedPool' /\ TypedCor'
    BY <1>1, <1>2 DEF Accept, members, TypedFlags, TypedObjects, TypedPool, TypedCor
  <2>2. TypedAcceptor'
    BY <1>1, <1>2 DEF Accept, TypedAcceptor
  <2>3. QED
    BY <2>1, <2>2, TypedNext
<1>3. CASE TakeQueued(a)
  <2>1. TypedFlags' /\ TypedObjects' /\ TypedCor'
    BY <1>1, <1>3 DEF TakeQueued, members, TypedFlags, TypedObjects, TypedCor
  <2>2. TypedPool' /\ Head(connections_to_delete_) \in Conns
    BY <1>1, <1>3 DEF TakeQueued, TypedPool
  <2>3. TypedAcceptor'
    BY ZenonT(60), <1>1, <1>3, <2>2 DEF TakeQueued, TypedAcceptor
  <2>4. QED
    BY <2>1, <2>2, <2>3, TypedNext
<1>4. CASE TakeNone(a) \/ AcceptorThrows(a) \/ PeerResetEarly(a)
  <2>1. TypedFlags' /\ TypedObjects' /\ TypedPool' /\ TypedCor'
    BY <1>1, <1>4 DEF TakeNone, AcceptorThrows, PeerResetEarly, members,
                      TypedFlags, TypedObjects, TypedPool, TypedCor
  <2>2. TypedAcceptor'
    <3>1. CASE TakeNone(a)
      BY <1>1, <3>1 DEF TakeNone, TypedAcceptor
    <3>2. CASE AcceptorThrows(a)
      BY <1>1, <3>2 DEF AcceptorThrows, TypedAcceptor
    <3>3. CASE PeerResetEarly(a)
      BY <1>1, <3>3 DEF PeerResetEarly, TypedAcceptor
    <3>4. QED
      BY <1>4, <3>1, <3>2, <3>3
  <2>3. QED
    BY <2>1, <2>2, TypedNext
<1>5. CASE Reinit(a)
  <2>1. TypedPool' /\ TypedCor'
    BY <1>1, <1>5 DEF Reinit, TypedPool, TypedCor
  <2>2. TypedFlags' /\ TypedObjects'
    BY <1>1, <1>5 DEF Reinit, ReinitMembers, TypedFlags, TypedObjects, TypedAcceptor
  <2>3. TypedAcceptor'
    BY <1>1, <1>5 DEF Reinit, TypedAcceptor
  <2>4. QED
    BY <2>1, <2>2, <2>3, TypedNext
<1>6. ASSUME NEW c \in Conns, Create(a, c) PROVE TypeOK'
  <2>1. TypedPool' /\ TypedCor'
    BY <1>1, <1>6 DEF Create, TypedPool, TypedCor
  <2>2. TypedFlags' /\ TypedObjects'
    BY <1>1, <1>6 DEF Create, ReinitMembers, TypedFlags, TypedObjects, TypedAcceptor
  <2>3. TypedAcceptor'
    BY ZenonT(60), <1>1, <1>6 DEF Create, TypedAcceptor
  <2>4. QED
    BY <2>1, <2>2, <2>3, TypedNext
<1>7. CASE Insert(a)
  <2>1. TypedFlags' /\ TypedObjects' /\ TypedCor'
    BY <1>1, <1>7 DEF Insert, members, TypedFlags, TypedObjects, TypedCor
  <2>2. acceptor[a].conn \in Conns
    BY <1>7 DEF ServerInv, AcceptorShape, Insert
  <2>3. TypedPool'
    BY <1>1, <1>7, <2>2 DEF Insert, TypedPool
  <2>4. TypedAcceptor'
    BY <1>1, <1>7 DEF Insert, TypedAcceptor
  <2>5. QED
    BY <2>1, <2>3, <2>4, TypedNext
<1>8. CASE Start(a)
  <2>1. TypedFlags' /\ TypedObjects' /\ TypedPool'
    BY <1>1, <1>8 DEF Start, TypedFlags, TypedObjects, TypedPool
  <2>2. TypedAcceptor'
    BY <1>1, <1>8 DEF Start, Accepting, TypedAcceptor
  <2>3. acceptor[a].conn \in Conns
    BY <1>8 DEF ServerInv, AcceptorShape, Start
  <2>4. TypedCor'
    BY <1>8, <2>3, CorStarted, RoomToStart DEF ServerInv, Start, TypedCor
  <2>5. QED
    BY <2>1, <2>2, <2>4, TypedNext
<1>9. QED
  BY <1>2, <1>3, <1>4, <1>5, <1>6, <1>7, <1>8 DEF AcceptorNext

LEMMA CoroutineTyped ==
  ASSUME ServerInv, NEW i \in 1 .. Len(cor), CoroutineNext(i)
  PROVE  TypeOK'
<1>1. TypedFlags /\ TypedObjects /\ TypedPool /\ TypedAcceptor /\ TypedCor
  BY TypeOKParts DEF ServerInv
<1>2. TypedCor'
  BY <1>1, CorStep DEF ServerInv, CoroutineNext, KillStop, KillSkipped, KillSchedule, KillMark, TypedCor
<1>3. TypedAcceptor' /\ TypedObjects'
  BY <1>1 DEF CoroutineNext, KillStop, KillSkipped, KillSchedule, KillMark, members, TypedAcceptor,
              TypedObjects
<1>4. TypedFlags'
  BY <1>1 DEF CoroutineNext, KillStop, KillSkipped, KillSchedule, KillMark, members, TypedFlags
<1>5. TypedPool'
  <2>1. CASE KillStop(i) \/ KillSkipped(i) \/ KillMark(i)
    BY <1>1, <2>1 DEF KillStop, KillSkipped, KillMark, TypedPool
  <2>2. CASE KillSchedule(i)
    <3>1. id_[cor[i].conn] \in Endpoints
      BY CorTyped DEF ServerInv, Made
    <3>2. QED
      <4>1. CASE connection_pool_[id_[cor[i].conn]] = NoConn
        BY <1>1, <2>2, <4>1 DEF KillSchedule, MoveToDeleteQueue, TypedPool
      <4>2. CASE connection_pool_[id_[cor[i].conn]] # NoConn
        <5>1. connection_pool_[id_[cor[i].conn]] \in Conns
          BY <1>1, <3>1, <4>2 DEF TypedPool
        <5>2. connections_to_delete_' \in Seq(Conns)
          BY SMTT(30), <1>1, <2>2, <4>2, <5>1 DEF KillSchedule, MoveToDeleteQueue, TypedPool
        <5>3. connection_pool_' \in [Endpoints -> Conns \cup {NoConn}]
          BY <1>1, <2>2, <4>2 DEF KillSchedule, MoveToDeleteQueue, TypedPool
        <5>4. QED
          BY <5>2, <5>3 DEF TypedPool
      <4>3. QED
        BY <4>1, <4>2
  <2>3. QED
    BY <2>1, <2>2 DEF CoroutineNext
<1>6. QED
  BY <1>2, <1>3, <1>4, <1>5, TypedNext

LEMMA ServerTyped ==
  ASSUME ServerInv, ServerNext \/ \E c \in Conns : PeerReset(c)
  PROVE  TypeOK'
<1>1. TypedFlags /\ TypedObjects /\ TypedPool /\ TypedAcceptor /\ TypedCor
  BY TypeOKParts DEF ServerInv
<1>2. TypedCor'
  BY <1>1 DEF ServerNext, DeleteTick, StopMove, StopClose, StopFinish, Destroy, PeerReset, TypedCor
<1>3. TypedAcceptor'
  BY <1>1 DEF ServerNext, DeleteTick, StopMove, StopClose, StopFinish, Destroy, PeerReset,
              TypedAcceptor, AcceptorLocations
<1>4. TypedObjects'
  BY <1>1 DEF ServerNext, DeleteTick, StopMove, StopClose, StopFinish, Destroy, PeerReset,
              DeleteAll, members, TypedObjects
<1>5. TypedFlags'
  BY <1>1 DEF ServerNext, DeleteTick, StopMove, StopClose, StopFinish, Destroy, PeerReset,
              DeleteAll, members, Phases, TypedFlags
<1>6. TypedPool'
  <2>1. CASE DeleteTick \/ StopClose \/ StopFinish \/ \E c \in Conns : PeerReset(c)
    BY <1>1, <2>1, EmptySeq DEF DeleteTick, StopClose, StopFinish, PeerReset, members, TypedPool
  <2>2. CASE Destroy
    BY <2>2, EmptySeq DEF Destroy, TypedPool
  <2>3. CASE StopMove
    <3>1. Cardinality(PooledConns) \in Nat /\ PooledConns \subseteq Conns
      BY PooledFinite, FS_CardinalityType DEF ServerInv, TypeOK, PooledConns
    <3>2. \A order \in [1 .. Cardinality(PooledConns) -> PooledConns] : order \in Seq(Conns)
      BY <3>1
    <3>3. connections_to_delete_' \in Seq(Conns)
      BY <1>1, <2>3, <3>2, ConcatProperties DEF StopMove, TypedPool
    <3>4. QED
      BY <2>3, <3>3 DEF StopMove, TypedPool
  <2>4. QED
    BY <2>1, <2>2, <2>3 DEF ServerNext
<1>7. QED
  BY <1>2, <1>3, <1>4, <1>5, <1>6, TypedNext

-----------------------------------------------------------------------------
LEMMA ServerInvInit == Init => ServerInv
<1> SUFFICES ASSUME Init PROVE ServerInv
  OBVIOUS
<1>1. TypeOK
  <2>1. cor \in Seq([conn : Conns, pc : {"serving", "stopped", "scheduled", "done"}])
        /\ connections_to_delete_ \in Seq(Conns) /\ Len(cor) <= MaxStarts
    BY EmptySeq, BoundAssumption DEF Init
  <2>2. acceptor \in [Acceptors -> [pc : AcceptorLocations,
                                    ep : Endpoints \cup {NoEndpoint},
                                    conn : Conns \cup {NoConn},
                                    reset : BOOLEAN]]
    BY DEF Init, Accepting, AcceptorLocations
  <2>3. QED
    BY <2>1, <2>2 DEF Init, TypeOK, Phases
<1>2. AcceptorShape /\ Made /\ HeldApart /\ HeldLive /\ PoolKeyIsId
  BY NoConnAssumption DEF Init, Accepting, AcceptorShape, Made, HeldApart, HeldLive, PoolKeyIsId,
                          Holds
<1>3. Starts
  <2>1. Unfinished = {}
    BY DEF Init, Accepting, Unfinished
  <2>2. QED
    BY <2>1, FS_EmptySet, BoundAssumption DEF Init, Starts
<1>4. EndpointsApart /\ Kept /\ ServedArePooled
  BY DEF Init, Accepting, EndpointsApart, Kept, ServedArePooled
<1>5. QED
  BY <1>1, <1>2, <1>3, <1>4 DEF ServerInv

LEMMA ServerInvStep == ServerInv /\ [Next]_vars => ServerInv'
<1> SUFFICES ASSUME ServerInv, [Next]_vars PROVE ServerInv'
  OBVIOUS
<1>1. CASE UNCHANGED vars
  <2>1. TypeOK'
    BY <1>1 DEF vars, members, ServerInv, TypeOK
  <2>2. QED
    BY <1>1, <2>1, AsideStep DEF vars, members
<1>2. ASSUME NEW a \in Acceptors, AcceptorNext(a) PROVE ServerInv'
  <2>1. TypeOK'
    BY <1>2, AcceptorTyped
  <2>2. CASE AcceptorThrows(a)
    BY <2>1, <2>2, AsideStep DEF AcceptorThrows, members
  <2>3. QED
    BY <1>2, <2>1, <2>2, AcceptStep, SameEndpointStep, TakeQueuedStep, ReinitStep, CreateStep,
       InsertStep, StartStep DEF AcceptorNext
<1>3. ASSUME NEW i \in 1 .. Len(cor), CoroutineNext(i) PROVE ServerInv'
  <2>1. TypeOK'
    BY <1>3, CoroutineTyped
  <2>2. CASE KillStop(i)
    BY <2>1, <2>2, CoroutineStep DEF KillStop
  <2>3. CASE KillSkipped(i)
    BY <2>1, <2>3, CoroutineStep DEF KillSkipped, members
  <2>4. CASE KillSchedule(i)
    <3>1. CASE connection_pool_[id_[cor[i].conn]] = NoConn
      BY <2>1, <2>4, <3>1, CoroutineStep DEF KillSchedule, MoveToDeleteQueue, members
    <3>2. CASE connection_pool_[id_[cor[i].conn]] # NoConn
      BY <2>1, <2>4, <3>2, MoveStep
    <3>3. QED
      BY <3>1, <3>2
  <2>5. CASE KillMark(i)
    BY <2>1, <2>5, CoroutineStep DEF KillMark
  <2>6. QED
    BY <1>3, <2>2, <2>3, <2>4, <2>5 DEF CoroutineNext
<1>4. ASSUME NEW c \in Conns, PeerReset(c) PROVE ServerInv'
  <2>1. TypeOK'
    BY <1>4, ServerTyped
  <2>2. QED
    BY <1>4, <2>1, AsideStep DEF PeerReset
<1>5. CASE ServerNext
  <2>1. TypeOK'
    BY <1>5, ServerTyped
  <2>2. /\ \A c \in Conns : Queued(c) <=> c \in QueuedConns
        /\ \A c \in QueuedConns : Queued(c)
        /\ \A e \in Endpoints : connection_pool_[e] \notin QueuedConns
    BY DEF ServerInv, HeldApart, QueuedConns, Queued
  <2>3. \A e \in Endpoints : connection_pool_[e] = NoConn \/ connection_pool_[e] \in PooledConns
    BY DEF PooledConns
  <2>4. \A c \in PooledConns : Pooled(c)
    BY DEF PooledConns, Pooled
  <2>5. CASE DeleteTick
    BY <2>1, <2>2, <2>5, DeleteStep DEF DeleteTick
  <2>6. CASE StopFinish
    BY <2>1, <2>2, <2>6, DeleteStep DEF StopFinish
  <2>7. CASE Destroy
    <3> DEFINE gone == PooledConns \cup QueuedConns
    <3>1. /\ DeleteAll(gone) /\ phase' = "destroyed"
          /\ connections_to_delete_' = <<>>
          /\ UNCHANGED <<id_, acceptor, cor, returned>>
      BY <2>7 DEF Destroy
    <3>2. \A e \in Endpoints : IF connection_pool_[e] \in gone
                               THEN connection_pool_'[e] = NoConn
                               ELSE connection_pool_'[e] = connection_pool_[e]
      BY <2>3, <2>7 DEF Destroy
    <3>3. (\A c \in Conns : Queued(c) => c \in gone) /\ (\A c \in gone : Queued(c) \/ Pooled(c))
      BY <2>2, <2>4
    <3> HIDE DEF gone
    <3>4. QED
      BY <2>1, <3>1, <3>2, <3>3, DeleteStep
  <2>8. QED
    BY <1>5, <2>1, <2>5, <2>6, <2>7, StopMoveStep, StopCloseStep DEF ServerNext
<1>6. QED
  BY <1>1, <1>2, <1>3, <1>4, <1>5 DEF Next

\* The server never holds an object twice or a deleted one, and its pool is
\* keyed by the ids of what stands in it, however accepts, the ends of
\* connections, the delete timer and stop() interleave (server.cpp:63-103,
\* 163-233).
THEOREM ObjectsAreHeldOnce == Spec => [](HeldOnce /\ PoolKeyIsId)
<1>1. ServerInv => HeldOnce /\ PoolKeyIsId
  <2> SUFFICES ASSUME ServerInv PROVE HeldOnce /\ PoolKeyIsId
    OBVIOUS
  <2>1. ASSUME NEW c \in Conns, Places(c) # {} PROVE object[c] = "live"
    <3>1. Pooled(c) \/ Queued(c) \/ \E a \in Acceptors : Holds(a) /\ acceptor[a].conn = c
      BY <2>1 DEF Places, Pooled, Queued, Holds
    <3>2. QED
      BY <3>1, NoConnAssumption DEF ServerInv, HeldLive, Pooled, Queued
  <2>2. QED
    BY <2>1, OnePlace DEF ServerInv, HeldOnce
<1>2. QED
  BY <1>1, ServerInvInit, ServerInvStep, PTL DEF Spec

\* While no endpoint has come back to an entry of its own, every live object
\* stays within reach of the destructor (server.cpp:34-44).
THEOREM ObjectsAreKept == Spec => []NothingLost
<1>1. ServerInv => NothingLost
  <2>1. ASSUME NEW c \in Conns, Pooled(c) \/ Queued(c) \/ \E a \in Acceptors : Holds(a) /\ acceptor[a].conn = c
        PROVE  Places(c) # {}
    BY <2>1 DEF Places, Pooled, Queued, Holds
  <2>2. QED
    BY <2>1 DEF ServerInv, Kept, NothingLost
<1>2. QED
  BY <1>1, ServerInvInit, ServerInvStep, PTL DEF Spec

\* Under the same condition and until stop(), no object whose coroutine still
\* serves requests waits for deletion or reuse (connection.cpp:232-241).
THEOREM ServedIsNotQueued == Spec => []QueuedIsFinished
<1>1. ServerInv => QueuedIsFinished
  BY DEF ServerInv, ServedArePooled, HeldApart, QueuedIsFinished, Active, Pooled, Queued
<1>2. QED
  BY <1>1, ServerInvInit, ServerInvStep, PTL DEF Spec

=============================================================================
