----------------------------- MODULE HttpServer -----------------------------
(***************************************************************************)
(* http::Server and the life of its http::Connection objects               *)
(* (platform/http/src/server.cpp, connection.cpp).                         *)
(*                                                                         *)
(* Acceptor coroutines take a finished connection object from              *)
(* connections_to_delete_ or create one, give it the accepted socket,      *)
(* enter it in connection_pool_ under the hash of its remote endpoint and  *)
(* start its coroutine.  That coroutine serves requests (HttpConnection)   *)
(* and ends in kill(), which hands the object to connections_to_delete_.   *)
(* A timer deletes whatever stands there.  stop() closes and queues every  *)
(* pooled connection, stops the io_service and deletes the queue; the      *)
(* destructor deletes the rest.                                            *)
(*                                                                         *)
(* Each step is what runs between two points where another thread can get  *)
(* in: a section under the spinlocks, or the unlocked code between two.    *)
(* The coroutines of one object share its strand: kill(), which never      *)
(* waits, is not interleaved with another coroutine of the same object.    *)
(* Hashes of different endpoints are taken to be different.                *)
(***************************************************************************)
EXTENDS Integers, Sequences, FiniteSets

CONSTANTS Conns,     \* addresses of connection objects, used once each
          NoConn,
          Endpoints, \* remote endpoints
          NoEndpoint,
          Acceptors, \* the num_threads acceptor coroutines
          MaxStarts  \* bound on the number of connections accepted

ASSUME NoConnAssumption == NoConn \notin Conns
ASSUME NoEndpointAssumption == NoEndpoint \notin Endpoints
ASSUME BoundAssumption == MaxStarts \in Nat
\* An endpoint is an address and a port; start() spawns num_threads acceptors.
ASSUME FiniteAssumption == IsFiniteSet(Endpoints) /\ IsFiniteSet(Acceptors)

VARIABLES object,   \* of each address: "none", "live" or "deleted"
          id_, socket_, running_, deletion_sheduled_, \* members of Connection
          connection_pool_,
          connections_to_delete_,
          acceptor, \* where each acceptor coroutine is, and what it holds
          cor,      \* the connection coroutines, in the order they started
          phase,    \* how far stop() and the destructor have come
          deleter,  \* the coroutine of the delete timer
          returned, \* has an endpoint connected again before the server had
                    \* taken its old connection out of the pool?
          terminated \* an exception has left an io thread: std::terminate

members == <<object, id_, socket_, running_, deletion_sheduled_>>
vars == <<members, connection_pool_, connections_to_delete_, acceptor, cor,
          phase, deleter, returned, terminated>>

\* stop() has not begun, has queued the pool, has closed the acceptor, has
\* stopped the io_service and deleted the queue; the server is destroyed.
Phases == {"up", "moved", "closed", "stopped", "destroyed"}

Accepting == [pc |-> "accept", ep |-> NoEndpoint, conn |-> NoConn, reset |-> FALSE]

Init ==
    /\ object = [c \in Conns |-> "none"]
    /\ id_ = [c \in Conns |-> NoEndpoint]
    /\ socket_ = [c \in Conns |-> "closed"]
    /\ running_ = [c \in Conns |-> FALSE]
    /\ deletion_sheduled_ = [c \in Conns |-> FALSE]
    /\ connection_pool_ = [e \in Endpoints |-> NoConn]
    /\ connections_to_delete_ = <<>>
    /\ acceptor = [a \in Acceptors |-> Accepting]
    /\ cor = <<>>
    /\ phase = "up"
    /\ deleter = "waiting"
    /\ returned = FALSE
    /\ terminated = FALSE

-----------------------------------------------------------------------------
Queued(c) == \E i \in 1 .. Len(connections_to_delete_) : connections_to_delete_[i] = c
InHand(c) == \E a \in Acceptors : acceptor[a].conn = c

\* The threads of the io_service still pick up handlers.
IoRuns == phase \in {"up", "moved", "closed"} /\ ~terminated

\* No coroutine of this object is inside kill(), holding the strand.
StrandFree(c) ==
    \A i \in 1 .. Len(cor) : cor[i].conn = c => cor[i].pc \notin {"stopped", "scheduled"}

\* An endpoint can connect when no socket of the server is connected to it.
Connected(e) ==
    \/ \E c \in Conns : id_[c] = e /\ socket_[c] = "open"
    \/ \E a \in Acceptors :
          /\ acceptor[a].ep = e
          /\ acceptor[a].pc \in {"take", "reinit", "create"}
          /\ ~acceptor[a].reset

KnownToServer(e) ==
    \/ connection_pool_[e] # NoConn
    \/ \E a \in Acceptors : acceptor[a].ep = e /\ acceptor[a].pc # "accept"

Unfinished == {a \in Acceptors : acceptor[a].pc \notin {"accept", "ended"}}

-----------------------------------------------------------------------------
\* Server::start, an acceptor coroutine: async_accept completes.
Accept(a, e) ==
    /\ phase \in {"up", "moved"} /\ ~terminated
    /\ acceptor[a].pc = "accept"
    /\ Len(cor) + Cardinality(Unfinished) < MaxStarts
    /\ ~Connected(e)
    /\ returned' = (returned \/ KnownToServer(e))
    /\ acceptor' = [acceptor EXCEPT ![a] =
                       [pc |-> "take", ep |-> e, conn |-> NoConn, reset |-> FALSE]]
    /\ UNCHANGED <<members, connection_pool_, connections_to_delete_, cor,
                   phase, deleter, terminated>>

\* A defect: the object is read from the queue and left in it.
TakeFrontOnly(a) ==
    /\ acceptor[a].pc = "take" /\ ~terminated
    /\ connections_to_delete_ # <<>>
    /\ acceptor' = [acceptor EXCEPT ![a].pc = "reinit",
                                    ![a].conn = Head(connections_to_delete_)]
    /\ UNCHANGED <<members, connection_pool_, connections_to_delete_, cor,
                   phase, deleter, returned, terminated>>

\* An object is there for reuse, under connections_to_delete_lock_.
TakeQueued(a) ==
    /\ acceptor[a].pc = "take" /\ ~terminated
    /\ connections_to_delete_ # <<>>
    /\ acceptor' = [acceptor EXCEPT ![a].pc = "reinit",
                                    ![a].conn = Head(connections_to_delete_)]
    /\ connections_to_delete_' = Tail(connections_to_delete_)
    /\ UNCHANGED <<members, connection_pool_, cor, phase, deleter, returned, terminated>>

TakeNone(a) ==
    /\ acceptor[a].pc = "take" /\ ~terminated
    /\ connections_to_delete_ = <<>>
    /\ acceptor' = [acceptor EXCEPT ![a].pc = "create"]
    /\ UNCHANGED <<members, connection_pool_, connections_to_delete_, cor,
                   phase, deleter, returned, terminated>>

\* Connection::reinit: the socket moves in and the flags are cleared.
ReinitMembers(c, a) ==
    /\ id_' = [id_ EXCEPT ![c] = acceptor[a].ep]
    /\ socket_' = [socket_ EXCEPT ![c] = "open"]
    /\ running_' = [running_ EXCEPT ![c] = FALSE]
    /\ deletion_sheduled_' = [deletion_sheduled_ EXCEPT ![c] = FALSE]

Reinit(a) ==
    /\ acceptor[a].pc = "reinit" /\ ~terminated
    /\ ~acceptor[a].reset
    /\ ReinitMembers(acceptor[a].conn, a)
    /\ acceptor' = [acceptor EXCEPT ![a].pc = "insert"]
    /\ UNCHANGED <<object, connection_pool_, connections_to_delete_, cor,
                   phase, deleter, returned, terminated>>

Create(a, c) ==
    /\ acceptor[a].pc = "create" /\ ~terminated
    /\ ~acceptor[a].reset
    /\ object[c] = "none"
    /\ object' = [object EXCEPT ![c] = "live"]
    /\ ReinitMembers(c, a)
    /\ acceptor' = [acceptor EXCEPT ![a].pc = "insert", ![a].conn = c]
    /\ UNCHANGED <<connection_pool_, connections_to_delete_, cor, phase,
                   deleter, returned, terminated>>

\* remote_endpoint() throws for a peer that has gone; the acceptor rethrows,
\* and the exception leaves io_service::run() in a std::thread.
AcceptorThrows(a) ==
    /\ acceptor[a].pc \in {"reinit", "create"} /\ ~terminated
    /\ acceptor[a].reset
    /\ terminated' = TRUE
    /\ UNCHANGED <<members, connection_pool_, connections_to_delete_,
                   acceptor, cor, phase, deleter, returned>>

\* The entry in the pool, under connection_pool_lock_.
Insert(a) ==
    LET c == acceptor[a].conn IN
    /\ acceptor[a].pc = "insert" /\ ~terminated
    /\ connection_pool_' = [connection_pool_ EXCEPT ![id_[c]] = c]
    /\ acceptor' = [acceptor EXCEPT ![a].pc = "start"]
    /\ UNCHANGED <<members, connections_to_delete_, cor, phase, deleter, returned, terminated>>

\* Connection::start, and the acceptor's next turn.
Start(a) ==
    LET c == acceptor[a].conn IN
    /\ acceptor[a].pc = "start" /\ ~terminated
    /\ running_' = [running_ EXCEPT ![c] = TRUE]
    /\ cor' = Append(cor, [conn |-> c, pc |-> "serving"])
    /\ acceptor' = [acceptor EXCEPT ![a] =
                       [Accepting EXCEPT !.pc = IF phase = "up" THEN "accept" ELSE "ended"]]
    /\ UNCHANGED <<object, id_, socket_, deletion_sheduled_, connection_pool_,
                   connections_to_delete_, phase, deleter, returned, terminated>>

\* The peer closes or resets its connection.
PeerReset(c) ==
    /\ socket_[c] = "open" /\ ~terminated
    /\ socket_' = [socket_ EXCEPT ![c] = "reset"]
    /\ UNCHANGED <<object, id_, running_, deletion_sheduled_, connection_pool_,
                   connections_to_delete_, acceptor, cor, phase, deleter, returned, terminated>>

PeerResetEarly(a) ==
    /\ acceptor[a].pc \in {"take", "reinit", "create"} /\ ~terminated
    /\ ~acceptor[a].reset
    /\ acceptor' = [acceptor EXCEPT ![a].reset = TRUE]
    /\ UNCHANGED <<members, connection_pool_, connections_to_delete_, cor,
                   phase, deleter, returned, terminated>>

-----------------------------------------------------------------------------
\* Defects of the move: the pool entry stays, or the object is not queued.
MoveWithoutErase(e) ==
    IF connection_pool_[e] = NoConn
    THEN UNCHANGED <<connection_pool_, connections_to_delete_>>
    ELSE /\ connections_to_delete_' = Append(connections_to_delete_, connection_pool_[e])
         /\ UNCHANGED connection_pool_

MoveToNowhere(e) ==
    /\ connection_pool_' = [connection_pool_ EXCEPT ![e] = NoConn]
    /\ UNCHANGED connections_to_delete_

\* move_connection_to_delete_queue_nolock.
MoveToDeleteQueue(e) ==
    IF connection_pool_[e] = NoConn
    THEN UNCHANGED <<connection_pool_, connections_to_delete_>>
    ELSE /\ connections_to_delete_' = Append(connections_to_delete_, connection_pool_[e])
         /\ connection_pool_' = [connection_pool_ EXCEPT ![e] = NoConn]

\* The coroutine leaves its loop, for whatever reason, and enters kill().
KillStop(i) ==
    LET c == cor[i].conn IN
    /\ IoRuns /\ cor[i].pc = "serving" /\ StrandFree(c)
    /\ ~deletion_sheduled_[c]
    /\ running_' = [running_ EXCEPT ![c] = FALSE]
    /\ socket_' = [socket_ EXCEPT ![c] = "closed"]
    /\ cor' = [cor EXCEPT ![i].pc = "stopped"]
    /\ UNCHANGED <<object, id_, deletion_sheduled_, connection_pool_,
                   connections_to_delete_, acceptor, phase, deleter, returned, terminated>>

\* kill() finds the flag set and leaves everything as it is.
KillSkipped(i) ==
    LET c == cor[i].conn IN
    /\ IoRuns /\ cor[i].pc = "serving" /\ StrandFree(c)
    /\ deletion_sheduled_[c]
    /\ cor' = [cor EXCEPT ![i].pc = "done"]
    /\ UNCHANGED <<members, connection_pool_, connections_to_delete_, acceptor,
                   phase, deleter, returned, terminated>>

\* kill(): schedule_connection_delete, under both locks.
KillSchedule(i) ==
    /\ cor[i].pc = "stopped" /\ ~terminated
    /\ MoveToDeleteQueue(id_[cor[i].conn])
    /\ cor' = [cor EXCEPT ![i].pc = "scheduled"]
    /\ UNCHANGED <<members, acceptor, phase, deleter, returned, terminated>>

\* kill(): the flag is set last, on an object others can already see.
KillMark(i) ==
    /\ cor[i].pc = "scheduled" /\ ~terminated
    /\ deletion_sheduled_' = [deletion_sheduled_ EXCEPT ![cor[i].conn] = TRUE]
    /\ cor' = [cor EXCEPT ![i].pc = "done"]
    /\ UNCHANGED <<object, id_, socket_, running_, connection_pool_,
                   connections_to_delete_, acceptor, phase, deleter, returned, terminated>>

-----------------------------------------------------------------------------
DeleteAll(gone) ==
    /\ object' = [c \in Conns |-> IF c \in gone THEN "deleted" ELSE object[c]]
    /\ socket_' = [c \in Conns |-> IF c \in gone THEN "closed" ELSE socket_[c]]

QueuedConns == {connections_to_delete_[i] : i \in 1 .. Len(connections_to_delete_)}

\* process_sheduled_connection_delete, when the timer expires.
DeleteTick ==
    /\ IoRuns /\ deleter = "waiting"
    /\ DeleteAll(QueuedConns)
    /\ connections_to_delete_' = <<>>
    /\ deleter' = IF phase = "up" THEN "waiting" ELSE "ended"
    /\ UNCHANGED <<id_, running_, deletion_sheduled_, connection_pool_,
                   acceptor, cor, phase, returned, terminated>>

PooledConns == {connection_pool_[e] : e \in Endpoints} \ {NoConn}

\* Server::stop: the loop over the pool, under its lock.
StopMove ==
    /\ phase = "up" /\ ~terminated
    /\ phase' = "moved"
    /\ running_' = [c \in Conns |-> running_[c] /\ c \notin PooledConns]
    /\ socket_' = [c \in Conns |-> IF c \in PooledConns THEN "closed" ELSE socket_[c]]
    /\ \E order \in [1 .. Cardinality(PooledConns) -> PooledConns] :
          /\ \A i, j \in DOMAIN order : i # j => order[i] # order[j]
          /\ connections_to_delete_' = connections_to_delete_ \o order
    /\ connection_pool_' = [e \in Endpoints |-> NoConn]
    /\ UNCHANGED <<object, id_, deletion_sheduled_, acceptor, cor, deleter, returned, terminated>>

\* Server::stop: the timer is cancelled, unless its expiry is already on the
\* way, and the acceptor closed.
StopClose ==
    /\ phase = "moved" /\ ~terminated
    /\ phase' = "closed"
    /\ deleter' \in {deleter, "ended"}
    /\ acceptor' = [a \in Acceptors |->
                       IF acceptor[a].pc = "accept" THEN [acceptor[a] EXCEPT !.pc = "ended"]
                                                    ELSE acceptor[a]]
    /\ UNCHANGED <<members, connection_pool_, connections_to_delete_, cor, returned,
                   terminated>>

\* Server::stop: after its second of sleep, io_service::stop and the deletes.
StopFinish ==
    /\ phase = "closed" /\ ~terminated
    /\ phase' = "stopped"
    /\ DeleteAll(QueuedConns)
    /\ connections_to_delete_' = <<>>
    /\ UNCHANGED <<id_, running_, deletion_sheduled_, connection_pool_,
                   acceptor, cor, deleter, returned, terminated>>

\* ~Server, once the threads of start() are joined.
Destroy ==
    /\ phase = "stopped" /\ ~terminated
    /\ Unfinished = {}
    /\ \A i \in 1 .. Len(cor) : cor[i].pc \notin {"stopped", "scheduled"}
    /\ phase' = "destroyed"
    /\ DeleteAll(PooledConns \cup QueuedConns)
    /\ connection_pool_' = [e \in Endpoints |-> NoConn]
    /\ connections_to_delete_' = <<>>
    /\ UNCHANGED <<id_, running_, deletion_sheduled_, acceptor, cor,
                   deleter, returned, terminated>>

-----------------------------------------------------------------------------
AcceptorNext(a) ==
    \/ \E e \in Endpoints : Accept(a, e)
    \/ TakeQueued(a)
    \/ TakeNone(a)
    \/ Reinit(a)
    \/ \E c \in Conns : Create(a, c)
    \/ AcceptorThrows(a)
    \/ Insert(a)
    \/ Start(a)
    \/ PeerResetEarly(a)

CoroutineNext(i) ==
    \/ KillStop(i)
    \/ KillSkipped(i)
    \/ KillSchedule(i)
    \/ KillMark(i)

ServerNext ==
    \/ DeleteTick
    \/ StopMove
    \/ StopClose
    \/ StopFinish
    \/ Destroy

Next ==
    \/ \E a \in Acceptors : AcceptorNext(a)
    \/ \E i \in 1 .. Len(cor) : CoroutineNext(i)
    \/ \E c \in Conns : PeerReset(c)
    \/ ServerNext

Spec == Init /\ [][Next]_vars

-----------------------------------------------------------------------------
AcceptorLocations == {"accept", "take", "reinit", "create", "insert", "start", "ended"}

TypeOK ==
    /\ object \in [Conns -> {"none", "live", "deleted"}]
    /\ id_ \in [Conns -> Endpoints \cup {NoEndpoint}]
    /\ socket_ \in [Conns -> {"closed", "open", "reset"}]
    /\ running_ \in [Conns -> BOOLEAN]
    /\ deletion_sheduled_ \in [Conns -> BOOLEAN]
    /\ connection_pool_ \in [Endpoints -> Conns \cup {NoConn}]
    /\ connections_to_delete_ \in Seq(Conns)
    /\ acceptor \in [Acceptors -> [pc : AcceptorLocations,
                                   ep : Endpoints \cup {NoEndpoint},
                                   conn : Conns \cup {NoConn},
                                   reset : BOOLEAN]]
    /\ cor \in Seq([conn : Conns, pc : {"serving", "stopped", "scheduled", "done"}])
    /\ Len(cor) <= MaxStarts
    /\ phase \in Phases
    /\ deleter \in {"waiting", "ended"}
    /\ returned \in BOOLEAN
    /\ terminated \in BOOLEAN

\* The places where the server holds an object: pool entries, positions of the
\* delete queue, and acceptors that have not entered it in the pool yet.
Places(c) ==
    {<<"pool", e>> : e \in {e \in Endpoints : connection_pool_[e] = c}}
    \cup {<<"queue", i>> : i \in {i \in 1 .. Len(connections_to_delete_) :
                                    connections_to_delete_[i] = c}}
    \cup {<<"hand", a>> : a \in {a \in Acceptors :
                                   acceptor[a].conn = c /\ acceptor[a].pc \in {"reinit", "insert"}}}

\* An object is held in one place at most and a held object is not deleted:
\* whatever acceptors, kill(), the timer and stop() do at once, no connection
\* is deleted twice or served for two peers through two pool entries
\* (server.cpp:78-103, 170, 194-195, 225-233).
HeldOnce ==
    /\ TypeOK
    /\ \A c \in Conns :
          /\ Cardinality(Places(c)) <= 1
          /\ Places(c) # {} => object[c] = "live"

\* A pool entry stands under its connection's own id.  The loop of stop()
\* looks its entry up by get_id() and never ends, holding the pool's lock,
\* when it does not (server.cpp:163-172, 191).
PoolKeyIsId ==
    \A e \in Endpoints : connection_pool_[e] # NoConn => id_[connection_pool_[e]] = e

\* The next two assume ~returned: no endpoint has connected again before its
\* old entry left the pool.  connection_pool_[id] = conn replaces such an entry
\* without a look at it (server.cpp:101): the old connection's kill() then
\* queues the new one.

\* No live object is lost: pool, queue or an acceptor holds it, so that the
\* destructor's two loops reach every object there is (server.cpp:34-44).
NothingLost ==
    ~returned =>
        \A c \in Conns : object[c] = "live" => Places(c) # {} \/ InHand(c)

\* While the server is up, an object waits for deletion or reuse only after
\* its coroutine has left its request loop (connection.cpp:234-235).
QueuedIsFinished ==
    phase = "up" /\ ~returned =>
        \A i \in 1 .. Len(cor) : cor[i].pc = "serving" => ~Queued(cor[i].conn)

=============================================================================
