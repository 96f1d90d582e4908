-------------------------------- MODULE Sqldb --------------------------------
(***************************************************************************)
(* sqldb::Transaction, sqldb::Connection and the connection pool of        *)
(* sqldb::Database (platform/sqldb/src).                                   *)
(*                                                                         *)
(* Each task is a coroutine that uses one Transaction after another.  It   *)
(* waits while it connects and while a command is executed; a step is what *)
(* it does between two such waits, or a section under pool_lock_.  The     *)
(* timer of a command can expire at any time and its handler runs on any   *)
(* thread, also after the command's guard has cancelled the timer.         *)
(*                                                                         *)
(* PostgreSQL is seen through libpq: a command succeeds, is refused with   *)
(* an error result, or the link breaks.  Statements are counted, and a     *)
(* refused one aborts the server's transaction.                            *)
(***************************************************************************)
EXTENDS Integers, Sequences, FiniteSets

CONSTANTS Conns,     \* addresses of Connection objects, used once each
          NoConn,
          Tasks,
          MaxTransactions, \* bound on the transactions in all
          MaxExecs         \* bound on the statements of a transaction

ASSUME NoConnAssumption == NoConn \notin Conns
ASSUME BoundsAssumption == MaxTransactions \in Nat /\ MaxExecs \in Nat

VARIABLES conn,        \* the Connection objects, and their server sessions
          pool_queue_,
          task,        \* where each task is, and its Transaction
          late,        \* connections whose expired timer's handler is queued
          opened,      \* how many transactions have been made
          abandoned    \* connections async_get_connection has lost the pointer to

vars == <<conn, pool_queue_, task, late, opened, abandoned>>

\* pg: of the PGconn, fd: socket_ is open, timed: timeout_occurred_; txn: of
\* the server's session, and how many statements have been executed in it.
NewConnection == [object |-> "none", pg |-> "null", fd |-> FALSE, timed |-> FALSE,
                  txn |-> "none", stmts |-> 0]

\* execs: statements that have returned; durable: those that will last;
\* asked: has COMMIT been sent?  caught: has the user caught an exception and
\* gone on?
NewTask == [pc |-> "idle", mode |-> "off", conn |-> NoConn, execs |-> 0,
            durable |-> 0, asked |-> FALSE, caught |-> FALSE]

Init ==
    /\ conn = [c \in Conns |-> NewConnection]
    /\ pool_queue_ = <<>>
    /\ task = [t \in Tasks |-> NewTask]
    /\ late = {}
    /\ opened = 0
    /\ abandoned = {}

-----------------------------------------------------------------------------
\* Connection::status.
Bad(c) == conn[c].pg \in {"null", "bad"} \/ conn[c].timed
Connected(c) == ~Bad(c)

Deleted(c) == [conn[c] EXCEPT !.object = "deleted", !.txn = "none", !.stmts = 0]
TimedOut(c) == [conn[c] EXCEPT !.timed = TRUE, !.fd = FALSE]

Waiting == {"connect", "begin", "exec", "undo", "commit", "rollback"}

ReturnConnection(c) == pool_queue_' = Append(pool_queue_, c)

Goto(t, pc) == task' = [task EXCEPT ![t].pc = pc]

-----------------------------------------------------------------------------
\* The timer of the command a task waits for.
TimerExpires(t) ==
    /\ task[t].pc \in Waiting
    /\ ~conn[task[t].conn].timed
    /\ late' = late \cup {task[t].conn}
    /\ UNCHANGED <<conn, pool_queue_, task, opened, abandoned>>

\* The handler closes the socket; on a connection that is deleted by then it
\* writes to freed memory, which is not followed any further.
TimeoutHandler(c) ==
    /\ c \in late
    /\ late' = late \ {c}
    /\ conn' = IF conn[c].object = "deleted" THEN conn
               ELSE [conn EXCEPT ![c] = TimedOut(c)]
    /\ UNCHANGED <<pool_queue_, task, opened, abandoned>>

-----------------------------------------------------------------------------
\* A user makes a transaction and executes statements in it.
Open(t) ==
    /\ task[t].pc = "idle" /\ opened < MaxTransactions
    /\ opened' = opened + 1
    /\ \E mode \in {"on", "off"} :
          task' = [task EXCEPT ![t].pc = "ready", ![t].mode = mode]
    /\ UNCHANGED <<conn, pool_queue_, late, abandoned>>

CallExec(t) ==
    /\ task[t].pc = "ready" /\ task[t].execs < MaxExecs
    /\ Goto(t, IF task[t].conn = NoConn THEN "get" ELSE "exec")
    /\ UNCHANGED <<conn, pool_queue_, late, opened, abandoned>>

\* A defect: no transaction is begun.
WithoutBegin(t, c) == task' = [task EXCEPT ![t].conn = c, ![t].pc = "exec"]

WithConnection(t, c) ==
    task' = [task EXCEPT ![t].conn = c,
                         ![t].pc = IF task[t].mode = "off" THEN "begin" ELSE "exec"]

\* async_get_connection, under pool_lock_: connections are taken off the pool
\* until one is CONNECTED, and what is BAD is deleted on the way.  It asks
\* twice; the handler takes no lock, and when it runs in between, the
\* connection is neither: the pointer is overwritten by the next one's.  (The
\* last one is returned all the same, as if the handler had run afterwards.)
Passed(popped, slipped) ==
    /\ slipped \subseteq {c \in popped \cap late : Connected(c)}
    /\ \A c \in popped \ slipped : Bad(c)
    /\ late' = late \ slipped
    /\ abandoned' = abandoned \cup slipped

AfterPassing(c, popped, slipped) ==
    IF c \in slipped THEN TimedOut(c) ELSE IF c \in popped THEN Deleted(c) ELSE conn[c]

Front(k) == {pool_queue_[j] : j \in 1 .. k}

GetPooled(t) ==
    /\ task[t].pc = "get"
    /\ \E i \in 1 .. Len(pool_queue_), slipped \in SUBSET late :
          /\ Connected(pool_queue_[i])
          /\ Passed(Front(i - 1), slipped)
          /\ pool_queue_' = SubSeq(pool_queue_, i + 1, Len(pool_queue_))
          /\ conn' = [c \in Conns |-> AfterPassing(c, Front(i - 1), slipped)]
          /\ WithConnection(t, pool_queue_[i])
    /\ UNCHANGED opened

\* The pool is empty, or its last connection was BAD: the pointer is null.
GetNew(t) ==
    LET pooled == Front(Len(pool_queue_)) IN
    /\ task[t].pc = "get"
    /\ pool_queue_ # <<>> => Bad(pool_queue_[Len(pool_queue_)])
    /\ pool_queue_' = <<>>
    /\ \E new \in Conns, slipped \in SUBSET late :
          /\ Passed(pooled, slipped)
          /\ conn[new].object = "none"
          /\ conn' = [c \in Conns |->
                        IF c = new THEN [NewConnection EXCEPT !.object = "live"]
                                   ELSE AfterPassing(c, pooled, slipped)]
          /\ task' = [task EXCEPT ![t].conn = new, ![t].pc = "connect"]
    /\ UNCHANGED opened

\* async_connect, called until the connection is CONNECTED.  A second call
\* finds socket_ still open if the first one failed after assigning it.
ConnectSucceeds(t) ==
    LET c == task[t].conn IN
    /\ task[t].pc = "connect" /\ ~conn[c].timed /\ ~conn[c].fd
    /\ conn' = [conn EXCEPT ![c].pg = "ok", ![c].fd = TRUE]
    /\ WithConnection(t, c)
    /\ UNCHANGED <<pool_queue_, late, opened, abandoned>>

ConnectFails(t) ==
    LET c == task[t].conn IN
    /\ task[t].pc = "connect" /\ ~conn[c].timed /\ ~conn[c].fd
    /\ \E assigned \in BOOLEAN :
          conn' = [conn EXCEPT ![c].pg = "bad", ![c].fd = assigned]
    /\ UNCHANGED <<pool_queue_, task, late, opened, abandoned>>

\* assign() throws a system_error, which only ends in the user: the object is
\* nobody's, and the Transaction has no connection.
ReassignThrows(t) ==
    LET c == task[t].conn IN
    /\ task[t].pc = "connect" /\ ~conn[c].timed /\ conn[c].fd
    /\ abandoned' = abandoned \cup {c}
    /\ task' = [task EXCEPT ![t].pc = "raised", ![t].conn = NoConn]
    /\ UNCHANGED <<conn, pool_queue_, late, opened>>

-----------------------------------------------------------------------------
\* How a command on the task's connection can go wrong: the server refuses
\* it, the link breaks, or the timeout has occurred.
Refused(c) == [conn[c] EXCEPT !.txn = IF @ = "open" THEN "aborted" ELSE @]
Broken(c) == [conn[c] EXCEPT !.pg = "bad", !.txn = "none", !.stmts = 0]

FailedCommand(t, pc) ==
    LET c == task[t].conn IN
    /\ task[t].pc = pc
    /\ \/ ~Bad(c) /\ conn' = [conn EXCEPT ![c] = Refused(c)]
       \/ ~Bad(c) /\ conn' = [conn EXCEPT ![c] = Broken(c)]
       \/ Bad(c) /\ UNCHANGED conn
    /\ Goto(t, "raised")
    /\ UNCHANGED <<pool_queue_, late, opened, abandoned>>

\* async_begin.
Begin(t) ==
    LET c == task[t].conn IN
    /\ task[t].pc = "begin" /\ ~Bad(c)
    /\ conn' = [conn EXCEPT ![c].txn = "open", ![c].stmts = 0]
    /\ Goto(t, "exec")
    /\ UNCHANGED <<pool_queue_, late, opened, abandoned>>

\* Transaction::async_exec: the statement itself.
Exec(t) ==
    LET c == task[t].conn IN
    /\ task[t].pc = "exec" /\ ~Bad(c) /\ conn[c].txn # "aborted"
    /\ conn' = [conn EXCEPT ![c].stmts = IF conn[c].txn = "open" THEN @ + 1 ELSE @]
    /\ task' = [task EXCEPT ![t].pc = "ready", ![t].execs = @ + 1,
                            ![t].durable = IF conn[c].txn = "open" THEN @ ELSE @ + 1]
    /\ UNCHANGED <<pool_queue_, late, opened, abandoned>>

\* A defect: the results are not looked at.
ExecUnchecked(t) ==
    LET c == task[t].conn IN
    /\ task[t].pc = "exec" /\ ~Bad(c)
    /\ conn' = [conn EXCEPT ![c] = Refused(c)]
    /\ task' = [task EXCEPT ![t].pc = "ready", ![t].execs = @ + 1]
    /\ UNCHANGED <<pool_queue_, late, opened, abandoned>>

\* Its catch block: a refused statement is rolled back ...
ExecRefused(t) ==
    LET c == task[t].conn IN
    /\ task[t].pc = "exec" /\ ~Bad(c)
    /\ conn' = [conn EXCEPT ![c] = Refused(c)]
    /\ Goto(t, IF task[t].mode = "off" THEN "undo" ELSE "raised")
    /\ UNCHANGED <<pool_queue_, late, opened, abandoned>>

\* A defect: the pointer to a bad connection is dropped without a delete.
ExecDropped(t) ==
    /\ task[t].pc = "exec"
    /\ task' = [task EXCEPT ![t].pc = "raised", ![t].conn = NoConn]
    /\ UNCHANGED <<conn, pool_queue_, late, opened, abandoned>>

\* ... and a bad connection is deleted.
ExecBad(t) ==
    LET c == task[t].conn IN
    /\ task[t].pc = "exec"
    /\ conn' = [conn EXCEPT ![c] = Deleted(c)]
    /\ task' = [task EXCEPT ![t].pc = "raised", ![t].conn = NoConn]
    /\ UNCHANGED <<pool_queue_, late, opened, abandoned>>

-----------------------------------------------------------------------------
\* async_commit and async_rollback do nothing in autocommit mode or without a
\* connection, and return.
CallEnd(t, pc) ==
    /\ task[t].pc = "ready"
    /\ IF task[t].conn # NoConn /\ task[t].mode = "off"
       THEN task' = [task EXCEPT ![t].pc = pc, ![t].asked = @ \/ pc = "commit"]
       ELSE Goto(t, IF pc = "commit" THEN "committed" ELSE "ended")
    /\ UNCHANGED <<conn, pool_queue_, late, opened, abandoned>>

\* A defect: the connection is returned and kept.
CommitKeepsConnection(t) ==
    LET c == task[t].conn IN
    /\ task[t].pc = "commit" /\ ~Bad(c)
    /\ conn' = [conn EXCEPT ![c].txn = "none", ![c].stmts = 0]
    /\ ReturnConnection(c)
    /\ task' = [task EXCEPT ![t].pc = "committed",
                            ![t].durable = @ + (IF conn[c].txn = "open" THEN conn[c].stmts ELSE 0)]
    /\ UNCHANGED <<late, opened, abandoned>>

\* COMMIT succeeds; an aborted transaction is rolled back, without an error.
Commit(t) ==
    LET c == task[t].conn IN
    /\ task[t].pc = "commit" /\ ~Bad(c)
    /\ conn' = [conn EXCEPT ![c].txn = "none", ![c].stmts = 0]
    /\ ReturnConnection(c)
    /\ task' = [task EXCEPT ![t].pc = "committed", ![t].conn = NoConn,
                            ![t].durable = @ + (IF conn[c].txn = "open" THEN conn[c].stmts ELSE 0)]
    /\ UNCHANGED <<late, opened, abandoned>>

\* The link breaks, or the wait times out, after the server has committed.
CommitUnheard(t) ==
    LET c == task[t].conn IN
    /\ task[t].pc = "commit" /\ conn[c].txn = "open"
    /\ conn' = [conn EXCEPT ![c] = IF Bad(c) THEN [@ EXCEPT !.txn = "none", !.stmts = 0]
                                             ELSE Broken(c)]
    /\ task' = [task EXCEPT ![t].pc = "raised", ![t].durable = @ + conn[c].stmts]
    /\ UNCHANGED <<pool_queue_, late, opened, abandoned>>

\* async_rollback, by the user or in the catch block of async_exec.
Rollback(t, pc, next) ==
    LET c == task[t].conn IN
    /\ task[t].pc = pc /\ ~Bad(c)
    /\ conn' = [conn EXCEPT ![c].txn = "none", ![c].stmts = 0]
    /\ ReturnConnection(c)
    /\ task' = [task EXCEPT ![t].pc = next, ![t].conn = NoConn]
    /\ UNCHANGED <<late, opened, abandoned>>

\* The user catches the exception and goes on, once in a transaction (a bound).
GoOn(t) ==
    /\ task[t].pc = "raised" /\ ~task[t].caught
    /\ task' = [task EXCEPT ![t].pc = "ready", ![t].caught = TRUE]
    /\ UNCHANGED <<conn, pool_queue_, late, opened, abandoned>>

\* A defect: the destructor returns the connection in either mode.
DestroyReturns(t) ==
    /\ task[t].pc \in {"ready", "raised", "committed", "ended"}
    /\ task' = [task EXCEPT ![t] = NewTask]
    /\ IF task[t].conn = NoConn THEN UNCHANGED pool_queue_
                                ELSE ReturnConnection(task[t].conn)
    /\ UNCHANGED <<conn, late, opened, abandoned>>

\* ~Transaction: the connection is returned in autocommit mode and deleted,
\* with the server's transaction, in the other.
Destroy(t) ==
    LET c == task[t].conn IN
    /\ task[t].pc \in {"ready", "raised", "committed", "ended"}
    /\ task' = [task EXCEPT ![t] = NewTask]
    /\ \/ c = NoConn /\ UNCHANGED <<conn, pool_queue_>>
       \/ c # NoConn /\ task[t].mode = "on" /\ ReturnConnection(c) /\ UNCHANGED conn
       \/ c # NoConn /\ task[t].mode = "off" /\ UNCHANGED pool_queue_
          /\ conn' = [conn EXCEPT ![c] = Deleted(c)]
    /\ UNCHANGED <<late, opened, abandoned>>

\* pool_shrink_timer_handler, under pool_lock_: half of what exceeds the
\* average size, whatever that is.
Shrink ==
    \E n \in 1 .. Len(pool_queue_) \div 2 :
        /\ conn' = [c \in Conns |-> IF c \in Front(n) THEN Deleted(c) ELSE conn[c]]
        /\ pool_queue_' = SubSeq(pool_queue_, n + 1, Len(pool_queue_))
        /\ UNCHANGED <<task, late, opened, abandoned>>

\* ~Database, when the transactions are gone: no other is made.
CloseDatabase ==
    /\ \A t \in Tasks : task[t].pc = "idle"
    /\ conn' = [c \in Conns |-> IF c \in Front(Len(pool_queue_)) THEN Deleted(c) ELSE conn[c]]
    /\ pool_queue_' = <<>>
    /\ opened' = MaxTransactions
    /\ UNCHANGED <<task, late, abandoned>>

-----------------------------------------------------------------------------
User(t) ==
    \/ Open(t)
    \/ CallExec(t)
    \/ CallEnd(t, "commit")
    \/ CallEnd(t, "rollback")
    \/ GoOn(t)
    \/ Destroy(t)

Step(t) ==
    \/ GetPooled(t)
    \/ GetNew(t)
    \/ ConnectSucceeds(t)
    \/ ConnectFails(t)
    \/ ReassignThrows(t)
    \/ \E pc \in {"begin", "commit", "rollback", "undo"} : FailedCommand(t, pc)
    \/ Begin(t)
    \/ Exec(t)
    \/ ExecRefused(t)
    \/ ExecBad(t)
    \/ Commit(t)
    \/ CommitUnheard(t)
    \/ Rollback(t, "rollback", "ended")
    \/ Rollback(t, "undo", "raised")

Next ==
    \/ \E t \in Tasks : User(t) \/ Step(t) \/ TimerExpires(t)
    \/ \E c \in Conns : TimeoutHandler(c)
    \/ Shrink
    \/ CloseDatabase

Spec == Init /\ [][Next]_vars

\* The io_service's threads keep running the tasks.
FairSpec == Spec /\ \A t \in Tasks : WF_vars(Step(t))

-----------------------------------------------------------------------------
TypeOK ==
    /\ conn \in [Conns -> [object : {"none", "live", "deleted"},
                           pg : {"null", "ok", "bad"}, fd : BOOLEAN, timed : BOOLEAN,
                           txn : {"none", "open", "aborted"}, stmts : 0 .. MaxExecs]]
    /\ pool_queue_ \in Seq(Conns)
    /\ task \in [Tasks -> [pc : Waiting \cup {"idle", "ready", "get", "raised",
                                              "committed", "ended"},
                           mode : {"on", "off"}, conn : Conns \cup {NoConn},
                           execs : 0 .. MaxExecs, durable : 0 .. MaxExecs,
                           asked : BOOLEAN, caught : BOOLEAN]]
    /\ \A t \in Tasks : task[t].pc \in Waiting => task[t].conn # NoConn
    /\ late \subseteq Conns /\ abandoned \subseteq Conns
    /\ opened \in 0 .. MaxTransactions

Owners(c) ==
    {<<"task", t>> : t \in {t \in Tasks : task[t].conn = c}}
    \cup {<<"pool", i>> : i \in {i \in 1 .. Len(pool_queue_) : pool_queue_[i] = c}}

\* A connection belongs to one transaction or to one place of the pool, and
\* is not deleted while it does: no two coroutines use it at once, through
\* any order of exceptions, timeouts, returns and shrinking.  One that belongs
\* to nobody has been deleted, except what async_get_connection loses the
\* pointer to: a pooled connection whose timeout handler runs between its two
\* calls of status(), and a new one whose second attempt throws.  So a lost
\* one can not be used any more: no connection that works is forgotten
\* (transaction.cpp:49-68, 95-108, 143-144, 158-159; database.cpp:47-64, 72-83,
\* 111-115; connection.cpp:75, 362).
OneOwner ==
    /\ TypeOK
    /\ \A c \in Conns :
          /\ Cardinality(Owners(c)) <= 1
          /\ Owners(c) # {} => conn[c].object = "live"
          /\ conn[c].object = "live" /\ Owners(c) = {} => c \in abandoned /\ Bad(c)

\* No transaction of one user is open on a pooled connection, waiting for the
\* next (transaction.cpp:51-55).
PooledIsIdle ==
    \A i \in 1 .. Len(pool_queue_) : conn[pool_queue_[i]].txn = "none"

\* A commit that returns has made every statement of the transaction durable,
\* if the user stops at the first exception, as those of this repository do
\* (transaction.cpp:134-146, orderbook-queue-writer.cpp:52-71).
CommitKeepsAll ==
    \A t \in Tasks :
        task[t].pc = "committed" /\ ~task[t].caught =>
            task[t].durable = task[t].execs

\* Nothing of an explicit transaction lasts unless its COMMIT was sent, and
\* then all of it does, again if the user stops at the first exception
\* (transaction.cpp:74-81).
AllOrNothing ==
    \A t \in Tasks :
        task[t].mode = "off" /\ task[t].durable # 0 /\ ~task[t].caught =>
            task[t].asked /\ task[t].durable = task[t].execs

\* What settings.hpp:13 says: connection_timeout_msec is a timeout for
\* connection creation.  When it has occurred the creation comes to an end.
ConnectTimeoutEnds ==
    \A t \in Tasks :
        task[t].pc = "connect" /\ conn[task[t].conn].timed ~> task[t].pc # "connect"

=============================================================================
