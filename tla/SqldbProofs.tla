---------------------------- MODULE SqldbProofs -----------------------------
(***************************************************************************)
(* For any number of tasks, connections and transactions: a connection has *)
(* one owner, which is live, and none is forgotten but those that          *)
(* async_get_connection loses, which are of no use any more; pooled ones   *)
(* carry no transaction; and a                                             *)
(* transaction of a user who stops at the first exception is all or        *)
(* nothing, and all if its commit returned.                                *)
(***************************************************************************)
EXTENDS Sqldb, FiniteSetTheorems, SequenceTheorems, TLAPS

ConnRecords == [object : {"none", "live", "deleted"},
                pg : {"null", "ok", "bad"}, fd : BOOLEAN, timed : BOOLEAN,
                txn : {"none", "open", "aborted"}, stmts : 0 .. MaxExecs]

TaskRecords == [pc : Waiting \cup {"idle", "ready", "get", "raised", "committed", "ended"},
                mode : {"on", "off"}, conn : Conns \cup {NoConn},
                execs : 0 .. MaxExecs, durable : 0 .. MaxExecs,
                asked : BOOLEAN, caught : BOOLEAN]

Pooled(c) == \E i \in 1 .. Len(pool_queue_) : pool_queue_[i] = c

\* Pool and tasks hold different connections, and each of them one once.
OwnersApart ==
    /\ \A i, j \in 1 .. Len(pool_queue_) : pool_queue_[i] = pool_queue_[j] => i = j
    /\ \A s, t \in Tasks : task[s].conn = task[t].conn => s = t \/ task[s].conn = NoConn
    /\ \A t \in Tasks, i \in 1 .. Len(pool_queue_) : task[t].conn # pool_queue_[i]

\* What is owned is live, and what is live is owned or was dropped.
OwnedIsLive ==
    /\ \A i \in 1 .. Len(pool_queue_) : conn[pool_queue_[i]].object = "live"
    /\ \A t \in Tasks : task[t].conn # NoConn => conn[task[t].conn].object = "live"
    /\ \A c \in Conns : conn[c].object = "live" =>
          Pooled(c) \/ (\E t \in Tasks : task[t].conn = c) \/ c \in abandoned

\* The server's sessions: statements count in an open transaction only, and a
\* pooled connection has none.
Sessions ==
    /\ \A c \in Conns : conn[c].txn = "none" => conn[c].stmts = 0
    /\ \A i \in 1 .. Len(pool_queue_) : conn[pool_queue_[i]].txn = "none"

\* What a transaction has at each of its locations.
Shape(t) ==
    /\ task[t].pc = "idle" => task[t] = NewTask
    /\ task[t].pc = "get" => task[t].conn = NoConn
    /\ task[t].pc \in Waiting => task[t].conn # NoConn
    /\ task[t].pc \in {"begin", "undo", "commit", "rollback"} => task[t].mode = "off"
    /\ task[t].pc \in {"committed", "ended"} => task[t].conn = NoConn \/ task[t].mode = "on"
    /\ task[t].pc = "commit" => task[t].asked

\* A new connection has no transaction, and none is begun in autocommit mode.
Outside(t) ==
    task[t].conn # NoConn /\ (task[t].mode = "on" \/ task[t].pc \in {"connect", "begin"}) =>
        conn[task[t].conn].txn = "none"

\* Statements that count in the server's session of a task.
Pending(t) == IF task[t].conn = NoConn THEN 0 ELSE conn[task[t].conn].stmts

\* No statement counts twice, and there is room for the one under way.
Counted(t) ==
    /\ task[t].durable + Pending(t) <= task[t].execs
    /\ task[t].pc \in {"get", "connect", "begin", "exec"} => task[t].execs < MaxExecs
    /\ task[t].mode = "on" => task[t].durable = task[t].execs

\* An explicit transaction whose user has not gone on after an exception.
Pure(t) == task[t].mode = "off" /\ ~task[t].caught

Unused(t) == task[t].execs = 0 /\ task[t].durable = 0

\* All its statements count in the open transaction of its connection.
InTransaction(t) ==
    /\ conn[task[t].conn].txn = "open"
    /\ conn[task[t].conn].stmts = task[t].execs
    /\ task[t].durable = 0

Transacted(t) ==
    Pure(t) =>
        /\ task[t].pc \in {"get", "connect", "begin"} => Unused(t)
        /\ task[t].pc = "ready" /\ task[t].conn = NoConn => Unused(t)
        /\ task[t].pc = "ready" /\ task[t].conn # NoConn => InTransaction(t)
        /\ task[t].pc \in {"exec", "commit", "rollback"} => InTransaction(t)
        /\ task[t].pc \in {"undo", "ended"} => task[t].durable = 0
        /\ task[t].pc = "raised" =>
              task[t].durable = 0 \/ (task[t].asked /\ task[t].durable = task[t].execs)
        /\ task[t].pc = "committed" =>
              task[t].durable = task[t].execs /\ (task[t].durable # 0 => task[t].asked)

TaskInv(t) == Shape(t) /\ Outside(t) /\ Counted(t) /\ Transacted(t)

TypedConn == conn \in [Conns -> ConnRecords]

\* TypeOK, without what TaskInv says.
Typed ==
    /\ TypedConn
    /\ pool_queue_ \in Seq(Conns)
    /\ task \in [Tasks -> TaskRecords]
    /\ late \subseteq Conns /\ abandoned \subseteq Conns
    /\ opened \in 0 .. MaxTransactions

SqldbInv ==
    /\ Typed
    /\ OwnersApart
    /\ OwnedIsLive
    /\ Sessions
    /\ \A t \in Tasks : TaskInv(t)

-----------------------------------------------------------------------------
LEMMA TypesOfInv == SqldbInv => TypeOK
BY DEF SqldbInv, Typed, TypedConn, TaskInv, Shape, TypeOK, ConnRecords, TaskRecords

\* A set any two of whose elements are the same has one element at most.
LEMMA AtMostOne ==
  ASSUME NEW S, \A x, y \in S : x = y
  PROVE  Cardinality(S) <= 1
<1>1. CASE S = {}
  BY <1>1, FS_EmptySet
<1>2. CASE S # {}
  <2>1. PICK x \in S : TRUE
    BY <1>2
  <2>2. S = {x}
    BY <2>1
  <2>3. QED
    BY <2>2, FS_Singleton
<1>3. QED
  BY <1>1, <1>2

\* The invariant counts no owners: two owners of one connection are the same.
LEMMA OwnersOfOne ==
  ASSUME SqldbInv, NEW c \in Conns
  PROVE  Cardinality(Owners(c)) <= 1
<1>1. \A s, t \in Tasks : task[s].conn = c /\ task[t].conn = c => s = t
  BY NoConnAssumption DEF SqldbInv, OwnersApart
<1>2. \A i, j \in 1 .. Len(pool_queue_) : pool_queue_[i] = c /\ pool_queue_[j] = c => i = j
  BY DEF SqldbInv, OwnersApart
<1>3. \A t \in Tasks, i \in 1 .. Len(pool_queue_) : ~(task[t].conn = c /\ pool_queue_[i] = c)
  BY DEF SqldbInv, OwnersApart
<1>4. \A x, y \in Owners(c) : x = y
  BY <1>1, <1>2, <1>3 DEF Owners
<1>5. QED
  BY <1>4, AtMostOne

\* A task that a step leaves alone, with what the server knows of it.
Undisturbed(t) ==
    /\ task'[t] = task[t]
    /\ task[t].conn # NoConn => /\ conn'[task[t].conn].txn = conn[task[t].conn].txn
                                /\ conn'[task[t].conn].stmts = conn[task[t].conn].stmts

LEMMA UndisturbedTask ==
  ASSUME NEW t \in Tasks, TaskInv(t), Undisturbed(t)
  PROVE  TaskInv(t)'
<1>1. Shape(t)' /\ Outside(t)'
  BY DEF TaskInv, Undisturbed, Shape, Outside
<1>2. Counted(t)'
  BY DEF TaskInv, Undisturbed, Counted, Pending
<1>3. Transacted(t)'
  BY DEF TaskInv, Undisturbed, Shape, Transacted, Pure, Unused, InTransaction, Waiting
<1>4. QED
  BY <1>1, <1>2, <1>3 DEF TaskInv

\* A step of one task that touches no connection but its own.
LEMMA OtherTasks ==
  ASSUME SqldbInv, NEW t \in Tasks,
         \A s \in Tasks \ {t} : task'[s] = task[s],
         \A c \in Conns \ {task[t].conn} : conn'[c] = conn[c]
  PROVE  \A s \in Tasks \ {t} : TaskInv(s)'
<1> SUFFICES ASSUME NEW s \in Tasks \ {t} PROVE TaskInv(s)'
  OBVIOUS
<1>1. task[s].conn # NoConn => task[s].conn \in Conns \ {task[t].conn}
  BY DEF SqldbInv, Typed, TaskRecords, OwnersApart
<1>2. QED
  BY <1>1, UndisturbedTask DEF SqldbInv, Undisturbed

\* Steps that change no owner.
LEMMA OwnersKept ==
  ASSUME SqldbInv, UNCHANGED <<pool_queue_, abandoned>>,
         \A t \in Tasks : task'[t].conn = task[t].conn,
         \A c \in Conns : conn'[c].object = conn[c].object
  PROVE  OwnersApart' /\ OwnedIsLive'
<1>1. OwnersApart'
  BY DEF SqldbInv, OwnersApart
<1>2. \A i \in 1 .. Len(pool_queue_) : pool_queue_[i] \in Conns
  BY ElementOfSeq DEF SqldbInv, Typed
<1>3. \A t \in Tasks : task[t].conn \in Conns \cup {NoConn}
  BY DEF SqldbInv, Typed, TaskRecords
<1>4. OwnedIsLive'
  BY <1>2, <1>3 DEF SqldbInv, OwnedIsLive, Pooled
<1>5. QED
  BY <1>1, <1>4

\* A transaction returns its connection to the pool.
LEMMA OwnersReturn ==
  ASSUME SqldbInv, NEW t \in Tasks, task[t].conn # NoConn,
         ReturnConnection(task[t].conn), UNCHANGED abandoned,
         task'[t].conn = NoConn, \A s \in Tasks \ {t} : task'[s] = task[s],
         \A c \in Conns : conn'[c].object = conn[c].object
  PROVE  OwnersApart' /\ OwnedIsLive'
<1> DEFINE c == task[t].conn
           q == pool_queue_
<1>1. c \in Conns /\ \A s \in Tasks : task[s].conn \in Conns \cup {NoConn}
  BY DEF SqldbInv, Typed, TaskRecords
<1>2. \A i \in 1 .. Len(q) : q[i] \in Conns /\ q[i] # c
  BY ElementOfSeq DEF SqldbInv, Typed, OwnersApart
<1>3. /\ Len(q) \in Nat /\ Len(q') = Len(q) + 1
      /\ q'[Len(q) + 1] = c
      /\ \A i \in 1 .. Len(q) : q'[i] = q[i]
      /\ \A i \in 1 .. Len(q') : i = Len(q) + 1 \/ i \in 1 .. Len(q)
  BY <1>1 DEF SqldbInv, Typed, ReturnConnection
<1>4. \A s \in Tasks \ {t} : task[s].conn # c
  BY DEF SqldbInv, OwnersApart
<1> HIDE DEF c, q
<1>5. OwnersApart'
  <2>1. \A i, j \in 1 .. Len(q') : q'[i] = q'[j] => i = j
    BY <1>2, <1>3 DEF SqldbInv, OwnersApart, q
  <2>2. \A r, s \in Tasks : task'[r].conn = task'[s].conn => r = s \/ task'[r].conn = NoConn
    BY DEF SqldbInv, OwnersApart
  <2>3. ASSUME NEW s \in Tasks, NEW i \in 1 .. Len(q') PROVE task'[s].conn # q'[i]
    BY <1>1, <1>2, <1>3, <1>4, NoConnAssumption DEF SqldbInv, OwnersApart, q
  <2>4. QED
    BY <2>1, <2>2, <2>3 DEF OwnersApart, q
<1>6. OwnedIsLive'
  <2>1. \A d : Pooled(d) \/ d = c => Pooled(d)'
    BY <1>3 DEF Pooled, q
  <2>2. \A i \in 1 .. Len(q') : conn'[q'[i]].object = "live"
    BY <1>1, <1>2, <1>3 DEF SqldbInv, OwnedIsLive, c, q
  <2>3. \A s \in Tasks : task'[s].conn # NoConn => conn'[task'[s].conn].object = "live"
    BY <1>1 DEF SqldbInv, OwnedIsLive
  <2>4. ASSUME NEW d \in Conns, conn'[d].object = "live"
        PROVE  Pooled(d)' \/ (\E s \in Tasks : task'[s].conn = d) \/ d \in abandoned'
    BY <2>1, <2>4 DEF SqldbInv, OwnedIsLive, c
  <2>5. QED
    BY <2>2, <2>3, <2>4 DEF OwnedIsLive, q
<1>7. QED
  BY <1>5, <1>6

\* A transaction loses its connection: it is deleted, or dropped.
LEMMA OwnersLose ==
  ASSUME SqldbInv, NEW t \in Tasks, task[t].conn # NoConn,
         UNCHANGED pool_queue_,
         task'[t].conn = NoConn, \A s \in Tasks \ {t} : task'[s] = task[s],
         \A c \in Conns \ {task[t].conn} : conn'[c].object = conn[c].object,
         abandoned \subseteq abandoned',
         conn'[task[t].conn].object = "deleted" \/ task[t].conn \in abandoned'
  PROVE  OwnersApart' /\ OwnedIsLive'
<1>1. \A s \in Tasks : task[s].conn \in Conns \cup {NoConn}
  BY DEF SqldbInv, Typed, TaskRecords
<1>2. \A i \in 1 .. Len(pool_queue_) : pool_queue_[i] \in Conns \ {task[t].conn}
  BY ElementOfSeq DEF SqldbInv, Typed, OwnersApart
<1>3. \A s \in Tasks \ {t} : task[s].conn # task[t].conn
  BY DEF SqldbInv, OwnersApart
<1>4. OwnersApart'
  BY <1>2, NoConnAssumption DEF SqldbInv, OwnersApart
<1>5. \A i \in 1 .. Len(pool_queue_) : conn'[pool_queue_[i]].object = "live"
  BY <1>2 DEF SqldbInv, OwnedIsLive
<1>6. \A s \in Tasks : task'[s].conn # NoConn => conn'[task'[s].conn].object = "live"
  BY <1>1, <1>3 DEF SqldbInv, OwnedIsLive
<1>7. ASSUME NEW d \in Conns, conn'[d].object = "live"
      PROVE  Pooled(d)' \/ (\E s \in Tasks : task'[s].conn = d) \/ d \in abandoned'
  BY <1>7 DEF SqldbInv, OwnedIsLive, Pooled
<1>8. QED
  BY <1>4, <1>5, <1>6, <1>7 DEF OwnedIsLive

\* The front of the queue is taken off.
LEMMA Suffix ==
  ASSUME SqldbInv, NEW k \in 0 .. Len(pool_queue_),
         pool_queue_' = SubSeq(pool_queue_, k + 1, Len(pool_queue_))
  PROVE  /\ pool_queue_' \in Seq(Conns)
         /\ Len(pool_queue_') = Len(pool_queue_) - k
         /\ \A i \in 1 .. Len(pool_queue_') :
               i + k \in 1 .. Len(pool_queue_) /\ pool_queue_'[i] = pool_queue_[i + k]
         /\ \A j \in 1 .. Len(pool_queue_) :
               j <= k \/ (j - k \in 1 .. Len(pool_queue_') /\ pool_queue_'[j - k] = pool_queue_[j])
<1> DEFINE q == pool_queue_
<1>1. q \in Seq(Conns) /\ Len(q) \in Nat /\ \A i \in 1 .. Len(q) : q[i] \in Conns
  BY ElementOfSeq, LenProperties DEF SqldbInv, Typed
<1>2. k \in Nat /\ \A i \in (k + 1) .. Len(q) : q[i] \in Conns
  BY <1>1
<1> HIDE DEF q
<1>3. /\ SubSeq(q, k + 1, Len(q)) \in Seq(Conns)
      /\ Len(SubSeq(q, k + 1, Len(q))) = IF k + 1 <= Len(q) THEN Len(q) - (k + 1) + 1 ELSE 0
      /\ \A i \in 1 .. Len(q) - (k + 1) + 1 : SubSeq(q, k + 1, Len(q))[i] = q[k + 1 + i - 1]
  BY <1>1, <1>2, SubSeqProperties
<1>4. q' \in Seq(Conns) /\ Len(q') = Len(q) - k
  BY <1>1, <1>2, <1>3 DEF q
<1>5. ASSUME NEW i \in 1 .. Len(q')
      PROVE  i + k \in 1 .. Len(q) /\ q'[i] = q[i + k]
  <2>1. i \in 1 .. Len(q) - (k + 1) + 1 /\ k + 1 + i - 1 = i + k
    BY <1>1, <1>2, <1>4
  <2>2. q'[i] = q[k + 1 + i - 1]
    BY <1>3, <2>1 DEF q
  <2>3. QED
    BY <1>1, <1>2, <1>4, <2>1, <2>2
<1>6. ASSUME NEW j \in 1 .. Len(q), ~(j <= k)
      PROVE  j - k \in 1 .. Len(q') /\ q'[j - k] = q[j]
  <2>1. j - k \in 1 .. Len(q')
    BY <1>1, <1>2, <1>4, <1>6
  <2>2. q'[j - k] = q[(j - k) + k] /\ (j - k) + k = j
    BY <1>2, <1>5, <2>1
  <2>3. QED
    BY <2>1, <2>2
<1>7. QED
  BY <1>4, <1>5, <1>6 DEF q

\* Connections at the front of the queue are deleted or lost, and the next one
\* may go to a transaction that had none.
LEMMA OwnersShift ==
  ASSUME SqldbInv, NEW k \in 0 .. Len(pool_queue_), NEW dropped \in SUBSET Conns,
         pool_queue_' = SubSeq(pool_queue_, k + 1, Len(pool_queue_)),
         \A c \in dropped : \E j \in 1 .. k : pool_queue_[j] = c,
         \A j \in 1 .. k : pool_queue_[j] \in dropped \cup abandoned'
                              \/ \E t \in Tasks : task'[t].conn = pool_queue_[j],
         \A c \in Conns : IF c \in dropped THEN conn'[c].object = "deleted"
                                           ELSE conn'[c].object = conn[c].object,
         \A t \in Tasks :
            \/ task'[t].conn = task[t].conn
            \/ /\ task[t].conn = NoConn
               /\ \E j \in 1 .. k : pool_queue_[j] = task'[t].conn /\ task'[t].conn \notin dropped
               /\ \A s \in Tasks \ {t} : task'[s].conn = task[s].conn,
         abandoned \subseteq abandoned'
  PROVE  OwnersApart' /\ OwnedIsLive'
<1> DEFINE q == pool_queue_
<1>1. \A j \in 1 .. Len(q) : q[j] \in Conns
  BY ElementOfSeq DEF SqldbInv, Typed
<1>2. \A s \in Tasks : task[s].conn \in Conns \cup {NoConn}
  BY DEF SqldbInv, Typed, TaskRecords
<1>3. /\ Len(q') = Len(q) - k /\ Len(q) \in Nat
      /\ \A i \in 1 .. Len(q') : i + k \in 1 .. Len(q) /\ q'[i] = q[i + k]
      /\ \A j \in 1 .. Len(q) : j \in 1 .. k \/ (j - k \in 1 .. Len(q') /\ q'[j - k] = q[j])
      /\ \A j \in 1 .. k : j \in 1 .. Len(q)
  BY Suffix DEF SqldbInv, Typed
<1>4. \A i, j \in 1 .. Len(q) : q[i] = q[j] => i = j
  BY DEF SqldbInv, OwnersApart
<1>5. \A i \in 1 .. Len(q'), j \in 1 .. k : q'[i] # q[j]
  <2> SUFFICES ASSUME NEW i \in 1 .. Len(q'), NEW j \in 1 .. k, q[i + k] = q[j] PROVE FALSE
    BY <1>3
  <2>1. i + k = j
    BY <1>3, <1>4
  <2>2. QED
    BY <2>1
<1>6. \A s \in Tasks, j \in 1 .. k : task[s].conn # q[j]
  BY <1>3 DEF SqldbInv, OwnersApart
<1> HIDE DEF q
<1>7. OwnersApart'
  <2>1. ASSUME NEW i \in 1 .. Len(q'), NEW j \in 1 .. Len(q'), q'[i] = q'[j] PROVE i = j
    <3>1. i + k = j + k
      BY <1>3, <1>4, <2>1
    <3>2. QED
      BY <3>1
  <2>2. \A r, s \in Tasks : task'[r].conn = task'[s].conn => r = s \/ task'[r].conn = NoConn
    BY <1>6 DEF SqldbInv, OwnersApart, q
  <2>3. \A s \in Tasks, i \in 1 .. Len(q') : task'[s].conn # q'[i]
    BY <1>3, <1>5 DEF SqldbInv, OwnersApart, q
  <2>4. QED
    BY <2>1, <2>2, <2>3 DEF OwnersApart, q
<1>8. \A c \in dropped : ~Pooled(c)' /\ \A s \in Tasks : task'[s].conn # c
  <2> SUFFICES ASSUME NEW c \in dropped PROVE ~Pooled(c)' /\ \A s \in Tasks : task'[s].conn # c
    OBVIOUS
  <2>1. PICK j \in 1 .. k : q[j] = c
    BY DEF q
  <2>2. ~Pooled(c)'
    BY <1>5, <2>1 DEF Pooled, q
  <2>3. \A s \in Tasks : task'[s].conn # c
    BY <1>6, <2>1
  <2>4. QED
    BY <2>2, <2>3
<1>9. OwnedIsLive'
  <2>1. ASSUME NEW i \in 1 .. Len(q') PROVE conn'[q'[i]].object = "live"
    <3>1. q'[i] \in Conns \ dropped /\ q'[i] = q[i + k] /\ i + k \in 1 .. Len(q)
      BY <1>1, <1>3, <1>5 DEF q
    <3>2. QED
      BY <3>1 DEF SqldbInv, OwnedIsLive, q
  <2>2. ASSUME NEW s \in Tasks, task'[s].conn # NoConn PROVE conn'[task'[s].conn].object = "live"
    <3>1. CASE task'[s].conn = task[s].conn
      BY <1>2, <1>8, <2>2, <3>1 DEF SqldbInv, OwnedIsLive
    <3>2. CASE \E j \in 1 .. k : q[j] = task'[s].conn
      BY <1>1, <1>3, <1>8, <3>2 DEF SqldbInv, OwnedIsLive, q
    <3>3. QED
      BY <3>1, <3>2 DEF q
  <2>3. ASSUME NEW c \in Conns, conn'[c].object = "live"
        PROVE  Pooled(c)' \/ (\E s \in Tasks : task'[s].conn = c) \/ c \in abandoned'
    <3>1. c \notin dropped /\ conn[c].object = "live"
      BY <2>3
    <3>2. CASE Pooled(c)
      <4>1. PICK j \in 1 .. Len(q) : q[j] = c
        BY <3>2 DEF Pooled, q
      <4>2. QED
        BY <1>3, <3>1, <4>1 DEF Pooled, q
    <3>3. CASE \E s \in Tasks : task[s].conn = c
      BY <1>2, <3>3, NoConnAssumption
    <3>4. QED
      BY <3>1, <3>2, <3>3 DEF SqldbInv, OwnedIsLive
  <2>4. QED
    BY <2>1, <2>2, <2>3 DEF OwnedIsLive, q
<1>10. QED
  BY <1>7, <1>9

-----------------------------------------------------------------------------
LEMMA TaskTyped ==
  ASSUME SqldbInv, NEW t \in Tasks
  PROVE  /\ task[t] \in TaskRecords
         /\ task[t].conn # NoConn =>
               /\ task[t].conn \in Conns
               /\ conn[task[t].conn] \in ConnRecords
               /\ conn[task[t].conn].object = "live"
         /\ TaskInv(t)
BY DEF SqldbInv, Typed, TypedConn, TaskRecords, OwnedIsLive

\* A step of one task that touches no connection but its own, and leaves the
\* pool alone.
LEMMA SessionsKept ==
  ASSUME SqldbInv, NEW t \in Tasks, UNCHANGED pool_queue_,
         \A c \in Conns \ {task[t].conn} : conn'[c] = conn[c],
         LET c == task[t].conn IN c # NoConn /\ conn'[c].txn = "none" => conn'[c].stmts = 0
  PROVE  Sessions'
<1>1. \A i \in 1 .. Len(pool_queue_) : pool_queue_[i] \in Conns \ {task[t].conn}
  BY ElementOfSeq DEF SqldbInv, Typed, OwnersApart
<1>2. \A c \in Conns : c # task[t].conn \/ c # NoConn
  BY NoConnAssumption
<1>3. QED
  BY <1>1, <1>2 DEF SqldbInv, Sessions

LEMMA TaskStep ==
  ASSUME SqldbInv, NEW t \in Tasks, UNCHANGED <<pool_queue_, abandoned>>,
         \A s \in Tasks \ {t} : task'[s] = task[s],
         \A c \in Conns \ {task[t].conn} : conn'[c] = conn[c],
         task'[t].conn = task[t].conn,
         LET c == task[t].conn IN
            c # NoConn => /\ conn'[c].object = conn[c].object
                          /\ conn'[c].txn = "none" => conn'[c].stmts = 0,
         Typed', TaskInv(t)'
  PROVE  SqldbInv'
<1>1. Sessions'
  BY SessionsKept
<1>2. \A s \in Tasks : task'[s].conn = task[s].conn
  OBVIOUS
<1>3. \A c \in Conns : conn'[c].object = conn[c].object
  BY NoConnAssumption
<1>4. OwnersApart' /\ OwnedIsLive'
  BY <1>2, <1>3, OwnersKept
<1>5. \A s \in Tasks \ {t} : TaskInv(s)'
  BY OtherTasks
<1>6. QED
  BY <1>1, <1>4, <1>5 DEF SqldbInv

\* Steps that leave the connection alone.
LEMMA UserStep ==
  ASSUME SqldbInv, NEW t \in Tasks,
         \/ Open(t) \/ CallExec(t) \/ GoOn(t)
         \/ CallEnd(t, "commit") \/ CallEnd(t, "rollback")
  PROVE  SqldbInv'
<1>1. /\ task[t] \in TaskRecords /\ Shape(t) /\ Outside(t) /\ Counted(t) /\ Transacted(t)
  BY TaskTyped DEF TaskInv
<1>2. /\ task \in [Tasks -> TaskRecords]
      /\ UNCHANGED <<conn, pool_queue_, late, abandoned>>
      /\ \A s \in Tasks \ {t} : task'[s] = task[s]
  BY DEF SqldbInv, Typed, Open, CallExec, GoOn, CallEnd, Goto
<1>3. CASE Open(t)
  <2>1. PICK mode \in {"on", "off"} : task' = [task EXCEPT ![t].pc = "ready", ![t].mode = mode]
    BY <1>3 DEF Open
  <2>2. task[t] = NewTask /\ task'[t] = [NewTask EXCEPT !.pc = "ready", !.mode = mode]
    BY <1>1, <1>2, <1>3, <2>1 DEF Open, Shape
  <2>3. Typed'
    <3>1. task' \in [Tasks -> TaskRecords]
      BY <1>1, <1>2, <2>1 DEF TaskRecords
    <3>2. opened' \in 0 .. MaxTransactions
      BY <1>3, BoundsAssumption DEF SqldbInv, Typed, Open
    <3>3. QED
      BY <1>2, <3>1, <3>2 DEF SqldbInv, Typed, TypedConn
  <2>4. TaskInv(t)'
    BY <2>2, NoConnAssumption, BoundsAssumption
    DEF NewTask, TaskInv, Shape, Outside, Counted, Transacted, Pending, Pure, Unused, Waiting
  <2>5. task'[t].conn = task[t].conn
    BY <2>2 DEF NewTask
  <2>6. QED
    BY <1>2, <2>3, <2>4, <2>5, TaskStep DEF SqldbInv, Sessions, Typed, TaskRecords
<1>4. CASE CallExec(t)
  <2>1. task'[t] = [task[t] EXCEPT !.pc = IF task[t].conn = NoConn THEN "get" ELSE "exec"]
    BY <1>2, <1>4 DEF CallExec, Goto
  <2>2. Typed'
    BY <1>1, <1>2, <1>4 DEF SqldbInv, Typed, TypedConn, TaskRecords, CallExec, Goto, Waiting
  <2>3. Counted(t)'
    BY <1>1, <1>2, <1>4, <2>1, BoundsAssumption DEF TaskRecords, Counted, Pending, CallExec
  <2>4. Shape(t)' /\ Outside(t)' /\ Transacted(t)'
    BY <1>1, <1>2, <1>4, <2>1
    DEF TaskRecords, Shape, Outside, Transacted, Pure, Unused, InTransaction, CallExec, Waiting
  <2>5. QED
    BY <1>1, <1>2, <2>1, <2>2, <2>3, <2>4, TaskStep DEF SqldbInv, Sessions, Typed, TaskRecords, TaskInv
<1>5. CASE GoOn(t)
  <2>1. task'[t] = [task[t] EXCEPT !.pc = "ready", !.caught = TRUE]
    BY <1>1, <1>2, <1>5 DEF GoOn, TaskRecords
  <2>2. Typed'
    BY <1>1, <1>2, <1>5 DEF SqldbInv, Typed, TypedConn, TaskRecords, GoOn
  <2>3. Counted(t)'
    BY <1>1, <1>2, <1>5, <2>1 DEF TaskRecords, Counted, Pending
  <2>4. Shape(t)' /\ Outside(t)' /\ Transacted(t)'
    BY <1>1, <1>2, <1>5, <2>1
    DEF TaskRecords, Shape, Outside, Transacted, Pure, Waiting
  <2>5. QED
    BY <1>1, <1>2, <2>1, <2>2, <2>3, <2>4, TaskStep DEF SqldbInv, Sessions, Typed, TaskRecords, TaskInv
<1>6. ASSUME NEW pc \in {"commit", "rollback"}, CallEnd(t, pc) PROVE SqldbInv'
  <2>1. \/ /\ task[t].conn # NoConn /\ task[t].mode = "off"
           /\ task'[t] = [task[t] EXCEPT !.pc = pc, !.asked = @ \/ pc = "commit"]
        \/ /\ task[t].conn = NoConn \/ task[t].mode = "on"
           /\ task'[t] = [task[t] EXCEPT !.pc = IF pc = "commit" THEN "committed" ELSE "ended"]
    BY <1>1, <1>2, <1>6 DEF CallEnd, Goto, TaskRecords
  <2>2. task[t].pc = "ready" /\ opened' = opened
    BY <1>6 DEF CallEnd
  <2>3. Typed'
    <3>1. task' \in [Tasks -> TaskRecords]
      BY <1>1, <1>2, <1>6 DEF CallEnd, Goto, TaskRecords, Waiting
    <3>2. QED
      BY <1>2, <2>2, <3>1 DEF SqldbInv, Typed, TypedConn
  <2>4. Counted(t)'
    BY <1>1, <1>2, <1>6, <2>1, <2>2 DEF TaskRecords, Counted, Pending
  <2>5. Shape(t)' /\ Outside(t)'
    BY <1>1, <1>2, <1>6, <2>1, <2>2 DEF TaskRecords, Shape, Outside, Waiting
  <2>6. Transacted(t)'
    BY <1>1, <1>2, <1>6, <2>1, <2>2
    DEF TaskRecords, Transacted, Pure, Unused, InTransaction
  <2>7. QED
    BY <1>1, <1>2, <2>1, <2>3, <2>4, <2>5, <2>6, TaskStep DEF SqldbInv, Sessions, Typed, TaskRecords, TaskInv
<1>7. QED
  BY <1>3, <1>4, <1>5, <1>6

\* A command fails: it is refused, or the link breaks, or has broken.
LEMMA FailedStep ==
  ASSUME SqldbInv, NEW t \in Tasks, NEW pc \in {"begin", "commit", "rollback", "undo"},
         FailedCommand(t, pc)
  PROVE  SqldbInv'
<1> DEFINE c == task[t].conn
<1>1. /\ task[t] \in TaskRecords /\ Shape(t) /\ Outside(t) /\ Counted(t) /\ Transacted(t)
      /\ c \in Conns /\ conn[c] \in ConnRecords
  BY TaskTyped DEF TaskInv, Shape, FailedCommand, Waiting
<1>2. /\ task[t].pc = pc
      /\ task' = [task EXCEPT ![t].pc = "raised"]
      /\ task'[t] = [task[t] EXCEPT !.pc = "raised"]
      /\ \A s \in Tasks \ {t} : task'[s] = task[s]
      /\ UNCHANGED <<pool_queue_, late, opened, abandoned>>
  BY DEF SqldbInv, Typed, FailedCommand, Goto
<1>3. /\ \A d \in Conns \ {c} : conn'[d] = conn[d]
      /\ conn'[c] \in {conn[c], Refused(c), Broken(c)}
      /\ conn' = [conn EXCEPT ![c] = conn'[c]]
  BY <1>1 DEF SqldbInv, Typed, TypedConn, FailedCommand
<1>4. /\ conn'[c] \in ConnRecords /\ conn'[c].object = conn[c].object
      /\ conn'[c].txn = "none" => conn'[c].stmts = 0
      /\ conn'[c].stmts \in {conn[c].stmts, 0}
      /\ conn[c].txn = "none" => conn'[c].txn = "none"
  <2>1. conn[c].txn = "none" => conn[c].stmts = 0
    BY <1>1 DEF SqldbInv, Sessions
  <2>2. CASE conn'[c] = conn[c]
    BY <1>1, <2>1, <2>2
  <2>3. CASE conn'[c] = Refused(c)
    BY <1>1, <2>1, <2>3 DEF ConnRecords, Refused
  <2>4. CASE conn'[c] = Broken(c)
    <3>1. 0 \in 0 .. MaxExecs
      BY BoundsAssumption
    <3>2. /\ conn'[c].object = conn[c].object /\ conn'[c].txn = "none" /\ conn'[c].stmts = 0
          /\ conn'[c] \in ConnRecords
      BY <1>1, <2>4, <3>1 DEF ConnRecords, Broken
    <3>3. QED
      BY <3>2
  <2>5. QED
    BY <1>3, <2>2, <2>3, <2>4
<1>5. Typed'
  BY <1>1, <1>2, <1>3, <1>4 DEF SqldbInv, Typed, TypedConn, TaskRecords
<1>6. Counted(t)'
  BY <1>1, <1>2, <1>4 DEF TaskRecords, ConnRecords, Counted, Pending
<1>7. Shape(t)' /\ Outside(t)'
  BY <1>1, <1>2, <1>4 DEF TaskRecords, Shape, Outside, Waiting
<1>8. Transacted(t)'
  BY <1>1, <1>2 DEF TaskRecords, Transacted, Pure, Unused, InTransaction
<1>9. task'[t].conn = c
  BY <1>1, <1>2 DEF TaskRecords
<1>10. QED
  BY <1>2, <1>3, <1>4, <1>5, <1>6, <1>7, <1>8, <1>9, TaskStep DEF TaskInv

\* What a command leaves of the Transaction, r, and of its connection, k.
Effect(t, r, k) ==
    /\ r.mode = task[t].mode /\ r.caught = task[t].caught /\ r.asked = task[t].asked
    /\ r.conn = task[t].conn /\ k.object = conn[task[t].conn].object
    /\ k.txn = "none" => k.stmts = 0
    /\ r.pc \notin {"idle", "get", "committed", "ended"}
    /\ r.pc \in {"begin", "undo", "commit", "rollback"} => r.mode = "off"
    /\ r.pc = "commit" => r.asked
    /\ r.mode = "on" \/ r.pc \in {"connect", "begin"} => k.txn = "none"
    /\ r.durable + k.stmts <= r.execs
    /\ r.pc \in {"connect", "begin", "exec"} => r.execs < MaxExecs
    /\ r.mode = "on" => r.durable = r.execs
    /\ r.mode = "off" /\ ~r.caught =>
         /\ r.pc \in {"connect", "begin"} => r.execs = 0 /\ r.durable = 0
         /\ r.pc \in {"ready", "exec", "commit", "rollback"} =>
               k.txn = "open" /\ k.stmts = r.execs /\ r.durable = 0
         /\ r.pc = "undo" => r.durable = 0
         /\ r.pc = "raised" => r.durable = 0 \/ (r.asked /\ r.durable = r.execs)

\* A command of a task that succeeds, or ends in the catch block of async_exec.
LEMMA CommandStep ==
  ASSUME SqldbInv, NEW t \in Tasks, task[t].conn # NoConn,
         UNCHANGED <<pool_queue_, late, opened, abandoned>>,
         NEW r \in TaskRecords, task' = [task EXCEPT ![t] = r],
         NEW k \in ConnRecords, conn' = [conn EXCEPT ![task[t].conn] = k],
         Effect(t, r, k)
  PROVE  SqldbInv'
<1> DEFINE c == task[t].conn
<1>1. c \in Conns /\ conn \in [Conns -> ConnRecords] /\ task \in [Tasks -> TaskRecords]
  BY TaskTyped DEF SqldbInv, Typed, TypedConn
<1>2. /\ task'[t] = r /\ conn'[c] = k
      /\ \A s \in Tasks \ {t} : task'[s] = task[s]
      /\ \A d \in Conns \ {c} : conn'[d] = conn[d]
      /\ conn' \in [Conns -> ConnRecords] /\ task' \in [Tasks -> TaskRecords]
  BY <1>1
<1>3. Shape(t)' /\ Outside(t)'
  BY <1>2 DEF Effect, Shape, Outside
<1>4. Counted(t)'
  BY <1>2 DEF Effect, Counted, Pending
<1>5. Transacted(t)'
  BY <1>2 DEF Effect, Transacted, Pure, Unused, InTransaction
<1>6. Typed'
  BY <1>2 DEF SqldbInv, Typed, TypedConn
<1>7. QED
  BY <1>2, <1>3, <1>4, <1>5, <1>6, TaskStep DEF Effect, TaskInv

\* What the invariant says of a task that has a connection.
LEMMA OnConnection ==
  ASSUME SqldbInv, NEW t \in Tasks, task[t].conn # NoConn
  PROVE  LET r == task[t]
             k == conn[r.conn]
         IN  /\ r.conn \in Conns /\ r \in TaskRecords /\ k \in ConnRecords
             /\ r.execs \in Nat /\ r.durable \in Nat /\ k.stmts \in Nat
             /\ k.txn = "none" => k.stmts = 0
             /\ r.mode = "on" \/ r.pc \in {"connect", "begin"} => k.txn = "none"
             /\ r.durable + k.stmts <= r.execs /\ r.execs <= MaxExecs
             /\ r.pc \in {"connect", "begin", "exec"} => r.execs < MaxExecs
             /\ r.mode = "on" => r.durable = r.execs
             /\ r.pc \in {"begin", "undo", "commit", "rollback"} => r.mode = "off"
             /\ r.pc = "commit" => r.asked
             /\ r.mode = "off" /\ ~r.caught =>
                  /\ r.pc \in {"connect", "begin"} => r.execs = 0 /\ r.durable = 0
                  /\ r.pc \in {"ready", "exec", "commit", "rollback"} =>
                        k.txn = "open" /\ k.stmts = r.execs /\ r.durable = 0
<1>1. /\ task[t] \in TaskRecords /\ task[t].conn \in Conns /\ conn[task[t].conn] \in ConnRecords
      /\ TaskInv(t)
  BY TaskTyped
<1>2. /\ task[t].execs \in 0 .. MaxExecs /\ task[t].durable \in 0 .. MaxExecs
      /\ conn[task[t].conn].stmts \in 0 .. MaxExecs
  BY <1>1 DEF TaskRecords, ConnRecords
<1>3. conn[task[t].conn].txn = "none" => conn[task[t].conn].stmts = 0
  BY <1>1 DEF SqldbInv, Sessions
<1>4. QED
  BY <1>1, <1>2, <1>3, BoundsAssumption
  DEF TaskInv, Shape, Outside, Counted, Pending, Transacted, Pure, Unused, InTransaction

LEMMA ConnectStep ==
  ASSUME SqldbInv, NEW t \in Tasks, ConnectSucceeds(t) \/ ConnectFails(t)
  PROVE  SqldbInv'
<1> DEFINE c == task[t].conn
<1>1. task[t].pc = "connect" /\ c # NoConn
  BY TaskTyped DEF ConnectSucceeds, ConnectFails, TaskInv, Shape, Waiting
<1>2. c \in Conns /\ task \in [Tasks -> TaskRecords] /\ conn \in [Conns -> ConnRecords]
  BY <1>1, OnConnection DEF SqldbInv, Typed, TypedConn
<1>3. CASE ConnectSucceeds(t)
  <2> DEFINE r == [task[t] EXCEPT !.pc = IF task[t].mode = "off" THEN "begin" ELSE "exec"]
             k == [conn[c] EXCEPT !.pg = "ok", !.fd = TRUE]
  <2>1. task' = [task EXCEPT ![t] = r] /\ r.conn = c
    BY <1>2, <1>3 DEF ConnectSucceeds, WithConnection, TaskRecords
  <2>2. conn' = [conn EXCEPT ![c] = k]
    BY <1>2, <1>3 DEF ConnectSucceeds, ConnRecords
  <2>3. r \in TaskRecords
    BY <1>2 DEF TaskRecords, Waiting
  <2>4. k \in ConnRecords
    BY ZenonT(60), <1>2 DEF ConnRecords
  <2>5. /\ r.mode = task[t].mode /\ r.caught = task[t].caught /\ r.asked = task[t].asked
        /\ r.execs = task[t].execs /\ r.durable = task[t].durable
        /\ r.pc = IF task[t].mode = "off" THEN "begin" ELSE "exec"
        /\ k.object = conn[c].object /\ k.txn = conn[c].txn /\ k.stmts = conn[c].stmts
    BY <1>2 DEF TaskRecords, ConnRecords
  <2> HIDE DEF r, k
  <2>6. Effect(t, r, k)
    BY <1>1, <2>1, <2>5, OnConnection DEF Effect
  <2>7. QED
    BY <1>1, <1>3, <2>1, <2>2, <2>3, <2>4, <2>6, CommandStep DEF ConnectSucceeds
<1>4. CASE ConnectFails(t)
  <2>1. PICK assigned \in BOOLEAN : conn' = [conn EXCEPT ![c].pg = "bad", ![c].fd = assigned]
    BY <1>4 DEF ConnectFails
  <2> DEFINE k == [conn[c] EXCEPT !.pg = "bad", !.fd = assigned]
  <2>2. conn' = [conn EXCEPT ![c] = k]
    BY <1>2, <2>1 DEF ConnRecords
  <2>3. k \in ConnRecords
    BY ZenonT(60), <1>2 DEF ConnRecords
  <2>4. k.object = conn[c].object /\ k.txn = conn[c].txn /\ k.stmts = conn[c].stmts
    BY <1>2 DEF ConnRecords
  <2>5. task' = [task EXCEPT ![t] = task[t]]
    BY <1>2, <1>4 DEF ConnectFails
  <2> HIDE DEF k
  <2>6. Effect(t, task[t], k)
    BY <1>1, <2>4, OnConnection DEF Effect
  <2>7. task[t] \in TaskRecords
    BY <1>2
  <2>8. QED
    BY <1>1, <1>4, <2>2, <2>3, <2>5, <2>6, <2>7, CommandStep DEF ConnectFails
<1>5. QED
  BY <1>3, <1>4

LEMMA BeginStep ==
  ASSUME SqldbInv, NEW t \in Tasks, Begin(t)
  PROVE  SqldbInv'
<1> DEFINE c == task[t].conn
           r == [task[t] EXCEPT !.pc = "exec"]
           k == [conn[c] EXCEPT !.txn = "open", !.stmts = 0]
<1>1. task[t].pc = "begin" /\ c # NoConn
  BY TaskTyped DEF Begin, TaskInv, Shape, Waiting
<1>2. c \in Conns /\ task \in [Tasks -> TaskRecords] /\ conn \in [Conns -> ConnRecords]
  BY <1>1, OnConnection DEF SqldbInv, Typed, TypedConn
<1>3. task' = [task EXCEPT ![t] = r] /\ conn' = [conn EXCEPT ![c] = k]
  BY <1>2 DEF Begin, Goto, TaskRecords, ConnRecords
<1>4. r \in TaskRecords
  BY <1>2 DEF TaskRecords, Waiting
<1>5. 0 \in 0 .. MaxExecs
  BY BoundsAssumption
<1>6. k \in ConnRecords
  BY ZenonT(60), <1>2, <1>5 DEF ConnRecords
<1>7. /\ r.mode = task[t].mode /\ r.caught = task[t].caught /\ r.asked = task[t].asked
      /\ r.execs = task[t].execs /\ r.durable = task[t].durable
      /\ r.pc = "exec" /\ r.conn = c
      /\ k.object = conn[c].object /\ k.txn = "open" /\ k.stmts = 0
  BY <1>2 DEF TaskRecords, ConnRecords
<1> HIDE DEF r, k
<1>8. Effect(t, r, k)
  BY <1>1, <1>7, OnConnection DEF Effect
<1>9. QED
  BY <1>1, <1>3, <1>4, <1>6, <1>8, CommandStep DEF Begin

LEMMA ExecStep ==
  ASSUME SqldbInv, NEW t \in Tasks, Exec(t)
  PROVE  SqldbInv'
<1> DEFINE c == task[t].conn
           r == [task[t] EXCEPT !.pc = "ready", !.execs = @ + 1,
                                !.durable = IF conn[c].txn = "open" THEN @ ELSE @ + 1]
           k == [conn[c] EXCEPT !.stmts = IF conn[c].txn = "open" THEN @ + 1 ELSE @]
<1>1. task[t].pc = "exec" /\ c # NoConn
  BY TaskTyped DEF Exec, TaskInv, Shape, Waiting
<1>2. c \in Conns /\ task \in [Tasks -> TaskRecords] /\ conn \in [Conns -> ConnRecords]
  BY <1>1, OnConnection DEF SqldbInv, Typed, TypedConn
<1>3. task' = [task EXCEPT ![t] = r] /\ conn' = [conn EXCEPT ![c] = k]
  BY <1>2 DEF Exec, TaskRecords, ConnRecords
<1>4. /\ r.mode = task[t].mode /\ r.caught = task[t].caught /\ r.asked = task[t].asked
      /\ r.execs = task[t].execs + 1 /\ r.pc = "ready" /\ r.conn = c
      /\ r.durable = IF conn[c].txn = "open" THEN task[t].durable ELSE task[t].durable + 1
      /\ k.object = conn[c].object /\ k.txn = conn[c].txn
      /\ k.stmts = IF conn[c].txn = "open" THEN conn[c].stmts + 1 ELSE conn[c].stmts
  BY <1>2 DEF TaskRecords, ConnRecords
<1>5. /\ task[t].execs + 1 \in 0 .. MaxExecs
      /\ conn[c].txn = "open" => conn[c].stmts + 1 \in 0 .. MaxExecs
      /\ conn[c].txn # "open" => task[t].durable + 1 \in 0 .. MaxExecs
  BY <1>1, OnConnection, BoundsAssumption
<1>6. r \in TaskRecords
  BY <1>2, <1>5 DEF TaskRecords
<1>7. k \in ConnRecords
  BY <1>2, <1>5 DEF ConnRecords
<1>8. conn[c].txn \in {"none", "open"}
  BY <1>2 DEF Exec, ConnRecords
<1> HIDE DEF r, k
<1>9. /\ r.durable + k.stmts <= r.execs
      /\ r.mode = "on" => r.durable = r.execs
      /\ r.mode = "off" /\ ~r.caught => k.txn = "open" /\ k.stmts = r.execs /\ r.durable = 0
      /\ k.txn = "none" => k.stmts = 0
      /\ r.mode = "on" => k.txn = "none"
  BY <1>1, <1>4, <1>8, OnConnection
<1>10. Effect(t, r, k)
  BY <1>1, <1>4, <1>9, OnConnection DEF Effect
<1>11. QED
  BY <1>1, <1>3, <1>6, <1>7, <1>10, CommandStep DEF Exec

LEMMA ExecRefusedStep ==
  ASSUME SqldbInv, NEW t \in Tasks, ExecRefused(t)
  PROVE  SqldbInv'
<1> DEFINE c == task[t].conn
           r == [task[t] EXCEPT !.pc = IF task[t].mode = "off" THEN "undo" ELSE "raised"]
           k == [conn[c] EXCEPT !.txn = IF @ = "open" THEN "aborted" ELSE @]
<1>1. task[t].pc = "exec" /\ c # NoConn
  BY TaskTyped DEF ExecRefused, TaskInv, Shape, Waiting
<1>2. c \in Conns /\ task \in [Tasks -> TaskRecords] /\ conn \in [Conns -> ConnRecords]
  BY <1>1, OnConnection DEF SqldbInv, Typed, TypedConn
<1>3. task' = [task EXCEPT ![t] = r] /\ conn' = [conn EXCEPT ![c] = k]
  BY <1>2 DEF ExecRefused, Refused, Goto, TaskRecords, ConnRecords
<1>4. r \in TaskRecords
  BY <1>2 DEF TaskRecords, Waiting
<1>5. k \in ConnRecords
  BY <1>2 DEF ConnRecords
<1>6. /\ r.mode = task[t].mode /\ r.caught = task[t].caught /\ r.asked = task[t].asked
      /\ r.execs = task[t].execs /\ r.durable = task[t].durable
      /\ r.pc = (IF task[t].mode = "off" THEN "undo" ELSE "raised") /\ r.conn = c
      /\ k.object = conn[c].object /\ k.stmts = conn[c].stmts
      /\ k.txn = IF conn[c].txn = "open" THEN "aborted" ELSE conn[c].txn
  BY <1>2 DEF TaskRecords, ConnRecords
<1> HIDE DEF r, k
<1>7. Effect(t, r, k)
  BY <1>1, <1>6, OnConnection DEF Effect
<1>8. QED
  BY <1>1, <1>3, <1>4, <1>5, <1>7, CommandStep DEF ExecRefused

LEMMA CommitUnheardStep ==
  ASSUME SqldbInv, NEW t \in Tasks, CommitUnheard(t)
  PROVE  SqldbInv'
<1> DEFINE c == task[t].conn
           r == [task[t] EXCEPT !.pc = "raised", !.durable = @ + conn[c].stmts]
           k == IF Bad(c) THEN [conn[c] EXCEPT !.txn = "none", !.stmts = 0] ELSE Broken(c)
<1>1. task[t].pc = "commit" /\ c # NoConn
  BY TaskTyped DEF CommitUnheard, TaskInv, Shape, Waiting
<1>2. c \in Conns /\ task \in [Tasks -> TaskRecords] /\ conn \in [Conns -> ConnRecords]
  BY <1>1, OnConnection DEF SqldbInv, Typed, TypedConn
<1>3. task' = [task EXCEPT ![t] = r] /\ conn' = [conn EXCEPT ![c] = k]
  BY <1>2 DEF CommitUnheard, TaskRecords
<1>4. task[t].durable + conn[c].stmts \in 0 .. MaxExecs
  BY <1>1, OnConnection, BoundsAssumption
<1>5. r \in TaskRecords
  BY <1>2, <1>4 DEF TaskRecords
<1>6. /\ k \in ConnRecords
      /\ k.object = conn[c].object /\ k.txn = "none" /\ k.stmts = 0
  <2>1. conn[c] \in ConnRecords /\ 0 \in 0 .. MaxExecs
    BY <1>2, BoundsAssumption
  <2>2. CASE Bad(c)
    BY <2>1, <2>2 DEF ConnRecords
  <2>3. CASE ~Bad(c)
    BY <2>1, <2>3 DEF ConnRecords, Broken
  <2>4. QED
    BY <2>2, <2>3
<1>7. /\ r.mode = task[t].mode /\ r.caught = task[t].caught /\ r.asked = task[t].asked
      /\ r.execs = task[t].execs /\ r.durable = task[t].durable + conn[c].stmts
      /\ r.pc = "raised" /\ r.conn = c
  BY <1>2 DEF TaskRecords
<1> HIDE DEF r, k
<1>8. /\ r.durable + k.stmts <= r.execs
      /\ r.mode = "off" /\ ~r.caught => r.asked /\ r.durable = r.execs
      /\ r.mode = "off"
  BY <1>1, <1>6, <1>7, OnConnection
<1>9. Effect(t, r, k)
  BY <1>1, <1>6, <1>7, <1>8, OnConnection DEF Effect
<1>10. QED
  BY <1>1, <1>3, <1>5, <1>6, <1>9, CommandStep DEF CommitUnheard

-----------------------------------------------------------------------------
\* What holds of a task without a connection, where it may be.
Detached(r) ==
    /\ r.conn = NoConn
    /\ r.pc \in {"ready", "raised", "committed", "ended"}
    /\ r.durable <= r.execs
    /\ r.mode = "on" => r.durable = r.execs
    /\ r.mode = "off" /\ ~r.caught =>
         /\ r.pc = "ready" => r.execs = 0 /\ r.durable = 0
         /\ r.pc = "ended" => r.durable = 0
         /\ r.pc = "raised" => r.durable = 0 \/ (r.asked /\ r.durable = r.execs)
         /\ r.pc = "committed" => r.durable = r.execs /\ (r.durable # 0 => r.asked)

LEMMA DetachedTask ==
  ASSUME NEW t \in Tasks, task'[t] \in TaskRecords, Detached(task'[t])
  PROVE  TaskInv(t)'
<1>1. task'[t].durable \in Nat /\ task'[t].execs \in Nat
  BY BoundsAssumption DEF TaskRecords
<1>2. Shape(t)' /\ Outside(t)'
  BY DEF Detached, Shape, Outside, Waiting
<1>3. Counted(t)'
  BY <1>1 DEF Detached, Counted, Pending
<1>4. Transacted(t)'
  BY DEF Detached, Transacted, Pure, Unused, InTransaction
<1>5. QED
  BY <1>2, <1>3, <1>4 DEF TaskInv

\* A transaction loses its connection, which is deleted or dropped.
LEMMA LoseStep ==
  ASSUME SqldbInv, NEW t \in Tasks, task[t].conn # NoConn,
         NEW r \in TaskRecords, task' = [task EXCEPT ![t] = r], r.conn = NoConn,
         NEW k \in ConnRecords, conn' = [conn EXCEPT ![task[t].conn] = k],
         k.txn = "none" => k.stmts = 0,
         UNCHANGED <<pool_queue_, late, opened>>,
         abandoned \subseteq abandoned', abandoned' \subseteq Conns,
         k.object = "deleted" \/ task[t].conn \in abandoned',
         Detached(r) \/ r = NewTask
  PROVE  SqldbInv'
<1> DEFINE c == task[t].conn
<1>1. c \in Conns /\ task \in [Tasks -> TaskRecords] /\ conn \in [Conns -> ConnRecords]
  BY OnConnection DEF SqldbInv, Typed, TypedConn
<1>2. /\ task'[t] = r /\ conn'[c] = k
      /\ \A s \in Tasks \ {t} : task'[s] = task[s]
      /\ \A d \in Conns \ {c} : conn'[d] = conn[d]
      /\ conn' \in [Conns -> ConnRecords] /\ task' \in [Tasks -> TaskRecords]
  BY <1>1
<1>3. Typed'
  BY <1>2 DEF SqldbInv, Typed, TypedConn
<1>4. TaskInv(t)'
  <2>1. CASE Detached(r)
    BY <1>2, <2>1, DetachedTask
  <2>2. CASE r = NewTask
    BY <1>2, <2>2, BoundsAssumption
    DEF NewTask, TaskInv, Shape, Outside, Counted, Pending, Transacted, Pure, Waiting
  <2>3. QED
    BY <2>1, <2>2
<1>5. \A s \in Tasks \ {t} : TaskInv(s)'
  BY <1>2, OtherTasks
<1>6. Sessions'
  BY <1>2, SessionsKept
<1>7. OwnersApart' /\ OwnedIsLive'
  BY <1>2, OwnersLose
<1>8. QED
  BY <1>3, <1>4, <1>5, <1>6, <1>7 DEF SqldbInv

\* A transaction gives its connection back, outside any transaction of the
\* server.
LEMMA ReturnStep ==
  ASSUME SqldbInv, NEW t \in Tasks, task[t].conn # NoConn,
         NEW r \in TaskRecords, task' = [task EXCEPT ![t] = r], r.conn = NoConn,
         NEW k \in ConnRecords, conn' = [conn EXCEPT ![task[t].conn] = k],
         k.txn = "none" /\ k.stmts = 0 /\ k.object = conn[task[t].conn].object,
         ReturnConnection(task[t].conn), UNCHANGED <<late, opened, abandoned>>,
         Detached(r) \/ r = NewTask
  PROVE  SqldbInv'
<1> DEFINE c == task[t].conn
<1>1. c \in Conns /\ task \in [Tasks -> TaskRecords] /\ conn \in [Conns -> ConnRecords]
  BY OnConnection DEF SqldbInv, Typed, TypedConn
<1>2. /\ task'[t] = r /\ conn'[c] = k
      /\ \A s \in Tasks \ {t} : task'[s] = task[s]
      /\ \A d \in Conns \ {c} : conn'[d] = conn[d]
      /\ conn' \in [Conns -> ConnRecords] /\ task' \in [Tasks -> TaskRecords]
  BY <1>1
<1>3. /\ pool_queue_' \in Seq(Conns)
      /\ \A i \in 1 .. Len(pool_queue_') :
            pool_queue_'[i] = c \/ (i \in 1 .. Len(pool_queue_) /\ pool_queue_'[i] = pool_queue_[i])
  BY <1>1 DEF SqldbInv, Typed, ReturnConnection
<1>4. Typed'
  BY <1>2, <1>3 DEF SqldbInv, Typed, TypedConn
<1>5. TaskInv(t)'
  <2>1. CASE Detached(r)
    BY <1>2, <2>1, DetachedTask
  <2>2. CASE r = NewTask
    BY <1>2, <2>2, BoundsAssumption
    DEF NewTask, TaskInv, Shape, Outside, Counted, Pending, Transacted, Pure, Waiting
  <2>3. QED
    BY <2>1, <2>2
<1>6. \A s \in Tasks \ {t} : TaskInv(s)'
  BY <1>2, OtherTasks
<1>7. Sessions'
  <2>1. \A i \in 1 .. Len(pool_queue_) : pool_queue_[i] \in Conns
    BY ElementOfSeq DEF SqldbInv, Typed
  <2>2. \A d \in Conns : conn[d].txn = "none" => conn'[d].txn = "none"
    BY <1>2
  <2>3. QED
    BY <1>2, <1>3, <2>1, <2>2 DEF SqldbInv, Sessions
<1>8. \A d \in Conns : conn'[d].object = conn[d].object
  BY <1>2
<1>9. OwnersApart' /\ OwnedIsLive'
  BY <1>2, <1>8, OwnersReturn
<1>10. QED
  BY <1>4, <1>5, <1>6, <1>7, <1>9 DEF SqldbInv

LEMMA ReassignThrowsStep ==
  ASSUME SqldbInv, NEW t \in Tasks, ReassignThrows(t)
  PROVE  SqldbInv'
<1> DEFINE c == task[t].conn
           r == [task[t] EXCEPT !.pc = "raised", !.conn = NoConn]
<1>1. task[t].pc = "connect" /\ c # NoConn
  BY TaskTyped DEF ReassignThrows, TaskInv, Shape, Waiting
<1>2. c \in Conns /\ task \in [Tasks -> TaskRecords] /\ conn \in [Conns -> ConnRecords]
  BY <1>1, OnConnection DEF SqldbInv, Typed, TypedConn
<1>3. task' = [task EXCEPT ![t] = r] /\ r \in TaskRecords
  BY <1>2 DEF ReassignThrows, TaskRecords
<1>4. conn' = [conn EXCEPT ![c] = conn[c]]
  BY <1>2 DEF ReassignThrows
<1>5. /\ r.conn = NoConn /\ r.pc = "raised" /\ r.execs = task[t].execs
      /\ r.durable = task[t].durable /\ r.mode = task[t].mode /\ r.caught = task[t].caught
  BY <1>2 DEF TaskRecords
<1> HIDE DEF r
<1>6. Detached(r)
  BY <1>1, <1>5, OnConnection DEF Detached
<1>7. abandoned' \subseteq Conns /\ abandoned \subseteq abandoned' /\ c \in abandoned'
  BY <1>2 DEF SqldbInv, Typed, ReassignThrows
<1>8. conn[c].txn = "none" => conn[c].stmts = 0
  BY <1>1, OnConnection
<1>9. conn[c] \in ConnRecords
  BY <1>2
<1>10. QED
  BY <1>1, <1>3, <1>4, <1>5, <1>6, <1>7, <1>8, <1>9, LoseStep DEF ReassignThrows

LEMMA DeletedRecord ==
  ASSUME NEW c, conn[c] \in ConnRecords
  PROVE  /\ Deleted(c) \in ConnRecords
         /\ Deleted(c).object = "deleted"
         /\ Deleted(c).txn = "none" /\ Deleted(c).stmts = 0
<1>1. 0 \in 0 .. MaxExecs
  BY BoundsAssumption
<1>2. QED
  BY <1>1 DEF Deleted, ConnRecords

LEMMA ExecBadStep ==
  ASSUME SqldbInv, NEW t \in Tasks, ExecBad(t)
  PROVE  SqldbInv'
<1> DEFINE c == task[t].conn
           r == [task[t] EXCEPT !.pc = "raised", !.conn = NoConn]
<1>1. task[t].pc = "exec" /\ c # NoConn
  BY TaskTyped DEF ExecBad, TaskInv, Shape, Waiting
<1>2. c \in Conns /\ task \in [Tasks -> TaskRecords] /\ conn \in [Conns -> ConnRecords]
  BY <1>1, OnConnection DEF SqldbInv, Typed, TypedConn
<1>3. task' = [task EXCEPT ![t] = r] /\ r \in TaskRecords
  BY <1>2 DEF ExecBad, TaskRecords
<1>4. conn' = [conn EXCEPT ![c] = Deleted(c)]
  BY <1>2 DEF ExecBad
<1>5. /\ r.conn = NoConn /\ r.pc = "raised" /\ r.execs = task[t].execs
      /\ r.durable = task[t].durable /\ r.mode = task[t].mode /\ r.caught = task[t].caught
  BY <1>2 DEF TaskRecords
<1> HIDE DEF r
<1>6. Detached(r)
  BY <1>1, <1>5, OnConnection DEF Detached
<1>7. Deleted(c) \in ConnRecords /\ Deleted(c).object = "deleted" /\ Deleted(c).stmts = 0
  BY <1>2, DeletedRecord
<1>8. abandoned' \subseteq Conns /\ abandoned \subseteq abandoned'
  BY DEF SqldbInv, Typed, ExecBad
<1>9. QED
  BY <1>1, <1>3, <1>4, <1>5, <1>6, <1>7, <1>8, LoseStep DEF ExecBad

\* COMMIT, and ROLLBACK.
LEMMA CommitStep ==
  ASSUME SqldbInv, NEW t \in Tasks, Commit(t)
  PROVE  SqldbInv'
<1> DEFINE c == task[t].conn
           n == IF conn[c].txn = "open" THEN conn[c].stmts ELSE 0
           r == [task[t] EXCEPT !.pc = "committed", !.conn = NoConn, !.durable = @ + n]
           k == [conn[c] EXCEPT !.txn = "none", !.stmts = 0]
<1>1. task[t].pc = "commit" /\ c # NoConn
  BY TaskTyped DEF Commit, TaskInv, Shape, Waiting
<1>2. c \in Conns /\ task \in [Tasks -> TaskRecords] /\ conn \in [Conns -> ConnRecords]
  BY <1>1, OnConnection DEF SqldbInv, Typed, TypedConn
<1>3. task' = [task EXCEPT ![t] = r] /\ conn' = [conn EXCEPT ![c] = k]
  BY <1>2 DEF Commit, TaskRecords, ConnRecords
<1>4. task[t].durable + n \in 0 .. MaxExecs /\ 0 \in 0 .. MaxExecs
  BY <1>1, OnConnection, BoundsAssumption
<1>5. /\ r \in TaskRecords
      /\ r.conn = NoConn /\ r.pc = "committed" /\ r.execs = task[t].execs
      /\ r.durable = task[t].durable + n /\ r.mode = task[t].mode
      /\ r.caught = task[t].caught /\ r.asked = task[t].asked
  BY <1>2, <1>4 DEF TaskRecords
<1>6. /\ k \in ConnRecords
      /\ k.txn = "none" /\ k.stmts = 0 /\ k.object = conn[c].object
  BY ZenonT(60), <1>2, <1>4 DEF ConnRecords
<1> HIDE DEF r, k
<1>7. Detached(r)
  BY <1>1, <1>5, OnConnection DEF Detached
<1>8. QED
  BY <1>1, <1>3, <1>5, <1>6, <1>7, ReturnStep DEF Commit

LEMMA RollbackStep ==
  ASSUME SqldbInv, NEW t \in Tasks, NEW pc, NEW next, Rollback(t, pc, next),
         <<pc, next>> \in {<<"rollback", "ended">>, <<"undo", "raised">>}
  PROVE  SqldbInv'
<1> DEFINE c == task[t].conn
           r == [task[t] EXCEPT !.pc = next, !.conn = NoConn]
           k == [conn[c] EXCEPT !.txn = "none", !.stmts = 0]
<1>1. task[t].pc = pc /\ pc \in {"rollback", "undo"} /\ c # NoConn
  BY TaskTyped DEF Rollback, TaskInv, Shape, Waiting
<1>2. c \in Conns /\ task \in [Tasks -> TaskRecords] /\ conn \in [Conns -> ConnRecords]
  BY <1>1, OnConnection DEF SqldbInv, Typed, TypedConn
<1>3. task' = [task EXCEPT ![t] = r] /\ conn' = [conn EXCEPT ![c] = k]
  BY <1>2 DEF Rollback, TaskRecords, ConnRecords
<1>4. 0 \in 0 .. MaxExecs
  BY BoundsAssumption
<1>5. /\ r \in TaskRecords
      /\ r.conn = NoConn /\ r.pc = next /\ r.execs = task[t].execs
      /\ r.durable = task[t].durable /\ r.mode = task[t].mode
      /\ r.caught = task[t].caught /\ r.asked = task[t].asked
  BY <1>2 DEF TaskRecords
<1>6. /\ k \in ConnRecords
      /\ k.txn = "none" /\ k.stmts = 0 /\ k.object = conn[c].object
  BY ZenonT(60), <1>2, <1>4 DEF ConnRecords
<1> HIDE DEF r, k
<1>7. Detached(r)
  <2>1. task[t].mode = "off" /\ ~task[t].caught => task[t].durable = 0
    BY <1>1, TaskTyped DEF TaskInv, Transacted, Pure, InTransaction
  <2>2. QED
    BY <1>1, <1>5, <2>1, OnConnection DEF Detached
<1>8. QED
  BY <1>1, <1>3, <1>5, <1>6, <1>7, ReturnStep DEF Rollback

\* The destructor of a transaction.
LEMMA DestroyStep ==
  ASSUME SqldbInv, NEW t \in Tasks, Destroy(t)
  PROVE  SqldbInv'
<1> DEFINE c == task[t].conn
<1>1. /\ task[t] \in TaskRecords /\ TaskInv(t)
      /\ task \in [Tasks -> TaskRecords] /\ conn \in [Conns -> ConnRecords]
  BY TaskTyped DEF SqldbInv, Typed, TypedConn
<1>2. task' = [task EXCEPT ![t] = NewTask] /\ UNCHANGED <<late, opened, abandoned>>
  BY DEF Destroy
<1>3. NewTask \in TaskRecords /\ NewTask.conn = NoConn
  BY BoundsAssumption DEF NewTask, TaskRecords
<1>4. CASE c = NoConn
  <2>1. UNCHANGED <<conn, pool_queue_>>
    BY <1>4 DEF Destroy
  <2>2. /\ task'[t] = NewTask /\ \A s \in Tasks \ {t} : task'[s] = task[s]
        /\ task' \in [Tasks -> TaskRecords]
    BY <1>1, <1>2, <1>3
  <2>3. Typed'
    BY <1>2, <2>1, <2>2 DEF SqldbInv, Typed, TypedConn
  <2>4. TaskInv(t)'
    BY <2>2, BoundsAssumption
    DEF NewTask, TaskInv, Shape, Outside, Counted, Pending, Transacted, Pure, Waiting
  <2>5. task'[t].conn = task[t].conn
    BY <1>3, <1>4, <2>2
  <2>6. QED
    BY <1>2, <1>4, <2>1, <2>2, <2>3, <2>4, <2>5, TaskStep
<1>5. CASE c # NoConn /\ task[t].mode = "on"
  <2>1. ReturnConnection(c) /\ UNCHANGED conn
    BY <1>5 DEF Destroy
  <2>2. c \in Conns /\ conn[c] \in ConnRecords /\ conn[c].txn = "none" /\ conn[c].stmts = 0
    BY <1>5, OnConnection
  <2>3. conn' = [conn EXCEPT ![c] = conn[c]]
    BY <1>1, <2>1, <2>2
  <2>4. QED
    BY <1>2, <1>3, <1>5, <2>1, <2>2, <2>3, ReturnStep
<1>6. CASE c # NoConn /\ task[t].mode = "off"
  <2>1. conn' = [conn EXCEPT ![c] = Deleted(c)] /\ UNCHANGED pool_queue_
    BY <1>6 DEF Destroy
  <2>2. c \in Conns /\ conn[c] \in ConnRecords
    BY <1>6, OnConnection
  <2>3. Deleted(c) \in ConnRecords /\ Deleted(c).object = "deleted" /\ Deleted(c).stmts = 0
    BY <2>2, DeletedRecord
  <2>4. abandoned' \subseteq Conns /\ abandoned \subseteq abandoned'
    BY <1>2 DEF SqldbInv, Typed
  <2>5. QED
    BY <1>2, <1>3, <1>6, <2>1, <2>2, <2>3, <2>4, LoseStep
<1>7. QED
  BY <1>1, <1>4, <1>5, <1>6 DEF TaskRecords

-----------------------------------------------------------------------------
LEMMA TimedOutRecord ==
  ASSUME NEW c, conn[c] \in ConnRecords
  PROVE  /\ TimedOut(c) \in ConnRecords
         /\ TimedOut(c).timed /\ TimedOut(c).object = conn[c].object
         /\ TimedOut(c).txn = conn[c].txn /\ TimedOut(c).stmts = conn[c].stmts
<1>1. TimedOut(c) \in ConnRecords
  BY ZenonT(60) DEF TimedOut, ConnRecords
<1>2. QED
  BY <1>1 DEF TimedOut, ConnRecords

\* Connections are deleted, and the timeout handlers of others may run.
Cleared(dropped) ==
    /\ conn' = [c \in Conns |-> conn'[c]]
    /\ \A c \in Conns : IF c \in dropped THEN conn'[c] = Deleted(c)
                                         ELSE conn'[c] \in {conn[c], TimedOut(c)}

LEMMA ClearedRecords ==
  ASSUME SqldbInv, NEW dropped \in SUBSET Conns, Cleared(dropped)
  PROVE  /\ TypedConn'
         /\ \A c \in dropped : /\ conn'[c].object = "deleted"
                               /\ conn'[c].txn = "none" /\ conn'[c].stmts = 0
         /\ \A c \in Conns \ dropped : /\ conn'[c].object = conn[c].object
                                       /\ conn'[c].txn = conn[c].txn
                                       /\ conn'[c].stmts = conn[c].stmts
<1>1. \A c \in Conns : conn[c] \in ConnRecords
  BY DEF SqldbInv, Typed, TypedConn
<1>2. \A c \in dropped : conn'[c] = Deleted(c)
  BY DEF Cleared
<1>3. \A c \in Conns \ dropped : conn'[c] = conn[c] \/ conn'[c] = TimedOut(c)
  BY DEF Cleared
<1>4. \A c \in Conns : conn'[c] \in ConnRecords
  BY <1>1, <1>2, <1>3, DeletedRecord, TimedOutRecord
<1>5. TypedConn'
  BY <1>4 DEF TypedConn, Cleared
<1>6. QED
  BY <1>1, <1>2, <1>3, <1>5, DeletedRecord, TimedOutRecord

\* Steps that delete connections which no transaction has.
LEMMA PoolDeleted ==
  ASSUME SqldbInv, NEW dropped \in SUBSET Conns,
         \A s \in Tasks : task[s].conn \notin dropped,
         Cleared(dropped),
         NEW s \in Tasks, task'[s] = task[s]
  PROVE  TaskInv(s)'
<1>1. task[s].conn # NoConn => task[s].conn \in Conns \ dropped
  BY TaskTyped
<1>2. TaskInv(s)
  BY DEF SqldbInv
<1>3. Undisturbed(s)
  BY <1>1, ClearedRecords DEF Undisturbed
<1>4. QED
  BY <1>2, <1>3, UndisturbedTask

\* What becomes of the sessions when the front of the queue is taken off and
\* connections are deleted.
LEMMA SessionsShift ==
  ASSUME SqldbInv, NEW k \in 0 .. Len(pool_queue_), NEW dropped \in SUBSET Conns,
         pool_queue_' = SubSeq(pool_queue_, k + 1, Len(pool_queue_)),
         Cleared(dropped)
  PROVE  /\ Sessions' /\ TypedConn' /\ pool_queue_' \in Seq(Conns)
         /\ \A c \in Conns : IF c \in dropped THEN conn'[c].object = "deleted"
                                              ELSE conn'[c].object = conn[c].object
<1>1. /\ TypedConn'
      /\ \A c \in dropped : /\ conn'[c].object = "deleted"
                            /\ conn'[c].txn = "none" /\ conn'[c].stmts = 0
      /\ \A c \in Conns \ dropped : /\ conn'[c].object = conn[c].object
                                    /\ conn'[c].txn = conn[c].txn
                                    /\ conn'[c].stmts = conn[c].stmts
  BY ClearedRecords
<1>2. \A i \in 1 .. Len(pool_queue_') :
          /\ i + k \in 1 .. Len(pool_queue_) /\ pool_queue_'[i] = pool_queue_[i + k]
          /\ pool_queue_[i + k] \in Conns
  BY Suffix, ElementOfSeq DEF SqldbInv, Typed
<1>3. ASSUME NEW i \in 1 .. Len(pool_queue_') PROVE conn'[pool_queue_'[i]].txn = "none"
  <2>1. pool_queue_[i + k] \in Conns /\ conn[pool_queue_[i + k]].txn = "none"
    BY <1>2 DEF SqldbInv, Sessions
  <2>2. QED
    BY <1>1, <1>2, <2>1
<1>4. \A c \in Conns : conn'[c].txn = "none" => conn'[c].stmts = 0
  BY <1>1 DEF SqldbInv, Sessions
<1>5. pool_queue_' \in Seq(Conns)
  BY Suffix
<1>6. QED
  BY <1>1, <1>3, <1>4, <1>5 DEF Sessions

\* The whole queue goes, or its front half.
LEMMA FrontDeleted ==
  ASSUME SqldbInv, NEW k \in 0 .. Len(pool_queue_),
         pool_queue_' = SubSeq(pool_queue_, k + 1, Len(pool_queue_)),
         conn' = [c \in Conns |-> IF c \in Front(k) THEN Deleted(c) ELSE conn[c]],
         UNCHANGED <<task, late, abandoned>>, opened' \in 0 .. MaxTransactions
  PROVE  SqldbInv'
<1> DEFINE dropped == Front(k)
<1>1. \A j \in 1 .. k : j \in 1 .. Len(pool_queue_) /\ pool_queue_[j] \in Conns
  BY ElementOfSeq, LenProperties DEF SqldbInv, Typed
<1>2. dropped \in SUBSET Conns
  BY <1>1 DEF Front
<1>3. \A s \in Tasks : task[s].conn \notin dropped
  BY <1>1 DEF SqldbInv, OwnersApart, Front
<1>4. /\ \A c \in dropped : \E j \in 1 .. k : pool_queue_[j] = c
      /\ \A j \in 1 .. k : pool_queue_[j] \in dropped
  BY DEF Front
<1>5. Cleared(dropped)
  BY DEF Cleared
<1> HIDE DEF dropped
<1>6. /\ Sessions' /\ TypedConn' /\ pool_queue_' \in Seq(Conns)
      /\ \A c \in Conns : IF c \in dropped THEN conn'[c].object = "deleted"
                                           ELSE conn'[c].object = conn[c].object
  BY <1>2, <1>5, SessionsShift
<1>7. OwnersApart' /\ OwnedIsLive'
  <2>1. \A t \in Tasks : task'[t].conn = task[t].conn
    OBVIOUS
  <2>2. QED
    BY <1>2, <1>4, <1>6, <2>1, OwnersShift
<1>8. \A s \in Tasks : TaskInv(s)'
  BY <1>2, <1>3, <1>5, PoolDeleted
<1>9. Typed'
  BY <1>6 DEF SqldbInv, Typed
<1>10. QED
  BY <1>6, <1>7, <1>8, <1>9 DEF SqldbInv

LEMMA ShrinkStep ==
  ASSUME SqldbInv, Shrink
  PROVE  SqldbInv'
<1>1. PICK n \in 1 .. Len(pool_queue_) \div 2 :
          /\ conn' = [c \in Conns |-> IF c \in Front(n) THEN Deleted(c) ELSE conn[c]]
          /\ pool_queue_' = SubSeq(pool_queue_, n + 1, Len(pool_queue_))
          /\ UNCHANGED <<task, late, opened, abandoned>>
  BY DEF Shrink
<1>2. n \in 0 .. Len(pool_queue_)
  <2>1. Len(pool_queue_) \in Nat
    BY LenProperties DEF SqldbInv, Typed
  <2>2. QED
    BY <2>1
<1>3. UNCHANGED <<task, late, abandoned>> /\ opened' \in 0 .. MaxTransactions
  BY <1>1 DEF SqldbInv, Typed
<1>4. QED
  BY <1>1, <1>2, <1>3, FrontDeleted

\* The empty suffix of the queue.
LEMMA NoSuffix ==
  ASSUME SqldbInv
  PROVE  /\ Len(pool_queue_) \in 0 .. Len(pool_queue_)
         /\ <<>> = SubSeq(pool_queue_, Len(pool_queue_) + 1, Len(pool_queue_))
<1>1. pool_queue_ \in Seq(Conns) /\ Len(pool_queue_) \in Nat
  BY LenProperties DEF SqldbInv, Typed
<1>2. SubSeq(pool_queue_, Len(pool_queue_) + 1, Len(pool_queue_)) \in Seq(Conns)
      /\ Len(SubSeq(pool_queue_, Len(pool_queue_) + 1, Len(pool_queue_))) = 0
  BY <1>1, SubSeqProperties
<1>3. QED
  BY <1>1, <1>2, EmptySeq

LEMMA CloseStep ==
  ASSUME SqldbInv, CloseDatabase
  PROVE  SqldbInv'
<1> DEFINE k == Len(pool_queue_)
<1>1. conn' = [c \in Conns |-> IF c \in Front(k) THEN Deleted(c) ELSE conn[c]]
  BY DEF CloseDatabase
<1>2. k \in 0 .. Len(pool_queue_) /\ pool_queue_' = SubSeq(pool_queue_, k + 1, Len(pool_queue_))
  BY NoSuffix DEF CloseDatabase
<1>3. UNCHANGED <<task, late, abandoned>> /\ opened' \in 0 .. MaxTransactions
  BY BoundsAssumption DEF SqldbInv, Typed, CloseDatabase
<1> HIDE DEF k
<1>4. QED
  BY <1>1, <1>2, <1>3, FrontDeleted

\* async_get_connection finds a connection in the queue ...
LEMMA GetPooledStep ==
  ASSUME SqldbInv, NEW t \in Tasks, GetPooled(t)
  PROVE  SqldbInv'
<1>1. task[t].pc = "get" /\ UNCHANGED opened
  BY DEF GetPooled
<1>2. PICK n \in 1 .. Len(pool_queue_), slipped \in SUBSET late :
          /\ Passed(Front(n - 1), slipped)
          /\ pool_queue_' = SubSeq(pool_queue_, n + 1, Len(pool_queue_))
          /\ conn' = [c \in Conns |-> AfterPassing(c, Front(n - 1), slipped)]
          /\ WithConnection(t, pool_queue_[n])
  BY DEF GetPooled
<1> DEFINE dropped == Front(n - 1) \ slipped
           new == pool_queue_[n]
<1>3. slipped \subseteq Front(n - 1) /\ slipped \subseteq abandoned'
      /\ late' = late \ slipped /\ abandoned' = abandoned \cup slipped
  BY <1>2 DEF Passed
<1>4. /\ n \in Nat /\ Len(pool_queue_) \in Nat /\ n \in 0 .. Len(pool_queue_)
      /\ \A j \in 1 .. n : j \in 1 .. n - 1 \/ j = n
      /\ \A j \in 1 .. n - 1 : j \in 1 .. n /\ j # n
      /\ \A j \in 1 .. n : j \in 1 .. Len(pool_queue_)
  BY LenProperties DEF SqldbInv, Typed
<1>5. \A j \in 1 .. n : pool_queue_[j] \in Conns
  BY <1>4, ElementOfSeq DEF SqldbInv, Typed
<1>6. Front(n - 1) \in SUBSET Conns /\ new \in Conns /\ new # NoConn /\ new \notin Front(n - 1)
  BY <1>4, <1>5, NoConnAssumption DEF SqldbInv, OwnersApart, Front
<1>7. /\ \A s \in Tasks : task[s].conn \notin Front(n - 1)
      /\ \A c \in dropped : \E j \in 1 .. n : pool_queue_[j] = c
      /\ \A j \in 1 .. n : pool_queue_[j] \in Front(n - 1) \/ pool_queue_[j] = new
      /\ \E j \in 1 .. n : pool_queue_[j] = new
  BY <1>4 DEF SqldbInv, OwnersApart, Front
<1>8. /\ Cleared(dropped) /\ conn'[new] = conn[new]
      /\ dropped \in SUBSET Conns /\ new \notin dropped
      /\ \A s \in Tasks : task[s].conn \notin dropped
      /\ \A j \in 1 .. n : pool_queue_[j] \in dropped \cup abandoned' \/ pool_queue_[j] = new
      /\ abandoned \subseteq abandoned' /\ abandoned' \subseteq Conns /\ late' \subseteq Conns
  <2>1. Cleared(dropped)
    BY <1>3, <1>2 DEF Cleared, AfterPassing
  <2>2. conn'[new] = conn[new]
    BY <1>3, <1>2, <1>6 DEF AfterPassing
  <2>3. QED
    BY <1>3, <1>6, <1>7, <2>1, <2>2 DEF SqldbInv, Typed
<1>9. conn[new].txn = "none" /\ conn[new].stmts = 0
  BY <1>4, <1>6 DEF SqldbInv, Sessions
<1> HIDE DEF dropped, new
<1> DEFINE r == [task[t] EXCEPT !.conn = new,
                                !.pc = IF task[t].mode = "off" THEN "begin" ELSE "exec"]
<1>10. task[t] \in TaskRecords /\ TaskInv(t) /\ task[t].conn = NoConn
  BY <1>1, TaskTyped DEF TaskInv, Shape
<1>11. task' = [task EXCEPT ![t] = r] /\ r \in TaskRecords
  BY <1>2, <1>6, <1>10 DEF SqldbInv, Typed, WithConnection, TaskRecords, Waiting, new
<1>12. /\ r.conn = new /\ r.mode = task[t].mode /\ r.execs = task[t].execs
       /\ r.durable = task[t].durable /\ r.asked = task[t].asked /\ r.caught = task[t].caught
       /\ r.pc = IF r.mode = "off" THEN "begin" ELSE "exec"
       /\ r.mode \in {"on", "off"}
  BY <1>10 DEF TaskRecords
<1> HIDE DEF r
<1>13. /\ task'[t] = r /\ \A s \in Tasks \ {t} : task'[s] = task[s]
       /\ task' \in [Tasks -> TaskRecords]
  BY <1>11 DEF SqldbInv, Typed
<1>14. conn'[new].txn = "none" /\ conn'[new].stmts = 0
  BY <1>6, <1>8, <1>9
<1>15. TaskInv(t)'
  <2>1. /\ task[t].execs \in Nat /\ task[t].durable \in Nat
        /\ task[t].durable <= task[t].execs /\ task[t].execs < MaxExecs
        /\ task[t].mode = "on" => task[t].durable = task[t].execs
        /\ task[t].mode = "off" /\ ~task[t].caught => Unused(t)
    BY <1>1, <1>10, BoundsAssumption DEF TaskRecords, TaskInv, Counted, Pending, Transacted, Pure
  <2>2. Shape(t)' /\ Outside(t)'
    BY <1>6, <1>12, <1>13, <1>14 DEF Shape, Outside, Waiting
  <2>3. Counted(t)'
    BY <1>6, <1>12, <1>13, <1>14, <2>1 DEF Counted, Pending
  <2>4. Transacted(t)'
    BY <1>6, <1>12, <1>13, <2>1 DEF Transacted, Pure, Unused
  <2>5. QED
    BY <2>2, <2>3, <2>4 DEF TaskInv
<1>16. \A s \in Tasks \ {t} : TaskInv(s)'
  BY <1>8, <1>13, PoolDeleted
<1>17. /\ Sessions' /\ TypedConn' /\ pool_queue_' \in Seq(Conns)
       /\ \A c \in Conns : IF c \in dropped THEN conn'[c].object = "deleted"
                                            ELSE conn'[c].object = conn[c].object
  BY <1>2, <1>4, <1>6, <1>8, SessionsShift
<1>18. OwnersApart' /\ OwnedIsLive'
  <2>1. \A j \in 1 .. n : pool_queue_[j] \in dropped \cup abandoned'
                            \/ \E s \in Tasks : task'[s].conn = pool_queue_[j]
    BY <1>8, <1>12, <1>13
  <2>2. ASSUME NEW s \in Tasks
        PROVE  \/ task'[s].conn = task[s].conn
               \/ /\ task[s].conn = NoConn
                  /\ \E j \in 1 .. n : pool_queue_[j] = task'[s].conn /\ task'[s].conn \notin dropped
                  /\ \A u \in Tasks \ {s} : task'[u].conn = task[u].conn
    BY <1>6, <1>7, <1>8, <1>10, <1>12, <1>13
  <2>3. QED
    BY ZenonT(60), <1>2, <1>4, <1>7, <1>8, <1>17, <2>1, <2>2, OwnersShift
<1>19. Typed'
  BY <1>1, <1>8, <1>13, <1>17 DEF SqldbInv, Typed
<1>20. QED
  BY <1>15, <1>16, <1>17, <1>18, <1>19 DEF SqldbInv

\* ... or makes one, when there was none left to take.
LEMMA GetNewStep ==
  ASSUME SqldbInv, NEW t \in Tasks, GetNew(t)
  PROVE  SqldbInv'
<1> DEFINE Fresh == [NewConnection EXCEPT !.object = "live"]
           pooled == Front(Len(pool_queue_))
<1>1. task[t].pc = "get" /\ pool_queue_' = <<>> /\ UNCHANGED opened
  BY DEF GetNew
<1>2. PICK new \in Conns, slipped \in SUBSET late :
          /\ Passed(pooled, slipped)
          /\ conn[new].object = "none"
          /\ conn' = [c \in Conns |-> IF c = new THEN Fresh ELSE AfterPassing(c, pooled, slipped)]
          /\ task' = [task EXCEPT ![t].conn = new, ![t].pc = "connect"]
  BY DEF GetNew
<1>3. /\ \A c : c \in pooled <=> Pooled(c)
      /\ slipped \subseteq pooled /\ late' = late \ slipped /\ abandoned' = abandoned \cup slipped
  BY <1>2 DEF Passed, Pooled, Front
<1>4. late' \subseteq Conns /\ abandoned' \subseteq Conns /\ abandoned \subseteq abandoned'
  BY <1>3 DEF SqldbInv, Typed
<1>5. /\ Fresh \in ConnRecords
      /\ Fresh.object = "live" /\ Fresh.txn = "none" /\ Fresh.stmts = 0
  <2>1. 0 \in 0 .. MaxExecs
    BY BoundsAssumption
  <2>2. QED
    BY <2>1 DEF NewConnection, ConnRecords
<1> HIDE DEF Fresh, pooled
<1> DEFINE r == [task[t] EXCEPT !.conn = new, !.pc = "connect"]
<1>6. task[t] \in TaskRecords /\ TaskInv(t) /\ task[t].conn = NoConn /\ new # NoConn
  BY <1>1, TaskTyped, NoConnAssumption DEF TaskInv, Shape
<1>7. task' = [task EXCEPT ![t] = r] /\ r \in TaskRecords
  BY <1>2, <1>6 DEF SqldbInv, Typed, TaskRecords, Waiting
<1>8. /\ r.conn = new /\ r.mode = task[t].mode /\ r.execs = task[t].execs
      /\ r.durable = task[t].durable /\ r.asked = task[t].asked /\ r.caught = task[t].caught
      /\ r.pc = "connect"
  BY <1>6 DEF TaskRecords
<1> HIDE DEF r
<1>9. /\ task'[t] = r /\ \A s \in Tasks \ {t} : task'[s] = task[s]
      /\ task' \in [Tasks -> TaskRecords]
  BY <1>7 DEF SqldbInv, Typed
<1>10. /\ \A c \in Conns : conn[c] \in ConnRecords
       /\ \A c \in Conns \ {new} :
             /\ ~Pooled(c) => conn'[c] = conn[c]
             /\ Pooled(c) => conn'[c] = Deleted(c) \/ (conn'[c] = TimedOut(c) /\ c \in abandoned')
       /\ conn'[new] = Fresh
  <2>1. \A c \in Conns : conn[c] \in ConnRecords
    BY DEF SqldbInv, Typed, TypedConn
  <2>2. \A c \in Conns \ {new} : conn'[c] = AfterPassing(c, pooled, slipped)
    BY <1>2
  <2>3. QED
    BY <1>3, <1>2, <2>1, <2>2 DEF AfterPassing
<1>11. \A c \in Conns : /\ Deleted(c) \in ConnRecords /\ Deleted(c).object = "deleted"
                       /\ Deleted(c).stmts = 0
                       /\ TimedOut(c) \in ConnRecords
                       /\ TimedOut(c).txn = conn[c].txn /\ TimedOut(c).stmts = conn[c].stmts
  BY <1>10, DeletedRecord, TimedOutRecord
<1>12. Typed'
  <2>1. conn' \in [Conns -> ConnRecords]
    BY <1>2, <1>5, <1>10, <1>11
  <2>2. <<>> \in Seq(Conns)
    BY EmptySeq
  <2>3. QED
    BY <1>1, <1>9, <1>4, <2>1, <2>2 DEF SqldbInv, Typed, TypedConn
<1>13. Sessions'
  <2>1. \A c \in Conns : conn'[c].txn = "none" => conn'[c].stmts = 0
    BY <1>5, <1>10, <1>11 DEF SqldbInv, Sessions
  <2>2. Len(pool_queue_') = 0
    BY <1>1, EmptySeq
  <2>3. QED
    BY <2>1, <2>2 DEF Sessions
<1>14. \A s \in Tasks : task[s].conn # new /\ ~Pooled(task[s].conn)
  BY <1>2, TaskTyped, NoConnAssumption DEF SqldbInv, OwnersApart, Pooled
<1>15. \A s \in Tasks \ {t} : TaskInv(s)'
  <2> SUFFICES ASSUME NEW s \in Tasks \ {t} PROVE TaskInv(s)'
    OBVIOUS
  <2>1. task[s].conn # NoConn => task[s].conn \in Conns
    BY TaskTyped
  <2>2. Undisturbed(s)
    BY <1>9, <1>10, <1>14, <2>1 DEF Undisturbed
  <2>3. QED
    BY <2>2, UndisturbedTask DEF SqldbInv
<1>16. TaskInv(t)'
  <2>1. /\ task[t].execs \in Nat /\ task[t].durable \in Nat
        /\ task[t].durable <= task[t].execs /\ task[t].execs < MaxExecs
        /\ task[t].mode = "on" => task[t].durable = task[t].execs
        /\ task[t].mode = "off" /\ ~task[t].caught => Unused(t)
    BY <1>1, <1>6, BoundsAssumption DEF TaskRecords, TaskInv, Counted, Pending, Transacted, Pure
  <2>2. Shape(t)' /\ Outside(t)'
    BY <1>5, <1>6, <1>8, <1>9, <1>10 DEF Shape, Outside, Waiting
  <2>3. Counted(t)'
    BY <1>5, <1>6, <1>8, <1>9, <1>10, <2>1 DEF Counted, Pending
  <2>4. Transacted(t)'
    BY <1>6, <1>8, <1>9, <2>1 DEF Transacted, Pure, Unused
  <2>5. QED
    BY <2>2, <2>3, <2>4 DEF TaskInv
<1>17. OwnersApart'
  <2>1. Len(pool_queue_') = 0
    BY <1>1, EmptySeq
  <2>2. \A s, u \in Tasks : task'[s].conn = task'[u].conn => s = u \/ task'[s].conn = NoConn
    BY <1>6, <1>8, <1>9, <1>14 DEF SqldbInv, OwnersApart
  <2>3. QED
    BY <2>1, <2>2 DEF OwnersApart
<1>18. OwnedIsLive'
  <2>1. Len(pool_queue_') = 0
    BY <1>1, EmptySeq
  <2>2. ASSUME NEW s \in Tasks, task'[s].conn # NoConn PROVE conn'[task'[s].conn].object = "live"
    <3>1. CASE s = t
      BY <1>5, <1>8, <1>9, <1>10, <3>1
    <3>2. CASE s # t
      <4>1. task[s].conn \in Conns \ {new} /\ task'[s].conn = task[s].conn
            /\ conn[task[s].conn].object = "live"
        BY <1>9, <1>14, <2>2, <3>2, TaskTyped
      <4>2. QED
        BY <1>10, <1>14, <4>1
    <3>3. QED
      BY <3>1, <3>2
  <2>3. ASSUME NEW c \in Conns, conn'[c].object = "live"
        PROVE  (\E s \in Tasks : task'[s].conn = c) \/ c \in abandoned'
    <3>1. CASE c = new
      BY <1>8, <1>9, <3>1
    <3>2. CASE c # new
      <4>1. c \in abandoned' \/ (~Pooled(c) /\ conn[c].object = "live")
        BY <1>10, <1>11, <2>3, <3>2
      <4>2. (\E s \in Tasks : task[s].conn = c) \/ c \in abandoned'
        BY <1>4, <4>1 DEF SqldbInv, OwnedIsLive
      <4>3. \A s \in Tasks : task[s].conn = c => task'[s].conn = c
        BY <1>6, <1>9, NoConnAssumption
      <4>4. QED
        BY <4>2, <4>3
    <3>3. QED
      BY <3>1, <3>2
  <2>4. QED
    BY <2>1, <2>2, <2>3 DEF OwnedIsLive
<1>19. QED
  BY <1>12, <1>13, <1>15, <1>16, <1>17, <1>18 DEF SqldbInv

\* The timer of a command, and its handler.
LEMMA TimerStep ==
  ASSUME SqldbInv, NEW t \in Tasks, TimerExpires(t)
  PROVE  SqldbInv'
<1>1. task[t].conn \in Conns
  BY TaskTyped DEF TimerExpires, TaskInv, Shape
<1>2. Typed'
  BY <1>1 DEF SqldbInv, Typed, TypedConn, TimerExpires
<1>3. UNCHANGED <<conn, pool_queue_, task, abandoned>>
  BY DEF TimerExpires
<1>4. OwnersApart' /\ OwnedIsLive'
  BY <1>3, OwnersKept
<1>5. Sessions'
  BY <1>3 DEF SqldbInv, Sessions
<1>6. \A s \in Tasks : TaskInv(s)'
  BY <1>3, UndisturbedTask DEF SqldbInv, Undisturbed
<1>7. QED
  BY <1>2, <1>4, <1>5, <1>6 DEF SqldbInv

LEMMA TimeoutHandlerStep ==
  ASSUME SqldbInv, NEW c \in Conns, TimeoutHandler(c)
  PROVE  SqldbInv'
<1>1. UNCHANGED <<pool_queue_, task, opened, abandoned>> /\ late' \subseteq Conns
  BY DEF SqldbInv, Typed, TimeoutHandler
<1>2. conn \in [Conns -> ConnRecords]
  BY DEF SqldbInv, Typed, TypedConn
<1>3. conn' = conn \/ conn' = [conn EXCEPT ![c] = TimedOut(c)]
  BY DEF TimeoutHandler
<1>4. /\ \A d \in Conns : /\ conn'[d] \in ConnRecords /\ conn'[d].object = conn[d].object
                          /\ conn'[d].txn = conn[d].txn /\ conn'[d].stmts = conn[d].stmts
      /\ TypedConn'
  BY <1>2, <1>3, TimedOutRecord DEF TypedConn
<1>5. Typed'
  BY <1>1, <1>4 DEF SqldbInv, Typed
<1>6. OwnersApart' /\ OwnedIsLive'
  BY <1>1, <1>4, OwnersKept
<1>7. Sessions'
  <2>1. \A i \in 1 .. Len(pool_queue_) : pool_queue_[i] \in Conns
    BY ElementOfSeq DEF SqldbInv, Typed
  <2>2. QED
    BY <1>1, <1>4, <2>1 DEF SqldbInv, Sessions
<1>8. \A s \in Tasks : TaskInv(s)'
  BY <1>1, <1>4, TaskTyped, UndisturbedTask DEF Undisturbed
<1>9. QED
  BY <1>5, <1>6, <1>7, <1>8 DEF SqldbInv

-----------------------------------------------------------------------------
LEMMA SqldbInvInit == Init => SqldbInv
<1> SUFFICES ASSUME Init PROVE SqldbInv
  OBVIOUS
<1>1. 0 \in 0 .. MaxExecs /\ 0 \in 0 .. MaxTransactions /\ 0 + 0 <= 0
  BY BoundsAssumption
<1>2. NewConnection \in ConnRecords /\ NewTask \in TaskRecords
  BY <1>1 DEF NewConnection, ConnRecords, NewTask, TaskRecords
<1>3. Len(pool_queue_) = 0 /\ pool_queue_ \in Seq(Conns)
  BY EmptySeq DEF Init
<1>4. Typed
  BY <1>1, <1>2, <1>3 DEF Init, Typed, TypedConn
<1>5. OwnersApart /\ OwnedIsLive /\ Sessions
  BY <1>3 DEF Init, NewConnection, NewTask, OwnersApart, OwnedIsLive, Sessions
<1>6. \A t \in Tasks : TaskInv(t)
  BY <1>1 DEF Init, NewTask, TaskInv, Shape, Outside, Counted, Pending, Transacted, Pure, Waiting
<1>7. QED
  BY <1>4, <1>5, <1>6 DEF SqldbInv

LEMMA SqldbInvStep == SqldbInv /\ [Next]_vars => SqldbInv'
<1> SUFFICES ASSUME SqldbInv, [Next]_vars PROVE SqldbInv'
  OBVIOUS
<1>1. ASSUME NEW t \in Tasks, User(t) PROVE SqldbInv'
  BY <1>1, UserStep, DestroyStep DEF User
<1>2. ASSUME NEW t \in Tasks, Step(t) PROVE SqldbInv'
  <2>1. CASE Rollback(t, "rollback", "ended") \/ Rollback(t, "undo", "raised")
    BY <2>1, RollbackStep
  <2>2. CASE \E pc \in {"begin", "commit", "rollback", "undo"} : FailedCommand(t, pc)
    BY <2>2, FailedStep
  <2>3. QED
    BY <1>2, <2>1, <2>2, GetPooledStep, GetNewStep, ConnectStep, ReassignThrowsStep, BeginStep,
       ExecStep, ExecRefusedStep, ExecBadStep, CommitStep, CommitUnheardStep DEF Step
<1>3. ASSUME NEW t \in Tasks, TimerExpires(t) PROVE SqldbInv'
  BY <1>3, TimerStep
<1>4. ASSUME NEW c \in Conns, TimeoutHandler(c) PROVE SqldbInv'
  BY <1>4, TimeoutHandlerStep
<1>5. CASE Shrink \/ CloseDatabase
  BY <1>5, ShrinkStep, CloseStep
<1>6. CASE UNCHANGED vars
  <2>1. UNCHANGED <<conn, pool_queue_, task, late, opened, abandoned>>
    BY <1>6 DEF vars
  <2>2. Typed'
    BY <2>1 DEF SqldbInv, Typed, TypedConn
  <2>3. OwnersApart' /\ OwnedIsLive'
    BY <2>1, OwnersKept
  <2>4. Sessions'
    BY <2>1 DEF SqldbInv, Sessions
  <2>5. \A s \in Tasks : TaskInv(s)'
    BY <2>1, UndisturbedTask DEF SqldbInv, Undisturbed
  <2>6. QED
    BY <2>2, <2>3, <2>4, <2>5 DEF SqldbInv
<1>7. QED
  BY <1>1, <1>2, <1>3, <1>4, <1>5, <1>6 DEF Next

LEMMA SqldbInvAlways == Spec => []SqldbInv
BY SqldbInvInit, SqldbInvStep, PTL DEF Spec

-----------------------------------------------------------------------------
\* What async_get_connection has lost the pointer to: nobody has it, and it is
\* of no use any more.
Lost ==
    /\ \A c \in abandoned : Bad(c) /\ ~Pooled(c) /\ conn[c].object # "none"
    /\ \A t \in Tasks : task[t].conn \notin abandoned

\* A socket that is open while its connection is being made is that of an
\* attempt that failed.
Retrying(t) ==
    task[t].pc = "connect" /\ conn[task[t].conn].fd => conn[task[t].conn].pg = "bad"

LostInv == Lost /\ \A t \in Tasks : Retrying(t)

\* Connections of which nothing but their deletion or timeout happens.
LEMMA StaysBad ==
  ASSUME NEW c \in Conns, conn[c] \in ConnRecords,
         conn'[c] \in {conn[c], Deleted(c), TimedOut(c)}
  PROVE  /\ Bad(c) => Bad(c)'
         /\ conn[c].object # "none" => conn'[c].object # "none"
         /\ conn'[c].fd => conn[c].fd
         /\ conn'[c].pg = conn[c].pg
<1>1. CASE conn'[c] = conn[c]
  BY <1>1 DEF Bad
<1>2. CASE conn'[c] = Deleted(c)
  <2>1. /\ Deleted(c).object = "deleted" /\ Deleted(c).fd = conn[c].fd
        /\ Deleted(c).pg = conn[c].pg /\ Deleted(c).timed = conn[c].timed
    BY DEF Deleted, ConnRecords
  <2>2. QED
    BY <1>2, <2>1 DEF Bad
<1>3. CASE conn'[c] = TimedOut(c)
  <2>1. /\ TimedOut(c).object = conn[c].object /\ TimedOut(c).fd = FALSE
        /\ TimedOut(c).pg = conn[c].pg /\ TimedOut(c).timed = TRUE
    BY DEF TimedOut, ConnRecords
  <2>2. QED
    BY <1>3, <2>1 DEF Bad
<1>4. QED
  BY <1>1, <1>2, <1>3

\* A step of a transaction with no connection but its own, which it may give
\* up or return; while it makes it, it can only fail.
OwnStep(t) ==
    /\ \A c \in Conns \ {task[t].conn} : conn'[c] = conn[c]
    /\ \A s \in Tasks \ {t} : task'[s] = task[s]
    /\ task'[t].conn \in {NoConn, task[t].conn}
    /\ \/ pool_queue_' = pool_queue_
       \/ task[t].conn # NoConn /\ ReturnConnection(task[t].conn)
    /\ abandoned' = abandoned
    /\ task'[t].pc = "connect" => conn'[task[t].conn].pg = "bad" /\ task'[t].conn = task[t].conn

LEMMA LostOwnStep ==
  ASSUME SqldbInv, LostInv, NEW t \in Tasks, OwnStep(t)
  PROVE  LostInv'
<1>1. /\ \A c \in abandoned : c \in Conns /\ c # task[t].conn
      /\ \A s \in Tasks : task[s].conn \in Conns \cup {NoConn}
      /\ NoConn \notin abandoned
  BY NoConnAssumption DEF SqldbInv, Typed, TaskRecords, LostInv, Lost
<1>2. \A c \in abandoned : Pooled(c)' => Pooled(c)
  <2> SUFFICES ASSUME NEW c \in abandoned, NEW i \in 1 .. Len(pool_queue_'), pool_queue_'[i] = c
               PROVE  Pooled(c)
    BY DEF Pooled
  <2>1. CASE pool_queue_' = pool_queue_
    BY <2>1 DEF Pooled
  <2>2. CASE task[t].conn # NoConn /\ ReturnConnection(task[t].conn)
    <3>1. pool_queue_ \in Seq(Conns) /\ task[t].conn \in Conns
      BY <1>1, <2>2 DEF SqldbInv, Typed
    <3>2. pool_queue_'[i] = task[t].conn \/ (i \in 1 .. Len(pool_queue_) /\ pool_queue_'[i] = pool_queue_[i])
      BY <2>2, <3>1 DEF ReturnConnection
    <3>3. QED
      BY <1>1, <3>2 DEF Pooled
  <2>3. QED
    BY <2>1, <2>2 DEF OwnStep
<1>3. Lost'
  BY <1>1, <1>2 DEF OwnStep, LostInv, Lost, Bad
<1>4. ASSUME NEW s \in Tasks PROVE Retrying(s)'
  <2>1. CASE s = t
    BY <2>1 DEF OwnStep, Retrying
  <2>2. CASE s # t
    <3>1. task'[s] = task[s] /\ Retrying(s)
      BY <2>2 DEF OwnStep, LostInv
    <3>2. task[s].pc = "connect" => task[s].conn \in Conns \ {task[t].conn}
      BY <1>1, <2>2 DEF SqldbInv, OwnersApart, TaskInv, Shape, Waiting
    <3>3. QED
      BY <3>1, <3>2 DEF OwnStep, Retrying
  <2>3. QED
    BY <2>1, <2>2
<1>5. QED
  BY <1>3, <1>4 DEF LostInv

\* Steps of the pool and of handlers, which give no transaction a connection
\* that was lost.
PoolStep(lost) ==
    /\ \A c \in Conns : conn[c].object # "none" => conn'[c] \in {conn[c], Deleted(c), TimedOut(c)}
    /\ \A c \in Conns : Pooled(c)' => Pooled(c)
    /\ abandoned' = abandoned \cup lost
    /\ \A c \in lost : /\ c \in Conns /\ conn[c].object = "live" /\ Bad(c)' /\ ~Pooled(c)'
                       /\ \A t \in Tasks : task'[t].conn # c
    /\ \A t \in Tasks : \/ task'[t] = task[t]
                        \/ /\ task'[t].pc # "connect"
                           /\ Pooled(task'[t].conn) \/ task'[t].conn = NoConn
                        \/ /\ task'[t].conn \in Conns /\ conn[task'[t].conn].object = "none"
                           /\ ~conn'[task'[t].conn].fd

LEMMA LostPoolStep ==
  ASSUME SqldbInv, LostInv, NEW lost, PoolStep(lost)
  PROVE  LostInv'
<1>1. /\ \A c \in Conns : conn[c] \in ConnRecords
      /\ abandoned \subseteq Conns /\ NoConn \notin Conns
      /\ \A t \in Tasks : task[t].conn \in Conns \cup {NoConn}
  BY NoConnAssumption DEF SqldbInv, Typed, TypedConn, TaskRecords
<1>2. \A c \in Conns : conn[c].object # "none" =>
         /\ Bad(c) => Bad(c)'
         /\ conn'[c].object # "none"
         /\ conn'[c].fd => conn[c].fd
         /\ conn'[c].pg = conn[c].pg
  BY <1>1, StaysBad DEF PoolStep
<1>3. \A c \in abandoned' : Bad(c)' /\ ~Pooled(c)' /\ conn'[c].object # "none"
  BY <1>1, <1>2 DEF PoolStep, LostInv, Lost
<1>4. \A t \in Tasks : task'[t].conn \notin abandoned'
  BY <1>1 DEF PoolStep, LostInv, Lost
<1>5. ASSUME NEW t \in Tasks PROVE Retrying(t)'
  <2>1. CASE task'[t] = task[t]
    <3>1. task[t].pc = "connect" => task[t].conn \in Conns /\ conn[task[t].conn].object # "none"
      BY TaskTyped DEF TaskInv, Shape, Waiting
    <3>2. QED
      BY <1>2, <2>1, <3>1 DEF LostInv, Retrying
  <2>2. CASE task'[t] # task[t]
    BY <2>2 DEF PoolStep, Retrying
  <2>3. QED
    BY <2>1, <2>2
<1>6. QED
  BY <1>3, <1>4, <1>5 DEF LostInv, Lost

LEMMA LostInvInit == Init => LostInv
BY DEF Init, LostInv, Lost, Retrying, NewTask

LEMMA OwnSteps ==
  ASSUME SqldbInv, NEW t \in Tasks,
         \/ User(t)
         \/ ConnectSucceeds(t) \/ ConnectFails(t) \/ Begin(t) \/ Exec(t) \/ ExecRefused(t)
         \/ ExecBad(t) \/ Commit(t) \/ CommitUnheard(t)
         \/ \E pc \in {"begin", "commit", "rollback", "undo"} : FailedCommand(t, pc)
         \/ Rollback(t, "rollback", "ended") \/ Rollback(t, "undo", "raised")
  PROVE  OwnStep(t)
<1>1. /\ task \in [Tasks -> TaskRecords] /\ task[t] \in TaskRecords
      /\ conn \in [Conns -> ConnRecords]
      /\ task[t].pc \in Waiting => task[t].conn \in Conns /\ conn[task[t].conn] \in ConnRecords
      /\ task[t].conn # NoConn => task[t].conn \in Conns
  BY TaskTyped DEF SqldbInv, Typed, TypedConn, TaskInv, Shape
<1>2. CASE ConnectFails(t)
  <2>1. PICK assigned \in BOOLEAN :
            conn' = [conn EXCEPT ![task[t].conn].pg = "bad", ![task[t].conn].fd = assigned]
    BY <1>2 DEF ConnectFails
  <2>2. conn'[task[t].conn].pg = "bad"
    BY <1>1, <1>2, <2>1 DEF ConnectFails, Waiting, ConnRecords
  <2>3. QED
    BY <1>1, <1>2, <2>1, <2>2 DEF ConnectFails, OwnStep, Waiting
<1>3. CASE Open(t) \/ CallExec(t) \/ GoOn(t) \/ CallEnd(t, "commit") \/ CallEnd(t, "rollback")
  BY <1>1, <1>3 DEF Open, CallExec, GoOn, CallEnd, Goto, OwnStep, TaskRecords
<1>4. CASE Destroy(t)
  BY <1>1, <1>4 DEF Destroy, NewTask, OwnStep
<1>5. CASE ConnectSucceeds(t)
  BY <1>1, <1>5 DEF ConnectSucceeds, WithConnection, OwnStep, TaskRecords
<1>6. CASE Begin(t) \/ Exec(t) \/ ExecRefused(t) \/ CommitUnheard(t)
  BY <1>1, <1>6 DEF Begin, Exec, ExecRefused, CommitUnheard, Goto, OwnStep, TaskRecords
<1>7. CASE ExecBad(t)
  BY <1>1, <1>7 DEF ExecBad, OwnStep, TaskRecords
<1>8. CASE Commit(t)
  BY <1>1, <1>8, NoConnAssumption DEF Commit, OwnStep, TaskRecords, Waiting
<1>9. ASSUME NEW pc \in {"begin", "commit", "rollback", "undo"}, FailedCommand(t, pc)
      PROVE  OwnStep(t)
  BY <1>1, <1>9 DEF FailedCommand, Goto, OwnStep, TaskRecords
<1>10. CASE Rollback(t, "rollback", "ended") \/ Rollback(t, "undo", "raised")
  BY <1>1, <1>10, NoConnAssumption DEF Rollback, OwnStep, TaskRecords, Waiting
<1>11. QED
  BY <1>2, <1>3, <1>4, <1>5, <1>6, <1>7, <1>8, <1>9, <1>10 DEF User

\* The attempt after one that failed throws: the connection is lost, and bad.
LEMMA LostReassignThrows ==
  ASSUME SqldbInv, LostInv, NEW t \in Tasks, ReassignThrows(t)
  PROVE  LostInv'
<1> DEFINE c == task[t].conn
<1>1. /\ task \in [Tasks -> TaskRecords] /\ task[t] \in TaskRecords /\ task[t].pc = "connect"
      /\ c \in Conns /\ conn[c].object = "live" /\ conn[c].pg = "bad"
      /\ ~Pooled(c) /\ \A s \in Tasks \ {t} : task[s].conn # c
  BY TaskTyped DEF SqldbInv, Typed, OwnersApart, Pooled, TaskInv, Shape, Waiting, ReassignThrows,
                   LostInv, Retrying
<1>2. /\ UNCHANGED <<conn, pool_queue_>> /\ abandoned' = abandoned \cup {c}
      /\ task'[t].conn = NoConn /\ task'[t].pc = "raised"
      /\ \A s \in Tasks \ {t} : task'[s] = task[s]
  BY <1>1 DEF ReassignThrows, TaskRecords
<1> HIDE DEF c
<1>3. PoolStep({c})
  BY <1>1, <1>2, NoConnAssumption DEF PoolStep, Pooled, Bad
<1>4. QED
  BY <1>3, LostPoolStep

LEMMA LostGetPooled ==
  ASSUME SqldbInv, LostInv, NEW t \in Tasks, GetPooled(t)
  PROVE  LostInv'
<1>1. PICK n \in 1 .. Len(pool_queue_), slipped \in SUBSET late :
          /\ Passed(Front(n - 1), slipped)
          /\ pool_queue_' = SubSeq(pool_queue_, n + 1, Len(pool_queue_))
          /\ conn' = [c \in Conns |-> AfterPassing(c, Front(n - 1), slipped)]
          /\ WithConnection(t, pool_queue_[n])
  BY DEF GetPooled
<1>2. /\ n \in 0 .. Len(pool_queue_) /\ n \in Nat
      /\ \A j \in 1 .. n : j \in 1 .. Len(pool_queue_)
      /\ \A j \in 1 .. n - 1 : j \in 1 .. n /\ j # n
  BY LenProperties DEF SqldbInv, Typed
<1>3. \A i \in 1 .. Len(pool_queue_') :
          /\ i + n \in 1 .. Len(pool_queue_) /\ pool_queue_'[i] = pool_queue_[i + n]
          /\ \A j \in 1 .. n : i + n # j
  BY <1>1, <1>2, Suffix
<1>4. \A c : Pooled(c)' => Pooled(c) /\ c \notin Front(n)
  <2> SUFFICES ASSUME NEW i \in 1 .. Len(pool_queue_'), NEW j \in 1 .. n
               PROVE  Pooled(pool_queue_'[i]) /\ pool_queue_'[i] # pool_queue_[j]
    BY DEF Pooled, Front
  <2>1. \A k, l \in 1 .. Len(pool_queue_) : pool_queue_[k] = pool_queue_[l] => k = l
    BY DEF SqldbInv, OwnersApart
  <2>2. QED
    BY <1>2, <1>3, <2>1 DEF Pooled
<1>5. \A c \in Front(n) : c \in Conns /\ conn[c].object = "live" /\ \A s \in Tasks : task[s].conn # c
  BY <1>2, ElementOfSeq DEF SqldbInv, Typed, OwnersApart, OwnedIsLive, Front
<1>6. slipped \subseteq Front(n - 1) /\ Front(n - 1) \subseteq Front(n)
      /\ abandoned' = abandoned \cup slipped
  BY <1>1, <1>2 DEF Passed, Front
<1>7. \A c \in Conns : conn'[c] \in {conn[c], Deleted(c), TimedOut(c)}
  BY <1>1 DEF AfterPassing
<1>8. \A c \in slipped : Bad(c)'
  <2> SUFFICES ASSUME NEW c \in slipped PROVE Bad(c)'
    OBVIOUS
  <2>1. c \in Conns /\ conn[c] \in ConnRecords
    BY <1>5, <1>6 DEF SqldbInv, Typed, TypedConn
  <2>2. conn'[c] = TimedOut(c)
    BY <1>1, <2>1 DEF AfterPassing
  <2>3. QED
    BY <2>1, <2>2, TimedOutRecord DEF Bad
<1>9. /\ \A s \in Tasks \ {t} : task'[s] = task[s]
      /\ task'[t].conn = pool_queue_[n] /\ task'[t].pc # "connect"
  <2>1. task \in [Tasks -> TaskRecords] /\ task[t] \in TaskRecords
    BY TaskTyped DEF SqldbInv, Typed
  <2>2. QED
    BY <1>1, <2>1 DEF WithConnection, TaskRecords
<1>10. Pooled(pool_queue_[n]) /\ pool_queue_[n] \notin Front(n - 1)
  BY <1>2 DEF SqldbInv, OwnersApart, Pooled, Front
<1>11. PoolStep(slipped)
  <2>1. \A c \in slipped : /\ c \in Conns /\ conn[c].object = "live" /\ Bad(c)' /\ ~Pooled(c)'
                            /\ \A s \in Tasks : task'[s].conn # c
    BY <1>4, <1>5, <1>6, <1>8, <1>9, <1>10
  <2>2. QED
    BY <1>4, <1>6, <1>7, <1>9, <1>10, <2>1 DEF PoolStep
<1>12. QED
  BY <1>11, LostPoolStep

LEMMA LostGetNew ==
  ASSUME SqldbInv, LostInv, NEW t \in Tasks, GetNew(t)
  PROVE  LostInv'
<1> DEFINE pooled == Front(Len(pool_queue_))
           Fresh == [NewConnection EXCEPT !.object = "live"]
<1>1. PICK new \in Conns, slipped \in SUBSET late :
          /\ Passed(pooled, slipped)
          /\ conn[new].object = "none"
          /\ conn' = [c \in Conns |-> IF c = new THEN Fresh ELSE AfterPassing(c, pooled, slipped)]
          /\ task' = [task EXCEPT ![t].conn = new, ![t].pc = "connect"]
  BY DEF GetNew
<1>2. \A c : ~Pooled(c)'
  <2>1. pool_queue_' = <<>> /\ Len(<<>>) = 0
    BY EmptySeq DEF GetNew
  <2>2. QED
    BY <2>1 DEF Pooled
<1>3. /\ slipped \subseteq pooled /\ abandoned' = abandoned \cup slipped
      /\ \A c \in slipped : Pooled(c)
  BY <1>1 DEF Passed, Front, Pooled
<1>4. \A c \in slipped : c \in Conns /\ conn[c].object = "live" /\ \A s \in Tasks : task[s].conn # c
  BY <1>3, ElementOfSeq DEF SqldbInv, Typed, OwnersApart, OwnedIsLive, Pooled
<1>5. ~Fresh.fd
  BY DEF NewConnection
<1>6. /\ \A c \in Conns \ {new} : conn'[c] \in {conn[c], Deleted(c), TimedOut(c)}
      /\ conn'[new] = Fresh
      /\ \A c \in slipped : conn'[c] = TimedOut(c)
  BY <1>1, <1>4 DEF AfterPassing
<1>7. \A c \in slipped : Bad(c)'
  <2>1. \A c \in slipped : conn[c] \in ConnRecords
    BY <1>4 DEF SqldbInv, Typed, TypedConn
  <2>2. QED
    BY <1>6, <2>1, TimedOutRecord DEF Bad
<1>8. /\ \A s \in Tasks \ {t} : task'[s] = task[s]
      /\ task'[t].conn = new
  <2>1. task \in [Tasks -> TaskRecords] /\ task[t] \in TaskRecords
    BY TaskTyped DEF SqldbInv, Typed
  <2>2. QED
    BY <1>1, <2>1 DEF TaskRecords
<1>9. ~conn'[task'[t].conn].fd
  BY <1>5, <1>6, <1>8
<1> HIDE DEF pooled, Fresh
<1>10. PoolStep(slipped)
  <2>1. \A c \in slipped : /\ c \in Conns /\ conn[c].object = "live" /\ Bad(c)' /\ ~Pooled(c)'
                            /\ \A s \in Tasks : task'[s].conn # c
    BY <1>1, <1>2, <1>4, <1>7, <1>8
  <2>2. \A c \in Conns : conn[c].object # "none" => conn'[c] \in {conn[c], Deleted(c), TimedOut(c)}
    BY <1>1, <1>6
  <2>3. \A s \in Tasks : task'[s] = task[s] \/ (s = t /\ task'[s].conn = new)
    BY <1>8
  <2>4. QED
    BY <1>1, <1>2, <1>3, <1>8, <1>9, <2>1, <2>2, <2>3 DEF PoolStep
<1>11. QED
  BY <1>10, LostPoolStep

\* The pool's timer, its destructor, and the handlers.
LEMMA LostOtherSteps ==
  ASSUME SqldbInv, LostInv,
         \/ Shrink \/ CloseDatabase \/ UNCHANGED vars
         \/ \E t \in Tasks : TimerExpires(t)
         \/ \E c \in Conns : TimeoutHandler(c)
  PROVE  LostInv'
<1>1. conn \in [Conns -> ConnRecords] /\ UNCHANGED <<task, abandoned>>
  BY DEF SqldbInv, Typed, TypedConn, Shrink, CloseDatabase, vars, TimerExpires, TimeoutHandler
<1>2. \A c \in Conns : conn'[c] \in {conn[c], Deleted(c), TimedOut(c)}
  BY <1>1 DEF Shrink, CloseDatabase, vars, TimerExpires, TimeoutHandler
<1>3. \A c \in Conns : Pooled(c)' => Pooled(c)
  <2>1. CASE pool_queue_' = pool_queue_
    BY <2>1 DEF Pooled
  <2>2. CASE CloseDatabase
    <3>1. pool_queue_' = <<>> /\ Len(<<>>) = 0
      BY <2>2, EmptySeq DEF CloseDatabase
    <3>2. QED
      BY <3>1 DEF Pooled
  <2>3. CASE Shrink
    <3>1. Len(pool_queue_) \in Nat
      BY LenProperties DEF SqldbInv, Typed
    <3>2. PICK n \in 0 .. Len(pool_queue_) : pool_queue_' = SubSeq(pool_queue_, n + 1, Len(pool_queue_))
      BY <2>3, <3>1 DEF Shrink
    <3>3. \A i \in 1 .. Len(pool_queue_') :
             i + n \in 1 .. Len(pool_queue_) /\ pool_queue_'[i] = pool_queue_[i + n]
      BY <3>2, Suffix
    <3>4. QED
      BY <3>3 DEF Pooled
  <2>4. QED
    BY <2>1, <2>2, <2>3 DEF vars, TimerExpires, TimeoutHandler
<1>4. PoolStep({})
  BY <1>1, <1>2, <1>3 DEF PoolStep
<1>5. QED
  BY <1>4, LostPoolStep

LEMMA LostInvStep == SqldbInv /\ LostInv /\ [Next]_vars => LostInv'
<1> SUFFICES ASSUME SqldbInv, LostInv, [Next]_vars PROVE LostInv'
  OBVIOUS
<1>1. ASSUME NEW t \in Tasks, User(t) \/ Step(t) PROVE LostInv'
  BY <1>1, OwnSteps, LostOwnStep, LostReassignThrows, LostGetPooled, LostGetNew DEF Step
<1>2. QED
  BY <1>1, LostOtherSteps DEF Next

LEMMA LostInvAlways == Spec => []LostInv
BY LostInvInit, LostInvStep, SqldbInvAlways, PTL DEF Spec

\* However exceptions, timeouts, returns, shrinking and deletions interleave,
\* a connection belongs to one transaction or to one place of the pool, and
\* what is owned is not deleted; what belongs to nobody is deleted, except what
\* async_get_connection loses when a timeout handler runs between its calls of
\* status() or assign() throws, and that can not be used any more
\* (transaction.cpp:49-68, 95-108, 143-144, 158-159; database.cpp:47-64, 72-83,
\* 111-115; connection.cpp:75, 362).
THEOREM ConnectionsHaveOneOwner == Spec => []OneOwner
<1>1. SqldbInv /\ LostInv => OneOwner
  <2> SUFFICES ASSUME SqldbInv, LostInv PROVE OneOwner
    OBVIOUS
  <2>1. TypeOK
    BY TypesOfInv
  <2> SUFFICES ASSUME NEW c \in Conns
               PROVE  /\ Cardinality(Owners(c)) <= 1
                      /\ Owners(c) # {} => conn[c].object = "live"
                      /\ conn[c].object = "live" /\ Owners(c) = {} => c \in abandoned /\ Bad(c)
    BY <2>1 DEF OneOwner
  <2>2. Cardinality(Owners(c)) <= 1
    BY OwnersOfOne
  <2>3. Owners(c) # {} <=> Pooled(c) \/ \E t \in Tasks : task[t].conn = c
    BY DEF Owners, Pooled
  <2>4. QED
    BY <2>2, <2>3, NoConnAssumption DEF SqldbInv, OwnedIsLive, Pooled, LostInv, Lost
<1>2. QED
  BY <1>1, SqldbInvAlways, LostInvAlways, PTL

\* No transaction of one user is open on a pooled connection, waiting for the
\* next, by whichever of the three ways it came there
\* (transaction.cpp:51-55, 134-162).
THEOREM PoolIsIdle == Spec => []PooledIsIdle
<1>1. SqldbInv => PooledIsIdle
  BY DEF SqldbInv, Sessions, PooledIsIdle
<1>2. QED
  BY <1>1, SqldbInvAlways, PTL

\* A transaction of a user who stops at the first exception is atomic: what
\* lasts of it was committed, and is all of it; and all of it lasts if the
\* commit returned (transaction.cpp:74-81, 134-146).
THEOREM TransactionsAreAtomic == Spec => [](CommitKeepsAll /\ AllOrNothing)
<1>1. SqldbInv => CommitKeepsAll /\ AllOrNothing
  <2> SUFFICES ASSUME SqldbInv, NEW t \in Tasks, ~task[t].caught
               PROVE  /\ task[t].pc = "committed" => task[t].durable = task[t].execs
                      /\ task[t].mode = "off" /\ task[t].durable # 0 =>
                            task[t].asked /\ task[t].durable = task[t].execs
    BY DEF CommitKeepsAll, AllOrNothing
  <2>1. task[t] \in TaskRecords /\ TaskInv(t)
    BY TaskTyped
  <2>2. CASE task[t].mode = "on"
    BY <2>1, <2>2 DEF TaskInv, Counted
  <2>3. CASE task[t].mode = "off"
    BY <2>1, <2>3
    DEF TaskInv, Shape, NewTask, Transacted, Pure, Unused, InTransaction, TaskRecords, Waiting
  <2>4. QED
    BY <2>1, <2>2, <2>3 DEF TaskRecords
<1>2. QED
  BY <1>1, SqldbInvAlways, PTL

=============================================================================
