---------------------------- MODULE DemoManager ----------------------------
(***************************************************************************)
(* The demo-manager service: HTTPServerHandler, OrderbookQueueWriter, the  *)
(* preload of the workset and its drawing, over the starts, shutdowns and  *)
(* crashes of the process.                                                 *)
(*                                                                         *)
(* A posted book goes into the queue of the writer, then into the workset; *)
(* the writer takes it from the queue and inserts it into the database.  A *)
(* step is a section under a lock, or what a coroutine does between two    *)
(* waits.  The workset, the server and the connection pool are the modules *)
(* Workset, HttpServer and Sqldb; here a push, a pop and a statement are   *)
(* one step.  An exception in the writer or the preload leaves             *)
(* io_service::run and ends the process.                                   *)
(***************************************************************************)
EXTENDS Orderbook, SequencesExt

CONSTANTS Books,     \* the books that are posted
          Refused,   \* those the database refuses: no rows, unknown security
          Workers,   \* server threads that run add_orderbook
          Capacity,  \* of the workset
          HalfColumn, \* 50: half the lines that are drawn
          MaxPosts, MaxDraws, MaxRuns  \* bounds

\* Books fit their entries (see WithinEntry); the prices of a book differ, and
\* still do when they are rounded.
WellFormed(b) ==
    /\ b.timestamp \in Int /\ b.rows \in Seq([price : Int, volume : Int])
    /\ WithinEntry(b.rows)
    /\ \A i, j \in DOMAIN b.rows :
          Rounded(b.rows[i].price) = Rounded(b.rows[j].price) => i = j

ASSUME BooksAssumption == Refused \subseteq Books /\ \A b \in Books : WellFormed(b)
ASSUME BoundsAssumption ==
    Capacity \in Nat \ {0} /\ MaxPosts \in Nat /\ MaxDraws \in Nat /\ MaxRuns \in Nat

VARIABLES
    process,  \* the state of the process
    ready_,   \* of RequestHandlerFactory
    ws,       \* the workset, oldest first: post, pushed by a request?
    queue_, running_, writer,  \* of OrderbookQueueWriter, and its coroutine
    request,  \* what each worker does
    draw,     \* a request for the picture
    preload,  \* what the preload has found and how much it has pushed
    table,    \* orderbook_log with its details, in the order of its ids
    posted, draws, runs, \* how many there have been
    book,     \* of each post
    before,   \* posts answered when it was received
    answered, lost, \* posts answered; those that died in a queue or a worker
    kept      \* rows of the table when the process started

service == <<ws, queue_, running_, writer, request, draw, preload>>
history == <<posted, draws, runs, book, before, answered, lost, kept>>
vars == <<process, ready_, service, table, history>>

NoRequest == [pc |-> "none", post |-> 0]
NoDraw == [pc |-> "none", index |-> 0, x |-> 0, copied |-> <<>>]
NotLoading == [pc |-> "none", found |-> <<>>, at |-> 0]

Stopped == /\ process' = "down" /\ ready_' = FALSE
           /\ ws' = <<>> /\ queue_' = <<>> /\ running_' = FALSE /\ writer' = NoRequest
           /\ request' = [w \in Workers |-> NoRequest]
           /\ draw' = NoDraw /\ preload' = NotLoading

Init ==
    /\ process = "down" /\ ready_ = FALSE
    /\ ws = <<>> /\ queue_ = <<>> /\ running_ = FALSE /\ writer = NoRequest
    /\ request = [w \in Workers |-> NoRequest]
    /\ draw = NoDraw /\ preload = NotLoading
    /\ table = <<>>
    /\ posted = 0 /\ draws = 0 /\ runs = 0
    /\ book = <<>> /\ before = <<>> /\ answered = {} /\ lost = {} /\ kept = 0

LastOf(s, n) == SubSeq(s, (IF Len(s) > n THEN Len(s) - n ELSE 0) + 1, Len(s))
Posts(s) == {s[i].post : i \in DOMAIN s}

-----------------------------------------------------------------------------
\* A defect: set_ready(false) is forgotten.
StartReady ==
    /\ process = "down" /\ runs < MaxRuns
    /\ process' = "up" /\ ready_' = TRUE
    /\ running_' = TRUE /\ writer' = [NoRequest EXCEPT !.pc = "look"]
    /\ preload' = [NotLoading EXCEPT !.pc = "query"]
    /\ runs' = runs + 1 /\ kept' = Len(table)
    /\ UNCHANGED <<ws, queue_, request, draw, table, posted, draws, book, before,
                   answered, lost>>

\* main: the writer is started, the factory is not ready, the preload runs.
Start ==
    /\ process = "down" /\ runs < MaxRuns
    /\ process' = "up" /\ ready_' = FALSE
    /\ running_' = TRUE /\ writer' = [NoRequest EXCEPT !.pc = "look"]
    /\ preload' = [NotLoading EXCEPT !.pc = "query"]
    /\ runs' = runs + 1 /\ kept' = Len(table)
    /\ UNCHANGED <<ws, queue_, request, draw, table, posted, draws, book, before,
                   answered, lost>>

\* Where coroutines still run: until io_service::stop.
Alive == process \in {"up", "stopping"}

\* A connection that is made for the writer or the preload times out, and the
\* attempt is repeated for ever by a thread that does nothing else any more:
\* Database::async_get_connection, and Sqldb.
Spinning == writer.pc = "spin" \/ preload.pc = "spin"

\* Publisher::push: a full workset drops its oldest entry, and a subscriber's
\* index follows (see Workset).
Push(post, live) ==
    /\ ws' = LastOf(Append(ws, [post |-> post, live |-> live]), Capacity)
    /\ draw' = IF Len(ws) = Capacity /\ draw.index > 0 THEN [draw EXCEPT !.index = @ - 1]
               ELSE draw

-----------------------------------------------------------------------------
\* preload_workset_async: ORDER BY id DESC LIMIT limit OFFSET offset, and then ORDER BY id ASC.
Query(limit, offset) == LastOf(SubSeq(table, 1, Len(table) - offset), limit)

PreloadQuery ==
    /\ Alive /\ preload.pc = "query"
    /\ LET found == Query(Capacity, 0) IN
          /\ preload' = [pc |-> IF found = <<>> THEN "none" ELSE "push",
                         found |-> found, at |-> 0]
          /\ ready_' = (ready_ \/ found = <<>>)
    /\ UNCHANGED <<process, ws, queue_, running_, writer, request, draw, table, history>>

PreloadSpins ==
    /\ Alive /\ preload.pc = "query"
    /\ preload' = [preload EXCEPT !.pc = "spin"]
    /\ UNCHANGED <<process, ready_, ws, queue_, running_, writer, request, draw, table,
                   history>>

PreloadPush ==
    /\ Alive /\ preload.pc = "push"
    /\ LET row == preload.found[preload.at + 1]
           last == preload.at + 1 = Len(preload.found)
       IN /\ Push(row.post, FALSE)
          /\ preload' = [preload EXCEPT !.at = @ + 1, !.pc = IF last THEN "none" ELSE "push"]
          /\ ready_' = (ready_ \/ last)
    /\ UNCHANGED <<process, queue_, running_, writer, request, table, history>>

-----------------------------------------------------------------------------
\* add_orderbook: a request comes to a handler, which exists only if the
\* factory was ready; ...
Receive(w) ==
    /\ process = "up" /\ ready_ /\ request[w].pc = "none" /\ posted < MaxPosts
    /\ posted' = posted + 1
    /\ request' = [request EXCEPT ![w] = [pc |-> "queue", post |-> posted']]
    /\ \E b \in Books : book' = Append(book, b)
    /\ before' = Append(before, answered)
    /\ UNCHANGED <<process, ready_, ws, queue_, running_, writer, draw, preload, table,
                   draws, runs, answered, lost, kept>>

\* A defect: the queue is used like a stack.
EnqueueOnTop(w) ==
    /\ process # "down" /\ request[w].pc = "queue"
    /\ queue_' = <<request[w].post>> \o queue_
    /\ request' = [request EXCEPT ![w].pc = "push"]
    /\ UNCHANGED <<process, ready_, ws, running_, writer, draw, preload, table, history>>

\* ... the book goes into the queue, which is not bounded, ...
Enqueue(w) ==
    /\ process # "down" /\ request[w].pc = "queue"
    /\ queue_' = Append(queue_, request[w].post)
    /\ request' = [request EXCEPT ![w].pc = "push"]
    /\ UNCHANGED <<process, ready_, ws, running_, writer, draw, preload, table, history>>

\* ... then into the workset, and the answer is 200.
PushLive(w) ==
    /\ process # "down" /\ request[w].pc = "push"
    /\ LET p == request[w].post IN
          /\ Push(p, TRUE)
          /\ answered' = answered \cup {p}
    /\ request' = [request EXCEPT ![w] = NoRequest]
    /\ UNCHANGED <<process, ready_, queue_, running_, writer, preload, table,
                   posted, draws, runs, book, before, lost, kept>>

-----------------------------------------------------------------------------
\* OrderbookQueueWriter::start: an entry is taken from the queue, ...
Take ==
    /\ Alive /\ running_ /\ writer.pc = "look" /\ queue_ # <<>>
    /\ writer' = [pc |-> "insert", post |-> Head(queue_)]
    /\ queue_' = Tail(queue_)
    /\ UNCHANGED <<process, ready_, ws, running_, request, draw, preload, table, history>>

\* A defect: the exception is caught, and the loop goes on with the next.
InsertRefused ==
    /\ Alive /\ writer.pc = "insert"
    /\ writer' = IF book[writer.post] \in Refused THEN [pc |-> "look", post |-> 0]
                 ELSE [writer EXCEPT !.pc = "commit"]
    /\ UNCHANGED <<process, ready_, ws, queue_, running_, request, draw, preload, table,
                   history>>

\* ... inserted in a transaction, ...
Insert ==
    /\ Alive /\ writer.pc = "insert" /\ book[writer.post] \notin Refused
    /\ writer' = [writer EXCEPT !.pc = "commit"]
    /\ UNCHANGED <<process, ready_, ws, queue_, running_, request, draw, preload, table,
                   history>>

\* ... for which its first statement may never get a connection, ...
WriterSpins ==
    /\ Alive /\ writer.pc = "insert"
    /\ writer' = [writer EXCEPT !.pc = "spin"]
    /\ UNCHANGED <<process, ready_, ws, queue_, running_, request, draw, preload, table,
                   history>>

\* A defect: the loop is left after a transaction.
CommitOnce ==
    /\ Alive /\ writer.pc = "commit"
    /\ table' = Append(table, [post |-> writer.post, book |-> book[writer.post]])
    /\ writer' = NoRequest
    /\ UNCHANGED <<process, ready_, ws, queue_, running_, request, draw, preload, history>>

\* ... and committed.
Commit ==
    /\ Alive /\ writer.pc = "commit"
    /\ table' = Append(table, [post |-> writer.post, book |-> book[writer.post]])
    /\ writer' = [pc |-> "look", post |-> 0]
    /\ UNCHANGED <<process, ready_, ws, queue_, running_, request, draw, preload, history>>

\* The process dies: of an exception of the writer, ...
Unwritten == (ToSet(queue_) \cup {writer.post} \cup {request[w].post : w \in Workers}) \ {0}

Die ==
    /\ Stopped
    /\ lost' = lost \cup Unwritten
    /\ UNCHANGED <<table, posted, draws, runs, book, before, answered, kept>>

WriterDies ==
    /\ Alive /\ writer.pc = "insert" /\ book[writer.post] \in Refused
    /\ Die

\* ... of one of the preload, a failed statement, or anything else.
Crash ==
    /\ process # "down"
    /\ Die

\* The signal: Server::stop closes the connections and sleeps a second, while
\* everything goes on; then it stops the io_service, and the writer is told.
Signal ==
    /\ process = "up"
    /\ process' = "stopping"
    /\ UNCHANGED <<ready_, service, table, history>>

Halt ==
    /\ process = "stopping"
    /\ process' = "halting" /\ running_' = FALSE
    /\ UNCHANGED <<ready_, ws, queue_, writer, request, draw, preload, table, history>>

\* The threads have ended what they were doing; coroutines that wait never go
\* on.  One that spins keeps its thread, which main joins, from ending.
Exit ==
    /\ process = "halting" /\ draw.pc = "none" /\ ~Spinning
    /\ \A w \in Workers : request[w].pc = "none"
    /\ Die

-----------------------------------------------------------------------------
\* draw_workset_png on the shared workset: a subscriber, how much it has, ...
DrawBegin ==
    /\ process = "up" /\ ready_ /\ draw.pc = "none" /\ draws < MaxDraws /\ ws # <<>>
    /\ draws' = draws + 1
    /\ draw' = [NoDraw EXCEPT !.pc = "size"]
    /\ UNCHANGED <<process, ready_, ws, queue_, running_, writer, request, preload, table,
                   posted, runs, book, before, answered, lost, kept>>

Available == Len(ws) - draw.index

DrawSize ==
    /\ draw.pc = "size"
    /\ draw' = [draw EXCEPT !.pc = "copy", !.x = Available]
    /\ UNCHANGED <<process, ready_, ws, queue_, running_, writer, request, preload, table,
                   history>>

\* ... copies while there is something, into a workset of that capacity, ...
Copied == LastOf(Append(draw.copied, ws[draw.index + 1].post), draw.x)

\* A defect: a try_pop that meets a writer ends the loop.
DrawPopOnce ==
    /\ draw.pc = "copy" /\ Available > 0
    /\ draw' \in {[draw EXCEPT !.copied = Copied, !.index = @ + 1],
                  [draw EXCEPT !.pc = "draw"]}
    /\ UNCHANGED <<process, ready_, ws, queue_, running_, writer, request, preload, table,
                   history>>

DrawPop ==
    /\ draw.pc = "copy" /\ Available > 0
    /\ draw' = [draw EXCEPT !.copied = Copied, !.index = @ + 1]
    /\ UNCHANGED <<process, ready_, ws, queue_, running_, writer, request, preload, table,
                   history>>

DrawCopied ==
    /\ draw.pc = "copy" /\ Available = 0
    /\ draw' = [draw EXCEPT !.pc = "draw"]
    /\ UNCHANGED <<process, ready_, ws, queue_, running_, writer, request, preload, table,
                   history>>

\* ... and pops as many as the capacity, spinning until it has them.
DrawEnd ==
    /\ draw.pc = "draw" /\ Len(draw.copied) = draw.x
    /\ draw' = NoDraw
    /\ UNCHANGED <<process, ready_, ws, queue_, running_, writer, request, preload, table,
                   history>>

Draw == DrawSize \/ DrawPop \/ DrawCopied \/ DrawEnd
Write == Take \/ Insert \/ Commit \/ WriterDies

Next ==
    \/ Start \/ PreloadQuery \/ PreloadSpins \/ PreloadPush
    \/ \E w \in Workers : Receive(w) \/ Enqueue(w) \/ PushLive(w)
    \/ Write \/ WriterSpins \/ Crash \/ Signal \/ Halt \/ Exit
    \/ DrawBegin \/ Draw

\* While none of them spins, the threads of the server run something as long as
\* anything can run; nothing need be received, and no signal need come.  No step
\* is an idle one, so that fairness to each step by itself is not needed.
Fairness ==
    WF_vars(/\ ~Spinning
            /\ \/ Write \/ Draw \/ Halt \/ Exit
               \/ \E w \in Workers : Enqueue(w) \/ PushLive(w))

Spec == Init /\ [][Next]_vars /\ Fairness

-----------------------------------------------------------------------------
\* What the workset holds for a post: made of its request, or of its rows.
Entry(e) == IF e.live THEN LiveEntry(book[e.post]) ELSE LoadedEntry(book[e.post])

\* The types of the variables; a picture has at most the columns it has
\* allocated, and the index of its subscriber stays within the workset.
TypeOK ==
    /\ process \in {"down", "up", "stopping", "halting"}
    /\ ready_ \in BOOLEAN /\ running_ \in BOOLEAN
    /\ Len(ws) <= Capacity
    /\ \A i \in DOMAIN ws : ws[i].post \in 1 .. posted /\ ws[i].live \in BOOLEAN
    /\ ToSet(queue_) \subseteq 1 .. posted
    /\ writer.pc \in {"none", "look", "insert", "spin", "commit"} /\ writer.post \in 0 .. posted
    /\ \A w \in Workers : /\ request[w].pc \in {"none", "queue", "push"}
                          /\ request[w].post \in 0 .. posted
    /\ draw.pc \in {"none", "size", "copy", "draw"} /\ draw.x \in 0 .. Capacity
    /\ draw.index \in 0 .. Len(ws) /\ Len(draw.copied) <= draw.x
    /\ preload.pc \in {"none", "query", "spin", "push"} /\ preload.at \in 0 .. Len(preload.found)
    /\ \A i \in DOMAIN table : table[i].post \in 1 .. posted /\ table[i].book \in Books
    /\ posted \in 0 .. MaxPosts /\ draws \in 0 .. MaxDraws /\ runs \in 0 .. MaxRuns
    /\ Len(book) = posted /\ Len(before) = posted
    /\ answered \subseteq 1 .. posted /\ lost \subseteq 1 .. posted /\ kept \in 0 .. Len(table)

\* A client's view of the order: a post that was answered before another was
\* received comes before it in the database and in the workset, over restarts
\* too.  Two posts at once may come in either order, and the database and the
\* workset need not agree on it (add_orderbook takes two locks in turn).
NotOvertaken(s) ==
    \A i, j \in DOMAIN s : i < j => s[j].post \notin before[s[i].post]

InOrder == TypeOK /\ NotOvertaken(table) /\ NotOvertaken(ws)

\* What was answered is in the database, at most once, or waits in the queue
\* or the writer, unless the process has died or was stopped meanwhile: an
\* answer promises no more, and a process that goes on loses nothing.
NoSilentLoss ==
    /\ answered \subseteq Posts(table) \cup Unwritten \cup lost
    /\ \A i, j \in DOMAIN table : table[i].post = table[j].post => i = j
    /\ process = "up" => (Posts(table) \cup lost) \cap ToSet(queue_) = {}

\* Requests wait for the preload: no live entry is older than a loaded one, and
\* until a request pushes, a workset that is ready holds the newest rows that
\* were in the database when the process started, in their order (the query of
\* preload_workset_async, its early return, RequestHandlerFactory::set_ready).
PreloadedIsNewest ==
    /\ \A i, j \in DOMAIN ws : i < j /\ ws[i].live => ws[j].live
    /\ ready_ /\ (\A i \in DOMAIN ws : ~ws[i].live) =>
          /\ Len(ws) = IF kept < Capacity THEN kept ELSE Capacity
          /\ \A i \in DOMAIN ws : ws[i].post = table[kept - Len(ws) + i].post

\* What is left of an entry when its book has been in the database.
Restored(e) ==
    [security |-> Alias[e.security], timestamp |-> Rounded(e.timestamp), depth |-> e.depth,
     cells |-> [k \in DOMAIN e.cells |-> RoundedRow(e.cells[k])]]

\* No volume is so small that it is stored as zero; a row with such a one would
\* be missing in the loaded entry.
KeepsVolumes(rows) == \A i \in DOMAIN rows : rows[i].volume # 0 => Rounded(rows[i].volume) # 0

\* A restart leaves each row of an entry in its cell, although the rows come
\* from the request in one order and from the query in another: what
\* preload_workset_async loads is what add_orderbook pushed, with the alias of
\* the security (utils.cpp:37, 72-74, 116, http-server-handler.cpp:129) and
\* with numbers of six decimals (parameter.hpp:30-34).
LoadedIsRounded ==
    \A i \in DOMAIN ws :
        LET b == book[ws[i].post] IN
        ~ws[i].live /\ KeepsVolumes(b.rows) => Entry(ws[i]) = Restored(LiveEntry(b))

\* A column is drawn from the lowest price to the highest, for an entry of the
\* depth the code assumes, made of rows whose sides are of that length and do
\* not overlap; one with more bids than asks is drawn in another order.
Balanced(rows) == Len(Bids(rows)) = Depth(rows) /\ Len(Asks(rows)) = Depth(rows)
Uncrossed(rows) ==
    \A i \in Buying(rows), j \in Selling(rows) : rows[i].price < rows[j].price

DrawnByPrice ==
    \A i \in DOMAIN ws :
        LET b == book[ws[i].post]
            rows == IF ws[i].live THEN b.rows ELSE Stored(b.rows)
            e == Entry(ws[i])
        IN e.depth = HalfColumn /\ Balanced(rows) /\ Uncrossed(rows) =>
              \A j \in 1 .. 2 * HalfColumn - 1 :
                  e.cells[DrawnCell(HalfColumn, j - 1)].price < e.cells[DrawnCell(HalfColumn, j)].price

\* A book in the queue is written, or lost with the process: while the process
\* goes on the writer stops only where it spins for a connection.  And a
\* picture is finished, and lets the process exit, while no thread spins: the
\* second loop of draw_workset_png, which waits for x_size entries, finds as
\* many as the first one copied, whatever was pushed meanwhile.
WorkEnds ==
    /\ queue_ # <<>> ~> queue_ = <<>> \/ Spinning
    /\ draw.pc # "none" ~> draw.pc = "none" \/ Spinning

=============================================================================
