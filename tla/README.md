# itex-demo: specifications

itex-demo is a prototype of trading infrastructure: an HTTP server on
boost::asio coroutines, an asynchronous PostgreSQL client with a connection
pool, a circular buffer of order books shared by many threads, a recorder for
an exchange's market data streams, and services built from them. This directory
holds TLA+ specifications of the parts of it that run concurrently and of the
PNG codec behind its pictures, the TLC configurations that check them on small
instances, and TLAPS proofs of what matters most. Paths below are relative to `src/`.

## 1. The system

### Components, their state and their operations

| component | state | operations | what makes it correct |
|---|---|---|---|
| `aux::rw_lock` (`platform/aux/include/aux/rw_lock.hpp`) | one atomic word | try-lock, lock and unlock for readers; lock and unlock for the writer | readers and a writer never together; try-lock returns |
| `quant::Workset` (`common/quant/include/quant/workset.hpp`) | circular buffer, lists of publishers and subscribers, an index per subscriber, an `rw_lock` | get and release of either handle, `push`, `try_pop`, `num_available` | a subscriber gets entries in order, none twice, none left out that is still there |
| `http::Server` (`platform/http/src/server.cpp`) | pool of connections by hash of the peer's endpoint, delete queue, two spinlocks | accept, reuse or create, delete timer, `stop()`, destructor | every connection object in one place, deleted once, and not while it is served |
| `http::Connection` (`platform/http/src/connection.cpp`) | socket, timer, handler, three flags | request loop, timeout handler, `stop`, `kill`, `reinit` | each request answered once, in order, by a handler made ready for this peer |
| `http::Parser`, `http::Request` (`platform/http/src/parser.cpp`, `request.cpp`) | the header it is at, two flags; the message | feed, clear, callbacks | a message is what was sent, however the reads cut it |
| `http::Router` (`platform/http/src/router.cpp`) | a tree of names and handlers | set, get, route a request | a path leads to the rule that fits it, with its parameters |
| `sqldb::Transaction` | mode, a connection | execute, begin, commit, rollback, destruction | all or nothing; the connection goes back clean or is deleted |
| `sqldb::Connection` | libpq handle, socket, timer, `timeout_occurred_` | connect, commands, timeout handler, status | a timed out connection is not used again |
| `sqldb::Database` | pool of connections, statistics | get, return, shrink timer, destructor | a connection has one owner |
| `quant::Utils`, `quant::OrderbookEntry` (`common/quant/src`) | an array of prices and volumes | load the workset from the database, draw it | what is loaded is what was published; both loops end |
| demo-manager (`services/demo-manager`) | queue of order books to write, readiness of the handler factory | add an order book, write the queue, serve a picture, start and stop | what was accepted is published and written, in order, and kept while the process goes on |
| `cgatepp::Dumper` (`services/cgatepp/src/dumper.cpp`) | memory-mapped volumes, a position | record every callback of a stream, rotate, replay | what is replayed is what was recorded |
| orderbook-dumper (`services/orderbook-dumper`) | states of a connection and two listeners | reconnect loop | it comes back after any error |
| lodepng (`externals/lodepng`) | hash chains of the compressor; the mode, chunks and bytes read so far | encode a picture, decode a file | what is decoded is the picture, or an error; codes are optimal; both return |
| alorgate (C#) | order books, securities | callbacks of a Windows terminal | - |

### How they interact

`http::Server` owns the threads: every coroutine of the program runs on its
io_service. Acceptors create `Connection` objects; each serves one peer and
hands itself back through `schedule_connection_delete`; the server gives the
object to the next peer or deletes it. A connection gets its handler from the
service's factory, which refuses while the workset is being loaded. The
demo-manager's handler pushes an order book into the `Workset` and into the
queue of `OrderbookQueueWriter`, whose coroutine writes it through a
`sqldb::Transaction`. Transactions take connections from the `Database`'s pool
and return them. `draw_workset_png` subscribes to the workset while other
handlers publish. The finished picture goes through `lodepng_encode` into the
response. The `Dumper` stands between a gateway listener and its handler.

### What is hard

The hard behaviour is concurrency without a test that reaches it: threads on
one lock word; publishers that lap subscribers; acceptors, connection
coroutines, a timer and `stop()` on two containers; expired timers whose
handlers run after they were cancelled; exceptions out of any wait for the
database; a crash in the middle of a record, of a rotation, or with a queue of
answered requests; a read that ends anywhere in a request. `lodepng` has no
concurrency; it has arrays that are overwritten in a circle while chains through
them are followed, and two directions that must agree on every bit.
`PROJECT.json` lists each of these hazards at its line, with the properties that
cover it.

## 2. The modules

### RWLockSpec, RWLock, RWLockProofs

`RWLockSpec` is the lock as its users see it: sets `readers` and `writers`, and
four operations. `RWLock` is `rw_lock.hpp`, one action per atomic access to
`lock_`: a load, an exchange that succeeds, one that fails (`ReaderTryMiss` in
`reader_try_lock`, where failures are counted; in the endless loops a failure
changes nothing), a decrement, a store. `expected` is the local the code passes
by reference to `compare_exchange`; the code resets it before each attempt, so
it stays what was loaded. The word is an integer: 2^63 readers are out of reach.

### WorksetLog, Workset, WorksetProofs

`WorksetLog` is the promise: entries are numbered, the last `Capacity` are
retained, `Deliver` hands a subscriber the oldest retained entry after its last.
`Workset` is `workset.hpp` over `RWLockSpec`, through the lock's four operations
(`Lock == INSTANCE RWLockSpec`); `RWLockProofs` shows that `aux::rw_lock`
implements them. A push is three steps: take the writer's lock, shift the
indexes, store and unlock. `try_pop` and `num_available` are a lock and a body.
`popped` and `available` record what the subscriber was given. The variables
`head`, `subscribed` and `last` of the log are `num_pushed`, `subscribers_` and
`popped`. `Subscriber::clone` is not modelled: nothing calls it.

### HttpServer, HttpServerProofs

The server's containers and the life of connection objects. An acceptor goes
through `Accept`, `TakeQueued` or `TakeNone`, `Reinit` or `Create`, `Insert` and
`Start`, one step per section of the code under a lock or between two. A
connection's request loop is one state, "serving"; `KillStop`, `KillSchedule`
and `KillMark` are the three parts of `kill()`, `KillSkipped` its early return.
`cor` lists the coroutines in the order they were started, because one object
has several over its life. `DeleteTick` is the timer; `StopMove`, `StopClose`
and `StopFinish` the parts of `stop()`; `Destroy` the destructor. A peer may
reset its connection, also before the acceptor asks for its address. Different
endpoints have different hashes in the model.

### HttpConnection, HttpConnectionProofs

The request loop. A request is a head and a tail on the `wire`, and a read
returns any prefix of what is there, so that it may end inside a request or
contain the beginning of the next. `co` is the coroutine: its place in `start()`
and its locals. The timer is three sets: `wait` is what is awaited (cancelling
clears it), `completions` are expiries whose handler is queued (nothing clears
those), and `overrun` records the requests during whose processing the handler
ran. `Reuse` is the next session of the same object, by way of `HttpServer`;
`handler_` records when the handler was created and last reset, and `origin`
the session in which each request was sent. `IoStop` is the end of
`Server::stop()`: from then on nothing runs on the io_service, and the coroutine
stays where it is. It needs no `ServerStop` before it, because a connection that
an acceptor brings while `stop()` sleeps is not in the pool that it went through.

### Sqldb, SqldbProofs

Transactions, connections and the pool. A task makes a transaction in either
mode, executes statements, and commits, rolls back or just destroys it. Each
wait is a place (`connect`, `begin`, `exec`, `undo`, `commit`, `rollback`), and
each can end well, be refused by the server, break, or find
`timeout_occurred_` set. `TimerExpires` and `TimeoutHandler` are separate, so
that the handler also runs when the command is over and its connection pooled,
in other hands or deleted, and, because it takes no lock, between the two calls
of `status()` in `async_get_connection` (`slipped` in `Passed`). `txn` and
`stmts` are the server's session; `durable` counts what it has made last, and
`caught` whether the user went on after an exception. How many connections the shrink timer closes depends on statistics
of the pool's size; the model allows every number the formula can give.

### Router, HttpRequest, HttpRequestProofs

How bytes become a call of a handler. `Router` is a module of operators: `Set`
is that of `router.cpp`, the tree being a function of the keys on the way to a
node, `Down` is one turn of the loop of `get` and `Found` what follows the loop.
`Chosen`, `LeadsTo`, `Agree` and `Values` say what a router promises from the
rules alone, without a tree; the properties compare the two. `HttpRequest` has
the state of a `Parser`, its `Request`, a router and a walk down its tree. A
request on the wire is a row of pieces (slashes, names, "?" and the like of the
URL, the space after it, parts of names and values of headers and of the body),
and `next` is the one that comes next. There is an action for each callback
(`OnUrl`, `OnHeaderField`, `OnHeaderValue`, `OnHeadersComplete`, `OnBody`). All
but the first append, and `Feed` one piece, so that a read may end between any
two. `on_url` replaces what another fragment has left, so `OnUrl(n)` takes the
fragment up to the n-th piece at once. `Url`'s constructor parses each fragment
(`IsUrl`: a path, a "*", or a scheme and a host) and `UrlOf` splits it into path
and query; the router gets the path. A read that ends where the URL does leaves
the space to the next one, and http-parser then calls `on_url` again with no
data, which `Url` takes: the URL is empty afterwards. The library
(http-parser 2.7.0, in `externals`) is external: which piece follows which is
`Following` and `FromUrl`, what is a URL `IsUrl`. `Ready` is the head of the request loop, `Turn` and `Route` are
`route_request`.

### Orderbook, DemoManager, DemoManagerProofs

`Orderbook` has the pure parts: how `add_orderbook` and `preload_workset_async`
make an entry of a book, header and cells, and which cell `draw_workset_png`
reads. A sort is `Ranked`: the k-th of the rows has k - 1 others before it. What
the writer inserts is `Stored`: `std::to_string` leaves six decimals of each
number (`Rounded`, in units of `Grain`), and the entry that is loaded has the
`alias_id` of the security (`Alias`) instead of its id. `DemoManager` is the
service over the lives of its process. A post is `Receive`, `Enqueue` and
`PushLive`, because the queue and the workset have a lock each; the writer's
coroutine is `Take`, `Insert`, `Commit`; `WriterSpins` and `PreloadSpins` are
its and the preload's first statement that waits in `async_get_connection`
(`database.cpp:73`) for good, as run `sqldb_timeout` shows; the preload one
query and a push per row; the picture a subscriber that copies into a workset of
its own (`DrawSize`, `DrawPop`, `DrawCopied`) and then reads back as many as it
counted first (`DrawEnd`). `Signal`, `Halt` and `Exit` are the shutdown, `Crash`
and `WriterDies` the other ends; `Stopped` is what an end leaves. `Workset`,
`HttpServer` and `Sqldb` are the modules of what is one step here: a push or pop
(by `WorksetLog`, which `Workset` implements), a request, a transaction. A post
is a number; `before` records which posts had been answered when it came.

### DumperLog, Dumper, DumperProofs

`DumperLog` is a log and a replay of it. `Dumper` is `dumper.cpp` with its
volumes as they are on disk: a position and what is stored at each position. The
steps of `write_next` are `Write` (choose the place), `Create`, `Resize` and
`Header` (a new volume), `Data` and `Publish`; `Die` may come between any two,
and a volume keeps what was stored. The size of a record is stored modulo
2^16 (`SizeMod`), and a record that does not fit it parses as a blank one.
`Replay`, `ReadRecord`, `ReadEnd` and `ReadFails` are
`replay_recorded_stream` with `read_next`. The log of `DumperLog` is `recorded`
with blanks for the records that are too long.

### Recording, OrderbookDumper

`Recording` has the three switches that must agree: `Dispatch` is
`listener_base_callback`, `RecordType` the twelve callbacks of `Dumper`, and
`ReplayedAs` the switch of `replay_recorded_stream`; and, for each Dumper, what
it has recorded and what it has passed on. `OrderbookDumper` is the loop of
`orderbook-dumper.cpp` over the states of a connection and two listeners, one
action per call. The gateway library is external: a state may fail at any time,
also after main has read it. `DumperProofs` has the proof about both, by
`INSTANCE`, with the assumptions of the module as hypotheses.

### Huffman, Lz77, Deflate, Inflate

The compressor of `lodepng` and its inverse. `Huffman` has the boundary
package-merge (`boundaryPM`, `lodepng_huffman_code_lengths`: a chain of nodes is
its weight and the leaf counts along it), canonical codes, the decoder's array
of tree nodes (`EnterCode`) and the walk through it. `Lz77` is `encodeLZ77`: a
record `z` has the loop's variables and the hash with its circular arrays;
`EncodeLZ77Turn` is one turn of the loop, with the match that is put off.
`Deflate` writes the three kinds of blocks with their trees and the zlib stream,
`Inflate` reads them with the error numbers of the code. Bits are sequences of 0
and 1. Two of the code's functions loop over blocks; `Png` makes each block, and
each turn of the LZ77 loop, a step.

### PngColor, PngLines, Png

`PngColor` is the profile of a picture's colours, the choice of a colour mode,
and the conversion of pixels both ways. `PngLines` is what stands between pixels
and compressed bytes: Adam7 passes, packing of samples and padding of rows, the
five filters with the choice by the smallest sum, and their inverses. `Png`
composes them: `ChooseColours`, `FilterLines`, `Store` or `Compress` and
`EndBlock`, and `WriteFile` are `lodepng_encode`; `lodepng_inspect`, `ReadChunk`
and `Decompress` are `lodepng_decode`. In between, a file may get a chunk of
another program, a damaged byte or a new end. A chunk carries the type and bytes
its CRC was computed from in place of the CRC, which is to say that the CRC
finds any damage; the Adler-32 of the zlib stream is computed. Where the code
packs a whole picture and then pads its rows, a row is packed and padded at once.

## 3. The runs

| run | instance | shows |
|---|---|---|
| `rwlock` | 3 threads, 2 attempts | exclusion, refinement of `RWLockSpec`, `reader_try_lock` returns, `reader_lock` is admitted if it loaded 0 or a writer |
| `workset` | 2 publishers, 2 subscribers, capacity 2, 5 pushes | indexes and answers of `num_available` are sound; refinement of `WorksetLog`; a polling subscriber sees the last entry |
| `http_server` | 3 objects, 2 endpoints, 2 acceptors, 3 connections | no object held or deleted twice, `stop()` ends; unless an endpoint returns early, no object lost, none queued while served |
| `http_connection` | 2 requests, 2 sessions, pipelining clients and others | answers once, in order, on the request's connection and by a handler ready for it, the closing one last, good ones in time; each request served or its connection closed, and the loop ended by `stop()`, unless the io_service stops first |
| `http_connection_pipeline` | 3 requests, 1 session | violation, see section 6 |
| `http_request` | up to 3 of 6 rules in any order, 2 of 13 requests (with queries, URLs in queries, schemes, repeated, split and empty headers), all ways to cut them into reads | a message is what was sent; of a cut URL it has that of a rear part, maybe of the query, or an error; routes and parameters are those the rules promise |
| `sqldb` | 2 tasks, 2 transactions of up to 2 statements, 3 connections | each connection has one owner or is deleted, pooled ones are idle; if the user stops at an exception, commits keep all and nothing lasts without one |
| `sqldb_timeout` | 1 task, 1 transaction | violation, see section 6 |
| `demo_manager` | 2 threads, 3 posts (one kind refused by the database), capacity 2, a picture, 2 lives | order of posts, what was answered is stored, waits or died with the process, the workset after a start, loaded entries are the published ones but for the alias and the decimals, the picture is in order; queue and picture end unless a thread spins for a connection |
| `dumper` | volumes of 16 bytes, records of 3 lengths (one too long for its field), 3 callbacks, 3 lives | refinement of `DumperLog`; handled is recorded; nothing dropped; order, also after aborted replays |
| `picture` | 13 pictures of up to 72 pixels, 5 settings, a window of 16, blocks of 32 to 64 bytes, 1027 small alphabets | what is decoded is the picture, or an error, also from damaged, cut and annotated files; matches are true at every turn; codes are optimal; both calls return |
| `orderbook_dumper` | 2 listeners, 3 failures | a replay calls what was called live; both listeners become active again or the program ends |

Each module has one type invariant, `TypeOK`. A run checks it as the first
conjunct of its first invariant (`HeldOnce`, `AnsweredInOrder`, `OneOwner`,
`ParsedIsSent`, `InOrder`, `HandledIsRecorded`; the last also says that no write
passes the end of a volume); that of `OrderbookDumper` is proved and not run,
and that of `Png` run and not proved.

### Assumptions inside properties

- `NothingLost` and `QueuedIsFinished` hold up to the first time that an endpoint
  connects again before its old pool entry is gone (`returned`). What happens
  after it is in section 6. `HeldOnce` and `PoolKeyIsId` hold without the
  assumption.
- `EachSentIsServed` is about a client that waits for each answer
  (`~pipelines`); what a pipelining one meets is `http_connection_pipeline`.
- `CommitKeepsAll` and `AllOrNothing` are about a user who stops at the first
  exception (`~caught`), as every user in this repository does. The others hold
  for users who go on, too.
- `OneOwner` excepts the objects `async_get_connection` loses (`abandoned`), when
  a timeout handler runs between its two calls of `status()` or a second
  `async_connect` throws. Nobody deletes those; the property says that they are
  out of use.
- `ParsedIsSent` excepts requests whose URL is cut by a read, and those with a
  header without a value: the code gets both wrong (section 6).
  `RouteIsChosen` speaks of parameters only for rules that agree on their names.
- `BooksAssumption`: a book has no more asks than half its rows (more are
  written beyond the entry, `WithinEntry`) and no two prices that are equal or
  become so when they are stored, for `std::sort` leaves their order open. With more bids than that, the preload also writes
  beyond `avg_volumes` (`utils.cpp:125`), statistics that are not modelled.
  `DrawnByPrice` is about entries of the depth that is written into
  `draw_workset_png`, of books whose sides are equally long and do not overlap;
  the code draws others in another order.
- `LoadedIsRounded` is about books without a volume that is stored as zero
  (`KeepsVolumes`), whose row would be missing after a restart. The numbers are
  fixed-point: PostgreSQL is taken to return the doubles it was given; an old
  server's default of 15 digits does that for prices and volumes below a thousand
  million, and drops one decimal more of a timestamp. A security without an alias
  makes `copy_to` throw, and is a `Crash`.
- `NoSilentLoss` counts what died with the process as lost, not as a defect.
- `FitsAssumption`: a volume has room for any record (100 MB and 64 kB).
  `ImplementsLog` and `NothingDropped` are about a handler that does not throw
  during a replay, `NothingDropped` also about volumes that have their size.
- `ComesBack` begins when `main` has got its first active connection, and ends
  with the program where an `open()` throws outside any `try`.

- `PictureSurvives` excepts opaque pixels that have the colour of a transparent
  one behind them (`HiddenByKey`), and damage to the palette or to the
  transparency behind a foreign chunk (`UnseenDamage`); section 6 has both.

### Why the bounds are enough

Three threads give two readers and a writer, and a reader whose expected count
was true twice. Five pushes into two places lap each subscriber twice, whose
index is before, at or behind the oldest entry. Three connection objects let
one be reused, one be served and one be created at the same time, and two
acceptors race for the queue. Two requests fall into one session, where the
second meets what the first has left, or into two, which carries anything stale
across; the run for skipped requests has three, one answered, one lost and one
answered after it. Two transactions overlap, or one finds the connection the
other returned; with three connections one can be deleted while both go on. A
user goes on after at most one exception of a transaction (`GoOn`). Endpoints,
acceptors, tasks and addresses are symmetric: nothing but equality is asked of
them. Symmetry is used in runs without liveness properties only.

Three rules are a path, one that hides it and one that shares a node with
either; two requests are what a second one finds of the first. Three posts into
a workset of two places make one drop out while the picture is copied, and two
lives let the second load what the first has written; the counters a longer
history would add repeat these states. Of the two books one has a row to spare
and fills its entry; the other, which the database refuses, has more bids than
half its rows and an ask below them. A volume of 16 bytes holds two short
records or a longer one, so that three records rotate once or twice, and three
lives let a Dumper find what a crash left in a crash's volume. Three failures
hit the connection and both listeners, or one of them again while main is
bringing it back.

The thirteen pictures are one for each colour type and depth that is chosen, with and
without a key and with palettes of 2 and 4 bits; their widths leave bits to
pad, and one has a single pixel, so that six passes of Adam7 are empty. The
largest fills three blocks and five windows, so that chains are overwritten and followed
across the end of a block; all of it is far below 2048, the code's window, for
which `WindowSize`, `NiceMatch`, `MinBlock`, `MaxBlock` and `MaxStored` stand.
Each kind of file fault happens at most once; foreign chunk and damage together.
The alphabets are all of five symbols with frequencies 0, 1, 3 and 8, and eight
Fibonacci weights, whose unlimited code is longer than two of its three limits.

The modules of lodepng were also compared with the code itself, built with the
same window and match length: for every picture and setting, with the code's block
sizes, the 65 files are equal byte for byte, and of the 1303 files that `picture`
reads, whole or not, the code returns the same pixels or the same error number.

### Fairness

- `RWLock`: a thread inside a call, or holding the lock, keeps running (weak
  fairness of each thread's progress). Nobody has to call.
- `Workset`: threads inside a call run on; a subscriber that holds a handle
  keeps polling and is not for ever refused a lock that is free again and again
  (strong fairness of taking the lock). The last is more than `rw_lock` itself
  guarantees: `FreshReaderAdmitted` says when it does.
- `HttpConnection`: the threads of the io_service keep running the coroutine
  until the service is stopped, handlers return, and a client that began a
  request finishes it. Nothing is assumed of timers, of `stop()`, or of a client
  starting or closing. `Server::stop()` leaves the coroutines one second
  (`server.cpp:176`); nothing makes that enough, so that `StopEndsLoop` and
  `EachSentIsServed` have the stopped service as a further outcome.
- `Sqldb`: the io_service's threads keep running the tasks.
- `DemoManager`: the threads run the writer, the picture, requests that have been
  received and the shutdown, some step as long as any can be taken, and while
  none of them spins for a database connection. One that does would leave the
  others running, but may be the only one (`manager-main.cpp` takes the number
  from its configuration), so that `WorkEnds` ends there. Nothing is assumed of requests, crashes or signals to
  come; a spinning `try_pop` gets the lock in the end, which is `Workset`'s.
- `Png`: none. `CallsReturn` is a variant instead: each step gets to a later
  stage or has less left to do in its own, which says more than a liveness
  property and costs less to check.
- `OrderbookDumper`: main never stops; a connection that is opening becomes
  active unless it fails; a listener for which `process()` is called again and
  again becomes active (strong fairness, the gateway's promise).

Deadlock is checked where the system cannot stop (`RWLock`, `Workset`) and not
in the others: servers end, clients fall silent, and bounds are reached.

## 4. Proofs

| theorem | for every | says |
|---|---|---|
| `RWLockProofs!MutualExclusionHolds` | finite set of threads, number of attempts | type correctness, the word counts holders, exclusion |
| `RWLockProofs!RWLockRefinement` | the same | `RWLock` implements `RWLockSpec` |
| `WorksetProofs!IndexesAreSound` | publishers, subscribers, capacity, number of pushes | indexes follow pops, `num_available` is a promise |
| `WorksetProofs!WorksetRefinement` | the same | `Workset` implements `WorksetLog` |
| `HttpServerProofs!ObjectsAreHeldOnce` | finite sets of endpoints and acceptors, connections, number of starts | types, `HeldOnce`, `PoolKeyIsId` |
| `HttpServerProofs!ObjectsAreKept`, `!ServedIsNotQueued` | the same | `NothingLost`; `QueuedIsFinished` |
| `HttpConnectionProofs!AnswersAreSound` | number of requests and of connections | types, `AnsweredInOrder`, `CloseIsLast`, `OkIsInTime` |
| `SqldbProofs!ConnectionsHaveOneOwner`, `!PoolIsIdle` | tasks, connections, numbers of transactions and statements | types, `OneOwner`; `PooledIsIdle` |
| `SqldbProofs!TransactionsAreAtomic` | the same | `CommitKeepsAll`, `AllOrNothing` |
| `DemoManagerProofs!PostsStayInOrder`, `!AnsweredPostsAreSecured`, `!PreloadFindsTheNewest` | books, workers, capacity, numbers of posts, pictures and lives | types, `InOrder`; `NoSilentLoss`; `PreloadedIsNewest` |
| `DemoManagerProofs!RestartRoundsEntries`, `!ColumnsAreDrawnByPrice` | the same, books of any size, units and aliases | `LoadedIsRounded`; `DrawnByPrice` |
| `HttpRequestProofs!ParsersMakeWhatWasSent`, `!CutUrlsLeaveATail` | rules, requests and ways to cut them into reads | types, `ParsedIsSent`; `CutUrlIsTail` |
| `HttpRequestProofs!RoutesAreChosen` | the same | `RouteIsChosen` |
| `DumperProofs!WhatIsHandledIsRecorded`, `!ReplaysAreInOrder`, `!NoCallbackIsDropped` | sizes of volumes and records, numbers of callbacks and lives | types, `HandledIsRecorded`; `ReplayInOrder`; `NothingDropped` |
| `DumperProofs!DumperRefinement` | the same | `Dumper` implements `DumperLog` |
| `DumperProofs!ReplaysCallWhatWasLive` | numbers of listeners, failures and messages | types, `ReplayIsLive` |

The assumptions are those of the modules: a finite set of threads (`RWLock`),
disjoint sets of handles and a positive capacity (`Workset`, `DemoManager`), at
least one connection (`HttpConnection`), finite sets of endpoints and acceptors
and values outside the sets for "none" (`HttpServer`, `Sqldb`), at least one
listener (`OrderbookDumper`), a positive unit of rounding, books of prices that
differ when rounded and that fit their entry
(`DemoManager`; only the theorems on entries use it), requests that consist of
strings, like the paths of rules, with a URL that is one (`IsUrl`) and headers
that have a name (`HttpRequest`), and volumes with room for any record (`Dumper`). Bounds on
numbers of events are any natural numbers.

*The lock.* Exclusion is not inductive: an exchange that expects n and finds n
says nothing about a writer unless the word counts the holders. `LockInv` adds
that, and that a thread in `reader_try_lock` has an attempt left. Lemmas say how
the two holder sets change when a thread enters or leaves; then each action is a
case. The refinement is the same case split.

*The workset.* `WorksetInv` adds to the properties who holds the lock at which
place (`LockDiscipline`), how far the buffer is filled, and that nobody popped
what was not pushed. `Gone` counts the entry about to be overwritten from the
moment the indexes have been shifted, which is what makes the invariant hold
between the two steps of a push. The refinement needs that the entry at a
subscriber's index is the next one after its last (`NextEntry`).

*The request loop.* That answers are in order says nothing of where the next
one comes from. `LoopInv` follows a request along its way: the wire keeps the
client's order (`WireInOrder`), what the coroutine has read comes before what is
still on the wire (`RequestInOrder`), what was answered is past, that is sent
whole and off the wire, and older than what is being read or served
(`AnswersArePast`); all of that was sent on the connection it is served on, for
which the handler, once there is one, has been made ready (`OriginIsKept`); `drop` remembers a wish to close from the moment the timer
is armed. For `OkIsInTime`, `OverrunIsSeen` says that an expiry that ran during
the current request is still told by `timeout_occurred_`, which only the next
turn of the loop clears. There is one lemma per kind of step (nothing changes
but the timer, a turn of the loop, serving, sending, reading, writing, reuse),
and the types are proved by parts.

*The server's containers.* `HeldOnce` counts places and is not inductive: an
acceptor that inserts what it holds must know that nobody else does. `ServerInv`
says it without cardinalities (`HeldApart`, `HeldLive`; `OnePlace` leads back),
with what an acceptor has at each of its locations. That pool entries are
different objects is no conjunct of its own: it follows from `PoolKeyIsId`. For
`NothingLost` and `QueuedIsFinished` it adds that acceptors deal with different
endpoints whose entries are free (`EndpointsApart`), and that an object has one
coroutine before `schedule_connection_delete` at most and is in the pool until
that takes it out (`ServedArePooled`); both end with `returned`.

*The pool of database connections.* `SqldbInv` has ownership without
cardinalities (`OwnersApart`, `OwnedIsLive`) and, for each task, what its place
in the code means: whether it has a connection (`Shape`), when no transaction is
open on it (`Outside`), that no statement counts twice (`Counted`), and, for a
user who stops at the first exception, that all statements so far are in the
open transaction of its connection or nothing is durable (`Transacted`). A step
of one task leaves the others alone because connections are apart; a late
timeout handler only sets a flag. Shrinking and closing remove a prefix of the
pool, which the lemmas on suffixes say. `LostInv` is about what
`async_get_connection` loses: nobody has it any more, and it is bad, because its
timeout has occurred or because a socket that is already open while a connection
is made is that of an attempt that failed (`Retrying`).

*The service.* Table, entry being written and queue are one line (`InLine`)
along which posts move; a worker that has a post has not answered it (`Held`),
so that no post received later can have seen its answer: this is why it may go
to the end of the line and of the workset. `Secured` is `NoSilentLoss` in terms
of the line. `Unready` says that nothing is held, queued or drawn before the
factory is ready, so that the table stays as the preload's query found it
(`Loading`), and the workset begins with it (`Loaded`).

*The entries.* The request brings the rows in any order, the query in that of
their prices, and each writer sorts them. `Ranked` puts rows with different
prices into places that are taken once each (`PlacesAreDistinct`,
`PlacesAreTaken`, `RankedPlaces`), and what it makes depends on the set of rows
alone (`RankedForgets`), so that the query's order leaves no trace
(`LoadedEntryIs`). Rounding keeps the order of numbers and their signs
(`RoundedGrows`), so that a stored row has the place of the posted one
(`RankedRounds`, `CellsRound`). The same lemmas order the cells of a column.

*A request.* `Reading` says what the message and the header at hand are after
any number of pieces: the front of what was sent that has been fed, with a
header that waits for the next one before it is stored (`Pending`); and, cut or
not, that once the URL has been fed the message has that of a rear part of it
(`UrlIsTail`), the whole one if no read ended in it, because then `on_url` is
called once. There is one lemma for how much
each kind of piece adds and one for its callback. `TreeOfRules` says the same
of `set`: every node is the beginning of a rule, named by one that goes through
it, with the handler of the latest rule that ends there. `Routing` is the loop of
`get`: the walk is at a node of every rule that leads to the path, and no rule
that goes through that node has been left on the way, because a name is taken
before a parameter (`RulesGoDown`); `ParamsAreLast` is what it has collected.
At the last token the rules at the node are those that lead to the path.

*The dumper.* `DumperInv` says of which volume each place in the code speaks
(`Located`), where the position is meanwhile (`Placed`), and that callbacks are
stored in rising order up to it (`Stores`, `Sorted`), so that what is still to
be read is newer than what has been (`Reading`), also when an aborted replay
has led a destructor into the middle of the volumes. `Sizing` follows volumes
without their size. This is not enough for the refinement, which says that
nothing is left out: `ChainInv` has a chain of links through the volumes, each
a record that begins where the last one ends or at the head of the next volume
if the last one fills its own, that counts the callbacks and ends at the
position of the last volume (`Chained`). Every step keeps the links (`Grows`),
`Publish` adds one, and the two checks of `read_next`, one of which is made in
the next volume, lead from each link to the next (`NextLink`); that is false of
a volume that has a position below its header, which `Begun` excludes. The chain
is quantified, not a variable: TLC was given it as a walk through the volumes.

*The gateway.* The files are worth what three switches agree on: from a message
to a callback, to a type of record, and back (`RoundTrip`, by cases). The
invariant is that a file, put through the last one, is what was called live.

Each inductive invariant was checked by TLC, on the instances of section 3 or
smaller ones, before it was proved.

Only model-checked, and why:

- `WorkEnds`, `ComesBack`, `EachSentIsServed`, `StopEndsLoop`, `TryLockReturns`,
  `FreshReaderAdmitted` and `Drained`: they are about what happens in the end,
  and liveness under fairness is out of the prover's reach.
- `PictureSurvives`, `MatchesAreTrue`, `CodesAreOptimal` and the variant
  `CallsReturn`: the codec has recursive operators, for which the prover has no
  arithmetic, and what they compute for every input needs induction over data.

## 5. What is not modelled, and the plan

What would add most, in order:

1. Proofs of abstract specifications still to be stated: of the server's
   containers and of the database's pool as sets of objects, of the service as a
   log of posts.
2. The prepared statements of `sqldb::Connection`, and the conversions of
   `sqldb::Parameter` and `Result`.
3. The shrink formula of `Database`.

Left out, and why:

- demo-manager: `persist_to_database` is taken to be set, a workset that is
  loaded for one picture is a workset nobody else sees, and the ids of
  `orderbook_log` are places in `table`. The order in which main destroys queue, workset and
  database, after all threads have been joined, meets no other actor.
- `http::Parser` for responses and for the chunked encoding: nothing in the
  program parses a response, and the callbacks of chunks are uninitialized
  pointers.
- copies and moves of values, accessors, text conversions, the statistics and
  the drawing, random numbers and signal processing: no state that two
  steps share.
- lodepng beyond what the program asks of it (8-bit RGBA, default settings) and
  the nearest alternatives (interlacing, other blocks, no filters): 16-bit
  samples, text and other ancillary chunks, the filter strategies by entropy,
  by trial and predefined, failed allocations and the errors only they can
  cause, and what a caller's own decompressor would do.
- alorgate, the C# gateway: which of its handlers is called when, with which
  rows and on which thread is decided by the terminal's library, which is not in
  the repository; a model would be one of that library.
- constructors and moves of the cgatepp wrappers, one call of the exchange's C
  library each; other vendored code.
- `Connection` objects that are used after they were deleted are undefined
  behaviour; the models have the states where that can begin (a connection
  queued while it is served, after `returned`, and `KillMark` after `DeleteTick`
  in `HttpServer`; `TimeoutHandler`
  in `Sqldb`) and do not follow it.

## 6. Where the code and its texts disagree

| run | text | what the run shows |
|---|---|---|
| `http_connection_pipeline` | `parser.cpp:281`, pipelined requests | requests in the rest of a buffer are dropped |
| `sqldb_timeout` | `settings.hpp:13`, timeout for connection creation | after it, the creation never ends |

More were noticed while modelling and have no run of their own.

- An endpoint that connects again before its old pool entry is gone replaces that
  entry (`server.cpp:101`); the old connection's `kill()` then queues the new one,
  and the timer deletes it while it is served, although it is to delete
  "connections which are dead" (`settings.hpp:50`). In `HttpServer`,
  `QueuedIsFinished` without its `~returned` shows it.
- `kill()` sets `deletion_sheduled_` after the object is visible to acceptors
  and to the delete timer (`connection.cpp:235-236`). If the timer runs between
  the two lines (`DeleteTick` between `KillSchedule` and `KillMark`), the flag is
  written to a deleted object; no property of `HttpServer` forbids that. An
  acceptor that reuses it at once has its flag set again, and its own `kill()` does
  nothing. Nothing removes that connection from the pool before `stop()`.
- The expiry of an answered request, already queued when `cancel()` is called,
  fails the next one; `settings.hpp:40` speaks of the "timeout for HTTP request
  processing".
- `on_url` (`parser.cpp:209`) makes a `Url` of each fragment alone. A URL that a
  read cuts before a slash, a "*" or a scheme is parsed from there on, and the
  request is handled for that path: `/a?x=/b` for `/b`. One cut exactly at its
  end becomes empty, and the request is handled for the root; cut elsewhere, it
  closes the connection. `CutUrlIsTail` says that no more can happen. A header
  without a value lends its name to the next one.
- `add_orderbook` answers 200 before anything is written. An order book that the
  database refuses (an unknown security, no rows) ends the process, and what is
  in the queue at a shutdown is lost.
- The preload's inner query compares timestamps with the capacity of the
  workset, and takes `alias_id` for the id, so that an entry changes its security
  with a restart (`Restored`). Six decimals are kept of each number.
- After a timed-out connection to the database the writer or the preload spins at
  `database.cpp:73`; the thread does nothing else, and `main` cannot join it.
- `async_get_connection` asks a pooled connection for its status twice
  (`database.cpp:55` and `60`). If the timeout handler runs in between, the object
  is neither deleted nor taken, and the next one overwrites the pointer. So does
  the exception of a second `async_connect`; the objects and their server
  sessions are leaked (`abandoned`).
- A `Dumper` killed between creating a volume and sizing it leaves one that
  every later constructor refuses.
- `Database::return_connection` appends whatever `max_connections_limit` says
  ("maximum size of connection pool", `settings.hpp:21`); nothing reads that
  setting.
- A reused connection object keeps its handler and only resets it, against
  `settings.hpp:42` ("new handler instance per new connection").
- An exception in an acceptor, such as that of `remote_endpoint()` for a peer
  that has already gone, leaves `io_service::run()` and ends the process
  (`AcceptorThrows`).

- "Color key cannot be used if an opaque pixel also has that RGB color"
  (`lodepng.cpp:3652`); only the pixels behind the first transparent one are
  looked at, and those before it come back transparent. The heatmap of the
  program is opaque throughout.
- `decodeGeneric` checks the CRC "only on known chunk types" (`lodepng.cpp:4599`);
  the flag `unknown` stays set, so that no later chunk is checked either.
- `getPaletteTranslucency` never returns its documented 1, `readChunk_tRNS`
  returns other numbers than `lodepng_error_text` has for its errors, and
  `lodepng_encode` ignores the error of `preProcessScanlines`.

## 7. Running

    tlc -config MCSqldb.cfg MCSqldb.tla
    tlapm RWLockProofs.tla

Each `MC*.tla` goes with the `.cfg` files of the same name and a suffix.
`PROJECT.json` says which run checks which properties, which lines each
definition models, and for each property a defect of the code (`A defect: ...`
in the modules) that the run notices.
