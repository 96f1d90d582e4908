--------------------------- MODULE HttpConnection ---------------------------
(***************************************************************************)
(* The request loop of one http::Connection object, over the connections   *)
(* it is used for one after another (platform/http/src/connection.cpp,     *)
(* aux::timeout_guard).                                                    *)
(*                                                                         *)
(* A request is two pieces on the wire, its head and its tail; a read      *)
(* returns any prefix of what has arrived.  The loop's coroutine runs on   *)
(* the connection's strand; the client, the timer, timeout_handler (which  *)
(* is not bound to the strand) and Server::stop run beside it.  Between    *)
(* two sessions HttpServer hands the object from its queue to an acceptor. *)
(***************************************************************************)
EXTENDS Integers, Sequences, FiniteSets

CONSTANTS MaxRequests, \* bound on the requests sent, over all sessions
          MaxSessions  \* bound on the connections the object is used for

ASSUME BoundsAssumption == MaxRequests \in Nat /\ MaxSessions \in Nat \ {0}

VARIABLES
    session,  \* the connection the object serves, counted from 1
    base,     \* requests sent in earlier sessions
    sent,     \* requests whose head was sent, over all sessions
    origin,   \* the session that each request was sent in, 0 before it is
    half,     \* the tail of the last one is still to be sent
    peer,     \* the client's end is open
    pipelines, \* does the client send before it has the last answer?
    wire,     \* pieces sent and not read yet
    answers,  \* what the client has received
    socket_, running_, timeout_occurred_, \* members of Connection
    handler_, \* sessions the request handler was created in and last reset in
    ready_,   \* of the handler factory: create_handler does not return null
    io_service_, \* of the server: its threads run what is posted
    wait,         \* the request whose timeout is awaited, 0 for none
    completions,  \* requests whose timeout has been passed to timeout_handler
    overrun,      \* requests timeout_handler ran for while they were processed
    co            \* the coroutine and its locals

client == <<session, base, sent, origin, half, peer, pipelines>>
flags == <<socket_, running_, timeout_occurred_>>
server == <<handler_, ready_, io_service_>>
timer == <<wait, completions, overrun>>
vars == <<client, wire, answers, flags, server, timer, co>>

\* request: the one being received or processed, 0 for none; close: does it
\* ask to close the connection; drop: drop_connection_after_response.
Begun == [pc |-> "start", request |-> 0, close |-> FALSE, drop |-> FALSE,
          result |-> "none"]

Init ==
    /\ session = 1 /\ base = 0 /\ sent = 0 /\ half = FALSE /\ peer = TRUE
    /\ origin = [r \in 1 .. MaxRequests |-> 0]
    /\ pipelines \in BOOLEAN
    /\ wire = <<>> /\ answers = <<>>
    /\ socket_ = TRUE /\ running_ = TRUE /\ timeout_occurred_ = FALSE
    /\ handler_ = [created |-> 0, reset |-> 0] /\ ready_ \in BOOLEAN /\ io_service_ = TRUE
    /\ wait = 0 /\ completions = {} /\ overrun = {}
    /\ co = Begun

-----------------------------------------------------------------------------
\* The client sends a request, in two pieces, and may close at any time.
Answered(r) == \E i \in 1 .. Len(answers) : answers[i].req = r

Piece(r, part, close) == [req |-> r, part |-> part, close |-> close]

SendHead ==
    /\ peer /\ ~half /\ sent < MaxRequests
    /\ pipelines \/ sent = base \/ Answered(sent)
    /\ sent' = sent + 1 /\ half' = TRUE
    /\ origin' = [origin EXCEPT ![sent'] = session]
    /\ \E close \in BOOLEAN : wire' = Append(wire, Piece(sent', "head", close))
    /\ UNCHANGED <<session, base, peer, pipelines, answers, flags, server, timer, co>>

SendTail ==
    /\ peer /\ half
    /\ half' = FALSE
    /\ wire' = Append(wire, Piece(sent, "tail", FALSE))
    /\ UNCHANGED <<session, base, sent, origin, peer, pipelines, answers, flags,
                   server, timer, co>>

ClientCloses ==
    /\ peer
    /\ peer' = FALSE
    /\ UNCHANGED <<session, base, sent, origin, half, pipelines, wire, answers,
                   flags, server, timer, co>>

\* Server::stop, in another thread, calls stop() on the connection.
Stop ==
    /\ running_' = FALSE
    /\ socket_' = FALSE
    /\ wait' = 0

ServerStop ==
    /\ co.pc # "ended" /\ io_service_
    /\ Stop
    /\ UNCHANGED <<client, wire, answers, timeout_occurred_, server,
                   completions, overrun, co>>

\* A second after its loop over the pool, Server::stop stops the io_service,
\* wherever the coroutine is, of a connection accepted since then too.
IoStop ==
    /\ io_service_
    /\ io_service_' = FALSE
    /\ UNCHANGED <<client, wire, answers, flags, handler_, ready_, timer, co>>

\* The workset is loaded: RequestHandlerFactory::set_ready(true).
BecomeReady ==
    /\ ~ready_
    /\ ready_' = TRUE
    /\ UNCHANGED <<client, wire, answers, flags, handler_, io_service_, timer, co>>

-----------------------------------------------------------------------------
\* timeout_guard cancels what is awaited, not what has been passed on.
TimerExpires ==
    /\ wait # 0
    /\ wait' = 0
    /\ completions' = completions \cup {wait}
    /\ UNCHANGED <<client, wire, answers, flags, server, overrun, co>>

Processing == co.pc \in {"create", "process", "check"}

TimeoutHandler(r) ==
    /\ r \in completions
    /\ completions' = completions \ {r}
    /\ timeout_occurred_' = TRUE
    /\ overrun' = IF Processing /\ co.request = r THEN overrun \cup {r} ELSE overrun
    /\ UNCHANGED <<client, wire, answers, socket_, running_, server, wait, co>>

-----------------------------------------------------------------------------
\* The coroutine of Connection::start.  An exception in what it does on the
\* socket or in a handler's reinit ends the loop.
Fails(pc) ==
    /\ co.pc = pc
    /\ co' = [co EXCEPT !.pc = "kill"]
    /\ UNCHANGED <<client, wire, answers, flags, server, timer>>

\* A defect: the handler of the last connection is used as it is.
BeginKeepsHandler ==
    /\ co.pc = "start"
    /\ co' = [co EXCEPT !.pc = "loop"]
    /\ UNCHANGED <<client, wire, answers, flags, server, timer>>

\* A handler that an earlier connection left is made ready for this one.
Begin ==
    /\ co.pc = "start"
    /\ handler_' = IF handler_.created = 0 THEN handler_
                   ELSE [handler_ EXCEPT !.reset = session]
    /\ co' = [co EXCEPT !.pc = "loop"]
    /\ UNCHANGED <<client, wire, answers, flags, ready_, io_service_, timer>>

\* A defect: the parser keeps the last request, and stays complete.
LoopKeepsParser ==
    /\ co.pc = "loop" /\ socket_ /\ running_
    /\ co' = [co EXCEPT !.pc = IF co.request = 0 THEN "read" ELSE "arm", !.result = "none"]
    /\ timeout_occurred_' = FALSE
    /\ UNCHANGED <<client, wire, answers, socket_, running_, server, timer>>

\* One turn of the loop begins: parser, request, response and flag are reset.
Loop ==
    /\ co.pc = "loop" /\ socket_ /\ running_
    /\ co' = [Begun EXCEPT !.pc = "read", !.drop = co.drop]
    /\ timeout_occurred_' = FALSE
    /\ UNCHANGED <<client, wire, answers, socket_, running_, server, timer>>

LoopEnds ==
    /\ ~socket_ \/ ~running_
    /\ Fails("loop")

\* A defect: every read begins a new request, and an unfinished one is lost.
FeedAnew(pieces) ==
    IF Len(pieces) >= 2 /\ pieces[1].part = "head"
    THEN [co EXCEPT !.request = pieces[1].req, !.close = pieces[1].close, !.pc = "arm"]
    ELSE co

\* What the parser makes of the pieces read: it stops at the end of a request
\* and the rest of the buffer is not looked at.
Feed(pieces) ==
    LET head == IF co.request = 0 THEN pieces[1] ELSE Piece(co.request, "head", co.close)
        whole == \E i \in 1 .. Len(pieces) : pieces[i].part = "tail"
    IN IF head.part = "tail"
       THEN [co EXCEPT !.pc = "kill"]
       ELSE [co EXCEPT !.request = head.req, !.close = head.close,
                       !.pc = IF whole THEN "arm" ELSE "read"]

Read ==
    /\ co.pc = "read" /\ socket_
    /\ \E n \in 1 .. Len(wire) :
          /\ co' = Feed(SubSeq(wire, 1, n))
          /\ wire' = SubSeq(wire, n + 1, Len(wire))
    /\ UNCHANGED <<client, answers, flags, server, timer>>

\* A defect: only the end of the stream ends a read, not stop().
ReadFailsAtEof ==
    /\ ~peer /\ wire = <<>>
    /\ Fails("read")

\* The socket was closed, or the peer is gone (a reset can overtake data).
ReadFails ==
    /\ ~socket_ \/ ~peer
    /\ Fails("read")

\* A defect: the request's wish to close is forgotten.
ArmKeepsOpen ==
    /\ co.pc = "arm"
    /\ wait' = co.request
    /\ co' = [co EXCEPT !.pc = IF handler_.created = 0 THEN "create" ELSE "process"]
    /\ UNCHANGED <<client, wire, answers, flags, server, completions, overrun>>

\* The request is complete; timeout_guard replaces whatever was awaited.
Arm ==
    /\ co.pc = "arm"
    /\ wait' = co.request
    /\ co' = [co EXCEPT !.pc = IF handler_.created = 0 THEN "create" ELSE "process",
                        !.drop = co.drop \/ co.close]
    /\ UNCHANGED <<client, wire, answers, flags, server, completions, overrun>>

\* The try block is left: the guard's destructor cancels the timer.
Respond(result) ==
    /\ wait' = 0
    /\ co' = [co EXCEPT !.pc = "write", !.result = result]
    /\ UNCHANGED <<completions, overrun>>

Create ==
    /\ co.pc = "create" /\ ready_
    /\ handler_' = [created |-> session, reset |-> session]
    /\ co' = [co EXCEPT !.pc = "process"]
    /\ UNCHANGED <<client, wire, answers, flags, ready_, io_service_, timer>>

NotReady ==
    /\ co.pc = "create" /\ ~ready_
    /\ Respond("not ready")
    /\ UNCHANGED <<client, wire, answers, flags, server>>

\* A defect: the flag is reset after the handler's work instead of before it.
ProcessThenReset ==
    /\ co.pc = "process"
    /\ co' = [co EXCEPT !.pc = "check"]
    /\ timeout_occurred_' = FALSE
    /\ UNCHANGED <<client, wire, answers, socket_, running_, server, timer>>

\* handler_->process_request returns, or throws.
Process ==
    /\ co.pc = "process"
    /\ co' = [co EXCEPT !.pc = "check"]
    /\ UNCHANGED <<client, wire, answers, flags, server, timer>>

ProcessThrows ==
    /\ co.pc = "process"
    /\ Respond("error")
    /\ UNCHANGED <<client, wire, answers, flags, server>>

CheckTimeoutOccurred ==
    /\ co.pc = "check"
    /\ Respond(IF timeout_occurred_ THEN "timeout" ELSE "ok")
    /\ UNCHANGED <<client, wire, answers, flags, server>>

\* async_write: the answer reaches a peer that is still there.
Write ==
    /\ co.pc = "write" /\ socket_
    /\ answers' = IF ~peer THEN answers
                  ELSE Append(answers, [ses |-> session, req |-> co.request,
                                        close |-> co.close, result |-> co.result])
    /\ co' = [co EXCEPT !.pc = IF co.drop THEN "kill" ELSE "loop"]
    /\ UNCHANGED <<client, wire, flags, server, timer>>

WriteFails ==
    /\ ~socket_ \/ ~peer
    /\ Fails("write")

\* kill(): stop(); the object goes to the server's delete queue.
Kill ==
    /\ co.pc = "kill"
    /\ Stop
    /\ co' = [co EXCEPT !.pc = "ended"]
    /\ UNCHANGED <<client, wire, answers, timeout_occurred_, server,
                   completions, overrun>>

\* An acceptor takes the object from the queue: reinit() and start().
Reuse ==
    /\ co.pc = "ended" /\ session < MaxSessions
    /\ session' = session + 1
    /\ base' = sent /\ half' = FALSE /\ peer' = TRUE /\ wire' = <<>>
    /\ socket_' = TRUE /\ running_' = TRUE /\ timeout_occurred_' = FALSE
    /\ co' = Begun
    /\ UNCHANGED <<sent, origin, pipelines, answers, server, timer>>

-----------------------------------------------------------------------------
Client == SendHead \/ SendTail \/ ClientCloses

\* What other threads of the program do.
Program == ServerStop \/ IoStop \/ BecomeReady

Coroutine ==
    /\ io_service_
    /\ \/ Begin
       \/ Fails("start")
       \/ Loop
       \/ LoopEnds
       \/ Read
       \/ ReadFails
       \/ Arm
       \/ Create
       \/ NotReady
       \/ Process
       \/ ProcessThrows
       \/ CheckTimeoutOccurred
       \/ Write
       \/ WriteFails
       \/ Kill

\* What else the io_service's threads run.
Handlers ==
    /\ io_service_
    /\ \/ TimerExpires
       \/ \E r \in 1 .. MaxRequests : TimeoutHandler(r)
       \/ Reuse

Next == Client \/ Program \/ Coroutine \/ Handlers

Spec == Init /\ [][Next]_vars

\* The io_service's threads keep running the coroutine until the service is
\* stopped (handlers return), and a client that began a request finishes it.
FairSpec == Spec /\ WF_vars(Coroutine) /\ WF_vars(SendTail)

-----------------------------------------------------------------------------
Results == {"ok", "timeout", "error", "not ready"}

TypeOK ==
    /\ session \in 1 .. MaxSessions
    /\ base \in 0 .. MaxRequests /\ sent \in base .. MaxRequests
    /\ origin \in [1 .. MaxRequests -> 0 .. MaxSessions]
    /\ half \in BOOLEAN /\ peer \in BOOLEAN /\ pipelines \in BOOLEAN
    /\ wire \in Seq([req : 1 .. MaxRequests, part : {"head", "tail"}, close : BOOLEAN])
    /\ answers \in Seq([ses : 1 .. MaxSessions, req : 1 .. MaxRequests,
                        close : BOOLEAN, result : Results])
    /\ socket_ \in BOOLEAN /\ running_ \in BOOLEAN /\ timeout_occurred_ \in BOOLEAN
    /\ handler_ \in [created : 0 .. MaxSessions, reset : 0 .. MaxSessions]
    /\ ready_ \in BOOLEAN /\ io_service_ \in BOOLEAN
    /\ wait \in 0 .. MaxRequests
    /\ completions \subseteq 1 .. MaxRequests /\ overrun \subseteq 1 .. MaxRequests
    /\ co \in [pc : {"start", "loop", "read", "arm", "create", "process", "check",
                     "write", "kill", "ended"},
               request : 0 .. MaxRequests, close : BOOLEAN, drop : BOOLEAN,
               result : Results \cup {"none"}]

\* However reads split the stream and whatever else happens, a request is
\* answered once, on the connection it was sent on and after the ones sent
\* before it (connection.cpp:93-98), by a handler that was created or made
\* ready for this connection (connection.cpp:85-88, 119-121).
AnsweredInOrder ==
    /\ TypeOK
    /\ \A i, j \in 1 .. Len(answers) : i < j => answers[i].req < answers[j].req
    /\ \A i \in 1 .. Len(answers) : answers[i].ses = origin[answers[i].req]
    /\ co.pc \in {"process", "check"} => handler_.reset = session

\* The answer to a request that asks to close is the last of its connection,
\* even if the client has sent more (connection.cpp:107-110, 151-154).
CloseIsLast ==
    \A i, j \in 1 .. Len(answers) :
        i < j /\ answers[i].close => answers[i].ses < answers[j].ses

\* A response is good only if timeout_handler did not run while it was being
\* made (connection.cpp:96, 129), stale completions or not.
OkIsInTime ==
    \A i \in 1 .. Len(answers) :
        answers[i].result = "ok" => answers[i].req \notin overrun

\* Whatever is sent whole is answered or its connection is closed, if the
\* client waits for each answer (connection.cpp:90-155), or the program is
\* stopped (server.cpp:178).
EachSentIsServed ==
    \A r \in 1 .. MaxRequests :
        ~pipelines /\ sent = r /\ base < r /\ ~half
            ~> Answered(r) \/ co.pc = "ended" \/ ~io_service_

\* stop() ends the coroutine while the io_service runs: a read or write it
\* waits for fails (connection.cpp:168-175, 90).
StopEndsLoop == ~running_ ~> co.pc = "ended" \/ ~io_service_

\* What the parser says it stops between requests for: "to properly handle
\* HTTP/1.1 pipelined requests" (parser.cpp:256-258, 279-281).  No request is
\* passed over.
NoRequestSkipped ==
    \A i \in 1 .. Len(answers) :
        \A r \in base + 1 .. answers[i].req : answers[i].ses = session => Answered(r)

=============================================================================
