------------------------ MODULE HttpConnectionProofs ------------------------
(***************************************************************************)
(* For any number of requests and of connections that the object is used   *)
(* for: answers go out once, in order and on the connection of their       *)
(* request, a closing one is the last of its connection, and none is good  *)
(* whose timeout has run.                                                  *)
(***************************************************************************)
EXTENDS HttpConnection, SequenceTheorems, TLAPS

\* The order in which a client sends the pieces of its requests.
Before(p, q) ==
    p.req < q.req \/ (p.req = q.req /\ p.part = "head" /\ q.part = "tail")

\* Both pieces of a request were sent, and nothing of it is on the wire.
Past(r) ==
    /\ r <= sent
    /\ half => r < sent
    /\ \A i \in 1 .. Len(wire) : r < wire[i].req

\* The wire keeps the client's order, and holds no tail that is to be sent.
WireInOrder ==
    /\ \A i, j \in 1 .. Len(wire) : i < j => Before(wire[i], wire[j])
    /\ \A i \in 1 .. Len(wire) : wire[i].req <= sent
    /\ half => 0 < sent /\ \A i \in 1 .. Len(wire) : wire[i].part = "tail" => wire[i].req < sent

\* Where the coroutine has a request of which only the head was read, or one
\* that was read to its end.
Reading == co.pc = "read" /\ co.request # 0
Serving == co.pc \in {"arm", "create", "process", "check", "write"}

RequestInOrder ==
    /\ Reading => /\ co.request <= sent
                  /\ \A i \in 1 .. Len(wire) :
                        Before(Piece(co.request, "head", co.close), wire[i])
    /\ Serving => co.request # 0 /\ Past(co.request)
    /\ co.pc = "write" => co.result \in Results

\* What was answered is past, and older than the request being served; an
\* answer that closes leaves the connection no other.
AnswersArePast ==
    /\ \A i \in 1 .. Len(answers) :
          /\ Past(answers[i].req) /\ answers[i].ses <= session
          /\ Reading \/ Serving => answers[i].req < co.request
          /\ answers[i].close /\ answers[i].ses = session => co.pc \in {"kill", "ended"}
    /\ co.pc \in {"create", "process", "check", "write"} => (co.close => co.drop)

\* A request whose timeout has run is past, and timeout_occurred_ tells of the
\* one in process until it is looked at.
OverrunIsSeen ==
    /\ \A r \in overrun : Past(r)
    /\ Reading \/ co.pc = "arm" => co.request \notin overrun
    /\ Processing /\ co.request \in overrun => timeout_occurred_
    /\ co.pc = "write" /\ co.result = "ok" => co.request \notin overrun

\* What is on the wire, in the parser and in process was sent on this
\* connection, and the handler, once there is one, is ready for it.
OriginIsKept ==
    /\ \A i \in 1 .. Len(wire) : origin[wire[i].req] = session
    /\ half => origin[sent] = session
    /\ Reading \/ Serving => origin[co.request] = session
    /\ \A i \in 1 .. Len(answers) : answers[i].ses = origin[answers[i].req]
    /\ co.pc \in {"loop", "read", "arm", "create", "write"} =>
          handler_.created = 0 \/ handler_.reset = session
    /\ co.pc \in {"process", "check"} => handler_.reset = session

LoopInv ==
    /\ TypeOK
    /\ OriginIsKept
    /\ WireInOrder
    /\ RequestInOrder
    /\ AnswersArePast
    /\ OverrunIsSeen
    /\ AnsweredInOrder
    /\ CloseIsLast
    /\ OkIsInTime

Pieces == [req : 1 .. MaxRequests, part : {"head", "tail"}, close : BOOLEAN]
Answers == [ses : 1 .. MaxSessions, req : 1 .. MaxRequests, close : BOOLEAN,
            result : Results]

Coroutines == [pc : {"start", "loop", "read", "arm", "create", "process", "check",
                     "write", "kill", "ended"},
               request : 0 .. MaxRequests, close : BOOLEAN, drop : BOOLEAN,
               result : Results \cup {"none"}]

-----------------------------------------------------------------------------
\* The invariant holds when the acceptor starts the object.
LEMMA LoopInvInit == Init => LoopInv
<1> SUFFICES ASSUME Init PROVE LoopInv
  OBVIOUS
<1>1. Len(wire) = 0 /\ Len(answers) = 0 /\ wire \in Seq(Pieces) /\ answers \in Seq(Answers)
  BY EmptySeq DEF Init
<1>2. TypeOK
  <2>1. /\ session \in 1 .. MaxSessions /\ base \in 0 .. MaxRequests
        /\ sent \in base .. MaxRequests /\ wait \in 0 .. MaxRequests
        /\ completions \subseteq 1 .. MaxRequests /\ overrun \subseteq 1 .. MaxRequests
    BY BoundsAssumption DEF Init
  <2>2. /\ half \in BOOLEAN /\ peer \in BOOLEAN /\ pipelines \in BOOLEAN
        /\ socket_ \in BOOLEAN /\ running_ \in BOOLEAN /\ timeout_occurred_ \in BOOLEAN
        /\ ready_ \in BOOLEAN
    BY DEF Init
  <2>6. origin \in [1 .. MaxRequests -> 0 .. MaxSessions] /\ io_service_ \in BOOLEAN
    BY BoundsAssumption DEF Init
  <2>3. handler_ \in [created : 0 .. MaxSessions, reset : 0 .. MaxSessions]
    BY BoundsAssumption DEF Init
  <2>4. co \in Coroutines
    BY BoundsAssumption DEF Init, Begun, Coroutines
  <2>5. QED
    BY <1>1, <2>1, <2>2, <2>3, <2>4, <2>6 DEF TypeOK, Pieces, Answers, Coroutines
<1>3. WireInOrder /\ RequestInOrder
  BY <1>1 DEF Init, WireInOrder, RequestInOrder, Reading, Serving, Begun
<1>4. AnswersArePast /\ OverrunIsSeen
  BY <1>1 DEF Init, AnswersArePast, OverrunIsSeen, Reading, Processing, Begun
<1>7. OriginIsKept
  BY <1>1 DEF Init, OriginIsKept, Reading, Serving, Begun
<1>5. AnsweredInOrder /\ CloseIsLast /\ OkIsInTime
  BY <1>1, <1>2 DEF Init, Begun, AnsweredInOrder, CloseIsLast, OkIsInTime
<1>6. QED
  BY <1>2, <1>3, <1>4, <1>5, <1>7 DEF LoopInv

-----------------------------------------------------------------------------
\* What is appended comes last, and the rest stays where it is.
LEMMA AppendIsLonger ==
  ASSUME NEW S, NEW s \in Seq(S), NEW e \in S
  PROVE  /\ Append(s, e) \in Seq(S) /\ Len(s) \in Nat /\ Len(Append(s, e)) = Len(s) + 1
         /\ \A i \in 1 .. Len(s) : Append(s, e)[i] = s[i] /\ s[i] \in S
         /\ Append(s, e)[Len(s) + 1] = e
  BY AppendProperties, LenProperties, ElementOfSeq

\* A read takes the first n pieces off the wire (connection.cpp:98-101).
LEMMA Taken ==
  ASSUME wire \in Seq(Pieces), NEW n \in 1 .. Len(wire),
         wire' = SubSeq(wire, n + 1, Len(wire))
  PROVE  /\ wire' \in Seq(Pieces) /\ Len(wire) \in Nat /\ Len(wire') = Len(wire) - n
         /\ \A i \in 1 .. Len(wire') : wire'[i] = wire[n + i] /\ n + i \in 1 .. Len(wire)
         /\ \A i \in 1 .. Len(wire) : wire[i] \in Pieces
<1>1. Len(wire) \in Nat /\ \A i \in 1 .. Len(wire) : wire[i] \in Pieces
  BY LenProperties, ElementOfSeq
<1>2. \A i \in n + 1 .. Len(wire) : wire[i] \in Pieces
  BY <1>1
<1>3. /\ wire' \in Seq(Pieces)
      /\ Len(wire') = IF n + 1 <= Len(wire) THEN Len(wire) - (n + 1) + 1 ELSE 0
      /\ \A i \in 1 .. Len(wire) - (n + 1) + 1 : wire'[i] = wire[(n + 1) + i - 1]
  BY <1>1, <1>2, SubSeqProperties
<1>4. Len(wire') = Len(wire) - n
  BY <1>1, <1>3
<1>5. ASSUME NEW i \in 1 .. Len(wire')
      PROVE  wire'[i] = wire[n + i] /\ n + i \in 1 .. Len(wire)
  BY <1>1, <1>3, <1>4
<1>6. QED
  BY <1>1, <1>3, <1>4, <1>5

\* The pieces a read passes to the parser.
LEMMA Passed ==
  ASSUME wire \in Seq(Pieces), NEW n \in 1 .. Len(wire)
  PROVE  /\ Len(SubSeq(wire, 1, n)) = n
         /\ \A i \in 1 .. n : SubSeq(wire, 1, n)[i] = wire[i] /\ wire[i] \in Pieces
<1>1. Len(wire) \in Nat /\ \A i \in 1 .. Len(wire) : wire[i] \in Pieces
  BY LenProperties, ElementOfSeq
<1>2. \A i \in 1 .. n : wire[i] \in Pieces
  BY <1>1
<1>3. QED
  BY <1>1, <1>2, SubSeqProperties

-----------------------------------------------------------------------------
\* The order of what has been answered changes only when something is.
LEMMA AnswersKept ==
  ASSUME LoopInv, UNCHANGED answers, TypeOK', OriginIsKept'
  PROVE  AnsweredInOrder' /\ CloseIsLast'
  BY DEF LoopInv, AnsweredInOrder, CloseIsLast, OriginIsKept

\* The fields of an answer are numbers.
LEMMA AnswersTyped ==
  ASSUME TypeOK
  PROVE  /\ answers \in Seq(Answers) /\ Len(answers) \in Nat
         /\ \A i \in 1 .. Len(answers) : answers[i] \in Answers
<1>1. answers \in Seq(Answers)
  BY DEF TypeOK, Answers
<1>2. QED
  BY <1>1, LenProperties, ElementOfSeq

\* What is past stays past while the wire only loses pieces.
LEMMA PastKept ==
  ASSUME UNCHANGED <<sent, half, wire>>, NEW r
  PROVE  Past(r)' <=> Past(r)
  BY DEF Past

-----------------------------------------------------------------------------
\* Each kind of step keeps the parts of the invariant that it can disturb.

\* What neither sends, reads nor answers, and leaves the coroutine where it is.
LEMMA AsideStep ==
  ASSUME LoopInv, TypeOK',
         UNCHANGED <<session, sent, origin, half, wire, answers, timeout_occurred_, overrun,
                     handler_, co>>
  PROVE  LoopInv'
<1>7. OriginIsKept'
  BY DEF LoopInv, OriginIsKept, Reading, Serving
<1>1. AnsweredInOrder' /\ CloseIsLast'
  BY <1>7, AnswersKept
<1>2. WireInOrder'
  BY DEF LoopInv, WireInOrder
<1>3. RequestInOrder'
  BY PastKept DEF LoopInv, RequestInOrder, Reading, Serving
<1>4. AnswersArePast'
  BY PastKept DEF LoopInv, AnswersArePast, Reading, Serving
<1>5. OverrunIsSeen'
  BY PastKept DEF LoopInv, OverrunIsSeen, Reading, Processing
<1>6. OkIsInTime'
  BY DEF LoopInv, OkIsInTime
<1>8. QED
  BY <1>7, <1>1, <1>2, <1>3, <1>4, <1>5, <1>6 DEF LoopInv

\* timeout_handler runs for a request that is in process, or for an old one.
LEMMA TimeoutHandlerStep ==
  ASSUME LoopInv, TypeOK', NEW r \in 1 .. MaxRequests, TimeoutHandler(r)
  PROVE  LoopInv'
<1>0. /\ UNCHANGED <<session, sent, origin, half, wire, answers, handler_, co>>
      /\ timeout_occurred_' = TRUE
  BY DEF TimeoutHandler, client, server
<1>8. OriginIsKept'
  BY <1>0 DEF LoopInv, OriginIsKept, Reading, Serving
<1>1. AnsweredInOrder' /\ CloseIsLast'
  BY <1>0, <1>8, AnswersKept
<1>2. WireInOrder'
  BY <1>0 DEF LoopInv, WireInOrder
<1>3. RequestInOrder'
  BY <1>0, PastKept DEF LoopInv, RequestInOrder, Reading, Serving
<1>4. AnswersArePast'
  BY <1>0, PastKept DEF LoopInv, AnswersArePast, Reading, Serving
<1>5. /\ overrun' \subseteq overrun \cup {co.request}
      /\ Processing \/ overrun' = overrun
  BY DEF TimeoutHandler
<1>6. OverrunIsSeen'
  <2>1. \A q \in overrun' : Past(q)'
    BY <1>0, <1>5, PastKept DEF LoopInv, OverrunIsSeen, RequestInOrder, Serving, Processing
  <2>2. QED
    BY <1>0, <1>5, <2>1 DEF LoopInv, OverrunIsSeen, Reading, Processing
<1>7. OkIsInTime'
  <2>1. ASSUME NEW i \in 1 .. Len(answers), Processing
        PROVE  answers[i].req # co.request
    <3>1. answers[i].req \in Int
      BY AnswersTyped DEF LoopInv, Answers
    <3>2. answers[i].req < co.request
      BY <2>1 DEF LoopInv, AnswersArePast, Serving, Processing
    <3>3. QED
      BY <3>1, <3>2
  <2>2. QED
    BY <1>0, <1>5, <2>1 DEF LoopInv, OkIsInTime
<1>9. QED
  BY <1>8, <1>1, <1>2, <1>3, <1>4, <1>6, <1>7 DEF LoopInv

\* What the coroutine does without reading or answering: it ends its loop, or
\* begins the next turn, ...
LEMMA TurnStep ==
  ASSUME LoopInv, TypeOK', UNCHANGED <<session, sent, origin, half, wire, answers, overrun>>,
         co'.pc = "loop" => handler_'.created = 0 \/ handler_'.reset = session,
         co'.pc = "read" => UNCHANGED handler_,
         \/ co'.pc \in {"kill", "ended"}
         \/ co.pc = "start" /\ co'.pc = "loop"
         \/ co.pc = "loop" /\ co'.pc = "read" /\ co'.request = 0
  PROVE  LoopInv'
<1>7. OriginIsKept'
  BY DEF LoopInv, OriginIsKept, Reading, Serving
<1>1. AnsweredInOrder' /\ CloseIsLast'
  BY <1>7, AnswersKept
<1>2. WireInOrder'
  BY DEF LoopInv, WireInOrder
<1>3. RequestInOrder'
  BY DEF RequestInOrder, Reading, Serving
<1>4. AnswersArePast'
  BY PastKept DEF LoopInv, AnswersArePast, Reading, Serving
<1>5. OverrunIsSeen'
  BY PastKept DEF LoopInv, OverrunIsSeen, Reading, Processing
<1>6. OkIsInTime'
  BY DEF LoopInv, OkIsInTime
<1>8. QED
  BY <1>7, <1>1, <1>2, <1>3, <1>4, <1>5, <1>6 DEF LoopInv

\* ... or takes a request that was read one step further.
LEMMA ServeStep ==
  ASSUME LoopInv, TypeOK',
         UNCHANGED <<session, sent, origin, half, wire, answers, overrun, timeout_occurred_>>,
         \/ handler_'.reset = session
         \/ /\ handler_' = handler_
            /\ co'.pc = "process" => handler_.created # 0
            /\ co'.pc = "check" => co.pc = "process",
         co.pc \in {"arm", "create", "process", "check"},
         co'.pc \in {"create", "process", "check", "write"},
         co'.request = co.request, co'.close = co.close,
         co'.drop = IF co.pc = "arm" THEN co.drop \/ co.close ELSE co.drop,
         co'.pc = "write" => /\ co'.result \in Results
                             /\ co'.result = "ok" => co.pc = "check" /\ ~timeout_occurred_
  PROVE  LoopInv'
<1>7. OriginIsKept'
  BY DEF LoopInv, OriginIsKept, Reading, Serving
<1>1. AnsweredInOrder' /\ CloseIsLast'
  BY <1>7, AnswersKept
<1>2. WireInOrder'
  BY DEF LoopInv, WireInOrder
<1>3. RequestInOrder'
  BY PastKept DEF LoopInv, RequestInOrder, Reading, Serving
<1>4. AnswersArePast'
  <2>1. ASSUME NEW i \in 1 .. Len(answers)
        PROVE  /\ Past(answers[i].req)' /\ answers[i].ses <= session
               /\ answers[i].req < co.request
               /\ ~(answers[i].close /\ answers[i].ses = session)
    BY PastKept DEF LoopInv, AnswersArePast, Serving
  <2>2. co'.close => co'.drop
    BY DEF LoopInv, AnswersArePast
  <2>3. QED
    BY <2>1, <2>2 DEF AnswersArePast
<1>5. OverrunIsSeen'
  BY PastKept DEF LoopInv, OverrunIsSeen, Reading, Processing
<1>6. OkIsInTime'
  BY DEF LoopInv, OkIsInTime
<1>8. QED
  BY <1>7, <1>1, <1>2, <1>3, <1>4, <1>5, <1>6 DEF LoopInv

-----------------------------------------------------------------------------
\* What the coroutine writes is new, and follows what it has written.
LEMMA WriteStep ==
  ASSUME LoopInv, TypeOK', Write
  PROVE  LoopInv'
<1> DEFINE a == [ses |-> session, req |-> co.request, close |-> co.close,
                 result |-> co.result]
<1>0. /\ UNCHANGED <<session, sent, origin, half, wire, overrun, handler_>>
      /\ co.pc = "write" /\ co'.pc = IF co.drop THEN "kill" ELSE "loop"
      /\ answers' = answers \/ answers' = Append(answers, a)
  BY DEF Write, client, server, timer, LoopInv, TypeOK
<1>1. CASE answers' = answers
  <2>8. OriginIsKept'
    BY <1>0, <1>1 DEF LoopInv, OriginIsKept, Reading, Serving
  <2>1. AnsweredInOrder' /\ CloseIsLast'
    BY <1>1, <2>8, AnswersKept
  <2>2. WireInOrder'
    BY <1>0 DEF LoopInv, WireInOrder
  <2>3. RequestInOrder'
    BY <1>0 DEF RequestInOrder, Reading, Serving
  <2>4. AnswersArePast'
    BY <1>0, <1>1, PastKept DEF LoopInv, AnswersArePast, Reading, Serving
  <2>5. OverrunIsSeen'
    BY <1>0, PastKept DEF LoopInv, OverrunIsSeen, Reading, Processing
  <2>6. OkIsInTime'
    BY <1>0, <1>1 DEF LoopInv, OkIsInTime
  <2>7. QED
    BY <2>1, <2>2, <2>3, <2>4, <2>5, <2>6, <2>8 DEF LoopInv
<1>2. CASE answers' = Append(answers, a)
  <2> DEFINE n == Len(answers)
  <2>1. /\ n \in Nat /\ Len(answers') = n + 1
        /\ \A i \in 1 .. n : answers'[i] = answers[i] /\ answers[i] \in Answers
        /\ answers'[n + 1] = a
    <3>1. answers \in Seq(Answers)
      BY AnswersTyped DEF LoopInv
    <3>2. a \in Answers
      BY SMTT(30), <1>0 DEF LoopInv, TypeOK, Answers, RequestInOrder, Serving
    <3>3. QED
      BY <1>2, <3>1, <3>2, AppendIsLonger
  <2>2. /\ a.ses = session /\ a.req = co.request /\ a.close = co.close /\ a.result = co.result
        /\ session \in Int /\ co.request \in Int
    BY DEF LoopInv, TypeOK
  <2>3. \A i \in 1 .. n :
          /\ Past(answers[i].req) /\ answers[i].ses <= session
          /\ answers[i].req < co.request
          /\ ~(answers[i].close /\ answers[i].ses = session)
    BY <1>0 DEF LoopInv, AnswersArePast, Serving
  <2>4. \A i \in 1 .. n : answers[i].ses \in Int /\ answers[i].req \in Int
    BY <2>1 DEF Answers
  <2>5. Past(co.request)
    BY <1>0 DEF LoopInv, RequestInOrder, Serving
  <2>6. co.close => co.drop
    BY <1>0 DEF LoopInv, AnswersArePast
  <2> HIDE DEF a
  <2>15. OriginIsKept'
    <3>1. origin[co.request] = session
      BY <1>0 DEF LoopInv, OriginIsKept, Serving
    <3>2. \A i \in 1 .. n + 1 : answers'[i].ses = origin[answers'[i].req]
      BY <2>1, <2>2, <3>1 DEF LoopInv, OriginIsKept
    <3>3. QED
      BY <1>0, <2>1, <3>2 DEF LoopInv, OriginIsKept, Reading, Serving
  <2>7. AnsweredInOrder'
    <3>1. ASSUME NEW i \in 1 .. n + 1, NEW j \in 1 .. n + 1, i < j
          PROVE  answers'[i].req < answers'[j].req
      <4>1. CASE j = n + 1
        BY <2>1, <2>2, <2>3, <3>1, <4>1
      <4>2. CASE j # n + 1
        BY <2>1, <3>1, <4>2 DEF LoopInv, AnsweredInOrder
      <4>3. QED
        BY <4>1, <4>2
    <3>2. QED
      BY <2>1, <2>15, <3>1 DEF AnsweredInOrder, OriginIsKept
  <2>8. CloseIsLast'
    <3>1. ASSUME NEW i \in 1 .. n + 1, NEW j \in 1 .. n + 1, i < j, answers'[i].close
          PROVE  answers'[i].ses < answers'[j].ses
      <4>1. CASE j = n + 1
        BY <2>1, <2>2, <2>3, <2>4, <3>1, <4>1
      <4>2. CASE j # n + 1
        BY <2>1, <3>1, <4>2 DEF LoopInv, CloseIsLast
      <4>3. QED
        BY <4>1, <4>2
    <3>2. QED
      BY <2>1, <3>1 DEF CloseIsLast
  <2>9. WireInOrder'
    BY <1>0 DEF LoopInv, WireInOrder
  <2>10. RequestInOrder'
    BY <1>0 DEF RequestInOrder, Reading, Serving
  <2>11. AnswersArePast'
    <3>1. ASSUME NEW i \in 1 .. n + 1
          PROVE  /\ Past(answers'[i].req) /\ answers'[i].ses <= session'
                 /\ answers'[i].close /\ answers'[i].ses = session' => co'.pc \in {"kill", "ended"}
      <4>1. CASE i = n + 1
        BY <1>0, <2>1, <2>2, <2>5, <2>6, <4>1
      <4>2. CASE i # n + 1
        BY <1>0, <2>1, <2>3, <4>2
      <4>3. QED
        BY <4>1, <4>2
    <3>2. QED
      BY <1>0, <2>1, <3>1 DEF AnswersArePast, Past, Reading, Serving
  <2>12. OverrunIsSeen'
    BY <1>0, PastKept DEF LoopInv, OverrunIsSeen, Reading, Processing
  <2>13. OkIsInTime'
    <3>1. ASSUME NEW i \in 1 .. n + 1, answers'[i].result = "ok"
          PROVE  answers'[i].req \notin overrun
      <4>1. CASE i = n + 1
        BY <1>0, <2>1, <2>2, <3>1, <4>1 DEF LoopInv, OverrunIsSeen
      <4>2. CASE i # n + 1
        BY <2>1, <3>1, <4>2 DEF LoopInv, OkIsInTime
      <4>3. QED
        BY <4>1, <4>2
    <3>2. QED
      BY <1>0, <2>1, <3>1 DEF OkIsInTime
  <2>14. QED
    BY <2>7, <2>8, <2>9, <2>10, <2>11, <2>12, <2>13, <2>15 DEF LoopInv
<1>3. QED
  BY <1>0, <1>1, <1>2

-----------------------------------------------------------------------------
\* What is past stays past when the client sends and when the loop reads.
LEMMA SendStep ==
  ASSUME LoopInv, TypeOK', NEW p \in Pieces, wire' = Append(wire, p),
         UNCHANGED <<session, answers, timeout_occurred_, overrun, handler_, co>>,
         \/ /\ ~half /\ half' = TRUE /\ sent' = sent + 1 /\ p.req = sent + 1 /\ p.part = "head"
            /\ origin' = [origin EXCEPT ![sent + 1] = session]
         \/ /\ half /\ half' = FALSE /\ sent' = sent /\ p.req = sent /\ p.part = "tail"
            /\ origin' = origin
  PROVE  LoopInv'
<1> DEFINE n == Len(wire)
<1>1. /\ n \in Nat /\ Len(wire') = n + 1
      /\ \A i \in 1 .. n : wire'[i] = wire[i] /\ wire[i] \in Pieces
      /\ wire'[n + 1] = p
  <2>1. wire \in Seq(Pieces)
    BY DEF LoopInv, TypeOK, Pieces
  <2>2. QED
    BY <2>1, AppendIsLonger
<1>2. sent \in Int /\ half \in BOOLEAN
  BY BoundsAssumption DEF LoopInv, TypeOK
<1>3. \A i \in 1 .. n : wire[i].req \in Int /\ wire[i].part \in {"head", "tail"}
  BY <1>1 DEF Pieces
<1>4. ASSUME NEW r \in Int, Past(r)
      PROVE  Past(r)'
  <2>1. ASSUME NEW i \in 1 .. n + 1 PROVE r < wire'[i].req
    BY <1>1, <1>2, <1>4, <2>1 DEF Past
  <2>2. QED
    BY <1>1, <1>2, <1>4, <2>1 DEF Past
<1>12. OriginIsKept'
  <2>1. /\ \A r \in Int : r <= sent => origin'[r] = origin[r]
        /\ origin'[p.req] = session
    <3>1. CASE half
      BY <1>2, <3>1 DEF LoopInv, OriginIsKept
    <3>2. CASE ~half
      <4>1. sent + 1 \in 1 .. MaxRequests /\ origin \in [1 .. MaxRequests -> 0 .. MaxSessions]
        BY <3>2, BoundsAssumption DEF LoopInv, TypeOK, Pieces
      <4>2. origin' = [origin EXCEPT ![sent + 1] = session] /\ p.req = sent + 1
        BY <3>2
      <4>3. origin'[sent + 1] = session
        BY <4>1, <4>2
      <4>4. ASSUME NEW r \in Int, r <= sent PROVE origin'[r] = origin[r]
        <5>1. r # sent + 1
          BY <1>2, <4>4
        <5>2. QED
          BY <4>1, <4>2, <5>1
      <4>5. QED
        BY <4>2, <4>3, <4>4
    <3>3. QED
      BY <3>1, <3>2
  <2>2. \A i \in 1 .. n : wire[i].req \in Int /\ wire[i].req <= sent
    BY <1>3 DEF LoopInv, WireInOrder
  <2>3. \A i \in 1 .. n + 1 : origin'[wire'[i].req] = session
    BY <1>1, <2>1, <2>2 DEF LoopInv, OriginIsKept
  <2>4. Reading \/ Serving => co.request \in Int /\ co.request <= sent
    BY DEF LoopInv, TypeOK, RequestInOrder, Past
  <2>5. \A i \in 1 .. Len(answers) : answers[i].req \in Int /\ answers[i].req <= sent
    BY AnswersTyped DEF LoopInv, Answers, AnswersArePast, Past
  <2>6. half' => origin'[sent'] = session
    BY <2>1
  <2>7. QED
    BY <1>1, <2>1, <2>3, <2>4, <2>5, <2>6 DEF LoopInv, OriginIsKept, Reading, Serving
<1>5. AnsweredInOrder' /\ CloseIsLast'
  BY <1>12, AnswersKept
<1>6. WireInOrder'
  <2>1. ASSUME NEW i \in 1 .. n PROVE wire[i].req <= sent /\ Before(wire[i], p)
    BY <1>1, <1>2, <1>3 DEF LoopInv, WireInOrder, Before
  <2>2. ASSUME NEW i \in 1 .. n + 1, NEW j \in 1 .. n + 1, i < j
        PROVE  Before(wire'[i], wire'[j])
    <3>1. CASE j = n + 1
      BY <1>1, <2>1, <2>2, <3>1
    <3>2. CASE j # n + 1
      BY <1>1, <2>2, <3>2 DEF LoopInv, WireInOrder
    <3>3. QED
      BY <3>1, <3>2
  <2>3. \A i \in 1 .. n + 1 : wire'[i].req <= sent'
    BY <1>1, <1>2, <1>3, <2>1
  <2>4. half' => 0 < sent' /\ \A i \in 1 .. n + 1 : wire'[i].part = "tail" => wire'[i].req < sent'
    <3>1. 0 <= sent
      BY BoundsAssumption DEF LoopInv, TypeOK
    <3>2. QED
      BY <1>1, <1>2, <1>3, <2>1, <3>1
  <2>5. QED
    BY <1>1, <2>2, <2>3, <2>4 DEF WireInOrder
<1>7. RequestInOrder'
  <2>1. co.request \in Int
    BY DEF LoopInv, TypeOK
  <2>2. ASSUME Reading
        PROVE  /\ co.request <= sent'
               /\ \A i \in 1 .. n + 1 : Before(Piece(co.request, "head", co.close), wire'[i])
    <3>1. co.request <= sent
      BY <2>2 DEF LoopInv, RequestInOrder
    <3>2. Before(Piece(co.request, "head", co.close), p)
      BY <1>2, <2>1, <3>1 DEF Before, Piece
    <3>3. \A i \in 1 .. n : Before(Piece(co.request, "head", co.close), wire[i])
      BY <2>2 DEF LoopInv, RequestInOrder
    <3>4. QED
      BY <1>1, <1>2, <2>1, <3>1, <3>2, <3>3
  <2>3. QED
    BY <1>1, <1>4, <2>1, <2>2 DEF LoopInv, RequestInOrder, Reading, Serving
<1>8. AnswersArePast'
  <2>1. \A i \in 1 .. Len(answers) : answers[i].req \in Int
    BY AnswersTyped DEF LoopInv, Answers
  <2>2. QED
    BY <1>4, <2>1 DEF LoopInv, AnswersArePast, Reading, Serving
<1>9. OverrunIsSeen'
  <2>1. \A r \in overrun : r \in Int
    BY DEF LoopInv, TypeOK
  <2>2. QED
    BY <1>4, <2>1 DEF LoopInv, OverrunIsSeen, Reading, Processing
<1>10. OkIsInTime'
  BY DEF LoopInv, OkIsInTime
<1>11. QED
  BY <1>5, <1>6, <1>7, <1>8, <1>9, <1>10, <1>12 DEF LoopInv

\* Reading takes the oldest pieces off the wire.
LEMMA ReadStep ==
  ASSUME LoopInv, TypeOK', Read
  PROVE  LoopInv'
<1>0. PICK n \in 1 .. Len(wire) :
          co' = Feed(SubSeq(wire, 1, n)) /\ wire' = SubSeq(wire, n + 1, Len(wire))
  BY DEF Read
<1> DEFINE pieces == SubSeq(wire, 1, n)
           head == IF co.request = 0 THEN pieces[1] ELSE Piece(co.request, "head", co.close)
           whole == \E i \in 1 .. Len(pieces) : pieces[i].part = "tail"
<1>1. /\ UNCHANGED <<session, sent, origin, half, answers, overrun, timeout_occurred_, handler_>>
      /\ co.pc = "read"
  BY DEF Read, client, flags, server, timer
<1>2. wire \in Seq(Pieces) /\ sent \in Int
  BY BoundsAssumption DEF LoopInv, TypeOK, Pieces
<1>3. /\ Len(wire) \in Nat /\ Len(wire') = Len(wire) - n
      /\ \A i \in 1 .. Len(wire') : wire'[i] = wire[n + i] /\ n + i \in 1 .. Len(wire)
      /\ \A i \in 1 .. Len(wire) : wire[i] \in Pieces
  BY <1>0, <1>2, Taken
<1>4. Len(pieces) = n /\ \A i \in 1 .. n : pieces[i] = wire[i] /\ wire[i] \in Pieces
  BY <1>2, Passed
<1>5. \A i \in 1 .. Len(wire) : wire[i].req \in Int /\ wire[i].req # 0 /\ wire[i].part \in {"head", "tail"}
  BY <1>3 DEF Pieces
<1>6. ASSUME NEW r \in Int, Past(r)
      PROVE  Past(r)'
  BY <1>1, <1>3, <1>6 DEF Past
<1>8. WireInOrder'
  <2>1. ASSUME NEW i \in 1 .. Len(wire'), NEW j \in 1 .. Len(wire'), i < j
        PROVE  Before(wire'[i], wire'[j])
    BY <1>3, <2>1 DEF LoopInv, WireInOrder
  <2>2. QED
    BY <1>1, <1>3, <2>1 DEF LoopInv, WireInOrder
<1>9. \A i \in 1 .. Len(answers) : answers[i].req \in Int
  BY AnswersTyped DEF LoopInv, Answers
<1>10. \A r \in overrun : r \in Int
  BY DEF LoopInv, TypeOK
<1>11. OkIsInTime'
  BY <1>1 DEF LoopInv, OkIsInTime
<1>12. co' = IF head.part = "tail"
             THEN [co EXCEPT !.pc = "kill"]
             ELSE [co EXCEPT !.request = head.req, !.close = head.close,
                             !.pc = IF whole THEN "arm" ELSE "read"]
  BY <1>0 DEF Feed
<1>13. CASE head.part = "tail"
  <2>1. co'.pc = "kill"
    BY <1>12, <1>13 DEF LoopInv, TypeOK
  <2>2. RequestInOrder'
    BY <2>1 DEF RequestInOrder, Reading, Serving
  <2>3. AnswersArePast'
    BY <1>1, <1>6, <1>9, <2>1 DEF LoopInv, AnswersArePast, Reading, Serving
  <2>4. OverrunIsSeen'
    BY <1>1, <1>6, <1>10, <2>1 DEF LoopInv, OverrunIsSeen, Reading, Processing
  <2>5. OriginIsKept'
    BY <1>1, <1>3, <2>1 DEF LoopInv, OriginIsKept, Reading, Serving
  <2>6. AnsweredInOrder' /\ CloseIsLast'
    BY <1>1, <2>5, AnswersKept
  <2>7. QED
    BY <1>8, <1>11, <2>2, <2>3, <2>4, <2>5, <2>6 DEF LoopInv
<1>14. CASE head.part # "tail"
  <2>1. co'.pc = (IF whole THEN "arm" ELSE "read") /\ co'.request = head.req
    BY <1>12, <1>14 DEF LoopInv, TypeOK
  \* The request that is read, taken from the wire now or before.
  <2>2. /\ head.req \in Int /\ head.req # 0 /\ head.req <= sent
        /\ \A i \in 1 .. Len(wire) : (i = 1 /\ co.request = 0) \/ Before(head, wire[i])
        /\ \A i \in 1 .. Len(answers) : answers[i].req < head.req
        /\ head.req \notin overrun
        /\ head.part = "head"
    <3>1. CASE co.request = 0
      <4>1. head = wire[1] /\ 1 \in 1 .. Len(wire) /\ head.part = "head"
        BY <1>3, <1>4, <1>5, <1>14, <3>1
      <4>2. \A i \in 1 .. Len(wire) : i = 1 \/ Before(head, wire[i])
        BY <1>3, <4>1 DEF LoopInv, WireInOrder
      <4>3. head.req <= sent
        BY <4>1 DEF LoopInv, WireInOrder
      <4>4. \A r \in Int : Past(r) => r < head.req
        BY <4>1 DEF Past
      <4>5. \A i \in 1 .. Len(answers) : answers[i].req < head.req
        BY <1>9, <4>4 DEF LoopInv, AnswersArePast
      <4>6. head.req \notin overrun
        BY <1>5, <1>10, <4>1, <4>4 DEF LoopInv, OverrunIsSeen
      <4>7. QED
        BY <1>5, <3>1, <4>1, <4>2, <4>3, <4>5, <4>6
    <3>2. CASE co.request # 0
      <4>1. Reading /\ co.request \in Int
        BY <1>1, <3>2 DEF Reading, LoopInv, TypeOK
      <4>2. head = Piece(co.request, "head", co.close)
        BY <3>2
      <4>3. head.req = co.request /\ head.part = "head"
        BY <4>2 DEF Piece
      <4>4. co.request <= sent /\ \A i \in 1 .. Len(wire) : Before(head, wire[i])
        BY <4>1, <4>2 DEF LoopInv, RequestInOrder
      <4>5. \A i \in 1 .. Len(answers) : answers[i].req < co.request
        BY <4>1 DEF LoopInv, AnswersArePast
      <4>6. co.request \notin overrun
        BY <4>1 DEF LoopInv, OverrunIsSeen
      <4>7. QED
        BY <3>2, <4>1, <4>3, <4>4, <4>5, <4>6
    <3>3. QED
      BY <3>1, <3>2
  <2> HIDE DEF head
  <2>3. \A i \in 1 .. Len(wire') : Before(head, wire'[i])
    BY <1>3, <2>2
  <2>4. ASSUME whole
        PROVE  Past(co.request)'
    <3>1. PICK k \in 1 .. n : pieces[k].part = "tail"
      BY <1>4, <2>4
    <3>2. k \in 1 .. Len(wire) /\ wire[k].part = "tail" /\ wire[k].req \in Int
      BY <1>3, <1>4, <1>5, <3>1
    <3>3. head.req <= wire[k].req
      <4>1. CASE Before(head, wire[k])
        BY <2>2, <3>2, <4>1 DEF Before
      <4>2. CASE k = 1 /\ co.request = 0
        BY <1>4, <2>2, <3>1, <4>2 DEF head
      <4>3. QED
        BY <2>2, <3>2, <4>1, <4>2
    <3>4. half => wire[k].req < sent
      BY <3>2 DEF LoopInv, WireInOrder
    <3>5. ASSUME NEW i \in 1 .. Len(wire')
          PROVE  head.req < wire'[i].req
      <4>1. wire'[i] = wire[n + i] /\ n + i \in 1 .. Len(wire) /\ k < n + i
        BY <1>3, <3>5
      <4>2. Before(wire[k], wire[n + i])
        BY <3>2, <4>1 DEF LoopInv, WireInOrder
      <4>3. QED
        BY <1>5, <2>2, <3>2, <3>3, <4>1, <4>2 DEF Before
    <3>6. QED
      BY <1>1, <1>2, <2>1, <2>2, <3>2, <3>3, <3>4, <3>5 DEF Past
  <2>5. RequestInOrder'
    <3>1. CASE whole
      BY <2>1, <2>2, <2>4, <3>1 DEF RequestInOrder, Reading, Serving
    <3>2. CASE ~whole
      <4>1. \A i \in 1 .. Len(wire') : Before(Piece(co'.request, "head", co'.close), wire'[i])
        BY <2>1, <2>2, <2>3 DEF Before, Piece
      <4>2. QED
        BY <1>1, <2>1, <2>2, <3>2, <4>1 DEF RequestInOrder, Reading, Serving
    <3>3. QED
      BY <3>1, <3>2
  <2>6. AnswersArePast'
    <3>1. \A i \in 1 .. Len(answers) : ~(answers[i].close /\ answers[i].ses = session)
      BY <1>1 DEF LoopInv, AnswersArePast
    <3>2. \A i \in 1 .. Len(answers) : Past(answers[i].req)' /\ answers[i].ses <= session
      BY <1>1, <1>6, <1>9 DEF LoopInv, AnswersArePast
    <3>3. QED
      BY <1>1, <2>1, <2>2, <3>1, <3>2 DEF AnswersArePast
  <2>7. OverrunIsSeen'
    <3>1. \A r \in overrun : Past(r)'
      BY <1>6, <1>10 DEF LoopInv, OverrunIsSeen
    <3>2. QED
      BY <1>1, <2>1, <2>2, <3>1 DEF OverrunIsSeen, Processing
  <2>8. OriginIsKept'
    <3>1. origin[head.req] = session
      <4>1. CASE co.request = 0
        <5>1. head = wire[1] /\ 1 \in 1 .. Len(wire)
          BY <1>3, <1>4, <4>1 DEF head
        <5>2. QED
          BY <5>1 DEF LoopInv, OriginIsKept
      <4>2. CASE co.request # 0
        <5>1. head.req = co.request
          BY <4>2 DEF head, Piece
        <5>2. QED
          BY <1>1, <4>2, <5>1 DEF LoopInv, OriginIsKept, Reading
      <4>3. QED
        BY <4>1, <4>2
    <3>2. \A i \in 1 .. Len(wire') : origin'[wire'[i].req] = session'
      BY <1>1, <1>3 DEF LoopInv, OriginIsKept
    <3>3. QED
      BY <1>1, <2>1, <3>1, <3>2 DEF LoopInv, OriginIsKept, Reading, Serving
  <2>9. AnsweredInOrder' /\ CloseIsLast'
    BY <1>1, <2>8, AnswersKept
  <2>10. QED
    BY <1>8, <1>11, <2>5, <2>6, <2>7, <2>8, <2>9 DEF LoopInv
<1>15. QED
  BY <1>13, <1>14

\* A new connection begins with an empty wire, and every answer so far is of
\* an older one.
LEMMA ReuseStep ==
  ASSUME LoopInv, TypeOK', Reuse
  PROVE  LoopInv'
<1>1. /\ session' = session + 1 /\ half' = FALSE /\ Len(wire') = 0 /\ co'.pc = "start"
      /\ UNCHANGED <<sent, origin, answers, overrun>>
  BY DEF Reuse, Begun, timer
<1>2. \A r : Past(r) => Past(r)'
  BY <1>1 DEF Past
<1>9. OriginIsKept'
  BY <1>1 DEF LoopInv, OriginIsKept, Reading, Serving
<1>3. AnsweredInOrder' /\ CloseIsLast'
  BY <1>1, <1>9, AnswersKept
<1>4. WireInOrder' /\ RequestInOrder'
  BY <1>1 DEF WireInOrder, RequestInOrder, Reading, Serving
<1>5. AnswersArePast'
  <2>0. session \in Int
    BY DEF LoopInv, TypeOK
  <2>1. \A i \in 1 .. Len(answers) : answers[i].ses \in Int
    BY AnswersTyped DEF LoopInv, Answers
  <2>2. \A i \in 1 .. Len(answers) : answers[i].ses < session'
    BY <1>1, <2>0, <2>1 DEF LoopInv, AnswersArePast
  <2>3. \A i \in 1 .. Len(answers) : Past(answers[i].req)'
    BY <1>1, <1>2 DEF LoopInv, AnswersArePast
  <2>4. \A i \in 1 .. Len(answers) : answers[i].ses <= session' /\ answers[i].ses # session'
    BY <1>1, <2>0, <2>1, <2>2
  <2>5. QED
    BY <1>1, <2>3, <2>4 DEF AnswersArePast, Reading, Serving
<1>6. OverrunIsSeen'
  BY <1>1, <1>2 DEF LoopInv, OverrunIsSeen, Reading, Processing
<1>7. OkIsInTime'
  BY <1>1 DEF LoopInv, OkIsInTime
<1>8. QED
  BY <1>3, <1>4, <1>5, <1>6, <1>7, <1>9 DEF LoopInv

-----------------------------------------------------------------------------
\* The types, by what a step changes.
TypedMembers ==
    /\ socket_ \in BOOLEAN /\ running_ \in BOOLEAN /\ timeout_occurred_ \in BOOLEAN
    /\ handler_ \in [created : 0 .. MaxSessions, reset : 0 .. MaxSessions]
    /\ ready_ \in BOOLEAN /\ io_service_ \in BOOLEAN
    /\ wait \in 0 .. MaxRequests
    /\ completions \subseteq 1 .. MaxRequests /\ overrun \subseteq 1 .. MaxRequests

TypedClient ==
    /\ session \in 1 .. MaxSessions
    /\ base \in 0 .. MaxRequests /\ sent \in base .. MaxRequests
    /\ origin \in [1 .. MaxRequests -> 0 .. MaxSessions]
    /\ half \in BOOLEAN /\ peer \in BOOLEAN /\ pipelines \in BOOLEAN

TypedParts ==
    /\ TypedClient /\ TypedMembers /\ co \in Coroutines
    /\ wire \in Seq(Pieces) /\ answers \in Seq(Answers)

LEMMA TypeOKParts == TypeOK <=> TypedParts
  BY DEF TypeOK, TypedParts, TypedClient, TypedMembers, Coroutines, Pieces, Answers

\* What a step leaves alone keeps its type.
LEMMA KeptTyped ==
  ASSUME TypedParts
  PROVE  /\ UNCHANGED client => TypedClient'
         /\ UNCHANGED <<flags, server, timer>> => TypedMembers'
         /\ UNCHANGED co => co' \in Coroutines
         /\ UNCHANGED wire => wire' \in Seq(Pieces)
         /\ UNCHANGED answers => answers' \in Seq(Answers)
<1>1. UNCHANGED client => TypedClient'
  BY DEF TypedParts, TypedClient, client
<1>2. UNCHANGED <<flags, server, timer>> => TypedMembers'
  BY DEF TypedParts, TypedMembers, flags, server, timer
<1>3. /\ UNCHANGED co => co' \in Coroutines
      /\ UNCHANGED wire => wire' \in Seq(Pieces)
      /\ UNCHANGED answers => answers' \in Seq(Answers)
  BY DEF TypedParts
<1>4. QED
  BY <1>1, <1>2, <1>3

\* stop() keeps the types of the members.
LEMMA StopTyped ==
  ASSUME TypedMembers, Stop, UNCHANGED <<timeout_occurred_, server, completions, overrun>>
  PROVE  TypedMembers'
<1>1. 0 \in 0 .. MaxRequests
  BY BoundsAssumption
<1>2. wait' \in 0 .. MaxRequests
  BY <1>1 DEF Stop
<1>3. QED
  BY <1>2 DEF Stop, TypedMembers, server

\* The client, the timer, the server and the acceptor keep the types.
LEMMA EnvironmentTyped ==
  ASSUME LoopInv, TypedParts, Client \/ Program \/ Handlers
  PROVE  TypedParts'
<1>0. TypedClient /\ TypedMembers
  BY DEF TypedParts
<1>1. CASE SendHead
  <2>1. PICK close \in BOOLEAN : wire' = Append(wire, Piece(sent', "head", close))
    BY <1>1 DEF SendHead
  <2>2. sent' = sent + 1 /\ sent < MaxRequests
    BY <1>1 DEF SendHead
  <2>3. Piece(sent', "head", close) \in Pieces
    BY <1>0, <2>2, BoundsAssumption DEF Piece, Pieces, TypedClient
  <2>4. wire' \in Seq(Pieces)
    BY <2>1, <2>3, AppendIsLonger DEF TypedParts
  <2>5. TypedClient'
    <3>1. session \in 0 .. MaxSessions
      BY <1>0 DEF TypedClient
    <3>2. origin' \in [1 .. MaxRequests -> 0 .. MaxSessions]
      BY <1>0, <1>1, <3>1 DEF SendHead, TypedClient
    <3>3. QED
      BY <1>0, <1>1, <2>2, <3>2, BoundsAssumption DEF SendHead, TypedClient
  <2>6. QED
    BY <1>1, <2>4, <2>5, KeptTyped DEF SendHead, TypedParts
<1>2. CASE SendTail
  <2>1. wire' = Append(wire, Piece(sent, "tail", FALSE)) /\ half
    BY <1>2 DEF SendTail
  <2>2. Piece(sent, "tail", FALSE) \in Pieces
    BY <1>0, <2>1, BoundsAssumption DEF Piece, Pieces, TypedClient, LoopInv, WireInOrder
  <2>3. wire' \in Seq(Pieces)
    BY <2>1, <2>2, AppendIsLonger DEF TypedParts
  <2>4. TypedClient'
    BY <1>0, <1>2 DEF SendTail, TypedClient
  <2>5. QED
    BY <1>2, <2>3, <2>4, KeptTyped DEF SendTail, TypedParts
<1>3. CASE ClientCloses
  <2>1. TypedClient'
    BY <1>0, <1>3 DEF ClientCloses, TypedClient
  <2>2. QED
    BY <1>3, <2>1, KeptTyped DEF ClientCloses, TypedParts
<1>4. CASE ServerStop
  <2>1. TypedMembers'
    BY <1>0, <1>4, StopTyped DEF ServerStop
  <2>2. QED
    BY <1>4, <2>1, KeptTyped DEF ServerStop, TypedParts
<1>5. CASE BecomeReady
  <2>1. TypedMembers'
    BY <1>0, <1>5 DEF BecomeReady, TypedMembers, flags, timer
  <2>2. QED
    BY <1>5, <2>1, KeptTyped DEF BecomeReady, TypedParts
<1>6. CASE TimerExpires
  <2>1. wait' \in 0 .. MaxRequests /\ completions' \subseteq 1 .. MaxRequests
    BY <1>0, <1>6, BoundsAssumption DEF TimerExpires, TypedMembers
  <2>2. TypedMembers'
    BY <1>0, <1>6, <2>1 DEF TimerExpires, TypedMembers, flags, server
  <2>3. QED
    BY <1>6, <2>2, KeptTyped DEF TimerExpires, TypedParts
<1>7. ASSUME NEW r \in 1 .. MaxRequests, TimeoutHandler(r) PROVE TypedParts'
  <2>1. completions' \subseteq 1 .. MaxRequests /\ overrun' \subseteq 1 .. MaxRequests
    BY <1>0, <1>7 DEF TimeoutHandler, TypedMembers
  <2>2. TypedMembers'
    BY <1>0, <1>7, <2>1 DEF TimeoutHandler, TypedMembers, server
  <2>3. QED
    BY <1>7, <2>2, KeptTyped DEF TimeoutHandler, TypedParts
<1>8. CASE Reuse
  <2>1. TypedClient'
    <3>1. session' \in 1 .. MaxSessions
      BY <1>0, <1>8, BoundsAssumption DEF Reuse, TypedClient
    <3>2. base' \in 0 .. MaxRequests /\ sent' \in base' .. MaxRequests
      BY <1>0, <1>8, BoundsAssumption DEF Reuse, TypedClient
    <3>3. /\ half' \in BOOLEAN /\ peer' \in BOOLEAN /\ pipelines' \in BOOLEAN
          /\ origin' \in [1 .. MaxRequests -> 0 .. MaxSessions]
      BY <1>0, <1>8 DEF Reuse, TypedClient
    <3>4. QED
      BY <3>1, <3>2, <3>3 DEF TypedClient
  <2>2. co' \in Coroutines
    BY <1>8, BoundsAssumption DEF Reuse, Begun, Coroutines
  <2>3. wire' \in Seq(Pieces)
    BY <1>8, EmptySeq DEF Reuse
  <2>4. TypedMembers'
    BY <1>0, <1>8 DEF Reuse, TypedMembers, server, timer
  <2>5. QED
    BY <1>8, <2>1, <2>2, <2>3, <2>4, KeptTyped DEF Reuse, TypedParts
<1>9. CASE IoStop
  <2>1. TypedMembers'
    BY <1>0, <1>9 DEF IoStop, TypedMembers, flags, timer
  <2>2. QED
    BY <1>9, <2>1, KeptTyped DEF IoStop, TypedParts
<1>10. QED
  BY <1>1, <1>2, <1>3, <1>4, <1>5, <1>6, <1>7, <1>8, <1>9 DEF Client, Program, Handlers

\* So does each step of the coroutine.
LEMMA CoroutineTyped ==
  ASSUME LoopInv, TypedParts, Coroutine
  PROVE  TypedParts'
<1>0. TypedClient /\ TypedMembers /\ co \in Coroutines
  BY DEF TypedParts
<1>1. CASE Begin
  <2>1. co' \in Coroutines
    BY <1>0, <1>1 DEF Begin, Coroutines
  <2>2. handler_' \in [created : 0 .. MaxSessions, reset : 0 .. MaxSessions]
    BY <1>0, <1>1 DEF Begin, TypedMembers, TypedClient
  <2>3. TypedMembers'
    BY <1>0, <1>1, <2>2 DEF Begin, TypedMembers, flags, timer
  <2>4. QED
    BY <1>1, <2>1, <2>3, KeptTyped DEF Begin, TypedParts
<1>2. ASSUME NEW pc, Fails(pc) PROVE TypedParts'
  <2>1. co' \in Coroutines
    BY <1>0, <1>2 DEF Fails, Coroutines
  <2>2. QED
    BY <1>2, <2>1, KeptTyped DEF Fails, TypedParts
<1>3. CASE Loop
  <2>0. 0 \in 0 .. MaxRequests
    BY BoundsAssumption
  <2>1. co' \in Coroutines
    <3>1. co' = [pc |-> "read", request |-> 0, close |-> FALSE, drop |-> co.drop,
                 result |-> "none"]
      BY <1>3 DEF Loop, Begun
    <3>2. co.drop \in BOOLEAN
      BY <1>0 DEF Coroutines
    <3>3. QED
      BY <2>0, <3>1, <3>2 DEF Coroutines
  <2>2. TypedMembers'
    BY <1>0, <1>3 DEF Loop, TypedMembers, server, timer
  <2>3. QED
    BY <1>3, <2>1, <2>2, KeptTyped DEF Loop, TypedParts
<1>4. CASE Read
  <2>1. PICK n \in 1 .. Len(wire) :
            co' = Feed(SubSeq(wire, 1, n)) /\ wire' = SubSeq(wire, n + 1, Len(wire))
    BY <1>4 DEF Read
  <2>2. wire' \in Seq(Pieces)
    BY <2>1, Taken DEF TypedParts
  <2>3. SubSeq(wire, 1, n)[1] \in Pieces
    <3>1. 1 \in 1 .. n
      BY <2>1, LenProperties DEF TypedParts
    <3>2. QED
      BY <2>1, <3>1, Passed DEF TypedParts
  <2>4. co' \in Coroutines
    <3> DEFINE head == IF co.request = 0 THEN SubSeq(wire, 1, n)[1]
                       ELSE Piece(co.request, "head", co.close)
    <3>1. head.req \in 0 .. MaxRequests /\ head.close \in BOOLEAN
      BY <1>0, <2>3 DEF Piece, Pieces, Coroutines
    <3>2. \/ co' = [co EXCEPT !.pc = "kill"]
          \/ \E pc \in {"arm", "read"} :
                co' = [co EXCEPT !.request = head.req, !.close = head.close, !.pc = pc]
      BY <2>1 DEF Feed
    <3> HIDE DEF head
    <3>3. QED
      BY <1>0, <3>1, <3>2 DEF Coroutines
  <2>5. QED
    BY <1>4, <2>2, <2>4, KeptTyped DEF Read, TypedParts
<1>5. CASE Arm
  <2>1. co' \in Coroutines
    BY <1>0, <1>5 DEF Arm, Coroutines
  <2>2. TypedMembers'
    BY <1>0, <1>5 DEF Arm, TypedMembers, Coroutines, flags, server
  <2>3. QED
    BY <1>5, <2>1, <2>2, KeptTyped DEF Arm, TypedParts
<1>6. CASE Create
  <2>1. co' \in Coroutines
    BY <1>0, <1>6 DEF Create, Coroutines
  <2>2. handler_' \in [created : 0 .. MaxSessions, reset : 0 .. MaxSessions]
    BY <1>0, <1>6 DEF Create, TypedClient
  <2>3. TypedMembers'
    BY <1>0, <1>6, <2>2 DEF Create, TypedMembers, flags, timer
  <2>4. QED
    BY <1>6, <2>1, <2>3, KeptTyped DEF Create, TypedParts
<1>7. ASSUME NEW result \in Results, Respond(result), UNCHANGED <<client, wire, answers, flags, server>>
      PROVE  TypedParts'
  <2>1. co' \in Coroutines
    BY <1>0, <1>7 DEF Respond, Coroutines
  <2>2. TypedMembers'
    BY <1>0, <1>7, BoundsAssumption DEF Respond, TypedMembers, flags, server
  <2>3. QED
    BY <1>7, <2>1, <2>2, KeptTyped DEF TypedParts
<1>8. CASE NotReady \/ ProcessThrows \/ CheckTimeoutOccurred
  BY <1>7, <1>8 DEF NotReady, ProcessThrows, CheckTimeoutOccurred, Results
<1>9. CASE Process
  <2>1. co' \in Coroutines
    BY <1>0, <1>9 DEF Process, Coroutines
  <2>2. QED
    BY <1>9, <2>1, KeptTyped DEF Process, TypedParts
<1>10. CASE Write
  <2>1. [ses |-> session, req |-> co.request, close |-> co.close, result |-> co.result] \in Answers
    BY <1>0, <1>10 DEF Write, LoopInv, RequestInOrder, Serving, Answers, TypedClient, Coroutines
  <2>2. answers' \in Seq(Answers)
    BY <1>10, <2>1, AppendIsLonger DEF Write, TypedParts
  <2>3. co' \in Coroutines
    BY <1>0, <1>10 DEF Write, Coroutines
  <2>4. QED
    BY <1>10, <2>2, <2>3, KeptTyped DEF Write, TypedParts
<1>11. CASE Kill
  <2>1. co' \in Coroutines
    BY <1>0, <1>11 DEF Kill, Coroutines
  <2>2. TypedMembers'
    BY <1>0, <1>11, StopTyped DEF Kill
  <2>3. QED
    BY <1>11, <2>1, <2>2, KeptTyped DEF Kill, TypedParts
<1>12. QED
  BY <1>1, <1>2, <1>3, <1>4, <1>5, <1>6, <1>8, <1>9, <1>10, <1>11
  DEF Coroutine, LoopEnds, ReadFails, WriteFails

\* Type correctness is kept by every step.
LEMMA TypeOKStep == LoopInv /\ Next => TypeOK'
<1> SUFFICES ASSUME LoopInv, Next PROVE TypeOK'
  OBVIOUS
<1>1. TypedParts
  BY TypeOKParts DEF LoopInv
<1>2. TypedParts'
  BY <1>1, EnvironmentTyped, CoroutineTyped DEF Next
<1>3. QED
  BY <1>2 DEF TypeOK, TypedParts, TypedClient, TypedMembers, Coroutines, Pieces, Answers

-----------------------------------------------------------------------------
\* The invariant is inductive: one case for each action.
LEMMA LoopInvStep == LoopInv /\ [Next]_vars => LoopInv'
<1> SUFFICES ASSUME LoopInv, [Next]_vars PROVE LoopInv'
  OBVIOUS
<1> USE DEF client, flags, server, timer
<1>1. CASE UNCHANGED vars
  <2>1. TypeOK'
    BY <1>1 DEF vars, LoopInv, TypeOK
  <2>2. QED
    BY <1>1, <2>1, AsideStep DEF vars
<1>2. CASE Next
  <2>0. TypeOK'
    BY <1>2, TypeOKStep
  <2>1. CASE SendHead
    <3>1. PICK close \in BOOLEAN : wire' = Append(wire, Piece(sent', "head", close))
      BY <2>1 DEF SendHead
    <3>2. /\ sent' = sent + 1 /\ sent < MaxRequests /\ half' = TRUE /\ ~half
          /\ origin' = [origin EXCEPT ![sent + 1] = session]
      BY <2>1 DEF SendHead
    <3>3. Piece(sent', "head", close) \in Pieces
      BY <3>2, BoundsAssumption DEF Piece, Pieces, LoopInv, TypeOK
    <3>4. Piece(sent', "head", close).req = sent + 1 /\ Piece(sent', "head", close).part = "head"
      BY <3>2 DEF Piece
    <3>5. QED
      BY <2>0, <2>1, <3>1, <3>2, <3>3, <3>4, SendStep DEF SendHead
  <2>2. CASE SendTail
    <3>1. Piece(sent, "tail", FALSE) \in Pieces
      BY <2>2, BoundsAssumption DEF SendTail, Piece, Pieces, LoopInv, TypeOK, WireInOrder
    <3>2. Piece(sent, "tail", FALSE).req = sent /\ Piece(sent, "tail", FALSE).part = "tail"
      BY DEF Piece
    <3>3. QED
      BY <2>0, <2>2, <3>1, <3>2, SendStep DEF SendTail
  <2>3. CASE ClientCloses \/ ServerStop \/ IoStop \/ BecomeReady \/ TimerExpires
    BY <2>0, <2>3, AsideStep DEF ClientCloses, ServerStop, Stop, IoStop, BecomeReady,
                                       TimerExpires
  <2>4. ASSUME NEW r \in 1 .. MaxRequests, TimeoutHandler(r) PROVE LoopInv'
    BY <2>0, <2>4, TimeoutHandlerStep
  <2>5. CASE Reuse
    BY <2>0, <2>5, ReuseStep
  <2>6. ASSUME NEW pc, Fails(pc) PROVE LoopInv'
    <3>1. co'.pc = "kill"
      BY <2>6 DEF Fails, LoopInv, TypeOK
    <3>2. QED
      BY <2>0, <2>6, <3>1, TurnStep DEF Fails
  <2>7. CASE Begin \/ Loop \/ Kill
    <3>1. \/ co'.pc = "ended"
          \/ co.pc = "start" /\ co'.pc = "loop"
          \/ co.pc = "loop" /\ co'.pc = "read" /\ co'.request = 0
      BY <2>7 DEF Begin, Loop, Kill, Begun, LoopInv, TypeOK
    <3>2. /\ co'.pc = "loop" => handler_'.created = 0 \/ handler_'.reset = session
          /\ co'.pc = "read" => UNCHANGED handler_
      BY <2>7 DEF Begin, Loop, Kill, Begun, LoopInv, TypeOK
    <3>3. QED
      BY <2>0, <2>7, <3>1, <3>2, TurnStep DEF Begin, Loop, Kill
  <2>8. CASE Read
    BY <2>0, <2>8, ReadStep
  <2>9. CASE Arm \/ Create \/ NotReady \/ Process \/ ProcessThrows \/ CheckTimeoutOccurred
    <3>1. /\ UNCHANGED <<session, sent, origin, half, wire, answers, overrun, timeout_occurred_>>
          /\ co.pc \in {"arm", "create", "process", "check"}
      BY <2>9 DEF Arm, Create, NotReady, Process, ProcessThrows, CheckTimeoutOccurred, Respond
    <3>2. /\ co'.pc \in {"create", "process", "check", "write"}
          /\ co'.request = co.request /\ co'.close = co.close
          /\ co'.drop = IF co.pc = "arm" THEN co.drop \/ co.close ELSE co.drop
          /\ co'.pc = "write" => /\ co'.result \in Results
                                 /\ co'.result = "ok" => co.pc = "check" /\ ~timeout_occurred_
      BY ZenonT(60), <2>9 DEF Arm, Create, NotReady, Process, ProcessThrows, CheckTimeoutOccurred, Respond,
                  LoopInv, TypeOK, Results
    <3>3. \/ handler_'.reset = session
          \/ /\ handler_' = handler_
             /\ co'.pc = "process" => handler_.created # 0
             /\ co'.pc = "check" => co.pc = "process"
      <4>1. CASE Arm
        BY <4>1 DEF Arm, LoopInv, TypeOK
      <4>2. CASE Create
        BY <4>2 DEF Create
      <4>3. CASE NotReady \/ ProcessThrows \/ CheckTimeoutOccurred
        BY <4>3 DEF NotReady, ProcessThrows, CheckTimeoutOccurred, Respond, LoopInv, TypeOK
      <4>4. CASE Process
        BY <4>4 DEF Process, LoopInv, TypeOK
      <4>5. QED
        BY <2>9, <4>1, <4>2, <4>3, <4>4
    <3>4. QED
      BY <2>0, <3>1, <3>2, <3>3, ServeStep
  <2>10. CASE Write
    BY <2>0, <2>10, WriteStep
  <2>11. QED
    BY <1>2, <2>1, <2>2, <2>3, <2>4, <2>5, <2>6, <2>7, <2>8, <2>9, <2>10
    DEF Next, Client, Program, Handlers, Coroutine, LoopEnds, ReadFails, WriteFails
<1>3. QED
  BY <1>1, <1>2

\* Answers go out once, in the order of their requests and on the connection
\* each was sent on, by a handler ready for it, a closing one is the last
\* of its connection, and a good one was made within its timeout,
\* however reads, timer completions, stop() and reuse interleave with the
\* loop of Connection::start (connection.cpp:90-155).
THEOREM AnswersAreSound == Spec => [](AnsweredInOrder /\ CloseIsLast /\ OkIsInTime)
<1>1. LoopInv => AnsweredInOrder /\ CloseIsLast /\ OkIsInTime
  BY DEF LoopInv
<1>2. QED
  BY <1>1, LoopInvInit, LoopInvStep, PTL DEF Spec

=============================================================================
