---------------------------- MODULE HttpRequest ----------------------------
(***************************************************************************)
(* How the bytes of a request become a call of a handler: http::Parser,    *)
(* whose callbacks are called by the http_parser library for the fragments *)
(* that a read happens to contain, http::Request, and http::Router.        *)
(*                                                                         *)
(* A request on the wire is a row of pieces, between any two of which a    *)
(* read may end: the pieces of its URL and the space after it, and parts   *)
(* of the names and values of its headers and of its body.  The pieces of  *)
(* a URL are "/", "?", "*", schemes with their colon, and names, which in  *)
(* a path are what is between two slashes.  Requests are well-formed, have *)
(* no "#" in their URL, are not in the chunked encoding, and wait for the  *)
(* answer to the one before; the other cases of the request loop are those *)
(* of HttpConnection.                                                      *)
(***************************************************************************)
EXTENDS Router

CONSTANTS Rules,       \* that may be set: path, method, handler
          Schemes,     \* such as "http:"
          Requests,    \* method, url, headers, each of parts <<name, value>>, body, flags
          MaxRules, MaxRequests  \* bounds

ASSUME RulesAssumption ==
    \A rule \in Rules : rule.path \in Seq([key : STRING, name : STRING])

\* The pieces of f before the first one in marks.
Until(f, marks) == Cardinality({i \in DOMAIN f : \A j \in 1 .. i : f[j] \notin marks})
After(f, n) == SubSeq(f, n + 1, Len(f))

\* What Url's constructor does not throw at: nothing at all, and what
\* http_parser_parse_url takes, which is a path, a "*" and what follows it, or
\* a scheme with a host.
Host(f) == SubSeq(After(f, 3), 1, Until(After(f, 3), {"/", "?"}))
IsAbsolute(f) ==
    /\ Len(f) > 3 /\ f[1] \in Schemes /\ f[2] = "/" /\ f[3] = "/"
    /\ Host(f) # <<>> /\ \A i \in DOMAIN Host(f) : Host(f)[i] \notin Schemes \cup {"*"}
IsUrl(f) == f = <<>> \/ f[1] \in {"/", "*"} \/ IsAbsolute(f)

\* http::Url: the path is what a scheme and a host leave, up to the query.
\* Nothing reads the schema, the host or the port.
UrlOf(f) ==
    LET rest == IF IsAbsolute(f) THEN After(f, 3 + Len(Host(f))) ELSE f
        path == SubSeq(rest, 1, Until(rest, {"?"}))
    IN [full |-> f, path |-> path, query |-> After(rest, Len(path) + 1)]

ASSUME RequestsAssumption ==
    \A q \in Requests :
       /\ DOMAIN q = {"method", "url", "headers", "body", "flags"}
       /\ q.url \in Seq(STRING) /\ q.url # <<>> /\ IsUrl(q.url)
       /\ q.headers \in Seq((Seq(STRING) \ {<<>>}) \X Seq(STRING))
       /\ q.body \in Seq(STRING)
ASSUME BoundsAssumption == MaxRules \in Nat /\ MaxRequests \in Nat

VARIABLES
    rules, root_,  \* set so far; the tree
    state,         \* of the connection: "setup", "open", "reading", "killed"
    sent, next,    \* the request; the piece of it that is fed next
    current_header_, headers_parsing_complete_, parsing_complete_,  \* of Parser
    message,       \* what Parser has made of it: an http::Request
    walk,          \* of Router::get
    answer,        \* of route_request
    cut,           \* did a read end inside the URL, or at its end?
    count          \* requests so far

parser == <<current_header_, headers_parsing_complete_, parsing_complete_>>
connection == <<rules, root_, state, sent, cut, count>>
vars == <<connection, next, parser, message, walk, answer>>

NoHeader == [first |-> <<>>, second |-> <<>>]
\* Request::clear.
NoMessage == [method |-> "UNKNOWN", url |-> UrlOf(<<>>), headers |-> NoMap, body |-> <<>>, flags |-> {}]
NoAnswer == [handler |-> "none", params |-> NoMap]

Piece(kind, head, part) == [kind |-> kind, head |-> head, part |-> part]

Init ==
    /\ rules = <<>> /\ root_ = EmptyTree
    /\ state = "setup" /\ sent = NoMessage /\ next = Piece("done", 0, 0)
    /\ current_header_ = NoHeader
    /\ headers_parsing_complete_ = FALSE /\ parsing_complete_ = FALSE
    /\ message = NoMessage /\ walk = Walk /\ answer = NoAnswer /\ cut = FALSE /\ count = 0

-----------------------------------------------------------------------------
\* The constructor of a handler calls Router::set for each of its rules.
SetRule(rule) ==
    /\ state = "setup" /\ Len(rules) < MaxRules
    /\ rules' = Append(rules, rule)
    /\ root_' = Set(root_, rule)
    /\ UNCHANGED <<state, sent, cut, count, next, parser, message, walk, answer>>

\* A defect: Parser::clear forgets the header it was at.
ReadyDirty(q) ==
    /\ state \in {"setup", "open"} /\ count < MaxRequests
    /\ state' = "reading" /\ count' = count + 1
    /\ headers_parsing_complete_' = FALSE /\ parsing_complete_' = FALSE
    /\ message' = NoMessage /\ walk' = Walk /\ answer' = NoAnswer
    /\ sent' = q /\ next' = Piece("url", 0, 1) /\ cut' = FALSE
    /\ UNCHANGED <<rules, root_, current_header_>>

\* The head of the request loop: Parser::clear and Request::clear, and the
\* client sends its next request.
Ready(q) ==
    /\ state \in {"setup", "open"} /\ count < MaxRequests
    /\ state' = "reading" /\ count' = count + 1
    /\ current_header_' = NoHeader
    /\ headers_parsing_complete_' = FALSE /\ parsing_complete_' = FALSE
    /\ message' = NoMessage /\ walk' = Walk /\ answer' = NoAnswer
    /\ sent' = q /\ next' = Piece("url", 0, 1) /\ cut' = FALSE
    /\ UNCHANGED <<rules, root_>>

-----------------------------------------------------------------------------
(***************************************************************************)
(* The callbacks.  async_read_some gives any number of pieces, and feed    *)
(* feeds them until they are used up or the message is complete.           *)
(***************************************************************************)

\* The pieces of a request in their order; a header may have no value.
FromHeader(q, h) == IF h <= Len(q.headers) THEN Piece("field", h, 1) ELSE Piece("end", 0, 1)
FromBody(q, i) == IF i <= Len(q.body) THEN Piece("body", 0, i) ELSE Piece("done", 0, 0)
FromUrl(q, i) == IF i <= Len(q.url) + 1 THEN Piece("url", 0, i) ELSE FromHeader(q, 1)
Following(q, p) ==
    CASE p.kind = "field" ->
            IF p.part < Len(q.headers[p.head][1]) THEN Piece("field", p.head, p.part + 1)
            ELSE IF q.headers[p.head][2] = <<>> THEN FromHeader(q, p.head + 1)
            ELSE Piece("value", p.head, 1)
      [] p.kind = "value" ->
            IF p.part < Len(q.headers[p.head][2]) THEN Piece("value", p.head, p.part + 1)
            ELSE FromHeader(q, p.head + 1)
      [] p.kind = "end" -> FromBody(q, 1)
      [] p.kind = "body" -> FromBody(q, p.part + 1)

Feed(kind) ==
    /\ state = "reading" /\ ~parsing_complete_ /\ next.kind = kind
    /\ next' = Following(sent, next)

\* The data of a call of on_url: the URL up to where the read ends, or up to
\* the space that ends it; nothing, if the space is the first of its read.
Fragment(n) == SubSeq(sent.url, next.part, IF n <= Len(sent.url) THEN n ELSE Len(sent.url))

\* A defect: an exception of the callback is swallowed.
OnUrlGoesOn(n) ==
    /\ state = "reading" /\ ~parsing_complete_ /\ next.kind = "url"
    /\ n \in next.part .. Len(sent.url) + 1
    /\ message' = IF IsUrl(Fragment(n))
                  THEN [message EXCEPT !.url = UrlOf(Fragment(n)), !.method = sent.method]
                  ELSE message
    /\ next' = FromUrl(sent, n + 1) /\ cut' = (cut \/ n <= Len(sent.url))
    /\ UNCHANGED <<rules, root_, state, sent, count, parser, walk, answer>>

\* on_url: a read has the URL from where the one before ended up to its n-th
\* piece, of which the last is the space.  The fragment replaces the URL; Url's
\* constructor throws if it is none, and the connection is closed.
OnUrl(n) ==
    /\ state = "reading" /\ ~parsing_complete_ /\ next.kind = "url"
    /\ n \in next.part .. Len(sent.url) + 1
    /\ IF IsUrl(Fragment(n))
       THEN /\ message' = [message EXCEPT !.url = UrlOf(Fragment(n)), !.method = sent.method]
            /\ UNCHANGED state
       ELSE state' = "killed" /\ UNCHANGED message
    /\ next' = FromUrl(sent, n + 1) /\ cut' = (cut \/ n <= Len(sent.url))
    /\ UNCHANGED <<rules, root_, sent, count, parser, walk, answer>>

\* A header that has a value goes into the map, over an earlier one of that
\* name.  A header without a value stays, and the next field is appended to it.
Stored ==
    IF current_header_.second = <<>> THEN message
    ELSE [message EXCEPT !.headers = Put(@, current_header_.first, current_header_.second)]
Kept == IF current_header_.second = <<>> THEN current_header_ ELSE NoHeader

OnHeaderField ==
    /\ Feed("field")
    /\ message' = Stored
    /\ current_header_' = [Kept EXCEPT !.first = Append(@, sent.headers[next.head][1][next.part])]
    /\ UNCHANGED <<connection, headers_parsing_complete_, parsing_complete_, walk, answer>>

OnHeaderValue ==
    /\ Feed("value")
    /\ current_header_' =
          [current_header_ EXCEPT !.second = Append(@, sent.headers[next.head][2][next.part])]
    /\ UNCHANGED <<connection, headers_parsing_complete_, parsing_complete_, message, walk, answer>>

\* on_message_complete comes with the last piece.
Completed(m) ==
    /\ parsing_complete_' = (next'.kind = "done")
    /\ message' = IF next'.kind = "done" THEN [m EXCEPT !.flags = sent.flags] ELSE m

\* on_headers_complete stores the last header and pauses the library; feed_step
\* gives it the byte it was paused at, and at the end of a request without a
\* body that byte completes the message.
OnHeadersComplete ==
    /\ Feed("end")
    /\ Completed(Stored)
    /\ current_header_' = Kept /\ headers_parsing_complete_' = TRUE
    /\ UNCHANGED <<connection, walk, answer>>

OnBody ==
    /\ Feed("body")
    /\ Completed([message EXCEPT !.body = Append(@, sent.body[next.part])])
    /\ UNCHANGED <<connection, current_header_, headers_parsing_complete_, walk, answer>>

-----------------------------------------------------------------------------
\* Router::get: a turn of its loop over the tokens ...
Turn ==
    /\ state = "reading" /\ parsing_complete_
    /\ walk.ok /\ walk.at < Len(Tokens(message.url.path))
    /\ walk' = Down(root_, walk, Tokens(message.url.path)[walk.at + 1])
    /\ UNCHANGED <<connection, next, parser, message, answer>>

\* ... and route_request; the handler's answer is the handler.
Route ==
    /\ state = "reading" /\ parsing_complete_
    /\ walk.ok => walk.at = Len(Tokens(message.url.path))
    /\ answer' = Found(root_, walk, message.method)
    /\ state' = "open"
    /\ UNCHANGED <<rules, root_, sent, cut, count, next, parser, message, walk>>

Next ==
    \/ \E rule \in Rules : SetRule(rule)
    \/ \E q \in Requests : Ready(q)
    \/ next.kind = "url" /\ \E n \in 1 .. Len(sent.url) + 1 : OnUrl(n)
    \/ OnHeaderField \/ OnHeaderValue \/ OnHeadersComplete \/ OnBody
    \/ Turn \/ Route

Spec == Init /\ [][Next]_vars

-----------------------------------------------------------------------------
\* The types of the variables; the tree has every node above a node.
TypeOK ==
    /\ rules \in Seq(Rules) /\ Len(rules) <= MaxRules
    /\ \A node \in DOMAIN root_ :
          node = <<>> \/ SubSeq(node, 1, Len(node) - 1) \in DOMAIN root_
    /\ state \in {"setup", "open", "reading", "killed"}
    /\ sent \in Requests \cup {NoMessage}
    /\ headers_parsing_complete_ \in BOOLEAN /\ parsing_complete_ \in BOOLEAN
    /\ cut \in BOOLEAN /\ count \in 0 .. MaxRequests
    /\ DOMAIN message = DOMAIN NoMessage /\ DOMAIN current_header_ = DOMAIN NoHeader
    /\ DOMAIN answer = DOMAIN NoAnswer
    /\ parsing_complete_ => headers_parsing_complete_ /\ next.kind = "done"

\* The first n headers of a request as a map: of those with one name, the last.
LastOf(q, n, name) ==
    {i \in 1 .. n : /\ q.headers[i][1] = name
                    /\ \A j \in 1 .. n : q.headers[j][1] = name => j <= i}
HeaderMap(q, n) ==
    [name \in {q.headers[i][1] : i \in 1 .. n} |->
       q.headers[CHOOSE i \in LastOf(q, n, name) : TRUE][2]]

\* The message does not depend on how the reads cut the request, nor on the
\* requests before it, provided that the URL comes in one read, with the space
\* after it, and no header is without a value: the callbacks put together what
\* was sent.
Valued(q) == \A i \in DOMAIN q.headers : q.headers[i][2] # <<>>

ParsedIsSent ==
    /\ TypeOK
    /\ parsing_complete_ /\ ~cut /\ Valued(sent) =>
          message = [sent EXCEPT !.url = UrlOf(sent.url),
                                 !.headers = HeaderMap(sent, Len(sent.headers))]

\* What a cut URL leads to: the message has the method that was sent, and for
\* its URL a rear part of the one that was sent which is a URL as well -- of a
\* query's rear part the path, or nothing at all -- or the connection is closed;
\* and no other request closes it.
CutUrlIsTail ==
    /\ state = "killed" => cut
    /\ parsing_complete_ =>
          /\ message.method = sent.method
          /\ \E i \in 1 .. Len(sent.url) + 1 :
                LET tail == SubSeq(sent.url, i, Len(sent.url)) IN
                IsUrl(tail) /\ message.url = UrlOf(tail) /\ (~cut => i = 1)

\* The tree finds what the rules promise, whatever the order they were set in:
\* the latest rule that leads to the path, or 404 if there is none. And its
\* handler gets the parameters by the names of that rule, as long as the rules
\* agree about them (add_orderbook looks for "id").
RouteIsChosen ==
    state = "open" =>
        LET chosen == Chosen(rules, Tokens(message.url.path), message.method) IN
        /\ chosen = {} => answer = NotFound
        /\ \A i \in chosen :
              /\ answer.handler = rules[i].handler
              /\ Agree(rules) => answer.params = Values(rules[i], Tokens(message.url.path))

=============================================================================
