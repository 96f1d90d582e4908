------------------------- MODULE HttpRequestProofs -------------------------
(***************************************************************************)
(* For any rules, requests, and ways to cut a request into reads: what the *)
(* callbacks of http::Parser put together is what was sent, a URL that was *)
(* cut leaves the URL of a rear part of it or closes the connection, and   *)
(* the tree of http::Router finds the rule that the rules alone promise.   *)
(*                                                                         *)
(* The invariant has three parts.  TreeOfRules: the nodes, their names and *)
(* handlers, as the rules set so far make them.  Reading: the message and  *)
(* the header at hand, as the pieces fed so far make them.  Routing: the   *)
(* walk is at the node of every rule that leads to the path, and no rule   *)
(* that reaches that node has been left on the way.                        *)
(***************************************************************************)
EXTENDS HttpRequest, FiniteSetTheorems, SequenceTheorems, TLAPS

\* The node that the first n keys of a rule lead to.
Prefix(rule, n) == SubSeq(Keys(rule), 1, n)
Reaches(rule, node) == Len(node) <= Len(rule.path) /\ Prefix(rule, Len(node)) = node

\* The tree that Router::set makes of the rules: their nodes, each named by a
\* rule that goes through it.
NodesAreOfRules(rs, tree) ==
    /\ <<>> \in DOMAIN tree
    /\ \A i \in DOMAIN rs : \A n \in 0 .. Len(rs[i].path) : Prefix(rs[i], n) \in DOMAIN tree
    /\ \A node \in DOMAIN tree :
          /\ node \in Seq(STRING)
          /\ tree[node] = [name |-> tree[node].name, handlers |-> tree[node].handlers]
          /\ node # <<>> =>
                \E i \in DOMAIN rs : /\ Reaches(rs[i], node)
                                     /\ tree[node].name = rs[i].path[Len(node)].name

\* A rule that ends at a node, and is the latest to do so for its method.
EndsAt(rule, node, method) == Keys(rule) = node /\ rule.method = method
Latest(rs, i, node, method) ==
    /\ EndsAt(rs[i], node, method)
    /\ \A j \in DOMAIN rs : EndsAt(rs[j], node, method) => j <= i

HandlersAreOfRules(rs, tree) ==
    /\ \A i \in DOMAIN rs : rs[i].method \in DOMAIN tree[Keys(rs[i])].handlers
    /\ \A node \in DOMAIN tree : \A method \in DOMAIN tree[node].handlers :
          \E i \in DOMAIN rs : /\ Latest(rs, i, node, method)
                               /\ tree[node].handlers[method] = rs[i].handler

TreeOfRules(rs, tree) == NodesAreOfRules(rs, tree) /\ HandlersAreOfRules(rs, tree)

\* One token of LeadsTo.
LeadsOn(rs, rule, tokens, k) ==
    \/ rule.path[k].key = tokens[k]
    \/ /\ rule.path[k].key = Param
       /\ ~\E j \in DOMAIN rs : /\ SameKeys(rule, rs[j], k - 1)
                                /\ Len(rs[j].path) >= k
                                /\ rs[j].path[k].key = tokens[k]

\* Where the walk is: at the node of every rule that leads to the path, and of
\* no rule that has been left on the way.
WalkIsLed(rs, tree, tokens, w) ==
    /\ w = [at |-> w.at, node |-> w.node, params |-> w.params, ok |-> w.ok]
    /\ w.ok \in BOOLEAN
    /\ w.at \in 0 .. Len(tokens) /\ w.node \in DOMAIN tree /\ Len(w.node) = w.at
    /\ \A i \in DOMAIN rs : LeadsTo(rs, rs[i], tokens) => w.ok /\ Reaches(rs[i], w.node)
    /\ \A i \in DOMAIN rs : Reaches(rs[i], w.node) =>
          \A k \in 1 .. w.at : LeadsOn(rs, rs[i], tokens, k)

\* The parameters met so far, with the names that the tree gives them.
Params(node) == {k \in 1 .. Len(node) : node[k] = Param}
NameAt(tree, node, k) == tree[SubSeq(node, 1, k)].name
LastOfName(tree, node, k) ==
    \A j \in Params(node) : NameAt(tree, node, j) = NameAt(tree, node, k) => j <= k
ParamsAreLast(tree, tokens, w) ==
    /\ w.params = [name \in DOMAIN w.params |-> w.params[name]]
    /\ \A k \in Params(w.node) : NameAt(tree, w.node, k) \in DOMAIN w.params
    /\ \A name \in DOMAIN w.params :
          \E k \in Params(w.node) : /\ NameAt(tree, w.node, k) = name
                                    /\ LastOfName(tree, w.node, k)
                                    /\ w.params[name] = tokens[k]

WalkInv(rs, tree, tokens, w) ==
    WalkIsLed(rs, tree, tokens, w) /\ ParamsAreLast(tree, tokens, w)

\* Of the wire: the piece that comes next is one of the request's.
NextIsPiece ==
    LET q == sent IN
    \/ next.kind = "url" /\ next.part \in 1 .. Len(q.url) + 1
    \/ /\ next.kind = "field" /\ next.head \in 1 .. Len(q.headers)
       /\ next.part \in 1 .. Len(q.headers[next.head][1])
    \/ /\ next.kind = "value" /\ next.head \in 1 .. Len(q.headers)
       /\ next.part \in 1 .. Len(q.headers[next.head][2])
    \/ next.kind = "end"
    \/ next.kind = "body" /\ next.part \in 1 .. Len(q.body)
    \/ next.kind = "done"

\* The URL, if it was not cut, and how many headers and parts of the body have
\* been fed.
UrlFed == IF next.kind = "url" THEN <<>> ELSE sent.url
HeadersFed ==
    CASE next.kind = "url" -> 0
      [] next.kind \in {"field", "value"} -> next.head - 1
      [] OTHER -> Len(sent.headers)
BodyFed ==
    CASE next.kind = "body" -> next.part - 1
      [] next.kind = "done" -> Len(sent.body)
      [] OTHER -> 0

\* A header is not in the map before the next one comes, or the end.
InName == next.kind = "field" /\ next.part > 1
Pending == next.kind \in {"field", "end"} /\ ~InName /\ HeadersFed > 0
HeadersStored == IF Pending THEN HeadersFed - 1 ELSE HeadersFed

\* What the callbacks have made of the URL u, of h headers and of b parts of
\* the body, if the URL was not cut and no header is without a value.
Made(u, h, b, flags) ==
    [method |-> IF u = <<>> THEN "UNKNOWN" ELSE sent.method,
     url |-> UrlOf(u), headers |-> HeaderMap(sent, h),
     body |-> SubSeq(sent.body, 1, b), flags |-> flags]
MessageIsFed ==
    message = Made(UrlFed, HeadersStored, BodyFed,
                   IF next.kind = "done" THEN sent.flags ELSE {})
HeaderIsFed ==
    current_header_ =
        IF next.kind = "value" THEN
            [first |-> sent.headers[next.head][1],
             second |-> SubSeq(sent.headers[next.head][2], 1, next.part - 1)]
        ELSE IF InName THEN
            [first |-> SubSeq(sent.headers[next.head][1], 1, next.part - 1), second |-> <<>>]
        ELSE IF Pending THEN
            [first |-> sent.headers[HeadersFed][1], second |-> sent.headers[HeadersFed][2]]
        ELSE NoHeader

\* Cut or not, the URL of a message is that of a rear part of the one sent,
\* once it has been fed.
Rear(i) == SubSeq(sent.url, i, Len(sent.url))
UrlIsTail ==
    IF next.kind = "url" THEN ~cut => next.part = 1
    ELSE /\ message.method = sent.method
         /\ \E i \in 1 .. Len(sent.url) + 1 :
               IsUrl(Rear(i)) /\ message.url = UrlOf(Rear(i)) /\ (~cut => i = 1)

Reading ==
    state # "setup" =>
        /\ sent \in Requests /\ NextIsPiece
        /\ (parsing_complete_ <=> next.kind = "done")
        /\ (headers_parsing_complete_ <=> next.kind \in {"body", "done"})
        /\ state \in {"reading", "open"} => UrlIsTail
        /\ state = "killed" => cut
        /\ state = "open" => parsing_complete_
        /\ ~cut /\ Valued(sent) => MessageIsFed /\ HeaderIsFed

Routing ==
    /\ ~parsing_complete_ => walk = Walk
    /\ parsing_complete_ =>
          /\ state \in {"reading", "open"}
          /\ message.url.path \in Seq(STRING)
          /\ WalkInv(rules, root_, Tokens(message.url.path), walk)

RequestInv == TypeOK /\ TreeOfRules(rules, root_) /\ Reading /\ Routing /\ RouteIsChosen
-----------------------------------------------------------------------------
(***************************************************************************)
(* Sequences, and the keys of a rule.                                      *)
(***************************************************************************)

LEMMA SubSeqGrows ==
    ASSUME NEW S, NEW s \in Seq(S), NEW m \in Nat \ {0}, NEW n \in Nat,
           m <= n + 1, n < Len(s)
    PROVE  Append(SubSeq(s, m, n), s[n + 1]) = SubSeq(s, m, n + 1)
  <1>1. n + 1 \in 1 .. Len(s) /\ s[n + 1] \in S  OBVIOUS
  <1>2. SubSeq(s, m, n) \in Seq(S)
    <2>1. \A i \in m .. n : s[i] \in S  OBVIOUS
    <2>2. QED  BY <2>1, SubSeqProperties
  <1>3. SubSeq(s, m, n + 1) = SubSeq(s, m, n) \o <<s[n + 1]>>
    <2>1. m \in 1 .. Len(s) /\ n + 1 \in m .. Len(s)  BY <1>1
    <2>2. SubSeq(s, m, n + 1) = SubSeq(s, m, (n + 1) - 1) \o <<s[n + 1]>>
      BY <2>1, SubSeqRecursiveSecond
    <2>3. QED  BY <2>2
  <1>4. Append(SubSeq(s, m, n), s[n + 1]) = SubSeq(s, m, n) \o <<s[n + 1]>>
    BY <1>1, <1>2, AppendIsConcat
  <1>5. QED  BY <1>3, <1>4

LEMMA FrontIs ==
    ASSUME NEW S, NEW s \in Seq(S), NEW n \in 0 .. Len(s)
    PROVE  /\ SubSeq(s, 1, n) \in Seq(S) /\ Len(SubSeq(s, 1, n)) = n
           /\ \A i \in 1 .. n : SubSeq(s, 1, n)[i] = s[i]
  <1>1. \A i \in 1 .. n : s[i] \in S  OBVIOUS
  <1>2. QED  BY <1>1, SubSeqProperties

LEMMA FrontOfFront ==
    ASSUME NEW S, NEW s \in Seq(S), NEW n \in 0 .. Len(s), NEW m \in 0 .. n
    PROVE  SubSeq(SubSeq(s, 1, n), 1, m) = SubSeq(s, 1, m)
  <1> DEFINE f == SubSeq(s, 1, n)
             l == SubSeq(f, 1, m)
             r == SubSeq(s, 1, m)
  <1>1. f \in Seq(S) /\ Len(f) = n /\ \A i \in 1 .. n : f[i] = s[i]
    BY FrontIs
  <1>2. m \in 0 .. Len(s)  OBVIOUS
  <1>3. r \in Seq(S) /\ Len(r) = m /\ \A i \in 1 .. m : r[i] = s[i]
    BY <1>2, FrontIs
  <1> HIDE DEF f
  <1>4. l \in Seq(S) /\ Len(l) = m /\ \A i \in 1 .. m : l[i] = f[i]
    BY <1>1, FrontIs
  <1> HIDE DEF l, r
  <1>5. \A i \in 1 .. m : l[i] = r[i]  BY <1>1, <1>3, <1>4
  <1>6. l = r  BY <1>3, <1>4, <1>5, SeqEqual
  <1>7. QED  BY <1>6 DEF l, r, f

LEMMA KeysAreStrings ==
    ASSUME NEW rule \in Rules
    PROVE  /\ rule.path \in Seq([key : STRING, name : STRING])
           /\ Keys(rule) \in Seq(STRING) /\ Len(Keys(rule)) = Len(rule.path)
           /\ \A i \in 1 .. Len(rule.path) : Keys(rule)[i] = rule.path[i].key
  <1>1. rule.path \in Seq([key : STRING, name : STRING])  BY RulesAssumption
  <1>2. DOMAIN rule.path = 1 .. Len(rule.path) /\ Len(rule.path) \in Nat  BY <1>1
  <1>3. \A i \in 1 .. Len(rule.path) : rule.path[i].key \in STRING
    <2> DEFINE Steps == [key : STRING, name : STRING]
    <2>1. rule.path \in Seq(Steps)  BY <1>1
    <2> HIDE DEF Steps
    <2>2. \A i \in 1 .. Len(rule.path) : rule.path[i] \in Steps  BY <2>1
    <2>3. QED  BY <2>2 DEF Steps
  <1>4. Keys(rule) = [i \in 1 .. Len(rule.path) |-> rule.path[i].key]
    BY <1>2 DEF Keys
  <1>5. Keys(rule) \in [1 .. Len(rule.path) -> STRING]  BY <1>3, <1>4
  <1>6. Keys(rule) \in Seq(STRING) /\ Len(Keys(rule)) = Len(rule.path)
    BY <1>2, <1>5
  <1>7. QED  BY <1>1, <1>4, <1>6

LEMMA PrefixIs ==
    ASSUME NEW rule \in Rules, NEW n \in 0 .. Len(rule.path)
    PROVE  /\ Prefix(rule, n) \in Seq(STRING) /\ Len(Prefix(rule, n)) = n
           /\ \A i \in 1 .. n : Prefix(rule, n)[i] = rule.path[i].key
  <1>1. /\ Keys(rule) \in Seq(STRING) /\ Len(Keys(rule)) = Len(rule.path)
        /\ \A i \in 1 .. Len(rule.path) : Keys(rule)[i] = rule.path[i].key
    BY KeysAreStrings
  <1>2. n \in 0 .. Len(Keys(rule))  BY <1>1
  <1>3. /\ Prefix(rule, n) \in Seq(STRING) /\ Len(Prefix(rule, n)) = n
        /\ \A i \in 1 .. n : Prefix(rule, n)[i] = Keys(rule)[i]
    BY <1>1, <1>2, FrontIs DEF Prefix
  <1>4. \A i \in 1 .. n : i \in 1 .. Len(rule.path)  BY <1>1
  <1>5. QED  BY <1>1, <1>3, <1>4

LEMMA PrefixGrows ==
    ASSUME NEW rule \in Rules, NEW n \in Nat, n < Len(rule.path)
    PROVE  /\ rule.path[n + 1].key \in STRING
           /\ Prefix(rule, n + 1) = Append(Prefix(rule, n), rule.path[n + 1].key)
  <1>1. /\ Keys(rule) \in Seq(STRING) /\ Len(Keys(rule)) = Len(rule.path)
        /\ \A i \in 1 .. Len(rule.path) : Keys(rule)[i] = rule.path[i].key
    BY KeysAreStrings
  <1>2. n + 1 \in 1 .. Len(rule.path) /\ 1 <= n + 1  BY <1>1
  <1>3. Append(SubSeq(Keys(rule), 1, n), Keys(rule)[n + 1]) = SubSeq(Keys(rule), 1, n + 1)
    BY <1>1, <1>2, SubSeqGrows
  <1>4. Keys(rule)[n + 1] \in STRING  BY <1>1, <1>2
  <1>5. QED  BY <1>1, <1>2, <1>3, <1>4 DEF Prefix

LEMMA PrefixOfPrefix ==
    ASSUME NEW rule \in Rules, NEW n \in 0 .. Len(rule.path), NEW m \in 0 .. n
    PROVE  SubSeq(Prefix(rule, n), 1, m) = Prefix(rule, m)
  <1>1. Keys(rule) \in Seq(STRING) /\ n \in 0 .. Len(Keys(rule))  BY KeysAreStrings
  <1>2. QED  BY <1>1, FrontOfFront DEF Prefix

LEMMA WholePrefix ==
    ASSUME NEW rule \in Rules
    PROVE  Prefix(rule, Len(rule.path)) = Keys(rule) /\ Prefix(rule, 0) = <<>>
  <1>1. Keys(rule) \in Seq(STRING) /\ Len(Keys(rule)) = Len(rule.path)  BY KeysAreStrings
  <1>2. Prefix(rule, Len(rule.path)) = Keys(rule)  BY <1>1, SubSeqFull DEF Prefix
  <1>3. Prefix(rule, 0) = <<>>  BY SubSeqEmpty DEF Prefix
  <1>4. QED  BY <1>2, <1>3

\* A node that a rule reaches, and the nodes above and below it.
LEMMA ReachesShorter ==
    ASSUME NEW rule \in Rules, NEW node \in Seq(STRING), Reaches(rule, node),
           NEW m \in 0 .. Len(node)
    PROVE  Reaches(rule, SubSeq(node, 1, m)) /\ Prefix(rule, m) = SubSeq(node, 1, m)
  <1>1. Len(node) \in 0 .. Len(rule.path) /\ Prefix(rule, Len(node)) = node
    BY KeysAreStrings DEF Reaches
  <1>2. SubSeq(node, 1, m) = Prefix(rule, m)  BY <1>1, PrefixOfPrefix
  <1>3. m \in 0 .. Len(rule.path)  BY <1>1, KeysAreStrings
  <1>4. Len(Prefix(rule, m)) = m  BY <1>3, PrefixIs
  <1>5. QED  BY <1>2, <1>3, <1>4 DEF Reaches

\* One key further.  The key may come from a path, which has no type.
LEMMA ReachesChild ==
    ASSUME NEW rule \in Rules, NEW node \in Seq(STRING), NEW key
    PROVE  Reaches(rule, Append(node, key)) <=>
               /\ Reaches(rule, node) /\ Len(node) < Len(rule.path)
               /\ rule.path[Len(node) + 1].key = key
  <1> DEFINE n == Len(node)
             child == Append(node, key)
             S == STRING \cup {key}
  <1>1. n \in Nat /\ Len(rule.path) \in Nat  BY KeysAreStrings
  <1>2. node \in Seq(S) /\ Len(child) = n + 1
    BY AppendProperties
  <1>3. ASSUME n < Len(rule.path)
        PROVE  child = Prefix(rule, n + 1) <=> node = Prefix(rule, n) /\ key = rule.path[n + 1].key
    <2>1. /\ rule.path[n + 1].key \in S
          /\ Prefix(rule, n + 1) = Append(Prefix(rule, n), rule.path[n + 1].key)
      BY <1>1, <1>3, PrefixGrows
    <2>2. n \in 0 .. Len(rule.path)  BY <1>1, <1>3
    <2>3. Prefix(rule, n) \in Seq(S)
      <3>1. Prefix(rule, n) \in Seq(STRING)  BY <2>2, PrefixIs
      <3>2. QED  BY <3>1
    <2>4. QED  BY <1>2, <2>1, <2>3, AppendInjective
  <1>4. Reaches(rule, child) <=> n + 1 <= Len(rule.path) /\ Prefix(rule, n + 1) = child
    BY <1>2 DEF Reaches
  <1>5. Reaches(rule, node) <=> n <= Len(rule.path) /\ Prefix(rule, n) = node
    BY DEF Reaches
  <1> HIDE DEF n, child
  <1>6. Reaches(rule, child) <=>
            Reaches(rule, node) /\ n < Len(rule.path) /\ rule.path[n + 1].key = key
    BY <1>1, <1>3, <1>4, <1>5
  <1>7. QED  BY <1>6 DEF n, child

LEMMA SameKeysIs ==
    ASSUME NEW r \in Rules, NEW s \in Rules, NEW n \in Nat, n <= Len(r.path)
    PROVE  SameKeys(r, s, n) <=> Reaches(s, Prefix(r, n))
  <1>1. n \in 0 .. Len(r.path)  BY KeysAreStrings
  <1>2. Len(Prefix(r, n)) = n  BY <1>1, PrefixIs
  <1>3. SameKeys(r, s, n) <=> Len(s.path) >= n /\ Prefix(r, n) = Prefix(s, n)
    BY <1>1, KeysAreStrings DEF SameKeys, Prefix
  <1>4. Len(s.path) \in Nat  BY KeysAreStrings
  <1>5. QED  BY <1>2, <1>3, <1>4 DEF Reaches

-----------------------------------------------------------------------------
(***************************************************************************)
(* The tree of the rules.                                                  *)
(***************************************************************************)

LEMMA TreeStarts == TreeOfRules(<<>>, EmptyTree)
  <1>1. DOMAIN <<>> = {} /\ <<>> \in Seq(STRING)  OBVIOUS
  <1>2. DOMAIN EmptyTree = {<<>>}  BY DEF EmptyTree
  <1>3. ASSUME NEW node \in DOMAIN EmptyTree
        PROVE  /\ EmptyTree[node] = [name |-> EmptyTree[node].name,
                                     handlers |-> EmptyTree[node].handlers]
               /\ DOMAIN EmptyTree[node].handlers = {}
    <2>1. PICK s : EmptyTree[node] = [name |-> s, handlers |-> NoMap]  BY Zenon DEF EmptyTree
    <2>2. DOMAIN NoMap = {}  BY DEF NoMap
    <2>3. QED  BY <2>1, <2>2
  <1>4. NodesAreOfRules(<<>>, EmptyTree)
    BY <1>1, <1>2, <1>3 DEF NodesAreOfRules
  <1>5. HandlersAreOfRules(<<>>, EmptyTree)
    BY <1>1, <1>3 DEF HandlersAreOfRules
  <1>6. QED  BY <1>4, <1>5 DEF TreeOfRules

\* What Router::set adds: the missing nodes of the rule, and one handler.
HandlersAt(tree, node) == IF node \in DOMAIN tree THEN tree[node].handlers ELSE NoMap

AreNodes(tree) ==
    \A node \in DOMAIN tree :
       tree[node] = [name |-> tree[node].name, handlers |-> tree[node].handlers]
Grown(tree, rule, t) ==
    /\ DOMAIN t = DOMAIN tree \cup {Prefix(rule, n) : n \in 0 .. Len(rule.path)}
    /\ \A node \in DOMAIN t :
          /\ t[node] = [name |-> t[node].name, handlers |-> t[node].handlers]
          /\ t[node].name = IF node \in DOMAIN tree THEN tree[node].name
                            ELSE rule.path[Len(node)].name
          /\ t[node].handlers = IF node = Keys(rule)
                                THEN Put(HandlersAt(tree, node), rule.method, rule.handler)
                                ELSE HandlersAt(tree, node)

LEMMA SetIs ==
    ASSUME NEW tree, NEW rule \in Rules, AreNodes(tree)
    PROVE  Grown(tree, rule, Set(tree, rule))
  <1> DEFINE keys == Keys(rule)
             nodes == {SubSeq(keys, 1, n) : n \in 0 .. Len(keys)}
             grown == [node \in DOMAIN tree \cup nodes |->
                         IF node \in DOMAIN tree THEN tree[node]
                         ELSE [name |-> rule.path[Len(node)].name, handlers |-> NoMap]]
             t == [grown EXCEPT ![keys].handlers = Put(@, rule.method, rule.handler)]
             old(node) == HandlersAt(tree, node)
             name(node) == IF node \in DOMAIN tree THEN tree[node].name
                           ELSE rule.path[Len(node)].name
  <1>1. Set(tree, rule) = t  BY DEF Set
  <1>2. nodes = {Prefix(rule, n) : n \in 0 .. Len(rule.path)}
    BY KeysAreStrings DEF Prefix
  <1>3. keys \in nodes
    <2>1. Len(rule.path) \in 0 .. Len(rule.path)  BY KeysAreStrings
    <2>2. QED  BY <1>2, <2>1, WholePrefix
  <1>4. /\ DOMAIN grown = DOMAIN tree \cup nodes
        /\ \A node \in DOMAIN grown : grown[node] = [name |-> name(node), handlers |-> old(node)]
    <2>1. ASSUME NEW node \in DOMAIN grown
          PROVE  grown[node] = [name |-> name(node), handlers |-> old(node)]
      <3>1. CASE node \in DOMAIN tree
        <4>1. grown[node] = tree[node]  BY <3>1
        <4>2. tree[node] = [name |-> tree[node].name, handlers |-> tree[node].handlers]
          BY <3>1 DEF AreNodes
        <4>3. QED  BY <3>1, <4>1, <4>2 DEF HandlersAt
      <3>2. CASE node \notin DOMAIN tree
        BY <3>2 DEF HandlersAt
      <3>3. QED  BY <3>1, <3>2
    <2>2. QED  BY <2>1
  <1> HIDE DEF grown, nodes
  <1>5. DOMAIN t = DOMAIN tree \cup nodes  BY <1>4
  <1>6. \A node \in DOMAIN t \ {keys} : t[node] = [name |-> name(node), handlers |-> old(node)]
    BY <1>4
  <1>7. t[keys] = [name |-> name(keys), handlers |-> Put(old(keys), rule.method, rule.handler)]
    <2> DEFINE g == grown[keys]
    <2>1. g = [name |-> name(keys), handlers |-> old(keys)]  BY <1>3, <1>4
    <2>2. t[keys] = [g EXCEPT !.handlers = Put(g.handlers, rule.method, rule.handler)]
      BY <1>3, <1>4
    <2> HIDE DEF g, t, old, name, keys
    <2>3. QED  BY <2>1, <2>2
  <1> HIDE DEF t, old, name, keys
  <1>8. \A node \in DOMAIN t :
           t[node] = [name |-> name(node),
                      handlers |-> IF node = keys THEN Put(old(node), rule.method, rule.handler)
                                   ELSE old(node)]
    BY <1>6, <1>7
  <1>9. \A node \in DOMAIN t :
           /\ t[node] = [name |-> t[node].name, handlers |-> t[node].handlers]
           /\ t[node].name = name(node)
           /\ t[node].handlers = IF node = keys THEN Put(old(node), rule.method, rule.handler)
                                 ELSE old(node)
    BY <1>8
  <1>10. QED  BY <1>1, <1>2, <1>5, <1>9 DEF Grown, old, name, keys

LEMMA AppendedRule ==
    ASSUME NEW rs \in Seq(Rules), NEW rule \in Rules
    PROVE  /\ Append(rs, rule) \in Seq(Rules)
           /\ DOMAIN Append(rs, rule) = DOMAIN rs \cup {Len(rs) + 1}
           /\ DOMAIN rs = 1 .. Len(rs) /\ Len(rs) \in Nat
           /\ \A i \in DOMAIN rs : Append(rs, rule)[i] = rs[i] /\ rs[i] \in Rules
           /\ Append(rs, rule)[Len(rs) + 1] = rule
  OBVIOUS

LEMMA SetKeepsNodes ==
    ASSUME NEW rs \in Seq(Rules), NEW tree, NEW rule \in Rules, NodesAreOfRules(rs, tree)
    PROVE  NodesAreOfRules(Append(rs, rule), Set(tree, rule))
  <1> DEFINE all == Append(rs, rule)
             t == Set(tree, rule)
             last == Len(rs) + 1
  <1>1. /\ DOMAIN all = DOMAIN rs \cup {last} /\ all[last] = rule
        /\ \A i \in DOMAIN rs : all[i] = rs[i] /\ rs[i] \in Rules
    BY AppendedRule
  <1>2. /\ <<>> \in DOMAIN tree
        /\ \A i \in DOMAIN rs : \A n \in 0 .. Len(rs[i].path) : Prefix(rs[i], n) \in DOMAIN tree
        /\ \A node \in DOMAIN tree :
              /\ node \in Seq(STRING)
              /\ tree[node] = [name |-> tree[node].name, handlers |-> tree[node].handlers]
              /\ node # <<>> =>
                    \E i \in DOMAIN rs : /\ Reaches(rs[i], node)
                                         /\ tree[node].name = rs[i].path[Len(node)].name
    BY DEF NodesAreOfRules
  <1>3. /\ DOMAIN t = DOMAIN tree \cup {Prefix(rule, n) : n \in 0 .. Len(rule.path)}
        /\ \A node \in DOMAIN t :
              /\ t[node] = [name |-> t[node].name, handlers |-> t[node].handlers]
              /\ t[node].name = IF node \in DOMAIN tree THEN tree[node].name
                                ELSE rule.path[Len(node)].name
    <2>1. AreNodes(tree)  BY <1>2 DEF AreNodes
    <2>2. Grown(tree, rule, t)  BY <2>1, SetIs
    <2> HIDE DEF t
    <2>3. QED  BY <2>2 DEF Grown
  <1> HIDE DEF all, t
  <1>4. ASSUME NEW i \in DOMAIN all, NEW n \in 0 .. Len(all[i].path)
        PROVE  Prefix(all[i], n) \in DOMAIN t
    <2>1. CASE i \in DOMAIN rs  BY <1>1, <1>2, <1>3, <2>1
    <2>2. CASE i = last  BY <1>1, <1>3, <2>2
    <2>3. QED  BY <1>1, <2>1, <2>2
  <1>5. ASSUME NEW node \in DOMAIN t
        PROVE  /\ node \in Seq(STRING)
               /\ node # <<>> =>
                     \E i \in DOMAIN all : /\ Reaches(all[i], node)
                                           /\ t[node].name = all[i].path[Len(node)].name
    <2>1. CASE node \in DOMAIN tree
      <3>1. node \in Seq(STRING) /\ t[node].name = tree[node].name  BY <1>2, <1>3, <2>1
      <3>2. ASSUME node # <<>>
            PROVE  \E i \in DOMAIN all : /\ Reaches(all[i], node)
                                         /\ t[node].name = all[i].path[Len(node)].name
        <4>1. PICK i \in DOMAIN rs : /\ Reaches(rs[i], node)
                                     /\ tree[node].name = rs[i].path[Len(node)].name
          BY <1>2, <2>1, <3>2
        <4>2. i \in DOMAIN all /\ all[i] = rs[i]  BY <1>1
        <4>3. QED  BY <3>1, <4>1, <4>2
      <3>3. QED  BY <3>1, <3>2
    <2>2. CASE node \notin DOMAIN tree
      <3>1. PICK n \in 0 .. Len(rule.path) : node = Prefix(rule, n)  BY <1>3, <2>2
      <3>2. node \in Seq(STRING) /\ Len(node) = n  BY <3>1, PrefixIs
      <3>3. Reaches(rule, node)  BY <3>1, <3>2, KeysAreStrings DEF Reaches
      <3>4. t[node].name = rule.path[Len(node)].name  BY <1>3, <2>2
      <3>5. QED  BY <1>1, <3>2, <3>3, <3>4
    <2>3. QED  BY <2>1, <2>2
  <1>6. QED  BY <1>2, <1>3, <1>4, <1>5 DEF NodesAreOfRules, all, t

LEMMA SetKeepsHandlers ==
    ASSUME NEW rs \in Seq(Rules), NEW tree, NEW rule \in Rules, TreeOfRules(rs, tree)
    PROVE  HandlersAreOfRules(Append(rs, rule), Set(tree, rule))
  <1> DEFINE all == Append(rs, rule)
             t == Set(tree, rule)
             last == Len(rs) + 1
             keys == Keys(rule)
             old(node) == HandlersAt(tree, node)
  <1>1. /\ DOMAIN all = DOMAIN rs \cup {last} /\ all[last] = rule
        /\ DOMAIN rs = 1 .. Len(rs) /\ Len(rs) \in Nat
        /\ \A i \in DOMAIN rs : all[i] = rs[i] /\ rs[i] \in Rules
    BY AppendedRule
  <1>2. /\ \A i \in DOMAIN rs : \A n \in 0 .. Len(rs[i].path) : Prefix(rs[i], n) \in DOMAIN tree
        /\ \A node \in DOMAIN tree :
              tree[node] = [name |-> tree[node].name, handlers |-> tree[node].handlers]
    BY DEF TreeOfRules, NodesAreOfRules
  <1>3. /\ \A i \in DOMAIN rs : rs[i].method \in DOMAIN tree[Keys(rs[i])].handlers
        /\ \A node \in DOMAIN tree : \A method \in DOMAIN tree[node].handlers :
              \E i \in DOMAIN rs : /\ Latest(rs, i, node, method)
                                   /\ tree[node].handlers[method] = rs[i].handler
    BY DEF TreeOfRules, HandlersAreOfRules
  <1>4. /\ DOMAIN t = DOMAIN tree \cup {Prefix(rule, n) : n \in 0 .. Len(rule.path)}
        /\ \A node \in DOMAIN t :
              t[node].handlers = IF node = keys THEN Put(old(node), rule.method, rule.handler)
                                 ELSE old(node)
    <2>1. AreNodes(tree)  BY <1>2 DEF AreNodes
    <2>2. Grown(tree, rule, t)  BY <2>1, SetIs
    <2> HIDE DEF t
    <2>3. QED  BY <2>2 DEF Grown
  <1>5. keys \in DOMAIN t /\ \A i \in DOMAIN rs : Keys(rs[i]) \in DOMAIN tree
    <2>1. Len(rule.path) \in 0 .. Len(rule.path)  BY KeysAreStrings
    <2>2. keys \in DOMAIN t  BY <1>4, <2>1, WholePrefix
    <2>3. ASSUME NEW i \in DOMAIN rs
          PROVE  Keys(rs[i]) \in DOMAIN tree
      <3>1. rs[i] \in Rules  BY <1>1
      <3>2. Len(rs[i].path) \in 0 .. Len(rs[i].path)  BY <3>1, KeysAreStrings
      <3>3. Prefix(rs[i], Len(rs[i].path)) = Keys(rs[i])  BY <3>1, WholePrefix
      <3>4. QED  BY <1>2, <3>2, <3>3
    <2>4. QED  BY <2>2, <2>3
  <1> HIDE DEF all, t, keys, old
  <1>6. ASSUME NEW node \in DOMAIN t
        PROVE  DOMAIN t[node].handlers =
                 IF node = keys THEN DOMAIN old(node) \cup {rule.method} ELSE DOMAIN old(node)
    <2>1. CASE node = keys
      <3>1. t[node].handlers = Put(old(node), rule.method, rule.handler)  BY <1>4, <2>1
      <3>2. QED  BY <2>1, <3>1 DEF Put
    <2>2. CASE node # keys  BY <1>4, <2>2
    <2>3. QED  BY <2>1, <2>2
  <1>7. ASSUME NEW i \in DOMAIN all
        PROVE  all[i].method \in DOMAIN t[Keys(all[i])].handlers
    <2>1. CASE i \in DOMAIN rs
      <3>1. Keys(rs[i]) \in DOMAIN tree /\ Keys(rs[i]) \in DOMAIN t /\ all[i] = rs[i]
        BY <1>1, <1>4, <1>5, <2>1
      <3>2. rs[i].method \in DOMAIN old(Keys(rs[i]))  BY <1>3, <2>1, <3>1 DEF old, HandlersAt
      <3>3. QED  BY <1>6, <3>1, <3>2
    <2>2. CASE i = last
      <3>1. Keys(all[i]) = keys /\ all[i].method = rule.method  BY <1>1, <2>2 DEF keys
      <3>2. QED  BY <1>5, <1>6, <3>1
    <2>3. QED  BY <1>1, <2>1, <2>2
  <1>8. ASSUME NEW node \in DOMAIN t, NEW method \in DOMAIN t[node].handlers
        PROVE  \E i \in DOMAIN all : /\ Latest(all, i, node, method)
                                     /\ t[node].handlers[method] = all[i].handler
    <2>1. CASE node = keys /\ method = rule.method
      <3>1. t[node].handlers[method] = rule.handler
        <4>1. t[node].handlers = Put(old(node), rule.method, rule.handler)  BY <1>4, <2>1
        <4>2. QED  BY <2>1, <4>1 DEF Put
      <3>2. Latest(all, last, node, method)
        <4>1. EndsAt(all[last], node, method)  BY <1>1, <2>1 DEF EndsAt, keys
        <4>2. \A j \in DOMAIN all : j <= last  BY <1>1
        <4>3. QED  BY <4>1, <4>2 DEF Latest
      <3>3. last \in DOMAIN all /\ all[last].handler = rule.handler  BY <1>1
      <3>4. QED  BY <3>1, <3>2, <3>3
    <2>2. CASE ~(node = keys /\ method = rule.method)
      <3>1. method \in DOMAIN old(node) /\ t[node].handlers[method] = old(node)[method]
        <4>1. method \in DOMAIN old(node)  BY <1>6, <2>2
        <4>2. CASE node = keys
          <5>1. t[node].handlers = Put(old(node), rule.method, rule.handler)  BY <1>4, <4>2
          <5>2. QED  BY <2>2, <4>1, <4>2, <5>1 DEF Put
        <4>3. CASE node # keys  BY <1>4, <4>3
        <4>4. QED  BY <4>1, <4>2, <4>3
      <3>2. node \in DOMAIN tree /\ old(node) = tree[node].handlers
        <4>1. DOMAIN NoMap = {}  BY DEF NoMap
        <4>2. QED  BY <3>1, <4>1 DEF old, HandlersAt
      <3>3. PICK i \in DOMAIN rs : /\ Latest(rs, i, node, method)
                                   /\ tree[node].handlers[method] = rs[i].handler
        BY <1>3, <3>1, <3>2
      <3>4. ~EndsAt(all[last], node, method)  BY <1>1, <2>2 DEF EndsAt, keys
      <3>5. Latest(all, i, node, method)
        BY <1>1, <3>3, <3>4 DEF Latest
      <3>6. i \in DOMAIN all /\ all[i].handler = rs[i].handler  BY <1>1
      <3>7. QED  BY <3>1, <3>2, <3>3, <3>5, <3>6
    <2>3. QED  BY <2>1, <2>2
  <1>9. QED  BY <1>7, <1>8 DEF HandlersAreOfRules, all, t

LEMMA SetKeepsTree ==
    ASSUME NEW rs \in Seq(Rules), NEW tree, NEW rule \in Rules, TreeOfRules(rs, tree)
    PROVE  TreeOfRules(Append(rs, rule), Set(tree, rule))
  BY SetKeepsNodes, SetKeepsHandlers DEF TreeOfRules

-----------------------------------------------------------------------------
(***************************************************************************)
(* The walk along the tokens of a path.                                    *)
(***************************************************************************)

LEMMA TokensAre ==
    ASSUME NEW path \in Seq(STRING)
    PROVE  Len(Tokens(path)) \in Nat /\ DOMAIN Tokens(path) = 1 .. Len(Tokens(path))
  <1> DEFINE n == Cardinality(Names(path))
             t == Tokens(path)
             S == {t[k] : k \in 1 .. n}
  <1>1. n \in Nat
    <2>1. DOMAIN path = 1 .. Len(path) /\ Len(path) \in Nat  OBVIOUS
    <2>2. Names(path) \subseteq 1 .. Len(path)  BY <2>1 DEF Names
    <2>3. IsFiniteSet(1 .. Len(path))  BY <2>1, FS_Interval
    <2>4. QED  BY <2>2, <2>3, FS_Subset, FS_CardinalityType
  <1>2. t = [k \in 1 .. n |-> t[k]]  BY DEF Tokens
  <1> HIDE DEF t, n
  <1>3. t \in [1 .. n -> S]  BY <1>2
  <1> HIDE DEF S
  <1>4. Len(t) = n /\ DOMAIN t = 1 .. n  BY <1>1, <1>3
  <1>5. QED  BY <1>1, <1>4 DEF t

LEMMA LeadsToIs ==
    ASSUME NEW rs, NEW rule, NEW tokens, DOMAIN tokens = 1 .. Len(tokens)
    PROVE  LeadsTo(rs, rule, tokens) <=>
               /\ Len(rule.path) = Len(tokens)
               /\ \A k \in 1 .. Len(tokens) : LeadsOn(rs, rule, tokens, k)
  BY DEF LeadsTo, LeadsOn

\* A child is of some rule that reaches its parent.
LEMMA ChildIsOfRule ==
    ASSUME NEW rs \in Seq(Rules), NEW tree, NodesAreOfRules(rs, tree),
           NEW node \in Seq(STRING), NEW key
    PROVE  Append(node, key) \in DOMAIN tree <=>
               \E i \in DOMAIN rs : /\ Reaches(rs[i], node) /\ Len(node) < Len(rs[i].path)
                                    /\ rs[i].path[Len(node) + 1].key = key
  <1> DEFINE child == Append(node, key)
             S == STRING \cup {key}
  <1>1. \A i \in DOMAIN rs : rs[i] \in Rules  OBVIOUS
  <1>2. \A i \in DOMAIN rs :
           Reaches(rs[i], child) <=>
               /\ Reaches(rs[i], node) /\ Len(node) < Len(rs[i].path)
               /\ rs[i].path[Len(node) + 1].key = key
    BY <1>1, ReachesChild
  <1>3. node \in Seq(S) /\ key \in S  OBVIOUS
  <1>4. child # <<>> /\ Len(child) \in Nat
    BY <1>3, AppendProperties
  <1> HIDE DEF child
  <1>5. ASSUME child \in DOMAIN tree
        PROVE  \E i \in DOMAIN rs : Reaches(rs[i], child)
    BY <1>4, <1>5 DEF NodesAreOfRules
  <1>6. ASSUME NEW i \in DOMAIN rs, Reaches(rs[i], child)
        PROVE  child \in DOMAIN tree
    <2>1. Len(child) <= Len(rs[i].path) /\ Prefix(rs[i], Len(child)) = child
      BY <1>6 DEF Reaches
    <2>2. Len(child) \in 0 .. Len(rs[i].path)  BY <1>1, <1>4, <2>1, KeysAreStrings
    <2>3. QED  BY <2>1, <2>2 DEF NodesAreOfRules
  <1>7. QED  BY <1>2, <1>5, <1>6 DEF child

\* The clause of LeadsTo for one token, in terms of the tree.
LEMMA LeadsOnIs ==
    ASSUME NEW rs \in Seq(Rules), NEW tree, NodesAreOfRules(rs, tree),
           NEW node \in Seq(STRING), NEW tokens, NEW i \in DOMAIN rs,
           Reaches(rs[i], node), Len(node) < Len(rs[i].path)
    PROVE  LeadsOn(rs, rs[i], tokens, Len(node) + 1) <=>
               \/ rs[i].path[Len(node) + 1].key = tokens[Len(node) + 1]
               \/ /\ rs[i].path[Len(node) + 1].key = Param
                  /\ Append(node, tokens[Len(node) + 1]) \notin DOMAIN tree
  <1> DEFINE n == Len(node)
             token == tokens[n + 1]
  <1>1. /\ n \in Nat /\ (n + 1) - 1 = n /\ n <= Len(rs[i].path)
        /\ \A j \in DOMAIN rs : rs[j] \in Rules /\ Len(rs[j].path) \in Nat
    <2>1. \A j \in DOMAIN rs : rs[j] \in Rules  OBVIOUS
    <2>2. \A j \in DOMAIN rs : Len(rs[j].path) \in Nat  BY <2>1, KeysAreStrings
    <2>3. n \in Nat  OBVIOUS
    <2>4. QED  BY <2>1, <2>2, <2>3
  <1>2. Prefix(rs[i], n) = node  BY DEF Reaches
  <1>3. \A j \in DOMAIN rs : SameKeys(rs[i], rs[j], n) <=> Reaches(rs[j], node)
    BY <1>1, <1>2, SameKeysIs
  <1>4. Append(node, token) \in DOMAIN tree <=>
            \E j \in DOMAIN rs : /\ Reaches(rs[j], node) /\ n < Len(rs[j].path)
                                 /\ rs[j].path[n + 1].key = token
    BY ChildIsOfRule
  <1>5. (\E j \in DOMAIN rs : /\ SameKeys(rs[i], rs[j], (n + 1) - 1)
                              /\ Len(rs[j].path) >= n + 1
                              /\ rs[j].path[n + 1].key = token) <=>
            Append(node, token) \in DOMAIN tree
    BY <1>1, <1>3, <1>4
  <1>6. QED  BY <1>5 DEF LeadsOn

LEMMA WalkStarts ==
    ASSUME NEW rs \in Seq(Rules), NEW tree, NodesAreOfRules(rs, tree),
           NEW tokens, Len(tokens) \in Nat
    PROVE  WalkInv(rs, tree, tokens, Walk)
  <1>1. Walk = [at |-> 0, node |-> <<>>, params |-> NoMap, ok |-> TRUE]  BY DEF Walk
  <1>2. Walk.at = 0 /\ Walk.node = <<>> /\ Walk.params = NoMap /\ Walk.ok = TRUE
    BY <1>1
  <1>3. WalkIsLed(rs, tree, tokens, Walk)
    <2>1. \A i \in DOMAIN rs : rs[i] \in Rules  OBVIOUS
    <2>2. \A i \in DOMAIN rs : Reaches(rs[i], <<>>)
      BY <2>1, WholePrefix, KeysAreStrings DEF Reaches
    <2>3. <<>> \in DOMAIN tree  BY DEF NodesAreOfRules
    <2>4. QED  BY <1>1, <1>2, <2>2, <2>3 DEF WalkIsLed
  <1>4. ParamsAreLast(tree, tokens, Walk)
    <2>1. Params(<<>>) = {}  BY DEF Params
    <2>2. DOMAIN NoMap = {} /\ NoMap = [name \in DOMAIN NoMap |-> NoMap[name]]  BY DEF NoMap
    <2>3. QED  BY <1>2, <2>1, <2>2 DEF ParamsAreLast
  <1>5. QED  BY <1>3, <1>4 DEF WalkInv

\* Where a turn goes.
KeyTaken(tree, w, token) ==
    IF Append(w.node, token) \in DOMAIN tree THEN token ELSE Param

LEMMA RulesGoDown ==
    ASSUME NEW rs \in Seq(Rules), NEW tree, NodesAreOfRules(rs, tree),
           NEW tokens, NEW w, w.node \in Seq(STRING), NEW i \in DOMAIN rs,
           Reaches(rs[i], w.node), Len(w.node) < Len(rs[i].path)
    PROVE  LeadsOn(rs, rs[i], tokens, Len(w.node) + 1) <=>
               rs[i].path[Len(w.node) + 1].key = KeyTaken(tree, w, tokens[Len(w.node) + 1])
  <1> DEFINE n == Len(w.node)
             token == tokens[n + 1]
             key == rs[i].path[n + 1].key
  <1>1. LeadsOn(rs, rs[i], tokens, n + 1) <=>
            key = token \/ (key = Param /\ Append(w.node, token) \notin DOMAIN tree)
    BY LeadsOnIs
  <1>2. key = token => Append(w.node, token) \in DOMAIN tree
    BY ChildIsOfRule
  <1>3. QED  BY <1>1, <1>2 DEF KeyTaken

LEMMA DownIsLed ==
    ASSUME NEW rs \in Seq(Rules), NEW tree, NodesAreOfRules(rs, tree),
           NEW tokens, Len(tokens) \in Nat, DOMAIN tokens = 1 .. Len(tokens),
           NEW w, WalkIsLed(rs, tree, tokens, w), w.ok, w.at < Len(tokens)
    PROVE  WalkIsLed(rs, tree, tokens, Down(tree, w, tokens[w.at + 1]))
  <1> DEFINE token == tokens[w.at + 1]
             key == KeyTaken(tree, w, token)
             child == Append(w.node, key)
             d == Down(tree, w, token)
  <1>1. /\ w.at \in Nat /\ Len(w.node) = w.at /\ w.node \in Seq(STRING)
        /\ w = [at |-> w.at, node |-> w.node, params |-> w.params, ok |-> w.ok]
        /\ w.node \in DOMAIN tree
    BY DEF WalkIsLed, NodesAreOfRules
  <1>2. \A i \in DOMAIN rs : rs[i] \in Rules  OBVIOUS
  <1>3. ASSUME NEW i \in DOMAIN rs
        PROVE  Reaches(rs[i], child) <=>
                  /\ Reaches(rs[i], w.node) /\ w.at < Len(rs[i].path)
                  /\ LeadsOn(rs, rs[i], tokens, w.at + 1)
    <2>1. Reaches(rs[i], child) <=>
             /\ Reaches(rs[i], w.node) /\ w.at < Len(rs[i].path)
             /\ rs[i].path[w.at + 1].key = key
      BY <1>1, <1>2, ReachesChild
    <2>2. Reaches(rs[i], w.node) /\ w.at < Len(rs[i].path) =>
             (LeadsOn(rs, rs[i], tokens, w.at + 1) <=> rs[i].path[w.at + 1].key = key)
      BY <1>1, RulesGoDown, SMTT(30)
    <2>3. QED  BY <2>1, <2>2
  <1>4. ASSUME NEW i \in DOMAIN rs, LeadsTo(rs, rs[i], tokens)
        PROVE  Reaches(rs[i], child)
    <2>1. /\ Len(rs[i].path) = Len(tokens)
          /\ \A k \in 1 .. Len(tokens) : LeadsOn(rs, rs[i], tokens, k)
      BY <1>4, LeadsToIs
    <2>2. Reaches(rs[i], w.node)  BY <1>4 DEF WalkIsLed
    <2>3. w.at + 1 \in 1 .. Len(tokens)  BY <1>1
    <2>4. QED  BY <1>3, <2>1, <2>2, <2>3
  <1>5. CASE child \notin DOMAIN tree
    <2>1. d = [w EXCEPT !.ok = FALSE]  BY <1>5 DEF Down, KeyTaken
    <2>2. d = [at |-> w.at, node |-> w.node, params |-> w.params, ok |-> FALSE]
      BY <1>1, <2>1
    <2>3. ASSUME NEW i \in DOMAIN rs
          PROVE  ~LeadsTo(rs, rs[i], tokens)
      <3>1. SUFFICES ASSUME LeadsTo(rs, rs[i], tokens) PROVE FALSE  OBVIOUS
      <3>2. Reaches(rs[i], child)  BY <1>4, <3>1
      <3>3. /\ Reaches(rs[i], w.node) /\ w.at < Len(rs[i].path)
            /\ rs[i].path[w.at + 1].key = key
        BY <1>1, <1>2, <3>2, ReachesChild
      <3>4. child \in DOMAIN tree  BY <1>1, <3>3, ChildIsOfRule
      <3>5. QED  BY <1>5, <3>4
    <2> HIDE DEF d
    <2>4. /\ d.at = w.at /\ d.node = w.node /\ d.ok = FALSE
          /\ d = [at |-> d.at, node |-> d.node, params |-> d.params, ok |-> d.ok]
      BY <2>2
    <2>5. WalkIsLed(rs, tree, tokens, d)  BY <2>3, <2>4 DEF WalkIsLed
    <2>6. QED  BY <2>5 DEF d
  <1>6. CASE child \in DOMAIN tree
    <2>1. /\ d.at = w.at + 1 /\ d.node = child /\ d.ok = TRUE
          /\ d = [at |-> d.at, node |-> d.node, params |-> d.params, ok |-> d.ok]
      BY <1>6 DEF Down, KeyTaken
    <2>2. Len(child) = w.at + 1 /\ w.at + 1 \in 0 .. Len(tokens)
      <3>1. w.node \in Seq(STRING \cup {key}) /\ key \in STRING \cup {key}  BY <1>1
      <3>2. Len(child) = Len(w.node) + 1  BY <3>1, AppendProperties
      <3>3. QED  BY <1>1, <3>2
    <2>3. ASSUME NEW i \in DOMAIN rs, Reaches(rs[i], child), NEW k \in 1 .. w.at + 1
          PROVE  LeadsOn(rs, rs[i], tokens, k)
      <3>1. Reaches(rs[i], w.node) /\ LeadsOn(rs, rs[i], tokens, w.at + 1)
        BY <1>3, <2>3
      <3>2. \A l \in 1 .. w.at : LeadsOn(rs, rs[i], tokens, l)
        BY <3>1 DEF WalkIsLed
      <3>3. k = w.at + 1 \/ k \in 1 .. w.at  BY <1>1
      <3>4. QED  BY <3>1, <3>2, <3>3
    <2> HIDE DEF d, child
    <2>4. WalkIsLed(rs, tree, tokens, d)
      BY <1>4, <1>6, <2>1, <2>2, <2>3 DEF WalkIsLed
    <2>5. QED  BY <2>4 DEF d
  <1>7. QED  BY <1>5, <1>6

LEMMA DownKeepsParams ==
    ASSUME NEW rs \in Seq(Rules), NEW tree, NodesAreOfRules(rs, tree),
           NEW tokens, NEW w, WalkInv(rs, tree, tokens, w), w.ok
    PROVE  ParamsAreLast(tree, tokens, Down(tree, w, tokens[w.at + 1]))
  <1> DEFINE token == tokens[w.at + 1]
             key == KeyTaken(tree, w, token)
             child == Append(w.node, key)
             d == Down(tree, w, token)
             name == tree[child].name
             n == w.at
  <1>1. /\ n \in Nat /\ Len(w.node) = n /\ w.node \in Seq(STRING)
        /\ w = [at |-> w.at, node |-> w.node, params |-> w.params, ok |-> w.ok]
    BY DEF WalkInv, WalkIsLed, NodesAreOfRules
  <1>2. /\ w.params = [x \in DOMAIN w.params |-> w.params[x]]
        /\ \A k \in Params(w.node) : NameAt(tree, w.node, k) \in DOMAIN w.params
        /\ \A x \in DOMAIN w.params :
              \E k \in Params(w.node) : /\ NameAt(tree, w.node, k) = x
                                        /\ LastOfName(tree, w.node, k)
                                        /\ w.params[x] = tokens[k]
    BY DEF WalkInv, ParamsAreLast
  <1>3. CASE child \notin DOMAIN tree
    <2>1. d = [w EXCEPT !.ok = FALSE]  BY <1>3 DEF Down, KeyTaken
    <2>2. d = [at |-> w.at, node |-> w.node, params |-> w.params, ok |-> FALSE]
      BY <1>1, <2>1
    <2> HIDE DEF d
    <2>3. d.node = w.node /\ d.params = w.params  BY <2>2
    <2>4. ParamsAreLast(tree, tokens, d)  BY <1>2, <2>3 DEF ParamsAreLast
    <2>5. QED  BY <2>4 DEF d
  <1>4. CASE child \in DOMAIN tree
    <2>1. /\ d.node = child
          /\ d.params = IF key = Param THEN Put(w.params, name, token) ELSE w.params
      BY <1>4 DEF Down, KeyTaken
    <2>2. child \in Seq(STRING)  BY <1>4 DEF NodesAreOfRules
    <2>3. /\ Len(child) = n + 1 /\ child[n + 1] = key
          /\ \A k \in 1 .. n : child[k] = w.node[k]
      <3>1. w.node \in Seq(STRING \cup {key}) /\ key \in STRING \cup {key}  BY <1>1
      <3>2. /\ Len(child) = Len(w.node) + 1 /\ child[Len(w.node) + 1] = key
            /\ \A k \in 1 .. Len(w.node) : child[k] = w.node[k]
        BY <3>1, AppendProperties
      <3>3. QED  BY <1>1, <3>2
    <2> HIDE DEF d, child, key, token
    <2>4. \A k \in 1 .. n : SubSeq(child, 1, k) = SubSeq(w.node, 1, k)
      <3>1. n \in 0 .. Len(child)  BY <1>1, <2>3
      <3>2. /\ SubSeq(child, 1, n) \in Seq(STRING) /\ Len(SubSeq(child, 1, n)) = n
            /\ \A k \in 1 .. n : SubSeq(child, 1, n)[k] = child[k]
        BY <2>2, <3>1, FrontIs
      <3>3. SubSeq(child, 1, n) = w.node
        <4>1. \A k \in 1 .. Len(w.node) : SubSeq(child, 1, n)[k] = w.node[k]
          BY <1>1, <2>3, <3>2
        <4>2. QED  BY <1>1, <3>2, <4>1, SeqEqual
      <3>4. \A k \in 0 .. n : SubSeq(SubSeq(child, 1, n), 1, k) = SubSeq(child, 1, k)
        BY <2>2, <3>1, FrontOfFront
      <3>5. QED  BY <1>1, <3>3, <3>4
    <2>5. /\ \A k \in 1 .. n : NameAt(tree, child, k) = NameAt(tree, w.node, k)
          /\ NameAt(tree, child, n + 1) = name
      <3>1. SubSeq(child, 1, n + 1) = child
        <4>1. SubSeq(child, 1, Len(child)) = child  BY <2>2, SubSeqFull
        <4>2. QED  BY <2>3, <4>1
      <3>2. QED  BY <2>4, <3>1 DEF NameAt
    <2>6. /\ Params(w.node) \subseteq 1 .. n
          /\ Params(child) = IF key = Param THEN Params(w.node) \cup {n + 1} ELSE Params(w.node)
      BY <1>1, <2>3 DEF Params
    <2>7. CASE key # Param
      <3>1. \A k \in Params(w.node) : LastOfName(tree, w.node, k) => LastOfName(tree, child, k)
        BY <2>5, <2>6, <2>7 DEF LastOfName
      <3>2. Params(child) = Params(w.node) /\ d.params = w.params /\ d.node = child
        BY <2>1, <2>6, <2>7
      <3>3. \A k \in Params(w.node) : NameAt(tree, child, k) = NameAt(tree, w.node, k)
        BY <2>5, <2>6
      <3>4. ParamsAreLast(tree, tokens, d)
        BY <1>2, <3>1, <3>2, <3>3 DEF ParamsAreLast
      <3>5. QED  BY <3>4 DEF d, token
    <2>8. CASE key = Param
      <3> DEFINE p == Put(w.params, name, token)
      <3>1. /\ d.node = child /\ d.params = p /\ Params(child) = Params(w.node) \cup {n + 1}
        BY <2>1, <2>6, <2>8
      <3>2. /\ DOMAIN p = DOMAIN w.params \cup {name} /\ p[name] = token
            /\ \A x \in DOMAIN w.params : x # name => p[x] = w.params[x]
            /\ p = [x \in DOMAIN p |-> p[x]]
        BY DEF Put
      <3> HIDE DEF p, name
      <3>3. ASSUME NEW k \in Params(child)
            PROVE  NameAt(tree, child, k) \in DOMAIN p
        BY <1>2, <2>5, <2>6, <3>1, <3>2
      <3>4. ASSUME NEW x \in DOMAIN p
            PROVE  \E k \in Params(child) : /\ NameAt(tree, child, k) = x
                                            /\ LastOfName(tree, child, k)
                                            /\ p[x] = tokens[k]
        <4>1. CASE x = name
          <5>1. \A j \in Params(child) : j <= n + 1  BY <1>1, <2>6, <3>1
          <5>2. LastOfName(tree, child, n + 1)  BY <5>1 DEF LastOfName
          <5>3. n + 1 \in Params(child) /\ NameAt(tree, child, n + 1) = x /\ p[x] = tokens[n + 1]
            BY <2>5, <3>1, <3>2, <4>1 DEF token
          <5>4. QED  BY <5>2, <5>3
        <4>2. CASE x # name
          <5>1. x \in DOMAIN w.params /\ p[x] = w.params[x]  BY <3>2, <4>2
          <5>2. PICK k \in Params(w.node) : /\ NameAt(tree, w.node, k) = x
                                            /\ LastOfName(tree, w.node, k)
                                            /\ w.params[x] = tokens[k]
            BY <1>2, <5>1
          <5>3. k \in Params(child) /\ NameAt(tree, child, k) = x
            BY <2>5, <2>6, <3>1, <5>2
          <5>4. LastOfName(tree, child, k)
            <6>1. SUFFICES ASSUME NEW j \in Params(child),
                                  NameAt(tree, child, j) = NameAt(tree, child, k)
                           PROVE  j <= k
              BY DEF LastOfName
            <6>2. j # n + 1  BY <2>5, <4>2, <5>3, <6>1
            <6>3. j \in Params(w.node) /\ NameAt(tree, w.node, j) = NameAt(tree, w.node, k)
              BY <2>5, <2>6, <3>1, <5>2, <5>3, <6>1, <6>2
            <6>4. QED  BY <5>2, <6>3 DEF LastOfName
          <5>5. QED  BY <5>1, <5>2, <5>3, <5>4
        <4>3. QED  BY <4>1, <4>2
      <3>5. ParamsAreLast(tree, tokens, d)
        BY <3>1, <3>2, <3>3, <3>4 DEF ParamsAreLast
      <3>6. QED  BY <3>5 DEF d, token
    <2>9. QED  BY <2>7, <2>8
  <1>5. QED  BY <1>3, <1>4

LEMMA DownKeepsWalk ==
    ASSUME NEW rs \in Seq(Rules), NEW tree, NodesAreOfRules(rs, tree),
           NEW tokens, Len(tokens) \in Nat, DOMAIN tokens = 1 .. Len(tokens),
           NEW w, WalkInv(rs, tree, tokens, w), w.ok, w.at < Len(tokens)
    PROVE  WalkInv(rs, tree, tokens, Down(tree, w, tokens[w.at + 1]))
  <1>1. WalkIsLed(rs, tree, tokens, w)  BY DEF WalkInv
  <1>2. WalkIsLed(rs, tree, tokens, Down(tree, w, tokens[w.at + 1]))  BY <1>1, DownIsLed
  <1>3. ParamsAreLast(tree, tokens, Down(tree, w, tokens[w.at + 1]))  BY DownKeepsParams
  <1>4. QED  BY <1>2, <1>3 DEF WalkInv

-----------------------------------------------------------------------------
(***************************************************************************)
(* What is found at the end of the walk.                                   *)
(***************************************************************************)

\* RouteIsChosen, of any answer.
IsChosen(rs, tokens, method, found) ==
    /\ Chosen(rs, tokens, method) = {} => found = NotFound
    /\ \A i \in Chosen(rs, tokens, method) :
          /\ found.handler = rs[i].handler
          /\ Agree(rs) => found.params = Values(rs[i], tokens)

LEMMA LeadsToEnd ==
    ASSUME NEW rs \in Seq(Rules), NEW tree, NEW tokens, DOMAIN tokens = 1 .. Len(tokens),
           NEW w, WalkIsLed(rs, tree, tokens, w), w.ok => w.at = Len(tokens),
           NEW i \in DOMAIN rs
    PROVE  LeadsTo(rs, rs[i], tokens) <=> w.ok /\ Keys(rs[i]) = w.node
  <1>1. rs[i] \in Rules  OBVIOUS
  <1>2. /\ Len(Keys(rs[i])) = Len(rs[i].path) /\ Len(rs[i].path) \in Nat
        /\ Prefix(rs[i], Len(rs[i].path)) = Keys(rs[i])
    BY <1>1, KeysAreStrings, WholePrefix
  <1>3. /\ Len(w.node) = w.at
        /\ LeadsTo(rs, rs[i], tokens) => w.ok /\ Reaches(rs[i], w.node)
        /\ Reaches(rs[i], w.node) => \A k \in 1 .. w.at : LeadsOn(rs, rs[i], tokens, k)
    BY DEF WalkIsLed
  <1>4. LeadsTo(rs, rs[i], tokens) <=>
            /\ Len(rs[i].path) = Len(tokens)
            /\ \A k \in 1 .. Len(tokens) : LeadsOn(rs, rs[i], tokens, k)
    BY LeadsToIs
  <1>5. ASSUME LeadsTo(rs, rs[i], tokens)
        PROVE  w.ok /\ Keys(rs[i]) = w.node
    BY <1>2, <1>3, <1>4, <1>5 DEF Reaches
  <1>6. ASSUME w.ok, Keys(rs[i]) = w.node
        PROVE  LeadsTo(rs, rs[i], tokens)
    <2>1. Len(w.node) = Len(rs[i].path)  BY <1>2, <1>6
    <2>2. Reaches(rs[i], w.node)  BY <1>2, <1>6, <2>1 DEF Reaches
    <2>3. QED  BY <1>3, <1>4, <1>6, <2>1, <2>2
  <1>7. QED  BY <1>5, <1>6

\* The names of the tree are those of any rule, as long as the rules agree.
LEMMA NamesAgree ==
    ASSUME NEW rs \in Seq(Rules), NEW tree, NodesAreOfRules(rs, tree), Agree(rs),
           NEW i \in DOMAIN rs, NEW k \in 1 .. Len(rs[i].path)
    PROVE  NameAt(tree, Keys(rs[i]), k) = rs[i].path[k].name
  <1> DEFINE node == Prefix(rs[i], k)
  <1>1. rs[i] \in Rules /\ \A j \in DOMAIN rs : rs[j] \in Rules  OBVIOUS
  <1>2. DOMAIN rs[i].path = 1 .. Len(rs[i].path) /\ Len(rs[i].path) \in Nat
    BY <1>1, KeysAreStrings
  <1>3. k \in 0 .. Len(rs[i].path) /\ k \in Nat /\ k <= Len(rs[i].path)  BY <1>2
  <1>4. Len(node) = k /\ node # <<>>  BY <1>1, <1>3, PrefixIs
  <1>5. node \in DOMAIN tree  BY <1>3 DEF NodesAreOfRules
  <1>6. NameAt(tree, Keys(rs[i]), k) = tree[node].name  BY DEF NameAt, Prefix
  <1> HIDE DEF node
  <1>7. PICK j \in DOMAIN rs : /\ Reaches(rs[j], node)
                               /\ tree[node].name = rs[j].path[Len(node)].name
    BY <1>4, <1>5 DEF NodesAreOfRules
  <1>8. SameKeys(rs[i], rs[j], k)  BY <1>1, <1>3, <1>7, SameKeysIs DEF node
  <1>9. rs[i].path[k].name = rs[j].path[k].name  BY <1>2, <1>8 DEF Agree
  <1>10. QED  BY <1>4, <1>6, <1>7, <1>9

LEMMA ParamsAreValues ==
    ASSUME NEW rs \in Seq(Rules), NEW tree, NodesAreOfRules(rs, tree), Agree(rs),
           NEW tokens, NEW w, ParamsAreLast(tree, tokens, w),
           NEW i \in DOMAIN rs, Keys(rs[i]) = w.node
    PROVE  w.params = Values(rs[i], tokens)
  <1> DEFINE path == rs[i].path
             at == {k \in DOMAIN path : path[k].key = Param}
             names == {path[k].name : k \in at}
             Is(k, x) == path[k].name = x /\ \A j \in at : path[j].name = x => j <= k
             v == [x \in names |-> tokens[CHOOSE k \in at : Is(k, x)]]
  <1>1. Values(rs[i], tokens) = v  BY DEF Values
  <1>2. rs[i] \in Rules  OBVIOUS
  <1>3. /\ DOMAIN path = 1 .. Len(path) /\ Len(w.node) = Len(path) /\ Len(path) \in Nat
        /\ \A k \in 1 .. Len(path) : w.node[k] = path[k].key
    BY <1>2, KeysAreStrings
  <1>4. at = Params(w.node)  BY <1>3 DEF Params
  <1>5. \A k \in at : NameAt(tree, w.node, k) = path[k].name
    <2>1. \A k \in 1 .. Len(path) : NameAt(tree, Keys(rs[i]), k) = path[k].name
      BY NamesAgree
    <2>2. QED  BY <1>3, <2>1
  <1>6. /\ w.params = [x \in DOMAIN w.params |-> w.params[x]]
        /\ \A k \in Params(w.node) : NameAt(tree, w.node, k) \in DOMAIN w.params
        /\ \A x \in DOMAIN w.params :
              \E k \in Params(w.node) : /\ NameAt(tree, w.node, k) = x
                                        /\ LastOfName(tree, w.node, k)
                                        /\ w.params[x] = tokens[k]
    BY DEF ParamsAreLast
  <1>7. at \subseteq Nat  BY <1>3
  <1>8. ASSUME NEW x \in DOMAIN w.params
        PROVE  \E k \in at : Is(k, x) /\ w.params[x] = tokens[k]
    <2>1. PICK k \in Params(w.node) : /\ NameAt(tree, w.node, k) = x
                                      /\ LastOfName(tree, w.node, k)
                                      /\ w.params[x] = tokens[k]
      BY <1>6
    <2> HIDE DEF at
    <2>2. k \in at /\ path[k].name = x  BY <1>4, <1>5, <2>1
    <2>3. \A j \in at : path[j].name = x => j <= k
      BY <1>4, <1>5, <2>1, <2>2 DEF LastOfName
    <2>4. QED  BY <2>1, <2>2, <2>3
  <1> HIDE DEF at
  <1>9. DOMAIN w.params = names  BY <1>4, <1>5, <1>6, <1>8
  <1>10. ASSUME NEW x \in names
         PROVE  w.params[x] = tokens[CHOOSE k \in at : Is(k, x)]
    <2> DEFINE c == CHOOSE k \in at : Is(k, x)
    <2>1. PICK k \in at : Is(k, x) /\ w.params[x] = tokens[k]  BY <1>8, <1>9
    <2>2. c \in at /\ Is(c, x)  BY <2>1
    <2> HIDE DEF c
    <2>3. c = k  BY <1>7, <2>1, <2>2
    <2>4. w.params[x] = tokens[c]  BY <2>1, <2>3
    <2>5. QED  BY <2>4 DEF c
  <1>11. w.params = v
    <2> HIDE DEF names
    <2>1. DOMAIN v = names /\ \A x \in names : v[x] = w.params[x]  BY <1>10
    <2>2. v = [x \in DOMAIN v |-> v[x]]  OBVIOUS
    <2> HIDE DEF v
    <2>3. QED  BY <1>6, <1>9, <2>1, <2>2
  <1>12. QED  BY <1>1, <1>11

LEMMA FoundIsChosen ==
    ASSUME NEW rs \in Seq(Rules), NEW tree, TreeOfRules(rs, tree),
           NEW tokens, DOMAIN tokens = 1 .. Len(tokens),
           NEW w, WalkInv(rs, tree, tokens, w), w.ok => w.at = Len(tokens), NEW method
    PROVE  IsChosen(rs, tokens, method, Found(tree, w, method))
  <1> DEFINE found == Found(tree, w, method)
             chosen == Chosen(rs, tokens, method)
  <1>1. NodesAreOfRules(rs, tree) /\ WalkIsLed(rs, tree, tokens, w)
        /\ ParamsAreLast(tree, tokens, w)
    BY DEF TreeOfRules, WalkInv
  <1>2. \A i \in DOMAIN rs : LeadsTo(rs, rs[i], tokens) <=> w.ok /\ Keys(rs[i]) = w.node
    BY <1>1, LeadsToEnd
  <1>3. chosen = {i \in DOMAIN rs : w.ok /\ Latest(rs, i, w.node, method)}
    <2> DEFINE those == {i \in DOMAIN rs : /\ LeadsTo(rs, rs[i], tokens)
                                           /\ rs[i].method = method}
    <2>1. those = {i \in DOMAIN rs : w.ok /\ EndsAt(rs[i], w.node, method)}
      BY <1>2 DEF EndsAt
    <2>2. chosen = {i \in those : \A j \in those : j <= i}  BY DEF Chosen
    <2> HIDE DEF those, chosen
    <2>3. QED  BY <2>1, <2>2 DEF Latest
  <1>4. /\ w.node \in DOMAIN tree
        /\ \A i \in DOMAIN rs : rs[i].method \in DOMAIN tree[Keys(rs[i])].handlers
        /\ \A m \in DOMAIN tree[w.node].handlers :
              \E i \in DOMAIN rs : /\ Latest(rs, i, w.node, m)
                                   /\ tree[w.node].handlers[m] = rs[i].handler
    BY <1>1 DEF TreeOfRules, HandlersAreOfRules, WalkIsLed
  <1> HIDE DEF chosen
  <1>5. CASE ~(w.ok /\ method \in DOMAIN tree[w.node].handlers)
    <2>1. found = NotFound  BY <1>5 DEF Found
    <2>2. chosen = {}
      <3>1. ASSUME NEW i \in chosen PROVE FALSE
        <4>1. i \in DOMAIN rs /\ w.ok /\ Keys(rs[i]) = w.node /\ rs[i].method = method
          BY <1>3 DEF Latest, EndsAt
        <4>2. QED  BY <1>4, <1>5, <4>1
      <3>2. QED  BY <3>1
    <2>3. QED  BY <2>1, <2>2 DEF IsChosen, chosen
  <1>6. CASE w.ok /\ method \in DOMAIN tree[w.node].handlers
    <2>1. found = [handler |-> tree[w.node].handlers[method], params |-> w.params]
      BY <1>6 DEF Found
    <2>2. PICK i \in DOMAIN rs : /\ Latest(rs, i, w.node, method)
                                 /\ tree[w.node].handlers[method] = rs[i].handler
      BY <1>4, <1>6
    <2>3. i \in chosen  BY <1>3, <1>6, <2>2
    <2>4. ASSUME NEW k \in chosen
          PROVE  k = i
      <3>1. k \in DOMAIN rs /\ Latest(rs, k, w.node, method)  BY <1>3
      <3>2. k <= i /\ i <= k  BY <2>2, <3>1 DEF Latest
      <3>3. k \in Nat /\ i \in Nat  BY <3>1
      <3>4. QED  BY <3>2, <3>3
    <2>5. ASSUME Agree(rs)
          PROVE  found.params = Values(rs[i], tokens)
      <3>1. Keys(rs[i]) = w.node  BY <2>2 DEF Latest, EndsAt
      <3>2. w.params = Values(rs[i], tokens)  BY <1>1, <2>5, <3>1, ParamsAreValues
      <3>3. QED  BY <2>1, <3>2
    <2>6. found.handler = rs[i].handler  BY <2>1, <2>2
    <2> HIDE DEF found
    <2>7. IsChosen(rs, tokens, method, found)
      BY <2>3, <2>4, <2>5, <2>6 DEF IsChosen, chosen
    <2>8. QED  BY <2>7 DEF found
  <1>7. QED  BY <1>5, <1>6

-----------------------------------------------------------------------------
(***************************************************************************)
(* The pieces and what is made of them.                                    *)
(***************************************************************************)

LEMMA RequestIs ==
    ASSUME NEW q \in Requests
    PROVE  /\ DOMAIN q = {"method", "url", "headers", "body", "flags"}
           /\ q.url \in Seq(STRING) /\ Len(q.url) \in Nat \ {0} /\ q.url # <<>> /\ IsUrl(q.url)
           /\ Len(q.headers) \in Nat /\ DOMAIN q.headers = 1 .. Len(q.headers)
           /\ \A i \in 1 .. Len(q.headers) :
                 /\ q.headers[i][1] \in Seq(STRING) /\ Len(q.headers[i][1]) \in Nat \ {0}
                 /\ q.headers[i][2] \in Seq(STRING) /\ Len(q.headers[i][2]) \in Nat
           /\ q.body \in Seq(STRING) /\ Len(q.body) \in Nat
  <1>1. /\ DOMAIN q = {"method", "url", "headers", "body", "flags"}
        /\ q.url \in Seq(STRING) /\ q.url # <<>> /\ IsUrl(q.url)
        /\ q.headers \in Seq((Seq(STRING) \ {<<>>}) \X Seq(STRING))
        /\ q.body \in Seq(STRING)
    BY RequestsAssumption
  <1>2. Len(q.url) \in Nat \ {0} /\ Len(q.body) \in Nat
    BY <1>1
  <1>3. /\ Len(q.headers) \in Nat /\ DOMAIN q.headers = 1 .. Len(q.headers)
        /\ \A i \in 1 .. Len(q.headers) :
              /\ q.headers[i][1] \in Seq(STRING) /\ Len(q.headers[i][1]) \in Nat \ {0}
              /\ q.headers[i][2] \in Seq(STRING) /\ Len(q.headers[i][2]) \in Nat
    <2> DEFINE Headers == (Seq(STRING) \ {<<>>}) \X Seq(STRING)
    <2>1. q.headers \in Seq(Headers)  BY <1>1
    <2>2. ASSUME NEW x \in Headers
          PROVE  /\ x[1] \in Seq(STRING) /\ Len(x[1]) \in Nat \ {0}
                 /\ x[2] \in Seq(STRING) /\ Len(x[2]) \in Nat
      <3>1. x[1] \in Seq(STRING) /\ x[1] # <<>> /\ x[2] \in Seq(STRING)  OBVIOUS
      <3>2. QED  BY <3>1
    <2> HIDE DEF Headers
    <2>3. QED  BY <2>1, <2>2
  <1>4. QED  BY <1>1, <1>2, <1>3

\* The path of a URL is made of pieces of it.
LEMMA UntilIs ==
    ASSUME NEW S, NEW f \in Seq(S), NEW marks
    PROVE  Until(f, marks) \in 0 .. Len(f)
  <1> DEFINE T == {i \in DOMAIN f : \A j \in 1 .. i : f[j] \notin marks}
  <1>1. Len(f) \in Nat /\ DOMAIN f = 1 .. Len(f)  OBVIOUS
  <1>2. T \subseteq 1 .. Len(f)  BY <1>1
  <1>3. IsFiniteSet(1 .. Len(f)) /\ Cardinality(1 .. Len(f)) = Len(f)
    BY <1>1, FS_Interval, SMTT(30)
  <1> HIDE DEF T
  <1>4. IsFiniteSet(T) /\ Cardinality(T) <= Len(f)  BY <1>2, <1>3, FS_Subset
  <1>5. Cardinality(T) \in Nat  BY <1>4, FS_CardinalityType
  <1>6. Until(f, marks) = Cardinality(T)  BY DEF Until, T
  <1>7. QED  BY <1>1, <1>4, <1>5, <1>6

LEMMA AfterIs ==
    ASSUME NEW S, NEW f \in Seq(S), NEW n \in 0 .. Len(f)
    PROVE  After(f, n) \in Seq(S) /\ Len(After(f, n)) = Len(f) - n
  <1>1. Len(f) \in Nat /\ \A i \in n + 1 .. Len(f) : f[i] \in S  OBVIOUS
  <1>2. SubSeq(f, n + 1, Len(f)) \in Seq(S)  BY <1>1, SubSeqProperties
  <1>3. Len(SubSeq(f, n + 1, Len(f))) = Len(f) - n
    BY <1>1, SubSeqProperties
  <1>4. QED  BY <1>2, <1>3 DEF After

LEMMA PathIsSeq ==
    ASSUME NEW f \in Seq(STRING)
    PROVE  UrlOf(f).path \in Seq(STRING)
  <1> DEFINE rest == IF IsAbsolute(f) THEN After(f, 3 + Len(Host(f))) ELSE f
  <1>1. rest \in Seq(STRING)
    <2>1. CASE ~IsAbsolute(f)  BY <2>1
    <2>2. CASE IsAbsolute(f)
      <3> DEFINE g == After(f, 3)
                 u == Until(g, {"/", "?"})
      <3>1. Len(f) \in Nat /\ Len(f) > 3  BY <2>2 DEF IsAbsolute
      <3>2. g \in Seq(STRING) /\ Len(g) = Len(f) - 3  BY <3>1, AfterIs
      <3> HIDE DEF g
      <3>3. u \in 0 .. Len(g)  BY <3>2, UntilIs
      <3> HIDE DEF u
      <3>4. Len(SubSeq(g, 1, u)) = u  BY <3>2, <3>3, FrontIs
      <3>5. Len(Host(f)) = u  BY <3>4 DEF Host, g, u
      <3>6. 3 + Len(Host(f)) \in 0 .. Len(f)  BY <3>1, <3>2, <3>3, <3>5
      <3>7. QED  BY <2>2, <3>6, AfterIs
    <2>3. QED  BY <2>1, <2>2
  <1>2. UrlOf(f).path = SubSeq(rest, 1, Until(rest, {"?"}))  BY DEF UrlOf
  <1> HIDE DEF rest
  <1>3. Until(rest, {"?"}) \in 0 .. Len(rest)  BY <1>1, UntilIs
  <1>4. QED  BY <1>1, <1>2, <1>3, FrontIs

\* One header more is one more element of the map, over one of its name.
LEMMA HeaderMapGrows ==
    ASSUME NEW q, NEW n \in Nat
    PROVE  HeaderMap(q, n + 1)
             = Put(HeaderMap(q, n), q.headers[n + 1][1], q.headers[n + 1][2])
  <1> DEFINE name(i) == q.headers[i][1]
             new == name(n + 1)
             pick(S) == CHOOSE i \in S : TRUE
             names(k) == {name(i) : i \in 1 .. k}
             value(k, x) == q.headers[pick(LastOf(q, k, x))][2]
             put == [x \in names(n) \cup {new} |->
                       IF x = new THEN q.headers[n + 1][2] ELSE value(n, x)]
  <1>1. 1 .. n + 1 = (1 .. n) \cup {n + 1}  OBVIOUS
  <1>2. names(n + 1) = names(n) \cup {new}  BY <1>1
  <1>3. LastOf(q, n + 1, new) = {n + 1}  BY <1>1 DEF LastOf
  <1>4. ASSUME NEW x, x # new
        PROVE  LastOf(q, n + 1, x) = LastOf(q, n, x)
    BY <1>1, <1>4 DEF LastOf
  <1>5. value(n + 1, new) = q.headers[n + 1][2]
    <2>1. pick({n + 1}) = n + 1  OBVIOUS
    <2>2. QED  BY <1>3, <2>1
  <1>6. ASSUME NEW x \in names(n), x # new
        PROVE  value(n + 1, x) = value(n, x)
    <2>1. LastOf(q, n + 1, x) = LastOf(q, n, x)  BY <1>4, <1>6
    <2> HIDE DEF pick
    <2>2. QED  BY <2>1
  <1>7. HeaderMap(q, n + 1) = [x \in names(n + 1) |-> value(n + 1, x)]
    BY DEF HeaderMap
  <1>8. HeaderMap(q, n) = [x \in names(n) |-> value(n, x)]
    BY DEF HeaderMap
  <1> HIDE DEF value, names, new
  <1>9. HeaderMap(q, n + 1) = put  BY <1>2, <1>5, <1>6, <1>7
  <1>10. Put(HeaderMap(q, n), new, q.headers[n + 1][2]) = put
    BY <1>8 DEF Put
  <1>11. QED  BY <1>9, <1>10 DEF new

\* How far a piece takes the reading, by its kind.
LEMMA UrlAdvances ==
    ASSUME sent \in Requests, NEW n, n \in 1 .. Len(sent.url) + 1,
           next' = FromUrl(sent, n + 1), sent' = sent
    PROVE  /\ NextIsPiece' /\ next'.kind \in {"url", "field", "end"}
           /\ next'.kind = "url" <=> n <= Len(sent.url)
           /\ HeadersStored' = 0 /\ BodyFed' = 0 /\ ~Pending' /\ ~InName'
  <1>1. /\ Len(sent.url) \in Nat /\ Len(sent.headers) \in Nat
        /\ \A i \in 1 .. Len(sent.headers) : Len(sent.headers[i][1]) \in Nat \ {0}
    BY RequestIs
  <1>2. CASE n <= Len(sent.url)
    <2>1. next'.kind = "url" /\ next'.part = n + 1  BY <1>1, <1>2 DEF FromUrl, Piece
    <2>2. n + 1 \in 1 .. Len(sent.url) + 1  BY <1>1, <1>2
    <2>3. QED
      BY <1>2, <2>1, <2>2
         DEF NextIsPiece, HeadersStored, HeadersFed, Pending, BodyFed, InName
  <1>3. CASE ~(n <= Len(sent.url))
    <2>1. next' = FromHeader(sent, 1)  BY <1>1, <1>3 DEF FromUrl
    <2>2. \/ /\ next'.kind = "field" /\ next'.head = 1 /\ next'.part = 1
             /\ 1 \in 1 .. Len(sent.headers)
          \/ next'.kind = "end" /\ Len(sent.headers) = 0
      BY <1>1, <2>1 DEF FromHeader, Piece
    <2>3. CASE next'.kind = "field" /\ next'.head = 1 /\ next'.part = 1
               /\ 1 \in 1 .. Len(sent.headers)
      <3>1. 1 \in 1 .. Len(sent.headers[1][1])  BY <1>1, <2>3
      <3>2. QED
        BY <1>1, <1>3, <2>3, <3>1
           DEF NextIsPiece, HeadersStored, HeadersFed, Pending, BodyFed, InName
    <2>4. CASE next'.kind = "end" /\ Len(sent.headers) = 0
      BY <1>1, <1>3, <2>4
         DEF NextIsPiece, HeadersStored, HeadersFed, Pending, BodyFed, InName
    <2>5. QED  BY <2>2, <2>3, <2>4
  <1>4. QED  BY <1>2, <1>3

LEMMA FieldAdvances ==
    ASSUME sent \in Requests, NextIsPiece, Feed("field"), sent' = sent
    PROVE  /\ next.head \in 1 .. Len(sent.headers) /\ HeadersFed = next.head - 1
           /\ next.part \in 1 .. Len(sent.headers[next.head][1])
           /\ UrlFed = sent.url /\ BodyFed = 0
           /\ NextIsPiece' /\ next'.kind \in {"field", "value", "end"}
           /\ UrlFed' = UrlFed /\ BodyFed' = 0
           /\ Valued(sent) =>
                 /\ HeadersStored' = HeadersFed /\ ~Pending' /\ next'.head = next.head
                 /\ \/ next'.kind = "field" /\ next'.part = next.part + 1 /\ InName'
                    \/ /\ next'.kind = "value" /\ next'.part = 1
                       /\ next.part = Len(sent.headers[next.head][1])
  <1> DEFINE h == next.head
             n == Len(sent.headers[h][1])
  <1>1. next.kind = "field" /\ h \in 1 .. Len(sent.headers) /\ next.part \in 1 .. n
    BY DEF Feed, NextIsPiece
  <1>2. /\ Len(sent.headers) \in Nat /\ DOMAIN sent.headers = 1 .. Len(sent.headers)
        /\ sent.headers[h][2] \in Seq(STRING) /\ Len(sent.headers[h][2]) \in Nat
        /\ \A i \in 1 .. Len(sent.headers) : Len(sent.headers[i][1]) \in Nat \ {0}
        /\ n \in Nat
    BY <1>1, RequestIs
  <1>3. HeadersFed = h - 1 /\ UrlFed = sent.url /\ BodyFed = 0
    BY <1>1 DEF HeadersFed, UrlFed, BodyFed
  <1>4. next' = IF next.part < n THEN Piece("field", h, next.part + 1)
                ELSE IF sent.headers[h][2] = <<>> THEN FromHeader(sent, h + 1)
                ELSE Piece("value", h, 1)
    BY <1>1 DEF Feed, Following
  <1>5. CASE next.part < n
    <2>1. next'.kind = "field" /\ next'.head = h /\ next'.part = next.part + 1
      BY <1>4, <1>5 DEF Piece
    <2>2. next.part + 1 \in 1 .. n /\ next.part + 1 > 1  BY <1>1, <1>2, <1>5, SMTT(30)
    <2>3. InName' /\ ~Pending' /\ HeadersFed' = h - 1 /\ HeadersStored' = h - 1
      BY <2>1, <2>2 DEF InName, Pending, HeadersFed, HeadersStored
    <2>4. NextIsPiece' /\ UrlFed' = sent.url /\ BodyFed' = 0
      BY <1>1, <2>1, <2>2 DEF NextIsPiece, UrlFed, BodyFed
    <2>5. QED  BY <1>1, <1>3, <2>1, <2>3, <2>4
  <1>6. CASE ~(next.part < n) /\ sent.headers[h][2] = <<>>
    <2>1. \/ /\ next'.kind = "field" /\ next'.head = h + 1 /\ next'.part = 1
             /\ h + 1 \in 1 .. Len(sent.headers)
          \/ next'.kind = "end"
      BY <1>1, <1>2, <1>4, <1>6 DEF FromHeader, Piece
    <2>2. ~Valued(sent)  BY <1>1, <1>2, <1>6 DEF Valued
    <2>3. h + 1 \in 1 .. Len(sent.headers) => 1 \in 1 .. Len(sent.headers[h + 1][1])
      BY <1>2
    <2>4. NextIsPiece' /\ UrlFed' = sent.url /\ BodyFed' = 0
      BY <2>1, <2>3 DEF NextIsPiece, UrlFed, BodyFed
    <2>5. QED  BY <1>1, <1>3, <2>1, <2>2, <2>4
  <1>7. CASE ~(next.part < n) /\ sent.headers[h][2] # <<>>
    <2>1. next'.kind = "value" /\ next'.head = h /\ next'.part = 1
      BY <1>4, <1>7 DEF Piece
    <2>2. 1 \in 1 .. Len(sent.headers[h][2])  BY <1>2, <1>7
    <2>3. next.part = n  BY <1>1, <1>2, <1>7
    <2>4. NextIsPiece' /\ UrlFed' = sent.url /\ BodyFed' = 0
      BY <1>1, <2>1, <2>2 DEF NextIsPiece, UrlFed, BodyFed
    <2>5. ~Pending' /\ HeadersStored' = h - 1
      BY <2>1 DEF Pending, HeadersStored, HeadersFed
    <2>6. QED  BY <1>1, <1>3, <2>1, <2>3, <2>4, <2>5
  <1>8. QED  BY <1>5, <1>6, <1>7

LEMMA ValueAdvances ==
    ASSUME sent \in Requests, NextIsPiece, Feed("value"), sent' = sent
    PROVE  /\ next.head \in 1 .. Len(sent.headers)
           /\ next.part \in 1 .. Len(sent.headers[next.head][2])
           /\ HeadersStored = next.head - 1 /\ UrlFed = sent.url /\ BodyFed = 0
           /\ NextIsPiece' /\ next'.kind \in {"field", "value", "end"}
           /\ UrlFed' = UrlFed /\ BodyFed' = 0 /\ HeadersStored' = next.head - 1
           /\ \/ /\ next'.kind = "value" /\ next'.head = next.head /\ next'.part = next.part + 1
                 /\ ~Pending'
              \/ /\ next'.kind # "value" /\ Pending' /\ ~InName' /\ HeadersFed' = next.head
                 /\ next.part = Len(sent.headers[next.head][2])
  <1> DEFINE h == next.head
             n == Len(sent.headers[h][2])
  <1>1. next.kind = "value" /\ h \in 1 .. Len(sent.headers) /\ next.part \in 1 .. n
    BY DEF Feed, NextIsPiece
  <1>2. Len(sent.headers) \in Nat /\ n \in Nat
    BY <1>1, RequestIs
  <1>3. HeadersStored = h - 1 /\ UrlFed = sent.url /\ BodyFed = 0
    BY <1>1 DEF HeadersStored, Pending, HeadersFed, UrlFed, BodyFed
  <1>4. next' = IF next.part < n THEN Piece("value", h, next.part + 1)
                ELSE FromHeader(sent, h + 1)
    BY <1>1 DEF Feed, Following
  <1>5. CASE next.part < n
    <2>1. next'.kind = "value" /\ next'.head = h /\ next'.part = next.part + 1
      BY <1>4, <1>5 DEF Piece
    <2>2. next.part + 1 \in 1 .. n  BY <1>1, <1>2, <1>5, SMTT(30)
    <2>3. QED
      BY <1>1, <1>2, <1>3, <2>1, <2>2
         DEF NextIsPiece, UrlFed, BodyFed, HeadersStored, HeadersFed, Pending
  <1>6. CASE ~(next.part < n)
    <2>1. next.part = n  BY <1>1, <1>2, <1>6
    <2>2. \/ /\ next'.kind = "field" /\ next'.head = h + 1 /\ next'.part = 1
             /\ h + 1 \in 1 .. Len(sent.headers)
          \/ next'.kind = "end" /\ h = Len(sent.headers)
      BY <1>1, <1>2, <1>4, <1>6 DEF FromHeader, Piece
    <2>3. HeadersFed' = h /\ Pending' /\ ~InName' /\ HeadersStored' = h - 1
      <3>1. ~InName'  BY <2>2 DEF InName
      <3>2. HeadersFed' = h  BY <1>1, <1>2, <2>2 DEF HeadersFed
      <3>3. h > 0 /\ next'.kind \in {"field", "end"}  BY <1>1, <1>2, <2>2
      <3>4. Pending'  BY <3>1, <3>2, <3>3 DEF Pending
      <3>5. QED  BY <3>1, <3>2, <3>4 DEF HeadersStored
    <2>4. h + 1 \in 1 .. Len(sent.headers) => 1 \in 1 .. Len(sent.headers[h + 1][1])
      <3>1. \A i \in 1 .. Len(sent.headers) : Len(sent.headers[i][1]) \in Nat \ {0}
        BY RequestIs
      <3>2. QED  BY <3>1
    <2>5. NextIsPiece' /\ UrlFed' = UrlFed /\ BodyFed' = 0
      BY <1>1, <1>2, <1>3, <2>2, <2>4 DEF NextIsPiece, UrlFed, BodyFed
    <2>6. QED  BY <1>1, <1>3, <2>1, <2>2, <2>3, <2>5
  <1>7. QED  BY <1>5, <1>6

LEMMA EndAdvances ==
    ASSUME sent \in Requests, NextIsPiece, Feed("end"), sent' = sent
    PROVE  /\ HeadersFed = Len(sent.headers) /\ UrlFed = sent.url /\ BodyFed = 0
           /\ NextIsPiece' /\ next'.kind \in {"body", "done"}
           /\ UrlFed' = UrlFed /\ BodyFed' = 0
           /\ HeadersStored' = HeadersFed /\ ~Pending' /\ ~InName' /\ ~InName
  <1>1. next.kind = "end"  BY DEF Feed
  <1>2. Len(sent.body) \in Nat  BY RequestIs
  <1>3. HeadersFed = Len(sent.headers) /\ UrlFed = sent.url /\ BodyFed = 0
    BY <1>1 DEF HeadersFed, UrlFed, BodyFed
  <1>4. next' = FromBody(sent, 1)  BY <1>1 DEF Feed, Following
  <1>5. \/ next'.kind = "body" /\ next'.part = 1 /\ 1 <= Len(sent.body)
        \/ next'.kind = "done" /\ Len(sent.body) = 0
    BY <1>2, <1>4 DEF FromBody, Piece
  <1>6. QED
    BY <1>1, <1>2, <1>3, <1>5
       DEF NextIsPiece, UrlFed, BodyFed, HeadersStored, HeadersFed, Pending, InName

LEMMA BodyAdvances ==
    ASSUME sent \in Requests, NextIsPiece, Feed("body"), sent' = sent
    PROVE  /\ next.part \in 1 .. Len(sent.body) /\ BodyFed = next.part - 1
           /\ UrlFed = sent.url /\ HeadersStored = Len(sent.headers) /\ ~Pending
           /\ NextIsPiece' /\ next'.kind \in {"body", "done"}
           /\ UrlFed' = UrlFed /\ BodyFed' = next.part
           /\ HeadersStored' = HeadersStored /\ ~Pending' /\ ~InName' /\ ~InName
  <1>1. next.kind = "body" /\ next.part \in 1 .. Len(sent.body)
    BY DEF Feed, NextIsPiece
  <1>2. Len(sent.body) \in Nat  BY RequestIs
  <1>3. /\ BodyFed = next.part - 1 /\ UrlFed = sent.url
        /\ HeadersStored = Len(sent.headers) /\ ~Pending
    BY <1>1 DEF BodyFed, UrlFed, HeadersStored, HeadersFed, Pending
  <1>4. next' = FromBody(sent, next.part + 1)  BY <1>1 DEF Feed, Following
  <1>5. \/ next'.kind = "body" /\ next'.part = next.part + 1 /\ next.part + 1 <= Len(sent.body)
        \/ next'.kind = "done" /\ next.part = Len(sent.body)
    BY <1>1, <1>2, <1>4 DEF FromBody, Piece
  <1>6. QED
    BY <1>1, <1>2, <1>3, <1>5
       DEF NextIsPiece, UrlFed, BodyFed, HeadersStored, HeadersFed, Pending, InName

-----------------------------------------------------------------------------
(***************************************************************************)
(* The callbacks.                                                          *)
(***************************************************************************)

\* The header at hand goes into the map, where it belongs.
LEMMA StoredIsFed ==
    ASSUME sent \in Requests, Valued(sent), NextIsPiece, MessageIsFed, HeaderIsFed,
           next.kind \in {"field", "end"}, ~InName
    PROVE  Stored = Made(UrlFed, HeadersFed, BodyFed, {}) /\ Kept = NoHeader
  <1> DEFINE h == HeadersFed
             name == sent.headers[h][1]
             parts == sent.headers[h][2]
             method == IF UrlFed = <<>> THEN "UNKNOWN" ELSE sent.method
             url == UrlOf(UrlFed)
             body == SubSeq(sent.body, 1, BodyFed)
  <1>1. /\ h \in Nat /\ h <= Len(sent.headers) /\ DOMAIN sent.headers = 1 .. Len(sent.headers)
        /\ next.kind # "value" /\ next.kind # "done"
    <2>1. Len(sent.headers) \in Nat /\ DOMAIN sent.headers = 1 .. Len(sent.headers)  BY RequestIs
    <2>2. CASE next.kind = "field"
      BY <2>1, <2>2 DEF HeadersFed, NextIsPiece
    <2>3. CASE next.kind = "end"
      BY <2>1, <2>3 DEF HeadersFed
    <2>4. QED  BY <2>1, <2>2, <2>3
  <1>2. message = Made(UrlFed, HeadersStored, BodyFed, {})
    BY <1>1 DEF MessageIsFed
  <1>3. message = [method |-> method, url |-> url, headers |-> HeaderMap(sent, HeadersStored),
                   body |-> body, flags |-> {}]
    BY <1>2 DEF Made
  <1>4. Made(UrlFed, HeadersFed, BodyFed, {})
          = [method |-> method, url |-> url, headers |-> HeaderMap(sent, h),
             body |-> body, flags |-> {}]
    BY DEF Made
  <1>5. CASE h > 0
    <2>1. Pending /\ HeadersStored = h - 1  BY <1>5 DEF Pending, HeadersStored
    <2>2. current_header_ = [first |-> name, second |-> parts]
      BY <1>1, <2>1 DEF HeaderIsFed
    <2>3. parts # <<>>  BY <1>1, <1>5 DEF Valued
    <2>4. HeaderMap(sent, h) = Put(HeaderMap(sent, h - 1), name, parts)
      <3>1. h - 1 \in Nat /\ (h - 1) + 1 = h  BY <1>1, <1>5
      <3>2. HeaderMap(sent, (h - 1) + 1)
              = Put(HeaderMap(sent, h - 1), sent.headers[(h - 1) + 1][1],
                    sent.headers[(h - 1) + 1][2])
        BY <3>1, HeaderMapGrows
      <3>3. QED  BY <3>1, <3>2
    <2> HIDE DEF name, parts, method, url, body, h
    <2>5. Stored = [message EXCEPT !.headers = Put(message.headers, name, parts)]
      BY <2>2, <2>3 DEF Stored
    <2>6. Stored = [method |-> method, url |-> url, headers |-> HeaderMap(sent, h),
                    body |-> body, flags |-> {}]
      BY <1>3, <2>1, <2>4, <2>5
    <2>7. Kept = NoHeader  BY <2>2, <2>3 DEF Kept
    <2>8. QED  BY <1>4, <2>6, <2>7 DEF method, url, body, h
  <1>6. CASE h = 0
    <2>1. ~Pending /\ HeadersStored = h  BY <1>6 DEF Pending, HeadersStored
    <2>2. current_header_ = NoHeader  BY <1>1, <2>1 DEF HeaderIsFed
    <2>3. Stored = message /\ Kept = NoHeader  BY <2>2 DEF Stored, Kept, NoHeader
    <2>4. QED  BY <1>2, <2>1, <2>3
  <1>7. QED  BY <1>1, <1>5, <1>6

\* Storing it, or not, leaves the rest of the message alone.
LEMMA StoredKeepsUrl ==
    ASSUME DOMAIN message = DOMAIN NoMessage, DOMAIN current_header_ = DOMAIN NoHeader
    PROVE  /\ Stored.url = message.url /\ Stored.method = message.method
           /\ DOMAIN Stored = DOMAIN NoMessage /\ DOMAIN Kept = DOMAIN NoHeader
  <1>1. {"url", "headers", "method"} \subseteq DOMAIN NoMessage  BY DEF NoMessage
  <1>2. /\ Stored.url = message.url /\ Stored.method = message.method
        /\ DOMAIN Stored = DOMAIN NoMessage
    <2>1. CASE current_header_.second = <<>>  BY <2>1 DEF Stored
    <2>2. CASE current_header_.second # <<>>
      <3>1. Stored = [message EXCEPT !.headers =
                        Put(@, current_header_.first, current_header_.second)]
        BY <2>2 DEF Stored
      <3>2. QED  BY <1>1, <3>1
    <2>3. QED  BY <2>1, <2>2
  <1>3. DOMAIN Kept = DOMAIN NoHeader  BY DEF Kept
  <1>4. QED  BY <1>2, <1>3

LEMMA TailIsKept ==
    ASSUME UrlIsTail, sent' = sent, cut' = cut, next.kind # "url", next'.kind # "url",
           message'.url = message.url, message'.method = message.method
    PROVE  UrlIsTail'
  BY DEF UrlIsTail, Rear

LEMMA TailIsSeq ==
    ASSUME sent \in Requests, UrlIsTail, next.kind # "url"
    PROVE  message.url.path \in Seq(STRING)
  <1>1. sent.url \in Seq(STRING) /\ Len(sent.url) \in Nat  BY RequestIs
  <1>2. PICK n \in 1 .. Len(sent.url) + 1 : message.url = UrlOf(Rear(n))
    BY DEF UrlIsTail
  <1>3. \A i \in n .. Len(sent.url) : sent.url[i] \in STRING  BY <1>1
  <1>4. Rear(n) \in Seq(STRING)  BY <1>1, <1>3, SubSeqProperties DEF Rear
  <1>5. QED  BY <1>2, <1>4, PathIsSeq

LEMMA OnUrlReads ==
    ASSUME TypeOK, Reading, NEW n, OnUrl(n)
    PROVE  /\ Reading' /\ DOMAIN message' = DOMAIN NoMessage
           /\ state' \in {"reading", "killed"} /\ ~parsing_complete_'
  <1> DEFINE k == next.part
             last == Len(sent.url)
             f == Fragment(n)
  <1>1. /\ state = "reading" /\ ~parsing_complete_ /\ next.kind = "url"
        /\ n \in k .. last + 1
        /\ IF IsUrl(f)
           THEN /\ message' = [message EXCEPT !.url = UrlOf(f), !.method = sent.method]
                /\ UNCHANGED state
           ELSE state' = "killed" /\ UNCHANGED message
        /\ next' = FromUrl(sent, n + 1) /\ cut' = (cut \/ n <= last)
        /\ sent' = sent /\ parsing_complete_' = parsing_complete_
        /\ headers_parsing_complete_' = headers_parsing_complete_
        /\ current_header_' = current_header_
    BY DEF OnUrl, parser
  <1>2. /\ sent \in Requests /\ NextIsPiece /\ UrlIsTail
        /\ (headers_parsing_complete_ <=> next.kind \in {"body", "done"})
        /\ ~cut /\ Valued(sent) => MessageIsFed /\ HeaderIsFed
    BY <1>1 DEF Reading
  <1>3. /\ sent.url \in Seq(STRING) /\ last \in Nat \ {0} /\ IsUrl(sent.url) /\ sent.url # <<>>
    BY <1>2, RequestIs
  <1>4. k \in 1 .. last + 1 /\ (~cut => k = 1)
    BY <1>1, <1>2 DEF NextIsPiece, UrlIsTail
  <1>5. n \in 1 .. last + 1  BY <1>1, <1>3, <1>4
  <1>6. /\ NextIsPiece' /\ next'.kind \in {"url", "field", "end"}
        /\ next'.kind = "url" <=> n <= last
        /\ HeadersStored' = 0 /\ BodyFed' = 0 /\ ~Pending' /\ ~InName'
    BY <1>1, <1>2, <1>5, UrlAdvances
  <1>7. DOMAIN message = DOMAIN NoMessage /\ {"url", "method"} \subseteq DOMAIN NoMessage
    BY DEF TypeOK, NoMessage
  <1>8. DOMAIN message' = DOMAIN NoMessage  BY <1>1, <1>7
  <1>9. ~(n <= last) => f = Rear(k)
    BY <1>5 DEF Fragment, Rear
  <1>10. Rear(1) = sent.url  BY <1>3, SubSeqFull DEF Rear
  <1> HIDE DEF f, k
  <1>11. ~cut' => ~cut /\ ~(n <= last) /\ k = 1 /\ f = sent.url /\ IsUrl(f)
    <2>1. ~cut' => ~cut /\ ~(n <= last)  BY Zenon, <1>1
    <2>2. QED  BY <1>3, <1>4, <1>9, <1>10, <2>1
  <1>12. state' = "killed" => cut'
    <2>1. state' = "killed" => ~IsUrl(f)  BY <1>1
    <2>2. QED  BY <1>11, <2>1
  <1>13. IsUrl(f) => message'.url = UrlOf(f) /\ message'.method = sent.method
    BY <1>1, <1>7
  <1>14. ASSUME state' # "killed" PROVE UrlIsTail'
    <2>1. IsUrl(f)  BY <1>1, <1>14
    <2>2. CASE n <= last
      <3>1. next'.kind = "url" /\ cut'  BY <1>1, <1>6, <2>2
      <3>2. QED  BY <3>1 DEF UrlIsTail
    <2>3. CASE ~(n <= last)
      <3>1. next'.kind # "url" /\ f = Rear(k)  BY <1>6, <1>9, <2>3
      <3>2. message'.method = sent'.method /\ message'.url = UrlOf(Rear(k)) /\ IsUrl(Rear(k))
        BY <1>1, <1>13, <2>1, <3>1
      <3>3. ~cut' => k = 1  BY <1>11
      <3>4. \E i \in 1 .. Len(sent'.url) + 1 :
               /\ IsUrl(SubSeq(sent'.url, i, Len(sent'.url)))
               /\ message'.url = UrlOf(SubSeq(sent'.url, i, Len(sent'.url)))
               /\ (~cut' => i = 1)
        BY <1>1, <1>4, <3>2, <3>3 DEF Rear
      <3>5. QED  BY <3>1, <3>2, <3>4 DEF UrlIsTail, Rear
    <2>4. QED  BY <2>2, <2>3
  <1>15. ASSUME ~cut', Valued(sent)'
         PROVE  MessageIsFed' /\ HeaderIsFed'
    <2>1. ~cut /\ Valued(sent) /\ ~(n <= last) /\ k = 1 /\ f = sent.url /\ IsUrl(f)
      BY <1>1, <1>11, <1>15
    <2>2. /\ UrlFed = <<>> /\ HeadersStored = 0 /\ BodyFed = 0
          /\ ~Pending /\ ~InName
      BY <1>1 DEF UrlFed, HeadersStored, HeadersFed, BodyFed, Pending, InName
    <2>3. message = Made(<<>>, 0, 0, {}) /\ current_header_ = NoHeader
      BY <1>1, <1>2, <2>1, <2>2 DEF MessageIsFed, HeaderIsFed
    <2>4. next'.kind \in {"field", "end"}  BY <1>6, <2>1
    <2>5. UrlFed' = sent.url  BY <1>1, <2>4 DEF UrlFed
    <2>6. message' = Made(sent.url, 0, 0, {})
      <3> DEFINE map == HeaderMap(sent, 0)
                 body == SubSeq(sent.body, 1, 0)
                 u == UrlOf(sent.url)
                 none == UrlOf(<<>>)
                 unknown == "UNKNOWN"
                 method == sent.method
      <3>1. message' = [message EXCEPT !.url = u, !.method = method]
        BY <1>1, <2>1
      <3>2. message = [method |-> unknown, url |-> none, headers |-> map, body |-> body,
                       flags |-> {}]
        BY <2>3 DEF Made
      <3>3. Made(sent.url, 0, 0, {})
              = [method |-> method, url |-> u, headers |-> map, body |-> body, flags |-> {}]
        BY <1>3 DEF Made
      <3> HIDE DEF map, body, u, none, unknown, method
      <3>4. message' = [method |-> method, url |-> u, headers |-> map, body |-> body,
                        flags |-> {}]
        BY <3>1, <3>2
      <3>5. QED  BY <3>3, <3>4
    <2>7. MessageIsFed'
      BY <1>1, <1>6, <2>4, <2>5, <2>6 DEF MessageIsFed, Made
    <2>8. HeaderIsFed'  BY <1>1, <1>6, <2>3, <2>4 DEF HeaderIsFed
    <2>9. QED  BY <2>7, <2>8
  <1>16. state' \in {"reading", "killed"} /\ ~parsing_complete_'
    BY <1>1
  <1>17. /\ headers_parsing_complete_' <=> next'.kind \in {"body", "done"}
         /\ parsing_complete_' <=> next'.kind = "done"
    <2>1. next'.kind \notin {"body", "done"} /\ next'.kind # "done"  BY <1>6
    <2>2. ~headers_parsing_complete_ /\ ~parsing_complete_  BY <1>1, <1>2
    <2>3. ~headers_parsing_complete_'  BY Zenon, <1>1, <2>2
    <2>4. ~parsing_complete_'  BY Zenon, <1>1, <2>2
    <2>5. QED  BY <2>1, <2>3, <2>4
  <1>18. Reading'
    BY <1>1, <1>2, <1>6, <1>12, <1>14, <1>15, <1>16, <1>17 DEF Reading
  <1>19. QED  BY <1>8, <1>16, <1>18


\* What each of the other callbacks can count on, and what it leaves alone.
LEMMA FedFrom ==
    ASSUME TypeOK, Reading, NEW kind, Feed(kind), UNCHANGED connection
    PROVE  /\ state = "reading" /\ state' = "reading" /\ next.kind = kind
           /\ sent \in Requests /\ sent' = sent /\ cut' = cut
           /\ NextIsPiece /\ UrlIsTail /\ ~parsing_complete_
           /\ DOMAIN message = DOMAIN NoMessage /\ DOMAIN current_header_ = DOMAIN NoHeader
           /\ headers_parsing_complete_ <=> kind = "body"
           /\ ~cut /\ Valued(sent) => MessageIsFed /\ HeaderIsFed
  <1>1. state = "reading" /\ next.kind = kind /\ ~parsing_complete_  BY DEF Feed
  <1>2. state' = state /\ sent' = sent /\ cut' = cut  BY DEF connection
  <1>3. /\ sent \in Requests /\ NextIsPiece /\ UrlIsTail
        /\ headers_parsing_complete_ <=> next.kind \in {"body", "done"}
        /\ parsing_complete_ <=> next.kind = "done"
        /\ ~cut /\ Valued(sent) => MessageIsFed /\ HeaderIsFed
    BY <1>1 DEF Reading
  <1>4. headers_parsing_complete_ <=> kind = "body"  BY <1>1, <1>3
  <1>5. DOMAIN message = DOMAIN NoMessage /\ DOMAIN current_header_ = DOMAIN NoHeader
    BY DEF TypeOK
  <1>6. QED  BY <1>1, <1>2, <1>3, <1>4, <1>5

\* What a callback has to leave behind.
LEMMA FedOn ==
    ASSUME state' = "reading", sent \in Requests, sent' = sent, NextIsPiece', UrlIsTail',
           parsing_complete_' <=> next'.kind = "done",
           headers_parsing_complete_' <=> next'.kind \in {"body", "done"},
           ~cut' /\ Valued(sent) => MessageIsFed' /\ HeaderIsFed'
    PROVE  Reading'
  <1>1. Valued(sent') <=> Valued(sent)  OBVIOUS
  <1>2. QED  BY <1>1 DEF Reading

LEMMA OnHeaderFieldReads ==
    ASSUME TypeOK, Reading, OnHeaderField
    PROVE  /\ Reading' /\ state' = "reading" /\ ~parsing_complete_'
           /\ DOMAIN message' = DOMAIN NoMessage /\ DOMAIN current_header_' = DOMAIN NoHeader
  <1> DEFINE h == next.head
             name == sent.headers[h][1]
             parts == sent.headers[h][2]
             k == next.part
  <1>1. /\ Feed("field") /\ UNCHANGED connection /\ message' = Stored
        /\ current_header_' = [Kept EXCEPT !.first = Append(@, name[k])]
        /\ headers_parsing_complete_' = headers_parsing_complete_
        /\ parsing_complete_' = parsing_complete_
    BY DEF OnHeaderField
  <1>2. /\ state' = "reading" /\ next.kind = "field"
        /\ sent \in Requests /\ sent' = sent /\ cut' = cut
        /\ NextIsPiece /\ UrlIsTail /\ ~parsing_complete_ /\ ~headers_parsing_complete_
        /\ DOMAIN message = DOMAIN NoMessage /\ DOMAIN current_header_ = DOMAIN NoHeader
        /\ ~cut /\ Valued(sent) => MessageIsFed /\ HeaderIsFed
    BY <1>1, FedFrom
  <1>3. /\ h \in 1 .. Len(sent.headers) /\ k \in 1 .. Len(name) /\ HeadersFed = h - 1
        /\ NextIsPiece' /\ next'.kind \in {"field", "value", "end"}
        /\ UrlFed' = UrlFed /\ BodyFed = 0 /\ BodyFed' = 0
        /\ Valued(sent) =>
              /\ HeadersStored' = HeadersFed /\ ~Pending' /\ next'.head = h
              /\ \/ next'.kind = "field" /\ next'.part = k + 1 /\ InName'
                 \/ next'.kind = "value" /\ next'.part = 1 /\ k = Len(name)
    BY <1>1, <1>2, FieldAdvances
  <1>4. /\ message'.url = message.url /\ message'.method = message.method
        /\ DOMAIN message' = DOMAIN NoMessage /\ DOMAIN current_header_' = DOMAIN NoHeader
    BY <1>1, <1>2, StoredKeepsUrl
  <1>5. UrlIsTail'  BY <1>2, <1>3, <1>4, TailIsKept
  <1>6. ~parsing_complete_' /\ ~headers_parsing_complete_'
    <2>1. ~parsing_complete_'  BY Zenon, <1>1, <1>2
    <2>2. ~headers_parsing_complete_'  BY Zenon, <1>1, <1>2
    <2>3. QED  BY <2>1, <2>2
  <1>7. /\ name \in Seq(STRING) /\ Len(name) \in Nat
        /\ parts \in Seq(STRING)
    BY <1>2, <1>3, RequestIs
  <1>8. ASSUME ~cut', Valued(sent)
        PROVE  MessageIsFed' /\ HeaderIsFed'
    <2>1. MessageIsFed /\ HeaderIsFed  BY <1>2, <1>8
    <2> DEFINE old == SubSeq(name, 1, k - 1)
               new == SubSeq(name, 1, k)
    <2>2. /\ Stored = Made(UrlFed, HeadersFed, BodyFed, {})
          /\ Kept = [first |-> old, second |-> <<>>]
      <3>1. CASE ~InName
        <4>1. Stored = Made(UrlFed, HeadersFed, BodyFed, {}) /\ Kept = NoHeader
          BY <1>2, <1>8, <2>1, <3>1, StoredIsFed
        <4>2. k = 1  BY <1>2, <1>3, <1>7, <3>1 DEF InName
        <4>3. old = <<>>  BY <1>7, <4>2, SubSeqEmpty
        <4>4. QED  BY Zenon, <4>1, <4>3 DEF NoHeader
      <3>2. CASE InName
        <4>1. ~Pending /\ HeadersStored = HeadersFed  BY <3>2 DEF Pending, HeadersStored
        <4>2. current_header_ = [first |-> old, second |-> <<>>]
          BY <1>2, <2>1, <3>2 DEF HeaderIsFed
        <4> HIDE DEF old
        <4>3. Stored = message /\ Kept = current_header_  BY <4>2 DEF Stored, Kept
        <4>4. message = Made(UrlFed, HeadersFed, BodyFed, {})
          BY <1>2, <2>1, <4>1 DEF MessageIsFed
        <4>5. QED  BY <4>2, <4>3, <4>4
      <3>3. QED  BY <3>1, <3>2
    <2>3. MessageIsFed'
      <3>1. message' = Made(UrlFed', HeadersStored', BodyFed', {})
        BY <1>1, <1>3, <1>8, <2>2
      <3>2. next'.kind # "done"  BY <1>3
      <3>3. QED  BY <1>2, <3>1, <3>2 DEF MessageIsFed, Made
    <2>4. Append(old, name[k]) = new
      <3>1. k \in 1 .. Len(name) /\ Len(name) \in Nat  BY <1>3, <1>7
      <3> HIDE DEF k, name
      <3>2. k - 1 \in Nat /\ k - 1 < Len(name) /\ (k - 1) + 1 = k /\ 1 <= (k - 1) + 1
            /\ 1 \in Nat \ {0}
        BY <3>1
      <3>3. Append(SubSeq(name, 1, k - 1), name[(k - 1) + 1]) = SubSeq(name, 1, (k - 1) + 1)
        BY <1>7, <3>2, SubSeqGrows
      <3>4. QED  BY <3>2, <3>3
    <2>5. current_header_' = [first |-> new, second |-> <<>>]
      <3> HIDE DEF old, new, name, k
      <3>1. QED  BY <1>1, <2>2, <2>4
    <2>6. HeaderIsFed'
      <3>1. CASE next'.kind = "field" /\ next'.part = k + 1 /\ InName'
        <4>1. next'.part - 1 = k /\ next'.head = h  BY <1>3, <1>8, <3>1
        <4>2. QED  BY <1>2, <2>5, <3>1, <4>1 DEF HeaderIsFed
      <3>2. CASE next'.kind = "value" /\ next'.part = 1 /\ k = Len(name)
        <4>1. new = name  BY <1>7, <3>2, SubSeqFull
        <4>2. SubSeq(parts, 1, 1 - 1) = <<>>  BY <1>7, SubSeqEmpty
        <4>3. next'.head = h  BY <1>3, <1>8
        <4>4. QED  BY <1>2, <2>5, <3>2, <4>1, <4>2, <4>3 DEF HeaderIsFed
      <3>3. QED  BY <1>3, <1>8, <3>1, <3>2
    <2>7. QED  BY <2>3, <2>6
  <1>9. Reading'
    BY <1>2, <1>3, <1>5, <1>6, <1>8, FedOn
  <1>10. QED  BY <1>2, <1>4, <1>6, <1>9

LEMMA OnHeaderValueReads ==
    ASSUME TypeOK, Reading, OnHeaderValue
    PROVE  /\ Reading' /\ state' = "reading" /\ ~parsing_complete_'
           /\ DOMAIN message' = DOMAIN NoMessage /\ DOMAIN current_header_' = DOMAIN NoHeader
  <1> DEFINE h == next.head
             name == sent.headers[h][1]
             parts == sent.headers[h][2]
             k == next.part
  <1>1. /\ Feed("value") /\ UNCHANGED connection /\ message' = message
        /\ current_header_' = [current_header_ EXCEPT !.second = Append(@, parts[k])]
        /\ headers_parsing_complete_' = headers_parsing_complete_
        /\ parsing_complete_' = parsing_complete_
    BY DEF OnHeaderValue
  <1>2. /\ state' = "reading" /\ next.kind = "value"
        /\ sent \in Requests /\ sent' = sent /\ cut' = cut
        /\ NextIsPiece /\ UrlIsTail /\ ~parsing_complete_ /\ ~headers_parsing_complete_
        /\ DOMAIN message = DOMAIN NoMessage /\ DOMAIN current_header_ = DOMAIN NoHeader
        /\ ~cut /\ Valued(sent) => MessageIsFed /\ HeaderIsFed
    BY <1>1, FedFrom
  <1>3. /\ h \in 1 .. Len(sent.headers) /\ k \in 1 .. Len(parts)
        /\ NextIsPiece' /\ next'.kind \in {"field", "value", "end"}
        /\ UrlFed' = UrlFed /\ BodyFed = 0 /\ BodyFed' = 0
        /\ HeadersStored = h - 1 /\ HeadersStored' = h - 1
        /\ \/ next'.kind = "value" /\ next'.head = h /\ next'.part = k + 1 /\ ~Pending'
           \/ /\ next'.kind # "value" /\ Pending' /\ ~InName' /\ HeadersFed' = h
              /\ k = Len(parts)
    BY <1>1, <1>2, ValueAdvances
  <1>4. /\ message'.url = message.url /\ message'.method = message.method
        /\ DOMAIN message' = DOMAIN NoMessage
    BY <1>1, <1>2
  <1>5. DOMAIN current_header_' = DOMAIN NoHeader  BY <1>1, <1>2
  <1>6. UrlIsTail'  BY <1>2, <1>3, <1>4, TailIsKept
  <1>7. ~parsing_complete_' /\ ~headers_parsing_complete_'
    <2>1. ~parsing_complete_'  BY Zenon, <1>1, <1>2
    <2>2. ~headers_parsing_complete_'  BY Zenon, <1>1, <1>2
    <2>3. QED  BY <2>1, <2>2
  <1>8. parts \in Seq(STRING) /\ Len(parts) \in Nat  BY <1>2, <1>3, RequestIs
  <1>9. ASSUME ~cut', Valued(sent)
        PROVE  MessageIsFed' /\ HeaderIsFed'
    <2>1. MessageIsFed /\ HeaderIsFed  BY <1>2, <1>9
    <2>2. MessageIsFed'
      <3>1. message = Made(UrlFed, h - 1, 0, {})
        BY <1>2, <1>3, <2>1 DEF MessageIsFed
      <3>2. message' = Made(UrlFed', HeadersStored', BodyFed', {})
        BY <1>1, <1>3, <3>1
      <3>3. next'.kind # "done"  BY <1>3
      <3>4. QED  BY <1>2, <3>2, <3>3 DEF MessageIsFed, Made
    <2>3. Append(SubSeq(parts, 1, k - 1), parts[k]) = SubSeq(parts, 1, k)
      <3>1. k \in 1 .. Len(parts) /\ Len(parts) \in Nat  BY <1>3, <1>8
      <3> HIDE DEF k, parts
      <3>2. k - 1 \in Nat /\ k - 1 < Len(parts) /\ (k - 1) + 1 = k /\ 1 <= (k - 1) + 1
            /\ 1 \in Nat \ {0}
        BY <3>1
      <3>3. Append(SubSeq(parts, 1, k - 1), parts[(k - 1) + 1]) = SubSeq(parts, 1, (k - 1) + 1)
        BY <1>8, <3>2, SubSeqGrows
      <3>4. QED  BY <3>2, <3>3
    <2>4. current_header_ = [first |-> name, second |-> SubSeq(parts, 1, k - 1)]
      BY <1>2, <2>1 DEF HeaderIsFed
    <2>5. current_header_' = [first |-> name, second |-> SubSeq(parts, 1, k)]
      <3> DEFINE old == SubSeq(parts, 1, k - 1)
                 new == SubSeq(parts, 1, k)
                 first == name
      <3>1. current_header_ = [first |-> first, second |-> old]  BY <2>4
      <3>2. Append(old, parts[k]) = new  BY <2>3
      <3> HIDE DEF old, new, first, name, parts, k
      <3>3. current_header_' = [first |-> first, second |-> new]  BY <1>1, <3>1, <3>2
      <3>4. QED  BY <3>3 DEF old, new, first, name, parts, k
    <2>6. HeaderIsFed'
      <3>1. CASE next'.kind = "value" /\ next'.head = h /\ next'.part = k + 1
        <4>1. next'.part - 1 = k  BY <1>3, <3>1
        <4>2. QED  BY <1>2, <2>5, <3>1, <4>1 DEF HeaderIsFed
      <3>2. CASE /\ next'.kind # "value" /\ Pending' /\ ~InName' /\ HeadersFed' = h
                 /\ k = Len(parts)
        <4>1. SubSeq(parts, 1, k) = parts  BY <1>8, <3>2, SubSeqFull
        <4>2. QED  BY <1>2, <2>5, <3>2, <4>1 DEF HeaderIsFed
      <3>3. QED  BY <1>3, <3>1, <3>2
    <2>7. QED  BY <2>2, <2>6
  <1>10. Reading'
    BY <1>2, <1>3, <1>6, <1>7, <1>9, FedOn
  <1>11. QED  BY <1>2, <1>4, <1>5, <1>7, <1>10

\* The end of the message, or not yet.
LEMMA CompletedIs ==
    ASSUME NEW m, Completed(m), DOMAIN m = DOMAIN NoMessage
    PROVE  /\ parsing_complete_' <=> next'.kind = "done"
           /\ message'.url = m.url /\ message'.method = m.method
           /\ DOMAIN message' = DOMAIN NoMessage
           /\ \A u, h, b :
                 m = Made(u, h, b, {}) =>
                    message' = Made(u, h, b, IF next'.kind = "done" THEN sent.flags ELSE {})
  <1>1. /\ parsing_complete_' <=> next'.kind = "done"
        /\ message' = IF next'.kind = "done" THEN [m EXCEPT !.flags = sent.flags] ELSE m
    BY DEF Completed
  <1>2. {"url", "method", "flags"} \subseteq DOMAIN NoMessage  BY DEF NoMessage
  <1>3. /\ message'.url = m.url /\ message'.method = m.method
        /\ DOMAIN message' = DOMAIN NoMessage
    BY <1>1, <1>2
  <1>4. ASSUME NEW u, NEW h, NEW b, m = Made(u, h, b, {})
        PROVE  message' = Made(u, h, b, IF next'.kind = "done" THEN sent.flags ELSE {})
    <2>1. [m EXCEPT !.flags = sent.flags] = Made(u, h, b, sent.flags)
      <3> DEFINE method == IF u = <<>> THEN "UNKNOWN" ELSE sent.method
                 url == UrlOf(u)
                 headers == HeaderMap(sent, h)
                 body == SubSeq(sent.body, 1, b)
                 Of(flags) == [method |-> method, url |-> url, headers |-> headers,
                               body |-> body, flags |-> flags]
      <3>1. m = Of({}) /\ Made(u, h, b, sent.flags) = Of(sent.flags)  BY <1>4 DEF Made
      <3> HIDE DEF method, url, headers, body
      <3>2. QED  BY <3>1
    <2>2. QED  BY <1>1, <1>4, <2>1
  <1>5. QED  BY <1>1, <1>3, <1>4

LEMMA OnHeadersCompleteReads ==
    ASSUME TypeOK, Reading, OnHeadersComplete
    PROVE  /\ Reading' /\ state' = "reading" /\ message'.url = message.url
           /\ DOMAIN message' = DOMAIN NoMessage /\ DOMAIN current_header_' = DOMAIN NoHeader
  <1>1. /\ Feed("end") /\ UNCHANGED connection /\ Completed(Stored)
        /\ current_header_' = Kept /\ headers_parsing_complete_' = TRUE
    BY DEF OnHeadersComplete
  <1>2. /\ state' = "reading" /\ next.kind = "end"
        /\ sent \in Requests /\ sent' = sent /\ cut' = cut /\ NextIsPiece /\ UrlIsTail
        /\ DOMAIN message = DOMAIN NoMessage /\ DOMAIN current_header_ = DOMAIN NoHeader
        /\ ~cut /\ Valued(sent) => MessageIsFed /\ HeaderIsFed
    BY <1>1, FedFrom
  <1>3. /\ NextIsPiece' /\ next'.kind \in {"body", "done"}
        /\ UrlFed' = UrlFed /\ BodyFed = 0 /\ BodyFed' = 0
        /\ HeadersStored' = HeadersFed /\ ~Pending' /\ ~InName' /\ ~InName
    BY <1>1, <1>2, EndAdvances
  <1>4. /\ Stored.url = message.url /\ Stored.method = message.method
        /\ DOMAIN Stored = DOMAIN NoMessage
        /\ DOMAIN Kept = DOMAIN NoHeader
    BY <1>2, StoredKeepsUrl
  <1>5. /\ parsing_complete_' <=> next'.kind = "done"
        /\ message'.url = Stored.url /\ message'.method = Stored.method
        /\ DOMAIN message' = DOMAIN NoMessage
        /\ \A u, h, b :
              Stored = Made(u, h, b, {}) =>
                 message' = Made(u, h, b, IF next'.kind = "done" THEN sent.flags ELSE {})
    BY <1>1, <1>4, CompletedIs
  <1>6. UrlIsTail'  BY <1>2, <1>3, <1>4, <1>5, TailIsKept
  <1>7. ASSUME ~cut', Valued(sent)
        PROVE  MessageIsFed' /\ HeaderIsFed'
    <2>1. MessageIsFed /\ HeaderIsFed  BY <1>2, <1>7
    <2>2. Stored = Made(UrlFed, HeadersFed, BodyFed, {}) /\ Kept = NoHeader
      BY <1>2, <1>3, <1>7, <2>1, StoredIsFed
    <2>3. message' = Made(UrlFed', HeadersStored', BodyFed',
                          IF next'.kind = "done" THEN sent.flags ELSE {})
      BY <1>3, <1>5, <2>2
    <2>4. MessageIsFed'  BY <1>2, <2>3 DEF MessageIsFed, Made
    <2>5. HeaderIsFed'  BY <1>1, <1>3, <2>2 DEF HeaderIsFed
    <2>6. QED  BY <2>4, <2>5
  <1>8. headers_parsing_complete_' <=> next'.kind \in {"body", "done"}  BY <1>1, <1>3
  <1>9. Reading'
    BY <1>2, <1>3, <1>5, <1>6, <1>7, <1>8, FedOn
  <1>10. message'.url = message.url  BY <1>4, <1>5
  <1>11. QED  BY <1>1, <1>2, <1>4, <1>5, <1>9, <1>10

LEMMA OnBodyReads ==
    ASSUME TypeOK, Reading, OnBody
    PROVE  /\ Reading' /\ state' = "reading" /\ message'.url = message.url
           /\ DOMAIN message' = DOMAIN NoMessage /\ DOMAIN current_header_' = DOMAIN NoHeader
  <1> DEFINE k == next.part
             m == [message EXCEPT !.body = Append(@, sent.body[k])]
  <1>1. /\ Feed("body") /\ UNCHANGED connection /\ Completed(m)
        /\ current_header_' = current_header_
        /\ headers_parsing_complete_' = headers_parsing_complete_
    BY DEF OnBody
  <1>2. /\ state' = "reading" /\ next.kind = "body"
        /\ sent \in Requests /\ sent' = sent /\ cut' = cut /\ NextIsPiece /\ UrlIsTail
        /\ DOMAIN message = DOMAIN NoMessage /\ DOMAIN current_header_ = DOMAIN NoHeader
        /\ headers_parsing_complete_
        /\ ~cut /\ Valued(sent) => MessageIsFed /\ HeaderIsFed
    BY <1>1, FedFrom
  <1>3. /\ k \in 1 .. Len(sent.body) /\ BodyFed = k - 1
        /\ HeadersStored = Len(sent.headers) /\ ~Pending
        /\ NextIsPiece' /\ next'.kind \in {"body", "done"}
        /\ UrlFed' = UrlFed /\ BodyFed' = k /\ HeadersStored' = HeadersStored
        /\ ~Pending' /\ ~InName' /\ ~InName
    BY <1>1, <1>2, BodyAdvances
  <1>4. m.url = message.url /\ m.method = message.method /\ DOMAIN m = DOMAIN NoMessage
    BY <1>2 DEF NoMessage
  <1>5. /\ parsing_complete_' <=> next'.kind = "done"
        /\ message'.url = m.url /\ message'.method = m.method
        /\ DOMAIN message' = DOMAIN NoMessage
        /\ \A u, h, b :
              m = Made(u, h, b, {}) =>
                 message' = Made(u, h, b, IF next'.kind = "done" THEN sent.flags ELSE {})
    <2> HIDE DEF m
    <2>1. QED  BY <1>1, <1>4, CompletedIs
  <1>6. UrlIsTail'  BY <1>2, <1>3, <1>4, <1>5, TailIsKept
  <1>7. ASSUME ~cut', Valued(sent)
        PROVE  MessageIsFed' /\ HeaderIsFed'
    <2>1. MessageIsFed /\ HeaderIsFed  BY <1>2, <1>7
    <2>2. message = Made(UrlFed, HeadersStored, k - 1, {}) /\ current_header_ = NoHeader
      BY <1>2, <1>3, <2>1 DEF MessageIsFed, HeaderIsFed
    <2>3. Append(SubSeq(sent.body, 1, k - 1), sent.body[k]) = SubSeq(sent.body, 1, k)
      <3>1. sent.body \in Seq(STRING) /\ Len(sent.body) \in Nat  BY <1>2, RequestIs
      <3>2. k - 1 \in Nat /\ k - 1 < Len(sent.body) /\ (k - 1) + 1 = k /\ 1 <= (k - 1) + 1
            /\ 1 \in Nat \ {0}
        BY <1>3, <3>1
      <3> HIDE DEF k
      <3>3. Append(SubSeq(sent.body, 1, k - 1), sent.body[(k - 1) + 1])
              = SubSeq(sent.body, 1, (k - 1) + 1)
        BY <3>1, <3>2, SubSeqGrows
      <3>4. QED  BY <3>2, <3>3
    <2>4. m = Made(UrlFed, HeadersStored, k, {})
      <3> DEFINE method == IF UrlFed = <<>> THEN "UNKNOWN" ELSE sent.method
                 url == UrlOf(UrlFed)
                 headers == HeaderMap(sent, HeadersStored)
                 old == SubSeq(sent.body, 1, k - 1)
                 new == SubSeq(sent.body, 1, k)
                 Of(body) == [method |-> method, url |-> url, headers |-> headers,
                              body |-> body, flags |-> {}]
                 part == sent.body[k]
      <3>1. message = Of(old) /\ Made(UrlFed, HeadersStored, k, {}) = Of(new)
        BY <2>2 DEF Made
      <3>2. Append(old, part) = new  BY <2>3
      <3>3. m = [message EXCEPT !.body = Append(message.body, part)]  OBVIOUS
      <3> HIDE DEF method, url, headers, old, new, k, m, part
      <3>4. m = Of(new)  BY <3>1, <3>2, <3>3
      <3>5. QED  BY <3>1, <3>4
    <2>5. message' = Made(UrlFed', HeadersStored', BodyFed',
                          IF next'.kind = "done" THEN sent.flags ELSE {})
      BY <1>3, <1>5, <2>4
    <2>6. MessageIsFed'  BY <1>2, <2>5 DEF MessageIsFed, Made
    <2>7. HeaderIsFed'  BY <1>1, <1>3, <2>2 DEF HeaderIsFed
    <2>8. QED  BY <2>6, <2>7
  <1>8. headers_parsing_complete_' <=> next'.kind \in {"body", "done"}
    <2>1. headers_parsing_complete_'  BY Zenon, <1>1, <1>2
    <2>2. QED  BY <1>3, <2>1
  <1>9. Reading'
    BY <1>2, <1>3, <1>5, <1>6, <1>7, <1>8, FedOn
  <1>10. DOMAIN current_header_' = DOMAIN NoHeader  BY <1>1, <1>2
  <1>11. message'.url = message.url  BY <1>4, <1>5
  <1>12. QED  BY <1>2, <1>5, <1>9, <1>10, <1>11

-----------------------------------------------------------------------------
(***************************************************************************)
(* The steps.                                                              *)
(***************************************************************************)

LEMMA ParentsAreNodes ==
    ASSUME NEW rs \in Seq(Rules), NEW tree, NodesAreOfRules(rs, tree),
           NEW node \in DOMAIN tree, node # <<>>
    PROVE  SubSeq(node, 1, Len(node) - 1) \in DOMAIN tree
  <1>1. node \in Seq(STRING)  BY DEF NodesAreOfRules
  <1>2. PICK i \in DOMAIN rs : Reaches(rs[i], node)  BY DEF NodesAreOfRules
  <1>3. rs[i] \in Rules  OBVIOUS
  <1>4. Len(rs[i].path) \in Nat  BY <1>3, KeysAreStrings
  <1>5. Len(node) \in Nat \ {0}  BY <1>1
  <1>6. Len(node) <= Len(rs[i].path)  BY <1>2 DEF Reaches
  <1> DEFINE m == Len(node) - 1
  <1>7. m \in 0 .. Len(node) /\ m \in 0 .. Len(rs[i].path)  BY <1>4, <1>5, <1>6
  <1>8. Prefix(rs[i], m) = SubSeq(node, 1, m)  BY <1>1, <1>2, <1>3, <1>7, ReachesShorter
  <1>9. Prefix(rs[i], m) \in DOMAIN tree  BY <1>7 DEF NodesAreOfRules
  <1>10. QED  BY <1>8, <1>9

\* A turn of the walk, or the answer, leaves what was read as it is.
LEMMA ReadingStays ==
    ASSUME Reading, state \in {"reading", "open"}, state' \in {"reading", "open"},
           parsing_complete_, UNCHANGED <<sent, next, parser, message, cut>>
    PROVE  Reading'
  <1>1. /\ sent' = sent /\ next' = next /\ message' = message /\ cut' = cut
        /\ current_header_' = current_header_
        /\ headers_parsing_complete_' = headers_parsing_complete_
        /\ parsing_complete_' = parsing_complete_
    BY DEF parser
  <1>2. /\ sent \in Requests /\ NextIsPiece /\ UrlIsTail
        /\ parsing_complete_ <=> next.kind = "done"
        /\ headers_parsing_complete_ <=> next.kind \in {"body", "done"}
        /\ ~cut /\ Valued(sent) => MessageIsFed /\ HeaderIsFed
    BY DEF Reading
  <1>3. UrlFed' = UrlFed /\ BodyFed' = BodyFed /\ HeadersFed' = HeadersFed
    BY <1>1 DEF UrlFed, BodyFed, HeadersFed
  <1>4. (Pending' <=> Pending) /\ (InName' <=> InName) /\ (NextIsPiece' <=> NextIsPiece)
    BY <1>1, <1>3 DEF Pending, InName, NextIsPiece
  <1>5. HeadersStored' = HeadersStored  BY <1>3, <1>4 DEF HeadersStored
  <1>6. UrlIsTail'
    <2>1. next.kind # "url" /\ next'.kind # "url"  BY <1>1, <1>2
    <2>2. QED  BY <1>1, <1>2, <2>1, TailIsKept
  <1>7. MessageIsFed => MessageIsFed'
    BY <1>1, <1>3, <1>5 DEF MessageIsFed, Made
  <1>8. HeaderIsFed => HeaderIsFed'
    BY <1>1, <1>3, <1>4 DEF HeaderIsFed
  <1>9. parsing_complete_' <=> next'.kind = "done"  BY <1>1, <1>2
  <1>10. headers_parsing_complete_' <=> next'.kind \in {"body", "done"}  BY <1>1, <1>2
  <1>11. parsing_complete_'  BY Zenon, <1>1
  <1>12. QED
    BY <1>1, <1>2, <1>4, <1>6, <1>7, <1>8, <1>9, <1>10, <1>11 DEF Reading

\* The first piece.
LEMMA ReadyReads ==
    ASSUME NEW q \in Requests, Ready(q)
    PROVE  Reading'
  <1>1. /\ state' = "reading" /\ current_header_' = NoHeader
        /\ headers_parsing_complete_' = FALSE /\ parsing_complete_' = FALSE
        /\ message' = NoMessage /\ sent' = q /\ next' = Piece("url", 0, 1) /\ cut' = FALSE
    BY DEF Ready
  <1>2. next'.kind = "url" /\ next'.part = 1 /\ ~InName'  BY <1>1 DEF Piece, InName
  <1>3. /\ q.url \in Seq(STRING) /\ Len(q.url) \in Nat \ {0}
        /\ q.body \in Seq(STRING)
    BY RequestIs
  <1>4. NextIsPiece'  BY <1>1, <1>2, <1>3 DEF NextIsPiece
  <1>5. UrlFed' = <<>> /\ HeadersFed' = 0 /\ BodyFed' = 0 /\ ~Pending' /\ HeadersStored' = 0
    BY <1>2 DEF UrlFed, HeadersFed, BodyFed, Pending, HeadersStored
  <1>6. UrlIsTail'  BY <1>2 DEF UrlIsTail
  <1>7. HeaderMap(q, 0) = NoMap
    <2>1. {q.headers[i][1] : i \in 1 .. 0} = {}  OBVIOUS
    <2>2. QED  BY <2>1 DEF HeaderMap, NoMap
  <1>8. SubSeq(q.body, 1, 0) = <<>>
    BY <1>3, SubSeqEmpty
  <1>9. MessageIsFed'
    BY <1>1, <1>2, <1>5, <1>7, <1>8 DEF MessageIsFed, Made, NoMessage
  <1>10. HeaderIsFed'  BY <1>1, <1>2, <1>5 DEF HeaderIsFed
  <1>11. QED
    BY <1>1, <1>2, <1>4, <1>6, <1>9, <1>10 DEF Reading

\* A callback's step.  The walk begins where the message is complete.
LEMMA FeedingKeeps ==
    ASSUME RequestInv, state = "reading", ~parsing_complete_,
           rules' = rules, root_' = root_, sent' = sent, count' = count, walk' = walk,
           answer' = answer, state' \in {"reading", "killed"}, Reading',
           state' = "killed" => ~parsing_complete_',
           parsing_complete_' => next.kind # "url" /\ message'.url = message.url,
           cut' \in BOOLEAN, headers_parsing_complete_' \in BOOLEAN,
           parsing_complete_' \in BOOLEAN,
           DOMAIN message' = DOMAIN NoMessage, DOMAIN current_header_' = DOMAIN NoHeader
    PROVE  RequestInv'
  <1>1. TypeOK /\ TreeOfRules(rules, root_) /\ Reading /\ Routing  BY DEF RequestInv
  <1>2. TypeOK'
    <2>1. parsing_complete_' => headers_parsing_complete_' /\ next'.kind = "done"
      BY DEF Reading
    <2>2. QED  BY <1>1, <2>1 DEF TypeOK
  <1>3. TreeOfRules(rules, root_)'  BY <1>1
  <1>4. walk' = Walk  BY <1>1 DEF Routing
  <1>5. ASSUME parsing_complete_'
        PROVE  /\ state' = "reading" /\ message'.url.path \in Seq(STRING)
               /\ WalkInv(rules', root_', Tokens(message'.url.path), walk')
    <2>1. message.url.path \in Seq(STRING)  BY <1>1, <1>5, TailIsSeq DEF Reading
    <2>2. message'.url = message.url  BY <1>5
    <2>3. Len(Tokens(message.url.path)) \in Nat  BY <2>1, TokensAre
    <2>4. rules \in Seq(Rules) /\ NodesAreOfRules(rules, root_)
      BY <1>1 DEF TypeOK, TreeOfRules
    <2>5. WalkInv(rules, root_, Tokens(message.url.path), Walk)  BY <2>3, <2>4, WalkStarts
    <2>6. QED  BY <1>4, <1>5, <2>1, <2>2, <2>5
  <1>6. Routing'  BY <1>4, <1>5 DEF Routing
  <1>7. RouteIsChosen'  BY DEF RouteIsChosen
  <1>8. QED  BY <1>2, <1>3, <1>6, <1>7 DEF RequestInv

LEMMA CallbacksKeep ==
    ASSUME RequestInv,
           \/ next.kind = "url" /\ \E n \in 1 .. Len(sent.url) + 1 : OnUrl(n)
           \/ OnHeaderField \/ OnHeaderValue \/ OnHeadersComplete \/ OnBody
    PROVE  RequestInv'
  <1>1. TypeOK /\ Reading  BY DEF RequestInv
  <1>2. /\ cut \in BOOLEAN /\ headers_parsing_complete_ \in BOOLEAN
        /\ parsing_complete_ \in BOOLEAN /\ DOMAIN current_header_ = DOMAIN NoHeader
    BY <1>1 DEF TypeOK
  <1>3. ASSUME NEW n \in 1 .. Len(sent.url) + 1, OnUrl(n) PROVE RequestInv'
    <2>1. /\ Reading' /\ DOMAIN message' = DOMAIN NoMessage
          /\ state' \in {"reading", "killed"} /\ ~parsing_complete_'
      BY <1>1, <1>3, OnUrlReads
    <2>2. /\ state = "reading" /\ ~parsing_complete_
          /\ rules' = rules /\ root_' = root_ /\ sent' = sent /\ count' = count
          /\ walk' = walk /\ answer' = answer /\ current_header_' = current_header_
          /\ headers_parsing_complete_' = headers_parsing_complete_
          /\ parsing_complete_' = parsing_complete_
          /\ cut' = (cut \/ n <= Len(sent.url))
      BY <1>3 DEF OnUrl, parser
    <2>3. cut' \in BOOLEAN  BY Zenon, <2>2
    <2>4. /\ headers_parsing_complete_' \in BOOLEAN /\ parsing_complete_' \in BOOLEAN
          /\ DOMAIN current_header_' = DOMAIN NoHeader
      BY <1>2, <2>2
    <2>5. QED  BY <2>1, <2>2, <2>3, <2>4, FeedingKeeps
  <1>4. CASE OnHeaderField
    <2>1. /\ Reading' /\ state' = "reading" /\ ~parsing_complete_'
          /\ DOMAIN message' = DOMAIN NoMessage /\ DOMAIN current_header_' = DOMAIN NoHeader
      BY <1>1, <1>4, OnHeaderFieldReads
    <2>2. /\ state = "reading" /\ ~parsing_complete_
          /\ rules' = rules /\ root_' = root_ /\ sent' = sent /\ count' = count
          /\ walk' = walk /\ answer' = answer /\ cut' = cut
          /\ headers_parsing_complete_' = headers_parsing_complete_
          /\ parsing_complete_' = parsing_complete_
      BY <1>4 DEF OnHeaderField, Feed, connection
    <2>3. /\ cut' \in BOOLEAN /\ headers_parsing_complete_' \in BOOLEAN
          /\ parsing_complete_' \in BOOLEAN
      BY <1>2, <2>2
    <2>4. QED  BY <2>1, <2>2, <2>3, FeedingKeeps
  <1>5. CASE OnHeaderValue
    <2>1. /\ Reading' /\ state' = "reading" /\ ~parsing_complete_'
          /\ DOMAIN message' = DOMAIN NoMessage /\ DOMAIN current_header_' = DOMAIN NoHeader
      BY <1>1, <1>5, OnHeaderValueReads
    <2>2. /\ state = "reading" /\ ~parsing_complete_
          /\ rules' = rules /\ root_' = root_ /\ sent' = sent /\ count' = count
          /\ walk' = walk /\ answer' = answer /\ cut' = cut
          /\ headers_parsing_complete_' = headers_parsing_complete_
          /\ parsing_complete_' = parsing_complete_
      BY <1>5 DEF OnHeaderValue, Feed, connection
    <2>3. /\ cut' \in BOOLEAN /\ headers_parsing_complete_' \in BOOLEAN
          /\ parsing_complete_' \in BOOLEAN
      BY <1>2, <2>2
    <2>4. QED  BY <2>1, <2>2, <2>3, FeedingKeeps
  <1>6. CASE OnHeadersComplete
    <2>1. /\ Reading' /\ state' = "reading" /\ message'.url = message.url
          /\ DOMAIN message' = DOMAIN NoMessage /\ DOMAIN current_header_' = DOMAIN NoHeader
      BY <1>1, <1>6, OnHeadersCompleteReads
    <2>2. /\ state = "reading" /\ ~parsing_complete_ /\ next.kind # "url"
          /\ rules' = rules /\ root_' = root_ /\ sent' = sent /\ count' = count
          /\ walk' = walk /\ answer' = answer /\ cut' = cut
          /\ headers_parsing_complete_' = TRUE
          /\ parsing_complete_' = (next'.kind = "done")
      BY <1>6 DEF OnHeadersComplete, Completed, Feed, connection
    <2>3. parsing_complete_' \in BOOLEAN  BY Zenon, <2>2
    <2>4. cut' \in BOOLEAN /\ headers_parsing_complete_' \in BOOLEAN  BY <1>2, <2>2
    <2>5. QED  BY <2>1, <2>2, <2>3, <2>4, FeedingKeeps
  <1>7. CASE OnBody
    <2>1. /\ Reading' /\ state' = "reading" /\ message'.url = message.url
          /\ DOMAIN message' = DOMAIN NoMessage /\ DOMAIN current_header_' = DOMAIN NoHeader
      BY <1>1, <1>7, OnBodyReads
    <2>2. /\ state = "reading" /\ ~parsing_complete_ /\ next.kind # "url"
          /\ rules' = rules /\ root_' = root_ /\ sent' = sent /\ count' = count
          /\ walk' = walk /\ answer' = answer /\ cut' = cut
          /\ headers_parsing_complete_' = headers_parsing_complete_
          /\ parsing_complete_' = (next'.kind = "done")
      BY <1>7 DEF OnBody, Completed, Feed, connection
    <2>3. parsing_complete_' \in BOOLEAN  BY Zenon, <2>2
    <2>4. cut' \in BOOLEAN /\ headers_parsing_complete_' \in BOOLEAN  BY <1>2, <2>2
    <2>5. QED  BY <2>1, <2>2, <2>3, <2>4, FeedingKeeps
  <1>8. QED  BY <1>3, <1>4, <1>5, <1>6, <1>7

LEMMA SetRuleKeeps ==
    ASSUME RequestInv, NEW rule \in Rules, SetRule(rule)
    PROVE  RequestInv'
  <1>1. TypeOK /\ TreeOfRules(rules, root_) /\ Reading /\ Routing  BY DEF RequestInv
  <1>2. /\ state = "setup" /\ state' = "setup" /\ Len(rules) < MaxRules
        /\ rules' = Append(rules, rule) /\ root_' = Set(root_, rule)
        /\ sent' = sent /\ cut' = cut /\ count' = count /\ next' = next /\ message' = message
        /\ current_header_' = current_header_ /\ walk' = walk /\ answer' = answer
        /\ headers_parsing_complete_' = headers_parsing_complete_
        /\ parsing_complete_' = parsing_complete_
    BY DEF SetRule, parser
  <1>3. rules \in Seq(Rules)  BY <1>1 DEF TypeOK
  <1>4. rules' \in Seq(Rules) /\ Len(rules') <= MaxRules
    BY <1>2, <1>3, BoundsAssumption
  <1>5. TreeOfRules(rules', root_')
    BY <1>1, <1>2, <1>3, SetKeepsTree
  <1>6. \A node \in DOMAIN root_' :
           node = <<>> \/ SubSeq(node, 1, Len(node) - 1) \in DOMAIN root_'
    BY <1>4, <1>5, ParentsAreNodes DEF TreeOfRules
  <1>7. TypeOK'  BY <1>1, <1>2, <1>4, <1>6 DEF TypeOK
  <1>8. Reading'  BY <1>2 DEF Reading
  <1>9. Routing'
    <2>1. ~parsing_complete_ /\ walk = Walk  BY <1>1, <1>2 DEF Routing
    <2>2. ~parsing_complete_'  BY Zenon, <1>2, <2>1
    <2>3. QED  BY <1>2, <2>1, <2>2 DEF Routing
  <1>10. RouteIsChosen'  BY <1>2 DEF RouteIsChosen
  <1>11. QED  BY <1>5, <1>7, <1>8, <1>9, <1>10 DEF RequestInv

LEMMA ReadyKeeps ==
    ASSUME RequestInv, NEW q \in Requests, Ready(q)
    PROVE  RequestInv'
  <1>1. TypeOK /\ TreeOfRules(rules, root_)  BY DEF RequestInv
  <1>2. /\ count < MaxRequests /\ state' = "reading" /\ count' = count + 1
        /\ current_header_' = NoHeader
        /\ headers_parsing_complete_' = FALSE /\ parsing_complete_' = FALSE
        /\ message' = NoMessage /\ walk' = Walk /\ answer' = NoAnswer
        /\ sent' = q /\ next' = Piece("url", 0, 1) /\ cut' = FALSE
        /\ rules' = rules /\ root_' = root_
    BY DEF Ready
  <1>3. TypeOK'
    <2>1. count' \in 0 .. MaxRequests  BY <1>1, <1>2, BoundsAssumption DEF TypeOK
    <2>2. state' \in {"setup", "open", "reading", "killed"}  BY <1>2
    <2>3. /\ headers_parsing_complete_' \in BOOLEAN /\ parsing_complete_' \in BOOLEAN
          /\ cut' \in BOOLEAN /\ ~parsing_complete_'
      BY <1>2
    <2>4. sent' \in Requests \cup {NoMessage}  BY <1>2
    <2>5. /\ DOMAIN message' = DOMAIN NoMessage /\ DOMAIN current_header_' = DOMAIN NoHeader
          /\ DOMAIN answer' = DOMAIN NoAnswer
      BY <1>2
    <2>6. /\ rules' \in Seq(Rules) /\ Len(rules') <= MaxRules
          /\ \A node \in DOMAIN root_' :
                node = <<>> \/ SubSeq(node, 1, Len(node) - 1) \in DOMAIN root_'
      BY <1>1, <1>2 DEF TypeOK
    <2>7. QED  BY <2>1, <2>2, <2>3, <2>4, <2>5, <2>6 DEF TypeOK
  <1>4. TreeOfRules(rules', root_')  BY <1>1, <1>2
  <1>5. Reading'  BY ReadyReads
  <1>6. Routing'  BY <1>2 DEF Routing
  <1>7. RouteIsChosen'  BY <1>2 DEF RouteIsChosen
  <1>8. QED  BY <1>3, <1>4, <1>5, <1>6, <1>7 DEF RequestInv

\* What is known while the request is routed.
LEMMA RoutingIs ==
    ASSUME RequestInv, state = "reading", parsing_complete_
    PROVE  /\ rules \in Seq(Rules) /\ TreeOfRules(rules, root_) /\ NodesAreOfRules(rules, root_)
           /\ message.url.path \in Seq(STRING)
           /\ Len(Tokens(message.url.path)) \in Nat
           /\ DOMAIN Tokens(message.url.path) = 1 .. Len(Tokens(message.url.path))
           /\ WalkInv(rules, root_, Tokens(message.url.path), walk)
  BY TokensAre DEF RequestInv, TypeOK, TreeOfRules, Routing

LEMMA TurnKeeps ==
    ASSUME RequestInv, Turn
    PROVE  RequestInv'
  <1> DEFINE tokens == Tokens(message.url.path)
  <1>1. TypeOK /\ TreeOfRules(rules, root_) /\ Reading  BY DEF RequestInv
  <1>2. /\ state = "reading" /\ parsing_complete_ /\ walk.ok /\ walk.at < Len(tokens)
        /\ walk' = Down(root_, walk, tokens[walk.at + 1])
        /\ rules' = rules /\ root_' = root_ /\ state' = state /\ sent' = sent /\ cut' = cut
        /\ count' = count /\ next' = next /\ message' = message /\ answer' = answer
        /\ current_header_' = current_header_
        /\ headers_parsing_complete_' = headers_parsing_complete_
        /\ parsing_complete_' = parsing_complete_
    BY DEF Turn, connection, parser
  <1>3. /\ rules \in Seq(Rules) /\ NodesAreOfRules(rules, root_)
        /\ message.url.path \in Seq(STRING)
        /\ Len(tokens) \in Nat /\ DOMAIN tokens = 1 .. Len(tokens)
        /\ WalkInv(rules, root_, tokens, walk)
    BY <1>2, RoutingIs
  <1> HIDE DEF tokens
  <1>4. WalkInv(rules, root_, tokens, walk')  BY <1>2, <1>3, DownKeepsWalk
  <1>5. parsing_complete_'  BY Zenon, <1>2
  <1>6. TypeOK'  BY <1>1, <1>2 DEF TypeOK
  <1>7. Reading'  BY <1>1, <1>2, ReadingStays DEF parser
  <1>8. Routing'  BY <1>2, <1>3, <1>4, <1>5 DEF Routing, tokens
  <1>9. RouteIsChosen'  BY <1>2 DEF RouteIsChosen
  <1>10. TreeOfRules(rules', root_')  BY <1>1, <1>2
  <1>11. QED  BY <1>6, <1>7, <1>8, <1>9, <1>10 DEF RequestInv

LEMMA RouteKeeps ==
    ASSUME RequestInv, Route
    PROVE  RequestInv'
  <1> DEFINE tokens == Tokens(message.url.path)
  <1>1. TypeOK /\ TreeOfRules(rules, root_) /\ Reading  BY DEF RequestInv
  <1>2. /\ state = "reading" /\ parsing_complete_ /\ (walk.ok => walk.at = Len(tokens))
        /\ answer' = Found(root_, walk, message.method)
        /\ state' = "open"
        /\ rules' = rules /\ root_' = root_ /\ sent' = sent /\ cut' = cut
        /\ count' = count /\ next' = next /\ message' = message /\ walk' = walk
        /\ current_header_' = current_header_
        /\ headers_parsing_complete_' = headers_parsing_complete_
        /\ parsing_complete_' = parsing_complete_
    BY DEF Route, parser
  <1>3. /\ rules \in Seq(Rules) /\ message.url.path \in Seq(STRING)
        /\ DOMAIN tokens = 1 .. Len(tokens) /\ WalkInv(rules, root_, tokens, walk)
    BY <1>2, RoutingIs
  <1> HIDE DEF tokens
  <1>4. IsChosen(rules, tokens, message.method, answer')
    BY <1>1, <1>2, <1>3, FoundIsChosen
  <1>5. parsing_complete_'  BY Zenon, <1>2
  <1>6. TypeOK'
    <2>1. DOMAIN answer' = DOMAIN NoAnswer  BY <1>2 DEF Found, NotFound, NoAnswer
    <2>2. QED  BY <1>1, <1>2, <2>1 DEF TypeOK
  <1>7. Reading'  BY <1>1, <1>2, ReadingStays DEF parser
  <1>8. Routing'  BY <1>2, <1>3, <1>5 DEF Routing, tokens
  <1>9. RouteIsChosen'  BY <1>2, <1>4 DEF RouteIsChosen, IsChosen, tokens
  <1>10. TreeOfRules(rules', root_')  BY <1>1, <1>2
  <1>11. QED  BY <1>6, <1>7, <1>8, <1>9, <1>10 DEF RequestInv

LEMMA StutterKeeps ==
    ASSUME RequestInv, UNCHANGED vars
    PROVE  RequestInv'
  <1>1. TypeOK /\ TreeOfRules(rules, root_) /\ Reading /\ Routing /\ RouteIsChosen
    BY DEF RequestInv
  <1>2. /\ rules' = rules /\ root_' = root_ /\ state' = state /\ sent' = sent /\ cut' = cut
        /\ count' = count /\ next' = next /\ message' = message /\ walk' = walk
        /\ answer' = answer /\ current_header_' = current_header_
        /\ headers_parsing_complete_' = headers_parsing_complete_
        /\ parsing_complete_' = parsing_complete_
    BY DEF vars, connection, parser
  <1>3. TypeOK'  BY <1>1, <1>2 DEF TypeOK
  <1>4. TreeOfRules(rules', root_')  BY <1>1, <1>2
  <1>5. Reading'
    BY <1>1, <1>2 DEF Reading, NextIsPiece, UrlIsTail, Rear, InName, MessageIsFed, HeaderIsFed, Made,
                      UrlFed, HeadersFed, BodyFed, Pending, HeadersStored
  <1>6. Routing'  BY <1>1, <1>2 DEF Routing
  <1>7. RouteIsChosen'  BY <1>1, <1>2 DEF RouteIsChosen
  <1>8. QED  BY <1>3, <1>4, <1>5, <1>6, <1>7 DEF RequestInv

LEMMA InvStarts == Init => RequestInv
  <1> SUFFICES ASSUME Init PROVE RequestInv
    OBVIOUS
  <1>1. /\ rules = <<>> /\ root_ = EmptyTree /\ state = "setup" /\ sent = NoMessage
        /\ current_header_ = NoHeader /\ message = NoMessage /\ walk = Walk
        /\ headers_parsing_complete_ = FALSE /\ parsing_complete_ = FALSE
        /\ answer = NoAnswer /\ cut = FALSE /\ count = 0
    BY DEF Init
  <1>2. rules \in Seq(Rules) /\ Len(rules) <= MaxRules  BY <1>1, BoundsAssumption
  <1>3. \A node \in DOMAIN root_ :
           node = <<>> \/ SubSeq(node, 1, Len(node) - 1) \in DOMAIN root_
    BY <1>1 DEF EmptyTree
  <1>4. TypeOK
    <2>1. count \in 0 .. MaxRequests  BY <1>1, BoundsAssumption
    <2>2. state \in {"setup", "open", "reading", "killed"}  BY <1>1
    <2>3. /\ headers_parsing_complete_ \in BOOLEAN /\ parsing_complete_ \in BOOLEAN
          /\ cut \in BOOLEAN /\ ~parsing_complete_
      BY <1>1
    <2>4. sent \in Requests \cup {NoMessage}  BY <1>1
    <2>5. /\ DOMAIN message = DOMAIN NoMessage /\ DOMAIN current_header_ = DOMAIN NoHeader
          /\ DOMAIN answer = DOMAIN NoAnswer
      BY <1>1
    <2>6. QED  BY <1>2, <1>3, <2>1, <2>2, <2>3, <2>4, <2>5 DEF TypeOK
  <1>5. TreeOfRules(rules, root_)  BY <1>1, TreeStarts
  <1>6. Reading /\ Routing /\ RouteIsChosen  BY <1>1 DEF Reading, Routing, RouteIsChosen
  <1>7. QED  BY <1>4, <1>5, <1>6 DEF RequestInv

LEMMA InvIsKept == Spec => []RequestInv
  <1>1. Init => RequestInv  BY InvStarts
  <1>2. RequestInv /\ [Next]_vars => RequestInv'
    <2> SUFFICES ASSUME RequestInv, [Next]_vars PROVE RequestInv'
      OBVIOUS
    <2>1. ASSUME NEW rule \in Rules, SetRule(rule) PROVE RequestInv'
      BY <2>1, SetRuleKeeps
    <2>2. ASSUME NEW q \in Requests, Ready(q) PROVE RequestInv'
      BY <2>2, ReadyKeeps
    <2>3. CASE \/ next.kind = "url" /\ \E n \in 1 .. Len(sent.url) + 1 : OnUrl(n)
               \/ OnHeaderField \/ OnHeaderValue \/ OnHeadersComplete \/ OnBody
      BY <2>3, CallbacksKeep
    <2>4. CASE Turn  BY <2>4, TurnKeeps
    <2>5. CASE Route  BY <2>5, RouteKeeps
    <2>6. CASE UNCHANGED vars  BY <2>6, StutterKeeps
    <2>7. QED  BY <2>1, <2>2, <2>3, <2>4, <2>5, <2>6 DEF Next
  <1>3. QED  BY <1>1, <1>2, PTL DEF Spec

-----------------------------------------------------------------------------
(***************************************************************************)
(* What follows.                                                           *)
(***************************************************************************)

\* However the reads cut a request, and whatever the requests before it were,
\* on_url, on_header_field, on_header_value, on_body and on_message_complete
\* put method, URL, headers, body and flags together as they were
\* sent, if no read ended inside the URL or at its end and no header was without
\* a value.
THEOREM ParsersMakeWhatWasSent == Spec => []ParsedIsSent
  <1>1. RequestInv => ParsedIsSent
    <2> SUFFICES ASSUME RequestInv PROVE ParsedIsSent
      OBVIOUS
    <2>1. TypeOK  BY DEF RequestInv
    <2>2. ASSUME parsing_complete_, ~cut, Valued(sent)
          PROVE  message = [sent EXCEPT !.url = UrlOf(sent.url),
                                        !.headers = HeaderMap(sent, Len(sent.headers))]
      <3>1. state \in {"reading", "open"}  BY <2>2 DEF RequestInv, Routing
      <3>2. sent \in Requests /\ next.kind = "done" /\ MessageIsFed
        BY <2>2, <3>1 DEF RequestInv, Reading
      <3>3. /\ UrlFed = sent.url /\ BodyFed = Len(sent.body)
            /\ HeadersStored = Len(sent.headers)
        BY <3>2 DEF UrlFed, BodyFed, HeadersStored, HeadersFed, Pending
      <3>4. message = Made(sent.url, Len(sent.headers), Len(sent.body), sent.flags)
        BY <3>2, <3>3 DEF MessageIsFed
      <3>5. /\ DOMAIN sent = {"method", "url", "headers", "body", "flags"}
            /\ sent.url # <<>> /\ sent.body \in Seq(STRING)
        BY <3>2, RequestIs
      <3>6. SubSeq(sent.body, 1, Len(sent.body)) = sent.body
        BY <3>5, SubSeqFull
      <3> DEFINE map == HeaderMap(sent, Len(sent.headers))
                 u == UrlOf(sent.url)
      <3>7. message = [method |-> sent.method, url |-> u, headers |-> map,
                       body |-> sent.body, flags |-> sent.flags]
        BY <3>4, <3>5, <3>6 DEF Made
      <3> HIDE DEF map, u
      <3> DEFINE part == [sent EXCEPT !.url = u]
      <3>8. DOMAIN part = DOMAIN sent /\ part.url = u
            /\ part.method = sent.method /\ part.body = sent.body /\ part.flags = sent.flags
        BY <3>5
      <3>9. [sent EXCEPT !.url = u, !.headers = map] = [part EXCEPT !.headers = map]
        BY Zenon
      <3> HIDE DEF part
      <3>10. message = [part EXCEPT !.headers = map]  BY <3>5, <3>7, <3>8
      <3>11. QED  BY <3>9, <3>10 DEF map, u
    <2>3. QED  BY <2>1, <2>2 DEF ParsedIsSent
  <1>2. QED  BY <1>1, InvIsKept, PTL

\* A URL in several fragments, of which on_url keeps the last: what reaches the
\* router is the path of a rear part of it -- which may lie in the query, or be
\* empty -- and if a fragment is no URL the connection is closed.
THEOREM CutUrlsLeaveATail == Spec => []CutUrlIsTail
  <1>1. RequestInv => CutUrlIsTail
    <2> SUFFICES ASSUME RequestInv PROVE CutUrlIsTail
      OBVIOUS
    <2>1. state = "killed" => cut  BY DEF RequestInv, Reading
    <2>2. ASSUME parsing_complete_
          PROVE  /\ message.method = sent.method
                 /\ \E i \in 1 .. Len(sent.url) + 1 :
                       IsUrl(Rear(i)) /\ message.url = UrlOf(Rear(i)) /\ (~cut => i = 1)
      <3>1. state \in {"reading", "open"}  BY <2>2 DEF RequestInv, Routing
      <3>2. next.kind = "done" /\ UrlIsTail  BY <2>2, <3>1 DEF RequestInv, Reading
      <3>3. QED  BY <3>2 DEF UrlIsTail
    <2>3. QED  BY <2>1, <2>2 DEF CutUrlIsTail, Rear
  <1>2. QED  BY <1>1, InvIsKept, PTL

\* Router::set in whatever order, and Router::get down the tree: the handler is
\* that of the latest rule that leads to the path, with the parameters by the
\* names of that rule if the rules agree about them, or 404 if there is none.
THEOREM RoutesAreChosen == Spec => []RouteIsChosen
  <1>1. RequestInv => RouteIsChosen  BY DEF RequestInv
  <1>2. QED  BY <1>1, InvIsKept, PTL
=============================================================================
