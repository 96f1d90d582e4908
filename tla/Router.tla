------------------------------- MODULE Router -------------------------------
(***************************************************************************)
(* http::Router: rules are set one by one and make a tree of nodes; get    *)
(* walks down it along the tokens of a path, a turn of its loop at a time. *)
(*                                                                         *)
(* A node is named by the keys that lead to it, and the tree is a function *)
(* of those.  A rule's path is a sequence of tokens: a name, which is the  *)
(* key and the name of its node, or a parameter, whose key is ":".         *)
(***************************************************************************)
EXTENDS Integers, Sequences, FiniteSets

\* An unordered_map, and an assignment to one of its elements.
NoMap == [x \in {} |-> ""]
Put(map, key, value) ==
    [x \in DOMAIN map \cup {key} |-> IF x = key THEN value ELSE map[x]]

Param == ":"
Static(name) == [key |-> name, name |-> name]
Parameter(name) == [key |-> Param, name |-> name]

\* The root alone.
EmptyTree == [node \in {<<>>} |-> [name |-> "", handlers |-> NoMap]]

Keys(rule) == [i \in DOMAIN rule.path |-> rule.path[i].key]

\* Router::split_url_path, with the empty tokens that set and get skip left
\* out: what is between slashes, the k-th after k - 1 others.
Names(path) == {i \in DOMAIN path : path[i] # "/"}
Tokens(path) ==
    [k \in 1 .. Cardinality(Names(path)) |->
        path[CHOOSE i \in Names(path) : Cardinality({j \in Names(path) : j < i}) = k - 1]]

\* Router::set: the nodes that are missing, and a handler at the last one.
Set(tree, rule) ==
    LET keys == Keys(rule)
        nodes == {SubSeq(keys, 1, i) : i \in 0 .. Len(keys)}
        grown == [node \in DOMAIN tree \cup nodes |->
                    IF node \in DOMAIN tree THEN tree[node]
                    ELSE [name |-> rule.path[Len(node)].name, handlers |-> NoMap]]
    IN [grown EXCEPT ![keys].handlers = Put(@, rule.method, rule.handler)]

\* Router::get has gone through `at' tokens, and is at a node; or at() threw.
Walk == [at |-> 0, node |-> <<>>, params |-> NoMap, ok |-> TRUE]

\* A defect: a parameter is taken before a name.
DownParamFirst(tree, walk, token) ==
    LET key == IF Append(walk.node, Param) \in DOMAIN tree THEN Param ELSE token
        node == Append(walk.node, key)
    IN IF node \notin DOMAIN tree THEN [walk EXCEPT !.ok = FALSE]
       ELSE [at |-> walk.at + 1, node |-> node, ok |-> TRUE,
             params |-> IF key = Param THEN Put(walk.params, tree[node].name, token)
                        ELSE walk.params]

\* A defect: a value that is there already is kept.
DownKeepsFirst(tree, walk, token) ==
    LET key == IF Append(walk.node, token) \in DOMAIN tree THEN token ELSE Param
        node == Append(walk.node, key)
    IN IF node \notin DOMAIN tree THEN [walk EXCEPT !.ok = FALSE]
       ELSE [at |-> walk.at + 1, node |-> node, ok |-> TRUE,
             params |-> IF key = Param /\ tree[node].name \notin DOMAIN walk.params
                        THEN Put(walk.params, tree[node].name, token) ELSE walk.params]

\* A turn of the loop: to the child of that name, or else to the one for
\* parameters; at() throws if there is none either.
Down(tree, walk, token) ==
    LET key == IF Append(walk.node, token) \in DOMAIN tree THEN token ELSE Param
        node == Append(walk.node, key)
    IN IF node \notin DOMAIN tree THEN [walk EXCEPT !.ok = FALSE]
       ELSE [at |-> walk.at + 1, node |-> node, ok |-> TRUE,
             params |-> IF key = Param THEN Put(walk.params, tree[node].name, token)
                        ELSE walk.params]

NotFound == [handler |-> "404", params |-> NoMap]

\* What get returns after the loop, and route_request's answer to a RouterException.
Found(tree, walk, method) ==
    IF walk.ok /\ method \in DOMAIN tree[walk.node].handlers
    THEN [handler |-> tree[walk.node].handlers[method], params |-> walk.params]
    ELSE NotFound

-----------------------------------------------------------------------------
(***************************************************************************)
(* What a router promises, from the rules alone.                           *)
(***************************************************************************)

SameKeys(r, s, n) ==
    Len(r.path) >= n /\ Len(s.path) >= n /\ SubSeq(Keys(r), 1, n) = SubSeq(Keys(s), 1, n)

\* A rule leads to a path unless, at one of its parameters, another rule that
\* has been the same so far has the very name that is in the path.
LeadsTo(rules, rule, tokens) ==
    /\ Len(rule.path) = Len(tokens)
    /\ \A i \in DOMAIN tokens :
          \/ rule.path[i].key = tokens[i]
          \/ /\ rule.path[i].key = Param
             /\ ~\E j \in DOMAIN rules : /\ SameKeys(rule, rules[j], i - 1)
                                        /\ Len(rules[j].path) >= i
                                        /\ rules[j].path[i].key = tokens[i]

\* The latest of the rules that lead to the path is the one to use.
Chosen(rules, tokens, method) ==
    LET those == {i \in DOMAIN rules : /\ LeadsTo(rules, rules[i], tokens)
                                       /\ rules[i].method = method}
    IN {i \in those : \A j \in those : j <= i}

\* Rules that share a node agree on the name of its parameter.
Agree(rules) ==
    \A i, j \in DOMAIN rules : \A n \in DOMAIN rules[i].path :
        SameKeys(rules[i], rules[j], n) => rules[i].path[n].name = rules[j].path[n].name

\* The values of a rule's parameters; the last of those with the same name.
Values(rule, tokens) ==
    LET at == {i \in DOMAIN rule.path : rule.path[i].key = Param}
        names == {rule.path[i].name : i \in at}
    IN [name \in names |->
          tokens[CHOOSE i \in at : /\ rule.path[i].name = name
                                   /\ \A j \in at : rule.path[j].name = name => j <= i]]

=============================================================================
