------------------------- MODULE DemoManagerProofs -------------------------
(***************************************************************************)
(* The order and the safety of what is posted to demo-manager, over the    *)
(* starts, signals and crashes of the process, for any books, workers,     *)
(* capacity and number of posts.                                           *)
(*                                                                         *)
(* The table, the entry the writer is at and the queue are seen as one     *)
(* line: Take, Insert and Commit move a post along it, Enqueue appends to  *)
(* it and a death cuts it after the table.  A post that is still held by a *)
(* worker is not answered, so that no earlier post has been received after *)
(* it was answered: that is why it may go to the end of the line, and of   *)
(* the workset.  Before the factory is ready nothing is held or queued:    *)
(* that is why the preload finds the table that it started from.           *)
(***************************************************************************)
EXTENDS DemoManager, FiniteSetTheorems, SequenceTheorems, TLAPS

Post == 1 .. MaxPosts
Entries == [post : Post, live : BOOLEAN]
Rows == [post : Post, book : Books]
Writings == [pc : {"none", "look", "insert", "spin", "commit"}, post : 0 .. MaxPosts]
Requests == [pc : {"none", "queue", "push"}, post : 0 .. MaxPosts]
Drawings == [pc : {"none", "size", "copy", "draw"}, index : Nat, x : 0 .. Capacity,
             copied : Seq(Post)]
Preloads == [pc : {"none", "query", "spin", "push"}, found : Seq(Rows), at : Nat]

\* The types of the variables.
Typed ==
    /\ process \in {"down", "up", "stopping", "halting"}
    /\ ready_ \in BOOLEAN /\ running_ \in BOOLEAN
    /\ ws \in Seq(Entries) /\ queue_ \in Seq(Post) /\ writer \in Writings
    /\ request \in [Workers -> Requests] /\ draw \in Drawings /\ preload \in Preloads
    /\ table \in Seq(Rows)
    /\ posted \in 0 .. MaxPosts /\ draws \in 0 .. MaxDraws /\ runs \in 0 .. MaxRuns
    /\ book \in Seq(Books) /\ Len(book) = posted
    /\ before \in Seq(SUBSET Post) /\ Len(before) = posted
    /\ answered \subseteq 1 .. posted /\ lost \subseteq 1 .. posted
    /\ kept \in 0 .. Len(table)

\* Only posts that there have been are anywhere.
Known ==
    /\ \A i \in 1 .. Len(ws) : ws[i].post <= posted
    /\ \A i \in 1 .. Len(queue_) : queue_[i] <= posted
    /\ \A i \in 1 .. Len(table) : table[i].post <= posted
    /\ \A w \in Workers : request[w].post <= posted
    /\ writer.post <= posted

\* The workset, and what is drawn of it, fit.
Sized ==
    /\ Len(ws) <= Capacity /\ draw.index <= Len(ws)
    /\ Len(draw.copied) <= draw.x /\ (draw.pc = "size" => draw.copied = <<>>)
    /\ preload.at <= Len(preload.found)

\* What a client knew of when it posted has been answered.
Seen == \A p \in 1 .. posted : before[p] \subseteq answered

\* The two are different posts, and the second may come after the first.
May(first, second) == first # second /\ second \notin before[first]

\* The table, the entry the writer is at, and the queue are one line.
InLine ==
    /\ \A i, j \in 1 .. Len(table) : i < j => May(table[i].post, table[j].post)
    /\ \A i, j \in 1 .. Len(queue_) : i < j => May(queue_[i], queue_[j])
    /\ \A i \in 1 .. Len(table) : \A j \in 1 .. Len(queue_) : May(table[i].post, queue_[j])
    /\ writer.post # 0 =>
          /\ \A i \in 1 .. Len(table) : May(table[i].post, writer.post)
          /\ \A j \in 1 .. Len(queue_) : May(writer.post, queue_[j])
    /\ writer.post # 0 <=> writer.pc \in {"insert", "spin", "commit"}

OnLine(p) ==
    \/ \E i \in 1 .. Len(table) : table[i].post = p
    \/ \E i \in 1 .. Len(queue_) : queue_[i] = p
    \/ writer.post = p

\* A post that a worker has is not answered; it is on the line from the moment
\* the queue has it, and no other worker has it.
Held ==
    \A w \in Workers :
       IF request[w].pc = "none" THEN request[w].post = 0
       ELSE /\ request[w].post # 0
            /\ request[w].post \notin answered /\ request[w].post \notin lost
            /\ request[w].pc = "push" <=> OnLine(request[w].post)
            /\ \A v \in Workers : v # w => request[v].post # request[w].post

\* An answered post is on the line or has been lost with the process, and what
\* was lost does not come back.
Secured ==
    /\ \A p \in answered : OnLine(p) \/ p \in lost
    /\ \A i \in 1 .. Len(queue_) : queue_[i] \notin lost

\* Before the factory is ready there are no requests, and nothing to write.
Unready ==
    ~ready_ => /\ \A w \in Workers : request[w].pc = "none"
               /\ queue_ = <<>> /\ writer.post = 0
               /\ draw = NoDraw

Down == process = "down" => ~ready_ /\ ws = <<>> /\ preload.pc = "none"

\* The rows that the workset is to begin with.
Expected == IF kept < Capacity THEN kept ELSE Capacity

Loading ==
    preload.pc # "none" =>
       /\ ~ready_ /\ kept = Len(table)
       /\ preload.pc = "query" => ws = <<>>
       /\ preload.pc = "push" =>
             /\ Len(preload.found) = Expected
             /\ \A i \in 1 .. Expected : preload.found[i] = table[kept - Expected + i]
             /\ preload.at < Expected /\ Len(ws) = preload.at
             /\ \A i \in 1 .. Len(ws) : ws[i].post = preload.found[i].post /\ ~ws[i].live

\* Once it is ready it begins with them, until the first request pushes; then
\* the newest entry is live for good.
Loaded ==
    ready_ =>
       \/ /\ Len(ws) = Expected
          /\ \A i \in 1 .. Len(ws) : ws[i].post = table[kept - Expected + i].post /\ ~ws[i].live
       \/ ws # <<>> /\ ws[Len(ws)].live

LiveLast == \A i, j \in 1 .. Len(ws) : i < j /\ ws[i].live => ws[j].live

WorksetInOrder ==
    \A i, j \in 1 .. Len(ws) : i < j => ws[j].post \notin before[ws[i].post]

ServiceInv ==
    /\ Typed /\ Known /\ Sized /\ Seen /\ InLine /\ Held /\ Secured
    /\ Unready /\ Down /\ Loading /\ Loaded /\ LiveLast /\ WorksetInOrder

-----------------------------------------------------------------------------
\* LastOf: what a bounded workset keeps, and what a query with LIMIT returns.
LEMMA LastOfIs ==
    ASSUME NEW S, NEW s \in Seq(S), NEW n \in Nat
    PROVE  /\ LastOf(s, n) \in Seq(S)
           /\ Len(LastOf(s, n)) = IF Len(s) > n THEN n ELSE Len(s)
           /\ \A i \in 1 .. Len(LastOf(s, n)) :
                 LastOf(s, n)[i] = s[Len(s) - Len(LastOf(s, n)) + i]
  <1> DEFINE m == (IF Len(s) > n THEN Len(s) - n ELSE 0) + 1
  <1>1. Len(s) \in Nat  BY LenProperties
  <1>2. m \in Nat /\ m \in 1 .. Len(s) + 1 /\ Len(s) - m + 1 = IF Len(s) > n THEN n ELSE Len(s)
    BY <1>1
  <1> HIDE DEF m
  <1>3. LastOf(s, n) = SubSeq(s, m, Len(s))  BY DEF LastOf, m
  <1>4. \A i \in m .. Len(s) : s[i] \in S  BY <1>1, <1>2, ElementOfSeq
  <1>5. /\ SubSeq(s, m, Len(s)) \in Seq(S)
        /\ Len(SubSeq(s, m, Len(s))) = Len(s) - m + 1
        /\ \A i \in 1 .. Len(s) - m + 1 : SubSeq(s, m, Len(s))[i] = s[m + i - 1]
    <2>1. Len(SubSeq(s, m, Len(s))) = Len(s) - m + 1
      BY <1>1, <1>2, SubSeqProperties
    <2>2. \A i \in 1 .. Len(s) - m + 1 : SubSeq(s, m, Len(s))[i] = s[m + i - 1]
      BY <1>1, <1>2, SubSeqProperties
    <2>3. SubSeq(s, m, Len(s)) \in Seq(S)
      BY <1>1, <1>2, SubSeqProperties
    <2>4. QED  BY <2>1, <2>2, <2>3
  <1>6. \A i \in Nat : m + i - 1 = Len(s) - (Len(s) - m + 1) + i
    BY <1>1, <1>2
  <1>7. \A i \in 1 .. Len(s) - m + 1 : i \in Nat
    BY <1>1, <1>2
  <1>8. QED  BY <1>2, <1>3, <1>5, <1>6, <1>7

\* One entry at the end of a sequence.
LEMMA AppendIs ==
    ASSUME NEW S, NEW s \in Seq(S), NEW e \in S
    PROVE  /\ Append(s, e) \in Seq(S) /\ Len(Append(s, e)) = Len(s) + 1
           /\ Append(s, e)[Len(s) + 1] = e
           /\ \A i \in 1 .. Len(s) : Append(s, e)[i] = s[i]
           /\ Len(s) \in Nat
           /\ \A i \in 1 .. Len(s) + 1 : i = Len(s) + 1 \/ i \in 1 .. Len(s)
  <1>1. Len(s) \in Nat  BY LenProperties
  <1>2. \A i \in 1 .. Len(s) + 1 : i = Len(s) + 1 \/ i \in 1 .. Len(s)
    BY <1>1
  <1>3. \A i \in 1 .. Len(s) : i # Len(s) + 1 /\ i \in 1 .. Len(s) + 1
    BY <1>1
  <1>4. Append(s, e) \in Seq(S) /\ Len(Append(s, e)) = Len(s) + 1
    BY AppendProperties
  <1>5. Append(s, e)[Len(s) + 1] = e /\ \A i \in 1 .. Len(s) : Append(s, e)[i] = s[i]
    BY <1>1, <1>3, AppendProperties
  <1>6. QED  BY <1>1, <1>2, <1>4, <1>5

\* Publisher::push: the newest entry is the pushed one, the others keep their
\* order, and the subscriber of a picture stays within the workset.
LEMMA PushIs ==
    ASSUME Typed, Sized, NEW p \in Post, NEW b \in BOOLEAN, Push(p, b)
    PROVE  /\ ws' \in Seq(Entries)
           /\ Len(ws) \in Nat
           /\ Len(ws') = IF Len(ws) = Capacity THEN Capacity ELSE Len(ws) + 1
           /\ ws'[Len(ws')] = [post |-> p, live |-> b]
           /\ \A i \in 1 .. Len(ws') - 1 :
                 /\ ws'[i] = ws[Len(ws) + 1 - Len(ws') + i]
                 /\ Len(ws) + 1 - Len(ws') + i \in 1 .. Len(ws)
           /\ draw' \in Drawings /\ draw'.index <= Len(ws')
           /\ draw'.x = draw.x /\ draw'.copied = draw.copied /\ draw'.pc = draw.pc
           /\ draw.index = 0 => draw' = draw
  <1> DEFINE e == [post |-> p, live |-> b]
             long == Append(ws, e)
  <1>1. /\ Capacity \in Nat \ {0} /\ ws \in Seq(Entries) /\ Len(ws) \in Nat
        /\ Len(ws) <= Capacity /\ e \in Entries
    BY BoundsAssumption, LenProperties DEF Typed, Sized, Entries
  <1>2. /\ long \in Seq(Entries) /\ Len(long) = Len(ws) + 1
        /\ long[Len(ws) + 1] = e /\ \A i \in 1 .. Len(ws) : long[i] = ws[i]
    <2> HIDE DEF e
    <2>1. QED  BY <1>1, AppendIs
  <1>3. ws' = LastOf(long, Capacity)  BY DEF Push
  <1>4. draw' = IF Len(ws) = Capacity /\ draw.index > 0 THEN [draw EXCEPT !.index = @ - 1]
                ELSE draw
    BY DEF Push
  <1> HIDE DEF e, long
  <1>5. /\ ws' \in Seq(Entries)
        /\ Len(ws') = IF Len(ws) + 1 > Capacity THEN Capacity ELSE Len(ws) + 1
        /\ \A i \in 1 .. Len(ws') : ws'[i] = long[Len(ws) + 1 - Len(ws') + i]
    <2>1. Capacity \in Nat  BY <1>1
    <2>2. /\ ws' \in Seq(Entries)
          /\ Len(ws') = IF Len(long) > Capacity THEN Capacity ELSE Len(long)
          /\ \A i \in 1 .. Len(ws') : ws'[i] = long[Len(long) - Len(ws') + i]
      <3>1. /\ LastOf(long, Capacity) \in Seq(Entries)
            /\ Len(LastOf(long, Capacity)) = IF Len(long) > Capacity THEN Capacity ELSE Len(long)
            /\ \A i \in 1 .. Len(LastOf(long, Capacity)) :
                  LastOf(long, Capacity)[i] = long[Len(long) - Len(LastOf(long, Capacity)) + i]
        BY <1>2, <2>1, LastOfIs, Zenon
      <3>2. QED  BY <1>3, <3>1
    <2>3. QED  BY <1>2, <2>2
  <1>6. Len(ws') = IF Len(ws) = Capacity THEN Capacity ELSE Len(ws) + 1
    BY <1>1, <1>5
  <1>7. ws'[Len(ws')] = e
    <2>1. Len(ws') \in 1 .. Len(ws') /\ Len(ws) + 1 - Len(ws') + Len(ws') = Len(ws) + 1
      BY <1>1, <1>6
    <2>2. QED  BY <1>2, <1>5, <2>1
  <1>8. ASSUME NEW i \in 1 .. Len(ws') - 1
        PROVE  /\ ws'[i] = ws[Len(ws) + 1 - Len(ws') + i]
               /\ Len(ws) + 1 - Len(ws') + i \in 1 .. Len(ws)
    <2>1. i \in 1 .. Len(ws') /\ Len(ws) + 1 - Len(ws') + i \in 1 .. Len(ws)
      BY <1>1, <1>6
    <2>2. QED  BY <1>2, <1>5, <2>1
  <1>9. draw \in Drawings /\ draw.index \in Nat /\ draw.index <= Len(ws)
    BY DEF Typed, Sized, Drawings
  <1>10. /\ draw' \in Drawings /\ draw'.x = draw.x /\ draw'.copied = draw.copied
         /\ draw'.pc = draw.pc
         /\ draw'.index = IF Len(ws) = Capacity /\ draw.index > 0 THEN draw.index - 1
                          ELSE draw.index
    <2>1. CASE Len(ws) = Capacity /\ draw.index > 0
      <3>1. draw.index - 1 \in Nat  BY <1>9, <2>1
      <3>2. draw' = [draw EXCEPT !.index = draw.index - 1]  BY <1>4, <2>1
      <3>3. QED  BY <1>9, <2>1, <3>1, <3>2 DEF Drawings
    <2>2. CASE ~(Len(ws) = Capacity /\ draw.index > 0)
      BY <1>4, <1>9, <2>2
    <2>3. QED  BY <2>1, <2>2
  <1>11. draw'.index <= Len(ws')
    BY <1>1, <1>6, <1>9, <1>10
  <1>12. draw.index = 0 => draw' = draw
    BY <1>4
  <1>13. QED  BY <1>1, <1>5, <1>6, <1>7, <1>8, <1>10, <1>11, <1>12 DEF e

-----------------------------------------------------------------------------
\* What is in the sequences, element by element.
LEMMA Elements ==
    ASSUME Typed
    PROVE  /\ Len(ws) \in Nat /\ Len(queue_) \in Nat /\ Len(table) \in Nat
           /\ \A i \in 1 .. Len(ws) : ws[i] \in Entries /\ ws[i].post \in Post
           /\ \A i \in 1 .. Len(queue_) : queue_[i] \in Post
           /\ \A i \in 1 .. Len(table) : table[i] \in Rows /\ table[i].post \in Post
           /\ \A w \in Workers : request[w] \in Requests /\ request[w].post \in 0 .. MaxPosts
           /\ writer.post \in 0 .. MaxPosts /\ posted \in Nat /\ posted <= MaxPosts
           /\ draw.index \in Nat /\ draw.x \in 0 .. Capacity /\ draw.copied \in Seq(Post)
           /\ Len(draw.copied) \in Nat
           /\ preload.at \in Nat /\ preload.found \in Seq(Rows) /\ Len(preload.found) \in Nat
           /\ kept \in Nat /\ kept <= Len(table) /\ Capacity \in Nat \ {0} /\ MaxPosts \in Nat
  <1>1. ws \in Seq(Entries) /\ queue_ \in Seq(Post) /\ table \in Seq(Rows)
    BY DEF Typed
  <1>2. Len(ws) \in Nat /\ Len(queue_) \in Nat /\ Len(table) \in Nat
    BY <1>1, LenProperties
  <1>3. \A i \in 1 .. Len(ws) : ws[i] \in Entries
    BY <1>1, ElementOfSeq
  <1>4. \A i \in 1 .. Len(queue_) : queue_[i] \in Post
    BY <1>1, ElementOfSeq
  <1>5. \A i \in 1 .. Len(table) : table[i] \in Rows
    BY <1>1, ElementOfSeq
  <1>6. /\ \A i \in 1 .. Len(ws) : ws[i].post \in Post
        /\ \A i \in 1 .. Len(table) : table[i].post \in Post
    BY <1>3, <1>5 DEF Entries, Rows
  <1>7. \A w \in Workers : request[w] \in Requests /\ request[w].post \in 0 .. MaxPosts
    BY DEF Typed, Requests
  <1>8. writer.post \in 0 .. MaxPosts
    BY DEF Typed, Writings
  <1>9. MaxPosts \in Nat /\ Capacity \in Nat \ {0}
    BY BoundsAssumption
  <1>10. posted \in Nat /\ posted <= MaxPosts
    BY <1>9 DEF Typed
  <1>11. draw.index \in Nat /\ draw.x \in 0 .. Capacity /\ draw.copied \in Seq(Post)
    BY DEF Typed, Drawings
  <1>12. preload.at \in Nat /\ preload.found \in Seq(Rows)
    BY DEF Typed, Preloads
  <1>13. Len(draw.copied) \in Nat /\ Len(preload.found) \in Nat
    BY <1>11, <1>12, LenProperties
  <1>14. kept \in Nat /\ kept <= Len(table)
    BY <1>2 DEF Typed
  <1>15. QED
    BY <1>2, <1>3, <1>4, <1>5, <1>6, <1>7, <1>8, <1>9, <1>10, <1>11, <1>12, <1>13, <1>14

LEMMA Starts == Init => ServiceInv
  <1> SUFFICES ASSUME Init PROVE ServiceInv  OBVIOUS
  <1>1. MaxPosts \in Nat /\ MaxDraws \in Nat /\ MaxRuns \in Nat /\ Capacity \in Nat \ {0}
    BY BoundsAssumption
  <1>2. /\ 0 \in 0 .. MaxPosts /\ 0 \in 0 .. MaxDraws /\ 0 \in 0 .. MaxRuns /\ 0 \in 0 .. Capacity
        /\ <<>> \in Seq(Post) /\ <<>> \in Seq(Rows) /\ <<>> \in Seq(Entries)
        /\ <<>> \in Seq(Books) /\ <<>> \in Seq(SUBSET Post) /\ Len(<<>>) = 0
    BY <1>1, EmptySeq
  <1>3. NoRequest \in Requests /\ NoRequest \in Writings
    BY <1>2 DEF NoRequest, Requests, Writings
  <1>4. NoDraw \in Drawings /\ NotLoading \in Preloads
    BY <1>2 DEF NoDraw, Drawings, NotLoading, Preloads
  <1>5. Typed
    <2>1. request \in [Workers -> Requests]  BY <1>3 DEF Init
    <2>2. ws \in Seq(Entries) /\ queue_ \in Seq(Post) /\ table \in Seq(Rows) /\ kept \in 0 .. Len(table)
      BY <1>2 DEF Init
    <2>3. book \in Seq(Books) /\ Len(book) = posted /\ before \in Seq(SUBSET Post) /\ Len(before) = posted
      BY <1>2 DEF Init
    <2>4. QED  BY <1>2, <1>3, <1>4, <2>1, <2>2, <2>3 DEF Init, Typed
  <1>6. Known /\ InLine /\ Held
    BY <1>1 DEF Init, Known, InLine, Held, NoRequest
  <1>7. Sized
    BY <1>1 DEF Init, Sized, NoDraw, NotLoading
  <1>8. Seen /\ Secured /\ Unready
    BY DEF Init, Seen, Secured, Unready, NoRequest
  <1>9. Down /\ Loading /\ Loaded /\ LiveLast /\ WorksetInOrder
    BY DEF Init, Down, Loading, Loaded, LiveLast, WorksetInOrder, NotLoading
  <1>10. QED  BY <1>5, <1>6, <1>7, <1>8, <1>9 DEF ServiceInv

-----------------------------------------------------------------------------
\* Steps that move no post: those of a picture, of the signal, and the insert.
LEMMA QuietStep ==
    ASSUME ServiceInv,
           UNCHANGED <<ready_, ws, queue_, request, preload, table, posted, runs, book,
                       before, answered, lost, kept>>,
           process' \in {"down", "up", "stopping", "halting"}, process' # "down",
           running_' \in BOOLEAN, draws' \in 0 .. MaxDraws,
           writer' \in Writings, writer'.post = writer.post,
           writer'.pc \in {"insert", "spin", "commit"} <=> writer.pc \in {"insert", "spin", "commit"},
           draw' \in Drawings, draw'.index <= Len(ws), Len(draw'.copied) <= draw'.x,
           draw'.pc = "size" => draw'.copied = <<>>, draw' = draw \/ ready_
    PROVE  ServiceInv'
  <1> USE DEF ServiceInv
  <1>1. Typed'  BY DEF Typed
  <1>2. Known' /\ Seen' /\ InLine'  BY DEF Known, Seen, InLine, May
  <1>3. Sized'  BY DEF Sized
  <1>4. Held' /\ Secured'  BY DEF Held, Secured, OnLine
  <1>5. Unready' /\ Down'  BY DEF Unready, Down
  <1>6. Loading' /\ Loaded'  BY DEF Loading, Loaded, Expected
  <1>7. LiveLast' /\ WorksetInOrder'  BY DEF LiveLast, WorksetInOrder
  <1>8. QED  BY <1>1, <1>2, <1>3, <1>4, <1>5, <1>6, <1>7

LEMMA QuietActions ==
    ASSUME ServiceInv, Insert \/ WriterSpins \/ Signal \/ Halt
    PROVE  ServiceInv'
  <1>1. /\ Typed /\ draw \in Drawings /\ writer \in Writings /\ draws \in 0 .. MaxDraws
        /\ running_ \in BOOLEAN /\ process \in {"down", "up", "stopping", "halting"}
        /\ draw.index <= Len(ws) /\ Len(draw.copied) <= draw.x
        /\ (draw.pc = "size" => draw.copied = <<>>)
    BY DEF ServiceInv, Typed, Sized
  <1>2. CASE Insert
    <2>1. /\ process # "down" /\ writer.pc = "insert" /\ writer' = [writer EXCEPT !.pc = "commit"]
          /\ UNCHANGED <<process, ready_, ws, queue_, running_, request, draw, preload, table,
                         history>>
      BY <1>2 DEF Insert, Alive
    <2>2. writer' \in Writings /\ writer'.post = writer.post /\ writer'.pc = "commit"
      BY <1>1, <2>1 DEF Writings
    <2>3. QED  BY <1>1, <2>1, <2>2, QuietStep DEF history
  <1>3. CASE Signal
    <2>1. /\ process' = "stopping" /\ UNCHANGED <<ready_, service, table, history>>
      BY <1>3 DEF Signal
    <2>2. QED  BY <1>1, <2>1, QuietStep DEF service, history
  <1>4. CASE Halt
    <2>1. /\ process' = "halting" /\ running_' = FALSE
          /\ UNCHANGED <<ready_, ws, queue_, writer, request, draw, preload, table, history>>
      BY <1>4 DEF Halt
    <2>2. QED  BY <1>1, <2>1, QuietStep DEF history
  <1>5. CASE WriterSpins
    <2>1. /\ process # "down" /\ writer.pc = "insert" /\ writer' = [writer EXCEPT !.pc = "spin"]
          /\ UNCHANGED <<process, ready_, ws, queue_, running_, request, draw, preload, table,
                         history>>
      BY <1>5 DEF WriterSpins, Alive
    <2>2. writer' \in Writings /\ writer'.post = writer.post /\ writer'.pc = "spin"
      BY <1>1, <2>1 DEF Writings
    <2>3. QED  BY <1>1, <2>1, <2>2, QuietStep DEF history
  <1>6. QED  BY <1>2, <1>3, <1>4, <1>5

\* What a picture copies stays within the columns it has allocated.
LEMMA CopiedIs ==
    ASSUME Typed, Sized, Available > 0
    PROVE  /\ Copied \in Seq(Post) /\ Len(Copied) <= draw.x
           /\ draw.index + 1 \in 1 .. Len(ws)
  <1>1. /\ Len(ws) \in Nat /\ draw.index \in Nat /\ draw.x \in 0 .. Capacity
        /\ draw.copied \in Seq(Post) /\ Capacity \in Nat
        /\ \A i \in 1 .. Len(ws) : ws[i].post \in Post
    BY Elements
  <1>2. draw.index + 1 \in 1 .. Len(ws)
    BY <1>1 DEF Available
  <1> DEFINE p == ws[draw.index + 1].post
             long == Append(draw.copied, p)
  <1>3. p \in Post  BY <1>1, <1>2
  <1> HIDE DEF p
  <1>4. long \in Seq(Post) /\ Len(long) \in Nat  BY <1>1, <1>3, AppendIs, LenProperties
  <1>5. Copied = LastOf(long, draw.x)  BY DEF Copied, p
  <1> HIDE DEF long
  <1>6. draw.x \in Nat  BY <1>1
  <1>7. /\ LastOf(long, draw.x) \in Seq(Post)
        /\ Len(LastOf(long, draw.x)) = IF Len(long) > draw.x THEN draw.x ELSE Len(long)
    BY <1>4, <1>6, LastOfIs
  <1>8. Len(LastOf(long, draw.x)) <= draw.x  BY <1>4, <1>6, <1>7
  <1>9. QED  BY <1>2, <1>5, <1>7, <1>8

LEMMA DrawActions ==
    ASSUME ServiceInv, DrawBegin \/ Draw
    PROVE  ServiceInv'
  <1>1. /\ Typed /\ Sized /\ draw \in Drawings /\ writer \in Writings /\ draws \in 0 .. MaxDraws
        /\ running_ \in BOOLEAN /\ process \in {"down", "up", "stopping", "halting"}
        /\ draw.index <= Len(ws) /\ Len(draw.copied) <= draw.x
        /\ (draw.pc = "size" => draw.copied = <<>>)
    BY DEF ServiceInv, Typed, Sized
  <1>2. /\ Len(ws) \in Nat /\ draw.index \in Nat /\ draw.x \in 0 .. Capacity
        /\ draw.copied \in Seq(Post) /\ Capacity \in Nat \ {0} /\ Len(ws) <= Capacity
    BY <1>1, Elements DEF Sized
  <1>3. draw.pc # "none" => ready_ /\ process # "down"
    BY DEF ServiceInv, Unready, Down, NoDraw
  <1>4. <<>> \in Seq(Post) /\ Len(<<>>) = 0 /\ 0 \in 0 .. Capacity /\ 0 <= Len(ws)
    BY <1>2, EmptySeq
  <1>5. CASE DrawBegin
    <2>1. /\ process = "up" /\ ready_ /\ draws < MaxDraws /\ draws' = draws + 1
          /\ draw' = [NoDraw EXCEPT !.pc = "size"]
          /\ UNCHANGED <<process, ready_, ws, queue_, running_, writer, request, preload,
                         table, posted, runs, book, before, answered, lost, kept>>
      BY <1>5 DEF DrawBegin
    <2>2. draws' \in 0 .. MaxDraws  BY <1>1, <2>1, BoundsAssumption
    <2>3. draw' = [pc |-> "size", index |-> 0, x |-> 0, copied |-> <<>>]  BY <2>1 DEF NoDraw
    <2>4. draw' \in Drawings  BY <1>4, <2>3 DEF Drawings
    <2>5. draw'.index <= Len(ws) /\ Len(draw'.copied) <= draw'.x /\ draw'.copied = <<>>
      BY <1>4, <2>3
    <2>6. QED  BY <1>1, <2>1, <2>2, <2>4, <2>5, QuietStep
  <1>6. ASSUME draw.pc # "none", draw' \in Drawings, draw'.index <= Len(ws),
               Len(draw'.copied) <= draw'.x, draw'.pc # "size",
               UNCHANGED <<process, ready_, ws, queue_, running_, writer, request, preload,
                           table, history>>
        PROVE  ServiceInv'
    BY <1>1, <1>3, <1>6, QuietStep DEF history
  <1>7. CASE DrawSize
    <2>1. /\ draw.pc = "size" /\ draw' = [draw EXCEPT !.pc = "copy", !.x = Available]
          /\ UNCHANGED <<process, ready_, ws, queue_, running_, writer, request, preload,
                         table, history>>
      BY <1>7 DEF DrawSize
    <2>2. Available \in 0 .. Capacity  BY <1>1, <1>2 DEF Available
    <2>3. draw' \in Drawings  BY <1>1, <2>1, <2>2 DEF Drawings
    <2>4. /\ draw'.index = draw.index /\ draw'.copied = draw.copied /\ draw'.x = Available
          /\ draw'.pc = "copy"
      BY <1>1, <2>1 DEF Drawings
    <2>5. Len(draw.copied) <= Available
      BY <1>1, <1>4, <2>1, <2>2
    <2>6. QED  BY <1>1, <1>6, <2>1, <2>3, <2>4, <2>5
  <1>8. CASE DrawPop
    <2>1. /\ draw.pc = "copy" /\ Available > 0
          /\ draw' = [draw EXCEPT !.copied = Copied, !.index = @ + 1]
          /\ UNCHANGED <<process, ready_, ws, queue_, running_, writer, request, preload,
                         table, history>>
      BY <1>8 DEF DrawPop
    <2>2. /\ Copied \in Seq(Post) /\ Len(Copied) <= draw.x /\ draw.index + 1 \in Nat
          /\ draw.index + 1 <= Len(ws)
      BY <1>1, <1>2, <2>1, CopiedIs
    <2>3. /\ draw' \in Drawings /\ draw'.index = draw.index + 1 /\ draw'.copied = Copied
          /\ draw'.x = draw.x /\ draw'.pc = "copy"
      BY <1>1, <2>1, <2>2 DEF Drawings
    <2>4. QED  BY <1>6, <2>1, <2>2, <2>3
  <1>9. CASE DrawCopied
    <2>1. /\ draw.pc = "copy" /\ draw' = [draw EXCEPT !.pc = "draw"]
          /\ UNCHANGED <<process, ready_, ws, queue_, running_, writer, request, preload,
                         table, history>>
      BY <1>9 DEF DrawCopied
    <2>2. /\ draw' \in Drawings /\ draw'.index = draw.index /\ draw'.copied = draw.copied
          /\ draw'.x = draw.x /\ draw'.pc = "draw"
      BY <1>1, <2>1 DEF Drawings
    <2>3. QED  BY <1>1, <1>6, <2>1, <2>2
  <1>10. CASE DrawEnd
    <2>1. /\ draw.pc = "draw" /\ draw' = NoDraw
          /\ UNCHANGED <<process, ready_, ws, queue_, running_, writer, request, preload,
                         table, history>>
      BY <1>10 DEF DrawEnd
    <2>2. /\ draw' \in Drawings /\ draw'.index <= Len(ws) /\ Len(draw'.copied) <= draw'.x
          /\ draw'.pc = "none"
      BY <1>4, <2>1 DEF Drawings, NoDraw
    <2>3. QED  BY <1>6, <2>1, <2>2
  <1>11. QED  BY <1>5, <1>7, <1>8, <1>9, <1>10 DEF Draw

-----------------------------------------------------------------------------
\* The process dies: the line is cut after the table, and what a client was
\* answered for is in the table or is counted as lost.
LEMMA DeathCutsTheLine ==
    ASSUME ServiceInv, Die
    PROVE  ServiceInv'
  <1>1. /\ Typed /\ Known /\ Seen /\ InLine /\ Secured
        /\ MaxPosts \in Nat /\ Capacity \in Nat \ {0}
    BY BoundsAssumption DEF ServiceInv
  <1>2. /\ process' = "down" /\ ready_' = FALSE /\ ws' = <<>> /\ queue_' = <<>>
        /\ running_' = FALSE /\ writer' = NoRequest
        /\ request' = [w \in Workers |-> NoRequest]
        /\ draw' = NoDraw /\ preload' = NotLoading
        /\ lost' = lost \cup Unwritten
        /\ UNCHANGED <<table, posted, draws, runs, book, before, answered, kept>>
    BY DEF Die, Stopped
  <1>3. /\ 0 \in 0 .. MaxPosts /\ 0 \in 0 .. Capacity /\ <<>> \in Seq(Post) /\ <<>> \in Seq(Rows)
        /\ <<>> \in Seq(Entries) /\ Len(<<>>) = 0
    BY <1>1, EmptySeq
  <1>4. NoRequest \in Requests /\ NoRequest \in Writings
    BY <1>3 DEF NoRequest, Requests, Writings
  <1>5. NoDraw \in Drawings /\ NotLoading \in Preloads
    BY <1>3 DEF NoDraw, Drawings, NotLoading, Preloads
  <1>6. ToSet(queue_) = {queue_[i] : i \in 1 .. Len(queue_)}
    <2>1. DOMAIN queue_ = 1 .. Len(queue_)  BY <1>1, LenProperties DEF Typed
    <2>2. QED  BY <2>1 DEF ToSet
  <1>7. Unwritten \subseteq 1 .. posted
    <2>1. \A i \in 1 .. Len(queue_) : queue_[i] \in 1 .. posted
      BY SMTT(30), <1>1, Elements DEF Known, Post
    <2>2. writer.post \in 0 .. posted
      BY SMTT(30), <1>1, Elements DEF Known
    <2>3. \A w \in Workers : request[w].post \in 0 .. posted
      BY SMTT(30), <1>1, Elements DEF Known
    <2>4. posted \in Nat  BY <1>1, Elements
    <2>5. ASSUME NEW p \in Unwritten
          PROVE  p \in 1 .. posted
      <3>1. p # 0 /\ (p \in ToSet(queue_) \/ p = writer.post \/ \E w \in Workers : p = request[w].post)
        BY DEF Unwritten
      <3>2. p \in 0 .. posted
        BY <1>6, <2>1, <2>2, <2>3, <2>4, <3>1
      <3>3. QED  BY <2>4, <3>1, <3>2
    <2>6. QED  BY <2>5
  <1>8. Typed'
    <2>1. request' \in [Workers -> Requests]  BY <1>2, <1>4
    <2>2. lost' \subseteq 1 .. posted  BY <1>1, <1>2, <1>7 DEF Typed
    <2>3. ws' \in Seq(Entries) /\ queue_' \in Seq(Post) /\ writer' \in Writings
      BY <1>2, <1>3, <1>4
    <2>4. draw' \in Drawings /\ preload' \in Preloads  BY <1>2, <1>5
    <2>5. QED  BY <1>1, <1>2, <2>1, <2>2, <2>3, <2>4 DEF Typed
  <1>9. Known'
    <2>1. 0 <= posted  BY <1>1, Elements
    <2>2. QED  BY <1>1, <1>2, <1>3, <2>1 DEF Known, NoRequest
  <1>10. Sized'
    BY <1>1, <1>2, <1>3 DEF Sized, NoDraw, NotLoading
  <1>11. Seen'  BY <1>1, <1>2 DEF Seen
  <1>12. InLine'
    BY <1>1, <1>2, <1>3 DEF InLine, May, NoRequest
  <1>13. Held'
    BY <1>2 DEF Held, NoRequest
  <1>14. Secured'
    <2>1. ASSUME NEW p \in answered, ~(\E i \in 1 .. Len(table) : table[i].post = p), p \notin lost
          PROVE  p \in Unwritten
      <3>1. p # 0  BY <1>1, Elements DEF Typed
      <3>2. p \in ToSet(queue_) \/ p = writer.post
        BY <1>1, <1>6, <2>1 DEF Secured, OnLine
      <3>3. QED  BY <3>1, <3>2 DEF Unwritten
    <2>2. \A p \in answered : (\E i \in 1 .. Len(table) : table[i].post = p) \/ p \in lost'
      BY <1>2, <2>1
    <2>3. QED  BY <1>2, <1>3, <2>2 DEF Secured, OnLine
  <1>15. Unready' /\ Down'
    BY <1>2 DEF Unready, Down, NoRequest, NotLoading
  <1>16. Loading' /\ Loaded' /\ LiveLast' /\ WorksetInOrder'
    BY <1>2, <1>3 DEF Loading, Loaded, LiveLast, WorksetInOrder, NotLoading
  <1>17. QED
    BY <1>8, <1>9, <1>10, <1>11, <1>12, <1>13, <1>14, <1>15, <1>16 DEF ServiceInv

LEMMA StartKeepsInv ==
    ASSUME ServiceInv, Start
    PROVE  ServiceInv'
  <1>1. /\ Typed /\ Known /\ Sized /\ Seen /\ InLine /\ Held /\ Secured /\ Unready /\ Down
        /\ WorksetInOrder /\ MaxPosts \in Nat /\ MaxRuns \in Nat
    BY BoundsAssumption DEF ServiceInv
  <1>2. /\ process = "down" /\ runs < MaxRuns /\ process' = "up" /\ ready_' = FALSE
        /\ running_' = TRUE /\ writer' = [NoRequest EXCEPT !.pc = "look"]
        /\ preload' = [NotLoading EXCEPT !.pc = "query"]
        /\ runs' = runs + 1 /\ kept' = Len(table)
        /\ UNCHANGED <<ws, queue_, request, draw, table, posted, draws, book, before,
                       answered, lost>>
    BY DEF Start
  <1>3. /\ ~ready_ /\ ws = <<>> /\ queue_ = <<>> /\ writer.post = 0 /\ draw = NoDraw
        /\ \A w \in Workers : request[w].pc = "none"
    BY <1>1, <1>2 DEF Down, Unready
  <1>4. writer' = [pc |-> "look", post |-> 0]
    BY <1>2 DEF NoRequest
  <1>5. preload' = [pc |-> "query", found |-> <<>>, at |-> 0]
    BY <1>2 DEF NotLoading
  <1>6. Typed'
    <2>1. writer' \in Writings  BY <1>1, <1>4 DEF Writings
    <2>2. <<>> \in Seq(Rows)  BY EmptySeq
    <2>3. preload' \in Preloads  BY <1>5, <2>2 DEF Preloads
    <2>4. kept' \in 0 .. Len(table') /\ runs' \in 0 .. MaxRuns
      <3>1. Len(table) \in Nat /\ runs \in 0 .. MaxRuns  BY <1>1, Elements DEF Typed
      <3>2. QED  BY <1>1, <1>2, <3>1
    <2>5. QED  BY <1>1, <1>2, <2>1, <2>3, <2>4 DEF Typed
  <1>7. Known'
    <2>1. 0 <= posted  BY <1>1, Elements
    <2>2. QED  BY <1>1, <1>2, <1>4, <2>1 DEF Known
  <1>8. Sized'
    <2>1. Len(<<>>) = 0  BY EmptySeq
    <2>2. QED  BY <1>1, <1>2, <1>5, <2>1 DEF Sized
  <1>9. Seen' /\ Secured'
    BY <1>1, <1>2, <1>3, <1>4 DEF Seen, Secured, OnLine
  <1>10. InLine'
    BY <1>1, <1>2, <1>3, <1>4 DEF InLine, May
  <1>11. Held'
    BY <1>1, <1>2, <1>3 DEF Held
  <1>12. Unready' /\ Down'
    BY <1>2, <1>3, <1>4 DEF Unready, Down, NoDraw
  <1>13. Loading'
    BY <1>2, <1>3, <1>5 DEF Loading
  <1>14. Loaded' /\ LiveLast' /\ WorksetInOrder'
    <2>1. Len(<<>>) = 0  BY EmptySeq
    <2>2. QED  BY <1>1, <1>2, <1>3, <2>1 DEF Loaded, LiveLast, WorksetInOrder
  <1>15. QED
    BY <1>6, <1>7, <1>8, <1>9, <1>10, <1>11, <1>12, <1>13, <1>14 DEF ServiceInv

-----------------------------------------------------------------------------
\* The rows that the preload's query returns: the newest, oldest first.
LEMMA QueryIs ==
    ASSUME Typed, kept = Len(table)
    PROVE  /\ Query(Capacity, 0) \in Seq(Rows)
           /\ Len(Query(Capacity, 0)) = Expected /\ Expected \in 0 .. Capacity
           /\ \A i \in 1 .. Expected : Query(Capacity, 0)[i] = table[kept - Expected + i]
  <1>1. /\ table \in Seq(Rows) /\ Len(table) \in Nat /\ Capacity \in Nat \ {0}
    BY Elements DEF Typed
  <1>2. Len(table) - 0 = Len(table)  BY <1>1
  <1>3. SubSeq(table, 1, Len(table) - 0) = table  BY <1>1, <1>2, SubSeqFull
  <1>4. Query(Capacity, 0) = LastOf(table, Capacity)  BY <1>3 DEF Query
  <1>5. Capacity \in Nat  BY <1>1
  <1>6. /\ LastOf(table, Capacity) \in Seq(Rows)
        /\ Len(LastOf(table, Capacity)) = IF Len(table) > Capacity THEN Capacity ELSE Len(table)
        /\ \A i \in 1 .. Len(LastOf(table, Capacity)) :
              LastOf(table, Capacity)[i] = table[Len(table) - Len(LastOf(table, Capacity)) + i]
    BY <1>1, <1>5, LastOfIs, Zenon
  <1>7. Expected = (IF Len(table) > Capacity THEN Capacity ELSE Len(table)) /\ Expected \in 0 .. Capacity
    BY <1>1 DEF Expected
  <1>8. Len(LastOf(table, Capacity)) = Expected  BY <1>6, <1>7
  <1>9. \A i \in 1 .. Expected : LastOf(table, Capacity)[i] = table[kept - Expected + i]
    BY <1>6, <1>8
  <1>10. QED  BY <1>4, <1>6, <1>7, <1>8, <1>9

\* Steps of the preload move no post of a request.
LEMMA PreloadStep ==
    ASSUME ServiceInv, process # "down", preload.pc # "none",
           UNCHANGED <<process, queue_, running_, writer, request, table, history>>,
           ready_' \in BOOLEAN, ws' \in Seq(Entries), draw' = draw, preload' \in Preloads,
           Len(ws') <= Capacity, preload'.at <= Len(preload'.found),
           \A i \in 1 .. Len(ws') : ws'[i].post <= posted,
           Loading', Loaded', LiveLast', WorksetInOrder'
    PROVE  ServiceInv'
  <1>1. /\ Typed /\ Known /\ Sized /\ Seen /\ InLine /\ Held /\ Secured /\ Unready /\ Down
        /\ ~ready_
    BY DEF ServiceInv, Loading
  <1>2. UNCHANGED <<posted, draws, runs, book, before, answered, lost, kept>>
    BY DEF history
  <1>3. Typed'  BY <1>1, <1>2 DEF Typed
  <1>4. Known'  BY <1>1, <1>2 DEF Known
  <1>5. draw = NoDraw  BY <1>1 DEF Unready
  <1>6. Sized'
    <2>1. Len(ws') \in Nat  BY LenProperties
    <2>2. draw.index = 0 /\ Len(draw.copied) <= draw.x /\ draw.copied = <<>>
      BY <1>1, <1>5 DEF NoDraw, Sized
    <2>3. QED  BY <2>1, <2>2 DEF Sized
  <1>7. Seen' /\ InLine'  BY <1>1, <1>2 DEF Seen, InLine, May
  <1>8. Held' /\ Secured'  BY <1>1, <1>2 DEF Held, Secured, OnLine
  <1>9. Unready' /\ Down'  BY <1>1 DEF Unready, Down
  <1>10. QED  BY <1>3, <1>4, <1>6, <1>7, <1>8, <1>9 DEF ServiceInv

LEMMA PreloadQueryKeepsInv ==
    ASSUME ServiceInv, PreloadQuery
    PROVE  ServiceInv'
  <1> DEFINE found == Query(Capacity, 0)
  <1>1. Typed /\ Known /\ Sized /\ Loading /\ LiveLast /\ WorksetInOrder /\ Unready
    BY DEF ServiceInv
  <1>2. /\ process # "down" /\ preload.pc = "query"
        /\ preload' = [pc |-> IF found = <<>> THEN "none" ELSE "push",
                       found |-> found, at |-> 0]
        /\ ready_' = (ready_ \/ found = <<>>)
        /\ UNCHANGED <<process, ws, queue_, running_, writer, request, draw, table, history>>
    BY DEF PreloadQuery, Alive
  <1>3. ~ready_ /\ kept = Len(table) /\ ws = <<>> /\ Len(ws) = 0 /\ kept \in Nat
    <2>1. ~ready_ /\ kept = Len(table) /\ ws = <<>>  BY <1>1, <1>2 DEF Loading
    <2>2. QED  BY <1>1, <2>1, EmptySeq, Elements
  <1>4. /\ found \in Seq(Rows) /\ Len(found) = Expected /\ Expected \in 0 .. Capacity
        /\ \A i \in 1 .. Expected : found[i] = table[kept - Expected + i]
    BY <1>1, <1>3, QueryIs
  <1>5. Capacity \in Nat  BY <1>1, Elements
  <1> HIDE DEF found
  <1>6. found = <<>> <=> Expected = 0
    BY <1>4, EmptySeq
  <1>7. ready_' \in BOOLEAN /\ preload' \in Preloads /\ preload'.at <= Len(preload'.found)
    BY <1>2, <1>3, <1>4, <1>5 DEF Preloads
  <1>8. kept' = kept /\ before' = before /\ Expected' = Expected
    BY <1>2 DEF history, Expected
  <1>9. Loading'
    <2>1. CASE found = <<>>
      <3>1. preload'.pc = "none"  BY <1>2, <2>1
      <3>2. QED  BY <3>1 DEF Loading
    <2>2. CASE found # <<>>
      <3>1. preload' = [pc |-> "push", found |-> found, at |-> 0] /\ ~ready_'
        BY <1>2, <1>3, <2>2
      <3>2. 0 < Expected  BY <1>4, <1>5, <1>6, <2>2
      <3>3. \A i \in 1 .. Len(ws) : FALSE  BY <1>3
      <3>4. QED  BY <1>2, <1>3, <1>4, <1>8, <3>1, <3>2, <3>3 DEF Loading
    <2>3. QED  BY <2>1, <2>2
  <1>10. Loaded'
    <2>1. CASE found = <<>>
      BY <1>2, <1>3, <1>6, <1>8, <2>1 DEF Loaded
    <2>2. CASE found # <<>>
      BY <1>2, <1>3, <2>2 DEF Loaded
    <2>3. QED  BY <2>1, <2>2
  <1>11. LiveLast' /\ WorksetInOrder'
    BY <1>1, <1>2, <1>8 DEF LiveLast, WorksetInOrder
  <1>12. /\ ws' \in Seq(Entries) /\ Len(ws') <= Capacity /\ draw' = draw
         /\ \A i \in 1 .. Len(ws') : ws'[i].post <= posted
    BY <1>1, <1>2 DEF Typed, Sized, Known
  <1>13. QED
    BY <1>2, <1>7, <1>9, <1>10, <1>11, <1>12, PreloadStep

LEMMA PreloadSpinsKeepsInv ==
    ASSUME ServiceInv, PreloadSpins
    PROVE  ServiceInv'
  <1>1. Typed /\ Known /\ Sized /\ Loading /\ Loaded /\ LiveLast /\ WorksetInOrder /\ Unready
    BY DEF ServiceInv
  <1>2. /\ process # "down" /\ preload.pc = "query"
        /\ preload' = [preload EXCEPT !.pc = "spin"]
        /\ UNCHANGED <<process, ready_, ws, queue_, running_, writer, request, draw, table,
                       history>>
    BY DEF PreloadSpins, Alive
  <1>3. preload' \in Preloads /\ preload'.pc = "spin" /\ preload'.at <= Len(preload'.found)
    BY <1>1, <1>2 DEF Typed, Sized, Preloads
  <1>4. kept' = kept /\ before' = before /\ Expected' = Expected
    BY <1>2 DEF history, Expected
  <1>5. Loading' /\ Loaded'  BY <1>1, <1>2, <1>3, <1>4 DEF Loading, Loaded
  <1>6. LiveLast' /\ WorksetInOrder'  BY <1>1, <1>2, <1>4 DEF LiveLast, WorksetInOrder
  <1>7. /\ ready_' \in BOOLEAN /\ ws' \in Seq(Entries) /\ Len(ws') <= Capacity
        /\ \A i \in 1 .. Len(ws') : ws'[i].post <= posted
    BY <1>1, <1>2 DEF Typed, Sized, Known
  <1>8. QED
    BY <1>2, <1>3, <1>5, <1>6, <1>7, PreloadStep

LEMMA PreloadPushKeepsInv ==
    ASSUME ServiceInv, PreloadPush
    PROVE  ServiceInv'
  <1> DEFINE n == preload.at + 1
             row == preload.found[n]
             last == n = Len(preload.found)
  <1>1. Typed /\ Known /\ Sized /\ InLine /\ Loading /\ Unready
    BY DEF ServiceInv
  <1>2. /\ process # "down" /\ preload.pc = "push" /\ Push(row.post, FALSE)
        /\ preload' = [preload EXCEPT !.at = @ + 1, !.pc = IF last THEN "none" ELSE "push"]
        /\ ready_' = (ready_ \/ last)
        /\ UNCHANGED <<process, queue_, running_, writer, request, table, history>>
    BY DEF PreloadPush, Alive
  <1>3. /\ ~ready_ /\ kept = Len(table)
        /\ Len(preload.found) = Expected
        /\ \A i \in 1 .. Expected : preload.found[i] = table[kept - Expected + i]
        /\ preload.at < Expected /\ Len(ws) = preload.at
        /\ \A i \in 1 .. Len(ws) : ws[i].post = preload.found[i].post /\ ~ws[i].live
    BY <1>1, <1>2 DEF Loading
  <1>4. /\ preload.at \in Nat /\ Capacity \in Nat \ {0} /\ kept \in Nat /\ Len(table) \in Nat
        /\ \A i \in 1 .. Len(table) : table[i].post \in Post
    BY <1>1, Elements
  <1>5. Expected \in Nat /\ Expected <= Capacity /\ Expected <= kept /\ Expected' = Expected
    BY <1>2, <1>4 DEF Expected, history
  <1>6. n \in 1 .. Expected /\ n \in Nat /\ kept - Expected + n \in 1 .. Len(table)
    BY <1>3, <1>4, <1>5
  <1>7. row = table[kept - Expected + n] /\ row.post \in Post /\ row.post <= posted
    BY <1>1, <1>3, <1>4, <1>6 DEF Known
  <1>8. /\ ws' \in Seq(Entries)
        /\ Len(ws') = IF Len(ws) = Capacity THEN Capacity ELSE Len(ws) + 1
        /\ ws'[Len(ws')] = [post |-> row.post, live |-> FALSE]
        /\ \A i \in 1 .. Len(ws') - 1 :
              /\ ws'[i] = ws[Len(ws) + 1 - Len(ws') + i]
              /\ Len(ws) + 1 - Len(ws') + i \in 1 .. Len(ws)
        /\ draw.index = 0 => draw' = draw
    <2> HIDE DEF row
    <2>1. QED  BY <1>1, <1>2, <1>7, PushIs
  <1>9. draw' = draw
    BY <1>1, <1>3, <1>8 DEF Unready, NoDraw
  <1>10. Len(ws') = n
    BY <1>3, <1>4, <1>5, <1>8
  <1>11. ws'[n].post = row.post /\ ~ws'[n].live
    BY <1>8, <1>10
  <1>12. ASSUME NEW i \in 1 .. n - 1
         PROVE  i \in 1 .. Len(ws) /\ ws'[i] = ws[i]
    <2>1. Len(ws) + 1 - Len(ws') + i = i /\ i \in 1 .. Len(ws)
      BY <1>3, <1>4, <1>6, <1>10
    <2>2. QED  BY <1>8, <1>10, <2>1
  <1>13. \A i \in 1 .. n : i = n \/ i \in 1 .. n - 1
    BY <1>6
  <1>14. \A i \in 1 .. n : ws'[i].post = preload.found[i].post /\ ~ws'[i].live
    BY <1>3, <1>11, <1>12, <1>13
  <1>15. \A i \in 1 .. n : i \in 1 .. Expected /\ preload.found[i] = table[kept - Expected + i]
    BY <1>3, <1>5, <1>6
  <1>16. /\ preload' \in Preloads /\ preload'.at = n /\ preload'.found = preload.found
         /\ preload'.pc = IF last THEN "none" ELSE "push"
    <2> DEFINE to == IF last THEN "none" ELSE "push"
    <2>1. to \in {"none", "query", "spin", "push"} /\ preload' = [preload EXCEPT !.at = preload.at + 1, !.pc = to]
      BY <1>2
    <2>2. preload \in Preloads /\ preload.at + 1 \in Nat  BY <1>1, <1>4 DEF Typed
    <2> HIDE DEF to
    <2>3. /\ preload' \in Preloads /\ preload'.at = preload.at + 1 /\ preload'.found = preload.found
          /\ preload'.pc = to
      BY <2>1, <2>2 DEF Preloads
    <2>4. QED  BY <2>3 DEF to
  <1>17. kept' = kept /\ before' = before /\ table' = table
    BY <1>2 DEF history
  <1> HIDE DEF n, row
  <1>18. Loading'
    <2>1. CASE last
      <3>1. preload'.pc = "none"  BY <1>16, <2>1
      <3>2. QED  BY <3>1 DEF Loading
    <2>2. CASE ~last
      <3>1. ~ready_' /\ preload'.pc = "push"  BY <1>2, <1>3, <1>16, <2>2
      <3>2. n < Expected  BY <1>3, <1>5, <1>6, <2>2
      <3>3. QED  BY <1>3, <1>5, <1>10, <1>14, <1>16, <1>17, <3>1, <3>2 DEF Loading
    <2>3. QED  BY <2>1, <2>2
  <1>19. Loaded'
    <2>1. CASE last
      <3>1. Len(ws') = Expected  BY <1>3, <1>10, <2>1
      <3>2. \A i \in 1 .. Len(ws') : ws'[i].post = table[kept - Expected + i].post /\ ~ws'[i].live
        BY <1>10, <1>14, <1>15
      <3>3. QED  BY <1>5, <1>17, <3>1, <3>2 DEF Loaded
    <2>2. CASE ~last
      BY <1>2, <1>3, <2>2 DEF Loaded
    <2>3. QED  BY <2>1, <2>2
  <1>20. LiveLast'
    BY <1>10, <1>14 DEF LiveLast
  <1>21. WorksetInOrder'
    <2>1. ASSUME NEW i \in 1 .. n, NEW j \in 1 .. n, i < j
          PROVE  ws'[j].post \notin before[ws'[i].post]
      <3>1. ws'[i].post = table[kept - Expected + i].post /\ ws'[j].post = table[kept - Expected + j].post
        BY <1>14, <1>15
      <3>2. /\ kept - Expected + i \in 1 .. Len(table) /\ kept - Expected + j \in 1 .. Len(table)
            /\ kept - Expected + i < kept - Expected + j
        BY SMTT(30), <1>3, <1>4, <1>5, <1>6, <2>1
      <3>3. May(table[kept - Expected + i].post, table[kept - Expected + j].post)
        BY <1>1, <3>2 DEF InLine
      <3>4. QED  BY <3>1, <3>3 DEF May
    <2>2. QED  BY <1>10, <1>17, <2>1 DEF WorksetInOrder
  <1>22. ready_' \in BOOLEAN  BY <1>2, <1>3
  <1>23. Len(ws') <= Capacity /\ preload'.at <= Len(preload'.found)
    BY <1>3, <1>4, <1>5, <1>6, <1>10, <1>16
  <1>24. \A i \in 1 .. Len(ws') : ws'[i].post <= posted
    <2>1. \A i \in 1 .. Len(ws) : ws[i].post <= posted  BY <1>1 DEF Known
    <2>2. QED  BY <1>7, <1>10, <1>11, <1>12, <1>13, <2>1
  <1>25. preload.pc # "none"  BY <1>2
  <1>26. QED
    BY <1>2, <1>8, <1>9, <1>16, <1>18, <1>19, <1>20, <1>21, <1>22, <1>23, <1>24, <1>25,
       PreloadStep

-----------------------------------------------------------------------------
\* A request is received: its post is new, and what has been answered was
\* answered before it.
LEMMA ReceiveKeepsInv ==
    ASSUME ServiceInv, NEW w \in Workers, Receive(w)
    PROVE  ServiceInv'
  <1> DEFINE p == posted + 1
  <1>1. /\ Typed /\ Known /\ Sized /\ Seen /\ InLine /\ Held /\ Secured /\ Unready /\ Loading
        /\ Loaded /\ LiveLast /\ WorksetInOrder
    BY DEF ServiceInv
  <1>2. /\ process = "up" /\ ready_ /\ request[w].pc = "none" /\ posted < MaxPosts
        /\ posted' = p /\ request' = [request EXCEPT ![w] = [pc |-> "queue", post |-> p]]
        /\ before' = Append(before, answered)
        /\ UNCHANGED <<process, ready_, ws, queue_, running_, writer, draw, preload, table,
                       draws, runs, answered, lost, kept>>
    BY DEF Receive
  <1>3. PICK b \in Books : book' = Append(book, b)
    BY DEF Receive
  <1>4. posted \in Nat /\ p \in Post /\ MaxPosts \in Nat
    BY SMTT(30), <1>1, <1>2, Elements DEF Post
  <1>5. book' \in Seq(Books) /\ Len(book') = p
    BY <1>1, <1>3, AppendIs DEF Typed
  <1>6. answered \in SUBSET Post
    BY <1>1, <1>4 DEF Typed, Post
  <1>7. before \in Seq(SUBSET Post) /\ Len(before) = posted
    BY <1>1 DEF Typed
  <1>8. /\ before' \in Seq(SUBSET Post) /\ Len(before') = p /\ before'[p] = answered
        /\ \A q \in 1 .. posted : before'[q] = before[q]
    <2>1. /\ Append(before, answered) \in Seq(SUBSET Post)
          /\ Len(Append(before, answered)) = Len(before) + 1
          /\ Append(before, answered)[Len(before) + 1] = answered
          /\ \A q \in 1 .. Len(before) : Append(before, answered)[q] = before[q]
      <3> DEFINE S == SUBSET Post
      <3>1. before \in Seq(S) /\ answered \in S  BY <1>6, <1>7
      <3> HIDE DEF S
      <3>2. /\ Append(before, answered) \in Seq(S)
            /\ Len(Append(before, answered)) = Len(before) + 1
            /\ Append(before, answered)[Len(before) + 1] = answered
            /\ \A q \in 1 .. Len(before) : Append(before, answered)[q] = before[q]
        BY <3>1, AppendIs
      <3>3. QED  BY <3>2 DEF S
    <2>2. QED  BY <1>2, <1>7, <2>1
  <1>9. \A v \in Workers : request'[v] = IF v = w THEN [pc |-> "queue", post |-> p] ELSE request[v]
    BY <1>1, <1>2 DEF Typed
  <1>10. request' \in [Workers -> Requests]
    <2>1. [pc |-> "queue", post |-> p] \in Requests  BY <1>4 DEF Requests, Post
    <2>2. QED  BY <1>1, <1>2, <2>1 DEF Typed
  <1> HIDE DEF p
  <1>11. /\ 1 .. posted \subseteq 1 .. p /\ p \notin 1 .. posted /\ p # 0
         /\ \A q \in 1 .. p : q = p \/ q \in 1 .. posted
         /\ p \in 0 .. MaxPosts /\ \A q \in 0 .. posted : q <= p /\ q # p
         /\ \A q \in 1 .. posted : q \in 0 .. posted /\ q <= p
         /\ p \in Nat
    BY <1>4 DEF p, Post
  <1>12. /\ \A i \in 1 .. Len(ws) : ws[i].post \in 1 .. posted
         /\ \A i \in 1 .. Len(queue_) : queue_[i] \in 1 .. posted
         /\ \A i \in 1 .. Len(table) : table[i].post \in 1 .. posted
         /\ writer.post \in 0 .. posted
         /\ \A v \in Workers : request[v].post \in 0 .. posted
    <2>1. \A i \in 1 .. Len(ws) : ws[i].post \in 1 .. posted
      BY SMTT(30), <1>1, <1>4, Elements DEF Known, Post
    <2>2. \A i \in 1 .. Len(queue_) : queue_[i] \in 1 .. posted
      BY SMTT(30), <1>1, <1>4, Elements DEF Known, Post
    <2>3. \A i \in 1 .. Len(table) : table[i].post \in 1 .. posted
      BY SMTT(30), <1>1, <1>4, Elements DEF Known, Post
    <2>4. writer.post \in 0 .. posted
      BY SMTT(30), <1>1, <1>4, Elements DEF Known, Post
    <2>5. \A v \in Workers : request[v].post \in 0 .. posted
      BY SMTT(30), <1>1, <1>4, Elements DEF Known, Post
    <2>6. QED  BY <2>1, <2>2, <2>3, <2>4, <2>5
  <1>13. Typed'
    <2>1. answered \subseteq 1 .. p /\ lost \subseteq 1 .. p  BY <1>1, <1>11 DEF Typed
    <2>2. QED  BY <1>1, <1>2, <1>5, <1>8, <1>10, <1>11, <2>1 DEF Typed
  <1>14. Known'
    <2>1. \A v \in Workers : request'[v].post <= p
      <3>1. ASSUME NEW v \in Workers
            PROVE  request'[v].post <= p
        <4>1. CASE v = w
          <5>1. request'[v].post = p  BY <1>9, <4>1
          <5>2. QED  BY <1>11, <5>1
        <4>2. CASE v # w  BY <1>9, <1>11, <1>12, <4>2
        <4>3. QED  BY <4>1, <4>2
      <3>2. QED  BY <3>1
    <2>2. writer.post <= p  BY <1>11, <1>12
    <2>3. \A i \in 1 .. Len(ws) : ws[i].post <= p  BY <1>11, <1>12
    <2>4. \A i \in 1 .. Len(queue_) : queue_[i] <= p  BY <1>11, <1>12
    <2>5. \A i \in 1 .. Len(table) : table[i].post <= p  BY <1>11, <1>12
    <2>6. QED  BY <1>2, <2>1, <2>2, <2>3, <2>4, <2>5 DEF Known
  <1>15. Sized'  BY <1>1, <1>2 DEF Sized
  <1>16. Seen'
    BY <1>1, <1>2, <1>8, <1>11 DEF Seen
  <1>18. InLine'
    <2>1. writer.post # 0 => writer.post \in 1 .. posted
      BY <1>4, <1>12
    <2>2. \A i, j \in 1 .. Len(table) : i < j => May(table[i].post, table[j].post)'
      BY <1>1, <1>2, <1>8, <1>12 DEF InLine, May
    <2>3. \A i, j \in 1 .. Len(queue_) : i < j => May(queue_[i], queue_[j])'
      BY <1>1, <1>2, <1>8, <1>12 DEF InLine, May
    <2>4. \A i \in 1 .. Len(table) : \A j \in 1 .. Len(queue_) : May(table[i].post, queue_[j])'
      BY <1>1, <1>2, <1>8, <1>12 DEF InLine, May
    <2>5. writer.post # 0 =>
             /\ \A i \in 1 .. Len(table) : May(table[i].post, writer.post)'
             /\ \A j \in 1 .. Len(queue_) : May(writer.post, queue_[j])'
      BY <1>1, <1>2, <1>8, <1>12, <2>1 DEF InLine, May
    <2>6. QED  BY <1>1, <1>2, <2>2, <2>3, <2>4, <2>5 DEF InLine, May
  <1>19. Held'
    <2>1. ~OnLine(p)
      BY <1>11, <1>12, <1>4 DEF OnLine
    <2>2. p \notin answered /\ p \notin lost
      BY <1>1, <1>11 DEF Typed
    <2>3. \A v \in Workers : request[v].post # p
      BY <1>4, <1>11, <1>12
    <2>4. \A q : OnLine(q)' <=> OnLine(q)
      BY <1>2 DEF OnLine
    <2>5. ASSUME NEW v \in Workers
          PROVE  IF request'[v].pc = "none" THEN request'[v].post = 0
                 ELSE /\ request'[v].post # 0
                      /\ request'[v].post \notin answered /\ request'[v].post \notin lost
                      /\ request'[v].pc = "push" <=> OnLine(request'[v].post)
                      /\ \A u \in Workers : u # v => request'[u].post # request'[v].post
      <3>1. CASE v = w
        <4>1. request'[v] = [pc |-> "queue", post |-> p]  BY <1>9, <3>1
        <4>2. \A u \in Workers : u # v => request'[u].post # p  BY <1>9, <2>3, <3>1
        <4>3. QED  BY <1>11, <2>1, <2>2, <4>1, <4>2
      <3>2. CASE v # w
        <4>1. request'[v] = request[v]  BY <1>9, <3>2
        <4>2. \A u \in Workers : u # v =>
                 request'[u].post = request[u].post \/ request'[u].post = p
          BY <1>9
        <4>3. QED  BY <1>1, <2>3, <4>1, <4>2 DEF Held
      <3>3. QED  BY <3>1, <3>2
    <2>6. QED  BY <1>2, <2>4, <2>5 DEF Held
  <1>20. Secured'  BY <1>1, <1>2 DEF Secured, OnLine
  <1>21. Unready' /\ Down'  BY <1>2 DEF Unready, Down
  <1>22. Loading' /\ Loaded' /\ LiveLast'
    BY <1>1, <1>2 DEF Loading, Loaded, LiveLast, Expected
  <1>23. WorksetInOrder'
    BY <1>1, <1>2, <1>8, <1>12 DEF WorksetInOrder
  <1>24. QED
    BY <1>13, <1>14, <1>15, <1>16, <1>18, <1>19, <1>20, <1>21, <1>22, <1>23 DEF ServiceInv

-----------------------------------------------------------------------------
\* A post that a worker holds may come after any other.
LEMMA HeldMayComeLast ==
    ASSUME ServiceInv, NEW w \in Workers, request[w].pc # "none"
    PROVE  /\ request[w].post \in Post /\ request[w].post <= posted
           /\ request[w].post # 0 /\ ready_
           /\ request[w].post \notin answered /\ request[w].post \notin lost
           /\ request[w].pc = "push" <=> OnLine(request[w].post)
           /\ \A a \in 1 .. posted : request[w].post \notin before[a]
           /\ \A i \in 1 .. Len(ws) : ws[i].post \in 1 .. posted
           /\ \A i \in 1 .. Len(queue_) : queue_[i] \in 1 .. posted
           /\ \A i \in 1 .. Len(table) : table[i].post \in 1 .. posted
           /\ writer.post \in 0 .. posted /\ posted \in Nat
  <1>1. Typed /\ Known /\ Held /\ Seen /\ Unready
    BY DEF ServiceInv
  <1>2. /\ \A i \in 1 .. Len(ws) : ws[i].post \in 1 .. posted
        /\ \A i \in 1 .. Len(queue_) : queue_[i] \in 1 .. posted
        /\ \A i \in 1 .. Len(table) : table[i].post \in 1 .. posted
        /\ writer.post \in 0 .. posted /\ posted \in Nat
    <2>1. posted \in Nat /\ writer.post \in 0 .. posted
      BY SMTT(30), <1>1, Elements DEF Known
    <2>2. \A i \in 1 .. Len(ws) : ws[i].post \in 1 .. posted
      BY SMTT(30), <1>1, Elements DEF Known, Post
    <2>3. \A i \in 1 .. Len(queue_) : queue_[i] \in 1 .. posted
      BY SMTT(30), <1>1, Elements DEF Known, Post
    <2>4. \A i \in 1 .. Len(table) : table[i].post \in 1 .. posted
      BY SMTT(30), <1>1, Elements DEF Known, Post
    <2>5. QED  BY <2>1, <2>2, <2>3, <2>4
  <1>3. /\ request[w].post # 0
        /\ request[w].post \notin answered /\ request[w].post \notin lost
        /\ request[w].pc = "push" <=> OnLine(request[w].post)
    BY <1>1 DEF Held
  <1>4. request[w].post \in 0 .. MaxPosts /\ request[w].post <= posted /\ MaxPosts \in Nat
    BY SMTT(30), <1>1, Elements DEF Known
  <1>5. request[w].post \in Post  BY <1>3, <1>4 DEF Post
  <1>6. ready_  BY <1>1 DEF Unready, Typed
  <1>7. \A a \in 1 .. posted : request[w].post \notin before[a]
    BY <1>1, <1>3 DEF Seen
  <1>8. QED  BY <1>2, <1>3, <1>4, <1>5, <1>6, <1>7

\* The book goes to the end of the line.
LEMMA EnqueueKeepsInv ==
    ASSUME ServiceInv, NEW w \in Workers, Enqueue(w)
    PROVE  ServiceInv'
  <1> DEFINE n == Len(queue_)
  <1>0. PICK p : p = request[w].post  OBVIOUS
  <1>1. /\ Typed /\ Known /\ Sized /\ Seen /\ InLine /\ Held /\ Secured /\ Unready /\ Down
        /\ Loading /\ Loaded /\ LiveLast /\ WorksetInOrder
    BY DEF ServiceInv
  <1>2. /\ process # "down" /\ request[w].pc = "queue"
        /\ queue_' = Append(queue_, p) /\ request' = [request EXCEPT ![w].pc = "push"]
        /\ UNCHANGED <<process, ready_, ws, running_, writer, draw, preload, table, posted,
                       draws, runs, book, before, answered, lost, kept>>
    BY <1>0 DEF Enqueue, history
  <1>3. /\ p \in Post /\ p <= posted /\ p # 0 /\ ready_ /\ p \notin answered /\ p \notin lost
        /\ ~OnLine(p) /\ \A a \in 1 .. posted : p \notin before[a]
        /\ \A i \in 1 .. n : queue_[i] \in 1 .. posted
        /\ \A i \in 1 .. Len(table) : table[i].post \in 1 .. posted
        /\ writer.post \in 0 .. posted /\ posted \in Nat
    BY <1>0, <1>2, HeldMayComeLast
  <1>4. queue_ \in Seq(Post)  BY <1>1 DEF Typed
  <1>5. \A v \in Workers : request'[v] = IF v = w THEN [request[w] EXCEPT !.pc = "push"] ELSE request[v]
    BY <1>1, <1>2 DEF Typed
  <1>6. [request[w] EXCEPT !.pc = "push"] = [pc |-> "push", post |-> p]
    BY <1>0, <1>1 DEF Typed, Requests
  <1>7. request' \in [Workers -> Requests]
    BY <1>1, <1>2 DEF Typed, Requests
  <1> HIDE DEF n
  <1>8. /\ queue_' \in Seq(Post) /\ Len(queue_') = n + 1 /\ queue_'[n + 1] = p
        /\ \A i \in 1 .. n : queue_'[i] = queue_[i]
        /\ n \in Nat /\ \A i \in 1 .. n + 1 : i = n + 1 \/ i \in 1 .. n
    BY <1>2, <1>3, <1>4, AppendIs DEF n
  <1>9. 1 .. n \subseteq 1 .. n + 1 /\ n + 1 \in 1 .. n + 1
        /\ \A i \in 1 .. n : i < n + 1 /\ ~(n + 1 < i) /\ ~(n + 1 < n + 1)
    BY <1>8
  <1>10. \A v \in Workers : request'[v].post = request[v].post
    BY <1>0, <1>5, <1>6
  <1>11. Typed'  BY <1>1, <1>2, <1>7, <1>8 DEF Typed
  <1>12. Known'
    <2>1. \A i \in 1 .. n + 1 : queue_'[i] <= posted
      BY <1>1, <1>3, <1>8 DEF Known, n
    <2>2. QED  BY <1>1, <1>2, <1>8, <1>10, <2>1 DEF Known
  <1>13. Sized' /\ Seen'  BY <1>1, <1>2 DEF Sized, Seen
  <1>14. /\ \A i \in 1 .. Len(table) : May(table[i].post, p)
         /\ \A i \in 1 .. n : May(queue_[i], p)
         /\ writer.post # 0 => May(writer.post, p)
    <2>1. /\ \A i \in 1 .. Len(table) : table[i].post # p
          /\ \A i \in 1 .. n : queue_[i] # p
          /\ writer.post # p
      BY <1>3 DEF OnLine, n
    <2>2. writer.post # 0 => writer.post \in 1 .. posted  BY <1>3
    <2>3. QED  BY <1>3, <2>1, <2>2 DEF May
  <1>15. InLine'
    <2>1. ASSUME NEW i \in 1 .. n + 1, NEW j \in 1 .. n + 1, i < j
          PROVE  May(queue_'[i], queue_'[j])
      <3>1. i \in 1 .. n /\ queue_'[i] = queue_[i]  BY <1>8, <1>9, <2>1
      <3>2. CASE j = n + 1
        BY <1>8, <1>14, <3>1, <3>2
      <3>3. CASE j \in 1 .. n
        BY <1>1, <1>8, <2>1, <3>1, <3>3 DEF InLine, n
      <3>4. QED  BY <1>8, <3>2, <3>3
    <2>2. ASSUME NEW i \in 1 .. Len(table), NEW j \in 1 .. n + 1
          PROVE  May(table[i].post, queue_'[j])
      BY <1>1, <1>8, <1>14 DEF InLine, n
    <2>3. ASSUME writer.post # 0, NEW j \in 1 .. n + 1
          PROVE  May(writer.post, queue_'[j])
      BY <1>1, <1>8, <1>14, <2>3 DEF InLine, n
    <2>4. QED  BY <1>1, <1>2, <1>8, <2>1, <2>2, <2>3 DEF InLine, May
  <1>16. \A q : OnLine(q)' <=> OnLine(q) \/ q = p
    <2>1. ASSUME NEW q
          PROVE  (\E i \in 1 .. n + 1 : queue_'[i] = q) <=> (\E i \in 1 .. n : queue_[i] = q) \/ q = p
      BY <1>8, <1>9
    <2>2. QED  BY <1>2, <1>8, <2>1 DEF OnLine, n
  <1>17. Held'
    <2>1. ASSUME NEW v \in Workers
          PROVE  IF request'[v].pc = "none" THEN request'[v].post = 0
                 ELSE /\ request'[v].post # 0
                      /\ request'[v].post \notin answered /\ request'[v].post \notin lost
                      /\ request'[v].pc = "push" <=> OnLine(request[v].post)'
                      /\ \A u \in Workers : u # v => request'[u].post # request'[v].post
      <3>1. CASE v = w
        <4>1. request'[v].pc = "push" /\ request'[v].post = p  BY <1>5, <1>6, <3>1
        <4>2. \A u \in Workers : u # v => request[u].post # p
          BY <1>0, <1>1, <1>2, <3>1 DEF Held
        <4>3. OnLine(p)'  BY <1>16
        <4>4. QED  BY <1>3, <1>10, <4>1, <4>2, <4>3
      <3>2. CASE v # w
        <4>1. request'[v] = request[v]  BY <1>5, <3>2
        <4>2. request[v].pc # "none" => request[v].post # p
          BY <1>0, <1>1, <1>2, <3>2 DEF Held
        <4>3. request[v].pc # "none" => (OnLine(request[v].post)' <=> OnLine(request[v].post))
          BY <1>16, <4>1, <4>2
        <4>4. QED  BY <1>1, <1>10, <4>1, <4>3 DEF Held
      <3>3. QED  BY <3>1, <3>2
    <2>2. QED  BY <1>2, <2>1 DEF Held
  <1>18. Secured'
    <2>1. \A q \in answered : OnLine(q)' \/ q \in lost  BY <1>1, <1>16 DEF Secured
    <2>2. \A i \in 1 .. n + 1 : queue_'[i] \notin lost
      BY <1>1, <1>3, <1>8 DEF Secured, n
    <2>3. QED  BY <1>2, <1>8, <2>1, <2>2 DEF Secured
  <1>19. Unready' /\ Down'  BY <1>1, <1>2, <1>3 DEF Unready, Down
  <1>20. Loading' /\ Loaded' /\ LiveLast' /\ WorksetInOrder'
    BY <1>1, <1>2 DEF Loading, Loaded, LiveLast, WorksetInOrder, Expected
  <1>21. QED
    BY <1>11, <1>12, <1>13, <1>15, <1>17, <1>18, <1>19, <1>20 DEF ServiceInv

\* The book goes to the end of the workset, and its post is answered.
LEMMA PushLiveKeepsInv ==
    ASSUME ServiceInv, NEW w \in Workers, PushLive(w)
    PROVE  ServiceInv'
  <1> DEFINE m == Len(ws')
  <1>0. PICK p : p = request[w].post  OBVIOUS
  <1>1. /\ Typed /\ Known /\ Sized /\ Seen /\ InLine /\ Held /\ Secured /\ Unready /\ Down
        /\ Loading /\ Loaded /\ LiveLast /\ WorksetInOrder
    BY DEF ServiceInv
  <1>2. /\ process # "down" /\ request[w].pc = "push" /\ Push(p, TRUE)
        /\ answered' = answered \cup {p} /\ request' = [request EXCEPT ![w] = NoRequest]
        /\ UNCHANGED <<process, ready_, queue_, running_, writer, preload, table,
                       posted, draws, runs, book, before, lost, kept>>
    BY <1>0 DEF PushLive
  <1>3. /\ p \in Post /\ p <= posted /\ p # 0 /\ ready_ /\ p \notin answered /\ p \notin lost
        /\ OnLine(p) /\ \A a \in 1 .. posted : p \notin before[a]
        /\ \A i \in 1 .. Len(ws) : ws[i].post \in 1 .. posted /\ posted \in Nat
    BY <1>0, <1>2, HeldMayComeLast
  <1>4. posted \in Nat /\ Capacity \in Nat \ {0}  BY <1>1, Elements
  <1>5. /\ ws' \in Seq(Entries) /\ Len(ws) \in Nat
        /\ m = IF Len(ws) = Capacity THEN Capacity ELSE Len(ws) + 1
        /\ ws'[m] = [post |-> p, live |-> TRUE]
        /\ \A i \in 1 .. m - 1 : /\ ws'[i] = ws[Len(ws) + 1 - m + i]
                                 /\ Len(ws) + 1 - m + i \in 1 .. Len(ws)
        /\ draw' \in Drawings /\ draw'.index <= m
        /\ draw'.x = draw.x /\ draw'.copied = draw.copied /\ draw'.pc = draw.pc
    BY <1>1, <1>2, <1>3, PushIs
  <1>6. \A v \in Workers : request'[v] = IF v = w THEN NoRequest ELSE request[v]
    BY <1>1, <1>2 DEF Typed
  <1> HIDE DEF m
  <1>7. /\ m \in Nat /\ m <= Capacity /\ m # 0 /\ \A i \in 1 .. m : i = m \/ i \in 1 .. m - 1
        /\ \A i \in 1 .. m : i = m \/ i < m
    BY <1>1, <1>4, <1>5 DEF Sized
  <1>8. Typed'
    <2>1. NoRequest \in Requests
      <3>1. 0 \in 0 .. MaxPosts  BY BoundsAssumption
      <3>2. QED  BY <3>1 DEF NoRequest, Requests
    <2>2. request' \in [Workers -> Requests]  BY <1>1, <1>2, <2>1 DEF Typed
    <2>3. answered' \subseteq 1 .. posted
      <3>1. p \in 1 .. posted  BY <1>3, <1>4 DEF Post
      <3>2. QED  BY <1>1, <1>2, <3>1 DEF Typed
    <2>4. QED  BY <1>1, <1>2, <1>5, <2>2, <2>3 DEF Typed
  <1>9. Known'
    <2>1. ASSUME NEW i \in 1 .. m
          PROVE  ws'[i].post <= posted
      <3>1. CASE i = m  BY <1>3, <1>5, <3>1
      <3>2. CASE i \in 1 .. m - 1  BY <1>1, <1>5, <3>2 DEF Known
      <3>3. QED  BY <1>7, <3>1, <3>2
    <2>2. \A v \in Workers : request'[v].post <= posted
      BY <1>1, <1>4, <1>6 DEF Known, NoRequest
    <2>3. QED  BY <1>1, <1>2, <2>1, <2>2 DEF Known, m
  <1>10. Sized'
    BY <1>1, <1>2, <1>5, <1>7 DEF Sized, m
  <1>11. Seen'  BY <1>1, <1>2 DEF Seen
  <1>12. InLine'  BY <1>1, <1>2 DEF InLine, May
  <1>13. Held'
    <2>1. ASSUME NEW v \in Workers
          PROVE  IF request'[v].pc = "none" THEN request'[v].post = 0
                 ELSE /\ request'[v].post # 0
                      /\ request'[v].post \notin answered' /\ request'[v].post \notin lost
                      /\ request'[v].pc = "push" <=> OnLine(request'[v].post)
                      /\ \A u \in Workers : u # v => request'[u].post # request'[v].post
      <3>1. CASE v = w
        BY <1>6, <3>1 DEF NoRequest
      <3>2. CASE v # w
        <4>1. request'[v] = request[v]  BY <1>6, <3>2
        <4>2. request[v].pc # "none" => request[v].post # p
          BY <1>0, <1>1, <1>2, <3>2 DEF Held
        <4>3. \A u \in Workers : request'[u].post = request[u].post \/ request'[u].post = 0
          BY <1>6 DEF NoRequest
        <4>4. QED  BY <1>1, <1>2, <4>1, <4>2, <4>3 DEF Held
      <3>3. QED  BY <3>1, <3>2
    <2>2. \A q : OnLine(q)' <=> OnLine(q)  BY <1>2 DEF OnLine
    <2>3. QED  BY <1>2, <2>1, <2>2 DEF Held
  <1>14. Secured'
    BY <1>1, <1>2, <1>3 DEF Secured, OnLine
  <1>15. Unready' /\ Down' /\ Loading'
    BY <1>1, <1>2, <1>3 DEF Unready, Down, Loading
  <1>16. ws'[m].live  BY <1>5
  <1>17. Loaded'
    <2>1. ws' # <<>>
      <3>1. Len(<<>>) = 0  BY EmptySeq
      <3>2. QED  BY <1>7, <3>1 DEF m
    <2>2. QED  BY <1>16, <2>1 DEF Loaded, m
  <1>18. ASSUME NEW i \in 1 .. m, NEW j \in 1 .. m, i < j, j # m
         PROVE  /\ Len(ws) + 1 - m + i \in 1 .. Len(ws) /\ Len(ws) + 1 - m + j \in 1 .. Len(ws)
                /\ Len(ws) + 1 - m + i < Len(ws) + 1 - m + j
                /\ ws'[i] = ws[Len(ws) + 1 - m + i] /\ ws'[j] = ws[Len(ws) + 1 - m + j]
    <2>1. i \in 1 .. m - 1 /\ j \in 1 .. m - 1  BY <1>7, <1>18
    <2>2. Len(ws) + 1 - m + i < Len(ws) + 1 - m + j
      <3>1. \A a, b, c, d \in Int : c < d => a + 1 - b + c < a + 1 - b + d  OBVIOUS
      <3>2. Len(ws) \in Int /\ m \in Int /\ i \in Int /\ j \in Int  BY <1>5, <1>7
      <3>3. QED  BY <1>18, <3>1, <3>2
    <2>3. QED  BY <1>5, <2>1, <2>2
  <1>19. LiveLast'
    <2>1. ASSUME NEW i \in 1 .. m, NEW j \in 1 .. m, i < j, ws'[i].live
          PROVE  ws'[j].live
      <3>1. CASE j = m  BY <1>16, <3>1
      <3>2. CASE j # m  BY <1>1, <1>18, <2>1, <3>2 DEF LiveLast
      <3>3. QED  BY <3>1, <3>2
    <2>2. QED  BY <2>1 DEF LiveLast, m
  <1>20. WorksetInOrder'
    <2>1. ASSUME NEW i \in 1 .. m, NEW j \in 1 .. m, i < j
          PROVE  ws'[j].post \notin before[ws'[i].post]
      <3>1. CASE j = m
        <4>1. i \in 1 .. m - 1  BY <1>7, <2>1, <3>1
        <4>2. ws'[i].post \in 1 .. posted  BY <1>3, <1>5, <4>1
        <4>3. ws'[j].post = p  BY <1>5, <3>1
        <4>4. QED  BY <1>3, <4>2, <4>3
      <3>2. CASE j # m  BY <1>1, <1>18, <2>1, <3>2 DEF WorksetInOrder
      <3>3. QED  BY <3>1, <3>2
    <2>2. QED  BY <1>2, <2>1 DEF WorksetInOrder, m
  <1>21. QED
    BY <1>8, <1>9, <1>10, <1>11, <1>12, <1>13, <1>14, <1>15, <1>17, <1>19, <1>20 DEF ServiceInv

\* The writer takes the head of the queue: the line stays what it was.
LEMMA TakeKeepsInv ==
    ASSUME ServiceInv, Take
    PROVE  ServiceInv'
  <1> DEFINE n == Len(queue_)
  <1>1. /\ Typed /\ Known /\ Sized /\ Seen /\ InLine /\ Held /\ Secured /\ Unready /\ Down
        /\ Loading /\ Loaded /\ LiveLast /\ WorksetInOrder
    BY DEF ServiceInv
  <1>2. /\ process # "down" /\ writer.pc = "look" /\ queue_ # <<>>
        /\ writer' = [pc |-> "insert", post |-> Head(queue_)] /\ queue_' = Tail(queue_)
        /\ UNCHANGED <<process, ready_, ws, running_, request, draw, preload, table, posted,
                       draws, runs, book, before, answered, lost, kept>>
    BY DEF Take, Alive, history
  <1>3. writer.post = 0 /\ ready_
    BY <1>1, <1>2 DEF InLine, Unready, Typed
  <1>4. queue_ \in Seq(Post)  BY <1>1 DEF Typed
  <1>5. PICK p : p = queue_[1]  OBVIOUS
  <1>6. /\ Head(queue_) = p /\ p \in Post /\ n \in Nat /\ 1 \in 1 .. n
        /\ queue_' \in Seq(Post) /\ Len(queue_') = n - 1
        /\ \A i \in 1 .. n - 1 : queue_'[i] = queue_[i + 1]
    <2>1. n \in Nat /\ n # 0  BY <1>2, <1>4, LenProperties, EmptySeq
    <2>2. 1 \in 1 .. n  BY <2>1
    <2>3. Head(queue_) = p /\ p \in Post  BY <1>4, <1>5, <2>2, ElementOfSeq
    <2>4. Tail(queue_) \in Seq(Post) /\ Len(Tail(queue_)) = n - 1
      BY <1>2, <1>4, HeadTailProperties
    <2>5. \A i \in 1 .. n - 1 : Tail(queue_)[i] = queue_[i + 1]
      BY <1>2, <1>4, HeadTailProperties
    <2>6. QED  BY <1>2, <2>1, <2>2, <2>3, <2>4, <2>5
  <1> HIDE DEF n
  <1>7. \A i \in 1 .. n - 1 : i + 1 \in 1 .. n /\ 1 < i + 1
    BY <1>6
  <1>8. p # 0 /\ p <= posted /\ p \in 0 .. MaxPosts /\ writer' = [pc |-> "insert", post |-> p]
    <2>1. p <= posted  BY <1>1, <1>5, <1>6 DEF Known, n
    <2>2. MaxPosts \in Nat  BY BoundsAssumption
    <2>3. QED  BY <1>2, <1>6, <2>1, <2>2 DEF Post
  <1>9. Typed'
    <2>1. writer' \in Writings  BY <1>8 DEF Writings
    <2>2. QED  BY <1>1, <1>2, <1>6, <2>1 DEF Typed
  <1>10. Known'
    <2>1. \A i \in 1 .. n - 1 : queue_'[i] <= posted
      BY <1>1, <1>6, <1>7 DEF Known, n
    <2>2. QED  BY <1>1, <1>2, <1>6, <1>8, <2>1 DEF Known
  <1>11. Sized' /\ Seen'  BY <1>1, <1>2 DEF Sized, Seen
  <1>12. InLine'
    <2>1. ASSUME NEW i \in 1 .. n - 1, NEW j \in 1 .. n - 1, i < j
          PROVE  May(queue_'[i], queue_'[j])
      <3>1. i + 1 < j + 1  BY <1>6, <2>1
      <3>2. May(queue_[i + 1], queue_[j + 1])  BY <1>1, <1>7, <3>1 DEF InLine, n
      <3>3. QED  BY <1>6, <3>2
    <2>2. ASSUME NEW i \in 1 .. Len(table), NEW j \in 1 .. n - 1
          PROVE  May(table[i].post, queue_'[j])
      BY <1>1, <1>6, <1>7 DEF InLine, n
    <2>3. ASSUME NEW j \in 1 .. n - 1
          PROVE  May(p, queue_'[j])
      <3>1. May(queue_[1], queue_[j + 1])  BY <1>1, <1>6, <1>7 DEF InLine, n
      <3>2. QED  BY <1>5, <1>6, <3>1
    <2>4. \A i \in 1 .. Len(table) : May(table[i].post, p)
      BY <1>1, <1>5, <1>6 DEF InLine, n
    <2>5. QED  BY <1>2, <1>6, <1>8, <2>1, <2>2, <2>3, <2>4, <1>1 DEF InLine, May
  <1>13. \A q : q # 0 => (OnLine(q)' <=> OnLine(q))
    <2>1. ASSUME NEW q
          PROVE  (\E i \in 1 .. n : queue_[i] = q) <=> (\E i \in 1 .. n - 1 : queue_'[i] = q) \/ q = p
      <3>1. \A i \in 1 .. n : i = 1 \/ (i - 1 \in 1 .. n - 1 /\ i - 1 + 1 = i)  BY <1>6
      <3>2. ASSUME NEW i \in 1 .. n, queue_[i] = q
            PROVE  (\E k \in 1 .. n - 1 : queue_'[k] = q) \/ q = p
        <4>1. CASE i = 1  BY <1>5, <3>2, <4>1
        <4>2. CASE i # 1
          <5>1. i - 1 \in 1 .. n - 1 /\ i - 1 + 1 = i  BY <3>1, <4>2
          <5>2. queue_'[i - 1] = queue_[i - 1 + 1]  BY <1>6, <5>1
          <5>3. queue_'[i - 1] = q  BY <3>2, <5>1, <5>2
          <5>4. QED  BY <5>1, <5>3
        <4>3. QED  BY <4>1, <4>2
      <3>3. QED  BY SMTT(30), <1>5, <1>6, <1>7, <3>2
    <2>2. QED  BY <1>2, <1>3, <1>6, <1>8, <2>1 DEF OnLine, n
  <1>14. Held'  BY <1>1, <1>2, <1>13 DEF Held
  <1>15. Secured'
    <2>1. \A q \in answered : q # 0  BY <1>1, Elements DEF Typed
    <2>2. \A q \in answered : OnLine(q)' \/ q \in lost  BY <1>1, <1>13, <2>1 DEF Secured
    <2>3. \A i \in 1 .. n - 1 : queue_'[i] \notin lost
      BY <1>1, <1>6, <1>7 DEF Secured, n
    <2>4. QED  BY <1>2, <1>6, <2>2, <2>3 DEF Secured
  <1>16. Unready' /\ Down'  BY <1>1, <1>2, <1>3 DEF Unready, Down
  <1>17. Loading' /\ Loaded' /\ LiveLast' /\ WorksetInOrder'
    BY <1>1, <1>2 DEF Loading, Loaded, LiveLast, WorksetInOrder, Expected
  <1>18. QED
    BY <1>9, <1>10, <1>11, <1>12, <1>14, <1>15, <1>16, <1>17 DEF ServiceInv

\* The entry is committed: the line stays what it was.
LEMMA CommitKeepsInv ==
    ASSUME ServiceInv, Commit
    PROVE  ServiceInv'
  <1> DEFINE n == Len(table)
             row == [post |-> writer.post, book |-> book[writer.post]]
  <1>1. /\ Typed /\ Known /\ Sized /\ Seen /\ InLine /\ Held /\ Secured /\ Unready /\ Down
        /\ Loading /\ Loaded /\ LiveLast /\ WorksetInOrder
    BY DEF ServiceInv
  <1>2. /\ process # "down" /\ writer.pc = "commit" /\ table' = Append(table, row)
        /\ writer' = [pc |-> "look", post |-> 0]
        /\ UNCHANGED <<process, ready_, ws, queue_, running_, request, draw, preload, posted,
                       draws, runs, book, before, answered, lost, kept>>
    BY DEF Commit, Alive, history
  <1>3. writer.post # 0 /\ ready_
    BY <1>1, <1>2 DEF InLine, Unready, Typed
  <1>4. PICK p : p = writer.post  OBVIOUS
  <1>5. p # 0 /\ p \in 1 .. posted /\ p \in Post /\ p <= posted
    <2>1. writer.post \in 0 .. MaxPosts /\ writer.post <= posted /\ posted \in Nat /\ MaxPosts \in Nat
      BY <1>1, Elements DEF Known
    <2>2. QED  BY <1>3, <1>4, <2>1 DEF Post
  <1>6. row \in Rows /\ row.post = p
    <2>1. book[p] \in Books
      BY <1>1, <1>5, ElementOfSeq DEF Typed
    <2>2. QED  BY <1>4, <1>5, <2>1 DEF Rows
  <1>7. table \in Seq(Rows)  BY <1>1 DEF Typed
  <1> HIDE DEF row
  <1>8. /\ table' \in Seq(Rows) /\ Len(table') = n + 1 /\ table'[n + 1].post = p
        /\ \A i \in 1 .. n : table'[i] = table[i]
        /\ n \in Nat /\ \A i \in 1 .. n + 1 : i = n + 1 \/ i \in 1 .. n
    BY <1>2, <1>6, <1>7, AppendIs
  <1> HIDE DEF n
  <1>9. 1 .. n \subseteq 1 .. n + 1 /\ n + 1 \in 1 .. n + 1
        /\ \A i \in 1 .. n : i < n + 1 /\ ~(n + 1 < i) /\ ~(n + 1 < n + 1)
    BY <1>8
  <1>10. Typed'
    <2>1. 0 \in 0 .. MaxPosts  BY BoundsAssumption
    <2>2. writer' \in Writings  BY <1>2, <2>1 DEF Writings
    <2>3. kept \in 0 .. n + 1  BY <1>1, <1>8 DEF Typed, n
    <2>4. QED  BY <1>1, <1>2, <1>8, <2>2, <2>3 DEF Typed
  <1>11. Known'
    <2>1. \A i \in 1 .. n + 1 : table'[i].post <= posted
      BY <1>1, <1>5, <1>8 DEF Known, n
    <2>2. 0 <= posted  BY <1>1, Elements
    <2>3. QED  BY <1>1, <1>2, <1>8, <2>1, <2>2 DEF Known
  <1>12. Sized' /\ Seen'  BY <1>1, <1>2 DEF Sized, Seen
  <1>13. InLine'
    <2>1. ASSUME NEW i \in 1 .. n + 1, NEW j \in 1 .. n + 1, i < j
          PROVE  May(table'[i].post, table'[j].post)
      <3>1. i \in 1 .. n /\ table'[i] = table[i]  BY <1>8, <1>9, <2>1
      <3>2. CASE j = n + 1
        BY <1>1, <1>3, <1>4, <1>8, <3>1, <3>2 DEF InLine, n
      <3>3. CASE j \in 1 .. n
        BY <1>1, <1>8, <2>1, <3>1, <3>3 DEF InLine, n
      <3>4. QED  BY <1>8, <3>2, <3>3
    <2>2. ASSUME NEW i \in 1 .. n + 1, NEW j \in 1 .. Len(queue_)
          PROVE  May(table'[i].post, queue_[j])
      <3>1. CASE i = n + 1
        BY <1>1, <1>3, <1>4, <1>8, <3>1 DEF InLine
      <3>2. CASE i \in 1 .. n
        BY <1>1, <1>8, <3>2 DEF InLine, n
      <3>3. QED  BY <1>8, <3>1, <3>2
    <2>3. QED  BY <1>1, <1>2, <1>8, <2>1, <2>2 DEF InLine, May
  <1>14. \A q : q # 0 => (OnLine(q)' <=> OnLine(q))
    <2>1. ASSUME NEW q
          PROVE  (\E i \in 1 .. n + 1 : table'[i].post = q) <=> (\E i \in 1 .. n : table[i].post = q) \/ q = p
      BY <1>8, <1>9
    <2>2. QED  BY <1>2, <1>4, <1>8, <2>1 DEF OnLine, n
  <1>15. Held'  BY <1>1, <1>2, <1>14 DEF Held
  <1>16. Secured'
    <2>1. \A q \in answered : q # 0  BY <1>1, Elements DEF Typed
    <2>2. QED  BY <1>1, <1>2, <1>14, <2>1 DEF Secured
  <1>17. Unready' /\ Down' /\ Loading'
    BY <1>1, <1>2, <1>3 DEF Unready, Down, Loading
  <1>18. Loaded'
    <2>1. Expected' = Expected  BY <1>2 DEF Expected
    <2>2. CASE ws # <<>> /\ ws[Len(ws)].live
      BY <1>2, <2>2 DEF Loaded
    <2>3. CASE ~(ws # <<>> /\ ws[Len(ws)].live)
      <3>1. /\ Len(ws) = Expected
            /\ \A i \in 1 .. Len(ws) : ws[i].post = table[kept - Expected + i].post /\ ~ws[i].live
        BY <1>1, <1>3, <2>3 DEF Loaded
      <3>2. kept \in Nat /\ kept <= n /\ Capacity \in Nat  BY <1>1, Elements DEF n
      <3>3. Expected \in Nat /\ Expected <= kept  BY <3>2 DEF Expected
      <3>4. ASSUME NEW i \in 1 .. Expected
            PROVE  table'[kept - Expected + i] = table[kept - Expected + i]
        <4>1. kept - Expected + i \in 1 .. n  BY <1>8, <3>2, <3>3
        <4>2. QED  BY <1>8, <4>1
      <3>5. QED  BY <1>2, <2>1, <3>1, <3>4 DEF Loaded
    <2>4. QED  BY <2>2, <2>3
  <1>19. LiveLast' /\ WorksetInOrder'
    BY <1>1, <1>2 DEF LiveLast, WorksetInOrder
  <1>20. QED
    BY <1>10, <1>11, <1>12, <1>13, <1>15, <1>16, <1>17, <1>18, <1>19 DEF ServiceInv

-----------------------------------------------------------------------------
LEMMA NextKeepsInv == ServiceInv /\ [Next]_vars => ServiceInv'
  <1> SUFFICES ASSUME ServiceInv, [Next]_vars PROVE ServiceInv'  OBVIOUS
  <1>1. CASE UNCHANGED vars
    <2> USE <1>1 DEF ServiceInv, vars, service, history
    <2>1. Typed' /\ Known' /\ Sized' /\ Seen'  BY DEF Typed, Known, Sized, Seen
    <2>2. InLine' /\ Held' /\ Secured'  BY DEF InLine, May, Held, Secured, OnLine
    <2>3. Unready' /\ Down' /\ Loading'  BY DEF Unready, Down, Loading, Expected
    <2>4. Loaded' /\ LiveLast' /\ WorksetInOrder'
      BY DEF Loaded, LiveLast, WorksetInOrder, Expected
    <2>5. QED  BY <2>1, <2>2, <2>3, <2>4
  <1>2. CASE Start  BY <1>2, StartKeepsInv
  <1>3. CASE PreloadQuery  BY <1>3, PreloadQueryKeepsInv
  <1>4. CASE PreloadPush  BY <1>4, PreloadPushKeepsInv
  <1>5. ASSUME NEW w \in Workers, Receive(w) \/ Enqueue(w) \/ PushLive(w)
        PROVE  ServiceInv'
    BY <1>5, ReceiveKeepsInv, EnqueueKeepsInv, PushLiveKeepsInv
  <1>6. CASE Take  BY <1>6, TakeKeepsInv
  <1>7. CASE Insert \/ WriterSpins \/ Signal \/ Halt  BY <1>7, QuietActions
  <1>8. CASE Commit  BY <1>8, CommitKeepsInv
  <1>9. CASE WriterDies \/ Crash \/ Exit
    <2>1. Die  BY <1>9 DEF WriterDies, Crash, Exit
    <2>2. QED  BY <2>1, DeathCutsTheLine
  <1>10. CASE DrawBegin \/ Draw  BY <1>10, DrawActions
  <1>11. CASE PreloadSpins  BY <1>11, PreloadSpinsKeepsInv
  <1>12. QED
    BY <1>1, <1>2, <1>3, <1>4, <1>5, <1>6, <1>7, <1>8, <1>9, <1>10, <1>11 DEF Next, Write

LEMMA InvIsKept == Spec => []ServiceInv
  BY Starts, NextKeepsInv, PTL DEF Spec

LEMMA InvIsTyped == ServiceInv => TypeOK
  <1> SUFFICES ASSUME ServiceInv PROVE TypeOK  OBVIOUS
  <1>1. Typed /\ Known /\ Sized  BY DEF ServiceInv
  <1>2. /\ DOMAIN ws = 1 .. Len(ws) /\ DOMAIN queue_ = 1 .. Len(queue_)
        /\ DOMAIN table = 1 .. Len(table)
    BY <1>1, LenProperties DEF Typed
  <1>3. \A i \in DOMAIN ws : ws[i].post \in 1 .. posted /\ ws[i].live \in BOOLEAN
    BY <1>1, <1>2, Elements DEF Known, Post, Entries
  <1>4. ToSet(queue_) \subseteq 1 .. posted
    <2>1. \A i \in DOMAIN queue_ : queue_[i] \in 1 .. posted
      BY <1>1, <1>2, Elements DEF Known, Post
    <2>2. QED  BY <2>1 DEF ToSet
  <1>5. \A i \in DOMAIN table : table[i].post \in 1 .. posted /\ table[i].book \in Books
    BY <1>1, <1>2, Elements DEF Known, Post, Rows
  <1>6. \A w \in Workers : request[w].pc \in {"none", "queue", "push"} /\ request[w].post \in 0 .. posted
    <2>1. \A w \in Workers : request[w].pc \in {"none", "queue", "push"}
      BY <1>1 DEF Typed, Requests
    <2>2. \A w \in Workers : request[w].post \in 0 .. posted
      BY <1>1, Elements DEF Known
    <2>3. QED  BY <2>1, <2>2
  <1>7. writer.pc \in {"none", "look", "insert", "spin", "commit"} /\ writer.post \in 0 .. posted
    BY <1>1, Elements DEF Known, Typed, Writings
  <1>8. /\ draw.pc \in {"none", "size", "copy", "draw"} /\ draw.x \in 0 .. Capacity
        /\ draw.index \in 0 .. Len(ws) /\ Len(draw.copied) <= draw.x
    BY <1>1, Elements DEF Typed, Drawings, Sized
  <1>9. preload.pc \in {"none", "query", "spin", "push"} /\ preload.at \in 0 .. Len(preload.found)
    BY <1>1, Elements DEF Typed, Preloads, Sized
  <1>10. QED
    BY <1>1, <1>3, <1>4, <1>5, <1>6, <1>7, <1>8, <1>9 DEF TypeOK, Typed, Sized

-----------------------------------------------------------------------------
\* A post that was answered before another was received is before it in the
\* table and in the workset, whatever the interleaving of the two locks that
\* add_orderbook takes, and over any number of crashes and restarts.
THEOREM PostsStayInOrder == Spec => []InOrder
  <1>1. ServiceInv => InOrder
    <2> SUFFICES ASSUME ServiceInv PROVE InOrder  OBVIOUS
    <2>1. Typed /\ InLine /\ WorksetInOrder  BY DEF ServiceInv
    <2>2. DOMAIN ws = 1 .. Len(ws) /\ DOMAIN table = 1 .. Len(table)
      BY <2>1, LenProperties DEF Typed
    <2>3. NotOvertaken(table)
      BY <2>1, <2>2 DEF NotOvertaken, InLine, May
    <2>4. NotOvertaken(ws)
      BY <2>1, <2>2 DEF NotOvertaken, WorksetInOrder
    <2>5. QED  BY <2>3, <2>4, InvIsTyped DEF InOrder
  <1>2. QED  BY InvIsKept, <1>1, PTL

\* An answered post is in the table once, or on its way to it, or has gone
\* down with a process: OrderbookQueueWriter drops none and writes none twice.
THEOREM AnsweredPostsAreSecured == Spec => []NoSilentLoss
  <1>1. ServiceInv => NoSilentLoss
    <2> SUFFICES ASSUME ServiceInv PROVE NoSilentLoss  OBVIOUS
    <2>1. Typed /\ InLine /\ Secured  BY DEF ServiceInv
    <2>2. DOMAIN queue_ = 1 .. Len(queue_) /\ DOMAIN table = 1 .. Len(table)
      BY <2>1, LenProperties DEF Typed
    <2>3. ToSet(queue_) = {queue_[i] : i \in 1 .. Len(queue_)}
      BY <2>2 DEF ToSet
    <2>4. Posts(table) = {table[i].post : i \in 1 .. Len(table)}
      BY <2>2 DEF Posts
    <2>5. ASSUME NEW p \in answered
          PROVE  p \in Posts(table) \cup Unwritten \cup lost
      <3>1. p # 0  BY <2>1, Elements DEF Typed
      <3>2. OnLine(p) \/ p \in lost  BY <2>1 DEF Secured
      <3>3. QED  BY <2>3, <2>4, <3>1, <3>2 DEF OnLine, Unwritten
    <2>6. ASSUME NEW i \in DOMAIN table, NEW j \in DOMAIN table, table[i].post = table[j].post
          PROVE  i = j
      <3>1. ~(i < j) /\ ~(j < i)  BY <2>1, <2>2, <2>6 DEF InLine, May
      <3>2. i \in Int /\ j \in Int  BY <2>2
      <3>3. QED  BY <3>1, <3>2
    <2>7. (Posts(table) \cup lost) \cap ToSet(queue_) = {}
      BY <2>1, <2>3, <2>4 DEF InLine, May, Secured
    <2>8. QED  BY <2>5, <2>6, <2>7 DEF NoSilentLoss
  <1>2. QED  BY InvIsKept, <1>1, PTL

\* Until a request pushes, a workset that is ready holds the newest rows of the
\* table that the process found, in their order, and no live entry ever comes
\* to stand before a loaded one (preload_workset_async, set_ready).
THEOREM PreloadFindsTheNewest == Spec => []PreloadedIsNewest
  <1>1. ServiceInv => PreloadedIsNewest
    <2> SUFFICES ASSUME ServiceInv PROVE PreloadedIsNewest  OBVIOUS
    <2>1. Typed /\ Loaded /\ LiveLast  BY DEF ServiceInv
    <2>2. DOMAIN ws = 1 .. Len(ws) /\ Len(ws) \in Nat  BY <2>1, LenProperties DEF Typed
    <2>3. ASSUME ready_, \A i \in DOMAIN ws : ~ws[i].live
          PROVE  /\ Len(ws) = IF kept < Capacity THEN kept ELSE Capacity
                 /\ \A i \in DOMAIN ws : ws[i].post = table[kept - Len(ws) + i].post
      <3>1. ~(ws # <<>> /\ ws[Len(ws)].live)
        <4>1. ASSUME ws # <<>>  PROVE Len(ws) \in DOMAIN ws
          <5>1. Len(ws) # 0  BY <2>1, <4>1, EmptySeq DEF Typed
          <5>2. QED  BY <2>2, <5>1
        <4>2. QED  BY <2>3, <4>1
      <3>2. /\ Len(ws) = Expected
            /\ \A i \in 1 .. Len(ws) : ws[i].post = table[kept - Expected + i].post
        BY <2>1, <2>3, <3>1 DEF Loaded
      <3>3. QED  BY <2>2, <3>2 DEF Expected
    <2>4. \A i, j \in DOMAIN ws : i < j /\ ws[i].live => ws[j].live
      BY <2>1, <2>2 DEF LiveLast
    <2>5. QED  BY <2>3, <2>4 DEF PreloadedIsNewest
  <1>2. QED  BY InvIsKept, <1>1, PTL

-----------------------------------------------------------------------------
\* A finite set of numbers: how many are below one of them is its place.
LEMMA PlacesAreDistinct ==
    ASSUME NEW K \in SUBSET Int, IsFiniteSet(K), NEW x \in K, NEW y \in K
    PROVE  /\ Cardinality({z \in K : z < x}) \in 0 .. Cardinality(K) - 1
           /\ x < y <=> Cardinality({z \in K : z < x}) < Cardinality({z \in K : z < y})
  <1>1. ASSUME NEW a \in K
        PROVE  /\ IsFiniteSet({z \in K : z < a})
               /\ Cardinality({z \in K : z < a}) \in 0 .. Cardinality(K) - 1
    <2> DEFINE B == {z \in K : z < a}
    <2>1. B \in SUBSET K /\ a \notin B  OBVIOUS
    <2> HIDE DEF B
    <2>2. IsFiniteSet(B) /\ Cardinality(B) <= Cardinality(K) /\ Cardinality(B) # Cardinality(K)
      BY <1>1, <2>1, FS_Subset
    <2>3. Cardinality(B) \in Nat /\ Cardinality(K) \in Nat  BY <2>2, FS_CardinalityType
    <2>4. Cardinality(B) \in 0 .. Cardinality(K) - 1  BY <2>2, <2>3
    <2>5. QED  BY <2>2, <2>4 DEF B
  <1>2. ASSUME NEW a \in K, NEW b \in K, a < b
        PROVE  Cardinality({z \in K : z < a}) < Cardinality({z \in K : z < b})
    <2> DEFINE A == {z \in K : z < a}
               B == {z \in K : z < b}
    <2>1. A \in SUBSET B /\ a \in B /\ a \notin A
      <3>1. \A z \in K : z \in Int  OBVIOUS
      <3>2. \A z \in K : z < a => z < b  BY <1>2, <3>1
      <3>3. a \in B /\ a \notin A  BY <1>2, <3>1
      <3>4. QED  BY <3>2, <3>3
    <2>2. IsFiniteSet(B) /\ Cardinality(A) \in Nat /\ Cardinality(B) \in Nat  BY <1>1
    <2> HIDE DEF A, B
    <2>3. Cardinality(A) <= Cardinality(B) /\ Cardinality(A) # Cardinality(B)
      BY <2>1, <2>2, FS_Subset
    <2>4. Cardinality(A) < Cardinality(B)  BY <2>2, <2>3
    <2>5. QED  BY <2>4 DEF A, B
  <1> DEFINE P(a) == Cardinality({z \in K : z < a})
  <1>3. P(x) \in Int /\ P(y) \in Int /\ x \in Int /\ y \in Int  BY <1>1
  <1>4. (x < y => P(x) < P(y)) /\ (y < x => P(y) < P(x)) /\ (x = y => P(x) = P(y))
    BY <1>2
  <1> HIDE DEF P
  <1>5. x < y <=> P(x) < P(y)  BY <1>3, <1>4
  <1>6. QED  BY <1>1, <1>5 DEF P

\* ... and every place is taken.
LEMMA PlacesAreTaken ==
    ASSUME NEW K \in SUBSET Int, IsFiniteSet(K), NEW n \in 0 .. Cardinality(K) - 1
    PROVE  \E x \in K : Cardinality({z \in K : z < x}) = n
  <1> DEFINE T == 0 .. Cardinality(K) - 1
             f == [x \in K |-> Cardinality({z \in K : z < x})]
  <1>1. Cardinality(K) \in Nat  BY FS_CardinalityType
  <1>2. IsFiniteSet(T) /\ Cardinality(T) = Cardinality(K)
    <2>1. Cardinality(K) - 1 \in Int  BY <1>1
    <2>2. /\ IsFiniteSet(T)
          /\ Cardinality(T) = IF 0 > Cardinality(K) - 1 THEN 0 ELSE Cardinality(K) - 1 - 0 + 1
      <3>1. PICK m \in Int : m = Cardinality(K) - 1  BY <2>1
      <3>2. IsFiniteSet(0 .. m) /\ Cardinality(0 .. m) = IF 0 > m THEN 0 ELSE m - 0 + 1
        BY FS_Interval
      <3>3. QED  BY <3>1, <3>2
    <2>3. QED  BY <1>1, <2>2
  <1>3. f \in [K -> T]  BY PlacesAreDistinct
  <1>4. \A x, y \in K : f[x] = f[y] => x = y
    <2> SUFFICES ASSUME NEW x \in K, NEW y \in K, f[x] = f[y] PROVE x = y  OBVIOUS
    <2>1. x < y <=> f[x] < f[y]  BY PlacesAreDistinct
    <2>2. y < x <=> f[y] < f[x]  BY PlacesAreDistinct
    <2>3. f[x] \in Int /\ f[y] \in Int  BY <1>3
    <2>4. QED  BY <2>1, <2>2, <2>3
  <1>5. f \in Injection(K, T)  BY <1>3, <1>4 DEF Injection, IsInjective
  <1>6. f \in Surjection(K, T)
    <2> HIDE DEF f, T
    <2>1. QED  BY <1>2, <1>5, FS_Injection
  <1>7. QED  BY <1>6 DEF Surjection

-----------------------------------------------------------------------------
\* What Ranked sorts: rows with different prices.
Sortable(s, I) ==
    /\ s \in Seq([price : Int, volume : Int]) /\ I \in SUBSET DOMAIN s
    /\ \A i, j \in I : s[i].price = s[j].price => i = j

Keys(s, I, way) == {way * s[i].price : i \in I}
Place(s, I, way, row) == Cardinality({z \in Keys(s, I, way) : z < way * row.price})

LEMMA KeysAreDistinct ==
    ASSUME NEW s, NEW I, Sortable(s, I), NEW way \in {1, -1}
    PROVE  /\ IsFiniteSet(I) /\ Keys(s, I, way) \in SUBSET Int /\ IsFiniteSet(Keys(s, I, way))
           /\ Cardinality(Keys(s, I, way)) = Cardinality(I)
           /\ \A i, j \in I : way * s[i].price = way * s[j].price => i = j
           /\ \A i \in I : Cardinality(Ahead(s, I, way, i)) = Place(s, I, way, s[i])
           /\ \A i \in I : s[i] \in [price : Int, volume : Int]
  <1> DEFINE Row == [price : Int, volume : Int]
             key == [i \in I |-> way * s[i].price]
  <1>1. s \in Seq(Row) /\ I \in SUBSET (1 .. Len(s)) /\ Len(s) \in Nat
    BY LenProperties DEF Sortable
  <1>2. IsFiniteSet(I)
    <2>1. IsFiniteSet(1 .. Len(s))  BY <1>1, FS_Interval
    <2>2. QED  BY <1>1, <2>1, FS_Subset
  <1>3. \A i \in I : s[i] \in Row
    BY <1>1, ElementOfSeq
  <1>4. \A i \in I : s[i].price \in Int  BY <1>3
  <1>5. \A i, j \in I : s[i].price = s[j].price => i = j  BY DEF Sortable
  <1>6. \A i \in I : way * s[i].price \in Int  BY <1>4
  <1>7. \A i, j \in I : way * s[i].price = way * s[j].price => i = j
    <2>1. CASE way = 1  BY <1>4, <1>5, <2>1
    <2>2. CASE way = -1  BY <1>4, <1>5, <2>2
    <2>3. QED  BY <2>1, <2>2
  <1>8. Keys(s, I, way) \in SUBSET Int  BY <1>6 DEF Keys
  <1>9. ASSUME NEW J \in SUBSET I
        PROVE  /\ IsFiniteSet(Keys(s, J, way))
               /\ Cardinality(Keys(s, J, way)) = Cardinality(J)
    <2> DEFINE g == [i \in J |-> way * s[i].price]
    <2>1. IsFiniteSet(J)  BY <1>2, FS_Subset
    <2>2. g \in Bijection(J, Keys(s, J, way))
      BY <1>7 DEF Keys, Bijection, Injection, IsInjective, Surjection
    <2>3. ExistsBijection(J, Keys(s, J, way))  BY <2>2 DEF ExistsBijection
    <2>4. QED  BY <2>1, <2>3, FS_Bijection
  <1>10. ASSUME NEW i \in I
         PROVE  Cardinality(Ahead(s, I, way, i)) = Place(s, I, way, s[i])
    <2>1. Ahead(s, I, way, i) \in SUBSET I  BY DEF Ahead
    <2>2. Keys(s, Ahead(s, I, way, i), way) = {z \in Keys(s, I, way) : z < way * s[i].price}
      BY DEF Keys, Ahead
    <2>3. QED  BY <1>9, <2>1, <2>2 DEF Place
  <1>11. I \in SUBSET I  OBVIOUS
  <1>12. QED  BY <1>2, <1>3, <1>7, <1>8, <1>9, <1>10, <1>11

\* Ranked has each row at its place.
AtItsPlace(s, I, way, i, k) == Ranked(s, I, way)[k] = s[i] /\ Place(s, I, way, s[i]) = k - 1
PlacesFilled(s, I, way) ==
    \A k \in 1 .. Cardinality(I) : \E i \in I : AtItsPlace(s, I, way, i, k)
RowsPlaced(s, I, way) ==
    \A i \in I : \E k \in 1 .. Cardinality(I) : AtItsPlace(s, I, way, i, k)
PlacesByPrice(s, I, way) ==
    \A i, j \in I : way * s[i].price < way * s[j].price
                       <=> Place(s, I, way, s[i]) < Place(s, I, way, s[j])

LEMMA RankedPlaces ==
    ASSUME NEW s, NEW I, Sortable(s, I), NEW way \in {1, -1}
    PROVE  /\ Cardinality(I) \in Nat
           /\ PlacesFilled(s, I, way) /\ RowsPlaced(s, I, way) /\ PlacesByPrice(s, I, way)
  <1> DEFINE n == Cardinality(I)
             K == Keys(s, I, way)
             Place1(i) == Place(s, I, way, s[i])
  <1>1. /\ IsFiniteSet(I) /\ K \in SUBSET Int /\ IsFiniteSet(K) /\ Cardinality(K) = n
        /\ \A i, j \in I : way * s[i].price = way * s[j].price => i = j
        /\ \A i \in I : Cardinality(Ahead(s, I, way, i)) = Place1(i)
        /\ \A i \in I : s[i] \in [price : Int, volume : Int]
    BY KeysAreDistinct
  <1>2. n \in Nat  BY <1>1, FS_CardinalityType
  <1>3. \A i \in I : way * s[i].price \in K  BY DEF Keys
  <1>4. ASSUME NEW i \in I, NEW j \in I
        PROVE  /\ way * s[i].price < way * s[j].price <=> Place1(i) < Place1(j)
               /\ Place1(i) \in 0 .. n - 1
    <2> DEFINE x == way * s[i].price
               y == way * s[j].price
    <2>1. x \in K /\ y \in K  BY <1>3
    <2>2. K \in SUBSET Int /\ IsFiniteSet(K)  BY <1>1
    <2>3. /\ Cardinality({z \in K : z < x}) \in 0 .. Cardinality(K) - 1
          /\ x < y <=> Cardinality({z \in K : z < x}) < Cardinality({z \in K : z < y})
      <3> HIDE DEF x, y, K
      <3>1. QED  BY <2>1, <2>2, PlacesAreDistinct
    <2>4. QED  BY <1>1, <2>3 DEF Place
  <1>5. ASSUME NEW k \in 1 .. n
        PROVE  \E i \in I : Place1(i) = k - 1
    <2>1. k - 1 \in 0 .. Cardinality(K) - 1  BY <1>1, <1>2
    <2>2. \E x \in K : Cardinality({z \in K : z < x}) = k - 1
      <3> HIDE DEF K
      <3>1. QED  BY <1>1, <2>1, PlacesAreTaken
    <2>3. QED  BY <2>2 DEF Place, Keys
  <1>6. ASSUME NEW i \in I, NEW j \in I, Place1(i) = Place1(j)
        PROVE  i = j
    <2>1. ~(way * s[i].price < way * s[j].price) /\ ~(way * s[j].price < way * s[i].price)
      BY <1>4, <1>6
    <2>2. way * s[i].price \in Int /\ way * s[j].price \in Int  BY <1>1, <1>3
    <2>3. QED  BY <1>1, <2>1, <2>2
  <1>7. ASSUME NEW k \in 1 .. n
        PROVE  \E i \in I : Ranked(s, I, way)[k] = s[i] /\ Place1(i) = k - 1
    <2> DEFINE c == CHOOSE i \in I : Cardinality(Ahead(s, I, way, i)) = k - 1
    <2>1. \E i \in I : Cardinality(Ahead(s, I, way, i)) = k - 1  BY <1>1, <1>5
    <2>2. c \in I /\ Cardinality(Ahead(s, I, way, c)) = k - 1  BY <2>1
    <2>3. Ranked(s, I, way)[k] = s[c]  BY DEF Ranked
    <2>4. QED  BY <1>1, <2>2, <2>3
  <1>8. ASSUME NEW i \in I
        PROVE  \E k \in 1 .. n : Ranked(s, I, way)[k] = s[i] /\ Place1(i) = k - 1
    <2>1. Place1(i) + 1 \in 1 .. n /\ (Place1(i) + 1) - 1 = Place1(i)  BY <1>2, <1>4
    <2>2. PICK k \in 1 .. n : k - 1 = Place1(i)  BY <2>1
    <2>3. PICK j \in I : Ranked(s, I, way)[k] = s[j] /\ Place1(j) = k - 1  BY <1>7
    <2>4. j = i  BY <1>6, <2>2, <2>3
    <2>5. QED  BY <2>2, <2>3, <2>4
  <1>9. PlacesFilled(s, I, way) /\ RowsPlaced(s, I, way)
    BY <1>7, <1>8 DEF PlacesFilled, RowsPlaced, AtItsPlace
  <1>10. PlacesByPrice(s, I, way)  BY <1>4 DEF PlacesByPrice
  <1>11. QED  BY <1>2, <1>9, <1>10

LEMMA RankedIsSeq ==
    ASSUME NEW s, NEW I, Sortable(s, I), NEW way \in {1, -1}
    PROVE  /\ Ranked(s, I, way) \in Seq([price : Int, volume : Int])
           /\ Len(Ranked(s, I, way)) = Cardinality(I) /\ Cardinality(I) \in Nat
  <1> DEFINE n == Cardinality(I)
  <1>1. \A i \in I : s[i] \in [price : Int, volume : Int]  BY KeysAreDistinct
  <1>0. n \in Nat /\ PlacesFilled(s, I, way)  BY RankedPlaces
  <1>2. n \in Nat /\ \A k \in 1 .. n : \E i \in I : Ranked(s, I, way)[k] = s[i]
    BY <1>0 DEF PlacesFilled, AtItsPlace
  <1>3. /\ Ranked(s, I, way) \in Seq([price : Int, volume : Int])
        /\ Len(Ranked(s, I, way)) = n
    <2>1. Ranked(s, I, way) = [k \in 1 .. n |-> Ranked(s, I, way)[k]]  BY DEF Ranked
    <2>2. \A k \in 1 .. n : Ranked(s, I, way)[k] \in [price : Int, volume : Int]
      BY <1>1, <1>2
    <2>3. Ranked(s, I, way) \in [1 .. n -> [price : Int, volume : Int]]  BY <2>1, <2>2
    <2>4. PICK r : r = Ranked(s, I, way)  OBVIOUS
    <2>5. PICK m \in Nat : m = n  BY <1>2
    <2>6. r \in [1 .. m -> [price : Int, volume : Int]]  BY <2>3, <2>4, <2>5
    <2>7. r \in Seq([price : Int, volume : Int])
      <3>1. r \in UNION {[1 .. j -> [price : Int, volume : Int]] : j \in Nat}  BY <2>6
      <3>2. QED  BY <3>1, SeqDef, Zenon
    <2>8. Len(r) \in Nat /\ 1 .. Len(r) = 1 .. m  BY <2>6, <2>7, LenProperties
    <2>9. Len(r) = m  BY <2>8
    <2>10. QED  BY <2>4, <2>5, <2>7, <2>9
  <1>4. QED  BY <1>2, <1>3

\* The rows come one after the other.
LEMMA RankedIncreases ==
    ASSUME NEW s, NEW I, Sortable(s, I), NEW way \in {1, -1},
           NEW k \in 1 .. Cardinality(I), NEW l \in 1 .. Cardinality(I), k < l
    PROVE  way * Ranked(s, I, way)[k].price < way * Ranked(s, I, way)[l].price
  <1>1. PlacesFilled(s, I, way) /\ PlacesByPrice(s, I, way) /\ Cardinality(I) \in Nat
    BY RankedPlaces
  <1>2. PICK i \in I : AtItsPlace(s, I, way, i, k)  BY <1>1 DEF PlacesFilled
  <1>3. PICK j \in I : AtItsPlace(s, I, way, j, l)  BY <1>1 DEF PlacesFilled
  <1>4. Place(s, I, way, s[i]) < Place(s, I, way, s[j])
    BY <1>1, <1>2, <1>3 DEF AtItsPlace
  <1>5. way * s[i].price < way * s[j].price  BY <1>1, <1>4 DEF PlacesByPrice
  <1>6. QED  BY <1>2, <1>3, <1>5 DEF AtItsPlace

\* The order in which the rows were is lost.
RowsOf(s, I) == {s[i] : i \in I}

LEMMA RankedForgets ==
    ASSUME NEW s, NEW I, Sortable(s, I), NEW t, NEW J, Sortable(t, J),
           RowsOf(s, I) = RowsOf(t, J), NEW way \in {1, -1}
    PROVE  Ranked(s, I, way) = Ranked(t, J, way) /\ Cardinality(I) = Cardinality(J)
  <1> DEFINE Row == [price : Int, volume : Int]
             r == Ranked(s, I, way)
             q == Ranked(t, J, way)
  <1>1. Keys(s, I, way) = Keys(t, J, way)
    <2>1. Keys(s, I, way) = {way * e.price : e \in RowsOf(s, I)}  BY DEF Keys, RowsOf
    <2>2. Keys(t, J, way) = {way * e.price : e \in RowsOf(t, J)}  BY DEF Keys, RowsOf
    <2>3. QED  BY <2>1, <2>2
  <1>2. Cardinality(I) = Cardinality(J)
    <2>1. Cardinality(Keys(s, I, way)) = Cardinality(I)  BY KeysAreDistinct
    <2>2. Cardinality(Keys(t, J, way)) = Cardinality(J)  BY KeysAreDistinct
    <2>3. QED  BY <1>1, <2>1, <2>2
  <1>3. /\ r \in Seq(Row) /\ q \in Seq(Row) /\ Len(r) = Cardinality(I) /\ Len(q) = Cardinality(I)
        /\ Cardinality(I) \in Nat
    BY <1>2, RankedIsSeq
  <1>4. ASSUME NEW k \in 1 .. Cardinality(I)
        PROVE  r[k] = q[k]
    <2>1. PlacesFilled(s, I, way) /\ RowsPlaced(t, J, way)  BY RankedPlaces
    <2>2. PICK i \in I : AtItsPlace(s, I, way, i, k)  BY <2>1 DEF PlacesFilled
    <2>3. PICK j \in J : t[j] = s[i]
      <3>1. s[i] \in RowsOf(t, J)  BY DEF RowsOf
      <3>2. QED  BY <3>1 DEF RowsOf
    <2>4. PICK l \in 1 .. Cardinality(J) : AtItsPlace(t, J, way, j, l)  BY <2>1 DEF RowsPlaced
    <2>5. k - 1 = l - 1  BY <1>1, <2>2, <2>3, <2>4 DEF Place, AtItsPlace
    <2>6. l = k  BY <1>2, <1>3, <2>5
    <2>7. QED  BY <2>2, <2>3, <2>4, <2>6 DEF AtItsPlace
  <1>5. r = q
    <2> HIDE DEF r, q
    <2>1. QED  BY <1>3, <1>4, SeqEqual
  <1>6. QED  BY <1>2, <1>5
-----------------------------------------------------------------------------
\* Rounding keeps the order of numbers, and zero.
RoundedBy(grain, x) ==
    LET below == x \div grain
        rest == x % grain
    IN IF 2 * rest < grain \/ (2 * rest = grain /\ below % 2 = 0) THEN below ELSE below + 1

LEMMA Division ==
    ASSUME NEW grain \in Nat \ {0}, NEW x \in Int
    PROVE  /\ x \div grain \in Int /\ x % grain \in 0 .. grain - 1
           /\ x = grain * (x \div grain) + (x % grain)
  OBVIOUS

LEMMA Products ==
    ASSUME NEW grain \in Nat \ {0}, NEW m \in Int, NEW n \in Int, m <= n
    PROVE  grain * m <= grain * n
  <1>1. PICK d \in Nat : n = m + d  BY n - m \in Nat
  <1>2. grain * d \in Nat  OBVIOUS
  <1>3. grain * n = grain * m + grain * d  BY <1>1
  <1>4. QED  BY <1>2, <1>3

LEMMA RoundedByGrows ==
    ASSUME NEW grain \in Nat \ {0}, NEW x \in Int, NEW y \in Int, x < y
    PROVE  RoundedBy(grain, x) <= RoundedBy(grain, y)
  <1> DEFINE a == x \div grain
             b == y \div grain
             r == x % grain
             q == y % grain
  <1>1. /\ a \in Int /\ b \in Int /\ r \in 0 .. grain - 1 /\ q \in 0 .. grain - 1
        /\ x = grain * a + r /\ y = grain * b + q
    BY Division
  <1>2. /\ RoundedBy(grain, x) = IF 2 * r < grain \/ (2 * r = grain /\ a % 2 = 0) THEN a ELSE a + 1
        /\ RoundedBy(grain, y) = IF 2 * q < grain \/ (2 * q = grain /\ b % 2 = 0) THEN b ELSE b + 1
    BY DEF RoundedBy
  <1> HIDE DEF a, b, r, q
  <1>3. a <= b
    <2>1. SUFFICES ASSUME b + 1 <= a PROVE FALSE  BY <1>1
    <2>2. grain * (b + 1) <= grain * a  BY <1>1, <2>1, Products
    <2>3. grain * (b + 1) = grain * b + grain  BY <1>1
    <2>4. grain * a \in Int /\ grain * b \in Int  BY <1>1
    <2>5. QED  BY <1>1, <2>2, <2>3, <2>4
  <1>4. CASE a = b
    <2>1. r < q
      <3>1. grain * a \in Int /\ grain * a = grain * b  BY <1>1, <1>4
      <3>2. QED  BY <1>1, <3>1
    <2>2. QED  BY <1>1, <1>2, <1>4, <2>1
  <1>5. CASE a # b
    <2>1. RoundedBy(grain, x) <= a + 1 /\ RoundedBy(grain, x) \in Int  BY <1>1, <1>2
    <2>2. b <= RoundedBy(grain, y) /\ RoundedBy(grain, y) \in Int  BY <1>1, <1>2
    <2>3. QED  BY <1>1, <1>3, <1>5, <2>1, <2>2
  <1>6. QED  BY <1>4, <1>5

LEMMA RoundedGrows ==
    ASSUME NEW x \in Int
    PROVE  /\ Rounded(x) \in Int /\ Rounded(0) = 0
           /\ \A y \in Int : x < y => Rounded(x) <= Rounded(y)
  <1>1. Grain \in Nat \ {0}  BY GrainAssumption
  <1>2. \A z \in Int : RoundedBy(Grain, z) \in Int
    BY <1>1, Division DEF RoundedBy
  <1>3. \A z \in Int : Rounded(z) = Grain * RoundedBy(Grain, z)
    BY DEF Rounded, RoundedBy
  <1>4. Rounded(0) = 0
    <2>1. 0 \div Grain = 0 /\ 0 % Grain = 0  BY <1>1
    <2>2. RoundedBy(Grain, 0) = 0  BY <1>1, <2>1 DEF RoundedBy
    <2>3. Rounded(0) = Grain * 0  BY <1>3, <2>2
    <2>4. QED  BY <1>1, <2>3
  <1>5. ASSUME NEW y \in Int, x < y
        PROVE  Rounded(x) <= Rounded(y)
    <2>1. RoundedBy(Grain, x) <= RoundedBy(Grain, y)  BY <1>1, <1>5, RoundedByGrows
    <2>2. Grain * RoundedBy(Grain, x) <= Grain * RoundedBy(Grain, y)
      BY <1>1, <1>2, <2>1, Products
    <2>3. QED  BY <1>3, <2>2
  <1>6. Rounded(x) \in Int
    <2>1. \A m \in Int : Grain * m \in Int  BY <1>1
    <2>2. QED  BY <1>2, <1>3, <2>1
  <1>7. QED  BY <1>4, <1>5, <1>6

-----------------------------------------------------------------------------
\* Rows with different prices.
Plain(rows) == Sortable(rows, DOMAIN rows)

\* Rows as BooksAssumption has them: their prices differ in the database too.
Storable(rows) ==
    /\ rows \in Seq([price : Int, volume : Int])
    /\ \A i, j \in DOMAIN rows : Rounded(rows[i].price) = Rounded(rows[j].price) => i = j

LEMMA StoredArePlain ==
    ASSUME NEW rows, Storable(rows)
    PROVE  /\ Plain(rows) /\ Plain(Stored(rows))
           /\ DOMAIN Stored(rows) = DOMAIN rows /\ Len(Stored(rows)) = Len(rows)
           /\ \A i \in DOMAIN rows : /\ rows[i] \in [price : Int, volume : Int]
                                     /\ Stored(rows)[i] = RoundedRow(rows[i])
  <1> DEFINE Row == [price : Int, volume : Int]
             t == Stored(rows)
  <1>1. rows \in Seq(Row) /\ Len(rows) \in Nat /\ DOMAIN rows = 1 .. Len(rows)
    BY LenProperties DEF Storable
  <1>2. \A i \in DOMAIN rows : rows[i] \in Row  BY <1>1, ElementOfSeq
  <1>3. DOMAIN t = DOMAIN rows /\ \A i \in DOMAIN rows : t[i] = RoundedRow(rows[i])
    BY DEF Stored
  <1>4. \A i \in DOMAIN rows : t[i] \in Row
    BY <1>2, <1>3, RoundedGrows DEF RoundedRow
  <1>5. t \in Seq(Row) /\ Len(t) = Len(rows)
    <2>1. t \in [1 .. Len(rows) -> Row]
      <3>1. t = [i \in 1 .. Len(rows) |-> RoundedRow(rows[i])]  BY SMTT(30), <1>1 DEF Stored
      <3>2. \A i \in 1 .. Len(rows) : RoundedRow(rows[i]) \in Row  BY <1>1, <1>3, <1>4
      <3>3. QED  BY <3>1, <3>2
    <2>2. PICK n \in Nat : n = Len(rows)  BY <1>1
    <2> HIDE DEF t
    <2>3. t \in [1 .. n -> Row]  BY <2>1, <2>2
    <2>4. t \in Seq(Row)
      <3>1. t \in UNION {[1 .. j -> Row] : j \in Nat}  BY <2>3
      <3>2. QED  BY <3>1, SeqDef, Zenon
    <2>5. Len(t) \in Nat /\ 1 .. Len(t) = 1 .. n  BY <2>3, <2>4, LenProperties
    <2>6. QED  BY <2>2, <2>4, <2>5
  <1>6. \A i, j \in DOMAIN rows : t[i].price = t[j].price => i = j
    BY <1>3 DEF RoundedRow, Storable
  <1>7. Plain(t)
    <2> HIDE DEF t
    <2>1. QED  BY <1>3, <1>5, <1>6 DEF Plain, Sortable
  <1>8. Plain(rows)  BY <1>1 DEF Plain, Sortable, Storable
  <1>9. QED  BY <1>2, <1>3, <1>5, <1>7, <1>8

\* What is stored is in the order of what was posted.
LEMMA RankedRounds ==
    ASSUME NEW rows, Storable(rows), NEW I \in SUBSET DOMAIN rows, NEW way \in {1, -1}
    PROVE  /\ DOMAIN Ranked(Stored(rows), I, way) = DOMAIN Ranked(rows, I, way)
           /\ \A k \in DOMAIN Ranked(rows, I, way) :
                 Ranked(Stored(rows), I, way)[k] = RoundedRow(Ranked(rows, I, way)[k])
  <1> DEFINE t == Stored(rows)
  <1>1. \A i \in DOMAIN rows : /\ rows[i].price \in Int
                               /\ t[i] = RoundedRow(rows[i])
                               /\ t[i].price = Rounded(rows[i].price)
    BY StoredArePlain DEF RoundedRow
  <1>2. ASSUME NEW i \in I, NEW j \in I
        PROVE  way * t[j].price < way * t[i].price <=> way * rows[j].price < way * rows[i].price
    <2> DEFINE x == rows[j].price
               y == rows[i].price
    <2>1. x \in Int /\ y \in Int /\ t[j].price = Rounded(x) /\ t[i].price = Rounded(y)  BY <1>1
    <2>2. Rounded(x) = Rounded(y) => x = y  BY DEF Storable
    <2> HIDE DEF x, y
    <2>3. /\ Rounded(x) \in Int /\ Rounded(y) \in Int
          /\ (x < y => Rounded(x) <= Rounded(y)) /\ (y < x => Rounded(y) <= Rounded(x))
      BY <2>1, RoundedGrows
    <2>4. Rounded(x) < Rounded(y) <=> x < y  BY <2>1, <2>2, <2>3
    <2>5. Rounded(y) < Rounded(x) <=> y < x  BY <2>1, <2>2, <2>3
    <2>6. CASE way = 1  BY <2>1, <2>3, <2>4, <2>6 DEF x, y
    <2>7. CASE way = -1
      <3>1. \A u, v \in Int : way * u < way * v <=> v < u  BY <2>7
      <3>2. way * Rounded(x) < way * Rounded(y) <=> way * x < way * y
        BY <2>1, <2>3, <2>5, <3>1
      <3>3. QED  BY <2>1, <3>2 DEF x, y
    <2>8. QED  BY <2>6, <2>7
  <1>3. \A i \in I : Ahead(t, I, way, i) = Ahead(rows, I, way, i)  BY <1>2 DEF Ahead
  <1>4. ASSUME NEW k \in 1 .. Cardinality(I)
        PROVE  Ranked(t, I, way)[k] = RoundedRow(Ranked(rows, I, way)[k])
    <2> DEFINE c == CHOOSE i \in I : Cardinality(Ahead(rows, I, way, i)) = k - 1
    <2>1. Ranked(rows, I, way)[k] = rows[c]  BY DEF Ranked
    <2>2. Ranked(t, I, way)[k] = t[c]
      <3>1. (CHOOSE i \in I : Cardinality(Ahead(t, I, way, i)) = k - 1) = c  BY <1>3
      <3>2. QED  BY <3>1 DEF Ranked
    <2>3. c \in I
      <3>1. Sortable(rows, I)  BY StoredArePlain DEF Plain, Sortable
      <3>2. PlacesFilled(rows, I, way)  BY <3>1, RankedPlaces
      <3>3. PICK i \in I : AtItsPlace(rows, I, way, i, k)  BY <3>2 DEF PlacesFilled
      <3>4. Cardinality(Ahead(rows, I, way, i)) = k - 1
        BY <3>1, <3>3, KeysAreDistinct DEF AtItsPlace
      <3>5. QED  BY <3>4
    <2> HIDE DEF c
    <2>4. QED  BY <1>1, <2>1, <2>2, <2>3
  <1>5. DOMAIN Ranked(t, I, way) = 1 .. Cardinality(I) /\ DOMAIN Ranked(rows, I, way) = 1 .. Cardinality(I)
    BY DEF Ranked
  <1>6. QED  BY <1>4, <1>5

LEMMA PlainSides ==
    ASSUME NEW b, Plain(b)
    PROVE  Sortable(b, Buying(b)) /\ Sortable(b, Selling(b))
  BY SMTT(30) DEF Plain, Sortable, Buying, Selling

LEMMA DetailsArePlain ==
    ASSUME NEW b, Plain(b)
    PROVE  /\ Plain(Details(b)) /\ Len(Details(b)) = Len(b)
           /\ RowsOf(Details(b), DOMAIN Details(b)) = RowsOf(b, DOMAIN b)
  <1> DEFINE Row == [price : Int, volume : Int]
             I == DOMAIN b
             d == Details(b)
  <1>1. b \in Seq(Row) /\ I = 1 .. Len(b) /\ Len(b) \in Nat
    BY LenProperties DEF Plain, Sortable
  <1>2. Cardinality(I) = Len(b)
    <2>1. PICK n \in Nat : n = Len(b)  BY <1>1
    <2>2. Cardinality(1 .. n) = IF 1 > n THEN 0 ELSE n - 1 + 1  BY FS_Interval
    <2>3. QED  BY <1>1, <2>1, <2>2
  <1>3. Sortable(b, I)  BY DEF Plain
  <1>4. d = Ranked(b, I, 1)  BY DEF Details
  <1>5. d \in Seq(Row) /\ Len(d) = Len(b)
    <2>1. 1 \in {1, -1}  OBVIOUS
    <2>2. Ranked(b, I, 1) \in Seq(Row) /\ Len(Ranked(b, I, 1)) = Cardinality(I)
      BY <1>3, <2>1, RankedIsSeq
    <2>3. QED  BY <1>2, <1>4, <2>2
  <1>6. DOMAIN d = 1 .. Len(b)  BY <1>5, LenProperties
  <1>7. ASSUME NEW k \in 1 .. Len(b), NEW l \in 1 .. Len(b), d[k].price = d[l].price
        PROVE  k = l
    <2>1. \A m, n \in 1 .. Len(b) : m < n => d[m].price < d[n].price
      <3>1. ASSUME NEW m \in 1 .. Len(b), NEW n \in 1 .. Len(b), m < n
            PROVE  1 * d[m].price < 1 * d[n].price
        <4>1. 1 \in {1, -1} /\ m \in 1 .. Cardinality(I) /\ n \in 1 .. Cardinality(I)  BY <1>2
        <4>2. 1 * Ranked(b, I, 1)[m].price < 1 * Ranked(b, I, 1)[n].price
          BY <1>3, <3>1, <4>1, RankedIncreases
        <4>3. QED  BY <1>4, <4>2
      <3>2. \A m \in 1 .. Len(b) : d[m] \in Row
        <4> HIDE DEF d
        <4>1. QED  BY <1>5, ElementOfSeq
      <3>3. \A m \in 1 .. Len(b) : d[m].price \in Int  BY <3>2
      <3>4. QED  BY <3>1, <3>3
    <2>2. d[k].price \in Int
      <3> HIDE DEF d
      <3>1. d[k] \in Row  BY <1>5, ElementOfSeq
      <3>2. QED  BY <3>1
    <2>3. ~(k < l) /\ ~(l < k)
      <3> HIDE DEF d
      <3>1. ~(d[k].price < d[l].price) /\ ~(d[l].price < d[k].price)  BY <1>7, <2>2
      <3>2. QED  BY <2>1, <3>1
    <2>4. QED  BY <1>1, <2>3
  <1>8. RowsOf(d, DOMAIN d) = RowsOf(b, I)
    <2>1. PlacesFilled(b, I, 1) /\ RowsPlaced(b, I, 1)
      <3>1. 1 \in {1, -1}  OBVIOUS
      <3>2. QED  BY <1>3, <3>1, RankedPlaces
    <2>2. \A k \in 1 .. Len(b) : \E i \in I : d[k] = b[i]
      BY <1>2, <1>4, <2>1 DEF PlacesFilled, AtItsPlace
    <2>3. \A i \in I : \E k \in 1 .. Len(b) : d[k] = b[i]
      BY <1>2, <1>4, <2>1 DEF RowsPlaced, AtItsPlace
    <2> HIDE DEF d, I
    <2>4. RowsOf(d, DOMAIN d) = {d[k] : k \in 1 .. Len(b)}  BY <1>6 DEF RowsOf
    <2>5. \A r : r \in {d[k] : k \in 1 .. Len(b)} <=> r \in {b[i] : i \in I}  BY <2>2, <2>3
    <2>6. QED  BY <2>4, <2>5 DEF RowsOf
  <1>9. Plain(d)
    <2> HIDE DEF d
    <2>1. QED  BY <1>5, <1>6, <1>7 DEF Plain, Sortable
  <1>10. QED  BY <1>5, <1>8, <1>9

\* The query returns the rows of a book in another order, of which the sides,
\* sorted again, show nothing.
LEMMA SidesForget ==
    ASSUME NEW b, Plain(b)
    PROVE  /\ Bids(Details(b)) = Bids(b) /\ Asks(Details(b)) = Asks(b)
           /\ Depth(Details(b)) = Depth(b)
  <1> DEFINE d == Details(b)
  <1>1. Plain(d) /\ Len(d) = Len(b) /\ RowsOf(d, DOMAIN d) = RowsOf(b, DOMAIN b)
    BY DetailsArePlain
  <1> HIDE DEF d
  <1>2. RowsOf(d, Buying(d)) = RowsOf(b, Buying(b))
    <2>1. RowsOf(d, Buying(d)) = {r \in RowsOf(d, DOMAIN d) : r.volume > 0}
      BY DEF RowsOf, Buying
    <2>2. RowsOf(b, Buying(b)) = {r \in RowsOf(b, DOMAIN b) : r.volume > 0}
      BY DEF RowsOf, Buying
    <2>3. QED  BY <1>1, <2>1, <2>2
  <1>3. RowsOf(d, Selling(d)) = RowsOf(b, Selling(b))
    <2>1. RowsOf(d, Selling(d)) = {r \in RowsOf(d, DOMAIN d) : r.volume < 0}
      BY DEF RowsOf, Selling
    <2>2. RowsOf(b, Selling(b)) = {r \in RowsOf(b, DOMAIN b) : r.volume < 0}
      BY DEF RowsOf, Selling
    <2>3. QED  BY <1>1, <2>1, <2>2
  <1>4. /\ Sortable(d, Buying(d)) /\ Sortable(d, Selling(d))
        /\ Sortable(b, Buying(b)) /\ Sortable(b, Selling(b))
    BY <1>1, PlainSides
  <1>5. Bids(d) = Bids(b)
    <2>1. -1 \in {1, -1}  OBVIOUS
    <2>2. Ranked(d, Buying(d), -1) = Ranked(b, Buying(b), -1)
      BY <1>2, <1>4, <2>1, RankedForgets
    <2>3. QED  BY <2>2 DEF Bids
  <1>6. Asks(d) = Asks(b)
    <2>1. 1 \in {1, -1}  OBVIOUS
    <2>2. Ranked(d, Selling(d), 1) = Ranked(b, Selling(b), 1)
      BY <1>3, <1>4, <2>1, RankedForgets
    <2>3. QED  BY <2>2 DEF Asks
  <1>7. Depth(d) = Depth(b)  BY <1>1 DEF Depth
  <1>8. QED  BY <1>5, <1>6, <1>7 DEF d

LEMMA LoadedEntryIs ==
    ASSUME NEW b, Storable(b.rows)
    PROVE  LoadedEntry(b) = EntryOf(Alias[b.security], Rounded(b.timestamp), Stored(b.rows))
  <1> DEFINE t == Stored(b.rows)
  <1>1. Plain(t)  BY StoredArePlain
  <1> HIDE DEF t
  <1>2. /\ Bids(Details(t)) = Bids(t) /\ Asks(Details(t)) = Asks(t)
        /\ Depth(Details(t)) = Depth(t)
    BY <1>1, SidesForget
  <1>3. QED  BY <1>2 DEF LoadedEntry, EntryOf, t

\* The cells of stored rows are those of the posted ones, rounded.
LEMMA CellsRound ==
    ASSUME NEW rows, Storable(rows), KeepsVolumes(rows)
    PROVE  LET cells == Fill(Depth(rows), Bids(rows), Asks(rows))
               stored == Fill(Depth(Stored(rows)), Bids(Stored(rows)), Asks(Stored(rows)))
           IN stored = [k \in DOMAIN cells |-> RoundedRow(cells[k])]
  <1> DEFINE t == Stored(rows)
             bids == Bids(rows)
             asks == Asks(rows)
             tbids == Bids(t)
             tasks == Asks(t)
             d == Depth(rows)
  <1>1. /\ DOMAIN t = DOMAIN rows /\ Len(t) = Len(rows)
        /\ \A i \in DOMAIN rows : rows[i].volume \in Int /\ t[i].volume = Rounded(rows[i].volume)
    <2>1. /\ DOMAIN t = DOMAIN rows /\ Len(t) = Len(rows)
          /\ \A i \in DOMAIN rows : /\ rows[i] \in [price : Int, volume : Int]
                                    /\ t[i] = RoundedRow(rows[i])
      BY StoredArePlain
    <2>2. QED  BY <2>1 DEF RoundedRow
  <1>2. ASSUME NEW i \in DOMAIN rows
        PROVE  /\ t[i].volume > 0 <=> rows[i].volume > 0
               /\ t[i].volume < 0 <=> rows[i].volume < 0
    <2> DEFINE v == rows[i].volume
    <2>1. v \in Int /\ t[i].volume = Rounded(v) /\ (v # 0 => Rounded(v) # 0)
      BY <1>1 DEF KeepsVolumes
    <2> HIDE DEF v
    <2>2. /\ Rounded(v) \in Int /\ Rounded(0) = 0
          /\ (v < 0 => Rounded(v) <= Rounded(0)) /\ (0 < v => Rounded(0) <= Rounded(v))
      BY <2>1, RoundedGrows
    <2>3. (Rounded(v) > 0 <=> v > 0) /\ (Rounded(v) < 0 <=> v < 0)  BY <2>1, <2>2
    <2>4. QED  BY <2>1, <2>3 DEF v
  <1>3. Buying(t) = Buying(rows) /\ Selling(t) = Selling(rows)
    BY <1>1, <1>2 DEF Buying, Selling
  <1>4. /\ Buying(rows) \in SUBSET DOMAIN rows /\ Selling(rows) \in SUBSET DOMAIN rows
        /\ 1 \in {1, -1} /\ -1 \in {1, -1}
    BY DEF Buying, Selling
  <1>5. /\ DOMAIN tbids = DOMAIN bids
        /\ \A k \in DOMAIN bids : tbids[k] = RoundedRow(bids[k])
    BY <1>3, <1>4, RankedRounds DEF Bids
  <1>6. /\ DOMAIN tasks = DOMAIN asks
        /\ \A k \in DOMAIN asks : tasks[k] = RoundedRow(asks[k])
    BY <1>3, <1>4, RankedRounds DEF Asks
  <1>7. /\ bids \in Seq([price : Int, volume : Int]) /\ asks \in Seq([price : Int, volume : Int])
        /\ tbids \in Seq([price : Int, volume : Int]) /\ tasks \in Seq([price : Int, volume : Int])
    <2>1. Plain(rows) /\ Plain(t)  BY StoredArePlain
    <2>2. /\ Sortable(rows, Buying(rows)) /\ Sortable(rows, Selling(rows))
          /\ Sortable(t, Buying(t)) /\ Sortable(t, Selling(t))
      BY <2>1, PlainSides
    <2>3. QED  BY <1>4, <2>2, RankedIsSeq DEF Bids, Asks
  <1> HIDE DEF bids, asks, tbids, tasks
  <1>8. /\ Len(tbids) = Len(bids) /\ Len(tasks) = Len(asks)
        /\ DOMAIN bids = 1 .. Len(bids) /\ DOMAIN asks = 1 .. Len(asks)
        /\ Len(bids) \in Nat /\ Len(asks) \in Nat
    <2>1. /\ DOMAIN bids = 1 .. Len(bids) /\ DOMAIN asks = 1 .. Len(asks)
          /\ DOMAIN tbids = 1 .. Len(tbids) /\ DOMAIN tasks = 1 .. Len(tasks)
          /\ Len(bids) \in Nat /\ Len(asks) \in Nat /\ Len(tbids) \in Nat /\ Len(tasks) \in Nat
      BY <1>7, LenProperties
    <2>2. 1 .. Len(tbids) = 1 .. Len(bids) /\ 1 .. Len(tasks) = 1 .. Len(asks)
      BY <1>5, <1>6, <2>1
    <2>3. \A m, n \in Nat : 1 .. m = 1 .. n => m = n
      <3>1. ASSUME NEW m \in Nat, NEW n \in Nat, 1 .. m = 1 .. n, m # n  PROVE FALSE
        <4>1. m + 1 \in 1 .. n \/ n + 1 \in 1 .. m  BY SMTT(30), <3>1
        <4>2. m + 1 \notin 1 .. m /\ n + 1 \notin 1 .. n  OBVIOUS
        <4>3. QED  BY <3>1, <4>1, <4>2
      <3>2. QED  BY <3>1
    <2>4. Len(tbids) = Len(bids) /\ Len(tasks) = Len(asks)  BY <2>1, <2>2, <2>3
    <2>5. QED  BY <2>1, <2>3, <2>4
  <1>9. Depth(t) = d /\ d \in Int
    BY <1>1, LenProperties DEF Depth, Storable
  <1>10. RoundedRow(NoRow) = NoRow
    <2>1. Rounded(0) = 0  BY RoundedGrows
    <2>2. QED  BY <2>1 DEF RoundedRow, NoRow
  <1> DEFINE cells == Fill(d, bids, asks)
             stored == Fill(d, tbids, tasks)
  <1> HIDE DEF d, t
  <1>11. DOMAIN cells = 0 .. 2 * d - 1 /\ DOMAIN stored = 0 .. 2 * d - 1  BY DEF Fill
  <1>12. ASSUME NEW k \in 0 .. 2 * d - 1
         PROVE  stored[k] = RoundedRow(cells[k])
    <2>1. CASE k >= d /\ k - d < Len(asks)
      <3>1. k - d + 1 \in 1 .. Len(asks)  BY <1>8, <1>9, <2>1
      <3>2. cells[k] = asks[k - d + 1] /\ stored[k] = tasks[k - d + 1]
        BY <1>8, <2>1 DEF Fill
      <3>3. QED  BY <1>6, <1>8, <3>1, <3>2
    <2>2. CASE ~(k >= d /\ k - d < Len(asks)) /\ k < Len(bids)
      <3>1. k + 1 \in 1 .. Len(bids)  BY <1>8, <1>9, <2>2
      <3>2. cells[k] = bids[k + 1] /\ stored[k] = tbids[k + 1]
        BY <1>8, <2>2 DEF Fill
      <3>3. QED  BY <1>5, <1>8, <3>1, <3>2
    <2>3. CASE ~(k >= d /\ k - d < Len(asks)) /\ ~(k < Len(bids))
      BY <1>8, <1>10, <2>3 DEF Fill
    <2>4. QED  BY <2>1, <2>2, <2>3
  <1>13. stored = [k \in DOMAIN cells |-> RoundedRow(cells[k])]
    <2>1. stored = [k \in 0 .. 2 * d - 1 |-> stored[k]]  BY DEF Fill
    <2>2. QED  BY <1>11, <1>12, <2>1
  <1>14. QED  BY <1>9, <1>13 DEF d, t, bids, asks, tbids, tasks

\* The sides of a book, as they are in its entry.
LEMMA SidesAreSorted ==
    ASSUME NEW b, Plain(b)
    PROVE  /\ Len(Bids(b)) \in Nat /\ Len(Asks(b)) \in Nat
           /\ \A k, l \in 1 .. Len(Bids(b)) : k < l => Bids(b)[l].price < Bids(b)[k].price
           /\ \A k, l \in 1 .. Len(Asks(b)) : k < l => Asks(b)[k].price < Asks(b)[l].price
           /\ \A k \in 1 .. Len(Bids(b)) : \E i \in Buying(b) : Bids(b)[k] = b[i]
           /\ \A k \in 1 .. Len(Asks(b)) : \E i \in Selling(b) : Asks(b)[k] = b[i]
  <1> DEFINE B == Buying(b)
             S == Selling(b)
             Row == [price : Int, volume : Int]
  <1>1. Sortable(b, B) /\ Sortable(b, S) /\ -1 \in {1, -1} /\ 1 \in {1, -1}  BY PlainSides
  <1>2. Bids(b) = Ranked(b, B, -1) /\ Asks(b) = Ranked(b, S, 1)  BY DEF Bids, Asks
  <1>3. /\ Ranked(b, B, -1) \in Seq(Row) /\ Len(Ranked(b, B, -1)) = Cardinality(B)
        /\ Cardinality(B) \in Nat
    BY <1>1, RankedIsSeq
  <1>4. /\ Ranked(b, S, 1) \in Seq(Row) /\ Len(Ranked(b, S, 1)) = Cardinality(S)
        /\ Cardinality(S) \in Nat
    BY <1>1, RankedIsSeq
  <1>5. ASSUME NEW k \in 1 .. Cardinality(B)
        PROVE  Ranked(b, B, -1)[k].price \in Int
    <2>1. Ranked(b, B, -1)[k] \in Row  BY <1>3, ElementOfSeq
    <2>2. QED  BY <2>1
  <1>6. ASSUME NEW k \in 1 .. Cardinality(S)
        PROVE  Ranked(b, S, 1)[k].price \in Int
    <2>1. Ranked(b, S, 1)[k] \in Row  BY <1>4, ElementOfSeq
    <2>2. QED  BY <2>1
  <1>7. ASSUME NEW k \in 1 .. Cardinality(B), NEW l \in 1 .. Cardinality(B), k < l
        PROVE  Ranked(b, B, -1)[l].price < Ranked(b, B, -1)[k].price
    <2>1. (-1) * Ranked(b, B, -1)[k].price < (-1) * Ranked(b, B, -1)[l].price
      BY <1>1, <1>7, RankedIncreases
    <2>2. PICK x \in Int : x = Ranked(b, B, -1)[k].price  BY <1>5
    <2>3. PICK y \in Int : y = Ranked(b, B, -1)[l].price  BY <1>5
    <2>4. (-1) * x < (-1) * y  BY <2>1, <2>2, <2>3
    <2>5. QED  BY <2>2, <2>3, <2>4
  <1>8. ASSUME NEW k \in 1 .. Cardinality(S), NEW l \in 1 .. Cardinality(S), k < l
        PROVE  Ranked(b, S, 1)[k].price < Ranked(b, S, 1)[l].price
    <2>1. 1 * Ranked(b, S, 1)[k].price < 1 * Ranked(b, S, 1)[l].price
      BY <1>1, <1>8, RankedIncreases
    <2>2. PICK x \in Int : x = Ranked(b, S, 1)[k].price  BY <1>6
    <2>3. PICK y \in Int : y = Ranked(b, S, 1)[l].price  BY <1>6
    <2>4. 1 * x < 1 * y  BY <2>1, <2>2, <2>3
    <2>5. QED  BY <2>2, <2>3, <2>4
  <1>9. PlacesFilled(b, B, -1) /\ PlacesFilled(b, S, 1)  BY <1>1, RankedPlaces
  <1>10. \A k \in 1 .. Cardinality(B) : \E i \in B : Ranked(b, B, -1)[k] = b[i]
    BY <1>9 DEF PlacesFilled, AtItsPlace
  <1>11. \A k \in 1 .. Cardinality(S) : \E i \in S : Ranked(b, S, 1)[k] = b[i]
    BY <1>9 DEF PlacesFilled, AtItsPlace
  <1> HIDE DEF B, S
  <1>12. QED
    BY <1>2, <1>3, <1>4, <1>7, <1>8, <1>10, <1>11 DEF B, S

\* What is drawn of it: the cells from the lowest price to the highest.
LEMMA CellsAreDrawnByPrice ==
    ASSUME NEW b, Plain(b), Balanced(b), Uncrossed(b), NEW half, Depth(b) = half,
           NEW j \in 1 .. 2 * half - 1
    PROVE  LET cells == Fill(Depth(b), Bids(b), Asks(b))
           IN cells[DrawnCell(half, j - 1)].price < cells[DrawnCell(half, j)].price
  <1> DEFINE bids == Bids(b)
             asks == Asks(b)
             cells == Fill(Depth(b), bids, asks)
  <1>1. /\ half \in Nat /\ Len(bids) = half /\ Len(asks) = half
        /\ \A k, l \in 1 .. half : k < l => bids[l].price < bids[k].price
        /\ \A k, l \in 1 .. half : k < l => asks[k].price < asks[l].price
    BY SidesAreSorted DEF Balanced
  <1>2. \A k, l \in 1 .. half : bids[k].price < asks[l].price
    <2>1. /\ \A k \in 1 .. Len(bids) : \E i \in Buying(b) : bids[k] = b[i]
          /\ \A l \in 1 .. Len(asks) : \E i \in Selling(b) : asks[l] = b[i]
      BY SidesAreSorted
    <2>2. ASSUME NEW k \in 1 .. half, NEW l \in 1 .. half
          PROVE  bids[k].price < asks[l].price
      <3>1. PICK i \in Buying(b) : bids[k] = b[i]  BY <1>1, <2>1
      <3>2. PICK h \in Selling(b) : asks[l] = b[h]  BY <1>1, <2>1
      <3>3. b[i].price < b[h].price  BY DEF Uncrossed
      <3>4. QED  BY <3>1, <3>2, <3>3
    <2>3. QED  BY <2>2
  <1>3. \A k \in 0 .. half - 1 : cells[k] = bids[k + 1]
    BY <1>1 DEF Fill
  <1>4. \A k \in half .. 2 * half - 1 : cells[k] = asks[k - half + 1]
    BY <1>1 DEF Fill
  <1> HIDE DEF bids, asks, cells
  <1>5. j \in Int /\ 1 <= j /\ j <= 2 * half - 1  BY <1>1
  <1>6. CASE j < half
    <2>1. DrawnCell(half, j - 1) = half - j /\ DrawnCell(half, j) = half - 1 - j
      BY <1>1, <1>5, <1>6 DEF DrawnCell
    <2>2. half - j \in 0 .. half - 1 /\ half - 1 - j \in 0 .. half - 1
      BY <1>1, <1>5, <1>6
    <2>3. cells[half - j] = bids[half - j + 1] /\ cells[half - 1 - j] = bids[half - j]
      <3>1. half - 1 - j + 1 = half - j  BY <1>1, <1>5
      <3>2. QED  BY <1>3, <2>2, <3>1
    <2>4. half - j \in 1 .. half /\ half - j + 1 \in 1 .. half /\ half - j < half - j + 1
      BY <1>1, <1>5, <1>6
    <2>5. bids[half - j + 1].price < bids[half - j].price  BY <1>1, <2>4
    <2>6. QED  BY <2>1, <2>3, <2>5 DEF cells, bids, asks
  <1>7. CASE j = half
    <2>1. DrawnCell(half, j - 1) = 0 /\ DrawnCell(half, j) = half
      BY <1>1, <1>5, <1>7 DEF DrawnCell
    <2>2. 0 \in 0 .. half - 1 /\ half \in half .. 2 * half - 1 /\ half - half + 1 = 1 /\ 0 + 1 = 1
      BY <1>1, <1>5, <1>7
    <2>3. cells[0] = bids[1] /\ cells[half] = asks[1]  BY <1>3, <1>4, <2>2
    <2>4. 1 \in 1 .. half  BY <1>1, <1>5, <1>7
    <2>5. bids[1].price < asks[1].price  BY <1>2, <2>4
    <2>6. QED  BY <2>1, <2>3, <2>5 DEF cells, bids, asks
  <1>8. CASE j > half
    <2>1. DrawnCell(half, j - 1) = j - 1 /\ DrawnCell(half, j) = j
      BY <1>1, <1>5, <1>8 DEF DrawnCell
    <2>2. j - 1 \in half .. 2 * half - 1 /\ j \in half .. 2 * half - 1
      BY <1>1, <1>5, <1>8
    <2>3. cells[j - 1] = asks[j - half] /\ cells[j] = asks[j - half + 1]
      <3>1. j - 1 - half + 1 = j - half  BY <1>1, <1>5
      <3>2. QED  BY <1>4, <2>2, <3>1
    <2>4. j - half \in 1 .. half /\ j - half + 1 \in 1 .. half /\ j - half < j - half + 1
      BY <1>1, <1>5, <1>8
    <2>5. asks[j - half].price < asks[j - half + 1].price  BY <1>1, <2>4
    <2>6. QED  BY <2>1, <2>3, <2>5 DEF cells, bids, asks
  <1>9. QED  BY <1>1, <1>5, <1>6, <1>7, <1>8

\* The books of the workset have been posted, and are as BooksAssumption says.
LEMMA PostedBooksAreStorable ==
    ASSUME ServiceInv, NEW i \in DOMAIN ws
    PROVE  Storable(book[ws[i].post].rows)
  <1>1. Typed /\ Known  BY DEF ServiceInv
  <1>2. DOMAIN ws = 1 .. Len(ws)  BY <1>1, LenProperties DEF Typed
  <1>3. ws[i].post \in 1 .. Len(book)
    <2>1. ws[i].post \in 1 .. MaxPosts /\ ws[i].post <= posted /\ posted \in Nat /\ MaxPosts \in Nat
      BY <1>1, <1>2, Elements DEF Known, Post
    <2>2. Len(book) = posted  BY <1>1 DEF Typed
    <2>3. QED  BY <2>1, <2>2
  <1>4. book[ws[i].post] \in Books
    <2>1. book \in Seq(Books)  BY <1>1 DEF Typed
    <2>2. QED  BY <1>3, <2>1, ElementOfSeq
  <1>5. QED  BY <1>4, BooksAssumption DEF WellFormed, Storable

\* The preload makes of the rows in the database what add_orderbook made of the
\* request, cell by cell, but for the alias of the security and the decimals
\* that std::to_string drops.
THEOREM RestartRoundsEntries == Spec => []LoadedIsRounded
  <1>1. ServiceInv => LoadedIsRounded
    <2> SUFFICES ASSUME ServiceInv, NEW i \in DOMAIN ws, ~ws[i].live,
                        KeepsVolumes(book[ws[i].post].rows)
                 PROVE  Entry(ws[i]) = Restored(LiveEntry(book[ws[i].post]))
      BY DEF LoadedIsRounded
    <2> DEFINE b == book[ws[i].post]
               cells == Fill(Depth(b.rows), Bids(b.rows), Asks(b.rows))
               t == Stored(b.rows)
    <2>1. Storable(b.rows)  BY PostedBooksAreStorable
    <2>2. KeepsVolumes(b.rows)  OBVIOUS
    <2>3. Entry(ws[i]) = LoadedEntry(b)  BY DEF Entry
    <2> HIDE DEF b
    <2>4. LoadedEntry(b) = EntryOf(Alias[b.security], Rounded(b.timestamp), t)
      BY <2>1, LoadedEntryIs
    <2>5. /\ Fill(Depth(t), Bids(t), Asks(t)) = [k \in DOMAIN cells |-> RoundedRow(cells[k])]
          /\ Depth(t) = Depth(b.rows)
      BY <2>1, <2>2, CellsRound, StoredArePlain DEF Depth
    <2>6. LiveEntry(b) = [security |-> b.security, timestamp |-> b.timestamp,
                          depth |-> Depth(b.rows), cells |-> cells]
      BY DEF LiveEntry, EntryOf
    <2>7. EntryOf(Alias[b.security], Rounded(b.timestamp), t)
             = [security |-> Alias[b.security], timestamp |-> Rounded(b.timestamp),
                depth |-> Depth(b.rows), cells |-> [k \in DOMAIN cells |-> RoundedRow(cells[k])]]
      BY <2>5 DEF EntryOf
    <2> HIDE DEF cells, t
    <2>8. Restored(LiveEntry(b))
             = [security |-> Alias[b.security], timestamp |-> Rounded(b.timestamp),
                depth |-> Depth(b.rows), cells |-> [k \in DOMAIN cells |-> RoundedRow(cells[k])]]
      BY <2>6 DEF Restored
    <2>9. QED  BY <2>3, <2>4, <2>7, <2>8 DEF b
  <1>2. QED  BY InvIsKept, <1>1, PTL

\* draw_workset_png draws every entry of the depth it assumes from the lowest
\* price to the highest, when the sides of its rows are as long as each other
\* and do not overlap, whether the entry was pushed by a request or preloaded.
THEOREM ColumnsAreDrawnByPrice == Spec => []DrawnByPrice
  <1>1. ServiceInv => DrawnByPrice
    <2> SUFFICES ASSUME ServiceInv, NEW i \in DOMAIN ws,
                        NEW b, b = book[ws[i].post],
                        NEW rows, rows = (IF ws[i].live THEN b.rows ELSE Stored(b.rows)),
                        Entry(ws[i]).depth = HalfColumn,
                        Balanced(rows), Uncrossed(rows),
                        NEW j \in 1 .. 2 * HalfColumn - 1
                 PROVE  Entry(ws[i]).cells[DrawnCell(HalfColumn, j - 1)].price
                           < Entry(ws[i]).cells[DrawnCell(HalfColumn, j)].price
      BY DEF DrawnByPrice
    <2>1. Storable(b.rows)  BY PostedBooksAreStorable
    <2>2. Plain(rows)  BY <2>1, StoredArePlain
    <2>3. /\ Entry(ws[i]).depth = Depth(rows)
          /\ Entry(ws[i]).cells = Fill(Depth(rows), Bids(rows), Asks(rows))
      <3>1. CASE ws[i].live
        BY <3>1 DEF Entry, LiveEntry, EntryOf
      <3>2. CASE ~ws[i].live
        <4>1. Entry(ws[i]) = EntryOf(Alias[b.security], Rounded(b.timestamp), rows)
          BY <2>1, <3>2, LoadedEntryIs DEF Entry
        <4>2. QED  BY <4>1 DEF EntryOf
      <3>3. QED  BY <3>1, <3>2
    <2>4. Depth(rows) = HalfColumn  BY <2>3
    <2>5. QED  BY <2>2, <2>3, <2>4, CellsAreDrawnByPrice
  <1>2. QED  BY InvIsKept, <1>1, PTL

=============================================================================
