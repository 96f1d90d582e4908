----------------------------- MODULE Orderbook -----------------------------
(***************************************************************************)
(* quant::OrderbookEntry, how the two writers of the workset fill it - the *)
(* handler of a request and the preload from the database - and the order  *)
(* in which it is drawn.                                                   *)
(*                                                                         *)
(* A book is a security, a time and rows, a price and a volume each,       *)
(* positive to buy and negative to sell.  An entry is a header of security *)
(* and time, and depth * 2 cells of two doubles, bids first.  Numbers are  *)
(* integers, of which the text std::to_string makes keeps multiples of     *)
(* Grain: six decimals.                                                    *)
(***************************************************************************)
EXTENDS Integers, Sequences, FiniteSets

CONSTANTS Alias,  \* the alias_id of each security in the database
          Grain   \* 0.000001, in the unit of the numbers

ASSUME GrainAssumption == Grain \in Nat \ {0}

NoRow == [price |-> 0, volume |-> 0]

Depth(rows) == Len(rows) \div 2

\* The rows of s at the indexes I by price, from the lowest if way is 1 and from
\* the highest if it is -1: the k-th has k - 1 others before it.
Ahead(s, I, way, i) == {j \in I : way * s[j].price < way * s[i].price}
Ranked(s, I, way) ==
    [k \in 1 .. Cardinality(I) |-> s[CHOOSE i \in I : Cardinality(Ahead(s, I, way, i)) = k - 1]]

\* Rows of one side, best first.
Buying(rows) == {i \in DOMAIN rows : rows[i].volume > 0}
Selling(rows) == {i \in DOMAIN rows : rows[i].volume < 0}
Bids(rows) == Ranked(rows, Buying(rows), -1)
Asks(rows) == Ranked(rows, Selling(rows), 1)

\* The cells of an entry: bids() are those from 0 on and asks() those from
\* depth on; more bids than depth run into the asks, which are written last.
Fill(depth, bids, asks) ==
    [k \in 0 .. 2 * depth - 1 |->
        IF k >= depth /\ k - depth < Len(asks) THEN asks[k - depth + 1]
        ELSE IF k < Len(bids) THEN bids[k + 1] ELSE NoRow]

\* More asks than depth are written beyond the entry; the code does not check.
WithinEntry(rows) == Len(Asks(rows)) <= Depth(rows)

\* What both writers make: a header, and the sides sorted.
EntryOf(security, timestamp, rows) ==
    [security |-> security, timestamp |-> timestamp, depth |-> Depth(rows),
     cells |-> Fill(Depth(rows), Bids(rows), Asks(rows))]

\* The entry that add_orderbook pushes for a request.
LiveEntry(book) == EntryOf(book.security, book.timestamp, book.rows)

\* std::to_string of a double, and the number the database reads from it: the
\* nearest of six decimals, the even one of two that are equally near.
Rounded(x) ==
    LET below == x \div Grain
        rest == x % Grain
    IN Grain * (IF 2 * rest < Grain \/ (2 * rest = Grain /\ below % 2 = 0)
                THEN below ELSE below + 1)

RoundedRow(row) == [price |-> Rounded(row.price), volume |-> Rounded(row.volume)]

\* The rows that the writer inserts, ...
Stored(rows) == [i \in DOMAIN rows |-> RoundedRow(rows[i])]

\* ... and as the preload's query returns them.
Details(rows) == Ranked(rows, DOMAIN rows, 1)

\* A defect: the bids stay in the order of the query.
UnsortedEntry(book) ==
    LET rows == Details(Stored(book.rows)) IN
    [security |-> Alias[book.security], timestamp |-> Rounded(book.timestamp),
     depth |-> Depth(rows),
     cells |-> Fill(Depth(rows), Ranked(rows, Buying(rows), 1), Asks(rows))]

\* The entry that preload_workset_async pushes for it.
LoadedEntry(book) ==
    EntryOf(Alias[book.security], Rounded(book.timestamp), Details(Stored(book.rows)))

\* A defect: the bids are drawn from the first cell.
ForwardCell(half, j) == j

\* draw_workset_png: the cell of line j of a column; half is 50 in the code,
\* whatever the depth of the entry.
DrawnCell(half, j) == IF j < half THEN half - 1 - j ELSE j

=============================================================================
