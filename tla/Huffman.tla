------------------------------ MODULE Huffman ------------------------------
(***************************************************************************)
(* The Huffman codes of lodepng (src/externals/lodepng/lodepng.cpp, used   *)
(* by quant::Utils::draw_workset_png): the boundary package merge that     *)
(* chooses the code lengths, the canonical codes made from lengths, the    *)
(* tree the decoder walks, and the two trees of fixed blocks.              *)
(*                                                                         *)
(* A table of frequencies, lengths or codes is a function on 0 .. n - 1.   *)
(* A chain of the package merge, a linked list in the code, is its weight  *)
(* and the sequence of the leaf counts of its nodes; the memory pool of    *)
(* the nodes and its collector are left out, an allocation never fails.    *)
(***************************************************************************)
EXTENDS Integers, SequencesExt

NUM_DEFLATE_CODE_SYMBOLS == 288
NUM_DISTANCE_SYMBOLS == 32
NUM_CODE_LENGTH_CODES == 19

(* The base and the number of extra bits of the length codes 257 .. 285    *)
(* and of the distance codes, from position 1; the order in which the      *)
(* lengths of the code length codes are stored.                            *)
LENGTHBASE ==
  <<3, 4, 5, 6, 7, 8, 9, 10, 11, 13, 15, 17, 19, 23, 27, 31, 35, 43, 51, 59,
    67, 83, 99, 115, 131, 163, 195, 227, 258>>
LENGTHEXTRA == [i \in 1 .. 29 |-> IF i <= 4 \/ i = 29 THEN 0 ELSE (i - 5) \div 4]
DISTANCEBASE ==
  <<1, 2, 3, 4, 5, 7, 9, 13, 17, 25, 33, 49, 65, 97, 129, 193, 257, 385, 513,
    769, 1025, 1537, 2049, 3073, 4097, 6145, 8193, 12289, 16385, 24577>>
DISTANCEEXTRA == [i \in 1 .. 30 |-> IF i <= 2 THEN 0 ELSE (i - 3) \div 2]
CLCL_ORDER == <<16, 17, 18, 0, 8, 7, 9, 6, 10, 5, 11, 4, 12, 3, 13, 2, 14, 1, 15>>

Bit(v, k) == (v \div 2^k) % 2

(* F(x), with x evaluated once by TLC and not at every use of it in F.     *)
With(x, F(_)) == CHOOSE y \in {F(v) : v \in {x}} : TRUE

----------------------------------------------------------------------------
(* Code lengths from frequencies                                           *)

(* Lightest first; of two symbols of one weight, the larger one first.     *)
bpmnode_compare(freq, a, b) ==
  freq[a] < freq[b] \/ (freq[a] = freq[b] /\ a > b)

LeavesInOrder(freq) ==
  SelectSeq([i \in 1 .. Cardinality(DOMAIN freq) |-> i - 1], LAMBDA s : freq[s] > 0)

Leaves(freq) ==
  SortSeq(SelectSeq([i \in 1 .. Cardinality(DOMAIN freq) |-> i - 1],
                    LAMBDA s : freq[s] > 0),
          LAMBDA a, b : bpmnode_compare(freq, a, b))

(* p.lists[c] is the pair of lookahead chains of list c, the older first;  *)
(* p.num counts the chains of the last list; w is the sequence of the      *)
(* leaves' weights. A leaf joins the chain, or the two chains of the list  *)
(* below are packed into it and replaced.                                  *)
RECURSIVE boundaryPM(_, _, _)
boundaryPM(p, w, c) ==
  LET newer == p.lists[c][2]
      last  == Head(newer.counts)
      leaf(tail) == [weight |-> w[last + 1], counts |-> <<last + 1>> \o tail]
      below == p.lists[c - 1]
      sum   == below[1].weight + below[2].weight
      pack  == [weight |-> sum, counts |-> <<last>> \o below[2].counts]
      with(chain) == [p EXCEPT !.lists[c] = <<newer, chain>>]
  IN CASE c = 0 /\ last >= Len(w) -> p
       [] c = 0 /\ last < Len(w)  -> with(leaf(<<>>))
       [] c > 0 /\ last < Len(w) /\ sum > w[last + 1] ->
            with(leaf(Tail(newer.counts)))
       [] OTHER -> IF p.num + 1 < 2 * Len(w) - 2
                   THEN boundaryPM(boundaryPM(with(pack), w, c - 1), w, c - 1)
                   ELSE with(pack)

RECURSIVE MergeRounds(_, _, _)
MergeRounds(p, w, top) ==
  IF p.num = 2 * Len(w) - 2 THEN p.lists[top][2].counts
  ELSE MergeRounds([boundaryPM(p, w, top) EXCEPT !.num = @ + 1], w, top)

(* The refusals of an empty alphabet and of one of more than 2^maxbitlen   *)
(* symbols are left out: no caller asks for these.                         *)
lodepng_huffman_code_lengths(freq, maxbitlen) ==
  LET leaves == Leaves(freq)
      n      == Len(leaves)
      w      == [i \in 1 .. n |-> freq[leaves[i]]]
      start  == <<[weight |-> w[1], counts |-> <<1>>],
                  [weight |-> w[2], counts |-> <<2>>]>>
      final  == MergeRounds([lists |-> [c \in 0 .. maxbitlen - 1 |-> start], num |-> 2],
                            w, maxbitlen - 1)
      deep(i) == Cardinality({j \in DOMAIN final : final[j] >= i})
      pair(s) == {s, IF s = 0 THEN 1 ELSE 0}
  IN CASE n = 0 -> [s \in DOMAIN freq |-> IF s \in {0, 1} THEN 1 ELSE 0]
       [] n = 1 -> [s \in DOMAIN freq |-> IF s \in pair(leaves[1]) THEN 1 ELSE 0]
       [] OTHER -> LET length == [i \in 1 .. n |-> deep(i)]
                   IN [s \in DOMAIN freq |->
                         IF freq[s] = 0 THEN 0
                         ELSE length[CHOOSE i \in 1 .. n : leaves[i] = s]]

----------------------------------------------------------------------------
(* Codes and the decoder's tree from code lengths                          *)

(* Canonical codes. The count of the absent symbols, of length 0, enters   *)
(* the first code of length 1: it shifts every code by a multiple of       *)
(* 2^length, of which the bit writers use the low length bits only.        *)
Codes(lengths, maxbitlen) ==
  LET blcount[b \in 0 .. maxbitlen] ==
        Cardinality({s \in DOMAIN lengths : lengths[s] = b})
      nextcode[b \in 0 .. maxbitlen] ==
        IF b = 0 THEN 0 ELSE 2 * (nextcode[b - 1] + blcount[b - 1])
  IN [s \in DOMAIN lengths |->
        IF lengths[s] = 0 THEN 0
        ELSE nextcode[lengths[s]]
             + Cardinality({t \in 0 .. s - 1 : lengths[t] = lengths[s]})]

CodeBits(code, length) == [i \in 1 .. length |-> Bit(code, length - i)]

(* tree2d of the code: a filled slot holds a symbol, or numcodes plus the  *)
(* number of another node. t.at is the node reached, which an unsigned     *)
(* underflow of the code makes negative here; 55 is the error of a code    *)
(* that is over-subscribed or needs more nodes than there is room for.     *)
Unfilled == 32767

RECURSIVE EnterCode(_, _, _, _, _)
EnterCode(t, numcodes, n, bits, i) ==
  LET slot == 2 * t.at + bits[i]
      fill(v, at) == [t EXCEPT !.slots[slot] = v, !.at = at]
      next == t.filled + 1
  IN CASE t.error # 0 \/ i > Len(bits) -> t
       [] t.error = 0 /\ i <= Len(bits) /\ (t.at < 0 \/ t.at + 2 > numcodes) ->
            [t EXCEPT !.error = 55]
       [] OTHER ->
            EnterCode(CASE t.slots[slot] # Unfilled -> [t EXCEPT !.at = t.slots[slot] - numcodes]
                        [] t.slots[slot] = Unfilled /\ i = Len(bits) -> fill(n, 0)
                        [] OTHER -> [fill(next + numcodes, next) EXCEPT !.filled = next],
                      numcodes, n, bits, i + 1)

RECURSIVE EnterCodes(_, _, _, _)
EnterCodes(t, lengths, codes, n) ==
  LET numcodes == Cardinality(DOMAIN lengths)
  IN IF t.error # 0 \/ n = numcodes THEN t
     ELSE EnterCodes(EnterCode(t, numcodes, n, CodeBits(codes[n], lengths[n]), 1),
                     lengths, codes, n + 1)

HuffmanTree_make2DTree(lengths, codes) ==
  LET slots == 0 .. 2 * Cardinality(DOMAIN lengths) - 1
  IN EnterCodes([slots |-> [i \in slots |-> Unfilled], at |-> 0, filled |-> 0, error |-> 0],
                lengths, codes, 0)

HuffmanTree_makeFromLengths(lengths, maxbitlen) ==
  LET codes == Codes(lengths, maxbitlen)
      tree  == HuffmanTree_make2DTree(lengths, codes)
  IN [numcodes |-> Cardinality(DOMAIN lengths), lengths |-> lengths,
      code |-> codes, slots |-> tree.slots, error |-> tree.error]

(* The zero frequencies at the end are trimmed, down to mincodes symbols.  *)
HuffmanTree_makeFromFrequencies(freq, mincodes, maxbitlen) ==
  LET used == {s + 1 : s \in {t \in DOMAIN freq : freq[t] > 0}}
      numcodes == Max(used \cup {mincodes})
  IN HuffmanTree_makeFromLengths(
       lodepng_huffman_code_lengths([s \in 0 .. numcodes - 1 |-> freq[s]], maxbitlen),
       maxbitlen)

(* addHuffmanSymbol: the bits of a symbol, the highest first.              *)
SymbolBits(tree, s) == CodeBits(tree.code[s], tree.lengths[s])

(* The symbol at bit bp of the bytes in, -1 when the input ends or the     *)
(* walk leaves the tree, and the bit after it. A slot never filled reads   *)
(* as symbol 0.                                                            *)
READBIT(bp, in) == Bit(in[bp \div 8 + 1], bp % 8)

RECURSIVE WalkTree(_, _, _, _)
WalkTree(tree, in, bp, at) ==
  LET slot == 2 * at + READBIT(bp, in)
      ct   == IF tree.slots[slot] = Unfilled THEN 0 ELSE tree.slots[slot]
  IN CASE bp >= 8 * Len(in) -> [symbol |-> -1, bp |-> bp]
       [] bp < 8 * Len(in) /\ ct < tree.numcodes -> [symbol |-> ct, bp |-> bp + 1]
       [] bp < 8 * Len(in) /\ ct >= 2 * tree.numcodes -> [symbol |-> -1, bp |-> bp + 1]
       [] OTHER -> WalkTree(tree, in, bp + 1, ct - tree.numcodes)

huffmanDecodeSymbol(tree, in, bp) == WalkTree(tree, in, bp, 0)

----------------------------------------------------------------------------
(* The trees of a fixed block                                              *)

FixedLitLenTree ==
  HuffmanTree_makeFromLengths(
    [s \in 0 .. NUM_DEFLATE_CODE_SYMBOLS - 1 |->
       CASE s <= 143 -> 8 [] s \in 144 .. 255 -> 9 [] s \in 256 .. 279 -> 7 [] OTHER -> 8], 15)

FixedDistanceTree ==
  HuffmanTree_makeFromLengths([s \in 0 .. NUM_DISTANCE_SYMBOLS - 1 |-> 5], 15)
============================================================================
