------------------------------ MODULE Inflate ------------------------------
(***************************************************************************)
(* The decompressor of lodepng: the blocks of a deflate stream and the     *)
(* zlib stream around it. A reader's record r has the bit position bp in   *)
(* the bytes in, the bytes out read so far, and the error that lodepng     *)
(* returns, 0 while there is none. As in the code, in still holds the four *)
(* bytes of the checksum behind the blocks.                                *)
(***************************************************************************)
EXTENDS Deflate

inBits(in) == 8 * Len(in)

Failed(r, error) == [r EXCEPT !.error = error]

(* A symbol that could not be read: the end of the input is never passed   *)
(* by the walk of the tree, so that 10 is not met.                         *)
NoSymbol(r, in, c) == Failed(r, IF c.bp > inBits(in) THEN 10 ELSE 11)

----------------------------------------------------------------------------
(* The trees of a dynamic block                                            *)

(* t is a record with the code lengths read so far; n are to be read.      *)
RECURSIVE ReadLengths(_, _, _, _)
ReadLengths(t, in, cl, n) ==
  LET c    == huffmanDecodeSymbol(cl, in, t.bp)
      bits == RepeatExtra(c.symbol)
      least == IF c.symbol = 18 THEN 11 ELSE 3
      value == IF c.symbol = 16 THEN Last(t.lengths) ELSE 0
      count == least + readBits(in, c.bp, bits)
      go(lengths, bp) ==
        ReadLengths([t EXCEPT !.lengths = @ \o lengths, !.bp = bp], in, cl, n)
  IN CASE Len(t.lengths) = n -> t
       [] Len(t.lengths) < n /\ c.symbol \in 0 .. 15 -> go(<<c.symbol>>, c.bp)
       [] Len(t.lengths) < n /\ c.symbol \in 16 .. 18 ->
            CASE c.symbol = 16 /\ t.lengths = <<>> -> Failed(t, 54)
              [] c.bp + bits > inBits(in) /\ ~(c.symbol = 16 /\ t.lengths = <<>>) ->
                   Failed(t, 50)
              [] OTHER ->
                   IF Len(t.lengths) + count > n THEN Failed(t, c.symbol - 3)
                   ELSE go([k \in 1 .. count |-> value], c.bp + bits)
       [] OTHER -> NoSymbol(t, in, c)

(* The tree of the n symbols whose lengths start at from; those that are   *)
(* not used have length 0.                                                 *)
TreeOfLengths(lengths, n, from, used) ==
  HuffmanTree_makeFromLengths(
    [s \in 0 .. n - 1 |-> IF s < used THEN lengths[from + s + 1] ELSE 0], 15)

(* Both trees, and the bit behind their description; or the error.         *)
getTreeInflateDynamic(r, in) ==
  LET hlit  == readBits(in, r.bp, 5) + 257
      hdist == readBits(in, r.bp + 5, 5) + 1
      hclen == readBits(in, r.bp + 10, 4) + 4
      clcl(s) == CHOOSE i \in DOMAIN CLCL_ORDER : CLCL_ORDER[i] = s
      treeCL == HuffmanTree_makeFromLengths(
                  [s \in 0 .. NUM_CODE_LENGTH_CODES - 1 |->
                     IF clcl(s) > hclen THEN 0
                     ELSE readBits(in, r.bp + 14 + 3 * (clcl(s) - 1), 3)], 7)
      readTrees(t) ==
        With(<<TreeOfLengths(t.lengths, NUM_DEFLATE_CODE_SYMBOLS, 0, hlit),
               TreeOfLengths(t.lengths, NUM_DISTANCE_SYMBOLS, hlit, hdist)>>,
             LAMBDA trees : [error |-> IF trees[1].error # 0 THEN trees[1].error ELSE trees[2].error,
                             bp |-> t.bp, ll |-> trees[1], d |-> trees[2]])
      readLengths(cl) ==
        With(ReadLengths([lengths |-> <<>>, bp |-> r.bp + 14 + 3 * hclen, error |-> 0],
                         in, cl, hlit + hdist),
             LAMBDA t : IF t.error # 0 THEN [error |-> t.error]
                        ELSE IF t.lengths[257] = 0 THEN [error |-> 64]
                        ELSE readTrees(t))
  IN CASE r.bp + 14 > inBits(in) -> [error |-> 49]
       [] r.bp + 14 <= inBits(in) /\ r.bp + 14 + 3 * hclen > inBits(in) -> [error |-> 50]
       [] OTHER -> With(treeCL, LAMBDA cl : IF cl.error # 0 THEN [error |-> cl.error]
                                            ELSE readLengths(cl))

----------------------------------------------------------------------------
(* Blocks                                                                  *)

(* The copy of length bytes from distance back, byte after byte.           *)
CopyBack(out, length, distance) ==
  out \o [k \in 1 .. length |-> out[Len(out) - distance + ((k - 1) % distance) + 1]]

RECURSIVE ReadSymbols(_, _, _, _)
ReadSymbols(r, in, ll, d) ==
  LET c      == huffmanDecodeSymbol(ll, in, r.bp)
      l      == c.symbol - FIRST_LENGTH_CODE_INDEX + 1
      afterL == c.bp + LENGTHEXTRA[l]
      length == LENGTHBASE[l] + readBits(in, c.bp, LENGTHEXTRA[l])
      e      == huffmanDecodeSymbol(d, in, afterL)
      afterD == e.bp + DISTANCEEXTRA[e.symbol + 1]
      distance == DISTANCEBASE[e.symbol + 1] + readBits(in, e.bp, DISTANCEEXTRA[e.symbol + 1])
      go(out, bp) == ReadSymbols([r EXCEPT !.out = out, !.bp = bp], in, ll, d)
  IN CASE c.symbol \in 0 .. 255 -> go(Append(r.out, c.symbol), c.bp)
       [] c.symbol = 256 -> [r EXCEPT !.bp = c.bp]
       [] c.symbol \in 257 .. 285 ->
            IF afterL > inBits(in) THEN Failed(r, 51)
            ELSE IF e.symbol \notin 0 .. 29 THEN Failed(r, 18)
            ELSE IF afterD > inBits(in) THEN Failed(r, 51)
            ELSE IF distance > Len(r.out) THEN Failed(r, 52)
            ELSE go(CopyBack(r.out, length, distance), afterD)
       [] OTHER -> NoSymbol(r, in, c)

inflateHuffmanBlock(r, in, btype) ==
  IF btype = 1 THEN With(FixedLitLenTree, LAMBDA ll : ReadSymbols(r, in, ll, FixedDistanceTree))
  ELSE With(getTreeInflateDynamic(r, in),
            LAMBDA t : IF t.error # 0 THEN Failed(r, t.error)
                       ELSE ReadSymbols([r EXCEPT !.bp = t.bp], in, t.ll, t.d))

inflateNoCompression(r, in) ==
  LET p    == (r.bp + 7) \div 8
      len  == in[p + 1] + 256 * in[p + 2]
      nlen == in[p + 3] + 256 * in[p + 4]
  IN IF p + 4 >= Len(in) THEN Failed(r, 52)
     ELSE IF len + nlen # 65535 THEN Failed(r, 21)
     ELSE IF p + 4 + len > Len(in) THEN Failed(r, 23)
     ELSE [r EXCEPT !.out = @ \o SubSeq(in, p + 5, p + 4 + len), !.bp = 8 * (p + 4 + len)]

(* One block; final says whether it was the last.                          *)
InflateBlock(r, in) ==
  LET btype == readBits(in, r.bp + 1, 2)
      s == [r EXCEPT !.bp = @ + 3, !.final = readBits(in, r.bp, 1) = 1]
  IN IF r.bp + 2 >= inBits(in) THEN Failed(r, 52)
     ELSE IF btype = 3 THEN Failed(s, 20)
     ELSE IF btype = 0 THEN inflateNoCompression(s, in)
     ELSE inflateHuffmanBlock(s, in, btype)

RECURSIVE InflateBlocks(_, _)
InflateBlocks(r, in) ==
  IF r.final \/ r.error # 0 THEN r ELSE InflateBlocks(InflateBlock(r, in), in)

----------------------------------------------------------------------------
(* The zlib stream: its bytes, or the error                                *)

lodepng_zlib_decompress(in) ==
  LET fail(e) == [out |-> <<>>, error |-> e]
      read == InflateBlocks([bp |-> 0, out |-> <<>>, final |-> FALSE, error |-> 0],
                            SubSeq(in, 3, Len(in)))
  IN IF Len(in) < 2 THEN fail(53)
     ELSE IF (in[1] * 256 + in[2]) % 31 # 0 THEN fail(24)
     ELSE IF in[1] % 16 # 8 \/ in[1] \div 16 > 7 THEN fail(25)
     ELSE IF (in[2] \div 32) % 2 # 0 THEN fail(26)
     ELSE With(read, LAMBDA r :
            IF r.error # 0 THEN fail(r.error)
            ELSE IF SubSeq(in, Len(in) - 3, Len(in)) # adler32(r.out) THEN fail(58)
            ELSE [out |-> r.out, error |-> 0])
============================================================================
