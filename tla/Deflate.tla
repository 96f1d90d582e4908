------------------------------ MODULE Deflate ------------------------------
(***************************************************************************)
(* The deflate blocks and the zlib stream of lodepng: what the compressor  *)
(* writes for the symbols of Lz77, and what the decompressor makes of it.  *)
(* Written bits are a sequence of 0 and 1, packed into bytes at the end;   *)
(* a reader's record r holds the bit position bp, the bytes out read so    *)
(* far and the error, the number that lodepng returns.                     *)
(***************************************************************************)
EXTENDS Lz77

CONSTANTS MinBlock,     \* least data of a compressed block, 65536 in the code
          MaxBlock,     \* most data of a compressed block, 262144 in the code
          MaxStored     \* most data of a stored block, 65535 in the code

ASSUME BlockAssumption ==
  /\ MinBlock \in Nat \ {0} /\ MaxBlock \in Nat /\ MinBlock <= MaxBlock
  /\ MaxStored \in 1 .. 65535

----------------------------------------------------------------------------
(* Bits and bytes                                                          *)

addBits(value, nbits) == [i \in 1 .. nbits |-> Bit(value, i - 1)]

(* f(i) \o ... \o f(n)                                                     *)
RECURSIVE Concat(_, _, _)
Concat(f(_), i, n) ==
  CASE i > n -> <<>>
    [] i = n -> f(i)
    [] OTHER -> LET mid == (i + n) \div 2 IN Concat(f, i, mid) \o Concat(f, mid + 1, n)

Pad(bits) == bits \o [i \in 1 .. (-Len(bits)) % 8 |-> 0]

ToBytes(bits) ==
  LET b == Pad(bits)
  IN [i \in 1 .. Len(b) \div 8 |->
        LET bit(k) == b[8 * (i - 1) + k + 1] * 2^k
        IN bit(0) + bit(1) + bit(2) + bit(3) + bit(4) + bit(5) + bit(6) + bit(7)]

RECURSIVE readBits(_, _, _)
readBits(in, bp, nbits) ==
  IF nbits = 0 THEN 0 ELSE READBIT(bp, in) + 2 * readBits(in, bp + 1, nbits - 1)

----------------------------------------------------------------------------
(* Compression                                                             *)

BlockSizeShare(btype, insize) ==
  IF btype = 1 THEN insize ELSE Min({MaxBlock, insize \div 8})

(* The data of one compressed block; that of btype 1 has a single block.   *)
BlockSize(btype, insize) ==
  IF btype = 1 THEN insize
  ELSE Max({MinBlock, Min({MaxBlock, insize \div 8 + 8})})

BlockEnd(btype, start, insize) == Min({start + BlockSize(btype, insize), insize})

(* All stored blocks of the data, at a byte boundary each.                 *)
RECURSIVE deflateNoCompression(_, _)
deflateNoCompression(data, start) ==
  LET len  == Min({MaxStored, Len(data) - start})
      last == start + len = Len(data)
  IN IF data = <<>> THEN <<>>
     ELSE addBits(IF last THEN 1 ELSE 0, 8) \o addBits(len, 16)
          \o addBits(65535 - len, 16)
          \o Concat(LAMBDA i : addBits(data[start + i], 8), 1, len)
          \o IF last THEN <<>> ELSE deflateNoCompression(data, start + len)

writeLZ77data(symbols, ll, d) ==
  Concat(LAMBDA i :
           LET v == symbols[i]
           IN SymbolBits(ll, v[1]) \o
              IF Len(v) = 1 THEN <<>>
              ELSE addBits(v[2], LENGTHEXTRA[v[1] - FIRST_LENGTH_CODE_INDEX + 1])
                   \o SymbolBits(d, v[3]) \o addBits(v[4], DISTANCEEXTRA[v[3] + 1]),
         1, Len(symbols))

deflateFixed(symbols, final) ==
  addBits(final, 1) \o <<1, 0>>
  \o With(FixedLitLenTree,
          LAMBDA ll : writeLZ77data(symbols, ll, FixedDistanceTree) \o SymbolBits(ll, 256))

(* How often each symbol is used, at a position of their tuples.           *)
Frequencies(symbols, n, at) ==
  [s \in 0 .. n - 1 |->
     Cardinality({i \in DOMAIN symbols : at <= Len(symbols[i]) /\ symbols[i][at] = s})]

FrequenciesLL(symbols) == [Frequencies(symbols, 286, 1) EXCEPT ![256] = 1]

TreeLL(symbols) == HuffmanTree_makeFromFrequencies(FrequenciesLL(symbols), 257, 15)
TreeD(symbols) == HuffmanTree_makeFromFrequencies(Frequencies(symbols, 30, 3), 2, 15)

(* The repeats of the code lengths from position i on. Each symbol is      *)
(* <<length>>, or <<16, 17 or 18, extra>> for 3 to 6 times the length      *)
(* before, 3 to 10 zeros, 11 to 138 zeros.                                 *)
RECURSIVE RepeatCodes(_, _)
RepeatCodes(lengths, i) ==
  LET same  == {n \in 1 .. Len(lengths) + 1 - i : \A k \in i .. i + n - 1 : lengths[k] = lengths[i]}
      run   == Max(same)
      more  == run - 1
      rest  == more % 6
      short == IF rest >= 3 THEN <<<<16, rest - 3>>>> ELSE <<>>
      taken == IF rest >= 3 THEN more ELSE more - rest
  IN CASE i > Len(lengths) -> <<>>
       [] i <= Len(lengths) /\ lengths[i] = 0 /\ run \in 3 .. 10 ->
            <<<<17, run - 3>>>> \o RepeatCodes(lengths, i + run)
       [] i <= Len(lengths) /\ lengths[i] = 0 /\ run > 10 ->
            <<<<18, Min({run, 138}) - 11>>>> \o RepeatCodes(lengths, i + Min({run, 138}))
       [] i <= Len(lengths) /\ lengths[i] # 0 /\ run >= 4 ->
            <<<<lengths[i]>>>> \o [k \in 1 .. more \div 6 |-> <<16, 3>>] \o short
            \o RepeatCodes(lengths, i + 1 + taken)
       [] OTHER -> <<<<lengths[i]>>>> \o RepeatCodes(lengths, i + 1)

(* The code lengths of both trees, in one sequence.                        *)
CodeLengths(ll, d) ==
  [i \in 1 .. ll.numcodes |-> ll.lengths[i - 1]] \o
  [i \in 1 .. d.numcodes |-> d.lengths[i - 1]]

TreeCL(repeats) ==
  HuffmanTree_makeFromFrequencies(Frequencies(repeats, NUM_CODE_LENGTH_CODES, 1),
                                  NUM_CODE_LENGTH_CODES, 7)

RepeatExtra(code) == CASE code = 16 -> 2 [] code = 17 -> 3 [] code = 18 -> 7 [] OTHER -> 0

deflateDynamic(symbols, final) ==
  LET ll      == TreeLL(symbols)
      d       == TreeD(symbols)
      repeats == RepeatCodes(CodeLengths(ll, d), 1)
      cl      == TreeCL(repeats)
      clcl    == [i \in 1 .. NUM_CODE_LENGTH_CODES |-> cl.lengths[CLCL_ORDER[i]]]
      hclen   == Max({4} \cup {i \in DOMAIN clcl : clcl[i] # 0})
  IN addBits(final, 1) \o <<0, 1>>
     \o addBits(ll.numcodes - 257, 5) \o addBits(d.numcodes - 1, 5) \o addBits(hclen - 4, 4)
     \o Concat(LAMBDA i : addBits(clcl[i], 3), 1, hclen)
     \o Concat(LAMBDA i : LET v == repeats[i]
                          IN SymbolBits(cl, v[1]) \o
                             IF Len(v) = 1 THEN <<>> ELSE addBits(v[2], RepeatExtra(v[1])),
               1, Len(repeats))
     \o writeLZ77data(symbols, ll, d) \o SymbolBits(ll, 256)

(* The four bytes of Adler-32: the sums s2 and s1 of the data.             *)
adler32(data) ==
  LET n  == Len(data)
      s1 == (1 + SumFunction(data)) % 65521
      s2 == (n + SumFunction([i \in 1 .. n |-> (n + 1 - i) * data[i]])) % 65521
  IN <<s2 \div 256, s2 % 256, s1 \div 256, s1 % 256>>

(* CM 8, CINFO 7, and the check bits that make the header a multiple of 31 *)
ZlibHeader == <<120, 31 - ((256 * 120) % 31)>>

lodepng_zlib_compress(data, bits) == ZlibHeader \o ToBytes(bits) \o adler32(data)
============================================================================
