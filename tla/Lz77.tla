-------------------------------- MODULE Lz77 -------------------------------
(***************************************************************************)
(* encodeLZ77 of lodepng: the search for earlier copies of the bytes at a  *)
(* position, over hash chains kept in circular arrays of the window's      *)
(* size, with lazy matching. One turn of its loop is EncodeLZ77Turn, on a  *)
(* record z of the loop's variables; the hash lives on from one block of   *)
(* the data to the next.                                                   *)
(*                                                                         *)
(* The data is the sequence in, whose byte at offset p of the code is      *)
(* in[p + 1]; insize is the end of the block. A symbol of the output is    *)
(* the tuple of the values the code pushes: <<literal>>, or <<length code, *)
(* extra, distance code, extra>>. The head tables are kept sparse: a value *)
(* they do not hold reads -1. The settings are lodepng's defaults, but for *)
(* the two sizes below.                                                    *)
(***************************************************************************)
EXTENDS Huffman, Bitwise

CONSTANTS WindowSize,   \* circular positions, 2048 by default
          NiceMatch     \* a match long enough to end the search, 128 by default

ASSUME WindowAssumption ==
  /\ WindowSize \in {2^k : k \in 3 .. 15}
  /\ NiceMatch \in 3 .. 258

MAX_SUPPORTED_DEFLATE_LENGTH == 258
FIRST_LENGTH_CODE_INDEX == 257
MinMatch == 3
MaxChainLength == IF WindowSize >= 8192 THEN WindowSize ELSE WindowSize \div 8
MaxLazyMatch == IF WindowSize >= 8192 THEN MAX_SUPPORTED_DEFLATE_LENGTH ELSE 64

----------------------------------------------------------------------------
(* The position of the largest entry not above value.                      *)
searchCodeIndex(array, value) ==
  Cardinality({i \in DOMAIN array : array[i] <= value}) - 1

LengthDistance(length, distance) ==
  LET l == searchCodeIndex(LENGTHBASE, length)
      d == searchCodeIndex(DISTANCEBASE, distance)
  IN <<l + FIRST_LENGTH_CODE_INDEX, length - LENGTHBASE[l + 1],
       d, distance - DISTANCEBASE[d + 1]>>

----------------------------------------------------------------------------
(* The hash                                                                *)

(* Three bytes while there are three, shifted 0, 4 and 8; the bytes left   *)
(* at the end of the block, shifted 0 and 8.                               *)
getHash(in, insize, pos) ==
  CASE pos + 2 < insize -> (in[pos + 1] ^^ (in[pos + 2] * 16)) ^^ (in[pos + 3] * 256)
    [] pos + 2 = insize -> in[pos + 1] + in[pos + 2] * 256
    [] pos + 1 = insize -> in[pos + 1]
    [] OTHER -> 0

countZeros(in, insize, pos) ==
  LET ahead == 0 .. Min({insize - pos, MAX_SUPPORTED_DEFLATE_LENGTH})
  IN Max({n \in ahead : \A k \in 1 .. n : in[pos + k] = 0})

(* The entries of val, chain and chainz that say "not filled" are those of *)
(* hash_init; zeros is left uninitialised by the code and is not read      *)
(* before it is written.                                                   *)
hash_init ==
  [head |-> <<>>, headz |-> <<>>,
   val |-> [w \in 0 .. WindowSize - 1 |-> -1],
   chain |-> [w \in 0 .. WindowSize - 1 |-> w],
   chainz |-> [w \in 0 .. WindowSize - 1 |-> w],
   zeros |-> [w \in 0 .. WindowSize - 1 |-> 0]]

HeadOf(table, key) == IF key \in DOMAIN table THEN table[key] ELSE -1

updateHashChain(hash, wpos, hashval, numzeros) ==
  LET older(table, key, kept) ==
        IF HeadOf(table, key) # -1 THEN HeadOf(table, key) ELSE kept[wpos]
  IN [val    |-> [hash.val EXCEPT ![wpos] = hashval],
      chain  |-> [hash.chain EXCEPT ![wpos] = older(hash.head, hashval, hash.chain)],
      head   |-> (hashval :> wpos) @@ hash.head,
      zeros  |-> [hash.zeros EXCEPT ![wpos] = numzeros],
      chainz |-> [hash.chainz EXCEPT ![wpos] = older(hash.headz, numzeros, hash.chainz)],
      headz  |-> (numzeros :> wpos) @@ hash.headz]

StreakAtKeeps(numzeros, hashval, in, insize, pos) ==
  CASE hashval # 0 -> 0
    [] hashval = 0 /\ numzeros = 0 -> countZeros(in, insize, pos)
    [] OTHER -> numzeros

(* The streak of zeros at a position whose hash is 0, from the streak of   *)
(* the position before.                                                    *)
StreakAt(numzeros, hashval, in, insize, pos) ==
  CASE hashval # 0 -> 0
    [] hashval = 0 /\ numzeros = 0 -> countZeros(in, insize, pos)
    [] OTHER -> IF pos + numzeros > insize \/ in[pos + numzeros] # 0
                THEN numzeros - 1 ELSE numzeros

(* Position z.pos enters the hash.                                         *)
EnterPosition(z, in, insize) ==
  LET hashval  == getHash(in, insize, z.pos)
      numzeros == StreakAt(z.numzeros, hashval, in, insize, z.pos)
  IN [z EXCEPT !.hashval = hashval, !.numzeros = numzeros,
               !.hash = updateHashChain(z.hash, z.pos % WindowSize, hashval, numzeros)]

RECURSIVE EnterPositions(_, _, _, _)
EnterPositions(z, in, insize, end) ==
  IF z.pos = end THEN z
  ELSE EnterPositions([EnterPosition(z, in, insize) EXCEPT !.pos = @ + 1], in, insize, end)

----------------------------------------------------------------------------
(* The search                                                              *)

(* Length of the copy at pos of what stands offset earlier; the first skip *)
(* bytes are taken as equal without a look.                                *)
CopyLength(in, insize, pos, offset, skip) ==
  LET last == Min({insize, pos + MAX_SUPPORTED_DEFLATE_LENGTH})
  IN Max({n \in skip .. last - pos :
            \A k \in skip + 1 .. n : in[pos + k - offset] = in[pos + k]})

(* One chain entry after the other: s has the entry's circular position,   *)
(* the entries tried, the offset of the last one, and the best so far.     *)
RECURSIVE SearchChain(_, _, _, _, _)
SearchChain(z, in, insize, pos, s) ==
  LET wpos   == pos % WindowSize
      offset == IF s.hashpos <= wpos THEN wpos - s.hashpos
                ELSE wpos - s.hashpos + WindowSize
      skip   == IF z.numzeros >= 3 THEN Min({z.hash.zeros[s.hashpos], z.numzeros}) ELSE 0
      length == IF offset > 0 THEN CopyLength(in, insize, pos, offset, skip) ELSE 0
      best   == IF length > s.length
                THEN [s EXCEPT !.length = length, !.offset = offset] ELSE s
      byZeros == z.numzeros >= 3 /\ best.length > z.numzeros
      next   == IF byZeros THEN z.hash.chainz[s.hashpos] ELSE z.hash.chain[s.hashpos]
      outdated == IF byZeros THEN z.hash.zeros[next] # z.numzeros
                  ELSE z.hash.val[next] # z.hashval
      stop   == \/ length > s.length /\ length >= NiceMatch
                \/ s.hashpos = z.hash.chain[s.hashpos]
                \/ outdated
  IN CASE s.tried >= MaxChainLength \/ offset < s.prev -> s
       [] s.tried < MaxChainLength /\ offset >= s.prev /\ stop -> best
       [] OTHER -> SearchChain(z, in, insize, pos,
                     [best EXCEPT !.hashpos = next, !.tried = @ + 1, !.prev = offset])

LongestMatch(z, in, insize, pos) ==
  SearchChain(z, in, insize, pos,
              [hashpos |-> z.hash.chain[pos % WindowSize],
               tried |-> 0, prev |-> 0, length |-> 0, offset |-> 0])

----------------------------------------------------------------------------
(* The loop                                                                *)

lz77_init(hash, inpos) ==
  [pos |-> inpos, hash |-> hash, hashval |-> 0, numzeros |-> 0,
   lazy |-> FALSE, lazylength |-> 0, lazyoffset |-> 0, out |-> <<>>]

(* The symbol for a match found at z.pos, or the byte there when the match *)
(* is not worth it; the positions the match covers enter the hash.         *)
PushMatch(z, in, insize, length, offset) ==
  IF length < 3 \/ length < MinMatch \/ (length = 3 /\ offset > 4096)
  THEN [z EXCEPT !.out = Append(@, <<in[z.pos + 1]>>), !.pos = @ + 1]
  ELSE EnterPositions([z EXCEPT !.out = Append(@, LengthDistance(length, offset)), !.pos = @ + 1],
                      in, insize, z.pos + length)

(* A match is put off for one byte; the next turn takes it unless it finds *)
(* one longer by two, and then enters its second position once more, from  *)
(* heads reset so that the chains stay as they are.                        *)
EncodeLZ77Turn(z0, in, insize) ==
  LET z     == EnterPosition(z0, in, insize)
      found == LongestMatch(z, in, insize, z.pos)
      again == [z EXCEPT !.hash.head = (z.hashval :> -1) @@ @,
                         !.hash.headz = (z.numzeros :> -1) @@ @,
                         !.lazy = FALSE, !.pos = @ - 1]
      byte  == [z EXCEPT !.out = Append(@, <<in[z.pos]>>), !.lazy = FALSE]
  IN CASE ~z.lazy /\ found.length \in 3 .. MaxLazyMatch
            /\ found.length < MAX_SUPPORTED_DEFLATE_LENGTH ->
            [z EXCEPT !.lazy = TRUE, !.lazylength = found.length,
                      !.lazyoffset = found.offset, !.pos = @ + 1]
       [] z.lazy /\ found.length > z.lazylength + 1 ->
            PushMatch(byte, in, insize, found.length, found.offset)
       [] z.lazy /\ found.length <= z.lazylength + 1 ->
            PushMatch(again, in, insize, z.lazylength, z.lazyoffset)
       [] OTHER -> PushMatch(z, in, insize, found.length, found.offset)
============================================================================
