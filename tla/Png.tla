-------------------------------- MODULE Png --------------------------------
(***************************************************************************)
(* A picture on its way through lodepng: lodepng_encode, by which          *)
(* quant::Utils answers a request for the heatmap, and lodepng_decode, by  *)
(* which a reader of the same library gets it back.                        *)
(*                                                                         *)
(* The stages follow the code: the colour mode is chosen, the rows are     *)
(* filtered, the bytes are compressed, one turn of the LZ77 loop per step, *)
(* one block after the other, and the chunks are written. A chunk carries  *)
(* what its checksum was computed from in place of the CRC. The stored     *)
(* file may then get another program's chunk, a damaged byte, or lose its  *)
(* end; at last it is read, one chunk per step.                            *)
(***************************************************************************)
EXTENDS Inflate, PngLines

CONSTANTS Pictures,   \* records w, h, pixels
          Settings,   \* records btype, interlace_method, filter_strategy, filter_palette_zero
          Damages,    \* places in a chunk's data that may be damaged
          SmallCodes  \* records freq, limit for which the code is checked

ASSUME SettingsAssumption ==
  \A s \in Settings : /\ s.btype \in 0 .. 2 /\ s.interlace_method \in 0 .. 1
                      /\ s.filter_strategy \in {"LFS_ZERO", "LFS_MINSUM"}
                      /\ s.filter_palette_zero \in BOOLEAN

VARIABLES
  stage,     \* what comes next
  picture, settings, \* the picture that is encoded, and how
  mode,      \* the colour mode of the file
  data,      \* the filtered rows
  z,         \* the LZ77 loop on them
  from,      \* where the block starts
  bits,      \* the blocks so far
  file,      \* signature and chunks
  faults,    \* what befell the file: kind and chunk
  info,      \* what the reader knows: w, h, mode, interlace_method
  next,      \* the chunk it reads next
  unknown,   \* whether it has met a chunk it does not know
  idat,      \* the compressed bytes it has
  out,       \* the pixels it returns
  error      \* the code that lodepng returns

encoder == <<mode, data, z, from, bits>>
reader == <<info, next, unknown, idat, out>>
vars == <<stage, picture, settings, encoder, file, faults, reader, error>>

NoInfo == [w |-> 0, h |-> 0, mode |-> lodepng_color_mode_init, interlace_method |-> 0]
NoFile == [signature |-> <<>>, chunks |-> <<>>]

Init ==
  /\ picture \in Pictures /\ settings \in Settings
  /\ stage = "colours"
  /\ mode = lodepng_color_mode_init
  /\ data = <<>> /\ bits = <<>> /\ from = 0 /\ z = lz77_init(hash_init, 0)
  /\ file = NoFile /\ faults = {}
  /\ info = NoInfo /\ next = 1 /\ unknown = FALSE /\ idat = <<>> /\ out = <<>>
  /\ error = 0

----------------------------------------------------------------------------
(* lodepng_encode                                                          *)

ChooseColours ==
  /\ stage = "colours"
  /\ mode' = lodepng_auto_choose_color(picture.pixels)
  /\ error' = checkColorValidity(mode'.type, mode'.bits)
  /\ stage' = IF error' = 0 THEN "lines" ELSE "done"
  /\ UNCHANGED <<picture, settings, data, z, from, bits, file, faults, reader>>

(* The pixels as samples of the mode, in filtered rows.                    *)
FilterLines ==
  /\ stage = "lines"
  /\ data' = preProcessScanlines(lodepng_convert(mode, lodepng_color_mode_init, picture.pixels),
                                 picture.w, picture.h, mode, settings)
  /\ stage' = IF settings.btype = 0 THEN "store" ELSE "compress"
  /\ UNCHANGED <<picture, settings, mode, z, from, bits, file, faults, reader, error>>

Store ==
  /\ stage = "store"
  /\ bits' = deflateNoCompression(data, 0)
  /\ stage' = "write"
  /\ UNCHANGED <<picture, settings, mode, data, z, from, file, faults, reader, error>>

EndOfBlock == BlockEnd(settings.btype, from, Len(data))

Compress ==
  /\ stage = "compress" /\ z.pos < EndOfBlock
  /\ z' = EncodeLZ77Turn(z, data, EndOfBlock)
  /\ UNCHANGED <<stage, picture, settings, mode, data, from, bits, file, faults, reader, error>>

(* The next block goes on with the hash of this one.                       *)
EndBlock ==
  /\ stage = "compress" /\ z.pos >= EndOfBlock
  /\ LET final == IF EndOfBlock = Len(data) THEN 1 ELSE 0
     IN /\ bits' = bits \o IF settings.btype = 1 THEN deflateFixed(z.out, final)
                           ELSE deflateDynamic(z.out, final)
        /\ stage' = IF final = 1 THEN "write" ELSE "compress"
  /\ from' = EndOfBlock
  /\ z' = lz77_init(z.hash, EndOfBlock)
  /\ UNCHANGED <<picture, settings, mode, data, file, faults, reader, error>>

(* Chunks                                                                  *)

writeSignature == <<137, 80, 78, 71, 13, 10, 26, 10>>

addChunk(type, bytes) == [type |-> type, data |-> bytes, crc |-> <<type, bytes>>]

lodepng_chunk_check_crc(chunk) == chunk.crc = <<chunk.type, chunk.data>>

add32bitInt(n) == <<n \div 16777216, (n \div 65536) % 256, (n \div 256) % 256, n % 256>>

read32bitInt(bytes, at) ==
  16777216 * bytes[at] + 65536 * bytes[at + 1] + 256 * bytes[at + 2] + bytes[at + 3]

addChunk_IHDR ==
  <<addChunk("IHDR", add32bitInt(picture.w) \o add32bitInt(picture.h)
                     \o <<mode.bits, mode.type, 0, 0, settings.interlace_method>>)>>

addChunk_PLTE ==
  IF mode.type # LCT_PALETTE THEN <<>>
  ELSE <<addChunk("PLTE", FlattenSeq([i \in DOMAIN mode.palette |-> SubSeq(mode.palette[i], 1, 3)]))>>

addChunk_tRNS_short ==
  LET clear == {i \in DOMAIN mode.palette : mode.palette[i][4] # 255}
  IN IF mode.type = LCT_PALETTE /\ clear # {}
     THEN <<addChunk("tRNS", [i \in 1 .. Max(clear) - 1 |-> mode.palette[i][4]])>> ELSE <<>>

(* The alphas of the palette up to the last that is not 255, or the key.   *)
addChunk_tRNS ==
  LET clear == {i \in DOMAIN mode.palette : mode.palette[i][4] # 255}
      key   == IF mode.type = LCT_GREY THEN <<mode.key[1]>> ELSE mode.key
  IN CASE mode.type = LCT_PALETTE /\ getPaletteTranslucency(mode.palette) # 0 ->
            <<addChunk("tRNS", [i \in 1 .. Max(clear) |-> mode.palette[i][4]])>>
       [] mode.type \in {LCT_GREY, LCT_RGB} /\ mode.key # <<>> ->
            <<addChunk("tRNS", FlattenSeq([i \in DOMAIN key |-> <<key[i] \div 256, key[i] % 256>>]))>>
       [] OTHER -> <<>>

addChunk_IDAT == <<addChunk("IDAT", lodepng_zlib_compress(data, bits))>>

addChunk_IEND == <<addChunk("IEND", <<>>)>>

WriteFile ==
  /\ stage = "write"
  /\ file' = [signature |-> writeSignature,
              chunks |-> addChunk_IHDR \o addChunk_PLTE \o addChunk_tRNS \o addChunk_IDAT \o addChunk_IEND]
  /\ stage' = "stored"
  /\ UNCHANGED <<picture, settings, encoder, faults, reader, error>>

----------------------------------------------------------------------------
(* What may befall the file; each kind at most once                        *)

Kinds == {f.kind : f \in faults}

(* Another program adds a chunk that lodepng does not know, behind IHDR.   *)
Annotate ==
  /\ stage = "stored" /\ faults = {}
  /\ file' = [file EXCEPT !.chunks = InsertAt(@, 2, addChunk("prVt", <<0>>))]
  /\ faults' = {[kind |-> "annotated", chunk |-> "prVt"]}
  /\ UNCHANGED <<stage, picture, settings, encoder, reader, error>>

Damage(c, i) ==
  /\ stage = "stored" /\ Kinds \subseteq {"annotated"}
  /\ c \in DOMAIN file.chunks /\ i \in DOMAIN file.chunks[c].data
  /\ file' = [file EXCEPT !.chunks[c].data[i] = (@ + 1) % 256]
  /\ faults' = faults \cup {[kind |-> "damaged", chunk |-> file.chunks[c].type]}
  /\ UNCHANGED <<stage, picture, settings, encoder, reader, error>>

Truncate(n) ==
  /\ stage = "stored" /\ faults = {}
  /\ n < Len(file.chunks)
  /\ file' = [file EXCEPT !.chunks = SubSeq(@, 1, n)]
  /\ faults' = {[kind |-> "cut", chunk |-> file.chunks[n + 1].type]}
  /\ UNCHANGED <<stage, picture, settings, encoder, reader, error>>

----------------------------------------------------------------------------
(* lodepng_decode                                                          *)

(* The error of lodepng_inspect.                                           *)
InspectError ==
  LET ihdr == file.chunks[1]
      d    == ihdr.data
  IN IF file.chunks = <<>> THEN 27
     ELSE IF file.signature # writeSignature THEN 28
     ELSE IF ihdr.type # "IHDR" THEN 29
     ELSE IF read32bitInt(d, 1) = 0 \/ read32bitInt(d, 5) = 0 THEN 93
     ELSE IF ~lodepng_chunk_check_crc(ihdr) THEN 57
     ELSE IF d[11] # 0 THEN 32
     ELSE IF d[12] # 0 THEN 33
     ELSE IF d[13] > 1 THEN 34
     ELSE checkColorValidity(d[10], d[9])

lodepng_inspect ==
  /\ stage = "stored"
  /\ error' = InspectError
  /\ LET d == file.chunks[1].data
     IN info' = IF error' # 0 THEN info
                ELSE [w |-> read32bitInt(d, 1), h |-> read32bitInt(d, 5),
                      mode |-> [lodepng_color_mode_init EXCEPT !.bits = d[9], !.type = d[10]],
                      interlace_method |-> d[13]]
  /\ next' = 2
  /\ stage' = IF error' = 0 THEN "read" ELSE "done"
  /\ UNCHANGED <<picture, settings, encoder, file, faults, unknown, idat, out>>

(* The mode with what a chunk says of it, and the error.                   *)
readChunk_PLTE(m, bytes) ==
  LET n == Len(bytes) \div 3
  IN [error |-> IF n > 256 THEN 38 ELSE 0,
      mode |-> [m EXCEPT !.palette =
                 [i \in 1 .. n |-> SubSeq(bytes, 3 * i - 2, 3 * i) \o <<255>>]]]

readChunk_tRNS(m, bytes) ==
  LET n == Len(bytes)
      sample(i) == 256 * bytes[2 * i - 1] + bytes[2 * i]
      error_ == CASE m.type = LCT_PALETTE -> IF n > Len(m.palette) THEN 38 ELSE 0
                  [] m.type = LCT_GREY -> IF n # 2 THEN 30 ELSE 0
                  [] m.type = LCT_RGB -> IF n # 6 THEN 41 ELSE 0
                  [] OTHER -> 42
  IN [error |-> error_,
      mode |-> CASE error_ # 0 -> m
                 [] error_ = 0 /\ m.type = LCT_PALETTE ->
                      [m EXCEPT !.palette = [i \in DOMAIN @ |->
                         IF i > n THEN @[i] ELSE SubSeq(@[i], 1, 3) \o <<bytes[i]>>]]
                 [] OTHER -> [m EXCEPT !.key = [i \in 1 .. n \div 2 |-> sample(i)]]]

(* One turn of the loop of decodeGeneric. Once a chunk was unknown, the    *)
(* checksums of those behind it are not looked at any more.                *)
ReadChunk ==
  /\ stage = "read"
  /\ LET chunk == file.chunks[next]
         read  == CASE chunk.type = "PLTE" -> readChunk_PLTE(info.mode, chunk.data)
                    [] chunk.type = "tRNS" -> readChunk_tRNS(info.mode, chunk.data)
                    [] OTHER -> [error |-> 0, mode |-> info.mode]
         known == chunk.type \in {"PLTE", "tRNS", "IDAT", "IEND"}
     IN IF next > Len(file.chunks)
        THEN error' = 30 /\ stage' = "done" /\ UNCHANGED <<info, idat, unknown, next>>
        ELSE /\ info' = [info EXCEPT !.mode = read.mode]
             /\ idat' = IF chunk.type = "IDAT" THEN idat \o chunk.data ELSE idat
             /\ unknown' = (unknown \/ ~known)
             /\ error' = IF read.error # 0 THEN read.error
                         ELSE IF ~unknown' /\ ~lodepng_chunk_check_crc(chunk) THEN 57 ELSE 0
             /\ next' = next + 1
             /\ stage' = CASE error' # 0 -> "done"
                           [] error' = 0 /\ chunk.type = "IEND" -> "decompress"
                           [] OTHER -> "read"
  /\ UNCHANGED <<picture, settings, encoder, file, faults, out>>

(* The bytes that decodeGeneric expects from the decompression.            *)
PredictedSize(w, h, m, interlace_method) ==
  LET pass(pw, ph, there) == IF there THEN FilteredSize(m, [w |-> pw, h |-> ph]) ELSE 0
  IN IF interlace_method = 0 THEN FilteredSize(m, [w |-> w, h |-> h])
     ELSE pass((w + 7) \div 8, (h + 7) \div 8, TRUE) + pass((w + 3) \div 8, (h + 7) \div 8, w > 4)
          + pass((w + 3) \div 4, (h + 3) \div 8, TRUE) + pass((w + 1) \div 4, (h + 3) \div 4, w > 2)
          + pass((w + 1) \div 2, (h + 1) \div 4, TRUE) + pass(w \div 2, (h + 1) \div 2, w > 1)
          + pass(w, h \div 2, TRUE)

(* The rest: the rows, the samples, the pixels.                            *)
Decompress ==
  /\ stage = "decompress"
  /\ \E inflated \in {lodepng_zlib_decompress(idat)} :
       IF inflated.error # 0
       THEN error' = inflated.error /\ out' = <<>>
       ELSE IF Len(inflated.out) # PredictedSize(info.w, info.h, info.mode, info.interlace_method)
       THEN error' = 91 /\ out' = <<>>
       ELSE \E rows \in {postProcessScanlines(inflated.out, info.w, info.h, info.mode,
                                              info.interlace_method)} :
              /\ error' = rows.error
              /\ out' = IF rows.error # 0 THEN <<>>
                        ELSE lodepng_convert(lodepng_color_mode_init, info.mode, rows.samples)
  /\ stage' = "done"
  /\ UNCHANGED <<picture, settings, encoder, file, faults, info, next, unknown, idat>>

(* The picture is read, or was not to be had.                              *)
Done == stage = "done" /\ UNCHANGED vars

----------------------------------------------------------------------------
Next ==
  \/ ChooseColours \/ FilterLines \/ Store \/ Compress \/ EndBlock \/ WriteFile
  \/ Annotate
  \/ \E c \in 1 .. 6, i \in Damages : Damage(c, i)
  \/ \E n \in 0 .. 5 : Truncate(n)
  \/ lodepng_inspect \/ ReadChunk \/ Decompress
  \/ Done

Spec == Init /\ [][Next]_vars

----------------------------------------------------------------------------
(* Properties                                                              *)

(* The code gives a transparent pixel's colour the meaning "transparent"   *)
(* without a look at the pixels before it: an opaque one among them that   *)
(* has the colour goes transparent, too (see README).                      *)
HiddenByKey(i) ==
  \E j \in DOMAIN picture.pixels :
    /\ i < j /\ picture.pixels[j][4] = 0 /\ picture.pixels[i][4] = 255
    /\ SubSeq(picture.pixels[i], 1, 3) = SubSeq(picture.pixels[j], 1, 3)

SamePicture ==
  /\ Len(out) = picture.w * picture.h
  /\ \A i \in DOMAIN out :
       \/ out[i] = picture.pixels[i]
       \/ HiddenByKey(i) /\ out[i] = SubSeq(picture.pixels[i], 1, 3) \o <<0>>

(* A change of the palette that no checksum covers any more.               *)
UnseenDamage ==
  /\ "annotated" \in Kinds
  /\ \E f \in faults : f.kind = "damaged" /\ f.chunk \in {"PLTE", "tRNS"}

(* What lodepng_decode returns without an error is the picture that was    *)
(* given to lodepng_encode, whatever the mode, the filters, the            *)
(* interlacing and the blocks, and also from a file that was damaged or    *)
(* cut; and a file that nothing but a foreign chunk was done to is read.   *)
PictureSurvives ==
  stage = "done" =>
    /\ error = 0 /\ ~UnseenDamage => SamePicture
    /\ Kinds \subseteq {"annotated"} => error = 0

(* The bytes that LZ77 symbols stand for, behind the bytes before them.    *)
RECURSIVE Expand(_, _, _)
Expand(bytes, symbols, i) ==
  LET v == symbols[i]
      l == v[1] - FIRST_LENGTH_CODE_INDEX + 1
      distance == DISTANCEBASE[v[3] + 1] + v[4]
  IN CASE i > Len(symbols) \/ Len(bytes) < 0 -> bytes
       [] i <= Len(symbols) /\ Len(v) = 1 -> Expand(Append(bytes, v[1]), symbols, i + 1)
       [] OTHER -> IF distance > Min({WindowSize, Len(bytes)}) THEN <<>>
                   ELSE Expand(CopyBack(bytes, LENGTHBASE[l] + v[2], distance), symbols, i + 1)

(* At every turn of encodeLZ77 the symbols so far stand for the bytes so   *)
(* far, with no distance beyond the window, although matches are found     *)
(* over chains in circular arrays that are overwritten, that survive the   *)
(* end of a block, and that skip comparing zeros on the word of an older   *)
(* count; and a match that was put off is true and does not get lost at    *)
(* the end of a block.                                                     *)
MatchesAreTrue ==
  LET read == IF z.lazy THEN z.pos - 1 ELSE z.pos
  IN stage = "compress" =>
       /\ Expand(SubSeq(data, 1, from), z.out, 1) = SubSeq(data, 1, read)
       /\ z.pos <= EndOfBlock /\ (z.lazy => z.pos < EndOfBlock)
       /\ z.lazy => /\ z.lazyoffset \in 1 .. Min({WindowSize, read})
                    /\ read + z.lazylength <= EndOfBlock
                    /\ \A k \in read + 1 .. read + z.lazylength : data[k] = data[k - z.lazyoffset]

(* Package-merge as the textbooks have it: the sorted weights of the       *)
(* symbols and of the pairs of the list before, limit times over.          *)
Packages(w, limit) ==
  LET list[n \in 1 .. limit] ==
        IF n = 1 THEN w
        ELSE LET newer == list[n - 1]
             IN SortSeq(w \o [i \in 1 .. Len(newer) \div 2 |-> newer[2 * i - 1] + newer[2 * i]], <)
  IN list[limit]

LeastCost(w, limit) == SumFunction(SubSeq(Packages(w, limit), 1, 2 * Len(w) - 2))

OptimalCode(freq, lengths, limit) ==
  LET w == SortSeq(SelectSeq([i \in 1 .. Cardinality(DOMAIN freq) |-> freq[i - 1]],
                             LAMBDA f : f > 0), <)
      coded == {s \in DOMAIN lengths : lengths[s] # 0}
  IN /\ \A s \in DOMAIN freq : freq[s] > 0 => s \in coded
     /\ \A s \in coded : lengths[s] <= limit
     /\ SumFunction([s \in coded |-> 2^(limit - lengths[s])]) = 2^limit
     /\ Len(w) > 1 =>
          SumFunction([s \in coded |-> freq[s] * lengths[s]]) = LeastCost(w, limit)

(* The codes of a dynamic block leave no bits unused, keep to the length   *)
(* that deflate allows and cost the least that a code of that length can,  *)
(* although the boundary package-merge that makes them in place keeps only *)
(* two chains of each list; and the decoder can build their trees.         *)
CodesAreOptimal ==
  /\ stage = "compress" /\ settings.btype = 2 /\ z.pos >= EndOfBlock =>
       \A ll \in {TreeLL(z.out)}, d \in {TreeD(z.out)} :
         \A repeats \in {RepeatCodes(CodeLengths(ll, d), 1)} :
           \A cl \in {TreeCL(repeats)} :
             /\ ll.error = 0 /\ OptimalCode(FrequenciesLL(z.out), ll.lengths, 15)
             /\ d.error = 0 /\ OptimalCode(Frequencies(z.out, 30, 3), d.lengths, 15)
             /\ cl.error = 0
             /\ OptimalCode(Frequencies(repeats, NUM_CODE_LENGTH_CODES, 1), cl.lengths, 7)
  /\ stage = "colours" =>
       \A c \in SmallCodes :
         OptimalCode(c.freq, lodepng_huffman_code_lengths(c.freq, c.limit), c.limit)

(* Both calls return. The loop of encodeLZ77 steps back by one byte when   *)
(* it takes a match that it had put off, the blocks are cut by a share of  *)
(* the data, and the decoder walks over the chunks of whatever file there  *)
(* is: still every step leads to a later stage, or leaves less to do in    *)
(* this one.                                                               *)
Stages == <<"colours", "lines", "store", "compress", "write", "stored", "read", "decompress", "done">>

Rank == CHOOSE n \in DOMAIN Stages : Stages[n] = stage

ToDo == CASE stage = "compress" -> (Len(data) - z.pos) + (Len(data) - from)
          [] stage = "stored"   -> 2 - Cardinality(faults)
          [] stage = "read"     -> Len(file.chunks) + 1 - next
          [] OTHER -> 0

CallsReturn ==
  [][/\ Rank' > Rank \/ (Rank' = Rank /\ ToDo' < ToDo)
     /\ ToDo' >= 0]_vars
============================================================================
