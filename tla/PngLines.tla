------------------------------ MODULE PngLines -----------------------------
(***************************************************************************)
(* From the samples of a picture to the bytes that are compressed, and     *)
(* back: the seven pictures of Adam7 interlacing, the packing of samples   *)
(* into the bytes of a row, and the filters that store a byte as its       *)
(* difference from a prediction.                                           *)
(*                                                                         *)
(* Samples are a sequence with one tuple per pixel, row after row. The     *)
(* code packs whole pictures without gaps and then inserts or removes the  *)
(* padding of each row; here a row is packed with its padding at once.     *)
(***************************************************************************)
EXTENDS PngColor

----------------------------------------------------------------------------
(* Adam7                                                                   *)

ADAM7_IX == <<0, 4, 0, 2, 0, 1, 0>>
ADAM7_IY == <<0, 0, 4, 0, 2, 0, 1>>
ADAM7_DX == <<8, 8, 4, 4, 2, 2, 1>>
ADAM7_DY == <<8, 8, 8, 4, 4, 2, 2>>

(* Width and height of each pass; one without columns has no rows.         *)
Adam7_getpassvalues(w, h) ==
  LET across(i) == (w + ADAM7_DX[i] - ADAM7_IX[i] - 1) \div ADAM7_DX[i]
      down(i)   == (h + ADAM7_DY[i] - ADAM7_IY[i] - 1) \div ADAM7_DY[i]
  IN [i \in 1 .. 7 |-> IF across(i) = 0 \/ down(i) = 0 THEN [w |-> 0, h |-> 0]
                       ELSE [w |-> across(i), h |-> down(i)]]

(* The place in the picture, from 1, of pixel x, y of pass i.              *)
Adam7Place(i, x, y, w) ==
  (ADAM7_IY[i] + y * ADAM7_DY[i]) * w + ADAM7_IX[i] + x * ADAM7_DX[i] + 1

(* The samples of pass i, whose size is p.                                 *)
Adam7_interlace(samples, i, p, w) ==
  [k \in 1 .. p.w * p.h |-> samples[Adam7Place(i, (k - 1) % p.w, (k - 1) \div p.w, w)]]

(* The samples of the picture from those of the seven passes.              *)
Adam7_deinterlace(passes, w, h) ==
  LET size == Adam7_getpassvalues(w, h)
      from(n) == CHOOSE ik \in (1 .. 7) \X (1 .. w * h) :
                   /\ ik[2] <= size[ik[1]].w * size[ik[1]].h
                   /\ Adam7Place(ik[1], (ik[2] - 1) % size[ik[1]].w,
                                 (ik[2] - 1) \div size[ik[1]].w, w) = n
  IN [n \in 1 .. w * h |-> passes[from(n)[1]][from(n)[2]]]

----------------------------------------------------------------------------
(* Rows                                                                    *)

(* Row y of a picture of width w, flat, a sample each.                     *)
RowSamples(samples, w, y) == FlattenSeq(SubSeq(samples, (y - 1) * w + 1, y * w))

(* Samples below 8 bits fill their bytes from the highest bit on; what is  *)
(* left of a row's last byte is 0.                                         *)
addPaddingBits(row, bits) ==
  LET per == 8 \div bits
      part(i, k) == IF per * (i - 1) + k > Len(row) THEN 0
                    ELSE row[per * (i - 1) + k] * 2^(8 - bits * k)
  IN [i \in 1 .. (Len(row) + per - 1) \div per |->
        SumFunction([k \in 1 .. per |-> part(i, k)])]

removePaddingBits(bytes, bits, n) ==
  LET per == 8 \div bits
      shift(i) == 8 - bits * (((i - 1) % per) + 1)
  IN [i \in 1 .. n |-> (bytes[((i - 1) \div per) + 1] \div 2^shift(i)) % 2^bits]

----------------------------------------------------------------------------
(* Filters                                                                 *)

Abs(n) == IF n < 0 THEN -n ELSE n

(* Of the bytes at the left, above, and above at the left.                 *)
paethPredictor(a, b, c) ==
  LET pa == Abs(b - c)
      pb == Abs(a - c)
      pc == Abs(a + b - c - c)
  IN CASE pc < pa /\ pc < pb -> c
       [] ~(pc < pa /\ pc < pb) /\ pb < pa -> b
       [] OTHER -> a

(* What each filter type predicts. The code treats the first row and the   *)
(* first pixel of a row apart; the values are those of zeros around them.  *)
Predict(type, a, b, c) ==
  CASE type = 0 -> 0
    [] type = 1 -> a
    [] type = 2 -> b
    [] type = 3 -> (a + b) \div 2
    [] type = 4 -> paethPredictor(a, b, c)

Before(row, i, bytewidth) == IF i > bytewidth THEN row[i - bytewidth] ELSE 0

filterScanline(row, prev, bytewidth, type) ==
  [i \in DOMAIN row |->
     (row[i] - Predict(type, Before(row, i, bytewidth), prev[i], Before(prev, i, bytewidth))) % 256]

(* recon is what is known of the row.                                      *)
RECURSIVE unfilterScanline(_, _, _, _, _)
unfilterScanline(recon, row, prev, bytewidth, type) ==
  LET i == Len(recon) + 1
      byte == row[i] + Predict(type, Before(recon, i, bytewidth), prev[i], Before(prev, i, bytewidth))
  IN IF i > Len(row) THEN recon
     ELSE unfilterScanline(Append(recon, byte % 256), row, prev, bytewidth, type)

(* A type that looks small: the bytes of a difference count as signed.     *)
FilterSum(bytes, type) ==
  SumFunction([i \in DOMAIN bytes |->
                 IF type = 0 \/ bytes[i] < 128 THEN bytes[i] ELSE 255 - bytes[i]])

(* The first type with the least sum.                                      *)
BestType(row, prev, bytewidth) ==
  LET sum == [type \in 0 .. 4 |-> FilterSum(filterScanline(row, prev, bytewidth, type), type)]
  IN CHOOSE t \in 0 .. 4 : \A u \in 0 .. 4 : sum[t] < sum[u] \/ (sum[t] = sum[u] /\ t <= u)

(* Pictures with a palette or small samples are not filtered, whatever the *)
(* strategy, when the settings say so, as they do by default. The          *)
(* strategies of entropy, brute force and of types given beforehand are    *)
(* left out.                                                               *)
Strategy(mode, settings) ==
  IF settings.filter_palette_zero /\ (mode.type = LCT_PALETTE \/ mode.bits < 8)
  THEN "LFS_ZERO" ELSE settings.filter_strategy

ByteWidth(mode) == (lodepng_get_bpp(mode) + 7) \div 8

ZeroRow(row) == [i \in DOMAIN row |-> 0]

(* The rows of one picture, each behind its filter type.                   *)
filter(rows, mode, settings) ==
  LET prev(y) == IF y = 1 THEN ZeroRow(rows[y]) ELSE rows[y - 1]
      type(y) == IF Strategy(mode, settings) = "LFS_ZERO" THEN 0
                 ELSE BestType(rows[y], prev(y), ByteWidth(mode))
  IN Concat(LAMBDA y : <<type(y)>> \o filterScanline(rows[y], prev(y), ByteWidth(mode), type(y)),
            1, Len(rows))

(* Back from them: s has the rows and the error; a row has linebytes.      *)
RECURSIVE unfilter(_, _, _, _)
unfilter(s, in, linebytes, mode) ==
  LET y    == Len(s.rows)
      at   == (1 + linebytes) * y
      prev == IF y = 0 THEN [i \in 1 .. linebytes |-> 0] ELSE s.rows[y]
      row  == unfilterScanline(<<>>, SubSeq(in, at + 2, at + 1 + linebytes), prev, ByteWidth(mode), in[at + 1])
  IN IF at >= Len(in) \/ s.error # 0 THEN s
     ELSE IF in[at + 1] > 4 THEN [s EXCEPT !.error = 36]
     ELSE unfilter([s EXCEPT !.rows = Append(@, row)], in, linebytes, mode)

----------------------------------------------------------------------------
(* Whole pictures                                                          *)

LineBytes(mode, w) == (w * lodepng_get_bpp(mode) + 7) \div 8

(* Bytes of a filtered picture of p.w times p.h.                           *)
FilteredSize(mode, p) == p.h * (1 + LineBytes(mode, p.w))

FilterPicture(samples, p, mode, settings) ==
  filter([y \in 1 .. p.h |-> addPaddingBits(RowSamples(samples, p.w, y), mode.bits)],
         mode, settings)

preProcessScanlines(samples, w, h, mode, settings) ==
  LET pass == Adam7_getpassvalues(w, h)
  IN IF settings.interlace_method = 0
     THEN FilterPicture(samples, [w |-> w, h |-> h], mode, settings)
     ELSE Concat(LAMBDA i : FilterPicture(Adam7_interlace(samples, i, pass[i], w), pass[i], mode, settings),
                 1, 7)

(* The samples of one picture, a tuple for each pixel, and the error.      *)
UnfilterPicture(in, p, mode) ==
  LET n  == getNumColorChannels(mode.type)
      s  == unfilter([rows |-> <<>>, error |-> 0], in, LineBytes(mode, p.w), mode)
      flat == Concat(LAMBDA y : removePaddingBits(s.rows[y], mode.bits, n * p.w), 1, p.h)
  IN [error |-> s.error,
      samples |-> IF s.error # 0 THEN <<>>
                  ELSE [k \in 1 .. p.w * p.h |-> SubSeq(flat, n * (k - 1) + 1, n * k)]]

postProcessScanlines(in, w, h, mode, interlace_method) ==
  LET pass == Adam7_getpassvalues(w, h)
      start(i) == SumFunction([k \in 1 .. i - 1 |-> FilteredSize(mode, pass[k])])
      of == [i \in 1 .. 7 |->
               UnfilterPicture(SubSeq(in, start(i) + 1, start(i + 1)), pass[i], mode)]
      bad == {i \in 1 .. 7 : of[i].error # 0}
  IN IF interlace_method = 0 THEN UnfilterPicture(in, [w |-> w, h |-> h], mode)
     ELSE IF bad # {} THEN of[Min(bad)]
     ELSE [error |-> 0, samples |-> Adam7_deinterlace([i \in 1 .. 7 |-> of[i].samples], w, h)]
============================================================================
