------------------------------ MODULE PngColor -----------------------------
(***************************************************************************)
(* The colour side of lodepng: which PNG colour mode a picture is stored   *)
(* in, and the conversion of its pixels to that mode and back. A pixel is  *)
(* <<r, g, b, a>> and a picture the sequence of its pixels, as the 8-bit   *)
(* RGBA that quant::Utils hands over; 16-bit pictures are left out.        *)
(*                                                                         *)
(* A mode is a record: type, one of the five colour types; bits, the width *)
(* of a sample; key, <<>> or the samples of the colour that stands for     *)
(* transparent; palette, a sequence of pixels.                             *)
(***************************************************************************)
EXTENDS Deflate

LCT_GREY == 0
LCT_RGB == 2
LCT_PALETTE == 3
LCT_GREY_ALPHA == 4
LCT_RGBA == 6

ColorTypes == {LCT_GREY, LCT_RGB, LCT_PALETTE, LCT_GREY_ALPHA, LCT_RGBA}

(* 37 for a depth that does not go with the type, 31 for no type.          *)
checkColorValidity(type, bits) ==
  LET allowed == CASE type = LCT_GREY -> {1, 2, 4, 8, 16}
                   [] type = LCT_PALETTE -> {1, 2, 4, 8}
                   [] OTHER -> {8, 16}
  IN IF type \notin ColorTypes THEN 31 ELSE IF bits \notin allowed THEN 37 ELSE 0

getNumColorChannels(type) ==
  CASE type \in {LCT_GREY, LCT_PALETTE} -> 1 [] type = LCT_GREY_ALPHA -> 2
    [] type = LCT_RGB -> 3 [] OTHER -> 4

lodepng_get_bpp(mode) == getNumColorChannels(mode.type) * mode.bits

(* The mode of the picture that comes in, and of one just initialised.     *)
lodepng_color_mode_init == [type |-> LCT_RGBA, bits |-> 8, key |-> <<>>, palette |-> <<>>]

----------------------------------------------------------------------------
(* The colours of a picture                                                *)

getValueRequiredBits(value) ==
  CASE value \in {0, 255} -> 1
    [] value \notin {0, 255} /\ value % 17 = 0 -> IF value % 85 = 0 THEN 2 ELSE 4
    [] OTHER -> 8

lodepng_color_profile_init ==
  [colored |-> FALSE, key |-> <<>>, alpha |-> FALSE, bits |-> 1, colors |-> <<>>]

(* One pixel enters the profile. The colour of the first transparent pixel *)
(* becomes the key; another transparency, another transparent colour or an *)
(* opaque pixel of that colour later on calls for an alpha channel. With   *)
(* 32 bits per pixel the code is never done before the last pixel.         *)
ProfilePixel(p, px) ==
  LET rgb     == SubSeq(px, 1, 3)
      a       == px[4]
      colored == p.colored \/ px[1] # px[2] \/ px[1] # px[3]
      alpha   == \/ p.alpha
                 \/ a # 255 /\ (a # 0 \/ (p.key # <<>> /\ p.key # rgb))
                 \/ a = 255 /\ p.key = rgb
      key     == IF a = 0 /\ ~alpha /\ p.key = <<>> THEN rgb ELSE p.key
      bits    == Max({p.bits, getValueRequiredBits(px[1])})
  IN [colored |-> colored, key |-> key, alpha |-> alpha,
      bits |-> IF colored \/ alpha THEN 8 ELSE bits,
      colors |-> IF px \in Range(p.colors) \/ Len(p.colors) = 257 THEN p.colors
                 ELSE Append(p.colors, px)]

RECURSIVE lodepng_get_color_profile(_, _, _)
lodepng_get_color_profile(p, pixels, i) ==
  IF i > Len(pixels) \/ p.bits = 0 THEN p
  ELSE lodepng_get_color_profile(ProfilePixel(p, pixels[i]), pixels, i + 1)

(* The mode with the fewest bits. Up to 16 pixels are not worth a chunk    *)
(* for the key, nor is a palette of half as many colours as pixels. The    *)
(* key is cut to the width of the samples.                                 *)
lodepng_auto_choose_color(pixels) ==
  LET prof == lodepng_get_color_profile(lodepng_color_profile_init, pixels, 1)
      alpha == prof.alpha \/ (prof.key # <<>> /\ Len(pixels) <= 16)
      bits == IF alpha THEN 8 ELSE prof.bits
      n    == Len(prof.colors)
      palettebits == CASE n <= 2 -> 1 [] n \in 3 .. 4 -> 2 [] n \in 5 .. 16 -> 4 [] OTHER -> 8
      greyIsLess == ~prof.colored /\ ~alpha /\ bits <= palettebits
      type == CASE prof.colored /\ alpha  -> LCT_RGBA
                [] prof.colored /\ ~alpha -> LCT_RGB
                [] ~prof.colored /\ alpha -> LCT_GREY_ALPHA
                [] OTHER -> LCT_GREY
  IN IF n <= 256 /\ n * 2 < Len(pixels) /\ ~greyIsLess
     THEN [type |-> LCT_PALETTE, bits |-> palettebits, key |-> <<>>, palette |-> prof.colors]
     ELSE [type |-> type, bits |-> bits, palette |-> <<>>,
           key |-> IF alpha THEN <<>> ELSE [i \in DOMAIN prof.key |-> prof.key[i] % 2^bits]]

(* 0 for an opaque palette, else 2: after it has met its first transparent *)
(* colour the code starts again, and then finds that very one not opaque.  *)
getPaletteTranslucency(palette) ==
  IF \A i \in DOMAIN palette : palette[i][4] = 255 THEN 0 ELSE 2

----------------------------------------------------------------------------
(* Pixels as samples of a mode, and back                                   *)

rgba8ToPixel(mode, px) ==
  CASE mode.type = LCT_GREY -> <<px[1] \div 2^(8 - mode.bits)>>
    [] mode.type = LCT_RGB -> SubSeq(px, 1, 3)
    [] mode.type = LCT_PALETTE ->
         <<(CHOOSE i \in DOMAIN mode.palette : mode.palette[i] = px) - 1>>
    [] mode.type = LCT_GREY_ALPHA -> <<px[1], px[4]>>
    [] OTHER -> px

(* A key is compared with all samples in grey and RGB only; an index       *)
(* beyond the palette is an opaque black.                                  *)
getPixelColorRGBA8(mode, s) ==
  LET opaque(samples) == IF mode.key # <<>> /\ samples = SubSeq(mode.key, 1, Len(samples))
                         THEN 0 ELSE 255
      grey == (s[1] * 255) \div (2^mode.bits - 1)
  IN CASE mode.type = LCT_GREY -> <<grey, grey, grey, opaque(s)>>
       [] mode.type = LCT_RGB -> Append(s, opaque(s))
       [] mode.type = LCT_PALETTE ->
            IF s[1] < Len(mode.palette) THEN mode.palette[s[1] + 1] ELSE <<0, 0, 0, 255>>
       [] mode.type = LCT_GREY_ALPHA -> <<s[1], s[1], s[1], s[2]>>
       [] OTHER -> s

(* All pixels, from one mode to another.                                   *)
lodepng_convert(mode_out, mode_in, pixels) ==
  IF mode_out = mode_in THEN pixels
  ELSE [i \in DOMAIN pixels |-> rgba8ToPixel(mode_out, getPixelColorRGBA8(mode_in, pixels[i]))]
============================================================================
