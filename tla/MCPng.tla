------------------------------- MODULE MCPng -------------------------------
(***************************************************************************)
(* Small pictures for every colour mode, odd widths, runs and repetitions  *)
(* longer than the window, several blocks; five ways to encode them.       *)
(***************************************************************************)
EXTENDS Png

Grey(g) == <<g, g, g, 255>>
Picture(w, h, pixel(_, _)) ==
  [w |-> w, h |-> h, pixels |-> [i \in 1 .. w * h |-> pixel((i - 1) % w, (i - 1) \div w)]]

Chart == Picture(5, 3, LAMBDA x, y : Grey(IF x > y THEN 255 ELSE 0))
Shades == Picture(3, 3, LAMBDA x, y : Grey(17 * (3 * y + x)))
Ramp == Picture(9, 8, LAMBDA x, y : Grey((5 * x + 8 * y) % 256))
Clear == <<90, 9, 8, 0>>
Colours == Picture(4, 4, LAMBDA x, y : <<60 * x, 40 * y, 9 * x * y, 255>>)
Palette == Picture(5, 4, LAMBDA x, y : IF x < 2 THEN <<9, 8, 7, 255>>
                                       ELSE IF y < 2 THEN <<1, 2, 3, 128>> ELSE <<0, 0, 0, 255>>)
Stripes == Picture(7, 5, LAMBDA x, y : IF x % 3 = 0 THEN <<9, 8, 7, 255>> ELSE <<y * 40, 1, 1, 255>>)
Keyed == Picture(6, 3, LAMBDA x, y : IF x = y THEN Clear ELSE <<30 * x, 60 * y, 5, 255>>)
Hidden == Picture(6, 3, LAMBDA x, y : IF x = 5 THEN Clear ELSE IF x = 0 /\ y = 0 THEN <<90, 9, 8, 255>>
                                      ELSE <<30 * x, 60 * y, 5, 255>>)
Blurred == Picture(3, 2, LAMBDA x, y : <<50 * x, 7, 7, 100 + y>>)
Ghost == Picture(2, 2, LAMBDA x, y : <<3, 3, 3, IF x = y THEN 0 ELSE 255>>)
Mist == Picture(6, 3, LAMBDA x, y : IF x = 5 /\ y = 2 THEN <<4, 4, 4, 0>> ELSE Grey(40 * x + y))
Steps == Picture(5, 4, LAMBDA x, y : IF x = 4 THEN <<255, 255, 255, 0>> ELSE Grey(85 * ((x + y) % 3)))
Dot == Picture(1, 1, LAMBDA x, y : Grey(85))

MCPictures == {Chart, Shades, Ramp, Colours, Palette, Stripes, Keyed, Hidden, Blurred, Ghost,
               Mist, Steps, Dot}

Setting(btype, interlace, strategy, zero) ==
  [btype |-> btype, interlace_method |-> interlace, filter_strategy |-> strategy,
   filter_palette_zero |-> zero]

MCSettings ==
  {Setting(2, 0, "LFS_MINSUM", TRUE), Setting(2, 1, "LFS_MINSUM", TRUE),
   Setting(2, 0, "LFS_ZERO", TRUE),
   Setting(1, 1, "LFS_MINSUM", FALSE), Setting(0, 0, "LFS_MINSUM", FALSE)}

MCDamages == {1, 7, 12}

MCSmallCodes ==
  [freq : [0 .. 4 -> {0, 1, 3, 8}], limit : {3}]
  \cup {[freq |-> [s \in 0 .. 7 |-> <<1, 1, 2, 3, 5, 8, 13, 21>>[s + 1]], limit |-> l] : l \in {3, 4, 7}}
============================================================================
