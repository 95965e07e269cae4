-------------------------------- MODULE Rle --------------------------------
(***************************************************************************)
(* Interleaved RLE decompression: decompress of graphics/rle.rs, one       *)
(* action per kind of order, one step per turn of its loop, against an     *)
(* encoder (external) that says what every order means for the picture.    *)
(*                                                                         *)
(* The source is bytes.  The destination is kept as the pixels written so  *)
(* far, so that d is ps times its length; what lies beyond is zero.  A     *)
(* pixel is its ps bytes in the order of the stream.                       *)
(***************************************************************************)
EXTENDS Integers, Sequences

CONSTANTS Bitmaps,         \* what decompress is called for, with bounds: how many
                           \* orders and which lengths of runs
          Masks            \* mask bytes of foreground/background images (bound)

ASSUME RleAssumption ==
  /\ \A b \in Bitmaps : /\ b.width \in Nat \ {0} /\ {b.height, b.bpp, b.orders} \subseteq Nat
                       /\ b.runs \subseteq 1..65535
  /\ Masks \subseteq 0..255

VARIABLES bitmap,          \* width, height and bpp of the call
          data,            \* its source
          i,               \* source cursor
          fg_pel, insert_fg, first_line,
          dst,             \* the pixels written
          outcome,         \* "encoding" before the call, "running", then its outcome
          image,           \* the picture the encoder means
          pen,             \* its foreground colour; has it just written background?
          last,            \* its last order: the picture before it, and its size
          orders,          \* orders encoded
          unknown,         \* the last order is one that is not defined
          cut              \* what losing the last byte took: nothing, an order, a part

rleVars == <<bitmap, data, i, fg_pel, insert_fg, first_line, dst, outcome,
             image, pen, last, orders, unknown, cut>>
encoder == <<bitmap, data, image, pen, last, orders, unknown, cut>>

-----------------------------------------------------------------------------
(* Pixels *)

Supported(bpp) == bpp \in {8, 15, 16, 24}
pixel_size(bpp) == CASE bpp = 8 -> 1 [] bpp \in {15, 16} -> 2 [] OTHER -> 3
white_pixel(bpp) ==
  CASE bpp = 15 -> <<255, 127>> [] bpp = 16 -> <<255, 255>>
    [] bpp = 24 -> <<255, 255, 255>> [] OTHER -> <<255>>

width == bitmap.width
capacity == bitmap.width * bitmap.height
ps == pixel_size(bitmap.bpp)
white == white_pixel(bitmap.bpp)
Black == [k \in 1..ps |-> 0]

Bit(a, k) == (a \div 2 ^ k) % 2
XorByte(a, b) ==
  LET x(k) == 2 ^ k * ((Bit(a, k) + Bit(b, k)) % 2)
  IN x(0) + x(1) + x(2) + x(3) + x(4) + x(5) + x(6) + x(7)
Xor(p, q) == [k \in 1..Len(p) |-> XorByte(p[k], q[k])]

\* The pixel at a place of the source; nobody uses it when the source is short
read_px(at) == IF at + ps > Len(data) THEN Black ELSE SubSeq(data, at + 1, at + ps)

-----------------------------------------------------------------------------
(* Order headers.  Each kind has a regular or lite code and a mega code.    *)

BG_RUN == {0, 240}
FG_RUN == {1, 241}
FGBG_IMAGE == {2, 242}
COLOR_RUN == {3, 243}
COLOR_IMAGE == {4, 244}
SET_FG_FG_RUN == {12, 246}
SET_FG_FGBG_IMAGE == {13, 247}
DITHERED_RUN == {14, 248}
SPECIAL_FGBG_1 == 249
SPECIAL_FGBG_2 == 250
WHITE == 253
BLACK == 254

Mega(code) == code >= 240
Fgbg == FGBG_IMAGE \cup SET_FG_FGBG_IMAGE
SetFg == SET_FG_FG_RUN \cup SET_FG_FGBG_IMAGE
RunOrders == BG_RUN \cup FG_RUN \cup Fgbg \cup SetFg \cup COLOR_RUN \cup COLOR_IMAGE
               \cup DITHERED_RUN

code_id(hdr) ==
  CASE hdr < 192 -> hdr \div 32 [] hdr >= 240 -> hdr [] OTHER -> hdr \div 16

\* How a code that is not mega counts: values of its length field, pixels per
\* unit, and what an extended length starts from
Field(code) == IF code < 12 THEN 32 ELSE 16
Unit(code)  == IF code \in Fgbg THEN 8 ELSE 1
Least(code) == IF code \in Fgbg THEN 1 ELSE Field(code)

\* Run length and header size of the order at i; a header that is cut is seen
\* because hlen passes the end
run_length(code) ==
  LET byte(k) == IF i + k < Len(data) THEN data[i + k + 1] ELSE 0
      r == byte(0) % Field(code)
  IN IF Mega(code) THEN [len |-> byte(1) + 256 * byte(2), hlen |-> 3]
     ELSE IF r # 0 THEN [len |-> r * Unit(code), hlen |-> 1]
     ELSE [len |-> byte(1) + Least(code), hlen |-> 2]

-----------------------------------------------------------------------------
(* A turn of the loop *)

\* Mutant: a background run after the first line counts as following one on it
FirstLineKeepsInsert == insert_fg

\* The flags after the test at the top of the loop
FirstLine == first_line /\ Len(dst) < width

InsertFg == insert_fg /\ ~(first_line /\ Len(dst) >= width)

\* A foreground or background pixel, XORed with the row above but for the first
above(pixels) == pixels[Len(pixels) + 1 - width]
FgBg(pixels, set, fg) ==
  IF FirstLine THEN IF set THEN fg ELSE Black
  ELSE IF set THEN Xor(above(pixels), fg) ELSE above(pixels)

\* A picture with n more pixels, the k-th of them Px(pixels, k)
Extended(picture, n, Px(_, _)) ==
  LET after[k \in 0..n] ==
        IF k = 0 THEN picture
        ELSE LET pixels == after[k - 1] IN Append(pixels, Px(pixels, k))
  IN after[n]

\* An index out of bounds: beyond the bitmap, or above its first row
Panics(n, looksUp) ==
  n > 0 /\ (Len(dst) + n > capacity \/ (looksUp /\ ~FirstLine /\ Len(dst) < width))

Short(c) == i + c > Len(data)

Order(codes) == outcome = "running" /\ i < Len(data) /\ code_id(data[i + 1]) \in codes

\* Takes c bytes and writes n pixels; `early' of them are written before the source
\* is found to be short
Take(c, n, early, looksUp, Px(_, _)) ==
  /\ i' = i + c
  /\ outcome' = CASE Short(c) -> IF Panics(early, looksUp) THEN "panic" ELSE "short"
                  [] ~Short(c) /\ Panics(n, looksUp) -> "panic"
                  [] OTHER -> "running"
  /\ dst' = IF outcome' = "running" THEN Extended(dst, n, Px) ELSE dst
  /\ first_line' = FirstLine
  /\ UNCHANGED encoder

\* A background run right after another starts with a foreground pixel
bg_run ==
  /\ Order(BG_RUN)
  /\ LET r == run_length(code_id(data[i + 1]))
         Px(pixels, k) == FgBg(pixels, k = 1 /\ InsertFg, fg_pel)
     IN Take(r.hlen, r.len, 0, TRUE, Px)
  /\ insert_fg' = TRUE
  /\ UNCHANGED fg_pel

fg_run ==
  /\ Order(FG_RUN \cup SET_FG_FG_RUN)
  /\ LET code == code_id(data[i + 1])
         r    == run_length(code)
         Px(pixels, k) == FgBg(pixels, TRUE, fg_pel')
     IN /\ fg_pel' = IF code \in SetFg THEN read_px(i + r.hlen) ELSE fg_pel
        /\ Take(r.hlen + (IF code \in SetFg THEN ps ELSE 0), r.len, 0, TRUE, Px)
  /\ insert_fg' = FALSE

dithered_run ==
  /\ Order(DITHERED_RUN)
  /\ LET r == run_length(code_id(data[i + 1]))
         Px(pixels, k) == read_px(i + r.hlen + (IF k % 2 = 1 THEN 0 ELSE ps))
     IN Take(r.hlen + 2 * ps, 2 * r.len, 0, FALSE, Px)
  /\ insert_fg' = FALSE
  /\ UNCHANGED fg_pel

color_run ==
  /\ Order(COLOR_RUN)
  /\ LET r == run_length(code_id(data[i + 1]))
         Px(pixels, k) == read_px(i + r.hlen)
     IN Take(r.hlen + ps, r.len, 0, FALSE, Px)
  /\ insert_fg' = FALSE
  /\ UNCHANGED fg_pel

\* One mask byte for every eight pixels, the low bit first
fgbg_image ==
  /\ Order(Fgbg)
  /\ LET code == code_id(data[i + 1])
         r    == run_length(code)
         head == r.hlen + (IF code \in SetFg THEN ps ELSE 0)
         masks == (r.len + 7) \div 8
         here == IF Short(head) THEN 0 ELSE Len(data) - (i + head)
         Px(pixels, k) ==
           FgBg(pixels, Bit(data[i + head + ((k - 1) \div 8) + 1], (k - 1) % 8) = 1, fg_pel')
     IN /\ fg_pel' = IF code \in SetFg THEN read_px(i + r.hlen) ELSE fg_pel
        /\ Take(head + masks, r.len, 8 * here, TRUE, Px)
  /\ insert_fg' = FALSE

color_image ==
  /\ Order(COLOR_IMAGE)
  /\ LET r == run_length(code_id(data[i + 1]))
         Px(pixels, k) == read_px(i + r.hlen + (k - 1) * ps)
     IN Take(r.hlen + r.len * ps, r.len, 0, FALSE, Px)
  /\ insert_fg' = FALSE
  /\ UNCHANGED fg_pel

\* Eight pixels under a fixed mask
special_fgbg ==
  /\ Order({SPECIAL_FGBG_1, SPECIAL_FGBG_2})
  /\ LET mask == IF data[i + 1] = SPECIAL_FGBG_1 THEN 3 ELSE 5
         Px(pixels, k) == FgBg(pixels, Bit(mask, k - 1) = 1, fg_pel)
     IN Take(1, 8, 0, TRUE, Px)
  /\ insert_fg' = FALSE
  /\ UNCHANGED fg_pel

white_or_black ==
  /\ Order({WHITE, BLACK})
  /\ LET Px(pixels, k) == IF data[i + 1] = WHITE THEN white ELSE Black
     IN Take(1, 1, 0, FALSE, Px)
  /\ insert_fg' = FALSE
  /\ UNCHANGED fg_pel

unknown_order ==
  /\ Order(0..255 \ (RunOrders \cup {SPECIAL_FGBG_1, SPECIAL_FGBG_2, WHITE, BLACK}))
  /\ outcome' = "error"
  /\ insert_fg' = FALSE
  /\ first_line' = FirstLine
  /\ UNCHANGED <<encoder, i, fg_pel, dst>>

\* The source is used up; a picture that is not complete is filled with zeros
decompressed ==
  /\ outcome = "running" /\ i >= Len(data)
  /\ outcome' = "ok"
  /\ UNCHANGED <<encoder, i, fg_pel, insert_fg, first_line, dst>>

Decompress ==
  \/ bg_run \/ fg_run \/ dithered_run \/ color_run \/ fgbg_image \/ color_image
  \/ special_fgbg \/ white_or_black \/ unknown_order \/ decompressed

-----------------------------------------------------------------------------
(* The encoder (external).  The row above the first counts as black, also   *)
(* for an order that begins on the first line and runs on into the second.  *)

Colour(k) == [b \in 1..ps |-> 16 * b + k]

\* The headers of a run of n pixels
Headers(code, n) ==
  LET f == Field(code)
      u == Unit(code)
  IN IF Mega(code) THEN {<<code, n % 256, n \div 256>>}
     ELSE {<<code * f + k>> : k \in {j \in 1..(f - 1) : j * u = n}}
            \cup {<<code * f, k>> : k \in {n - Least(code)} \cap 0..255}

Operands(code, n, mask) ==
  CASE code \in FG_RUN \cup BG_RUN -> <<>>
    [] code \in SET_FG_FG_RUN -> Colour(1)
    [] code \in Fgbg -> (IF code \in SetFg THEN Colour(1) ELSE <<>>)
                         \o [m \in 1..((n + 7) \div 8) |-> mask]
    [] code \in COLOR_RUN -> Colour(3)
    [] code \in DITHERED_RUN -> Colour(4) \o Colour(5)
    [] OTHER -> [b \in 1..(n * ps) |-> Colour(((b - 1) \div ps) % 3)[((b - 1) % ps) + 1]]

\* An order that begins after so many pixels begins on the first line
OnFirstLine(pixels) == Len(pixels) < width

\* The k-th pixel of an order.  A background run continues one only if both begin on
\* the first line or neither does.
Pixel(code, mask, pixels, k) ==
  LET paper == IF OnFirstLine(image) THEN Black ELSE above(pixels)
      set == CASE code \in BG_RUN -> k = 1 /\ pen.bg /\ (OnFirstLine(last.image) <=> OnFirstLine(image))
               [] code \in Fgbg \cup {SPECIAL_FGBG_1, SPECIAL_FGBG_2} ->
                    Bit(mask, (k - 1) % 8) = 1
               [] OTHER -> TRUE
  IN CASE code \in COLOR_RUN -> Colour(3)
       [] code \in DITHERED_RUN -> Colour(5 - (k % 2))
       [] code \in COLOR_IMAGE -> Colour((k - 1) % 3)
       [] code = WHITE -> white_pixel(bitmap.bpp)
       [] code = BLACK -> Black
       [] OTHER -> IF set THEN Xor(paper, pen'.fg) ELSE paper

Encode(code, bytes, n, mask) ==
  /\ outcome = "encoding" /\ ~unknown /\ orders < bitmap.orders /\ Len(image) <= capacity
  /\ orders' = orders + 1
  /\ pen' = [fg |-> IF code \in SetFg THEN Colour(1) ELSE pen.fg, bg |-> code \in BG_RUN]
  /\ data' = data \o bytes
  /\ last' = [image |-> image, size |-> Len(bytes)]
  /\ image' = LET Px(pixels, k) == Pixel(code, mask, pixels, k) IN Extended(image, n, Px)
  /\ UNCHANGED <<bitmap, cut, i, fg_pel, insert_fg, first_line, dst, outcome>>

encode_run(code, n, mask) ==
  /\ \E h \in Headers(code, n) :
       Encode(code, h \o Operands(code, n, mask),
              IF code \in DITHERED_RUN THEN 2 * n ELSE n, mask)
  /\ UNCHANGED unknown

encode_byte(code) ==
  /\ CASE code = SPECIAL_FGBG_1 -> Encode(code, <<code>>, 8, 3)
       [] code = SPECIAL_FGBG_2 -> Encode(code, <<code>>, 8, 5)
       [] code \in {WHITE, BLACK} -> Encode(code, <<code>>, 1, 0)
       [] OTHER -> Encode(code, <<code>>, 0, 0)
  /\ unknown' = (code \notin {SPECIAL_FGBG_1, SPECIAL_FGBG_2, WHITE, BLACK})

\* decompress is called, perhaps with a source that has lost its last byte
call(lost) ==
  /\ outcome = "encoding" /\ Len(data) >= lost
  /\ data' = SubSeq(data, 1, Len(data) - lost)
  /\ cut' = IF lost = 0 THEN "nothing" ELSE IF last.size = 1 THEN "order" ELSE "part"
  /\ outcome' = IF Supported(bitmap.bpp) THEN "running" ELSE "error"
  /\ UNCHANGED <<bitmap, i, fg_pel, insert_fg, first_line, dst, image, pen, last, orders,
                 unknown>>

Encoder ==
  \/ \E code \in RunOrders, n \in bitmap.runs, mask \in Masks : encode_run(code, n, mask)
  \/ \E code \in {SPECIAL_FGBG_1, SPECIAL_FGBG_2, WHITE, BLACK, 160, 255} : encode_byte(code)
  \/ \E lost \in 0..1 : call(lost)

-----------------------------------------------------------------------------
RleInit ==
  /\ bitmap \in Bitmaps
  /\ data = <<>> /\ i = 0
  /\ fg_pel = white /\ insert_fg = FALSE /\ first_line = TRUE /\ dst = <<>>
  /\ outcome = "encoding"
  /\ image = <<>> /\ pen = [fg |-> white, bg |-> FALSE]
  /\ last = [image |-> <<>>, size |-> 0] /\ orders = 0 /\ unknown = FALSE
  /\ cut = "nothing"

RleNext == Decompress \/ Encoder

RleSpec == RleInit /\ [][RleNext]_rleVars

-----------------------------------------------------------------------------
(* Properties *)

\* What decompress returns of a picture that fits the bitmap is the picture the
\* encoder means, however it mixes the kinds of orders and the forms of their headers,
\* across the end of the first line too: up to the last order that arrived whole.  It
\* fails only on a source that is cut within an order, names an unknown order or has an
\* unsupported depth, and never indexes out of bounds, also not above the first row
\* (decompress, run_length, write_fgbg).
PictureDecoded ==
  Len(image) <= capacity =>
    /\ outcome = "ok" => /\ cut # "part" /\ (unknown => cut = "order")
                         /\ dst = IF cut = "nothing" THEN image ELSE last.image
    /\ outcome = "short" => cut = "part"
    /\ outcome = "error" => unknown \/ ~Supported(bitmap.bpp)
    /\ outcome # "panic"

\* What the comment on the loop of Display::process says of every rectangle: "A single
\* bad/unsupported rect is skipped so it can't blank the session."  Skipped is one for
\* which apply returns an error; orders that draw more than the bitmap holds make
\* decompress index out of bounds instead (rle.rs, write_px).
BadRectSkipped == outcome # "panic"
=============================================================================
