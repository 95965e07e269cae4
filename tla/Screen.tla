------------------------------- MODULE Screen -------------------------------
(***************************************************************************)
(* From the payload of an update to pixels: parse_bitmap_update, to_rgba   *)
(* and apply (graphics/bitmap.rs), Framebuffer (framebuffer.rs) and the    *)
(* cursor shapes of pointer.rs, byte for byte, against a server (external) *)
(* that knows which colours it wants where.                                *)
(*                                                                         *)
(* rle::decompress and planar::decode are what Rle and Planar show them to *)
(* be: here a compressed body is a byte that says whether they return the  *)
(* bytes that follow it, fail or panic.                                    *)
(***************************************************************************)
EXTENDS Integers, Sequences

CONSTANTS ScreenWidth, ScreenHeight,
          Lefts, Tops, Sizes,  \* where rectangles lie and how wide and high they are
          Forms,               \* depth, compression, and how it decodes
          MaxRects,            \* rectangles the server sends (bound)
          Pointers             \* cursor shapes: depth, width, height

ASSUME ScreenAssumption ==
  /\ ScreenWidth \in Nat /\ ScreenHeight \in Nat
  /\ Lefts \subseteq 0..65535 /\ Tops \subseteq 0..65535
  /\ \A s \in Sizes : {s.width, s.height} \subseteq 0..65535
  /\ \A f \in Forms : /\ f.bpp \in Nat /\ {f.compressed, f.header} \subseteq BOOLEAN
                     /\ f.decodes \in {"good", "bad", "panics"}
  /\ MaxRects \in Nat
  /\ \A p \in Pointers : {p.bpp, p.width, p.height} \subseteq 0..65535

VARIABLES body,            \* the update the server puts together
          rects,           \* what it means: its rectangles in order
          fb,              \* Framebuffer.pixels, one <<r, g, b, a>> per pixel
          dirty,           \* Display.dirty
          cursor_image,    \* Display.cursor
          shape,           \* the cursor the server means
          status           \* "sending", then what Display::process returned, or "panic"

screenVars == <<body, rects, fb, dirty, cursor_image, shape, status>>

-----------------------------------------------------------------------------
(* Bytes *)

U16(n) == <<n % 256, n \div 256>>
get_u16_le(buf, at) == buf[at + 1] + 256 * buf[at + 2]
From(buf, at) == SubSeq(buf, at + 1, Len(buf))
Ceil(n, d) == (n + d - 1) \div d

-----------------------------------------------------------------------------
(* Bitmap updates: bitmap.rs *)

BITMAP_COMPRESSION == 1
NO_BITMAP_COMPRESSION_HDR == 1024
RECT_HEADER == 18
CD_HEADER == 8

\* The rectangle at the front of a buffer, and the bytes it takes; nothing if the
\* buffer is too short for its header, its compression header or its data
RectAt(buf) ==
  LET w(k)   == get_u16_le(buf, 2 * k)
      packed == w(7) % 2 = BITMAP_COMPRESSION
      cd     == packed /\ (w(7) \div NO_BITMAP_COMPRESSION_HDR) % 2 = 0
      head   == RECT_HEADER + (IF cd THEN CD_HEADER ELSE 0)
      len    == IF cd THEN w(10) ELSE w(8)
  IN IF Len(buf) < RECT_HEADER THEN <<>>
     ELSE IF Len(buf) < head THEN <<>>
     ELSE IF Len(buf) < head + len THEN <<>>
     ELSE <<[left |-> w(0), top |-> w(1), width |-> w(4), height |-> w(5), bpp |-> w(6),
             compressed |-> packed, data |-> SubSeq(buf, head + 1, head + len),
             size |-> head + len]>>

\* parse_bitmap_update: all rectangles, or an error
parse_bitmap_update(buf) ==
  LET after[n \in 0..get_u16_le(buf, 2)] ==
        IF n = 0 THEN [ok |-> TRUE, rest |-> From(buf, 4), rects |-> <<>>]
        ELSE LET b == after[n - 1]
                 r == RectAt(b.rest)
             IN IF ~b.ok \/ r = <<>> THEN [b EXCEPT !.ok = FALSE]
                ELSE [ok |-> TRUE, rest |-> From(b.rest, r[1].size),
                      rects |-> Append(b.rects, r[1])]
  IN IF Len(buf) < 4 THEN [ok |-> FALSE, rest |-> <<>>, rects |-> <<>>]
     ELSE after[get_u16_le(buf, 2)]

\* Scales a channel of n values to a byte
scale(v, max) == ((v * 255) + (max \div 2)) \div max

bytes_per_pixel(bpp) == CASE bpp \in {15, 16} -> 2 [] bpp = 24 -> 3 [] OTHER -> 4

\* The colour of a pixel from its bytes
Rgb(bpp, px) ==
  LET p == px[1] + 256 * px[2] IN
  CASE bpp = 16 -> <<scale(p \div 2048, 31), scale((p \div 32) % 64, 63), scale(p % 32, 31)>>
    [] bpp = 15 -> <<scale((p \div 1024) % 32, 31), scale((p \div 32) % 32, 31), scale(p % 32, 31)>>
    [] OTHER -> <<px[3], px[2], px[1]>>

\* Mutant: the rows are taken as they come
SourceRowTopDown(height, row) == row

\* Rows are stored from the bottom up
SourceRow(height, row) == height - 1 - row

\* to_rgba: rows top-down, or nothing on an error
to_rgba(pixels, width, height, bpp) ==
  LET n == bytes_per_pixel(bpp)
      stride == width * n
      Px(row, col) ==
        LET at == SourceRow(height, row) * stride + col * n IN SubSeq(pixels, at + 1, at + n)
  IN IF bpp \notin {15, 16, 24, 32} \/ Len(pixels) < stride * height THEN [ok |-> FALSE]
     ELSE [ok |-> TRUE,
           rgba |-> [k \in 1..(width * height) |->
                       Append(Rgb(bpp, Px((k - 1) \div width, (k - 1) % width)), 255)]]

\* The decoders of compressed bodies; planar::decode gives rgba, with its own alpha
DecoderPanics(r) == r.compressed /\ r.data[1] = 2
Decoded(r) ==
  IF r.compressed /\ r.data[1] # 1 THEN [ok |-> FALSE]
  ELSE IF r.compressed /\ r.bpp = 32
  THEN [ok |-> TRUE, rgba |-> [k \in 1..(r.width * r.height) |->
                                 SubSeq(Tail(r.data), 4 * k - 3, 4 * k)]]
  ELSE to_rgba(IF r.compressed THEN Tail(r.data) ELSE r.data, r.width, r.height, r.bpp)

-----------------------------------------------------------------------------
(* Framebuffer: framebuffer.rs *)

Min2(a, b) == IF a < b THEN a ELSE b

\* blit_rgba: row by row, clipped on the right and at the bottom
blit_rgba(pixels, x, y, w, h, rgba) ==
  LET copy_w == Min2(w, IF ScreenWidth > x THEN ScreenWidth - x ELSE 0) IN
  [k \in 1..(ScreenWidth * ScreenHeight) |->
     LET col == ((k - 1) % ScreenWidth) - x
         row == ((k - 1) \div ScreenWidth) - y
     IN IF row \in 0..(h - 1) /\ col \in 0..(copy_w - 1) THEN rgba[row * w + col + 1]
        ELSE pixels[k]]

\* apply of one rectangle after another; one that does not decode is skipped, a decoder
\* that panics ends the thread
apply_rects(pixels, list) ==
  LET after[n \in 0..Len(list)] ==
        IF n = 0 THEN [pixels |-> pixels, dirty |-> FALSE, panic |-> FALSE]
        ELSE LET r == list[n]
                 d == Decoded(r)
                 b == after[n - 1]
             IN IF b.panic \/ DecoderPanics(r) THEN [b EXCEPT !.panic = TRUE]
                ELSE IF ~d.ok THEN b
                ELSE [b EXCEPT !.pixels = blit_rgba(@, r.left, r.top, r.width, r.height, d.rgba),
                               !.dirty = TRUE]
  IN after[Len(list)]

\* Display::process of a bitmap update
process_bitmap ==
  /\ status = "bitmap"
  /\ LET p == parse_bitmap_update(body)
         a == apply_rects(fb, p.rects)
     IN \/ /\ p.ok
           /\ status' = IF a.panic THEN "panic" ELSE "ok"
           /\ fb' = a.pixels /\ dirty' = (dirty \/ a.dirty)
        \/ /\ ~p.ok
           /\ status' = "error" /\ UNCHANGED <<fb, dirty>>
  /\ UNCHANGED <<body, rects, cursor_image, shape>>

-----------------------------------------------------------------------------
(* Cursor shapes: pointer.rs *)

POINTER_HEADER == 14

\* Mutant: rows are not padded
padless(n, align) == n

\* Rows of both masks end on an even byte
pad(n, align) == Ceil(n, align) * align

\* A byte of a mask, or what stands for one that is missing
MaskByte(mask, at, default) == IF at < Len(mask) THEN mask[at + 1] ELSE default

decode_masks(width, height, xor_mask, and_mask, bpp) ==
  LET n == bytes_per_pixel(bpp)
      xor_stride == pad(width * n, 2)
      and_stride == pad(Ceil(width, 8), 2)
      Px(x, y) ==
        LET src_row == height - 1 - y
            xo == src_row * xor_stride + x * n
            b(k) == MaskByte(xor_mask, xo + k, 0)
            p == b(0) + 256 * b(1)
            and_byte == MaskByte(and_mask, src_row * and_stride + x \div 8, 255)
            alpha == IF (and_byte \div 2 ^ (7 - (x % 8))) % 2 = 1 THEN 0 ELSE 255
        IN IF bpp \in {24, 32} THEN <<b(2), b(1), b(0), alpha>>
           ELSE <<((p \div 2048) * 255) \div 31, (((p \div 32) % 64) * 255) \div 63,
                  ((p % 32) * 255) \div 31, alpha>>
  IN [k \in 1..(width * height) |-> Px((k - 1) % width, (k - 1) \div width)]

\* decode_color_pointer, and decode_new_pointer after the depth: nothing on an error
DecodePointer(buf, bpp) ==
  LET w(k)    == get_u16_le(buf, 2 * k)
      len_and == w(5)
      len_xor == w(6)
      masks   == From(buf, POINTER_HEADER)
  IN IF Len(buf) < POINTER_HEADER THEN <<>>
     ELSE IF Len(masks) < len_xor + len_and \/ bpp \notin {15, 16, 24, 32} THEN <<>>
     ELSE <<[width |-> w(3), height |-> w(4), hotspot |-> <<w(1), w(2)>>,
             rgba |-> decode_masks(w(3), w(4), SubSeq(masks, 1, len_xor),
                                   SubSeq(masks, len_xor + 1, len_xor + len_and), bpp)]>>
decode_color_pointer(buf) == DecodePointer(buf, 24)
decode_new_pointer(buf) ==
  IF Len(buf) < 2 THEN <<>>
  ELSE IF decode_color_pointer(From(buf, 2)) = <<>> THEN <<>>
  ELSE DecodePointer(From(buf, 2), get_u16_le(buf, 0))

\* Display::process of a color or new pointer
process_pointer ==
  /\ status \in {"color", "pointer"}
  /\ LET c == IF status = "color" THEN decode_color_pointer(body) ELSE decode_new_pointer(body)
     IN \/ c # <<>> /\ cursor_image' = c /\ dirty' = TRUE /\ status' = "ok"
        \/ c = <<>> /\ status' = "error" /\ UNCHANGED <<cursor_image, dirty>>
  /\ UNCHANGED <<body, rects, fb, shape>>

-----------------------------------------------------------------------------
(* The server (external) *)

\* The colour it wants at a place of its n-th rectangle, one every depth can show
Wanted(n, x, y) == <<IF n % 2 = 1 THEN 255 ELSE 0, IF x % 2 = 1 THEN 255 ELSE 0,
                     IF y % 2 = 1 THEN 255 ELSE 0>>

\* A colour as the bytes of a depth
PxBytes(bpp, c) ==
  CASE bpp = 16 -> U16((c[1] \div 8) * 2048 + (c[2] \div 4) * 32 + c[3] \div 8)
    [] bpp = 15 -> U16((c[1] \div 8) * 1024 + (c[2] \div 8) * 32 + c[3] \div 8)
    [] bpp = 32 -> <<c[3], c[2], c[1], 0>>
    [] OTHER    -> <<c[3], c[2], c[1]>>

\* The bytes of rows 1 to h, each Row(y) with y from the bottom up
Rows(h, Row(_)) ==
  LET upTo[k \in 0..h] == IF k = 0 THEN <<>> ELSE upTo[k - 1] \o Row(h - k) IN upTo[h]
RowBytes(w, Px(_)) ==
  LET upTo[k \in 0..w] == IF k = 0 THEN <<>> ELSE upTo[k - 1] \o Px(k - 1) IN upTo[w]

\* The bytes a raw row is padded with, to a multiple of four
Padding(s, f) == IF f.compressed THEN 0 ELSE (-(s.width * bytes_per_pixel(f.bpp))) % 4

\* The body of a rectangle; planar bodies are top-down rgba
RectBytes(n, s, f) ==
  LET Bgr(y) == LET Px(x) == PxBytes(f.bpp, Wanted(n, x, y))
                IN RowBytes(s.width, Px) \o [k \in 1..Padding(s, f) |-> 0]
      Rgba(y) == LET Px(x) == Append(Wanted(n, x, s.height - 1 - y), 255) IN RowBytes(s.width, Px)
      plain == IF f.compressed /\ f.bpp = 32 THEN Rows(s.height, Rgba) ELSE Rows(s.height, Bgr)
  IN IF f.compressed
     THEN <<CASE f.decodes = "good" -> 1 [] f.decodes = "panics" -> 2 [] OTHER -> 0>> \o plain
     ELSE SubSeq(plain, 1, Len(plain) - (IF f.decodes = "good" THEN 0 ELSE 1))

\* One more rectangle at the end of the update
server_rect(left, top, s, f) ==
  LET n == Len(rects) + 1
      bytes == RectBytes(n, s, f)
      flags == IF f.compressed THEN 1 + (IF f.header THEN 0 ELSE 1024) ELSE 0
      cd == IF f.compressed /\ f.header THEN U16(0) \o U16(Len(bytes)) \o U16(0) \o U16(0)
            ELSE <<>>
  IN /\ status = "sending" /\ n <= MaxRects
     /\ body' = U16(1) \o U16(n) \o From(body, 4)
                 \o U16(left) \o U16(top) \o U16(left + s.width - 1) \o U16(top + s.height - 1)
                 \o U16(s.width) \o U16(s.height) \o U16(f.bpp) \o U16(flags)
                 \o U16(Len(bytes) + Len(cd)) \o cd \o bytes
     /\ rects' = Append(rects, [left |-> left, top |-> top, width |-> s.width,
                                height |-> s.height, decodes |-> f.decodes,
                                padded |-> Padding(s, f) > 0])
     /\ UNCHANGED <<fb, dirty, cursor_image, shape, status>>

\* The update goes out, perhaps without its last byte
server_update(lost) ==
  /\ status = "sending"
  /\ status' = "bitmap"
  /\ body' = SubSeq(body, 1, Len(body) - lost)
  /\ UNCHANGED <<rects, fb, dirty, cursor_image, shape>>

\* A cursor: see-through on the diagonal, as a color or a new pointer.  A pixel of four
\* bytes carries the same transparency as the mask.
SeeThrough(x, y) == x = y
CursorAlpha(x, y) == IF SeeThrough(x, y) THEN 0 ELSE 255
XorBytes(bpp, x, y) ==
  IF bpp = 32 THEN SubSeq(PxBytes(32, Wanted(1, x, y)), 1, 3) \o <<CursorAlpha(x, y)>>
  ELSE PxBytes(bpp, Wanted(1, x, y))
server_pointer(p, kind, lost) ==
  LET Xor(y) == LET Px(x) == XorBytes(p.bpp, x, y)
                    row == RowBytes(p.width, Px)
                IN IF Len(row) % 2 = 1 THEN Append(row, 0) ELSE row
      MaskOf(y, b) ==
        LET bit(x) == IF x < p.width /\ SeeThrough(x, y) THEN 2 ^ (7 - (x % 8)) ELSE 0
        IN bit(8 * b) + bit(8 * b + 1) + bit(8 * b + 2) + bit(8 * b + 3)
             + bit(8 * b + 4) + bit(8 * b + 5) + bit(8 * b + 6) + bit(8 * b + 7)
      And(y) == LET Px(b) == <<MaskOf(y, b)>> IN RowBytes(2 * Ceil(p.width, 16), Px)
      xor == Rows(p.height, Xor)
      and == Rows(p.height, And)
      all == (IF kind = "pointer" THEN U16(p.bpp) ELSE <<>>)
               \o U16(0) \o U16(1) \o U16(2) \o U16(p.width) \o U16(p.height)
               \o U16(Len(and)) \o U16(Len(xor)) \o xor \o and
  IN /\ status = "sending" /\ rects = <<>>
     /\ kind = "color" => p.bpp = 24
     /\ status' = kind
     /\ body' = SubSeq(all, 1, Len(all) - lost)
     /\ shape' = IF lost = 0 THEN <<p>> ELSE <<>>
     /\ UNCHANGED <<rects, fb, dirty, cursor_image>>

-----------------------------------------------------------------------------
ScreenInit ==
  /\ body = U16(1) \o U16(0) /\ rects = <<>>
  /\ fb = [k \in 1..(ScreenWidth * ScreenHeight) |-> <<0, 0, 0, 0>>] /\ dirty = FALSE
  /\ cursor_image = <<>> /\ shape = <<>> /\ status = "sending"

ScreenNext ==
  \/ process_bitmap \/ process_pointer
  \/ \E left \in Lefts, top \in Tops, s \in Sizes, f \in Forms : server_rect(left, top, s, f)
  \/ \E lost \in 0..1 : server_update(lost)
  \/ \E p \in Pointers, kind \in {"color", "pointer"}, lost \in 0..1 :
       server_pointer(p, kind, lost)

-----------------------------------------------------------------------------
(* Properties *)

\* The rectangles that may show at a place of the screen
Covering(x, y) ==
  {n \in 1..Len(rects) :
     /\ rects[n].decodes = "good" \/ rects[n].padded
     /\ x \in rects[n].left..(rects[n].left + rects[n].width - 1)
     /\ y \in rects[n].top..(rects[n].top + rects[n].height - 1)}

\* After an update every place of the screen shows what the last rectangle over it
\* that decodes wants there, the right way up, whichever depth or compression each
\* has, where it passes the edge of the screen and whether or not one before it is
\* bad; nothing else changes, and an update that is cut changes nothing.  A raw
\* rectangle whose rows are padded is read as if they were not: nothing is said of the
\* places it covers (parse_bitmap_update, to_rgba, apply, blit_rgba).
ScreenAsSent ==
  /\ status = "ok" /\ shape = <<>> =>
       \A x \in 0..(ScreenWidth - 1), y \in 0..(ScreenHeight - 1) :
         LET at == fb[y * ScreenWidth + x + 1] IN
         IF Covering(x, y) = {} THEN at = <<0, 0, 0, 0>>
         ELSE LET n == CHOOSE m \in Covering(x, y) : \A k \in Covering(x, y) : k <= m
              IN \/ rects[n].padded
                 \/ at = Append(Wanted(n, x - rects[n].left, y - rects[n].top), 255)
  /\ status = "error" => ~dirty

\* A cursor that arrives whole has the server's colours and is transparent just
\* where the server says, whatever its width does to the padding of the two masks;
\* one that is cut is an error.  Of a 15 bpp cursor this says only the transparency: its
\* colours are read as if it had 16 (decode_color_pointer, decode_new_pointer,
\* decode_masks).
CursorAsSent ==
  /\ shape # <<>> =>
       /\ status # "error"
       /\ status = "ok" =>
            /\ cursor_image[1].width = shape[1].width /\ cursor_image[1].height = shape[1].height
            /\ \A x \in 0..(shape[1].width - 1), y \in 0..(shape[1].height - 1) :
                 LET px == cursor_image[1].rgba[y * shape[1].width + x + 1] IN
                 /\ px[4] = CursorAlpha(x, y)
                 /\ shape[1].bpp # 15 => SubSeq(px, 1, 3) = Wanted(1, x, y)
  /\ shape = <<>> => cursor_image = <<>>
=============================================================================
