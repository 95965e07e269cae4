------------------------------- MODULE Planar -------------------------------
(***************************************************************************)
(* The RDP 6.0 planar codec: decode of graphics/planar.rs, one step per    *)
(* control byte of an RLE plane, against an encoder (external) that cuts   *)
(* one plane into segments and keeps what it means.  The other planes are  *)
(* flat.  A run without literals repeats a zero byte: what another one     *)
(* repeats, the crate and its notes see differently.                       *)
(***************************************************************************)
EXTENDS Integers, Sequences

CONSTANTS Streams,         \* format byte, width and height of the call, and a bound on
                           \* the segments of the plane that is cut freely
          Levels,          \* values of its first row (bound)
          Deltas,          \* differences to the row above (bound)
          Literals,        \* how many literal bytes and how long a run a segment has
          Repeats          \* (bounds)

ASSUME PlanarAssumption ==
  /\ \A s \in Streams : {s.format, s.width, s.height, s.segments} \subseteq Nat
  /\ Levels \subseteq 0..255
  /\ Deltas \subseteq -128..127
  /\ Literals \subseteq 0..15
  /\ Repeats \subseteq 0..47

VARIABLES stream,          \* the call's format, width and height
          source,          \* its bytes, once there is a call
          plan,            \* the encoder's plane: its place, code and values, and the last
                           \* byte of the row
          cursor, last_byte, raw,   \* decode_rle_plane: pos, last, and raw as far as filled
          planes,          \* planes decoded so far
          rgba,            \* the pixels returned
          verdict,         \* "encoding", "running", then the outcome
          truncated        \* the source has lost its last byte

planarVars == <<stream, source, plan, cursor, last_byte, raw, planes, rgba, verdict, truncated>>
planarCall == <<stream, source, plan, truncated>>

-----------------------------------------------------------------------------
(* The format byte *)

cll == stream.format % 8
cs == (stream.format \div 8) % 2 = 1
rle == (stream.format \div 16) % 2 = 1
has_alpha == (stream.format \div 32) % 2 = 0
Lossy == cll # 0 \/ cs
PlaneCount == IF has_alpha THEN 4 ELSE 3

\* The size of a plane: the last two are halved, rounded up, when subsampled
Halved(n) == IF Lossy /\ cs /\ n > PlaneCount - 2 THEN 2 ELSE 1
PlaneWidth(n) == (stream.width + Halved(n) - 1) \div Halved(n)
PlaneHeight(n) == (stream.height + Halved(n) - 1) \div Halved(n)
PlaneSize(n) == PlaneWidth(n) * PlaneHeight(n)

-----------------------------------------------------------------------------
(* Planes *)

\* The plane being read
Plane == Len(planes) + 1
Reads == verdict = "running" /\ stream.format # 0 /\ Plane <= PlaneCount

\* A control byte: literal bytes and the length of the run
nRun(control) ==
  LET n == control % 16 IN IF n \in {1, 2} THEN (16 * n) + (control \div 16) ELSE n
cRaw(control) == IF control % 16 \in {1, 2} THEN 0 ELSE control \div 16

\* Mutant: the sign bit of a delta is only dropped
DeltaOffByOne(d) == IF d % 2 = 0 THEN d \div 2 ELSE -(d \div 2)

\* A delta as it is stored: the low bit is the sign
Delta(d) == IF d % 2 = 0 THEN d \div 2 ELSE -((d \div 2) + 1)

\* The first row is absolute, a later one adds to the row above, in a byte
Undelta(w, bytes) ==
  LET plane[k \in 1..Len(bytes)] ==
        IF k <= w THEN bytes[k] ELSE (plane[k - w] + Delta(bytes[k])) % 256
  IN [k \in 1..Len(bytes) |-> plane[k]]

\* The control byte at the cursor is missing, or its segment overruns the source or
\* the row
Overruns(w) ==
  IF cursor >= Len(source) THEN TRUE
  ELSE LET control == source[cursor + 1] IN
       \/ cursor + 1 + cRaw(control) > Len(source)
       \/ (Len(raw) % w) + cRaw(control) + nRun(control) > w

\* A turn of decode_rle_plane's inner loop; last starts at 0 in every row
rle_segment ==
  LET w    == PlaneWidth(Plane)
      c    == cRaw(source[cursor + 1])
      end  == IF c > 0 THEN source[cursor + 1 + c] ELSE last_byte
      line == raw \o SubSeq(source, cursor + 2, cursor + 1 + c)
                  \o [k \in 1..nRun(source[cursor + 1]) |-> end]
  IN /\ Reads /\ rle /\ Len(raw) < PlaneSize(Plane)
     /\ IF Overruns(w)
        THEN /\ verdict' = "error"
             /\ UNCHANGED <<cursor, last_byte, raw>>
        ELSE /\ cursor' = cursor + 1 + c
             /\ raw' = line
             /\ last_byte' = IF Len(line) % w = 0 THEN 0 ELSE end
             /\ UNCHANGED verdict
     /\ UNCHANGED <<planarCall, planes, rgba>>

\* All rows are there; the first one is copied even if there is none, which is an
\* index out of bounds
rle_plane ==
  /\ Reads /\ rle /\ Len(raw) = PlaneSize(Plane)
  /\ \/ /\ PlaneHeight(Plane) = 0 /\ PlaneWidth(Plane) > 0
        /\ verdict' = "panic"
        /\ UNCHANGED planes
     \/ /\ PlaneHeight(Plane) > 0 \/ PlaneWidth(Plane) = 0
        /\ planes' = Append(planes, Undelta(PlaneWidth(Plane), raw))
        /\ UNCHANGED verdict
  /\ raw' = <<>> /\ last_byte' = 0
  /\ UNCHANGED <<planarCall, cursor, rgba>>

raw_plane ==
  LET need == PlaneSize(Plane) IN
  /\ Reads /\ ~rle
  /\ \/ /\ Len(source) < cursor + need
        /\ verdict' = "error"
        /\ UNCHANGED <<planes, cursor>>
     \/ /\ Len(source) >= cursor + need
        /\ planes' = Append(planes, SubSeq(source, cursor + 1, cursor + need))
        /\ cursor' = cursor + need
        /\ UNCHANGED verdict
  /\ UNCHANGED <<planarCall, last_byte, raw, rgba>>

-----------------------------------------------------------------------------
(* Pixels *)

Signed(byte) == IF byte < 128 THEN byte ELSE byte - 256
Clamp(v) == IF v < 0 THEN 0 ELSE IF v > 255 THEN 255 ELSE v

\* Plane n, counted from the end, at pixel k; a chroma sample serves its block
At(n, k) == planes[PlaneCount + 1 - n][k]
Sample(n, k) ==
  LET x == (k - 1) % stream.width
      y == (k - 1) \div stream.width
      h == IF cs THEN 2 ELSE 1
  IN Signed(At(n, ((y \div h) * PlaneWidth(PlaneCount)) + (x \div h) + 1)) * 2 ^ cll

Alpha(k) == IF has_alpha THEN planes[1][k] ELSE 255

\* The inverse transform of decode_aycocg
YCoCg(k) ==
  LET yy == At(3, k)
      co == Sample(2, k)
      cg == Sample(1, k)
  IN <<Clamp(yy - co - cg), Clamp(yy + cg), Clamp(yy + co - cg), Alpha(k)>>

\* The planes are joined, as colours or as luma and chroma
join_planes ==
  /\ verdict = "running" /\ stream.format # 0 /\ Len(planes) = PlaneCount
  /\ verdict' = "ok"
  /\ rgba' = [k \in 1..(stream.width * stream.height) |->
                IF Lossy THEN YCoCg(k) ELSE <<At(3, k), At(2, k), At(1, k), Alpha(k)>>]
  /\ UNCHANGED <<planarCall, cursor, last_byte, raw, planes>>

\* Format 0: pixels as B, G, R, A
uncompressed ==
  LET size == stream.width * stream.height IN
  /\ verdict = "running" /\ stream.format = 0
  /\ \/ /\ Len(source) < 1 + 4 * size
        /\ verdict' = "error"
        /\ UNCHANGED rgba
     \/ /\ Len(source) >= 1 + 4 * size
        /\ verdict' = "ok"
        /\ rgba' = [k \in 1..size |->
                      <<source[4 * k], source[4 * k - 1], source[4 * k - 2], source[4 * k + 1]>>]
  /\ UNCHANGED <<planarCall, cursor, last_byte, raw, planes>>

Decode == rle_segment \/ rle_plane \/ raw_plane \/ join_planes \/ uncompressed

-----------------------------------------------------------------------------
(* The encoder (external) *)

ZigZag(d) == IF d >= 0 THEN 2 * d ELSE (-2 * d) - 1

\* The value of a flat plane, counted from the last, and its code
Flat(n) == <<5, 20, 130, 200>>[PlaneCount + 1 - n]
FlatRow(w, v) ==
  LET literal(k) == <<16 * k>> \o [b \in 1..k |-> v]
      row[m \in 0..w] == IF m <= 15 THEN IF m = 0 THEN <<>> ELSE literal(m)
                        ELSE literal(15) \o row[m - 15]
  IN row[w]
FlatCode(n) ==
  LET w == PlaneWidth(n)
      row[y \in 0..PlaneHeight(n)] ==
        IF y = 0 THEN <<>> ELSE row[y - 1] \o FlatRow(w, IF y = 1 THEN Flat(n) ELSE 0)
  IN IF rle THEN row[PlaneHeight(n)] ELSE [k \in 1..PlaneSize(n) |-> Flat(n)]

\* A segment of the free plane: c literals of one value or delta v, then a run of n
\* that repeats the last of them, or a zero
Control(c, n) == IF n < 16 THEN 16 * c + n ELSE (16 * (n % 16)) + (n \div 16)
encode_segment(c, n, v) ==
  LET w    == PlaneWidth(plan.at)
      done == Len(plan.values)
      byte == IF done < w THEN v ELSE ZigZag(v)
      step == IF c > 0 THEN v ELSE 0
      value[k \in 1..(done + c + n)] ==
        IF k <= done THEN plan.values[k]
        ELSE IF k <= w THEN step ELSE (value[k - w] + step) % 256
      full == (done + c + n) % w = 0
  IN /\ verdict = "encoding" /\ rle /\ plan.segments < stream.segments
     /\ done < PlaneSize(plan.at) /\ (done % w) + c + n <= w
     /\ v \in IF done < w THEN Levels ELSE Deltas
     /\ c + n > 0 /\ n \notin {1, 2} /\ (n > 15 => c = 0)
     /\ c = 0 => plan.last = 0
     /\ plan' = [plan EXCEPT !.code = @ \o <<Control(c, n)>> \o [b \in 1..c |-> byte],
                             !.values = [k \in 1..(done + c + n) |-> value[k]],
                             !.last = IF full \/ c = 0 THEN 0 ELSE byte,
                             !.segments = @ + 1]
     /\ UNCHANGED <<stream, source, cursor, last_byte, raw, planes, rgba, verdict, truncated>>

PlaneCode(n) == IF rle /\ n = plan.at THEN plan.code ELSE FlatCode(n)
PlaneValue(n, k) == IF rle /\ n = plan.at THEN plan.values[k] ELSE Flat(n)

Bytes(format) ==
  IF format = 0
  THEN [b \in 1..(4 * stream.width * stream.height) |-> b]
  ELSE PlaneCode(1) \o PlaneCode(2) \o PlaneCode(3)
         \o (IF has_alpha THEN PlaneCode(4) ELSE <<>>)

\* decode is called, perhaps with a source that has lost its last byte
call_decode(lost) ==
  /\ verdict = "encoding"
  /\ rle => Len(plan.values) = PlaneSize(plan.at)
  /\ LET all == <<stream.format>> \o Bytes(stream.format) IN
     source' = SubSeq(all, 1, Len(all) - lost)
  /\ truncated' = (lost > 0)
  /\ verdict' = IF source' = <<>> THEN "error" ELSE "running"
  /\ cursor' = 1
  /\ UNCHANGED <<stream, plan, last_byte, raw, planes, rgba>>

PlanarInit ==
  /\ stream \in Streams
  /\ plan \in {[at |-> n, code |-> <<>>, values |-> <<>>, last |-> 0,
                segments |-> 0] : n \in 1..PlaneCount}
  /\ source = <<>> /\ cursor = 0 /\ last_byte = 0 /\ raw = <<>> /\ planes = <<>>
  /\ rgba = <<>> /\ verdict = "encoding" /\ truncated = FALSE

PlanarNext ==
  \/ Decode
  \/ \E c \in Literals, n \in Repeats, v \in Levels \cup Deltas : encode_segment(c, n, v)
  \/ \E lost \in 0..1 : call_decode(lost)

-----------------------------------------------------------------------------
(* Properties *)

\* The value meant for pixel k in plane n, counted from the last
Meant(n, k) == PlaneValue(PlaneCount + 1 - n, k)

\* What decode returns of a lossless stream is the picture that was encoded, however a
\* plane is cut into literals and runs, differences that wrap around a byte included; it
\* fails only on a source that is cut, and never indexes out of bounds.  Nothing is said
\* of the lossy modes, which the module's comment refuses and the code decodes, nor of a
\* picture without rows (decode, decode_rle_plane).
PlanesDecoded ==
  ~Lossy /\ stream.height > 0 =>
    /\ verdict = "ok" =>
         /\ ~truncated
         /\ \A k \in 1..(stream.width * stream.height) :
              IF stream.format = 0
              THEN rgba[k] = <<4 * k - 1, 4 * k - 2, 4 * k - 3, 4 * k>>
              ELSE rgba[k] = <<Meant(3, k), Meant(2, k), Meant(1, k),
                               IF has_alpha THEN PlaneValue(1, k) ELSE 255>>
    /\ verdict = "error" => truncated
    /\ verdict # "panic"
=============================================================================
