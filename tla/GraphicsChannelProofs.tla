----------------------- MODULE GraphicsChannelProofs -----------------------
(***************************************************************************)
(* The graphics channel's safety properties, for chunks of any length, any *)
(* message and any number of surfaces.                                     *)
(*                                                                         *)
(* Neither a reassembler nor the chunks on their way say which message     *)
(* they are part of, and the surfaces the client has are behind those the  *)
(* server means.  The invariants therefore look ahead: what a reassembler  *)
(* makes of the chunks still on their way is exactly the messages still to *)
(* be received (Trace), and these take what the client shows to what the   *)
(* server means (Shows).                                                   *)
(***************************************************************************)
EXTENDS GraphicsChannel, SequenceTheorems, TLAPS

Reassembler(S) == [buffer : Seq(S), expected : Nat, in_progress : BOOLEAN]
ChunkOf(S) ==
  [total : Nat, first : BOOLEAN, last : BOOLEAN, data : Seq(S), short : BOOLEAN]

\* push of chunk c takes a reassembler from r to r2, and what is to be received
\* from l to l2
Advance(r, l, c, r2, l2) ==
  /\ ~Rejects(r, c) /\ r2 = push(r, c)
  /\ Complete(r, c) = <<>> => l2 = l
  /\ Complete(r, c) # <<>> => l # <<>> /\ Complete(r, c) = <<Head(l)>> /\ l2 = Tail(l)

\* The chunks w take a reassembler from a to b and make the messages m of it
Trace(S, w, a, b, m) ==
  \E r \in [0..Len(w) -> Reassembler(S)], l \in [0..Len(w) -> Seq(Seq(S))] :
    /\ r[0] = a /\ r[Len(w)] = b /\ l[0] = m /\ l[Len(w)] = <<>>
    /\ \A i \in 1..Len(w) : Advance(r[i - 1], l[i - 1], w[i], r[i], l[i])

-----------------------------------------------------------------------------
\* What push returns and leaves behind is well typed (Reassembler::push).
LEMMA PushTypes ==
  ASSUME NEW S, NEW r \in Reassembler(S), NEW c \in ChunkOf(S)
  PROVE  /\ push(r, c) \in Reassembler(S)
         /\ Complete(r, c) # <<>> => Complete(r, c)[1] \in Seq(S)
<1>1. /\ r.buffer \in Seq(S) /\ r.expected \in Nat /\ r.in_progress \in BOOLEAN
      /\ c.total \in Nat /\ c.data \in Seq(S) /\ <<>> \in Seq(S)
  BY EmptySeq DEF Reassembler, ChunkOf
<1>2. Start(r, c) \in Reassembler(S)
  BY <1>1 DEF Start, Reassembler
<1> DEFINE s == Start(r, c)
<1> HIDE DEF s
<1>3. s.buffer \in Seq(S) /\ s.buffer \o c.data \in Seq(S)
  BY <1>1, <1>2, ConcatProperties DEF s, Reassembler
<1>4. /\ [s EXCEPT !.buffer = <<>>, !.in_progress = FALSE] \in Reassembler(S)
      /\ [s EXCEPT !.buffer = @ \o c.data] \in Reassembler(S)
  BY <1>1, <1>2, <1>3 DEF s, Reassembler
<1>5. QED
  BY <1>3, <1>4 DEF push, Complete, s

\* Where no chunk is on its way, no message is.
LEMMA TraceEmpty ==
  ASSUME NEW S, NEW a, NEW b, NEW m, Trace(S, <<>>, a, b, m)
  PROVE  m = <<>> /\ a = b
BY DEF Trace

\* A reassembler that gets no chunk stays as it is.
LEMMA TraceStart ==
  ASSUME NEW S, NEW a \in Reassembler(S)
  PROVE  Trace(S, <<>>, a, a, <<>>)
<1> DEFINE r == [i \in 0..0 |-> a]
           l == [i \in 0..0 |-> <<>>]
<1>1. /\ r \in [0..0 -> Reassembler(S)] /\ l \in [0..0 -> Seq(Seq(S))]
      /\ r[0] = a /\ l[0] = <<>> /\ Len(<<>>) = 0
  BY EmptySeq
<1> HIDE DEF r, l
<1>2. QED
  BY <1>1 DEF Trace

\* One chunk.
LEMMA TraceOne ==
  ASSUME NEW S, NEW a \in Reassembler(S), NEW b \in Reassembler(S),
         NEW c \in ChunkOf(S), NEW m \in Seq(Seq(S)), Advance(a, m, c, b, <<>>)
  PROVE  Trace(S, <<c>>, a, b, m)
<1> DEFINE r == [i \in 0..1 |-> IF i = 0 THEN a ELSE b]
           l == [i \in 0..1 |-> IF i = 0 THEN m ELSE <<>>]
           w == <<c>>
<1>1. /\ r \in [0..1 -> Reassembler(S)] /\ l \in [0..1 -> Seq(Seq(S))]
      /\ r[0] = a /\ r[1] = b /\ l[0] = m /\ l[1] = <<>> /\ Len(w) = 1 /\ w[1] = c
  BY EmptySeq
<1> HIDE DEF r, l, w
<1>2. \A i \in 1..1 : i = 1 /\ i - 1 = 0
  OBVIOUS
<1>3. \A i \in 1..1 : Advance(r[i - 1], l[i - 1], w[i], r[i], l[i])
  BY <1>1, <1>2
<1>4. Trace(S, w, a, b, m)
  BY <1>1, <1>3 DEF Trace
<1>5. QED
  BY <1>4 DEF w

\* The next chunk does what the trace says, and the rest of the trace goes on.
LEMMA TraceNext ==
  ASSUME NEW S, NEW w \in Seq(ChunkOf(S)), w # <<>>, NEW a, NEW b, NEW m,
         Trace(S, w, a, b, m)
  PROVE  \E l \in Seq(Seq(S)) :
           /\ Advance(a, m, Head(w), push(a, Head(w)), l)
           /\ Trace(S, Tail(w), push(a, Head(w)), b, l)
<1> DEFINE n == Len(w)
<1>1. PICK r \in [0..n -> Reassembler(S)], l \in [0..n -> Seq(Seq(S))] :
        /\ r[0] = a /\ r[n] = b /\ l[0] = m /\ l[n] = <<>>
        /\ \A i \in 1..n : Advance(r[i - 1], l[i - 1], w[i], r[i], l[i])
  BY DEF Trace
<1> DEFINE t == Tail(w)
           r2 == [i \in 0..(n - 1) |-> r[i + 1]]
           l2 == [i \in 0..(n - 1) |-> l[i + 1]]
<1>2. /\ n \in Nat \ {0} /\ Len(t) = n - 1 /\ Head(w) = w[1]
      /\ \A i \in 1..(n - 1) : t[i] = w[i + 1]
  BY HeadTailProperties, EmptySeq
<1> HIDE DEF n, t
<1>3. 1 \in 1..n /\ 1 - 1 = 0 /\ (n - 1) + 1 = n
  BY <1>2
<1>4. Advance(a, m, w[1], r[1], l[1]) /\ r[1] = push(a, w[1]) /\ l[1] \in Seq(Seq(S))
  <2>1. Advance(r[0], l[0], w[1], r[1], l[1])
    BY <1>1, <1>3
  <2>2. QED
    BY <1>1, <1>2, <2>1 DEF Advance
<1>5. /\ r2 \in [0..(n - 1) -> Reassembler(S)] /\ l2 \in [0..(n - 1) -> Seq(Seq(S))]
      /\ r2[0] = r[1] /\ l2[0] = l[1] /\ r2[n - 1] = b /\ l2[n - 1] = <<>>
  BY <1>1, <1>2, <1>3
<1>6. ASSUME NEW i \in 1..(n - 1)
      PROVE  Advance(r2[i - 1], l2[i - 1], t[i], r2[i], l2[i])
  <2>1. /\ i + 1 \in 1..n /\ (i + 1) - 1 = i /\ i - 1 \in 0..(n - 1) /\ (i - 1) + 1 = i
        /\ i \in 0..(n - 1)
    BY <1>2
  <2>2. /\ r2[i - 1] = r[i] /\ l2[i - 1] = l[i] /\ r2[i] = r[i + 1] /\ l2[i] = l[i + 1]
        /\ t[i] = w[i + 1]
    BY <1>2, <2>1
  <2>3. Advance(r[i], l[i], w[i + 1], r[i + 1], l[i + 1])
    BY <1>1, <2>1
  <2>4. QED
    BY <2>2, <2>3
<1> HIDE DEF r2, l2
<1>7. Trace(S, t, r[1], b, l[1])
  BY <1>2, <1>5, <1>6 DEF Trace
<1>8. QED
  BY <1>2, <1>4, <1>7 DEF t

\* More messages to be received later change nothing of the next step.
LEMMA AdvanceLonger ==
  ASSUME NEW S, NEW r, NEW l \in Seq(S), NEW c, NEW r2, NEW l2, NEW n \in Seq(S),
         Advance(r, l, c, r2, l2)
  PROVE  Advance(r, l \o n, c, r2, l2 \o n)
<1>1. CASE Complete(r, c) = <<>>
  BY <1>1 DEF Advance
<1>2. CASE Complete(r, c) # <<>>
  <2>1. l # <<>> /\ Complete(r, c) = <<Head(l)>> /\ l2 = Tail(l) /\ ~Rejects(r, c)
        /\ r2 = push(r, c)
    BY <1>2 DEF Advance
  <2>2. l \o n # <<>> /\ Head(l \o n) = Head(l) /\ Tail(l \o n) = Tail(l) \o n
    <3> DEFINE m == l \o n
    <3>1. /\ m \in Seq(S) /\ Len(m) = Len(l) + Len(n) /\ Len(l) \in Nat \ {0} /\ Len(n) \in Nat
          /\ \A i \in 1..(Len(l) + Len(n)) : m[i] = IF i <= Len(l) THEN l[i] ELSE n[i - Len(l)]
      BY <2>1, ConcatProperties, EmptySeq, LenProperties
    <3>2. /\ Head(l) = l[1] /\ Tail(l) \in Seq(S) /\ Len(Tail(l)) = Len(l) - 1
          /\ \A i \in 1..(Len(l) - 1) : Tail(l)[i] = l[i + 1]
      BY <2>1, HeadTailProperties
    <3> HIDE DEF m
    <3>3. m # <<>>
      BY <3>1
    <3>4. /\ Head(m) = m[1] /\ Tail(m) \in Seq(S) /\ Len(Tail(m)) = Len(m) - 1
          /\ \A i \in 1..(Len(m) - 1) : Tail(m)[i] = m[i + 1]
      BY <3>1, <3>3, HeadTailProperties
    <3>5. /\ Tail(l) \o n \in Seq(S) /\ Len(Tail(l) \o n) = Len(l) - 1 + Len(n)
          /\ \A i \in 1..(Len(l) - 1 + Len(n)) :
               (Tail(l) \o n)[i] = IF i <= Len(l) - 1 THEN Tail(l)[i] ELSE n[i - (Len(l) - 1)]
      BY <3>2, ConcatProperties
    <3>6. m[1] = l[1]
      BY <3>1
    <3>7. \A i \in 1..Len(Tail(m)) : Tail(m)[i] = (Tail(l) \o n)[i]
      BY <3>1, <3>2, <3>4, <3>5
    <3>8. Tail(m) = Tail(l) \o n
      <4>1. Len(Tail(m)) = Len(Tail(l) \o n)
        BY <3>1, <3>4, <3>5
      <4>2. QED
        BY ONLY <3>4, <3>5, <3>7, <4>1, SeqEqual
    <3>9. QED
      BY <3>2, <3>3, <3>4, <3>6, <3>8 DEF m
  <2>3. QED
    BY <1>2, <2>1, <2>2 DEF Advance
<1>3. QED
  BY <1>1, <1>2

\* The trace of chunks after which more chunks follow.
LEMMA TraceJoin ==
  ASSUME NEW S, NEW u \in Seq(ChunkOf(S)), NEW w \in Seq(ChunkOf(S)),
         NEW a, NEW b, NEW c, NEW m, NEW n, Trace(S, u, a, b, m), Trace(S, w, b, c, n)
  PROVE  Trace(S, u \o w, a, c, m \o n)
<1> DEFINE p == Len(u)
           q == Len(w)
           v == u \o w
           M == Seq(Seq(S))
<1>1. PICK r1 \in [0..p -> Reassembler(S)], l1 \in [0..p -> M] :
        /\ r1[0] = a /\ r1[p] = b /\ l1[0] = m /\ l1[p] = <<>>
        /\ \A i \in 1..p : Advance(r1[i - 1], l1[i - 1], u[i], r1[i], l1[i])
  BY DEF Trace
<1>2. PICK r2 \in [0..q -> Reassembler(S)], l2 \in [0..q -> M] :
        /\ r2[0] = b /\ r2[q] = c /\ l2[0] = n /\ l2[q] = <<>>
        /\ \A i \in 1..q : Advance(r2[i - 1], l2[i - 1], w[i], r2[i], l2[i])
  BY DEF Trace
<1>3. /\ p \in Nat /\ q \in Nat /\ Len(v) = p + q
      /\ \A i \in 1..(p + q) : v[i] = IF i <= p THEN u[i] ELSE w[i - p]
  BY ConcatProperties, LenProperties
<1>4. n \in M /\ \A x \in M : x \o n \in M
  <2>1. n \in M
    BY <1>2, <1>3
  <2>2. QED
    BY <2>1, ConcatProperties
<1> HIDE DEF p, q, v
<1> DEFINE r == [i \in 0..(p + q) |-> IF i <= p THEN r1[i] ELSE r2[i - p]]
           l == [i \in 0..(p + q) |-> IF i <= p THEN l1[i] \o n ELSE l2[i - p]]
<1>5. r \in [0..(p + q) -> Reassembler(S)] /\ l \in [0..(p + q) -> M]
  <2>1. \A i \in 0..(p + q) : (i <= p => i \in 0..p) /\ (~(i <= p) => i - p \in 0..q)
    BY <1>3
  <2>2. \A i \in 0..p : l1[i] \o n \in M
    BY <1>1, <1>4
  <2>3. \A i \in 0..p : r1[i] \in Reassembler(S)
    BY <1>1
  <2>4. \A i \in 0..q : r2[i] \in Reassembler(S) /\ l2[i] \in M
    BY <1>2
  <2>5. \A i \in 0..(p + q) :
          /\ (IF i <= p THEN r1[i] ELSE r2[i - p]) \in Reassembler(S)
          /\ (IF i <= p THEN l1[i] \o n ELSE l2[i - p]) \in M
    BY ONLY <2>1, <2>2, <2>3, <2>4
  <2>6. r \in [0..(p + q) -> Reassembler(S)]
    BY ONLY <2>5
  <2>7. l \in [0..(p + q) -> M]
    BY ONLY <2>5
  <2>8. QED
    BY <2>6, <2>7
<1>6. l1[p] \o n = n
  BY <1>1, <1>4, ConcatEmptySeq
<1>7. \A i \in 0..q : r[p + i] = r2[i] /\ l[p + i] = l2[i]
  <2> TAKE i \in 0..q
  <2>1. p + i \in 0..(p + q) /\ (p + i) - p = i /\ (p + i <= p <=> i = 0)
    BY <1>3
  <2>2. CASE i = 0
    BY <1>1, <1>2, <1>3, <1>6, <2>1, <2>2
  <2>3. CASE i # 0
    BY <2>1, <2>3
  <2>4. QED
    BY <2>2, <2>3
<1>8. \A i \in 0..p : r[i] = r1[i] /\ l[i] = l1[i] \o n
  BY <1>3
<1> HIDE DEF r, l
<1>9. r[0] = a /\ l[0] = m \o n /\ r[p + q] = c /\ l[p + q] = <<>>
  <2>1. 0 \in 0..p /\ q \in 0..q
    BY <1>3
  <2>2. QED
    BY <1>1, <1>2, <1>7, <1>8, <2>1
<1>10. ASSUME NEW i \in 1..(p + q) PROVE Advance(r[i - 1], l[i - 1], v[i], r[i], l[i])
  <2>1. CASE i <= p
    <3>1. i \in 1..p /\ i - 1 \in 0..p /\ i \in 0..p
      BY <1>3, <2>1
    <3>2. Advance(r1[i - 1], l1[i - 1], u[i], r1[i], l1[i]) /\ l1[i - 1] \in M
      BY <1>1, <3>1
    <3>3. Advance(r1[i - 1], l1[i - 1] \o n, u[i], r1[i], l1[i] \o n)
      BY ONLY <1>4, <3>2, AdvanceLonger
    <3>4. /\ r[i - 1] = r1[i - 1] /\ l[i - 1] = l1[i - 1] \o n
          /\ r[i] = r1[i] /\ l[i] = l1[i] \o n /\ v[i] = u[i]
      BY <1>3, <1>8, <2>1, <3>1
    <3>5. QED
      BY <3>3, <3>4
  <2>2. CASE ~(i <= p)
    <3> DEFINE j == i - p
    <3>1. j \in 1..q /\ j \in 0..q /\ j - 1 \in 0..q /\ p + j = i /\ p + (j - 1) = i - 1
      BY <1>3, <2>2
    <3>2. v[i] = w[j]
      BY <1>3, <2>2
    <3> HIDE DEF j
    <3>3. /\ r[p + j] = r2[j] /\ l[p + j] = l2[j]
          /\ r[p + (j - 1)] = r2[j - 1] /\ l[p + (j - 1)] = l2[j - 1]
      BY <1>7, <3>1
    <3>4. Advance(r2[j - 1], l2[j - 1], w[j], r2[j], l2[j])
      BY <1>2, <3>1
    <3>5. QED
      BY <3>1, <3>2, <3>3, <3>4
  <2>3. QED
    BY <2>1, <2>2
<1>11. Trace(S, v, a, c, m \o n)
  <2>1. /\ r \in [0..Len(v) -> Reassembler(S)] /\ l \in [0..Len(v) -> Seq(Seq(S))]
        /\ r[0] = a /\ r[Len(v)] = c /\ l[0] = m \o n /\ l[Len(v)] = <<>>
    BY <1>3, <1>5, <1>9
  <2>2. \A i \in 1..Len(v) : Advance(r[i - 1], l[i - 1], v[i], r[i], l[i])
    BY <1>3, <1>10
  <2>3. QED
    BY ONLY <2>1, <2>2 DEF Trace
<1>12. QED
  BY <1>11 DEF v

-----------------------------------------------------------------------------
(* A message in chunks *)

\* A reassembler that has msg up to i
Holds(r, msg, i) == r.in_progress /\ r.buffer = SubSeq(msg, 1, i)

\* The reassembler after the piece that ends at j
AfterPiece(r, msg, f, j) ==
  [buffer |-> IF j = Len(msg) THEN <<>> ELSE SubSeq(msg, 1, j),
   expected |-> IF f THEN Len(msg) ELSE r.expected,
   in_progress |-> j # Len(msg)]

\* A piece is a chunk.
LEMMA PieceType ==
  ASSUME NEW S, NEW msg \in Seq(S), NEW i \in Nat, NEW j \in i..Len(msg), NEW f \in BOOLEAN
  PROVE  Piece(msg, f, i, j) \in ChunkOf(S)
<1>1. Len(msg) \in Nat /\ j \in Nat /\ i <= j /\ j <= Len(msg)
  BY LenProperties
<1>2. \A k \in (i + 1)..j : msg[k] \in S
  BY <1>1, ElementOfSeq
<1>3. SubSeq(msg, i + 1, j) \in Seq(S)
  BY <1>1, <1>2, SubSeqProperties
<1>4. QED
  BY <1>1, <1>3 DEF Piece, Chunk, ChunkOf

\* A FIRST piece, or one that goes on where the reassembler is, is taken; the
\* last completes the message (Reassembler::push).
LEMMA PushPiece ==
  ASSUME NEW S, NEW msg \in Seq(S), NEW i \in Nat, NEW j \in i..Len(msg), NEW f \in BOOLEAN,
         NEW r \in Reassembler(S), f => i = 0, ~f => Holds(r, msg, i)
  PROVE  /\ Piece(msg, f, i, j) \in ChunkOf(S)
         /\ ~Rejects(r, Piece(msg, f, i, j))
         /\ push(r, Piece(msg, f, i, j)) = AfterPiece(r, msg, f, j)
         /\ Complete(r, Piece(msg, f, i, j)) = IF j = Len(msg) THEN <<msg>> ELSE <<>>
<1> DEFINE c == Piece(msg, f, i, j)
           s == Start(r, c)
<1>1. Len(msg) \in Nat /\ j \in Nat /\ i <= j /\ j <= Len(msg)
  BY LenProperties
<1>2. /\ c.total = Len(msg) /\ c.first = f /\ c.last = (j = Len(msg))
      /\ c.data = SubSeq(msg, i + 1, j) /\ c.short = FALSE
  BY DEF Piece, Chunk
<1>4. c \in ChunkOf(S)
  BY PieceType
<1>5. SubSeq(msg, 1, i) \o SubSeq(msg, i + 1, j) = SubSeq(msg, 1, j)
  BY <1>1, ConcatAdjacentSubSeq
<1>6. SubSeq(msg, 1, 0) = <<>>
  BY SubSeqEmpty
<1>7. r.expected \in Nat /\ r = [buffer |-> r.buffer, expected |-> r.expected,
                                 in_progress |-> r.in_progress]
  BY DEF Reassembler
<1> HIDE DEF c
<1>8. s = [buffer |-> SubSeq(msg, 1, i), expected |-> IF f THEN Len(msg) ELSE r.expected,
           in_progress |-> TRUE]
  <2>1. CASE f
    BY <1>2, <1>6, <2>1 DEF Start
  <2>2. CASE ~f
    <3>1. r.in_progress = TRUE
      BY <2>2 DEF Holds, Reassembler
    <3>2. QED
      BY <1>2, <1>7, <2>2, <3>1 DEF Start, Holds
  <2>3. QED
    BY <2>1, <2>2
<1>9. ~Rejects(r, c)
  BY <1>2, <1>8 DEF Rejects
<1>10. SubSeq(msg, 1, Len(msg)) = msg
  BY SubSeqFull
<1>11. s.buffer \o c.data = SubSeq(msg, 1, j)
  <2> HIDE DEF s
  <2>1. s.buffer = SubSeq(msg, 1, i)
    BY <1>8
  <2>2. QED
    BY <1>2, <1>5, <2>1
<1>12. Complete(r, c) = IF j = Len(msg) THEN <<msg>> ELSE <<>>
  <2>1. CASE j = Len(msg)
    <3>1. c.last /\ s.buffer \o c.data = msg
      BY <1>2, <1>10, <1>11, <2>1
    <3>2. QED
      BY <1>9, <2>1, <3>1 DEF Complete
  <2>2. CASE j # Len(msg)
    BY <1>2, <2>2 DEF Complete
  <2>3. QED
    BY <2>1, <2>2
<1>13. push(r, c) = AfterPiece(r, msg, f, j)
  <2>1. CASE j = Len(msg)
    <3>1. push(r, c) = [s EXCEPT !.buffer = <<>>, !.in_progress = FALSE]
      BY <1>2, <1>9, <2>1 DEF push
    <3> HIDE DEF s
    <3>2. QED
      BY <1>8, <2>1, <3>1 DEF AfterPiece
  <2>2. CASE j # Len(msg)
    <3>1. push(r, c) = [s EXCEPT !.buffer = @ \o c.data]
      BY <1>2, <1>9, <2>2 DEF push
    <3> HIDE DEF s
    <3>2. push(r, c) = [buffer |-> s.buffer \o c.data, expected |-> s.expected,
                        in_progress |-> s.in_progress]
      BY <1>8, <3>1
    <3>3. QED
      BY <1>8, <1>11, <2>2, <3>2 DEF AfterPiece
  <2>3. QED
    BY <2>1, <2>2
<1>14. QED
  BY <1>4, <1>9, <1>12, <1>13 DEF c

\* The number of chunks a message is cut into: they reach its end, and all but
\* the last do not.
LEMMA ChunkCount ==
  ASSUME NEW C \in Nat \ {0}, NEW L \in Nat, NEW K, K = (L + C - 1) \div C
  PROVE  /\ K \in Nat /\ L <= K * C
         /\ \A i \in Nat : i < K <=> i * C < L
<1>1. K \in Nat
  OBVIOUS
<1>2. L + C - 1 = C * K + ((L + C - 1) % C) /\ (L + C - 1) % C \in 0..(C - 1)
  OBVIOUS
<1>3. L <= K * C /\ K * C < L + C
  BY <1>1, <1>2
<1>4. ASSUME NEW i \in Nat PROVE i < K <=> i * C < L
  <2>1. ASSUME i < K PROVE i * C < L
    <3>1. (i + 1) * C <= K * C
      <4>1. PICK d \in Nat : K = (i + 1) + d
        <5>1. K - (i + 1) \in Nat /\ K = (i + 1) + (K - (i + 1))
          BY <1>1, <2>1
        <5>2. QED
          BY ONLY <5>1
      <4>2. K * C = (i + 1) * C + d * C /\ d * C \in Nat
        BY <4>1
      <4>3. QED
        BY <4>2
    <3>2. (i + 1) * C = i * C + C
      OBVIOUS
    <3>3. QED
      BY <1>1, <1>3, <3>1, <3>2
  <2>2. ASSUME i >= K PROVE i * C >= L
    <3>1. PICK d \in Nat : i = K + d
      <4>1. i - K \in Nat /\ i = K + (i - K)
        BY <1>1, <2>2
      <4>2. QED
        BY ONLY <4>1
    <3>2. i * C = K * C + d * C /\ d * C \in Nat
      BY <1>1, <3>1
    <3>3. QED
      BY <1>1, <1>3, <3>2
  <2>3. i * C \in Nat
    OBVIOUS
  <2>4. QED
    BY <1>1, <2>1, <2>2, <2>3
<1>5. QED
  BY <1>1, <1>3, <1>4

\* A sequence given by its elements.
LEMMA SeqOf ==
  ASSUME NEW T, NEW n \in Nat, NEW w \in [1..n -> T]
  PROVE  w \in Seq(T) /\ Len(w) = n
OBVIOUS

\* Whatever a reassembler holds, the chunks of a message make that message of it
\* (chunk, wrap, Reassembler::push).
LEMMA ChunkTraced ==
  ASSUME NEW S, NEW msg \in Seq(S), NEW a \in Reassembler(S)
  PROVE  /\ chunk(msg) \in Seq(ChunkOf(S))
         /\ \E b \in Reassembler(S) : Trace(S, chunk(msg), a, b, <<msg>>)
<1> DEFINE C == CHANNEL_CHUNK_LENGTH
           L == Len(msg)
           K == (L + C - 1) \div C
           M == <<msg>>
<1>1. C \in Nat \ {0} /\ L \in Nat
  BY ChunkAssumption, LenProperties
<1>2. K \in Nat /\ L <= K * C /\ \A i \in Nat : i < K <=> i * C < L
  BY <1>1, ChunkCount
<1>3. /\ M \in Seq(Seq(S)) /\ M # <<>> /\ Head(M) = msg /\ Tail(M) = <<>>
      /\ <<>> \in Seq(Seq(S))
  OBVIOUS
<1>4. SubSeq(msg, 1, L) = msg
  BY SubSeqFull
<1>5. CASE L <= C
  <2> DEFINE c == Piece(msg, TRUE, 0, L)
             b == AfterPiece(a, msg, TRUE, L)
  <2>1. wrap(msg) = c
    <3>1. SubSeq(msg, 0 + 1, L) = msg
      BY <1>4
    <3>2. QED
      BY <3>1 DEF wrap, Piece, Chunk
  <2>2. c \in ChunkOf(S) /\ ~Rejects(a, c) /\ push(a, c) = b /\ Complete(a, c) = M
    <3>1. 0 \in Nat /\ L \in 0..Len(msg) /\ TRUE \in BOOLEAN
      BY <1>1
    <3>2. QED
      BY <3>1, PushPiece
  <2>3. b \in Reassembler(S)
    BY <2>2, PushTypes
  <2>4. Advance(a, M, c, b, <<>>)
    <3> HIDE DEF c, b, M
    <3>1. M = <<Head(M)>>
      BY <1>3 DEF M
    <3>2. QED
      BY <1>3, <2>2, <3>1 DEF Advance
  <2>5. chunk(msg) = <<c>>
    BY <1>5, <2>1 DEF chunk
  <2> HIDE DEF c, b, M
  <2>6. Trace(S, <<c>>, a, b, M)
    BY <1>3, <2>2, <2>3, <2>4, TraceOne
  <2>7. QED
    BY <2>2, <2>3, <2>5, <2>6 DEF M
<1>6. CASE ~(L <= C)
  <2> DEFINE End(i) == IF i * C < L THEN i * C ELSE L
             w == chunk(msg)
             r == [i \in 0..K |-> IF i = 0 THEN a ELSE AfterPiece(a, msg, TRUE, End(i))]
             l == [i \in 0..K |-> IF i < K THEN M ELSE <<>>]
  <2>1. K > 1 /\ K \in Nat
    <3>1. 1 * C = C
      BY <1>1
    <3>2. 1 < K
      BY <1>1, <1>2, <1>6, <3>1
    <3>3. QED
      BY <1>2, <3>2
  <2> HIDE DEF K
  <2>2. /\ End(0) = 0 /\ End(K) = L
        /\ \A i \in 0..K : End(i) \in 0..L /\ (End(i) = L <=> i = K)
        /\ \A i \in 1..K : /\ End(i - 1) = (i - 1) * C /\ End(i - 1) <= End(i)
                           /\ (i - 1) * C + C = i * C /\ (i - 1 = 0 <=> (i - 1) * C = 0)
    <3>1. 0 * C = 0 /\ 0 < L
      BY <1>1, <1>6
    <3>2. ASSUME NEW i \in 0..K
          PROVE  i * C \in Nat /\ (i < K <=> i * C < L) /\ i \in Nat /\ (i = K <=> ~(i < K))
      <4>1. i \in Nat /\ i * C \in Nat /\ (i = K <=> ~(i < K))
        BY <1>1, <2>1
      <4>2. QED
        BY <1>2, <4>1
    <3>3. ASSUME NEW i \in 1..K
          PROVE  i - 1 \in 0..K /\ i - 1 < K /\ i \in 0..K /\ (i - 1) * C + C = i * C
                 /\ (i - 1 = 0 <=> (i - 1) * C = 0)
      <4>1. i - 1 \in Nat /\ i - 1 \in 0..K /\ i - 1 < K /\ i \in 0..K
        BY <2>1
      <4>2. (i - 1) * C + C = i * C
        BY <1>1, <2>1
      <4>3. ASSUME NEW x \in Nat PROVE x = 0 <=> x * C = 0
        BY <1>1
      <4>4. QED
        BY <4>1, <4>2, <4>3
    <3>4. End(0) = 0
      BY <3>1
    <3>5. \A i \in 0..K : End(i) \in 0..L /\ (End(i) = L <=> i = K)
      BY <1>1, <3>2
    <3>6. End(K) = L
      BY <2>1, <3>5
    <3>7. \A i \in 1..K : End(i - 1) = (i - 1) * C /\ End(i - 1) <= End(i)
      <4> TAKE i \in 1..K
      <4>1. (i - 1) * C < L /\ (i - 1) * C \in Nat /\ i * C \in Nat /\ (i - 1) * C <= i * C
        BY <1>1, <3>2, <3>3
      <4>2. QED
        BY <1>1, <4>1
    <3>8. QED
      BY <3>3, <3>4, <3>5, <3>6, <3>7
  <2>3. w = [i \in 1..K |-> ChunkAt(msg, (i - 1) * C)]
    BY <1>6 DEF chunk, K
  <2> HIDE DEF C, L
  <2>4. ASSUME NEW i \in 1..K
        PROVE  ChunkAt(msg, (i - 1) * C) = Piece(msg, i = 1, End(i - 1), End(i))
    <3>1. /\ End(i - 1) = (i - 1) * C /\ (i - 1) * C + C = i * C
          /\ ((i = 1) <=> ((i - 1) * C = 0))
      <4>1. i = 1 <=> i - 1 = 0
        BY <2>1
      <4>2. QED
        BY <2>2, <4>1
    <3>2. ChunkAt(msg, (i - 1) * C) =
            Chunk(Len(msg), (i - 1) * C = 0, End(i) = Len(msg),
                  SubSeq(msg, (i - 1) * C + 1, End(i)))
      BY <3>1 DEF ChunkAt, IsLast, C, L
    <3>3. CASE i = 1
      <4>1. (i - 1) * C = 0
        BY <3>1, <3>3
      <4>2. QED
        BY <3>1, <3>2, <3>3, <4>1 DEF Piece
    <3>4. CASE i # 1
      <4>1. (i - 1) * C # 0
        BY <3>1, <3>4
      <4>2. ((i - 1) * C = 0) = FALSE /\ (i = 1) = FALSE
        BY <3>4, <4>1
      <4>3. QED
        BY <3>1, <3>2, <4>2 DEF Piece
    <3>5. QED
      BY <3>3, <3>4
  <2> HIDE DEF End
  <2>5. ASSUME NEW i \in 1..K, NEW p \in Reassembler(S), i # 1 => Holds(p, msg, End(i - 1))
        PROVE  /\ w[i] \in ChunkOf(S) /\ ~Rejects(p, w[i])
               /\ push(p, w[i]) = AfterPiece(p, msg, i = 1, End(i))
               /\ Complete(p, w[i]) = IF i = K THEN <<msg>> ELSE <<>>
    <3>1. i - 1 \in 0..K /\ i \in 0..K /\ (i = 1 => i - 1 = 0)
      BY <2>1
    <3>2. /\ End(i - 1) \in Nat /\ End(i) \in End(i - 1)..L /\ (i = 1 => End(i - 1) = 0)
          /\ (End(i) = L <=> i = K) /\ (i = 1) \in BOOLEAN
      BY <1>1, <2>2, <3>1
    <3>3. w[i] = Piece(msg, i = 1, End(i - 1), End(i))
      BY <2>3, <2>4
    <3> DEFINE f == i = 1
               x == End(i - 1)
               y == End(i)
    <3>4. /\ x \in Nat /\ y \in x..Len(msg) /\ f \in BOOLEAN /\ (f => x = 0)
          /\ (~f => Holds(p, msg, x))
      BY <2>5, <3>2 DEF L
    <3> HIDE DEF f, x, y
    <3>5. /\ Piece(msg, f, x, y) \in ChunkOf(S) /\ ~Rejects(p, Piece(msg, f, x, y))
          /\ push(p, Piece(msg, f, x, y)) = AfterPiece(p, msg, f, y)
          /\ Complete(p, Piece(msg, f, x, y)) = IF y = Len(msg) THEN <<msg>> ELSE <<>>
      BY <3>4, PushPiece
    <3>6. QED
      BY <3>2, <3>3, <3>5 DEF f, x, y, L
  <2>6. w \in Seq(ChunkOf(S)) /\ Len(w) = K
    <3>1. \A i \in 1..K : ChunkAt(msg, (i - 1) * C) \in ChunkOf(S)
      <4> TAKE i \in 1..K
      <4>1. i - 1 \in 0..K /\ i \in 0..K
        BY <2>1
      <4>2. End(i - 1) \in Nat /\ End(i) \in End(i - 1)..L
        BY <1>1, <2>2, <4>1
      <4> DEFINE f == i = 1
                 x == End(i - 1)
                 y == End(i)
      <4>3. x \in Nat /\ y \in x..Len(msg) /\ f \in BOOLEAN
        BY <4>2 DEF L
      <4>4. ChunkAt(msg, (i - 1) * C) = Piece(msg, f, x, y)
        BY <2>4
      <4> HIDE DEF f, x, y
      <4>5. QED
        BY <4>3, <4>4, PieceType
    <3>2. w \in [1..K -> ChunkOf(S)]
      BY <2>3, <3>1
    <3> HIDE DEF w
    <3>3. QED
      BY <2>1, <3>2, SeqOf
  <2> HIDE DEF w
  <2>7. ASSUME NEW i \in 1..K PROVE AfterPiece(a, msg, TRUE, End(i)) \in Reassembler(S)
    <3>1. End(i) \in 0..L
      BY <2>1, <2>2
    <3>2. SubSeq(msg, 1, End(i)) \in Seq(S)
      <4>1. \A k \in 1..End(i) : msg[k] \in S
        BY <1>1, <3>1, ElementOfSeq DEF L
      <4>2. QED
        BY <1>1, <3>1, <4>1, SubSeqProperties
    <3>3. <<>> \in Seq(S)
      BY EmptySeq
    <3>4. QED
      BY <1>1, <3>2, <3>3 DEF AfterPiece, Reassembler, L
  <2>8. r \in [0..K -> Reassembler(S)] /\ l \in [0..K -> Seq(Seq(S))]
    <3>1. \A i \in 0..K : i # 0 => i \in 1..K
      BY <2>1
    <3> HIDE DEF M
    <3>2. QED
      BY <1>3, <2>7, <3>1
  <2>9. /\ r[0] = a /\ l[0] = M /\ l[K] = <<>>
        /\ \A i \in 1..K : r[i] = AfterPiece(a, msg, TRUE, End(i))
        /\ \A i \in 1..K : l[i - 1] = M /\ (i < K => l[i] = M) /\ i - 1 \in 0..K
    <3> HIDE DEF M
    <3>1. /\ 0 \in 0..K /\ K \in 0..K
          /\ \A i \in 1..K : i # 0 /\ i \in 0..K /\ i - 1 \in 0..K /\ i - 1 < K
      BY <2>1
    <3>2. r[0] = a /\ \A i \in 1..K : r[i] = AfterPiece(a, msg, TRUE, End(i))
      BY <3>1
    <3>3. l[0] = M /\ l[K] = <<>>
      BY <2>1, <3>1
    <3>4. \A i \in 0..K : i < K => l[i] = M
      OBVIOUS
    <3> HIDE DEF r, l
    <3>5. QED
      BY <3>1, <3>2, <3>3, <3>4
  <2> HIDE DEF r, l, M
  <2>10. ASSUME NEW i \in 1..K PROVE Advance(r[i - 1], l[i - 1], w[i], r[i], l[i])
    <3>1. r[i - 1] \in Reassembler(S)
      BY <2>8, <2>9
    <3>2. i # 1 => Holds(r[i - 1], msg, End(i - 1)) /\ r[i - 1].expected = L
      <4>1. i # 1 => i - 1 \in 1..K /\ i - 1 \in 0..K /\ i - 1 # K
        BY <2>1
      <4>2. i # 1 => r[i - 1] = AfterPiece(a, msg, TRUE, End(i - 1)) /\ End(i - 1) # L
        BY <2>2, <2>9, <4>1
      <4>3. ASSUME NEW x, x # Len(msg)
            PROVE  LET p == AfterPiece(a, msg, TRUE, x)
                   IN  Holds(p, msg, x) /\ p.expected = Len(msg)
        BY <4>3 DEF AfterPiece, Holds
      <4>4. QED
        BY <4>2, <4>3 DEF L
    <3>3. /\ ~Rejects(r[i - 1], w[i])
          /\ push(r[i - 1], w[i]) = AfterPiece(r[i - 1], msg, i = 1, End(i))
          /\ Complete(r[i - 1], w[i]) = IF i = K THEN <<msg>> ELSE <<>>
      BY <2>5, <3>1, <3>2
    <3>4. r[i] = AfterPiece(r[i - 1], msg, i = 1, End(i))
      BY <2>9, <3>2 DEF AfterPiece, L
    <3>5. CASE i = K
      <4>1. Complete(r[i - 1], w[i]) = <<Head(M)>> /\ l[i - 1] = M /\ l[i] = Tail(M)
            /\ Complete(r[i - 1], w[i]) # <<>>
        <5>1. l[i - 1] = M /\ l[i] = <<>>
          BY <2>9, <3>5
        <5>2. Complete(r[i - 1], w[i]) = <<msg>>
          BY <3>3, <3>5
        <5>3. QED
          BY <1>3, <5>1, <5>2
      <4>2. QED
        BY <1>3, <3>3, <3>4, <4>1 DEF Advance
    <3>6. CASE i # K
      <4>1. Complete(r[i - 1], w[i]) = <<>> /\ l[i - 1] = l[i]
        BY <2>1, <2>9, <3>3, <3>6
      <4>2. QED
        BY <3>3, <3>4, <4>1 DEF Advance
    <3>7. QED
      BY <3>5, <3>6
  <2>11. K \in 0..K
    BY <2>1
  <2>12. r[K] \in Reassembler(S)
    BY <2>8, <2>11
  <2>13. Trace(S, w, a, r[K], M)
    BY <2>6, <2>8, <2>9, <2>10 DEF Trace
  <2>14. QED
    BY <2>6, <2>12, <2>13 DEF w, M
<1>7. QED
  BY <1>5, <1>6

-----------------------------------------------------------------------------
(* Surfaces *)

Kind == CommandKind \cup {"CAPABILITY", "CREATE", "CLOSE", "DATA"}
AnyUnit == [k : Kind, id : Nat, x : Nat]

\* What the server puts into messages: the id of a CREATE is one its header holds
DownUnit == {u \in AnyUnit : u.k = "CREATE" => u.id < Span(2)}

Screens == UNION {[D -> ServerSurface] : D \in SUBSET Nat}

\* The store that shows what the server means
Painted(sc) == [id \in DOMAIN sc |-> sc[id].pixels]
Placed(sc)  == {id \in DOMAIN sc : sc[id].at # Unmapped}
Mapping(sc) == [id \in Placed(sc) |-> sc[id].at]
Image(sc)   == [surfaces |-> Painted(sc), mapped |-> Mapping(sc)]

\* A command the server may give
Given(sc, c) ==
  /\ c \in AnyUnit
  /\ c.k \in {"CreateSurface", "DeleteSurface", "MapSurfaceToOutput", "WireToSurface1", "Other"}
  /\ c.k = "MapSurfaceToOutput" => c.x \in Outputs
  /\ Legal(sc, c)

\* Screens as functions.
LEMMA ScreenFacts ==
  ASSUME NEW sc
  PROVE  sc \in Screens <=>
           /\ DOMAIN sc \in SUBSET Nat /\ sc = [i \in DOMAIN sc |-> sc[i]]
           /\ \A i \in DOMAIN sc : sc[i] \in ServerSurface
<1>1. ASSUME sc \in Screens
      PROVE  /\ DOMAIN sc \in SUBSET Nat /\ sc = [i \in DOMAIN sc |-> sc[i]]
             /\ \A i \in DOMAIN sc : sc[i] \in ServerSurface
  <2>1. PICK D \in SUBSET Nat : sc \in [D -> ServerSurface]
    BY <1>1 DEF Screens
  <2>2. QED
    BY <2>1
<1>2. ASSUME DOMAIN sc \in SUBSET Nat, sc = [i \in DOMAIN sc |-> sc[i]],
             \A i \in DOMAIN sc : sc[i] \in ServerSurface
      PROVE  sc \in Screens
  <2>1. sc \in [DOMAIN sc -> ServerSurface]
    BY <1>2
  <2>2. QED
    BY <1>2, <2>1 DEF Screens
<1>3. QED
  BY <1>1, <1>2

\* A function that is given by its domain and its values
IsMap(f) == f = [i \in DOMAIN f |-> f[i]]

\* g is f with v at id, or without id
IsPut(g, f, id, v) ==
  /\ IsMap(g) /\ DOMAIN g = DOMAIN f \cup {id} /\ g[id] = v
  /\ \A i \in DOMAIN f : i # id => g[i] = f[i]
IsRemoved(g, f, id) ==
  /\ IsMap(g) /\ DOMAIN g = DOMAIN f \ {id}
  /\ \A i \in DOMAIN f \ {id} : g[i] = f[i]

\* What is put into a function and removed from it.
LEMMA PutFacts ==
  ASSUME NEW f, NEW id, NEW v
  PROVE  IsPut(Put(f, id, v), f, id, v) /\ IsRemoved(Remove(f, id), f, id)
BY DEF Put, Remove, IsMap, IsPut, IsRemoved

\* The image of a screen, field by field.
LEMMA ImageFacts ==
  ASSUME NEW sc
  PROVE  /\ Image(sc).surfaces = Painted(sc) /\ Image(sc).mapped = Mapping(sc)
         /\ IsMap(Painted(sc)) /\ DOMAIN Painted(sc) = DOMAIN sc
         /\ \A i \in DOMAIN sc : Painted(sc)[i] = sc[i].pixels
         /\ IsMap(Mapping(sc)) /\ DOMAIN Mapping(sc) = Placed(sc)
         /\ \A i \in Placed(sc) : Mapping(sc)[i] = sc[i].at
BY DEF Image, Painted, Mapping, IsMap

\* When a store is the image of a screen.
LEMMA IsImage ==
  ASSUME NEW sc, NEW a, NEW b, IsMap(a), IsMap(b), DOMAIN a = DOMAIN sc, DOMAIN b = Placed(sc),
         \A i \in DOMAIN sc : a[i] = sc[i].pixels, \A i \in Placed(sc) : b[i] = sc[i].at
  PROVE  [surfaces |-> a, mapped |-> b] = Image(sc)
<1>1. a = Painted(sc)
  BY DEF IsMap, Painted
<1>2. b = Mapping(sc)
  BY DEF IsMap, Mapping
<1>3. QED
  BY <1>1, <1>2 DEF Image

\* A screen on which one surface is new or changed.
LEMMA PutScreen ==
  ASSUME NEW sc \in Screens, NEW id \in Nat, NEW v \in ServerSurface
  PROVE  Put(sc, id, v) \in Screens
<1>1. DOMAIN sc \in SUBSET Nat /\ \A i \in DOMAIN sc : sc[i] \in ServerSurface
  BY ScreenFacts
<1> DEFINE new == Put(sc, id, v)
<1>2. /\ IsMap(new) /\ DOMAIN new = DOMAIN sc \cup {id}
      /\ \A i \in DOMAIN sc \cup {id} : new[i] = IF i = id THEN v ELSE sc[i]
  <2>1. IsPut(new, sc, id, v)
    BY PutFacts
  <2> HIDE DEF new
  <2>2. QED
    BY <2>1 DEF IsPut
<1> HIDE DEF new
<1>3. new = [i \in DOMAIN new |-> new[i]] /\ DOMAIN new \in SUBSET Nat
  BY <1>1, <1>2 DEF IsMap
<1>4. \A i \in DOMAIN new : new[i] \in ServerSurface
  BY <1>1, <1>2
<1>5. new \in Screens
  BY ONLY <1>3, <1>4, ScreenFacts
<1>6. QED
  BY <1>5 DEF new

\* A new surface has no pixels and no place on the screen.
LEMMA CreateShown ==
  ASSUME NEW sc \in Screens, NEW id \in Nat, id \notin DOMAIN sc
  PROVE  LET new == Put(sc, id, [pixels |-> <<>>, at |-> Unmapped])
         IN  /\ new \in Screens
             /\ [Image(sc) EXCEPT !.surfaces = Put(@, id, <<>>)] = Image(new)
<1> DEFINE v == [pixels |-> <<>>, at |-> Unmapped]
           new == Put(sc, id, v)
           a == Put(Painted(sc), id, <<>>)
           b == Mapping(sc)
<1>1. v \in ServerSurface /\ v.pixels = <<>> /\ v.at = Unmapped
  BY EmptySeq DEF ServerSurface
<1>2. [Image(sc) EXCEPT !.surfaces = Put(@, id, <<>>)] = [surfaces |-> a, mapped |-> b]
  BY DEF Image
<1> HIDE DEF v
<1>3. new \in Screens
  BY <1>1, PutScreen
<1>4. /\ DOMAIN new = DOMAIN sc \cup {id} /\ new[id] = v
      /\ \A i \in DOMAIN sc : new[i] = sc[i]
  <2>1. IsPut(new, sc, id, v)
    BY PutFacts
  <2> HIDE DEF new
  <2>2. QED
    BY <2>1 DEF IsPut
<1>5. /\ IsMap(a) /\ DOMAIN a = DOMAIN sc \cup {id} /\ a[id] = <<>>
      /\ \A i \in DOMAIN sc : a[i] = sc[i].pixels
  <2>1. IsPut(a, Painted(sc), id, <<>>)
    BY PutFacts
  <2> HIDE DEF a
  <2>2. QED
    BY <2>1, ImageFacts DEF IsPut
<1>6. IsMap(b) /\ DOMAIN b = Placed(sc) /\ \A i \in Placed(sc) : b[i] = sc[i].at
  BY ImageFacts
<1> HIDE DEF new, a, b
<1>7. Placed(sc) = Placed(new) /\ Placed(sc) \subseteq DOMAIN sc
  BY <1>1, <1>4 DEF Placed
<1>8. [surfaces |-> a, mapped |-> b] = Image(new)
  <2>1. \A i \in DOMAIN new : a[i] = new[i].pixels
    BY <1>1, <1>4, <1>5
  <2>2. \A i \in Placed(new) : b[i] = new[i].at
    BY <1>4, <1>6, <1>7
  <2>3. QED
    BY ONLY <1>4, <1>5, <1>6, <1>7, <2>1, <2>2, IsImage
<1>9. QED
  BY <1>2, <1>3, <1>8 DEF new, v

\* A surface that is deleted loses its mapping too.
LEMMA DeleteShown ==
  ASSUME NEW sc \in Screens, NEW id
  PROVE  LET new == Remove(sc, id)
         IN  /\ new \in Screens
             /\ [surfaces |-> Remove(Image(sc).surfaces, id),
                 mapped   |-> Remove(Image(sc).mapped, id)] = Image(new)
<1> DEFINE new == Remove(sc, id)
           a == Remove(Painted(sc), id)
           b == Remove(Mapping(sc), id)
<1>1. DOMAIN sc \in SUBSET Nat /\ \A i \in DOMAIN sc : sc[i] \in ServerSurface
  BY ScreenFacts
<1>2. [surfaces |-> Remove(Image(sc).surfaces, id), mapped |-> Remove(Image(sc).mapped, id)]
        = [surfaces |-> a, mapped |-> b]
  BY ImageFacts
<1>3. /\ IsMap(new) /\ DOMAIN new = DOMAIN sc \ {id}
      /\ \A i \in DOMAIN sc \ {id} : new[i] = sc[i]
  <2>1. IsRemoved(new, sc, id)
    BY PutFacts
  <2> HIDE DEF new
  <2>2. QED
    BY <2>1 DEF IsRemoved
<1>4. /\ IsMap(a) /\ DOMAIN a = DOMAIN sc \ {id}
      /\ \A i \in DOMAIN sc \ {id} : a[i] = sc[i].pixels
  <2>1. IsRemoved(a, Painted(sc), id)
    BY PutFacts
  <2> HIDE DEF a
  <2>2. QED
    BY <2>1, ImageFacts DEF IsRemoved
<1>5. /\ IsMap(b) /\ DOMAIN b = Placed(sc) \ {id}
      /\ \A i \in Placed(sc) \ {id} : b[i] = sc[i].at
  <2>1. IsRemoved(b, Mapping(sc), id)
    BY PutFacts
  <2> HIDE DEF b
  <2>2. QED
    BY <2>1, ImageFacts DEF IsRemoved
<1> HIDE DEF new, a, b
<1>6. Placed(sc) \ {id} = Placed(new) /\ Placed(new) \subseteq DOMAIN new
  BY <1>3 DEF Placed
<1>7. new \in Screens
  <2>1. new = [i \in DOMAIN new |-> new[i]] /\ DOMAIN new \in SUBSET Nat
    BY <1>1, <1>3 DEF IsMap
  <2>2. \A i \in DOMAIN new : new[i] \in ServerSurface
    BY <1>1, <1>3
  <2>3. QED
    BY ONLY <2>1, <2>2, ScreenFacts
<1>8. [surfaces |-> a, mapped |-> b] = Image(new)
  <2>1. \A i \in DOMAIN new : a[i] = new[i].pixels
    BY <1>3, <1>4
  <2>2. \A i \in Placed(new) : b[i] = new[i].at
    BY <1>3, <1>5, <1>6
  <2>3. QED
    BY ONLY <1>3, <1>4, <1>5, <1>6, <2>1, <2>2, IsImage
<1>9. QED
  BY <1>2, <1>7, <1>8 DEF new

\* A surface that is mapped is shown where the server said.
LEMMA MapShown ==
  ASSUME NEW sc \in Screens, NEW id \in DOMAIN sc, NEW x \in Outputs
  PROVE  LET new == Put(sc, id, [sc[id] EXCEPT !.at = x])
         IN  /\ new \in Screens
             /\ [Image(sc) EXCEPT !.mapped = Put(@, id, x)] = Image(new)
<1> DEFINE v == [sc[id] EXCEPT !.at = x]
           new == Put(sc, id, v)
           a == Painted(sc)
           b == Put(Mapping(sc), id, x)
<1>1. id \in Nat /\ sc[id] \in ServerSurface
  BY ScreenFacts
<1>2. v \in ServerSurface /\ v.pixels = sc[id].pixels /\ v.at = x
  BY <1>1 DEF ServerSurface
<1>3. x # Unmapped
  <2>1. x \in Nat
    BY GraphicsAssumption
  <2>2. QED
    BY <2>1 DEF Unmapped
<1>4. [Image(sc) EXCEPT !.mapped = Put(@, id, x)] = [surfaces |-> a, mapped |-> b]
  BY DEF Image
<1> HIDE DEF v
<1>5. new \in Screens
  BY <1>1, <1>2, PutScreen
<1>6. /\ DOMAIN new = DOMAIN sc /\ new[id] = v
      /\ \A i \in DOMAIN sc : i # id => new[i] = sc[i]
  <2>1. IsPut(new, sc, id, v)
    BY PutFacts
  <2> HIDE DEF new
  <2>2. QED
    BY <2>1 DEF IsPut
<1>7. /\ IsMap(a) /\ DOMAIN a = DOMAIN sc /\ \A i \in DOMAIN sc : a[i] = sc[i].pixels
  BY ImageFacts
<1>8. /\ IsMap(b) /\ DOMAIN b = Placed(sc) \cup {id} /\ b[id] = x
      /\ \A i \in Placed(sc) : i # id => b[i] = sc[i].at
  <2>1. IsPut(b, Mapping(sc), id, x)
    BY PutFacts
  <2> HIDE DEF b
  <2>2. QED
    BY <2>1, ImageFacts DEF IsPut
<1> HIDE DEF new, a, b
<1>9. Placed(sc) \cup {id} = Placed(new) /\ Placed(sc) \subseteq DOMAIN sc
  BY <1>2, <1>3, <1>6 DEF Placed
<1>10. [surfaces |-> a, mapped |-> b] = Image(new)
  <2>1. \A i \in DOMAIN new : a[i] = new[i].pixels
    BY <1>2, <1>6, <1>7
  <2>2. \A i \in Placed(new) : b[i] = new[i].at
    BY <1>2, <1>6, <1>8, <1>9
  <2>3. QED
    BY ONLY <1>6, <1>7, <1>8, <1>9, <2>1, <2>2, IsImage
<1>11. QED
  BY <1>4, <1>5, <1>10 DEF new, v

\* What is painted is painted where the server means it.
LEMMA PaintShown ==
  ASSUME NEW sc \in Screens, NEW id \in DOMAIN sc, NEW x \in Nat
  PROVE  LET new == Put(sc, id, [sc[id] EXCEPT !.pixels = Append(@, x)])
         IN  /\ new \in Screens
             /\ [Image(sc) EXCEPT !.surfaces = Put(@, id, Append(@[id], x))] = Image(new)
<1> DEFINE v == [sc[id] EXCEPT !.pixels = Append(@, x)]
           new == Put(sc, id, v)
           a == Put(Painted(sc), id, Append(Painted(sc)[id], x))
           b == Mapping(sc)
<1>1. id \in Nat /\ sc[id] \in ServerSurface
  BY ScreenFacts
<1>2. v \in ServerSurface /\ v.pixels = Append(sc[id].pixels, x) /\ v.at = sc[id].at
  <2>1. sc[id].pixels \in Seq(Nat)
    BY <1>1 DEF ServerSurface
  <2>2. Append(sc[id].pixels, x) \in Seq(Nat)
    BY <2>1, AppendProperties
  <2>3. QED
    BY <1>1, <2>2 DEF ServerSurface
<1>3. [Image(sc) EXCEPT !.surfaces = Put(@, id, Append(@[id], x))] =
        [surfaces |-> a, mapped |-> b]
  BY DEF Image
<1> HIDE DEF v
<1>4. new \in Screens
  BY <1>1, <1>2, PutScreen
<1>5. /\ DOMAIN new = DOMAIN sc /\ new[id] = v
      /\ \A i \in DOMAIN sc : i # id => new[i] = sc[i]
  <2>1. IsPut(new, sc, id, v)
    BY PutFacts
  <2> HIDE DEF new
  <2>2. QED
    BY <2>1 DEF IsPut
<1>6. /\ IsMap(a) /\ DOMAIN a = DOMAIN sc /\ a[id] = Append(sc[id].pixels, x)
      /\ \A i \in DOMAIN sc : i # id => a[i] = sc[i].pixels
  <2>1. IsPut(a, Painted(sc), id, Append(Painted(sc)[id], x))
    BY PutFacts
  <2> HIDE DEF a
  <2>2. QED
    BY <2>1, ImageFacts DEF IsPut
<1>7. IsMap(b) /\ DOMAIN b = Placed(sc) /\ \A i \in Placed(sc) : b[i] = sc[i].at
  BY ImageFacts
<1> HIDE DEF new, a, b
<1>8. Placed(sc) = Placed(new) /\ Placed(sc) \subseteq DOMAIN sc
  BY <1>2, <1>5 DEF Placed
<1>9. [surfaces |-> a, mapped |-> b] = Image(new)
  <2>1. \A i \in DOMAIN new : a[i] = new[i].pixels
    BY <1>2, <1>5, <1>6
  <2>2. \A i \in Placed(new) : b[i] = new[i].at
    BY <1>2, <1>5, <1>7, <1>8
  <2>3. QED
    BY ONLY <1>5, <1>6, <1>7, <1>8, <2>1, <2>2, IsImage
<1>10. QED
  BY <1>3, <1>4, <1>9 DEF new, v

\* A command that fits the server's surfaces does not fail on a store that shows
\* them, and leaves one that shows what it means (SurfaceStore::apply).
LEMMA CommandShown ==
  ASSUME NEW sc \in Screens, NEW c, Given(sc, c)
  PROVE  /\ c.k # "Bad" /\ ~Fails(Image(sc), c)
         /\ Meaning(sc, c) \in Screens
         /\ apply(Image(sc), c) = Image(Meaning(sc, c))
<1>1. /\ c.id \in Nat /\ c.x \in Nat /\ c.k \in {"CreateSurface", "DeleteSurface",
         "MapSurfaceToOutput", "WireToSurface1", "Other"}
      /\ c.k = "MapSurfaceToOutput" => c.x \in Outputs
      /\ Legal(sc, c)
  BY DEF Given, AnyUnit
<1>2. DOMAIN Image(sc).surfaces = DOMAIN sc
  BY ImageFacts
<1>3. c.k # "Bad" /\ ~Fails(Image(sc), c)
  BY <1>1, <1>2 DEF Fails, Surface, Legal
<1>4. CASE c.k = "CreateSurface"
  <2>1. c.id \notin DOMAIN sc
    BY <1>1, <1>4 DEF Legal
  <2>2. QED
    BY <1>1, <1>3, <1>4, <2>1, CreateShown DEF Meaning, apply
<1>5. CASE c.k = "DeleteSurface"
  BY <1>3, <1>5, DeleteShown DEF Meaning, apply
<1>6. CASE c.k = "MapSurfaceToOutput"
  <2>1. c.id \in DOMAIN sc
    BY <1>1, <1>6 DEF Legal
  <2>2. QED
    BY <1>1, <1>3, <1>6, <2>1, MapShown DEF Meaning, apply
<1>7. CASE c.k = "WireToSurface1"
  <2>1. c.id \in DOMAIN sc
    BY <1>1, <1>7 DEF Legal
  <2>2. QED
    BY <1>1, <1>3, <1>7, <2>1, PaintShown DEF Meaning, apply
<1>8. CASE c.k = "Other"
  BY <1>3, <1>8 DEF Meaning, apply
<1>9. QED
  BY <1>1, <1>4, <1>5, <1>6, <1>7, <1>8

\* What apply_each makes of a message of one command.
LEMMA ApplyOne ==
  ASSUME NEW s, NEW c, ~Fails(s, c)
  PROVE  apply_each(s, <<c>>) = [store |-> apply(s, c), ok |-> TRUE]
<1> DEFINE cmds == <<c>>
           Rec(f) == [i \in 0..Len(cmds) |->
             IF i = 0 THEN [store |-> s, ok |-> TRUE]
             ELSE LET b == f[i - 1] IN
                  IF ~b.ok \/ Fails(b.store, cmds[i]) THEN [b EXCEPT !.ok = FALSE]
                  ELSE [store |-> apply(b.store, cmds[i]), ok |-> TRUE]]
           g == [i \in 0..1 |-> IF i = 0 THEN [store |-> s, ok |-> TRUE]
                                ELSE [store |-> apply(s, c), ok |-> TRUE]]
<1>1. Len(cmds) = 1 /\ cmds[1] = c
  OBVIOUS
<1>2. \A i \in 0..1 : i # 0 => i = 1 /\ i - 1 = 0
  OBVIOUS
<1> HIDE DEF cmds
<1>3. g = Rec(g)
  <2>1. /\ g[0] = [store |-> s, ok |-> TRUE] /\ g[1] = [store |-> apply(s, c), ok |-> TRUE]
        /\ g \in [0..1 -> {g[0], g[1]}]
    BY <1>2
  <2> HIDE DEF g
  <2>2. Rec(g)[0] = g[0]
    BY <1>1, <2>1
  <2>3. Rec(g)[1] = g[1]
    <3>1. g[1 - 1] = [store |-> s, ok |-> TRUE]
      BY <2>1
    <3>2. 1 \in 0..Len(cmds) /\ 1 # 0
      BY <1>1
    <3>3. Rec(g)[1] = LET b == g[1 - 1] IN
                      IF ~b.ok \/ Fails(b.store, cmds[1]) THEN [b EXCEPT !.ok = FALSE]
                      ELSE [store |-> apply(b.store, cmds[1]), ok |-> TRUE]
      BY <3>2
    <3>4. QED
      BY <1>1, <2>1, <3>1, <3>3
  <2>4. \A i \in 0..1 : Rec(g)[i] = g[i]
    BY <1>2, <2>2, <2>3
  <2>5. Rec(g) = [i \in 0..1 |-> Rec(g)[i]] /\ g = [i \in 0..1 |-> g[i]]
    BY <1>1, <2>1
  <2>6. QED
    BY <2>4, <2>5
<1>4. \A f : f = Rec(f) => f[1] = [store |-> apply(s, c), ok |-> TRUE]
  <2>1. ASSUME NEW f
        PROVE  /\ Rec(f)[0] = [store |-> s, ok |-> TRUE]
               /\ Rec(f)[1] = LET b == f[0] IN
                              IF ~b.ok \/ Fails(b.store, cmds[1]) THEN [b EXCEPT !.ok = FALSE]
                              ELSE [store |-> apply(b.store, cmds[1]), ok |-> TRUE]
    <3>1. 0 \in 0..Len(cmds) /\ 1 \in 0..Len(cmds) /\ 1 - 1 = 0
      BY <1>1
    <3>2. QED
      BY <3>1
  <2> HIDE DEF Rec
  <2>2. ASSUME NEW f, f = Rec(f) PROVE f[1] = [store |-> apply(s, c), ok |-> TRUE]
    <3>1. f[0] = [store |-> s, ok |-> TRUE]
      BY <2>1, <2>2
    <3>2. f[1] = LET b == f[0] IN
                 IF ~b.ok \/ Fails(b.store, cmds[1]) THEN [b EXCEPT !.ok = FALSE]
                 ELSE [store |-> apply(b.store, cmds[1]), ok |-> TRUE]
      BY <2>1, <2>2
    <3>3. QED
      BY ONLY ~Fails(s, c), <1>1, <3>1, <3>2
  <2>3. QED
    BY <2>2
<1>5. LET h == CHOOSE f : f = Rec(f) IN h = Rec(h)
  BY <1>3
<1>6. apply_each(s, cmds) = (CHOOSE f : f = Rec(f))[1]
  BY <1>1 DEF apply_each
<1>7. QED
  BY <1>4, <1>5, <1>6 DEF cmds

-----------------------------------------------------------------------------
(* Messages *)

\* The room of each width of header is not empty.
LEMMA SpanFacts ==
  /\ \A cb \in 0..2 : Span(cb) \in Nat \ {0}
  /\ Channels \subseteq {id \in Nat : id < Span(2)}
<1> DEFINE B == BYTE_BASE
<1>1. B \in Nat \ {0}
  BY GraphicsAssumption
<1>2. \A p, q \in Nat \ {0} : p * q \in Nat \ {0}
  OBVIOUS
<1>3. Span(0) = B /\ Span(1) = B * B /\ Span(2) = B * B * B * B
  BY DEF Span
<1>4. Channels \subseteq 0..(B * B * B * B - 1)
  BY GraphicsAssumption
<1> HIDE DEF B
<1>5. B * B \in Nat \ {0}
  BY <1>1, <1>2
<1>6. B * B * B \in Nat \ {0}
  BY <1>1, <1>2, <1>5
<1>7. B * B * B * B \in Nat \ {0}
  BY <1>1, <1>2, <1>6
<1>8. \A cb \in 0..2 : cb = 0 \/ cb = 1 \/ cb = 2
  OBVIOUS
<1> DEFINE X == B * B * B * B
<1> HIDE DEF X
<1>9. X \in Nat \ {0} /\ Span(2) = X /\ Channels \subseteq 0..(X - 1)
  BY <1>3, <1>4, <1>7 DEF X
<1>10. 0..(X - 1) \subseteq {id \in Nat : id < X}
  BY <1>9
<1>11. QED
  BY <1>1, <1>3, <1>5, <1>8, <1>9, <1>10

\* An id is written in a width that holds it (cb_chid_for, write_channel_id).
LEMMA IdFits ==
  ASSUME NEW id \in Nat, id < Span(2)
  PROVE  id % Span(cb_chid_for(id)) = id
<1>1. Span(0) \in Nat \ {0} /\ Span(1) \in Nat \ {0} /\ Span(2) \in Nat \ {0}
  BY SpanFacts
<1>2. \A m \in Nat \ {0} : id < m => id % m = id
  OBVIOUS
<1>3. id < Span(cb_chid_for(id)) /\ cb_chid_for(id) \in 0..2
  BY <1>1 DEF cb_chid_for
<1>4. QED
  BY <1>2, <1>3, SpanFacts

\* A header is a unit, and that of a CREATE holds its id.
LEMMA HeaderUnit ==
  ASSUME NEW k \in Kind, NEW id \in Nat, NEW cb \in 0..2
  PROVE  Header(k, id, cb) \in DownUnit /\ Header(k, id, cb).k = k
<1>1. Span(cb) \in Nat \ {0} /\ Span(2) \in Nat \ {0}
  BY SpanFacts
<1>2. id % Span(cb) \in Nat /\ id % Span(cb) < Span(cb)
  BY <1>1
<1>3. Header(k, id, cb) \in AnyUnit /\ Header(k, id, cb).k = k
      /\ Header(k, id, cb).id = id % Span(cb)
  BY <1>2 DEF Header, Command, AnyUnit
<1>4. Span(cb) <= Span(2)
  <2> DEFINE B == BYTE_BASE
  <2>1. B \in Nat \ {0}
    BY GraphicsAssumption
  <2>2. \A p, q \in Nat \ {0} : p <= p * q /\ p * q \in Nat \ {0}
    OBVIOUS
  <2>3. B <= B * B /\ B * B \in Nat \ {0}
    BY <2>1, <2>2
  <2>4. B * B <= B * B * B /\ B * B * B \in Nat \ {0}
    BY <2>1, <2>2, <2>3
  <2>5. B * B * B <= B * B * B * B /\ B * B * B * B \in Nat \ {0}
    BY <2>1, <2>2, <2>4
  <2>6. Span(0) = B /\ Span(1) = B * B /\ Span(2) = B * B * B * B
    BY DEF Span
  <2>7. cb = 0 \/ cb = 1 \/ cb = 2
    OBVIOUS
  <2> DEFINE X == B * B
             Y == B * B * B
             Z == B * B * B * B
  <2>8. B <= X /\ X <= Y /\ Y <= Z /\ X \in Nat /\ Y \in Nat /\ Z \in Nat
    BY <2>3, <2>4, <2>5
  <2>9. Span(0) = B /\ Span(1) = X /\ Span(2) = Z
    BY <2>6
  <2> HIDE DEF B, X, Y, Z
  <2>10. QED
    BY ONLY <2>1, <2>7, <2>8, <2>9
<1>5. id % Span(cb) < Span(2)
  BY <1>1, <1>2, <1>4
<1>6. QED
  BY <1>3, <1>5 DEF DownUnit

\* A message of the server, at a time when it means sc
Proper(msg, sc) ==
  \/ \E u \in DownUnit : msg = <<u>> /\ u.k \in {"CAPABILITY", "CREATE", "CLOSE"}
  \/ \E u \in DownUnit, c \in DownUnit : msg = <<u, c>> /\ u.k = "DATA" /\ Given(sc, c)

\* What it means afterwards
After(sc, msg) == IF msg[1].k = "DATA" THEN Meaning(sc, msg[2]) ELSE sc

\* The messages msgs take what the server meant from a to b
Shows(a, msgs, b) ==
  \E h \in [0..Len(msgs) -> Screens] :
    /\ h[0] = a /\ h[Len(msgs)] = b
    /\ \A i \in 1..Len(msgs) : Proper(msgs[i], h[i - 1]) /\ h[i] = After(h[i - 1], msgs[i])

\* The parts of a message.
LEMMA ProperFacts ==
  ASSUME NEW sc \in Screens, NEW msg, Proper(msg, sc)
  PROVE  /\ msg \in Seq(DownUnit) /\ msg # <<>>
         /\ msg[1].k \in {"CAPABILITY", "CREATE", "CLOSE", "DATA"}
         /\ msg[1].k = "DATA" => Tail(msg) = <<msg[2]>> /\ Given(sc, msg[2])
         /\ After(sc, msg) \in Screens
<1>1. ASSUME NEW u \in DownUnit, msg = <<u>>, u.k \in {"CAPABILITY", "CREATE", "CLOSE"}
      PROVE  /\ msg \in Seq(DownUnit) /\ msg # <<>> /\ msg[1] = u /\ u.k # "DATA"
  BY <1>1
<1>2. ASSUME NEW u \in DownUnit, NEW c \in DownUnit, msg = <<u, c>>, u.k = "DATA", Given(sc, c)
      PROVE  /\ msg \in Seq(DownUnit) /\ msg # <<>> /\ msg[1] = u /\ msg[2] = c
             /\ Tail(msg) = <<c>>
  BY <1>2
<1>3. \A c : Given(sc, c) => Meaning(sc, c) \in Screens
  BY CommandShown
<1>4. QED
  BY <1>1, <1>2, <1>3 DEF Proper, After

\* No message, no change.
LEMMA ShowsNothing ==
  /\ \A a, b : Shows(a, <<>>, b) => a = b
  /\ \A a \in Screens : Shows(a, <<>>, a)
<1>1. ASSUME NEW a, NEW b, Shows(a, <<>>, b) PROVE a = b
  BY <1>1 DEF Shows
<1>2. ASSUME NEW a \in Screens PROVE Shows(a, <<>>, a)
  <2> DEFINE h == [i \in 0..0 |-> a]
  <2>1. h \in [0..Len(<<>>) -> Screens] /\ h[0] = a /\ Len(<<>>) = 0
    OBVIOUS
  <2> HIDE DEF h
  <2>2. QED
    BY <2>1 DEF Shows
<1>3. QED
  BY <1>1, <1>2

\* The first of the messages, and the rest.
LEMMA ShowsNext ==
  ASSUME NEW S, NEW msgs \in Seq(S), msgs # <<>>, NEW a, NEW b, Shows(a, msgs, b)
  PROVE  /\ a \in Screens /\ Proper(Head(msgs), a)
         /\ Shows(After(a, Head(msgs)), Tail(msgs), b)
<1> DEFINE n == Len(msgs)
           t == Tail(msgs)
<1>1. PICK h \in [0..n -> Screens] :
        /\ h[0] = a /\ h[n] = b
        /\ \A i \in 1..n : Proper(msgs[i], h[i - 1]) /\ h[i] = After(h[i - 1], msgs[i])
  BY DEF Shows
<1>2. /\ n \in Nat \ {0} /\ Len(t) = n - 1 /\ Head(msgs) = msgs[1]
      /\ \A i \in 1..(n - 1) : t[i] = msgs[i + 1]
  BY HeadTailProperties, EmptySeq
<1> DEFINE g == [i \in 0..(n - 1) |-> h[i + 1]]
<1> HIDE DEF n, t
<1>3. 1 \in 1..n /\ 1 - 1 = 0 /\ 0 \in 0..n /\ (n - 1) + 1 = n
  BY <1>2
<1>4. a \in Screens /\ Proper(msgs[1], a) /\ h[1] = After(a, msgs[1])
  BY <1>1, <1>3
<1>5. g \in [0..(n - 1) -> Screens] /\ g[0] = h[1] /\ g[n - 1] = b
  BY <1>1, <1>2, <1>3
<1>6. ASSUME NEW i \in 1..(n - 1) PROVE Proper(t[i], g[i - 1]) /\ g[i] = After(g[i - 1], t[i])
  <2>1. /\ i + 1 \in 1..n /\ (i + 1) - 1 = i /\ i - 1 \in 0..(n - 1) /\ (i - 1) + 1 = i
        /\ i \in 0..(n - 1)
    BY <1>2
  <2>2. g[i - 1] = h[i] /\ g[i] = h[i + 1] /\ t[i] = msgs[i + 1]
    BY <1>2, <2>1
  <2>3. Proper(msgs[i + 1], h[i]) /\ h[i + 1] = After(h[i], msgs[i + 1])
    BY <1>1, <2>1
  <2>4. QED
    BY <2>2, <2>3
<1> HIDE DEF g
<1>7. Shows(h[1], t, b)
  BY <1>2, <1>5, <1>6 DEF Shows
<1>8. QED
  BY <1>2, <1>4, <1>7 DEF t

\* One more message.
LEMMA ShowsMore ==
  ASSUME NEW S, NEW msgs \in Seq(S), NEW m \in S, NEW a, NEW b, Shows(a, msgs, b),
         b \in Screens, Proper(m, b)
  PROVE  Shows(a, Append(msgs, m), After(b, m))
<1> DEFINE n == Len(msgs)
           t == Append(msgs, m)
           d == After(b, m)
<1>1. PICK h \in [0..n -> Screens] :
        /\ h[0] = a /\ h[n] = b
        /\ \A i \in 1..n : Proper(msgs[i], h[i - 1]) /\ h[i] = After(h[i - 1], msgs[i])
  BY DEF Shows
<1>2. /\ n \in Nat /\ Len(t) = n + 1 /\ t[n + 1] = m /\ \A i \in 1..n : t[i] = msgs[i]
  BY AppendProperties, LenProperties
<1>3. d \in Screens
  BY ProperFacts
<1> DEFINE g == [i \in 0..(n + 1) |-> IF i <= n THEN h[i] ELSE d]
<1> HIDE DEF n, t
<1>4. /\ \A i \in 0..n : g[i] = h[i] /\ i \in 0..(n + 1)
      /\ g[n + 1] = d
  BY <1>2
<1>5. g \in [0..(n + 1) -> Screens]
  <2>1. \A i \in 0..(n + 1) : i <= n => i \in 0..n
    BY <1>2
  <2> HIDE DEF d
  <2>2. QED
    BY <1>1, <1>3, <2>1
<1> HIDE DEF g
<1>6. g[0] = a
  BY <1>1, <1>2, <1>4
<1>7. ASSUME NEW i \in 1..(n + 1) PROVE Proper(t[i], g[i - 1]) /\ g[i] = After(g[i - 1], t[i])
  <2>1. CASE i <= n
    <3>1. i \in 1..n /\ i \in 0..n /\ i - 1 \in 0..n
      BY <1>2, <2>1
    <3>2. QED
      BY <1>1, <1>2, <1>4, <3>1
  <2>2. CASE ~(i <= n)
    <3>1. i = n + 1 /\ i - 1 = n /\ n \in 0..n
      BY <1>2, <2>2
    <3>2. g[i - 1] = b /\ t[i] = m /\ g[i] = d
      BY <1>1, <1>2, <1>4, <3>1
    <3>3. QED
      BY <3>2
  <2>3. QED
    BY <2>1, <2>2
<1>8. Shows(a, t, d)
  <2> HIDE DEF d
  <2>1. g \in [0..Len(t) -> Screens] /\ g[0] = a /\ g[Len(t)] = d
    BY <1>2, <1>4, <1>5, <1>6
  <2>2. \A i \in 1..Len(t) : Proper(t[i], g[i - 1]) /\ g[i] = After(g[i - 1], t[i])
    BY <1>2, <1>7
  <2>3. QED
    BY ONLY <2>1, <2>2 DEF Shows
<1>9. QED
  BY <1>8 DEF t

-----------------------------------------------------------------------------
(* The invariant *)

Parsed == [k : Kind, id : Nat, body : Seq(AnyUnit)]

DownTypes ==
  /\ wire \in Seq(ChunkOf(DownUnit))
  /\ reassembler \in Reassembler(DownUnit)
  /\ whole \in Seq(Seq(DownUnit))
  /\ screen \in Screens
  /\ faults \in SUBSET {"protocol", "codec"}

UpTypes ==
  /\ up \in Seq(ChunkOf(AnyUnit)) /\ gathered \in Reassembler(AnyUnit)
  /\ sent \in Seq(Parsed)

\* The server sends what it means, and has sent a part of it
SendInv == message # <<>> => Proper(message, screen) /\ offset \in 0..Len(message)

\* e is what the client's reassembler will be when it has taken all chunks: the
\* next chunk then goes on where they end
Ready(e) == message # <<>> => Holds(e, message, offset)

\* As long as the server sends what the client is made for, what is on its way makes the
\* messages the client has not received, and these make its store show what the
\* server means
DownInv ==
  faults = {} =>
    /\ ~failed
    /\ \E e \in Reassembler(DownUnit) :
         Trace(DownUnit, wire, reassembler, e, whole) /\ Ready(e)
    /\ \E a \in Screens : store = Image(a) /\ Shows(a, whole, screen)

\* These messages mean that
Means(msgs, entries) ==
  /\ Len(msgs) = Len(entries)
  /\ \A i \in 1..Len(entries) : parse(msgs[i]) = entries[i]

\* What is on its way to the server makes messages that mean what was sent
UpInv ==
  \E msgs \in Seq(Seq(AnyUnit)), b \in Reassembler(AnyUnit) :
    Means(msgs, sent) /\ Trace(AnyUnit, up, gathered, b, msgs)

IInv == DownTypes /\ UpTypes /\ SendInv /\ DownInv /\ UpInv

-----------------------------------------------------------------------------
(* To the server *)

\* What the client posts arrives after what it posted before (chunk).
LEMMA PostKeeps ==
  ASSUME UpTypes, UpInv, gathered' = gathered, NEW k, NEW id, NEW body, NEW msg \in Seq(AnyUnit),
         Post(k, id, body, msg), parse(msg) = [k |-> k, id |-> id, body |-> body],
         [k |-> k, id |-> id, body |-> body] \in Parsed
  PROVE  UpTypes' /\ UpInv'
<1> DEFINE e == [k |-> k, id |-> id, body |-> body]
           c == chunk(msg)
           U == AnyUnit
<1>1. up' = up \o c /\ sent' = Append(sent, e) /\ e \in Parsed /\ parse(msg) = e
  BY DEF Post
<1>2. PICK msgs \in Seq(Seq(U)), b \in Reassembler(U) :
        Means(msgs, sent) /\ Trace(U, up, gathered, b, msgs)
  BY DEF UpInv
<1>3. up \in Seq(ChunkOf(U)) /\ gathered \in Reassembler(U) /\ sent \in Seq(Parsed)
  BY DEF UpTypes
<1>4. c \in Seq(ChunkOf(U)) /\ \E d \in Reassembler(U) : Trace(U, c, b, d, <<msg>>)
  BY <1>2, ChunkTraced
<1> HIDE DEF c, e, U
<1>5. PICK d \in Reassembler(U) : Trace(U, c, b, d, <<msg>>)
  BY <1>4
<1>6. Trace(U, up \o c, gathered, d, msgs \o <<msg>>)
  BY ONLY <1>2, <1>3, <1>4, <1>5, TraceJoin
<1>7. msg \in Seq(U)
  BY DEF U
<1>8. msgs \o <<msg>> = Append(msgs, msg) /\ Append(msgs, msg) \in Seq(Seq(U))
  BY <1>2, <1>7, AppendIsConcat, AppendProperties
<1>9. Means(Append(msgs, msg), Append(sent, e))
  <2>1. /\ Len(Append(msgs, msg)) = Len(msgs) + 1 /\ Append(msgs, msg)[Len(msgs) + 1] = msg
        /\ \A i \in 1..Len(msgs) : Append(msgs, msg)[i] = msgs[i]
    BY <1>2, <1>7, AppendProperties
  <2>2. /\ Len(Append(sent, e)) = Len(sent) + 1 /\ Append(sent, e)[Len(sent) + 1] = e
        /\ \A i \in 1..Len(sent) : Append(sent, e)[i] = sent[i]
    BY <1>1, <1>3, AppendProperties
  <2>3. Len(msgs) = Len(sent) /\ \A i \in 1..Len(sent) : parse(msgs[i]) = sent[i]
    BY <1>2 DEF Means
  <2>4. Len(sent) \in Nat
    BY <1>3, LenProperties
  <2>5. \A i \in 1..(Len(sent) + 1) : i \in 1..Len(sent) \/ i = Len(sent) + 1
    BY <2>4
  <2>6. \A i \in 1..(Len(sent) + 1) : parse(Append(msgs, msg)[i]) = Append(sent, e)[i]
    BY <1>1, <2>1, <2>2, <2>3, <2>5
  <2>7. QED
    BY <2>1, <2>2, <2>3, <2>6 DEF Means
<1>10. UpInv'
  <2>1. Trace(U, up', gathered', d, Append(msgs, msg)) /\ Means(Append(msgs, msg), sent')
    BY <1>1, <1>6, <1>8, <1>9
  <2>2. QED
    BY <1>8, <2>1 DEF UpInv, U
<1>11. UpTypes'
  BY <1>1, <1>3, <1>4, ConcatProperties, AppendProperties DEF UpTypes, U
<1>12. QED
  BY <1>10, <1>11

\* A response to a CREATE and data of the client mean what they were built for
\* (create_response, data, capabilities_response).
LEMMA ResponseMeans ==
  ASSUME NEW id \in Nat
  PROVE  /\ capabilities_response(id) \in Seq(AnyUnit)
         /\ parse(capabilities_response(id)) = [k |-> "CAPABILITY", id |-> id, body |-> <<>>]
         /\ id < Span(2) =>
              /\ create_response(id) \in Seq(AnyUnit)
              /\ parse(create_response(id)) = [k |-> "CREATE", id |-> id, body |-> <<>>]
              /\ \A body \in Seq(AnyUnit) :
                   /\ data(id, body) \in Seq(AnyUnit)
                   /\ parse(data(id, body)) = [k |-> "DATA", id |-> id, body |-> body]
<1>1. ASSUME NEW u \in AnyUnit
      PROVE  <<u>> \in Seq(AnyUnit) /\ parse(<<u>>) = [k |-> u.k, id |-> u.id, body |-> <<>>]
  BY DEF parse
<1>2. /\ Command("CAPABILITY", id, 0) \in AnyUnit
      /\ Command("CAPABILITY", id, 0).k = "CAPABILITY" /\ Command("CAPABILITY", id, 0).id = id
  BY DEF Kind, Command, AnyUnit
<1>3. /\ capabilities_response(id) \in Seq(AnyUnit)
      /\ parse(capabilities_response(id)) = [k |-> "CAPABILITY", id |-> id, body |-> <<>>]
  BY <1>1, <1>2 DEF capabilities_response
<1>4. SUFFICES ASSUME id < Span(2)
      PROVE   /\ create_response(id) \in Seq(AnyUnit)
              /\ parse(create_response(id)) = [k |-> "CREATE", id |-> id, body |-> <<>>]
              /\ \A body \in Seq(AnyUnit) :
                   /\ data(id, body) \in Seq(AnyUnit)
                   /\ parse(data(id, body)) = [k |-> "DATA", id |-> id, body |-> body]
  BY <1>3
<1>5. ASSUME NEW k \in Kind
      PROVE  LET u == Header(k, id, cb_chid_for(id)) IN u \in AnyUnit /\ u.k = k /\ u.id = id
  <2>1. id % Span(cb_chid_for(id)) = id
    BY <1>4, IdFits
  <2>2. cb_chid_for(id) \in Nat
    BY DEF cb_chid_for
  <2>3. QED
    BY <2>1, <2>2 DEF Header, Command, AnyUnit
<1>6. /\ create_response(id) \in Seq(AnyUnit)
      /\ parse(create_response(id)) = [k |-> "CREATE", id |-> id, body |-> <<>>]
  BY <1>1, <1>5 DEF Kind, create_response
<1>7. ASSUME NEW body \in Seq(AnyUnit)
      PROVE  /\ data(id, body) \in Seq(AnyUnit)
             /\ parse(data(id, body)) = [k |-> "DATA", id |-> id, body |-> body]
  <2> DEFINE u == Header("DATA", id, cb_chid_for(id))
             m == <<u>> \o body
  <2>1. u \in AnyUnit /\ u.k = "DATA" /\ u.id = id
    BY <1>5 DEF Kind
  <2> HIDE DEF u
  <2>2. <<u>> \in Seq(AnyUnit) /\ Len(<<u>>) = 1 /\ <<u>>[1] = u
    BY <2>1
  <2>3. /\ m \in Seq(AnyUnit) /\ Len(m) = 1 + Len(body) /\ Len(body) \in Nat
        /\ \A i \in 1..(1 + Len(body)) : m[i] = IF i <= 1 THEN <<u>>[i] ELSE body[i - 1]
    BY <2>2, ConcatProperties, LenProperties
  <2> HIDE DEF m
  <2>4. m # <<>> /\ m[1] = u
    BY <2>2, <2>3
  <2>5. /\ Tail(m) \in Seq(AnyUnit) /\ Len(Tail(m)) = Len(m) - 1
        /\ \A i \in 1..Len(Tail(m)) : Tail(m)[i] = m[i + 1]
    BY <2>3, <2>4, HeadTailProperties
  <2>6. Len(Tail(m)) = Len(body) /\ \A i \in 1..Len(Tail(m)) : Tail(m)[i] = body[i]
    BY <2>3, <2>5
  <2>7. Tail(m) = body
    BY <2>5, <2>6, SeqEqual
  <2>8. data(id, body) = m
    BY DEF data, m, u
  <2>9. QED
    BY <2>1, <2>3, <2>4, <2>7, <2>8 DEF parse
<1>8. QED
  BY <1>6, <1>7

\* The user sends data.
LEMMA SendDataStep ==
  ASSUME UpTypes, UpInv, send_data
  PROVE  UpTypes' /\ UpInv'
<1>1. PICK id \in Channels, payload \in Payloads : Post("DATA", id, payload, data(id, payload))
  BY DEF send_data
<1>2. gathered' = gathered
  BY DEF send_data, server
<1>3. id \in Nat /\ id < Span(2) /\ payload \in Seq(AnyUnit)
  <2>1. payload \in Seq([k : CommandKind, id : Nat, x : Nat])
    BY GraphicsAssumption
  <2>2. [k : CommandKind, id : Nat, x : Nat] \subseteq AnyUnit
    BY DEF AnyUnit, Kind
  <2>3. payload \in Seq(AnyUnit)
    BY ONLY <2>1, <2>2, SeqMonotonic
  <2>4. QED
    BY <2>3, SpanFacts
<1>4. /\ data(id, payload) \in Seq(AnyUnit)
      /\ parse(data(id, payload)) = [k |-> "DATA", id |-> id, body |-> payload]
  BY ONLY <1>3, ResponseMeans
<1>5. [k |-> "DATA", id |-> id, body |-> payload] \in Parsed
  BY <1>3 DEF Kind, Parsed
<1>6. QED
  BY ONLY UpTypes, UpInv, <1>1, <1>2, <1>4, <1>5, PostKeeps

\* What the client does with a message keeps what is sent and what arrives in step.
LEMMA HandleUp ==
  ASSUME UpTypes, UpInv, gathered' = gathered, NEW msg \in Seq(DownUnit), msg # <<>>, Handle(msg)
  PROVE  UpTypes' /\ UpInv'
<1> DEFINE id == msg[1].id
<1>1. msg[1] \in DownUnit
  BY EmptySeq, ElementOfSeq
<1>2. id \in Nat /\ (msg[1].k = "CREATE" => id < Span(2))
  BY <1>1 DEF DownUnit, AnyUnit
<1>3. parse(msg).k = msg[1].k /\ parse(msg).id = id
  BY DEF parse
<1> HIDE DEF id
<1>4. <<>> \in Seq(AnyUnit)
  BY EmptySeq
<1>5. CASE Post("CAPABILITY", id, <<>>, capabilities_response(id))
  <2>1. [k |-> "CAPABILITY", id |-> id, body |-> <<>>] \in Parsed
    BY <1>2, <1>4 DEF Kind, Parsed
  <2>2. /\ capabilities_response(id) \in Seq(AnyUnit)
        /\ parse(capabilities_response(id)) = [k |-> "CAPABILITY", id |-> id, body |-> <<>>]
    BY ONLY <1>2, ResponseMeans
  <2>3. QED
    BY ONLY UpTypes, UpInv, gathered' = gathered, <1>5, <2>1, <2>2, PostKeeps
<1>6. CASE msg[1].k = "CREATE" /\ Post("CREATE", id, <<>>, create_response(id))
  <2>1. [k |-> "CREATE", id |-> id, body |-> <<>>] \in Parsed
    BY <1>2, <1>4 DEF Kind, Parsed
  <2>2. /\ create_response(id) \in Seq(AnyUnit)
        /\ parse(create_response(id)) = [k |-> "CREATE", id |-> id, body |-> <<>>]
    BY ONLY <1>2, <1>6, ResponseMeans
  <2>3. QED
    BY ONLY UpTypes, UpInv, gathered' = gathered, <1>6, <2>1, <2>2, PostKeeps
<1>7. CASE UNCHANGED <<up, sent>>
  BY <1>7 DEF UpTypes, UpInv
<1>8. QED
  BY <1>3, <1>5, <1>6, <1>7 DEF Handle

\* The server receives a chunk.
LEMMA ReceiveUp ==
  ASSUME UpTypes, UpInv, server_receive
  PROVE  UpTypes' /\ UpInv'
<1> DEFINE U == AnyUnit
           c == Head(up)
           done == Complete(gathered, c)
<1>1. PICK msgs \in Seq(Seq(U)), b \in Reassembler(U) :
        Means(msgs, sent) /\ Trace(U, up, gathered, b, msgs)
  BY DEF UpInv
<1>2. up \in Seq(ChunkOf(U)) /\ gathered \in Reassembler(U) /\ sent \in Seq(Parsed)
  BY DEF UpTypes
<1>3. /\ up # <<>> /\ up' = Tail(up) /\ gathered' = push(gathered, c)
      /\ sent' = IF done = <<>> \/ sent = <<>> THEN sent ELSE Tail(sent)
  BY DEF server_receive
<1> HIDE DEF U
<1>4. PICK l \in Seq(Seq(U)) :
        /\ Advance(gathered, msgs, c, push(gathered, c), l)
        /\ Trace(U, Tail(up), push(gathered, c), b, l)
  BY ONLY <1>1, <1>2, <1>3, TraceNext
<1>5. c \in ChunkOf(U) /\ Tail(up) \in Seq(ChunkOf(U))
  BY <1>2, <1>3, HeadTailProperties
<1> HIDE DEF c
<1>6. push(gathered, c) \in Reassembler(U)
  BY <1>2, <1>5, PushTypes
<1>7. Means(l, sent') /\ sent' \in Seq(Parsed)
  <2>1. CASE done = <<>>
    BY <1>1, <1>2, <1>3, <1>4, <2>1 DEF Advance
  <2>2. CASE done # <<>>
    <3>1. msgs # <<>> /\ l = Tail(msgs)
      BY <1>4, <2>2 DEF Advance
    <3>2. Len(msgs) = Len(sent) /\ \A i \in 1..Len(sent) : parse(msgs[i]) = sent[i]
      BY <1>1 DEF Means
    <3>3. Len(msgs) \in Nat \ {0} /\ sent # <<>>
      BY <1>1, <1>2, <3>1, <3>2, EmptySeq
    <3>4. /\ Len(Tail(msgs)) = Len(msgs) - 1
          /\ \A i \in 1..Len(Tail(msgs)) : Tail(msgs)[i] = msgs[i + 1]
      BY <1>1, <3>1, HeadTailProperties
    <3>5. /\ Tail(sent) \in Seq(Parsed) /\ Len(Tail(sent)) = Len(sent) - 1
          /\ \A i \in 1..Len(Tail(sent)) : Tail(sent)[i] = sent[i + 1]
      BY <1>2, <3>3, HeadTailProperties
    <3>6. \A i \in 1..(Len(sent) - 1) : i + 1 \in 1..Len(sent)
      BY <3>2, <3>3
    <3>7. Means(Tail(msgs), Tail(sent))
      BY <3>2, <3>4, <3>5, <3>6 DEF Means
    <3>8. QED
      BY <1>3, <2>2, <3>1, <3>3, <3>5, <3>7
  <2>3. QED
    BY <2>1, <2>2
<1>8. UpInv'
  <2>1. Trace(U, up', gathered', b, l)
    BY <1>3, <1>4
  <2>2. QED
    BY <1>7, <2>1 DEF UpInv, U
<1>9. UpTypes'
  BY <1>3, <1>5, <1>6, <1>7 DEF UpTypes, U
<1>10. QED
  BY <1>8, <1>9

-----------------------------------------------------------------------------
(* From the server *)

\* A piece that fits what the reassembler will hold is put on the wire.
LEMMA PieceWritten ==
  ASSUME NEW S, NEW w \in Seq(ChunkOf(S)), NEW a, NEW e \in Reassembler(S),
         NEW ms \in Seq(Seq(S)), Trace(S, w, a, e, ms),
         NEW msg \in Seq(S), NEW f \in BOOLEAN, NEW i \in Nat, NEW j \in i..Len(msg),
         f => i = 0, ~f => Holds(e, msg, i)
  PROVE  /\ AfterPiece(e, msg, f, j) \in Reassembler(S)
         /\ Trace(S, Append(w, Piece(msg, f, i, j)), a, AfterPiece(e, msg, f, j),
                  IF j = Len(msg) THEN Append(ms, msg) ELSE ms)
<1> DEFINE c == Piece(msg, f, i, j)
           d == AfterPiece(e, msg, f, j)
           n == IF j = Len(msg) THEN <<msg>> ELSE <<>>
<1>1. /\ c \in ChunkOf(S) /\ ~Rejects(e, c) /\ push(e, c) = d
      /\ Complete(e, c) = n
  BY PushPiece
<1>2. d \in Reassembler(S)
  BY <1>1, PushTypes
<1>3. n \in Seq(Seq(S)) /\ ms \o n = IF j = Len(msg) THEN Append(ms, msg) ELSE ms
  BY EmptySeq, ConcatEmptySeq, AppendIsConcat
<1>4. Advance(e, n, c, d, <<>>)
  <2>1. n # <<>> => Head(n) = msg /\ n = <<Head(n)>> /\ Tail(n) = <<>>
    OBVIOUS
  <2> HIDE DEF n, c, d
  <2>2. QED
    BY <1>1, <2>1 DEF Advance
<1> HIDE DEF n, c, d
<1>5. Trace(S, <<c>>, e, d, n)
  BY <1>1, <1>2, <1>3, <1>4, TraceOne
<1>6. <<c>> \in Seq(ChunkOf(S)) /\ Append(w, c) = w \o <<c>>
  BY <1>1, AppendIsConcat
<1>7. Trace(S, w \o <<c>>, a, d, ms \o n)
  BY <1>5, <1>6, TraceJoin
<1>8. QED
  BY <1>2, <1>3, <1>6, <1>7 DEF c, d

\* The server sends a piece of a message: its first, or one that goes on where the
\* reassembler will be.
LEMMA TransmitStep ==
  ASSUME DownTypes, DownInv, NEW msg, Proper(msg, screen), NEW f \in BOOLEAN,
         NEW i \in 0..Len(msg), f => i = 0, ~f => msg = message /\ i = offset,
         Transmit(msg, f, i), UNCHANGED <<reassembler, store, failed>>
  PROVE  DownTypes' /\ SendInv' /\ DownInv'
<1> DEFINE L == Len(msg)
           U == DownUnit
<1>1. PICK j \in i..L :
        /\ wire' = Append(wire, Piece(msg, f, i, j))
        /\ \/ /\ j # L
              /\ message' = msg /\ offset' = j
              /\ UNCHANGED <<whole, screen>>
           \/ /\ j = L
              /\ message' = <<>> /\ offset' = 0
              /\ whole' = Append(whole, msg) /\ screen' = After(screen, msg)
  BY DEF Transmit, After
<1>2. faults' = faults
  BY DEF Transmit
<1>3. /\ wire \in Seq(ChunkOf(U)) /\ whole \in Seq(Seq(U)) /\ screen \in Screens
      /\ reassembler \in Reassembler(U)
  BY DEF DownTypes
<1>4. msg \in Seq(U) /\ msg # <<>> /\ After(screen, msg) \in Screens
  BY <1>3, ProperFacts
<1>5. L \in Nat /\ i \in Nat /\ j \in 0..L /\ j \in Nat
  BY <1>4, LenProperties
<1>6. Piece(msg, f, i, j) \in ChunkOf(U)
  BY <1>4, <1>5, PieceType
<1>7. wire' \in Seq(ChunkOf(U)) /\ Append(whole, msg) \in Seq(Seq(U))
  BY <1>1, <1>3, <1>4, <1>6, AppendProperties
<1>8. DownTypes'
  BY <1>1, <1>2, <1>3, <1>4, <1>7 DEF DownTypes
<1>9. SendInv'
  BY <1>1, <1>5 DEF SendInv
<1>10. DownInv'
  <2> SUFFICES ASSUME faults = {}
               PROVE /\ ~failed'
                     /\ \E b \in Reassembler(DownUnit) :
                          Trace(DownUnit, wire', reassembler', b, whole') /\ Ready(b)'
                     /\ \E a \in Screens : store' = Image(a) /\ Shows(a, whole', screen')
    BY <1>2 DEF DownInv
  <2>1. PICK e \in Reassembler(U) : Trace(U, wire, reassembler, e, whole) /\ Ready(e)
    BY DEF DownInv
  <2>2. ~f => Holds(e, msg, i)
    BY <1>4, <2>1 DEF Ready
  <2> DEFINE d == AfterPiece(e, msg, f, j)
             res == IF j = L THEN Append(whole, msg) ELSE whole
  <2>3. d \in Reassembler(U) /\ Trace(U, Append(wire, Piece(msg, f, i, j)), reassembler, d, res)
    <3>1. /\ e \in Reassembler(U) /\ Trace(U, wire, reassembler, e, whole) /\ f \in BOOLEAN
          /\ (f => i = 0) /\ (~f => Holds(e, msg, i)) /\ j \in i..Len(msg)
      BY <2>1, <2>2
    <3> HIDE DEF U
    <3>2. QED
      BY ONLY <1>3, <1>4, <1>5, <3>1, PieceWritten
  <2>4. Ready(d)'
    BY <1>1 DEF Ready, Holds, AfterPiece
  <2>5. whole' = res
    BY <1>1
  <2> HIDE DEF d, res
  <2>6. \E b \in Reassembler(DownUnit) :
          Trace(DownUnit, wire', reassembler', b, whole') /\ Ready(b)'
    BY <1>1, <2>3, <2>4, <2>5
  <2>7. PICK a \in Screens : store = Image(a) /\ Shows(a, whole, screen)
    BY DEF DownInv
  <2>8. Shows(a, whole', screen')
    <3>1. CASE j # L
      BY <1>1, <2>7, <3>1
    <3>2. CASE j = L
      <4>1. Shows(a, Append(whole, msg), After(screen, msg))
        BY ONLY <1>3, <1>4, <2>7, Proper(msg, screen), ShowsMore
      <4>2. QED
        BY <1>1, <3>2, <4>1
    <3>3. QED
      BY <3>1, <3>2
  <2>9. ~failed
    BY DEF DownInv
  <2>10. QED
    BY <2>6, <2>7, <2>8, <2>9
<1>11. QED
  BY <1>8, <1>9, <1>10

\* The commands the server chooses from are ones it may give.
LEMMA CommandsGiven ==
  ASSUME screen \in Screens, NEW c \in Commands, Legal(screen, c)
  PROVE  Given(screen, c) /\ c \in DownUnit
<1>1. Ids \subseteq Nat /\ Outputs \subseteq Nat
  BY GraphicsAssumption
<1>2. DOMAIN screen \subseteq Nat /\ \A id \in DOMAIN screen : Len(screen[id].pixels) + 1 \in Nat
  <2>1. \A id \in DOMAIN screen : screen[id].pixels \in Seq(Nat)
    BY ScreenFacts DEF ServerSurface
  <2>2. \A t \in Seq(Nat) : Len(t) + 1 \in Nat
    BY LenProperties
  <2>3. QED
    BY <2>1, <2>2, ScreenFacts
<1>3. ASSUME NEW k \in {"CreateSurface", "DeleteSurface", "MapSurfaceToOutput", "WireToSurface1",
                        "Other"}, NEW id \in Nat, NEW x \in Nat, c = Command(k, id, x),
             k = "MapSurfaceToOutput" => x \in Outputs
      PROVE  Given(screen, c) /\ c \in DownUnit
  <2>1. c.k = k /\ c.id = id /\ c.x = x /\ c \in AnyUnit
    BY <1>3 DEF Command, AnyUnit, Kind, CommandKind
  <2>2. QED
    BY <1>3, <2>1 DEF Given, DownUnit
<1>4. ASSUME NEW k \in {"CreateSurface", "DeleteSurface"}, NEW id \in Ids, c = Command(k, id, 0)
      PROVE  Given(screen, c) /\ c \in DownUnit
  BY <1>1, <1>3, <1>4
<1>5. ASSUME NEW id \in DOMAIN screen,
             c = Command("WireToSurface1", id, Len(screen[id].pixels) + 1)
      PROVE  Given(screen, c) /\ c \in DownUnit
  BY <1>2, <1>3, <1>5
<1>6. ASSUME NEW id \in Ids, NEW x \in Outputs, c = Command("MapSurfaceToOutput", id, x)
      PROVE  Given(screen, c) /\ c \in DownUnit
  BY <1>1, <1>3, <1>6
<1>7. CASE c = Command("Other", 0, 0)
  BY <1>3, <1>7
<1>8. QED
  BY <1>4, <1>5, <1>6, <1>7 DEF Commands

\* A message is begun.
LEMMA BeginStep ==
  ASSUME IInv, server_begin, UNCHANGED <<up, client, sent>>
  PROVE  DownTypes' /\ SendInv' /\ DownInv'
<1>1. DownTypes /\ DownInv
  BY DEF IInv
<1>2. screen \in Screens
  BY <1>1 DEF DownTypes
<1>3. \E msg : Transmit(msg, TRUE, 0) /\ Proper(msg, screen)
  <2>1. ASSUME Transmit(<<Command("CAPABILITY", 3, 0)>>, TRUE, 0)
        PROVE  \E msg : Transmit(msg, TRUE, 0) /\ Proper(msg, screen)
    <3> DEFINE u == Command("CAPABILITY", 3, 0)
    <3>1. u \in DownUnit /\ u.k = "CAPABILITY"
      BY DEF Command, DownUnit, AnyUnit, Kind
    <3> HIDE DEF u
    <3>2. Proper(<<u>>, screen)
      BY <3>1 DEF Proper
    <3>3. QED
      BY <2>1, <3>2 DEF u
  <2>2. ASSUME NEW k \in {"CREATE", "CLOSE"}, NEW id \in Nat, NEW cb \in 0..2,
               Transmit(<<Header(k, id, cb)>>, TRUE, 0)
        PROVE  \E msg : Transmit(msg, TRUE, 0) /\ Proper(msg, screen)
    <3> DEFINE u == Header(k, id, cb)
    <3>1. u \in DownUnit /\ u.k = k
      BY HeaderUnit DEF Kind
    <3> HIDE DEF u
    <3>2. Proper(<<u>>, screen)
      BY <3>1 DEF Proper
    <3>3. QED
      BY <2>2, <3>2 DEF u
  <2>3. ASSUME NEW c \in Commands, Legal(screen, c), Transmit(<<Header("DATA", 1, 0), c>>, TRUE, 0)
        PROVE  \E msg : Transmit(msg, TRUE, 0) /\ Proper(msg, screen)
    <3> DEFINE u == Header("DATA", 1, 0)
    <3>1. u \in DownUnit /\ u.k = "DATA"
      <4>1. "DATA" \in Kind /\ 1 \in Nat /\ 0 \in 0..2
        BY DEF Kind
      <4>2. QED
        BY ONLY <4>1, HeaderUnit
    <3>2. Given(screen, c) /\ c \in DownUnit
      BY <1>2, <2>3, CommandsGiven
    <3> HIDE DEF u
    <3>3. Proper(<<u, c>>, screen)
      BY <3>1, <3>2 DEF Proper
    <3>4. QED
      BY <2>3, <3>3 DEF u
  <2>4. Channels \subseteq Nat
    BY SpanFacts
  <2>5. ASSUME NEW id \in Channels, Transmit(<<Header("CREATE", id, 2)>>, TRUE, 0)
        PROVE  \E msg : Transmit(msg, TRUE, 0) /\ Proper(msg, screen)
    <3>1. id \in Nat /\ 2 \in 0..2
      BY <2>4
    <3>2. QED
      BY <2>2, <2>5, <3>1
  <2>6. CASE Transmit(<<Header("CLOSE", 1, 0)>>, TRUE, 0)
    <3>1. 1 \in Nat /\ 0 \in 0..2
      OBVIOUS
    <3>2. QED
      BY <2>2, <2>6, <3>1
  <2>7. \/ Transmit(<<Command("CAPABILITY", 3, 0)>>, TRUE, 0)
        \/ \E id \in Channels : Transmit(<<Header("CREATE", id, 2)>>, TRUE, 0)
        \/ Transmit(<<Header("CLOSE", 1, 0)>>, TRUE, 0)
        \/ \E c \in Commands : Legal(screen, c) /\ Transmit(<<Header("DATA", 1, 0), c>>, TRUE, 0)
    BY DEF server_begin
  <2>8. QED
    BY ONLY <2>1, <2>3, <2>5, <2>6, <2>7
<1>4. PICK msg : Transmit(msg, TRUE, 0) /\ Proper(msg, screen)
  BY <1>3
<1>5. msg \in Seq(DownUnit)
  BY <1>2, <1>4, ProperFacts
<1>6. 0 \in 0..Len(msg)
  BY <1>5, LenProperties
<1>7. UNCHANGED <<reassembler, store, failed>>
  BY DEF client
<1>8. QED
  BY ONLY <1>1, <1>4, <1>6, <1>7, TransmitStep

\* The message goes on.
LEMMA MoreStep ==
  ASSUME IInv, server_more, UNCHANGED <<up, client, sent>>
  PROVE  DownTypes' /\ SendInv' /\ DownInv'
<1>1. DownTypes /\ SendInv /\ DownInv /\ message # <<>> /\ Transmit(message, FALSE, offset)
  BY DEF IInv, server_more
<1>2. Proper(message, screen) /\ offset \in 0..Len(message)
  BY <1>1 DEF SendInv
<1>3. UNCHANGED <<reassembler, store, failed>>
  BY DEF client
<1>4. QED
  BY ONLY <1>1, <1>2, <1>3, TransmitStep

\* A message is given up.
LEMMA AbandonStep ==
  ASSUME IInv, server_abandon, UNCHANGED <<up, client, sent>>
  PROVE  DownTypes' /\ SendInv' /\ DownInv'
<1>1. /\ message' = <<>> /\ UNCHANGED <<wire, whole, screen, faults>>
      /\ UNCHANGED <<reassembler, store, failed>>
  BY DEF server_abandon, client
<1>2. DownTypes' /\ SendInv'
  BY <1>1 DEF IInv, DownTypes, SendInv
<1>3. DownInv'
  <2>1. \A e : Ready(e)'
    BY <1>1 DEF Ready
  <2>2. DownInv
    BY DEF IInv
  <2>3. QED
    BY <1>1, <2>1, <2>2 DEF DownInv
<1>4. QED
  BY <1>2, <1>3

\* A chunk the client is not made for.
LEMMA FaultStep ==
  ASSUME IInv, server_fault, UNCHANGED <<up, client, sent>>
  PROVE  DownTypes' /\ SendInv' /\ DownInv'
<1>1. /\ UNCHANGED <<message, offset, whole, screen>> /\ UNCHANGED <<reassembler, store, failed>>
      /\ faults' # {} /\ faults' \in SUBSET {"protocol", "codec"}
  BY DEF server_fault, client
<1>2. PICK c \in FaultyChunks \cup ForeignChunks : wire' = Append(wire, c)
  BY DEF server_fault
<1>3. ASSUME NEW d \in Seq(DownUnit) PROVE wrap(d) \in ChunkOf(DownUnit)
  BY LenProperties DEF wrap, Chunk, ChunkOf
<1>4. <<>> \in Seq(DownUnit)
  BY EmptySeq
<1>5. ShortChunk \in ChunkOf(DownUnit)
  BY <1>4 DEF ShortChunk, Chunk, ChunkOf
<1>6. Header("CLOSE", 1, 0) \in DownUnit /\ Header("DATA", 1, 0) \in DownUnit
  <2>1. "CLOSE" \in Kind /\ "DATA" \in Kind /\ 1 \in Nat /\ 0 \in 0..2
    BY DEF Kind
  <2>2. QED
    BY ONLY <2>1, HeaderUnit
<1>7. Chunk(1, FALSE, TRUE, <<Header("CLOSE", 1, 0)>>) \in ChunkOf(DownUnit)
  <2>1. <<Header("CLOSE", 1, 0)>> \in Seq(DownUnit)
    BY <1>6
  <2>2. QED
    BY <2>1 DEF Chunk, ChunkOf
<1>8. ASSUME NEW k \in CommandKind, NEW id \in Nat PROVE Command(k, id, 0) \in DownUnit
  BY DEF Command, DownUnit, AnyUnit, Kind, CommandKind
<1>9. ASSUME NEW u \in DownUnit
      PROVE  /\ wrap(<<Header("DATA", 1, 0), Command("Other", 0, 0), u>>) \in ChunkOf(DownUnit)
             /\ wrap(<<Header("DATA", 1, 0), u>>) \in ChunkOf(DownUnit)
  <2> DEFINE d == Header("DATA", 1, 0)
             o == Command("Other", 0, 0)
  <2>1. <<d, o, u>> \in Seq(DownUnit) /\ <<d, u>> \in Seq(DownUnit)
    <3>1. d \in DownUnit /\ o \in DownUnit
      BY <1>6, <1>8 DEF CommandKind
    <3> HIDE DEF d, o
    <3>2. QED
      BY <3>1
  <2>2. QED
    BY <1>3, <2>1
<1>10. Ids \subseteq Nat /\ DOMAIN screen \subseteq Nat
  BY GraphicsAssumption, ScreenFacts DEF IInv, DownTypes
<1>11. c \in ChunkOf(DownUnit)
  <2>1. CASE c \in {ShortChunk, Chunk(1, FALSE, TRUE, <<Header("CLOSE", 1, 0)>>), wrap(<<>>)}
    BY <1>3, <1>4, <1>5, <1>7, <2>1
  <2>2. ASSUME NEW u \in DownUnit,
               c = wrap(<<Header("DATA", 1, 0), Command("Other", 0, 0), u>>)
        PROVE  c \in ChunkOf(DownUnit)
    BY <1>9, <2>2
  <2>3. CASE c \in ForeignChunks
    <3>1. PICK id \in DOMAIN screen :
            c = wrap(<<Header("DATA", 1, 0), Command("WireToSurface1 unsupported", id, 0)>>)
      BY <2>3 DEF ForeignChunks
    <3>2. Command("WireToSurface1 unsupported", id, 0) \in DownUnit
      BY <1>8, <1>10 DEF CommandKind
    <3>3. QED
      BY <1>9, <3>1, <3>2
  <2>4. Command("Bad", 0, 0) \in DownUnit /\ Command("WireToSurface1 undecodable", 0, 0) \in DownUnit
    BY <1>8 DEF CommandKind
  <2>5. \A u \in FaultyCommands : u \in DownUnit
    <3>1. \A id \in Ids : /\ Command("WireToSurface1", id, 0) \in DownUnit
                          /\ Command("MapSurfaceToOutput", id, 0) \in DownUnit
      BY <1>8, <1>10 DEF CommandKind
    <3>2. QED
      BY <2>4, <3>1 DEF FaultyCommands
  <2>6. CASE c \in FaultyChunks
    <3>1. CASE \E u \in FaultyCommands :
                 c = wrap(<<Header("DATA", 1, 0), Command("Other", 0, 0), u>>)
      BY <2>2, <2>5, <3>1
    <3>2. QED
      BY <2>1, <2>6, <3>1, Zenon DEF FaultyChunks
  <2>7. QED
    BY <1>2, <2>3, <2>6
<1>12. DownTypes' /\ SendInv'
  <2>1. wire \in Seq(ChunkOf(DownUnit))
    BY DEF IInv, DownTypes
  <2>2. wire' \in Seq(ChunkOf(DownUnit))
    BY <1>2, <1>11, <2>1, AppendProperties
  <2>3. QED
    BY <1>1, <2>2 DEF IInv, DownTypes, SendInv
<1>13. DownInv'
  BY <1>1 DEF DownInv
<1>14. QED
  BY <1>12, <1>13

-----------------------------------------------------------------------------
(* At the client *)

\* A message of the server does to a store that showed what the server meant what
\* it did to the meaning, and fails nothing (parse_all, SurfaceStore::apply).
LEMMA HandleShown ==
  ASSUME NEW sc \in Screens, NEW msg, Proper(msg, sc), store = Image(sc), failed = FALSE,
         Handle(msg)
  PROVE  store' = Image(After(sc, msg)) /\ ~failed'
<1>1. /\ msg[1].k = "DATA" => Tail(msg) = <<msg[2]>> /\ Given(sc, msg[2])
  BY ProperFacts
<1>2. parse(msg).k = msg[1].k /\ parse(msg).body = Tail(msg)
  BY DEF parse
<1>3. CASE msg[1].k # "DATA"
  BY <1>2, <1>3 DEF Handle, After
<1>4. CASE msg[1].k = "DATA"
  <2> DEFINE c == msg[2]
  <2>1. /\ c.k # "Bad" /\ ~Fails(Image(sc), c) /\ apply(Image(sc), c) = Image(Meaning(sc, c))
    BY <1>1, <1>4, CommandShown
  <2>2. parse(msg).body = <<c>>
    BY <1>1, <1>2, <1>4
  <2> HIDE DEF c
  <2>3. ~parse_all_fails(<<c>>)
    <3>1. Len(<<c>>) = 1 /\ <<c>>[1] = c
      OBVIOUS
    <3>2. \A i \in 1..1 : i = 1
      OBVIOUS
    <3>3. QED
      BY <2>1, <3>1, <3>2 DEF parse_all_fails
  <2>4. apply_each(store, <<c>>) = [store |-> apply(store, c), ok |-> TRUE]
    BY <2>1, ApplyOne
  <2>5. /\ store' = apply_each(store, <<c>>).store
        /\ failed' = ~apply_each(store, <<c>>).ok
    BY <1>2, <1>4, <2>2, <2>3 DEF Handle
  <2>6. store' = Image(Meaning(sc, c)) /\ ~failed'
    <3>1. apply_each(store, <<c>>).store = apply(store, c) /\ apply_each(store, <<c>>).ok = TRUE
      BY ONLY <2>4
    <3>2. ~failed'
      BY ONLY <2>5, <3>1, Zenon
    <3>3. QED
      BY <2>1, <2>5, <3>1, <3>2
  <2>7. After(sc, msg) = Meaning(sc, c)
    BY <1>4 DEF After, c
  <2>8. QED
    BY <2>6, <2>7
<1>5. QED
  BY <1>3, <1>4

\* The client receives a chunk.
LEMMA ReceiveChunkStep ==
  ASSUME IInv, receive_chunk
  PROVE  IInv'
<1> DEFINE U == DownUnit
           c == Head(wire)
           done == Complete(reassembler, c)
<1>1. DownTypes /\ UpTypes /\ SendInv /\ DownInv /\ UpInv
  BY DEF IInv
<1>2. /\ wire # <<>> /\ wire' = Tail(wire) /\ reassembler' = push(reassembler, c)
      /\ whole' = IF done = <<>> \/ whole = <<>> THEN whole ELSE Tail(whole)
      /\ \/ /\ Rejects(reassembler, c) \/ done = << <<>> >>
            /\ failed' = TRUE
            /\ UNCHANGED <<store, up, sent>>
         \/ /\ ~Rejects(reassembler, c) /\ done = <<>>
            /\ UNCHANGED <<store, failed, up, sent>>
         \/ done # <<>> /\ done # << <<>> >> /\ Handle(done[1])
      /\ UNCHANGED <<message, offset, gathered, screen, faults>>
  BY DEF receive_chunk, server
<1>3. /\ wire \in Seq(ChunkOf(U)) /\ whole \in Seq(Seq(U)) /\ reassembler \in Reassembler(U)
  BY <1>1 DEF DownTypes
<1>4. c \in ChunkOf(U) /\ Tail(wire) \in Seq(ChunkOf(U))
  BY <1>2, <1>3, HeadTailProperties
<1> HIDE DEF c
<1>5. push(reassembler, c) \in Reassembler(U) /\ (done # <<>> => done[1] \in Seq(U))
  BY <1>3, <1>4, PushTypes
<1>6. whole' \in Seq(Seq(U))
  BY <1>2, <1>3, HeadTailProperties
<1>7. DownTypes'
  BY <1>1, <1>2, <1>4, <1>5, <1>6 DEF DownTypes
<1>8. SendInv'
  BY <1>1, <1>2 DEF SendInv
<1>9. done # <<>> => done = <<done[1]>>
  BY DEF Complete
<1> HIDE DEF U, done
<1>10. UpTypes' /\ UpInv'
  <2>1. CASE UNCHANGED <<up, sent>>
    BY <1>1, <1>2, <2>1 DEF UpTypes, UpInv
  <2>2. CASE done # <<>> /\ done # << <<>> >> /\ Handle(done[1])
    <3>1. done[1] \in Seq(DownUnit) /\ done[1] # <<>>
      BY <1>5, <1>9, <2>2 DEF U
    <3>2. gathered' = gathered
      BY <1>2
    <3>3. QED
      BY ONLY <1>1, <2>2, <3>1, <3>2, HandleUp
  <2>3. QED
    BY <1>2, <2>1, <2>2
<1>11. DownInv'
  <2> SUFFICES ASSUME faults = {}
               PROVE /\ ~failed'
                     /\ \E b \in Reassembler(DownUnit) :
                          Trace(DownUnit, wire', reassembler', b, whole') /\ Ready(b)'
                     /\ \E a \in Screens : store' = Image(a) /\ Shows(a, whole', screen')
    BY <1>2 DEF DownInv
  <2>1. PICK e \in Reassembler(U) : Trace(U, wire, reassembler, e, whole) /\ Ready(e)
    BY <1>1 DEF DownInv, U
  <2>2. PICK a \in Screens : store = Image(a) /\ Shows(a, whole, screen)
    BY <1>1 DEF DownInv
  <2>3. failed = FALSE
    BY DEF receive_chunk
  <2>4. PICK l \in Seq(Seq(U)) :
          /\ Advance(reassembler, whole, c, push(reassembler, c), l)
          /\ Trace(U, Tail(wire), push(reassembler, c), e, l)
    <3>1. \E l \in Seq(Seq(U)) :
            /\ Advance(reassembler, whole, Head(wire), push(reassembler, Head(wire)), l)
            /\ Trace(U, Tail(wire), push(reassembler, Head(wire)), e, l)
      BY ONLY <1>2, <1>3, <2>1, TraceNext
    <3>2. QED
      BY <3>1 DEF c
  <2>5. /\ ~Rejects(reassembler, c) /\ (done = <<>> => l = whole)
        /\ done # <<>> => whole # <<>> /\ done = <<Head(whole)>> /\ l = Tail(whole)
    BY <2>4 DEF Advance, done
  <2>6. whole' = l
    BY <1>2, <2>5
  <2>7. Ready(e)'
    BY <1>2, <2>1 DEF Ready
  <2>8. CASE done = <<>>
    <3>1. UNCHANGED <<store, failed, screen, whole>>
      BY <1>2, <2>5, <2>6, <2>8
    <3>2. QED
      BY <1>2, <2>1, <2>2, <2>3, <2>4, <2>6, <2>7, <3>1 DEF U
  <2>9. CASE done # <<>>
    <3> DEFINE m == Head(whole)
    <3>1. whole # <<>> /\ done = <<m>> /\ l = Tail(whole)
      BY <2>5, <2>9
    <3>2. a \in Screens /\ Proper(m, a) /\ Shows(After(a, m), Tail(whole), screen)
      BY ONLY <1>3, <2>2, <3>1, ShowsNext
    <3>3. m # <<>> /\ After(a, m) \in Screens
      BY <3>2, ProperFacts
    <3> HIDE DEF m
    <3>4. done[1] = m /\ done # << <<>> >>
      BY <3>1, <3>3
    <3>5. Handle(m)
      BY <1>2, <2>5, <2>9, <3>4
    <3>6. store' = Image(After(a, m)) /\ ~failed'
      BY ONLY <2>2, <2>3, <3>2, <3>5, HandleShown
    <3>7. Shows(After(a, m), whole', screen')
      BY <1>2, <2>6, <3>1, <3>2
    <3>8. Trace(U, wire', reassembler', e, whole')
      BY <1>2, <2>4, <2>6
    <3>9. QED
      BY <2>1, <2>7, <3>3, <3>6, <3>7, <3>8 DEF U
  <2>10. QED
    BY <2>8, <2>9
<1>12. QED
  BY <1>7, <1>8, <1>10, <1>11 DEF IInv

-----------------------------------------------------------------------------
(* The theorems *)

\* At the start nothing is on its way and nothing is shown.
LEMMA InitInv ==
  ASSUME Init
  PROVE  IInv
<1>1. /\ wire = <<>> /\ up = <<>> /\ sent = <<>> /\ message = <<>> /\ whole = <<>>
      /\ screen = <<>> /\ faults = {} /\ failed = FALSE /\ store = NewSurfaceStore
      /\ reassembler = NewReassembler /\ gathered = NewReassembler
  BY DEF Init
<1>2. NewReassembler \in Reassembler(DownUnit) /\ NewReassembler \in Reassembler(AnyUnit)
  BY EmptySeq DEF NewReassembler, Reassembler
<1>3. screen \in Screens /\ Image(screen) = NewSurfaceStore
  <2> DEFINE e == <<>>
  <2>1. DOMAIN e = {} /\ e = [i \in {} |-> e[i]]
    OBVIOUS
  <2>2. e \in [{} -> ServerSurface] /\ {} \in SUBSET Nat
    BY <2>1
  <2>3. e \in Screens
    BY <2>2 DEF Screens
  <2>4. Painted(e) = e /\ Placed(e) = {} /\ Mapping(e) = e
    BY <2>1 DEF Painted, Placed, Mapping
  <2>5. QED
    BY <1>1, <2>3, <2>4 DEF Image, NewSurfaceStore
<1>4. DownTypes /\ UpTypes /\ SendInv
  BY <1>1, <1>2, <1>3, EmptySeq DEF DownTypes, UpTypes, SendInv
<1>5. DownInv
  <2>1. Trace(DownUnit, wire, reassembler, reassembler, whole)
    BY <1>1, <1>2, TraceStart
  <2>2. Ready(reassembler)
    BY <1>1 DEF Ready
  <2>3. Shows(screen, whole, screen)
    BY <1>1, <1>3, ShowsNothing
  <2>4. QED
    BY <1>1, <1>2, <1>3, <2>1, <2>2, <2>3 DEF DownInv
<1>6. UpInv
  <2>1. Trace(AnyUnit, up, gathered, gathered, <<>>)
    BY <1>1, <1>2, TraceStart
  <2>2. Means(<<>>, sent) /\ <<>> \in Seq(Seq(AnyUnit))
    BY <1>1, EmptySeq DEF Means
  <2>3. QED
    BY <1>1, <1>2, <2>1, <2>2 DEF UpInv
<1>7. QED
  BY <1>4, <1>5, <1>6 DEF IInv

\* Every step keeps the invariant.
LEMMA NextInv ==
  ASSUME IInv, [Next]_vars
  PROVE  IInv'
<1>1. ASSUME UNCHANGED <<wire, message, offset, whole, screen, faults>>, UNCHANGED client
      PROVE  DownTypes' /\ SendInv' /\ DownInv'
  BY <1>1 DEF IInv, client, DownTypes, SendInv, DownInv, Ready
<1>2. ASSUME UNCHANGED <<up, sent, gathered>> PROVE UpTypes' /\ UpInv'
  BY <1>2 DEF IInv, UpTypes, UpInv
<1>3. CASE receive_chunk
  BY <1>3, ReceiveChunkStep
<1>4. CASE send_data
  <2>1. UpTypes' /\ UpInv'
    BY <1>4, SendDataStep DEF IInv
  <2>2. UNCHANGED <<wire, message, offset, whole, screen, faults>> /\ UNCHANGED client
    BY <1>4 DEF send_data, server
  <2>3. QED
    BY <1>1, <2>1, <2>2 DEF IInv
<1>5. CASE server_begin /\ UNCHANGED <<up, client, sent>>
  <2>1. UNCHANGED gathered
    BY <1>5 DEF server_begin, Transmit
  <2>2. QED
    BY <1>2, <1>5, <2>1, BeginStep DEF IInv
<1>6. CASE server_more /\ UNCHANGED <<up, client, sent>>
  BY <1>2, <1>6, MoreStep DEF IInv, server_more, Transmit
<1>7. CASE server_abandon /\ UNCHANGED <<up, client, sent>>
  BY <1>2, <1>7, AbandonStep DEF IInv, server_abandon
<1>8. CASE server_fault /\ UNCHANGED <<up, client, sent>>
  BY <1>2, <1>8, FaultStep DEF IInv, server_fault
<1>9. CASE server_receive /\ UNCHANGED client
  <2>1. UpTypes' /\ UpInv'
    BY <1>9, ReceiveUp DEF IInv
  <2>2. UNCHANGED <<wire, message, offset, whole, screen, faults>>
    BY <1>9 DEF server_receive
  <2>3. QED
    BY <1>1, <1>9, <2>1, <2>2 DEF IInv
<1>10. CASE UNCHANGED vars
  BY <1>1, <1>2, <1>10 DEF IInv, vars, server
<1>11. QED
  BY <1>3, <1>4, <1>5, <1>6, <1>7, <1>8, <1>9, <1>10 DEF Next, ServerStep

\* What is on its way in either direction is what the other side has yet to
\* receive, and the store is behind the server by exactly that.
THEOREM Invariance == Spec => []IInv
<1>1. Init => IInv
  BY InitInv
<1>2. IInv /\ [Next]_vars => IInv'
  BY NextInv
<1>3. QED
  BY <1>1, <1>2, PTL DEF Spec

\* The messages push returns are those the server finished, in order and whole,
\* however they were cut and whatever was given up in between (Reassembler::push).
THEOREM Reassembled == Spec => []MessagesWhole
<1>1. ASSUME IInv PROVE MessagesWhole
  <2> DEFINE U == DownUnit
  <2> SUFFICES ASSUME faults = {}, wire # <<>>, Complete(reassembler, Head(wire)) # <<>>
               PROVE  whole # <<>> /\ Complete(reassembler, Head(wire))[1] = Head(whole)
    BY DEF MessagesWhole
  <2>1. wire \in Seq(ChunkOf(U))
    BY <1>1 DEF IInv, DownTypes
  <2>2. PICK e \in Reassembler(U) : Trace(U, wire, reassembler, e, whole)
    BY <1>1 DEF IInv, DownInv
  <2>3. PICK l \in Seq(Seq(U)) :
          Advance(reassembler, whole, Head(wire), push(reassembler, Head(wire)), l)
    BY ONLY <2>1, <2>2, wire # <<>>, TraceNext
  <2>4. whole # <<>> /\ Complete(reassembler, Head(wire)) = <<Head(whole)>>
    BY <2>3 DEF Advance
  <2>5. QED
    BY <2>4
<1>2. QED
  BY <1>1, Invariance, PTL

\* What the client sends arrives once, whole and under the id it was sent for, at
\* every length of the payload and every width of the id (chunk, create_response,
\* data, cb_chid_for).
THEOREM Arrives == Spec => []SentArrives
<1>1. ASSUME IInv PROVE SentArrives
  <2> DEFINE U == AnyUnit
  <2>1. /\ up \in Seq(ChunkOf(U)) /\ gathered \in Reassembler(U) /\ sent \in Seq(Parsed)
    BY <1>1 DEF IInv, UpTypes
  <2>2. PICK msgs \in Seq(Seq(U)), b \in Reassembler(U) :
          Means(msgs, sent) /\ Trace(U, up, gathered, b, msgs)
    BY <1>1 DEF IInv, UpInv
  <2>3. Len(msgs) = Len(sent) /\ \A i \in 1..Len(sent) : parse(msgs[i]) = sent[i]
    BY <2>2 DEF Means
  <2>4. ASSUME up # <<>>, Complete(gathered, Head(up)) # <<>>
        PROVE  sent # <<>> /\ parse(Complete(gathered, Head(up))[1]) = Head(sent)
    <3>1. PICK l \in Seq(Seq(U)) :
            Advance(gathered, msgs, Head(up), push(gathered, Head(up)), l)
      BY ONLY <2>1, <2>2, <2>4, TraceNext
    <3>2. msgs # <<>> /\ Complete(gathered, Head(up)) = <<Head(msgs)>>
      BY <2>4, <3>1 DEF Advance
    <3>3. Len(msgs) \in Nat \ {0} /\ Head(msgs) = msgs[1]
      BY <2>2, <3>2, EmptySeq, HeadTailProperties
    <3>4. sent # <<>> /\ Head(sent) = sent[1] /\ 1 \in 1..Len(sent)
      BY <2>1, <2>3, <3>3, EmptySeq, HeadTailProperties
    <3>5. QED
      BY <2>3, <3>2, <3>3, <3>4
  <2>5. ASSUME up = <<>> PROVE sent = <<>>
    <3>1. msgs = <<>>
      BY <2>2, <2>5, TraceEmpty
    <3>2. QED
      BY <2>1, <2>3, <3>1, EmptySeq
  <2>6. QED
    BY <2>4, <2>5 DEF SentArrives
<1>2. QED
  BY <1>1, Invariance, PTL

\* As long as the server keeps to the protocol and to the codecs the crate decodes,
\* no part returns an error (Reassembler::push, parse_all, SurfaceStore::apply,
\* decode_surface_bits).
THEOREM NeverFails == Spec => []CleanServerNeverFails
<1>1. IInv => CleanServerNeverFails
  BY DEF IInv, DownInv, CleanServerNeverFails
<1>2. QED
  BY <1>1, Invariance, PTL

\* Once the client has handled every message, its store has the surfaces the
\* server means, painted alike and mapped alike (SurfaceStore::apply).
THEOREM StoreShown == Spec => []StoreFollowsServer
<1>1. ASSUME IInv PROVE StoreFollowsServer
  <2> SUFFICES ASSUME faults = {}, whole = <<>>
               PROVE  /\ Surface(store) = DOMAIN screen
                      /\ \A id \in DOMAIN screen : store.surfaces[id] = screen[id].pixels
                      /\ store.mapped = [id \in {i \in DOMAIN screen : screen[i].at # Unmapped} |->
                                           screen[id].at]
    BY DEF StoreFollowsServer
  <2>1. PICK a \in Screens : store = Image(a) /\ Shows(a, whole, screen)
    BY <1>1 DEF IInv, DownInv
  <2>2. store = Image(screen)
    BY <2>1, ShowsNothing
  <2>3. store.surfaces = Painted(screen) /\ store.mapped = Mapping(screen)
    BY <2>2 DEF Image
  <2>4. QED
    BY <2>3 DEF Surface, Painted, Mapping, Placed
<1>2. QED
  BY <1>1, Invariance, PTL
=============================================================================
