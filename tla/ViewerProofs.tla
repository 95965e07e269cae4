---------------------------- MODULE ViewerProofs ----------------------------
(***************************************************************************)
(* Proofs about Viewer: its types, that the shared snapshot is the         *)
(* framebuffer whenever the session thread is back at the top of its loop, *)
(* that the display hands whole updates to process in the order the server *)
(* sent them, and that input is neither lost nor reordered.                *)
(*                                                                         *)
(* The argument about reassembly needs what the model forgets: H, all the  *)
(* fragments the server has ever sent.  A story of H says, for each        *)
(* position in it, what the reassembly buffer holds and which updates are  *)
(* complete once the fragments up to there have been applied.  The server  *)
(* is at the end of H; the client stands at some position before, and the  *)
(* frames of net are exactly what lies between.  So a fragment that is     *)
(* sent extends the story, apply_all of a frame moves the client along it, *)
(* and what the client has done is always a beginning of what was made.    *)
(*                                                                         *)
(* apply_all and Whole are recursive functions.  What they compute is      *)
(* found by Climb, an induction on numbers that is stated with a set and   *)
(* proved from the pigeonhole principle, and Recursion, which follows from *)
(* it.                                                                     *)
(***************************************************************************)
EXTENDS Viewer, SequenceTheorems, FiniteSetTheorems, TLAPS

-----------------------------------------------------------------------------
(* Induction *)

\* What holds of 0, and of i + 1 whenever it holds of i, holds of n.  It is
\* stated with a set because an operator could not be instantiated; and it
\* holds because a set that i -> i + 1 maps into itself without its 0 would
\* have more elements than it has.
LEMMA Climb ==
  ASSUME NEW n \in Nat, NEW S, 0 \in S, \A i \in 0..(n - 1) : i \in S => i + 1 \in S
  PROVE  n \in S
<1> DEFINE A == S \cap 0..n
           f == [i \in A |-> i + 1]
<1> SUFFICES ASSUME n \notin S PROVE FALSE
  OBVIOUS
<1>1. IsFiniteSet(0..n)
  BY FS_Interval
<1>2. IsFiniteSet(A) /\ 0 \in A
  BY <1>1, FS_Subset
<1>3. /\ IsFiniteSet(A \ {0}) /\ Cardinality(A \ {0}) = Cardinality(A) - 1
      /\ Cardinality(A) \in Nat
  BY <1>2, FS_RemoveElement, FS_CardinalityType
<1>4. f \in [A -> A \ {0}]
  OBVIOUS
<1>5. \E x, y \in A : x # y /\ f[x] = f[y]
  <2>1. Cardinality(A \ {0}) < Cardinality(A)
    BY <1>3
  <2> HIDE DEF A, f
  <2>2. QED
    BY <1>2, <1>3, <1>4, <2>1, FS_PigeonHole
<1>6. QED
  BY <1>5

\* How each value of a function on 0..n follows from the one before
Step(n, X) == [(1..n) \X X -> X]

\* f is the function with the first value a and the steps s
Follows(f, n, X, a, s) ==
  f \in [0..n -> X] /\ f[0] = a /\ \A i \in 1..n : f[i] = s[<<i, f[i - 1]>>]

\* A function can be defined by its first value and its steps.
LEMMA Recursion ==
  ASSUME NEW n \in Nat, NEW X, NEW a \in X, NEW s \in Step(n, X)
  PROVE  \E f : Follows(f, n, X, a, s)
<1> DEFINE Upto(k, f) == f[0] = a /\ \A i \in 1..k : f[i] = s[<<i, f[i - 1]>>]
           S == {k \in 0..n : \E f \in [0..k -> X] : Upto(k, f)}
<1>1. 0 \in S
  <2> DEFINE f == [i \in 0..0 |-> a]
  <2>1. f \in [0..0 -> X] /\ Upto(0, f)
    OBVIOUS
  <2> HIDE DEF f, Upto
  <2>2. QED
    BY <2>1
<1>2. ASSUME NEW k \in 0..(n - 1), k \in S PROVE k + 1 \in S
  <2>1. PICK f \in [0..k -> X] : Upto(k, f)
    BY <1>2
  <2> DEFINE y == s[<<k + 1, f[k]>>]
             g == [i \in 0..(k + 1) |-> IF i <= k THEN f[i] ELSE y]
  <2>2. k \in Nat /\ k \in 0..k /\ k + 1 \in 1..n
    OBVIOUS
  <2>3. f[k] \in X /\ y \in X
    <3>1. f[k] \in X
      BY <2>2
    <3>2. <<k + 1, f[k]>> \in (1..n) \X X
      BY <2>2, <3>1
    <3>3. QED
      BY <3>1, <3>2 DEF Step
  <2>4. g \in [0..(k + 1) -> X]
    BY <2>2, <2>3
  <2>5. g[0] = a
    BY <2>1, <2>2
  <2>6. ASSUME NEW i \in 1..(k + 1) PROVE g[i] = s[<<i, g[i - 1]>>]
    <3>1. CASE i <= k
      <4>1. i \in 1..k /\ i \in 0..(k + 1) /\ i - 1 \in 0..(k + 1) /\ i - 1 <= k
        BY <2>2, <3>1
      <4>2. g[i] = f[i] /\ g[i - 1] = f[i - 1]
        BY <3>1, <4>1
      <4>3. QED
        BY <2>1, <4>1, <4>2
    <3>2. CASE i = k + 1
      <4>1. i - 1 = k /\ ~(k + 1 <= k) /\ k + 1 \in 0..(k + 1) /\ k \in 0..(k + 1) /\ k <= k
        BY <2>2, <3>2
      <4>2. g[k + 1] = y /\ g[k] = f[k]
        BY <4>1
      <4>3. QED
        BY <3>2, <4>1, <4>2
    <3>3. QED
      BY <2>2, <3>1, <3>2
  <2> HIDE DEF g
  <2>7. Upto(k + 1, g)
    BY <2>5, <2>6
  <2>8. QED
    BY <2>2, <2>4, <2>7
<1> HIDE DEF S
<1>3. n \in S
  BY <1>1, <1>2, Climb
<1>4. QED
  BY <1>3 DEF S, Follows

-----------------------------------------------------------------------------
(* What the operators of the model work on *)

Codewords == UpdateCode \cup {NoCode}
Data == Seq(Nat \X Nat)
\* An update, and a fragment of one
UpdateT == [update_code : Codewords, data : Data]
PieceT == [update_code : Codewords, fragmentation : Fragmentation, data : Data]
FrameT == [kind : {"fast", "slow", "malformed"}, updates : Seq(PieceT)]
Displays == [framebuffer : Data, cursor : Data, cursor_pos : Data, dirty : BOOLEAN,
             frag : Data, frag_code : Codewords]
Results == [display : Displays, done : Seq(UpdateT), ok : BOOLEAN]

\* One more update of which those kept so far are q
Taken(q, u) == IF Proper(u) THEN Append(q, u) ELSE q

\* Whole as a recursion.
LEMMA WholeSteps ==
  ASSUME NEW us \in Seq(UpdateT)
  PROVE  \E h \in [0..Len(us) -> Seq(UpdateT)] :
           /\ Whole(us) = h[Len(us)]
           /\ h[0] = <<>>
           /\ \A i \in 1..Len(us) : h[i] = Taken(h[i - 1], us[i])
<1> DEFINE n == Len(us)
           X == Seq(UpdateT)
           Rec(f) == [i \in 0..n |->
             IF i = 0 THEN <<>>
             ELSE IF Proper(us[i]) THEN Append(f[i - 1], us[i]) ELSE f[i - 1]]
           s == [z \in (1..n) \X X |-> Taken(z[2], us[z[1]])]
<1>1. n \in Nat /\ <<>> \in X /\ \A i \in 1..n : us[i] \in UpdateT
  BY LenProperties, EmptySeq, ElementOfSeq
<1>2. \A i \in 1..n, q \in X : Taken(q, us[i]) \in X
  BY <1>1, AppendProperties DEF Taken
<1>3. s \in [(1..n) \X X -> X] /\ \A i \in 1..n, q \in X : s[<<i, q>>] = Taken(q, us[i])
  <2> HIDE DEF X, n
  <2>1. \A z \in (1..n) \X X : Taken(z[2], us[z[1]]) \in X
    BY <1>2
  <2>2. QED
    BY <2>1
<1> HIDE DEF s, X
<1>4. PICK h \in [0..n -> X] : h[0] = <<>> /\ \A i \in 1..n : h[i] = s[<<i, h[i - 1]>>]
  <2> DEFINE e == <<>>
  <2>1. n \in Nat /\ e \in X /\ s \in Step(n, X)
    BY <1>1, <1>3 DEF Step
  <2> HIDE DEF n, e
  <2>2. \E h : Follows(h, n, X, e, s)
    BY ONLY <2>1, Recursion
  <2>3. QED
    BY <2>2 DEF e, Follows
<1>5. ASSUME NEW i \in 1..n PROVE h[i] = Taken(h[i - 1], us[i])
  <2>1. i - 1 \in 0..n
    BY <1>1
  <2>2. h[i - 1] \in X
    BY <1>4, <2>1
  <2>3. QED
    BY <1>3, <1>4, <2>2
<1>6. h = Rec(h)
  <2>1. \A i \in 0..n : i = 0 \/ i \in 1..n
    BY <1>1
  <2>2. \A i \in 0..n : h[i] = Rec(h)[i]
    BY <1>1, <1>4, <1>5, <2>1 DEF Taken
  <2>3. h = [i \in 0..n |-> h[i]] /\ Rec(h) = [i \in 0..n |-> Rec(h)[i]]
    OBVIOUS
  <2>4. QED
    BY <2>2, <2>3
<1> DEFINE k == CHOOSE f : f = Rec(f)
<1>7. k = Rec(k)
  BY <1>6
<1>8. Whole(us) = k[n]
  BY DEF Whole
<1> HIDE DEF k
<1>9. k[0] = <<>> /\ \A i \in 1..n : k[i] = Taken(k[i - 1], us[i])
  <2>1. 0 \in 0..n /\ \A i \in 1..n : i \in 0..n /\ i # 0
    BY <1>1
  <2>2. Rec(k)[0] = <<>> /\ \A i \in 1..n : Rec(k)[i] = Taken(k[i - 1], us[i])
    BY <2>1 DEF Taken
  <2>3. QED
    BY <1>7, <2>2
<1>10. \A i \in 0..n : k[i] = h[i]
  <2> SUFFICES ASSUME NEW j \in 0..n PROVE k[j] = h[j]
    OBVIOUS
  <2> DEFINE S == {i \in 0..n : k[i] = h[i]}
  <2>1. 0 \in S
    BY <1>1, <1>4, <1>9
  <2>2. ASSUME NEW i \in 0..(j - 1), i \in S PROVE i + 1 \in S
    <3>1. i + 1 \in 1..n /\ (i + 1) - 1 = i /\ i + 1 \in 0..n
      BY <1>1
    <3>2. QED
      BY <1>5, <1>9, <2>2, <3>1
  <2> HIDE DEF S
  <2>3. j \in S
    BY <2>1, <2>2, Climb
  <2>4. QED
    BY <2>3 DEF S
<1>11. Whole(us) = h[n]
  BY <1>1, <1>8, <1>10
<1>12. QED
  BY <1>4, <1>5, <1>11 DEF X

\* What Whole keeps is extended by each update that is to be kept.
LEMMA WholeFacts ==
  /\ Whole(<<>>) = <<>>
  /\ \A us \in Seq(UpdateT) : Whole(us) \in Seq(UpdateT)
  /\ \A us \in Seq(UpdateT), u \in UpdateT : Whole(Append(us, u)) = Taken(Whole(us), u)
<1>1. Whole(<<>>) = <<>>
  <2>1. <<>> \in Seq(UpdateT) /\ Len(<<>>) = 0
    BY EmptySeq
  <2>2. QED
    BY <2>1, WholeSteps
<1>2. ASSUME NEW us \in Seq(UpdateT) PROVE Whole(us) \in Seq(UpdateT)
  <2>1. Len(us) \in 0..Len(us)
    BY LenProperties
  <2>2. QED
    BY <2>1, WholeSteps
<1>3. ASSUME NEW us \in Seq(UpdateT), NEW u \in UpdateT
      PROVE  Whole(Append(us, u)) = Taken(Whole(us), u)
  <2> DEFINE n == Len(us)
             t == Append(us, u)
  <2>1. n \in Nat /\ t \in Seq(UpdateT) /\ Len(t) = n + 1 /\ t[n + 1] = u
        /\ \A i \in 1..n : t[i] = us[i]
    BY LenProperties, AppendProperties
  <2>2. PICK h : /\ Whole(us) = h[n] /\ h[0] = <<>>
                 /\ \A i \in 1..n : h[i] = Taken(h[i - 1], us[i])
    BY WholeSteps
  <2> HIDE DEF t, n
  <2>3. PICK k : /\ Whole(t) = k[Len(t)] /\ k[0] = <<>>
                 /\ \A i \in 1..Len(t) : k[i] = Taken(k[i - 1], t[i])
    BY ONLY <2>1, WholeSteps
  <2> DEFINE S == {i \in 0..n : k[i] = h[i]}
  <2>4. 0 \in S
    BY <2>1, <2>2, <2>3
  <2>5. ASSUME NEW i \in 0..(n - 1), i \in S PROVE i + 1 \in S
    <3>1. i + 1 \in 1..n /\ (i + 1) - 1 = i /\ i + 1 \in 0..n /\ i + 1 \in 1..Len(t)
      BY <2>1
    <3>2. k[i + 1] = Taken(k[i], us[i + 1]) /\ h[i + 1] = Taken(h[i], us[i + 1])
      BY <2>1, <2>2, <2>3, <3>1
    <3>3. QED
      BY <2>5, <3>1, <3>2
  <2> HIDE DEF S
  <2>6. n \in S
    BY <2>1, <2>4, <2>5, Climb
  <2>7. n + 1 \in 1..Len(t) /\ (n + 1) - 1 = n
    BY <2>1
  <2>8. Whole(t) = Taken(h[n], u)
    BY <2>1, <2>3, <2>6, <2>7 DEF S
  <2>9. QED
    BY <2>2, <2>8 DEF t, n
<1>4. QED
  BY <1>1, <1>2, <1>3

-----------------------------------------------------------------------------
(* The display *)

\* The part of a display that reassembles
FragT == [frag : Data, frag_code : Codewords]
FragOf(d) == [frag |-> d.frag, frag_code |-> d.frag_code]

\* What a fragment makes of it
Moved(f, u) ==
  CASE u.fragmentation = "FIRST" -> [frag |-> u.data, frag_code |-> u.update_code]
    [] u.fragmentation = "NEXT" -> [frag |-> f.frag \o u.data, frag_code |-> f.frag_code]
    [] u.fragmentation = "LAST" -> [frag |-> NoData, frag_code |-> f.frag_code]
    [] OTHER -> f

\* Those kept so far, once u has been applied to f
Kept(q, f, u) == IF Completed(f, u) = <<>> THEN q ELSE Taken(q, Completed(f, u)[1])

\* The fields of a display.
LEMMA DisplayFields ==
  ASSUME NEW d \in Displays
  PROVE  /\ d.framebuffer \in Data /\ d.cursor \in Data /\ d.cursor_pos \in Data
         /\ d.dirty \in BOOLEAN /\ d.frag \in Data /\ d.frag_code \in Codewords
         /\ FragOf(d) \in FragT
         /\ FragOf(d).frag = d.frag /\ FragOf(d).frag_code = d.frag_code
BY DEF Displays, FragOf, FragT

\* Fragments put together.
LEMMA Joined == \A a, b \in Data : a \o b \in Data /\ <<>> \in Data
BY ConcatProperties, EmptySeq DEF Data

\* What a fragment completes, and what is left, has its type.
LEMMA MovedTypes ==
  ASSUME NEW f \in FragT, NEW u \in PieceT
  PROVE  /\ Moved(f, u) \in FragT
         /\ Completed(f, u) # <<>> =>
              Completed(f, u)[1] \in UpdateT /\ Completed(f, u) = <<Completed(f, u)[1]>>
         /\ \A q \in Seq(UpdateT) : Kept(q, f, u) \in Seq(UpdateT)
<1>1. /\ f.frag \in Data /\ f.frag_code \in Codewords
      /\ u.update_code \in Codewords /\ u.data \in Data /\ u.fragmentation \in Fragmentation
  BY DEF FragT, PieceT
<1>2. f.frag \o u.data \in Data /\ NoData \in Data
  BY <1>1, Joined DEF NoData
<1>3. Moved(f, u) \in FragT
  BY <1>1, <1>2 DEF Moved, FragT
<1>4. u.fragmentation = "LAST" =>
        Completed(f, u) = <<[update_code |-> f.frag_code, data |-> f.frag \o u.data]>>
  BY <1>1 DEF Completed, Gather, FragT
<1>5. u.fragmentation = "SINGLE" =>
        Completed(f, u) = <<[update_code |-> u.update_code, data |-> u.data]>>
  BY DEF Completed
<1>6. u.fragmentation \notin {"LAST", "SINGLE"} => Completed(f, u) = <<>>
  BY DEF Completed
<1>7. Completed(f, u) # <<>> =>
        Completed(f, u)[1] \in UpdateT /\ Completed(f, u) = <<Completed(f, u)[1]>>
  <2> DEFINE l == [update_code |-> f.frag_code, data |-> f.frag \o u.data]
             w == [update_code |-> u.update_code, data |-> u.data]
  <2>1. l \in UpdateT /\ w \in UpdateT
    BY <1>1, <1>2 DEF UpdateT
  <2>2. Completed(f, u) \in {<<>>, <<l>>, <<w>>}
    BY <1>1, <1>4, <1>5, <1>6
  <2> HIDE DEF l, w
  <2>3. QED
    BY <2>1, <2>2
<1>8. \A q \in Seq(UpdateT) : Kept(q, f, u) \in Seq(UpdateT)
  BY <1>7, AppendProperties DEF Kept, Taken
<1>9. QED
  BY <1>3, <1>7, <1>8

\* apply of one fragment (Display::apply, process): it reassembles as Moved says,
\* and leaves the framebuffer alone or sets the dirty flag.
LEMMA ApplyFacts ==
  ASSUME NEW d \in Displays, NEW u \in PieceT
  PROVE  LET a == apply(d, u) IN
         /\ a \in Results
         /\ a.done = Completed(FragOf(d), u)
         /\ FragOf(a.display) = Moved(FragOf(d), u)
         /\ ~a.display.dirty => ~d.dirty /\ a.display.framebuffer = d.framebuffer
<1> DEFINE g == Gather(d, u)
           kept == IF u.fragmentation = "LAST" THEN [g EXCEPT !.frag = NoData] ELSE g
           over == Completed(d, u)
           x == over[1]
           p == IF over = <<>> THEN kept ELSE process(kept, x.update_code, x.data)
<1>1. /\ u.update_code \in Codewords /\ u.data \in Data /\ u.fragmentation \in Fragmentation
  BY DEF PieceT
<1>2. d.frag \o u.data \in Data /\ NoData \in Data
  BY <1>1, Joined, DisplayFields DEF NoData
<1>3. over = Completed(FragOf(d), u)
  BY DEF Completed, Gather, FragOf, Displays
<1>4. kept = [framebuffer |-> d.framebuffer, cursor |-> d.cursor, cursor_pos |-> d.cursor_pos,
              dirty |-> d.dirty, frag |-> Moved(FragOf(d), u).frag,
              frag_code |-> Moved(FragOf(d), u).frag_code]
  BY <1>1 DEF Gather, Moved, FragOf, Displays, Fragmentation
<1>5. Moved(FragOf(d), u) \in FragT
  BY DisplayFields, MovedTypes
<1>6. /\ kept \in Displays /\ FragOf(kept) = Moved(FragOf(d), u)
      /\ kept.dirty = d.dirty /\ kept.framebuffer = d.framebuffer
  BY <1>4, <1>5, DisplayFields DEF Displays, FragOf, FragT
<1>7. over # <<>> => x \in UpdateT /\ over = <<x>>
  BY <1>3, DisplayFields, MovedTypes
<1> HIDE DEF kept, over
<1>8. ASSUME NEW c, NEW v \in Data
      PROVE  /\ process(kept, c, v) \in Displays
             /\ FragOf(process(kept, c, v)) = FragOf(kept)
             /\ ~process(kept, c, v).dirty =>
                  ~kept.dirty /\ process(kept, c, v).framebuffer = kept.framebuffer
  BY <1>2, <1>6 DEF process, Displays, FragOf
<1>9. /\ p \in Displays /\ FragOf(p) = FragOf(kept)
      /\ ~p.dirty => ~kept.dirty /\ p.framebuffer = kept.framebuffer
  BY <1>6, <1>7, <1>8 DEF UpdateT
<1>10. over \in Seq(UpdateT)
  <2>1. CASE over = <<>>
    BY <2>1, EmptySeq
  <2>2. CASE over # <<>>
    <3> HIDE DEF x
    <3>1. <<x>> \in Seq(UpdateT)
      BY <1>7, <2>2
    <3>2. QED
      BY <1>7, <2>2, <3>1
  <2>3. QED
    BY <2>1, <2>2
<1> HIDE DEF p
<1> DEFINE b == \A i \in 1..Len(over) :
                  ~Malformed(over[i].update_code) /\ ~Panics(over[i].update_code)
<1>11. apply(d, u) = [display |-> p, done |-> over, ok |-> b]
  BY DEF apply, p, kept, over
<1>12. b \in BOOLEAN
  OBVIOUS
<1> HIDE DEF b
<1>13. apply(d, u) \in Results /\ apply(d, u).display = p /\ apply(d, u).done = over
  BY <1>9, <1>10, <1>11, <1>12 DEF Results
<1>14. QED
  BY <1>3, <1>6, <1>9, <1>13

\* One turn of the loop of apply_all
Turn(r, u) ==
  IF ~r.ok THEN r
  ELSE LET a == apply(r.display, u) IN [a EXCEPT !.done = r.done \o @]

\* A turn keeps the types, and adds what the fragment completes.
LEMMA TurnFacts ==
  ASSUME NEW r \in Results, NEW u \in PieceT
  PROVE  /\ Turn(r, u) \in Results
         /\ ~r.ok => Turn(r, u) = r
         /\ r.ok => /\ Turn(r, u).display = apply(r.display, u).display
                    /\ Turn(r, u).done = r.done \o apply(r.display, u).done
<1> DEFINE a == apply(r.display, u)
<1>1. r.display \in Displays /\ r.done \in Seq(UpdateT)
  BY DEF Results
<1>2. a \in Results
  BY <1>1, ApplyFacts
<1>3. a.done \in Seq(UpdateT)
  BY <1>2 DEF Results
<1> HIDE DEF a
<1>4. r.done \o a.done \in Seq(UpdateT)
  BY <1>1, <1>3, ConcatProperties
<1>5. CASE ~r.ok
  BY <1>5 DEF Turn
<1>6. CASE r.ok
  <2>1. Turn(r, u) = [a EXCEPT !.done = r.done \o @]
    BY <1>6 DEF Turn, a
  <2>2. QED
    BY <1>2, <1>4, <1>6, <2>1 DEF Results, a
<1>7. QED
  BY <1>5, <1>6

\* apply_all as a recursion.
LEMMA ApplyAllTurns ==
  ASSUME NEW d \in Displays, NEW us \in Seq(PieceT)
  PROVE  \E h \in [0..Len(us) -> Results] :
           /\ apply_all(d, us) = h[Len(us)]
           /\ h[0] = [display |-> d, done |-> <<>>, ok |-> TRUE]
           /\ \A i \in 1..Len(us) : h[i] = Turn(h[i - 1], us[i])
<1> DEFINE n == Len(us)
           X == Results
           e == [display |-> d, done |-> <<>>, ok |-> TRUE]
           Rec(f) == [i \in 0..n |->
             IF i = 0 THEN [display |-> d, done |-> <<>>, ok |-> TRUE]
             ELSE IF ~f[i - 1].ok THEN f[i - 1]
             ELSE LET a == apply(f[i - 1].display, us[i]) IN
                  [a EXCEPT !.done = f[i - 1].done \o @]]
           s == [z \in (1..n) \X X |-> Turn(z[2], us[z[1]])]
<1>1. n \in Nat /\ e \in X /\ \A i \in 1..n : us[i] \in PieceT
  BY LenProperties, EmptySeq, ElementOfSeq DEF Results
<1>2. \A i \in 1..n, r \in X : Turn(r, us[i]) \in X
  BY <1>1, TurnFacts
<1>3. s \in Step(n, X) /\ \A i \in 1..n, r \in X : s[<<i, r>>] = Turn(r, us[i])
  <2> HIDE DEF X, n
  <2>1. \A z \in (1..n) \X X : Turn(z[2], us[z[1]]) \in X
    BY <1>2
  <2>2. QED
    BY <2>1 DEF Step
<1> HIDE DEF s, X
<1>4. PICK h \in [0..n -> X] : h[0] = e /\ \A i \in 1..n : h[i] = s[<<i, h[i - 1]>>]
  <2> HIDE DEF n, e
  <2>1. \E h : Follows(h, n, X, e, s)
    BY ONLY <1>1, <1>3, Recursion
  <2>2. QED
    BY <2>1 DEF Follows
<1>5. ASSUME NEW i \in 1..n PROVE h[i] = Turn(h[i - 1], us[i])
  <2>1. i - 1 \in 0..n
    BY <1>1
  <2>2. h[i - 1] \in X
    BY <1>4, <2>1
  <2>3. QED
    BY <1>3, <1>4, <2>2
<1>6. ASSUME NEW f
      PROVE  Rec(f)[0] = e /\ \A i \in 1..n : Rec(f)[i] = Turn(f[i - 1], us[i])
  <2>1. 0 \in 0..n /\ \A i \in 1..n : i \in 0..n /\ i # 0
    BY <1>1
  <2>2. QED
    BY <2>1 DEF Turn
<1>7. h = Rec(h)
  <2>1. \A i \in 0..n : i = 0 \/ i \in 1..n
    BY <1>1
  <2>2. h = [i \in 0..n |-> h[i]] /\ Rec(h) = [i \in 0..n |-> Rec(h)[i]]
    OBVIOUS
  <2>3. \A i \in 0..n : h[i] = Rec(h)[i]
    <3> HIDE DEF Rec, e, n
    <3>1. QED
      BY <1>4, <1>5, <1>6, <2>1
  <2> HIDE DEF Rec
  <2>4. QED
    BY <2>2, <2>3
<1> DEFINE k == CHOOSE f : f = Rec(f)
<1>8. k = Rec(k)
  BY <1>7
<1>9. apply_all(d, us) = k[n]
  BY DEF apply_all
<1> HIDE DEF k, Rec, e
<1>10. k[0] = e /\ \A i \in 1..n : k[i] = Turn(k[i - 1], us[i])
  BY <1>6, <1>8
<1>11. \A i \in 0..n : k[i] = h[i]
  <2> SUFFICES ASSUME NEW j \in 0..n PROVE k[j] = h[j]
    OBVIOUS
  <2> DEFINE S == {i \in 0..n : k[i] = h[i]}
  <2>1. 0 \in S
    BY <1>1, <1>4, <1>10
  <2>2. ASSUME NEW i \in 0..(j - 1), i \in S PROVE i + 1 \in S
    <3>1. i + 1 \in 1..n /\ (i + 1) - 1 = i /\ i + 1 \in 0..n
      BY <1>1
    <3>2. QED
      BY <1>5, <1>10, <2>2, <3>1
  <2> HIDE DEF S
  <2>3. j \in S
    BY <2>1, <2>2, Climb
  <2>4. QED
    BY <2>3 DEF S
<1>12. apply_all(d, us) = h[n]
  BY <1>1, <1>9, <1>11
<1>13. QED
  BY <1>4, <1>5, <1>12 DEF X, e

\* As long as nothing sets the dirty flag, the framebuffer is what it was (pump
\* relies on it to publish no less than it has to).
LEMMA ApplyAllDirty ==
  ASSUME NEW d \in Displays, NEW us \in Seq(PieceT)
  PROVE  /\ apply_all(d, us) \in Results
         /\ ~apply_all(d, us).display.dirty =>
              apply_all(d, us).display.framebuffer = d.framebuffer
<1> DEFINE n == Len(us)
<1>1. n \in Nat /\ \A i \in 1..n : us[i] \in PieceT
  BY LenProperties, ElementOfSeq
<1>2. PICK h \in [0..n -> Results] :
        /\ apply_all(d, us) = h[n]
        /\ h[0] = [display |-> d, done |-> <<>>, ok |-> TRUE]
        /\ \A i \in 1..n : h[i] = Turn(h[i - 1], us[i])
  BY ApplyAllTurns
<1> DEFINE S == {i \in 0..n : ~h[i].display.dirty => h[i].display.framebuffer = d.framebuffer}
<1>3. 0 \in S
  BY <1>1, <1>2
<1>4. ASSUME NEW i \in 0..(n - 1), i \in S PROVE i + 1 \in S
  <2>1. i + 1 \in 1..n /\ (i + 1) - 1 = i /\ i + 1 \in 0..n /\ i \in 0..n
    BY <1>1
  <2> DEFINE r == h[i]
             u == us[i + 1]
  <2>2. r \in Results /\ u \in PieceT /\ h[i + 1] = Turn(r, u)
    BY <1>1, <1>2, <2>1
  <2>3. r.display \in Displays
    BY <2>2 DEF Results
  <2> HIDE DEF r, u
  <2>4. /\ ~r.ok => Turn(r, u) = r
        /\ r.ok => Turn(r, u).display = apply(r.display, u).display
    BY <2>2, TurnFacts
  <2>5. ~apply(r.display, u).display.dirty =>
          /\ ~r.display.dirty
          /\ apply(r.display, u).display.framebuffer = r.display.framebuffer
    BY <2>2, <2>3, ApplyFacts
  <2>6. ~r.display.dirty => r.display.framebuffer = d.framebuffer
    BY <1>4 DEF r
  <2>7. ~Turn(r, u).display.dirty => Turn(r, u).display.framebuffer = d.framebuffer
    BY <2>4, <2>5, <2>6
  <2>8. QED
    BY <2>1, <2>2, <2>7
<1> HIDE DEF S
<1>5. n \in S /\ n \in 0..n
  BY <1>1, <1>3, <1>4, Climb
<1>6. QED
  BY <1>2, <1>5 DEF S

-----------------------------------------------------------------------------
(* The stream of fragments *)

\* s is the beginning of t
Begins(s, t) == Len(s) <= Len(t) /\ \A i \in 1..Len(s) : s[i] = t[i]

\* The fragments H, one after the other, leave g[i] in the reassembly buffer and
\* have completed the updates m[i] when i of them have been applied
Story(H, g, m) ==
  /\ g \in [0..Len(H) -> FragT] /\ m \in [0..Len(H) -> Seq(UpdateT)]
  /\ \A i \in 1..Len(H) : g[i] = Moved(g[i - 1], H[i]) /\ m[i] = Kept(m[i - 1], g[i - 1], H[i])
  /\ \A j \in 0..Len(H) : \A i \in 0..j : Begins(m[i], m[j])

\* A result of apply_all, of which q was done before, has come to position i
Reached(r, q, g, m, i) == FragOf(r.display) = g[i] /\ Whole(q \o r.done) = m[i]

\* A turn of apply_all at position i of the stream.
LEMMA TurnStory ==
  ASSUME NEW H \in Seq(PieceT), NEW g, NEW m, Story(H, g, m), NEW i \in 1..Len(H),
         NEW q \in Seq(UpdateT), NEW r \in Results, r.ok = TRUE, Reached(r, q, g, m, i - 1)
  PROVE  Reached(Turn(r, H[i]), q, g, m, i)
<1> USE DEF Reached
<1> DEFINE u == H[i]
           f == g[i - 1]
           c == Completed(f, u)
           w == q \o r.done
           a == apply(r.display, u)
<1>1. Len(H) \in Nat /\ u \in PieceT /\ i - 1 \in 0..Len(H)
  BY LenProperties, ElementOfSeq
<1>2. /\ f \in FragT /\ g[i] = Moved(f, u) /\ m[i] = Kept(m[i - 1], f, u)
  BY <1>1 DEF Story
<1>3. r.display \in Displays /\ r.done \in Seq(UpdateT)
  BY DEF Results
<1>4. w \in Seq(UpdateT)
  BY <1>3, ConcatProperties
<1>5. c # <<>> => c[1] \in UpdateT /\ c = <<c[1]>>
  BY <1>1, <1>2, MovedTypes
<1>6. a.done = c /\ FragOf(a.display) = g[i]
  BY <1>1, <1>2, <1>3, ApplyFacts
<1>7. Turn(r, u).display = a.display /\ Turn(r, u).done = r.done \o c
  BY <1>1, <1>6, TurnFacts
<1> HIDE DEF u, f, c, a
<1>8. Whole(q \o (r.done \o c)) = m[i]
  <2>1. CASE c = <<>>
    <3>1. r.done \o c = r.done
      BY <1>3, <2>1, ConcatEmptySeq
    <3>2. m[i] = m[i - 1]
      BY <1>2, <2>1 DEF Kept, c
    <3>3. QED
      BY <3>1, <3>2
  <2>2. CASE c # <<>>
    <3> DEFINE y == c[1]
    <3>1. y \in UpdateT /\ c = <<y>>
      BY <1>5, <2>2
    <3>2. m[i] = Taken(m[i - 1], y)
      BY <1>2, <2>2 DEF Kept, c
    <3> HIDE DEF y
    <3>3. r.done \o <<y>> = Append(r.done, y) /\ w \o <<y>> = Append(w, y)
      BY <1>3, <1>4, <3>1, AppendIsConcat
    <3>4. q \o (r.done \o <<y>>) = w \o <<y>>
      <4>1. <<y>> \in Seq(UpdateT)
        BY <3>1
      <4> DEFINE x == r.done
                 z == <<y>>
      <4>2. x \in Seq(UpdateT) /\ z \in Seq(UpdateT)
        BY <1>3, <4>1
      <4> HIDE DEF x, z
      <4>3. (q \o x) \o z = q \o (x \o z)
        BY ONLY q \in Seq(UpdateT), <4>2, ConcatAssociative
      <4>4. QED
        BY <4>3 DEF x, z
    <3>5. Whole(Append(w, y)) = Taken(Whole(w), y)
      BY <1>4, <3>1, WholeFacts
    <3>6. QED
      BY <3>1, <3>2, <3>3, <3>4, <3>5
  <2>3. QED
    BY <2>1, <2>2
<1>9. QED
  BY <1>6, <1>7, <1>8 DEF u

\* The fragments us come after the first k of H
Ahead(H, k, us) == k + Len(us) <= Len(H) /\ \A j \in 1..Len(us) : us[j] = H[k + j]

\* The display d, and the updates q handed to process, are at position k
Stands(d, q, g, m, k) == FragOf(d) = g[k] /\ Whole(q) = m[k]

\* A result of apply_all for l fragments has come from k to their end, or has failed
Went(a, q, g, m, k, l) ==
  \E j \in 0..l :
    /\ Whole(q \o a.done) = m[k + j]
    /\ a.ok => j = l /\ FragOf(a.display) = g[k + j]

\* apply_all of a frame goes on in the stream from k, up to the end of the frame
\* or to the update that fails (Display::apply_all).
LEMMA ApplyAllStory ==
  ASSUME NEW H \in Seq(PieceT), NEW g, NEW m, Story(H, g, m), NEW k \in 0..Len(H),
         NEW us \in Seq(PieceT), Ahead(H, k, us),
         NEW d \in Displays, NEW q \in Seq(UpdateT), Stands(d, q, g, m, k)
  PROVE  Went(apply_all(d, us), q, g, m, k, Len(us))
<1> USE DEF Ahead, Stands, Went
<1> DEFINE n == Len(us)
<1>1. n \in Nat /\ Len(H) \in Nat /\ \A i \in 1..n : us[i] \in PieceT
  BY LenProperties, ElementOfSeq
<1>2. PICK h \in [0..n -> Results] :
        /\ apply_all(d, us) = h[n]
        /\ h[0] = [display |-> d, done |-> <<>>, ok |-> TRUE]
        /\ \A i \in 1..n : h[i] = Turn(h[i - 1], us[i])
  BY ApplyAllTurns
<1> DEFINE At(i, j) == /\ Whole(q \o h[i].done) = m[k + j]
                       /\ h[i].ok => j = i /\ FragOf(h[i].display) = g[k + j]
           S == {i \in 0..n : \E j \in 0..i : At(i, j)}
<1>3. 0 \in S
  <2>1. q \o <<>> = q /\ k + 0 = k
    BY ConcatEmptySeq
  <2>2. h[0].done = <<>> /\ h[0].display = d
    BY <1>2
  <2>3. At(0, 0)
    BY <2>1, <2>2
  <2>4. QED
    BY <1>1, <2>3
<1>4. ASSUME NEW i \in 0..(n - 1), i \in S PROVE i + 1 \in S
  <2>1. i + 1 \in 1..n /\ (i + 1) - 1 = i /\ i + 1 \in 0..n /\ i \in 0..n /\ i \in Nat
    BY <1>1
  <2>2. PICK j \in 0..i : At(i, j)
    BY <1>4
  <2>3. j \in 0..(i + 1) /\ i + 1 \in 0..(i + 1)
    BY <2>1
  <2> DEFINE r == h[i]
             p == k + (i + 1)
  <2>4. r \in Results /\ h[i + 1] = Turn(r, us[i + 1])
    BY <1>2, <2>1
  <2>5. us[i + 1] \in PieceT
    BY <1>1, <2>1
  <2> HIDE DEF r
  <2>6. CASE ~r.ok
    <3>1. h[i + 1] = h[i]
      BY <2>4, <2>5, <2>6, TurnFacts DEF r
    <3>2. At(i + 1, j)
      BY <2>2, <2>6, <3>1 DEF r
    <3> HIDE DEF At
    <3>3. QED
      BY <2>1, <2>3, <3>2
  <2>7. CASE r.ok
    <3>1. /\ p \in 1..Len(H) /\ p - 1 = k + i /\ k + (i + 1) = p
      BY <1>1, <2>1
    <3>2. /\ r.ok = TRUE /\ j = i /\ FragOf(r.display) = g[k + i] /\ Whole(q \o r.done) = m[k + i]
      <4>1. r.ok \in BOOLEAN
        BY <2>4 DEF Results
      <4>2. QED
        BY <2>2, <2>7, <4>1 DEF r
    <3>3. us[i + 1] = H[p]
      BY <2>1
    <3> HIDE DEF p
    <3>4. Reached(r, q, g, m, p - 1)
      BY <3>1, <3>2 DEF Reached
    <3>5. Reached(Turn(r, H[p]), q, g, m, p)
      BY ONLY H \in Seq(PieceT), Story(H, g, m), q \in Seq(UpdateT), <2>4, <3>1, <3>2, <3>4,
              TurnStory
    <3>6. At(i + 1, i + 1)
      BY <2>4, <3>1, <3>3, <3>5 DEF Reached
    <3> HIDE DEF At
    <3>7. QED
      BY <2>1, <2>3, <3>6
  <2>8. QED
    BY <2>6, <2>7
<1> HIDE DEF S
<1>5. n \in S
  BY <1>1, <1>3, <1>4, Climb
<1>6. QED
  BY <1>2, <1>5 DEF S

\* One more fragment.
LEMMA StoryMore ==
  ASSUME NEW H \in Seq(PieceT), NEW g, NEW m, Story(H, g, m), NEW u \in PieceT
  PROVE  LET n  == Len(H)
             g2 == [i \in 0..(n + 1) |-> IF i <= n THEN g[i] ELSE Moved(g[n], u)]
             m2 == [i \in 0..(n + 1) |-> IF i <= n THEN m[i] ELSE Kept(m[n], g[n], u)]
         IN  Story(Append(H, u), g2, m2)
<1> DEFINE n  == Len(H)
           K  == Append(H, u)
           x  == Moved(g[n], u)
           y  == Kept(m[n], g[n], u)
           g2 == [i \in 0..(n + 1) |-> IF i <= n THEN g[i] ELSE x]
           m2 == [i \in 0..(n + 1) |-> IF i <= n THEN m[i] ELSE y]
<1>1. n \in Nat /\ Len(K) = n + 1 /\ K[n + 1] = u /\ \A i \in 1..n : K[i] = H[i]
  BY LenProperties, AppendProperties
<1>2. g \in [0..n -> FragT] /\ m \in [0..n -> Seq(UpdateT)]
  BY DEF Story
<1>3. g[n] \in FragT /\ m[n] \in Seq(UpdateT)
  BY <1>1, <1>2
<1>4. x \in FragT /\ y \in Seq(UpdateT)
  BY <1>3, MovedTypes
<1>5. Begins(m[n], y) /\ Begins(y, y)
  <2> DEFINE c == Completed(g[n], u)
  <2>1. Len(m[n]) \in Nat /\ Len(y) \in Nat
    BY <1>3, <1>4, LenProperties
  <2>2. CASE y = m[n]
    BY <2>1, <2>2 DEF Begins
  <2>3. CASE y = Append(m[n], c[1]) /\ c[1] \in UpdateT
    <3>1. /\ Len(y) = Len(m[n]) + 1 /\ \A i \in 1..Len(m[n]) : y[i] = m[n][i]
      BY <1>3, <2>3, AppendProperties
    <3>2. QED
      BY <2>1, <3>1 DEF Begins
  <2>4. y = m[n] \/ (y = Append(m[n], c[1]) /\ c[1] \in UpdateT)
    BY <1>3, MovedTypes DEF Kept, Taken
  <2>5. QED
    BY <2>2, <2>3, <2>4
<1> HIDE DEF x, y, K, n
<1>6. g2 \in [0..(n + 1) -> FragT] /\ m2 \in [0..(n + 1) -> Seq(UpdateT)]
  BY <1>1, <1>2, <1>4
<1>7. /\ \A i \in 0..n : g2[i] = g[i] /\ m2[i] = m[i]
      /\ g2[n + 1] = x /\ m2[n + 1] = y
  BY <1>1
<1> HIDE DEF g2, m2
<1>8. ASSUME NEW i \in 1..(n + 1)
      PROVE  g2[i] = Moved(g2[i - 1], K[i]) /\ m2[i] = Kept(m2[i - 1], g2[i - 1], K[i])
  <2>1. CASE i \in 1..n
    <3>1. i \in 0..n /\ i - 1 \in 0..n
      BY <1>1, <2>1
    <3>2. g[i] = Moved(g[i - 1], H[i]) /\ m[i] = Kept(m[i - 1], g[i - 1], H[i])
      BY <2>1 DEF Story, n
    <3>3. QED
      BY <1>1, <1>7, <2>1, <3>1, <3>2
  <2>2. CASE i = n + 1
    <3>1. i - 1 = n /\ n \in 0..n
      BY <1>1, <2>2
    <3>2. QED
      BY <1>1, <1>7, <2>2, <3>1 DEF x, y
  <2>3. QED
    BY <1>1, <2>1, <2>2
<1>9. ASSUME NEW j \in 0..(n + 1), NEW i \in 0..j PROVE Begins(m2[i], m2[j])
  <2>1. \A a \in 0..n : \A b \in 0..a : Begins(m[b], m[a])
    BY DEF Story, n
  <2>2. CASE j \in 0..n
    <3>1. i \in 0..n
      BY <1>1, <2>2
    <3>2. QED
      BY <1>7, <2>1, <2>2, <3>1
  <2>3. CASE j = n + 1 /\ i = n + 1
    BY <1>5, <1>7, <2>3
  <2>4. CASE j = n + 1 /\ i # n + 1
    <3>1. i \in 0..n /\ n \in 0..n
      BY <1>1, <2>4
    <3>2. Begins(m[i], m[n]) /\ m[i] \in Seq(UpdateT)
      BY <1>2, <2>1, <3>1
    <3>3. Len(m[i]) \in Nat /\ Len(m[n]) \in Nat /\ Len(y) \in Nat
      BY <1>3, <1>4, <3>2, LenProperties
    <3>4. Begins(m[i], y)
      BY <1>5, <3>2, <3>3 DEF Begins
    <3>5. QED
      BY <1>7, <2>4, <3>1, <3>4
  <2>5. QED
    BY <1>1, <2>2, <2>3, <2>4
<1>10. Story(K, g2, m2)
  BY <1>1, <1>6, <1>8, <1>9 DEF Story
<1>11. QED
  BY <1>10 DEF K, g2, m2, n, x, y

-----------------------------------------------------------------------------
(* The invariant *)

\* An update of which the server has sent the first `part' fragments
OpenT == [code : UpdateCode, id : Nat \ {0}, part : Nat \ {0}]

\* The session thread is there
Running == thread \notin {"ended", "panicked"}
USE DEF Running

Types ==
  /\ thread \in {"connect", "input", "poll", "body", "ended", "panicked"}
  /\ error \in {None, "session ended"}
  /\ thread = "ended" <=> error # None
  /\ display \in Displays /\ net \in Seq(FrameT)
  /\ thread = "body" => net # <<>>
  /\ \A i \in 1..Len(net) :
       /\ Len(net[i].updates) <= MaxPieces
       /\ net[i].kind # "fast" => net[i].updates = <<>>
  /\ generation \in Nat /\ last_generation \in 0..generation /\ started \in Nat
  /\ made \in Seq(UpdateT) /\ done \in Seq(UpdateT)
  /\ open = NoUpdate \/ open \in OpenT

\* What has changed since the last snapshot is dirty
ShownInv ==
  /\ Running => rgba = display.framebuffer
  /\ thread \in {"poll", "body"} => ~display.dirty

\* What an update has been sent of is in the reassembly buffer f
Fits(f) ==
  open # NoUpdate =>
    /\ f.frag = [i \in 1..open.part |-> <<open.id, i>>]
    /\ f.frag_code = open.code

\* H is all the server has sent, the frames of net are its end from off[0] on, and
\* the client has done with what comes before
OnWire(H, g, m, off) ==
  /\ Story(H, g, m) /\ m[Len(H)] = made /\ Fits(g[Len(H)])
  /\ off \in [0..Len(net) -> 0..Len(H)] /\ off[Len(net)] = Len(H)
  /\ FragOf(display) = g[off[0]] /\ Whole(done) = m[off[0]]
  /\ \A f \in 1..Len(net) :
       /\ off[f] = off[f - 1] + Len(net[f].updates)
       /\ \A j \in 1..Len(net[f].updates) : net[f].updates[j] = H[off[f - 1] + j]

StreamInv == Running => \E H \in Seq(PieceT) : \E g, m, off : OnWire(H, g, m, off)

\* What has been handed to process is what the server sent first
DoneInv == Begins(Whole(done), made)

IInv == Types /\ ShownInv /\ StreamInv /\ DoneInv

-----------------------------------------------------------------------------
(* The server *)

\* The last frame with one more fragment.
LEMMA NetMore ==
  ASSUME net \in Seq(FrameT), NEW u \in PieceT, SendPiece(u)
  PROVE  LET L == Len(net) IN
         /\ L \in Nat \ {0} /\ net' \in Seq(FrameT) /\ Len(net') = L
         /\ net[L].kind = "fast" /\ Len(net[L].updates) < MaxPieces
         /\ net[L].updates \in Seq(PieceT)
         /\ net'[L].kind = "fast" /\ net'[L].updates = Append(net[L].updates, u)
         /\ \A f \in 1..(L - 1) : net'[f] = net[f]
<1> DEFINE L == Len(net)
           w == [net[L] EXCEPT !.updates = Append(net[L].updates, u)]
<1>1. /\ net # <<>> /\ net[L].kind = "fast" /\ Len(net[L].updates) < MaxPieces
      /\ net' = [net EXCEPT ![L].updates = Append(@, u)]
  BY DEF SendPiece
<1>2. L \in Nat \ {0} /\ net[L] \in FrameT
  BY <1>1, EmptySeq, LenProperties, ElementOfSeq
<1>3. net[L].updates \in Seq(PieceT)
  BY <1>2 DEF FrameT
<1>4. Append(net[L].updates, u) \in Seq(PieceT)
  BY <1>3, AppendProperties
<1>5. w \in FrameT /\ w.kind = net[L].kind /\ w.updates = Append(net[L].updates, u)
  BY <1>2, <1>4 DEF FrameT
<1>6. net' = [net EXCEPT ![L] = w]
  BY <1>1
<1> HIDE DEF w
<1>7. L \in 1..Len(net)
  BY <1>2
<1>8. net' \in Seq(FrameT) /\ Len(net') = L
      /\ \A f \in 1..L : net'[f] = IF f = L THEN w ELSE net[f]
  BY <1>5, <1>6, <1>7, ExceptSeq
<1>9. QED
  BY <1>1, <1>2, <1>3, <1>5, <1>8

\* One more fragment of the stream: the reassembly at the server's end of it is
\* that of StoryMore, at the client's end nothing has changed.
LEMMA PieceSent ==
  ASSUME Types, StreamInv, NEW u \in PieceT, SendPiece(u), thread' = thread,
         display' = display, done' = done,
         \A f \in FragT : Fits(f) => made' = Kept(made, f, u) /\ Fits(Moved(f, u))'
  PROVE  StreamInv'
<1> SUFFICES ASSUME Running
             PROVE  \E K \in Seq(PieceT) : \E g, m, off : OnWire(K, g, m, off)'
  BY DEF StreamInv
<1>h. PICK H \in Seq(PieceT) : \E g, m, off : OnWire(H, g, m, off)
  BY DEF StreamInv
<1>1. PICK g, m, off : OnWire(H, g, m, off)
  BY <1>h
<1>0. PICK L : L = Len(net)
  OBVIOUS
<1> DEFINE n  == Len(H)
           K  == Append(H, u)
           x  == Moved(g[n], u)
           y  == Kept(m[n], g[n], u)
           g2 == [i \in 0..(n + 1) |-> IF i <= n THEN g[i] ELSE x]
           m2 == [i \in 0..(n + 1) |-> IF i <= n THEN m[i] ELSE y]
           o2 == [i \in 0..L |-> IF i = L THEN n + 1 ELSE off[i]]
<1>2. n \in Nat /\ K \in Seq(PieceT) /\ Len(K) = n + 1 /\ K[n + 1] = u
      /\ \A i \in 1..n : K[i] = H[i]
  BY LenProperties, AppendProperties
<1>3. /\ L \in Nat \ {0} /\ net' \in Seq(FrameT) /\ Len(net') = L
      /\ net[L].updates \in Seq(PieceT)
      /\ net'[L].updates = Append(net[L].updates, u)
      /\ \A f \in 1..(L - 1) : net'[f] = net[f]
  BY <1>0, NetMore DEF Types
<1>4. Story(K, g2, m2)
  BY <1>1, StoryMore DEF OnWire
<1>5. /\ g \in [0..n -> FragT] /\ m[n] = made /\ Fits(g[n])
      /\ off \in [0..L -> 0..n] /\ off[L] = n
      /\ FragOf(display) = g[off[0]] /\ Whole(done) = m[off[0]]
      /\ \A f \in 1..L :
           /\ off[f] = off[f - 1] + Len(net[f].updates)
           /\ \A j \in 1..Len(net[f].updates) : net[f].updates[j] = H[off[f - 1] + j]
  BY <1>0, <1>1 DEF OnWire, Story
<1>6. g[n] \in FragT /\ y = made' /\ Fits(x)'
  BY <1>2, <1>5
<1> HIDE DEF x, y, K
<1>7. /\ \A i \in 0..n : g2[i] = g[i] /\ m2[i] = m[i]
      /\ g2[n + 1] = x /\ m2[n + 1] = y
  BY <1>2
<1>8. /\ o2 \in [0..L -> 0..(n + 1)] /\ o2[L] = n + 1
      /\ \A i \in 0..(L - 1) : o2[i] = off[i] /\ off[i] \in 0..n
  <2> HIDE DEF n
  <2>1. \A i \in 0..(L - 1) : i \in 0..L /\ i # L
    BY <1>3
  <2>2. \A i \in 0..L : off[i] \in 0..n /\ off[i] \in 0..(n + 1)
    BY <1>2, <1>5
  <2>3. L \in 0..L /\ n + 1 \in 0..(n + 1)
    BY <1>2, <1>3
  <2>4. QED
    BY <2>1, <2>2, <2>3
<1> HIDE DEF g2, m2, o2
<1>9. FragOf(display') = g2[o2[0]] /\ Whole(done') = m2[o2[0]]
  BY <1>3, <1>5, <1>7, <1>8
<1>10. ASSUME NEW f \in 1..L
       PROVE  /\ o2[f] = o2[f - 1] + Len(net'[f].updates)
              /\ \A j \in 1..Len(net'[f].updates) : net'[f].updates[j] = K[o2[f - 1] + j]
  <2>1. f - 1 \in 0..(L - 1) /\ f \in 0..L /\ f - 1 \in 0..L
    BY <1>3
  <2>2. o2[f - 1] = off[f - 1] /\ off[f - 1] \in 0..n /\ off[f] \in 0..n
    BY <1>5, <1>8, <2>1
  <2> DEFINE p == off[f - 1]
             l == Len(net[f].updates)
  <2>3. l \in Nat /\ p \in Nat /\ p + l <= n /\ off[f] = p + l
    <3>1. net[f] \in FrameT
      BY <1>0, ElementOfSeq DEF Types
    <3>2. net[f].updates \in Seq(PieceT)
      BY <3>1 DEF FrameT
    <3>3. l \in Nat
      BY <3>2, LenProperties
    <3>4. QED
      BY <1>2, <1>5, <2>2, <3>3
  <2>4. \A j \in 1..l : net[f].updates[j] = H[p + j]
    BY <1>5
  <2> HIDE DEF p, l
  <2>5. \A j \in 1..l : p + j \in 1..n
    BY <1>2, <2>3
  <2>6. \A j \in 1..l : net[f].updates[j] = K[p + j]
    BY <1>2, <2>4, <2>5
  <2>7. CASE f # L
    <3>1. f \in 1..(L - 1) /\ f \in 0..(L - 1)
      BY <1>3, <2>7
    <3>2. o2[f] = off[f] /\ net'[f] = net[f]
      BY <1>3, <1>8, <3>1
    <3>3. QED
      BY <2>2, <2>3, <2>6, <3>2 DEF p, l
  <2>8. CASE f = L
    <3> DEFINE us == net[L].updates
    <3>1. us \in Seq(PieceT) /\ l = Len(us)
      BY <1>3, <2>8 DEF l
    <3>2. \A j \in 1..l : us[j] = K[p + j]
      BY <2>6, <2>8
    <3>3. p + l = n
      BY <1>5, <2>3, <2>8
    <3> HIDE DEF us
    <3> DEFINE vs == Append(us, u)
    <3>4. Len(vs) = l + 1 /\ vs[l + 1] = u /\ \A j \in 1..l : vs[j] = us[j]
      BY <3>1, AppendProperties
    <3> HIDE DEF vs
    <3>5. p + (l + 1) = n + 1
      BY <1>2, <2>3, <3>3
    <3>6. \A j \in 1..(l + 1) : j \in 1..l \/ j = l + 1
      BY <2>3
    <3>7. \A j \in 1..Len(vs) : vs[j] = K[p + j]
      BY <1>2, <3>2, <3>4, <3>5, <3>6
    <3>8. net'[L].updates = vs
      BY <1>3 DEF vs, us
    <3>9. o2[f] = p + Len(vs)
      BY <1>8, <2>8, <3>4, <3>5
    <3>10. QED
      BY <2>2, <2>8, <3>7, <3>8, <3>9 DEF p
  <2>9. QED
    BY <2>7, <2>8
<1>11. OnWire(K, g2, m2, o2)'
  <2>1. m2[Len(K)] = made' /\ g2[Len(K)] = x
    BY <1>2, <1>6, <1>7
  <2>2. Fits(g2[Len(K)])'
    BY <1>6, <2>1 DEF Fits
  <2>3. QED
    BY <1>2, <1>3, <1>4, <1>8, <1>9, <1>10, <2>1, <2>2 DEF OnWire
<1>12. QED
  BY <1>2, <1>11

\* What the server has sent completely only grows.
LEMMA MadeMore ==
  ASSUME NEW s \in Seq(UpdateT), NEW t \in Seq(UpdateT), NEW w \in UpdateT, Begins(s, t)
  PROVE  Begins(s, Append(t, w)) /\ Append(t, w) \in Seq(UpdateT)
<1>1. Len(s) \in Nat /\ Len(t) \in Nat
  BY LenProperties
<1>2. /\ Append(t, w) \in Seq(UpdateT) /\ Len(Append(t, w)) = Len(t) + 1
      /\ \A i \in 1..Len(t) : Append(t, w)[i] = t[i]
  BY AppendProperties
<1>3. QED
  BY <1>1, <1>2 DEF Begins

\* The invariant, when the server sends a fragment.
LEMMA PieceInv ==
  ASSUME IInv, NEW u \in PieceT, SendPiece(u), UNCHANGED <<session, shared, ui, done>>,
         started' \in Nat, open' = NoUpdate \/ open' \in OpenT,
         made' = made \/ \E w \in UpdateT : made' = Append(made, w),
         \A f \in FragT : Fits(f) => made' = Kept(made, f, u) /\ Fits(Moved(f, u))'
  PROVE  IInv'
<1>1. Types /\ ShownInv /\ StreamInv /\ DoneInv
  BY DEF IInv
<1>2. /\ thread' = thread /\ display' = display /\ rgba' = rgba /\ error' = error
      /\ generation' = generation /\ last_generation' = last_generation /\ done' = done
  BY DEF session, shared, ui
<1>3. StreamInv'
  BY <1>1, <1>2, PieceSent
<1>4. ShownInv'
  BY <1>1, <1>2 DEF ShownInv
<1>5. made' \in Seq(UpdateT) /\ DoneInv'
  <2>1. made \in Seq(UpdateT) /\ done \in Seq(UpdateT) /\ Whole(done) \in Seq(UpdateT)
    BY <1>1, WholeFacts DEF Types
  <2>2. Whole(done') = Whole(done)
    BY <1>2
  <2>3. QED
    BY <1>1, <2>1, <2>2, MadeMore DEF DoneInv
<1>6. Types'
  <2> DEFINE L == Len(net)
  <2>1. /\ L \in Nat \ {0} /\ net' \in Seq(FrameT) /\ Len(net') = L
        /\ Len(net[L].updates) < MaxPieces
        /\ net[L].updates \in Seq(PieceT)
        /\ net'[L].kind = "fast" /\ net'[L].updates = Append(net[L].updates, u)
        /\ \A f \in 1..(L - 1) : net'[f] = net[f]
    BY <1>1, NetMore DEF Types
  <2>2. net' # <<>>
    BY <2>1
  <2>3. Len(net'[L].updates) <= MaxPieces
    <3>1. Len(net'[L].updates) = Len(net[L].updates) + 1 /\ Len(net[L].updates) \in Nat
      BY <2>1, AppendProperties, LenProperties
    <3>2. QED
      BY <2>1, <3>1, ViewerAssumption
  <2>4. ASSUME NEW i \in 1..Len(net')
        PROVE  /\ Len(net'[i].updates) <= MaxPieces
               /\ net'[i].kind # "fast" => net'[i].updates = <<>>
    <3>1. i = L \/ (i \in 1..(L - 1) /\ i \in 1..L)
      BY <2>1
    <3>2. QED
      BY <1>1, <2>1, <2>3, <3>1 DEF Types
  <2>5. QED
    BY <1>1, <1>2, <1>5, <2>1, <2>2, <2>4 DEF Types, OpenT
<1>7. QED
  BY <1>3, <1>4, <1>5, <1>6 DEF IInv

\* A fragment as the server makes it.
LEMMA UpdatePiece ==
  ASSUME NEW c \in Codewords, NEW k \in Fragmentation, NEW a \in Nat, NEW b \in Nat
  PROVE  /\ Update(c, k, a, b) \in PieceT /\ <<<<a, b>>>> \in Data
         /\ Update(c, k, a, b).update_code = c /\ Update(c, k, a, b).fragmentation = k
         /\ Update(c, k, a, b).data = <<<<a, b>>>>
<1> DEFINE z == <<a, b>>
<1>1. z \in Nat \X Nat
  OBVIOUS
<1> HIDE DEF z
<1>2. <<z>> \in Data
  BY <1>1 DEF Data
<1>3. QED
  BY <1>2 DEF Update, PieceT, z

\* The pieces of update a, up to the b-th
Pieces(a, b) == [i \in 1..b |-> <<a, i>>]

\* One more piece of an update; a single piece; and all of them make it proper.
LEMMA PiecesFacts ==
  ASSUME NEW a \in Nat, NEW b \in Nat
  PROVE  /\ Pieces(a, b) \in Data
         /\ Pieces(a, b) \o <<<<a, b + 1>>>> = Pieces(a, b + 1)
         /\ b = 1 => Pieces(a, b) = <<<<a, b>>>>
         /\ \A c : Proper([update_code |-> c, data |-> Pieces(a, b)])
<1>1. Pieces(a, b) \in Data /\ Len(Pieces(a, b)) = b
  <2>1. \A i \in 1..b : <<a, i>> \in Nat \X Nat
    OBVIOUS
  <2>2. QED
    BY <2>1 DEF Pieces, Data
<1>2. Pieces(a, b) \o <<<<a, b + 1>>>> = Pieces(a, b + 1)
  <2> DEFINE z == <<a, b + 1>>
             s == Pieces(a, b)
             t == Pieces(a, b + 1)
  <2>1. z \in Nat \X Nat /\ s \in Seq(Nat \X Nat) /\ Len(s) = b
    BY <1>1 DEF Data
  <2>2. t \in Seq(Nat \X Nat) /\ Len(t) = b + 1
    <3>1. \A i \in 1..(b + 1) : <<a, i>> \in Nat \X Nat
      OBVIOUS
    <3>2. QED
      BY <3>1 DEF Pieces
  <2>3. /\ \A i \in 1..b : s[i] = <<a, i>>
        /\ \A i \in 1..(b + 1) : t[i] = <<a, i>>
    BY DEF Pieces
  <2>4. t[b + 1] = z /\ \A i \in 1..b : s[i] = t[i]
    <3>1. b + 1 \in 1..(b + 1) /\ \A i \in 1..b : i \in 1..(b + 1)
      OBVIOUS
    <3>2. QED
      BY <2>3, <3>1
  <2> HIDE DEF z, s, t
  <2>5. /\ Append(s, z) \in Seq(Nat \X Nat) /\ Len(Append(s, z)) = b + 1
        /\ Append(s, z)[b + 1] = z /\ \A i \in 1..b : Append(s, z)[i] = s[i]
    BY <2>1, AppendProperties
  <2>6. \A i \in 1..(b + 1) : Append(s, z)[i] = t[i]
    BY <2>4, <2>5
  <2>7. Append(s, z) = t
    BY <2>2, <2>5, <2>6, SeqEqual
  <2>8. s \o <<z>> = Append(s, z)
    BY <2>1, AppendIsConcat
  <2>9. QED
    BY <2>7, <2>8 DEF z, s, t
<1>3. b = 1 => Pieces(a, b) = <<<<a, b>>>>
  BY DEF Pieces
<1>4. ASSUME NEW c PROVE Proper([update_code |-> c, data |-> Pieces(a, b)])
  <2>1. \A i \in 1..b : Pieces(a, b)[i][2] # 0
    BY DEF Pieces
  <2>2. QED
    BY <1>1, <2>1 DEF Proper
<1>5. QED
  BY <1>1, <1>2, <1>3, <1>4

\* A piece that belongs to no update spoils what it ends up in.
LEMMA StrayFacts ==
  ASSUME NEW x \in Data, NEW a \in Nat, NEW c
  PROVE  ~Proper([update_code |-> c, data |-> x \o <<<<a, 0>>>>])
<1> DEFINE z == <<a, 0>>
           y == x \o <<z>>
<1>1. z \in Nat \X Nat /\ z[2] = 0
  OBVIOUS
<1> HIDE DEF z
<1>2. y = Append(x, z)
  BY <1>1, AppendIsConcat DEF Data
<1>3. Len(y) = Len(x) + 1 /\ y[Len(x) + 1] = z /\ Len(x) \in Nat
  BY <1>1, <1>2, AppendProperties, LenProperties DEF Data
<1> HIDE DEF y
<1>4. Len(x) + 1 \in 1..Len(y)
  BY <1>3
<1>5. ~Proper([update_code |-> c, data |-> y])
  BY <1>1, <1>3, <1>4 DEF Proper
<1>6. QED
  BY <1>5 DEF y, z

-----------------------------------------------------------------------------
(* The fragments the server sends *)

\* What the server numbers its updates with, and their codes.
LEMMA SentTypes ==
  ASSUME IInv
  PROVE  started \in Nat /\ \A code \in Codes : code \in UpdateCode /\ code \in Codewords
<1>1. started \in Nat
  BY DEF IInv, Types
<1>2. Codes \subseteq UpdateCode /\ UpdateCode \subseteq Codewords
  BY ViewerAssumption DEF Codewords
<1>3. QED
  BY <1>1, <1>2

\* A whole update leaves an unfinished one as it is.
LEMMA SingleInv ==
  ASSUME IInv, NEW code \in Codes, server_single(code)
  PROVE  IInv'
<1>1. PICK s : s = started + 1
  OBVIOUS
<1>2. started \in Nat /\ s \in Nat /\ code \in UpdateCode /\ code \in Codewords
  BY <1>1, SentTypes
<1> DEFINE u == Update(code, "SINGLE", s, 1)
           w == [update_code |-> code, data |-> <<<<s, 1>>>>]
<1>3. /\ u \in PieceT /\ <<<<s, 1>>>> \in Data
      /\ u.update_code = code /\ u.fragmentation = "SINGLE" /\ u.data = <<<<s, 1>>>>
  BY <1>2, UpdatePiece DEF Fragmentation
<1>4. Pieces(s, 1) = <<<<s, 1>>>> /\ Proper([update_code |-> code, data |-> Pieces(s, 1)])
  BY <1>2, PiecesFacts
<1>5. w \in UpdateT /\ Proper(w)
  BY <1>2, <1>3, <1>4 DEF UpdateT
<1>6. /\ SendPiece(u) /\ made' = Append(made, w) /\ started' = s /\ open' = open
      /\ UNCHANGED <<session, shared, ui, done>>
  BY <1>1 DEF server_single
<1> HIDE DEF u
<1>7. \A f : Completed(f, u) = <<w>> /\ Moved(f, u) = f
  BY <1>3 DEF Completed, Moved
<1> HIDE DEF w
<1>8. ASSUME NEW f \in FragT, Fits(f) PROVE made' = Kept(made, f, u) /\ Fits(Moved(f, u))'
  <2>1. Kept(made, f, u) = Append(made, w)
    BY <1>5, <1>7 DEF Kept, Taken
  <2>2. Fits(f)'
    BY <1>6, <1>8 DEF Fits
  <2>3. Fits(Moved(f, u))'
    BY <1>7, <2>2
  <2>4. QED
    BY <1>6, <2>1, <2>3
<1>9. open' = NoUpdate \/ open' \in OpenT
  BY <1>6 DEF IInv, Types, OpenT
<1>10. QED
  BY <1>2, <1>3, <1>5, <1>6, <1>8, <1>9, PieceInv

\* A first fragment starts over.
LEMMA FirstInv ==
  ASSUME IInv, NEW code \in Codes, server_first(code)
  PROVE  IInv'
<1>1. PICK s : s = started + 1
  OBVIOUS
<1>2. /\ started \in Nat /\ s \in Nat /\ s # 0 /\ code \in UpdateCode /\ code \in Codewords
  BY <1>1, SentTypes
<1> DEFINE u == Update(code, "FIRST", s, 1)
<1>3. /\ u \in PieceT /\ <<<<s, 1>>>> \in Data
      /\ u.update_code = code /\ u.fragmentation = "FIRST" /\ u.data = <<<<s, 1>>>>
  <2>1. "FIRST" \in Fragmentation /\ 1 \in Nat
    BY DEF Fragmentation
  <2>2. QED
    BY <1>2, <2>1, UpdatePiece
<1>4. Pieces(s, 1) = <<<<s, 1>>>>
  BY <1>2, PiecesFacts
<1>5. /\ SendPiece(u) /\ made' = made /\ started' = s
      /\ open' = [code |-> code, id |-> s, part |-> 1]
      /\ UNCHANGED <<session, shared, ui, done>>
  BY <1>1 DEF server_first
<1> HIDE DEF u
<1>6. \A f : Completed(f, u) = <<>> /\ Moved(f, u) = [frag |-> Pieces(s, 1), frag_code |-> code]
  BY <1>3, <1>4 DEF Completed, Moved
<1>7. ASSUME NEW f \in FragT PROVE made' = Kept(made, f, u) /\ Fits(Moved(f, u))'
  <2>1. Kept(made, f, u) = made
    BY <1>6 DEF Kept
  <2>2. Fits([frag |-> Pieces(s, 1), frag_code |-> code])'
    BY <1>5 DEF Fits, Pieces
  <2>3. Fits(Moved(f, u))'
    BY <1>6, <2>2
  <2>4. QED
    BY <1>5, <2>1, <2>3
<1>8. open' \in OpenT
  BY <1>2, <1>5 DEF OpenT
<1>9. QED
  BY <1>2, <1>3, <1>5, <1>7, <1>8, PieceInv

\* A next fragment goes on with it.
LEMMA NextInv ==
  ASSUME IInv, server_next
  PROVE  IInv'
<1>1. PICK c, a, b : c = open.code /\ a = open.id /\ b = open.part
  OBVIOUS
<1>2. open # NoUpdate /\ open \in OpenT /\ started \in Nat
  BY DEF server_next, IInv, Types, OpenT
<1>3. /\ c \in UpdateCode /\ c \in Codewords /\ a \in Nat \ {0} /\ b \in Nat \ {0}
      /\ b + 1 \in Nat \ {0}
  BY <1>1, <1>2 DEF OpenT, Codewords
<1> DEFINE u == Update(c, "NEXT", a, b + 1)
<1>4. /\ u \in PieceT /\ <<<<a, b + 1>>>> \in Data
      /\ u.update_code = c /\ u.fragmentation = "NEXT" /\ u.data = <<<<a, b + 1>>>>
  <2>1. "NEXT" \in Fragmentation
    BY DEF Fragmentation
  <2>2. QED
    BY <1>3, <2>1, UpdatePiece
<1>5. Pieces(a, b) \o <<<<a, b + 1>>>> = Pieces(a, b + 1)
  BY <1>3, PiecesFacts
<1>6. /\ SendPiece(u) /\ made' = made /\ started' = started
      /\ open' = [open EXCEPT !.part = @ + 1]
      /\ UNCHANGED <<session, shared, ui, done>>
  BY <1>1 DEF server_next
<1>7. open' \in OpenT /\ open'.code = c /\ open'.id = a /\ open'.part = b + 1
  BY <1>1, <1>2, <1>3, <1>6 DEF OpenT
<1> HIDE DEF u
<1>8. ASSUME NEW f \in FragT, Fits(f) PROVE made' = Kept(made, f, u) /\ Fits(Moved(f, u))'
  <2>1. f.frag = Pieces(a, b) /\ f.frag_code = c
    BY <1>1, <1>2, <1>8 DEF Fits, Pieces
  <2>2. Completed(f, u) = <<>> /\ Moved(f, u) = [frag |-> Pieces(a, b + 1), frag_code |-> c]
    BY <1>4, <1>5, <2>1 DEF Completed, Moved
  <2>3. Kept(made, f, u) = made
    BY <2>2 DEF Kept
  <2>4. Fits([frag |-> Pieces(a, b + 1), frag_code |-> c])'
    BY <1>7 DEF Fits, Pieces
  <2>5. Fits(Moved(f, u))'
    BY <2>2, <2>4
  <2>6. QED
    BY <1>6, <2>3, <2>5
<1>9. QED
  BY <1>2, <1>4, <1>6, <1>7, <1>8, PieceInv

\* The last one completes it: it is made, and is what the reassembly buffer holds.
LEMMA LastInv ==
  ASSUME IInv, server_last
  PROVE  IInv'
<1>1. PICK c, a, b : c = open.code /\ a = open.id /\ b = open.part
  OBVIOUS
<1>2. open # NoUpdate /\ open \in OpenT /\ started \in Nat
  BY DEF server_last, IInv, Types, OpenT
<1>3. /\ c \in UpdateCode /\ c \in Codewords /\ a \in Nat \ {0} /\ b \in Nat \ {0}
      /\ b + 1 \in Nat \ {0}
  BY <1>1, <1>2 DEF OpenT, Codewords
<1> DEFINE u == Update(c, "LAST", a, b + 1)
           w == [update_code |-> c, data |-> Pieces(a, b + 1)]
<1>4. /\ u \in PieceT /\ <<<<a, b + 1>>>> \in Data
      /\ u.update_code = c /\ u.fragmentation = "LAST" /\ u.data = <<<<a, b + 1>>>>
  <2>1. "LAST" \in Fragmentation
    BY DEF Fragmentation
  <2>2. QED
    BY <1>3, <2>1, UpdatePiece
<1>5. Pieces(a, b) \o <<<<a, b + 1>>>> = Pieces(a, b + 1) /\ Pieces(a, b + 1) \in Data
      /\ Proper(w)
  BY <1>3, PiecesFacts
<1>6. w \in UpdateT
  BY <1>3, <1>5 DEF UpdateT
<1>7. /\ SendPiece(u) /\ made' = Append(made, w) /\ started' = started
      /\ open' = NoUpdate
      /\ UNCHANGED <<session, shared, ui, done>>
  BY <1>1 DEF server_last, Pieces
<1> HIDE DEF u
<1>8. ASSUME NEW f \in FragT, Fits(f) PROVE made' = Kept(made, f, u) /\ Fits(Moved(f, u))'
  <2>1. f.frag = Pieces(a, b) /\ f.frag_code = c
    BY <1>1, <1>2, <1>8 DEF Fits, Pieces
  <2>2. Completed(f, u) = <<w>>
    BY <1>4, <1>5, <2>1 DEF Completed, Gather, FragT
  <2> HIDE DEF w
  <2>3. Kept(made, f, u) = Append(made, w)
    BY <1>5, <2>2 DEF Kept, Taken
  <2>4. Fits(Moved(f, u))'
    BY <1>7 DEF Fits
  <2>5. QED
    BY <1>7, <2>3, <2>4
<1> HIDE DEF w
<1>9. QED
  BY <1>2, <1>4, <1>6, <1>7, <1>8, PieceInv

\* A stray fragment completes nothing the server has made.
LEMMA StrayInv ==
  ASSUME IInv, NEW k \in {"NEXT", "LAST"}, server_stray(k)
  PROVE  IInv'
<1>1. PICK s : s = started + 1
  OBVIOUS
<1>2. /\ started \in Nat /\ s \in Nat /\ NoCode \in Codewords /\ k \in Fragmentation
      /\ 0 \in Nat
  BY <1>1, SentTypes DEF Codewords, Fragmentation
<1> DEFINE u == Update(NoCode, k, s, 0)
<1>3. /\ u \in PieceT /\ <<<<s, 0>>>> \in Data
      /\ u.update_code = NoCode /\ u.fragmentation = k /\ u.data = <<<<s, 0>>>>
  BY <1>2, UpdatePiece
<1>4. /\ SendPiece(u) /\ made' = made /\ started' = s /\ open' = NoUpdate
      /\ UNCHANGED <<session, shared, ui, done>>
  BY <1>1 DEF server_stray
<1> HIDE DEF u
<1>5. ASSUME NEW f \in FragT PROVE made' = Kept(made, f, u) /\ Fits(Moved(f, u))'
  <2>1. ASSUME k = "NEXT" PROVE made' = Kept(made, f, u)
    BY <1>3, <1>4, <2>1 DEF Kept, Completed
  <2>2. ASSUME k = "LAST" PROVE made' = Kept(made, f, u)
    <3> DEFINE w == [update_code |-> f.frag_code, data |-> f.frag \o <<<<s, 0>>>>]
    <3>1. f.frag \in Data
      BY DEF FragT
    <3>2. Completed(f, u) = <<w>>
      BY <1>3, <2>2 DEF Completed, Gather, FragT
    <3>3. ~Proper(w)
      BY <1>2, <3>1, StrayFacts
    <3> HIDE DEF w
    <3>4. QED
      BY <1>4, <3>2, <3>3 DEF Kept, Taken
  <2>3. made' = Kept(made, f, u)
    BY <2>1, <2>2
  <2>4. Fits(Moved(f, u))'
    BY <1>4 DEF Fits
  <2>5. QED
    BY <2>3, <2>4
<1>6. QED
  BY <1>2, <1>3, <1>4, <1>5, PieceInv

\* A frame that has only begun adds no fragment.
LEMMA FrameInv ==
  ASSUME IInv, NEW kind \in {"fast", "slow", "malformed"}, server_frame(kind)
  PROVE  IInv'
<1> DEFINE e == <<>>
           fr == [kind |-> kind, updates |-> e]
<1>1. Types /\ ShownInv /\ StreamInv /\ DoneInv
  BY DEF IInv
<1>2. /\ thread' = thread /\ display' = display /\ rgba' = rgba /\ error' = error
      /\ generation' = generation /\ last_generation' = last_generation /\ done' = done
      /\ made' = made /\ open' = open /\ started' = started /\ net' = Append(net, fr)
  BY DEF server_frame, session, shared, ui
<1>3. fr \in FrameT /\ fr.updates = e /\ e \in Seq(PieceT) /\ Len(e) = 0
  BY EmptySeq DEF FrameT
<1> HIDE DEF fr, e
<1>4. PICK L : L = Len(net)
  OBVIOUS
<1>5. /\ L \in Nat /\ net \in Seq(FrameT) /\ net' \in Seq(FrameT) /\ Len(net') = L + 1
      /\ net'[L + 1] = fr /\ \A i \in 1..L : net'[i] = net[i]
  <2>1. net \in Seq(FrameT)
    BY <1>1 DEF Types
  <2>2. QED
    BY <1>2, <1>3, <1>4, <2>1, AppendProperties, LenProperties
<1>6. ShownInv' /\ DoneInv'
  BY <1>1, <1>2 DEF ShownInv, DoneInv
<1>7. Types'
  <2>1. net' # <<>>
    BY <1>5
  <2>2. ASSUME NEW i \in 1..Len(net')
        PROVE  Len(net'[i].updates) <= MaxPieces /\ (net'[i].kind # "fast" => net'[i].updates = e)
    <3>1. i = L + 1 \/ i \in 1..L
      BY <1>5
    <3>2. CASE i = L + 1
      BY <1>3, <1>5, <3>2, ViewerAssumption
    <3>3. CASE i \in 1..L
      BY <1>1, <1>4, <1>5, <3>3 DEF Types, e
    <3>4. QED
      BY <3>1, <3>2, <3>3
  <2>3. QED
    BY <1>1, <1>2, <1>5, <2>1, <2>2 DEF Types, e
<1>8. ASSUME Running PROVE \E H \in Seq(PieceT) : \E g, m, off : OnWire(H, g, m, off)'
  <2>h. PICK H \in Seq(PieceT) : \E g, m, off : OnWire(H, g, m, off)
    BY <1>1, <1>8 DEF StreamInv
  <2>1. PICK g, m, off : OnWire(H, g, m, off)
    BY <2>h
  <2> DEFINE n == Len(H)
             o2 == [i \in 0..(L + 1) |-> IF i <= L THEN off[i] ELSE n]
  <2>2. /\ Story(H, g, m) /\ m[n] = made /\ Fits(g[n])
        /\ off \in [0..L -> 0..n] /\ off[L] = n
        /\ FragOf(display) = g[off[0]] /\ Whole(done) = m[off[0]]
        /\ \A f \in 1..L :
             /\ off[f] = off[f - 1] + Len(net[f].updates)
             /\ \A j \in 1..Len(net[f].updates) : net[f].updates[j] = H[off[f - 1] + j]
    BY <1>4, <2>1 DEF OnWire
  <2>3. n \in Nat
    BY LenProperties
  <2>4. /\ o2 \in [0..(L + 1) -> 0..n] /\ o2[L + 1] = n
        /\ \A i \in 0..L : o2[i] = off[i] /\ off[i] \in 0..n
    <3> HIDE DEF n
    <3>1. \A i \in 0..L : i \in 0..(L + 1) /\ i <= L /\ off[i] \in 0..n
      BY <1>5, <2>2
    <3>2. /\ L + 1 \in 0..(L + 1) /\ ~(L + 1 <= L) /\ n \in 0..n
          /\ \A i \in 0..(L + 1) : i <= L => i \in 0..L
      BY <1>5, <2>3
    <3>3. QED
      BY <3>1, <3>2
  <2> HIDE DEF o2
  <2>5. ASSUME NEW f \in 1..(L + 1)
        PROVE  /\ o2[f] = o2[f - 1] + Len(net'[f].updates)
               /\ \A j \in 1..Len(net'[f].updates) : net'[f].updates[j] = H[o2[f - 1] + j]
    <3>1. CASE f \in 1..L
      <4>1. f \in 0..L /\ f - 1 \in 0..L
        BY <1>5, <3>1
      <4>2. o2[f] = off[f] /\ o2[f - 1] = off[f - 1] /\ net'[f] = net[f]
        BY <1>5, <2>4, <3>1, <4>1
      <4>3. QED
        BY <2>2, <3>1, <4>2
    <3>2. CASE f = L + 1
      <4>1. f - 1 = L /\ L \in 0..L
        BY <1>5, <3>2
      <4>2. o2[f] = n /\ o2[f - 1] = n /\ Len(net'[f].updates) = 0
        BY <1>3, <1>5, <2>2, <2>4, <3>2, <4>1
      <4>3. QED
        BY <2>3, <4>2
    <3>3. QED
      BY <1>5, <3>1, <3>2
  <2>6. FragOf(display') = g[o2[0]] /\ Whole(done') = m[o2[0]]
    BY <1>2, <1>5, <2>2, <2>4
  <2>7. Fits(g[n])'
    BY <1>2, <2>2 DEF Fits
  <2>8. OnWire(H, g, m, o2)'
    BY <1>2, <1>5, <2>2, <2>4, <2>5, <2>6, <2>7 DEF OnWire
  <2>9. QED
    BY <2>8
<1>9. StreamInv'
  BY <1>2, <1>8 DEF StreamInv
<1>10. QED
  BY <1>6, <1>7, <1>9 DEF IInv

\* Nothing of the stream has changed.
LEMMA StreamSame ==
  ASSUME StreamInv, Running' => Running, FragOf(display') = FragOf(display),
         net' = net, open' = open, made' = made, done' = done
  PROVE  StreamInv'
<1> SUFFICES ASSUME Running
             PROVE  \E H \in Seq(PieceT) : \E g, m, off : OnWire(H, g, m, off)'
  BY DEF StreamInv
<1>h. PICK H \in Seq(PieceT) : \E g, m, off : OnWire(H, g, m, off)
  BY DEF StreamInv
<1>1. PICK g, m, off : OnWire(H, g, m, off)
  BY <1>h
<1>2. Fits(g[Len(H)])'
  BY <1>1 DEF OnWire, Fits
<1>3. OnWire(H, g, m, off)'
  BY <1>1, <1>2 DEF OnWire
<1>4. QED
  BY <1>3

-----------------------------------------------------------------------------
(* The client *)

\* An error or a panic ends the thread, whatever it was doing (Ends, Unwinds).
LEMMA EndsInv ==
  ASSUME IInv, Running, Ends \/ Unwinds, UNCHANGED <<ui, server>>,
         display' \in Displays, net' \in Seq(FrameT), done' \in Seq(UpdateT),
         \A i \in 1..Len(net') :
           /\ Len(net'[i].updates) <= MaxPieces
           /\ net'[i].kind # "fast" => net'[i].updates = <<>>,
         Begins(Whole(done'), made)
  PROVE  IInv'
<1>1. /\ \/ thread' = "ended" /\ error' = "session ended"
         \/ thread' = "panicked" /\ error' = None
      /\ rgba' = rgba
      /\ generation' = generation /\ last_generation' = last_generation
      /\ made' = made /\ open' = open /\ started' = started
  BY DEF Ends, Unwinds, Running, IInv, Types, ui, server, shared
<1>2. Types'
  BY <1>1 DEF IInv, Types, None
<1>3. ShownInv' /\ StreamInv' /\ DoneInv'
  BY <1>1 DEF ShownInv, StreamInv, DoneInv, Running
<1>4. QED
  BY <1>2, <1>3 DEF IInv

\* Steps of the session thread that neither read nor end.
LEMMA ThreadInv ==
  ASSUME IInv, thread' \in {"input", "poll", "body"}, Running,
         thread' = "body" => net # <<>> /\ ~display.dirty,
         thread' = "poll" => display' = [display EXCEPT !.dirty = FALSE],
         thread' # "poll" => display' = display,
         UNCHANGED <<shared, ui, server, net, done>>
  PROVE  IInv'
<1>1. Types /\ ShownInv /\ StreamInv /\ DoneInv
  BY DEF IInv
<1>2. /\ rgba' = rgba /\ error' = error /\ net' = net
      /\ generation' = generation /\ last_generation' = last_generation /\ done' = done
      /\ made' = made /\ open' = open /\ started' = started
  BY DEF server, shared, ui
<1>3. /\ display' \in Displays /\ FragOf(display') = FragOf(display)
      /\ display'.framebuffer = display.framebuffer
      /\ thread' = "poll" => ~display'.dirty
  <2>1. display \in Displays
    BY <1>1 DEF Types
  <2>2. QED
    BY <2>1 DEF Displays, FragOf
<1>4. StreamInv'
  BY <1>1, <1>2, <1>3, StreamSame
<1>5. ShownInv'
  BY <1>1, <1>2, <1>3 DEF ShownInv
<1>6. Types' /\ DoneInv'
  BY <1>1, <1>2, <1>3 DEF Types, DoneInv
<1>7. QED
  BY <1>4, <1>5, <1>6 DEF IInv

\* The first frame of net, and what is left without it.
LEMMA NetLess ==
  ASSUME Types, net # <<>>
  PROVE  /\ Len(net) \in Nat \ {0} /\ Head(net) = net[1] /\ Head(net) \in FrameT
         /\ Head(net).updates \in Seq(PieceT)
         /\ Tail(net) \in Seq(FrameT) /\ Len(Tail(net)) = Len(net) - 1
         /\ \A i \in 1..(Len(net) - 1) : Tail(net)[i] = net[i + 1]
         /\ \A i \in 1..Len(Tail(net)) :
              /\ Len(Tail(net)[i].updates) <= MaxPieces
              /\ Tail(net)[i].kind # "fast" => Tail(net)[i].updates = <<>>
         /\ Head(net).kind # "fast" => Head(net).updates = <<>>
<1>1. net \in Seq(FrameT)
  BY DEF Types
<1>2. Len(net) \in Nat \ {0}
  BY <1>1, EmptySeq, LenProperties
<1>3. 1 \in 1..Len(net) /\ \A i \in 1..(Len(net) - 1) : i + 1 \in 1..Len(net)
  BY <1>2
<1>4. Head(net) = net[1] /\ Head(net) \in FrameT
  BY <1>1, <1>3, ElementOfSeq
<1>5. /\ Tail(net) \in Seq(FrameT) /\ Len(Tail(net)) = Len(net) - 1
      /\ \A i \in 1..(Len(net) - 1) : Tail(net)[i] = net[i + 1]
  BY <1>1, HeadTailProperties
<1>6. Head(net).updates \in Seq(PieceT)
  BY <1>4 DEF FrameT
<1>7. \A i \in 1..Len(Tail(net)) :
        /\ Len(Tail(net)[i].updates) <= MaxPieces
        /\ Tail(net)[i].kind # "fast" => Tail(net)[i].updates = <<>>
  <2> SUFFICES ASSUME NEW i \in 1..Len(Tail(net))
               PROVE  /\ Len(Tail(net)[i].updates) <= MaxPieces
                      /\ Tail(net)[i].kind # "fast" => Tail(net)[i].updates = <<>>
    OBVIOUS
  <2>1. Tail(net)[i] = net[i + 1] /\ i + 1 \in 1..Len(net)
    BY <1>3, <1>5
  <2>2. QED
    BY <2>1 DEF Types
<1>8. Head(net).kind # "fast" => Head(net).updates = <<>>
  BY <1>3, <1>4 DEF Types
<1>9. QED
  BY <1>2, <1>4, <1>5, <1>6, <1>7, <1>8

\* The client is at the end of the first frame, which is gone.
LEMMA FrameTaken ==
  ASSUME Types, NEW H \in Seq(PieceT), NEW g, NEW m, NEW off, OnWire(H, g, m, off),
         net # <<>>, net' = Tail(net), made' = made, open' = open,
         FragOf(display') = g[off[1]], Whole(done') = m[off[1]]
  PROVE  \E o2 : OnWire(H, g, m, o2)'
<1>1. PICK L : L = Len(net)
  OBVIOUS
<1> DEFINE n  == Len(H)
           o2 == [i \in 0..(L - 1) |-> off[i + 1]]
<1>2. /\ L \in Nat \ {0} /\ Len(net') = L - 1
      /\ \A i \in 1..(L - 1) : net'[i] = net[i + 1]
  BY <1>1, NetLess
<1>3. /\ Story(H, g, m) /\ m[n] = made /\ Fits(g[n])
      /\ off \in [0..L -> 0..n] /\ off[L] = n
      /\ \A f \in 1..L :
           /\ off[f] = off[f - 1] + Len(net[f].updates)
           /\ \A j \in 1..Len(net[f].updates) : net[f].updates[j] = H[off[f - 1] + j]
  BY <1>1 DEF OnWire
<1>4. \A i \in 0..(L - 1) : i + 1 \in 0..L /\ o2[i] = off[i + 1]
  BY <1>2
<1>5. o2 \in [0..(L - 1) -> 0..n] /\ o2[L - 1] = n /\ o2[0] = off[1]
  <2> HIDE DEF n
  <2>1. \A i \in 0..(L - 1) : off[i + 1] \in 0..n
    BY <1>3, <1>4
  <2>2. L - 1 \in 0..(L - 1) /\ (L - 1) + 1 = L /\ 0 \in 0..(L - 1) /\ 0 + 1 = 1
    BY <1>2
  <2>3. QED
    BY <1>3, <2>1, <2>2
<1> HIDE DEF o2
<1>6. ASSUME NEW f \in 1..(L - 1)
      PROVE  /\ o2[f] = o2[f - 1] + Len(net'[f].updates)
             /\ \A j \in 1..Len(net'[f].updates) : net'[f].updates[j] = H[o2[f - 1] + j]
  <2>1. /\ f \in 0..(L - 1) /\ f - 1 \in 0..(L - 1) /\ (f - 1) + 1 = f
        /\ f + 1 \in 1..L /\ (f + 1) - 1 = f
    BY <1>2
  <2>2. o2[f] = off[f + 1] /\ o2[f - 1] = off[f] /\ net'[f] = net[f + 1]
    BY <1>2, <1>4, <2>1
  <2> DEFINE h == f + 1
  <2>3. h \in 1..L /\ h - 1 = f /\ o2[f] = off[h] /\ net'[f] = net[h]
    BY <2>1, <2>2
  <2> HIDE DEF h
  <2>4. QED
    BY <1>3, <2>2, <2>3
<1>7. Fits(g[n])'
  BY <1>3 DEF Fits
<1>8. OnWire(H, g, m, o2)'
  BY <1>2, <1>3, <1>5, <1>6, <1>7 DEF OnWire
<1>9. QED
  BY <1>8

\* What apply_all makes of the first frame (read_frame_body).
LEMMA FrameApplied ==
  ASSUME Types, NEW H \in Seq(PieceT), NEW g, NEW m, NEW off, OnWire(H, g, m, off),
         net # <<>>
  PROVE  LET a == apply_all(display, Head(net).updates) IN
         /\ a \in Results /\ done \o a.done \in Seq(UpdateT)
         /\ Begins(Whole(done), Whole(done \o a.done)) /\ Begins(Whole(done \o a.done), made)
         /\ a.ok => FragOf(a.display) = g[off[1]] /\ Whole(done \o a.done) = m[off[1]]
         /\ ~a.display.dirty => a.display.framebuffer = display.framebuffer
<1> DEFINE us == Head(net).updates
           a  == apply_all(display, us)
           n  == Len(H)
           k  == off[0]
<1>1. /\ Len(net) \in Nat \ {0} /\ us \in Seq(PieceT) /\ us = net[1].updates
  BY NetLess
<1>2. display \in Displays /\ done \in Seq(UpdateT)
  BY DEF Types
<1>3. n \in Nat /\ Len(us) \in Nat
  BY <1>1, LenProperties
<1>4. /\ Story(H, g, m) /\ m[n] = made /\ off \in [0..Len(net) -> 0..n]
      /\ FragOf(display) = g[k] /\ Whole(done) = m[k]
  BY DEF OnWire
<1>5. 0 \in 0..Len(net) /\ 1 \in 0..Len(net) /\ 1 \in 1..Len(net) /\ 1 - 1 = 0
  BY <1>1
<1>6. k \in 0..n /\ off[1] \in 0..n
  BY <1>4, <1>5
<1>7. off[1] = k + Len(us) /\ \A j \in 1..Len(us) : us[j] = H[k + j]
  BY <1>1, <1>5 DEF OnWire
<1>8. k + Len(us) <= n
  BY <1>3, <1>6, <1>7
<1>9. a \in Results /\ (~a.display.dirty => a.display.framebuffer = display.framebuffer)
  BY <1>1, <1>2, ApplyAllDirty
<1> HIDE DEF us, n, k
<1>10. PICK j \in 0..Len(us) :
         /\ Whole(done \o a.done) = m[k + j]
         /\ a.ok => j = Len(us) /\ FragOf(a.display) = g[k + j]
  <2>1. k \in 0..Len(H) /\ Ahead(H, k, us)
    BY <1>6, <1>7, <1>8 DEF Ahead, n
  <2>2. Stands(display, done, g, m, k)
    BY <1>4 DEF Stands
  <2>3. Went(a, done, g, m, k, Len(us))
    BY ONLY H \in Seq(PieceT), <1>1, <1>2, <1>4, <2>1, <2>2, ApplyAllStory
  <2>4. QED
    BY <2>3 DEF Went
<1>11. Begins(Whole(done), Whole(done \o a.done)) /\ Begins(Whole(done \o a.done), made)
  <2>1. k + j \in 0..n /\ n \in 0..n /\ k \in 0..(k + j)
    BY <1>3, <1>6, <1>8
  <2>2. Begins(m[k + j], m[n]) /\ Begins(m[k], m[k + j])
    BY <1>4, <2>1 DEF Story, n
  <2>3. QED
    BY <1>4, <1>10, <2>2
<1>12. done \o a.done \in Seq(UpdateT)
  <2>1. a.done \in Seq(UpdateT)
    BY <1>9 DEF Results
  <2>2. QED
    BY <1>2, <2>1, ConcatProperties
<1>13. QED
  BY <1>7, <1>9, <1>10, <1>11, <1>12 DEF us

\* A frame read by the session thread (read_frame_body).
LEMMA BodyInv ==
  ASSUME IInv, read_frame_body
  PROVE  IInv'
<1> DEFINE f == Head(net)
           a == apply_all(display, f.updates)
<1>1. Types /\ ShownInv /\ StreamInv /\ DoneInv
  BY DEF IInv
<1>2. thread = "body" /\ net # <<>> /\ net' = Tail(net) /\ UNCHANGED <<ui, server>>
  BY DEF read_frame_body, Complete
<1>3. /\ last_generation' = last_generation
      /\ made' = made /\ open' = open /\ started' = started
  BY <1>2 DEF server, ui
<1>4. /\ Len(net) \in Nat \ {0} /\ f = net[1] /\ f \in FrameT /\ f.updates \in Seq(PieceT)
      /\ net' \in Seq(FrameT)
      /\ \A i \in 1..Len(net') :
           /\ Len(net'[i].updates) <= MaxPieces
           /\ net'[i].kind # "fast" => net'[i].updates = <<>>
      /\ f.kind # "fast" => f.updates = <<>>
  BY <1>1, <1>2, NetLess
<1>h. PICK H \in Seq(PieceT) : \E g, m, off : OnWire(H, g, m, off)
  BY <1>1, <1>2 DEF StreamInv
<1>5. PICK g, m, off : OnWire(H, g, m, off)
  BY <1>h
<1>6. /\ a \in Results /\ done \o a.done \in Seq(UpdateT)
      /\ Begins(Whole(done \o a.done), made)
      /\ a.ok => FragOf(a.display) = g[off[1]] /\ Whole(done \o a.done) = m[off[1]]
      /\ ~a.display.dirty => a.display.framebuffer = display.framebuffer
  BY <1>1, <1>2, <1>5, FrameApplied
<1>7. a.display \in Displays
  BY <1>6 DEF Results
<1>8. display \in Displays /\ done \in Seq(UpdateT) /\ generation \in Nat
      /\ last_generation \in 0..generation /\ error = None
  BY <1>1, <1>2 DEF Types
<1>9. f.kind # "fast" => FragOf(display) = g[off[1]] /\ Whole(done) = m[off[1]]
  <2> SUFFICES ASSUME f.kind # "fast"
               PROVE  FragOf(display) = g[off[1]] /\ Whole(done) = m[off[1]]
    OBVIOUS
  <2>1. Len(net[1].updates) = 0
    BY <1>4, EmptySeq
  <2>2. 1 \in 1..Len(net) /\ 1 - 1 = 0 /\ 0 \in 0..Len(net)
    BY <1>4
  <2>3. off[1] = off[0] + 0 /\ off[0] \in 0..Len(H)
    BY <1>5, <2>1, <2>2 DEF OnWire
  <2>4. Len(H) \in Nat
    BY LenProperties
  <2>5. off[1] = off[0]
    BY <2>3, <2>4
  <2>6. QED
    BY <1>5, <2>5 DEF OnWire
<1> HIDE DEF f, a
<1>10. CASE f.kind = "slow" /\ thread' = "input" /\ UNCHANGED <<display, shared, done>>
  <2>1. /\ display' = display /\ done' = done /\ rgba' = rgba /\ generation' = generation
        /\ error' = error
    BY <1>10 DEF shared
  <2>2. FragOf(display') = g[off[1]] /\ Whole(done') = m[off[1]]
    BY <1>9, <1>10, <2>1
  <2>3. \E o2 : OnWire(H, g, m, o2)'
    BY <1>1, <1>2, <1>3, <1>5, <2>2, FrameTaken
  <2>4. StreamInv'
    BY <2>3 DEF StreamInv
  <2>5. Types'
    BY <1>1, <1>2, <1>3, <1>4, <1>10, <2>1 DEF Types
  <2>6. ShownInv' /\ DoneInv'
    BY <1>1, <1>2, <1>3, <1>10, <2>1 DEF ShownInv, DoneInv
  <2>7. QED
    BY <2>4, <2>5, <2>6 DEF IInv
<1>11. CASE f.kind = "malformed" /\ Ends /\ UNCHANGED <<display, done>>
  <2>1. display' \in Displays /\ done' \in Seq(UpdateT) /\ Running
    BY <1>2, <1>8, <1>11
  <2>2. Begins(Whole(done'), made)
    BY <1>1, <1>11 DEF DoneInv
  <2>3. QED
    BY <1>2, <1>4, <1>11, <2>1, <2>2, EndsInv
<1>12. CASE display' = a.display /\ done' = done \o a.done /\ (Ends \/ Unwinds)
  <2>1. display' \in Displays /\ done' \in Seq(UpdateT) /\ Running
    BY <1>2, <1>6, <1>7, <1>12
  <2>2. Begins(Whole(done'), made)
    BY <1>6, <1>12
  <2>3. QED
    BY <1>2, <1>4, <1>12, <2>1, <2>2, EndsInv
<1>13. CASE /\ display' = a.display /\ done' = done \o a.done /\ a.ok /\ thread' = "input"
            /\ \/ a.display.dirty /\ Publishes
               \/ ~a.display.dirty /\ UNCHANGED shared
  <2>1. FragOf(display') = g[off[1]] /\ Whole(done') = m[off[1]]
    BY <1>6, <1>13
  <2>2. \E o2 : OnWire(H, g, m, o2)'
    BY <1>1, <1>2, <1>3, <1>5, <2>1, FrameTaken
  <2>3. StreamInv'
    BY <2>2 DEF StreamInv
  <2>4. error' = error /\ generation' \in {generation, generation + 1}
    BY <1>13 DEF Publishes, shared
  <2>5. generation' \in Nat /\ last_generation' \in 0..generation'
    BY <1>3, <1>8, <2>4
  <2>6. Types'
    BY <1>1, <1>2, <1>3, <1>4, <1>6, <1>7, <1>8, <1>13, <2>4, <2>5 DEF Types
  <2>7. rgba' = display'.framebuffer
    <3>1. rgba = display.framebuffer
      BY <1>1, <1>2 DEF ShownInv
    <3>2. QED
      BY <1>6, <1>13, <3>1 DEF Publishes, shared
  <2>8. ShownInv' /\ DoneInv'
    BY <1>3, <1>6, <1>13, <2>7 DEF ShownInv, DoneInv
  <2>9. QED
    BY <2>3, <2>6, <2>8 DEF IInv
<1>14. QED
  BY <1>10, <1>11, <1>12, <1>13 DEF read_frame_body, f, a

\* A step of the session thread.
LEMMA SessionInv ==
  ASSUME IInv, connect \/ SessionThread
  PROVE  IInv'
<1>1. Types /\ ShownInv /\ DoneInv
  BY DEF IInv
<1>2. ASSUME Running, Ends, UNCHANGED <<display, ui, server, net, done>>
      PROVE  IInv'
  <2>1. /\ display' \in Displays /\ net' \in Seq(FrameT) /\ done' \in Seq(UpdateT)
        /\ \A i \in 1..Len(net') :
             /\ Len(net'[i].updates) <= MaxPieces
             /\ net'[i].kind # "fast" => net'[i].updates = <<>>
    BY <1>1, <1>2 DEF Types
  <2>2. Begins(Whole(done'), made)
    BY <1>1, <1>2 DEF DoneInv
  <2>3. QED
    BY <1>2, <2>1, <2>2, EndsInv
<1>3. CASE connect
  <2>1. CASE Ends
    BY <1>2, <1>3, <2>1 DEF connect
  <2>2. CASE thread' = "input" /\ UNCHANGED shared
    BY <1>3, <2>2, ThreadInv DEF connect
  <2>3. QED
    BY <1>3, <2>1, <2>2 DEF connect
<1>4. CASE send_input
  <2>1. thread' = "input" /\ thread = "input" /\ display' = display
    BY <1>4 DEF send_input, session
  <2>2. QED
    BY <1>4, <2>1, ThreadInv DEF send_input
<1>5. CASE pump
  BY <1>5, ThreadInv DEF pump
<1>6. CASE poll_timeout
  BY <1>6, ThreadInv DEF poll_timeout
<1>7. CASE poll_frame
  <2>1. ~display.dirty
    BY <1>1, <1>7 DEF poll_frame, ShownInv
  <2>2. QED
    BY <1>7, <2>1, ThreadInv DEF poll_frame
<1>8. CASE read_eof
  <2>1. Running
    BY <1>8 DEF read_eof
  <2>2. QED
    BY <1>2, <1>8, <2>1 DEF read_eof
<1>9. CASE read_frame_body
  BY <1>9, BodyInv
<1>10. QED
  BY <1>3, <1>4, <1>5, <1>6, <1>7, <1>8, <1>9 DEF SessionThread, Pumping

\* A step that changes nothing of session, stream and snapshot.
LEMMA AsideInv ==
  ASSUME IInv, UNCHANGED <<session, shared, net, open, started, made, done>>,
         last_generation' \in 0..generation
  PROVE  IInv'
<1>1. Types /\ ShownInv /\ StreamInv /\ DoneInv
  BY DEF IInv
<1>2. /\ thread' = thread /\ display' = display /\ rgba' = rgba /\ error' = error
      /\ generation' = generation
  BY DEF session, shared
<1>3. StreamInv'
  BY <1>1, <1>2, StreamSame
<1>4. Types'
  BY <1>1, <1>2 DEF Types
<1>5. ShownInv' /\ DoneInv'
  BY <1>1, <1>2 DEF ShownInv, DoneInv
<1>6. QED
  BY <1>3, <1>4, <1>5 DEF IInv

\* Every step keeps the invariant.
LEMMA StepInv ==
  ASSUME IInv, [Next]_vars
  PROVE  IInv'
<1>1. generation \in Nat /\ last_generation \in 0..generation
  BY DEF IInv, Types
<1>2. CASE UNCHANGED vars
  BY <1>1, <1>2, AsideInv DEF vars, server, ui
<1>3. CASE connect \/ SessionThread
  BY <1>3, SessionInv
<1>4. CASE repaint_error
  BY <1>1, <1>4, AsideInv DEF repaint_error, server
<1>5. CASE repaint
  <2>1. last_generation' \in 0..generation
    BY <1>1, <1>5 DEF repaint
  <2>2. QED
    BY <1>5, <2>1, AsideInv DEF repaint, server
<1>6. CASE server_end \/ server_close
  BY <1>1, <1>6, AsideInv DEF server_end, server_close, server, ui
<1>7. CASE \E kind \in {"fast", "slow", "malformed"} : server_frame(kind)
  BY <1>7, FrameInv
<1>8. CASE \E code \in Codes : server_single(code) \/ server_first(code)
  BY <1>8, SingleInv, FirstInv
<1>9. CASE server_next \/ server_last
  BY <1>9, NextInv, LastInv
<1>10. CASE \E frag \in {"NEXT", "LAST"} : server_stray(frag)
  BY <1>10, StrayInv
<1>11. QED
  BY <1>2, <1>3, <1>4, <1>5, <1>6, <1>7, <1>8, <1>9, <1>10 DEF Next, Server

\* The first state.
LEMMA InitInv == Init => IInv
<1> SUFFICES ASSUME Init PROVE IInv
  OBVIOUS
<1> DEFINE e == <<>>
<1>1. e \in Data /\ e \in Seq(UpdateT) /\ e \in Seq(FrameT) /\ e \in Seq(PieceT) /\ Len(e) = 0
  BY EmptySeq DEF Data
<1>2. /\ display = NewDisplay /\ rgba = e /\ net = e /\ made = e /\ done = e
      /\ thread = "connect" /\ error = None /\ open = NoUpdate
      /\ generation = 0 /\ last_generation = 0 /\ started = 0
  BY DEF Init, NoData
<1>3. /\ NewDisplay \in Displays /\ NewDisplay.framebuffer = e
      /\ FragOf(NewDisplay) \in FragT
  BY <1>1 DEF NewDisplay, Displays, NoData, FragOf, FragT, Codewords
<1>4. Whole(e) = e
  BY WholeFacts
<1> HIDE DEF e
<1>5. Types
  BY <1>1, <1>2, <1>3 DEF Types, None
<1>6. ShownInv
  BY <1>2, <1>3 DEF ShownInv
<1>7. DoneInv
  BY <1>1, <1>2, <1>4 DEF DoneInv, Begins
<1>8. StreamInv
  <2> DEFINE x == FragOf(NewDisplay)
             g == [i \in 0..0 |-> x]
             m == [i \in 0..0 |-> e]
             o == [i \in 0..0 |-> 0]
  <2> HIDE DEF x
  <2>1. /\ g \in [0..0 -> FragT] /\ m \in [0..0 -> Seq(UpdateT)] /\ o \in [0..0 -> 0..0]
        /\ g[0] = x /\ m[0] = e /\ o[0] = 0
    BY <1>1, <1>3 DEF x
  <2> HIDE DEF g, m, o
  <2>2. Begins(e, e)
    BY <1>1 DEF Begins
  <2>3. \A j \in 0..0 : \A i \in 0..j : Begins(m[i], m[j])
    BY <2>1, <2>2
  <2>4. Story(e, g, m)
    BY <1>1, <2>1, <2>3 DEF Story
  <2>5. Fits(g[0])
    BY <1>2 DEF Fits
  <2>6. OnWire(e, g, m, o)
    BY <1>1, <1>2, <1>4, <2>1, <2>4, <2>5 DEF OnWire, x
  <2>7. QED
    BY <1>1, <2>6 DEF StreamInv
<1>9. QED
  BY <1>5, <1>6, <1>7, <1>8 DEF IInv

\* What process has been given are the server's updates, now and after a frame.
LEMMA DeliveredMore ==
  ASSUME IInv, read_frame_body, Whole(done') # Whole(done)
  PROVE  Updates!Next
<1> DEFINE r == Whole(done)
           q == Whole(done')
<1>1. Types /\ StreamInv /\ thread = "body" /\ net # <<>> /\ made' = made
  BY DEF IInv, read_frame_body, Complete, server
<1>h. PICK H \in Seq(PieceT) : \E g, m, off : OnWire(H, g, m, off)
  BY <1>1 DEF StreamInv
<1>2. PICK g, m, off : OnWire(H, g, m, off)
  BY <1>h
<1>3. done' = done \/ done' = done \o apply_all(display, Head(net).updates).done
  BY DEF read_frame_body
<1>4. Begins(r, q) /\ Begins(q, made) /\ done' \in Seq(UpdateT)
  BY <1>1, <1>2, <1>3, FrameApplied
<1>5. r \in Seq(UpdateT) /\ q \in Seq(UpdateT) /\ made \in Seq(UpdateT)
  BY <1>1, <1>4, WholeFacts DEF Types
<1> HIDE DEF r, q
<1>6. Len(r) \in Nat /\ Len(q) \in Nat /\ Len(made) \in Nat
  BY <1>5, LenProperties
<1>7. Len(r) <= Len(q) /\ Len(q) <= Len(made)
  BY <1>4 DEF Begins
<1>8. Len(r) # Len(q)
  <2>1. \A i \in 1..Len(r) : r[i] = q[i]
    BY <1>4 DEF Begins
  <2>2. r # q
    BY DEF r, q
  <2>3. QED
    BY <1>5, <2>1, <2>2, SeqEqual
<1> DEFINE n == Len(q) - Len(r)
<1>9. n \in 1..(Len(made) - Len(r)) /\ Len(r) + n = Len(q)
  BY <1>6, <1>7, <1>8
<1>10. q = SubSeq(made, 1, Len(q))
  <2> DEFINE l == Len(q)
             t == SubSeq(made, 1, l)
  <2>1. \A i \in 1..l : made[i] \in UpdateT /\ q[i] = made[i]
    BY <1>4, <1>5, <1>6, <1>7, ElementOfSeq DEF Begins
  <2>2. 1 \in Int /\ l \in Int /\ l \in Nat
    BY <1>6
  <2> HIDE DEF l
  <2>3. /\ t \in Seq(UpdateT) /\ Len(t) = IF 1 <= l THEN l - 1 + 1 ELSE 0
        /\ \A i \in 1..(l - 1 + 1) : t[i] = made[1 + i - 1]
    BY ONLY <2>1, <2>2, SubSeqProperties
  <2>4. Len(t) = l /\ \A i \in 1..l : t[i] = made[i]
    BY <2>2, <2>3
  <2> HIDE DEF t
  <2>5. q \in Seq(UpdateT) /\ Len(q) = Len(t) /\ \A i \in 1..Len(q) : q[i] = t[i]
    BY <1>5, <2>1, <2>4 DEF l
  <2>6. q = t
    BY ONLY <2>3, <2>5, SeqEqual
  <2>7. QED
    BY <2>6 DEF t, l
<1> HIDE DEF n
<1>11. Updates!Deliver("update", n)
  BY <1>1, <1>9, <1>10 DEF Updates!Deliver, r, q
<1>12. QED
  BY <1>9, <1>11 DEF Updates!Next, r

\* One more update is made.
LEMMA MadeSent ==
  ASSUME IInv, NEW w \in UpdateT, made' = Append(made, w), done' = done
  PROVE  Updates!Next
<1>1. made \in Seq(UpdateT)
  BY DEF IInv, Types
<1>2. PICK t : t = made'
  OBVIOUS
<1>3. Len(t) = Len(made) + 1 /\ t[Len(made) + 1] = w
  BY <1>1, <1>2, AppendProperties
<1>4. Updates!Send("update")
  BY <1>2, <1>3 DEF Updates!Send
<1>5. QED
  BY <1>4 DEF Updates!Next

-----------------------------------------------------------------------------
(* Input *)

Batch == SUBSET {"MOVE", "DOWN", "BUTTON1"}

\* What the user has typed, as the server is to get it
Encoded(t) == [i \in 1..Len(t) |-> PointerFlags(t[i])]

\* While the connection is up, no batch of input is lost, doubled or reordered
InputKept == ~closed => delivered \o queue = Encoded(typed)

InputInv ==
  /\ typed \in Seq(BOOLEAN) /\ queue \in Seq(Batch) /\ delivered \in Seq(Batch)
  /\ InputKept

\* One more batch.
LEMMA EncodedMore ==
  ASSUME NEW t \in Seq(BOOLEAN), NEW p \in BOOLEAN
  PROVE  /\ PointerFlags(p) \in Batch /\ Encoded(t) \in Seq(Batch)
         /\ Encoded(Append(t, p)) = Append(Encoded(t), PointerFlags(p))
<1>1. \A b : PointerFlags(b) \in Batch
  BY DEF PointerFlags, Batch
<1> DEFINE n == Len(t)
           s == Append(t, p)
           x == PointerFlags(p)
           e == Encoded(t)
           c == Encoded(s)
<1>2. /\ n \in Nat /\ Len(s) = n + 1 /\ s[n + 1] = p /\ \A i \in 1..n : s[i] = t[i]
  BY LenProperties, AppendProperties
<1> HIDE DEF s
<1>3. e \in Seq(Batch) /\ Len(e) = n /\ \A i \in 1..n : e[i] = PointerFlags(t[i])
  BY <1>1, <1>2 DEF Encoded
<1>4. c \in Seq(Batch) /\ Len(c) = n + 1 /\ \A i \in 1..(n + 1) : c[i] = PointerFlags(s[i])
  BY <1>1, <1>2 DEF Encoded
<1> HIDE DEF e, c, n
<1>5. x \in Batch
  BY <1>1
<1> HIDE DEF x
<1>6. /\ Append(e, x) \in Seq(Batch) /\ Len(Append(e, x)) = n + 1
      /\ Append(e, x)[n + 1] = x /\ \A i \in 1..n : Append(e, x)[i] = e[i]
  BY <1>3, <1>5, AppendProperties
<1>7. \A i \in 1..(n + 1) : i \in 1..n \/ i = n + 1
  BY <1>2
<1>8. \A i \in 1..(n + 1) : c[i] = Append(e, x)[i]
  BY <1>2, <1>3, <1>4, <1>6, <1>7 DEF x
<1>9. c = Append(e, x)
  BY ONLY <1>4, <1>6, <1>8, SeqEqual
<1>10. QED
  BY <1>1, <1>3, <1>9 DEF c, e, x, s

\* A batch moves from the queue to the server (the try_recv loop).
LEMMA BatchMoves ==
  ASSUME NEW q \in Seq(Batch), NEW d \in Seq(Batch), q # <<>>
  PROVE  /\ Append(d, Head(q)) \in Seq(Batch) /\ Tail(q) \in Seq(Batch)
         /\ Append(d, Head(q)) \o Tail(q) = d \o q
<1> DEFINE x == Head(q)
           y == Tail(q)
           z == <<x>>
<1>1. x \in Batch /\ y \in Seq(Batch)
  BY HeadTailProperties
<1>2. q = z \o y
  <2>1. /\ Len(y) = Len(q) - 1 /\ \A i \in 1..Len(y) : y[i] = q[i + 1]
    BY HeadTailProperties
  <2>2. Len(q) \in Nat \ {0} /\ x = q[1]
    BY LenProperties, EmptySeq
  <2>3. z \in Seq(Batch) /\ Len(z) = 1 /\ z[1] = x
    BY <1>1
  <2> HIDE DEF x, y, z
  <2>4. /\ z \o y \in Seq(Batch) /\ Len(z \o y) = 1 + Len(y)
        /\ \A i \in 1..(1 + Len(y)) : (z \o y)[i] = IF i <= 1 THEN z[i] ELSE y[i - 1]
    <3>1. y \in Seq(Batch) /\ z \in Seq(Batch)
      BY <1>1, <2>3
    <3>2. /\ z \o y \in Seq(Batch) /\ Len(z \o y) = Len(z) + Len(y)
          /\ \A i \in 1..(Len(z) + Len(y)) :
               (z \o y)[i] = IF i <= Len(z) THEN z[i] ELSE y[i - Len(z)]
      BY ONLY <3>1, ConcatProperties
    <3>3. QED
      BY <2>3, <3>2
  <2>5. Len(z \o y) = Len(q)
    BY <2>1, <2>2, <2>4
  <2>6. ASSUME NEW i \in 1..Len(q) PROVE q[i] = (z \o y)[i]
    <3>1. CASE i = 1
      BY <2>1, <2>2, <2>3, <2>4, <3>1
    <3>2. CASE i # 1
      <4>1. i - 1 \in 1..Len(y) /\ (i - 1) + 1 = i /\ i \in 1..(1 + Len(y)) /\ ~(i <= 1)
        BY <2>1, <2>2, <3>2
      <4>2. y[i - 1] = q[i]
        BY <2>1, <4>1
      <4>3. QED
        BY <2>4, <4>1, <4>2
    <3>3. QED
      BY <3>1, <3>2
  <2>7. QED
    BY <2>4, <2>5, <2>6, SeqEqual
<1>3. z \in Seq(Batch) /\ Append(d, x) = d \o z
  BY <1>1, AppendIsConcat
<1>4. Append(d, x) \in Seq(Batch)
  BY <1>1, AppendProperties
<1> HIDE DEF x, y, z
<1>5. (d \o z) \o y = d \o (z \o y)
  BY ONLY d \in Seq(Batch), <1>1, <1>3, ConcatAssociative
<1>6. QED
  BY <1>1, <1>2, <1>3, <1>4, <1>5 DEF x, y

\* A batch is queued at the end.
LEMMA BatchQueued ==
  ASSUME NEW q \in Seq(Batch), NEW d \in Seq(Batch), NEW x \in Batch
  PROVE  Append(q, x) \in Seq(Batch) /\ d \o Append(q, x) = Append(d \o q, x)
<1> DEFINE z == <<x>>
<1>1. z \in Seq(Batch) /\ Append(q, x) = q \o z
  BY AppendIsConcat
<1>2. d \o q \in Seq(Batch) /\ Append(q, x) \in Seq(Batch)
  BY ConcatProperties, AppendProperties
<1>3. Append(d \o q, x) = (d \o q) \o z
  BY <1>2, AppendIsConcat
<1> HIDE DEF z
<1>4. (d \o q) \o z = d \o (q \o z)
  BY ONLY d \in Seq(Batch), q \in Seq(Batch), <1>1, ConcatAssociative
<1>5. QED
  BY <1>1, <1>2, <1>3, <1>4

-----------------------------------------------------------------------------
(* Theorems *)

\* The inductive invariant.
THEOREM Invariance == Spec => []IInv
BY InitInv, StepInv, PTL DEF Spec

\* The session thread, its error, the frames and the generations the UI has seen
\* are always of their types and bounds (session thread, SharedFrame).
THEOREM TypeCorrect == Spec => []TypeOK
<1>1. IInv => TypeOK
  <2> SUFFICES ASSUME IInv PROVE TypeOK
    OBVIOUS
  <2>1. (thread = "ended") = (error # None)
    BY DEF IInv, Types
  <2>2. display.frag_code \in UpdateCode \cup {NoCode}
    BY DEF IInv, Types, Displays, Codewords
  <2>3. QED
    BY <2>1, <2>2 DEF IInv, Types, TypeOK
<1>2. QED
  BY <1>1, Invariance, PTL

\* However many updates a frame brings, whichever of them repaint and whichever
\* fail, no repaint is left unpublished when the session thread is back at the top
\* of its loop (pump's dirty flag, Publishes).
THEOREM Published == Spec => []PublishedIsCurrent
<1>1. IInv => PublishedIsCurrent
  BY DEF IInv, ShownInv, PublishedIsCurrent
<1>2. QED
  BY <1>1, Invariance, PTL

\* For any number of updates, fragments and frames, the display implements ordered
\* delivery of whole updates (Display::apply, apply_all, read_frame_body).
THEOREM WholeUpdates == Spec => ReassembledWhole
<1>1. Init => Updates!Init
  <2>1. Whole(<<>>) = <<>>
    BY WholeFacts
  <2>2. QED
    BY <2>1 DEF Init, Updates!Init
<1>2. ASSUME IInv, [Next]_vars
      PROVE  [Updates!Next]_<<[c \in {"update"} |-> made], [c \in {"update"} |-> Whole(done)]>>
  <2>1. CASE made' = made /\ done' = done
    BY <2>1
  <2>2. CASE read_frame_body
    <3>1. made' = made
      BY <2>2 DEF read_frame_body, server
    <3>2. QED
      BY <1>2, <2>2, <3>1, DeliveredMore
  <2>3. CASE \E code \in Codes : server_single(code)
    <3>1. PICK code \in Codes : server_single(code)
      BY <2>3
    <3>2. PICK s : s = started + 1
      OBVIOUS
    <3>3. s \in Nat /\ code \in Codewords
      BY <1>2, <3>2, SentTypes
    <3> DEFINE w == [update_code |-> code, data |-> <<<<s, 1>>>>]
    <3>4. <<<<s, 1>>>> \in Data
      BY <3>3, UpdatePiece DEF Fragmentation
    <3>5. w \in UpdateT
      BY <3>3, <3>4 DEF UpdateT
    <3>6. made' = Append(made, w) /\ done' = done
      BY <3>1, <3>2 DEF server_single
    <3> HIDE DEF w
    <3>7. QED
      BY <1>2, <3>5, <3>6, MadeSent
  <2>4. CASE server_last
    <3>1. PICK c, a, b : c = open.code /\ a = open.id /\ b = open.part + 1
      OBVIOUS
    <3>2. c \in Codewords /\ a \in Nat /\ b \in Nat
      <4>1. open \in OpenT
        BY <1>2, <2>4 DEF server_last, IInv, Types, OpenT
      <4>2. QED
        BY <3>1, <4>1 DEF OpenT, Codewords
    <3> DEFINE w == [update_code |-> c, data |-> Pieces(a, b)]
    <3>3. w \in UpdateT
      BY <3>2, PiecesFacts DEF UpdateT
    <3>4. made' = Append(made, w) /\ done' = done
      BY <2>4, <3>1 DEF server_last, Pieces
    <3> HIDE DEF w
    <3>5. QED
      BY <1>2, <3>3, <3>4, MadeSent
  <2>5. CASE UNCHANGED vars
    BY <2>1, <2>5 DEF vars, server
  <2>6. CASE connect \/ send_input \/ pump \/ poll_timeout \/ poll_frame \/ read_eof
    BY <2>1, <2>6 DEF connect, send_input, pump, poll_timeout, poll_frame, read_eof, server
  <2>7. CASE repaint_error \/ repaint
    BY <2>1, <2>7 DEF repaint_error, repaint, server
  <2>8. CASE \/ server_next \/ server_end \/ server_close
             \/ \E kind \in {"fast", "slow", "malformed"} : server_frame(kind)
             \/ \E code \in Codes : server_first(code)
             \/ \E frag \in {"NEXT", "LAST"} : server_stray(frag)
    BY <2>1, <2>8 DEF server_next, server_end, server_close, server_frame, server_first,
                      server_stray, server
  <2>9. QED
    BY <1>2, <2>2, <2>3, <2>4, <2>5, <2>6, <2>7, <2>8 DEF Next, SessionThread, Pumping, Server
<1>3. QED
  BY <1>1, <1>2, Invariance, PTL DEF Spec, ReassembledWhole, Updates!Spec

\* The input the user produces reaches the server in the order it was produced,
\* each batch once, as long as the server has not closed the connection: what is
\* delivered and what is still queued is always all that was typed, encoded as
\* mouse events (the mpsc channel, send_input).
THEOREM InputInOrder == Spec => []InputKept
<1>1. Init => InputInv
  <2> SUFFICES ASSUME Init PROVE InputInv
    OBVIOUS
  <2> DEFINE e == <<>>
  <2>1. e \in Seq(BOOLEAN) /\ e \in Seq(Batch) /\ Len(e) = 0 /\ e \o e = e
    BY EmptySeq, ConcatEmptySeq
  <2>2. typed = e /\ queue = e /\ delivered = e
    BY DEF Init
  <2>3. Encoded(e) = e
    BY DEF Encoded
  <2> HIDE DEF e
  <2>4. QED
    BY <2>1, <2>2, <2>3 DEF InputInv, InputKept
<1>2. ASSUME InputInv, [Next]_vars PROVE InputInv'
  <2>1. typed \in Seq(BOOLEAN) /\ queue \in Seq(Batch) /\ delivered \in Seq(Batch) /\ InputKept
    BY <1>2 DEF InputInv
  <2>2. CASE UNCHANGED <<typed, queue, delivered>> /\ (closed => closed')
    BY <2>1, <2>2 DEF InputInv, InputKept
  <2>3. CASE send_input
    <3>1. queue # <<>> /\ queue' = Tail(queue) /\ typed' = typed /\ closed' = closed
      BY <2>3 DEF send_input, server
    <3>2. /\ Append(delivered, Head(queue)) \in Seq(Batch) /\ Tail(queue) \in Seq(Batch)
          /\ Append(delivered, Head(queue)) \o Tail(queue) = delivered \o queue
      BY <2>1, <3>1, BatchMoves
    <3>3. CASE delivered' = Append(delivered, Head(queue))
      BY <2>1, <3>1, <3>2, <3>3 DEF InputInv, InputKept
    <3>4. CASE closed /\ delivered' = delivered
      BY <2>1, <3>1, <3>2, <3>4 DEF InputInv, InputKept
    <3>5. QED
      BY <2>3, <3>3, <3>4 DEF send_input
  <2>4. CASE repaint
    <3>1. closed' = closed /\ delivered' = delivered
      BY <2>4 DEF repaint, server
    <3>2. CASE UNCHANGED <<queue, typed>>
      BY <2>2, <3>1, <3>2
    <3>3. CASE \E p \in BOOLEAN : /\ queue' = Append(queue, PointerFlags(p))
                                  /\ typed' = Append(typed, p)
      <4>1. PICK p \in BOOLEAN : /\ queue' = Append(queue, PointerFlags(p))
                                 /\ typed' = Append(typed, p)
        BY <3>3
      <4>2. PointerFlags(p) \in Batch /\ Encoded(typed') = Append(Encoded(typed), PointerFlags(p))
        BY <2>1, <4>1, EncodedMore
      <4>3. /\ queue' \in Seq(Batch)
            /\ delivered \o queue' = Append(delivered \o queue, PointerFlags(p))
        BY <2>1, <4>1, <4>2, BatchQueued
      <4>4. typed' \in Seq(BOOLEAN)
        BY <2>1, <4>1, AppendProperties
      <4>5. QED
        BY <2>1, <3>1, <4>2, <4>3, <4>4 DEF InputInv, InputKept
    <3>4. QED
      BY <2>4, <3>2, <3>3 DEF repaint
  <2>5. CASE UNCHANGED vars
    BY <2>2, <2>5 DEF vars, server
  <2>6. CASE connect \/ pump \/ poll_timeout \/ poll_frame \/ read_frame_body \/ read_eof
    BY <2>2, <2>6 DEF connect, pump, poll_timeout, poll_frame, read_frame_body, read_eof, server
  <2>7. CASE repaint_error
    BY <2>2, <2>7 DEF repaint_error, server
  <2>8. CASE Server
    BY <2>2, <2>8 DEF Server, server_single, server_last, server_next, server_end, server_close,
                      server_frame, server_first, server_stray, server
  <2>9. QED
    BY <1>2, <2>3, <2>4, <2>5, <2>6, <2>7, <2>8 DEF Next, SessionThread, Pumping
<1>3. InputInv => InputKept
  BY DEF InputInv
<1>4. QED
  BY <1>1, <1>2, <1>3, PTL DEF Spec
=============================================================================
