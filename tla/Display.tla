------------------------------ MODULE Display ------------------------------
(***************************************************************************)
(* The Display of graphics/update.rs as operators on a record: what one    *)
(* fast-path update does to the framebuffer, the cursor, the dirty flag    *)
(* and the buffer that reassembles fragmented updates.                     *)
(*                                                                         *)
(* A payload is a sequence of opaque pieces, one per fragment it was sent  *)
(* in.  The code says what the update is and whether its payload decodes;  *)
(* the framebuffer, the cursor and its position are the last payload each  *)
(* was given.                                                              *)
(***************************************************************************)
EXTENDS Integers, Sequences

\* fragmentation of an update (updateHeader bits 4-5)
Fragmentation == {"SINGLE", "FIRST", "NEXT", "LAST"}

\* Update codes, told apart by what process makes of the payload:
\* a bitmap update with at least one rectangle that decodes, with none, one that
\* parse_bitmap_update rejects, and one with a rectangle on which the decoder
\* panics (Rle and Planar say which do); a cursor shape that decodes or not; the
\* null pointer; a pointer position, complete or short; the codes not handled
UpdateCode == {"BITMAP", "BITMAP undecodable", "BITMAP malformed", "BITMAP panics",
               "POINTER", "POINTER malformed", "PTR_NULL",
               "PTR_POSITION", "PTR_POSITION short", "other"}

NoData == <<>>
NoCode == "none"

NewDisplay ==
  [framebuffer |-> NoData, cursor |-> NoData, cursor_pos |-> NoData, dirty |-> FALSE,
   frag |-> NoData, frag_code |-> NoCode]

\* process returns an error, which ends the session
Malformed(code) == code \in {"BITMAP malformed", "POINTER malformed"}

\* process does not return
Panics(code) == code = "BITMAP panics"

\* Mutant: a cursor does not count as a change, and neither does a repaint
PaintsSilently(d, code, data) ==
  CASE code = "BITMAP"   -> [d EXCEPT !.framebuffer = data]
    [] code = "POINTER"  -> [d EXCEPT !.cursor = data]
    [] code = "PTR_NULL" -> [d EXCEPT !.cursor = NoData]
    [] code = "PTR_POSITION" -> [d EXCEPT !.cursor_pos = data]
    [] OTHER             -> d

\* Decode and apply a complete payload
process(d, code, data) ==
  CASE code = "BITMAP"   -> [d EXCEPT !.framebuffer = data, !.dirty = TRUE]
    [] code = "POINTER"  -> [d EXCEPT !.cursor = data, !.dirty = TRUE]
    [] code = "PTR_NULL" -> [d EXCEPT !.cursor = NoData, !.dirty = TRUE]
    [] code = "PTR_POSITION" -> [d EXCEPT !.cursor_pos = data, !.dirty = TRUE]
    [] OTHER             -> d

\* Mutant: FIRST does not clear what an unfinished update left behind
NotCleared(d, u) ==
  CASE u.fragmentation = "FIRST" ->
         [d EXCEPT !.frag = @ \o u.data, !.frag_code = u.update_code]
    [] u.fragmentation \in {"NEXT", "LAST"} -> [d EXCEPT !.frag = @ \o u.data]
    [] OTHER -> d

\* The reassembly buffer once the fragment of u is in it
Gather(d, u) ==
  CASE u.fragmentation = "FIRST" ->
         [d EXCEPT !.frag = u.data, !.frag_code = u.update_code]
    [] u.fragmentation \in {"NEXT", "LAST"} -> [d EXCEPT !.frag = @ \o u.data]
    [] OTHER -> d

\* The complete updates u brings to process: at most one
Completed(d, u) ==
  CASE u.fragmentation = "SINGLE" -> <<[update_code |-> u.update_code, data |-> u.data]>>
    [] u.fragmentation = "LAST" ->
         LET g == Gather(d, u) IN <<[update_code |-> g.frag_code, data |-> g.frag]>>
    [] OTHER -> <<>>

\* apply: the new display, the update handed to process, and whether process
\* returned Ok
apply(d, u) ==
  LET g    == Gather(d, u)
      kept == IF u.fragmentation = "LAST" THEN [g EXCEPT !.frag = NoData] ELSE g
      done == Completed(d, u)
  IN [display |-> IF done = <<>> THEN kept
                  ELSE process(kept, done[1].update_code, done[1].data),
      done    |-> done,
      ok      |-> \A i \in 1..Len(done) :
                    ~Malformed(done[i].update_code) /\ ~Panics(done[i].update_code)]

\* apply_all: every update in turn, up to the first that fails or panics
apply_all(d, updates) ==
  LET after[i \in 0..Len(updates)] ==
        IF i = 0 THEN [display |-> d, done |-> <<>>, ok |-> TRUE]
        ELSE IF ~after[i - 1].ok THEN after[i - 1]
        ELSE LET a == apply(after[i - 1].display, updates[i]) IN
             [a EXCEPT !.done = after[i - 1].done \o @]
  IN after[Len(updates)]

\* The update that stopped apply_all did so by a panic
Panicked(a) == ~a.ok /\ Panics(a.done[Len(a.done)].update_code)
=============================================================================
