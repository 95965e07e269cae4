---------------------------- MODULE SurfaceStore ----------------------------
(***************************************************************************)
(* The EGFX surface store: egfx.rs as operators on a record.  A command is *)
(* [k, id, x]: its kind, its surface, and where the surface is mapped or   *)
(* what is painted.  A surface is the sequence of what has been painted    *)
(* onto it since it was created.                                           *)
(***************************************************************************)
EXTENDS Integers, Sequences

Command(k, id, x) == [k |-> k, id |-> id, x |-> x]

\* Kinds of command, WireToSurface1 told apart by what decode_surface_bits makes
\* of the bits: uncompressed or planar ones that decode, ones that do not, and
\* those of H.264 or another codec; `Other' stands for all the client does nothing
\* with, `Bad' for a PDU parse_command rejects
CommandKind == {"CreateSurface", "DeleteSurface", "MapSurfaceToOutput", "WireToSurface1",
                "WireToSurface1 undecodable", "WireToSurface1 unsupported", "Other", "Bad"}

Surface(s) == DOMAIN s.surfaces

NewSurfaceStore == [surfaces |-> <<>>, mapped |-> <<>>]

Put(f, id, v) == [i \in DOMAIN f \cup {id} |-> IF i = id THEN v ELSE f[i]]
Remove(f, id) == [i \in DOMAIN f \ {id} |-> f[i]]

\* parse_all: the whole message or an error
parse_all_fails(cmds) == \E i \in 1..Len(cmds) : cmds[i].k = "Bad"

\* apply returns an error
Fails(s, c) ==
  \/ c.k = "WireToSurface1" /\ c.id \notin Surface(s)
  \/ c.k \in {"WireToSurface1 undecodable", "WireToSurface1 unsupported"}

\* Mutant: deleting a surface leaves its mapping
apply_keeps_mapping(s, c) ==
  CASE c.k = "CreateSurface"      -> [s EXCEPT !.surfaces = Put(@, c.id, <<>>)]
    [] c.k = "DeleteSurface"      -> [s EXCEPT !.surfaces = Remove(@, c.id)]
    [] c.k = "MapSurfaceToOutput" -> [s EXCEPT !.mapped = Put(@, c.id, c.x)]
    [] c.k = "WireToSurface1" /\ ~Fails(s, c) ->
         [s EXCEPT !.surfaces = Put(@, c.id, Append(@[c.id], c.x))]
    [] OTHER -> s

apply(s, c) ==
  CASE c.k = "CreateSurface"      -> [s EXCEPT !.surfaces = Put(@, c.id, <<>>)]
    [] c.k = "DeleteSurface"      -> [surfaces |-> Remove(s.surfaces, c.id),
                                      mapped   |-> Remove(s.mapped, c.id)]
    [] c.k = "MapSurfaceToOutput" -> [s EXCEPT !.mapped = Put(@, c.id, c.x)]
    [] c.k = "WireToSurface1" /\ ~Fails(s, c) ->
         [s EXCEPT !.surfaces = Put(@, c.id, Append(@[c.id], c.x))]
    [] OTHER -> s
=============================================================================
