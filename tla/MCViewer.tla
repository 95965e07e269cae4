------------------------------ MODULE MCViewer ------------------------------
(* Updates of up to three fragments in frames of up to two pieces. *)
EXTENDS Viewer
=============================================================================
