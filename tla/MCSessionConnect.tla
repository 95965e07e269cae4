-------------------------- MODULE MCSessionConnect --------------------------
(* A server that grants the one channel connect asks for, drdynvc, under the *)
(* id it assigned to it or under another.                                    *)
EXTENDS SessionConnect
MCSelections == {{}, {"SSL"}, {"HYBRID"}, {"HYBRID_EX"}, {"HYBRID", "HYBRID_EX"}}
MCOffers == {[channel_ids |-> <<1004>>, message_channel_id |-> 0]}
MCRenames == {[asked |-> 1004, confirmed |-> c] : c \in {1004, 1099}}
=============================================================================
