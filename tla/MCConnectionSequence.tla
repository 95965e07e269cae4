------------------------ MODULE MCConnectionSequence ------------------------
(* A server with one virtual channel, which it confirms under another id,  *)
(* and one with two virtual channels (the second has the id of the user    *)
(* channel 1007) and a message channel.                                    *)
EXTENDS ConnectionSequence
MCOffers ==
  {[channel_ids |-> <<1005>>, message_channel_id |-> 0],
   [channel_ids |-> <<1004, 1007>>, message_channel_id |-> 1006]}
MCRenames == {[asked |-> 1005, confirmed |-> 1099]}
=============================================================================
