------------------------- MODULE MCGraphicsChannel -------------------------
(* Payloads that make messages of one unit, one full chunk, one unit more, *)
(* and two full chunks.                                                    *)
EXTENDS GraphicsChannel
Unit(n) == Command("Other", n, 0)
MCPayloads == {<<>>, <<Unit(1)>>, <<Unit(1), Unit(2)>>, <<Unit(1), Unit(2), Unit(3)>>}
=============================================================================
