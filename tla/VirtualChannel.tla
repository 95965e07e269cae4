--------------------------- MODULE VirtualChannel ---------------------------
(***************************************************************************)
(* Static virtual channel framing: vchannel.rs as operators.  A message is *)
(* a sequence of units; a chunk is what a CHANNEL_PDU_HEADER says of it    *)
(* and the units it carries.                                               *)
(***************************************************************************)
EXTENDS Integers, Sequences

CONSTANT CHANNEL_CHUNK_LENGTH        \* 1600 bytes in the code

ASSUME ChunkAssumption == CHANNEL_CHUNK_LENGTH \in Nat \ {0}

\* short: not even eight bytes of header
Chunk(total, first, last, data) ==
  [total |-> total, first |-> first, last |-> last, data |-> data, short |-> FALSE]
ShortChunk == [Chunk(0, FALSE, FALSE, <<>>) EXCEPT !.short = TRUE]

wrap(data) == Chunk(Len(data), TRUE, TRUE, data)

IsLast(data, end) == end = Len(data)

\* The chunk at an offset of a message too long for one
ChunkAt(data, offset) ==
  LET past == offset + CHANNEL_CHUNK_LENGTH
      end  == IF past < Len(data) THEN past ELSE Len(data)
  IN Chunk(Len(data), offset = 0, IsLast(data, end), SubSeq(data, offset + 1, end))

chunk(data) ==
  IF Len(data) <= CHANNEL_CHUNK_LENGTH THEN <<wrap(data)>>
  ELSE [i \in 1..((Len(data) + CHANNEL_CHUNK_LENGTH - 1) \div CHANNEL_CHUNK_LENGTH) |->
          ChunkAt(data, (i - 1) * CHANNEL_CHUNK_LENGTH)]

-----------------------------------------------------------------------------
NewReassembler == [buffer |-> <<>>, expected |-> 0, in_progress |-> FALSE]

\* Mutant: FIRST does not clear the buffer
StartKept(r, pdu) ==
  IF pdu.first
  THEN [buffer |-> r.buffer, expected |-> pdu.total, in_progress |-> TRUE]
  ELSE r

\* A FIRST chunk discards what is in progress
Start(r, pdu) ==
  IF pdu.first THEN [buffer |-> <<>>, expected |-> pdu.total, in_progress |-> TRUE] ELSE r

\* Mutant: a message may not be given up for another
RejectsRestart(r, pdu) ==
  pdu.short \/ (pdu.first /\ r.in_progress) \/ ~Start(r, pdu).in_progress

\* push returns an error
Rejects(r, pdu) == pdu.short \/ ~Start(r, pdu).in_progress

\* The message push returns: none or one.  `expected' is not looked at
Complete(r, pdu) ==
  IF ~Rejects(r, pdu) /\ pdu.last THEN <<Start(r, pdu).buffer \o pdu.data>> ELSE <<>>

\* The reassembler after push
push(r, pdu) ==
  CASE Rejects(r, pdu) -> r
    [] ~Rejects(r, pdu) /\ pdu.last ->
         [Start(r, pdu) EXCEPT !.buffer = <<>>, !.in_progress = FALSE]
    [] OTHER -> [Start(r, pdu) EXCEPT !.buffer = @ \o pdu.data]
=============================================================================
