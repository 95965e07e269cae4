---------------------------- MODULE InputEvents -----------------------------
(***************************************************************************)
(* Fast-path input: a batch of keyboard and mouse events, each built by its*)
(* function of input.rs, joined by input_pdu and written by send_input; and*)
(* the server (external) that reads the PDU back.  A run of equal events is*)
(* kept as the event and how often it comes.                               *)
(***************************************************************************)
EXTENDS Integers, Sequences

CONSTANTS KeyCodes,        \* scancodes, each a byte
          Characters,      \* UTF-16 codes
          PointerFlags,    \* mouse flags
          Positions,       \* coordinates
          Bursts,          \* how often an event may repeat
          MaxBursts        \* how many of these a batch has (all of them bounds)

Word16 == 0..65535

ASSUME InputAssumption ==
  /\ KeyCodes \subseteq 0..255
  /\ Characters \cup PointerFlags \cup Positions \subseteq Word16
  /\ Bursts \subseteq Nat \ {0}
  /\ MaxBursts \in Nat

VARIABLES events,          \* the batch: the bytes of an event, how often, and how many
                           \* events and bytes come before it
          happened,        \* what the user did, in the same order
          sent_pdu,        \* header, length, the count byte if any, and its events
          understood,      \* what the server has read
          reading          \* "typing", "sent", then "read", "desync" or "malformed"

inputVars == <<events, happened, sent_pdu, understood, reading>>

-----------------------------------------------------------------------------
(* Events *)

event_header(code, flags) == (code * 32) + (flags % 32)
le16(v) == <<v % 256, v \div 256>>

\* The events of the batch and their bytes
num == IF events = <<>> THEN 0
       ELSE LET e == events[Len(events)] IN e.before + e.times
EventBytes == IF events = <<>> THEN 0
              ELSE LET e == events[Len(events)] IN e.start + Len(e.bytes) * e.times

\* One event, n times
Event(n, meaning, bytes) ==
  /\ reading = "typing" /\ Len(events) < MaxBursts
  /\ events' = Append(events, [bytes |-> bytes, times |-> n, before |-> num,
                              start |-> EventBytes])
  /\ happened' = Append(happened, [meaning |-> meaning, times |-> n])
  /\ UNCHANGED <<sent_pdu, understood, reading>>

\* KBDFLAGS_RELEASE is 1, KBDFLAGS_EXTENDED is 2
KeyFlags(pressed, extended) == (IF pressed THEN 0 ELSE 1) + (IF extended THEN 2 ELSE 0)

scancode_event(n, key, pressed, extended) ==
  Event(n, <<"scancode", KeyFlags(pressed, extended), key>>,
        <<event_header(0, KeyFlags(pressed, extended)), key>>)

unicode_event(n, code, pressed) ==
  Event(n, <<"unicode", KeyFlags(pressed, FALSE), code>>,
        <<event_header(4, KeyFlags(pressed, FALSE))>> \o le16(code))

mouse_event(n, flags, x, y) ==
  Event(n, <<"mouse", flags, x, y>>, <<event_header(1, 0)>> \o le16(flags) \o le16(x) \o le16(y))

mouse_x_event(n, flags, x, y) ==
  Event(n, <<"mousex", flags, x, y>>, <<event_header(2, 0)>> \o le16(flags) \o le16(x) \o le16(y))

-----------------------------------------------------------------------------
(* The PDU *)

\* Mutant: sixteen events are counted in the header too
InHeaderToSixteen(n) == n <= 16

\* The count has four bits in the header
InHeader(n) == n <= 15

\* Header byte, then the length of everything in one byte or two, the count byte if the
\* header has no room for it, and the events
input_pdu ==
  LET body == EventBytes + (IF InHeader(num) THEN 0 ELSE 1)
      base == 1 + body
      total == base + 2
  IN [header |-> IF InHeader(num) THEN (num * 4) % 256 ELSE 0,
      length |-> IF base + 1 < 128 THEN <<base + 1>>
                 ELSE <<128 + ((total \div 256) % 128), total % 256>>,
      count  |-> IF InHeader(num) THEN <<>> ELSE <<num % 256>>,
      events |-> events]

send_input ==
  /\ reading = "typing"
  /\ sent_pdu' = input_pdu
  /\ reading' = "sent"
  /\ UNCHANGED <<events, happened, understood>>

-----------------------------------------------------------------------------
(* The server (external) *)

\* An event's meaning by the code in its first byte
Meaning(b) ==
  LET code == b[1] \div 32
      word(k) == b[k] + (256 * b[k + 1])
  IN IF code = 0 THEN <<"scancode", b[1] % 32, b[2]>>
     ELSE IF code = 4 THEN <<"unicode", b[1] % 32, word(2)>>
     ELSE <<IF code = 1 THEN "mouse" ELSE "mousex", word(2), word(4), word(6)>>

\* How many bytes the PDU says it has, and how many it has
Announced ==
  IF Len(sent_pdu.length) = 1 THEN sent_pdu.length[1]
  ELSE ((sent_pdu.length[1] % 128) * 256) + sent_pdu.length[2]
Actual == 1 + Len(sent_pdu.length) + Len(sent_pdu.count) + EventBytes

\* The count, from the header or else from the byte after the length
Counted ==
  IF (sent_pdu.header \div 4) % 16 # 0 THEN (sent_pdu.header \div 4) % 16
  ELSE IF sent_pdu.count # <<>> THEN sent_pdu.count[1]
  ELSE -1

\* As many events as the count says
server_reads ==
  LET Reached == {k \in 1..Len(events) : events[k].before < Counted}
      here(k) == IF events[k].before + events[k].times <= Counted THEN events[k].times
                 ELSE Counted - events[k].before
  IN /\ reading = "sent"
     /\ UNCHANGED <<events, happened, sent_pdu>>
     /\ \/ /\ Announced # Actual
           /\ reading' = "desync"
           /\ UNCHANGED understood
        \/ /\ Announced = Actual /\ Counted < 0
           /\ reading' = "malformed"
           /\ UNCHANGED understood
        \/ /\ Announced = Actual /\ Counted >= 0
           /\ understood' = [k \in Reached |->
                               [meaning |-> Meaning(events[k].bytes), times |-> here(k)]]
           /\ reading' = "read"

-----------------------------------------------------------------------------
InputInit ==
  /\ events = <<>> /\ happened = <<>> /\ understood = <<>>
  /\ sent_pdu = <<>>
  /\ reading = "typing"

InputNext ==
  \/ \E n \in Bursts, key \in KeyCodes, pressed, extended \in BOOLEAN :
       scancode_event(n, key, pressed, extended)
  \/ \E n \in Bursts, code \in Characters, pressed \in BOOLEAN : unicode_event(n, code, pressed)
  \/ \E n \in Bursts, flags \in PointerFlags, x, y \in Positions : mouse_event(n, flags, x, y)
  \/ \E n \in Bursts, flags \in PointerFlags, x, y \in Positions : mouse_x_event(n, flags, x, y)
  \/ send_input \/ server_reads

-----------------------------------------------------------------------------
(* Properties *)

\* Every event reaches the server as it happened, in order and as often, in a batch of
\* one to 255 events, whether they are counted in the header or in a byte of their own
\* and whichever length form the PDU needs; a longer batch loses events but the stream
\* stays in step up to 2^15 bytes, and only an empty batch is malformed.
EventsArrive ==
  /\ reading = "read" /\ num <= 255 => understood = happened
  /\ reading = "malformed" => num = 0
  /\ reading = "desync" => Actual >= 32768
=============================================================================
