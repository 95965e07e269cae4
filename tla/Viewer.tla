------------------------------- MODULE Viewer -------------------------------
(***************************************************************************)
(* The viewer: the session thread of examples/viewer.rs, which connects,   *)
(* then alternates between forwarding input and RdpSession::pump; the UI   *)
(* thread, which repaints from the SharedFrame and queues input; with      *)
(* TlsTransport::poll_frame and the Display underneath.                    *)
(*                                                                         *)
(* The mutex guards each access of the SharedFrame, so such an access is   *)
(* one step.  The server (external) sends frames byte by byte as far as    *)
(* the client can tell: the last frame of `net' may have only begun        *)
(* (`half').  It fragments updates as it likes, across frames and with     *)
(* whole updates in between, and may start over or continue an update it   *)
(* has not begun; it may close.                                            *)
(***************************************************************************)
EXTENDS Display

CONSTANTS Codes,           \* update codes the server sends
          MaxUpdates,      \* updates the server starts (bound)
          MaxParts,        \* fragments of an update (bound)
          MaxFrames,       \* frames the server sends (bound)
          MaxPieces,       \* updates in a frame (bound)
          MaxBatches       \* input batches the user produces (bound)

ASSUME ViewerAssumption ==
  /\ Codes \subseteq UpdateCode
  /\ MaxUpdates \in Nat /\ MaxParts \in Nat /\ MaxFrames \in Nat
  /\ MaxPieces \in Nat /\ MaxBatches \in Nat

VARIABLES thread,          \* what the session thread does next
          display,         \* RdpSession.display
          rgba, generation, error,          \* SharedFrame
          texture, last_generation, shown,  \* Viewer; the error it shows
          queue,           \* the batches of the mpsc channel no one has taken
          net, half,       \* frames on their way; is the last one incomplete?
          closed,          \* the server has closed the connection
          open,            \* the update the server is sending in fragments
          frames, started, \* counters, for the bounds
          made,            \* history: updates the server has sent completely
          done,            \* history: updates handed to Display::process
          typed, delivered \* history: input batches queued, received by the server

session == <<thread, display>>
shared == <<rgba, generation, error>>
ui == <<texture, last_generation, shown>>
server == <<closed, open, frames, started, made>>
vars == <<session, shared, ui, server, queue, net, half, done, typed, delivered>>

None == "none"
NoUpdate == [code |-> NoCode, id |-> 0, part |-> 0]

-----------------------------------------------------------------------------
(* The session thread *)

\* Mutant: the loop is left without telling the UI
EndsSilently == thread' = "ended" /\ UNCHANGED shared

\* Err(e) from connect or from pump: the error is published and the thread ends
Ends ==
  /\ thread' = "ended"
  /\ error' = "session ended"
  /\ UNCHANGED <<rgba, generation>>

\* A panic unwinds the thread without a word: nothing catches it, the lock is not
\* held, and the SharedFrame stays as it is
Unwinds == thread' = "panicked" /\ UNCHANGED shared

\* RdpSession::connect (SessionConnect), whose error is shown like the session's
connect ==
  /\ thread = "connect"
  /\ \/ thread' = "input" /\ UNCHANGED shared
     \/ Ends
  /\ UNCHANGED <<display, ui, server, queue, net, half, done, typed, delivered>>

\* while let Ok(events) = input_rx.try_recv(): one batch, whatever send_input says.
\* The write ends when the server takes what is written, or the connection is lost
send_input ==
  /\ thread = "input" /\ queue # <<>>
  /\ queue' = Tail(queue)
  /\ \/ delivered' = Append(delivered, Head(queue))
     \/ closed /\ UNCHANGED delivered
  /\ UNCHANGED <<session, shared, ui, server, net, half, done, typed>>

\* The queue is empty: on to pump, which clears dirty and polls
pump ==
  /\ thread = "input" /\ queue = <<>>
  /\ thread' = "poll"
  /\ display' = [display EXCEPT !.dirty = FALSE]
  /\ UNCHANGED <<shared, ui, server, queue, net, half, done, typed, delivered>>

\* Mutant: the socket stays blocking while the first byte is polled
NeverTimesOut == FALSE

\* poll_frame finds no byte within its 50 ms
poll_timeout ==
  /\ thread = "poll" /\ net = <<>> /\ ~closed
  /\ thread' = "input"
  /\ UNCHANGED <<display, shared, ui, server, queue, net, half, done, typed, delivered>>

\* poll_frame has the first byte and reads the rest without a timeout
poll_frame ==
  /\ thread = "poll" /\ net # <<>>
  /\ thread' = "body"
  /\ UNCHANGED <<display, shared, ui, server, queue, net, half, done, typed, delivered>>

\* Mutant: the generation is not stepped
PublishesSameGeneration ==
  /\ rgba' = display'.framebuffer
  /\ UNCHANGED <<generation, error>>

\* Ok(true) from pump: a snapshot and the next generation, under the lock
Publishes ==
  /\ rgba' = display'.framebuffer
  /\ generation' = generation + 1
  /\ UNCHANGED error

\* The first frame of net has arrived completely
Complete == net # <<>> /\ (Len(net) > 1 \/ ~half)

\* The whole frame has been read: parse_output_pdu and apply_all for a fast-path
\* frame, nothing for a slow-path one
read_frame_body ==
  /\ thread = "body" /\ Complete
  /\ net' = Tail(net)
  /\ LET f == Head(net)
         a == apply_all(display, f.updates)
     IN \/ /\ f.kind = "slow"
           /\ thread' = "input"
           /\ UNCHANGED <<display, shared, done>>
        \/ /\ f.kind = "malformed"
           /\ Ends
           /\ UNCHANGED <<display, done>>
        \/ /\ f.kind = "fast"
           /\ display' = a.display
           /\ done' = done \o a.done
           /\ \/ ~a.ok /\ ~Panicked(a) /\ Ends
              \/ Panicked(a) /\ Unwinds
              \/ a.ok /\ a.display.dirty /\ thread' = "input" /\ Publishes
              \/ a.ok /\ ~a.display.dirty /\ thread' = "input" /\ UNCHANGED shared
  /\ UNCHANGED <<ui, server, queue, half, typed, delivered>>

\* End of stream, before or within a frame
read_eof ==
  /\ closed
  /\ \/ thread = "poll" /\ net = <<>>
     \/ thread = "body" /\ Len(net) = 1 /\ half
  /\ Ends
  /\ UNCHANGED <<display, ui, server, queue, net, half, done, typed, delivered>>

Pumping == pump \/ poll_timeout \/ poll_frame \/ read_frame_body \/ read_eof

SessionThread == send_input \/ Pumping

-----------------------------------------------------------------------------
(* The UI thread *)

\* The texture is uploaded when the generation is new; width is 0 until the first
Texture == IF generation # last_generation THEN rgba ELSE texture

\* pointerFlags of the mouse event: DOWN and BUTTON1 while the button is held
PointerFlags(pressed) == IF pressed THEN {"MOVE", "DOWN", "BUTTON1"} ELSE {"MOVE"}

\* ui of a repaint that shows the error: no other is requested
repaint_error ==
  /\ error # None /\ ~shown
  /\ shown' = TRUE
  /\ UNCHANGED <<session, shared, texture, last_generation, server, queue, net, half,
                 done, typed, delivered>>

\* ui of any other repaint; input is queued only once there is a texture, and
\* only if there is any
repaint ==
  /\ error = None
  /\ texture' = Texture
  /\ last_generation' = generation
  /\ \/ UNCHANGED <<queue, typed>>
     \/ /\ last_generation' > 0
        /\ Len(typed) < MaxBatches
        /\ \E pressed \in BOOLEAN :
             /\ queue' = Append(queue, PointerFlags(pressed))
             /\ typed' = Append(typed, pressed)
  /\ UNCHANGED <<session, shared, shown, server, net, half, done, delivered>>

-----------------------------------------------------------------------------
(* The server (external) *)

\* There is a session thread to receive; it drops the connection when it goes
Connected == thread \in {"input", "poll", "body"}

\* Appends a piece to the frame being sent
SendPiece(u) ==
  /\ Connected
  /\ half /\ net # <<>> /\ net[Len(net)].kind = "fast"
  /\ Len(net[Len(net)].updates) < MaxPieces
  /\ net' = [net EXCEPT ![Len(net)].updates = Append(@, u)]

Update(code, frag, id, part) ==
  [update_code |-> code, fragmentation |-> frag, data |-> <<<<id, part>>>>]

\* Starts a frame
server_frame(kind) ==
  /\ Connected /\ ~closed /\ ~half /\ frames < MaxFrames
  /\ net' = Append(net, [kind |-> kind, updates |-> <<>>])
  /\ half' = TRUE /\ frames' = frames + 1
  /\ UNCHANGED <<session, shared, ui, queue, closed, open, started, made, done, typed,
                 delivered>>

server_single(code) ==
  /\ ~closed /\ started < MaxUpdates
  /\ SendPiece(Update(code, "SINGLE", started + 1, 1))
  /\ started' = started + 1
  /\ made' = Append(made, [update_code |-> code, data |-> <<<<started + 1, 1>>>>])
  /\ UNCHANGED <<session, shared, ui, queue, half, closed, open, frames, done, typed,
                 delivered>>

server_first(code) ==
  /\ ~closed /\ started < MaxUpdates
  /\ SendPiece(Update(code, "FIRST", started + 1, 1))
  /\ started' = started + 1
  /\ open' = [code |-> code, id |-> started + 1, part |-> 1]
  /\ UNCHANGED <<session, shared, ui, queue, half, closed, frames, made, done, typed,
                 delivered>>

server_next ==
  /\ ~closed /\ open # NoUpdate /\ open.part < MaxParts - 1
  /\ SendPiece(Update(open.code, "NEXT", open.id, open.part + 1))
  /\ open' = [open EXCEPT !.part = @ + 1]
  /\ UNCHANGED <<session, shared, ui, queue, half, closed, frames, started, made, done,
                 typed, delivered>>

server_last ==
  /\ ~closed /\ open # NoUpdate
  /\ SendPiece(Update(open.code, "LAST", open.id, open.part + 1))
  /\ open' = NoUpdate
  /\ made' = Append(made, [update_code |-> open.code,
                           data |-> [i \in 1..(open.part + 1) |-> <<open.id, i>>]])
  /\ UNCHANGED <<session, shared, ui, queue, half, closed, frames, started, done, typed,
                 delivered>>

\* A NEXT or LAST that continues nothing; its payload is told by part 0
server_stray(frag) ==
  /\ ~closed /\ open = NoUpdate /\ started < MaxUpdates
  /\ SendPiece(Update(NoCode, frag, started + 1, 0))
  /\ started' = started + 1
  /\ UNCHANGED <<session, shared, ui, queue, half, closed, open, frames, made, done, typed,
                 delivered>>

\* Completes the frame
server_end ==
  /\ Connected /\ half /\ ~closed
  /\ half' = FALSE
  /\ UNCHANGED <<session, shared, ui, server, queue, net, done, typed, delivered>>

server_close ==
  /\ Connected /\ ~closed
  /\ closed' = TRUE
  /\ UNCHANGED <<session, shared, ui, queue, net, half, open, frames, started, made, done,
                 typed, delivered>>

Server ==
  \/ \E kind \in {"fast", "slow", "malformed"} : server_frame(kind)
  \/ \E code \in Codes : server_single(code) \/ server_first(code)
  \/ server_next \/ server_last
  \/ \E frag \in {"NEXT", "LAST"} : server_stray(frag)
  \/ server_end \/ server_close

-----------------------------------------------------------------------------
Init ==
  /\ thread = "connect" /\ display = NewDisplay
  /\ rgba = NoData /\ generation = 0 /\ error = None
  /\ texture = NoData /\ last_generation = 0 /\ shown = FALSE
  /\ queue = <<>> /\ net = <<>> /\ half = FALSE /\ closed = FALSE
  /\ open = NoUpdate /\ frames = 0 /\ started = 0
  /\ made = <<>> /\ done = <<>> /\ typed = <<>> /\ delivered = <<>>

Next == connect \/ SessionThread \/ repaint_error \/ repaint \/ Server

Spec == Init /\ [][Next]_vars

\* Both threads are scheduled; the UI repaints because every ui that shows no
\* error requests another.  Nothing is assumed of the server: a write it never
\* takes blocks send_input, and a frame it never completes read_frame_body.
FairSpec ==
  Spec /\ WF_vars(Pumping) /\ WF_vars(repaint_error) /\ WF_vars(repaint)

\* The server takes what the session writes to it
WritesEnd == WF_vars(send_input)

-----------------------------------------------------------------------------
(* Properties *)

TypeOK ==
  /\ thread \in {"connect", "input", "poll", "body", "ended", "panicked"}
  /\ (thread = "ended") = (error # None)
  /\ thread = "body" => net # <<>>
  /\ display.frag_code \in UpdateCode \cup {NoCode}
  /\ last_generation \in 0..generation
  /\ \A i \in 1..Len(net) : Len(net[i].updates) <= MaxPieces

\* An update all of whose pieces belong to one
Proper(u) == \A i \in 1..Len(u.data) : u.data[i][2] # 0

\* Those of the updates us
Whole(us) ==
  LET kept[i \in 0..Len(us)] ==
        IF i = 0 THEN <<>>
        ELSE IF Proper(us[i]) THEN Append(kept[i - 1], us[i]) ELSE kept[i - 1]
  IN kept[Len(us)]

Updates == INSTANCE FifoDelivery
             WITH Channel  <- {"update"},
                  sent     <- [c \in {"update"} |-> made],
                  received <- [c \in {"update"} |-> Whole(done)]

\* The display implements ordered delivery: however an update is cut into
\* fragments, whatever whole updates come in between, after one the server
\* abandoned and after a NEXT or LAST without a FIRST, process gets each payload
\* complete, under its own code and in order; what a stray fragment brings it
\* never mixes with an update (Display::apply, read_frame_body).
ReassembledWhole == Updates!Spec

\* No repaint is left behind in the session: when its thread is back at the top
\* of the loop, the shared snapshot is the framebuffer (pump's dirty flag).
PublishedIsCurrent ==
  thread \in {"input", "poll"} => rgba = display.framebuffer

\* The window catches up: again and again it shows the framebuffer as it is, or
\* in the end the error of the session (generation, request_repaint).  Not so if
\* a decoder panics: the thread is gone, and no error says so.
EventuallyShown ==
  []<>(shown \/ (error = None /\ texture = display.framebuffer) \/ thread = "panicked")

\* The n-th batch has arrived as the n-th
Arrived(n) == Len(delivered) >= n /\ delivered[n] = PointerFlags(typed[n])

\* As long as the server takes what is written to it and finishes the frames it
\* starts, a batch of input reaches it or the session ends, with an error or by a
\* panic of a decoder; and batches arrive in the order they were typed (the
\* try_recv loop).
InputDelivered ==
  WritesEnd /\ []<>~half =>
    \A n \in 1..MaxBatches :
      (Len(typed) >= n) ~> (error # None \/ thread = "panicked" \/ Arrived(n))

\* What poll_frame is documented to allow: input is sent in between, whatever the
\* server sends and as long as it takes what is written, because a poll waits at
\* most its timeout (poll_frame).
InputNotBlocked ==
  WritesEnd => ((queue # <<>>) ~> (queue = <<>> \/ error # None))

\* The button as the server sees it after these mouse events: a press is DOWN with
\* BUTTON1, a release is BUTTON1 alone ([MS-RDPBCGR] 2.2.8.1.2.2.3)
RemoteButton(events) ==
  \E i \in 1..Len(events) :
    /\ "DOWN" \in events[i]
    /\ \A j \in (i + 1)..Len(events) : ~("BUTTON1" \in events[j] /\ "DOWN" \notin events[j])

\* The viewer forwards the mouse: once all input has arrived, the server holds the
\* button down only if the user did at the last event (ui, mouse_event).
ButtonForwarded ==
  typed # <<>> /\ Len(delivered) = Len(typed) =>
    RemoteButton(delivered) = typed[Len(typed)]
=============================================================================
