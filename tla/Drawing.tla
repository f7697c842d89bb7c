------------------------------ MODULE Drawing -------------------------------
(***************************************************************************)
(* Screen updates: Client.handleDraw (client/client.go) and the shared     *)
(* memory some of them come through (client/mmap.go).                      *)
(*                                                                         *)
(* The server writes pixels into a ring both processes map, and sends a    *)
(* draw packet that names them.  The client paints straight from the ring, *)
(* publishes how far it has read in the ring's header, and acknowledges.   *)
(* The server writes on while the client paints, wherever the published    *)
(* cursor says there is room.                                              *)
(***************************************************************************)
EXTENDS Naturals, Sequences, Functions

CONSTANTS
  Size,        \* cells of the ring
  WriteQueue,  \* capacity of the connection's write queue
  MaxDraws     \* bound: draws the server sends

\* What the constants have to satisfy.
DrawingAssumption ==
  /\ Size \in Nat \ {0, 1}
  /\ WriteQueue \in Nat \ {0}
  /\ MaxDraws \in Nat

Cells == 0..(Size - 1)

VARIABLES
  ring,       \* the draw each cell was last written for
  cursor,     \* the read cursor in the ring's header
  writer,     \* where the server writes next
  inbox,      \* draw packets received and not handled
  handling,   \* how far handleDraw is with its packet
  draw,       \* that packet
  pixels,     \* what readChunks returned: a copy, or the ring itself
  window,     \* the packet's window exists
  outbound,   \* acknowledgements in the write queue
  acks,       \* acknowledgements the server got
  sent,       \* history: draws sent
  shown,      \* history: the last paint, and the cells it showed
  unread,     \* history: draws whose cells have not been given back
  lost        \* history: acknowledgements the full queue refused

serverVars == <<ring, writer, sent>>
ackVars == <<outbound, acks, lost>>
vars == <<serverVars, cursor, inbox, handling, draw, pixels, window, ackVars,
          shown, unread>>

NoDraw == [seq |-> 0, kind |-> "rgb", chunks |-> <<>>]
NoPixels == [copied |-> FALSE, cells |-> {}]

Init ==
  /\ ring = [c \in Cells |-> 0] /\ cursor = 0 /\ writer = 0 /\ sent = 0
  /\ inbox = <<>> /\ handling = "idle" /\ draw = NoDraw /\ pixels = NoPixels
  /\ window = TRUE
  /\ outbound = <<>> /\ acks = <<>> /\ lost = {}
  /\ shown = [seq |-> 0, cells |-> {0}] /\ unread = {}

-----------------------------------------------------------------------------
(* The server.  One cell always stays free, so that a full ring is not      *)
(* mistaken for an empty one; a cursor at the end stands for the start.    *)

Free == (cursor + Size - writer - 1) % Size

\* Up to the end of the ring, and on from its start.
ChunksAt(at, n) ==
  IF at + n <= Size THEN << [offset |-> at, length |-> n] >>
  ELSE << [offset |-> at, length |-> Size - at],
          [offset |-> 0, length |-> n - (Size - at)] >>

CellsOf(chunks) ==
  UNION {chunk.offset .. (chunk.offset + chunk.length - 1) : chunk \in Range(chunks)}

SendDraw(kind, chunks) ==
  /\ sent < MaxDraws
  /\ sent' = sent + 1
  /\ inbox' = Append(inbox, [seq |-> sent + 1, kind |-> kind, chunks |-> chunks])
  /\ UNCHANGED <<cursor, handling, draw, pixels, window, ackVars, shown>>

ServerDrawsMmap(n) ==
  LET chunks == ChunksAt(writer, n) IN
  /\ n <= Free
  /\ SendDraw("mmap", chunks)
  /\ ring' = [c \in Cells |-> IF c \in CellsOf(chunks) THEN sent + 1 ELSE ring[c]]
  /\ writer' = (writer + n) % Size
  /\ unread' = unread \cup {sent + 1}

\* Pixels within the packet, or mmap chunks the client refuses.
ServerDraws(kind) ==
  /\ SendDraw(kind, <<>>)
  /\ UNCHANGED <<ring, writer, unread>>

ServerGetsAck ==
  /\ outbound # <<>>
  /\ acks' = Append(acks, Head(outbound))
  /\ outbound' = Tail(outbound)
  /\ UNCHANGED <<serverVars, cursor, inbox, handling, draw, pixels, window, lost,
                 shown, unread>>

\* Between two draws the window is created or destroyed.
WindowChanges ==
  /\ handling = "idle"
  /\ window' = ~window
  /\ UNCHANGED <<serverVars, cursor, inbox, handling, draw, pixels, ackVars,
                 shown, unread>>

-----------------------------------------------------------------------------
(* handleDraw, step by step as the other process can see it.               *)

\* readChunks: one chunk is returned in place, two are joined in a copy.
readChunks(chunks) ==
  LET copied == Len(chunks) = 2 IN
  [copied |-> copied,
   cells |-> IF copied THEN {ring[c] : c \in CellsOf(chunks)} ELSE CellsOf(chunks)]

\* The offset behind the last chunk, which may be the end of the ring.
End(chunks) ==
  LET last == chunks[Len(chunks)] IN last.offset + last.length

\* Mutant: the region is handed back as soon as it has been looked up.
ReleaseOnRead ==
  /\ handling = "idle"
  /\ inbox # <<>>
  /\ inbox' = Tail(inbox)
  /\ draw' = Head(inbox)
  /\ IF draw'.kind = "mmap"
     THEN /\ pixels' = readChunks(draw'.chunks)
          /\ cursor' = End(draw'.chunks)
          /\ unread' = unread \ {draw'.seq}
     ELSE UNCHANGED <<pixels, cursor, unread>>
  /\ handling' = IF draw'.kind = "badMmap" THEN "acknowledging" ELSE "painting"
  /\ UNCHANGED <<serverVars, window, ackVars, shown>>

BeginDraw ==
  /\ handling = "idle"
  /\ inbox # <<>>
  /\ inbox' = Tail(inbox)
  /\ draw' = Head(inbox)
  /\ pixels' = IF draw'.kind = "mmap" THEN readChunks(draw'.chunks) ELSE NoPixels
  /\ handling' = IF draw'.kind = "badMmap" THEN "acknowledging" ELSE "painting"
  /\ UNCHANGED <<serverVars, cursor, window, ackVars, shown, unread>>

\* The contents a paint sees: those of the ring now, unless they were copied.
Seen == IF pixels.copied THEN pixels.cells ELSE {ring[c] : c \in pixels.cells}

\* The paint itself ...
PaintWindow ==
  /\ handling = "painting"
  /\ window
  /\ shown' = [seq |-> draw.seq,
               cells |-> IF draw.kind = "mmap" THEN Seen ELSE {draw.seq}]
  /\ handling' = "releasing"
  /\ UNCHANGED <<serverVars, cursor, inbox, draw, pixels, window, ackVars, unread>>

\* ... or any of the ways it fails: no window, a bad rowstride, an image that
\* does not decode, an encoding or compression never advertised.
PaintFails ==
  /\ handling = "painting"
  /\ handling' = "releasing"
  /\ UNCHANGED <<serverVars, cursor, inbox, draw, pixels, window, ackVars,
                 shown, unread>>

\* Mutant: without a window, nothing is released.
ReleaseIfPainted ==
  /\ handling = "releasing"
  /\ handling' = "acknowledging"
  /\ IF draw.kind = "mmap" /\ window
     THEN cursor' = End(draw.chunks) /\ unread' = unread \ {draw.seq}
     ELSE UNCHANGED <<cursor, unread>>
  /\ UNCHANGED <<serverVars, inbox, draw, pixels, window, ackVars, shown>>

\* ack publishes the read cursor first ...
Release ==
  /\ handling = "releasing"
  /\ handling' = "acknowledging"
  /\ IF draw.kind = "mmap"
     THEN cursor' = End(draw.chunks) /\ unread' = unread \ {draw.seq}
     ELSE UNCHANGED <<cursor, unread>>
  /\ UNCHANGED <<serverVars, inbox, draw, pixels, window, ackVars, shown>>

\* ... then queues the packet; Send drops it if the queue is full.
Ack ==
  /\ handling = "acknowledging"
  /\ handling' = "idle"
  /\ IF Len(outbound) < WriteQueue
     THEN outbound' = Append(outbound, draw.seq) /\ UNCHANGED lost
     ELSE lost' = lost \cup {draw.seq} /\ UNCHANGED outbound
  /\ UNCHANGED <<serverVars, cursor, inbox, draw, pixels, window, acks, shown, unread>>

handleDraw == BeginDraw \/ PaintWindow \/ PaintFails \/ Release \/ Ack

-----------------------------------------------------------------------------
Kinds == {"rgb", "mmap", "badMmap"}

Next ==
  \/ \E n \in Cells \ {0} : ServerDrawsMmap(n)
  \/ \E kind \in Kinds \ {"mmap"} : ServerDraws(kind)
  \/ ServerGetsAck
  \/ WindowChanges
  \/ handleDraw

Spec == Init /\ [][Next]_vars

-----------------------------------------------------------------------------
Chunk == [offset : Cells, length : 1..Size]
Draw == [seq : Nat, kind : Kinds, chunks : Seq(Chunk)]

RingOK ==
  /\ ring \in [Cells -> Nat] /\ cursor \in 0..Size /\ writer \in Cells
  /\ unread \subseteq Nat /\ sent \in Nat

DrawsOK ==
  /\ inbox \in Seq(Draw) /\ draw \in Draw
  /\ handling \in {"idle", "painting", "releasing", "acknowledging"}
  /\ pixels.copied \in BOOLEAN
  /\ window \in BOOLEAN
  /\ shown.seq \in Nat

AcksOK ==
  /\ outbound \in Seq(Nat) /\ Len(outbound) <= WriteQueue
  /\ acks \in Seq(Nat) /\ lost \subseteq Nat

TypeOK == RingOK /\ DrawsOK /\ AcksOK

\* What is painted is what the server wrote for that draw: it never overwrites
\* pixels the client still reads, neither in place nor across the ring's end.
PaintsWhatWasDrawn == shown.cells = {shown.seq}

\* "The mmap writer may reuse this region as soon as it observes the
\* acknowledgement, so publish the read cursor before queuing the ack."
PublishedBeforeAck == Range(acks \o outbound) \cap unread = {}

\* Every draw, painted or not, gives its part of the ring back: with nothing
\* under way, all of it is free.
RingDrains ==
  handling = "idle" /\ inbox = <<>> => cursor % Size = writer

\* Each draw is acknowledged once and in order, whatever became of it; only a
\* full write queue loses an acknowledgement.
AcknowledgedOnce ==
  LET all == acks \o outbound
      handled == sent - Len(inbox) - (IF handling = "idle" THEN 0 ELSE 1)
  IN  /\ \A i, j \in DOMAIN all : i < j => all[i] < all[j]
      /\ Range(all) \cup lost = 1..handled
=============================================================================
