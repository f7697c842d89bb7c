-------------------------------- MODULE Conn --------------------------------
(***************************************************************************)
(* protocol/conn.go: a framed connection over a byte stream.               *)
(*                                                                         *)
(* Callers Send, Flush and Close from any goroutine.  The write loop       *)
(* drains a bounded queue into the socket; the read loop decodes frames,   *)
(* collects raw chunks and delivers packets on a buffered channel.  Either *)
(* loop may fail, and Close may come from a caller or from a failing loop, *)
(* at any point of the others' work.                                       *)
(***************************************************************************)
EXTENDS Naturals, Sequences, SequencesExt

CONSTANTS
  Callers,        \* goroutines calling Send, Flush and Close
  Reader, Writer, \* the two loops
  WriteQueue,     \* capacity of the writes channel
  PacketBuffer,   \* capacity of the packets channel
  MaxRawChunks,   \* maxRawChunks
  MaxFrames,      \* bound: frames accepted by Send
  MaxPackets,     \* bound: frames the peer sends
  MaxFlushes      \* bound: calls of Flush

Loops == {Reader, Writer}

ASSUME ConnAssumption ==
  /\ Reader # Writer
  /\ Loops \cap Callers = {}
  /\ "none" \notin Callers \cup Loops
  /\ WriteQueue \in Nat \ {0}
  /\ PacketBuffer \in Nat \ {0}
  /\ MaxRawChunks \in Nat \ {0}
  /\ MaxFrames \in Nat /\ MaxPackets \in Nat /\ MaxFlushes \in Nat

VARIABLES
  pc,          \* where each goroutine is
  writes,      \* the writes channel: frames and flush markers
  writing,     \* the frame the write loop is writing
  doneCh,      \* flushes whose done channel has been closed
  writtenCh,   \* the written channel is closed
  closedBy,    \* Conn.closed, remembering the goroutine that set it
  closing,     \* the closing channel is closed
  socket,      \* "open", "broken" (by the network) or "shut" (by us)
  err,         \* Conn.err: "none", or the loop that failed first
  chunks,      \* raw chunks waiting for their main packet
  packets,     \* buffered packets
  packetsClosed,
  peerEOF,     \* the stream has no more frames: the peer closed its side
  consuming,   \* somebody still receives from Packets
  arrived,     \* frames the peer has sent
  result,      \* what each caller's last call returned
  flushOf,     \* the number of each caller's last Flush
  before,      \* history: frames accepted before each caller's last Flush
  flushes,     \* history: calls of Flush
  ender,       \* history: who was the first to fail or to close
  queued,      \* history: frames accepted by Send
  written      \* history: frames written to the socket

writeVars == <<writes, writing, doneCh, writtenCh, queued, written>>
closeVars == <<closedBy, closing, socket, err, ender>>
readVars == <<chunks, packets, packetsClosed, peerEOF, consuming, arrived>>
callVars == <<result, flushOf, before, flushes>>
vars == <<pc, writeVars, closeVars, readVars, callVars>>

closed == closedBy # "none"

Frame(n) == [frame |-> n]
Marker(n) == [flush |-> n]
IsFrame(item) == "frame" \in DOMAIN item

Goto(g, label) == pc' = [pc EXCEPT ![g] = label]
Return(g, value) == /\ Goto(g, "idle")
                    /\ result' = [result EXCEPT ![g] = value]

Init ==
  /\ pc = [g \in Callers \cup Loops |->
             CASE g = Reader -> "read" [] g = Writer -> "select" [] OTHER -> "idle"]
  /\ writes = <<>> /\ writing = 0 /\ doneCh = {} /\ writtenCh = FALSE
  /\ closedBy = "none" /\ closing = FALSE /\ socket = "open"
  /\ err = "none" /\ ender = "none"
  /\ chunks = 0 /\ packets = 0 /\ packetsClosed = FALSE
  /\ peerEOF = FALSE /\ consuming = TRUE /\ arrived = 0
  /\ result = [g \in Callers |-> "none"]
  /\ flushOf = [g \in Callers |-> 0]
  /\ before = [g \in Callers |-> 0] /\ flushes = 0
  /\ queued = <<>> /\ written = <<>>

-----------------------------------------------------------------------------
(* Send: the closed flag is read under the mutex, the queue is not.  Every *)
(* packet of the model can be encoded.                                     *)

SendCheck(g) ==
  /\ pc[g] = "idle"
  /\ Len(queued) < MaxFrames
  /\ IF closed THEN Return(g, "none") ELSE Goto(g, "send") /\ UNCHANGED result
  /\ UNCHANGED <<writeVars, closeVars, readVars, flushOf, before, flushes>>

\* The channel send of the select, and its default.
SendEnqueue(g) ==
  /\ pc[g] = "send"
  /\ IF Len(writes) < WriteQueue
     THEN /\ queued' = Append(queued, Frame(Len(queued) + 1))
          /\ writes' = Append(writes, Frame(Len(queued) + 1))
          /\ Return(g, "none")
     ELSE /\ Return(g, "queueFull")
          /\ UNCHANGED <<queued, writes>>
  /\ UNCHANGED <<writing, doneCh, writtenCh, written, closeVars, readVars, flushOf, before, flushes>>

-----------------------------------------------------------------------------
(* Flush. *)

FlushCheck(g) ==
  /\ pc[g] = "idle"
  /\ flushes < MaxFlushes
  /\ flushes' = flushes + 1
  /\ flushOf' = [flushOf EXCEPT ![g] = flushes + 1]
  /\ before' = [before EXCEPT ![g] = Len(queued)]
  /\ result' = [result EXCEPT ![g] = IF closed THEN "ended" ELSE "none"]
  /\ Goto(g, IF closed THEN "idle" ELSE "flush")
  /\ UNCHANGED <<writeVars, closeVars, readVars>>

\* Mutant: the marker overtakes the frames already queued.
MarkerJumpsQueue(g) ==
  /\ pc[g] = "flush"
  /\ Len(writes) < WriteQueue
  /\ writes' = <<Marker(flushOf[g])>> \o writes
  /\ Goto(g, "await")
  /\ UNCHANGED <<writing, doneCh, writtenCh, queued, written, closeVars, readVars, callVars>>

FlushEnqueue(g) ==
  /\ pc[g] = "flush"
  /\ Len(writes) < WriteQueue
  /\ writes' = Append(writes, Marker(flushOf[g]))
  /\ Goto(g, "await")
  /\ UNCHANGED <<writing, doneCh, writtenCh, queued, written, closeVars, readVars, callVars>>

FlushDone(g) ==
  /\ pc[g] = "await"
  /\ flushOf[g] \in doneCh
  /\ Return(g, "flushed")
  /\ UNCHANGED <<writeVars, closeVars, readVars, flushOf, before, flushes>>

\* Both selects watch the written channel ...
FlushEnded(g) ==
  /\ pc[g] \in {"flush", "await"}
  /\ writtenCh
  /\ Return(g, "ended")
  /\ UNCHANGED <<writeVars, closeVars, readVars, flushOf, before, flushes>>

\* ... and the timer.
FlushTimeout(g) ==
  /\ pc[g] \in {"flush", "await"}
  /\ Return(g, "timeout")
  /\ UNCHANGED <<writeVars, closeVars, readVars, flushOf, before, flushes>>

-----------------------------------------------------------------------------
(* fail and Close.  The goroutine that sets closed is the only one to go   *)
(* on and close the channel and the socket.                                *)

AfterClose(g) == IF g \in Callers THEN "idle" ELSE "exit"

CallClose(g) ==
  /\ pc[g] = "idle"
  /\ Goto(g, "close")
  /\ UNCHANGED <<writeVars, closeVars, readVars, callVars>>

\* Who is first to come under the mutex ends the connection.
Ends(g) == ender' = IF ender = "none" THEN g ELSE ender

\* Mutant: the error that a wanted close causes is recorded too.
FailAnyway(g) ==
  /\ pc[g] = "fail"
  /\ err' = IF err = "none" THEN g ELSE err
  /\ Ends(g)
  /\ Goto(g, "close")
  /\ UNCHANGED <<writeVars, closedBy, closing, socket, readVars, callVars>>

Fail(g) ==
  /\ pc[g] = "fail"
  /\ err' = IF err = "none" /\ ~closed THEN g ELSE err
  /\ Ends(g)
  /\ Goto(g, "close")
  /\ UNCHANGED <<writeVars, closedBy, closing, socket, readVars, callVars>>

CloseMark(g) ==
  /\ pc[g] = "close"
  /\ closedBy' = IF closed THEN closedBy ELSE g
  /\ Ends(g)
  /\ Goto(g, IF closed THEN AfterClose(g) ELSE "closing")
  /\ UNCHANGED <<writeVars, closing, socket, err, readVars, callVars>>

CloseSignal(g) ==
  /\ pc[g] = "closing"
  /\ closing' = TRUE
  /\ Goto(g, "shutting")
  /\ UNCHANGED <<writeVars, closedBy, socket, err, ender, readVars, callVars>>

\* Mutant: the socket is left open.
ShutNothing(g) ==
  /\ pc[g] = "shutting"
  /\ socket' = socket
  /\ Goto(g, AfterClose(g))
  /\ UNCHANGED <<writeVars, closedBy, closing, err, ender, readVars, callVars>>

CloseSocket(g) ==
  /\ pc[g] = "shutting"
  /\ socket' = "shut"
  /\ Goto(g, AfterClose(g))
  /\ UNCHANGED <<writeVars, closedBy, closing, err, ender, readVars, callVars>>

-----------------------------------------------------------------------------
(* The write loop. *)

WriteTake ==
  /\ pc[Writer] = "select"
  /\ writes # <<>>
  /\ writes' = Tail(writes)
  /\ LET item == Head(writes) IN
       IF IsFrame(item)
       THEN /\ Goto(Writer, "write")
            /\ writing' = item.frame
            /\ UNCHANGED doneCh
       ELSE /\ doneCh' = doneCh \cup {item.flush}
            /\ UNCHANGED <<pc, writing>>
  /\ UNCHANGED <<writtenCh, queued, written, closeVars, readVars, callVars>>

WriteClosing ==
  /\ pc[Writer] = "select"
  /\ closing
  /\ Goto(Writer, "exit")
  /\ UNCHANGED <<writeVars, closeVars, readVars, callVars>>

\* conn.Write returns: a peer that reads took the frame ...
WriteOK ==
  /\ pc[Writer] = "write"
  /\ socket = "open"
  /\ written' = Append(written, Frame(writing))
  /\ Goto(Writer, "select")
  /\ UNCHANGED <<writes, writing, doneCh, writtenCh, queued, closeVars, readVars, callVars>>

\* Mutant: the failed frame is skipped and the loop goes on.
SkipFrame ==
  /\ pc[Writer] = "write"
  /\ socket # "open"
  /\ Goto(Writer, "select")
  /\ UNCHANGED <<writeVars, closeVars, readVars, callVars>>

\* ... or the socket is gone.
WriteError ==
  /\ pc[Writer] = "write"
  /\ socket # "open"
  /\ Goto(Writer, "fail")
  /\ UNCHANGED <<writeVars, closeVars, readVars, callVars>>

\* Mutant: the written channel is not closed.
WriterVanishes ==
  /\ pc[Writer] = "exit"
  /\ writtenCh' = writtenCh
  /\ Goto(Writer, "done")
  /\ UNCHANGED <<writes, writing, doneCh, queued, written, closeVars, readVars, callVars>>

WriterExit ==
  /\ pc[Writer] = "exit"
  /\ writtenCh' = TRUE
  /\ Goto(Writer, "done")
  /\ UNCHANGED <<writes, writing, doneCh, queued, written, closeVars, readVars, callVars>>

-----------------------------------------------------------------------------
(* The read loop.  Frames already in its buffer outlive the socket. *)

ReadChunk ==
  /\ pc[Reader] = "read"
  /\ ~peerEOF /\ arrived < MaxPackets
  /\ arrived' = arrived + 1
  /\ \/ /\ chunks < MaxRawChunks        \* rawChunkState.add
        /\ chunks' = chunks + 1
        /\ UNCHANGED pc
     \/ /\ Goto(Reader, "fail")         \* empty, duplicate, too many, too large
        /\ UNCHANGED chunks
  /\ UNCHANGED <<writeVars, closeVars, packets, packetsClosed, peerEOF, consuming, callVars>>

ReadPacket ==
  /\ pc[Reader] = "read"
  /\ ~peerEOF /\ arrived < MaxPackets
  /\ arrived' = arrived + 1
  /\ \/ /\ chunks' = 0                  \* rawChunkState.apply
        /\ Goto(Reader, "deliver")
     \/ /\ Goto(Reader, "fail")         \* bad header, payload, encoding or chunk
        /\ UNCHANGED chunks
  /\ UNCHANGED <<writeVars, closeVars, packets, packetsClosed, peerEOF, consuming, callVars>>

\* The stream ends between two packets, or within a packet.
ReadEOF ==
  /\ pc[Reader] = "read"
  /\ socket = "open" /\ peerEOF
  /\ \/ Goto(Reader, IF chunks > 0 THEN "fail" ELSE "exit")
     \/ Goto(Reader, "fail")
  /\ UNCHANGED <<writeVars, closeVars, readVars, callVars>>

ReadError ==
  /\ pc[Reader] = "read"
  /\ socket # "open"
  /\ Goto(Reader, "fail")
  /\ UNCHANGED <<writeVars, closeVars, readVars, callVars>>

\* Nothing but a receiver can end this send.
ReadDeliver ==
  /\ pc[Reader] = "deliver"
  /\ packets < PacketBuffer
  /\ packets' = packets + 1
  /\ Goto(Reader, "read")
  /\ UNCHANGED <<writeVars, closeVars, chunks, packetsClosed, peerEOF, consuming, arrived, callVars>>

ReaderExit ==
  /\ pc[Reader] = "exit"
  /\ packetsClosed' = TRUE
  /\ Goto(Reader, "done")
  /\ UNCHANGED <<writeVars, closeVars, chunks, packets, peerEOF, consuming, arrived, callVars>>

-----------------------------------------------------------------------------
(* The peer, the network and the receiver. *)

PeerEOF ==
  /\ ~peerEOF
  /\ peerEOF' = TRUE
  /\ UNCHANGED <<pc, writeVars, closeVars, chunks, packets, packetsClosed, consuming, arrived, callVars>>

NetworkBreaks ==
  /\ socket = "open"
  /\ socket' = "broken"
  /\ UNCHANGED <<pc, writeVars, closedBy, closing, err, ender, readVars, callVars>>

Receive ==
  /\ consuming
  /\ packets > 0
  /\ packets' = packets - 1
  /\ UNCHANGED <<pc, writeVars, closeVars, chunks, packetsClosed, peerEOF, consuming, arrived, callVars>>

\* The client's loop returned.
StopReceiving ==
  /\ consuming
  /\ consuming' = FALSE
  /\ UNCHANGED <<pc, writeVars, closeVars, chunks, packets, packetsClosed, peerEOF, arrived, callVars>>

-----------------------------------------------------------------------------
Send(g) == SendCheck(g) \/ SendEnqueue(g)
Flush(g) == \/ FlushCheck(g) \/ FlushEnqueue(g) \/ FlushDone(g)
            \/ FlushEnded(g) \/ FlushTimeout(g)
Close(g) == CloseMark(g) \/ CloseSignal(g) \/ CloseSocket(g)
writeLoop == WriteTake \/ WriteClosing \/ WriteOK \/ WriteError \/ WriterExit
readLoop == ReadChunk \/ ReadPacket \/ ReadEOF \/ ReadError \/ ReadDeliver \/ ReaderExit

Next ==
  \/ \E g \in Callers : Send(g) \/ Flush(g) \/ CallClose(g)
  \/ \E g \in Callers \cup Loops : Close(g)
  \/ \E g \in Loops : Fail(g)
  \/ writeLoop
  \/ readLoop
  \/ PeerEOF
  \/ NetworkBreaks
  \/ Receive
  \/ StopReceiving

Spec == Init /\ [][Next]_vars

(* A goroutine that can run does; the socket errors once it is shut or      *)
(* broken.  Nothing makes a peer read (WriteOK) or send, and the timer is   *)
(* deliberately left out: what must end, must end without it.              *)
Fairness ==
  /\ \A g \in Callers : /\ WF_vars(FlushEnqueue(g)) /\ WF_vars(FlushDone(g))
                        /\ WF_vars(FlushEnded(g)) /\ WF_vars(SendEnqueue(g))
  /\ \A g \in Callers \cup Loops : WF_vars(Close(g))
  /\ \A g \in Loops : WF_vars(Fail(g))
  /\ WF_vars(WriteTake \/ WriteClosing)
  /\ WF_vars(WriteError) /\ WF_vars(WriterExit)
  /\ WF_vars(ReadEOF) /\ WF_vars(ReadError) /\ WF_vars(ReadDeliver) /\ WF_vars(ReaderExit)
  /\ WF_vars(Receive)

FairSpec == Spec /\ Fairness

-----------------------------------------------------------------------------
Labels == {"idle", "send", "flush", "await", "close", "closing", "shutting",
           "fail", "exit", "done", "select", "write", "read", "deliver"}

Item == [frame : Nat] \cup [flush : Nat]

TypeOK ==
  /\ pc \in [Callers \cup Loops -> Labels]
  /\ writes \in Seq(Item) /\ Len(writes) <= WriteQueue
  /\ writing \in Nat
  /\ doneCh \subseteq Nat
  /\ flushOf \in [Callers -> Nat]
  /\ closedBy \in {"none"} \cup Callers \cup Loops
  /\ writtenCh \in BOOLEAN /\ closing \in BOOLEAN
  /\ socket \in {"open", "broken", "shut"}
  /\ err \in {"none"} \cup Loops /\ ender \in {"none"} \cup Callers \cup Loops
  /\ chunks \in 0..MaxRawChunks
  /\ packets \in 0..PacketBuffer
  /\ packetsClosed \in BOOLEAN /\ peerEOF \in BOOLEAN /\ consuming \in BOOLEAN
  /\ arrived \in Nat /\ flushes \in Nat
  /\ result \in [Callers -> {"none", "queueFull",
                             "flushed", "ended", "timeout"}]
  /\ before \in [Callers -> Nat]
  /\ queued \in Seq(Item) /\ written \in Seq(Item)

\* A Flush that returns nil did what it is for: every frame Send had accepted
\* when it was called is on the socket.
FlushIsHonest ==
  \A g \in Callers : result[g] = "flushed" => Len(written) >= before[g]

\* Frames the write loop has taken from the queue: written, or being written.
Taken == Len(written) + (IF pc[Writer] = "write" THEN 1 ELSE 0)

\* The places in the queue that hold frames rather than flush markers.
FramesAt == {i \in DOMAIN writes : IsFrame(writes[i])}

\* Frames reach the socket in the order Send accepted them, none of them lost
\* or repeated: those not yet taken wait in the queue in that order, except
\* for those abandoned when the write loop stops.
WrittenInOrder ==
  /\ IsPrefix(written, queued)
  /\ pc[Writer] = "write" => writing = Taken
  /\ pc[Writer] \in {"select", "write"} =>
       /\ {writes[i].frame : i \in FramesAt} = (Taken + 1)..Len(queued)
       /\ \A i, j \in FramesAt : i < j => writes[i].frame < writes[j].frame

\* "Both loops stop on the first error, which Err reports once Packets has been
\* closed".  Whichever goroutines fail, close and leave, in whatever order: where a
\* loop failed before anybody closed, Err is that loop's; where one of us closed
\* first, the errors this causes in the loops are none; and where nobody had failed
\* or closed, the peer ended the stream between two packets, leaving no chunk.
EndIsExplained ==
  packetsClosed =>
    /\ err = IF ender \in Loops THEN ender ELSE "none"
    /\ ender = "none" => peerEOF /\ chunks = 0

\* "... returns as soon as the connection ends": once the connection is closed,
\* no Flush is left waiting for its timer, not even behind a stuck write.
FlushEndsWithConnection ==
  \A g \in Callers : closed /\ pc[g] \in {"flush", "await"} ~> pc[g] = "idle"

\* Both loops stop once the connection is closed; the read loop may stay behind
\* only if nobody receives the packets it still holds.
LoopsStop ==
  closed ~> /\ pc[Writer] = "done"
            /\ pc[Reader] = "done" \/ ~consuming

=============================================================================
