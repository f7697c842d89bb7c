----------------------------- MODULE Conn_proofs -----------------------------
(***************************************************************************)
(* What a framed connection guarantees for any number of callers and any   *)
(* capacities of its queues.                                               *)
(***************************************************************************)
EXTENDS Conn, SequenceTheorems, TLAPS

USE ConnAssumption

Goroutines == Callers \cup Loops

-----------------------------------------------------------------------------
(* The inductive invariants. *)

\* Err is that of the loop that failed first, if it did before anybody closed.
\* Whoever closes has ended the connection, unless it was ended before, and the
\* read loop leaves only then, or at a clean end of the stream, whose chunks nobody
\* changes any more.
EndInv ==
  /\ err = IF ender \in Loops THEN ender ELSE "none"
  /\ closed => ender # "none"
  /\ ender \in Callers => closed
  /\ \A g \in Loops : pc[g] \in {"close", "closing", "shutting"} => ender # "none"
  /\ packetsClosed => pc[Reader] = "done"
  /\ pc[Reader] \in {"exit", "done"} => ender # "none" \/ (peerEOF /\ chunks = 0)

\* Frames are numbered in the order accepted, and written in that order.
Numbered ==
  /\ \A n \in 1..Len(queued) : queued[n] = Frame(n)
  /\ \A n \in 1..Len(written) : written[n] = Frame(n)
  /\ Len(written) <= Len(queued)

\* While the write loop runs, the queue holds just the frames not taken yet.
QueueInv ==
  /\ pc[Writer] = "write" => writing = Taken /\ Taken <= Len(queued)
  /\ pc[Writer] \in {"select", "write"} =>
       /\ \A i \in FramesAt : writes[i].frame \in (Taken + 1)..Len(queued)
       /\ \A n \in (Taken + 1)..Len(queued) :
            \E i \in FramesAt : writes[i].frame = n
       /\ \A i, j \in FramesAt : i < j => writes[i].frame < writes[j].frame

\* The places in the queue that hold flush markers.
MarkersAt == DOMAIN writes \ FramesAt

\* Flush numbers are never used twice, and a marker is put in the queue once.
FlushNumbers ==
  /\ \A g \in Callers : flushOf[g] <= flushes
  /\ \A g, h \in Callers : g # h /\ flushOf[g] = flushOf[h] => flushOf[g] = 0
  /\ \A n \in doneCh : n \in 1..flushes
  /\ \A i \in MarkersAt : writes[i].flush \in 1..flushes
  /\ \A g \in Callers : pc[g] = "flush" =>
       /\ flushOf[g] # 0
       /\ flushOf[g] \notin doneCh
       /\ \A i \in MarkersAt : writes[i].flush # flushOf[g]

\* No frame accepted before a Flush is queued behind its marker, so when the
\* write loop comes to the marker all of them are written.
MarkerInv ==
  /\ \A g \in Callers : before[g] <= Len(queued)
  /\ \A g \in Callers, i \in MarkersAt, j \in FramesAt :
       writes[i].flush = flushOf[g] /\ i < j => writes[j].frame > before[g]
  /\ \A g \in Callers : flushOf[g] \in doneCh => Len(written) >= before[g]

-----------------------------------------------------------------------------
(* Facts about items and about the two operations on the queue. *)

\* A frame carries its number, and a marker the number of its flush.
LEMMA Items ==
  /\ \A n : IsFrame(Frame(n)) /\ Frame(n).frame = n
  /\ \A n : ~IsFrame(Marker(n)) /\ Marker(n).flush = n
  /\ \A item \in Item : IsFrame(item) => item.frame \in Nat /\ item = Frame(item.frame)
  /\ \A item \in Item : ~IsFrame(item) => item.flush \in Nat
  /\ \A n \in Nat : Frame(n) \in Item /\ Marker(n) \in Item
BY DEF IsFrame, Frame, Marker, Item

\* Taking the head of a sequence moves every other item one place forward.
LEMMA TailItems ==
  ASSUME NEW S, NEW s \in Seq(S), s # <<>>
  PROVE  /\ Head(s) \in S /\ Head(s) = s[1]
         /\ Tail(s) \in Seq(S)
         /\ Len(s) \in Nat /\ Len(s) >= 1
         /\ DOMAIN s = 1..Len(s)
         /\ Len(Tail(s)) = Len(s) - 1
         /\ DOMAIN Tail(s) = 1..(Len(s) - 1)
         /\ \A i \in 1..(Len(s) - 1) : Tail(s)[i] = s[i + 1]
OBVIOUS

\* Appending leaves every item where it was.
LEMMA AppendItems ==
  ASSUME NEW S, NEW s \in Seq(S), NEW e \in S
  PROVE  /\ Append(s, e) \in Seq(S)
         /\ Len(s) \in Nat
         /\ DOMAIN s = 1..Len(s)
         /\ Len(Append(s, e)) = Len(s) + 1
         /\ DOMAIN Append(s, e) = 1..(Len(s) + 1)
         /\ \A i \in 1..Len(s) : Append(s, e)[i] = s[i]
         /\ Append(s, e)[Len(s) + 1] = e
OBVIOUS

-----------------------------------------------------------------------------
\* Every state of the connection is well-formed, whoever sends, flushes and
\* closes it and whatever the network does.
THEOREM TypeCorrect == Spec => []TypeOK
<1>1. Init => TypeOK
  <2> SUFFICES ASSUME Init PROVE TypeOK
    OBVIOUS
  <2>1. <<>> \in Seq(Item) /\ Len(<<>>) = 0
    OBVIOUS
  <2>2. pc \in [Goroutines -> Labels]
    BY DEF Init, Labels, Goroutines
  <2>3. writes = <<>> /\ queued = <<>> /\ written = <<>>
    BY DEF Init
  <2>4. /\ flushOf \in [Callers -> Nat] /\ before \in [Callers -> Nat]
        /\ result \in [Callers -> {"none", "queueFull", "flushed", "ended", "timeout"}]
    BY DEF Init
  <2>5. chunks \in 0..MaxRawChunks /\ packets \in 0..PacketBuffer
    BY DEF Init
  <2>6. doneCh \subseteq Nat /\ Len(writes) <= WriteQueue
    BY <2>1, <2>3 DEF Init
  <2> QED
    BY <2>1, <2>2, <2>3, <2>4, <2>5, <2>6 DEF Init, TypeOK, Goroutines
<1>2. TypeOK /\ [Next]_vars => TypeOK'
  <2> SUFFICES ASSUME TypeOK, [Next]_vars PROVE TypeOK'
    OBVIOUS
  <2> USE DEF TypeOK, Labels, Goto, Return, writeVars, closeVars, readVars, callVars
  <2>1. ASSUME NEW g \in Callers, Send(g) PROVE TypeOK'
    <3>1. CASE SendCheck(g)
      BY <3>1 DEF SendCheck
    <3>2. CASE SendEnqueue(g)
      <4>1. Len(queued) + 1 \in Nat
        OBVIOUS
      <4>2. Frame(Len(queued) + 1) \in Item
        BY <4>1, Items
      <4>3. CASE Len(writes) < WriteQueue
        <5>0. /\ writes' = Append(writes, Frame(Len(queued) + 1))
              /\ queued' = Append(queued, Frame(Len(queued) + 1))
          BY <3>2, <4>3 DEF SendEnqueue
        <5>1. /\ writes' \in Seq(Item) /\ Len(writes') = Len(writes) + 1
              /\ queued' \in Seq(Item)
          BY <4>2, <5>0, AppendItems
        <5>2. Len(writes') <= WriteQueue
          BY <4>3, <5>1
        <5>3. /\ pc' = [pc EXCEPT ![g] = "idle"]
              /\ result' = [result EXCEPT ![g] = "none"]
              /\ UNCHANGED <<writing, doneCh, writtenCh, written, closeVars, readVars,
                             flushOf, before, flushes>>
          BY <3>2, <4>3 DEF SendEnqueue
        <5> QED
          BY <5>1, <5>2, <5>3
      <4>4. CASE ~(Len(writes) < WriteQueue)
        BY <3>2, <4>4 DEF SendEnqueue
      <4> QED
        BY <4>3, <4>4
    <3> QED
      BY <2>1, <3>1, <3>2 DEF Send
  <2>2. ASSUME NEW g \in Callers, Flush(g) PROVE TypeOK'
    <3>1. CASE FlushCheck(g)
      BY <3>1 DEF FlushCheck
    <3>2. CASE FlushEnqueue(g)
      <4>1. Marker(flushOf[g]) \in Item
        BY Items
      <4> QED
        BY <3>2, <4>1 DEF FlushEnqueue
    <3>3. CASE FlushDone(g) \/ FlushEnded(g) \/ FlushTimeout(g)
      BY <3>3 DEF FlushDone, FlushEnded, FlushTimeout
    <3> QED
      BY <2>2, <3>1, <3>2, <3>3 DEF Flush
  <2>3. ASSUME NEW g \in Callers, CallClose(g) PROVE TypeOK'
    BY <2>3 DEF CallClose
  <2>4. ASSUME NEW g \in Callers \cup Loops, Close(g) PROVE TypeOK'
    <3>1. CASE CloseMark(g)
      <4>1. /\ closedBy' \in {"none"} \cup Callers \cup Loops
            /\ ender' \in {"none"} \cup Callers \cup Loops
        BY <3>1 DEF CloseMark, Ends
      <4>2. /\ \/ pc' = [pc EXCEPT ![g] = "idle"]
               \/ pc' = [pc EXCEPT ![g] = "exit"]
               \/ pc' = [pc EXCEPT ![g] = "closing"]
            /\ UNCHANGED <<writeVars, closing, socket, err, readVars, callVars>>
        BY <3>1 DEF CloseMark, AfterClose
      <4> QED
        BY <4>1, <4>2
    <3>2. CASE CloseSignal(g)
      BY <3>2 DEF CloseSignal
    <3>3. CASE CloseSocket(g)
      <4>1. /\ \/ pc' = [pc EXCEPT ![g] = "idle"]
               \/ pc' = [pc EXCEPT ![g] = "exit"]
            /\ socket' = "shut"
            /\ UNCHANGED <<writeVars, closedBy, closing, err, ender, readVars, callVars>>
        BY <3>3 DEF CloseSocket, AfterClose
      <4> QED
        BY <4>1
    <3> QED
      BY <2>4, <3>1, <3>2, <3>3 DEF Close
  <2>5. ASSUME NEW g \in Loops, Fail(g) PROVE TypeOK'
    BY <2>5 DEF Fail, Ends
  <2>6. CASE writeLoop
    <3>1. CASE WriteTake
      <4>1. /\ Head(writes) \in Item
            /\ Tail(writes) \in Seq(Item) /\ Len(Tail(writes)) <= WriteQueue
        BY <3>1, TailItems DEF WriteTake
      <4>2. IF IsFrame(Head(writes)) THEN Head(writes).frame \in Nat
                                     ELSE Head(writes).flush \in Nat
        BY <4>1, Items
      <4>3. writes' \in Seq(Item) /\ Len(writes') <= WriteQueue
        BY <3>1, <4>1 DEF WriteTake
      <4>4. CASE IsFrame(Head(writes))
        <5>1. /\ pc' = [pc EXCEPT ![Writer] = "write"] /\ writing' = Head(writes).frame
              /\ UNCHANGED <<doneCh, writtenCh, queued, written, closeVars, readVars, callVars>>
          BY <3>1, <4>4 DEF WriteTake
        <5> QED
          BY <4>2, <4>3, <4>4, <5>1 DEF Loops
      <4>5. CASE ~IsFrame(Head(writes))
        <5>1. /\ doneCh' = doneCh \cup {Head(writes).flush}
              /\ UNCHANGED <<pc, writing, writtenCh, queued, written, closeVars, readVars,
                             callVars>>
          BY <3>1, <4>5 DEF WriteTake
        <5>2. doneCh' \subseteq Nat
          BY <4>2, <4>5, <5>1
        <5> QED
          BY <4>3, <5>1, <5>2
      <4> QED
        BY <4>4, <4>5
    <3>2. CASE WriteOK
      <4>1. Frame(writing) \in Item
        BY Items
      <4> QED
        BY <3>2, <4>1 DEF WriteOK, Loops
    <3>3. CASE WriteClosing
      BY <3>3 DEF WriteClosing, Loops
    <3>4. CASE WriteError
      BY <3>4 DEF WriteError, Loops
    <3>5. CASE WriterExit
      BY <3>5 DEF WriterExit, Loops
    <3> QED
      BY <2>6, <3>1, <3>2, <3>3, <3>4, <3>5 DEF writeLoop
  <2>7. CASE readLoop
    <3>1. CASE ReadChunk
      BY <3>1 DEF ReadChunk, Loops
    <3>2. CASE ReadPacket
      BY <3>2 DEF ReadPacket, Loops
    <3>3. CASE ReadEOF
      <4>1. /\ \/ pc' = [pc EXCEPT ![Reader] = "fail"]
               \/ pc' = [pc EXCEPT ![Reader] = "exit"]
            /\ UNCHANGED <<writeVars, closeVars, readVars, callVars>>
        BY <3>3 DEF ReadEOF
      <4> QED
        BY <4>1 DEF Loops
    <3>4. CASE ReadError
      BY <3>4 DEF ReadError, Loops
    <3>5. CASE ReadDeliver
      BY <3>5 DEF ReadDeliver, Loops
    <3>6. CASE ReaderExit
      BY <3>6 DEF ReaderExit, Loops
    <3> QED
      BY <2>7, <3>1, <3>2, <3>3, <3>4, <3>5, <3>6 DEF readLoop
  <2>8. CASE PeerEOF \/ NetworkBreaks
    BY <2>8 DEF PeerEOF, NetworkBreaks
  <2>9. CASE Receive
    BY <2>9 DEF Receive
  <2>10. CASE StopReceiving
    BY <2>10 DEF StopReceiving
  <2>11. CASE UNCHANGED vars
    BY <2>11 DEF vars
  <2> QED
    BY <2>1, <2>2, <2>3, <2>4, <2>5, <2>6, <2>7, <2>8, <2>9, <2>10, <2>11 DEF Next
<1> QED
  BY <1>1, <1>2, PTL DEF Spec

-----------------------------------------------------------------------------
\* Once Packets is closed, Err is the error of the loop that failed first, or none
\* if one of us closed before any loop failed, or if the peer ended the stream
\* between two packets: whichever goroutine fails, closes or leaves when.
THEOREM EndExplained == Spec => []EndIsExplained
<1>1. Init => EndInv
  <2> SUFFICES ASSUME Init PROVE EndInv
    OBVIOUS
  <2>1. pc[Reader] = "read" /\ pc[Writer] = "select"
    BY DEF Init, Loops
  <2>2. ~closed /\ err = "none" /\ ender = "none" /\ packetsClosed = FALSE
    BY DEF Init, closed
  <2> QED
    BY <2>1, <2>2 DEF EndInv, Loops
<1>2. TypeOK /\ EndInv /\ [Next]_vars => EndInv'
  <2> SUFFICES ASSUME TypeOK, EndInv, [Next]_vars PROVE EndInv'
    OBVIOUS
  <2>0. pc \in [Callers \cup Loops -> Labels] /\ chunks \in Nat
    BY DEF TypeOK
  <2> USE DEF EndInv, closed, Goto, Return, closeVars, readVars
  <2>1. ASSUME NEW g \in Callers, Send(g) PROVE EndInv'
    BY <2>0, <2>1 DEF Send, SendCheck, SendEnqueue, Loops
  <2>2. ASSUME NEW g \in Callers, Flush(g) PROVE EndInv'
    BY <2>0, <2>2 DEF Flush, FlushCheck, FlushEnqueue, FlushDone, FlushEnded,
                      FlushTimeout, Loops
  <2>3. ASSUME NEW g \in Callers, CallClose(g) PROVE EndInv'
    BY <2>0, <2>3 DEF CallClose, Loops
  <2>4. ASSUME NEW g \in Callers \cup Loops, Close(g) PROVE EndInv'
    <3>1. CASE CloseMark(g)
      <4>1. closed' /\ ender' # "none"
        BY <3>1 DEF CloseMark, Ends
      <4>2. err' = IF ender' \in Loops THEN ender' ELSE "none"
        BY <3>1 DEF CloseMark, Ends
      <4>3. UNCHANGED <<packetsClosed, peerEOF, chunks>>
        BY <3>1 DEF CloseMark
      <4>4. pc[Reader] = "done" => pc'[Reader] = "done"
        BY <2>0, <3>1 DEF CloseMark, AfterClose, Loops
      <4> QED
        BY <4>1, <4>2, <4>3, <4>4
    <3>2. CASE CloseSignal(g)
      BY <2>0, <3>2 DEF CloseSignal, Loops
    <3>3. CASE CloseSocket(g)
      BY <2>0, <3>3 DEF CloseSocket, AfterClose, Loops
    <3> QED
      BY <2>4, <3>1, <3>2, <3>3 DEF Close
  <2>5. ASSUME NEW g \in Loops, Fail(g) PROVE EndInv'
    <3>1. ender' # "none" /\ closed' = closed
      BY <2>5 DEF Fail, Ends
    <3>2. err' = IF ender' \in Loops THEN ender' ELSE "none"
      BY <2>5 DEF Fail, Ends, TypeOK
    <3>3. ender' \in Callers => closed'
      BY <2>5, <3>1 DEF Fail, Ends
    <3> QED
      BY <2>0, <2>5, <3>1, <3>2, <3>3 DEF Fail, Loops
  <2>6. CASE writeLoop
    BY <2>0, <2>6 DEF writeLoop, WriteTake, WriteClosing, WriteOK, WriteError,
                      WriterExit, Loops
  <2>7. CASE readLoop
    <3>1. CASE ReadChunk \/ ReadPacket
      BY <2>0, <3>1 DEF ReadChunk, ReadPacket, Loops
    <3>2. CASE ReadEOF
      BY <2>0, <3>2 DEF ReadEOF, Loops
    <3>3. CASE ReadError \/ ReadDeliver \/ ReaderExit
      BY <2>0, <3>3 DEF ReadError, ReadDeliver, ReaderExit, Loops
    <3> QED
      BY <2>7, <3>1, <3>2, <3>3 DEF readLoop
  <2>8. CASE PeerEOF \/ NetworkBreaks \/ Receive \/ StopReceiving
    BY <2>8 DEF PeerEOF, NetworkBreaks, Receive, StopReceiving
  <2>9. CASE UNCHANGED vars
    BY <2>9 DEF vars
  <2> QED
    BY <2>1, <2>2, <2>3, <2>4, <2>5, <2>6, <2>7, <2>8, <2>9 DEF Next
<1>3. EndInv => EndIsExplained
  BY DEF EndInv, EndIsExplained
<1> QED
  BY <1>1, <1>2, <1>3, TypeCorrect, PTL DEF Spec

-----------------------------------------------------------------------------
(* What the queue operations do to the places of frames and markers. *)

\* Taking the head moves each item of the queue one place forward.
LEMMA QueueTaken ==
  ASSUME TypeOK, writes # <<>>, writes' = Tail(writes)
  PROVE  /\ DOMAIN writes = 1..Len(writes) /\ Len(writes) \in Nat \ {0}
         /\ DOMAIN writes' = 1..(Len(writes) - 1)
         /\ Head(writes) = writes[1] /\ writes[1] \in Item
         /\ \A i \in DOMAIN writes' : i + 1 \in DOMAIN writes /\ writes'[i] = writes[i + 1]
         /\ \A i \in DOMAIN writes' : i \in FramesAt' <=> i + 1 \in FramesAt
<1>1. writes \in Seq(Item)
  BY DEF TypeOK
<1>2. /\ DOMAIN writes = 1..Len(writes) /\ Len(writes) \in Nat \ {0}
      /\ DOMAIN writes' = 1..(Len(writes) - 1)
      /\ Head(writes) = writes[1] /\ writes[1] \in Item
      /\ \A i \in 1..(Len(writes) - 1) : writes'[i] = writes[i + 1]
  BY <1>1, TailItems
<1>3. \A i \in DOMAIN writes' : i + 1 \in DOMAIN writes
  BY <1>2
<1> QED
  BY <1>2, <1>3 DEF FramesAt

\* Appending an item leaves the others in place.
LEMMA QueuePut ==
  ASSUME TypeOK, NEW item \in Item, writes' = Append(writes, item)
  PROVE  /\ DOMAIN writes = 1..Len(writes) /\ Len(writes) \in Nat
         /\ DOMAIN writes' = 1..(Len(writes) + 1)
         /\ \A i \in DOMAIN writes : writes'[i] = writes[i]
         /\ writes'[Len(writes) + 1] = item
         /\ IsFrame(item) => FramesAt' = FramesAt \cup {Len(writes) + 1}
         /\ ~IsFrame(item) => FramesAt' = FramesAt
<1>1. writes \in Seq(Item)
  BY DEF TypeOK
<1>2. /\ DOMAIN writes = 1..Len(writes) /\ Len(writes) \in Nat
      /\ DOMAIN writes' = 1..(Len(writes) + 1)
      /\ \A i \in 1..Len(writes) : writes'[i] = writes[i]
      /\ writes'[Len(writes) + 1] = item
  BY <1>1, AppendItems
<1>3. 1..(Len(writes) + 1) = (1..Len(writes)) \cup {Len(writes) + 1}
  BY <1>2
<1> QED
  BY <1>2, <1>3 DEF FramesAt

-----------------------------------------------------------------------------
\* The frames and the loop's own part of the state that the order depends on.
orderVars == <<writes, writing, queued, written>>

\* Most steps leave the queue alone, and either the write loop too or stop it.
LEMMA OrderUndisturbed ==
  ASSUME Numbered, QueueInv, UNCHANGED orderVars,
         pc'[Writer] = pc[Writer] \/ pc'[Writer] \notin {"select", "write"}
  PROVE  Numbered' /\ QueueInv'
BY DEF Numbered, QueueInv, orderVars, Taken, FramesAt

\* Frames enter the queue in the order they are accepted and are numbered in.
LEMMA SendKeepsOrder ==
  ASSUME TypeOK, Numbered, QueueInv, NEW g \in Callers, SendEnqueue(g)
  PROVE  Numbered' /\ QueueInv'
<1>0. /\ queued \in Seq(Item) /\ Len(queued) \in Nat
      /\ written \in Seq(Item) /\ Len(written) \in Nat
  BY DEF TypeOK
<1>1. pc'[Writer] = pc[Writer] /\ UNCHANGED <<writing, written>>
  BY DEF SendEnqueue, TypeOK, Return, Goto, Loops
<1>2. CASE Len(writes) < WriteQueue
  <2> DEFINE new == Frame(Len(queued) + 1)
  <2>1. queued' = Append(queued, new) /\ writes' = Append(writes, new)
    BY <1>2 DEF SendEnqueue
  <2>2. new \in Item /\ IsFrame(new) /\ new.frame = Len(queued) + 1
    BY <1>0, Items
  <2> HIDE DEF new
  <2>3. /\ Len(queued') = Len(queued) + 1
        /\ \A n \in 1..Len(queued) : queued'[n] = queued[n]
        /\ queued'[Len(queued) + 1] = new
    BY <1>0, <2>1, <2>2, AppendItems
  <2>4. Numbered'
    BY <1>0, <1>1, <2>3 DEF Numbered, new
  <2>5. /\ DOMAIN writes = 1..Len(writes) /\ Len(writes) \in Nat
        /\ \A i \in DOMAIN writes : writes'[i] = writes[i]
        /\ writes'[Len(writes) + 1] = new
        /\ FramesAt' = FramesAt \cup {Len(writes) + 1}
    BY <2>1, <2>2, QueuePut
  <2>6. Taken' = Taken /\ Taken \in Nat
    BY <1>0, <1>1 DEF Taken
  <2>7. FramesAt \subseteq 1..Len(writes)
    BY <2>5 DEF FramesAt
  <2>8. \A i \in FramesAt : writes'[i].frame = writes[i].frame
    BY <2>5, <2>7
  <2>9. writes'[Len(writes) + 1].frame = Len(queued) + 1
    BY <2>2, <2>5
  <2>10. Numbered => Len(written) <= Len(queued)
    BY DEF Numbered
  <2>11. Taken <= Len(queued) + 1
    BY <1>0, <2>10 DEF Taken
  <2>12. pc[Writer] \in {"select", "write"} => Taken <= Len(queued)
    BY <1>0, <2>10 DEF Taken, QueueInv
  <2>13. QueueInv'
    <3>1. ASSUME pc[Writer] \in {"select", "write"}
          PROVE  /\ \A i \in FramesAt' : writes'[i].frame \in (Taken + 1)..(Len(queued) + 1)
                 /\ \A n \in (Taken + 1)..(Len(queued) + 1) :
                      \E i \in FramesAt' : writes'[i].frame = n
                 /\ \A i, j \in FramesAt' : i < j => writes'[i].frame < writes'[j].frame
      <4>1. \A i \in FramesAt : writes[i].frame \in (Taken + 1)..Len(queued)
        BY <3>1 DEF QueueInv
      <4>2. \A n \in (Taken + 1)..Len(queued) : \E i \in FramesAt : writes[i].frame = n
        BY <3>1 DEF QueueInv
      <4>3. \A i, j \in FramesAt : i < j => writes[i].frame < writes[j].frame
        BY <3>1 DEF QueueInv
      <4>4. \A i \in FramesAt' : writes'[i].frame \in (Taken + 1)..(Len(queued) + 1)
        BY <1>0, <2>5, <2>6, <2>8, <2>9, <2>12, <3>1, <4>1
      <4>5. \A n \in (Taken + 1)..(Len(queued) + 1) :
              \E i \in FramesAt' : writes'[i].frame = n
        <5> TAKE n \in (Taken + 1)..(Len(queued) + 1)
        <5>1. CASE n = Len(queued) + 1
          BY <2>5, <2>9, <5>1
        <5>2. CASE n # Len(queued) + 1
          <6>1. n \in (Taken + 1)..Len(queued)
            BY <1>0, <2>6, <5>2
          <6> QED
            BY <2>5, <2>8, <4>2, <6>1
        <5> QED
          BY <5>1, <5>2
      <4>6. \A i, j \in FramesAt' : i < j => writes'[i].frame < writes'[j].frame
        <5> TAKE i, j \in FramesAt'
        <5>1. CASE i \in FramesAt /\ j \in FramesAt
          BY <2>8, <4>3, <5>1
        <5>2. CASE i \in FramesAt /\ j = Len(writes) + 1
          BY <1>0, <2>6, <2>8, <2>9, <4>1, <5>2
        <5>3. CASE i = Len(writes) + 1
          BY <2>5, <2>7, <5>3
        <5> QED
          BY <2>5, <5>1, <5>2, <5>3
      <4> QED
        BY <4>4, <4>5, <4>6
    <3>2. pc[Writer] = "write" => writing = Taken /\ Taken <= Len(queued) + 1
      BY <2>11 DEF QueueInv
    <3> QED
      BY <1>1, <2>3, <2>6, <3>1, <3>2 DEF QueueInv
  <2> QED
    BY <2>4, <2>13
<1>3. CASE ~(Len(writes) < WriteQueue)
  BY <1>1, <1>3, OrderUndisturbed DEF SendEnqueue, orderVars
<1> QED
  BY <1>2, <1>3

\* A flush marker goes to the queue without touching the frames in it.
LEMMA FlushKeepsOrder ==
  ASSUME TypeOK, Numbered, QueueInv, NEW g \in Callers, FlushEnqueue(g)
  PROVE  Numbered' /\ QueueInv'
<1>1. /\ pc'[Writer] = pc[Writer]
      /\ UNCHANGED <<writing, queued, written>>
      /\ writes' = Append(writes, Marker(flushOf[g]))
  BY DEF FlushEnqueue, TypeOK, Goto, Loops
<1>2. Marker(flushOf[g]) \in Item /\ ~IsFrame(Marker(flushOf[g]))
  BY Items DEF TypeOK
<1>3. FramesAt' = FramesAt /\ \A i \in DOMAIN writes : writes'[i] = writes[i]
  BY <1>1, <1>2, QueuePut
<1>4. \A i \in FramesAt : writes'[i].frame = writes[i].frame
  BY <1>3 DEF FramesAt
<1>5. Taken' = Taken
  BY <1>1 DEF Taken
<1>6. Numbered'
  BY <1>1 DEF Numbered
<1>8. CASE pc[Writer] \in {"select", "write"}
  <2>1. \A i \in FramesAt' : writes'[i].frame \in (Taken + 1)..Len(queued)
    BY <1>3, <1>4, <1>8 DEF QueueInv
  <2>2. \A n \in (Taken + 1)..Len(queued) : \E i \in FramesAt' : writes'[i].frame = n
    <3> TAKE n \in (Taken + 1)..Len(queued)
    <3>1. PICK i \in FramesAt : writes[i].frame = n
      BY <1>8 DEF QueueInv
    <3> QED
      BY <1>3, <1>4, <3>1
  <2>3. \A i, j \in FramesAt' : i < j => writes'[i].frame < writes'[j].frame
    BY <1>3, <1>4, <1>8 DEF QueueInv
  <2> QED
    BY <1>1, <1>5, <1>6, <2>1, <2>2, <2>3 DEF QueueInv
<1>9. CASE pc[Writer] \notin {"select", "write"}
  BY <1>1, <1>6, <1>9 DEF QueueInv
<1> QED
  BY <1>8, <1>9

\* The write loop takes the next frame: what is ahead of it in the queue is
\* markers, and what is behind it comes later.
LEMMA TakeKeepsOrder ==
  ASSUME TypeOK, Numbered, QueueInv, WriteTake
  PROVE  Numbered' /\ QueueInv'
<1>0. /\ Len(queued) \in Nat /\ Len(written) \in Nat
      /\ Taken = Len(written) /\ Taken \in Nat
  BY DEF TypeOK, WriteTake, Taken
<1>1. /\ pc[Writer] = "select" /\ writes # <<>> /\ writes' = Tail(writes)
      /\ UNCHANGED <<queued, written>>
  BY DEF WriteTake
<1>2. /\ DOMAIN writes = 1..Len(writes) /\ Len(writes) \in Nat \ {0}
      /\ DOMAIN writes' = 1..(Len(writes) - 1)
      /\ Head(writes) = writes[1] /\ writes[1] \in Item
      /\ \A i \in DOMAIN writes' : i + 1 \in DOMAIN writes /\ writes'[i] = writes[i + 1]
      /\ \A i \in DOMAIN writes' : i \in FramesAt' <=> i + 1 \in FramesAt
  BY <1>1, QueueTaken
<1>3. FramesAt \subseteq DOMAIN writes /\ FramesAt' \subseteq DOMAIN writes'
  BY DEF FramesAt
<1>4. /\ \A i \in FramesAt : writes[i].frame \in (Taken + 1)..Len(queued)
      /\ \A n \in (Taken + 1)..Len(queued) : \E i \in FramesAt : writes[i].frame = n
      /\ \A i, j \in FramesAt : i < j => writes[i].frame < writes[j].frame
  BY <1>1 DEF QueueInv
<1>5. \A i \in FramesAt' : i + 1 \in FramesAt /\ writes'[i].frame = writes[i + 1].frame
  BY <1>2, <1>3
<1>6. \A k \in FramesAt : k # 1 => k - 1 \in FramesAt' /\ writes'[k - 1].frame = writes[k].frame
  <2> TAKE k \in FramesAt
  <2> HAVE k # 1
  <2>1. k - 1 \in DOMAIN writes' /\ (k - 1) + 1 = k
    BY <1>2, <1>3
  <2> QED
    BY <1>2, <2>1
<1>7. \A i, j \in FramesAt' : i < j => writes'[i].frame < writes'[j].frame
  <2> TAKE i, j \in FramesAt'
  <2> HAVE i < j
  <2>1. i + 1 < j + 1
    BY <1>2, <1>3
  <2> QED
    BY <1>4, <1>5, <2>1
<1>8. Numbered'
  BY <1>1 DEF Numbered
<1>9. CASE IsFrame(writes[1])
  <2>1. 1 \in FramesAt
    BY <1>2, <1>9 DEF FramesAt
  <2>2. writes[1].frame \in (Taken + 1)..Len(queued)
    BY <1>4, <2>1
  <2>3. writes[1].frame = Taken + 1
    <3>1. PICK i \in FramesAt : writes[i].frame = Taken + 1
      BY <1>0, <1>4, <2>2
    <3>2. i # 1 => 1 < i
      BY <1>2, <1>3
    <3> QED
      BY <1>0, <1>4, <2>1, <2>2, <3>1, <3>2
  <2>4. pc'[Writer] = "write" /\ writing' = Taken + 1
    BY <1>2, <1>9, <2>3 DEF WriteTake, TypeOK, Goto, Loops
  <2>5. Taken' = Taken + 1
    BY <1>0, <1>1, <2>4 DEF Taken
  <2>6. \A i \in FramesAt' : writes'[i].frame \in (Taken + 2)..Len(queued)
    <3> TAKE i \in FramesAt'
    <3>1. i + 1 \in FramesAt /\ 1 < i + 1
      BY <1>2, <1>3, <1>5
    <3>2. writes[1].frame < writes[i + 1].frame
      BY <1>4, <2>1, <3>1
    <3>3. writes[i + 1].frame \in (Taken + 1)..Len(queued)
      BY <1>4, <3>1
    <3> QED
      BY <1>0, <1>5, <2>3, <3>2, <3>3
  <2>7. \A n \in (Taken + 2)..Len(queued) : \E i \in FramesAt' : writes'[i].frame = n
    <3> TAKE n \in (Taken + 2)..Len(queued)
    <3>1. PICK k \in FramesAt : writes[k].frame = n
      BY <1>0, <1>4
    <3>2. k # 1
      BY <1>0, <2>3, <3>1
    <3> QED
      BY <1>6, <3>1, <3>2
  <2>8. (Taken + 1) + 1 = Taken + 2 /\ Taken + 1 <= Len(queued)
    BY <1>0, <2>2, <2>3
  <2> QED
    BY <1>1, <1>7, <1>8, <2>4, <2>5, <2>6, <2>7, <2>8 DEF QueueInv
<1>10. CASE ~IsFrame(writes[1])
  <2>1. 1 \notin FramesAt
    BY <1>10 DEF FramesAt
  <2>2. pc' = pc /\ Taken' = Taken
    BY <1>1, <1>2, <1>10 DEF WriteTake, Taken
  <2>3. \A i \in FramesAt' : writes'[i].frame \in (Taken + 1)..Len(queued)
    BY <1>4, <1>5
  <2>4. \A n \in (Taken + 1)..Len(queued) : \E i \in FramesAt' : writes'[i].frame = n
    BY <1>4, <1>6, <2>1
  <2> QED
    BY <1>1, <1>7, <1>8, <2>2, <2>3, <2>4 DEF QueueInv
<1> QED
  BY <1>9, <1>10

\* A finished write puts just the frame taken behind those written before.
LEMMA WriteKeepsOrder ==
  ASSUME TypeOK, Numbered, QueueInv, WriteOK
  PROVE  Numbered' /\ QueueInv'
<1>1. /\ pc[Writer] = "write" /\ pc'[Writer] = "select"
      /\ UNCHANGED <<writes, writing, queued>>
      /\ written' = Append(written, Frame(writing))
  BY DEF WriteOK, TypeOK, Goto, Loops
<1>2. Len(written) \in Nat /\ written \in Seq(Item) /\ Frame(writing) \in Item
  BY Items DEF TypeOK
<1>3. writing = Len(written) + 1 /\ Taken = Len(written) + 1 /\ Taken <= Len(queued)
  BY <1>1 DEF QueueInv, Taken
<1>4. /\ Len(written') = Len(written) + 1
      /\ \A n \in 1..Len(written) : written'[n] = written[n]
      /\ written'[Len(written) + 1] = Frame(writing)
  BY <1>1, <1>2, AppendItems
<1>5. Taken' = Taken
  BY <1>1, <1>2, <1>3, <1>4 DEF Taken
<1>6. Numbered'
  BY <1>1, <1>2, <1>3, <1>4 DEF Numbered
<1>7. QueueInv'
  BY <1>1, <1>5 DEF QueueInv, FramesAt
<1> QED
  BY <1>6, <1>7

\* The numbering and the contents of the queue hold together in every state.
LEMMA OrderInvariant == Spec => [](Numbered /\ QueueInv)
<1>1. Init => Numbered /\ QueueInv
  BY DEF Init, Numbered, QueueInv, Taken, FramesAt, Loops
<1>2. TypeOK /\ Numbered /\ QueueInv /\ [Next]_vars => Numbered' /\ QueueInv'
  <2> SUFFICES ASSUME TypeOK, Numbered, QueueInv, [Next]_vars
               PROVE  Numbered' /\ QueueInv'
    OBVIOUS
  <2>0. pc \in [Callers \cup Loops -> Labels]
    BY DEF TypeOK
  <2> USE DEF orderVars, Goto, Return, writeVars
  <2>1. ASSUME NEW g \in Callers, Send(g) PROVE Numbered' /\ QueueInv'
    <3>1. CASE SendCheck(g)
      BY <2>0, <3>1, OrderUndisturbed DEF SendCheck, Loops
    <3> QED
      BY <2>1, <3>1, SendKeepsOrder DEF Send
  <2>2. ASSUME NEW g \in Callers, Flush(g) PROVE Numbered' /\ QueueInv'
    <3>1. CASE FlushCheck(g)
      BY <2>0, <3>1, OrderUndisturbed DEF FlushCheck, Loops
    <3>2. CASE FlushDone(g) \/ FlushEnded(g) \/ FlushTimeout(g)
      BY <2>0, <3>2, OrderUndisturbed DEF FlushDone, FlushEnded, FlushTimeout, Loops
    <3> QED
      BY <2>2, <3>1, <3>2, FlushKeepsOrder DEF Flush
  <2>3. ASSUME NEW g \in Callers, CallClose(g) PROVE Numbered' /\ QueueInv'
    BY <2>0, <2>3, OrderUndisturbed DEF CallClose, Loops
  <2>4. ASSUME NEW g \in Callers \cup Loops, Close(g) PROVE Numbered' /\ QueueInv'
    BY <2>0, <2>4, OrderUndisturbed
       DEF Close, CloseMark, CloseSignal, CloseSocket, AfterClose, Loops
  <2>5. ASSUME NEW g \in Loops, Fail(g) PROVE Numbered' /\ QueueInv'
    BY <2>0, <2>5, OrderUndisturbed DEF Fail, Loops
  <2>6. CASE writeLoop
    <3>1. CASE WriteClosing \/ WriteError \/ WriterExit
      BY <2>0, <3>1, OrderUndisturbed DEF WriteClosing, WriteError, WriterExit, Loops
    <3> QED
      BY <2>6, <3>1, TakeKeepsOrder, WriteKeepsOrder DEF writeLoop
  <2>7. CASE readLoop
    BY <2>0, <2>7, OrderUndisturbed
       DEF readLoop, ReadChunk, ReadPacket, ReadEOF, ReadError, ReadDeliver,
           ReaderExit, Loops
  <2>8. CASE PeerEOF \/ NetworkBreaks \/ Receive \/ StopReceiving
    BY <2>8, OrderUndisturbed DEF PeerEOF, NetworkBreaks, Receive, StopReceiving
  <2>9. CASE UNCHANGED vars
    BY <2>9, OrderUndisturbed DEF vars
  <2> QED
    BY <2>1, <2>2, <2>3, <2>4, <2>5, <2>6, <2>7, <2>8, <2>9 DEF Next
<1> QED
  BY <1>1, <1>2, TypeCorrect, PTL DEF Spec

\* Frames reach the socket in the order Send accepted them, none lost, repeated
\* or overtaken, for as long as the write loop runs.
THEOREM FramesInOrder == Spec => []WrittenInOrder
<1>1. TypeOK /\ Numbered /\ QueueInv => WrittenInOrder
  <2> SUFFICES ASSUME TypeOK, Numbered, QueueInv PROVE WrittenInOrder
    OBVIOUS
  <2>1. IsPrefix(written, queued)
    <3>1. Len(written) <= Len(queued) /\ \A n \in 1..Len(written) : written[n] = queued[n]
      BY DEF Numbered, TypeOK
    <3>2. SubSeq(written, 1, Len(written)) = SubSeq(queued, 1, Len(written))
      BY <3>1 DEF TypeOK
    <3> QED
      BY <3>1, <3>2 DEF IsPrefix
  <2>2. ASSUME pc[Writer] \in {"select", "write"}
        PROVE  {writes[i].frame : i \in FramesAt} = (Taken + 1)..Len(queued)
    BY <2>2 DEF QueueInv
  <2> QED
    BY <2>1, <2>2 DEF WrittenInOrder, QueueInv
<1> QED
  BY <1>1, OrderInvariant, TypeCorrect, PTL

-----------------------------------------------------------------------------
(* Flush. *)

\* Steps that leave the queue, the socket and the flush numbers alone.
LEMMA FlushUndisturbed ==
  ASSUME FlushNumbers, MarkerInv,
         UNCHANGED <<writes, queued, written, doneCh, flushOf, before, flushes>>,
         \A g \in Callers : pc'[g] = "flush" => pc[g] = "flush"
  PROVE  FlushNumbers' /\ MarkerInv'
BY DEF FlushNumbers, MarkerInv, MarkersAt, FramesAt

\* A frame accepted now is newer than every Flush called before.
LEMMA SendKeepsFlush ==
  ASSUME TypeOK, FlushNumbers, MarkerInv, NEW g \in Callers, SendEnqueue(g)
  PROVE  FlushNumbers' /\ MarkerInv'
<1>0. /\ queued \in Seq(Item) /\ Len(queued) \in Nat /\ before \in [Callers -> Nat]
  BY DEF TypeOK
<1>1. /\ \A h \in Callers : pc'[h] = "flush" => pc[h] = "flush"
      /\ UNCHANGED <<written, doneCh, flushOf, before, flushes>>
  BY DEF SendEnqueue, TypeOK, Return, Goto, Loops
<1>2. CASE Len(writes) < WriteQueue
  <2> DEFINE new == Frame(Len(queued) + 1)
  <2>1. queued' = Append(queued, new) /\ writes' = Append(writes, new)
    BY <1>2 DEF SendEnqueue
  <2>2. new \in Item /\ IsFrame(new) /\ new.frame = Len(queued) + 1
    BY <1>0, Items
  <2> HIDE DEF new
  <2>3. Len(queued') = Len(queued) + 1
    BY <1>0, <2>1, <2>2, AppendItems
  <2>4. /\ DOMAIN writes = 1..Len(writes) /\ Len(writes) \in Nat
        /\ DOMAIN writes' = 1..(Len(writes) + 1)
        /\ \A i \in DOMAIN writes : writes'[i] = writes[i]
        /\ writes'[Len(writes) + 1] = new
        /\ FramesAt' = FramesAt \cup {Len(writes) + 1}
    BY <2>1, <2>2, QueuePut
  <2>5. /\ MarkersAt' = MarkersAt /\ MarkersAt \subseteq DOMAIN writes
        /\ FramesAt \subseteq DOMAIN writes
    BY <2>4 DEF MarkersAt, FramesAt
  <2>6. \A i \in MarkersAt : writes'[i].flush = writes[i].flush
    BY <2>4, <2>5
  <2>7. FlushNumbers'
    BY <1>1, <2>5, <2>6 DEF FlushNumbers
  <2>8. \A h \in Callers, i \in MarkersAt', j \in FramesAt' :
          writes'[i].flush = flushOf[h] /\ i < j => writes'[j].frame > before[h]
    <3> TAKE h \in Callers, i \in MarkersAt', j \in FramesAt'
    <3>1. CASE j \in FramesAt
      BY <2>4, <2>5, <2>6, <3>1 DEF MarkerInv
    <3>2. CASE j = Len(writes) + 1
      <4>1. writes'[j].frame = Len(queued) + 1
        BY <2>2, <2>4, <3>2
      <4>2. before[h] <= Len(queued) /\ before[h] \in Nat
        BY <1>0 DEF MarkerInv
      <4> QED
        BY <1>0, <4>1, <4>2
    <3> QED
      BY <2>4, <3>1, <3>2
  <2>9. \A h \in Callers : before[h] <= Len(queued')
    BY <1>0, <2>3 DEF MarkerInv
  <2> QED
    BY <1>1, <2>7, <2>8, <2>9 DEF MarkerInv
<1>3. CASE ~(Len(writes) < WriteQueue)
  BY <1>1, <1>3, FlushUndisturbed DEF SendEnqueue
<1> QED
  BY <1>2, <1>3

\* A new Flush takes a number nobody used and starts behind what is queued.
LEMMA CheckKeepsFlush ==
  ASSUME TypeOK, FlushNumbers, MarkerInv, NEW g \in Callers, FlushCheck(g)
  PROVE  FlushNumbers' /\ MarkerInv'
<1>0. /\ Len(queued) \in Nat /\ before \in [Callers -> Nat]
      /\ flushOf \in [Callers -> Nat] /\ flushes \in Nat
  BY DEF TypeOK
<1>1. /\ \A h \in Callers : h # g => /\ pc'[h] = pc[h]
                                     /\ flushOf'[h] = flushOf[h]
                                     /\ before'[h] = before[h]
      /\ flushes' = flushes + 1
      /\ flushOf'[g] = flushes + 1 /\ before'[g] = Len(queued)
      /\ UNCHANGED <<writes, queued, written, doneCh>>
  BY <1>0 DEF FlushCheck, TypeOK, Goto, writeVars, Loops
<1>2. MarkersAt' = MarkersAt /\ FramesAt' = FramesAt
  BY <1>1 DEF MarkersAt, FramesAt
<1>3. \A h \in Callers : flushOf[h] # flushes + 1
  BY <1>0 DEF FlushNumbers
<1>4. flushes + 1 \notin doneCh /\ flushes + 1 # 0
  BY <1>0 DEF FlushNumbers
<1>5. \A i \in MarkersAt : writes[i].flush # flushes + 1 /\ writes[i].flush \in 1..(flushes + 1)
  BY <1>0 DEF FlushNumbers
<1>6. FlushNumbers'
  <2>1. \A h \in Callers : flushOf'[h] <= flushes'
    BY <1>0, <1>1 DEF FlushNumbers
  <2>2. \A h, k \in Callers : h # k /\ flushOf'[h] = flushOf'[k] => flushOf'[h] = 0
    BY <1>0, <1>1, <1>3 DEF FlushNumbers
  <2>3. \A n \in doneCh : n \in 1..(flushes + 1)
    BY <1>0 DEF FlushNumbers
  <2>4. \A h \in Callers : pc'[h] = "flush" =>
          /\ flushOf'[h] # 0
          /\ flushOf'[h] \notin doneCh
          /\ \A i \in MarkersAt : writes[i].flush # flushOf'[h]
    BY <1>1, <1>4, <1>5 DEF FlushNumbers
  <2> QED
    BY <1>1, <1>2, <1>5, <2>1, <2>2, <2>3, <2>4 DEF FlushNumbers
<1>7. MarkerInv'
  <2>1. \A h \in Callers : before'[h] <= Len(queued)
    BY <1>0, <1>1 DEF MarkerInv
  <2>2. \A h \in Callers, i \in MarkersAt, j \in FramesAt :
          writes[i].flush = flushOf'[h] /\ i < j => writes[j].frame > before'[h]
    BY <1>1, <1>5 DEF MarkerInv
  <2>3. \A h \in Callers : flushOf'[h] \in doneCh => Len(written) >= before'[h]
    BY <1>1, <1>4 DEF MarkerInv
  <2> QED
    BY <1>1, <1>2, <2>1, <2>2, <2>3 DEF MarkerInv
<1> QED
  BY <1>6, <1>7

\* The marker goes behind every frame its Flush is to wait for.
LEMMA EnqueueKeepsFlush ==
  ASSUME TypeOK, FlushNumbers, MarkerInv, NEW g \in Callers, FlushEnqueue(g)
  PROVE  FlushNumbers' /\ MarkerInv'
<1>0. flushOf \in [Callers -> Nat] /\ flushes \in Nat
  BY DEF TypeOK
<1>1. /\ \A h \in Callers : pc'[h] = "flush" => pc[h] = "flush" /\ h # g
      /\ UNCHANGED <<queued, written, doneCh, flushOf, before, flushes>>
      /\ pc[g] = "flush"
      /\ writes' = Append(writes, Marker(flushOf[g]))
  BY DEF FlushEnqueue, TypeOK, Goto, callVars, Loops
<1>2. /\ Marker(flushOf[g]) \in Item /\ ~IsFrame(Marker(flushOf[g]))
      /\ Marker(flushOf[g]).flush = flushOf[g]
  BY <1>0, Items
<1>3. /\ DOMAIN writes = 1..Len(writes) /\ Len(writes) \in Nat
      /\ DOMAIN writes' = 1..(Len(writes) + 1)
      /\ \A i \in DOMAIN writes : writes'[i] = writes[i]
      /\ writes'[Len(writes) + 1] = Marker(flushOf[g])
      /\ FramesAt' = FramesAt
  BY <1>1, <1>2, QueuePut
<1>4. /\ FramesAt \subseteq DOMAIN writes /\ MarkersAt \subseteq DOMAIN writes
      /\ MarkersAt' \subseteq MarkersAt \cup {Len(writes) + 1}
  BY <1>3 DEF MarkersAt, FramesAt
<1>5. flushOf[g] \in 1..flushes
  BY <1>0, <1>1 DEF FlushNumbers
<1>6. \A i \in MarkersAt : writes'[i].flush = writes[i].flush
  BY <1>3, <1>4
<1>7. writes'[Len(writes) + 1].flush = flushOf[g]
  BY <1>2, <1>3
<1>8. FlushNumbers'
  <2>1. \A i \in MarkersAt' : writes'[i].flush \in 1..flushes
    BY <1>4, <1>5, <1>6, <1>7 DEF FlushNumbers
  <2>2. \A h \in Callers : pc'[h] = "flush" =>
          \A i \in MarkersAt' : writes'[i].flush # flushOf[h]
    BY <1>1, <1>4, <1>6, <1>7 DEF FlushNumbers
  <2> QED
    BY <1>1, <2>1, <2>2 DEF FlushNumbers
<1>9. \A h \in Callers, i \in MarkersAt', j \in FramesAt' :
        writes'[i].flush = flushOf[h] /\ i < j => writes'[j].frame > before[h]
  <2> TAKE h \in Callers, i \in MarkersAt', j \in FramesAt'
  <2>1. CASE i \in MarkersAt
    BY <1>3, <1>4, <1>6, <2>1 DEF MarkerInv
  <2>2. CASE i = Len(writes) + 1
    BY <1>3, <1>4, <2>2
  <2> QED
    BY <1>4, <2>1, <2>2
<1> QED
  BY <1>1, <1>8, <1>9 DEF MarkerInv

\* When the write loop comes to a marker, the frames before it are written.
LEMMA TakeKeepsFlush ==
  ASSUME TypeOK, Numbered, QueueInv, FlushNumbers, MarkerInv, WriteTake
  PROVE  FlushNumbers' /\ MarkerInv'
<1>0. /\ Len(queued) \in Nat /\ Len(written) \in Nat
      /\ before \in [Callers -> Nat] /\ pc[Writer] = "select"
      /\ Taken = Len(written)
  BY DEF TypeOK, WriteTake, Taken
<1>1. /\ writes # <<>> /\ writes' = Tail(writes)
      /\ UNCHANGED <<queued, written, flushOf, before, flushes>>
      /\ \A g \in Callers : pc'[g] = pc[g]
  BY DEF WriteTake, TypeOK, Goto, callVars, Loops
<1>2. /\ DOMAIN writes = 1..Len(writes) /\ Len(writes) \in Nat \ {0}
      /\ DOMAIN writes' = 1..(Len(writes) - 1)
      /\ Head(writes) = writes[1] /\ writes[1] \in Item
      /\ \A i \in DOMAIN writes' : i + 1 \in DOMAIN writes /\ writes'[i] = writes[i + 1]
      /\ \A i \in DOMAIN writes' : i \in FramesAt' <=> i + 1 \in FramesAt
  BY <1>1, QueueTaken
<1>3. /\ \A i \in FramesAt' : i + 1 \in FramesAt /\ writes'[i].frame = writes[i + 1].frame
      /\ \A i \in MarkersAt' : i + 1 \in MarkersAt /\ writes'[i].flush = writes[i + 1].flush
  BY <1>2 DEF MarkersAt, FramesAt
<1>4. \A g \in Callers, i \in MarkersAt', j \in FramesAt' :
        writes'[i].flush = flushOf[g] /\ i < j => writes'[j].frame > before[g]
  <2> TAKE g \in Callers, i \in MarkersAt', j \in FramesAt'
  <2> HAVE writes'[i].flush = flushOf[g] /\ i < j
  <2>1. i + 1 < j + 1
    BY <1>2 DEF MarkersAt, FramesAt
  <2> QED
    BY <1>3, <2>1 DEF MarkerInv
<1>5. /\ \A i \in MarkersAt' : writes'[i].flush \in 1..flushes
      /\ \A g \in Callers : pc[g] = "flush" =>
           \A i \in MarkersAt' : writes'[i].flush # flushOf[g]
  BY <1>3 DEF FlushNumbers
<1>6. CASE IsFrame(writes[1])
  <2>1. doneCh' = doneCh
    BY <1>2, <1>6 DEF WriteTake
  <2>2. FlushNumbers'
    BY <1>1, <1>5, <2>1 DEF FlushNumbers
  <2> QED
    BY <1>1, <1>4, <2>1, <2>2 DEF MarkerInv
<1>7. CASE ~IsFrame(writes[1])
  <2>1. doneCh' = doneCh \cup {writes[1].flush}
    BY <1>2, <1>7 DEF WriteTake
  <2>2. 1 \in MarkersAt /\ 1 \notin FramesAt
    BY <1>2, <1>7 DEF MarkersAt, FramesAt
  <2>3. FlushNumbers'
    BY <1>1, <1>5, <2>1, <2>2 DEF FlushNumbers
  <2>4. \A g \in Callers : flushOf[g] \in doneCh' => Len(written) >= before[g]
    <3> SUFFICES ASSUME NEW g \in Callers, flushOf[g] = writes[1].flush,
                        ~(Len(written) >= before[g])
                 PROVE  FALSE
      BY <2>1 DEF MarkerInv
    <3>1. before[g] <= Len(queued) /\ before[g] \in Nat
      BY <1>0 DEF MarkerInv
    <3>2. Len(written) + 1 \in (Taken + 1)..Len(queued)
      BY <1>0, <3>1
    <3>3. PICK i \in FramesAt : writes[i].frame = Len(written) + 1
      BY <1>0, <3>2 DEF QueueInv
    <3>4. 1 < i
      BY <1>2, <2>2, <3>3 DEF FramesAt
    <3>5. writes[i].frame > before[g]
      BY <2>2, <3>4 DEF MarkerInv
    <3> QED
      BY <1>0, <3>1, <3>3, <3>5
  <2> QED
    BY <1>1, <1>4, <2>3, <2>4 DEF MarkerInv
<1> QED
  BY <1>6, <1>7

\* Writing only adds to the socket.
LEMMA WriteKeepsFlush ==
  ASSUME TypeOK, FlushNumbers, MarkerInv, WriteOK
  PROVE  FlushNumbers' /\ MarkerInv' /\ Len(written') = Len(written) + 1
<1>1. /\ UNCHANGED <<writes, queued, doneCh, flushOf, before, flushes>>
      /\ \A g \in Callers : pc'[g] = pc[g]
      /\ written' = Append(written, Frame(writing))
  BY DEF WriteOK, TypeOK, Goto, callVars, Loops
<1>2. /\ Len(written) \in Nat /\ before \in [Callers -> Nat]
      /\ written \in Seq(Item) /\ Frame(writing) \in Item
  BY Items DEF TypeOK
<1>3. Len(written') = Len(written) + 1
  BY <1>1, <1>2, AppendItems
<1>4. \A g \in Callers : Len(written) >= before[g] => Len(written') >= before[g]
  BY <1>2, <1>3
<1> QED
  BY <1>1, <1>3, <1>4 DEF FlushNumbers, MarkerInv, MarkersAt, FramesAt

\* A Flush that returns nil leaves every frame accepted before it on the socket,
\* whatever the other callers send, flush, time out on or close meanwhile.
THEOREM FlushHonest == Spec => []FlushIsHonest
<1> DEFINE Inv == FlushNumbers /\ MarkerInv /\ FlushIsHonest
<1>1. Init => Inv
  BY DEF Init, FlushNumbers, MarkerInv, MarkersAt, FramesAt, FlushIsHonest, Loops
<1>2. TypeOK /\ Numbered /\ QueueInv /\ Inv /\ [Next]_vars => Inv'
  <2> SUFFICES ASSUME TypeOK, Numbered, QueueInv, Inv, [Next]_vars PROVE Inv'
    OBVIOUS
  <2>0. /\ pc \in [Callers \cup Loops -> Labels] /\ before \in [Callers -> Nat]
        /\ DOMAIN result = Callers /\ Len(written) \in Nat
    BY DEF TypeOK
  <2> USE DEF Goto, Return, writeVars, callVars
  <2>1. ASSUME NEW g \in Callers, Send(g) PROVE Inv'
    <3>1. FlushNumbers' /\ MarkerInv'
      BY <2>0, <2>1, SendKeepsFlush, FlushUndisturbed DEF Send, SendCheck, Loops
    <3>2. FlushIsHonest'
      BY <2>0, <2>1 DEF Send, SendCheck, SendEnqueue, FlushIsHonest
    <3> QED
      BY <3>1, <3>2
  <2>2. ASSUME NEW g \in Callers, Flush(g) PROVE Inv'
    <3>1. CASE FlushCheck(g)
      BY <2>0, <3>1, CheckKeepsFlush DEF FlushCheck, FlushIsHonest
    <3>2. CASE FlushEnqueue(g)
      BY <3>2, EnqueueKeepsFlush DEF FlushEnqueue, FlushIsHonest
    <3>3. CASE FlushDone(g)
      <4>1. FlushNumbers' /\ MarkerInv'
        BY <2>0, <3>3, FlushUndisturbed DEF FlushDone, Loops
      <4> QED
        BY <2>0, <3>3, <4>1 DEF FlushDone, FlushIsHonest, MarkerInv
    <3>4. CASE FlushEnded(g) \/ FlushTimeout(g)
      <4>1. FlushNumbers' /\ MarkerInv'
        BY <2>0, <3>4, FlushUndisturbed DEF FlushEnded, FlushTimeout, Loops
      <4> QED
        BY <2>0, <3>4, <4>1 DEF FlushEnded, FlushTimeout, FlushIsHonest
    <3> QED
      BY <2>2, <3>1, <3>2, <3>3, <3>4 DEF Flush
  <2>3. ASSUME NEW g \in Callers, CallClose(g) PROVE Inv'
    BY <2>0, <2>3, FlushUndisturbed DEF CallClose, FlushIsHonest, Loops
  <2>4. ASSUME NEW g \in Callers \cup Loops, Close(g) PROVE Inv'
    BY <2>0, <2>4, FlushUndisturbed
       DEF Close, CloseMark, CloseSignal, CloseSocket, AfterClose, FlushIsHonest, Loops
  <2>5. ASSUME NEW g \in Loops, Fail(g) PROVE Inv'
    BY <2>0, <2>5, FlushUndisturbed DEF Fail, FlushIsHonest, Loops
  <2>6. CASE writeLoop
    <3>1. CASE WriteClosing \/ WriteError \/ WriterExit
      BY <2>0, <3>1, FlushUndisturbed
         DEF WriteClosing, WriteError, WriterExit, FlushIsHonest, Loops
    <3>2. CASE WriteTake
      BY <3>2, TakeKeepsFlush DEF WriteTake, FlushIsHonest
    <3>3. CASE WriteOK
      BY <2>0, <3>3, WriteKeepsFlush DEF WriteOK, FlushIsHonest
    <3> QED
      BY <2>6, <3>1, <3>2, <3>3 DEF writeLoop
  <2>7. CASE readLoop
    BY <2>0, <2>7, FlushUndisturbed
       DEF readLoop, ReadChunk, ReadPacket, ReadEOF, ReadError, ReadDeliver,
           ReaderExit, FlushIsHonest, Loops
  <2>8. CASE PeerEOF \/ NetworkBreaks \/ Receive \/ StopReceiving
    BY <2>8, FlushUndisturbed
       DEF PeerEOF, NetworkBreaks, Receive, StopReceiving, FlushIsHonest
  <2>9. CASE UNCHANGED vars
    BY <2>9, FlushUndisturbed DEF vars, FlushIsHonest
  <2> QED
    BY <2>1, <2>2, <2>3, <2>4, <2>5, <2>6, <2>7, <2>8, <2>9 DEF Next
<1> QED
  BY <1>1, <1>2, TypeCorrect, OrderInvariant, PTL DEF Spec
=============================================================================
