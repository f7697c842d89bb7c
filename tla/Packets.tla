------------------------------- MODULE Packets -------------------------------
(***************************************************************************)
(* What the read loop makes of a stream of frames (protocol/header.go;     *)
(* readLoop, rawChunkState and decompress in protocol/conn.go): a packet   *)
(* is a main frame and the raw chunks that came before it, each of which   *)
(* takes the place of one of its elements.  The goroutines are Conn's.     *)
(*                                                                         *)
(* A payload is its frame's number and its size, in units of a limit.      *)
(***************************************************************************)
EXTENDS Naturals, Sequences, FiniteSets, FiniteSetsExt

CONSTANTS
  MaxPayloadSize,
  MaxRawChunks,
  MaxPacketIndex,
  MaxFrames       \* bound: frames of a stream

\* What the constants have to satisfy.
PacketsAssumption ==
  /\ {MaxPayloadSize, MaxRawChunks, MaxPacketIndex} \subseteq Nat \ {0}
  /\ MaxFrames \in Nat

VARIABLES
  frames,    \* history: the frames that came
  waiting,   \* rawChunkState.packets: number and size of a frame, by index
  held,      \* rawChunkState.size
  delivered, \* the packets: the number of the main frame, its chunks by index
  ending     \* "open", "clean" or "failed"

vars == <<frames, waiting, held, delivered, ending>>

Init ==
  /\ frames = <<>> /\ waiting = <<>> /\ held = 0
  /\ delivered = <<>> /\ ending = "open"

-----------------------------------------------------------------------------
(* The frames a server may send: the last ones break a rule each. *)

Sizes == {0, 1, MaxPayloadSize, MaxPayloadSize + 1}
Indexes == 0 .. MaxPacketIndex + 1

\* A packet's elements after its name, as far as chunks mind.
Elements == {<<>>, <<"empty">>, <<"full">>, <<"number">>, <<"empty", "empty">>, <<"full", "empty">>}

Plain == [index : Indexes, flags : {"rencodeplus"}, compression : {"none"}, size : Sizes,
          expanded : {0}, elements : Elements]
Compressed == [index : {0, 1}, flags : {"rencodeplus"}, compression : {"lz4", "zstd"}, size : {1},
               expanded : Sizes, elements : {<<>>, <<"empty">>}]
Other == [index : {0, 1}, flags : {"rencode"}, compression : {"none"}, size : {1}, expanded : {0},
          elements : {<<>>, <<"empty">>}]

\* A chunk has no elements.
Frames == {f \in Plain \cup Compressed \cup Other : f.index > 0 => f.elements = <<>>}

-----------------------------------------------------------------------------
(* The read loop *)

\* parseHeader
GoodHeader(f) == f.size \in 1 .. MaxPayloadSize /\ f.index <= MaxPacketIndex

\* decompress: what the block announces is bounded before it is allocated.
GoodBlock(f) ==
  \/ f.compression = "none"
  \/ f.compression = "lz4" /\ f.expanded <= MaxPayloadSize

Length(f) == IF f.compression = "none" THEN f.size ELSE f.expanded

\* rawChunkState.add; what is held never exceeds the limit.
Addable(f) ==
  /\ Length(f) > 0
  /\ f.index \notin DOMAIN waiting
  /\ Cardinality(DOMAIN waiting) < MaxRawChunks
  /\ Length(f) <= MaxPayloadSize - held

\* rawChunkState.apply: every chunk has an empty element to replace.
Applicable(f) ==
  \/ DOMAIN waiting = {}
  \/ /\ Length(f) <= MaxPayloadSize - held
     /\ \A i \in DOMAIN waiting : i <= Len(f.elements) /\ f.elements[i] = "empty"

ReadChunk(f) ==
  /\ f.index > 0 /\ Addable(f)
  /\ waiting' = [i \in DOMAIN waiting \cup {f.index} |->
                   IF i = f.index THEN [frame |-> Len(frames'), size |-> Length(f)] ELSE waiting[i]]
  /\ held' = held + Length(f)
  /\ UNCHANGED <<delivered, ending>>

\* Mutant: the chunks of a packet stay for the next one.
KeepChunks == UNCHANGED <<waiting, held>>

DropChunks == waiting' = <<>> /\ held' = 0

ReadMain(f) ==
  /\ f.index = 0 /\ f.flags = "rencodeplus" /\ Length(f) > 0 /\ Applicable(f)
  /\ delivered' = Append(delivered, [main |-> Len(frames'), size |-> held + Length(f),
                                     chunks |-> [i \in DOMAIN waiting |-> waiting[i].frame]])
  /\ DropChunks
  /\ UNCHANGED ending

Readable(f) ==
  /\ GoodHeader(f) /\ GoodBlock(f)
  /\ IF f.index > 0 THEN Addable(f)
     ELSE f.flags = "rencodeplus" /\ Length(f) > 0 /\ Applicable(f)

Fail == ending' = "failed" /\ UNCHANGED <<waiting, held, delivered>>

Arrive ==
  /\ ending = "open" /\ Len(frames) < MaxFrames
  /\ \E f \in Frames :
       /\ frames' = Append(frames, f)
       /\ \/ Readable(f) /\ (ReadChunk(f) \/ ReadMain(f))
          \/ ~Readable(f) /\ Fail

\* The stream ends within a frame, or one cannot be expanded or decoded; or it
\* ends between two frames.
CutOff == ending = "open" /\ Fail /\ UNCHANGED frames

EndOfStream ==
  /\ ending = "open"
  /\ ending' = IF DOMAIN waiting = {} THEN "clean" ELSE "failed"
  /\ UNCHANGED <<frames, waiting, held, delivered>>

Next == Arrive \/ CutOff \/ EndOfStream

Spec == Init /\ [][Next]_vars

-----------------------------------------------------------------------------
\* Every packet is what the server put into it: its main frame with all the
\* chunks since the packet before, each where an empty element stood and none
\* of another packet; it is within the limit; and a stream that ends cleanly
\* has delivered all of its frames.
PacketsAreWhole ==
  LET Before(n) == IF n = 1 THEN 0 ELSE delivered[n - 1].main
  IN /\ \A n \in DOMAIN delivered :
          LET d == delivered[n]
              parts == Before(n) + 1 .. d.main - 1
          IN /\ {d.chunks[i] : i \in DOMAIN d.chunks} = parts
             /\ Cardinality(DOMAIN d.chunks) = Cardinality(parts)
             /\ \A i \in DOMAIN d.chunks :
                  /\ frames[d.chunks[i]].index = i
                  /\ frames[d.main].elements[i] = "empty"
             /\ d.size = MapThenSumSet(LAMBDA k : Length(frames[k]), parts \cup {d.main})
             /\ d.size <= MaxPayloadSize
     /\ ending = "clean" =>
          Len(frames) = IF delivered = <<>> THEN 0 ELSE delivered[Len(delivered)].main
=============================================================================
