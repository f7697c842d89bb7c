--------------------------- MODULE Drawing_proofs ---------------------------
(***************************************************************************)
(* Proofs about Drawing, for a ring of any size, any write queue and any   *)
(* number of draws: what is painted is what was drawn, and every draw is   *)
(* given back and acknowledged once.                                       *)
(***************************************************************************)
EXTENDS Drawing, TLAPS

-----------------------------------------------------------------------------
(* Places in the ring. *)

\* Once around the ring is enough for every sum the code makes.
LEMMA Wrap ==
  ASSUME DrawingAssumption, NEW k \in Nat, k < 2 * Size
  PROVE  k % Size = IF k < Size THEN k ELSE k - Size
<1>1. Size \in Nat /\ Size > 1
  BY DEF DrawingAssumption
<1>2. CASE k < Size
  BY <1>1, <1>2
<1>3. CASE k >= Size
  <2>1. k = Size * 1 + (k - Size) /\ k - Size \in 0..(Size - 1)
    BY <1>1, <1>3
  <2> QED
    BY <1>1, <1>3, <2>1
<1> QED
  BY <1>1, <1>2, <1>3

\* How far a cell is behind another, around the ring.
Gap(a, c) == IF c >= a THEN c - a ELSE c - a + Size

\* The first of two steps around the ring, measured from a cell.
LEMMA GapSplits ==
  ASSUME DrawingAssumption, NEW a \in Cells, NEW w \in Cells, NEW c \in Cells,
         Gap(a, w) + Gap(w, c) < Size
  PROVE  Gap(a, c) = Gap(a, w) + Gap(w, c)
  BY DEF DrawingAssumption, Cells, Gap

\* From the cell behind another one, all that comes later is nearer by as much.
LEMMA GapShrinks ==
  ASSUME DrawingAssumption, NEW a \in Cells, NEW b \in Cells, NEW c \in Cells,
         NEW next \in Cells, next = IF b + 1 = Size THEN 0 ELSE b + 1,
         Gap(a, b) < Gap(a, c)
  PROVE  Gap(next, c) = Gap(a, c) - Gap(a, b) - 1
  BY DEF DrawingAssumption, Cells, Gap

LEMMA GapRange ==
  ASSUME DrawingAssumption, NEW a \in Cells, NEW c \in Cells
  PROVE  Gap(a, c) \in Cells
  BY DEF DrawingAssumption, Cells, Gap

\* Where a draw lies: its cells are those from where it was written, and it ends
\* behind the last of them.
LEMMA ChunkCells ==
  ASSUME DrawingAssumption, NEW at \in Cells, NEW n \in Cells \ {0}
  PROVE  /\ ChunksAt(at, n) \in Seq(Chunk)
         /\ CellsOf(ChunksAt(at, n)) = {c \in Cells : Gap(at, c) < n}
         /\ End(ChunksAt(at, n)) = IF at + n <= Size THEN at + n ELSE at + n - Size
<1> DEFINE one == [offset |-> at, length |-> n]
           first == [offset |-> at, length |-> Size - at]
           second == [offset |-> 0, length |-> n - (Size - at)]
<1>0. Size \in Nat /\ Size > 1 /\ at \in Nat /\ at < Size /\ n \in Nat /\ 0 < n /\ n < Size
  BY DEF DrawingAssumption, Cells
<1>1. CASE at + n <= Size
  <2>1. ChunksAt(at, n) = <<one>> /\ one \in Chunk
    BY <1>0, <1>1 DEF ChunksAt, Chunk, Cells
  <2>2. CellsOf(<<one>>) = at .. (at + n - 1)
    <3>1. Range(<<one>>) = {one}
      BY DEF Range
    <3> QED
      BY <3>1 DEF CellsOf
  <2>3. at .. (at + n - 1) = {c \in Cells : Gap(at, c) < n}
    BY <1>0, <1>1 DEF Cells, Gap
  <2>4. End(<<one>>) = at + n
    BY DEF End
  <2> QED
    BY <1>1, <2>1, <2>2, <2>3, <2>4
<1>2. CASE ~(at + n <= Size)
  <2>1. ChunksAt(at, n) = <<first, second>> /\ first \in Chunk /\ second \in Chunk
    BY <1>0, <1>2 DEF ChunksAt, Chunk, Cells
  <2>2. CellsOf(<<first, second>>) = (at .. (Size - 1)) \cup (0 .. (at + n - Size - 1))
    <3>1. Range(<<first, second>>) = {first, second}
      BY DEF Range
    <3>2. first.offset + first.length - 1 = Size - 1 /\ second.offset + second.length - 1 = at + n - Size - 1
      BY <1>0
    <3> QED
      BY <3>1, <3>2 DEF CellsOf
  <2>3. (at .. (Size - 1)) \cup (0 .. (at + n - Size - 1)) = {c \in Cells : Gap(at, c) < n}
    BY <1>0, <1>2 DEF Cells, Gap
  <2>4. End(<<first, second>>) = at + n - Size
    <3>1. Len(<<first, second>>) = 2 /\ <<first, second>>[2] = second
      OBVIOUS
    <3> QED
      BY <1>0, <3>1 DEF End
  <2> QED
    BY <1>2, <2>1, <2>2, <2>3, <2>4
<1> QED
  BY <1>1, <1>2

-----------------------------------------------------------------------------
(* Queues. *)

\* Appending keeps what is there and puts the new item last.
LEMMA AppendItems ==
  ASSUME NEW S, NEW s \in Seq(S), NEW e \in S
  PROVE  /\ Append(s, e) \in Seq(S) /\ Len(Append(s, e)) = Len(s) + 1 /\ Len(s) \in Nat
         /\ DOMAIN Append(s, e) = 1..(Len(s) + 1) /\ DOMAIN s = 1..Len(s)
         /\ \A i \in DOMAIN s : Append(s, e)[i] = s[i]
         /\ Append(s, e)[Len(s) + 1] = e
<1>1. /\ Append(s, e) \in Seq(S) /\ Len(Append(s, e)) = Len(s) + 1 /\ Len(s) \in Nat
      /\ \A i \in 1..Len(s) : Append(s, e)[i] = s[i]
      /\ Append(s, e)[Len(s) + 1] = e
  OBVIOUS
<1>2. DOMAIN s = 1..Len(s) /\ DOMAIN Append(s, e) = 1..(Len(s) + 1)
  BY <1>1
<1> QED
  BY <1>1, <1>2

\* Taking the first item moves the others up by one.
LEMMA TailItems ==
  ASSUME NEW S, NEW s \in Seq(S), s # <<>>
  PROVE  /\ Head(s) \in S /\ Head(s) = s[1] /\ 1 \in DOMAIN s
         /\ Tail(s) \in Seq(S) /\ Len(Tail(s)) = Len(s) - 1 /\ Len(s) \in Nat
         /\ DOMAIN s = 1..Len(s) /\ DOMAIN Tail(s) = 1..(Len(s) - 1)
         /\ \A i \in DOMAIN Tail(s) : i + 1 \in DOMAIN s /\ Tail(s)[i] = s[i + 1]
<1>1. /\ Head(s) \in S /\ Head(s) = s[1] /\ Len(s) \in Nat /\ Len(s) >= 1
      /\ Tail(s) \in Seq(S) /\ Len(Tail(s)) = Len(s) - 1
      /\ \A i \in 1..(Len(s) - 1) : Tail(s)[i] = s[i + 1]
  OBVIOUS
<1>2. DOMAIN s = 1..Len(s) /\ DOMAIN Tail(s) = 1..(Len(s) - 1) /\ 1 \in 1..Len(s)
  BY <1>1
<1>3. \A i \in 1..(Len(s) - 1) : i + 1 \in 1..Len(s)
  BY <1>1
<1> QED
  BY <1>1, <1>2, <1>3

-----------------------------------------------------------------------------
(* Types. *)

\* There is room for what the server writes, and the place behind it is one of
\* the ring.
LEMMA FreeCells ==
  ASSUME DrawingAssumption, RingOK, NEW n \in Cells \ {0}
  PROVE  (writer + n) % Size \in Cells
<1>1. /\ Size \in Nat /\ Size > 1
      /\ writer \in Nat /\ writer < Size /\ n \in Nat /\ n < Size
  BY DEF DrawingAssumption, RingOK, Cells
<1>2. (writer + n) % Size = IF writer + n < Size THEN writer + n ELSE writer + n - Size
  <2>1. PICK k \in Nat : k = writer + n /\ k < 2 * Size
    BY <1>1
  <2>2. k % Size = IF k < Size THEN k ELSE k - Size
    BY <1>1, <2>1, Wrap
  <2> QED
    BY <1>1, <2>1, <2>2
<1>3. (writer + n) % Size \in Nat /\ (writer + n) % Size < Size
  BY <1>1, <1>2
<1> QED
  BY <1>1, <1>3 DEF Cells

LEMMA EndInRing ==
  ASSUME DrawingAssumption, NEW at \in Cells, NEW n \in Cells \ {0}
  PROVE  End(ChunksAt(at, n)) \in 1..Size
<1>1. /\ Size \in Nat /\ Size > 1
      /\ at \in Nat /\ at < Size /\ n \in Nat /\ 0 < n /\ n < Size
  BY DEF DrawingAssumption, Cells
<1>2. End(ChunksAt(at, n)) = IF at + n <= Size THEN at + n ELSE at + n - Size
  BY ChunkCells
<1> QED
  BY <1>1, <1>2

\* A draw that came through the ring: where it was written, and how much.
Written(d) == \E at \in Cells, n \in Cells \ {0} : d.chunks = ChunksAt(at, n)

\* The chunks of every draw through the ring are those that the server wrote.
ChunksOK ==
  /\ \A i \in DOMAIN inbox : inbox[i].kind = "mmap" => Written(inbox[i])
  /\ draw.kind = "mmap" => Written(draw)

\* The ring, draws and acknowledgements keep their types, and what comes through
\* the ring was written there.
LEMMA WellFormed ==
  ASSUME DrawingAssumption
  PROVE  Spec => [](TypeOK /\ ChunksOK)
<1>1. Init => TypeOK /\ ChunksOK
  <2> SUFFICES ASSUME Init PROVE TypeOK /\ ChunksOK
    OBVIOUS
  <2>1. 0 \in Cells /\ 0 \in 0..Size /\ WriteQueue \in Nat
    BY DEF DrawingAssumption, Cells
  <2>2. RingOK
    BY <2>1 DEF Init, RingOK
  <2>3. NoDraw \in Draw
    BY DEF NoDraw, Draw, Kinds
  <2>4. DrawsOK
    BY <2>3 DEF Init, DrawsOK, NoPixels
  <2>5. AcksOK
    BY <2>1 DEF Init, AcksOK
  <2>6. ChunksOK
    BY DEF Init, ChunksOK, NoDraw
  <2> QED
    BY <2>2, <2>4, <2>5, <2>6 DEF TypeOK
<1>2. TypeOK /\ ChunksOK /\ [Next]_vars => (TypeOK /\ ChunksOK)'
  <2> SUFFICES ASSUME TypeOK, ChunksOK, [Next]_vars PROVE TypeOK' /\ ChunksOK'
    OBVIOUS
  <2>0. RingOK /\ DrawsOK /\ AcksOK
    BY DEF TypeOK
  <2> USE <2>0 DEF serverVars, ackVars
  <2>1. ASSUME NEW kind \in Kinds, NEW chunks \in Seq(Chunk), SendDraw(kind, chunks),
               kind = "mmap" => \E at \in Cells, n \in Cells \ {0} : chunks = ChunksAt(at, n)
        PROVE  DrawsOK' /\ AcksOK' /\ ChunksOK' /\ sent' \in Nat
    <3> DEFINE d == [seq |-> sent + 1, kind |-> kind, chunks |-> chunks]
    <3>1. d \in Draw /\ d.kind = kind /\ d.chunks = chunks
      BY DEF Draw, RingOK
    <3>2. inbox' = Append(inbox, d) /\ inbox \in Seq(Draw)
      BY <2>1 DEF SendDraw, DrawsOK
    <3> HIDE DEF d
    <3>3. /\ inbox' \in Seq(Draw)
          /\ \A i \in DOMAIN inbox' : inbox'[i] = d \/ (i \in DOMAIN inbox /\ inbox'[i] = inbox[i])
      BY <3>1, <3>2, AppendItems
    <3>4. DrawsOK' /\ AcksOK' /\ sent' \in Nat
      BY <2>1, <3>3 DEF SendDraw, DrawsOK, AcksOK, RingOK
    <3>5. kind = "mmap" => Written(d)
      BY <2>1, <3>1 DEF Written
    <3>6. ChunksOK'
      BY <2>1, <3>1, <3>3, <3>5 DEF SendDraw, ChunksOK, Written
    <3> QED
      BY <3>4, <3>6
  <2>2. ASSUME NEW n \in Cells \ {0}, ServerDrawsMmap(n) PROVE TypeOK' /\ ChunksOK'
    <3>1. writer \in Cells /\ ChunksAt(writer, n) \in Seq(Chunk)
      BY ChunkCells DEF RingOK
    <3>2. SendDraw("mmap", ChunksAt(writer, n)) /\ "mmap" \in Kinds
      BY <2>2 DEF ServerDrawsMmap, Kinds
    <3>3. DrawsOK' /\ AcksOK' /\ ChunksOK' /\ sent' \in Nat
      BY <2>1, <3>1, <3>2
    <3>4. RingOK'
      <4>1. ring' \in [Cells -> Nat] /\ unread' \subseteq Nat
        BY <2>2 DEF ServerDrawsMmap, RingOK
      <4>2. writer' \in Cells /\ cursor' \in 0..Size
        BY <2>2, FreeCells DEF ServerDrawsMmap, SendDraw, RingOK
      <4> QED
        BY <3>3, <4>1, <4>2 DEF RingOK
    <3> QED
      BY <3>3, <3>4 DEF TypeOK
  <2>3. ASSUME NEW kind \in Kinds \ {"mmap"}, ServerDraws(kind) PROVE TypeOK' /\ ChunksOK'
    <3>1. <<>> \in Seq(Chunk)
      OBVIOUS
    <3>2. DrawsOK' /\ AcksOK' /\ ChunksOK' /\ sent' \in Nat
      BY <2>1, <2>3, <3>1 DEF ServerDraws
    <3>3. RingOK'
      BY <2>3, <3>2 DEF ServerDraws, SendDraw, RingOK
    <3> QED
      BY <3>2, <3>3 DEF TypeOK
  <2>4. CASE ServerGetsAck
    <3>1. outbound' \in Seq(Nat) /\ Len(outbound') <= WriteQueue
      BY <2>4, TailItems DEF ServerGetsAck, AcksOK, DrawingAssumption
    <3>2. acks' \in Seq(Nat)
      BY <2>4, TailItems, AppendItems DEF ServerGetsAck, AcksOK
    <3>3. AcksOK'
      BY <2>4, <3>1, <3>2 DEF ServerGetsAck, AcksOK
    <3>4. RingOK' /\ DrawsOK' /\ ChunksOK'
      BY <2>4 DEF ServerGetsAck, RingOK, DrawsOK, ChunksOK, Written
    <3> QED
      BY <3>3, <3>4 DEF TypeOK
  <2>5. CASE WindowChanges
    BY <2>5 DEF WindowChanges, TypeOK, RingOK, DrawsOK, AcksOK, ChunksOK, Written
  <2>6. CASE BeginDraw
    <3>1. /\ Head(inbox) \in Draw /\ Tail(inbox) \in Seq(Draw)
          /\ Head(inbox) = inbox[1] /\ 1 \in DOMAIN inbox
          /\ \A i \in DOMAIN Tail(inbox) : i + 1 \in DOMAIN inbox /\ Tail(inbox)[i] = inbox[i + 1]
      BY <2>6, TailItems DEF BeginDraw, DrawsOK
    <3>2. inbox' = Tail(inbox) /\ draw' = Head(inbox) /\ handling' \in {"painting", "acknowledging"}
      BY <2>6 DEF BeginDraw
    <3>3. pixels'.copied \in BOOLEAN
      BY <2>6 DEF BeginDraw, readChunks, NoPixels
    <3>4. DrawsOK'
      BY <2>6, <3>1, <3>2, <3>3 DEF BeginDraw, DrawsOK
    <3>5. ChunksOK'
      BY <3>1, <3>2 DEF ChunksOK, Written
    <3>6. RingOK' /\ AcksOK'
      BY <2>6 DEF BeginDraw, RingOK, AcksOK
    <3> QED
      BY <3>4, <3>5, <3>6 DEF TypeOK
  <2>7. CASE PaintWindow \/ PaintFails
    <3>1. shown'.seq \in Nat
      BY <2>7 DEF PaintWindow, PaintFails, DrawsOK, Draw
    <3>2. DrawsOK'
      BY <2>7, <3>1 DEF PaintWindow, PaintFails, DrawsOK
    <3>3. RingOK' /\ AcksOK' /\ ChunksOK'
      BY <2>7 DEF PaintWindow, PaintFails, RingOK, AcksOK, ChunksOK, Written
    <3> QED
      BY <3>2, <3>3 DEF TypeOK
  <2>8. CASE Release
    <3>1. DrawsOK' /\ AcksOK' /\ ChunksOK'
      BY <2>8 DEF Release, DrawsOK, AcksOK, ChunksOK, Written
    <3>2. draw.kind = "mmap" => End(draw.chunks) \in 0..Size
      <4>1. draw.kind = "mmap" => End(draw.chunks) \in 1..Size
        BY EndInRing DEF ChunksOK, Written
      <4> QED
        BY <4>1 DEF DrawingAssumption
    <3>3. RingOK'
      BY <2>8, <3>2 DEF Release, RingOK
    <3> QED
      BY <3>1, <3>3 DEF TypeOK
  <2>9. CASE Ack
    <3>1. draw.seq \in Nat
      BY DEF DrawsOK, Draw
    <3>2. AcksOK'
      <4>1. CASE Len(outbound) < WriteQueue
        <5>1. outbound' = Append(outbound, draw.seq) /\ UNCHANGED <<acks, lost>>
          BY <2>9, <4>1 DEF Ack
        <5>2. outbound' \in Seq(Nat) /\ Len(outbound') = Len(outbound) + 1 /\ Len(outbound) \in Nat
          BY <3>1, <5>1, AppendItems DEF AcksOK
        <5> QED
          BY <4>1, <5>1, <5>2 DEF AcksOK, DrawingAssumption
      <4>2. CASE ~(Len(outbound) < WriteQueue)
        BY <2>9, <3>1, <4>2 DEF Ack, AcksOK
      <4> QED
        BY <4>1, <4>2
    <3>3. RingOK' /\ DrawsOK' /\ ChunksOK'
      BY <2>9 DEF Ack, RingOK, DrawsOK, ChunksOK, Written
    <3> QED
      BY <3>2, <3>3 DEF TypeOK
  <2>10. CASE UNCHANGED vars
    BY <2>10 DEF vars, TypeOK, RingOK, DrawsOK, AcksOK, ChunksOK, Written
  <2> QED
    BY <2>2, <2>3, <2>4, <2>5, <2>6, <2>7, <2>8, <2>9, <2>10 DEF Next, handleDraw
<1> QED
  BY <1>1, <1>2, PTL DEF Spec

\* The ring, the draws under way and the acknowledgements keep their types
\* (client/mmap.go, client/client.go handleDraw).
THEOREM TypeCorrect ==
  ASSUME DrawingAssumption
  PROVE  Spec => []TypeOK
  BY WellFormed, PTL

-----------------------------------------------------------------------------
(* Draws whose part of the ring is in use. *)

\* The cell the client reads next.
Start == IF cursor = Size THEN 0 ELSE cursor

\* The cell behind a draw's last one.
Behind(d) == IF End(d.chunks) = Size THEN 0 ELSE End(d.chunks)

Handled == IF handling \in {"painting", "releasing"} /\ draw.kind = "mmap" THEN {draw} ELSE {}

Live == {d \in Range(inbox) : d.kind = "mmap"} \cup Handled

\* Draws are numbered as they are sent, and handled in that order.
Numbered ==
  /\ Len(inbox) <= sent
  /\ \A i \in DOMAIN inbox : inbox[i].seq = sent - Len(inbox) + i
  /\ handling # "idle" => draw.seq = sent - Len(inbox) /\ 0 < draw.seq

\* Between the cursor and the writer lie the draws in use, in their order and
\* unharmed; the last one ends where the server writes next.
Unharmed ==
  \A d \in Live : \A c \in CellsOf(d.chunks) : Gap(Start, c) < Gap(Start, writer) /\ ring[c] = d.seq
InLine ==
  \A d, e \in Live : d.seq < e.seq =>
    \A b \in CellsOf(d.chunks), c \in CellsOf(e.chunks) : Gap(Start, b) < Gap(Start, c)
EndsAtWriter ==
  /\ Live = {} => Start = writer
  /\ \A d \in Live : (\A e \in Live : e.seq <= d.seq) => Behind(d) = writer

RingInv == Unharmed /\ InLine /\ EndsAtWriter

\* What a paint will see.
PixelsInv ==
  handling = "painting" /\ draw.kind = "mmap" =>
    pixels.cells = IF pixels.copied THEN {draw.seq} ELSE CellsOf(draw.chunks)

DrawInv == Numbered /\ RingInv /\ PixelsInv /\ PaintsWhatWasDrawn

-----------------------------------------------------------------------------
(* Where draws in use lie. *)

LEMMA StartInRing ==
  ASSUME DrawingAssumption, RingOK
  PROVE  Start \in Cells /\ writer \in Cells
  BY DEF DrawingAssumption, RingOK, Start, Cells

\* A draw that came through the ring has cells, and ends behind the last of them.
LEMMA WrittenCells ==
  ASSUME DrawingAssumption, NEW d, Written(d)
  PROVE  /\ CellsOf(d.chunks) \subseteq Cells /\ End(d.chunks) \in 1..Size
         /\ End(d.chunks) - 1 \in CellsOf(d.chunks)
         /\ Behind(d) \in Cells
         /\ Behind(d) = IF (End(d.chunks) - 1) + 1 = Size THEN 0 ELSE (End(d.chunks) - 1) + 1
<1>1. PICK at \in Cells, n \in Cells \ {0} : d.chunks = ChunksAt(at, n)
  BY DEF Written
<1>2. /\ Size \in Nat /\ Size > 1
      /\ at \in Nat /\ at < Size /\ n \in Nat /\ 0 < n /\ n < Size
  BY DEF DrawingAssumption, Cells
<1>3. CellsOf(d.chunks) = {c \in Cells : Gap(at, c) < n}
  BY <1>1, ChunkCells
<1>4. End(d.chunks) = IF at + n <= Size THEN at + n ELSE at + n - Size
  BY <1>1, ChunkCells
<1>5. End(d.chunks) \in 1..Size
  BY <1>2, <1>4
<1>6. End(d.chunks) - 1 \in Cells /\ Gap(at, End(d.chunks) - 1) < n
  BY <1>2, <1>4 DEF Cells, Gap
<1>7. Behind(d) \in Cells
  BY <1>2, <1>5 DEF Behind, Cells
<1>8. Behind(d) = IF (End(d.chunks) - 1) + 1 = Size THEN 0 ELSE (End(d.chunks) - 1) + 1
  BY <1>2, <1>5 DEF Behind
<1> QED
  BY <1>3, <1>5, <1>6, <1>7, <1>8

\* What is free is what is not in use, but for one cell.
LEMMA FreeIsTheRest ==
  ASSUME DrawingAssumption, RingOK
  PROVE  Free = Size - 1 - Gap(Start, writer)
<1>1. Size \in Nat /\ Size > 1 /\ cursor \in 0..Size /\ writer \in 0..(Size - 1)
  BY DEF DrawingAssumption, RingOK, Cells
<1>2. PICK k \in Nat : k = cursor + Size - writer - 1 /\ k < 2 * Size
  BY <1>1
<1>3. k % Size = IF k < Size THEN k ELSE k - Size
  BY <1>1, <1>2, Wrap
<1>4. Free = k % Size
  BY <1>1, <1>2 DEF Free
<1> QED
  BY <1>1, <1>2, <1>3, <1>4 DEF Start, Gap

\* Where the server writes next lies behind what it has just written.
LEMMA WriterMoves ==
  ASSUME DrawingAssumption, RingOK, NEW n \in Cells \ {0}, n <= Free
  PROVE  /\ (writer + n) % Size = IF writer + n < Size THEN writer + n ELSE writer + n - Size
         /\ Gap(Start, (writer + n) % Size) = Gap(Start, writer) + n
<1>1. /\ Size \in Nat /\ Size > 1 /\ cursor \in 0..Size
      /\ writer \in Nat /\ writer < Size /\ n \in Nat /\ 0 < n /\ n < Size
  BY DEF DrawingAssumption, RingOK, Cells
<1>2. PICK k \in Nat : k = writer + n /\ k < 2 * Size
  BY <1>1
<1>3. k % Size = IF k < Size THEN k ELSE k - Size
  BY <1>1, <1>2, Wrap
<1>4. PICK next \in Cells : /\ next = (writer + n) % Size
                           /\ next = IF writer + n < Size THEN writer + n ELSE writer + n - Size
  BY <1>1, <1>2, <1>3 DEF Cells
<1>5. n <= Size - 1 - Gap(Start, writer)
  BY FreeIsTheRest
<1>6. Gap(Start, next) = Gap(Start, writer) + n
  BY <1>1, <1>4, <1>5 DEF Start, Gap
<1> QED
  BY <1>4, <1>6

\* The draws in use are numbered: the one being handled comes first.
LEMMA LiveNumbers ==
  ASSUME RingOK, DrawsOK, Numbered
  PROVE  /\ \A d \in Live : d.seq \in Nat /\ d.seq <= sent
         /\ handling # "idle" => \A d \in Range(inbox) : draw.seq < d.seq
<1>1. inbox \in Seq(Draw) /\ Len(inbox) \in Nat /\ DOMAIN inbox = 1..Len(inbox) /\ sent \in Nat
  BY DEF DrawsOK, RingOK
<1>2. \A i \in DOMAIN inbox : inbox[i].seq \in Nat /\ inbox[i].seq <= sent
                             /\ sent - Len(inbox) < inbox[i].seq
  BY <1>1 DEF Numbered
<1>3. \A d \in Range(inbox) : d.seq \in Nat /\ d.seq <= sent /\ sent - Len(inbox) < d.seq
  BY <1>2 DEF Range
<1>4. handling # "idle" => draw.seq \in Nat /\ draw.seq <= sent /\ draw.seq = sent - Len(inbox)
  BY <1>1 DEF Numbered, DrawsOK, Draw
<1> QED
  BY <1>3, <1>4 DEF Live, Handled

\* All of them lie in the ring.
LEMMA LiveCells ==
  ASSUME DrawingAssumption, ChunksOK
  PROVE  \A d \in Live : Written(d) /\ d.kind = "mmap" /\ CellsOf(d.chunks) \subseteq Cells
<1>1. \A d \in Live : Written(d) /\ d.kind = "mmap"
  BY DEF ChunksOK, Live, Handled, Range
<1> QED
  BY <1>1, WrittenCells

-----------------------------------------------------------------------------
(* Every step keeps the draws in their place. *)

\* The server writes where nothing is in use.
LEMMA WritingIsHarmless ==
  ASSUME DrawingAssumption, TypeOK, ChunksOK, Numbered, RingInv,
         NEW n \in Cells \ {0}, ServerDrawsMmap(n)
  PROVE  RingInv'
<1> DEFINE chunks == ChunksAt(writer, n)
           d == [seq |-> sent + 1, kind |-> "mmap", chunks |-> chunks]
<1>0. RingOK /\ DrawsOK
  BY DEF TypeOK
<1>1. /\ d.seq = sent + 1 /\ d.kind = "mmap" /\ d.chunks = ChunksAt(writer, n)
      /\ inbox' = Append(inbox, d) /\ n <= Free /\ writer' = (writer + n) % Size
      /\ ring' = [c \in Cells |-> IF c \in CellsOf(d.chunks) THEN d.seq ELSE ring[c]]
      /\ UNCHANGED <<cursor, handling, draw>>
  BY DEF ServerDrawsMmap, SendDraw
<1>2. /\ Start \in Cells /\ writer \in Cells /\ Start' = Start
      /\ Size \in Nat /\ Size > 1 /\ n \in Nat /\ 0 < n /\ sent \in Nat
  BY <1>0, <1>1, StartInRing DEF Start, DrawingAssumption, Cells, RingOK
<1>3. d \in Draw
  <2>1. chunks \in Seq(Chunk)
    BY <1>2, ChunkCells
  <2> QED
    BY <1>2, <2>1 DEF Draw, Kinds
<1> HIDE DEF d
<1>4. Live' = Live \cup {d}
  <2>1. Range(inbox') = Range(inbox) \cup {d}
    <3>1. /\ DOMAIN inbox' = 1..(Len(inbox) + 1) /\ DOMAIN inbox = 1..Len(inbox) /\ Len(inbox) \in Nat
          /\ \A i \in DOMAIN inbox : inbox'[i] = inbox[i]
          /\ inbox'[Len(inbox) + 1] = d
      BY <1>0, <1>1, <1>3, AppendItems DEF DrawsOK
    <3>2. DOMAIN inbox' = DOMAIN inbox \cup {Len(inbox) + 1}
      BY <3>1
    <3> QED
      BY <3>1, <3>2 DEF Range
  <2> QED
    BY <1>1, <2>1 DEF Live, Handled
<1>5. /\ CellsOf(d.chunks) = {c \in Cells : Gap(writer, c) < n}
      /\ End(d.chunks) = IF writer + n <= Size THEN writer + n ELSE writer + n - Size
  BY <1>1, <1>2, ChunkCells
<1>6. /\ writer' = IF writer + n < Size THEN writer + n ELSE writer + n - Size
      /\ Gap(Start, writer') = Gap(Start, writer) + n
      /\ Gap(Start, writer) \in Nat /\ n <= Size - 1 - Gap(Start, writer)
  <2>1. Gap(Start, writer) \in Nat
    BY <1>2, GapRange DEF Cells
  <2> QED
    BY <1>0, <1>1, <2>1, WriterMoves, FreeIsTheRest
<1>7. ASSUME NEW c \in CellsOf(d.chunks)
      PROVE  /\ Gap(Start, writer) <= Gap(Start, c) /\ Gap(Start, c) < Gap(Start, writer')
             /\ ring'[c] = d.seq
  <2>1. c \in Cells /\ Gap(writer, c) < n /\ Gap(writer, c) \in Nat
    BY <1>2, <1>5, GapRange DEF Cells
  <2>2. Gap(Start, writer) + Gap(writer, c) < Size
    BY <1>2, <1>6, <2>1
  <2>3. Gap(Start, c) = Gap(Start, writer) + Gap(writer, c)
    BY <1>2, <2>1, <2>2, GapSplits
  <2> QED
    BY <1>1, <1>2, <1>6, <2>1, <2>3
<1>8. ASSUME NEW e \in Live, NEW c \in CellsOf(e.chunks)
      PROVE  /\ c \in Cells /\ Gap(Start, c) \in Nat /\ Gap(Start, c) < Gap(Start, writer)
             /\ ring'[c] = e.seq
  <2>1. c \in Cells /\ Gap(Start, c) < Gap(Start, writer) /\ ring[c] = e.seq
    BY <1>8, LiveCells DEF RingInv, Unharmed
  <2>2. Gap(Start, c) \in Nat
    BY <1>2, <2>1, GapRange DEF Cells
  <2>3. c \notin CellsOf(d.chunks)
    BY <1>6, <1>7, <2>1, <2>2
  <2> QED
    BY <1>1, <2>1, <2>2, <2>3
<1>9. \A e \in Live : e.seq \in Nat /\ e.seq < d.seq
  BY <1>0, <1>1, <1>2, LiveNumbers
<1>10. Unharmed'
  BY <1>2, <1>4, <1>6, <1>7, <1>8 DEF Unharmed
<1>11. InLine'
  <2> SUFFICES ASSUME NEW x \in Live', NEW y \in Live', x.seq < y.seq,
                      NEW b \in CellsOf(x.chunks), NEW c \in CellsOf(y.chunks)
               PROVE  Gap(Start, b) < Gap(Start, c)
    BY <1>2 DEF InLine
  <2>1. x \in Live
    BY <1>1, <1>2, <1>4, <1>9
  <2>2. CASE y \in Live
    BY <2>1, <2>2 DEF RingInv, InLine
  <2>3. CASE y = d
    <3>1. Gap(Start, c) \in Nat
      BY <1>2, <1>5, <2>3, GapRange DEF Cells
    <3> QED
      BY <1>6, <1>7, <1>8, <2>1, <2>3, <3>1
  <2> QED
    BY <1>4, <2>2, <2>3
<1>12. EndsAtWriter'
  <2>1. Behind(d) = writer'
    BY <1>2, <1>5, <1>6 DEF Behind, Cells
  <2>2. \A e \in Live' : (\A f \in Live' : f.seq <= e.seq) => e = d
    BY <1>1, <1>2, <1>4, <1>9
  <2> QED
    BY <1>4, <2>1, <2>2 DEF EndsAtWriter, Behind
<1> QED
  BY <1>10, <1>11, <1>12 DEF RingInv

\* The client gives the first draw's cells back: what is left is as much nearer.
LEMMA ReleasingIsHarmless ==
  ASSUME DrawingAssumption, TypeOK, ChunksOK, Numbered, RingInv, Release, draw.kind = "mmap"
  PROVE  RingInv'
<1>0. RingOK /\ DrawsOK
  BY DEF TypeOK
<1>1. /\ handling = "releasing" /\ handling' = "acknowledging" /\ cursor' = End(draw.chunks)
      /\ UNCHANGED <<inbox, draw, ring, writer>>
  BY DEF Release, serverVars
<1> DEFINE last == End(draw.chunks) - 1
           span == Gap(Start, last)
<1>2. /\ Start \in Cells /\ writer \in Cells /\ last \in Cells /\ last \in CellsOf(draw.chunks)
      /\ Start' \in Cells /\ Start' = IF last + 1 = Size THEN 0 ELSE last + 1
      /\ Start' = Behind(draw)
  <2>1. Written(draw)
    BY DEF ChunksOK
  <2>2. /\ CellsOf(draw.chunks) \subseteq Cells /\ last \in CellsOf(draw.chunks)
        /\ Behind(draw) \in Cells /\ Behind(draw) = IF last + 1 = Size THEN 0 ELSE last + 1
    BY <2>1, WrittenCells
  <2>3. Start' = Behind(draw)
    BY <1>1 DEF Start, Behind
  <2> QED
    BY <1>0, <2>2, <2>3, StartInRing
<1> HIDE DEF last
<1>3. /\ Live = Live' \cup {draw} /\ \A e \in Live' : draw.seq < e.seq
      /\ \A e \in Live' : e \in Live
  BY <1>0, <1>1, LiveNumbers DEF Live, Handled
<1>4. span \in Nat /\ span < Gap(Start, writer) /\ Gap(Start, writer) \in Nat
  <2>1. span \in Cells /\ Gap(Start, writer) \in Cells
    BY <1>2, GapRange
  <2> QED
    BY <1>2, <1>3, <2>1 DEF RingInv, Unharmed, Cells
<1>5. \A c \in Cells : span < Gap(Start, c) => Gap(Start', c) = Gap(Start, c) - span - 1
  BY <1>2, GapShrinks
<1>6. Gap(Start', writer') = Gap(Start, writer) - span - 1
  BY <1>1, <1>2, <1>4, <1>5
<1>7. ASSUME NEW e \in Live', NEW c \in CellsOf(e.chunks)
      PROVE  /\ Gap(Start, c) \in Nat /\ span < Gap(Start, c)
             /\ Gap(Start', c) = Gap(Start, c) - span - 1
  <2>1. c \in Cells
    BY <1>3, LiveCells
  <2>2. span < Gap(Start, c)
    BY <1>2, <1>3 DEF RingInv, InLine
  <2>3. Gap(Start, c) \in Cells
    BY <1>2, <2>1, GapRange
  <2> QED
    BY <1>5, <2>1, <2>2, <2>3 DEF Cells
<1>8. Unharmed'
  <2> SUFFICES ASSUME NEW e \in Live', NEW c \in CellsOf(e.chunks)
               PROVE  Gap(Start', c) < Gap(Start', writer') /\ ring'[c] = e.seq
    BY DEF Unharmed
  <2>1. Gap(Start, c) < Gap(Start, writer) /\ ring[c] = e.seq
    BY <1>3 DEF RingInv, Unharmed
  <2> QED
    BY <1>1, <1>4, <1>6, <1>7, <2>1
<1>9. InLine'
  <2> SUFFICES ASSUME NEW x \in Live', NEW y \in Live', x.seq < y.seq,
                      NEW b \in CellsOf(x.chunks), NEW c \in CellsOf(y.chunks)
               PROVE  Gap(Start', b) < Gap(Start', c)
    BY DEF InLine
  <2>1. Gap(Start, b) < Gap(Start, c)
    BY <1>3 DEF RingInv, InLine
  <2> QED
    BY <1>4, <1>7, <2>1
<1>10. EndsAtWriter'
  <2>1. ASSUME Live' = {} PROVE Start' = writer'
    <3>1. Live = {draw} /\ draw \in Live
      BY <1>3, <2>1
    <3>2. draw.seq \in Nat
      BY <1>0, <3>1, LiveNumbers
    <3> QED
      BY <1>1, <1>2, <3>1, <3>2 DEF RingInv, EndsAtWriter
  <2>2. ASSUME NEW d \in Live', \A e \in Live' : e.seq <= d.seq
        PROVE  Behind(d) = writer'
    <3>1. \A e \in Live : e.seq <= d.seq
      BY <1>0, <1>3, <2>2, LiveNumbers
    <3> QED
      BY <1>1, <1>3, <2>2, <3>1 DEF RingInv, EndsAtWriter
  <2> QED
    BY <2>1, <2>2 DEF EndsAtWriter, Behind
<1> QED
  BY <1>8, <1>9, <1>10 DEF RingInv

\* Whatever leaves the draws in use and their ring alone.
LEMMA StaysInPlace ==
  ASSUME RingInv, Live' = Live, UNCHANGED <<cursor, writer, ring>>
  PROVE  RingInv'
<1>1. Start' = Start
  BY DEF Start
<1>2. Unharmed' /\ InLine'
  BY <1>1 DEF RingInv, Unharmed, InLine
<1>3. EndsAtWriter'
  BY <1>1 DEF RingInv, EndsAtWriter, Behind
<1> QED
  BY <1>2, <1>3 DEF RingInv

\* A draw takes the next number, at the end of the inbox.
LEMMA SendingNumbers ==
  ASSUME TypeOK, Numbered, NEW kind \in Kinds, NEW chunks \in Seq(Chunk), SendDraw(kind, chunks)
  PROVE  /\ Numbered' /\ Len(inbox') = Len(inbox) + 1 /\ Len(inbox) \in Nat
         /\ Range(inbox') = Range(inbox) \cup {[seq |-> sent + 1, kind |-> kind, chunks |-> chunks]}
<1> DEFINE d == [seq |-> sent + 1, kind |-> kind, chunks |-> chunks]
<1>1. /\ d \in Draw /\ d.seq = sent + 1 /\ inbox \in Seq(Draw) /\ sent \in Nat
      /\ inbox' = Append(inbox, d) /\ sent' = sent + 1 /\ UNCHANGED <<handling, draw>>
  BY DEF SendDraw, Draw, TypeOK, RingOK, DrawsOK
<1> HIDE DEF d
<1>2. /\ Len(inbox') = Len(inbox) + 1 /\ Len(inbox) \in Nat
      /\ DOMAIN inbox' = 1..(Len(inbox) + 1) /\ DOMAIN inbox = 1..Len(inbox)
      /\ \A i \in DOMAIN inbox : inbox'[i] = inbox[i]
      /\ inbox'[Len(inbox) + 1] = d
  BY <1>1, AppendItems
<1>3. ASSUME NEW i \in DOMAIN inbox' PROVE inbox'[i].seq = sent' - Len(inbox') + i
  <2>1. CASE i \in DOMAIN inbox
    BY <1>1, <1>2, <2>1 DEF Numbered
  <2>2. CASE i = Len(inbox) + 1
    BY <1>1, <1>2, <2>2
  <2> QED
    BY <1>2, <2>1, <2>2
<1>4. Numbered'
  BY <1>1, <1>2, <1>3 DEF Numbered
<1>5. Range(inbox') = Range(inbox) \cup {d}
  <2>1. DOMAIN inbox' = DOMAIN inbox \cup {Len(inbox) + 1}
    BY <1>2
  <2> QED
    BY <1>2, <2>1 DEF Range
<1> QED
  BY <1>2, <1>4, <1>5 DEF d

\* The draw taken next is the first of those that came.
LEMMA BeginningNumbers ==
  ASSUME TypeOK, Numbered, BeginDraw
  PROVE  /\ Numbered' /\ Range(inbox) = {draw'} \cup Range(inbox')
         /\ Len(inbox') = Len(inbox) - 1 /\ Len(inbox) \in Nat
<1>1. /\ inbox \in Seq(Draw) /\ inbox # <<>> /\ inbox' = Tail(inbox) /\ draw' = Head(inbox)
      /\ sent' = sent /\ sent \in Nat /\ handling' # "idle"
  BY DEF BeginDraw, serverVars, TypeOK, DrawsOK, RingOK
<1>2. /\ draw' = inbox[1] /\ 1 \in DOMAIN inbox /\ Len(inbox') = Len(inbox) - 1 /\ Len(inbox) \in Nat
      /\ DOMAIN inbox = 1..Len(inbox) /\ DOMAIN inbox' = 1..(Len(inbox) - 1)
      /\ \A i \in DOMAIN inbox' : i + 1 \in DOMAIN inbox /\ inbox'[i] = inbox[i + 1]
  BY <1>1, TailItems
<1>3. draw'.seq = sent' - Len(inbox') /\ 0 < draw'.seq
  BY <1>1, <1>2 DEF Numbered
<1>4. \A i \in DOMAIN inbox' : inbox'[i].seq = sent' - Len(inbox') + i
  BY <1>1, <1>2 DEF Numbered
<1>5. Numbered'
  BY <1>1, <1>2, <1>3, <1>4 DEF Numbered
<1>6. Range(inbox) = {draw'} \cup Range(inbox')
  <2>1. \A i \in DOMAIN inbox : i = 1 \/ (i - 1 \in DOMAIN inbox' /\ inbox[i] = inbox'[i - 1])
    BY <1>2
  <2> QED
    BY <1>2, <2>1 DEF Range
<1> QED
  BY <1>2, <1>5, <1>6

-----------------------------------------------------------------------------
(* What is painted. *)

\* The cells of a draw in use hold its own pixels, and there is one at least.
LEMMA LiveContents ==
  ASSUME DrawingAssumption, ChunksOK, RingInv, NEW d \in Live
  PROVE  {ring[c] : c \in CellsOf(d.chunks)} = {d.seq}
<1>1. CellsOf(d.chunks) # {}
  BY LiveCells, WrittenCells
<1>2. \A c \in CellsOf(d.chunks) : ring[c] = d.seq
  BY DEF RingInv, Unharmed
<1> QED
  BY <1>1, <1>2

\* The draws in use keep their places and their pixels, and the client paints no
\* others.
LEMMA DrawInvariant ==
  ASSUME DrawingAssumption
  PROVE  Spec => []DrawInv
<1>1. Init => DrawInv
  <2> SUFFICES ASSUME Init PROVE DrawInv
    OBVIOUS
  <2>1. Range(inbox) = {} /\ Live = {} /\ 0 # Size
    BY DEF Init, Live, Handled, Range, DrawingAssumption
  <2>2. Numbered /\ PixelsInv /\ PaintsWhatWasDrawn
    BY DEF Init, Numbered, PixelsInv, PaintsWhatWasDrawn
  <2>3. RingInv
    BY <2>1 DEF Init, RingInv, Unharmed, InLine, EndsAtWriter, Start
  <2> QED
    BY <2>2, <2>3 DEF DrawInv
<1>2. TypeOK /\ ChunksOK /\ DrawInv /\ [Next]_vars => DrawInv'
  <2> SUFFICES ASSUME TypeOK, ChunksOK, Numbered, RingInv, PixelsInv, PaintsWhatWasDrawn, [Next]_vars
               PROVE  Numbered' /\ RingInv' /\ PixelsInv' /\ PaintsWhatWasDrawn'
    BY DEF DrawInv
  <2>0. RingOK /\ DrawsOK
    BY DEF TypeOK
  <2> USE DEF serverVars, ackVars
  <2>1. ASSUME NEW n \in Cells \ {0}, ServerDrawsMmap(n)
        PROVE  Numbered' /\ RingInv' /\ PixelsInv' /\ PaintsWhatWasDrawn'
    <3>1. RingInv'
      BY <2>1, WritingIsHarmless
    <3>2. SendDraw("mmap", ChunksAt(writer, n)) /\ "mmap" \in Kinds
      BY <2>1 DEF ServerDrawsMmap, Kinds
    <3>3. writer \in Cells /\ ChunksAt(writer, n) \in Seq(Chunk)
      BY <2>0, ChunkCells DEF RingOK
    <3>4. Numbered'
      BY <3>2, <3>3, SendingNumbers
    <3>5. PixelsInv' /\ PaintsWhatWasDrawn'
      BY <3>2 DEF SendDraw, PixelsInv, PaintsWhatWasDrawn
    <3> QED
      BY <3>1, <3>4, <3>5
  <2>2. ASSUME NEW kind \in Kinds \ {"mmap"}, ServerDraws(kind)
        PROVE  Numbered' /\ RingInv' /\ PixelsInv' /\ PaintsWhatWasDrawn'
    <3>1. SendDraw(kind, <<>>) /\ <<>> \in Seq(Chunk) /\ UNCHANGED <<ring, writer>>
      BY <2>2 DEF ServerDraws
    <3>2. Numbered' /\ Range(inbox') = Range(inbox) \cup {[seq |-> sent + 1, kind |-> kind, chunks |-> <<>>]}
      BY <3>1, SendingNumbers
    <3>3. Live' = Live
      BY <3>1, <3>2 DEF SendDraw, Live, Handled
    <3>4. RingInv'
      BY <3>1, <3>3, StaysInPlace DEF SendDraw
    <3>5. PixelsInv' /\ PaintsWhatWasDrawn'
      BY <3>1 DEF SendDraw, PixelsInv, PaintsWhatWasDrawn
    <3> QED
      BY <3>2, <3>4, <3>5
  <2>3. CASE ServerGetsAck \/ WindowChanges \/ UNCHANGED vars
    <3>1. UNCHANGED <<cursor, writer, ring, sent, inbox, handling, draw, pixels, shown>>
      BY <2>3 DEF ServerGetsAck, WindowChanges, vars
    <3>2. Live' = Live
      BY <3>1 DEF Live, Handled
    <3>3. RingInv'
      BY <3>1, <3>2, StaysInPlace
    <3>4. Numbered' /\ PixelsInv' /\ PaintsWhatWasDrawn'
      BY <3>1 DEF Numbered, PixelsInv, PaintsWhatWasDrawn
    <3> QED
      BY <3>3, <3>4
  <2>4. CASE BeginDraw
    <3>1. Numbered' /\ Range(inbox) = {draw'} \cup Range(inbox')
      BY <2>4, BeginningNumbers
    <3>2. /\ UNCHANGED <<cursor, writer, ring, shown>> /\ handling = "idle"
          /\ draw'.kind = "mmap" => handling' = "painting"
      BY <2>4 DEF BeginDraw
    <3>3. Live' = Live
      BY <3>1, <3>2 DEF Live, Handled
    <3>4. RingInv'
      BY <3>2, <3>3, StaysInPlace
    <3>5. PixelsInv'
      <4>1. ASSUME draw'.kind = "mmap"
            PROVE  pixels'.cells = IF pixels'.copied THEN {draw'.seq} ELSE CellsOf(draw'.chunks)
        <5>1. draw' \in Live
          BY <3>1, <4>1 DEF Live
        <5>2. {ring[c] : c \in CellsOf(draw'.chunks)} = {draw'.seq}
          BY <5>1, LiveContents
        <5>3. pixels' = readChunks(draw'.chunks)
          BY <2>4, <4>1 DEF BeginDraw
        <5> QED
          BY <5>2, <5>3 DEF readChunks
      <4> QED
        BY <4>1 DEF PixelsInv
    <3> QED
      BY <3>1, <3>2, <3>4, <3>5 DEF PaintsWhatWasDrawn
  <2>5. CASE PaintWindow \/ PaintFails
    <3>1. /\ UNCHANGED <<cursor, writer, ring, sent, inbox, draw, pixels>>
          /\ handling = "painting" /\ handling' = "releasing"
      BY <2>5 DEF PaintWindow, PaintFails
    <3>2. Live' = Live
      BY <3>1 DEF Live, Handled
    <3>3. RingInv' /\ Numbered' /\ PixelsInv'
      BY <3>1, <3>2, StaysInPlace DEF Numbered, PixelsInv
    <3>4. PaintsWhatWasDrawn'
      <4>1. CASE PaintWindow /\ draw.kind = "mmap"
        <5>1. draw \in Live
          BY <3>1, <4>1 DEF Live, Handled
        <5>2. Seen = {draw.seq}
          BY <3>1, <4>1, <5>1, LiveContents DEF Seen, PixelsInv
        <5> QED
          BY <4>1, <5>2 DEF PaintWindow, PaintsWhatWasDrawn
      <4>2. CASE PaintWindow /\ draw.kind # "mmap"
        BY <4>2 DEF PaintWindow, PaintsWhatWasDrawn
      <4>3. CASE PaintFails
        BY <4>3 DEF PaintFails, PaintsWhatWasDrawn
      <4> QED
        BY <2>5, <4>1, <4>2, <4>3
    <3> QED
      BY <3>3, <3>4
  <2>6. CASE Release
    <3>1. /\ handling = "releasing" /\ handling' = "acknowledging"
          /\ UNCHANGED <<ring, writer, sent, inbox, draw, pixels, shown>>
          /\ draw.kind # "mmap" => UNCHANGED cursor
      BY <2>6 DEF Release
    <3>2. Numbered' /\ PixelsInv' /\ PaintsWhatWasDrawn'
      BY <3>1 DEF Numbered, PixelsInv, PaintsWhatWasDrawn
    <3>3. CASE draw.kind = "mmap"
      BY <2>6, <3>2, <3>3, ReleasingIsHarmless
    <3>4. CASE draw.kind # "mmap"
      <4>1. Live' = Live
        BY <3>1, <3>4 DEF Live, Handled
      <4> QED
        BY <3>1, <3>2, <3>4, <4>1, StaysInPlace
    <3> QED
      BY <3>3, <3>4
  <2>7. CASE Ack
    <3>1. /\ handling = "acknowledging" /\ handling' = "idle"
          /\ UNCHANGED <<cursor, writer, ring, sent, inbox, draw, pixels, shown>>
      BY <2>7 DEF Ack
    <3>2. Live' = Live
      BY <3>1 DEF Live, Handled
    <3> QED
      BY <3>1, <3>2, StaysInPlace DEF Numbered, PixelsInv, PaintsWhatWasDrawn
  <2> QED
    BY <2>1, <2>2, <2>3, <2>4, <2>5, <2>6, <2>7 DEF Next, handleDraw
<1> QED
  BY <1>1, <1>2, WellFormed, PTL DEF Spec

\* What is painted is what the server wrote for that draw: the server never
\* overwrites pixels the client still reads, neither in place nor across the
\* ring's end (client/client.go handleDraw, client/mmap.go readChunks).
THEOREM PaintsAreTrue ==
  ASSUME DrawingAssumption
  PROVE  Spec => []PaintsWhatWasDrawn
<1>1. DrawInv => PaintsWhatWasDrawn
  BY DEF DrawInv
<1> QED
  BY <1>1, DrawInvariant, PTL

-----------------------------------------------------------------------------
(* What becomes of every draw. *)

\* The items of two sequences, one behind the other.
LEMMA JoinedItems ==
  ASSUME NEW S, NEW s \in Seq(S), NEW t \in Seq(S)
  PROVE  /\ s \o t \in Seq(S) /\ Len(s \o t) = Len(s) + Len(t) /\ Len(s) \in Nat /\ Len(t) \in Nat
         /\ \A i \in 1..(Len(s) + Len(t)) :
              (s \o t)[i] = IF i <= Len(s) THEN s[i] ELSE t[i - Len(s)]
  OBVIOUS

\* An acknowledgement on its way is as good as one that has arrived.
LEMMA ArrivingKeepsOrder ==
  ASSUME NEW S, NEW s \in Seq(S), NEW t \in Seq(S), t # <<>>
  PROVE  Append(s, Head(t)) \o Tail(t) = s \o t
<1>1. /\ Head(t) = t[1] /\ Head(t) \in S /\ Len(t) \in Nat /\ Len(t) >= 1 /\ Len(s) \in Nat
      /\ Tail(t) \in Seq(S) /\ Append(s, Head(t)) \in Seq(S)
  OBVIOUS
<1>2. PICK b \in Seq(S) : b = Tail(t)
  BY <1>1
<1>3. PICK a \in Seq(S) : a = Append(s, Head(t))
  BY <1>1
<1>4. Len(b) = Len(t) - 1 /\ \A i \in 1..(Len(t) - 1) : b[i] = t[i + 1]
  BY <1>1, <1>2
<1>5. Len(a) = Len(s) + 1 /\ a[Len(s) + 1] = t[1] /\ \A i \in 1..Len(s) : a[i] = s[i]
  BY <1>1, <1>3
<1>6. /\ a \o b \in Seq(S) /\ s \o t \in Seq(S)
      /\ Len(a \o b) = Len(s) + Len(t) /\ Len(s \o t) = Len(s) + Len(t)
  <2>1. a \o b \in Seq(S) /\ Len(a \o b) = Len(a) + Len(b)
    BY JoinedItems
  <2>2. s \o t \in Seq(S) /\ Len(s \o t) = Len(s) + Len(t)
    BY JoinedItems
  <2>3. Len(a) + Len(b) = Len(s) + Len(t)
    BY <1>1, <1>4, <1>5
  <2> QED
    BY <2>1, <2>2, <2>3
<1>7. ASSUME NEW i \in 1..(Len(s) + Len(t)) PROVE (a \o b)[i] = (s \o t)[i]
  <2>1. (s \o t)[i] = IF i <= Len(s) THEN s[i] ELSE t[i - Len(s)]
    BY JoinedItems
  <2>2. (a \o b)[i] = IF i <= Len(s) + 1 THEN a[i] ELSE b[i - (Len(s) + 1)]
    <3>1. i \in 1..(Len(a) + Len(b))
      BY <1>1, <1>4, <1>5
    <3> QED
      BY <1>5, <3>1, JoinedItems
  <2>3. i \in Nat /\ i >= 1 /\ i <= Len(s) + Len(t)
    BY <1>1
  <2>4. CASE i <= Len(s)
    <3>1. i \in 1..Len(s) /\ i <= Len(s) + 1
      BY <1>1, <2>3, <2>4
    <3> QED
      BY <1>5, <2>1, <2>2, <2>4, <3>1
  <2>5. CASE i = Len(s) + 1
    <3>1. ~(i <= Len(s)) /\ i - Len(s) = 1 /\ i <= Len(s) + 1
      BY <1>1, <2>5
    <3> QED
      BY <1>5, <2>1, <2>2, <2>5, <3>1
  <2>6. CASE i > Len(s) + 1
    <3>1. i - (Len(s) + 1) \in 1..(Len(t) - 1) /\ (i - (Len(s) + 1)) + 1 = i - Len(s)
      BY <1>1, <2>3, <2>6
    <3>2. b[i - (Len(s) + 1)] = t[i - Len(s)]
      BY <1>4, <3>1
    <3>3. ~(i <= Len(s)) /\ ~(i <= Len(s) + 1)
      BY <1>1, <2>3, <2>6
    <3> QED
      BY <2>1, <2>2, <3>2, <3>3
  <2>7. i <= Len(s) \/ i = Len(s) + 1 \/ i > Len(s) + 1
    BY <1>1, <2>3
  <2> QED
    BY <2>4, <2>5, <2>6, <2>7
<1> QED
  BY <1>1, <1>2, <1>3, <1>6, <1>7

\* A new one is the last of all.
LEMMA QueuingKeepsOrder ==
  ASSUME NEW S, NEW s \in Seq(S), NEW t \in Seq(S), NEW e \in S
  PROVE  s \o Append(t, e) = Append(s \o t, e)
  OBVIOUS

\* The draws the client is done with.
Done == sent - Len(inbox) - (IF handling = "idle" THEN 0 ELSE 1)

Increasing(seq) == \A i, j \in DOMAIN seq : i < j => seq[i] < seq[j]

\* Each draw done with was acknowledged, in order, or refused by a full queue; those
\* whose cells were not given back are still in use.
AckInv ==
  /\ Increasing(acks \o outbound)
  /\ Range(acks \o outbound) \cup lost = 1..Done
  /\ unread \subseteq {d.seq : d \in Live}

\* Draws in use are yet to be acknowledged.
LEMMA LiveIsNotDone ==
  ASSUME RingOK, DrawsOK, Numbered
  PROVE  Done \in Nat /\ \A d \in Live : d.seq > Done
<1>1. inbox \in Seq(Draw) /\ Len(inbox) \in Nat /\ DOMAIN inbox = 1..Len(inbox) /\ sent \in Nat
  BY DEF DrawsOK, RingOK
<1>2. \A i \in DOMAIN inbox : inbox[i].seq \in Nat /\ inbox[i].seq > sent - Len(inbox)
  BY <1>1 DEF Numbered
<1>3. \A d \in Range(inbox) : d.seq \in Nat /\ d.seq > sent - Len(inbox)
  BY <1>2 DEF Range
<1>4. handling # "idle" => draw.seq = sent - Len(inbox) /\ 0 < draw.seq
  BY <1>1 DEF Numbered
<1>5. Done \in Nat /\ Done <= sent - Len(inbox)
  BY <1>1, <1>4 DEF Done, Numbered
<1>6. \A d \in Range(inbox) : d.seq > Done
  BY <1>1, <1>3, <1>5
<1>7. \A d \in Handled : d.seq > Done
  BY <1>1, <1>4 DEF Handled, Done
<1> QED
  BY <1>5, <1>6, <1>7 DEF Live

\* An acknowledgement more: it is later than the others.
LEMMA LaterIsLast ==
  ASSUME NEW s \in Seq(Nat), NEW n \in Nat, Increasing(s), \A m \in Range(s) : m < n
  PROVE  Increasing(Append(s, n)) /\ Range(Append(s, n)) = Range(s) \cup {n}
<1> DEFINE t == Append(s, n)
<1>1. /\ DOMAIN t = 1..(Len(s) + 1) /\ DOMAIN s = 1..Len(s) /\ Len(s) \in Nat
      /\ \A i \in DOMAIN s : t[i] = s[i]
      /\ t[Len(s) + 1] = n
  BY AppendItems
<1> HIDE DEF t
<1>2. DOMAIN t = DOMAIN s \cup {Len(s) + 1}
  BY <1>1
<1>3. Range(t) = Range(s) \cup {n}
  BY <1>1, <1>2 DEF Range
<1>4. ASSUME NEW i \in DOMAIN t, NEW j \in DOMAIN t, i < j PROVE t[i] < t[j]
  <2>1. i \in DOMAIN s
    BY <1>1, <1>4
  <2>2. CASE j \in DOMAIN s
    BY <1>1, <1>4, <2>1, <2>2 DEF Increasing
  <2>3. CASE j = Len(s) + 1
    BY <1>1, <2>1, <2>3 DEF Range
  <2> QED
    BY <1>2, <2>2, <2>3
<1> QED
  BY <1>3, <1>4 DEF Increasing, t

\* Steps that acknowledge nothing and leave the draws in use alone.
LEMMA NothingSettled ==
  ASSUME AckInv, Done' = Done, (acks \o outbound)' = acks \o outbound, UNCHANGED lost,
         unread' \subseteq {d.seq : d \in Live'}
  PROVE  AckInv'
  BY DEF AckInv, Increasing, Range

\* Every draw is accounted for.
LEMMA AckInvariant ==
  ASSUME DrawingAssumption
  PROVE  Spec => []AckInv
<1>1. Init => AckInv
  <2> SUFFICES ASSUME Init PROVE AckInv
    OBVIOUS
  <2>0. <<>> \o <<>> = <<>> /\ Len(<<>>) = 0
    OBVIOUS
  <2>1. acks \o outbound = <<>> /\ lost = {} /\ unread = {}
    BY <2>0 DEF Init
  <2>3. Done = 0
    <3>1. inbox = <<>> => Len(inbox) = 0
      OBVIOUS
    <3>2. sent = 0 /\ Len(inbox) = 0 /\ handling = "idle"
      BY <3>1 DEF Init
    <3> QED
      BY <3>2 DEF Done
  <2>2. Range(<<>>) = {} /\ Increasing(<<>>) /\ 1..0 = {}
    BY DEF Range, Increasing
  <2> QED
    BY <2>1, <2>2, <2>3 DEF AckInv
<1>2. TypeOK /\ ChunksOK /\ DrawInv /\ AckInv /\ [Next]_vars => AckInv'
  <2> SUFFICES ASSUME TypeOK, ChunksOK, Numbered, AckInv, [Next]_vars PROVE AckInv'
    BY DEF DrawInv
  <2>0. RingOK /\ DrawsOK /\ AcksOK /\ Len(inbox) \in Nat /\ sent \in Nat
    BY DEF TypeOK, RingOK, DrawsOK
  <2> USE DEF serverVars, ackVars
  <2>1. ASSUME NEW kind \in Kinds, NEW chunks \in Seq(Chunk), SendDraw(kind, chunks),
               kind # "mmap" => UNCHANGED unread,
               kind = "mmap" => unread' = unread \cup {sent + 1}
        PROVE  AckInv'
    <3> DEFINE d == [seq |-> sent + 1, kind |-> kind, chunks |-> chunks]
    <3>1. /\ Range(inbox') = Range(inbox) \cup {d} /\ Len(inbox') = Len(inbox) + 1
          /\ sent' = sent + 1 /\ UNCHANGED <<handling, draw, acks, outbound, lost>>
      BY <2>1, SendingNumbers DEF SendDraw
    <3>2. d.seq = sent + 1 /\ d.kind = kind
      OBVIOUS
    <3> HIDE DEF d
    <3>3. Done' = Done
      BY <2>0, <3>1 DEF Done
    <3>4. Live' = Live \cup (IF kind = "mmap" THEN {d} ELSE {})
      BY <3>1, <3>2 DEF Live, Handled
    <3>5. unread' \subseteq {e.seq : e \in Live'}
      BY <2>1, <3>2, <3>4 DEF AckInv
    <3> QED
      BY <3>1, <3>3, <3>5, NothingSettled
  <2>2. ASSUME NEW n \in Cells \ {0}, ServerDrawsMmap(n) PROVE AckInv'
    <3>1. /\ SendDraw("mmap", ChunksAt(writer, n)) /\ "mmap" \in Kinds
          /\ unread' = unread \cup {sent + 1}
      BY <2>2 DEF ServerDrawsMmap, Kinds
    <3>2. writer \in Cells /\ ChunksAt(writer, n) \in Seq(Chunk)
      BY <2>0, ChunkCells DEF RingOK
    <3> QED
      BY <2>1, <3>1, <3>2
  <2>3. ASSUME NEW kind \in Kinds \ {"mmap"}, ServerDraws(kind) PROVE AckInv'
    <3>1. SendDraw(kind, <<>>) /\ <<>> \in Seq(Chunk) /\ UNCHANGED unread
      BY <2>3 DEF ServerDraws
    <3> QED
      BY <2>1, <3>1
  <2>4. CASE ServerGetsAck
    <3>1. /\ acks' = Append(acks, Head(outbound)) /\ outbound' = Tail(outbound) /\ outbound # <<>>
          /\ UNCHANGED <<sent, inbox, handling, draw, lost, unread>>
      BY <2>4 DEF ServerGetsAck
    <3>2. (acks \o outbound)' = acks \o outbound
      BY <2>0, <3>1, ArrivingKeepsOrder DEF AcksOK
    <3>3. Done' = Done /\ Live' = Live
      BY <3>1 DEF Done, Live, Handled
    <3> QED
      BY <3>1, <3>2, <3>3, NothingSettled DEF AckInv
  <2>5. CASE WindowChanges \/ PaintWindow \/ PaintFails \/ UNCHANGED vars
    <3>1. UNCHANGED <<sent, inbox, draw, acks, outbound, lost, unread>>
      BY <2>5 DEF WindowChanges, PaintWindow, PaintFails, vars
    <3>2. handling' = handling \/ (handling = "painting" /\ handling' = "releasing")
      BY <2>5 DEF WindowChanges, PaintWindow, PaintFails, vars
    <3>3. Done' = Done /\ Live' = Live
      BY <3>1, <3>2 DEF Done, Live, Handled
    <3> QED
      BY <3>1, <3>3, NothingSettled DEF AckInv
  <2>6. CASE BeginDraw
    <3>1. /\ Range(inbox) = {draw'} \cup Range(inbox') /\ Len(inbox') = Len(inbox) - 1
          /\ handling = "idle" /\ handling' # "idle"
          /\ draw'.kind = "mmap" => handling' = "painting"
          /\ UNCHANGED <<sent, acks, outbound, lost, unread>>
      BY <2>6, BeginningNumbers DEF BeginDraw
    <3>2. Done' = Done
      BY <2>0, <3>1 DEF Done
    <3>3. Live' = Live
      BY <3>1 DEF Live, Handled
    <3> QED
      BY <3>1, <3>2, <3>3, NothingSettled DEF AckInv
  <2>7. CASE Release
    <3>1. /\ handling = "releasing" /\ handling' = "acknowledging"
          /\ unread' = IF draw.kind = "mmap" THEN unread \ {draw.seq} ELSE unread
          /\ UNCHANGED <<sent, inbox, draw, acks, outbound, lost>>
      BY <2>7 DEF Release
    <3>2. Done' = Done
      BY <3>1 DEF Done
    <3>3. Live = Live' \cup (IF draw.kind = "mmap" THEN {draw} ELSE {})
      BY <3>1 DEF Live, Handled
    <3>4. unread' \subseteq {d.seq : d \in Live'}
      BY <3>1, <3>3 DEF AckInv
    <3> QED
      BY <3>1, <3>2, <3>4, NothingSettled
  <2>8. CASE Ack
    <3>1. /\ handling = "acknowledging" /\ handling' = "idle"
          /\ UNCHANGED <<sent, inbox, draw, acks, unread>>
      BY <2>8 DEF Ack
    <3>2. Live' = Live
      BY <3>1 DEF Live, Handled
    <3>3. draw.seq \in Nat /\ Done' = draw.seq /\ Done = draw.seq - 1
      BY <2>0, <3>1 DEF Done, Numbered, DrawsOK, Draw
    <3>4. Done \in Nat /\ 1..Done' = (1..Done) \cup {draw.seq} /\ \A m \in 1..Done : m < draw.seq
      BY <2>0, <3>3, LiveIsNotDone
    <3>5. CASE Len(outbound) < WriteQueue
      <4>1. outbound' = Append(outbound, draw.seq) /\ lost' = lost
        BY <2>8, <3>5 DEF Ack
      <4>2. acks \o outbound \in Seq(Nat) /\ (acks \o outbound)' = Append(acks \o outbound, draw.seq)
        BY <2>0, <3>1, <3>3, <4>1, QueuingKeepsOrder DEF AcksOK
      <4>3. \A m \in Range(acks \o outbound) : m < draw.seq
        BY <3>4 DEF AckInv
      <4>4. /\ Increasing(Append(acks \o outbound, draw.seq))
            /\ Range(Append(acks \o outbound, draw.seq)) = Range(acks \o outbound) \cup {draw.seq}
        BY <3>3, <4>2, <4>3, LaterIsLast DEF AckInv
      <4>5. Increasing(acks \o outbound)'
        BY <4>2, <4>4 DEF Increasing
      <4>6. Range((acks \o outbound)') \cup lost' = 1..Done'
        BY <3>4, <4>1, <4>2, <4>4 DEF AckInv
      <4> QED
        BY <3>1, <3>2, <4>5, <4>6 DEF AckInv, Range
    <3>6. CASE ~(Len(outbound) < WriteQueue)
      <4>1. outbound' = outbound /\ lost' = lost \cup {draw.seq}
        BY <2>8, <3>6 DEF Ack
      <4>2. Range(acks \o outbound) \cup lost' = 1..Done'
        BY <3>4, <4>1 DEF AckInv
      <4> QED
        BY <3>1, <3>2, <4>1, <4>2 DEF AckInv, Increasing, Range
    <3> QED
      BY <3>5, <3>6
  <2> QED
    BY <2>2, <2>3, <2>4, <2>5, <2>6, <2>7, <2>8 DEF Next, handleDraw
<1> QED
  BY <1>1, <1>2, WellFormed, DrawInvariant, PTL DEF Spec

\* What becomes of every draw, in the end and on the way.
DrawsAreSettled == PublishedBeforeAck /\ RingDrains /\ AcknowledgedOnce

\* A draw's part of the ring is given back before it is acknowledged, all of the
\* ring is free again when nothing is under way, and every draw is acknowledged
\* once and in order unless the queue was full (client/client.go ack and
\* handleDraw, client/mmap.go).
THEOREM DrawsSettle ==
  ASSUME DrawingAssumption
  PROVE  Spec => []DrawsAreSettled
<1>1. TypeOK /\ DrawInv /\ AckInv => PublishedBeforeAck
  <2> SUFFICES ASSUME RingOK, DrawsOK, Numbered, AckInv,
                      NEW n \in Range(acks \o outbound), n \in unread
               PROVE  FALSE
    BY DEF TypeOK, DrawInv, PublishedBeforeAck
  <2>1. n \in 1..Done
    BY DEF AckInv
  <2>2. PICK d \in Live : n = d.seq
    BY DEF AckInv
  <2> QED
    BY <2>1, <2>2, LiveIsNotDone
<1>2. TypeOK /\ DrawInv => RingDrains
  <2> SUFFICES ASSUME RingOK, RingInv, handling = "idle", inbox = <<>>
               PROVE  cursor % Size = writer
    BY DEF TypeOK, DrawInv, RingDrains
  <2>1. Live = {}
    BY DEF Live, Handled, Range
  <2>2. Start = writer
    BY <2>1 DEF RingInv, EndsAtWriter
  <2>3. Size \in Nat /\ Size > 1 /\ cursor \in Nat /\ cursor <= Size /\ cursor < 2 * Size
    BY DEF DrawingAssumption, RingOK
  <2>4. cursor % Size = IF cursor < Size THEN cursor ELSE cursor - Size
    BY <2>3, Wrap
  <2> QED
    BY <2>2, <2>3, <2>4 DEF Start
<1>3. AckInv => AcknowledgedOnce
  BY DEF AckInv, AcknowledgedOnce, Done, Increasing
<1>4. PublishedBeforeAck /\ RingDrains /\ AcknowledgedOnce => DrawsAreSettled
  BY DEF DrawsAreSettled
<1> QED
  BY <1>1, <1>2, <1>3, <1>4, WellFormed, DrawInvariant, AckInvariant, PTL
=============================================================================
