--------------------------- MODULE Desktops_proofs --------------------------
(***************************************************************************)
(* Proofs about the machines of Desktops, each for any values of its       *)
(* constants: where windows are, what Wayland's compositor is asked to     *)
(* show, the thread that owns the windows, the cursor and the tray, and    *)
(* the clipboards.  s1, s2 and so on are the variables as Desktops gives   *)
(* them to the machine; a proof calls them by the machine's own names.     *)
(***************************************************************************)
EXTENDS Desktops, FiniteSetTheorems, TLAPS

-----------------------------------------------------------------------------
(* Queues. *)

\* Appending keeps what is there and puts the new item last.
LEMMA AppendItems ==
  ASSUME NEW S, NEW s \in Seq(S), NEW e \in S
  PROVE  /\ Append(s, e) \in Seq(S) /\ Len(Append(s, e)) = Len(s) + 1 /\ Len(s) \in Nat
         /\ DOMAIN Append(s, e) = 1..(Len(s) + 1) /\ DOMAIN s = 1..Len(s)
         /\ \A i \in DOMAIN s : Append(s, e)[i] = s[i]
         /\ Append(s, e)[Len(s) + 1] = e
<1>1. /\ Append(s, e) \in Seq(S) /\ Len(Append(s, e)) = Len(s) + 1 /\ Len(s) \in Nat
      /\ \A i \in 1..Len(s) : Append(s, e)[i] = s[i]
      /\ Append(s, e)[Len(s) + 1] = e
  OBVIOUS
<1>2. DOMAIN s = 1..Len(s) /\ DOMAIN Append(s, e) = 1..(Len(s) + 1)
  BY <1>1
<1> QED
  BY <1>1, <1>2

\* Taking the first item moves the others up by one.
LEMMA TailItems ==
  ASSUME NEW S, NEW s \in Seq(S), s # <<>>
  PROVE  /\ Head(s) \in S /\ Head(s) = s[1] /\ 1 \in DOMAIN s
         /\ Tail(s) \in Seq(S) /\ Len(Tail(s)) = Len(s) - 1 /\ Len(s) \in Nat
         /\ DOMAIN s = 1..Len(s) /\ DOMAIN Tail(s) = 1..(Len(s) - 1)
         /\ \A i \in DOMAIN Tail(s) : i + 1 \in DOMAIN s /\ Tail(s)[i] = s[i + 1]
<1>1. /\ Head(s) \in S /\ Head(s) = s[1] /\ Len(s) \in Nat /\ Len(s) >= 1
      /\ Tail(s) \in Seq(S) /\ Len(Tail(s)) = Len(s) - 1
      /\ \A i \in 1..(Len(s) - 1) : Tail(s)[i] = s[i + 1]
  OBVIOUS
<1>2. DOMAIN s = 1..Len(s) /\ DOMAIN Tail(s) = 1..(Len(s) - 1) /\ 1 \in 1..Len(s)
  BY <1>1
<1>3. \A i \in 1..(Len(s) - 1) : i + 1 \in 1..Len(s)
  BY <1>1
<1> QED
  BY <1>1, <1>2, <1>3

\* The items of two sequences, one behind the other.
LEMMA JoinedItems ==
  ASSUME NEW S, NEW s \in Seq(S), NEW t \in Seq(S)
  PROVE  /\ s \o t \in Seq(S) /\ Len(s \o t) = Len(s) + Len(t) /\ Len(s) \in Nat /\ Len(t) \in Nat
         /\ \A i \in 1..(Len(s) + Len(t)) :
              (s \o t)[i] = IF i <= Len(s) THEN s[i] ELSE t[i - Len(s)]
  OBVIOUS

\* A new one is the last of all.
LEMMA QueuingKeepsOrder ==
  ASSUME NEW S, NEW s \in Seq(S), NEW t \in Seq(S), NEW e \in S
  PROVE  s \o Append(t, e) = Append(s \o t, e)
  OBVIOUS

\* Moving the first item of a queue to the end of the one before it changes no order.
LEMMA ArrivingKeepsOrder ==
  ASSUME NEW S, NEW s \in Seq(S), NEW t \in Seq(S), t # <<>>
  PROVE  Append(s, Head(t)) \o Tail(t) = s \o t
<1>1. /\ Head(t) = t[1] /\ Head(t) \in S /\ Len(t) \in Nat /\ Len(t) >= 1 /\ Len(s) \in Nat
      /\ Tail(t) \in Seq(S) /\ Append(s, Head(t)) \in Seq(S)
  OBVIOUS
<1>2. PICK b \in Seq(S) : b = Tail(t)
  BY <1>1
<1>3. PICK a \in Seq(S) : a = Append(s, Head(t))
  BY <1>1
<1>4. Len(b) = Len(t) - 1 /\ \A i \in 1..(Len(t) - 1) : b[i] = t[i + 1]
  BY <1>1, <1>2
<1>5. Len(a) = Len(s) + 1 /\ a[Len(s) + 1] = t[1] /\ \A i \in 1..Len(s) : a[i] = s[i]
  BY <1>1, <1>3
<1>6. /\ a \o b \in Seq(S) /\ s \o t \in Seq(S)
      /\ Len(a \o b) = Len(s) + Len(t) /\ Len(s \o t) = Len(s) + Len(t)
  <2>1. a \o b \in Seq(S) /\ Len(a \o b) = Len(a) + Len(b)
    BY JoinedItems
  <2>2. s \o t \in Seq(S) /\ Len(s \o t) = Len(s) + Len(t)
    BY JoinedItems
  <2>3. Len(a) + Len(b) = Len(s) + Len(t)
    BY <1>1, <1>4, <1>5
  <2> QED
    BY <2>1, <2>2, <2>3
<1>7. ASSUME NEW i \in 1..(Len(s) + Len(t)) PROVE (a \o b)[i] = (s \o t)[i]
  <2>1. (s \o t)[i] = IF i <= Len(s) THEN s[i] ELSE t[i - Len(s)]
    BY JoinedItems
  <2>2. (a \o b)[i] = IF i <= Len(s) + 1 THEN a[i] ELSE b[i - (Len(s) + 1)]
    <3>1. i \in 1..(Len(a) + Len(b))
      BY <1>1, <1>4, <1>5
    <3> QED
      BY <1>5, <3>1, JoinedItems
  <2>3. i \in Nat /\ i >= 1 /\ i <= Len(s) + Len(t)
    BY <1>1
  <2>4. CASE i <= Len(s)
    <3>1. i \in 1..Len(s) /\ i <= Len(s) + 1
      BY <1>1, <2>3, <2>4
    <3> QED
      BY <1>5, <2>1, <2>2, <2>4, <3>1
  <2>5. CASE i = Len(s) + 1
    <3>1. ~(i <= Len(s)) /\ i - Len(s) = 1 /\ i <= Len(s) + 1
      BY <1>1, <2>5
    <3> QED
      BY <1>5, <2>1, <2>2, <2>5, <3>1
  <2>6. CASE i > Len(s) + 1
    <3>1. i - (Len(s) + 1) \in 1..(Len(t) - 1) /\ (i - (Len(s) + 1)) + 1 = i - Len(s)
      BY <1>1, <2>3, <2>6
    <3>2. b[i - (Len(s) + 1)] = t[i - Len(s)]
      BY <1>4, <3>1
    <3>3. ~(i <= Len(s)) /\ ~(i <= Len(s) + 1)
      BY <1>1, <2>3, <2>6
    <3> QED
      BY <2>1, <2>2, <3>2, <3>3
  <2>7. i <= Len(s) \/ i = Len(s) + 1 \/ i > Len(s) + 1
    BY <1>1, <2>3
  <2> QED
    BY <2>4, <2>5, <2>6, <2>7
<1> QED
  BY <1>1, <1>2, <1>3, <1>6, <1>7

-----------------------------------------------------------------------------
(* Where windows are (the backends' MoveResize, Minimize and Resized): s1 to s3
   what client and server know, s4 the calls posted to the thread, s5 to s8 the
   window, s9 a move held back, s10 the reports. *)

\* What the calls posted to the thread carry.
LEMMA CallTypes ==
  /\ \A g \in Geometry!Rects : Geometry!Move(g) \in Geometry!Calls
  /\ \A call \in Geometry!Calls : call.op = "move" => call.to \in Geometry!Rects
  /\ \A call \in Geometry!Calls : call.op = "maximize" => call.enabled \in BOOLEAN
  BY DEF Geometry!Calls, Geometry!Move, Geometry!Minimize, Geometry!Restore, Geometry!Maximize

\* A window's place, the calls and the reports keep their types (client/client.go
\* handleMoveResize and handleConfigure, the backends' MoveResize).
LEMMA GeometryTypes ==
  ASSUME Geometry!GeometryAssumption
  PROVE  /\ Geometry!Init => Geometry!TypeOK
         /\ Geometry!TypeOK /\ [Geometry!Next]_(Geometry!vars) => Geometry!TypeOK'
<1> DEFINE backend == s1
           known == s2
           told == s3
           posted == s4
           rect == s5
           normal == s6
           zoomed == s7
           iconic == s8
           pending == s9
           events == s10
           broken == s11
           placed == s12
           inputs == s13
<1>1. Geometry!Init => Geometry!TypeOK
  <2>1. Geometry!Init => events \in Seq(Geometry!Places) /\ posted \in Seq(Geometry!Calls)
    BY DEF Geometry!Init, Geometry!Places
  <2>2. Geometry!Init =>
          /\ backend \in Backends
          /\ zoomed \in BOOLEAN /\ iconic \in BOOLEAN /\ broken \in BOOLEAN
    BY DEF Geometry!Init
  <2>4. Geometry!Init => inputs \in 0..MaxInputs
    BY DEF Geometry!Init, Geometry!GeometryAssumption
  <2>3. Geometry!Init =>
          /\ known \in Geometry!Places /\ told \in Geometry!Places
          /\ rect \in Geometry!Places /\ normal \in Geometry!Rects
          /\ pending \in Geometry!Rects \cup {NoRect} /\ placed \in Geometry!Rects \cup {NoRect}
    BY DEF Geometry!Init, Geometry!Places
  <2> QED
    BY <2>1, <2>2, <2>3, <2>4 DEF Geometry!TypeOK
<1>2. Geometry!TypeOK /\ [Geometry!Next]_(Geometry!vars) => Geometry!TypeOK'
  <2> SUFFICES ASSUME Geometry!TypeOK, [Geometry!Next]_(Geometry!vars) PROVE Geometry!TypeOK'
    OBVIOUS
  <2> USE DEF Geometry!TypeOK, Geometry!desktopVars
  <2>0. /\ Geometry!Rects \subseteq Geometry!Places /\ FullScreen \in Geometry!Places
        /\ \A g \in Geometry!Places : Append(events, g) \in Seq(Geometry!Places)
        /\ \A call \in Geometry!Calls : Append(posted, call) \in Seq(Geometry!Calls)
        /\ posted # <<>> =>
             Head(posted) \in Geometry!Calls /\ Tail(posted) \in Seq(Geometry!Calls)
        /\ events # <<>> =>
             Head(events) \in Geometry!Places /\ Tail(events) \in Seq(Geometry!Places)
    BY AppendItems, TailItems DEF Geometry!Places
  <2>1. Geometry!Input => inputs' \in 0..MaxInputs
    BY DEF Geometry!Input, Geometry!GeometryAssumption
  <2>2. ASSUME NEW g \in Geometry!Places, Geometry!Place(g)
        PROVE rect' \in Geometry!Places /\ events' \in Seq(Geometry!Places)
    BY <2>0, <2>2 DEF Geometry!Place
  <2>3. ASSUME NEW g \in Geometry!Rects, Geometry!MoveResize(g) PROVE Geometry!TypeOK'
    BY <2>0, <2>1, <2>3, CallTypes DEF Geometry!MoveResize
  <2>4. ASSUME NEW g \in Geometry!Rects, Geometry!UserDrags(g) PROVE Geometry!TypeOK'
    <3>1. rect' \in Geometry!Places /\ events' \in Seq(Geometry!Places)
      BY <2>0, <2>2, <2>4 DEF Geometry!UserDrags
    <3> QED
      BY <2>1, <2>4, <3>1 DEF Geometry!UserDrags
  <2>5. ASSUME NEW call \in Geometry!Calls, Geometry!AskState(call) PROVE Geometry!TypeOK'
    BY <2>0, <2>1, <2>5 DEF Geometry!AskState
  <2>6. CASE Geometry!Configure
    BY <2>0, <2>6 DEF Geometry!Configure
  <2>7. CASE Geometry!Carry
    <3>1. Head(posted) \in Geometry!Calls /\ posted' \in Seq(Geometry!Calls)
      BY <2>0, <2>7 DEF Geometry!Carry
    <3>2. UNCHANGED <<backend, known, told, broken, inputs>>
      BY <2>7 DEF Geometry!Carry
    <3>3. CASE Head(posted).op = "move" /\ Geometry!CarryMove(Head(posted).to)
               /\ placed' = Head(posted).to /\ UNCHANGED <<zoomed, iconic>>
      <4>1. Head(posted).to \in Geometry!Rects
        BY <3>1, <3>3, CallTypes
      <4>2. rect' \in Geometry!Places /\ events' \in Seq(Geometry!Places)
        BY <2>0, <2>2, <3>3, <4>1 DEF Geometry!CarryMove
      <4> QED
        BY <3>1, <3>2, <3>3, <4>1, <4>2 DEF Geometry!CarryMove
    <3>4. CASE /\ iconic' = TRUE /\ events' = Geometry!ReportIconic
               /\ UNCHANGED <<rect, normal, zoomed, pending, placed>>
      BY <3>1, <3>2, <3>4 DEF Geometry!ReportIconic
    <3>5. CASE Geometry!CarryRestore /\ UNCHANGED <<zoomed, placed>>
      BY <2>0, <3>1, <3>2, <3>5
      DEF Geometry!CarryRestore, Geometry!ReportZoom, Geometry!HeldReport
    <3>6. CASE /\ Head(posted).op = "maximize"
               /\ IF iconic \/ zoomed = Head(posted).enabled
                  THEN UNCHANGED <<rect, zoomed, placed, events>>
                  ELSE Geometry!Zoom(Head(posted).enabled) /\ placed' = NoRect
               /\ UNCHANGED <<normal, iconic, pending>>
      <4>1. Head(posted).enabled \in BOOLEAN
        BY <3>1, <3>6, CallTypes
      <4>2. Geometry!Zoom(Head(posted).enabled) =>
              zoomed' \in BOOLEAN /\ rect' \in Geometry!Places /\ events' \in Seq(Geometry!Places)
        BY <2>0, <2>2, <4>1 DEF Geometry!Zoom
      <4> QED
        BY <3>1, <3>2, <3>6, <4>2
    <3> QED
      BY <2>7, <3>3, <3>4, <3>5, <3>6 DEF Geometry!Carry
  <2>8. CASE Geometry!UserMinimizes
    BY <2>1, <2>8 DEF Geometry!UserMinimizes, Geometry!ReportIconic
  <2>9. CASE Geometry!UserRestores
    BY <2>0, <2>1, <2>9 DEF Geometry!UserRestores
  <2>10. CASE Geometry!UserZooms
    <3>1. zoomed' \in BOOLEAN /\ rect' \in Geometry!Places /\ events' \in Seq(Geometry!Places)
      BY <2>0, <2>2, <2>10 DEF Geometry!UserZooms, Geometry!Zoom
    <3> QED
      BY <2>1, <2>10, <3>1 DEF Geometry!UserZooms
  <2>11. CASE UNCHANGED Geometry!vars
    BY <2>11 DEF Geometry!vars
  <2> QED
    BY <2>3, <2>4, <2>5, <2>6, <2>7, <2>8, <2>9, <2>10, <2>11 DEF Geometry!Next
<1> QED
  BY <1>1, <1>2

\* A step reports nothing but where it leaves the window: a restore to a held
\* position does not report the one it passes through (win32/window.go).
LEMMA ReportsAreFinal ==
  ASSUME Geometry!TypeOK, [Geometry!Next]_(Geometry!vars)
  PROVE  Geometry!ReportsOnlyWhereItEnds
<1> DEFINE posted == s4
           events == s10
<1>1. events \in Seq(Geometry!Places) /\ Len(events) \in Nat
  BY DEF Geometry!TypeOK
<1>2. ASSUME NEW g, Geometry!Place(g) PROVE Geometry!ReportsOnlyWhereItEnds
  BY <1>1, <1>2 DEF Geometry!Place, Geometry!ReportsOnlyWhereItEnds
<1>3. ASSUME UNCHANGED events PROVE Geometry!ReportsOnlyWhereItEnds
  BY <1>1, <1>3 DEF Geometry!ReportsOnlyWhereItEnds
<1>4. ASSUME NEW g \in Geometry!Rects, Geometry!MoveResize(g) \/ Geometry!UserDrags(g)
      PROVE Geometry!ReportsOnlyWhereItEnds
  BY <1>2, <1>3, <1>4 DEF Geometry!MoveResize, Geometry!UserDrags
<1>5. ASSUME NEW call \in Geometry!Calls, Geometry!AskState(call)
      PROVE Geometry!ReportsOnlyWhereItEnds
  BY <1>3, <1>5 DEF Geometry!AskState
<1>6. CASE Geometry!Configure
  BY <1>1, <1>6, TailItems DEF Geometry!Configure, Geometry!ReportsOnlyWhereItEnds
<1>7. CASE Geometry!Carry
  <2>1. CASE Geometry!CarryMove(Head(posted).to)
    BY <1>2, <1>3, <2>1 DEF Geometry!CarryMove
  <2>2. CASE events' = Geometry!ReportIconic
    BY <1>3, <2>2 DEF Geometry!ReportIconic
  <2>3. CASE Geometry!CarryRestore
    BY <1>1, <2>3
    DEF Geometry!CarryRestore, Geometry!ReportZoom, Geometry!HeldReport,
        Geometry!ReportsOnlyWhereItEnds
  <2>4. CASE UNCHANGED events \/ Geometry!Zoom(Head(posted).enabled)
    BY <1>2, <1>3, <2>4 DEF Geometry!Zoom
  <2> QED
    BY <1>7, <2>1, <2>2, <2>3, <2>4 DEF Geometry!Carry
<1>8. CASE Geometry!UserMinimizes \/ UNCHANGED Geometry!vars
  BY <1>3, <1>8 DEF Geometry!UserMinimizes, Geometry!ReportIconic, Geometry!vars
<1>9. CASE Geometry!UserRestores
  BY <1>9 DEF Geometry!UserRestores, Geometry!ReportsOnlyWhereItEnds
<1>10. CASE Geometry!UserZooms
  BY <1>2, <1>10 DEF Geometry!UserZooms, Geometry!Zoom
<1> QED
  BY <1>4, <1>5, <1>6, <1>7, <1>8, <1>9, <1>10 DEF Geometry!Next

\* A report is the latest.
LEMMA ReportIsLatest ==
  ASSUME Geometry!TypeOK, NEW g \in Geometry!Places, s10' = Append(s10, g), s5' = g
  PROVE  Geometry!LatestInv'
<1> DEFINE events == s10
<1>1. events \in Seq(Geometry!Places)
  BY DEF Geometry!TypeOK
<1>2. events' # <<>> /\ events'[Len(events')] = g
  BY <1>1, AppendItems
<1> QED
  BY <1>2 DEF Geometry!LatestInv, Geometry!Latest

\* A place that is no change is not reported, and need not be.
LEMMA PlaceIsLatest ==
  ASSUME Geometry!TypeOK, Geometry!LatestInv, NEW g \in Geometry!Places, Geometry!Place(g),
         s2' = s2,
         s10 = <<>> /\ g = s5 =>
           s2 = s5 \/ Geometry!LastMove(s4', s2)
  PROVE  Geometry!LatestInv'
<1> DEFINE rect == s5
           events == s10
<1>1. CASE g = rect
  <2>1. events' = events /\ rect' = rect
    BY <1>1 DEF Geometry!Place
  <2>2. Geometry!Latest' = Geometry!Latest
    BY <2>1 DEF Geometry!Latest
  <2> QED
    BY <1>1, <2>1, <2>2 DEF Geometry!LatestInv, Geometry!Latest
<1>2. CASE g # rect
  BY <1>2, ReportIsLatest DEF Geometry!Place
<1> QED
  BY <1>1, <1>2

\* A call more changes the last move only if it is one.
LEMMA CallsKeepMoves ==
  ASSUME Geometry!TypeOK, NEW call \in Geometry!Calls, s4' = Append(s4, call)
  PROVE  /\ call.op = "move" => Geometry!LastMove(s4', call.to)
         /\ call.op # "move" /\ Geometry!LastMove(s4, s2) => Geometry!LastMove(s4', s2)
         /\ call.op # "move" /\ (\A i \in DOMAIN s4 : s4[i].op # "move") =>
              \A i \in DOMAIN s4' : s4'[i].op # "move"
<1> DEFINE known == s2
           posted == s4
<1>1. /\ DOMAIN posted' = 1..(Len(posted) + 1) /\ DOMAIN posted = 1..Len(posted)
      /\ Len(posted) \in Nat
      /\ \A i \in DOMAIN posted : posted'[i] = posted[i]
      /\ posted'[Len(posted) + 1] = call
  BY AppendItems DEF Geometry!TypeOK
<1>2. call.op = "move" => Geometry!LastMove(posted', call.to)
  BY <1>1 DEF Geometry!LastMove
<1>3. ASSUME call.op # "move", Geometry!LastMove(posted, known)
      PROVE Geometry!LastMove(posted', known)
  <2>1. PICK i \in DOMAIN posted :
          /\ posted[i].op = "move" /\ posted[i].to = known
          /\ \A j \in DOMAIN posted : i < j => posted[j].op # "move"
    BY <1>3 DEF Geometry!LastMove
  <2>2. \A j \in DOMAIN posted' : i < j => posted'[j].op # "move"
    BY <1>1, <1>3, <2>1
  <2> QED
    BY <1>1, <2>1, <2>2 DEF Geometry!LastMove
<1>4. ASSUME call.op # "move", \A i \in DOMAIN posted : posted[i].op # "move"
      PROVE  \A i \in DOMAIN posted' : posted'[i].op # "move"
  BY <1>1, <1>4
<1> QED
  BY <1>2, <1>3, <1>4

\* Neither does carrying one out, unless it was the last.
LEMMA CarryingKeepsMoves ==
  ASSUME Geometry!TypeOK, s4 # <<>>, s4' = Tail(s4)
  PROVE  /\ Geometry!LastMove(s4, s2) =>
              \/ Geometry!LastMove(s4', s2)
              \/ /\ Head(s4).op = "move" /\ Head(s4).to = s2
                 /\ \A i \in DOMAIN s4' : s4'[i].op # "move"
         /\ (\A i \in DOMAIN s4 : s4[i].op # "move") =>
              Head(s4).op # "move" /\ \A i \in DOMAIN s4' : s4'[i].op # "move"
<1> DEFINE known == s2
           posted == s4
<1>1. /\ Head(posted) = posted[1] /\ Len(posted) \in Nat /\ Len(posted) >= 1
      /\ DOMAIN posted = 1..Len(posted) /\ DOMAIN posted' = 1..(Len(posted) - 1)
      /\ \A i \in DOMAIN posted' : posted'[i] = posted[i + 1]
  BY TailItems DEF Geometry!TypeOK
<1>2. ASSUME Geometry!LastMove(posted, known)
      PROVE  \/ Geometry!LastMove(posted', known)
             \/ /\ Head(posted).op = "move" /\ Head(posted).to = known
                /\ \A i \in DOMAIN posted' : posted'[i].op # "move"
  <2>1. PICK i \in DOMAIN posted :
          /\ posted[i].op = "move" /\ posted[i].to = known
          /\ \A j \in DOMAIN posted : i < j => posted[j].op # "move"
    BY <1>2 DEF Geometry!LastMove
  <2>2. CASE i = 1
    <3>1. \A j \in DOMAIN posted' : j + 1 \in DOMAIN posted /\ 1 < j + 1
      BY <1>1
    <3> QED
      BY <1>1, <2>1, <2>2, <3>1
  <2>3. CASE i # 1
    <3>1. i - 1 \in DOMAIN posted' /\ posted'[i - 1] = posted[i]
      BY <1>1, <2>3
    <3>2. ASSUME NEW j \in DOMAIN posted', i - 1 < j PROVE posted'[j].op # "move"
      BY <1>1, <2>1, <3>2
    <3> QED
      BY <2>1, <3>1, <3>2 DEF Geometry!LastMove
  <2> QED
    BY <2>2, <2>3
<1>3. ASSUME \A i \in DOMAIN posted : posted[i].op # "move"
      PROVE  Head(posted).op # "move" /\ \A i \in DOMAIN posted' : posted'[i].op # "move"
  BY <1>1, <1>3
<1> QED
  BY <1>2, <1>3

\* The reports and the moves under way lead where the window is or will be.
LEMMA SettleInvariant ==
  /\ Geometry!Init => Geometry!SettleInv
  /\ Geometry!TypeOK /\ Geometry!SettleInv /\ [Geometry!Next]_(Geometry!vars) =>
       Geometry!SettleInv'
<1> DEFINE known == s2
           told == s3
           posted == s4
           rect == s5
           normal == s6
           zoomed == s7
           iconic == s8
           pending == s9
           events == s10
           broken == s11
           placed == s12
<1>1. Geometry!Init => Geometry!SettleInv
  <2> SUFFICES ASSUME Geometry!Init PROVE Geometry!SettleInv
    OBVIOUS
  <2>1. rect \in Geometry!Rects /\ <<rect>> # <<>> /\ Len(<<rect>>) = 1 /\ <<rect>>[1] = rect
    BY DEF Geometry!Init
  <2> QED
    BY <2>1
    DEF Geometry!Init, Geometry!SettleInv, Geometry!NormalInv, Geometry!LatestInv,
        Geometry!Latest, Geometry!ToldInv
<1>2. Geometry!TypeOK /\ Geometry!SettleInv /\ [Geometry!Next]_(Geometry!vars) =>
        Geometry!SettleInv'
  <2> SUFFICES ASSUME Geometry!TypeOK, Geometry!NormalInv, Geometry!LatestInv, Geometry!ToldInv,
                      [Geometry!Next]_(Geometry!vars)
               PROVE  Geometry!NormalInv' /\ Geometry!LatestInv' /\ Geometry!ToldInv'
    BY DEF Geometry!SettleInv
  <2> USE DEF Geometry!desktopVars
  <2>0. rect \in Geometry!Places /\ normal \in Geometry!Places /\ FullScreen \in Geometry!Places
        /\ Geometry!Rects \subseteq Geometry!Places
    BY DEF Geometry!TypeOK, Geometry!Places
  <2>1. ASSUME NEW g \in Geometry!Rects, Geometry!MoveResize(g)
        PROVE Geometry!NormalInv' /\ Geometry!LatestInv' /\ Geometry!ToldInv'
    <3>1. /\ known' = g /\ told' = g /\ posted' = Append(posted, Geometry!Move(g))
          /\ UNCHANGED <<rect, normal, zoomed, iconic, pending, events>>
      BY <2>1 DEF Geometry!MoveResize
    <3>2. Geometry!LastMove(posted', g)
      <4>1. Geometry!Move(g) \in Geometry!Calls /\ Geometry!Move(g).op = "move"
            /\ Geometry!Move(g).to = g
        BY CallTypes DEF Geometry!Move
      <4> QED
        BY <3>1, <4>1, CallsKeepMoves
    <3>3. Geometry!LatestInv'
      BY <3>1, <3>2 DEF Geometry!LatestInv, Geometry!Latest, Geometry!LastMove
    <3> QED
      BY <3>1, <3>3 DEF Geometry!NormalInv, Geometry!ToldInv
  <2>2. ASSUME NEW g \in Geometry!Rects, Geometry!UserDrags(g)
        PROVE Geometry!NormalInv' /\ Geometry!LatestInv' /\ Geometry!ToldInv'
    <3>1. /\ rect' = g /\ events' = Append(events, g) /\ normal' = g
          /\ UNCHANGED <<known, told, broken>>
      BY <2>2 DEF Geometry!UserDrags, Geometry!Place
    <3> QED
      BY <2>0, <3>1, ReportIsLatest DEF Geometry!NormalInv, Geometry!ToldInv
  <2>3. ASSUME NEW call \in Geometry!Calls \ {Geometry!Move(g) : g \in Geometry!Rects},
               Geometry!AskState(call)
        PROVE  Geometry!NormalInv' /\ Geometry!LatestInv' /\ Geometry!ToldInv'
    <3>1. /\ posted' = Append(posted, call)
          /\ UNCHANGED <<known, told, rect, normal, zoomed, iconic, pending, events, broken>>
      BY <2>3 DEF Geometry!AskState
    <3>2. call.op # "move"
      BY DEF Geometry!Calls, Geometry!Move, Geometry!Minimize, Geometry!Restore,
             Geometry!Maximize
    <3>3. /\ Geometry!LastMove(posted, known) => Geometry!LastMove(posted', known)
          /\ Geometry!Held(posted) => Geometry!Held(posted')
      BY <3>1, <3>2, CallsKeepMoves DEF Geometry!Held
    <3>4. Geometry!LatestInv'
      BY <3>1, <3>3 DEF Geometry!LatestInv, Geometry!Latest, Geometry!LastMove, Geometry!Held
    <3> QED
      BY <3>1, <3>4 DEF Geometry!NormalInv, Geometry!ToldInv
  <2>4. CASE Geometry!Configure
    <3>1. /\ events # <<>> /\ events' = Tail(events) /\ known' = Head(events)
          /\ told' = known' \/ broken' \/ UNCHANGED <<told, known, broken>>
          /\ UNCHANGED <<rect, normal, zoomed>>
      BY <2>4 DEF Geometry!Configure, Geometry!AlreadyKnown
    <3>2. events[Len(events)] = rect
      BY <3>1 DEF Geometry!LatestInv, Geometry!Latest
    <3>3. /\ Head(events) = events[1] /\ Len(events') = Len(events) - 1
          /\ Len(events) \in Nat /\ Len(events) >= 1 /\ DOMAIN events' = 1..(Len(events) - 1)
          /\ \A i \in DOMAIN events' : events'[i] = events[i + 1]
          /\ events' = <<>> <=> Len(events) = 1
      <4>1. events \in Seq(Geometry!Places)
        BY DEF Geometry!TypeOK
      <4>2. /\ Head(events) = events[1] /\ Len(Tail(events)) = Len(events) - 1
            /\ Len(events) \in Nat /\ DOMAIN events = 1..Len(events) /\ 1 \in DOMAIN events
            /\ DOMAIN Tail(events) = 1..(Len(events) - 1) /\ Tail(events) \in Seq(Geometry!Places)
            /\ \A i \in DOMAIN Tail(events) : Tail(events)[i] = events[i + 1]
        BY <3>1, <4>1, TailItems
      <4>3. \A t \in Seq(Geometry!Places) : t = <<>> <=> Len(t) = 0
        OBVIOUS
      <4> QED
        BY <3>1, <4>2, <4>3
    <3>4. Geometry!Latest' = rect
      <4>1. CASE Len(events) = 1
        BY <3>1, <3>2, <3>3, <4>1 DEF Geometry!Latest
      <4>2. CASE Len(events) # 1
        <5>1. Len(events') \in DOMAIN events' /\ Len(events') + 1 = Len(events)
          BY <3>3, <4>2
        <5> QED
          BY <3>2, <3>3, <4>2, <5>1 DEF Geometry!Latest
      <4> QED
        BY <4>1, <4>2
    <3> QED
      BY <3>1, <3>4 DEF Geometry!NormalInv, Geometry!LatestInv, Geometry!ToldInv
  <2>5. CASE Geometry!Carry
    <3>1. posted # <<>> /\ posted' = Tail(posted) /\ UNCHANGED <<known, told, broken>>
      BY <2>5 DEF Geometry!Carry
    <3>2. Head(posted) \in Geometry!Calls
      BY <3>1, TailItems DEF Geometry!TypeOK
    <3>3. Geometry!ToldInv'
      BY <3>1 DEF Geometry!ToldInv
    <3>4. Geometry!LastMove(posted, known) =>
               \/ Geometry!LastMove(posted', known)
               \/ /\ Head(posted).op = "move" /\ Head(posted).to = known
                  /\ \A i \in DOMAIN posted' : posted'[i].op # "move"
      BY <3>1, CarryingKeepsMoves
    <3>5. (\A i \in DOMAIN posted : posted[i].op # "move") =>
            Head(posted).op # "move" /\ \A i \in DOMAIN posted' : posted'[i].op # "move"
      BY <3>1, CarryingKeepsMoves
    <3>6. CASE Head(posted).op = "move" /\ Geometry!CarryMove(Head(posted).to)
               /\ UNCHANGED <<zoomed, iconic>>
      <4>1. Head(posted).to \in Geometry!Places
        BY <2>0, <3>2, <3>6, CallTypes
      <4>2. CASE iconic
        <5>1. pending' = Head(posted).to /\ UNCHANGED <<rect, normal, events, iconic>>
          BY <3>6, <4>2 DEF Geometry!CarryMove
        <5>2. Geometry!LatestInv'
          BY <3>1, <3>4, <3>5, <3>6, <4>2, <5>1
          DEF Geometry!LatestInv, Geometry!Latest, Geometry!Held, Geometry!LastMove
        <5> QED
          BY <3>3, <3>6, <5>1, <5>2 DEF Geometry!NormalInv
      <4>3. CASE ~iconic
        <5>1. Geometry!Place(Head(posted).to)
              /\ normal' = IF zoomed THEN normal ELSE Head(posted).to
          BY <3>6, <4>3 DEF Geometry!CarryMove
        <5>2. events = <<>> /\ Head(posted).to = rect =>
                known = rect \/ Geometry!LastMove(posted', known)
          BY <3>4, <4>3 DEF Geometry!LatestInv, Geometry!Latest, Geometry!Held
        <5>3. Geometry!LatestInv'
          BY <3>1, <4>1, <5>1, <5>2, PlaceIsLatest
        <5> QED
          BY <3>3, <3>6, <5>1, <5>3 DEF Geometry!NormalInv, Geometry!Place
      <4> QED
        BY <4>2, <4>3
    <3>7. CASE /\ Head(posted).op # "move"
               /\ iconic' = TRUE /\ events' = Geometry!ReportIconic
               /\ UNCHANGED <<rect, normal, zoomed, pending, placed>>
      BY <3>1, <3>3, <3>4, <3>5, <3>7
         DEF Geometry!ReportIconic, Geometry!NormalInv, Geometry!LatestInv, Geometry!Latest,
             Geometry!Held, Geometry!LastMove
    <3>8. CASE /\ Head(posted).op # "move" /\ Geometry!CarryRestore /\ UNCHANGED zoomed
      <4>1. CASE ~iconic
        BY <3>1, <3>3, <3>4, <3>5, <3>8, <4>1
           DEF Geometry!CarryRestore, Geometry!NormalInv, Geometry!LatestInv, Geometry!Latest,
               Geometry!Held, Geometry!LastMove
      <4>2. CASE iconic /\ zoomed
        BY <2>0, <3>3, <3>8, <4>2, ReportIsLatest
        DEF Geometry!CarryRestore, Geometry!ReportZoom, Geometry!NormalInv
      <4>3. CASE iconic /\ ~zoomed /\ pending = NoRect
        BY <2>0, <3>3, <3>8, <4>3, ReportIsLatest DEF Geometry!CarryRestore, Geometry!NormalInv
      <4>4. CASE iconic /\ ~zoomed /\ pending # NoRect
        <5>1. pending \in Geometry!Places /\ rect = normal
          BY <2>0, <4>4 DEF Geometry!TypeOK, Geometry!NormalInv
        <5>2. /\ rect' = pending /\ normal' = pending
              /\ events' = IF pending = normal THEN events ELSE Append(events, pending)
          BY <3>8, <4>4 DEF Geometry!CarryRestore, Geometry!HeldReport
        <5>3. Geometry!LatestInv'
          <6>1. CASE pending # normal
            BY <5>1, <5>2, <6>1, ReportIsLatest
          <6>2. CASE pending = normal
            <7>1. events' = events /\ rect' = rect /\ Geometry!Latest' = Geometry!Latest
              BY <3>1, <5>1, <5>2, <6>2 DEF Geometry!Latest
            <7>2. CASE Geometry!Latest = rect
              BY <7>1, <7>2 DEF Geometry!LatestInv
            <7>3. CASE events = <<>> /\ Geometry!LastMove(posted, known)
              BY <3>1, <3>4, <3>8, <7>1, <7>3 DEF Geometry!LatestInv, Geometry!LastMove
            <7>4. CASE events = <<>> /\ Geometry!Held(posted)
              BY <3>1, <5>2, <7>1, <7>4 DEF Geometry!LatestInv, Geometry!Latest, Geometry!Held
            <7> QED
              BY <7>2, <7>3, <7>4 DEF Geometry!LatestInv
          <6> QED
            BY <6>1, <6>2
        <5> QED
          BY <3>3, <5>2, <5>3 DEF Geometry!NormalInv
      <4> QED
        BY <4>1, <4>2, <4>3, <4>4
    <3>9. CASE /\ Head(posted).op # "move" /\ UNCHANGED <<normal, iconic, pending>>
               /\ UNCHANGED <<rect, zoomed, events>>
      BY <3>1, <3>3, <3>4, <3>5, <3>9
      DEF Geometry!NormalInv, Geometry!LatestInv, Geometry!Latest, Geometry!Held,
          Geometry!LastMove
    <3>10. CASE /\ Head(posted).op = "maximize" /\ UNCHANGED <<normal, iconic, pending>>
                /\ ~iconic /\ Geometry!Zoom(Head(posted).enabled)
      <4>1. Head(posted).enabled \in BOOLEAN
        BY <3>2, <3>10, CallTypes
      <4>2. PICK g \in Geometry!Places :
            /\ g = (IF Head(posted).enabled THEN FullScreen ELSE normal)
                                         /\ Geometry!Place(g) /\ zoomed' = Head(posted).enabled
        BY <2>0, <3>10, <4>1 DEF Geometry!Zoom
      <4>3. events = <<>> /\ g = rect => known = rect \/ Geometry!LastMove(posted', known)
        BY <3>4, <3>10 DEF Geometry!LatestInv, Geometry!Latest, Geometry!Held
      <4>4. Geometry!LatestInv'
        BY <3>1, <4>2, <4>3, PlaceIsLatest
      <4> QED
        BY <3>3, <3>10, <4>2, <4>4 DEF Geometry!NormalInv, Geometry!Place
    <3> QED
      BY <2>5, <3>6, <3>7, <3>8, <3>9, <3>10 DEF Geometry!Carry
  <2>6. CASE Geometry!UserMinimizes
    BY <2>6
    DEF Geometry!UserMinimizes, Geometry!ReportIconic, Geometry!NormalInv,
        Geometry!LatestInv, Geometry!Latest, Geometry!Held, Geometry!LastMove,
        Geometry!ToldInv
  <2>7. CASE Geometry!UserRestores
    <3>1. /\ rect' = (IF zoomed THEN FullScreen ELSE normal) /\ rect' \in Geometry!Places
          /\ events' = Append(events, rect') /\ UNCHANGED <<known, told, broken, zoomed, normal>>
      BY <2>0, <2>7 DEF Geometry!UserRestores
    <3>2. Geometry!LatestInv'
      BY <3>1, ReportIsLatest
    <3> QED
      BY <3>1, <3>2 DEF Geometry!NormalInv, Geometry!ToldInv
  <2>8. CASE Geometry!UserZooms
    <3>1. /\ ~iconic /\ UNCHANGED <<known, told, posted, normal, iconic, pending, broken>>
          /\ zoomed' = ~zoomed /\ zoomed \in BOOLEAN
      BY <2>8 DEF Geometry!UserZooms, Geometry!Zoom, Geometry!TypeOK
    <3>2. PICK g \in Geometry!Places : g = (IF ~zoomed THEN FullScreen ELSE normal)
          /\ Geometry!Place(g)
      BY <2>0, <2>8 DEF Geometry!UserZooms, Geometry!Zoom
    <3>3. events = <<>> /\ g = rect => known = rect \/ Geometry!LastMove(posted', known)
      BY <3>1 DEF Geometry!LatestInv, Geometry!Latest, Geometry!Held
    <3>4. Geometry!LatestInv'
      BY <3>1, <3>2, <3>3, PlaceIsLatest
    <3> QED
      BY <3>1, <3>2, <3>4 DEF Geometry!NormalInv, Geometry!ToldInv, Geometry!Place
  <2>9. CASE UNCHANGED Geometry!vars
    BY <2>9
    DEF Geometry!vars, Geometry!NormalInv, Geometry!LatestInv, Geometry!Latest,
        Geometry!Held, Geometry!LastMove, Geometry!ToldInv
  <2> QED
    BY <2>1, <2>2, <2>3, <2>4, <2>5, <2>6, <2>7, <2>8, <2>9 DEF Geometry!Next
<1> QED
  BY <1>1, <1>2

\* Once nothing is under way the window is where client and server think it is.
LEMMA GeometrySafe == Geometry!SettleInv => Geometry!GeometryAgreesWhenSettled
<1> DEFINE known == s2
           posted == s4
<1>1. posted = <<>> /\ Geometry!LastMove(posted, known) => FALSE
  BY DEF Geometry!LastMove
<1> QED
  BY <1>1
  DEF Geometry!SettleInv, Geometry!LatestInv, Geometry!ToldInv, Geometry!Latest,
      Geometry!Held, Geometry!GeometryAgreesWhenSettled

-----------------------------------------------------------------------------
(* Windows on Wayland (wayland/window.go, input.go): s1 to s4 the client's, s5 the
   events of the compositor on their way and s6 what they lead to report, s7 to
   s9 the compositor's, s10 the damage owed. *)

\* What the events of a surface and of a seat carry.
LEMMA SurfaceEvents ==
  ASSUME NEW e \in Wayland!Events
  PROVE  /\ e.type \in {"delete", "configure", "size", "enter", "leave"} /\ e.win \in Windows
         /\ e.type = "size" => e.size \in 0 .. MaxSize
         /\ Wayland!OfSeat(e) => e.dev \in Wayland!Devices
  BY DEF Wayland!Events, Wayland!OfSeat

\* An event at the end of the wire.
LEMMA SeatEventAdded ==
  ASSUME NEW w \in Seq(Wayland!Events), NEW e \in Wayland!Events
  PROVE  /\ Append(w, e) \in Seq(Wayland!Events)
         /\ Wayland!Named(Append(w, e)) =
              Wayland!Named(w) \cup (IF Wayland!OfSeat(e) THEN {e.win} ELSE {})
         /\ Wayland!Deleted(Append(w, e)) =
              Wayland!Deleted(w) \cup (IF e.type = "delete" THEN {e.win} ELSE {})
         /\ Wayland!DeletedLast(w) /\ (Wayland!OfSeat(e) => e.win \notin Wayland!Deleted(w)) =>
              Wayland!DeletedLast(Append(w, e))
         /\ \A dev : Wayland!OfSeat(e) /\ e.dev = dev =>
              Wayland!About(Append(w, e), dev) # {}
              /\ Wayland!EndsAt(Append(w, e), dev, Wayland!Where(e))
         /\ \A dev : ~(Wayland!OfSeat(e) /\ e.dev = dev) =>
              /\ Wayland!About(Append(w, e), dev) = Wayland!About(w, dev)
              /\ \A there : Wayland!EndsAt(w, dev, there) =>
                   Wayland!EndsAt(Append(w, e), dev, there)
<1> DEFINE x == Append(w, e)
           k == Len(w) + 1
<1>1. /\ x \in Seq(Wayland!Events) /\ k \in Nat /\ DOMAIN x = DOMAIN w \cup {k} /\ x[k] = e
      /\ \A i \in DOMAIN w : i \in Nat /\ i < k /\ x[i] = w[i]
  <2>1. /\ x \in Seq(Wayland!Events) /\ Len(w) \in Nat /\ DOMAIN x = 1..(Len(w) + 1)
        /\ DOMAIN w = 1..Len(w) /\ x[k] = e /\ \A i \in DOMAIN w : x[i] = w[i]
    BY AppendItems
  <2> QED
    BY <2>1
<1> HIDE DEF x, k
<1>2. Wayland!Named(x) = Wayland!Named(w) \cup (IF Wayland!OfSeat(e) THEN {e.win} ELSE {})
  BY <1>1 DEF Wayland!Named, Wayland!OfSeat
<1>3. Wayland!Deleted(x) = Wayland!Deleted(w) \cup (IF e.type = "delete" THEN {e.win} ELSE {})
  BY <1>1 DEF Wayland!Deleted
<1>4. Wayland!DeletedLast(w) /\ (Wayland!OfSeat(e) => e.win \notin Wayland!Deleted(w)) =>
        Wayland!DeletedLast(x)
  BY <1>1 DEF Wayland!Deleted, Wayland!DeletedLast
<1>5. ASSUME NEW dev, Wayland!OfSeat(e), e.dev = dev
      PROVE  Wayland!About(x, dev) # {} /\ Wayland!EndsAt(x, dev, Wayland!Where(e))
  <2>1. k \in Wayland!About(x, dev) /\ \A m \in Wayland!About(x, dev) : m <= k
    BY <1>1, <1>5 DEF Wayland!About
  <2> QED
    BY <1>1, <2>1 DEF Wayland!EndsAt
<1>6. ASSUME NEW dev, ~(Wayland!OfSeat(e) /\ e.dev = dev)
      PROVE  /\ Wayland!About(x, dev) = Wayland!About(w, dev)
             /\ \A there : Wayland!EndsAt(w, dev, there) => Wayland!EndsAt(x, dev, there)
  <2>1. Wayland!About(x, dev) = Wayland!About(w, dev)
        /\ \A m \in Wayland!About(w, dev) : x[m] = w[m]
    BY <1>1, <1>6 DEF Wayland!About
  <2> QED
    BY <2>1 DEF Wayland!EndsAt
<1> QED
  BY <1>1, <1>2, <1>3, <1>4, <1>5, <1>6 DEF x

\* An event that is not of a seat.
LEMMA OtherEventAdded ==
  ASSUME NEW w \in Seq(Wayland!Events), NEW e \in Wayland!Events, ~Wayland!OfSeat(e)
  PROVE  /\ Append(w, e) \in Seq(Wayland!Events) /\ w \o <<e>> = Append(w, e)
         /\ Wayland!Named(Append(w, e)) = Wayland!Named(w)
         /\ Wayland!Deleted(Append(w, e)) =
              Wayland!Deleted(w) \cup (IF e.type = "delete" THEN {e.win} ELSE {})
         /\ Wayland!DeletedLast(w) => Wayland!DeletedLast(Append(w, e))
         /\ \A dev : /\ Wayland!About(Append(w, e), dev) = Wayland!About(w, dev)
                     /\ \A there : Wayland!EndsAt(w, dev, there) =>
                          Wayland!EndsAt(Append(w, e), dev, there)
<1>1. w \o <<e>> = Append(w, e)
  OBVIOUS
<1> DEFINE x == Append(w, e)
<1>2. /\ x \in Seq(Wayland!Events)
      /\ Wayland!Named(x) = Wayland!Named(w) \cup (IF Wayland!OfSeat(e) THEN {e.win} ELSE {})
      /\ Wayland!Deleted(x) = Wayland!Deleted(w) \cup (IF e.type = "delete" THEN {e.win} ELSE {})
      /\ Wayland!DeletedLast(w) => Wayland!DeletedLast(x)
      /\ \A dev : /\ Wayland!About(x, dev) = Wayland!About(w, dev)
                  /\ \A there : Wayland!EndsAt(w, dev, there) => Wayland!EndsAt(x, dev, there)
  BY SeatEventAdded
<1> HIDE DEF x
<1>3. Wayland!Named(x) = Wayland!Named(w)
  BY <1>2
<1> QED
  BY <1>1, <1>2, <1>3 DEF x

\* The wire without its first event.
LEMMA SeatEventTaken ==
  ASSUME NEW w \in Seq(Wayland!Events), w # <<>>
  PROVE  /\ Head(w) \in Wayland!Events /\ Tail(w) \in Seq(Wayland!Events)
         /\ Wayland!Named(Tail(w)) \subseteq Wayland!Named(w)
         /\ Wayland!Deleted(Tail(w)) \subseteq Wayland!Deleted(w)
         /\ Wayland!OfSeat(Head(w)) => Head(w).win \in Wayland!Named(w)
         /\ Head(w).type = "delete" => Head(w).win \in Wayland!Deleted(w)
         /\ Wayland!DeletedLast(w) =>
              /\ Wayland!DeletedLast(Tail(w))
              /\ Head(w).type = "delete" => Head(w).win \notin Wayland!Named(Tail(w))
         /\ \A dev : ~(Wayland!OfSeat(Head(w)) /\ Head(w).dev = dev) =>
              (Wayland!About(Tail(w), dev) = {} <=> Wayland!About(w, dev) = {})
         /\ \A dev : Wayland!OfSeat(Head(w)) /\ Head(w).dev = dev => Wayland!About(w, dev) # {}
         /\ \A dev, there : Wayland!EndsAt(w, dev, there) =>
              \/ Wayland!EndsAt(Tail(w), dev, there)
              \/ /\ Wayland!About(Tail(w), dev) = {} /\ Wayland!Where(Head(w)) = there
                 /\ Wayland!OfSeat(Head(w)) /\ Head(w).dev = dev
<1> DEFINE x == Tail(w)
           h == Head(w)
<1>1. /\ x \in Seq(Wayland!Events) /\ h \in Wayland!Events /\ 1 \in DOMAIN w /\ w[1] = h
      /\ \A i \in DOMAIN x : i \in Nat \ {0} /\ i + 1 \in DOMAIN w /\ x[i] = w[i + 1]
      /\ \A i \in DOMAIN w : i \in Nat \ {0} /\ (i # 1 => i - 1 \in DOMAIN x /\ x[i - 1] = w[i])
  <2>1. /\ h \in Wayland!Events /\ h = w[1] /\ 1 \in DOMAIN w /\ x \in Seq(Wayland!Events)
        /\ Len(w) \in Nat
        /\ DOMAIN w = 1..Len(w) /\ DOMAIN x = 1..(Len(w) - 1)
        /\ \A i \in DOMAIN x : i + 1 \in DOMAIN w /\ x[i] = w[i + 1]
    BY TailItems
  <2>2. ASSUME NEW i \in DOMAIN w, i # 1 PROVE i - 1 \in DOMAIN x /\ x[i - 1] = w[i]
    <3>1. i - 1 \in DOMAIN x /\ (i - 1) + 1 = i
      BY <2>1, <2>2
    <3> QED
      BY <2>1, <3>1
  <2> QED
    BY <2>1, <2>2
<1> HIDE DEF x, h
<1>2. Wayland!Named(x) \subseteq Wayland!Named(w)
      /\ Wayland!Deleted(x) \subseteq Wayland!Deleted(w)
  BY <1>1 DEF Wayland!Named, Wayland!Deleted
<1>3. /\ Wayland!OfSeat(h) => h.win \in Wayland!Named(w)
      /\ h.type = "delete" => h.win \in Wayland!Deleted(w)
  BY <1>1 DEF Wayland!Named, Wayland!Deleted
<1>4. ASSUME Wayland!DeletedLast(w)
      PROVE  Wayland!DeletedLast(x) /\ (h.type = "delete" => h.win \notin Wayland!Named(x))
  <2>1. Wayland!DeletedLast(x)
    <3> SUFFICES ASSUME NEW n \in DOMAIN x, NEW m \in DOMAIN x,
                        x[n].type = "delete", Wayland!OfSeat(x[m]), n < m
                 PROVE  x[m].win # x[n].win
      BY DEF Wayland!DeletedLast
    <3>1. n + 1 \in DOMAIN w /\ m + 1 \in DOMAIN w /\ n + 1 < m + 1
          /\ x[n] = w[n + 1] /\ x[m] = w[m + 1]
      BY <1>1
    <3> QED
      BY <1>4, <3>1 DEF Wayland!DeletedLast
  <2>2. ASSUME h.type = "delete", NEW m \in DOMAIN x, Wayland!OfSeat(x[m]) PROVE x[m].win # h.win
    <3>1. m + 1 \in DOMAIN w /\ 1 < m + 1 /\ x[m] = w[m + 1] /\ 1 \in DOMAIN w /\ w[1] = h
      BY <1>1
    <3> QED
      BY <1>4, <2>2, <3>1 DEF Wayland!DeletedLast
  <2> QED
    BY <2>1, <2>2 DEF Wayland!Named
<1>5. \A dev : \A i \in Wayland!About(x, dev) : i \in Nat \ {0} /\ i + 1 \in Wayland!About(w, dev)
  BY <1>1 DEF Wayland!About
<1>6. \A dev : \A i \in Wayland!About(w, dev) :
        i \in Nat \ {0} /\ (i # 1 => i - 1 \in Wayland!About(x, dev) /\ x[i - 1] = w[i])
  BY <1>1 DEF Wayland!About
<1>7. \A dev : (1 \in Wayland!About(w, dev) <=> Wayland!OfSeat(h) /\ h.dev = dev)
  BY <1>1 DEF Wayland!About
<1>8. ASSUME NEW dev, ~(Wayland!OfSeat(h) /\ h.dev = dev)
      PROVE  Wayland!About(x, dev) = {} <=> Wayland!About(w, dev) = {}
  BY <1>5, <1>6, <1>7, <1>8
<1>9. ASSUME NEW dev, NEW there, Wayland!EndsAt(w, dev, there)
      PROVE  \/ Wayland!EndsAt(x, dev, there)
             \/ /\ Wayland!About(x, dev) = {} /\ Wayland!Where(h) = there
                /\ Wayland!OfSeat(h) /\ h.dev = dev
  <2>1. PICK n \in Wayland!About(w, dev) : Wayland!Where(w[n]) = there
        /\ \A m \in Wayland!About(w, dev) : m <= n
    BY <1>9 DEF Wayland!EndsAt
  <2>2. CASE n = 1
    <3>1. ASSUME NEW i \in Wayland!About(x, dev) PROVE FALSE
      <4>1. i \in Nat \ {0} /\ i + 1 \in Wayland!About(w, dev)
        BY <1>5
      <4>2. i + 1 <= 1
        BY <2>1, <2>2, <4>1
      <4> QED
        BY <4>1, <4>2
    <3> QED
      BY <1>1, <1>7, <2>1, <2>2, <3>1
  <2>3. CASE n # 1
    <3>1. n - 1 \in Wayland!About(x, dev) /\ x[n - 1] = w[n] /\ n \in Nat
      BY <1>6, <2>3
    <3>2. \A m \in Wayland!About(x, dev) : m <= n - 1
      BY <1>5, <2>1, <3>1
    <3> QED
      BY <2>1, <3>1, <3>2 DEF Wayland!EndsAt
  <2> QED
    BY <2>2, <2>3
<1> QED
  BY <1>1, <1>2, <1>3, <1>4, <1>7, <1>8, <1>9 DEF x, h

\* A seat leaves a surface, if it is there.
LEMMA LeavesAdded ==
  ASSUME NEW w \in Seq(Wayland!Events), NEW v \in Windows, NEW dev \in Wayland!Devices
  PROVE  /\ w \o Wayland!Leaves(dev, v) \in Seq(Wayland!Events)
         /\ Wayland!Named(w \o Wayland!Leaves(dev, v)) \subseteq Wayland!Named(w) \cup {v}
         /\ Wayland!Deleted(w \o Wayland!Leaves(dev, v)) = Wayland!Deleted(w)
         /\ Wayland!DeletedLast(w) /\ v \notin Wayland!Deleted(w) =>
              Wayland!DeletedLast(w \o Wayland!Leaves(dev, v))
         /\ s8[dev] = v =>
              Wayland!About(w \o Wayland!Leaves(dev, v), dev) # {}
              /\ Wayland!EndsAt(w \o Wayland!Leaves(dev, v), dev, NoWindow)
         /\ \A other : s8[dev] # v \/ other # dev =>
              /\ Wayland!About(w \o Wayland!Leaves(dev, v), other) = Wayland!About(w, other)
              /\ \A there : Wayland!EndsAt(w, other, there) =>
                   Wayland!EndsAt(w \o Wayland!Leaves(dev, v), other, there)
<1> DEFINE seat == s8
<1> DEFINE e == [type |-> "leave", dev |-> dev, win |-> v]
<1>1. e \in Wayland!Events /\ Wayland!OfSeat(e) /\ e.dev = dev /\ e.win = v /\ e.type # "delete"
      /\ Wayland!Where(e) = NoWindow
  BY DEF Wayland!Events, Wayland!OfSeat, Wayland!Where
<1>2. Wayland!Leaves(dev, v) = IF seat[dev] = v THEN <<e>> ELSE <<>>
  BY DEF Wayland!Leaves
<1> HIDE DEF e
<1>3. w \o <<e>> = Append(w, e) /\ w \o <<>> = w
  BY <1>1
<1>4. CASE seat[dev] = v
  <2>1. w \o Wayland!Leaves(dev, v) = Append(w, e)
    BY <1>2, <1>3, <1>4
  <2>2. /\ Append(w, e) \in Seq(Wayland!Events)
        /\ Wayland!Named(Append(w, e)) = Wayland!Named(w) \cup {v}
        /\ Wayland!Deleted(Append(w, e)) = Wayland!Deleted(w)
    BY <1>1, SeatEventAdded
  <2>3. Wayland!DeletedLast(w) /\ v \notin Wayland!Deleted(w) =>
          Wayland!DeletedLast(Append(w, e))
    BY <1>1, SeatEventAdded
  <2>4. /\ Wayland!About(Append(w, e), dev) # {}
        /\ Wayland!EndsAt(Append(w, e), dev, NoWindow)
    BY <1>1, SeatEventAdded
  <2>5. \A other : other # dev =>
          /\ Wayland!About(Append(w, e), other) = Wayland!About(w, other)
          /\ \A there : Wayland!EndsAt(w, other, there) =>
               Wayland!EndsAt(Append(w, e), other, there)
    BY <1>1, SeatEventAdded
  <2> QED
    BY <1>4, <2>1, <2>2, <2>3, <2>4, <2>5
<1>5. CASE seat[dev] # v
  <2>1. w \o Wayland!Leaves(dev, v) = w
    BY <1>2, <1>3, <1>5
  <2> QED
    BY <1>5, <2>1
<1> QED
  BY <1>4, <1>5

\* A destroyed window's surface: the seat leaves it, and then it is deleted.
LEMMA SurfaceDeleted ==
  ASSUME s5 \in Seq(Wayland!Events), NEW v \in Windows,
         s5' = s5 \o Wayland!Leaves("pointer", v) \o Wayland!Leaves("keyboard", v)
               \o <<[type |-> "delete", win |-> v]>>
  PROVE  /\ s5' \in Seq(Wayland!Events)
         /\ Wayland!Named(s5') \subseteq Wayland!Named(s5) \cup {v}
         /\ Wayland!Deleted(s5') = Wayland!Deleted(s5) \cup {v}
         /\ Wayland!DeletedLast(s5) /\ v \notin Wayland!Deleted(s5) => Wayland!DeletedLast(s5')
         /\ \A dev \in Wayland!Devices : s8[dev] = v =>
              Wayland!About(s5', dev) # {} /\ Wayland!EndsAt(s5', dev, NoWindow)
         /\ \A dev \in Wayland!Devices : s8[dev] # v =>
              /\ Wayland!About(s5', dev) = Wayland!About(s5, dev)
              /\ \A there : Wayland!EndsAt(s5, dev, there) => Wayland!EndsAt(s5', dev, there)
<1> DEFINE wire == s5
           seat == s8
<1> DEFINE y == wire \o Wayland!Leaves("pointer", v)
           z == y \o Wayland!Leaves("keyboard", v)
           d == [type |-> "delete", win |-> v]
<1>1. "pointer" \in Wayland!Devices /\ "keyboard" \in Wayland!Devices /\ "pointer" # "keyboard"
      /\ \A dev \in Wayland!Devices : dev = "pointer" \/ dev = "keyboard"
  BY DEF Wayland!Devices
<1>2. d \in Wayland!Events /\ ~Wayland!OfSeat(d) /\ d.type = "delete" /\ d.win = v
  BY DEF Wayland!Events, Wayland!OfSeat
<1>3. /\ y \in Seq(Wayland!Events) /\ Wayland!Named(y) \subseteq Wayland!Named(wire) \cup {v}
      /\ Wayland!Deleted(y) = Wayland!Deleted(wire)
      /\ Wayland!DeletedLast(wire) /\ v \notin Wayland!Deleted(wire) => Wayland!DeletedLast(y)
      /\ seat["pointer"] = v =>
           Wayland!About(y, "pointer") # {} /\ Wayland!EndsAt(y, "pointer", NoWindow)
      /\ \A dev : seat["pointer"] # v \/ dev # "pointer" =>
           /\ Wayland!About(y, dev) = Wayland!About(wire, dev)
           /\ \A there : Wayland!EndsAt(wire, dev, there) => Wayland!EndsAt(y, dev, there)
  BY <1>1, LeavesAdded
<1> HIDE DEF y
<1>4. /\ z \in Seq(Wayland!Events) /\ Wayland!Named(z) \subseteq Wayland!Named(y) \cup {v}
      /\ Wayland!Deleted(z) = Wayland!Deleted(y)
      /\ Wayland!DeletedLast(y) /\ v \notin Wayland!Deleted(y) => Wayland!DeletedLast(z)
      /\ seat["keyboard"] = v =>
           Wayland!About(z, "keyboard") # {} /\ Wayland!EndsAt(z, "keyboard", NoWindow)
      /\ \A dev : seat["keyboard"] # v \/ dev # "keyboard" =>
           /\ Wayland!About(z, dev) = Wayland!About(y, dev)
           /\ \A there : Wayland!EndsAt(y, dev, there) => Wayland!EndsAt(z, dev, there)
  BY <1>1, <1>3, LeavesAdded
<1>5. wire' = z \o <<d>>
  BY DEF y
<1> HIDE DEF z, d
<1>6. wire' = Append(z, d)
  BY <1>2, <1>4, <1>5, OtherEventAdded
<1>7. /\ wire' \in Seq(Wayland!Events) /\ Wayland!Named(wire') = Wayland!Named(z)
      /\ Wayland!Deleted(wire') = Wayland!Deleted(z) \cup {v}
      /\ Wayland!DeletedLast(z) => Wayland!DeletedLast(wire')
      /\ \A dev : /\ Wayland!About(wire', dev) = Wayland!About(z, dev)
                  /\ \A there : Wayland!EndsAt(z, dev, there) => Wayland!EndsAt(wire', dev, there)
  <2>1. Wayland!Deleted(wire') =
          Wayland!Deleted(z) \cup (IF d.type = "delete" THEN {d.win} ELSE {})
    BY <1>2, <1>4, <1>6, OtherEventAdded
  <2>2. Wayland!Deleted(wire') = Wayland!Deleted(z) \cup {v}
    BY <1>2, <2>1
  <2>3. \A dev : /\ Wayland!About(wire', dev) = Wayland!About(z, dev)
                /\ \A there : Wayland!EndsAt(z, dev, there) => Wayland!EndsAt(wire', dev, there)
    <3>1. \A dev : /\ Wayland!About(Append(z, d), dev) = Wayland!About(z, dev)
                  /\ \A there : Wayland!EndsAt(z, dev, there) =>
                       Wayland!EndsAt(Append(z, d), dev, there)
      BY <1>2, <1>4, OtherEventAdded
    <3> QED
      BY <1>6, <3>1
  <2>4. /\ wire' \in Seq(Wayland!Events) /\ Wayland!Named(wire') = Wayland!Named(z)
        /\ Wayland!DeletedLast(z) => Wayland!DeletedLast(wire')
    BY <1>2, <1>4, <1>6, OtherEventAdded
  <2> QED
    BY <2>2, <2>3, <2>4
<1>8. ASSUME NEW dev \in Wayland!Devices, seat[dev] = v
      PROVE  Wayland!About(wire', dev) # {} /\ Wayland!EndsAt(wire', dev, NoWindow)
  <2>1. CASE dev = "pointer"
    BY <1>1, <1>3, <1>4, <1>7, <1>8, <2>1
  <2>2. CASE dev = "keyboard"
    BY <1>4, <1>7, <1>8, <2>2
  <2> QED
    BY <1>1, <2>1, <2>2
<1>9. ASSUME NEW dev \in Wayland!Devices, seat[dev] # v
      PROVE  /\ Wayland!About(wire', dev) = Wayland!About(wire, dev)
             /\ \A there : Wayland!EndsAt(wire, dev, there) => Wayland!EndsAt(wire', dev, there)
  <2>1. CASE dev = "pointer"
    BY <1>1, <1>3, <1>4, <1>7, <1>9, <2>1
  <2>2. CASE dev = "keyboard"
    BY <1>1, <1>3, <1>4, <1>7, <1>9, <2>2
  <2> QED
    BY <1>1, <2>1, <2>2
<1> QED
  BY <1>3, <1>4, <1>7, <1>8, <1>9

\* A configure is of no seat and deletes nothing.
LEMMA ConfigureAdded ==
  ASSUME s5 \in Seq(Wayland!Events), NEW v \in Windows, NEW size \in 0 .. MaxSize,
         s5' = s5 \o <<[type |-> "size", win |-> v, size |-> size],
                    [type |-> "configure", win |-> v]>>
  PROVE  /\ s5' \in Seq(Wayland!Events) /\ Wayland!Named(s5') = Wayland!Named(s5)
         /\ Wayland!Deleted(s5') = Wayland!Deleted(s5)
         /\ Wayland!DeletedLast(s5) => Wayland!DeletedLast(s5')
         /\ \A dev : /\ Wayland!About(s5', dev) = Wayland!About(s5, dev)
                     /\ \A there : Wayland!EndsAt(s5, dev, there) =>
                          Wayland!EndsAt(s5', dev, there)
<1> DEFINE wire == s5
<1> DEFINE a == [type |-> "size", win |-> v, size |-> size]
           b == [type |-> "configure", win |-> v]
           y == Append(wire, a)
<1>1. /\ a \in Wayland!Events /\ ~Wayland!OfSeat(a) /\ a.type # "delete"
      /\ b \in Wayland!Events /\ ~Wayland!OfSeat(b) /\ b.type # "delete"
  BY DEF Wayland!Events, Wayland!OfSeat
<1>2. wire' = wire \o <<a, b>>
  OBVIOUS
<1> HIDE DEF a, b
<1>3. wire' = Append(y, b)
  BY <1>1, <1>2
<1>6. \A s \in Seq(Wayland!Events), e \in Wayland!Events : ~Wayland!OfSeat(e) /\ e.type # "delete" =>
        LET z == Append(s, e) IN
          /\ z \in Seq(Wayland!Events) /\ Wayland!Named(z) = Wayland!Named(s)
          /\ Wayland!Deleted(z) = Wayland!Deleted(s)
          /\ Wayland!DeletedLast(s) => Wayland!DeletedLast(z)
          /\ \A dev : /\ Wayland!About(z, dev) = Wayland!About(s, dev)
                      /\ \A there : Wayland!EndsAt(s, dev, there) => Wayland!EndsAt(z, dev, there)
  <2> SUFFICES ASSUME NEW s \in Seq(Wayland!Events), NEW e \in Wayland!Events, ~Wayland!OfSeat(e),
                      e.type # "delete"
               PROVE  LET z == Append(s, e) IN
                        /\ z \in Seq(Wayland!Events) /\ Wayland!Named(z) = Wayland!Named(s)
                        /\ Wayland!Deleted(z) = Wayland!Deleted(s)
                        /\ Wayland!DeletedLast(s) => Wayland!DeletedLast(z)
                        /\ \A dev : /\ Wayland!About(z, dev) = Wayland!About(s, dev)
                                    /\ \A there : Wayland!EndsAt(s, dev, there) =>
                                                  Wayland!EndsAt(z, dev, there)
    OBVIOUS
  <2>1. Wayland!Deleted(Append(s, e)) =
          Wayland!Deleted(s) \cup (IF e.type = "delete" THEN {e.win} ELSE {})
    BY OtherEventAdded
  <2>2. Wayland!Deleted(Append(s, e)) = Wayland!Deleted(s)
    BY <2>1
  <2> QED
    BY <2>2, OtherEventAdded
<1>4. /\ y \in Seq(Wayland!Events) /\ Wayland!Named(y) = Wayland!Named(wire)
      /\ Wayland!Deleted(y) = Wayland!Deleted(wire)
      /\ Wayland!DeletedLast(wire) => Wayland!DeletedLast(y)
      /\ \A dev : /\ Wayland!About(y, dev) = Wayland!About(wire, dev)
                  /\ \A there : Wayland!EndsAt(wire, dev, there) => Wayland!EndsAt(y, dev, there)
  BY <1>1, <1>6
<1> HIDE DEF y
<1>5. /\ wire' \in Seq(Wayland!Events) /\ Wayland!Named(wire') = Wayland!Named(y)
      /\ Wayland!Deleted(wire') = Wayland!Deleted(y)
      /\ Wayland!DeletedLast(y) => Wayland!DeletedLast(wire')
      /\ \A dev : /\ Wayland!About(wire', dev) = Wayland!About(y, dev)
                  /\ \A there : Wayland!EndsAt(y, dev, there) => Wayland!EndsAt(wire', dev, there)
  <2>1. /\ Append(y, b) \in Seq(Wayland!Events) /\ Wayland!Named(Append(y, b)) = Wayland!Named(y)
        /\ Wayland!Deleted(Append(y, b)) = Wayland!Deleted(y)
        /\ Wayland!DeletedLast(y) => Wayland!DeletedLast(Append(y, b))
        /\ \A dev : /\ Wayland!About(Append(y, b), dev) = Wayland!About(y, dev)
                    /\ \A there : Wayland!EndsAt(y, dev, there) =>
                         Wayland!EndsAt(Append(y, b), dev, there)
    BY <1>1, <1>4, <1>6
  <2> QED
    BY <1>3, <2>1
<1> QED
  BY <1>4, <1>5

\* The wire once a window is destroyed, and once a configure is sent.
LEMMA DestroyWire ==
  ASSUME Wayland!TypeOK, NEW v \in Windows, Wayland!Destroy(v)
  PROVE  /\ s5' \in Seq(Wayland!Events)
         /\ Wayland!Named(s5') \subseteq Wayland!Named(s5) \cup {v}
         /\ Wayland!Deleted(s5') = Wayland!Deleted(s5) \cup {v}
         /\ Wayland!DeletedLast(s5) /\ v \notin Wayland!Deleted(s5) => Wayland!DeletedLast(s5')
         /\ \A dev \in Wayland!Devices : s8[dev] = v =>
              Wayland!About(s5', dev) # {} /\ Wayland!EndsAt(s5', dev, NoWindow)
         /\ \A dev \in Wayland!Devices : s8[dev] # v =>
              /\ Wayland!About(s5', dev) = Wayland!About(s5, dev)
              /\ \A there : Wayland!EndsAt(s5, dev, there) => Wayland!EndsAt(s5', dev, there)
<1> DEFINE wire == s5
<1>1. wire \in Seq(Wayland!Events)
  BY DEF Wayland!TypeOK
<1>2. wire' = wire \o Wayland!Leaves("pointer", v) \o Wayland!Leaves("keyboard", v)
                   \o <<[type |-> "delete", win |-> v]>>
  BY DEF Wayland!Destroy
<1> QED
  BY ONLY <1>1, <1>2, v \in Windows, SurfaceDeleted

\* A configure brings two events, neither of them of a seat.
LEMMA ConfigureWire ==
  ASSUME Wayland!TypeOK, NEW v \in Windows, NEW size \in 0 .. MaxSize,
         Wayland!CompositorConfigures(v, size)
  PROVE  /\ s5' \in Seq(Wayland!Events) /\ Wayland!Named(s5') = Wayland!Named(s5)
         /\ Wayland!Deleted(s5') = Wayland!Deleted(s5)
         /\ Wayland!DeletedLast(s5) => Wayland!DeletedLast(s5')
         /\ \A dev : /\ Wayland!About(s5', dev) = Wayland!About(s5, dev)
                     /\ \A there : Wayland!EndsAt(s5, dev, there) =>
                          Wayland!EndsAt(s5', dev, there)
<1> DEFINE wire == s5
<1>1. wire \in Seq(Wayland!Events)
  BY DEF Wayland!TypeOK
<1>2. wire' = wire \o <<[type |-> "size", win |-> v, size |-> size],
                        [type |-> "configure", win |-> v]>>
  BY DEF Wayland!CompositorConfigures
<1> QED
  BY ONLY <1>1, <1>2, v \in Windows, size \in 0 .. MaxSize, ConfigureAdded

\* What the client does to a window, and the compositor to a surface, leaves it
\* one.
LEMMA Shapes ==
  ASSUME Wayland!WaylandAssumption
  PROVE  /\ Wayland!Unopened \in Wayland!Window /\ Wayland!NoSurface \in Wayland!Surface
         /\ \A r \in Wayland!Window, size \in Wayland!Sizes, ok \in BOOLEAN :
              /\ [r EXCEPT !.mapped = TRUE] \in Wayland!Window
              /\ [r EXCEPT !.configured = TRUE] \in Wayland!Window
              /\ [r EXCEPT !.size = size] \in Wayland!Window
              /\ Wayland!NewBuffer([r EXCEPT !.size = size], size, ok) \in Wayland!Window
              /\ Wayland!NewBuffer([r EXCEPT !.size = size], size, ok).role = r.role
              /\ ok => Wayland!NewBuffer([r EXCEPT !.size = size], size, ok).buf # 0
         /\ \A r \in Wayland!Window, top \in Nat : [r EXCEPT !.top = top] \in Wayland!Window
         /\ \A s \in Wayland!Surface, ok \in BOOLEAN :
              /\ Wayland!Released(s, ok) \in Wayland!Surface
              /\ [s EXCEPT !.alive = ok] \in Wayland!Surface
              /\ [s EXCEPT !.acked = TRUE] \in Wayland!Surface
              /\ [s EXCEPT !.shows = "current"] \in Wayland!Surface
         /\ \A s \in Wayland!Surface, size \in 0 .. MaxSize :
              [s EXCEPT !.size = size] \in Wayland!Surface
<1> USE DEF Wayland!WaylandAssumption
<1>1. Wayland!Unopened \in Wayland!Window /\ Wayland!NoSurface \in Wayland!Surface
  BY DEF Wayland!Unopened, Wayland!NoSurface, Wayland!Window, Wayland!Surface, Wayland!Sizes
<1>2. ASSUME NEW r \in Wayland!Window, NEW size \in Wayland!Sizes
      PROVE  /\ [r EXCEPT !.mapped = TRUE] \in Wayland!Window
             /\ [r EXCEPT !.configured = TRUE] \in Wayland!Window
             /\ [r EXCEPT !.size = size] \in Wayland!Window
  BY DEF Wayland!Window
<1>3. ASSUME NEW r \in Wayland!Window, NEW size \in Wayland!Sizes, NEW ok \in BOOLEAN
      PROVE  /\ Wayland!NewBuffer([r EXCEPT !.size = size], size, ok) \in Wayland!Window
             /\ Wayland!NewBuffer([r EXCEPT !.size = size], size, ok).role = r.role
             /\ ok => Wayland!NewBuffer([r EXCEPT !.size = size], size, ok).buf # 0
  <2> DEFINE q == [r EXCEPT !.size = size]
  <2>1. q \in Wayland!Window /\ q.role = r.role /\ size \in 0 .. MaxSize /\ size # 0
    BY DEF Wayland!Window, Wayland!Sizes
  <2> HIDE DEF q
  <2>2. /\ [q EXCEPT !.buf = size, !.top = 0] \in Wayland!Window
        /\ [q EXCEPT !.buf = size, !.top = 0].role = q.role
        /\ [q EXCEPT !.buf = size, !.top = 0].buf = size
    BY <2>1 DEF Wayland!Window
  <2>3. Wayland!NewBuffer(q, size, ok) = IF ok THEN [q EXCEPT !.buf = size, !.top = 0] ELSE q
    BY DEF Wayland!NewBuffer
  <2>4. /\ Wayland!NewBuffer(q, size, ok) \in Wayland!Window
        /\ Wayland!NewBuffer(q, size, ok).role = q.role
        /\ ok => Wayland!NewBuffer(q, size, ok).buf = size
    BY <2>1, <2>2, <2>3
  <2> QED
    BY <2>1, <2>4 DEF q
<1>4. \A r \in Wayland!Window, top \in Nat : [r EXCEPT !.top = top] \in Wayland!Window
  BY DEF Wayland!Window
<1>5. ASSUME NEW s \in Wayland!Surface, NEW ok \in BOOLEAN
      PROVE  /\ Wayland!Released(s, ok) \in Wayland!Surface
             /\ [s EXCEPT !.alive = ok] \in Wayland!Surface
             /\ [s EXCEPT !.acked = TRUE] \in Wayland!Surface
             /\ [s EXCEPT !.shows = "current"] \in Wayland!Surface
  BY DEF Wayland!Surface, Wayland!Released
<1>6. \A s \in Wayland!Surface, size \in 0 .. MaxSize :
        [s EXCEPT !.size = size] \in Wayland!Surface
  BY DEF Wayland!Surface
<1> QED
  BY <1>1, <1>2, <1>3, <1>4, <1>5, <1>6

\* What the compositor shows, and whether it refuses, once damage is done.
LEMMA Damaged ==
  ASSUME Wayland!WaylandAssumption, Wayland!TypeOK, NEW w \in Windows, NEW r \in Wayland!Window,
         NEW s \in Wayland!Surface,
         Wayland!Damage(w, r, s)
  PROVE  \E t \in Wayland!Surface :
           /\ s7' = [s7 EXCEPT ![w] = t] /\ s9' \in BOOLEAN
           /\ t.alive = s.alive /\ t.acked = s.acked
           /\ r.buf = 0 \/ ~r.mapped \/ ~r.configured =>
                t.shows = s.shows /\ s9' = s9
           /\ r.buf # 0 /\ r.mapped /\ r.configured =>
                t.shows = "current" /\ s9' = (s9 \/ ~s.alive \/ ~s.acked)
<1> DEFINE win == s1
           surface == s7
           refused == s9
<1>1. CASE r.buf = 0 \/ ~r.mapped \/ ~r.configured
  BY <1>1 DEF Wayland!Damage, Wayland!TypeOK
<1>2. CASE ~(r.buf = 0 \/ ~r.mapped \/ ~r.configured)
  <2> DEFINE t == [s EXCEPT !.shows = "current"]
  <2>1. t \in Wayland!Surface /\ t.alive = s.alive /\ t.acked = s.acked /\ t.shows = "current"
    BY DEF Wayland!Surface
  <2>2. /\ surface' = [surface EXCEPT ![w] = t]
        /\ refused' = (refused \/ ~s.alive \/ ~s.acked)
    BY <1>2 DEF Wayland!Damage
  <2>3. refused' \in BOOLEAN
    BY <2>2 DEF Wayland!TypeOK
  <2> HIDE DEF t
  <2> QED
    BY <1>2, <2>1, <2>2, <2>3
<1> QED
  BY <1>1, <1>2

\* r and t are what becomes of a window and its surface.
Becomes(w, r, t) ==
  /\ r \in Wayland!Window /\ t \in Wayland!Surface
  /\ s1' = [s1 EXCEPT ![w] = r] /\ s7' = [s7 EXCEPT ![w] = t]
  /\ r.role = s1[w].role /\ t.alive = s7[w].alive

\* The server's calls about a window, step by step.
LEMMA MapBecomes ==
  ASSUME Wayland!WaylandAssumption, Wayland!TypeOK, NEW w \in Windows, Wayland!Map(w)
  PROVE  \E r, t : /\ Becomes(w, r, t) /\ s9' \in BOOLEAN
                   /\ r = [s1[w] EXCEPT !.mapped = TRUE] /\ t.acked = s7[w].acked
                   /\ r.buf # 0 /\ r.configured =>
                        /\ t.shows = "current"
                        /\ s9' = (s9 \/ ~s7[w].alive \/ ~s7[w].acked)
                   /\ r.buf = 0 \/ ~r.configured => s9' = s9
<1> DEFINE win == s1
           surface == s7
           refused == s9
<1> DEFINE r == [win[w] EXCEPT !.mapped = TRUE]
<1>1. win[w] \in Wayland!Window /\ surface[w] \in Wayland!Surface
  BY DEF Wayland!TypeOK
<1>2. r \in Wayland!Window /\ r.mapped /\ r.role = win[w].role
  BY <1>1 DEF Wayland!Window
<1>3. win' = [win EXCEPT ![w] = r]
  BY DEF Wayland!Map
<1>4. win'[w] = r
  BY <1>3 DEF Wayland!TypeOK
<1>5. Wayland!Damage(w, r, surface[w])
  BY <1>4 DEF Wayland!Map
<1> HIDE DEF r
<1>6. PICK t \in Wayland!Surface :
        /\ surface' = [surface EXCEPT ![w] = t] /\ refused' \in BOOLEAN
        /\ t.alive = surface[w].alive /\ t.acked = surface[w].acked
        /\ r.buf = 0 \/ ~r.mapped \/ ~r.configured =>
             t.shows = surface[w].shows /\ refused' = refused
        /\ r.buf # 0 /\ r.mapped /\ r.configured =>
             /\ t.shows = "current"
             /\ refused' = (refused \/ ~surface[w].alive \/ ~surface[w].acked)
  BY <1>1, <1>2, <1>5, Damaged
<1>7. Becomes(w, r, t)
  BY <1>2, <1>3, <1>6 DEF Becomes
<1> QED
  BY <1>2, <1>6, <1>7 DEF r

\* Paint: only the damage and what the surface shows.
LEMMA PaintBecomes ==
  ASSUME Wayland!WaylandAssumption, Wayland!TypeOK, NEW w \in Windows, NEW size \in Wayland!Sizes,
         Wayland!Paint(w, size)
  PROVE  \E t \in Wayland!Surface, top \in Nat :
           /\ Becomes(w, [s1[w] EXCEPT !.top = top], t) /\ s9' \in BOOLEAN
           /\ top = s1[w].top \/ top <= s1[w].buf
           /\ t.acked = s7[w].acked
           /\ s1[w].mapped /\ s1[w].configured =>
                /\ t.shows = "current"
                /\ s9' = (s9 \/ ~s7[w].alive \/ ~s7[w].acked)
           /\ ~s1[w].mapped \/ ~s1[w].configured => s9' = s9
<1> DEFINE win == s1
           surface == s7
           refused == s9
<1>1. win[w] \in Wayland!Window /\ surface[w] \in Wayland!Surface
  BY DEF Wayland!TypeOK
<1>2. win[w].buf # 0 /\ Wayland!Damage(w, win[w], surface[w])
  BY DEF Wayland!Paint
<1>3. PICK top \in Nat : /\ win' = [win EXCEPT ![w] = [win[w] EXCEPT !.top = top]]
                         /\ top = win[w].top \/ top <= win[w].buf
  <2> DEFINE width == Wayland!ClipDamage(size, Wayland!PaintWidth(w))
             top == IF width > win[w].top THEN width ELSE win[w].top
  <2>1. win[w].buf \in Nat /\ win[w].top \in Nat /\ size \in Nat
    BY <1>1 DEF Wayland!Window, Wayland!Sizes
  <2>2. width \in Nat /\ width <= win[w].buf
    BY <2>1 DEF Wayland!ClipDamage, Wayland!PaintWidth
  <2>3. win' = [win EXCEPT ![w] = [win[w] EXCEPT !.top = top]]
    BY DEF Wayland!Paint
  <2> HIDE DEF width
  <2> QED
    BY <2>1, <2>2, <2>3
<1> DEFINE r == [win[w] EXCEPT !.top = top]
<1>4. r \in Wayland!Window /\ r.role = win[w].role
  BY <1>1, <1>3 DEF Wayland!Window
<1>5. PICK t \in Wayland!Surface :
        /\ surface' = [surface EXCEPT ![w] = t] /\ refused' \in BOOLEAN
        /\ t.alive = surface[w].alive /\ t.acked = surface[w].acked
        /\ win[w].mapped /\ win[w].configured =>
             /\ t.shows = "current"
             /\ refused' = (refused \/ ~surface[w].alive \/ ~surface[w].acked)
        /\ ~win[w].mapped \/ ~win[w].configured => refused' = refused
  BY <1>1, <1>2, Damaged
<1>6. Becomes(w, r, t)
  BY <1>3, <1>4, <1>5 DEF Becomes
<1> QED
  BY <1>3, <1>5, <1>6

\* MoveResize: a size, and a buffer of that size or the old one.
LEMMA MoveResizeBecomes ==
  ASSUME Wayland!WaylandAssumption, Wayland!TypeOK, NEW w \in Windows, NEW size \in Wayland!Sizes,
         NEW ok \in BOOLEAN,
         Wayland!MoveResize(w, size, ok)
  PROVE  \E r, t :
           /\ Becomes(w, r, t) /\ s9' \in BOOLEAN
           /\ r = Wayland!NewBuffer([s1[w] EXCEPT !.size = size], size, ok)
           /\ t.acked = s7[w].acked
           /\ ~ok => t = s7[w] /\ s9' = s9
           /\ ok /\ r.mapped /\ r.configured =>
                /\ t.shows = "current"
                /\ s9' = (s9 \/ ~s7[w].alive \/ ~s7[w].acked)
           /\ ~r.mapped \/ ~r.configured => s9' = s9
<1> DEFINE win == s1
           surface == s7
           refused == s9
<1> DEFINE r == Wayland!NewBuffer([win[w] EXCEPT !.size = size], size, ok)
           s == Wayland!Released(surface[w], ok)
<1>1. win[w] \in Wayland!Window /\ surface[w] \in Wayland!Surface
  BY DEF Wayland!TypeOK
<1>2. r \in Wayland!Window /\ r.role = win[w].role /\ (ok => r.buf # 0)
  BY <1>1, Shapes
<1>3. s \in Wayland!Surface /\ s.alive = surface[w].alive /\ s.acked = surface[w].acked
  BY <1>1 DEF Wayland!Surface, Wayland!Released
<1>4. win' = [win EXCEPT ![w] = r]
  BY DEF Wayland!MoveResize
<1>5. win'[w] = r
  BY <1>4 DEF Wayland!TypeOK
<1>6. CASE ok
  <2>1. Wayland!Damage(w, r, s)
    BY <1>5, <1>6 DEF Wayland!MoveResize
  <2> HIDE DEF r, s
  <2>2. PICK t \in Wayland!Surface :
          /\ surface' = [surface EXCEPT ![w] = t] /\ refused' \in BOOLEAN
          /\ t.alive = s.alive /\ t.acked = s.acked
          /\ r.buf = 0 \/ ~r.mapped \/ ~r.configured =>
               t.shows = s.shows /\ refused' = refused
          /\ r.buf # 0 /\ r.mapped /\ r.configured =>
               t.shows = "current" /\ refused' = (refused \/ ~s.alive \/ ~s.acked)
    BY <1>2, <1>3, <2>1, Damaged
  <2>3. Becomes(w, r, t)
    BY <1>2, <1>3, <1>4, <2>2 DEF Becomes
  <2> QED
    BY <1>2, <1>3, <1>6, <2>2, <2>3 DEF r
<1>7. CASE ~ok
  <2>1. UNCHANGED <<surface, refused>>
    BY <1>7 DEF Wayland!MoveResize
  <2>2. surface' = [surface EXCEPT ![w] = surface[w]] /\ refused' \in BOOLEAN
    BY <2>1 DEF Wayland!TypeOK
  <2> HIDE DEF r
  <2>3. Becomes(w, r, surface[w])
    BY <1>1, <1>2, <1>4, <2>2 DEF Becomes
  <2> QED
    BY <1>7, <2>1, <2>2, <2>3 DEF r
<1> QED
  BY <1>6, <1>7

\* Resized: the same, but the surface goes on showing the old buffer.
LEMMA ReportBecomes ==
  ASSUME Wayland!WaylandAssumption, Wayland!TypeOK, NEW ok \in BOOLEAN, Wayland!HandleReport(ok)
  PROVE  /\ s9' = s9 /\ s6' \in Seq([win : Windows, size : Wayland!Sizes])
         /\ \/ UNCHANGED <<s1, s7, s10>>
            \/ \E w \in Wayland!Open, size \in Wayland!Sizes :
                 /\ Becomes(w, Wayland!NewBuffer([s1[w] EXCEPT !.size = size], size, ok),
                            Wayland!Released(s7[w], ok))
                 /\ s10' = IF ok THEN s10 \cup {w} ELSE s10
<1> DEFINE win == s1
           reports == s6
           surface == s7
           refused == s9
           owed == s10
<1> DEFINE w == Head(reports).win
           size == Head(reports).size
<1>1. /\ Head(reports) \in [win : Windows, size : Wayland!Sizes] /\ refused' = refused
      /\ reports' \in Seq([win : Windows, size : Wayland!Sizes])
  BY TailItems DEF Wayland!HandleReport, Wayland!TypeOK
<1>2. w \in Windows /\ size \in Wayland!Sizes
  BY <1>1
<1>3. CASE w \in Wayland!Open /\ size # win[w].size
  <2> DEFINE r == Wayland!NewBuffer([win[w] EXCEPT !.size = size], size, ok)
             t == Wayland!Released(surface[w], ok)
  <2>1. /\ win' = [win EXCEPT ![w] = r] /\ surface' = [surface EXCEPT ![w] = t]
        /\ owed' = IF ok THEN owed \cup {w} ELSE owed
    BY <1>3 DEF Wayland!HandleReport
  <2> HIDE DEF w, size
  <2>2. win[w] \in Wayland!Window /\ surface[w] \in Wayland!Surface
    BY <1>2 DEF Wayland!TypeOK
  <2>3. r \in Wayland!Window /\ r.role = win[w].role
    BY <1>2, <2>2, Shapes
  <2>4. t \in Wayland!Surface /\ t.alive = surface[w].alive
    BY <2>2 DEF Wayland!Surface, Wayland!Released
  <2>5. Becomes(w, r, t)
    BY <2>1, <2>3, <2>4 DEF Becomes
  <2> QED
    BY <1>1, <1>2, <1>3, <2>1, <2>5
<1>4. CASE ~(w \in Wayland!Open /\ size # win[w].size)
  <2>1. UNCHANGED <<win, surface, owed>>
    BY <1>4 DEF Wayland!HandleReport
  <2> QED
    BY <1>1, <2>1
<1> QED
  BY <1>3, <1>4

\* The configure that lets a surface be shown.
LEMMA ConfigureBecomes ==
  ASSUME Wayland!WaylandAssumption, Wayland!TypeOK, Wayland!Configure
  PROVE  \/ UNCHANGED <<s1, s7, s9>>
         \/ \E w \in Wayland!Open, t \in Wayland!Surface :
              /\ Becomes(w, [s1[w] EXCEPT !.configured = TRUE], t) /\ t.acked
              /\ s9' \in BOOLEAN
              /\ s1[w].buf # 0 /\ s1[w].mapped =>
                   t.shows = "current" /\ s9' = (s9 \/ ~s7[w].alive)
              /\ s1[w].buf = 0 \/ ~s1[w].mapped => s9' = s9
<1> DEFINE win == s1
           wire == s5
           surface == s7
           refused == s9
<1> DEFINE w == Head(wire).win
<1>1. CASE w \in Wayland!Open
  <2> DEFINE r == [win[w] EXCEPT !.configured = TRUE]
             s == [surface[w] EXCEPT !.acked = TRUE]
  <2>1. win' = [win EXCEPT ![w] = r] /\ Wayland!Damage(w, win'[w], s)
    BY <1>1 DEF Wayland!Configure
  <2> HIDE DEF w
  <2>2. w \in Windows /\ win[w] \in Wayland!Window /\ surface[w] \in Wayland!Surface
    BY <1>1 DEF Wayland!TypeOK, Wayland!Open
  <2>3. /\ r \in Wayland!Window /\ r.role = win[w].role /\ r.configured
        /\ r.buf = win[w].buf /\ r.mapped = win[w].mapped
    BY <2>2 DEF Wayland!Window
  <2>4. s \in Wayland!Surface /\ s.alive = surface[w].alive /\ s.acked
    BY <2>2 DEF Wayland!Surface
  <2>5. win'[w] = r
    BY <2>1, <2>2 DEF Wayland!TypeOK
  <2>6. Wayland!Damage(w, r, s)
    BY <2>1, <2>5
  <2> HIDE DEF r, s
  <2>7. PICK t \in Wayland!Surface :
          /\ surface' = [surface EXCEPT ![w] = t] /\ refused' \in BOOLEAN
          /\ t.alive = s.alive /\ t.acked = s.acked
          /\ r.buf = 0 \/ ~r.mapped \/ ~r.configured =>
               t.shows = s.shows /\ refused' = refused
          /\ r.buf # 0 /\ r.mapped /\ r.configured =>
               t.shows = "current" /\ refused' = (refused \/ ~s.alive \/ ~s.acked)
    BY <2>2, <2>3, <2>4, <2>6, Damaged
  <2>8. Becomes(w, r, t)
    BY <2>1, <2>3, <2>4, <2>7 DEF Becomes
  <2> QED
    BY <1>1, <2>3, <2>4, <2>7, <2>8 DEF r
<1>2. CASE w \notin Wayland!Open
  BY <1>2 DEF Wayland!Configure
<1> QED
  BY <1>1, <1>2

\* Such a step keeps the records in shape and the windows in their roles.
LEMMA BecomesKept ==
  ASSUME Wayland!TypeOK, NEW w \in Windows, NEW r, NEW t, Becomes(w, r, t)
  PROVE  /\ s1' \in [Windows -> Wayland!Window] /\ s7' \in [Windows -> Wayland!Surface]
         /\ s1'[w] = r /\ s7'[w] = t
         /\ \A v \in Windows : v # w => s1'[v] = s1[v] /\ s7'[v] = s7[v]
         /\ \A v \in Windows : /\ s1'[v].role = s1[v].role
                               /\ s7'[v].alive = s7[v].alive
         /\ Wayland!Open' = Wayland!Open
<1> DEFINE win == s1
           surface == s7
<1>1. /\ win' \in [Windows -> Wayland!Window] /\ surface' \in [Windows -> Wayland!Surface]
      /\ win'[w] = r /\ surface'[w] = t
      /\ \A v \in Windows : v # w => win'[v] = win[v] /\ surface'[v] = surface[v]
  BY DEF Wayland!TypeOK, Becomes
<1>2. \A v \in Windows : /\ win'[v].role = win[v].role
                         /\ surface'[v].alive = surface[v].alive
  BY <1>1 DEF Becomes
<1> QED
  BY <1>1, <1>2 DEF Wayland!Open

\* Most steps leave the windows and surfaces that there are as they were.
LEMMA RolesStay ==
  ASSUME Wayland!WaylandAssumption, Wayland!TypeOK,
         \/ \E w \in Windows :
              \/ Wayland!Map(w) \/ \E size \in Wayland!Sizes : Wayland!Paint(w, size)
              \/ \E size \in Wayland!Sizes, ok \in BOOLEAN : Wayland!MoveResize(w, size, ok)
         \/ \E ok \in BOOLEAN : Wayland!HandleReport(ok)
         \/ Wayland!Configure
  PROVE  /\ s1' \in [Windows -> Wayland!Window] /\ s7' \in [Windows -> Wayland!Surface]
         /\ s9' \in BOOLEAN
         /\ \A v \in Windows : /\ s1'[v].role = s1[v].role
                               /\ s7'[v].alive = s7[v].alive
         /\ Wayland!Open' = Wayland!Open /\ UNCHANGED s8
<1> DEFINE win == s1
           surface == s7
           seat == s8
           refused == s9
<1> DEFINE Kept == /\ win' \in [Windows -> Wayland!Window]
                   /\ surface' \in [Windows -> Wayland!Surface]
                   /\ \A v \in Windows : /\ win'[v].role = win[v].role
                                         /\ surface'[v].alive = surface[v].alive
                   /\ Wayland!Open' = Wayland!Open
<1>0. /\ Wayland!Open \subseteq Windows
      /\ \A v \in Windows : \A r, t : Becomes(v, r, t) => Kept
      /\ UNCHANGED <<win, surface>> => Kept
  <2>1. ASSUME NEW v \in Windows, NEW r, NEW t, Becomes(v, r, t) PROVE Kept
    BY <2>1, BecomesKept
  <2>2. UNCHANGED <<win, surface>> => Kept
    BY DEF Wayland!TypeOK, Wayland!Open
  <2>3. Wayland!Open \subseteq Windows
    BY DEF Wayland!Open
  <2> QED
    BY <2>1, <2>2, <2>3
<1> HIDE DEF Kept
<1>1. ASSUME NEW w \in Windows, Wayland!Map(w)
      PROVE Kept /\ refused' \in BOOLEAN /\ UNCHANGED seat
  <2>1. Kept /\ refused' \in BOOLEAN
    BY <1>0, <1>1, MapBecomes
  <2> QED
    BY <1>1, <2>1 DEF Wayland!Map
<1>2. ASSUME NEW w \in Windows, NEW size \in Wayland!Sizes, Wayland!Paint(w, size)
      PROVE  Kept /\ refused' \in BOOLEAN /\ UNCHANGED seat
  <2>1. Kept /\ refused' \in BOOLEAN
    BY <1>0, <1>2, PaintBecomes
  <2> QED
    BY <1>2, <2>1 DEF Wayland!Paint
<1>3. ASSUME NEW w \in Windows, NEW size \in Wayland!Sizes, NEW ok \in BOOLEAN,
             Wayland!MoveResize(w, size, ok)
      PROVE  Kept /\ refused' \in BOOLEAN /\ UNCHANGED seat
  <2>1. Kept /\ refused' \in BOOLEAN
    BY <1>0, <1>3, MoveResizeBecomes
  <2> QED
    BY <1>3, <2>1 DEF Wayland!MoveResize
<1>4. ASSUME NEW ok \in BOOLEAN, Wayland!HandleReport(ok)
      PROVE  Kept /\ refused' \in BOOLEAN /\ UNCHANGED seat
  <2>1. Kept /\ refused' = refused
    BY <1>0, <1>4, ReportBecomes
  <2> QED
    BY <1>4, <2>1 DEF Wayland!HandleReport, Wayland!TypeOK
<1>5. ASSUME Wayland!Configure PROVE Kept /\ refused' \in BOOLEAN /\ UNCHANGED seat
  <2>1. Kept /\ refused' \in BOOLEAN
    BY <1>0, <1>5, ConfigureBecomes DEF Wayland!TypeOK
  <2>2. UNCHANGED seat
    BY <1>5 DEF Wayland!Configure
  <2> QED
    BY <2>1, <2>2
<1>6. Kept /\ refused' \in BOOLEAN /\ UNCHANGED seat
  <2>1. CASE \E w \in Windows : Wayland!Map(w)
    BY <1>1, <2>1
  <2>2. CASE \E w \in Windows, size \in Wayland!Sizes : Wayland!Paint(w, size)
    BY <1>2, <2>2
  <2>3. CASE \E w \in Windows, size \in Wayland!Sizes, ok \in BOOLEAN :
               Wayland!MoveResize(w, size, ok)
    BY <1>3, <2>3
  <2>4. CASE \E ok \in BOOLEAN : Wayland!HandleReport(ok)
    BY <1>4, <2>4
  <2> QED
    BY <1>5, <2>1, <2>2, <2>3, <2>4
<1> QED
  BY <1>6 DEF Kept

\* Every variable keeps its shape.
LEMMA WindowTypes ==
  ASSUME Wayland!WaylandAssumption
  PROVE  /\ Wayland!Init => Wayland!TypeOK
         /\ Wayland!TypeOK /\ [Wayland!Next]_(Wayland!vars) => Wayland!TypeOK'
<1> DEFINE win == s1
           last == s2
           at == s3
           proxies == s4
           wire == s5
           reports == s6
           surface == s7
           seat == s8
           refused == s9
           owed == s10
           configures == s11
           moves == s12
<1> USE DEF Wayland!WaylandAssumption
<1>1. Wayland!Init => Wayland!TypeOK
  <2> SUFFICES ASSUME Wayland!Init PROVE Wayland!TypeOK
    OBVIOUS
  <2>1. <<>> \in Seq(Wayland!Events) /\ <<>> \in Seq([win : Windows, size : Wayland!Sizes])
    OBVIOUS
  <2>2. win \in [Windows -> Wayland!Window] /\ surface \in [Windows -> Wayland!Surface]
    BY Shapes DEF Wayland!Init
  <2>3. at \in [Wayland!Devices -> Windows \cup {NoWindow}] /\ seat = at
    BY DEF Wayland!Init
  <2>4. 0 \in 0 .. MaxConfigures /\ 0 \in 0 .. MaxMoves
    OBVIOUS
  <2> QED
    BY <2>1, <2>2, <2>3, <2>4 DEF Wayland!Init, Wayland!TypeOK
<1>2. Wayland!TypeOK /\ [Wayland!Next]_(Wayland!vars) => Wayland!TypeOK'
  <2> SUFFICES ASSUME Wayland!TypeOK, [Wayland!Next]_(Wayland!vars) PROVE Wayland!TypeOK'
    OBVIOUS
  <2>1. ASSUME NEW w \in Windows, Wayland!Map(w)
        PROVE  Wayland!TypeOK'
    <3>1. /\ win' \in [Windows -> Wayland!Window] /\ surface' \in [Windows -> Wayland!Surface]
          /\ refused' \in BOOLEAN /\ UNCHANGED seat
      BY <2>1, RolesStay
    <3>2. /\ last' \in Windows \cup {NoWindow}
          /\ UNCHANGED <<at, proxies, wire, reports, owed, configures, moves>>
      BY <2>1 DEF Wayland!Map, Wayland!TypeOK, Wayland!boundVars
    <3> QED
      BY <3>1, <3>2 DEF Wayland!TypeOK
  <2>2. ASSUME NEW w \in Windows, Wayland!Destroy(w)
        PROVE  Wayland!TypeOK'
    <3>1. wire' \in Seq(Wayland!Events)
      BY <2>2, DestroyWire
    <3>2. win' \in [Windows -> Wayland!Window] /\ surface' \in [Windows -> Wayland!Surface]
      <4>1. [Wayland!Unopened EXCEPT !.role = "gone"] \in Wayland!Window
        BY Shapes DEF Wayland!Window
      <4>2. [surface[w] EXCEPT !.alive = FALSE] \in Wayland!Surface
        BY Shapes DEF Wayland!TypeOK
      <4>3. win' = [win EXCEPT ![w] = [Wayland!Unopened EXCEPT !.role = "gone"]]
        BY <2>2 DEF Wayland!Destroy
      <4>4. surface' = [surface EXCEPT ![w] = [surface[w] EXCEPT !.alive = FALSE]]
        BY <2>2 DEF Wayland!Destroy
      <4> QED
        BY <4>1, <4>2, <4>3, <4>4 DEF Wayland!TypeOK
    <3>3. /\ last' \in Windows \cup {NoWindow} /\ owed' \subseteq Windows
          /\ at' \in [Wayland!Devices -> Windows \cup {NoWindow}]
          /\ seat' \in [Wayland!Devices -> Windows \cup {NoWindow}]
          /\ UNCHANGED <<proxies, reports, refused, configures, moves>>
      BY <2>2 DEF Wayland!Destroy, Wayland!Forget, Wayland!TypeOK, Wayland!boundVars
    <3> QED
      BY <3>1, <3>2, <3>3 DEF Wayland!TypeOK
  <2>3. ASSUME NEW w \in Windows, NEW size \in Wayland!Sizes, Wayland!Paint(w, size)
        PROVE  Wayland!TypeOK'
    <3>1. /\ win' \in [Windows -> Wayland!Window] /\ surface' \in [Windows -> Wayland!Surface]
          /\ refused' \in BOOLEAN /\ UNCHANGED seat
      BY <2>3, RolesStay
    <3>2. /\ owed' \subseteq Windows /\ moves' \in 0 .. MaxMoves
          /\ UNCHANGED <<last, at, proxies, wire, reports, configures>>
      BY <2>3 DEF Wayland!Paint, Wayland!TypeOK, Wayland!deskVars
    <3> QED
      BY <3>1, <3>2 DEF Wayland!TypeOK
  <2>4. ASSUME NEW w \in Windows, NEW size \in Wayland!Sizes, NEW ok \in BOOLEAN,
               Wayland!MoveResize(w, size, ok)
        PROVE  Wayland!TypeOK'
    <3>1. /\ win' \in [Windows -> Wayland!Window] /\ surface' \in [Windows -> Wayland!Surface]
          /\ refused' \in BOOLEAN /\ UNCHANGED seat
      BY <2>4, RolesStay
    <3>2. /\ moves' \in 0 .. MaxMoves
          /\ UNCHANGED <<last, at, proxies, wire, reports, owed, configures>>
      BY <2>4 DEF Wayland!MoveResize, Wayland!TypeOK, Wayland!deskVars
    <3> QED
      BY <3>1, <3>2 DEF Wayland!TypeOK
  <2>5. ASSUME NEW w \in Windows, NEW override \in BOOLEAN, NEW size \in Wayland!Sizes,
               NEW ok \in BOOLEAN,
              Wayland!NewWindow(w, override, size, ok)
        PROVE  Wayland!TypeOK'
    <3>1. [type |-> "delete", win |-> w] \in Wayland!Events
      BY DEF Wayland!Events
    <3>2. wire' \in Seq(Wayland!Events)
      BY <2>5, <3>1, SeatEventAdded DEF Wayland!NewWindow, Wayland!TypeOK
    <3>3. win' \in [Windows -> Wayland!Window] /\ surface' \in [Windows -> Wayland!Surface]
      <4>1. /\ [Wayland!Unopened EXCEPT !.role = "gone"] \in Wayland!Window
            /\ \A role \in {"popup", "toplevel"} :
                 [Wayland!Unopened EXCEPT !.role = role, !.size = size, !.buf = size] \in Wayland!Window
        <5>1. size \in 0 .. MaxSize /\ size \in Wayland!Sizes
          BY DEF Wayland!Sizes
        <5>2. ASSUME NEW role \in {"popup", "toplevel"}
              PROVE  [Wayland!Unopened EXCEPT !.role = role, !.size = size, !.buf = size] \in Wayland!Window
          BY <5>1 DEF Wayland!Unopened, Wayland!Window
        <5>3. [Wayland!Unopened EXCEPT !.role = "gone"] \in Wayland!Window
          BY Shapes DEF Wayland!Window
        <5> QED
          BY <5>2, <5>3
      <4>2. [surface[w] EXCEPT !.alive = ok] \in Wayland!Surface
        BY Shapes DEF Wayland!TypeOK
      <4>3. \/ win' = [win EXCEPT ![w] = [Wayland!Unopened EXCEPT !.role = "gone"]]
            \/ \E role \in {"popup", "toplevel"} :
                 win' = [win EXCEPT ![w] =
                           [Wayland!Unopened EXCEPT !.role = role, !.size = size, !.buf = size]]
        BY <2>5 DEF Wayland!NewWindow
      <4>4. surface' = [surface EXCEPT ![w] = [surface[w] EXCEPT !.alive = ok]]
        BY <2>5 DEF Wayland!NewWindow
      <4>5. win' \in [Windows -> Wayland!Window]
        BY <4>1, <4>3 DEF Wayland!TypeOK
      <4> QED
        BY <4>2, <4>4, <4>5 DEF Wayland!TypeOK
    <3>4. /\ proxies' \subseteq Windows /\ refused' \in BOOLEAN
          /\ UNCHANGED <<last, at, reports, seat, owed, configures, moves>>
      BY <2>5 DEF Wayland!NewWindow, Wayland!TypeOK, Wayland!deskVars, Wayland!boundVars
    <3> QED
      BY <3>2, <3>3, <3>4 DEF Wayland!TypeOK
  <2>6. ASSUME NEW ok \in BOOLEAN, Wayland!HandleReport(ok)
        PROVE  Wayland!TypeOK'
    <3>1. /\ win' \in [Windows -> Wayland!Window] /\ surface' \in [Windows -> Wayland!Surface]
          /\ refused' \in BOOLEAN /\ UNCHANGED seat
      BY <2>6, RolesStay
    <3>2. /\ owed' \subseteq Windows /\ reports' \in Seq([win : Windows, size : Wayland!Sizes])
          /\ UNCHANGED <<last, at, proxies, wire, configures, moves>>
      <4>1. /\ reports' \in Seq([win : Windows, size : Wayland!Sizes])
            /\ \/ UNCHANGED <<win, surface, owed>>
               \/ \E w \in Wayland!Open : owed' = IF ok THEN owed \cup {w} ELSE owed
        BY <2>6, ReportBecomes
      <4>2. owed' \subseteq Windows
        BY <4>1 DEF Wayland!TypeOK, Wayland!Open
      <4> QED
        BY <2>6, <4>1, <4>2 DEF Wayland!HandleReport, Wayland!deskVars, Wayland!boundVars
    <3> QED
      BY <3>1, <3>2 DEF Wayland!TypeOK
  <2>7. ASSUME NEW w \in Windows, NEW size \in 0 .. MaxSize, Wayland!CompositorConfigures(w, size)
        PROVE  Wayland!TypeOK'
    <3>1. wire' \in Seq(Wayland!Events)
      BY <2>7, ConfigureWire
    <3>2. surface' \in [Windows -> Wayland!Surface]
      <4>1. surface[w] \in Wayland!Surface
            /\ [surface[w] EXCEPT !.size = size] \in Wayland!Surface
        BY Shapes DEF Wayland!TypeOK
      <4>2. \/ surface' = [surface EXCEPT ![w] = [surface[w] EXCEPT !.size = size]]
            \/ surface' = [surface EXCEPT ![w] = [surface[w] EXCEPT !.size = surface[w].size]]
        BY <2>7 DEF Wayland!CompositorConfigures
      <4>3. [surface[w] EXCEPT !.size = surface[w].size] \in Wayland!Surface
        BY <4>1 DEF Wayland!Surface
      <4> QED
        BY <4>1, <4>2, <4>3 DEF Wayland!TypeOK
    <3>3. /\ configures' \in 0 .. MaxConfigures
          /\ UNCHANGED <<win, last, at, proxies, reports, seat, refused, owed, moves>>
      BY <2>7 DEF Wayland!CompositorConfigures, Wayland!TypeOK, Wayland!deskVars
    <3> QED
      BY <3>1, <3>2, <3>3 DEF Wayland!TypeOK
  <2>8. ASSUME NEW dev \in Wayland!Devices, NEW w \in Windows, Wayland!SeatEnters(dev, w)
        PROVE  Wayland!TypeOK'
    <3> DEFINE e == [type |-> "enter", dev |-> dev, win |-> w]
    <3>1. e \in Wayland!Events
      BY <2>8 DEF Wayland!SeatEnters, Wayland!Events, Wayland!TypeOK
    <3>2. wire' \in Seq(Wayland!Events)
      BY <2>8, <3>1, SeatEventAdded DEF Wayland!SeatEnters, Wayland!TypeOK
    <3> QED
      BY <2>8, <3>2
      DEF Wayland!TypeOK, Wayland!SeatEnters, Wayland!deskVars, Wayland!compVars,
          Wayland!boundVars
  <2>9. ASSUME NEW dev \in Wayland!Devices, Wayland!SeatLeaves(dev)
        PROVE  Wayland!TypeOK'
    <3> DEFINE e == [type |-> "leave", dev |-> dev, win |-> seat[dev]]
    <3>1. e \in Wayland!Events
      BY <2>9 DEF Wayland!SeatLeaves, Wayland!Events, Wayland!TypeOK
    <3>2. wire' \in Seq(Wayland!Events)
      BY <2>9, <3>1, SeatEventAdded DEF Wayland!SeatLeaves, Wayland!TypeOK
    <3> QED
      BY <2>9, <3>2
      DEF Wayland!TypeOK, Wayland!SeatLeaves, Wayland!deskVars, Wayland!compVars,
          Wayland!boundVars
  <2>10. CASE Wayland!ConfigureSize
    <3>1. wire # <<>> /\ wire \in Seq(Wayland!Events) /\ wire' = Tail(wire)
      BY <2>10 DEF Wayland!ConfigureSize, Wayland!Dispatch, Wayland!TypeOK
    <3>2. /\ wire' \in Seq(Wayland!Events) /\ Head(wire).type = "size"
          /\ Head(wire).win \in Windows /\ Head(wire).size \in 0 .. MaxSize
      BY <2>10, <3>1, SeatEventTaken, SurfaceEvents DEF Wayland!ConfigureSize, Wayland!Dispatch
    <3>3. reports' \in Seq([win : Windows, size : Wayland!Sizes])
      <4> DEFINE r == [win |-> Head(wire).win, size |-> Head(wire).size]
      <4>1. reports' = reports \/ (reports' = Append(reports, r) /\ Head(wire).size # 0)
        BY <2>10 DEF Wayland!ConfigureSize
      <4>2. Head(wire).size # 0 => r \in [win : Windows, size : Wayland!Sizes]
        BY <3>2 DEF Wayland!Sizes
      <4> HIDE DEF r
      <4>3. reports \in Seq([win : Windows, size : Wayland!Sizes])
        BY DEF Wayland!TypeOK
      <4>4. CASE reports' = Append(reports, r) /\ Head(wire).size # 0
        BY <4>2, <4>3, <4>4
      <4> QED
        BY <4>1, <4>3, <4>4
    <3>4. UNCHANGED <<win, last, at, proxies, surface, seat, refused, owed, configures, moves>>
      BY <2>10 DEF Wayland!ConfigureSize, Wayland!deskVars, Wayland!compVars, Wayland!boundVars
    <3> QED
      BY <3>2, <3>3, <3>4 DEF Wayland!TypeOK
  <2>11. CASE Wayland!Configure
    <3>1. /\ win' \in [Windows -> Wayland!Window] /\ surface' \in [Windows -> Wayland!Surface]
          /\ refused' \in BOOLEAN /\ UNCHANGED seat
      BY <2>11, RolesStay
    <3>2. /\ wire' \in Seq(Wayland!Events)
          /\ UNCHANGED <<last, at, proxies, reports, owed, configures, moves>>
      BY <2>11, SeatEventTaken
      DEF Wayland!Configure, Wayland!Dispatch, Wayland!TypeOK, Wayland!deskVars,
          Wayland!boundVars
    <3> QED
      BY <3>1, <3>2 DEF Wayland!TypeOK
  <2>12. CASE Wayland!Enter
    <3>1. wire # <<>> /\ wire \in Seq(Wayland!Events) /\ wire' = Tail(wire)
      BY <2>12 DEF Wayland!Enter, Wayland!Dispatch, Wayland!TypeOK
    <3>2. wire' \in Seq(Wayland!Events) /\ Head(wire) \in Wayland!Events
          /\ Head(wire).win \in Windows
      BY <3>1, SeatEventTaken, SurfaceEvents
    <3>3. Wayland!OfSeat(Head(wire)) => Head(wire).dev \in Wayland!Devices
      BY <3>2, SurfaceEvents
    <3>4. UNCHANGED <<win, proxies, reports, surface, seat, refused, owed, configures, moves>>
      BY <2>12 DEF Wayland!Enter, Wayland!compVars, Wayland!boundVars
    <3>5. /\ at \in [Wayland!Devices -> Windows \cup {NoWindow}]
          /\ last \in Windows \cup {NoWindow}
      BY DEF Wayland!TypeOK
    <3>6. /\ at' \in [Wayland!Devices -> Windows \cup {NoWindow}]
          /\ last' \in Windows \cup {NoWindow}
      <4>1. CASE Head(wire).win \in Wayland!Open
        <5>1. /\ at' = [at EXCEPT ![Head(wire).dev] = Head(wire).win]
              /\ last' = Head(wire).win \/ last' = last
          BY <2>12, <4>1 DEF Wayland!Enter
        <5> QED
          BY <3>2, <3>5, <5>1
      <4>2. CASE Head(wire).win \notin Wayland!Open
        BY <2>12, <3>5, <4>2 DEF Wayland!Enter, Wayland!deskVars
      <4> QED
        BY <4>1, <4>2
    <3> QED
      BY <3>2, <3>4, <3>6 DEF Wayland!TypeOK
  <2>13. CASE Wayland!Leave
    <3>1. wire # <<>> /\ wire \in Seq(Wayland!Events) /\ wire' = Tail(wire)
      BY <2>13 DEF Wayland!Leave, Wayland!Dispatch, Wayland!TypeOK
    <3>2. wire' \in Seq(Wayland!Events) /\ Head(wire) \in Wayland!Events
          /\ Head(wire).win \in Windows
      BY <3>1, SeatEventTaken, SurfaceEvents
    <3>3. Wayland!OfSeat(Head(wire)) => Head(wire).dev \in Wayland!Devices
      BY <3>2, SurfaceEvents
    <3> QED
      BY <2>13, <3>1, <3>2, <3>3, SurfaceEvents
      DEF Wayland!TypeOK, Wayland!Leave, Wayland!Dispatch, Wayland!OfSeat, Wayland!Sizes,
          Wayland!deskVars, Wayland!compVars, Wayland!boundVars
  <2>14. CASE Wayland!DeleteID
    <3>1. wire # <<>> /\ wire \in Seq(Wayland!Events) /\ wire' = Tail(wire)
      BY <2>14 DEF Wayland!DeleteID, Wayland!Dispatch, Wayland!TypeOK
    <3>2. wire' \in Seq(Wayland!Events) /\ Head(wire) \in Wayland!Events
          /\ Head(wire).win \in Windows
      BY <3>1, SeatEventTaken, SurfaceEvents
    <3>3. Wayland!OfSeat(Head(wire)) => Head(wire).dev \in Wayland!Devices
      BY <3>2, SurfaceEvents
    <3> QED
      BY <2>14, <3>1, <3>2, <3>3, SurfaceEvents
      DEF Wayland!TypeOK, Wayland!DeleteID, Wayland!Dispatch, Wayland!OfSeat, Wayland!Sizes,
          Wayland!deskVars, Wayland!compVars, Wayland!boundVars
  <2>15. CASE UNCHANGED Wayland!vars
    BY <2>15
    DEF Wayland!vars, Wayland!deskVars, Wayland!compVars, Wayland!boundVars, Wayland!TypeOK,
        Wayland!Open, Wayland!Sizes
  <2> QED
    BY <2>1, <2>2, <2>3, <2>4, <2>5, <2>6, <2>7, <2>8, <2>9, <2>10, <2>11, <2>12, <2>13,
       <2>14, <2>15
    DEF Wayland!Next, Wayland!ServerCalls, Wayland!CompositorSends, Wayland!Handle
<1> QED
  BY <1>1, <1>2

\* The windows that are open after one is opened or destroyed.
LEMMA RolesChange ==
  ASSUME Wayland!TypeOK, NEW w \in Windows
  PROVE  /\ Wayland!Destroy(w) =>
              /\ Wayland!Open' = Wayland!Open \ {w} /\ w \in Wayland!Open /\ s1'[w].role = "gone"
              /\ \A v \in Windows : /\ v # w => s1'[v].role = s1[v].role
                                    /\ s7'[v].alive = (s7[v].alive /\ v # w)
         /\ \A override \in BOOLEAN, size \in Wayland!Sizes, ok \in BOOLEAN :
              Wayland!NewWindow(w, override, size, ok) =>
                /\ Wayland!Open' = Wayland!Open \cup (IF ok THEN {w} ELSE {})
                /\ w \notin Wayland!Open
                /\ s1[w].role = "none" /\ (~ok => s1'[w].role = "gone")
                /\ \A v \in Windows : v # w =>
                     s1'[v].role = s1[v].role /\ s7'[v].alive = s7[v].alive
                /\ s7'[w].alive = ok
<1> DEFINE win == s1
           surface == s7
<1>1. ASSUME Wayland!Destroy(w)
      PROVE  /\ w \in Wayland!Open /\ win'[w].role = "gone"
             /\ \A v \in Windows : /\ v # w => win'[v].role = win[v].role
                                   /\ surface'[v].alive = (surface[v].alive /\ v # w)
  <2>1. /\ w \in Wayland!Open
        /\ win' = [win EXCEPT ![w] = [Wayland!Unopened EXCEPT !.role = "gone"]]
        /\ surface' = [surface EXCEPT ![w] = [surface[w] EXCEPT !.alive = FALSE]]
    BY <1>1 DEF Wayland!Destroy
  <2>2. [Wayland!Unopened EXCEPT !.role = "gone"].role = "gone"
    BY DEF Wayland!Unopened
  <2>3. surface[w] \in Wayland!Surface /\ [surface[w] EXCEPT !.alive = FALSE].alive = FALSE
    BY DEF Wayland!TypeOK, Wayland!Surface
  <2>4. /\ win'[w].role = "gone" /\ surface'[w].alive = FALSE
        /\ \A v \in Windows : v # w => win'[v] = win[v] /\ surface'[v] = surface[v]
    BY <2>1, <2>2, <2>3 DEF Wayland!TypeOK
  <2>5. \A v \in Windows : surface[v].alive \in BOOLEAN
    BY DEF Wayland!TypeOK, Wayland!Surface
  <2> QED
    BY <2>1, <2>4, <2>5
<1>2. ASSUME NEW override \in BOOLEAN, NEW size \in Wayland!Sizes, NEW ok \in BOOLEAN,
             Wayland!NewWindow(w, override, size, ok)
      PROVE  /\ win[w].role = "none" /\ (~ok => win'[w].role = "gone")
             /\ ok => win'[w].role \in {"toplevel", "popup"}
             /\ \A v \in Windows : v # w =>
                  win'[v].role = win[v].role /\ surface'[v].alive = surface[v].alive
             /\ surface'[w].alive = ok
  BY <1>2 DEF Wayland!NewWindow, Wayland!Unopened, Wayland!TypeOK
<1>3. Wayland!Destroy(w) => Wayland!Open' = Wayland!Open \ {w}
  BY <1>1 DEF Wayland!Open
<1>4. ASSUME NEW override \in BOOLEAN, NEW size \in Wayland!Sizes, NEW ok \in BOOLEAN,
             Wayland!NewWindow(w, override, size, ok)
      PROVE  Wayland!Open' = Wayland!Open \cup (IF ok THEN {w} ELSE {}) /\ w \notin Wayland!Open
  BY <1>2, <1>4 DEF Wayland!Open
<1> QED
  BY <1>1, <1>2, <1>3, <1>4

\* The client's devices follow the compositor's.
LEMMA SeatInvariant ==
  ASSUME Wayland!WaylandAssumption
  PROVE  /\ Wayland!Init => Wayland!SeatInv
         /\ Wayland!TypeOK /\ Wayland!SeatInv /\ [Wayland!Next]_(Wayland!vars) => Wayland!SeatInv'
<1> DEFINE win == s1
           at == s3
           wire == s5
           surface == s7
           seat == s8
<1> USE DEF Wayland!WaylandAssumption
<1>1. Wayland!Init => Wayland!SeatInv
  BY DEF Wayland!Init, Wayland!SeatInv, Wayland!Open, Wayland!Unopened, Wayland!NoSurface,
         Wayland!About
<1>2. Wayland!TypeOK /\ Wayland!SeatInv /\ [Wayland!Next]_(Wayland!vars) => Wayland!SeatInv'
  <2> SUFFICES ASSUME Wayland!TypeOK, Wayland!SeatInv, [Wayland!Next]_(Wayland!vars)
               PROVE Wayland!SeatInv'
    OBVIOUS
  <2>1. ASSUME NEW w \in Windows, Wayland!Map(w)
        PROVE  Wayland!SeatInv'
    <3>1. /\ \A v \in Windows : surface'[v].alive = surface[v].alive
          /\ Wayland!Open' = Wayland!Open /\ UNCHANGED <<at, seat, wire>>
      BY <2>1, RolesStay DEF Wayland!Map, Wayland!deskVars
    <3> QED
      BY <3>1 DEF Wayland!SeatInv
  <2>2. ASSUME NEW w \in Windows, Wayland!Destroy(w)
        PROVE  Wayland!SeatInv'
    <3>1. /\ Wayland!Open' = Wayland!Open \ {w}
          /\ \A v \in Windows : surface'[v].alive = (surface[v].alive /\ v # w)
      BY <2>2, RolesChange
    <3>2. \A dev \in Wayland!Devices : /\ at'[dev] = IF at[dev] = w THEN NoWindow ELSE at[dev]
                             /\ seat'[dev] = IF seat[dev] = w THEN NoWindow ELSE seat[dev]
      BY <2>2 DEF Wayland!Destroy, Wayland!Forget
    <3>3. /\ \A dev \in Wayland!Devices : seat[dev] = w =>
               Wayland!About(wire', dev) # {} /\ Wayland!EndsAt(wire', dev, NoWindow)
          /\ \A dev \in Wayland!Devices : seat[dev] # w =>
               /\ Wayland!About(wire', dev) = Wayland!About(wire, dev)
               /\ \A there : Wayland!EndsAt(wire, dev, there) => Wayland!EndsAt(wire', dev, there)
      BY <2>2, DestroyWire
    <3>4. \A u \in Windows : surface'[u].alive <=> u \in Wayland!Open'
      BY <3>1 DEF Wayland!SeatInv
    <3>5. ASSUME NEW dev \in Wayland!Devices
          PROVE  /\ at'[dev] # NoWindow => at'[dev] \in Wayland!Open'
                 /\ seat'[dev] # NoWindow => seat'[dev] \in Wayland!Open'
      BY <3>1, <3>2 DEF Wayland!SeatInv
    <3>6. ASSUME NEW dev \in Wayland!Devices
          PROVE  IF Wayland!About(wire', dev) = {} THEN at'[dev] = seat'[dev]
                 ELSE Wayland!EndsAt(wire', dev, seat'[dev])
      <4>1. CASE seat[dev] = w
        BY <3>2, <3>3, <4>1
      <4>2. CASE seat[dev] # w /\ Wayland!About(wire, dev) = {}
        <5>1. at[dev] = seat[dev]
          BY <4>2 DEF Wayland!SeatInv
        <5> QED
          BY <3>2, <3>3, <4>2, <5>1
      <4>3. CASE seat[dev] # w /\ Wayland!About(wire, dev) # {}
        <5>1. Wayland!EndsAt(wire, dev, seat[dev])
          BY <4>3 DEF Wayland!SeatInv
        <5> QED
          BY <3>2, <3>3, <4>3, <5>1
      <4> QED
        BY <4>1, <4>2, <4>3
    <3> QED
      BY <3>4, <3>5, <3>6 DEF Wayland!SeatInv
  <2>3. ASSUME NEW w \in Windows, NEW size \in Wayland!Sizes, Wayland!Paint(w, size)
        PROVE  Wayland!SeatInv'
    <3>1. /\ \A v \in Windows : surface'[v].alive = surface[v].alive
          /\ Wayland!Open' = Wayland!Open /\ UNCHANGED <<at, seat, wire>>
      BY <2>3, RolesStay DEF Wayland!Paint, Wayland!deskVars
    <3> QED
      BY <3>1 DEF Wayland!SeatInv
  <2>4. ASSUME NEW w \in Windows, NEW size \in Wayland!Sizes, NEW ok \in BOOLEAN,
               Wayland!MoveResize(w, size, ok)
        PROVE  Wayland!SeatInv'
    <3>1. /\ \A v \in Windows : surface'[v].alive = surface[v].alive
          /\ Wayland!Open' = Wayland!Open /\ UNCHANGED <<at, seat, wire>>
      BY <2>4, RolesStay DEF Wayland!MoveResize, Wayland!deskVars
    <3> QED
      BY <3>1 DEF Wayland!SeatInv
  <2>5. ASSUME NEW w \in Windows, NEW override \in BOOLEAN, NEW size \in Wayland!Sizes,
               NEW ok \in BOOLEAN,
              Wayland!NewWindow(w, override, size, ok)
        PROVE  Wayland!SeatInv'
    <3>1. /\ Wayland!Open' = Wayland!Open \cup (IF ok THEN {w} ELSE {}) /\ w \notin Wayland!Open
          /\ surface'[w].alive = ok
          /\ \A v \in Windows : v # w => surface'[v].alive = surface[v].alive
          /\ UNCHANGED <<at, seat>>
      BY <2>5, RolesChange DEF Wayland!NewWindow, Wayland!deskVars
    <3>2. \A dev : /\ Wayland!About(wire', dev) = Wayland!About(wire, dev)
                  /\ \A there : Wayland!EndsAt(wire, dev, there) =>
                       Wayland!EndsAt(wire', dev, there)
      <4> DEFINE e == [type |-> "delete", win |-> w]
      <4>1. e \in Wayland!Events /\ ~Wayland!OfSeat(e)
        BY DEF Wayland!Events, Wayland!OfSeat
      <4>2. wire' = IF ok THEN wire ELSE Append(wire, e)
        BY <2>5 DEF Wayland!NewWindow
      <4> QED
        BY <4>1, <4>2, SeatEventAdded DEF Wayland!TypeOK
    <3> QED
      BY <3>1, <3>2 DEF Wayland!SeatInv
  <2>6. ASSUME NEW ok \in BOOLEAN, Wayland!HandleReport(ok)
        PROVE  Wayland!SeatInv'
    <3>1. /\ \A v \in Windows : surface'[v].alive = surface[v].alive
          /\ Wayland!Open' = Wayland!Open /\ UNCHANGED <<at, seat, wire>>
      BY <2>6, RolesStay DEF Wayland!HandleReport, Wayland!deskVars
    <3> QED
      BY <3>1 DEF Wayland!SeatInv
  <2>7. ASSUME NEW w \in Windows, NEW size \in 0 .. MaxSize, Wayland!CompositorConfigures(w, size)
        PROVE  Wayland!SeatInv'
    <3>1. /\ \A v \in Windows : surface'[v].alive = surface[v].alive
          /\ Wayland!Open' = Wayland!Open /\ UNCHANGED <<at, seat>>
      BY <2>7 DEF Wayland!CompositorConfigures, Wayland!TypeOK, Wayland!Open, Wayland!deskVars
    <3>2. \A dev : /\ Wayland!About(wire', dev) = Wayland!About(wire, dev)
                  /\ \A there : Wayland!EndsAt(wire, dev, there) =>
                       Wayland!EndsAt(wire', dev, there)
      BY <2>7, ConfigureWire
    <3> QED
      BY <3>1, <3>2 DEF Wayland!SeatInv
  <2>8. ASSUME NEW dev \in Wayland!Devices, NEW w \in Windows, Wayland!SeatEnters(dev, w)
        PROVE  Wayland!SeatInv'
    <3> DEFINE e == [type |-> "enter", dev |-> dev, win |-> w]
    <3>1. e \in Wayland!Events /\ Wayland!OfSeat(e) /\ e.dev = dev /\ Wayland!Where(e) = w
      BY <2>8
      DEF Wayland!SeatEnters, Wayland!Events, Wayland!OfSeat, Wayland!Where, Wayland!TypeOK
    <3>2. /\ wire' = Append(wire, e) /\ seat' = [seat EXCEPT ![dev] = w]
          /\ Wayland!Open' = Wayland!Open
          /\ UNCHANGED <<at, surface>> /\ w \in Wayland!Open
      BY <2>8 DEF Wayland!SeatEnters, Wayland!Open, Wayland!deskVars, Wayland!SeatInv
    <3> HIDE DEF e
    <3>3. /\ Wayland!About(wire', dev) # {} /\ Wayland!EndsAt(wire', dev, w)
          /\ \A other : other # dev =>
               /\ Wayland!About(wire', other) = Wayland!About(wire, other)
               /\ \A there : Wayland!EndsAt(wire, other, there) =>
                    Wayland!EndsAt(wire', other, there)
      BY <3>1, <3>2, SeatEventAdded DEF Wayland!TypeOK
    <3>4. seat'[dev] = w /\ \A other \in Wayland!Devices : other # dev =>
            seat'[other] = seat[other]
      BY <3>2 DEF Wayland!TypeOK
    <3> QED
      BY <3>2, <3>3, <3>4 DEF Wayland!SeatInv
  <2>9. ASSUME NEW dev \in Wayland!Devices, Wayland!SeatLeaves(dev)
        PROVE  Wayland!SeatInv'
    <3> DEFINE e == [type |-> "leave", dev |-> dev, win |-> seat[dev]]
    <3>1. e \in Wayland!Events /\ Wayland!OfSeat(e) /\ e.dev = dev /\ Wayland!Where(e) = NoWindow
      BY <2>9
      DEF Wayland!SeatLeaves, Wayland!Events, Wayland!OfSeat, Wayland!Where, Wayland!TypeOK
    <3>2. /\ wire' = Append(wire, e) /\ seat' = [seat EXCEPT ![dev] = NoWindow]
          /\ Wayland!Open' = Wayland!Open
          /\ UNCHANGED <<at, surface>>
      BY <2>9 DEF Wayland!SeatLeaves, Wayland!Open, Wayland!deskVars, Wayland!SeatInv
    <3> HIDE DEF e
    <3>3. /\ Wayland!About(wire', dev) # {} /\ Wayland!EndsAt(wire', dev, NoWindow)
          /\ \A other : other # dev =>
               /\ Wayland!About(wire', other) = Wayland!About(wire, other)
               /\ \A there : Wayland!EndsAt(wire, other, there) =>
                    Wayland!EndsAt(wire', other, there)
      BY <3>1, <3>2, SeatEventAdded DEF Wayland!TypeOK
    <3>4. seat'[dev] = NoWindow /\ \A other \in Wayland!Devices : other # dev =>
            seat'[other] = seat[other]
      BY <3>2 DEF Wayland!TypeOK
    <3> QED
      BY <3>2, <3>3, <3>4 DEF Wayland!SeatInv
  <2>10. CASE Wayland!ConfigureSize
    <3>1. /\ wire \in Seq(Wayland!Events) /\ wire # <<>> /\ wire' = Tail(wire)
          /\ Head(wire) \in Wayland!Events
          /\ Head(wire).type = "size"
      BY <2>10, SeatEventTaken DEF Wayland!ConfigureSize, Wayland!Dispatch, Wayland!TypeOK
    <3>2. /\ \A v \in Windows : surface'[v].alive = surface[v].alive
          /\ Wayland!Open' = Wayland!Open /\ UNCHANGED <<at, seat>>
      BY <2>10 DEF Wayland!ConfigureSize, Wayland!deskVars, Wayland!compVars, Wayland!Open
    <3>3. \A dev : /\ Wayland!About(wire', dev) = {} <=> Wayland!About(wire, dev) = {}
                  /\ \A there : Wayland!EndsAt(wire, dev, there) =>
                       Wayland!EndsAt(wire', dev, there)
      BY <3>1, SeatEventTaken DEF Wayland!OfSeat
    <3> QED
      BY <3>2, <3>3 DEF Wayland!SeatInv
  <2>11. CASE Wayland!Configure
    <3>1. /\ wire \in Seq(Wayland!Events) /\ wire # <<>> /\ wire' = Tail(wire)
          /\ Head(wire) \in Wayland!Events
          /\ Head(wire).type = "configure"
      BY <2>11, SeatEventTaken DEF Wayland!Configure, Wayland!Dispatch, Wayland!TypeOK
    <3>2. /\ \A v \in Windows : surface'[v].alive = surface[v].alive
          /\ Wayland!Open' = Wayland!Open /\ UNCHANGED <<at, seat>>
      BY <2>11, RolesStay DEF Wayland!Configure, Wayland!deskVars
    <3>3. \A dev : /\ Wayland!About(wire', dev) = {} <=> Wayland!About(wire, dev) = {}
                  /\ \A there : Wayland!EndsAt(wire, dev, there) =>
                       Wayland!EndsAt(wire', dev, there)
      BY <3>1, SeatEventTaken DEF Wayland!OfSeat
    <3> QED
      BY <3>2, <3>3 DEF Wayland!SeatInv
  <2>12. CASE Wayland!Enter
    <3>1. /\ wire \in Seq(Wayland!Events) /\ wire # <<>> /\ wire' = Tail(wire)
          /\ Head(wire) \in Wayland!Events
          /\ Head(wire).type = "enter"
      BY <2>12, SeatEventTaken DEF Wayland!Enter, Wayland!Dispatch, Wayland!TypeOK
    <3> DEFINE d == Head(wire).dev
    <3>2. d \in Wayland!Devices /\ Wayland!OfSeat(Head(wire))
          /\ Wayland!Where(Head(wire)) = Head(wire).win /\ Head(wire).win \in Windows
      BY <3>1, SurfaceEvents DEF Wayland!OfSeat, Wayland!Where
    <3>3. /\ UNCHANGED <<win, surface, seat>> /\ Wayland!Open' = Wayland!Open
          /\ \A dev \in Wayland!Devices : dev # d => at'[dev] = at[dev]
          /\ IF Head(wire).win \in Wayland!Open THEN at'[d] = Head(wire).win ELSE at'[d] = at[d]
      BY <2>12, <3>2
      DEF Wayland!Enter, Wayland!deskVars, Wayland!compVars, Wayland!Open, Wayland!TypeOK
    <3> HIDE DEF d
    <3>4. \A dev : dev # d =>
             /\ Wayland!About(wire', dev) = {} <=> Wayland!About(wire, dev) = {}
             /\ \A there : Wayland!EndsAt(wire, dev, there) => Wayland!EndsAt(wire', dev, there)
      BY <3>1, SeatEventTaken DEF d
    <3>5. \/ Wayland!EndsAt(wire', d, seat[d])
          \/ Wayland!About(wire', d) = {} /\ seat[d] = Head(wire).win
      <4>1. Wayland!About(wire, d) # {}
        BY <3>1, <3>2, SeatEventTaken DEF d
      <4>2. Wayland!EndsAt(wire, d, seat[d])
        BY <3>2, <4>1 DEF Wayland!SeatInv
      <4> QED
        BY <3>1, <3>2, <4>2, SeatEventTaken
    <3>6. Wayland!EndsAt(wire', d, seat[d]) => Wayland!About(wire', d) # {}
      BY DEF Wayland!EndsAt
    <3> QED
      BY <3>2, <3>3, <3>4, <3>5, <3>6 DEF Wayland!SeatInv
  <2>13. CASE Wayland!Leave
    <3>1. /\ wire \in Seq(Wayland!Events) /\ wire # <<>> /\ wire' = Tail(wire)
          /\ Head(wire) \in Wayland!Events
          /\ Head(wire).type = "leave"
      BY <2>13, SeatEventTaken DEF Wayland!Leave, Wayland!Dispatch, Wayland!TypeOK
    <3> DEFINE d == Head(wire).dev
    <3>2. d \in Wayland!Devices /\ Wayland!OfSeat(Head(wire))
          /\ Wayland!Where(Head(wire)) = NoWindow /\ Head(wire).win \in Windows
      BY <3>1, SurfaceEvents DEF Wayland!OfSeat, Wayland!Where
    <3>3. /\ UNCHANGED <<win, surface, seat>> /\ Wayland!Open' = Wayland!Open
          /\ \A dev \in Wayland!Devices : dev # d => at'[dev] = at[dev]
          /\ at'[d] = NoWindow
      BY <2>13, <3>2
      DEF Wayland!Leave, Wayland!deskVars, Wayland!compVars, Wayland!Open, Wayland!TypeOK
    <3> HIDE DEF d
    <3>4. \A dev : dev # d =>
             /\ Wayland!About(wire', dev) = {} <=> Wayland!About(wire, dev) = {}
             /\ \A there : Wayland!EndsAt(wire, dev, there) => Wayland!EndsAt(wire', dev, there)
      BY <3>1, SeatEventTaken DEF d
    <3>5. \/ Wayland!EndsAt(wire', d, seat[d])
          \/ Wayland!About(wire', d) = {} /\ seat[d] = NoWindow
      <4>1. Wayland!About(wire, d) # {}
        BY <3>1, <3>2, SeatEventTaken DEF d
      <4>2. Wayland!EndsAt(wire, d, seat[d])
        BY <3>2, <4>1 DEF Wayland!SeatInv
      <4> QED
        BY <3>1, <3>2, <4>2, SeatEventTaken
    <3>6. Wayland!EndsAt(wire', d, seat[d]) => Wayland!About(wire', d) # {}
      BY DEF Wayland!EndsAt
    <3> QED
      BY <3>2, <3>3, <3>4, <3>5, <3>6 DEF Wayland!SeatInv
  <2>14. CASE Wayland!DeleteID
    <3>1. /\ wire \in Seq(Wayland!Events) /\ wire # <<>> /\ wire' = Tail(wire)
          /\ Head(wire) \in Wayland!Events
          /\ Head(wire).type = "delete"
      BY <2>14, SeatEventTaken DEF Wayland!DeleteID, Wayland!Dispatch, Wayland!TypeOK
    <3>2. /\ \A v \in Windows : surface'[v].alive = surface[v].alive
          /\ Wayland!Open' = Wayland!Open /\ UNCHANGED <<at, seat>>
      BY <2>14 DEF Wayland!DeleteID, Wayland!deskVars, Wayland!compVars, Wayland!Open
    <3>3. \A dev : /\ Wayland!About(wire', dev) = {} <=> Wayland!About(wire, dev) = {}
                  /\ \A there : Wayland!EndsAt(wire, dev, there) =>
                       Wayland!EndsAt(wire', dev, there)
      BY <3>1, SeatEventTaken DEF Wayland!OfSeat
    <3> QED
      BY <3>2, <3>3 DEF Wayland!SeatInv
  <2>15. CASE UNCHANGED Wayland!vars
    BY <2>15
    DEF Wayland!vars, Wayland!deskVars, Wayland!compVars, Wayland!boundVars, Wayland!SeatInv,
        Wayland!Open
  <2> QED
    BY <2>1, <2>2, <2>3, <2>4, <2>5, <2>6, <2>7, <2>8, <2>9, <2>10, <2>11, <2>12, <2>13,
       <2>14, <2>15
    DEF Wayland!Next, Wayland!ServerCalls, Wayland!CompositorSends, Wayland!Handle
<1> QED
  BY <1>1, <1>2

\* Surfaces stay in the object table while they may be named.
LEMMA ObjectsInvariant ==
  ASSUME Wayland!WaylandAssumption
  PROVE  /\ Wayland!Init => Wayland!ObjectsInv
         /\ Wayland!TypeOK /\ Wayland!SeatInv /\ Wayland!ObjectsInv
            /\ [Wayland!Next]_(Wayland!vars) => Wayland!ObjectsInv'
<1> DEFINE win == s1
           proxies == s4
           wire == s5
           seat == s8
<1> USE DEF Wayland!WaylandAssumption
<1>1. Wayland!Init => Wayland!ObjectsInv
  BY DEF Wayland!Init, Wayland!ObjectsInv, Wayland!Open, Wayland!Unopened, Wayland!Named,
         Wayland!Deleted, Wayland!DeletedLast
<1>2. Wayland!TypeOK /\ Wayland!SeatInv /\ Wayland!ObjectsInv /\ [Wayland!Next]_(Wayland!vars) =>
        Wayland!ObjectsInv'
  <2> SUFFICES ASSUME Wayland!TypeOK, Wayland!SeatInv, Wayland!ObjectsInv,
                      [Wayland!Next]_(Wayland!vars)
               PROVE Wayland!ObjectsInv'
    OBVIOUS
  <2>1. ASSUME NEW w \in Windows, Wayland!Map(w)
        PROVE  Wayland!ObjectsInv'
    <3>1. /\ \A v \in Windows : win'[v].role = win[v].role
          /\ Wayland!Open' = Wayland!Open /\ UNCHANGED <<wire, proxies>>
      BY <2>1, RolesStay DEF Wayland!Map
    <3>2. Wayland!Deleted(wire) \subseteq Windows
      BY SurfaceEvents DEF Wayland!TypeOK, Wayland!Deleted
    <3> QED
      BY <3>1, <3>2 DEF Wayland!ObjectsInv
  <2>2. ASSUME NEW w \in Windows, Wayland!Destroy(w)
        PROVE  Wayland!ObjectsInv'
    <3>1. /\ Wayland!Open' = Wayland!Open \ {w} /\ w \in Wayland!Open /\ win'[w].role = "gone"
          /\ \A v \in Windows : v # w => win'[v].role = win[v].role
          /\ UNCHANGED proxies
      BY <2>2, RolesChange DEF Wayland!Destroy
    <3>2. Wayland!Deleted(wire) \subseteq Windows /\ w \notin Wayland!Deleted(wire)
      BY <3>1, SurfaceEvents
      DEF Wayland!TypeOK, Wayland!Deleted, Wayland!ObjectsInv, Wayland!Open
    <3>3. /\ Wayland!Named(wire') \subseteq Wayland!Named(wire) \cup {w}
          /\ Wayland!Deleted(wire') = Wayland!Deleted(wire) \cup {w}
          /\ Wayland!DeletedLast(wire) /\ w \notin Wayland!Deleted(wire) =>
               Wayland!DeletedLast(wire')
      BY <2>2, DestroyWire
    <3> QED
      BY <3>1, <3>2, <3>3 DEF Wayland!ObjectsInv
  <2>3. ASSUME NEW w \in Windows, NEW size \in Wayland!Sizes, Wayland!Paint(w, size)
        PROVE  Wayland!ObjectsInv'
    <3>1. /\ \A v \in Windows : win'[v].role = win[v].role
          /\ Wayland!Open' = Wayland!Open /\ UNCHANGED <<wire, proxies>>
      BY <2>3, RolesStay DEF Wayland!Paint
    <3>2. Wayland!Deleted(wire) \subseteq Windows
      BY SurfaceEvents DEF Wayland!TypeOK, Wayland!Deleted
    <3> QED
      BY <3>1, <3>2 DEF Wayland!ObjectsInv
  <2>4. ASSUME NEW w \in Windows, NEW size \in Wayland!Sizes, NEW ok \in BOOLEAN,
               Wayland!MoveResize(w, size, ok)
        PROVE  Wayland!ObjectsInv'
    <3>1. /\ \A v \in Windows : win'[v].role = win[v].role
          /\ Wayland!Open' = Wayland!Open /\ UNCHANGED <<wire, proxies>>
      BY <2>4, RolesStay DEF Wayland!MoveResize
    <3>2. Wayland!Deleted(wire) \subseteq Windows
      BY SurfaceEvents DEF Wayland!TypeOK, Wayland!Deleted
    <3> QED
      BY <3>1, <3>2 DEF Wayland!ObjectsInv
  <2>5. ASSUME NEW w \in Windows, NEW override \in BOOLEAN, NEW size \in Wayland!Sizes,
               NEW ok \in BOOLEAN,
              Wayland!NewWindow(w, override, size, ok)
        PROVE  Wayland!ObjectsInv'
    <3>1. /\ Wayland!Open' = Wayland!Open \cup (IF ok THEN {w} ELSE {}) /\ win[w].role = "none"
          /\ ~ok => win'[w].role = "gone"
          /\ \A v \in Windows : v # w => win'[v].role = win[v].role
          /\ proxies' = proxies \cup {w}
      BY <2>5, RolesChange DEF Wayland!NewWindow
    <3>2. /\ Wayland!Named(wire') = Wayland!Named(wire)
          /\ Wayland!Deleted(wire') = Wayland!Deleted(wire) \cup (IF ok THEN {} ELSE {w})
          /\ Wayland!DeletedLast(wire) => Wayland!DeletedLast(wire')
      <4> DEFINE e == [type |-> "delete", win |-> w]
      <4>1. e \in Wayland!Events /\ ~Wayland!OfSeat(e) /\ e.type = "delete" /\ e.win = w
        BY DEF Wayland!Events, Wayland!OfSeat
      <4>2. wire' = IF ok THEN wire ELSE Append(wire, e)
        BY <2>5 DEF Wayland!NewWindow
      <4> HIDE DEF e
      <4> QED
        BY <4>1, <4>2, SeatEventAdded DEF Wayland!TypeOK
    <3>3. Wayland!Deleted(wire) \subseteq Windows /\ w \notin Wayland!Deleted(wire)
      BY <3>1, SurfaceEvents DEF Wayland!TypeOK, Wayland!Deleted, Wayland!ObjectsInv
    <3> QED
      BY <3>1, <3>2, <3>3 DEF Wayland!ObjectsInv
  <2>6. ASSUME NEW ok \in BOOLEAN, Wayland!HandleReport(ok)
        PROVE  Wayland!ObjectsInv'
    <3>1. /\ \A v \in Windows : win'[v].role = win[v].role
          /\ Wayland!Open' = Wayland!Open /\ UNCHANGED <<wire, proxies>>
      BY <2>6, RolesStay DEF Wayland!HandleReport
    <3>2. Wayland!Deleted(wire) \subseteq Windows
      BY SurfaceEvents DEF Wayland!TypeOK, Wayland!Deleted
    <3> QED
      BY <3>1, <3>2 DEF Wayland!ObjectsInv
  <2>7. ASSUME NEW w \in Windows, NEW size \in 0 .. MaxSize, Wayland!CompositorConfigures(w, size)
        PROVE  Wayland!ObjectsInv'
    <3>1. Wayland!Open' = Wayland!Open /\ UNCHANGED <<win, proxies>>
      BY <2>7 DEF Wayland!CompositorConfigures, Wayland!Open
    <3>2. /\ Wayland!Named(wire') = Wayland!Named(wire)
          /\ Wayland!Deleted(wire') = Wayland!Deleted(wire)
          /\ Wayland!DeletedLast(wire) => Wayland!DeletedLast(wire')
      BY <2>7, ConfigureWire
    <3> QED
      BY <3>1, <3>2 DEF Wayland!ObjectsInv
  <2>8. ASSUME NEW dev \in Wayland!Devices, NEW w \in Windows, Wayland!SeatEnters(dev, w)
        PROVE  Wayland!ObjectsInv'
    <3> DEFINE e == [type |-> "enter", dev |-> dev, win |-> w]
    <3>1. e \in Wayland!Events /\ Wayland!OfSeat(e) /\ e.win = w /\ e.type # "delete"
      BY <2>8 DEF Wayland!SeatEnters, Wayland!Events, Wayland!OfSeat, Wayland!TypeOK
    <3>2. wire' = Append(wire, e) /\ Wayland!Open' = Wayland!Open /\ UNCHANGED <<win, proxies>>
          /\ w \in Wayland!Open
      BY <2>8 DEF Wayland!SeatEnters, Wayland!Open, Wayland!SeatInv
    <3> HIDE DEF e
    <3>3. w \notin Wayland!Deleted(wire)
      BY <3>2 DEF Wayland!ObjectsInv, Wayland!Open
    <3>4. /\ Wayland!Named(wire') = Wayland!Named(wire) \cup {w}
          /\ Wayland!Deleted(wire') = Wayland!Deleted(wire)
          /\ Wayland!DeletedLast(wire) => Wayland!DeletedLast(wire')
      BY <3>1, <3>2, <3>3, SeatEventAdded DEF Wayland!TypeOK
    <3> QED
      BY <3>2, <3>4 DEF Wayland!ObjectsInv
  <2>9. ASSUME NEW dev \in Wayland!Devices, Wayland!SeatLeaves(dev)
        PROVE  Wayland!ObjectsInv'
    <3> DEFINE e == [type |-> "leave", dev |-> dev, win |-> seat[dev]]
    <3>1. e \in Wayland!Events /\ Wayland!OfSeat(e) /\ e.win = seat[dev] /\ e.type # "delete"
      BY <2>9 DEF Wayland!SeatLeaves, Wayland!Events, Wayland!OfSeat, Wayland!TypeOK
    <3>2. wire' = Append(wire, e) /\ Wayland!Open' = Wayland!Open /\ UNCHANGED <<win, proxies>>
          /\ seat[dev] \in Wayland!Open
      BY <2>9 DEF Wayland!SeatLeaves, Wayland!Open, Wayland!SeatInv
    <3> HIDE DEF e
    <3>3. seat[dev] \notin Wayland!Deleted(wire)
      BY <3>2 DEF Wayland!ObjectsInv, Wayland!Open
    <3>4. /\ Wayland!Named(wire') = Wayland!Named(wire) \cup {seat[dev]}
          /\ Wayland!Deleted(wire') = Wayland!Deleted(wire)
          /\ Wayland!DeletedLast(wire) => Wayland!DeletedLast(wire')
      BY <3>1, <3>2, <3>3, SeatEventAdded DEF Wayland!TypeOK
    <3> QED
      BY <3>2, <3>4 DEF Wayland!ObjectsInv
  <2>10. CASE Wayland!ConfigureSize
    <3>1. /\ wire \in Seq(Wayland!Events) /\ wire # <<>> /\ wire' = Tail(wire)
          /\ Head(wire) \in Wayland!Events
          /\ Head(wire).type = "size"
      BY <2>10, SeatEventTaken DEF Wayland!ConfigureSize, Wayland!Dispatch, Wayland!TypeOK
    <3>2. /\ \A v \in Windows : win'[v].role = win[v].role
          /\ Wayland!Open' = Wayland!Open /\ UNCHANGED proxies
      BY <2>10 DEF Wayland!ConfigureSize, Wayland!Open
    <3>3. /\ Wayland!Named(wire') \subseteq Wayland!Named(wire)
          /\ Wayland!Deleted(wire') \subseteq Wayland!Deleted(wire)
          /\ Wayland!DeletedLast(wire')
      BY <3>1, SeatEventTaken DEF Wayland!ObjectsInv
    <3>4. Wayland!Deleted(wire) \subseteq Windows
      BY SurfaceEvents DEF Wayland!TypeOK, Wayland!Deleted
    <3> QED
      BY <3>2, <3>3, <3>4 DEF Wayland!ObjectsInv
  <2>11. CASE Wayland!Configure
    <3>1. /\ wire \in Seq(Wayland!Events) /\ wire # <<>> /\ wire' = Tail(wire)
          /\ Head(wire) \in Wayland!Events
          /\ Head(wire).type = "configure"
      BY <2>11, SeatEventTaken DEF Wayland!Configure, Wayland!Dispatch, Wayland!TypeOK
    <3>2. /\ \A v \in Windows : win'[v].role = win[v].role
          /\ Wayland!Open' = Wayland!Open /\ UNCHANGED proxies
      BY <2>11, RolesStay DEF Wayland!Configure
    <3>3. /\ Wayland!Named(wire') \subseteq Wayland!Named(wire)
          /\ Wayland!Deleted(wire') \subseteq Wayland!Deleted(wire)
          /\ Wayland!DeletedLast(wire')
      BY <3>1, SeatEventTaken DEF Wayland!ObjectsInv
    <3>4. Wayland!Deleted(wire) \subseteq Windows
      BY SurfaceEvents DEF Wayland!TypeOK, Wayland!Deleted
    <3> QED
      BY <3>2, <3>3, <3>4 DEF Wayland!ObjectsInv
  <2>12. CASE Wayland!Enter
    <3>1. /\ wire \in Seq(Wayland!Events) /\ wire # <<>> /\ wire' = Tail(wire)
          /\ Head(wire) \in Wayland!Events
          /\ Head(wire).type = "enter"
      BY <2>12, SeatEventTaken DEF Wayland!Enter, Wayland!Dispatch, Wayland!TypeOK
    <3>2. /\ \A v \in Windows : win'[v].role = win[v].role
          /\ Wayland!Open' = Wayland!Open /\ UNCHANGED proxies
      BY <2>12 DEF Wayland!Enter, Wayland!Open
    <3>3. /\ Wayland!Named(wire') \subseteq Wayland!Named(wire)
          /\ Wayland!Deleted(wire') \subseteq Wayland!Deleted(wire)
          /\ Wayland!DeletedLast(wire')
      BY <3>1, SeatEventTaken DEF Wayland!ObjectsInv
    <3>4. Wayland!Deleted(wire) \subseteq Windows
      BY SurfaceEvents DEF Wayland!TypeOK, Wayland!Deleted
    <3> QED
      BY <3>2, <3>3, <3>4 DEF Wayland!ObjectsInv
  <2>13. CASE Wayland!Leave
    <3>1. /\ wire \in Seq(Wayland!Events) /\ wire # <<>> /\ wire' = Tail(wire)
          /\ Head(wire) \in Wayland!Events
          /\ Head(wire).type = "leave"
      BY <2>13, SeatEventTaken DEF Wayland!Leave, Wayland!Dispatch, Wayland!TypeOK
    <3>2. /\ \A v \in Windows : win'[v].role = win[v].role
          /\ Wayland!Open' = Wayland!Open /\ UNCHANGED proxies
      BY <2>13 DEF Wayland!Leave, Wayland!Open
    <3>3. /\ Wayland!Named(wire') \subseteq Wayland!Named(wire)
          /\ Wayland!Deleted(wire') \subseteq Wayland!Deleted(wire)
          /\ Wayland!DeletedLast(wire')
      BY <3>1, SeatEventTaken DEF Wayland!ObjectsInv
    <3>4. Wayland!Deleted(wire) \subseteq Windows
      BY SurfaceEvents DEF Wayland!TypeOK, Wayland!Deleted
    <3> QED
      BY <3>2, <3>3, <3>4 DEF Wayland!ObjectsInv
  <2>14. CASE Wayland!DeleteID
    <3>1. /\ wire \in Seq(Wayland!Events) /\ wire # <<>> /\ wire' = Tail(wire)
          /\ Head(wire) \in Wayland!Events
          /\ Head(wire).type = "delete"
      BY <2>14, SeatEventTaken DEF Wayland!DeleteID, Wayland!Dispatch, Wayland!TypeOK
    <3>2. /\ \A v \in Windows : win'[v].role = win[v].role
          /\ Wayland!Open' = Wayland!Open /\ proxies' = proxies \ {Head(wire).win}
      BY <2>14 DEF Wayland!DeleteID, Wayland!Open
    <3>3. /\ Wayland!Named(wire') \subseteq Wayland!Named(wire)
          /\ Wayland!Deleted(wire') \subseteq Wayland!Deleted(wire)
          /\ Wayland!DeletedLast(wire') /\ Head(wire).win \notin Wayland!Named(wire')
          /\ Head(wire).win \in Wayland!Deleted(wire)
      BY <3>1, SeatEventTaken DEF Wayland!ObjectsInv
    <3>4. Wayland!Deleted(wire) \subseteq Windows
      BY SurfaceEvents DEF Wayland!TypeOK, Wayland!Deleted
    <3> QED
      BY <3>2, <3>3, <3>4 DEF Wayland!ObjectsInv, Wayland!Open
  <2>15. CASE UNCHANGED Wayland!vars
    BY <2>15
    DEF Wayland!vars, Wayland!deskVars, Wayland!compVars, Wayland!boundVars,
        Wayland!ObjectsInv, Wayland!Open
  <2> QED
    BY <2>1, <2>2, <2>3, <2>4, <2>5, <2>6, <2>7, <2>8, <2>9, <2>10, <2>11, <2>12, <2>13,
       <2>14, <2>15
    DEF Wayland!Next, Wayland!ServerCalls, Wayland!CompositorSends, Wayland!Handle
<1> QED
  BY <1>1, <1>2

\* A new buffer is the window's size, and nothing is painted into it.
LEMMA BufferFields ==
  ASSUME NEW r \in Wayland!Window, NEW size \in Wayland!Sizes, NEW ok \in BOOLEAN, NEW n,
         n = Wayland!NewBuffer([r EXCEPT !.size = size], size, ok)
  PROVE  /\ n.mapped = r.mapped /\ n.configured = r.configured
         /\ ok => n.buf = size /\ n.top = 0
         /\ ~ok => n.buf = r.buf /\ n.top = r.top
<1> DEFINE q == [r EXCEPT !.size = size]
<1>1. /\ q \in Wayland!Window /\ q.mapped = r.mapped /\ q.configured = r.configured
      /\ q.buf = r.buf /\ q.top = r.top
  BY DEF Wayland!Window
<1>2. n = IF ok THEN [q EXCEPT !.buf = size, !.top = 0] ELSE q
  BY DEF Wayland!NewBuffer
<1> HIDE DEF q
<1>3. CASE ok
  BY <1>1, <1>2, <1>3 DEF Wayland!Window
<1>4. CASE ~ok
  BY <1>1, <1>2, <1>4
<1> QED
  BY <1>3, <1>4

\* One window changes, and it is still on the screen as it should be.
LEMMA BuffersKept ==
  ASSUME Wayland!TypeOK, Wayland!BuffersInv, NEW w \in Wayland!Open, NEW r, NEW t,
         Becomes(w, r, t), ~s9',
         r.top <= r.buf, r.buf # 0, r.configured => t.acked,
         r.mapped /\ r.configured =>
           t.shows \in {"current"} \cup (IF w \in s10' THEN {"old"} ELSE {}),
         s10 \ {w} \subseteq s10', s2' = s2 \/ s2' \in Wayland!Open
  PROVE  Wayland!BuffersInv'
<1> DEFINE win == s1
           last == s2
           surface == s7
           owed == s10
<1>0. w \in Windows /\ Wayland!Open \subseteq Windows
  BY DEF Wayland!Open
<1>1. /\ win'[w] = r /\ surface'[w] = t /\ Wayland!Open' = Wayland!Open
      /\ \A v \in Windows : v # w => win'[v] = win[v] /\ surface'[v] = surface[v]
      /\ \A v \in Windows : surface'[v].alive = surface[v].alive
  BY <1>0, BecomesKept
<1>2. \A v \in Windows : win'[v].top <= win'[v].buf
  BY <1>1 DEF Wayland!BuffersInv, Wayland!PaintsInsideBuffer
<1>3. ASSUME NEW v \in Wayland!Open
      PROVE  /\ win'[v].buf # 0 /\ surface'[v].alive
             /\ win'[v].configured => surface'[v].acked
             /\ win'[v].mapped /\ win'[v].configured =>
                  surface'[v].shows \in {"current"} \cup (IF v \in owed' THEN {"old"} ELSE {})
  <2>1. surface'[v].alive
    BY <1>0, <1>1 DEF Wayland!BuffersInv
  <2>2. CASE v = w
    BY <1>1, <2>1, <2>2
  <2>3. CASE v # w
    <3>1. /\ win'[v] = win[v] /\ surface'[v] = surface[v] /\ (v \in owed => v \in owed')
      BY <1>0, <1>1, <2>3
    <3> QED
      BY <3>1 DEF Wayland!BuffersInv
  <2> QED
    BY <2>2, <2>3
<1>4. last' # NoWindow => last' \in Wayland!Open
  BY DEF Wayland!BuffersInv
<1> QED
  BY <1>1, <1>2, <1>3, <1>4
  DEF Wayland!BuffersInv, Wayland!NeverRefused, Wayland!PaintsInsideBuffer

\* A window that is open is configured before it is shown, and has a buffer.
LEMMA OpenWindow ==
  ASSUME Wayland!TypeOK, Wayland!BuffersInv, NEW w \in Wayland!Open
  PROVE  /\ w \in Windows /\ s1[w] \in Wayland!Window /\ s7[w] \in Wayland!Surface /\ ~s9
         /\ s1[w].buf # 0 /\ s1[w].top <= s1[w].buf
         /\ s7[w].alive = TRUE /\ (s1[w].configured => s7[w].acked)
         /\ s1[w].mapped /\ s1[w].configured =>
              s7[w].shows \in {"current"} \cup (IF w \in s10 THEN {"old"} ELSE {})
<1> DEFINE win == s1
           surface == s7
<1>1. w \in Windows /\ win[w] \in Wayland!Window /\ surface[w] \in Wayland!Surface
  BY DEF Wayland!TypeOK, Wayland!Open
<1> QED
  BY <1>1
  DEF Wayland!BuffersInv, Wayland!NeverRefused, Wayland!PaintsInsideBuffer, Wayland!Surface

\* What is shown was configured, and is the buffer that is painted.
LEMMA BuffersInvariant ==
  ASSUME Wayland!WaylandAssumption
  PROVE  /\ Wayland!Init => Wayland!BuffersInv
         /\ Wayland!TypeOK /\ Wayland!BuffersInv /\ [Wayland!Next]_(Wayland!vars) =>
              Wayland!BuffersInv'
<1> DEFINE win == s1
           last == s2
           proxies == s4
           surface == s7
           refused == s9
           owed == s10
<1> USE DEF Wayland!WaylandAssumption
<1>1. Wayland!Init => Wayland!BuffersInv
  BY DEF Wayland!Init, Wayland!BuffersInv, Wayland!NeverRefused, Wayland!PaintsInsideBuffer,
         Wayland!Open, Wayland!Unopened
<1>2. Wayland!TypeOK /\ Wayland!BuffersInv /\ [Wayland!Next]_(Wayland!vars) => Wayland!BuffersInv'
  <2> SUFFICES ASSUME Wayland!TypeOK, Wayland!BuffersInv, [Wayland!Next]_(Wayland!vars)
               PROVE Wayland!BuffersInv'
    OBVIOUS
  <2>1. ASSUME NEW w \in Windows, Wayland!Map(w)
        PROVE  Wayland!BuffersInv'
    <3>0. w \in Wayland!Open /\ last' \in {w, last} /\ owed' = owed
      BY <2>1 DEF Wayland!Map
    <3>1. /\ w \in Windows /\ win[w] \in Wayland!Window /\ ~refused /\ win[w].buf # 0
          /\ win[w].top <= win[w].buf /\ surface[w].alive
          /\ win[w].configured => surface[w].acked
      BY <3>0, OpenWindow
    <3>2. PICK r, t : /\ Becomes(w, r, t) /\ refused' \in BOOLEAN
                      /\ r = [win[w] EXCEPT !.mapped = TRUE] /\ t.acked = surface[w].acked
                      /\ r.buf # 0 /\ r.configured =>
                           /\ t.shows = "current"
                           /\ refused' = (refused \/ ~surface[w].alive \/ ~surface[w].acked)
                      /\ r.buf = 0 \/ ~r.configured => refused' = refused
      BY <2>1, MapBecomes
    <3>3. /\ r.buf = win[w].buf /\ r.top = win[w].top /\ r.configured = win[w].configured
      BY <3>1, <3>2 DEF Wayland!Window
    <3>4. ~refused'
      BY <3>1, <3>2, <3>3
    <3>5. r.mapped /\ r.configured => t.shows = "current"
      BY <3>1, <3>2, <3>3
    <3> QED
      BY <3>0, <3>1, <3>2, <3>3, <3>4, <3>5, BuffersKept
  <2>2. ASSUME NEW w \in Windows, Wayland!Destroy(w)
        PROVE  Wayland!BuffersInv'
    BY <2>2
    DEF Wayland!Destroy, Wayland!Unopened, Wayland!BuffersInv, Wayland!TypeOK,
        Wayland!NeverRefused, Wayland!PaintsInsideBuffer, Wayland!Open, Wayland!Sizes,
        Wayland!deskVars, Wayland!compVars, Wayland!boundVars
  <2>3. ASSUME NEW w \in Windows, NEW size \in Wayland!Sizes, Wayland!Paint(w, size)
        PROVE  Wayland!BuffersInv'
    <3>0. w \in Wayland!Open /\ last' = last /\ owed' = owed \ {w}
      BY <2>3 DEF Wayland!Paint, Wayland!deskVars
    <3>1. /\ w \in Windows /\ win[w] \in Wayland!Window /\ ~refused /\ win[w].buf # 0
          /\ win[w].top <= win[w].buf /\ surface[w].alive
          /\ win[w].configured => surface[w].acked
      BY <3>0, OpenWindow
    <3>2. PICK t \in Wayland!Surface, top \in Nat :
            /\ Becomes(w, [win[w] EXCEPT !.top = top], t) /\ refused' \in BOOLEAN
            /\ top = win[w].top \/ top <= win[w].buf
            /\ t.acked = surface[w].acked
            /\ win[w].mapped /\ win[w].configured =>
                 /\ t.shows = "current"
                 /\ refused' = (refused \/ ~surface[w].alive \/ ~surface[w].acked)
            /\ ~win[w].mapped \/ ~win[w].configured => refused' = refused
      BY <2>3, PaintBecomes
    <3> DEFINE r == [win[w] EXCEPT !.top = top]
    <3>3. /\ r.buf = win[w].buf /\ r.top = top
          /\ r.mapped = win[w].mapped /\ r.configured = win[w].configured
      BY <3>1 DEF Wayland!Window
    <3>6. Becomes(w, r, t)
      BY <3>2
    <3> HIDE DEF r
    <3>4. ~refused' /\ r.top <= r.buf
      BY <3>1, <3>2, <3>3
    <3>5. r.mapped /\ r.configured => t.shows = "current"
      BY <3>2, <3>3
    <3> QED
      BY <3>0, <3>1, <3>2, <3>3, <3>4, <3>5, <3>6, BuffersKept
  <2>4. ASSUME NEW w \in Windows, NEW size \in Wayland!Sizes, NEW ok \in BOOLEAN,
               Wayland!MoveResize(w, size, ok)
        PROVE  Wayland!BuffersInv'
    <3>0. w \in Wayland!Open /\ last' = last /\ owed' = owed
      BY <2>4 DEF Wayland!MoveResize, Wayland!deskVars
    <3>1. /\ w \in Windows /\ win[w] \in Wayland!Window /\ ~refused /\ win[w].buf # 0
          /\ win[w].top <= win[w].buf /\ surface[w].alive
          /\ win[w].configured => surface[w].acked
          /\ win[w].mapped /\ win[w].configured =>
               surface[w].shows \in {"current"} \cup (IF w \in owed THEN {"old"} ELSE {})
      BY <3>0, OpenWindow
    <3>2. PICK r, t :
            /\ Becomes(w, r, t) /\ refused' \in BOOLEAN
            /\ r = Wayland!NewBuffer([win[w] EXCEPT !.size = size], size, ok)
            /\ t.acked = surface[w].acked
            /\ ~ok => t = surface[w] /\ refused' = refused
            /\ ok /\ r.mapped /\ r.configured =>
                 /\ t.shows = "current"
                 /\ refused' = (refused \/ ~surface[w].alive \/ ~surface[w].acked)
            /\ ~r.mapped \/ ~r.configured => refused' = refused
      BY <2>4, <3>1, MoveResizeBecomes
    <3>3. /\ r.mapped = win[w].mapped /\ r.configured = win[w].configured
          /\ ok => r.buf = size /\ r.top = 0
          /\ ~ok => r.buf = win[w].buf /\ r.top = win[w].top
      BY <3>1, <3>2, BufferFields
    <3>4. ~refused'
      BY <3>1, <3>2, <3>3
    <3>5. r.top <= r.buf /\ r.buf # 0
      BY <3>1, <3>3 DEF Wayland!Sizes
    <3>6. r.mapped /\ r.configured =>
            t.shows \in {"current"} \cup (IF w \in owed' THEN {"old"} ELSE {})
      BY <3>0, <3>1, <3>2, <3>3
    <3> QED
      BY <3>0, <3>1, <3>2, <3>3, <3>4, <3>5, <3>6, BuffersKept
  <2>5. ASSUME NEW w \in Windows, NEW override \in BOOLEAN, NEW size \in Wayland!Sizes,
               NEW ok \in BOOLEAN,
              Wayland!NewWindow(w, override, size, ok)
        PROVE  Wayland!BuffersInv'
    <3>1. /\ Wayland!Open' = Wayland!Open \cup (IF ok THEN {w} ELSE {}) /\ w \notin Wayland!Open
      BY <2>5, RolesChange
    <3>2. /\ w \in proxies' /\ last' = last /\ owed' = owed
          /\ surface' = [surface EXCEPT ![w] = [surface[w] EXCEPT !.alive = ok]]
          /\ refused' = (refused \/ (override /\ Wayland!Anchored /\ ~Wayland!ParentShows))
      BY <2>5 DEF Wayland!NewWindow, Wayland!deskVars
    <3>3. Wayland!Anchored => Wayland!ParentShows
      BY OpenWindow DEF Wayland!Anchored, Wayland!ParentShows, Wayland!BuffersInv
    <3>4. ~refused'
      BY <3>2, <3>3 DEF Wayland!BuffersInv, Wayland!NeverRefused
    <3>5. /\ \A v \in Windows : v # w => win'[v] = win[v] /\ surface'[v] = surface[v]
          /\ surface'[w].alive = ok
      BY <2>5 DEF Wayland!NewWindow, Wayland!TypeOK, Wayland!Surface
    <3>6. /\ win'[w].top <= win'[w].buf /\ ~win'[w].configured
          /\ ok => win'[w].buf # 0
      <4>1. \/ ~ok /\ win'[w] = [Wayland!Unopened EXCEPT !.role = "gone"]
            \/ ok /\ \E role \in {"popup", "toplevel"} :
                 win'[w] = [Wayland!Unopened EXCEPT !.role = role, !.size = size, !.buf = size]
        BY <2>5 DEF Wayland!NewWindow, Wayland!TypeOK
      <4>2. CASE win'[w] = [Wayland!Unopened EXCEPT !.role = "gone"] /\ ~ok
        BY <4>2 DEF Wayland!Unopened
      <4>3. ASSUME ok, NEW role, win'[w] = [Wayland!Unopened EXCEPT !.role = role, !.size = size,
                                                            !.buf = size]
            PROVE  win'[w].top <= win'[w].buf /\ ~win'[w].configured /\ win'[w].buf # 0
        <5>1. win'[w].top = 0 /\ win'[w].buf = size /\ win'[w].configured = FALSE
          BY <4>3 DEF Wayland!Unopened
        <5> QED
          BY <5>1 DEF Wayland!Sizes
      <4> QED
        BY <4>1, <4>2, <4>3
    <3>7. ASSUME NEW v \in Wayland!Open'
          PROVE  /\ win'[v].buf # 0 /\ surface'[v].alive
                 /\ win'[v].configured => surface'[v].acked
                 /\ win'[v].mapped /\ win'[v].configured =>
                      surface'[v].shows \in {"current"} \cup (IF v \in owed' THEN {"old"} ELSE {})
      <4>1. CASE v = w
        BY <3>1, <3>5, <3>6, <4>1
      <4>2. CASE v # w
        <5>1. v \in Wayland!Open /\ v \in Windows
          BY <3>1, <4>2 DEF Wayland!Open
        <5> QED
          BY <3>2, <3>5, <4>2, <5>1 DEF Wayland!BuffersInv
      <4> QED
        BY <4>1, <4>2
    <3>8. \A v \in Windows : win'[v].top <= win'[v].buf
      BY <3>5, <3>6 DEF Wayland!BuffersInv, Wayland!PaintsInsideBuffer
    <3>9. last' # NoWindow => last' \in Wayland!Open'
      BY <3>1, <3>2 DEF Wayland!BuffersInv
    <3> QED
      BY <3>4, <3>7, <3>8, <3>9
      DEF Wayland!BuffersInv, Wayland!NeverRefused, Wayland!PaintsInsideBuffer
  <2>6. ASSUME NEW ok \in BOOLEAN, Wayland!HandleReport(ok)
        PROVE  Wayland!BuffersInv'
    <3>1. refused' = refused /\ last' = last
      BY <2>6 DEF Wayland!HandleReport, Wayland!deskVars
    <3>2. CASE UNCHANGED <<win, surface, owed>>
      BY <3>1, <3>2
      DEF Wayland!BuffersInv, Wayland!NeverRefused, Wayland!PaintsInsideBuffer, Wayland!Open
    <3>3. ASSUME NEW w \in Wayland!Open, NEW size \in Wayland!Sizes,
                 Becomes(w, Wayland!NewBuffer([win[w] EXCEPT !.size = size], size, ok),
                         Wayland!Released(surface[w], ok)),
                 owed' = IF ok THEN owed \cup {w} ELSE owed
          PROVE  Wayland!BuffersInv'
      <4> DEFINE r == Wayland!NewBuffer([win[w] EXCEPT !.size = size], size, ok)
                 t == Wayland!Released(surface[w], ok)
      <4>1. /\ w \in Windows /\ win[w] \in Wayland!Window /\ surface[w] \in Wayland!Surface
            /\ ~refused /\ win[w].buf # 0
            /\ win[w].top <= win[w].buf /\ surface[w].alive
            /\ win[w].configured => surface[w].acked
            /\ win[w].mapped /\ win[w].configured =>
                 surface[w].shows \in {"current"} \cup (IF w \in owed THEN {"old"} ELSE {})
        BY OpenWindow
      <4>2. /\ r.mapped = win[w].mapped /\ r.configured = win[w].configured
            /\ ok => r.buf = size /\ r.top = 0
            /\ ~ok => r.buf = win[w].buf /\ r.top = win[w].top
        BY <4>1, BufferFields
      <4>3. /\ t.acked = surface[w].acked
            /\ t.shows = surface[w].shows \/ (ok /\ t.shows = "old")
        BY <4>1 DEF Wayland!Released, Wayland!Surface
      <4>4. Becomes(w, r, t)
        BY <3>3
      <4> HIDE DEF r, t
      <4>5. r.top <= r.buf /\ r.buf # 0
        BY <4>1, <4>2 DEF Wayland!Sizes
      <4>6. r.mapped /\ r.configured =>
              t.shows \in {"current"} \cup (IF w \in owed' THEN {"old"} ELSE {})
        BY <3>3, <4>1, <4>2, <4>3
      <4>7. owed \ {w} \subseteq owed' /\ ~refused'
        BY <3>1, <3>3, <4>1
      <4> QED
        BY <3>1, <4>1, <4>2, <4>3, <4>4, <4>5, <4>6, <4>7, BuffersKept
    <3> QED
      BY <2>6, <3>2, <3>3, ReportBecomes
  <2>7. ASSUME NEW w \in Windows, NEW size \in 0 .. MaxSize, Wayland!CompositorConfigures(w, size)
        PROVE  Wayland!BuffersInv'
    BY <2>7
    DEF Wayland!CompositorConfigures, Wayland!BuffersInv, Wayland!TypeOK,
        Wayland!NeverRefused, Wayland!PaintsInsideBuffer, Wayland!Open, Wayland!Sizes,
        Wayland!deskVars, Wayland!compVars, Wayland!boundVars
  <2>8. ASSUME NEW dev \in Wayland!Devices, NEW w \in Windows, Wayland!SeatEnters(dev, w)
        PROVE  Wayland!BuffersInv'
    BY <2>8
    DEF Wayland!SeatEnters, Wayland!BuffersInv, Wayland!TypeOK, Wayland!NeverRefused,
        Wayland!PaintsInsideBuffer, Wayland!Open, Wayland!Sizes, Wayland!deskVars,
        Wayland!compVars, Wayland!boundVars
  <2>9. ASSUME NEW dev \in Wayland!Devices, Wayland!SeatLeaves(dev)
        PROVE  Wayland!BuffersInv'
    BY <2>9
    DEF Wayland!SeatLeaves, Wayland!BuffersInv, Wayland!TypeOK, Wayland!NeverRefused,
        Wayland!PaintsInsideBuffer, Wayland!Open, Wayland!Sizes, Wayland!deskVars,
        Wayland!compVars, Wayland!boundVars
  <2>10. CASE Wayland!ConfigureSize
    BY <2>10
    DEF Wayland!ConfigureSize, Wayland!Dispatch, Wayland!BuffersInv, Wayland!TypeOK,
        Wayland!NeverRefused, Wayland!PaintsInsideBuffer, Wayland!Open, Wayland!Sizes,
        Wayland!deskVars, Wayland!compVars, Wayland!boundVars
  <2>11. CASE Wayland!Configure
    <3>1. last' = last /\ owed' = owed
      BY <2>11 DEF Wayland!Configure, Wayland!deskVars
    <3>2. CASE UNCHANGED <<win, surface, refused>>
      BY <3>1, <3>2
      DEF Wayland!BuffersInv, Wayland!NeverRefused, Wayland!PaintsInsideBuffer, Wayland!Open
    <3>3. ASSUME NEW w \in Wayland!Open, NEW t \in Wayland!Surface,
                 Becomes(w, [win[w] EXCEPT !.configured = TRUE], t), t.acked,
                 win[w].buf # 0 /\ win[w].mapped =>
                   t.shows = "current" /\ refused' = (refused \/ ~surface[w].alive),
                 win[w].buf = 0 \/ ~win[w].mapped => refused' = refused
          PROVE  Wayland!BuffersInv'
      <4> DEFINE r == [win[w] EXCEPT !.configured = TRUE]
      <4>1. /\ w \in Windows /\ win[w] \in Wayland!Window /\ ~refused /\ win[w].buf # 0
            /\ win[w].top <= win[w].buf /\ surface[w].alive
        BY OpenWindow
      <4>2. r.mapped = win[w].mapped /\ r.buf = win[w].buf /\ r.top = win[w].top
        BY <4>1 DEF Wayland!Window
      <4>3. Becomes(w, r, t)
        BY <3>3
      <4> HIDE DEF r
      <4>5. win[w].mapped \in BOOLEAN /\ refused = FALSE /\ surface[w].alive = TRUE
        BY <4>1, OpenWindow DEF Wayland!Window, Wayland!TypeOK
      <4>4. ~refused' /\ (r.mapped => t.shows = "current")
        BY <3>3, <4>1, <4>2, <4>5
      <4> QED
        BY <3>1, <3>3, <4>1, <4>2, <4>3, <4>4, BuffersKept
    <3> QED
      BY <2>11, <3>2, <3>3, ConfigureBecomes
  <2>12. CASE Wayland!Enter
    BY <2>12
    DEF Wayland!Enter, Wayland!Dispatch, Wayland!BuffersInv, Wayland!TypeOK,
        Wayland!NeverRefused, Wayland!PaintsInsideBuffer, Wayland!Open, Wayland!Sizes,
        Wayland!deskVars, Wayland!compVars, Wayland!boundVars
  <2>13. CASE Wayland!Leave
    BY <2>13
    DEF Wayland!Leave, Wayland!Dispatch, Wayland!BuffersInv, Wayland!TypeOK,
        Wayland!NeverRefused, Wayland!PaintsInsideBuffer, Wayland!Open, Wayland!Sizes,
        Wayland!deskVars, Wayland!compVars, Wayland!boundVars
  <2>14. CASE Wayland!DeleteID
    BY <2>14
    DEF Wayland!DeleteID, Wayland!Dispatch, Wayland!BuffersInv, Wayland!TypeOK,
        Wayland!NeverRefused, Wayland!PaintsInsideBuffer, Wayland!Open, Wayland!Sizes,
        Wayland!deskVars, Wayland!compVars, Wayland!boundVars
  <2>15. CASE UNCHANGED Wayland!vars
    BY <2>15
    DEF Wayland!vars, Wayland!deskVars, Wayland!compVars, Wayland!boundVars,
        Wayland!BuffersInv, Wayland!NeverRefused, Wayland!PaintsInsideBuffer, Wayland!Open
  <2> QED
    BY <2>1, <2>2, <2>3, <2>4, <2>5, <2>6, <2>7, <2>8, <2>9, <2>10, <2>11, <2>12, <2>13,
       <2>14, <2>15
    DEF Wayland!Next, Wayland!ServerCalls, Wayland!CompositorSends, Wayland!Handle
<1> QED
  BY <1>1, <1>2

\* With nothing on its way, the client agrees with the compositor.
LEMMA WindowsSettle ==
  ASSUME Wayland!TypeOK
  PROVE  /\ Wayland!SeatInv /\ Wayland!ObjectsInv => Wayland!InputGoesWhereTheSeatIs
         /\ Wayland!BuffersInv =>
              Wayland!NeverRefused /\ Wayland!PaintsInsideBuffer /\ Wayland!ShowsItsBuffer
<1> DEFINE at == s3
           proxies == s4
           wire == s5
           seat == s8
<1>1. ASSUME Wayland!SeatInv, Wayland!ObjectsInv PROVE Wayland!InputGoesWhereTheSeatIs
  <2>1. ASSUME wire = <<>> PROVE at = seat
    <3>1. \A dev : Wayland!About(wire, dev) = {}
      BY <2>1 DEF Wayland!About
    <3>2. \A dev \in Wayland!Devices : at[dev] = seat[dev]
      BY <1>1, <3>1 DEF Wayland!SeatInv
    <3> QED
      BY <3>2 DEF Wayland!TypeOK
  <2>2. \A n \in 1 .. Len(wire) : wire[n].type \in {"enter", "leave"} => wire[n].win \in proxies
    <3>1. DOMAIN wire = 1 .. Len(wire)
      BY DEF Wayland!TypeOK
    <3> QED
      BY <1>1, <3>1 DEF Wayland!ObjectsInv, Wayland!Named, Wayland!OfSeat
  <2> QED
    BY <1>1, <2>1, <2>2 DEF Wayland!SeatInv, Wayland!InputGoesWhereTheSeatIs
<1>2. ASSUME Wayland!BuffersInv
      PROVE Wayland!NeverRefused /\ Wayland!PaintsInsideBuffer /\ Wayland!ShowsItsBuffer
  BY <1>2 DEF Wayland!BuffersInv, Wayland!ShowsItsBuffer
<1> QED
  BY <1>1, <1>2

-----------------------------------------------------------------------------
(* The cursor on Wayland (wayland/cursor.go): s1 to s5 the client's, s6 to s10
   where the compositor has the pointer and what it shows there, s11 the enters
   into windows that are no more. *)

\* The cursor that is shown is the last made, and the enters on their way tell
\* the serials in order.
LEMMA CursorInvariant ==
  ASSUME Cursor!CursorAssumption
  PROVE  /\ Cursor!Init => Cursor!CursorInv
         /\ Cursor!CursorInv /\ [Cursor!Next]_(Cursor!vars) => Cursor!CursorInv'
         /\ Cursor!CursorInv => Cursor!CursorShownIsAlive
<1> DEFINE serial == s1
           shown == s2
           owned == s3
           alive == s4
           inside == s6
           image == s7
           enters == s8
           calls == s9
           entered == s10
           gone == s11
<1>1. Cursor!Init => Cursor!CursorInv
  <2> SUFFICES ASSUME Cursor!Init PROVE Cursor!CursorInv
    OBVIOUS
  <2>1. /\ Len(enters) = 0 /\ enters \in Seq(Nat) /\ 1 .. Len(enters) = {}
        /\ entered = 0 /\ serial = 0 /\ inside = 0
    BY DEF Cursor!Init
  <2>2. Cursor!Dispatched = 0
    BY ONLY <2>1 DEF Cursor!Dispatched
  <2> QED
    BY <2>1, <2>2 DEF Cursor!Init, Cursor!CursorInv, Cursor!EntersInv
<1>2. Cursor!CursorInv /\ [Cursor!Next]_(Cursor!vars) => Cursor!CursorInv'
  <2> SUFFICES ASSUME Cursor!CursorInv, [Cursor!Next]_(Cursor!vars) PROVE Cursor!CursorInv'
    OBVIOUS
  <2> USE DEF Cursor!CursorInv, Cursor!clientVars
  <2>1. ASSUME UNCHANGED <<serial, enters, entered, inside>>,
               gone \subseteq gone'
        PROVE  Cursor!EntersInv'
    <3>1. Cursor!Dispatched' = Cursor!Dispatched
      BY <2>1 DEF Cursor!Dispatched
    <3> QED
      BY <2>1, <3>1 DEF Cursor!EntersInv
  <2>2. ASSUME NEW ok \in BOOLEAN, Cursor!SetImage(ok) PROVE Cursor!CursorInv'
    <3>1. Cursor!EntersInv'
      BY <2>1, <2>2 DEF Cursor!SetImage
    <3> QED
      BY <2>2, <3>1 DEF Cursor!SetImage, Cursor!Show, Cursor!CursorAssumption
  <2>3. CASE Cursor!SetTheme
    <3>1. Cursor!EntersInv'
      BY <2>1, <2>3 DEF Cursor!SetTheme
    <3> QED
      BY <2>3, <3>1 DEF Cursor!SetTheme, Cursor!Show, Cursor!CursorAssumption
  <2>4. CASE Cursor!PointerEnter
    <3> DEFINE head == Head(enters)
               last == entered - Len(enters)
    <3>1. /\ enters # <<>> /\ enters' = Tail(enters)
          /\ shown' = shown /\ UNCHANGED <<owned, alive, inside, calls, entered, gone>>
      BY <2>4 DEF Cursor!PointerEnter, Cursor!Show
    <3>2. /\ serial \in Nat /\ entered \in Nat /\ enters \in Seq(Nat) /\ serial <= last
          /\ \A i \in 1 .. Len(enters) : enters[i] = last + i
          /\ inside \in {0, entered}
      BY DEF Cursor!EntersInv, Cursor!Dispatched
    <3>3. /\ head = enters[1] /\ Len(enters) \in Nat /\ Len(enters) >= 1
          /\ enters' \in Seq(Nat) /\ Len(enters') = Len(enters) - 1
          /\ \A i \in 1 .. (Len(enters) - 1) : enters'[i] = enters[i + 1]
      <4>1. enters \in Seq(Nat)
        BY <3>2
      <4> QED
        BY ONLY <3>1, <4>1
    <3>4. head = last + 1
      BY ONLY <3>2, <3>3
    <3>5. entered' - Len(enters') = head
      BY ONLY <3>1, <3>2, <3>3, <3>4
    <3>6. ASSUME NEW i \in 1 .. Len(enters') PROVE enters'[i] = head + i
      <4>1. i + 1 \in 1 .. Len(enters) /\ enters'[i] = enters[i + 1]
        BY ONLY <3>3, i \in 1 .. Len(enters')
      <4>2. enters[i + 1] = last + (i + 1)
        BY <3>2, <4>1
      <4> QED
        BY ONLY <3>2, <3>3, <3>4, <4>1, <4>2, i \in 1 .. Len(enters')
    <3>7. serial < head /\ head <= entered /\ head \in Nat
      BY ONLY <3>2, <3>3, <3>4
    <3> HIDE DEF head, last
    <3>8. image = NoImage
      BY <3>2, <3>7
    <3>9. \/ serial' = serial /\ image' = NoImage /\ head \in gone
          \/ serial' = head /\ image' = IF inside # 0 /\ head = inside THEN shown ELSE NoImage
      BY <2>4, <3>8 DEF Cursor!PointerEnter, Cursor!Show, head
    <3>10. Cursor!EntersInv'
      <4>1. Cursor!Dispatched' = head
        BY <3>5 DEF Cursor!Dispatched
      <4>2. serial' \in Nat /\ serial' <= head /\ (head \in gone' \/ serial' = head)
        BY <3>1, <3>2, <3>7, <3>9
      <4> QED
        BY <3>1, <3>2, <3>3, <3>6, <4>1, <4>2 DEF Cursor!EntersInv
    <3> QED
      BY <3>1, <3>2, <3>7, <3>9, <3>10
  <2>5. CASE Cursor!Enters
    <3> DEFINE last == entered - Len(enters)
    <3>1. entered' = entered + 1 /\ enters' = Append(enters, entered')
          /\ inside' = entered' /\ image' = NoImage /\ UNCHANGED <<Cursor!clientVars, calls, gone>>
      BY <2>5 DEF Cursor!Enters
    <3>2. /\ serial \in Nat /\ entered \in Nat /\ enters \in Seq(Nat) /\ serial <= last
          /\ last \in gone \cup {0} \/ serial = last
          /\ \A i \in 1 .. Len(enters) : enters[i] = last + i
      BY DEF Cursor!EntersInv, Cursor!Dispatched
    <3>3. /\ enters' \in Seq(Nat) /\ Len(enters') = Len(enters) + 1 /\ Len(enters) \in Nat
          /\ \A i \in 1 .. Len(enters) : enters'[i] = enters[i]
          /\ enters'[Len(enters) + 1] = entered'
      <4>1. PICK s \in Seq(Nat) : s = enters
        BY <3>2
      <4>2. PICK e \in Nat : e = entered'
        BY <3>1, <3>2
      <4>3. /\ Append(s, e) \in Seq(Nat) /\ Len(Append(s, e)) = Len(s) + 1 /\ Len(s) \in Nat
            /\ \A i \in 1 .. Len(s) : Append(s, e)[i] = s[i]
            /\ Append(s, e)[Len(s) + 1] = e
        OBVIOUS
      <4> QED
        BY <3>1, <4>1, <4>2, <4>3
    <3>4. entered' - Len(enters') = last
      BY ONLY <3>1, <3>2, <3>3
    <3>5. ASSUME NEW i \in 1 .. Len(enters') PROVE enters'[i] = last + i
      <4>1. CASE i \in 1 .. Len(enters)
        BY <3>2, <3>3, <4>1
      <4>2. CASE i = Len(enters) + 1
        <5>1. entered' = last + i
          BY ONLY <3>1, <3>2, <3>3, <4>2
        <5> QED
          BY <3>3, <4>2, <5>1
      <4> QED
        BY ONLY <3>3, <4>1, <4>2, i \in 1 .. Len(enters')
    <3>6. serial # inside' /\ entered' \in Nat
      BY ONLY <3>1, <3>2, <3>3
    <3> HIDE DEF last
    <3>7. Cursor!EntersInv'
      BY <3>1, <3>2, <3>3, <3>4, <3>5, <3>6 DEF Cursor!EntersInv, Cursor!Dispatched
    <3> QED
      BY <3>1, <3>6, <3>7
  <2>6. CASE Cursor!Leaves
    <3>1. Cursor!Dispatched' = Cursor!Dispatched
      BY <2>6 DEF Cursor!Leaves, Cursor!Dispatched
    <3> QED
      BY <2>6, <3>1 DEF Cursor!Leaves, Cursor!EntersInv
  <2>7. ASSUME NEW n \in (1 .. entered) \ gone, Cursor!Destroy(n) PROVE Cursor!CursorInv'
    <3>1. Cursor!EntersInv'
      BY <2>1, <2>7 DEF Cursor!Destroy
    <3> QED
      BY <2>7, <3>1 DEF Cursor!Destroy
  <2>8. CASE UNCHANGED Cursor!vars
    <3>1. Cursor!EntersInv'
      BY <2>1, <2>8 DEF Cursor!vars
    <3> QED
      BY <2>8, <3>1 DEF Cursor!vars
  <2> QED
    BY <2>2, <2>3, <2>4, <2>5, <2>6, <2>7, <2>8 DEF Cursor!Next
<1>3. Cursor!CursorInv => Cursor!CursorShownIsAlive
  <2> SUFFICES ASSUME Cursor!CursorInv PROVE Cursor!CursorShownIsAlive
    OBVIOUS
  <2>1. inside \notin gone \cup {0} /\ enters = <<>> => serial = inside
    <3>1. Len(<<>>) = 0
      OBVIOUS
    <3>2. entered \in Nat => entered - 0 = entered
      OBVIOUS
    <3>3. enters = <<>> => Cursor!Dispatched = entered
      BY <3>1, <3>2 DEF Cursor!CursorInv, Cursor!EntersInv, Cursor!Dispatched
    <3> QED
      BY <3>3 DEF Cursor!CursorInv, Cursor!EntersInv
  <2> QED
    BY <2>1 DEF Cursor!CursorInv, Cursor!CursorShownIsAlive, Cursor!CursorAssumption
<1> QED
  BY <1>1, <1>2, <1>3

-----------------------------------------------------------------------------
(* The tray icon and the cursor on Windows (win32/tray.go): s2 to s5 the icon,
   s6 and s7 the cursor, s8 to s11 what the desktop and the system have. *)

\* What is owned is what the tray and the cursor show, until all of it is let go.
LEMMA TrayInvariant ==
  /\ Tray!Init => Tray!TrayInv
  /\ Tray!TrayInv /\ [Tray!Next]_(Tray!vars) => Tray!TrayInv'
  /\ Tray!TrayInv => Tray!DesktopIsLeftClean
<1> DEFINE thread == s1
           tray == s2
           trayAdded == s3
           trayIcon == s4
           trayIconOwned == s5
           cursor == s6
           cursorOwned == s7
           shown == s8
           announced == s9
           owned == s10
           handles == s11
<1>1. Tray!Init => Tray!TrayInv
  <2>1. Tray!Init => owned = {trayIcon, cursor} \ {Tray!System}
    BY DEF Tray!Init
  <2>2. Tray!Init => /\ handles \in Nat /\ trayIcon \in 0 .. handles /\ cursor \in 0 .. handles
               /\ trayIcon = Tray!System /\ cursor = Tray!System
    BY DEF Tray!Init, Tray!System
  <2>3. Tray!Init => ~trayIconOwned /\ ~cursorOwned
                         /\ trayIconOwned \in BOOLEAN /\ cursorOwned \in BOOLEAN
    BY DEF Tray!Init
  <2>4. Tray!Init => Tray!HandlesInv
    BY <2>1, <2>2, <2>3 DEF Tray!Init, Tray!HandlesInv
  <2> QED
    BY <2>3, <2>4 DEF Tray!Init, Tray!TrayInv
<1>2. Tray!TrayInv /\ [Tray!Next]_(Tray!vars) => Tray!TrayInv'
  <2> SUFFICES ASSUME Tray!TrayInv, [Tray!Next]_(Tray!vars) PROVE Tray!TrayInv'
    OBVIOUS
  <2> USE DEF Tray!TrayInv, Tray!HandlesInv, Tray!System, Tray!cursorVars, Tray!shell
  <2>1. CASE Tray!ShowTray
    BY <2>1 DEF Tray!ShowTray, Tray!AddTrayIcon
  <2>2. CASE Tray!ExplorerRestarts
    BY <2>2 DEF Tray!ExplorerRestarts
  <2>3. CASE Tray!TaskbarCreated
    BY <2>3 DEF Tray!TaskbarCreated, Tray!RestoreTray, Tray!AddTrayIcon
  <2>4. CASE Tray!SetCursor
    <3> DEFINE next == cursor'
    <3>1. /\ next \in Nat
          /\ \/ next = Tray!System /\ handles' = handles
             \/ next = handles + 1 /\ handles' = handles + 1
      BY <2>4 DEF Tray!SetCursor
    <3>2. cursorOwned' \in BOOLEAN /\ (cursorOwned' <=> next # Tray!System)
      <4>1. handles + 1 # 0
        OBVIOUS
      <4> QED
        BY <2>4, <4>1 DEF Tray!SetCursor
    <3>7. owned' = {trayIcon, next} \ {Tray!System}
      <4>1. next # trayIcon \/ next = Tray!System
        BY <3>1
      <4>2. owned' = Tray!Destroyed(cursor, cursorOwned) \cup ({next} \ {Tray!System})
        BY <2>4 DEF Tray!SetCursor, Tray!ReplaceCursor
      <4>3. CASE cursorOwned
        BY <2>4, <4>1, <4>2, <4>3 DEF Tray!SetCursor, Tray!Destroyed
      <4>4. CASE ~cursorOwned
        BY <2>4, <4>1, <4>2, <4>4 DEF Tray!SetCursor, Tray!Destroyed
      <4> QED
        BY <4>3, <4>4
    <3>3. UNCHANGED <<thread, tray, trayAdded, trayIcon, trayIconOwned, shown, announced>>
          /\ thread = "running"
      BY <2>4 DEF Tray!SetCursor
    <3>4. handles' \in Nat /\ trayIcon \in 0 .. handles' /\ next \in 0 .. handles'
      BY <3>1
    <3>5. trayIconOwned /\ next # Tray!System => trayIcon # next
      BY <3>1
    <3>6. Tray!HandlesInv'
      <4>1. /\ handles' \in Nat /\ trayIcon' \in 0 .. handles' /\ cursor' \in 0 .. handles'
        BY <3>3, <3>4
      <4>2. trayIconOwned' \in BOOLEAN /\ (trayIconOwned' <=> trayIcon' # Tray!System)
        BY <3>3
      <4>3. cursorOwned' \in BOOLEAN /\ (cursorOwned' <=> cursor' # Tray!System)
        BY <3>2
      <4>4. trayIconOwned' /\ cursorOwned' => trayIcon' # cursor'
        BY <3>3, <3>5, <4>3
      <4>5. thread' = "running" /\ owned' = {trayIcon', cursor'} \ {Tray!System}
        BY <3>3, <3>7
      <4> QED
        BY <4>1, <4>2, <4>3, <4>4, <4>5
    <3> QED
      BY <3>3, <3>6
  <2>5. CASE Tray!StopTray
    <3>1. owned' = {Tray!System, cursor} \ {Tray!System}
      <4>1. CASE trayIconOwned
        BY <2>5, <4>1 DEF Tray!StopTray, Tray!Destroyed
      <4>2. CASE ~trayIconOwned
        BY <2>5, <4>2 DEF Tray!StopTray, Tray!Destroyed
      <4> QED
        BY <4>1, <4>2
    <3>2. trayIcon' = Tray!System /\ ~trayIconOwned' /\ trayIconOwned' \in BOOLEAN
          /\ ~tray' /\ ~trayAdded' /\ shown' = {}
      BY <2>5 DEF Tray!StopTray, Tray!DestroyTray
    <3> QED
      BY <2>5, <3>1, <3>2 DEF Tray!StopTray
  <2>6. CASE Tray!Unwind
    <3>1. owned' = {}
      BY <2>6 DEF Tray!Unwind, Tray!Destroyed
    <3>2. trayIcon' = Tray!System /\ ~trayIconOwned' /\ trayIconOwned' \in BOOLEAN
          /\ ~tray' /\ ~trayAdded' /\ shown' = {}
      BY <2>6 DEF Tray!Unwind, Tray!DestroyTray
    <3> QED
      BY <2>6, <3>1, <3>2 DEF Tray!Unwind
  <2>7. CASE UNCHANGED Tray!vars
    BY <2>7 DEF Tray!vars
  <2> QED
    BY <2>1, <2>2, <2>3, <2>4, <2>5, <2>6, <2>7 DEF Tray!Next
<1>3. Tray!TrayInv => Tray!DesktopIsLeftClean
  BY DEF Tray!TrayInv, Tray!HandlesInv, Tray!DesktopIsLeftClean
<1> QED
  BY <1>1, <1>2, <1>3

-----------------------------------------------------------------------------
(* Incremental transfers on X11 (x11/clipboard.go): s1 and s2 the client's, s3 and
   s4 the X server's, s5 to s8 what each requestor waits for and has. *)

\* A piece of a text is neither the announcement of the transfer nor its end.
LEMMA Pieces ==
  /\ Pastes!Empty # Pastes!Incr
  /\ \A t, n : Pastes!Piece(t, n) # Pastes!Empty /\ Pastes!Piece(t, n) # Pastes!Incr
  BY DEF Pastes!Empty, Pastes!Incr, Pastes!Piece

\* Pieces in order are a text so far.
LEMMA Parts ==
  ASSUME NEW t, NEW n \in Nat
  PROVE  /\ Pastes!Part(t, 0) = <<>>
         /\ Append(Pastes!Part(t, n), Pastes!Piece(t, n + 1)) = Pastes!Part(t, n + 1)
         /\ Pastes!Part(t, n) = <<>> => n = 0
         /\ Pastes!Whole(t) = Pastes!Part(t, Pastes!Size(t))
<1> DEFINE P == {Pastes!Piece(t, k) : k \in Nat}
<1>1. \A m \in Nat : /\ Pastes!Part(t, m) \in Seq(P) /\ Len(Pastes!Part(t, m)) = m
                     /\ \A k \in 1 .. m : Pastes!Part(t, m)[k] = Pastes!Piece(t, k)
  <2> SUFFICES ASSUME NEW m \in Nat
               PROVE  /\ Pastes!Part(t, m) \in Seq(P) /\ Len(Pastes!Part(t, m)) = m
                      /\ \A k \in 1 .. m : Pastes!Part(t, m)[k] = Pastes!Piece(t, k)
    OBVIOUS
  <2>1. Pastes!Part(t, m) \in [1 .. m -> P]
    BY DEF Pastes!Part
  <2>2. \A k \in 1 .. m : Pastes!Part(t, m)[k] = Pastes!Piece(t, k)
    BY DEF Pastes!Part
  <2> HIDE DEF P
  <2>3. Pastes!Part(t, m) \in Seq(P) /\ Len(Pastes!Part(t, m)) = m
    BY <2>1
  <2> QED
    BY <2>2, <2>3
<1>2. Pastes!Piece(t, n + 1) \in P
  OBVIOUS
<1> HIDE DEF P
<1>3. Pastes!Part(t, 0) = <<>>
  <2>1. PICK a \in Seq(P) : a = Pastes!Part(t, 0) /\ Len(a) = 0
    BY <1>1
  <2>2. a = <<>>
    BY <2>1
  <2> QED
    BY <2>1, <2>2
<1>4. Append(Pastes!Part(t, n), Pastes!Piece(t, n + 1)) = Pastes!Part(t, n + 1)
  <2>1. PICK a \in Seq(P) : a = Pastes!Part(t, n) /\ Len(a) = n
                              /\ \A k \in 1 .. n : a[k] = Pastes!Piece(t, k)
    BY <1>1
  <2>2. PICK b \in Seq(P) : b = Pastes!Part(t, n + 1) /\ Len(b) = n + 1
                              /\ \A k \in 1 .. n + 1 : b[k] = Pastes!Piece(t, k)
    BY <1>1
  <2>8. PICK p \in P : p = Pastes!Piece(t, n + 1)
    BY <1>2
  <2>3. PICK c \in Seq(P) : c = Append(a, p)
    BY AppendItems
  <2>4. Len(c) = n + 1 /\ \A k \in 1 .. n : c[k] = a[k]
    BY <2>1, <2>3
  <2>5. c[n + 1] = Pastes!Piece(t, n + 1)
    BY <2>1, <2>3, <2>8
  <2>6. \A k \in 1 .. n + 1 : c[k] = b[k]
    BY <2>1, <2>2, <2>4, <2>5
  <2>7. c = b
    <3>1. Len(c) = Len(b) /\ Len(b) \in Nat /\ \A k \in 1 .. Len(c) : c[k] = b[k]
      BY <2>2, <2>4, <2>6
    <3> QED
      BY <3>1
  <2> QED
    BY <2>1, <2>2, <2>3, <2>7, <2>8
<1>5. Pastes!Part(t, n) = <<>> => n = 0
  BY <1>1
<1> QED
  BY <1>3, <1>4, <1>5 DEF Pastes!Whole, Pastes!Part

\* What a step leaves to a requestor that it is not about.
LEMMA PasteKept ==
  ASSUME Pastes!X11TransfersAssumption, Pastes!TypeOK, NEW r \in Requestors, Pastes!PasteInv(r),
         s1' \in Nat, s1' >= s1,
         s3'[r] = s3[r], s5'[r] = s5[r], s6'[r] = s6[r], s7'[r] = s7[r],
         r \in DOMAIN s2' <=> r \in DOMAIN s2,
         r \in DOMAIN s2 => s2'[r] = s2[r]
  PROVE  Pastes!PasteInv(r)'
<1> DEFINE text == s1
           transfers == s2
           property == s3
           state == s5
           got == s6
           since == s7
<1>1. /\ since[r] \in Int /\ text \in Int /\ text' \in Int
      /\ r \in DOMAIN transfers => transfers[r].data \in Int
  <2>1. \A t \in LongTexts : t \in Int
    BY DEF Pastes!X11TransfersAssumption
  <2>2. since[r] \in Int /\ text \in Int
    BY DEF Pastes!TypeOK
  <2>3. r \in DOMAIN transfers => transfers[r].data \in LongTexts
    BY DEF Pastes!TypeOK
  <2> QED
    BY <2>1, <2>2, <2>3
<1>2. Pastes!Behind(r, 0) => Pastes!Behind(r, 0)'
  BY <1>1 DEF Pastes!Behind, Pastes!Part, Pastes!Piece
<1>3. Pastes!Behind(r, 1) => Pastes!Behind(r, 1)'
  BY <1>1 DEF Pastes!Behind, Pastes!Part, Pastes!Piece
<1>4. r \in DOMAIN transfers =>
        Pastes!Piece(transfers[r].data, transfers[r].offset)' =
          Pastes!Piece(transfers[r].data, transfers[r].offset)
  BY DEF Pastes!Piece
<1>5. \A t \in since[r] .. text : t \in since'[r] .. text'
  BY <1>1
<1>6. CASE state[r] = "notified"
  BY <1>2, <1>5, <1>6 DEF Pastes!PasteInv, Pastes!Piece
<1>7. CASE state[r] = "waiting"
  BY <1>2, <1>7 DEF Pastes!PasteInv
<1>8. CASE state[r] = "offered"
  <2>1. CASE Pastes!Behind(r, 1) /\ property[r] = Pastes!Piece(transfers[r].data, transfers[r].offset)
    BY <1>3, <1>4, <1>8, <2>1 DEF Pastes!PasteInv, Pastes!Behind
  <2>2. CASE property[r] = Pastes!Empty /\ \E t \in since[r] .. text : got[r] = Pastes!Whole(t)
    BY <1>5, <1>8, <2>2
    DEF Pastes!PasteInv, Pastes!Whole, Pastes!Size, Pastes!Piece, Pastes!Empty
  <2> QED
    BY <1>8, <2>1, <2>2 DEF Pastes!PasteInv
<1>9. CASE state[r] = "done"
  BY <1>5, <1>9 DEF Pastes!PasteInv, Pastes!Whole, Pastes!Size, Pastes!Piece
<1>10. state[r] = "asked" => got'[r] = <<>>
  BY DEF Pastes!PasteInv
<1> QED
  BY <1>6, <1>7, <1>8, <1>9, <1>10 DEF Pastes!PasteInv

\* Items of a sequence are what it is a sequence of.
LEMMA SeqItems == \A S : \A s \in Seq(S) : \A i \in 1 .. Len(s) : s[i] \in S
  OBVIOUS

\* An event is a request or a deletion, of some requestor.
LEMMA EventShape ==
  ASSUME Pastes!TypeOK
  PROVE  \A i \in 1 .. Len(s4) : s4[i].from \in Requestors /\ s4[i].type \in {"request", "deleted"}
<1> DEFINE events == s4
<1>1. events \in Seq([type : {"request", "deleted"}, from : Requestors])
  BY DEF Pastes!TypeOK
<1>2. \A i \in 1 .. Len(events) : events[i] \in [type : {"request", "deleted"}, from : Requestors]
  BY <1>1, SeqItems
<1> QED
  BY <1>2

\* What waits of a requestor whose event is taken is a request.
LEMMA TakeKeepsQueue ==
  ASSUME Pastes!TypeOK, Pastes!QueueInv, s4 # <<>>, s4' = Tail(s4),
         \A x \in Requestors \ {Head(s4).from} : s5'[x] = s5[x],
         Head(s4).type = "deleted" /\ s5[Head(s4).from] = "asked" =>
           s5'[Head(s4).from] = "asked"
  PROVE  Pastes!QueueInv'
<1> DEFINE events == s4
           state == s5
<1> DEFINE r == Head(events).from
<1>1. /\ Head(events) = events[1] /\ Len(events) \in Nat /\ Len(events) >= 1
      /\ Len(events') = Len(events) - 1
      /\ \A i \in 1 .. Len(events') : i + 1 \in 1 .. Len(events) /\ events'[i] = events[i + 1]
      /\ 1 \in 1 .. Len(events)
  <2>1. events \in Seq([type : {"request", "deleted"}, from : Requestors])
    BY DEF Pastes!TypeOK
  <2> QED
    BY <2>1, TailItems
<1>2. \A i \in 1 .. Len(events) : events[i].from \in Requestors
                             /\ events[i].type \in {"request", "deleted"}
  BY EventShape
<1>3. \A i \in 1 .. Len(events') : events'[i].from = r =>
        events'[i].type = "request" /\ Head(events).type = "deleted"
  BY <1>1 DEF Pastes!QueueInv
<1>4. \A i \in 1 .. Len(events') :
        state'[events'[i].from] \in IF events'[i].type = "request" THEN {"asked"}
                                    ELSE {"asked", "waiting", "done"}
  <2> SUFFICES ASSUME NEW i \in 1 .. Len(events')
               PROVE  state'[events'[i].from] \in IF events'[i].type = "request" THEN {"asked"}
                                                  ELSE {"asked", "waiting", "done"}
    OBVIOUS
  <2>1. state[events'[i].from] \in IF events'[i].type = "request" THEN {"asked"}
                                   ELSE {"asked", "waiting", "done"}
    BY <1>1 DEF Pastes!QueueInv
  <2>2. CASE events'[i].from = r
    BY <1>3, <2>1, <2>2
  <2>3. CASE events'[i].from # r
    BY <1>1, <1>2, <2>1, <2>3
  <2> QED
    BY <2>2, <2>3
<1>5. \A i, j \in 1 .. Len(events') :
        i < j /\ events'[i].from = events'[j].from =>
          events'[i].type = "deleted" /\ events'[j].type = "request"
  BY <1>1 DEF Pastes!QueueInv
<1> QED
  BY <1>4, <1>5 DEF Pastes!QueueInv

\* A requestor asks again only once its request is answered, and deletes its
\* property when nothing of it waits.
LEMMA PutKeepsQueue ==
  ASSUME Pastes!TypeOK, Pastes!QueueInv, NEW r \in Requestors, NEW type \in {"request", "deleted"},
         s4' = Append(s4, [type |-> type, from |-> r]),
         \A x \in Requestors \ {r} : s5'[x] = s5[x],
         type = "request" => s5[r] # "asked" /\ s5'[r] = "asked",
         type = "deleted" => s5[r] \in {"notified", "offered"} /\ s5'[r] \in {"waiting", "done"}
  PROVE  Pastes!QueueInv'
<1> DEFINE events == s4
           state == s5
<1> DEFINE e == [type |-> type, from |-> r]
           n == Len(events)
<1>1. /\ n \in Nat /\ Len(events') = n + 1 /\ events'[n + 1] = e
      /\ \A i \in 1 .. n : events'[i] = events[i]
  <2>1. events \in Seq([type : {"request", "deleted"}, from : Requestors])
        /\ e \in [type : {"request", "deleted"}, from : Requestors]
    BY DEF Pastes!TypeOK
  <2> QED
    BY <2>1, AppendItems
<1>2. \A i \in 1 .. n : events[i].from \in Requestors
                        /\ events[i].type \in {"request", "deleted"}
  BY EventShape
<1>3. \A i \in 1 .. n : events[i].from = r => events[i].type = "deleted" /\ type = "request"
  BY <1>2 DEF Pastes!QueueInv
<1>4. \A i \in 1 .. n :
        state'[events[i].from] \in IF events[i].type = "request" THEN {"asked"}
                                    ELSE {"asked", "waiting", "done"}
  <2> SUFFICES ASSUME NEW i \in 1 .. n
               PROVE  state'[events[i].from] \in IF events[i].type = "request" THEN {"asked"}
                                                  ELSE {"asked", "waiting", "done"}
    OBVIOUS
  <2>1. CASE events[i].from = r
    BY <1>3, <2>1
  <2>2. CASE events[i].from # r
    BY <1>2, <2>2 DEF Pastes!QueueInv
  <2> QED
    BY <2>1, <2>2
<1>5. state'[r] \in IF type = "request" THEN {"asked"} ELSE {"asked", "waiting", "done"}
  OBVIOUS
<1>6. e.type = type /\ e.from = r
  OBVIOUS
<1> HIDE DEF e, n
<1>7. \A i \in 1 .. n + 1 : i = n + 1 \/ i \in 1 .. n
  BY <1>1
<1>8. \A i, j \in 1 .. n + 1 : i < j => i \in 1 .. n
  BY <1>1
<1>9. \A i \in 1 .. Len(events') :
        state'[events'[i].from] \in IF events'[i].type = "request" THEN {"asked"}
                                    ELSE {"asked", "waiting", "done"}
  BY <1>1, <1>4, <1>5, <1>6, <1>7
<1>10. \A i, j \in 1 .. Len(events') :
        i < j /\ events'[i].from = events'[j].from =>
          events'[i].type = "deleted" /\ events'[j].type = "request"
  <2> SUFFICES ASSUME NEW i \in 1 .. n + 1, NEW j \in 1 .. n + 1, i < j,
                      events'[i].from = events'[j].from
               PROVE  events'[i].type = "deleted" /\ events'[j].type = "request"
    BY <1>1
  <2>1. i \in 1 .. n /\ events'[i] = events[i]
    BY <1>1, <1>8
  <2>2. CASE j = n + 1
    BY <1>1, <1>3, <1>6, <2>1, <2>2
  <2>3. CASE j \in 1 .. n
    BY <1>1, <2>1, <2>3 DEF Pastes!QueueInv, n
  <2> QED
    BY <1>7, <2>2, <2>3
<1> QED
  BY <1>9, <1>10 DEF Pastes!QueueInv

\* Every step keeps the shape of the variables.
LEMMA TransfersTypeOK ==
  ASSUME Pastes!X11TransfersAssumption, Pastes!TypeOK, [Pastes!Next]_(Pastes!vars)
  PROVE  Pastes!TypeOK'
<1> DEFINE text == s1
           transfers == s2
           property == s3
           events == s4
           state == s5
           since == s7
<1> DEFINE S == [type : {"request", "deleted"}, from : Requestors]
<1>1. /\ MaxTexts \in Nat /\ \A t \in LongTexts : t \in Int /\ Pastes!Size(t) = 2
      /\ events \in Seq(S) /\ text \in 1 .. MaxTexts /\ text \in Int
      /\ \A r \in Requestors : since[r] \in 1 .. MaxTexts /\ since[r] \in Int
  BY DEF Pastes!X11TransfersAssumption, Pastes!TypeOK, Pastes!Size
<1>2. events # <<>> => Head(events).from \in Requestors /\ Tail(events) \in Seq(S)
  <2>1. events # <<>> => Head(events) \in S /\ Tail(events) \in Seq(S)
    BY <1>1, TailItems
  <2> QED
    BY <2>1
<1>3. CASE Pastes!SetText
  BY <1>1, <1>3 DEF Pastes!TypeOK, Pastes!SetText, Pastes!requestorVars
<1>4. CASE \E ok \in BOOLEAN : Pastes!selectionRequest(ok)
  <2> PICK ok \in BOOLEAN : Pastes!selectionRequest(ok)
    BY <1>4
  <2> DEFINE r == Head(events).from
  <2>1. r \in Requestors /\ events' \in Seq(S)
    BY <1>2 DEF Pastes!selectionRequest, Pastes!Handle
  <2>2. DOMAIN transfers' \subseteq Requestors
    BY <2>1 DEF Pastes!selectionRequest, Pastes!TypeOK
  <2>3. \A x \in DOMAIN transfers' : transfers'[x] \in [data : LongTexts, offset : 0 .. 2]
    BY <2>1 DEF Pastes!selectionRequest, Pastes!TypeOK, Pastes!Snapshot
  <2>4. DOMAIN property' = Requestors
    BY <2>1 DEF Pastes!selectionRequest, Pastes!TypeOK
  <2>5. state' \in [Requestors -> {"idle", "asked", "notified", "waiting", "offered", "done"}]
    BY <2>1 DEF Pastes!selectionRequest, Pastes!TypeOK
  <2> QED
    BY <2>1, <2>2, <2>3, <2>4, <2>5 DEF Pastes!selectionRequest, Pastes!TypeOK
<1>5. CASE Pastes!propertyNotify
  <2> DEFINE r == Head(events).from
  <2>1. r \in Requestors /\ events' \in Seq(S)
    BY <1>2, <1>5 DEF Pastes!propertyNotify, Pastes!Handle
  <2>2. DOMAIN transfers' \subseteq Requestors
    BY <1>5, <2>1 DEF Pastes!propertyNotify, Pastes!TypeOK
  <2>3. \A x \in DOMAIN transfers' : transfers'[x] \in [data : LongTexts, offset : 0 .. 2]
    <3>1. CASE r \notin DOMAIN transfers
      BY <1>5, <3>1 DEF Pastes!propertyNotify, Pastes!TypeOK
    <3>2. CASE r \in DOMAIN transfers /\ transfers[r].offset = Pastes!Size(transfers[r].data)
      BY <1>5, <3>2 DEF Pastes!propertyNotify, Pastes!TypeOK
    <3>3. CASE r \in DOMAIN transfers /\ transfers[r].offset # Pastes!Size(transfers[r].data)
      <4>1. transfers[r] \in [data : LongTexts, offset : 0 .. 2] /\ transfers[r].offset \in 0 .. 1
        BY <1>1, <3>3 DEF Pastes!TypeOK
      <4>2. transfers[r].offset + 1 \in 0 .. 2
        BY <4>1
      <4>3. transfers' = [transfers EXCEPT ![r].offset = @ + 1]
        BY <1>5, <3>3 DEF Pastes!propertyNotify
      <4> QED
        BY <4>1, <4>2, <4>3 DEF Pastes!TypeOK
    <3> QED
      BY <3>1, <3>2, <3>3
  <2>4. DOMAIN property' = Requestors
    BY <1>5, <2>1 DEF Pastes!propertyNotify, Pastes!TypeOK
  <2>5. state' \in [Requestors -> {"idle", "asked", "notified", "waiting", "offered", "done"}]
    BY <1>5, <2>1 DEF Pastes!propertyNotify, Pastes!TypeOK
  <2> QED
    BY <1>5, <2>1, <2>2, <2>3, <2>4, <2>5 DEF Pastes!propertyNotify, Pastes!TypeOK
<1>6. CASE \E r \in Requestors : Pastes!Ask(r) \/ Pastes!Read(r)
  <2> PICK r \in Requestors : Pastes!Ask(r) \/ Pastes!Read(r)
    BY <1>6
  <2>1. CASE Pastes!Ask(r)
    <3>1. [type |-> "request", from |-> r] \in S
      OBVIOUS
    <3>2. events' \in Seq(S)
      BY <1>1, <2>1, <3>1, AppendItems DEF Pastes!Ask
    <3> QED
      BY <1>1, <2>1, <3>2 DEF Pastes!Ask, Pastes!TypeOK, Pastes!clientVars
  <2>2. CASE Pastes!Read(r)
    <3>1. [type |-> "deleted", from |-> r] \in S
      OBVIOUS
    <3>2. events' \in Seq(S)
      BY <1>1, <2>2, <3>1, AppendItems DEF Pastes!Read
    <3> QED
      BY <1>1, <2>2, <3>2 DEF Pastes!Read, Pastes!TypeOK, Pastes!clientVars
  <2> QED
    BY <2>1, <2>2
<1>7. CASE UNCHANGED Pastes!vars
  BY <1>7 DEF Pastes!TypeOK, Pastes!vars, Pastes!clientVars, Pastes!requestorVars
<1> QED
  BY <1>3, <1>4, <1>5, <1>6, <1>7 DEF Pastes!Next

\* A request that is answered starts a transfer, sends a small text or refuses.
LEMMA AnswersStart ==
  ASSUME Pastes!X11TransfersAssumption, Pastes!TransfersInv, NEW ok \in BOOLEAN,
         Pastes!selectionRequest(ok)
  PROVE  Pastes!QueueInv' /\ \A r \in Requestors : Pastes!PasteInv(r)'
<1> DEFINE text == s1
           transfers == s2
           property == s3
           events == s4
           state == s5
           got == s6
           since == s7
<1>0. events # <<>> => Head(events).from \in Requestors
  <2>1. events # <<>> => Head(events) = events[1] /\ 1 \in 1 .. Len(events)
    BY TailItems DEF Pastes!TransfersInv, Pastes!TypeOK
  <2> QED
    BY <2>1, EventShape DEF Pastes!TransfersInv
<1> PICK r \in Requestors : r = Head(events).from
  BY <1>0 DEF Pastes!selectionRequest, Pastes!Handle
<1>1. state[r] = "asked" /\ Head(events).type = "request"
      /\ events # <<>> /\ events' = Tail(events)
  <2>1. Head(events) = events[1] /\ 1 \in 1 .. Len(events)
    BY TailItems
    DEF Pastes!TransfersInv, Pastes!TypeOK, Pastes!selectionRequest, Pastes!Handle
  <2> QED
    BY <2>1, EventShape
    DEF Pastes!TransfersInv, Pastes!QueueInv, Pastes!selectionRequest, Pastes!Handle
<1>2. Pastes!QueueInv'
  BY <1>1, TakeKeepsQueue DEF Pastes!TransfersInv, Pastes!TypeOK, Pastes!selectionRequest
<1>3. ASSUME NEW x \in Requestors \ {r}
      PROVE  Pastes!PasteInv(x)'
  <2>1. property'[x] = property[x] /\ state'[x] = state[x]
    BY DEF Pastes!TransfersInv, Pastes!TypeOK, Pastes!selectionRequest
  <2>2. /\ x \in DOMAIN transfers' <=> x \in DOMAIN transfers
        /\ x \in DOMAIN transfers => transfers'[x] = transfers[x]
    BY DEF Pastes!TransfersInv, Pastes!TypeOK, Pastes!selectionRequest
  <2>3. text' = text /\ got' = got /\ since' = since /\ text \in Nat
    BY DEF Pastes!TransfersInv, Pastes!TypeOK, Pastes!selectionRequest
  <2> QED
    BY <2>1, <2>2, <2>3, PasteKept DEF Pastes!TransfersInv
<1>4. /\ got'[r] = <<>> /\ since'[r] = since[r] /\ text' = text
      /\ since[r] \in Int /\ text \in Int /\ since[r] <= text
  BY <1>1 DEF Pastes!TransfersInv, Pastes!PasteInv, Pastes!TypeOK, Pastes!selectionRequest
<1>5. Pastes!PasteInv(r)'
  <2>1. CASE ~ok
    BY <1>1, <1>4, <2>1
    DEF Pastes!selectionRequest, Pastes!PasteInv, Pastes!TransfersInv, Pastes!TypeOK
  <2>2. CASE ok /\ text \in LongTexts
    <3>1. state'[r] = "notified" /\ property'[r] = Pastes!Incr
      BY <1>1, <2>2 DEF Pastes!selectionRequest, Pastes!TransfersInv, Pastes!TypeOK
    <3>2. r \in DOMAIN transfers' /\ transfers'[r] = [data |-> text, offset |-> 0]
      BY <2>2 DEF Pastes!selectionRequest, Pastes!Snapshot
    <3>3. Pastes!Part(text, 0) = <<>>
      BY Parts
    <3>4. Pastes!Behind(r, 0)'
      BY <1>4, <3>2, <3>3 DEF Pastes!Behind, Pastes!Part, Pastes!Piece
    <3> QED
      BY <3>1, <3>4 DEF Pastes!PasteInv
  <2>3. CASE ok /\ text \notin LongTexts
    <3>1. state'[r] = "notified" /\ property'[r] = Pastes!Piece(text, 1)
      BY <1>1, <2>3 DEF Pastes!selectionRequest, Pastes!TransfersInv, Pastes!TypeOK
    <3>2. text \in since'[r] .. text'
      BY <1>4
    <3> QED
      BY <1>4, <2>3, <3>1, <3>2 DEF Pastes!PasteInv, Pastes!Piece
  <2> QED
    BY <2>1, <2>2, <2>3
<1> QED
  BY <1>2, <1>3, <1>5

\* A property that was deleted makes room for the next piece of the same text.
LEMMA PiecesFollow ==
  ASSUME Pastes!X11TransfersAssumption, Pastes!TransfersInv, Pastes!propertyNotify
  PROVE  Pastes!QueueInv' /\ \A r \in Requestors : Pastes!PasteInv(r)'
<1> DEFINE text == s1
           transfers == s2
           property == s3
           events == s4
           state == s5
           got == s6
           since == s7
<1>0. events # <<>> => Head(events).from \in Requestors
  <2>1. events # <<>> => Head(events) = events[1] /\ 1 \in 1 .. Len(events)
    BY TailItems DEF Pastes!TransfersInv, Pastes!TypeOK
  <2> QED
    BY <2>1, EventShape DEF Pastes!TransfersInv
<1> PICK r \in Requestors : r = Head(events).from
  BY <1>0 DEF Pastes!propertyNotify, Pastes!Handle
<1>1. /\ state[r] \in {"asked", "waiting", "done"} /\ Head(events).type = "deleted"
      /\ events # <<>> /\ events' = Tail(events)
  <2>1. Head(events) = events[1] /\ 1 \in 1 .. Len(events)
    BY TailItems
    DEF Pastes!TransfersInv, Pastes!TypeOK, Pastes!propertyNotify, Pastes!Handle
  <2> QED
    BY <2>1, EventShape
    DEF Pastes!TransfersInv, Pastes!QueueInv, Pastes!propertyNotify, Pastes!Handle
<1>2. Pastes!QueueInv'
  <2>1. \A x \in Requestors \ {r} : state'[x] = state[x]
    BY <1>1 DEF Pastes!TransfersInv, Pastes!TypeOK, Pastes!propertyNotify
  <2>2. state[r] = "asked" => state'[r] = "asked"
    BY <1>1 DEF Pastes!TransfersInv, Pastes!TypeOK, Pastes!propertyNotify
  <2> QED
    BY <1>1, <2>1, <2>2, TakeKeepsQueue DEF Pastes!TransfersInv
<1>3. text' = text /\ got' = got /\ since' = since /\ text \in Nat
  BY DEF Pastes!propertyNotify, Pastes!TransfersInv, Pastes!TypeOK,
         Pastes!X11TransfersAssumption
<1>4. ASSUME NEW x \in Requestors \ {r}
      PROVE  Pastes!PasteInv(x)'
  <2>1. property'[x] = property[x] /\ state'[x] = state[x]
    BY <1>1 DEF Pastes!TransfersInv, Pastes!TypeOK, Pastes!propertyNotify
  <2>2. /\ x \in DOMAIN transfers' <=> x \in DOMAIN transfers
        /\ x \in DOMAIN transfers => transfers'[x] = transfers[x]
    BY <1>1 DEF Pastes!TransfersInv, Pastes!TypeOK, Pastes!propertyNotify
  <2> QED
    BY <1>3, <2>1, <2>2, PasteKept DEF Pastes!TransfersInv
<1>5. Pastes!PasteInv(r)'
  <2>1. CASE r \notin DOMAIN transfers
    BY <1>1, <1>3, <2>1, PasteKept DEF Pastes!TransfersInv, Pastes!propertyNotify
  <2>2. CASE r \in DOMAIN transfers /\ state[r] # "waiting"
    <3>1. state'[r] = state[r]
      BY <1>1, <2>2 DEF Pastes!propertyNotify, Pastes!TransfersInv, Pastes!TypeOK
    <3> QED
      BY <1>1, <1>3, <2>2, <3>1
      DEF Pastes!TransfersInv, Pastes!PasteInv, Pastes!Whole, Pastes!Size, Pastes!Piece
  <2>3. CASE r \in DOMAIN transfers /\ state[r] = "waiting"
    <3> PICK d \in LongTexts, n \in 0 .. 2 : transfers[r].data = d /\ transfers[r].offset = n
      BY <2>3 DEF Pastes!TransfersInv, Pastes!TypeOK
    <3>1. state'[r] = "offered"
      BY <1>1, <2>3 DEF Pastes!propertyNotify, Pastes!TransfersInv, Pastes!TypeOK
    <3>2. /\ got[r] = Pastes!Part(d, n) /\ n \in Nat /\ d \in Int /\ since[r] \in Int
          /\ d >= since[r] /\ d <= text
      <4>1. Pastes!Behind(r, 0)
        BY <1>1, <2>3 DEF Pastes!TransfersInv, Pastes!PasteInv
      <4>2. n \in Nat /\ n - 0 = n
        OBVIOUS
      <4>3. d \in 1 .. MaxTexts /\ since[r] \in 1 .. MaxTexts
        BY DEF Pastes!TransfersInv, Pastes!TypeOK, Pastes!X11TransfersAssumption
      <4> QED
        BY <4>1, <4>2, <4>3 DEF Pastes!Behind
    <3>3. CASE n = Pastes!Size(d)
      <4>1. property'[r] = Pastes!Empty
        BY <1>1, <2>3, <3>3 DEF Pastes!propertyNotify, Pastes!TransfersInv, Pastes!TypeOK
      <4>2. got[r] = Pastes!Whole(d)
        BY <3>2, <3>3, Parts
      <4>3. d \in since'[r] .. text'
        BY <1>3, <3>2
      <4>4. \E t \in since'[r] .. text' : got'[r] = Pastes!Whole(t)
        BY <1>3, <4>2, <4>3
      <4> QED
        BY <3>1, <4>1, <4>4
        DEF Pastes!PasteInv, Pastes!Empty, Pastes!Whole, Pastes!Size, Pastes!Piece
    <3>4. CASE n # Pastes!Size(d)
      <4>1. property'[r] = Pastes!Piece(d, n + 1)
        BY <1>1, <2>3, <3>4
        DEF Pastes!propertyNotify, Pastes!TransfersInv, Pastes!TypeOK, Pastes!Kept
      <4>2. r \in DOMAIN transfers' /\ transfers'[r].data = d /\ transfers'[r].offset = n + 1
        <5>1. transfers' = [transfers EXCEPT ![r].offset = @ + 1]
          BY <2>3, <3>4 DEF Pastes!propertyNotify
        <5>2. transfers[r] \in [data : LongTexts, offset : 0 .. 2]
          BY <2>3 DEF Pastes!TransfersInv, Pastes!TypeOK
        <5> QED
          BY <2>3, <5>1, <5>2
      <4>3. n + 1 - 1 = n /\ n + 1 >= 1
        BY <3>2
      <4>4. Pastes!Behind(r, 1)'
        BY <1>3, <3>2, <4>2, <4>3 DEF Pastes!Behind, Pastes!Part, Pastes!Piece
      <4> QED
        BY <3>1, <4>1, <4>2, <4>4 DEF Pastes!PasteInv, Pastes!Piece
    <3> QED
      BY <3>3, <3>4
  <2> QED
    BY <2>1, <2>2, <2>3
<1> QED
  BY <1>2, <1>4, <1>5

\* A requestor asks, reads what is there, and counts what it has.
LEMMA PastesProceed ==
  ASSUME Pastes!X11TransfersAssumption, Pastes!TransfersInv, NEW r \in Requestors,
         Pastes!Ask(r) \/ Pastes!Read(r)
  PROVE  Pastes!QueueInv' /\ \A x \in Requestors : Pastes!PasteInv(x)'
<1> DEFINE text == s1
           transfers == s2
           property == s3
           events == s4
           state == s5
           got == s6
           since == s7
<1>1. /\ text' = text /\ transfers' = transfers /\ text \in Nat
      /\ \A x \in Requestors \ {r} : /\ property'[x] = property[x] /\ state'[x] = state[x]
                                     /\ got'[x] = got[x] /\ since'[x] = since[x]
  BY DEF Pastes!Ask, Pastes!Read, Pastes!clientVars, Pastes!TransfersInv, Pastes!TypeOK
<1>2. ASSUME NEW x \in Requestors \ {r}
      PROVE  Pastes!PasteInv(x)'
  BY <1>1, PasteKept DEF Pastes!TransfersInv
<1>3. CASE Pastes!Ask(r)
  <2>1. state[r] # "asked" /\ state'[r] = "asked" /\ got'[r] = <<>>
        /\ events' = Append(events, [type |-> "request", from |-> r])
    BY <1>3 DEF Pastes!Ask, Pastes!TransfersInv, Pastes!TypeOK
  <2>2. Pastes!QueueInv'
    BY <1>1, <2>1, PutKeepsQueue DEF Pastes!TransfersInv
  <2>3. Pastes!PasteInv(r)'
    BY <2>1 DEF Pastes!PasteInv
  <2> QED
    BY <1>2, <2>2, <2>3
<1>4. CASE Pastes!Read(r)
  <2>1. /\ state[r] \in {"notified", "offered"} /\ state'[r] \in {"waiting", "done"}
        /\ events' = Append(events, [type |-> "deleted", from |-> r])
        /\ since'[r] = since[r]
    BY <1>4 DEF Pastes!Read, Pastes!TransfersInv, Pastes!TypeOK
  <2>2. Pastes!QueueInv'
    BY <1>1, <2>1, PutKeepsQueue DEF Pastes!TransfersInv
  <2>3. Pastes!PasteInv(r)'
    <3>1. CASE property[r] = Pastes!Incr
      <4>1. state'[r] = "waiting" /\ got'[r] = got[r]
        BY <1>4, <3>1 DEF Pastes!Read, Pastes!TransfersInv, Pastes!TypeOK
      <4>2. state[r] = "notified" /\ Pastes!Behind(r, 0)
        BY <2>1, <3>1, Pieces DEF Pastes!TransfersInv, Pastes!PasteInv
      <4>3. Pastes!Behind(r, 0)'
        BY <1>1, <2>1, <4>1, <4>2 DEF Pastes!Behind, Pastes!Part, Pastes!Piece
      <4> QED
        BY <4>1, <4>3 DEF Pastes!PasteInv
    <3>2. CASE state[r] = "notified" /\ property[r] # Pastes!Incr
      <4>1. got[r] = <<>>
        BY <3>2 DEF Pastes!TransfersInv, Pastes!PasteInv
      <4>2. PICK t \in since[r] .. text : t \notin LongTexts /\ property[r] = Pastes!Piece(t, 1)
        BY <3>2 DEF Pastes!TransfersInv, Pastes!PasteInv
      <4>3. state'[r] = "done" /\ got'[r] = Append(<<>>, Pastes!Piece(t, 1))
        BY <1>4, <3>2, <4>1, <4>2, Pieces DEF Pastes!Read, Pastes!TransfersInv, Pastes!TypeOK
      <4>4. Append(<<>>, Pastes!Piece(t, 1)) = Pastes!Whole(t)
        <5>1. Pastes!Part(t, 0) = <<>>
              /\ Append(Pastes!Part(t, 0), Pastes!Piece(t, 0 + 1)) = Pastes!Part(t, 0 + 1)
              /\ Pastes!Whole(t) = Pastes!Part(t, Pastes!Size(t))
          BY Parts
        <5>2. Pastes!Size(t) = 1 /\ 0 + 1 = 1
          BY <4>2 DEF Pastes!Size
        <5> QED
          BY <5>1, <5>2
      <4>5. \E x \in since'[r] .. text' : got'[r] = Pastes!Whole(x)
        BY <1>1, <2>1, <4>3, <4>4
      <4> QED
        BY <4>3, <4>5 DEF Pastes!PasteInv, Pastes!Whole, Pastes!Size, Pastes!Piece
    <3>3. CASE state[r] = "offered" /\ property[r] # Pastes!Incr /\ property[r] # Pastes!Empty
      <4>1. Pastes!Behind(r, 1) /\ property[r] = Pastes!Piece(transfers[r].data, transfers[r].offset)
        BY <3>3 DEF Pastes!TransfersInv, Pastes!PasteInv
      <4> PICK d \in LongTexts, n \in 0 .. 2 : transfers[r].data = d /\ transfers[r].offset = n
        BY <4>1 DEF Pastes!TransfersInv, Pastes!TypeOK, Pastes!Behind
      <4>2. n \in Nat /\ n - 1 \in Nat /\ n - 0 = n /\ n - 1 + 1 = n /\ n >= 0
            /\ got[r] = Pastes!Part(d, n - 1) /\ d >= since[r] /\ d <= text
        BY <4>1 DEF Pastes!Behind
      <4>3. state'[r] = "waiting" /\ got'[r] = Append(got[r], Pastes!Piece(d, n))
        BY <1>4, <3>3, <4>1 DEF Pastes!Read, Pastes!TransfersInv, Pastes!TypeOK
      <4>4. Append(Pastes!Part(d, n - 1), Pastes!Piece(d, n - 1 + 1)) = Pastes!Part(d, n - 1 + 1)
        BY <4>2, Parts
      <4>5. got'[r] = Pastes!Part(d, n)
        BY <4>2, <4>3, <4>4
      <4>6. Pastes!Behind(r, 0)'
        BY <1>1, <2>1, <4>1, <4>2, <4>5 DEF Pastes!Behind, Pastes!Part, Pastes!Piece
      <4> QED
        BY <4>3, <4>6 DEF Pastes!PasteInv
    <3>4. CASE state[r] = "offered" /\ property[r] = Pastes!Empty
      <4>1. \E t \in since[r] .. text : got[r] = Pastes!Whole(t)
        <5>1. \A t, n : Pastes!Piece(t, n) # Pastes!Empty
          BY Pieces
        <5> QED
          BY <3>4, <5>1 DEF Pastes!TransfersInv, Pastes!PasteInv
      <4>2. state'[r] = "done" /\ got'[r] = got[r]
        BY <1>4, <3>4, Pieces DEF Pastes!Read, Pastes!TransfersInv, Pastes!TypeOK
      <4>3. \E t \in since'[r] .. text' : got'[r] = Pastes!Whole(t)
        BY <1>1, <2>1, <4>1, <4>2
      <4> QED
        BY <4>2, <4>3 DEF Pastes!PasteInv, Pastes!Whole, Pastes!Size, Pastes!Piece
    <3> QED
      BY <2>1, <3>1, <3>2, <3>3, <3>4
  <2> QED
    BY <1>2, <2>2, <2>3
<1> QED
  BY <1>3, <1>4

\* What a requestor got, what is in its property and what its transfer still has
\* are parts of one text, in order.
LEMMA TransfersInvariant ==
  ASSUME Pastes!X11TransfersAssumption
  PROVE  /\ Pastes!Init => Pastes!TransfersInv
         /\ Pastes!TransfersInv /\ [Pastes!Next]_(Pastes!vars) => Pastes!TransfersInv'
         /\ Pastes!TransfersInv => Pastes!PastesAreWhole
<1> DEFINE text == s1
           transfers == s2
           property == s3
           events == s4
           state == s5
           got == s6
           since == s7
<1>1. ASSUME Pastes!Init
      PROVE  Pastes!TransfersInv
  <2>1. Pastes!TypeOK
    <3>1. /\ text \in 1 .. MaxTexts /\ events \in Seq([type : {"request", "deleted"}, from : Requestors])
      BY <1>1 DEF Pastes!X11TransfersAssumption, Pastes!Init
    <3>2. since \in [Requestors -> 1 .. MaxTexts] /\ \A r \in Requestors : since[r] <= text
      BY <1>1 DEF Pastes!X11TransfersAssumption, Pastes!Init
    <3>3. DOMAIN transfers = {}
      BY <1>1 DEF Pastes!Init
    <3>4. state \in [Requestors -> {"idle", "asked", "notified", "waiting", "offered", "done"}]
          /\ DOMAIN property = Requestors /\ DOMAIN got = Requestors
      BY <1>1 DEF Pastes!Init
    <3> QED
      BY <3>1, <3>2, <3>3, <3>4 DEF Pastes!TypeOK
  <2>2. Pastes!QueueInv
    <3>1. Len(events) = 0
      BY <1>1 DEF Pastes!Init
    <3> QED
      BY <3>1 DEF Pastes!QueueInv
  <2>3. \A r \in Requestors : Pastes!PasteInv(r)
    BY <1>1 DEF Pastes!Init, Pastes!PasteInv
  <2> QED
    BY <2>1, <2>2, <2>3 DEF Pastes!TransfersInv
<1>2. ASSUME Pastes!TransfersInv, [Pastes!Next]_(Pastes!vars)
      PROVE  Pastes!TransfersInv'
  <2>1. Pastes!TypeOK'
    BY <1>2, TransfersTypeOK DEF Pastes!TransfersInv
  <2>2. CASE Pastes!SetText \/ UNCHANGED Pastes!vars
    <3>1. Pastes!QueueInv'
      BY <1>2, <2>2
      DEF Pastes!SetText, Pastes!vars, Pastes!requestorVars, Pastes!TransfersInv,
          Pastes!QueueInv
    <3>2. /\ text' >= text /\ text' \in Nat /\ transfers' = transfers
          /\ property' = property /\ state' = state /\ got' = got /\ since' = since
      BY <1>2, <2>2
      DEF Pastes!SetText, Pastes!vars, Pastes!clientVars, Pastes!requestorVars,
          Pastes!TransfersInv, Pastes!TypeOK, Pastes!X11TransfersAssumption
    <3>3. \A r \in Requestors : Pastes!PasteInv(r)'
      BY <1>2, <3>2, PasteKept DEF Pastes!TransfersInv
    <3> QED
      BY <2>1, <3>1, <3>3 DEF Pastes!TransfersInv
  <2>3. CASE \E ok \in BOOLEAN : Pastes!selectionRequest(ok)
    BY <1>2, <2>1, <2>3, AnswersStart DEF Pastes!TransfersInv
  <2>4. CASE Pastes!propertyNotify
    BY <1>2, <2>1, <2>4, PiecesFollow DEF Pastes!TransfersInv
  <2>5. CASE \E r \in Requestors : Pastes!Ask(r) \/ Pastes!Read(r)
    BY <1>2, <2>1, <2>5, PastesProceed DEF Pastes!TransfersInv
  <2> QED
    BY <1>2, <2>2, <2>3, <2>4, <2>5 DEF Pastes!Next
<1>3. ASSUME Pastes!TransfersInv
      PROVE  Pastes!PastesAreWhole
  BY <1>3 DEF Pastes!TransfersInv, Pastes!PasteInv, Pastes!PastesAreWhole
<1> QED
  BY <1>1, <1>2, <1>3

-----------------------------------------------------------------------------
(* The thread that owns the windows (win32/display.go, darwin/run.go): s2 to s5
   the callers, s6 and s7 what they queued, s8 and s9 the close, s10 to s12 the
   thread and what it ran. *)

\* Finite sets are counted the same way wherever they are.
LEMMA CountsAgree ==
  ASSUME NEW S
  PROVE  /\ Thread!IsFiniteSet(S) <=> IsFiniteSet(S)
         /\ Thread!Cardinality(S) = Cardinality(S)
<1>1. Thread!IsFiniteSet(S) <=> IsFiniteSet(S)
  BY DEF Thread!IsFiniteSet, IsFiniteSet
<1>2. Thread!Cardinality(S) = Cardinality(S)
  BY DEF Thread!Cardinality, Cardinality
<1> QED
  BY <1>1, <1>2

\* Part of a finite set is smaller.
LEMMA Counting ==
  ASSUME NEW S, Thread!IsFiniteSet(S)
  PROVE  /\ Thread!Cardinality(S) \in Nat
         /\ \A T : T \subseteq S =>
              Thread!IsFiniteSet(T) /\ Thread!Cardinality(T) <= Thread!Cardinality(S)
         /\ \A x \in S :
              Thread!Cardinality(S \ {x}) = Thread!Cardinality(S) - 1 /\ Thread!Cardinality(S) # 0
<1>1. IsFiniteSet(S)
  BY CountsAgree
<1>2. Cardinality(S) \in Nat /\ \A x \in S : Cardinality(S \ {x}) = Cardinality(S) - 1
  BY <1>1, FS_CardinalityType, FS_RemoveElement
<1>3. \A T : T \subseteq S => IsFiniteSet(T) /\ Cardinality(T) <= Cardinality(S)
  BY <1>1, FS_Subset
<1>4. \A x \in S : Cardinality(S) # 0
  BY <1>1, FS_EmptySet
<1> QED
  BY <1>2, <1>3, <1>4, CountsAgree

\* A function is not another one, nor the cleanup or the stop.
LEMMA JobsDiffer ==
  /\ \A c, d, n, m : Thread!Job(c, n) = Thread!Job(d, m) => c = d /\ n = m
  /\ \A c, n :
       Thread!Job(c, n) # Thread!Cleanup /\ Thread!Job(c, n) # Thread!Stop
       /\ Thread!Job(c, n)[1] = c
  /\ Thread!Cleanup # Thread!Stop /\ Thread!Stop[1] = "stop"
  BY DEF Thread!Job, Thread!Cleanup, Thread!Stop

\* All of them may be queued.
LEMMA JobIsAJob ==
  /\ Thread!Cleanup \in Thread!Jobs /\ Thread!Stop \in Thread!Jobs
  /\ \A c \in Thread!Callers, n \in 1 .. MaxJobs : Thread!Job(c, n) \in Thread!Jobs
  BY DEF Thread!Jobs

\* What a sequence holds as it grows and shrinks.
LEMMA Holding ==
  ASSUME NEW S
  PROVE  /\ \A s \in Seq(S), e \in S : Thread!Range(Append(s, e)) = Thread!Range(s) \cup {e}
         /\ \A s \in Seq(S) : s # <<>> =>
              Head(s) \in S /\ Tail(s) \in Seq(S)
              /\ Thread!Range(s) = {Head(s)} \cup Thread!Range(Tail(s))
         /\ \A s, t \in Seq(S) : Thread!Range(s \o t) = Thread!Range(s) \cup Thread!Range(t)
         /\ Thread!Range(<<>>) = {}
<1>1. ASSUME NEW s \in Seq(S), NEW e \in S
      PROVE  Thread!Range(Append(s, e)) = Thread!Range(s) \cup {e}
  <2>1. /\ DOMAIN s = 1 .. Len(s) /\ Len(s) \in Nat /\ DOMAIN Append(s, e) = 1 .. Len(s) + 1
        /\ \A i \in 1 .. Len(s) : Append(s, e)[i] = s[i]
        /\ Append(s, e)[Len(s) + 1] = e
    OBVIOUS
  <2>2. 1 .. Len(s) + 1 = (1 .. Len(s)) \cup {Len(s) + 1}
    BY <2>1
  <2> QED
    BY <2>1, <2>2 DEF Thread!Range
<1>2. ASSUME NEW s \in Seq(S), s # <<>>
      PROVE  Head(s) \in S /\ Tail(s) \in Seq(S)
             /\ Thread!Range(s) = {Head(s)} \cup Thread!Range(Tail(s))
  <2>1. /\ Head(s) \in S /\ Head(s) = s[1] /\ 1 \in DOMAIN s
        /\ Tail(s) \in Seq(S) /\ Len(Tail(s)) = Len(s) - 1 /\ Len(s) \in Nat
        /\ DOMAIN s = 1..Len(s) /\ DOMAIN Tail(s) = 1..(Len(s) - 1)
        /\ \A i \in DOMAIN Tail(s) : i + 1 \in DOMAIN s /\ Tail(s)[i] = s[i + 1]
    BY <1>2, TailItems
  <2>2. \A i \in DOMAIN s : i = 1 \/ (i - 1 \in DOMAIN Tail(s) /\ (i - 1) + 1 = i)
    <3>1. \A n \in Nat : \A i \in 1 .. n : i = 1 \/ (i - 1 \in 1 .. (n - 1) /\ (i - 1) + 1 = i)
      OBVIOUS
    <3>2. \A i \in 1 .. Len(s) : i = 1 \/ (i - 1 \in 1 .. (Len(s) - 1) /\ (i - 1) + 1 = i)
      BY <2>1, <3>1
    <3> QED
      BY <2>1, <3>2
  <2>3. \A i \in DOMAIN s : i = 1 \/ (i - 1 \in DOMAIN Tail(s) /\ s[i] = Tail(s)[i - 1])
    BY <2>1, <2>2
  <2>4. Thread!Range(s) = {Head(s)} \cup Thread!Range(Tail(s))
    <3> DEFINE t == Tail(s)
               e == Head(s)
    <3>1. /\ \A i \in DOMAIN s : i = 1 \/ (i - 1 \in DOMAIN t /\ s[i] = t[i - 1])
          /\ \A i \in DOMAIN t : i + 1 \in DOMAIN s /\ t[i] = s[i + 1]
          /\ 1 \in DOMAIN s /\ e = s[1]
      BY <2>1, <2>3
    <3> HIDE DEF t, e
    <3>2. \A x : x \in Thread!Range(s) => x = e \/ x \in Thread!Range(t)
      BY <3>1 DEF Thread!Range
    <3>3. \A x : x = e \/ x \in Thread!Range(t) => x \in Thread!Range(s)
      BY <3>1 DEF Thread!Range
    <3>4. Thread!Range(s) = {e} \cup Thread!Range(t)
      BY <3>2, <3>3
    <3> QED
      BY <3>4 DEF t, e
  <2> QED
    BY <2>1, <2>4
<1>3. ASSUME NEW s \in Seq(S), NEW t \in Seq(S)
      PROVE  Thread!Range(s \o t) = Thread!Range(s) \cup Thread!Range(t)
  <2>1. PICK b \in Seq(S) : b = s \o t /\ Len(b) = Len(s) + Len(t) /\ Len(s) \in Nat
        /\ Len(t) \in Nat
    BY JoinedItems
  <2>2. DOMAIN s = 1 .. Len(s) /\ DOMAIN t = 1 .. Len(t) /\ DOMAIN b = 1 .. (Len(s) + Len(t))
    BY <2>1
  <2>3. \A i \in 1 .. (Len(s) + Len(t)) : b[i] = IF i <= Len(s) THEN s[i] ELSE t[i - Len(s)]
    BY <2>1, JoinedItems
  <2>4. \A i \in DOMAIN s : i \in DOMAIN b /\ b[i] = s[i]
    BY <2>1, <2>2, <2>3
  <2>5. \A i \in DOMAIN t : i + Len(s) \in DOMAIN b /\ b[i + Len(s)] = t[i]
    <3> SUFFICES ASSUME NEW i \in 1 .. Len(t)
                 PROVE  i + Len(s) \in 1 .. (Len(s) + Len(t)) /\ b[i + Len(s)] = t[i]
      BY <2>2
    <3>1. i + Len(s) \in 1 .. (Len(s) + Len(t)) /\ ~(i + Len(s) <= Len(s))
          /\ i + Len(s) - Len(s) = i
      BY <2>1
    <3> QED
      BY <2>3, <3>1
  <2>6. \A i \in DOMAIN b : \/ i \in DOMAIN s /\ b[i] = s[i]
                            \/ i - Len(s) \in DOMAIN t /\ b[i] = t[i - Len(s)]
    <3> SUFFICES ASSUME NEW i \in 1 .. (Len(s) + Len(t))
                 PROVE  \/ i \in 1 .. Len(s) /\ b[i] = s[i]
                        \/ i - Len(s) \in 1 .. Len(t) /\ b[i] = t[i - Len(s)]
      BY <2>2
    <3>1. CASE i <= Len(s)
      BY <2>1, <2>3, <3>1
    <3>2. CASE ~(i <= Len(s))
      <4>1. i - Len(s) \in 1 .. Len(t)
        BY <2>1, <3>2
      <4> QED
        BY <2>3, <3>2, <4>1
    <3> QED
      BY <3>1, <3>2
  <2>7. Thread!Range(b) = Thread!Range(s) \cup Thread!Range(t)
    <3>1. \A x : x \in Thread!Range(b) => x \in Thread!Range(s) \cup Thread!Range(t)
      BY <2>6 DEF Thread!Range
    <3>2. \A x : x \in Thread!Range(s) => x \in Thread!Range(b)
      BY <2>4 DEF Thread!Range
    <3>3. \A x : x \in Thread!Range(t) => x \in Thread!Range(b)
      BY <2>5 DEF Thread!Range
    <3> QED
      BY <3>1, <3>2, <3>3
  <2> QED
    BY <2>1, <2>7
<1>4. Thread!Range(<<>>) = {}
  <2>1. DOMAIN <<>> = {}
    OBVIOUS
  <2> QED
    BY <2>1 DEF Thread!Range
<1> QED
  BY <1>1, <1>2, <1>3, <1>4

\* What was queued has run or still waits to.
LEMMA QueuedHolds ==
  Thread!ThreadTypeOK => /\ Thread!Queued \in Seq(Thread!Jobs)
                         /\ Thread!Range(Thread!Queued) = Thread!Range(s12) \cup Thread!Range(s6)
<1> DEFINE queue == s6
           ran == s12
<1> SUFFICES ASSUME Thread!ThreadTypeOK
             PROVE Thread!Queued \in Seq(Thread!Jobs)
                   /\ Thread!Range(Thread!Queued) = Thread!Range(ran) \cup Thread!Range(queue)
  OBVIOUS
<1>1. ran \in Seq(Thread!Jobs) /\ queue \in Seq(Thread!Jobs)
  BY DEF Thread!ThreadTypeOK
<1>2. Thread!Queued \in Seq(Thread!Jobs)
  BY <1>1, JoinedItems DEF Thread!Queued
<1>3. Thread!Range(Thread!Queued) = Thread!Range(ran) \cup Thread!Range(queue)
  BY <1>1, Holding DEF Thread!Queued
<1> QED
  BY <1>2, <1>3

\* Queuing a function.
LEMMA SendQueues ==
  ASSUME Thread!ThreadTypeOK, NEW e \in Thread!Jobs, s6' = Append(s6, e), s12' = s12
  PROVE  /\ s6' \in Seq(Thread!Jobs) /\ Len(s6) \in Nat /\ Len(s6') = Len(s6) + 1
         /\ Thread!Range(s6') = Thread!Range(s6) \cup {e}
         /\ Thread!Queued' = Append(Thread!Queued, e)
         /\ Thread!Range(Thread!Queued') = Thread!Range(Thread!Queued) \cup {e}
<1> DEFINE queue == s6
           ran == s12
<1>1. ran \in Seq(Thread!Jobs) /\ queue \in Seq(Thread!Jobs)
  BY DEF Thread!ThreadTypeOK
<1>2. queue' \in Seq(Thread!Jobs) /\ Len(queue) \in Nat /\ Len(queue') = Len(queue) + 1
  BY <1>1, AppendItems
<1>3. Thread!Range(queue') = Thread!Range(queue) \cup {e}
  BY <1>1, Holding
<1>4. Thread!Queued' = Append(Thread!Queued, e)
  BY <1>1, QueuingKeepsOrder DEF Thread!Queued
<1>5. Thread!Range(Thread!Queued') = Thread!Range(Thread!Queued) \cup {e}
  BY <1>4, Holding, QueuedHolds
<1> QED
  BY <1>2, <1>3, <1>4, <1>5

\* Running the first that is queued.
LEMMA RunQueues ==
  ASSUME Thread!ThreadTypeOK, s6 # <<>>, s6' = Tail(s6), s12' = Append(s12, Head(s6))
  PROVE  /\ Head(s6) \in Thread!Jobs /\ s6' \in Seq(Thread!Jobs) /\ s12' \in Seq(Thread!Jobs)
         /\ Len(s6) \in Nat /\ Len(s6') = Len(s6) - 1
         /\ Thread!Range(s6) = Thread!Range(s6') \cup {Head(s6)}
         /\ Thread!Range(s12') = Thread!Range(s12) \cup {Head(s6)}
         /\ Thread!Queued' = Thread!Queued
<1> DEFINE queue == s6
           ran == s12
<1>1. ran \in Seq(Thread!Jobs) /\ queue \in Seq(Thread!Jobs)
  BY DEF Thread!ThreadTypeOK
<1>2. Head(queue) \in Thread!Jobs /\ queue' \in Seq(Thread!Jobs) /\ Len(queue) \in Nat
      /\ Len(queue') = Len(queue) - 1
  BY <1>1, TailItems
<1>3. Thread!Range(queue) = Thread!Range(queue') \cup {Head(queue)}
      /\ Thread!Range(ran') = Thread!Range(ran) \cup {Head(queue)}
  BY <1>1, <1>2, Holding
<1>4. ran' \in Seq(Thread!Jobs)
  BY <1>1, <1>2, AppendItems
<1>5. Thread!Queued' = Thread!Queued
  BY <1>1, ArrivingKeepsOrder DEF Thread!Queued
<1> QED
  BY <1>2, <1>3, <1>4, <1>5

\* Messages to the thread.
LEMMA MessagesMove ==
  ASSUME Thread!ThreadTypeOK
  PROVE  /\ \A m \in {"run", "stop"} :
              /\ Append(s7, m) \in Seq({"run", "stop"}) /\ Append(s7, m) # <<>>
              /\ Thread!Range(Append(s7, m)) = Thread!Range(s7) \cup {m}
         /\ s7 # <<>> =>
              /\ Head(s7) \in {"run", "stop"} /\ Tail(s7) \in Seq({"run", "stop"})
              /\ Thread!Range(s7) = Thread!Range(Tail(s7)) \cup {Head(s7)}
         /\ s7 = <<>> => Thread!Range(s7) = {}
<1> DEFINE messages == s7
<1> DEFINE M == {"run", "stop"}
<1>1. messages \in Seq(M)
  BY DEF Thread!ThreadTypeOK
<1> HIDE DEF M
<1>2. ASSUME NEW m \in M
      PROVE  Append(messages, m) \in Seq(M) /\ Append(messages, m) # <<>>
             /\ Thread!Range(Append(messages, m)) = Thread!Range(messages) \cup {m}
  <2>1. Append(messages, m) \in Seq(M) /\ Len(Append(messages, m)) = Len(messages) + 1
        /\ Len(messages) \in Nat
    BY <1>1, AppendItems
  <2>2. Append(messages, m) # <<>>
    BY <2>1
  <2> QED
    BY <1>1, <2>1, <2>2, Holding
<1>3. messages # <<>> =>
        /\ Head(messages) \in M /\ Tail(messages) \in Seq(M)
        /\ Thread!Range(messages) = Thread!Range(Tail(messages)) \cup {Head(messages)}
  BY <1>1, Holding
<1>4. messages = <<>> => Thread!Range(messages) = {}
  BY Holding
<1> QED
  BY <1>2, <1>3, <1>4 DEF M

\* Where neither the queue nor what ran changes.
LEMMA QueuedStays ==
  UNCHANGED <<s6, s12>> =>
    /\ Thread!Queued' = Thread!Queued
    /\ Thread!Range(Thread!Queued)' = Thread!Range(Thread!Queued)
    /\ Thread!Range(s6)' = Thread!Range(s6) /\ Thread!Range(s12)' = Thread!Range(s12)
  BY DEF Thread!Queued

\* What is at a place of what was queued is in it.
LEMMA QueuedItems ==
  ASSUME Thread!ThreadTypeOK
  PROVE  /\ Len(Thread!Queued) \in Nat /\ Len(s12) \in Nat
         /\ DOMAIN Thread!Queued = 1 .. Len(Thread!Queued) /\ DOMAIN s12 = 1 .. Len(s12)
         /\ \A i \in 1 .. Len(Thread!Queued) : Thread!Queued[i] \in Thread!Range(Thread!Queued)
         /\ \A x \in Thread!Range(Thread!Queued) : \E i \in 1 .. Len(Thread!Queued) :
              Thread!Queued[i] = x
         /\ \A i \in 1 .. Len(s12) : s12[i] \in Thread!Range(s12)
         /\ \A x \in Thread!Range(s12) : \E i \in 1 .. Len(s12) : s12[i] = x
<1> DEFINE ran == s12
<1>1. ran \in Seq(Thread!Jobs) /\ Thread!Queued \in Seq(Thread!Jobs)
  BY QueuedHolds DEF Thread!ThreadTypeOK
<1>2. Len(Thread!Queued) \in Nat /\ Len(ran) \in Nat
      /\ DOMAIN Thread!Queued = 1 .. Len(Thread!Queued) /\ DOMAIN ran = 1 .. Len(ran)
  BY <1>1
<1> QED
  BY <1>2 DEF Thread!Range

\* A caller sets out to queue a function.
LEMMA PostKeeps ==
  ASSUME Thread!WindowThreadAssumption, Thread!WindowThreadInv, NEW c \in Thread!Callers,
         NEW wait \in BOOLEAN, Thread!Post(c, wait)
  PROVE  Thread!WindowThreadInv'
<1> DEFINE backend == s1
           pc == s2
           job == s3
           waits == s4
           made == s5
           queue == s6
           messages == s7
           done == s8
           once == s9
           thread == s10
           failed == s11
           ran == s12
<1> USE DEF Thread!WindowThreadInv
<1>1. /\ UNCHANGED <<backend, queue, messages, done, once, thread, failed, ran>>
      /\ pc[c] = "idle" /\ made[c] < MaxJobs /\ made' = [made EXCEPT ![c] = @ + 1]
      /\ c = Client => once \notin {"client", "over"}
      /\ made[c] \in 0 .. MaxJobs /\ MaxJobs \in Nat /\ made'[c] = made[c] + 1
      /\ made'[c] \in 1 .. MaxJobs
      /\ \A d \in Thread!Callers \ {c} : made'[d] = made[d]
  BY DEF Thread!Post, Thread!WindowThreadAssumption, Thread!ThreadTypeOK
<1>2. /\ job' = [job EXCEPT ![c] = Thread!Job(c, made'[c])] /\ waits' = [waits EXCEPT ![c] = wait]
      /\ pc' = [pc EXCEPT ![c] = IF ~done THEN "send" ELSE IF wait THEN "wait" ELSE "idle"]
  BY DEF Thread!Post, Thread!Queue
<1>3. /\ \A d \in Thread!Callers \ {c} :
           pc'[d] = pc[d] /\ job'[d] = job[d] /\ waits'[d] = waits[d]
      /\ pc'[c] = IF ~done THEN "send" ELSE IF wait THEN "wait" ELSE "idle"
      /\ job'[c] = Thread!Job(c, made'[c]) /\ waits'[c] = wait
  BY <1>2 DEF Thread!ThreadTypeOK
<1>4. Thread!Queued' = Thread!Queued /\ Thread!Range(queue)' = Thread!Range(queue)
      /\ Thread!Range(ran)' = Thread!Range(ran)
      /\ Thread!Range(Thread!Queued)' = Thread!Range(Thread!Queued)
  BY <1>1, QueuedStays
<1>5. Client \in Thread!Callers /\ Others = Thread!Callers \ {Client}
  BY DEF Thread!WindowThreadAssumption, Thread!Callers
<1>10. Thread!ThreadTypeOK'
  <2>1. Thread!Job(c, made'[c]) \in Thread!Jobs
    BY <1>1, JobIsAJob
  <2>2. made' \in [Thread!Callers -> 0 .. MaxJobs]
    BY <1>1 DEF Thread!ThreadTypeOK
  <2> QED
    BY <1>1, <1>2, <2>1, <2>2 DEF Thread!ThreadTypeOK
<1>11. Thread!OwnJobs'
  <2>1. \A d \in Others :
          /\ pc'[d] # "stop"
          /\ \/ pc'[d] = "idle" /\ job'[d] = Thread!Stop
             \/ \E n \in 1 .. MaxJobs : job'[d] = Thread!Job(d, n)
    BY <1>1, <1>3, <1>5 DEF Thread!OwnJobs
  <2> QED
    BY <1>1, <1>3, <1>5, <2>1 DEF Thread!OwnJobs, Thread!ClosingInv, Thread!ThreadTypeOK
<1>6. c = Client => /\ once = "nobody" /\ ~done /\ pc'[Client] = "send"
                    /\ job'[Client] = Thread!Job(Client, made'[Client])
                    /\ made'[Client] = made[Client] + 1
  BY <1>1, <1>3 DEF Thread!ThreadTypeOK, Thread!ClosingInv
<1>7. c # Client => /\ pc'[Client] = pc[Client] /\ job'[Client] = job[Client]
                    /\ made'[Client] = made[Client] /\ waits'[Client] = waits[Client]
  BY <1>1, <1>3, <1>5
<1>8. Thread!Range(messages)' = Thread!Range(messages) /\ made[Client] \in Nat
  BY <1>1, <1>5 DEF Thread!ThreadTypeOK, Thread!WindowThreadAssumption
<1>12. Thread!ClosingInv'
  <2>1. CASE c = Client
    BY <1>1, <1>6, <1>8, <2>1 DEF Thread!ClosingInv
  <2>2. CASE c # Client
    BY <1>1, <1>7, <1>8, <2>2 DEF Thread!ClosingInv
  <2> QED
    BY <2>1, <2>2
<1>13. Thread!StopInv'
  <2>1. done => {d \in Others : pc'[d] = "send"} = {d \in Others : pc[d] = "send"}
    BY <1>1, <1>3, <1>5
  <2> QED
    BY <1>1, <1>3, <1>4, <1>5, <2>1 DEF Thread!StopInv, Thread!ClosingInv
<1>14. Thread!AwakeInv'
  BY <1>1, <1>3, <1>4 DEF Thread!AwakeInv
<1>15. Thread!LastOnWindows'
  <2>1. CASE c = Client
    <3>1. \A k \in 1 .. made'[Client] : k \in 1 .. made[Client] \/ k = made'[Client]
      BY <1>6, <1>8, <2>1
    <3>2. pc[Client] = "idle"
      BY <1>1, <2>1
    <3> QED
      BY <1>1, <1>4, <1>6, <1>8, <2>1, <3>1, <3>2 DEF Thread!LastOnWindows
  <2>2. CASE c # Client
    BY <1>1, <1>4, <1>7, <1>8, <2>2 DEF Thread!LastOnWindows
  <2> QED
    BY <2>1, <2>2
<1>16. Thread!LastOnAppKit'
  <2>1. CASE c = Client
    <3>1. \A k \in 1 .. made'[Client] : k \in 1 .. made[Client] \/ k = made'[Client]
      BY <1>6, <1>8, <2>1
    <3>2. backend = "darwin" => Thread!Cleanup \notin Thread!Range(Thread!Queued)
      BY <1>6, <2>1 DEF Thread!LastOnAppKit
    <3>3. backend = "darwin" =>
            \A i \in 1 .. Len(Thread!Queued) : Thread!Queued[i] # Thread!Cleanup
      BY <3>2, QueuedHolds, QueuedItems
    <3>4. pc[Client] = "idle"
      BY <1>1, <2>1
    <3>5. ASSUME backend = "darwin", NEW k \in 1 .. made'[Client]
          PROVE  \/ Thread!Job(Client, k) \in Thread!Range(Thread!Queued')
                 \/ pc'[Client] = "send" /\ job'[Client] = Thread!Job(Client, k)
      BY <1>4, <1>6, <2>1, <3>1, <3>4, <3>5 DEF Thread!LastOnAppKit
    <3> QED
      BY <1>1, <1>4, <3>2, <3>3, <3>5 DEF Thread!LastOnAppKit
  <2>2. CASE c # Client
    BY <1>1, <1>4, <1>7, <2>2 DEF Thread!LastOnAppKit
  <2> QED
    BY <2>1, <2>2
<1> QED
  BY <1>10, <1>11, <1>12, <1>13, <1>14, <1>15, <1>16

\* The goroutines, and what they may be queueing.
LEMMA Goroutines ==
  ASSUME Thread!WindowThreadAssumption, Thread!WindowThreadInv
  PROVE  /\ Client \in Thread!Callers /\ Others = Thread!Callers \ {Client}
         /\ \A c \in Thread!Callers : s3[c] \in Thread!Jobs
         /\ \A c \in Others : s2[c] # "idle" =>
              s3[c] # Thread!Cleanup /\ s3[c] # Thread!Stop /\ s3[c][1] = c
         /\ s2[Client] \in {"send", "wake", "wait"} =>
              \/ /\ s3[Client] = Thread!Job(Client, s5[Client])
                 /\ s3[Client] # Thread!Cleanup /\ s3[Client] # Thread!Stop
                 /\ (s1 = "darwin" => s9 = "nobody")
              \/ s3[Client] = Thread!Cleanup /\ s1 = "darwin" /\ s9 = "client"
              \/ s3[Client] = Thread!Stop /\ s1 = "darwin" /\ s9 = "over" /\ ~s4[Client]
                 /\ s2[Client] # "wait"
<1> DEFINE pc == s2
           job == s3
           made == s5
<1>1. Client \in Thread!Callers /\ Others = Thread!Callers \ {Client}
  BY DEF Thread!WindowThreadAssumption, Thread!Callers
<1>2. \A c \in Thread!Callers : job[c] \in Thread!Jobs
  BY DEF Thread!WindowThreadInv, Thread!ThreadTypeOK
<1>3. ASSUME NEW c \in Others, pc[c] # "idle"
      PROVE  job[c] # Thread!Cleanup /\ job[c] # Thread!Stop /\ job[c][1] = c
  <2>1. PICK n \in 1 .. MaxJobs : job[c] = Thread!Job(c, n)
    BY <1>3 DEF Thread!WindowThreadInv, Thread!OwnJobs
  <2> QED
    BY <2>1, JobsDiffer
<1>4. Thread!Job(Client, made[Client]) # Thread!Cleanup
      /\ Thread!Job(Client, made[Client]) # Thread!Stop
  BY JobsDiffer
<1> QED
  BY <1>1, <1>2, <1>3, <1>4 DEF Thread!WindowThreadInv, Thread!OwnJobs

\* A function is queued.
LEMMA SendKeeps ==
  ASSUME Thread!WindowThreadAssumption, Thread!WindowThreadInv, NEW c \in Thread!Callers,
         s2[c] = "send",
         ~Thread!Full, s6' = Append(s6, s3[c]), s2' = [s2 EXCEPT ![c] = "wake"],
         UNCHANGED <<s1, s3, s4, s5, s7, s8, s9, s10, s11, s12>>
  PROVE  Thread!WindowThreadInv'
<1> DEFINE backend == s1
           pc == s2
           job == s3
           made == s5
           queue == s6
           messages == s7
           once == s9
           thread == s10
           failed == s11
           ran == s12
<1> USE DEF Thread!WindowThreadInv
<1> DEFINE e == job[c]
<1>1. /\ Client \in Thread!Callers /\ Others = Thread!Callers \ {Client}
      /\ pc'[c] = "wake" /\ \A d \in Thread!Callers \ {c} : pc'[d] = pc[d]
  BY Goroutines DEF Thread!ThreadTypeOK
<1>2. /\ e \in Thread!Jobs
      /\ c \in Others => e # Thread!Cleanup /\ e # Thread!Stop /\ e[1] \in Others
      /\ e = Thread!Cleanup => c = Client /\ backend = "darwin" /\ once = "client"
      /\ e = Thread!Stop => c = Client /\ backend = "darwin" /\ once = "over"
      /\ c = Client /\ backend = "darwin" =>
           e = Thread!Stop \/ e = Thread!Cleanup \/ once = "nobody"
  <2>1. CASE c = Client
    <3>1. c \notin Others /\ Thread!Cleanup # Thread!Stop /\ e \in Thread!Jobs
      BY Goroutines, JobsDiffer, <1>1, <2>1
    <3> QED
      BY Goroutines, <2>1, <3>1
  <2>2. CASE c # Client
    <3>1. c \in Others /\ pc[c] # "idle"
      BY <1>1, <2>2
    <3> QED
      BY Goroutines, <2>2, <3>1
  <2> QED
    BY <2>1, <2>2
<1>3. /\ queue' \in Seq(Thread!Jobs) /\ Len(queue) \in Nat /\ Len(queue') = Len(queue) + 1
      /\ Thread!Range(queue') = Thread!Range(queue) \cup {e}
      /\ Thread!Queued' = Append(Thread!Queued, e)
      /\ Thread!Range(Thread!Queued') = Thread!Range(Thread!Queued) \cup {e}
  BY <1>2, SendQueues
<1>4. Thread!Range(ran') = Thread!Range(ran) /\ Thread!Range(messages') = Thread!Range(messages)
      /\ Thread!Range(ran) \subseteq Thread!Range(Thread!Queued) /\ e' = e
  BY QueuedHolds
<1> HIDE DEF e
<1>10. Thread!ThreadTypeOK'
  BY <1>3 DEF Thread!ThreadTypeOK
<1>11. Thread!OwnJobs'
  BY <1>1 DEF Thread!OwnJobs
<1>12. Thread!ClosingInv'
  BY <1>1 DEF Thread!ClosingInv
<1>13. Thread!StopInv'
  <2>1. Thread!Stop \in Thread!Range(Thread!Queued') =>
          backend = "darwin" /\ once = "over" /\ pc'[Client] # "send"
    BY <1>1, <1>2, <1>3 DEF Thread!StopInv
  <2>2. ASSUME backend = "darwin", thread = "ended"
        PROVE  Len(queue') + Thread!Cardinality({d \in Others : pc'[d] = "send"}) <= Capacity
    <3> DEFINE W == {d \in Others : pc[d] = "send"}
               V == {d \in Others : pc'[d] = "send"}
    <3>1. Thread!Stop \in Thread!Range(Thread!Queued) /\ pc[Client] # "send" /\ c \in Others
      BY <1>1, <1>4, <2>2 DEF Thread!StopInv
    <3>2. Thread!IsFiniteSet(W) /\ c \in W /\ V = W \ {c}
      <4>1. Thread!IsFiniteSet(W)
        BY Counting DEF Thread!WindowThreadAssumption
      <4>2. c \in W
        BY <3>1
      <4>3. V = W \ {c}
        BY <1>1, <3>1
      <4> QED
        BY <4>1, <4>2, <4>3
    <3>3. Thread!Cardinality(V) = Thread!Cardinality(W) - 1 /\ Thread!Cardinality(W) \in Nat
      BY <3>2, Counting
    <3>4. Len(queue) + Thread!Cardinality(W) <= Capacity
      BY <2>2 DEF Thread!StopInv
    <3> HIDE DEF W, V
    <3>5. Len(queue') + Thread!Cardinality(V) = Len(queue) + Thread!Cardinality(W)
      BY <1>3, <3>3
    <3> QED
      BY <3>4, <3>5 DEF V
  <2> QED
    BY <1>4, <2>1, <2>2 DEF Thread!StopInv
<1>14. Thread!AwakeInv'
  BY <1>1, <1>2, <1>3, <1>4 DEF Thread!AwakeInv, e
<1>15. Thread!LastOnWindows'
  <2> SUFFICES ASSUME backend = "win32" PROVE Thread!LastOnWindows'
    BY DEF Thread!LastOnWindows
  <2>1. Thread!Cleanup \notin Thread!Range(queue')
    BY <1>2, <1>3 DEF Thread!LastOnWindows
  <2>2. ~failed /\ pc[Client] = "send" => thread \notin {"unwinding", "ended"}
    BY DEF Thread!ClosingInv
  <2>3. ASSUME ~failed, NEW k \in 1 .. made[Client]
        PROVE  \/ Thread!Job(Client, k) \in Thread!Range(ran)
               \/ /\ Thread!Job(Client, k) \in Thread!Range(queue')
                  /\ \/ "run" \in Thread!Range(messages) \/ thread \in {"running", "lastCalls"}
                     \/ pc'[Client] = "wake"
                  /\ thread \notin {"unwinding", "ended"}
               \/ pc'[Client] = "send" /\ job[Client] = Thread!Job(Client, k)
    BY <1>1, <1>3, <2>2, <2>3 DEF Thread!LastOnWindows, e
  <2> QED
    BY <1>4, <2>1, <2>3 DEF Thread!LastOnWindows
<1>16. Thread!LastOnAppKit'
  <2> SUFFICES ASSUME backend = "darwin" PROVE Thread!LastOnAppKit'
    BY DEF Thread!LastOnAppKit
  <2>1. Thread!Cleanup \in Thread!Range(Thread!Queued') =>
          once # "nobody" /\ ~(pc'[Client] = "send" /\ job[Client] = Thread!Cleanup)
    BY <1>1, <1>2, <1>3 DEF Thread!LastOnAppKit, e
  <2>2. \A k \in 1 .. made[Client] :
          \/ Thread!Job(Client, k) \in Thread!Range(Thread!Queued')
          \/ pc'[Client] = "send" /\ job[Client] = Thread!Job(Client, k)
    BY <1>1, <1>3 DEF Thread!LastOnAppKit, e
  <2>3. /\ Len(Thread!Queued) \in Nat /\ Len(Thread!Queued') = Len(Thread!Queued) + 1
        /\ Thread!Queued'[Len(Thread!Queued) + 1] = e
        /\ \A i \in 1 .. Len(Thread!Queued) : Thread!Queued'[i] = Thread!Queued[i]
    BY <1>2, <1>3, QueuedHolds, AppendItems
  <2>4. ASSUME NEW i \in 1 .. Len(Thread!Queued'), Thread!Queued'[i] = Thread!Cleanup
        PROVE  /\ \A k \in 1 .. made[Client] : \E j \in 1 .. i :
                    Thread!Queued'[j] = Thread!Job(Client, k)
               /\ \A j \in i + 1 .. Len(Thread!Queued') :
                    Thread!Queued'[j] # Thread!Cleanup
                    /\ Thread!Queued'[j][1] \in Others \cup {"stop"}
    <3>1. CASE i \in 1 .. Len(Thread!Queued)
      <4>1. /\ \A k \in 1 .. made[Client] : \E j \in 1 .. i :
                 Thread!Queued[j] = Thread!Job(Client, k)
            /\ \A j \in i + 1 .. Len(Thread!Queued) :
                 Thread!Queued[j] # Thread!Cleanup /\ Thread!Queued[j][1] \in Others \cup {"stop"}
        BY <2>3, <2>4, <3>1 DEF Thread!LastOnAppKit
      <4>2. \A j \in 1 .. i : j \in 1 .. Len(Thread!Queued)
        BY <2>3, <3>1
      <4>3. \A j \in i + 1 .. Len(Thread!Queued') :
              \/ j \in i + 1 .. Len(Thread!Queued) /\ j \in 1 .. Len(Thread!Queued)
              \/ j = Len(Thread!Queued) + 1
        <5>1. \A n \in Nat : \A m \in 1 .. n : \A j \in m + 1 .. n + 1 :
                (j \in m + 1 .. n /\ j \in 1 .. n) \/ j = n + 1
          OBVIOUS
        <5> QED
          BY <2>3, <3>1, <5>1
      <4>4. Thread!Cleanup \in Thread!Range(Thread!Queued)
        BY <2>3, <2>4, <3>1, QueuedItems
      <4>5. e # Thread!Cleanup /\ e[1] \in Others \cup {"stop"}
        <5>1. CASE c = Client
          BY <1>2, <4>4, <5>1, JobsDiffer DEF Thread!LastOnAppKit, e
        <5>2. CASE c # Client
          BY <1>1, <1>2, <5>2
        <5> QED
          BY <5>1, <5>2
      <4> QED
        BY <2>3, <4>1, <4>2, <4>3, <4>5
    <3>2. CASE i = Len(Thread!Queued) + 1
      <4>1. c = Client /\ job[Client] = Thread!Cleanup
        BY <1>2, <2>3, <2>4, <3>2 DEF e
      <4>2. \A k \in 1 .. made[Client] : Thread!Job(Client, k) \in Thread!Range(Thread!Queued)
        BY <4>1, JobsDiffer DEF Thread!LastOnAppKit
      <4>3. \A k \in 1 .. made[Client] : \E j \in 1 .. Len(Thread!Queued) :
              Thread!Queued[j] = Thread!Job(Client, k)
        BY <4>2, QueuedItems
      <4>4. \A j \in 1 .. Len(Thread!Queued) : j \in 1 .. i
        BY <2>3, <3>2
      <4>5. \A j \in i + 1 .. Len(Thread!Queued') : FALSE
        BY <2>3, <3>2
      <4> QED
        BY <2>3, <4>3, <4>4, <4>5
    <3> QED
      BY <2>3, <3>1, <3>2
  <2> QED
    BY <2>1, <2>2, <2>4 DEF Thread!LastOnAppKit
<1> QED
  BY <1>10, <1>11, <1>12, <1>13, <1>14, <1>15, <1>16

\* A caller that has woken the thread, or need not, waits or goes on.
LEMMA SentKeeps ==
  ASSUME Thread!WindowThreadAssumption, Thread!WindowThreadInv, NEW c \in Thread!Callers,
         \/ s2[c] = "send" /\ s1 = "win32" /\ s8 /\ UNCHANGED s7
         \/ s2[c] = "wake" /\ Thread!Arrives("run"),
         Thread!Sent(c),
         UNCHANGED <<s1, s3, s4, s5, s6, s8, s9, s10, s11, s12>>
  PROVE  Thread!WindowThreadInv'
<1> DEFINE backend == s1
           pc == s2
           job == s3
           waits == s4
           made == s5
           queue == s6
           messages == s7
           done == s8
           thread == s10
           failed == s11
           ran == s12
<1> USE DEF Thread!WindowThreadInv
<1>1. /\ Client \in Thread!Callers /\ Others = Thread!Callers \ {Client}
      /\ pc'[c] = (IF waits[c] THEN "wait" ELSE "idle")
      /\ \A d \in Thread!Callers \ {c} : pc'[d] = pc[d]
      /\ pc' \in [Thread!Callers -> {"idle", "send", "wake", "wait", "stop"}]
  BY Goroutines DEF Thread!ThreadTypeOK, Thread!Sent
<1>2. Thread!Queued' = Thread!Queued /\ Thread!Range(queue)' = Thread!Range(queue)
      /\ Thread!Range(ran)' = Thread!Range(ran)
      /\ Thread!Range(Thread!Queued)' = Thread!Range(Thread!Queued)
  BY QueuedStays
<1>3. /\ messages' \in Seq({"run", "stop"})
      /\ "stop" \in Thread!Range(messages') <=> "stop" \in Thread!Range(messages)
      /\ "run" \in Thread!Range(messages) => "run" \in Thread!Range(messages')
      /\ messages # <<>> => messages' # <<>>
      /\ pc[c] = "wake" /\ Thread!Listening =>
           messages' # <<>> /\ "run" \in Thread!Range(messages')
  BY MessagesMove DEF Thread!Arrives, Thread!ThreadTypeOK
<1>10. Thread!ThreadTypeOK'
  BY <1>1, <1>3 DEF Thread!ThreadTypeOK
<1>11. Thread!OwnJobs'
  <2>1. \A d \in Others : pc[d] # "idle" => \E n \in 1 .. MaxJobs : job[d] = Thread!Job(d, n)
    BY DEF Thread!OwnJobs
  <2>2. CASE c = Client
    BY <1>1, <2>2 DEF Thread!OwnJobs
  <2>3. CASE c # Client
    BY <1>1, <2>1, <2>3 DEF Thread!OwnJobs
  <2> QED
    BY <2>2, <2>3
<1>12. Thread!ClosingInv'
  BY <1>1, <1>3 DEF Thread!ClosingInv
<1>13. Thread!StopInv'
  <2>1. backend = "darwin" =>
          {d \in Others : pc'[d] = "send"} = {d \in Others : pc[d] = "send"}
    BY <1>1
  <2> QED
    BY <1>1, <1>2, <1>3, <2>1 DEF Thread!StopInv
<1>14. Thread!AwakeInv'
  <2>1. ASSUME pc[c] = "wake", pc'[c] = "wait", ~done, job[c] \notin Thread!Range(ran)
        PROVE  job[c] \in Thread!Range(queue) /\ (messages' # <<>> \/ thread = "unwinding")
    <3>1. job[c] \in Thread!Range(queue)
      BY <2>1, QueuedHolds DEF Thread!AwakeInv
    <3>2. thread # "ended"
      BY <2>1 DEF Thread!ClosingInv
    <3> QED
      BY <1>3, <2>1, <3>1, <3>2 DEF Thread!Listening
  <2> QED
    BY <1>1, <1>2, <1>3, <2>1 DEF Thread!AwakeInv
<1>15. Thread!LastOnWindows'
  <2> SUFFICES ASSUME backend = "win32" PROVE Thread!LastOnWindows'
    BY DEF Thread!LastOnWindows
  <2>1. ~failed /\ pc[Client] = "send" => ~done
    BY DEF Thread!ClosingInv
  <2>2. ASSUME ~failed, NEW k \in 1 .. made[Client]
        PROVE  \/ Thread!Job(Client, k) \in Thread!Range(ran)
               \/ /\ Thread!Job(Client, k) \in Thread!Range(queue)
                  /\ \/ "run" \in Thread!Range(messages') \/ thread \in {"running", "lastCalls"}
                     \/ pc'[Client] = "wake"
                  /\ thread \notin {"unwinding", "ended"}
               \/ pc'[Client] = "send" /\ job[Client] = Thread!Job(Client, k)
    BY <1>1, <1>3, <2>1, <2>2 DEF Thread!LastOnWindows, Thread!Listening
  <2> QED
    BY <1>2, <2>2 DEF Thread!LastOnWindows
<1>16. Thread!LastOnAppKit'
  <2>1. backend = "darwin" =>
          pc'[Client] = pc[Client] \/ (pc[Client] # "send" /\ pc'[Client] # "send")
    BY <1>1
  <2> QED
    BY <1>2, <2>1 DEF Thread!LastOnAppKit
<1> QED
  BY <1>10, <1>11, <1>12, <1>13, <1>14, <1>15, <1>16

\* A call returns.
LEMMA ReturnKeeps ==
  ASSUME Thread!WindowThreadAssumption, Thread!WindowThreadInv, NEW c \in Thread!Callers,
         Thread!Return(c)
  PROVE  Thread!WindowThreadInv'
<1> DEFINE backend == s1
           pc == s2
           job == s3
           waits == s4
           made == s5
           queue == s6
           messages == s7
           done == s8
           once == s9
           thread == s10
           failed == s11
           ran == s12
<1> USE DEF Thread!WindowThreadInv
<1>1. /\ Client \in Thread!Callers /\ Others = Thread!Callers \ {Client}
      /\ pc[c] = "wait" /\ pc' = [pc EXCEPT ![c] = "idle"]
      /\ UNCHANGED <<backend, job, waits, made, queue, messages, done, once, thread, failed, ran>>
  BY Goroutines DEF Thread!Return
<1>2. /\ pc'[c] = "idle" /\ \A d \in Thread!Callers \ {c} : pc'[d] = pc[d]
      /\ pc' \in [Thread!Callers -> {"idle", "send", "wake", "wait", "stop"}]
  BY <1>1 DEF Thread!ThreadTypeOK
<1>3. Thread!Queued' = Thread!Queued /\ Thread!Range(queue)' = Thread!Range(queue)
      /\ Thread!Range(ran)' = Thread!Range(ran)
      /\ Thread!Range(Thread!Queued)' = Thread!Range(Thread!Queued)
      /\ Thread!Range(messages)' = Thread!Range(messages)
  BY <1>1, QueuedStays
<1>10. Thread!ThreadTypeOK'
  BY <1>1, <1>2 DEF Thread!ThreadTypeOK
<1>11. Thread!OwnJobs'
  BY <1>1, <1>2 DEF Thread!OwnJobs
<1>12. Thread!ClosingInv'
  BY <1>1, <1>2, <1>3 DEF Thread!ClosingInv
<1>13. Thread!StopInv'
  <2>1. {d \in Others : pc'[d] = "send"} = {d \in Others : pc[d] = "send"}
    BY <1>1, <1>2
  <2> QED
    BY <1>1, <1>2, <1>3, <2>1 DEF Thread!StopInv
<1>14. Thread!AwakeInv'
  BY <1>1, <1>2, <1>3 DEF Thread!AwakeInv
<1>15. Thread!LastOnWindows'
  BY <1>1, <1>2, <1>3 DEF Thread!LastOnWindows
<1>16. Thread!LastOnAppKit'
  BY <1>1, <1>2, <1>3 DEF Thread!LastOnAppKit
<1> QED
  BY <1>10, <1>11, <1>12, <1>13, <1>14, <1>15, <1>16

\* The client closes the display.
LEMMA CloseKeeps ==
  ASSUME Thread!WindowThreadAssumption, Thread!WindowThreadInv, Thread!Close
  PROVE  Thread!WindowThreadInv'
<1> DEFINE backend == s1
           pc == s2
           job == s3
           waits == s4
           made == s5
           queue == s6
           messages == s7
           done == s8
           once == s9
           thread == s10
           failed == s11
           ran == s12
<1> USE DEF Thread!WindowThreadInv
<1>1. /\ Client \in Thread!Callers /\ Others = Thread!Callers \ {Client}
      /\ Thread!Cleanup \in Thread!Jobs
      /\ pc[Client] = "idle" /\ once = "nobody" /\ once' = "client" /\ ~done /\ thread # "ended"
      /\ UNCHANGED <<backend, made, queue, messages, thread, failed, ran>>
  BY Goroutines, JobIsAJob DEF Thread!Close, Thread!ClosingInv
<1>2. Thread!Queued' = Thread!Queued /\ Thread!Range(queue)' = Thread!Range(queue)
      /\ Thread!Range(ran)' = Thread!Range(ran)
      /\ Thread!Range(Thread!Queued)' = Thread!Range(Thread!Queued)
      /\ Thread!Range(messages)' = Thread!Range(messages)
  BY <1>1, QueuedStays
<1>3. CASE backend = "win32"
  <2>1. /\ done' = TRUE /\ pc' = [pc EXCEPT ![Client] = "stop"] /\ UNCHANGED <<job, waits>>
        /\ pc'[Client] = "stop" /\ \A d \in Others : pc'[d] = pc[d]
    BY <1>1, <1>3 DEF Thread!Close, Thread!ThreadTypeOK
  <2>2. Thread!ThreadTypeOK'
    BY <1>1, <2>1 DEF Thread!ThreadTypeOK
  <2>3. Thread!OwnJobs'
    BY <1>1, <1>3, <2>1 DEF Thread!OwnJobs
  <2>4. Thread!ClosingInv'
    BY <1>1, <1>2, <1>3, <2>1 DEF Thread!ClosingInv
  <2>5. Thread!StopInv'
    BY <1>1, <1>2, <1>3 DEF Thread!StopInv
  <2>6. Thread!AwakeInv'
    BY <1>1, <1>2, <2>1 DEF Thread!AwakeInv
  <2>7. Thread!LastOnWindows'
    BY <1>1, <1>2, <2>1 DEF Thread!LastOnWindows
  <2>8. Thread!LastOnAppKit'
    BY <1>1, <1>3 DEF Thread!LastOnAppKit
  <2> QED
    BY <2>2, <2>3, <2>4, <2>5, <2>6, <2>7, <2>8
<1>4. CASE backend = "darwin"
  <2>1. /\ job' = [job EXCEPT ![Client] = Thread!Cleanup]
        /\ waits' = [waits EXCEPT ![Client] = TRUE]
        /\ pc' = [pc EXCEPT ![Client] = "send"] /\ UNCHANGED done
        /\ pc'[Client] = "send" /\ job'[Client] = Thread!Cleanup
        /\ \A d \in Others : pc'[d] = pc[d] /\ job'[d] = job[d]
    BY <1>1, <1>4 DEF Thread!Close, Thread!Queue, Thread!ThreadTypeOK
  <2>2. Thread!ThreadTypeOK'
    BY <1>1, <2>1 DEF Thread!ThreadTypeOK
  <2>3. Thread!OwnJobs'
    BY <1>1, <1>4, <2>1 DEF Thread!OwnJobs
  <2>4. Thread!ClosingInv'
    BY <1>1, <1>2, <1>4, <2>1 DEF Thread!ClosingInv
  <2>5. Thread!StopInv'
    BY <1>1, <1>2, <1>4 DEF Thread!StopInv
  <2>6. Thread!AwakeInv'
    BY <1>1, <1>2, <2>1 DEF Thread!AwakeInv
  <2>7. Thread!LastOnWindows'
    BY <1>1, <1>4 DEF Thread!LastOnWindows
  <2>8. Thread!LastOnAppKit'
    <3>1. Thread!Cleanup \notin Thread!Range(Thread!Queued)
      BY <1>1, <1>4 DEF Thread!LastOnAppKit
    <3>2. \A i \in 1 .. Len(Thread!Queued) : Thread!Queued[i] # Thread!Cleanup
      BY <3>1, QueuedItems
    <3> QED
      BY <1>1, <1>2, <1>4, <3>1, <3>2 DEF Thread!LastOnAppKit
  <2> QED
    BY <2>2, <2>3, <2>4, <2>5, <2>6, <2>7, <2>8
<1> QED
  BY <1>3, <1>4 DEF Thread!ThreadTypeOK

\* The client sends the message that ends the loop.
LEMMA CloseStopKeeps ==
  ASSUME Thread!WindowThreadAssumption, Thread!WindowThreadInv, Thread!CloseStop
  PROVE  Thread!WindowThreadInv'
<1> DEFINE backend == s1
           pc == s2
           job == s3
           waits == s4
           made == s5
           queue == s6
           messages == s7
           done == s8
           once == s9
           thread == s10
           failed == s11
           ran == s12
<1> USE DEF Thread!WindowThreadInv
<1>1. /\ Client \in Thread!Callers /\ Others = Thread!Callers \ {Client}
      /\ pc[Client] = "stop" /\ pc' = [pc EXCEPT ![Client] = "idle"] /\ once' = "over"
      /\ UNCHANGED <<backend, job, waits, made, queue, done, thread, failed, ran>>
      /\ backend = "win32" /\ once = "client" /\ done
  BY Goroutines DEF Thread!CloseStop, Thread!OwnJobs, Thread!ClosingInv
<1>2. /\ pc'[Client] = "idle" /\ \A d \in Others : pc'[d] = pc[d]
      /\ pc' \in [Thread!Callers -> {"idle", "send", "wake", "wait", "stop"}]
  BY <1>1 DEF Thread!ThreadTypeOK
<1>3. Thread!Queued' = Thread!Queued /\ Thread!Range(queue)' = Thread!Range(queue)
      /\ Thread!Range(ran)' = Thread!Range(ran)
      /\ Thread!Range(Thread!Queued)' = Thread!Range(Thread!Queued)
  BY <1>1, QueuedStays
<1>4. /\ messages' \in Seq({"run", "stop"})
      /\ "run" \in Thread!Range(messages) => "run" \in Thread!Range(messages')
  BY MessagesMove DEF Thread!CloseStop, Thread!PostStop, Thread!Arrives, Thread!ThreadTypeOK
<1>10. Thread!ThreadTypeOK'
  BY <1>1, <1>2, <1>4 DEF Thread!ThreadTypeOK
<1>11. Thread!OwnJobs'
  BY <1>1, <1>2 DEF Thread!OwnJobs
<1>12. Thread!ClosingInv'
  BY <1>1, <1>2 DEF Thread!ClosingInv
<1>13. Thread!StopInv'
  BY <1>1, <1>3 DEF Thread!StopInv
<1>14. Thread!AwakeInv'
  BY <1>1, <1>2, <1>3 DEF Thread!AwakeInv
<1>15. Thread!LastOnWindows'
  BY <1>1, <1>2, <1>3, <1>4 DEF Thread!LastOnWindows
<1>16. Thread!LastOnAppKit'
  BY <1>1 DEF Thread!LastOnAppKit
<1> QED
  BY <1>10, <1>11, <1>12, <1>13, <1>14, <1>15, <1>16

\* The cleanup has run on AppKit: the display is closed, and the stop follows.
LEMMA CloseDoneKeeps ==
  ASSUME Thread!WindowThreadAssumption, Thread!WindowThreadInv, Thread!CloseDone
  PROVE  Thread!WindowThreadInv'
<1> DEFINE backend == s1
           pc == s2
           job == s3
           waits == s4
           made == s5
           queue == s6
           messages == s7
           done == s8
           once == s9
           thread == s10
           failed == s11
           ran == s12
<1> USE DEF Thread!WindowThreadInv
<1>1. /\ Client \in Thread!Callers /\ Others = Thread!Callers \ {Client}
      /\ Thread!Stop \in Thread!Jobs /\ Thread!Cleanup # Thread!Stop
      /\ pc[Client] = "wait" /\ done' = TRUE /\ once' = "over"
      /\ UNCHANGED <<backend, made, queue, messages, thread, failed, ran>>
      /\ backend = "darwin" /\ once = "client" /\ ~done /\ thread # "ended"
  <2>1. job[Client] = Thread!Cleanup /\ pc[Client] = "wait"
    BY DEF Thread!CloseDone
  <2>2. backend = "darwin" /\ once = "client"
    BY <2>1, Goroutines, JobsDiffer
  <2> QED
    BY <2>1, <2>2, Goroutines, JobIsAJob, JobsDiffer DEF Thread!CloseDone, Thread!ClosingInv
<1>2. /\ job' = [job EXCEPT ![Client] = Thread!Stop] /\ waits' = [waits EXCEPT ![Client] = FALSE]
      /\ pc' = [pc EXCEPT ![Client] = "send"]
      /\ pc'[Client] = "send" /\ job'[Client] = Thread!Stop /\ ~waits'[Client]
      /\ \A d \in Others : pc'[d] = pc[d] /\ job'[d] = job[d]
  BY <1>1 DEF Thread!CloseDone, Thread!ThreadTypeOK
<1>3. Thread!Queued' = Thread!Queued /\ Thread!Range(queue)' = Thread!Range(queue)
      /\ Thread!Range(ran)' = Thread!Range(ran)
      /\ Thread!Range(Thread!Queued)' = Thread!Range(Thread!Queued)
      /\ Thread!Range(messages)' = Thread!Range(messages)
  BY <1>1, QueuedStays
<1>10. Thread!ThreadTypeOK'
  BY <1>1, <1>2 DEF Thread!ThreadTypeOK
<1>11. Thread!OwnJobs'
  BY <1>1, <1>2 DEF Thread!OwnJobs
<1>12. Thread!ClosingInv'
  BY <1>1, <1>2, <1>3 DEF Thread!ClosingInv
<1>13. Thread!StopInv'
  BY <1>1, <1>3 DEF Thread!StopInv
<1>14. Thread!AwakeInv'
  BY <1>1, <1>2, <1>3 DEF Thread!AwakeInv
<1>15. Thread!LastOnWindows'
  BY <1>1 DEF Thread!LastOnWindows
<1>16. Thread!LastOnAppKit'
  BY <1>1, <1>2, <1>3 DEF Thread!LastOnAppKit
<1> QED
  BY <1>10, <1>11, <1>12, <1>13, <1>14, <1>15, <1>16

\* The thread takes a message.
LEMMA DispatchKeeps ==
  ASSUME Thread!WindowThreadAssumption, Thread!WindowThreadInv, Thread!Dispatch
  PROVE  Thread!WindowThreadInv'
<1> DEFINE backend == s1
           pc == s2
           job == s3
           waits == s4
           made == s5
           queue == s6
           messages == s7
           done == s8
           once == s9
           thread == s10
           failed == s11
           ran == s12
<1> USE DEF Thread!WindowThreadInv
<1>1. /\ Head(messages) \in {"run", "stop"} /\ messages' \in Seq({"run", "stop"})
      /\ Thread!Range(messages) = Thread!Range(messages') \cup {Head(messages)}
      /\ thread \in {"loop", "quitting"}
      /\ Head(messages) = "stop" => thread' = "quitting"
      /\ Head(messages) = "run" /\ thread = "loop" => thread' = "running"
      /\ Head(messages) = "run" /\ thread = "quitting" => thread' = "lastCalls"
      /\ UNCHANGED <<backend, pc, job, waits, made, queue, done, once, failed, ran>>
  BY MessagesMove DEF Thread!Dispatch, Thread!callerVars
<1>2. Thread!Queued' = Thread!Queued /\ Thread!Range(queue)' = Thread!Range(queue)
      /\ Thread!Range(ran)' = Thread!Range(ran)
      /\ Thread!Range(Thread!Queued)' = Thread!Range(Thread!Queued)
  BY <1>1, QueuedStays
<1>10. Thread!ThreadTypeOK'
  BY <1>1 DEF Thread!ThreadTypeOK
<1>11. Thread!OwnJobs'
  BY <1>1 DEF Thread!OwnJobs
<1>12. Thread!ClosingInv'
  BY <1>1 DEF Thread!ClosingInv
<1>13. Thread!StopInv'
  BY <1>1, <1>2 DEF Thread!StopInv
<1>14. Thread!AwakeInv'
  BY <1>1, <1>2 DEF Thread!AwakeInv
<1>15. Thread!LastOnWindows'
  BY <1>1, <1>2 DEF Thread!LastOnWindows
<1>16. Thread!LastOnAppKit'
  BY <1>1, <1>2 DEF Thread!LastOnAppKit
<1> QED
  BY <1>10, <1>11, <1>12, <1>13, <1>14, <1>15, <1>16

\* It runs the first function that is queued.
LEMMA RunOneKeeps ==
  ASSUME Thread!WindowThreadAssumption, Thread!WindowThreadInv, Thread!RunCalls, s6 # <<>>
  PROVE  Thread!WindowThreadInv'
<1> DEFINE backend == s1
           pc == s2
           job == s3
           waits == s4
           made == s5
           queue == s6
           messages == s7
           done == s8
           once == s9
           thread == s10
           failed == s11
           ran == s12
<1> USE DEF Thread!WindowThreadInv
<1> DEFINE e == Head(queue)
<1>1. /\ thread \in {"running", "lastCalls"}
      /\ queue' = Tail(queue) /\ ran' = Append(ran, Head(queue))
      /\ UNCHANGED <<backend, pc, job, waits, made, messages, done, once, thread, failed>>
  BY DEF Thread!RunCalls, Thread!callerVars
<1>2. /\ e \in Thread!Jobs /\ queue' \in Seq(Thread!Jobs) /\ ran' \in Seq(Thread!Jobs)
      /\ Len(queue) \in Nat /\ Len(queue') = Len(queue) - 1
      /\ Thread!Range(queue) = Thread!Range(queue') \cup {e}
      /\ Thread!Range(ran') = Thread!Range(ran) \cup {e}
      /\ Thread!Queued' = Thread!Queued
  BY <1>1, RunQueues
<1>3. /\ Len(ran) \in Nat /\ Len(ran') = Len(ran) + 1 /\ ran'[Len(ran) + 1] = e
      /\ \A i \in 1 .. Len(ran) : ran'[i] = ran[i]
  BY <1>1, <1>2, AppendItems DEF Thread!ThreadTypeOK
<1>4. Thread!Range(Thread!Queued)' = Thread!Range(Thread!Queued)
      /\ Thread!Range(messages)' = Thread!Range(messages)
  BY <1>1, <1>2
<1> HIDE DEF e
<1>10. Thread!ThreadTypeOK'
  BY <1>1, <1>2 DEF Thread!ThreadTypeOK
<1>11. Thread!OwnJobs'
  BY <1>1 DEF Thread!OwnJobs
<1>12. Thread!ClosingInv'
  BY <1>1, <1>4 DEF Thread!ClosingInv
<1>13. Thread!StopInv'
  BY <1>1, <1>4 DEF Thread!StopInv
<1>14. Thread!AwakeInv'
  BY <1>1, <1>2, <1>4 DEF Thread!AwakeInv
<1>15. Thread!LastOnWindows'
  <2> SUFFICES ASSUME backend = "win32" PROVE Thread!LastOnWindows'
    BY <1>1 DEF Thread!LastOnWindows
  <2>1. Thread!Cleanup \notin Thread!Range(queue') /\ e # Thread!Cleanup
    BY <1>2 DEF Thread!LastOnWindows
  <2>2. \A i \in 1 .. Len(ran) : ran[i] # Thread!Cleanup
    BY <1>1 DEF Thread!LastOnWindows
  <2>3. \A i \in 1 .. Len(ran') : i \in 1 .. Len(ran) \/ i = Len(ran) + 1
    BY <1>3
  <2>4. \A i \in 1 .. Len(ran') : ran'[i] # Thread!Cleanup
    BY <1>3, <2>1, <2>2, <2>3
  <2> QED
    BY <1>1, <1>2, <1>4, <2>1, <2>4 DEF Thread!LastOnWindows
<1>16. Thread!LastOnAppKit'
  BY <1>1, <1>2, <1>4 DEF Thread!LastOnAppKit
<1> QED
  BY <1>10, <1>11, <1>12, <1>13, <1>14, <1>15, <1>16

\* It has run all that was queued.
LEMMA RanAllKeeps ==
  ASSUME Thread!WindowThreadAssumption, Thread!WindowThreadInv, Thread!RunCalls, s6 = <<>>
  PROVE  Thread!WindowThreadInv'
<1> DEFINE backend == s1
           pc == s2
           job == s3
           waits == s4
           made == s5
           queue == s6
           messages == s7
           done == s8
           once == s9
           thread == s10
           failed == s11
           ran == s12
<1> USE DEF Thread!WindowThreadInv
<1>1. /\ thread \in {"running", "lastCalls"}
      /\ Thread!Stop \in Thread!Range(ran) => thread' = "ended"
      /\ Thread!Stop \notin Thread!Range(ran) /\ thread = "running" => thread' = "loop"
      /\ Thread!Stop \notin Thread!Range(ran) /\ thread # "running" => thread' = "quitting"
      /\ UNCHANGED <<backend, pc, job, waits, made, queue, messages, done, once, failed, ran>>
  BY DEF Thread!RunCalls, Thread!callerVars
<1>2. Thread!Queued' = Thread!Queued /\ Thread!Range(queue)' = Thread!Range(queue)
      /\ Thread!Range(ran)' = Thread!Range(ran)
      /\ Thread!Range(Thread!Queued)' = Thread!Range(Thread!Queued)
      /\ Thread!Range(messages)' = Thread!Range(messages)
  BY <1>1, QueuedStays
<1>3. Thread!Range(queue) = {} /\ Thread!Range(Thread!Queued) = Thread!Range(ran)
      /\ Len(queue) = 0
  BY Holding, QueuedHolds
<1>4. Thread!Stop \in Thread!Range(ran) => backend = "darwin" /\ once = "over" /\ done
  BY <1>3 DEF Thread!StopInv, Thread!ClosingInv
<1>10. Thread!ThreadTypeOK'
  BY <1>1 DEF Thread!ThreadTypeOK
<1>11. Thread!OwnJobs'
  BY <1>1 DEF Thread!OwnJobs
<1>12. Thread!ClosingInv'
  BY <1>1, <1>2, <1>4 DEF Thread!ClosingInv
<1>13. Thread!StopInv'
  <2>1. Len(queue) + Thread!Cardinality({c \in Others : pc[c] = "send"}) <= Capacity
    <3> DEFINE W == {c \in Others : pc[c] = "send"}
    <3>1. Thread!Cardinality(W) <= Thread!Cardinality(Others) /\ Thread!Cardinality(W) \in Nat
          /\ Thread!Cardinality(Others) \in Nat
      <4>1. W \subseteq Others
        OBVIOUS
      <4> QED
        BY <4>1, Counting DEF Thread!WindowThreadAssumption
    <3> HIDE DEF W
    <3>2. Len(queue) + Thread!Cardinality(W) <= Capacity
      BY <1>3, <3>1 DEF Thread!WindowThreadAssumption
    <3> QED
      BY <3>2 DEF W
  <2> QED
    BY <1>1, <1>2, <2>1 DEF Thread!StopInv
<1>14. Thread!AwakeInv'
  BY <1>1, <1>2, <1>3 DEF Thread!AwakeInv
<1>15. Thread!LastOnWindows'
  BY <1>1, <1>2, <1>3 DEF Thread!LastOnWindows
<1>16. Thread!LastOnAppKit'
  BY <1>1, <1>2 DEF Thread!LastOnAppKit
<1> QED
  BY <1>10, <1>11, <1>12, <1>13, <1>14, <1>15, <1>16

\* Getting a message fails.
LEMMA GetMessageFailsKeeps ==
  ASSUME Thread!WindowThreadAssumption, Thread!WindowThreadInv, Thread!GetMessageFails
  PROVE  Thread!WindowThreadInv'
<1> DEFINE backend == s1
           pc == s2
           job == s3
           waits == s4
           made == s5
           queue == s6
           messages == s7
           done == s8
           once == s9
           thread == s10
           failed == s11
           ran == s12
<1> USE DEF Thread!WindowThreadInv
<1>1. /\ backend = "win32" /\ thread = "loop" /\ thread' = "quitting" /\ failed' = TRUE
      /\ messages' = <<>> /\ Thread!Range(messages') = {}
      /\ UNCHANGED <<backend, pc, job, waits, made, queue, done, once, ran>>
  BY Holding DEF Thread!GetMessageFails, Thread!callerVars
<1>2. Thread!Queued' = Thread!Queued /\ Thread!Range(queue)' = Thread!Range(queue)
      /\ Thread!Range(ran)' = Thread!Range(ran)
      /\ Thread!Range(Thread!Queued)' = Thread!Range(Thread!Queued)
  BY <1>1, QueuedStays
<1>10. Thread!ThreadTypeOK'
  BY <1>1 DEF Thread!ThreadTypeOK
<1>11. Thread!OwnJobs'
  BY <1>1 DEF Thread!OwnJobs
<1>12. Thread!ClosingInv'
  BY <1>1 DEF Thread!ClosingInv
<1>13. Thread!StopInv'
  BY <1>1, <1>2 DEF Thread!StopInv
<1>14. Thread!AwakeInv'
  BY <1>1, <1>2 DEF Thread!AwakeInv
<1>15. Thread!LastOnWindows'
  BY <1>1, <1>2 DEF Thread!LastOnWindows
<1>16. Thread!LastOnAppKit'
  BY <1>1 DEF Thread!LastOnAppKit
<1> QED
  BY <1>10, <1>11, <1>12, <1>13, <1>14, <1>15, <1>16

\* The windows go when every message has been taken.
LEMMA UnwindKeeps ==
  ASSUME Thread!WindowThreadAssumption, Thread!WindowThreadInv, Thread!Unwind
  PROVE  Thread!WindowThreadInv'
<1> DEFINE backend == s1
           pc == s2
           job == s3
           waits == s4
           made == s5
           queue == s6
           messages == s7
           done == s8
           once == s9
           thread == s10
           failed == s11
           ran == s12
<1> USE DEF Thread!WindowThreadInv
<1>1. /\ thread = "quitting" /\ messages = <<>> /\ Thread!Range(messages) = {}
      /\ thread' = "unwinding"
      /\ ran' = Append(ran, Thread!Cleanup) /\ Thread!Cleanup \in Thread!Jobs
      /\ Thread!Cleanup # Thread!Stop
      /\ UNCHANGED <<backend, pc, job, waits, made, queue, messages, done, once, failed>>
  BY Holding, JobIsAJob, JobsDiffer DEF Thread!Unwind, Thread!callerVars
<1>2. backend = "win32"
  BY <1>1 DEF Thread!StopInv, Thread!ThreadTypeOK
<1>3. /\ ran' \in Seq(Thread!Jobs) /\ Len(ran) \in Nat /\ Len(ran') = Len(ran) + 1
      /\ \A i \in 1 .. Len(ran) : ran'[i] = ran[i]
      /\ Thread!Range(ran') = Thread!Range(ran) \cup {Thread!Cleanup}
  BY <1>1, AppendItems, Holding DEF Thread!ThreadTypeOK
<1>10. Thread!ThreadTypeOK'
  BY <1>1, <1>3 DEF Thread!ThreadTypeOK
<1>4. Thread!Range(Thread!Queued') = Thread!Range(ran) \cup {Thread!Cleanup} \cup
                       Thread!Range(queue)
      /\ Thread!Range(queue') = Thread!Range(queue) /\ Thread!Range(messages') = {}
  <2>1. Thread!Queued' = ran' \o queue' /\ queue' = queue
    BY <1>1 DEF Thread!Queued
  <2>2. queue \in Seq(Thread!Jobs)
    BY DEF Thread!ThreadTypeOK
  <2>3. Thread!Range(ran' \o queue) = Thread!Range(ran') \cup Thread!Range(queue)
    BY <1>3, <2>2, Holding
  <2> QED
    BY <1>1, <1>3, <2>1, <2>3
<1>11. Thread!OwnJobs'
  BY <1>1 DEF Thread!OwnJobs
<1>12. Thread!ClosingInv'
  BY <1>1, <1>4 DEF Thread!ClosingInv
<1>13. Thread!StopInv'
  BY <1>1, <1>2, <1>4, QueuedHolds DEF Thread!StopInv
<1>14. Thread!AwakeInv'
  BY <1>1, <1>3, <1>4, QueuedHolds DEF Thread!AwakeInv
<1>15. Thread!LastOnWindows'
  <2>1. \A i \in 1 .. Len(ran) : ran[i] # Thread!Cleanup
    BY <1>1, <1>2 DEF Thread!LastOnWindows
  <2>2. \A i \in 1 .. Len(ran') : i \in 1 .. Len(ran) \/ i = Len(ran')
    BY <1>3
  <2>3. ~failed => pc[Client] \in {"stop", "idle"}
    BY <1>1, <1>2 DEF Thread!ClosingInv
  <2>4. ~failed => \A k \in 1 .. made[Client] : Thread!Job(Client, k) \in Thread!Range(ran')
    BY <1>1, <1>2, <1>3, <2>3 DEF Thread!LastOnWindows
  <2> QED
    BY <1>1, <1>2, <1>3, <1>4, <2>1, <2>2, <2>4 DEF Thread!LastOnWindows
<1>16. Thread!LastOnAppKit'
  BY <1>1, <1>2 DEF Thread!LastOnAppKit
<1> QED
  BY <1>10, <1>11, <1>12, <1>13, <1>14, <1>15, <1>16

\* The thread ends and closes the display if nobody has.
LEMMA UnwindCloseKeeps ==
  ASSUME Thread!WindowThreadAssumption, Thread!WindowThreadInv, Thread!UnwindClose
  PROVE  Thread!WindowThreadInv'
<1> DEFINE backend == s1
           pc == s2
           job == s3
           waits == s4
           made == s5
           queue == s6
           messages == s7
           done == s8
           once == s9
           thread == s10
           failed == s11
           ran == s12
<1> USE DEF Thread!WindowThreadInv
<1>1. /\ thread = "unwinding" /\ once # "client" /\ thread' = "ended" /\ once' = "over"
      /\ done' = TRUE
      /\ UNCHANGED <<backend, pc, job, waits, made, queue, messages, failed, ran>>
  BY DEF Thread!UnwindClose, Thread!callerVars
<1>2. backend = "win32"
  BY <1>1 DEF Thread!StopInv, Thread!ThreadTypeOK
<1>3. Thread!Queued' = Thread!Queued /\ Thread!Range(queue)' = Thread!Range(queue)
      /\ Thread!Range(ran)' = Thread!Range(ran)
      /\ Thread!Range(Thread!Queued)' = Thread!Range(Thread!Queued)
      /\ Thread!Range(messages)' = Thread!Range(messages)
  BY <1>1, QueuedStays
<1>10. Thread!ThreadTypeOK'
  BY <1>1 DEF Thread!ThreadTypeOK
<1>11. Thread!OwnJobs'
  BY <1>1, <1>2 DEF Thread!OwnJobs
<1>12. Thread!ClosingInv'
  BY <1>1, <1>2, <1>3 DEF Thread!ClosingInv
<1>13. Thread!StopInv'
  BY <1>1, <1>2, <1>3 DEF Thread!StopInv
<1>14. Thread!AwakeInv'
  BY <1>1, <1>3 DEF Thread!AwakeInv
<1>15. Thread!LastOnWindows'
  BY <1>1, <1>3 DEF Thread!LastOnWindows
<1>16. Thread!LastOnAppKit'
  BY <1>1, <1>2 DEF Thread!LastOnAppKit
<1> QED
  BY <1>10, <1>11, <1>12, <1>13, <1>14, <1>15, <1>16

\* At the start nothing is queued and nobody waits.
LEMMA WindowThreadStarts ==
  ASSUME Thread!WindowThreadAssumption, Thread!Init
  PROVE  Thread!WindowThreadInv
<1> DEFINE backend == s1
           pc == s2
           job == s3
           waits == s4
           made == s5
           queue == s6
           messages == s7
           done == s8
           once == s9
           thread == s10
           failed == s11
           ran == s12
<1>1. /\ Client \in Thread!Callers /\ Others = Thread!Callers \ {Client}
      /\ Thread!Stop \in Thread!Jobs /\ MaxJobs \in Nat
      /\ pc = [c \in Thread!Callers |-> "idle"] /\ job = [c \in Thread!Callers |-> Thread!Stop]
      /\ waits = [c \in Thread!Callers |-> FALSE] /\ made = [c \in Thread!Callers |-> 0]
      /\ backend \in {"win32", "darwin"} /\ done = FALSE /\ once = "nobody"
      /\ thread = "loop" /\ failed = FALSE
  BY JobIsAJob DEF Thread!Init, Thread!WindowThreadAssumption, Thread!Callers
<1>2. /\ queue = <<>> /\ ran = <<>> /\ messages = <<>>
      /\ Thread!Range(queue) = {} /\ Thread!Range(ran) = {} /\ Thread!Range(messages) = {}
      /\ queue \in Seq(Thread!Jobs) /\ ran \in Seq(Thread!Jobs)
      /\ messages \in Seq({"run", "stop"})
      /\ Len(ran) = 0
  BY Holding DEF Thread!Init
<1>3. \A c \in Thread!Callers : pc[c] = "idle" /\ job[c] = Thread!Stop /\ made[c] = 0
  BY <1>1
<1>4. Thread!ThreadTypeOK
  <2>1. made \in [Thread!Callers -> 0 .. MaxJobs]
    BY <1>1
  <2>2. pc \in [Thread!Callers -> {"idle", "send", "wake", "wait", "stop"}]
    BY <1>1
  <2> QED
    BY <1>1, <1>2, <2>1, <2>2 DEF Thread!ThreadTypeOK
<1>5. Thread!Range(Thread!Queued) = {}
  BY <1>2, <1>4, QueuedHolds
<1>6. \A i \in 1 .. Len(Thread!Queued) : FALSE
  BY <1>4, <1>5, QueuedItems
<1>7. Thread!OwnJobs
  BY <1>1, <1>3 DEF Thread!OwnJobs
<1>8. Thread!ClosingInv /\ Thread!StopInv /\ Thread!AwakeInv
  BY <1>1, <1>2, <1>3, <1>5 DEF Thread!ClosingInv, Thread!StopInv, Thread!AwakeInv
<1>9. Thread!LastOnWindows
  BY <1>1, <1>2, <1>3 DEF Thread!LastOnWindows
<1>10. Thread!LastOnAppKit
  BY <1>1, <1>3, <1>5, <1>6 DEF Thread!LastOnAppKit
<1> QED
  BY <1>4, <1>7, <1>8, <1>9, <1>10 DEF Thread!WindowThreadInv

\* What is waited for is queued and the thread knows of it; the cleanup is last.
LEMMA WindowThreadInvariant ==
  ASSUME Thread!WindowThreadAssumption
  PROVE  /\ Thread!Init => Thread!WindowThreadInv
         /\ Thread!WindowThreadInv /\ [Thread!Next]_(Thread!vars) => Thread!WindowThreadInv'
<1> DEFINE backend == s1
           pc == s2
           job == s3
           waits == s4
           made == s5
           queue == s6
           messages == s7
           done == s8
           once == s9
           thread == s10
           failed == s11
           ran == s12
<1>1. Thread!Init => Thread!WindowThreadInv
  BY WindowThreadStarts
<1>2. Thread!WindowThreadInv /\ [Thread!Next]_(Thread!vars) => Thread!WindowThreadInv'
  <2> SUFFICES ASSUME Thread!WindowThreadInv, [Thread!Next]_(Thread!vars)
               PROVE Thread!WindowThreadInv'
    OBVIOUS
  <2>1. ASSUME NEW c \in Thread!Callers, NEW wait \in BOOLEAN, Thread!Post(c, wait)
        PROVE Thread!WindowThreadInv'
    BY <2>1, PostKeeps
  <2>2. ASSUME NEW c \in Thread!Callers, Thread!Send(c) PROVE Thread!WindowThreadInv'
    <3>1. CASE ~Thread!Full /\ queue' = Append(queue, job[c]) /\ pc' = [pc EXCEPT ![c] = "wake"]
      BY <2>2, <3>1, SendKeeps DEF Thread!Send
    <3>2. CASE Thread!GiveWay(c) /\ Thread!Sent(c) /\ UNCHANGED queue
      BY <2>2, <3>2, SentKeeps DEF Thread!Send, Thread!GiveWay
    <3> QED
      BY <2>2, <3>1, <3>2 DEF Thread!Send
  <2>3. ASSUME NEW c \in Thread!Callers, Thread!Wake(c) PROVE Thread!WindowThreadInv'
    BY <2>3, SentKeeps DEF Thread!Wake
  <2>4. ASSUME NEW c \in Thread!Callers, Thread!Return(c) PROVE Thread!WindowThreadInv'
    BY <2>4, ReturnKeeps
  <2>5. CASE Thread!Close \/ Thread!CloseStop \/ Thread!CloseDone
    BY <2>5, CloseKeeps, CloseStopKeeps, CloseDoneKeeps
  <2>6. CASE Thread!Thread \/ Thread!GetMessageFails
    BY <2>6, DispatchKeeps, RunOneKeeps, RanAllKeeps, UnwindKeeps, UnwindCloseKeeps,
       GetMessageFailsKeeps DEF Thread!Thread
  <2>7. CASE UNCHANGED Thread!vars
    <3>1. UNCHANGED <<backend, pc, job, waits, made, queue, messages, done, once, thread,
                      failed, ran>>
      BY <2>7 DEF Thread!vars, Thread!callerVars
    <3>2. Thread!Queued' = Thread!Queued /\ Thread!Range(queue)' = Thread!Range(queue)
          /\ Thread!Range(ran)' = Thread!Range(ran)
          /\ Thread!Range(Thread!Queued)' = Thread!Range(Thread!Queued)
          /\ Thread!Range(messages)' = Thread!Range(messages)
      BY <3>1, QueuedStays
    <3>3. Thread!ThreadTypeOK'
      BY <3>1 DEF Thread!WindowThreadInv, Thread!ThreadTypeOK
    <3>4. Thread!OwnJobs' /\ Thread!ClosingInv'
      BY <3>1, <3>2 DEF Thread!WindowThreadInv, Thread!OwnJobs, Thread!ClosingInv
    <3>5. Thread!StopInv' /\ Thread!AwakeInv'
      BY <3>1, <3>2 DEF Thread!WindowThreadInv, Thread!StopInv, Thread!AwakeInv
    <3>6. Thread!LastOnWindows' /\ Thread!LastOnAppKit'
      BY <3>1, <3>2 DEF Thread!WindowThreadInv, Thread!LastOnWindows, Thread!LastOnAppKit
    <3> QED
      BY <3>3, <3>4, <3>5, <3>6 DEF Thread!WindowThreadInv
  <2> QED
    BY <2>1, <2>2, <2>3, <2>4, <2>5, <2>6, <2>7 DEF Thread!Next
<1> QED
  BY <1>1, <1>2

\* What the two properties say follows.
LEMMA WindowThreadSafe ==
  ASSUME Thread!WindowThreadAssumption, Thread!WindowThreadInv
  PROVE  Thread!NobodyIsStranded /\ Thread!CleanupComesLast
<1> DEFINE backend == s1
           pc == s2
           made == s5
           queue == s6
           done == s8
           thread == s10
           failed == s11
           ran == s12
<1> USE DEF Thread!WindowThreadInv
<1>1. Thread!NobodyIsStranded
  <2>1. ASSUME NEW c \in Thread!Callers, pc[c] = "send", thread = "ended"
        PROVE  ~Thread!Full \/ Thread!GiveWay(c)
    <3>1. done
      BY <2>1 DEF Thread!ClosingInv
    <3>2. CASE backend = "win32"
      BY <3>1, <3>2 DEF Thread!GiveWay
    <3>3. CASE backend = "darwin"
      <4> DEFINE W == {d \in Others : pc[d] = "send"}
      <4>1. Thread!Stop \in Thread!Range(Thread!Queued)
            /\ Len(queue) + Thread!Cardinality(W) <= Capacity
        BY <2>1, <3>3, QueuedHolds DEF Thread!StopInv
      <4>2. c \in W
        BY <2>1, <4>1, Goroutines DEF Thread!StopInv
      <4>3. Thread!IsFiniteSet(W)
        BY Counting DEF Thread!WindowThreadAssumption
      <4>4. Thread!Cardinality(W) \in Nat /\ Thread!Cardinality(W) # 0
        BY <4>2, <4>3, Counting
      <4>5. Len(queue) \in Nat /\ Capacity \in Nat
        BY DEF Thread!ThreadTypeOK, Thread!WindowThreadAssumption
      <4> HIDE DEF W
      <4>6. ~(Len(queue) >= Capacity)
        BY <4>1, <4>4, <4>5
      <4> QED
        BY <4>6 DEF Thread!Full
    <3> QED
      BY <3>2, <3>3 DEF Thread!ThreadTypeOK
  <2> QED
    BY <2>1 DEF Thread!NobodyIsStranded, Thread!AwakeInv
<1>2. Thread!CleanupComesLast
  <2> SUFFICES ASSUME Thread!Cleanup \in Thread!Range(ran), ~failed,
                      NEW n \in DOMAIN ran, n = CHOOSE m \in DOMAIN ran : ran[m] = Thread!Cleanup
               PROVE  /\ \A k \in 1 .. made[Client] :
                           Thread!Job(Client, k) \in Thread!Range(SubSeq(ran, 1, n))
                      /\ \A k \in n + 1 .. Len(ran) :
                           backend = "darwin" /\ ran[k][1] \in Others \cup {"stop"}
    <3>1. Thread!Cleanup \in Thread!Range(ran) => \E m \in DOMAIN ran : ran[m] = Thread!Cleanup
      BY DEF Thread!Range
    <3>2. Thread!Cleanup \in Thread!Range(ran) =>
            (CHOOSE m \in DOMAIN ran : ran[m] = Thread!Cleanup) \in DOMAIN ran
      BY <3>1
    <3> QED
      BY <3>2 DEF Thread!CleanupComesLast
  <2>1. n \in 1 .. Len(ran) /\ ran[n] = Thread!Cleanup /\ Len(ran) \in Nat
    <3>1. \E m \in DOMAIN ran : ran[m] = Thread!Cleanup
      BY DEF Thread!Range
    <3>2. ran[n] = Thread!Cleanup
      BY <3>1
    <3> QED
      BY <3>2, QueuedItems
  <2>2. \A j \in 1 .. n : ran[j] \in Thread!Range(SubSeq(ran, 1, n))
    <3>1. ran \in Seq(Thread!Jobs)
      BY DEF Thread!ThreadTypeOK
    <3>2. /\ SubSeq(ran, 1, n) \in Seq(Thread!Jobs) /\ Len(SubSeq(ran, 1, n)) = n
          /\ \A j \in 1 .. n : SubSeq(ran, 1, n)[j] = ran[j]
      BY <2>1, <3>1
    <3>3. DOMAIN SubSeq(ran, 1, n) = 1 .. n
      BY <3>2
    <3> QED
      BY <3>2, <3>3 DEF Thread!Range
  <2>3. CASE backend = "win32"
    <3>1. n = Len(ran) /\ thread \in {"unwinding", "ended"}
      BY <2>1, <2>3 DEF Thread!LastOnWindows
    <3>2. pc[Client] # "send"
      BY <2>3, <3>1 DEF Thread!ClosingInv
    <3>3. \A k \in 1 .. made[Client] : Thread!Job(Client, k) \in Thread!Range(ran)
      BY <2>3, <3>1, <3>2 DEF Thread!LastOnWindows
    <3>4. \A k \in 1 .. made[Client] : \E j \in 1 .. n : ran[j] = Thread!Job(Client, k)
      BY <3>1, <3>3, QueuedItems
    <3>5. \A k \in n + 1 .. Len(ran) : FALSE
      <4>1. \A m \in Nat : \A k \in m + 1 .. m : FALSE
        OBVIOUS
      <4> QED
        BY <2>1, <3>1, <4>1
    <3> QED
      BY <2>2, <3>4, <3>5
  <2>4. CASE backend = "darwin"
    <3>1. /\ \A i \in 1 .. Len(ran) : i \in 1 .. Len(Thread!Queued) /\ Thread!Queued[i] = ran[i]
          /\ Len(Thread!Queued) \in Nat
      <4>1. ran \in Seq(Thread!Jobs) /\ queue \in Seq(Thread!Jobs)
        BY DEF Thread!ThreadTypeOK
      <4>2. /\ Len(Thread!Queued) = Len(ran) + Len(queue) /\ Len(ran) \in Nat
            /\ Len(queue) \in Nat
            /\ \A i \in 1 .. (Len(ran) + Len(queue)) :
                 Thread!Queued[i] = IF i <= Len(ran) THEN ran[i] ELSE queue[i - Len(ran)]
        BY <4>1, JoinedItems DEF Thread!Queued
      <4>3. \A i \in 1 .. Len(ran) : i \in 1 .. (Len(ran) + Len(queue)) /\ i <= Len(ran)
        BY <4>2
      <4> QED
        BY <4>2, <4>3
    <3>2. /\ \A k \in 1 .. made[Client] : \E j \in 1 .. n :
               Thread!Queued[j] = Thread!Job(Client, k)
          /\ \A j \in n + 1 .. Len(Thread!Queued) : Thread!Queued[j][1] \in Others \cup {"stop"}
      BY <2>1, <2>4, <3>1 DEF Thread!LastOnAppKit
    <3>3. \A j \in 1 .. n : j \in 1 .. Len(ran)
      BY <2>1
    <3>4. \A k \in 1 .. made[Client] : \E j \in 1 .. n : ran[j] = Thread!Job(Client, k)
      BY <3>1, <3>2, <3>3
    <3>5. \A k \in n + 1 .. Len(ran) : k \in 1 .. Len(ran)
      BY <2>1
    <3>6. \A k \in n + 1 .. Len(ran) : k \in n + 1 .. Len(Thread!Queued)
      BY <2>1, <3>1, <3>5
    <3> QED
      BY <2>2, <2>4, <3>1, <3>2, <3>4, <3>5, <3>6
  <2> QED
    BY <2>3, <2>4 DEF Thread!ThreadTypeOK
<1> QED
  BY <1>1, <1>2

-----------------------------------------------------------------------------
(* The clipboards of the desktops: Windows' and AppKit's sequence numbers, *)
(* Wayland's offers and sources, X11's selection.                          *)

\* What is on the clipboard is the last copy or our own text, and is reported
\* once the change is handled.
LEMMA SequenceInvariant ==
  ASSUME Sequence!SequenceAssumption
  PROVE  /\ Sequence!Init => Sequence!SequenceInv
         /\ Sequence!SequenceInv /\ [Sequence!Next]_(Sequence!vars) => Sequence!SequenceInv'
<1>1. Sequence!Init => Sequence!SequenceInv
  BY DEF Sequence!Init, Sequence!SequenceInv, Sequence!LocalCopiesArrive, Sequence!Settled,
         Sequence!SequenceAssumption
<1>2. Sequence!SequenceInv /\ [Sequence!Next]_(Sequence!vars) => Sequence!SequenceInv'
  <2> SUFFICES ASSUME Sequence!SequenceInv, [Sequence!Next]_(Sequence!vars)
               PROVE Sequence!SequenceInv'
    OBVIOUS
  <2> USE DEF Sequence!SequenceAssumption, Sequence!SequenceInv
  <2>1. CASE Sequence!Copy \/ Sequence!CopyOther
    BY <2>1
    DEF Sequence!Copy, Sequence!CopyOther, Sequence!Change, Sequence!LocalCopiesArrive,
        Sequence!Settled
  <2>2. ASSUME NEW ok \in BOOLEAN, Sequence!SetText(ok) PROVE Sequence!SequenceInv'
    BY <2>2 DEF Sequence!SetText, Sequence!Change, Sequence!LocalCopiesArrive, Sequence!Settled
  <2>3. CASE Sequence!clipboardChanged
    BY <2>3 DEF Sequence!clipboardChanged, Sequence!LocalCopiesArrive, Sequence!Settled
  <2>4. CASE Sequence!pollClipboard
    BY <2>4
    DEF Sequence!pollClipboard, Sequence!IsOwn, Sequence!LocalCopiesArrive, Sequence!Settled
  <2>5. CASE UNCHANGED Sequence!vars
    BY <2>5 DEF Sequence!vars, Sequence!LocalCopiesArrive, Sequence!Settled
  <2> QED
    BY <2>1, <2>2, <2>3, <2>4, <2>5 DEF Sequence!Next
<1> QED
  BY <1>1, <1>2

\* What an event carries.
LEMMA EventFields ==
  \A e \in Offers!Event :
    /\ e.type \in {"input", "cancelled", "selection"}
    /\ e.type = "cancelled" => e.source \in Nat
    /\ e.type = "selection" => e.offer \in (LocalCopies \ Refusing) \cup {NoSelection}
  BY DEF Offers!Event

\* An event at the end of a wire.
LEMMA EventAdded ==
  ASSUME NEW w \in Seq(Offers!Event), NEW e \in Offers!Event
  PROVE  /\ Append(w, e) \in Seq(Offers!Event)
         /\ e.type # "cancelled" =>
              /\ Offers!Cancelled(Append(w, e)) = Offers!Cancelled(w)
              /\ Offers!CancelledOnce(w) => Offers!CancelledOnce(Append(w, e))
         /\ e.type = "cancelled" =>
              /\ Offers!Cancelled(Append(w, e)) = Offers!Cancelled(w) \cup {e.source}
              /\ Offers!CancelledOnce(w) /\ e.source \notin Offers!Cancelled(w) =>
                   Offers!CancelledOnce(Append(w, e))
         /\ e.type = "selection" => Offers!Announced(Append(w, e), e.offer)
         /\ e.type # "selection" =>
              /\ Offers!Selects(Append(w, e)) = Offers!Selects(w)
              /\ \A offer : Offers!Announced(w, offer) => Offers!Announced(Append(w, e), offer)
<1> DEFINE x == Append(w, e)
<1>1. /\ x \in Seq(Offers!Event) /\ DOMAIN x = DOMAIN w \cup {Len(w) + 1} /\ DOMAIN w = 1..Len(w)
      /\ Len(w) \in Nat /\ x[Len(w) + 1] = e /\ \A i \in DOMAIN w : x[i] = w[i]
  BY AppendItems
<1> HIDE DEF x
<1>2. Offers!Cancels(x) = Offers!Cancels(w) \cup (IF e.type = "cancelled" THEN {Len(w) + 1} ELSE {})
  BY <1>1 DEF Offers!Cancels
<1>3. Offers!Selects(x) = Offers!Selects(w) \cup (IF e.type = "selection" THEN {Len(w) + 1} ELSE {})
  BY <1>1 DEF Offers!Selects
<1>4. \A i \in Offers!Cancels(w) \cup Offers!Selects(w) : i \in Nat /\ i < Len(w) + 1 /\ x[i] = w[i]
  BY <1>1 DEF Offers!Cancels, Offers!Selects
<1>5. e.type # "cancelled" => Offers!Cancelled(x) = Offers!Cancelled(w)
  BY <1>2, <1>4 DEF Offers!Cancelled
<1>6. e.type = "cancelled" => Offers!Cancelled(x) = Offers!Cancelled(w) \cup {e.source}
  BY <1>1, <1>2, <1>4 DEF Offers!Cancelled
<1>7. e.type # "cancelled" /\ Offers!CancelledOnce(w) => Offers!CancelledOnce(x)
  BY <1>2, <1>4 DEF Offers!CancelledOnce
<1>8. e.type = "cancelled" /\ Offers!CancelledOnce(w) /\ e.source \notin Offers!Cancelled(w) =>
        Offers!CancelledOnce(x)
  BY <1>1, <1>2, <1>4 DEF Offers!CancelledOnce, Offers!Cancelled
<1>9. e.type = "selection" => Offers!Announced(x, e.offer)
  BY <1>1, <1>3, <1>4 DEF Offers!Announced
<1>10. e.type # "selection" => \A offer : Offers!Announced(w, offer) => Offers!Announced(x, offer)
  BY <1>3, <1>4 DEF Offers!Announced
<1> QED
  BY <1>1, <1>3, <1>5, <1>6, <1>7, <1>8, <1>9, <1>10 DEF x

\* The first event of a wire is dispatched.
LEMMA EventTaken ==
  ASSUME NEW w \in Seq(Offers!Event), w # <<>>
  PROVE  /\ Head(w) \in Offers!Event /\ Tail(w) \in Seq(Offers!Event)
         /\ Offers!CancelledOnce(w) => Offers!CancelledOnce(Tail(w))
         /\ Head(w).type # "cancelled" => Offers!Cancelled(Tail(w)) = Offers!Cancelled(w)
         /\ Head(w).type = "cancelled" =>
              /\ Head(w).source \in Offers!Cancelled(w)
              /\ Offers!CancelledOnce(w) =>
                   Offers!Cancelled(Tail(w)) = Offers!Cancelled(w) \ {Head(w).source}
         /\ \A offer : Offers!Announced(w, offer) =>
              \/ Offers!Announced(Tail(w), offer)
              \/ Offers!Selects(Tail(w)) = {} /\ Head(w).type = "selection"
                 /\ Head(w).offer = offer
         /\ Offers!Selects(w) = {} => Offers!Selects(Tail(w)) = {} /\ Head(w).type # "selection"
<1> DEFINE x == Tail(w)
<1>1. /\ x \in Seq(Offers!Event) /\ Head(w) \in Offers!Event /\ Head(w) = w[1] /\ 1 \in DOMAIN w
      /\ DOMAIN w = 1..Len(w) /\ DOMAIN x = 1..(Len(w) - 1) /\ Len(w) \in Nat
      /\ \A i \in DOMAIN x : i + 1 \in DOMAIN w /\ x[i] = w[i + 1]
  BY TailItems
<1> HIDE DEF x
<1>2. \A i \in DOMAIN w : i \in Nat /\ (i = 1 \/ (i - 1 \in DOMAIN x /\ i = (i - 1) + 1 /\ w[i] = x[i - 1]))
  BY <1>1
<1>3. \A i \in Offers!Cancels(x) : i \in Nat \ {0} /\ i + 1 \in Offers!Cancels(w) /\ x[i] = w[i + 1]
  BY <1>1 DEF Offers!Cancels
<1>4. \A i \in Offers!Selects(x) : i \in Nat \ {0} /\ i + 1 \in Offers!Selects(w) /\ x[i] = w[i + 1]
  BY <1>1 DEF Offers!Selects
<1>5. \A i \in Offers!Cancels(w) : i \in Nat /\ (i = 1 \/ (i - 1 \in Offers!Cancels(x) /\ w[i] = x[i - 1]))
  BY <1>2 DEF Offers!Cancels
<1>6. \A i \in Offers!Selects(w) : i \in Nat /\ (i = 1 \/ (i - 1 \in Offers!Selects(x) /\ w[i] = x[i - 1]))
  BY <1>2 DEF Offers!Selects
<1>7. (1 \in Offers!Cancels(w) <=> Head(w).type = "cancelled") /\ (1 \in Offers!Selects(w) <=> Head(w).type = "selection")
  BY <1>1 DEF Offers!Cancels, Offers!Selects
<1>8. Offers!CancelledOnce(w) => Offers!CancelledOnce(x)
  <2> SUFFICES ASSUME Offers!CancelledOnce(w), NEW i \in Offers!Cancels(x),
                      NEW j \in Offers!Cancels(x),
                      x[i].source = x[j].source
               PROVE  i = j
    BY DEF Offers!CancelledOnce
  <2>1. i + 1 = j + 1 /\ i \in Nat /\ j \in Nat
    BY <1>3 DEF Offers!CancelledOnce
  <2> QED
    BY <2>1
<1>9. Offers!Cancelled(x) \subseteq Offers!Cancelled(w)
  BY <1>3 DEF Offers!Cancelled
<1>10. \A c \in Offers!Cancelled(w) :
         c \in Offers!Cancelled(x) \/ (1 \in Offers!Cancels(w) /\ c = w[1].source)
  BY <1>5 DEF Offers!Cancelled
<1>11. Head(w).type = "cancelled" /\ Offers!CancelledOnce(w) =>
         Head(w).source \notin Offers!Cancelled(x)
  <2> SUFFICES ASSUME Head(w).type = "cancelled", Offers!CancelledOnce(w),
                      NEW i \in Offers!Cancels(x),
                      x[i].source = Head(w).source
               PROVE  FALSE
    BY DEF Offers!Cancelled
  <2>1. i + 1 = 1 /\ i \in Nat \ {0}
    BY <1>1, <1>3, <1>7 DEF Offers!CancelledOnce
  <2> QED
    BY <2>1
<1>12. Head(w).type # "cancelled" => Offers!Cancelled(x) = Offers!Cancelled(w)
  BY <1>7, <1>9, <1>10
<1>13. Head(w).type = "cancelled" =>
         /\ Head(w).source \in Offers!Cancelled(w)
         /\ Offers!CancelledOnce(w) =>
              Offers!Cancelled(x) = Offers!Cancelled(w) \ {Head(w).source}
  <2>1. Head(w).type = "cancelled" => Head(w).source \in Offers!Cancelled(w)
    BY <1>1, <1>7 DEF Offers!Cancelled
  <2> QED
    BY <1>1, <1>9, <1>10, <1>11, <2>1
<1>14. ASSUME NEW offer, Offers!Announced(w, offer)
       PROVE  \/ Offers!Announced(x, offer)
              \/ Offers!Selects(x) = {} /\ Head(w).type = "selection" /\ Head(w).offer = offer
  <2>1. PICK i \in Offers!Selects(w) : w[i].offer = offer /\ \A j \in Offers!Selects(w) : j <= i
    BY <1>14 DEF Offers!Announced
  <2>2. CASE i = 1
    <3>1. \A j \in Offers!Selects(x) : j + 1 <= 1 /\ j \in Nat \ {0}
      BY <1>4, <2>1, <2>2
    <3>2. \A j \in Offers!Selects(x) : FALSE
      BY <3>1
    <3> QED
      BY <1>1, <1>7, <2>1, <2>2, <3>2
  <2>3. CASE i # 1
    <3>1. i \in Nat /\ i - 1 \in Offers!Selects(x) /\ x[i - 1].offer = offer
      BY <1>6, <2>1, <2>3
    <3>2. \A j \in Offers!Selects(x) : j \in Nat /\ j + 1 <= i
      BY <1>4, <2>1
    <3>3. \A j \in Offers!Selects(x) : j <= i - 1
      BY <3>1, <3>2
    <3> QED
      BY <3>1, <3>3 DEF Offers!Announced
  <2> QED
    BY <2>2, <2>3
<1>15. Offers!Selects(w) = {} => Offers!Selects(x) = {} /\ Head(w).type # "selection"
  BY <1>4, <1>7
<1> QED
  BY <1>1, <1>8, <1>12, <1>13, <1>14, <1>15 DEF x

\* One selection passes to another: the old source is cancelled, the new
\* selection announced.
LEMMA SelectionReplaced ==
  ASSUME NEW w \in Seq(Offers!Event), NEW old,
         NEW new \in {NoSelection} \cup (LocalCopies \ Refusing) \cup Nat,
         NEW events \in Offers!Replaced(old, new)
  PROVE  LET x == w \o events
             offer == IF new \in Nat THEN NoSelection ELSE new IN
         /\ x \in Seq(Offers!Event)
         /\ Offers!Cancelled(x) = Offers!Cancelled(w) \cup ({old} \cap Nat)
         /\ Offers!CancelledOnce(w) /\ old \notin Offers!Cancelled(w) => Offers!CancelledOnce(x)
         /\ Offers!Announced(x, offer)
<1> DEFINE offer == IF new \in Nat THEN NoSelection ELSE new
           cancel == [type |-> "cancelled", source |-> old]
           select == [type |-> "selection", offer |-> offer]
<1>1. select \in Offers!Event /\ (old \in Nat => cancel \in Offers!Event)
  BY DEF Offers!Event
<1>2. select.type = "selection" /\ select.offer = offer /\ cancel.type = "cancelled"
      /\ cancel.source = old
  OBVIOUS
<1>3. old \notin Nat => events = <<select>>
  BY DEF Offers!Replaced
<1>4. old \in Nat => events \in {<<cancel, select>>, <<select, cancel>>}
  BY DEF Offers!Replaced
<1>5. ASSUME NEW u \in Seq(Offers!Event), NEW a \in Offers!Event, NEW b \in Offers!Event
      PROVE  u \o <<a>> = Append(u, a) /\ u \o <<a, b>> = Append(Append(u, a), b)
  <2>1. u \o <<a>> = Append(u, a)
    OBVIOUS
  <2>2. <<a, b>> = Append(<<a>>, b) /\ <<a>> \in Seq(Offers!Event)
    OBVIOUS
  <2>3. u \o Append(<<a>>, b) = Append(u \o <<a>>, b)
    BY <2>2, QueuingKeepsOrder
  <2> QED
    BY <2>1, <2>2, <2>3
<1>6. {old} \cap Nat = IF old \in Nat THEN {old} ELSE {}
  OBVIOUS
<1> DEFINE Replaces(x) ==
             /\ x \in Seq(Offers!Event)
             /\ Offers!Cancelled(x) = Offers!Cancelled(w) \cup ({old} \cap Nat)
             /\ Offers!CancelledOnce(w) /\ old \notin Offers!Cancelled(w) =>
                  Offers!CancelledOnce(x)
             /\ Offers!Announced(x, offer)
<1> HIDE DEF offer, cancel, select
<1>7. CASE old \notin Nat
  <2>1. Replaces(Append(w, select))
    BY <1>1, <1>2, <1>6, <1>7, EventAdded
  <2>2. w \o events = Append(w, select)
    BY <1>1, <1>3, <1>5, <1>7
  <2> QED
    BY <2>1, <2>2 DEF offer
<1>8. CASE old \in Nat /\ events = <<cancel, select>>
  <2> DEFINE v == Append(w, cancel)
  <2>1. /\ v \in Seq(Offers!Event) /\ Offers!Cancelled(v) = Offers!Cancelled(w) \cup {old}
        /\ Offers!CancelledOnce(w) /\ old \notin Offers!Cancelled(w) => Offers!CancelledOnce(v)
    BY <1>1, <1>2, <1>8, EventAdded
  <2> HIDE DEF v
  <2>2. Replaces(Append(v, select))
    BY <1>1, <1>2, <1>6, <1>8, <2>1, EventAdded
  <2>3. w \o events = Append(v, select)
    BY <1>1, <1>5, <1>8 DEF v
  <2> QED
    BY <2>2, <2>3 DEF offer
<1>9. CASE old \in Nat /\ events = <<select, cancel>>
  <2> DEFINE v == Append(w, select)
  <2>1. /\ v \in Seq(Offers!Event) /\ Offers!Cancelled(v) = Offers!Cancelled(w)
        /\ Offers!Announced(v, offer)
        /\ Offers!CancelledOnce(w) => Offers!CancelledOnce(v)
    BY <1>1, <1>2, EventAdded
  <2> HIDE DEF v
  <2>2. Replaces(Append(v, cancel))
    BY <1>1, <1>2, <1>6, <1>9, <2>1, EventAdded
  <2>3. w \o events = Append(v, cancel)
    BY <1>1, <1>5, <1>9 DEF v
  <2> QED
    BY <2>2, <2>3 DEF offer
<1> QED
  BY <1>4, <1>7, <1>8, <1>9

\* A sequence without its item n.
Without(s, n) == SubSeq(s, 1, n - 1) \o SubSeq(s, n + 1, Len(s))

\* Its last item stays the last unless it is the one taken.
LEMMA ReadEnds ==
  ASSUME NEW S, NEW s \in Seq(S), NEW n \in 1..Len(s)
  PROVE  /\ Without(s, n) \in Seq(S)
         /\ Len(s) = 1 => Without(s, n) = <<>>
         /\ n # Len(s) =>
              Without(s, n) # <<>> /\ Without(s, n)[Len(Without(s, n))] = s[Len(s)]
<1> DEFINE rest == Without(s, n)
           first == SubSeq(s, 1, n - 1)
           last == SubSeq(s, n + 1, Len(s))
<1>1. Len(s) \in Nat /\ n \in Nat /\ n >= 1 /\ n <= Len(s)
  OBVIOUS
<1>2. first \in Seq(S) /\ Len(first) = n - 1
  OBVIOUS
<1>3. /\ last \in Seq(S) /\ Len(last) = Len(s) - n
      /\ \A i \in 1..(Len(s) - n) : last[i] = s[n + i]
  OBVIOUS
<1>4. rest = first \o last
  BY DEF Without
<1> HIDE DEF rest, first, last
<1>5. /\ rest \in Seq(S) /\ Len(rest) = Len(first) + Len(last)
      /\ \A i \in 1..(Len(first) + Len(last)) :
           rest[i] = IF i <= Len(first) THEN first[i] ELSE last[i - Len(first)]
  <2>1. first \in Seq(S) /\ last \in Seq(S)
    BY <1>2, <1>3
  <2> QED
    BY ONLY <1>4, <2>1
<1>6. /\ Len(first) = n - 1 /\ Len(last) = Len(s) - n
      /\ Len(rest) = Len(first) + Len(last)
  BY <1>2, <1>3, <1>5, Zenon
<1>7. Len(rest) = Len(s) - 1 /\ (rest = <<>> <=> Len(rest) = 0)
  <2>1. rest = <<>> <=> Len(rest) = 0
    BY ONLY <1>5
  <2> QED
    BY ONLY <1>1, <1>6, <2>1
<1>8. ASSUME n # Len(s)
      PROVE  rest[Len(rest)] = s[Len(s)]
  <2>1. /\ Len(rest) \in 1..(Len(first) + Len(last)) /\ ~(Len(rest) <= Len(first))
        /\ Len(rest) - Len(first) = Len(s) - n
        /\ Len(s) - n \in 1..(Len(s) - n) /\ n + (Len(s) - n) = Len(s)
    BY ONLY <1>1, <1>6, <1>7, <1>8
  <2>2. last[Len(s) - n] = s[n + (Len(s) - n)]
    BY <1>3, <2>1
  <2> QED
    BY <1>5, <2>1, <2>2
<1> QED
  BY ONLY <1>1, <1>5, <1>7, <1>8 DEF rest

\* Our own text becomes the selection, whatever is on the wire.
LEMMA TextPublished ==
  ASSUME Offers!WaylandClipboardAssumption, NEW rest \in Seq(Offers!Event), NEW text \in Nat,
         text \notin s4, s7 \in {NoSelection} \cup (LocalCopies \ Refusing) \cup Nat,
         s7 \in Nat => s7 \notin Offers!Cancelled(rest),
         s4 = ({s7} \cap Nat) \cup Offers!Cancelled(rest), Offers!CancelledOnce(rest),
         Offers!publish(text, rest)
  PROVE  /\ s6' \in Seq(Offers!Event) /\ s7' = text /\ s3' = text /\ s2' = NoSelection
         /\ s4' = s4 \cup {text} /\ s4' = {text} \cup Offers!Cancelled(s6')
         /\ text \notin Offers!Cancelled(s6') /\ Offers!CancelledOnce(s6')
<1> DEFINE wire == s6
           selection == s7
<1>1. PICK events \in Offers!Replaced(selection, text) : wire' = rest \o events
  BY DEF Offers!publish
<1>2. /\ wire' \in Seq(Offers!Event)
      /\ Offers!Cancelled(wire') = Offers!Cancelled(rest) \cup ({selection} \cap Nat)
      /\ Offers!CancelledOnce(rest) /\ selection \notin Offers!Cancelled(rest) =>
           Offers!CancelledOnce(wire')
  BY <1>1, SelectionReplaced
<1>3. \A c \in Offers!Cancelled(rest) : c \in Nat
  BY EventFields DEF Offers!Cancelled, Offers!Cancels
<1>4. selection \notin Offers!Cancelled(rest)
  BY <1>3 DEF Offers!WaylandClipboardAssumption
<1> QED
  BY <1>2, <1>4 DEF Offers!publish

\* The sources that are left are the selection and those about to be cancelled.
LEMMA SourcesInvariant ==
  ASSUME Offers!WaylandClipboardAssumption
  PROVE  /\ Offers!Init => Offers!TypeOK /\ Offers!SourcesInv
         /\ Offers!TypeOK /\ Offers!SourcesInv /\ [Offers!Next]_(Offers!vars) =>
              Offers!TypeOK' /\ Offers!SourcesInv'
<1> DEFINE serial == s1
           pending == s2
           source == s3
           alive == s4
           reads == s5
           wire == s6
           selection == s7
           texts == s9
           copied == s10
<1>1. Offers!Init => Offers!TypeOK /\ Offers!SourcesInv
  <2> SUFFICES ASSUME Offers!Init PROVE Offers!TypeOK /\ Offers!SourcesInv
    OBVIOUS
  <2>1. Offers!Cancels(wire) = {} /\ wire \in Seq(Offers!Event)
        /\ reads \in Seq(LocalCopies \ Refusing)
    BY DEF Offers!Init, Offers!Cancels
  <2>2. Offers!Cancelled(wire) = {} /\ Offers!CancelledOnce(wire)
    BY <2>1 DEF Offers!Cancelled, Offers!CancelledOnce
  <2>3. Offers!TypeOK
    BY <2>1 DEF Offers!Init, Offers!TypeOK, Offers!WaylandClipboardAssumption
  <2>4. Offers!SourcesInv
    BY <2>2 DEF Offers!Init, Offers!SourcesInv, Offers!WaylandClipboardAssumption
  <2> QED
    BY <2>3, <2>4
<1>2. Offers!TypeOK /\ Offers!SourcesInv /\ [Offers!Next]_(Offers!vars) =>
        Offers!TypeOK' /\ Offers!SourcesInv'
  <2> SUFFICES ASSUME Offers!TypeOK, Offers!SourcesInv, [Offers!Next]_(Offers!vars)
               PROVE Offers!TypeOK' /\ Offers!SourcesInv'
    OBVIOUS
  <2> USE DEF Offers!WaylandClipboardAssumption
  <2>0. /\ \A c \in (LocalCopies \ Refusing) : c \notin Nat /\ c # NoSelection
        /\ NoSelection \notin Nat
        /\ \A c \in Offers!Cancelled(wire) : c \in alive
    BY DEF Offers!SourcesInv
  <2>1. ASSUME NEW c \in (LocalCopies \ Refusing), Offers!Copy(c)
        PROVE Offers!TypeOK' /\ Offers!SourcesInv'
    <3>1. PICK events \in Offers!Replaced(selection, c) : wire' = wire \o events
      BY <2>1 DEF Offers!Copy
    <3>2. /\ wire' \in Seq(Offers!Event)
          /\ Offers!Cancelled(wire') = Offers!Cancelled(wire) \cup ({selection} \cap Nat)
          /\ Offers!CancelledOnce(wire) /\ selection \notin Offers!Cancelled(wire) =>
               Offers!CancelledOnce(wire')
      BY <3>1, SelectionReplaced DEF Offers!TypeOK
    <3>3. selection \notin Offers!Cancelled(wire)
      BY <2>0 DEF Offers!TypeOK, Offers!SourcesInv
    <3> QED
      BY <2>0, <2>1, <3>2, <3>3
      DEF Offers!Copy, Offers!clientVars, Offers!TypeOK, Offers!SourcesInv
  <2>2. CASE Offers!OwnerVanishes \/ Offers!Input
    <3>1. PICK e \in Offers!Event : wire' = Append(wire, e) /\ e.type # "cancelled"
      BY <2>2 DEF Offers!OwnerVanishes, Offers!Input, Offers!Event
    <3>2. /\ wire' \in Seq(Offers!Event) /\ Offers!Cancelled(wire') = Offers!Cancelled(wire)
          /\ Offers!CancelledOnce(wire) => Offers!CancelledOnce(wire')
      BY <3>1, EventAdded DEF Offers!TypeOK
    <3> QED
      BY <2>0, <2>2, <3>2
      DEF Offers!OwnerVanishes, Offers!Input, Offers!clientVars, Offers!TypeOK,
          Offers!SourcesInv
  <2>3. CASE Offers!SetText /\ ~serial
    <3>1. /\ texts' = texts + 1 /\ copied' = FALSE /\ pending' = texts + 1
          /\ UNCHANGED <<source, alive, wire, selection, serial, reads>>
      BY <2>3 DEF Offers!SetText
    <3>2. texts \in Nat /\ texts + 1 \notin alive /\ alive \subseteq 1..(texts + 1)
      BY DEF Offers!TypeOK
    <3>3. Offers!TypeOK'
      <4>1. texts' \in Nat /\ pending' \in 1..texts' /\ alive' \subseteq 1..texts'
        BY <3>1, <3>2
      <4> QED
        BY <3>1, <4>1 DEF Offers!TypeOK
    <3>4. Offers!SourcesInv'
      BY <3>1, <3>2 DEF Offers!SourcesInv
    <3> QED
      BY <3>3, <3>4
  <2>4. CASE Offers!SetText /\ serial
    <3>1. Offers!publish(texts + 1, wire) /\ texts' = texts + 1 /\ UNCHANGED <<serial, reads>>
          /\ copied' = FALSE
      BY <2>4 DEF Offers!SetText
    <3>2. texts + 1 \in Nat /\ texts + 1 \notin alive
      BY DEF Offers!TypeOK
    <3>3. /\ wire' \in Seq(Offers!Event) /\ selection' = texts + 1 /\ source' = texts + 1
          /\ pending' = NoSelection
          /\ alive' = alive \cup {texts + 1} /\ alive' = {texts + 1} \cup Offers!Cancelled(wire')
          /\ texts + 1 \notin Offers!Cancelled(wire') /\ Offers!CancelledOnce(wire')
      BY <3>1, <3>2, TextPublished DEF Offers!TypeOK, Offers!SourcesInv
    <3>4. alive' \subseteq 1..(texts + 1) /\ texts \in Nat
      BY <3>3 DEF Offers!TypeOK
    <3>5. Offers!TypeOK'
      BY <2>0, <3>1, <3>2, <3>3, <3>4 DEF Offers!TypeOK
    <3>6. Offers!SourcesInv'
      <4>1. texts' \in Nat /\ texts' = selection' /\ selection' = texts + 1
        BY <3>1, <3>2, <3>3
      <4>2. ({selection'} \cap Nat) = {texts + 1}
        BY <4>1
      <4>3. pending' = NoSelection /\ source' # NoSelection
        BY <2>0, <3>2, <3>3
      <4> QED
        BY <3>1, <3>3, <4>1, <4>2, <4>3 DEF Offers!SourcesInv
    <3> QED
      BY <3>5, <3>6
  <2>5. ASSUME wire # <<>>
        PROVE  /\ Head(wire) \in Offers!Event /\ Tail(wire) \in Seq(Offers!Event)
               /\ Offers!CancelledOnce(Tail(wire))
               /\ Head(wire).type # "cancelled" =>
                    Offers!Cancelled(Tail(wire)) = Offers!Cancelled(wire)
               /\ Head(wire).type = "cancelled" =>
                    /\ Head(wire).source \in Offers!Cancelled(wire)
                    /\ Offers!Cancelled(Tail(wire)) = Offers!Cancelled(wire) \ {Head(wire).source}
    BY <2>5, EventTaken DEF Offers!TypeOK, Offers!SourcesInv
  <2>6. CASE Offers!setInputSerial /\ pending = NoSelection
    BY <2>0, <2>5, <2>6
    DEF Offers!setInputSerial, Offers!Dispatch, Offers!TypeOK, Offers!SourcesInv
  <2>7. CASE Offers!setInputSerial /\ pending # NoSelection
    <3>1. Offers!publish(pending, Tail(wire)) /\ serial' = TRUE
          /\ UNCHANGED <<reads, texts, copied>>
      BY <2>7 DEF Offers!setInputSerial
    <3>2. /\ Tail(wire) \in Seq(Offers!Event) /\ Offers!CancelledOnce(Tail(wire))
          /\ Offers!Cancelled(Tail(wire)) = Offers!Cancelled(wire)
      BY <2>5, <2>7 DEF Offers!setInputSerial, Offers!Dispatch
    <3>3. pending \in Nat /\ pending = texts /\ pending \notin alive
      BY <2>7 DEF Offers!TypeOK, Offers!SourcesInv
    <3>4. /\ wire' \in Seq(Offers!Event) /\ selection' = pending /\ source' = pending
          /\ pending' = NoSelection
          /\ alive' = alive \cup {pending} /\ alive' = {pending} \cup Offers!Cancelled(wire')
          /\ pending \notin Offers!Cancelled(wire') /\ Offers!CancelledOnce(wire')
      BY <3>1, <3>2, <3>3, TextPublished DEF Offers!TypeOK, Offers!SourcesInv
    <3>5. pending \in 1..texts
      BY <3>3 DEF Offers!TypeOK, Offers!SourcesInv
    <3> QED
      BY <2>0, <3>1, <3>3, <3>4, <3>5 DEF Offers!TypeOK, Offers!SourcesInv
  <2>8. CASE Offers!handleSelection
    <3>1. Head(wire).offer # NoSelection =>
            Append(reads, Head(wire).offer) \in Seq(LocalCopies \ Refusing)
      BY <2>5, <2>8, EventFields DEF Offers!handleSelection, Offers!Dispatch, Offers!TypeOK
    <3> QED
      BY <2>0, <2>5, <2>8, <3>1
      DEF Offers!handleSelection, Offers!Dispatch, Offers!TypeOK, Offers!SourcesInv
  <2>9. CASE Offers!onCancelled
    BY <2>0, <2>5, <2>9
    DEF Offers!onCancelled, Offers!AfterCancel, Offers!Dispatch, Offers!TypeOK,
        Offers!SourcesInv
  <2>10. ASSUME NEW n \in DOMAIN reads, NEW ok \in BOOLEAN, Offers!readOffer(n, ok)
         PROVE  Offers!TypeOK' /\ Offers!SourcesInv'
    <3>1. SubSeq(reads, 1, n - 1) \o SubSeq(reads, n + 1, Len(reads))
            \in Seq(LocalCopies \ Refusing)
      <4>1. reads \in Seq(LocalCopies \ Refusing) /\ n \in 1..Len(reads)
        BY <2>10 DEF Offers!TypeOK
      <4> QED
        BY <4>1, ReadEnds DEF Without
    <3> QED
      BY <2>0, <2>10, <3>1 DEF Offers!readOffer, Offers!TypeOK, Offers!SourcesInv
  <2>11. CASE UNCHANGED Offers!vars
    BY <2>11 DEF Offers!vars, Offers!clientVars, Offers!TypeOK, Offers!SourcesInv
  <2> QED
    BY <2>1, <2>2, <2>3, <2>4, <2>6, <2>7, <2>8, <2>9, <2>10, <2>11 DEF Offers!Next
<1> QED
  BY <1>1, <1>2

\* A newest read that ends last leaves the last copy for last.
LEMMA CopiesInvariant ==
  ASSUME Offers!WaylandClipboardAssumption
  PROVE  /\ Offers!Init => Offers!CopiesInv
         /\ Offers!TypeOK /\ Offers!CopiesInv /\ [Offers!Next]_(Offers!vars) => Offers!CopiesInv'
<1> DEFINE pending == s2
           reads == s5
           wire == s6
           selection == s7
           texts == s9
           reports == s11
           overtaken == s12
<1> USE DEF Offers!WaylandClipboardAssumption
<1>1. Offers!Init => Offers!CopiesInv
  BY DEF Offers!Init, Offers!CopiesInv
<1>2. Offers!TypeOK /\ Offers!CopiesInv /\ [Offers!Next]_(Offers!vars) => Offers!CopiesInv'
  <2> SUFFICES ASSUME Offers!TypeOK, Offers!CopiesInv, [Offers!Next]_(Offers!vars),
                      selection' \in (LocalCopies \ Refusing), ~overtaken'
               PROVE Offers!CopiesInv'
    BY DEF Offers!CopiesInv
  <2>1. ASSUME NEW c \in (LocalCopies \ Refusing), Offers!Copy(c) PROVE Offers!CopiesInv'
    <3>1. PICK events \in Offers!Replaced(selection, c) : wire' = wire \o events
      BY <2>1 DEF Offers!Copy
    <3>2. Offers!Announced(wire', c)
      BY <3>1, SelectionReplaced DEF Offers!TypeOK
    <3> QED
      BY <2>1, <3>2 DEF Offers!Copy, Offers!CopiesInv
  <2>2. CASE Offers!Input
    <3>1. PICK e \in Offers!Event : wire' = Append(wire, e) /\ e.type # "selection"
      BY <2>2 DEF Offers!Input, Offers!Event
    <3> QED
      BY <2>2, <3>1, EventAdded
      DEF Offers!Input, Offers!clientVars, Offers!TypeOK, Offers!CopiesInv
  <2>3. CASE Offers!OwnerVanishes
    BY <2>3 DEF Offers!OwnerVanishes
  <2>4. CASE Offers!SetText
    <3>1. ~Offers!publish(texts + 1, wire)
      BY DEF Offers!publish, Offers!TypeOK
    <3> QED
      BY <2>4, <3>1 DEF Offers!SetText, Offers!CopiesInv
  <2>5. ASSUME wire # <<>>
        PROVE  /\ Head(wire) \in Offers!Event
               /\ \A offer : Offers!Announced(wire, offer) =>
                    \/ Offers!Announced(Tail(wire), offer)
                    \/ Offers!Selects(Tail(wire)) = {} /\ Head(wire).type = "selection"
                       /\ Head(wire).offer = offer
               /\ Offers!Selects(wire) = {} =>
                    Offers!Selects(Tail(wire)) = {} /\ Head(wire).type # "selection"
    BY <2>5, EventTaken DEF Offers!TypeOK
  <2>6. CASE Offers!setInputSerial \/ Offers!onCancelled
    <3>1. wire # <<>> /\ Head(wire).type # "selection"
      BY <2>6 DEF Offers!setInputSerial, Offers!onCancelled, Offers!Dispatch
    <3>2. pending # NoSelection => ~Offers!publish(pending, Tail(wire))
      BY DEF Offers!publish, Offers!TypeOK
    <3>3. wire' = Tail(wire) /\ UNCHANGED <<selection, reads, reports, overtaken>>
      BY <2>6, <3>2 DEF Offers!setInputSerial, Offers!onCancelled
    <3> QED
      BY <2>5, <3>1, <3>3 DEF Offers!CopiesInv
  <2>7. CASE Offers!handleSelection
    <3> DEFINE offer == Head(wire).offer
    <3>1. /\ wire # <<>> /\ Head(wire).type = "selection" /\ wire' = Tail(wire)
          /\ reads' = (IF offer = NoSelection THEN reads ELSE Append(reads, offer))
          /\ UNCHANGED <<selection, overtaken>>
      BY <2>7 DEF Offers!handleSelection, Offers!Dispatch
    <3>2. offer \in (LocalCopies \ Refusing) \cup {NoSelection}
      BY <2>5, <3>1, EventFields
    <3>3. CASE Offers!Announced(Tail(wire), selection)
      BY <3>1, <3>3 DEF Offers!CopiesInv
    <3>4. CASE Offers!Selects(Tail(wire)) = {} /\ offer = selection
      <4>1. offer # NoSelection /\ offer \in (LocalCopies \ Refusing)
        BY <3>1, <3>4
      <4>2. reads' # <<>> /\ reads'[Len(reads')] = offer
        <5>1. Len(reads') = Len(reads) + 1 /\ reads'[Len(reads) + 1] = offer /\ Len(reads) \in Nat
          BY <3>1, <4>1, AppendItems DEF Offers!TypeOK
        <5>2. Len(<<>>) = 0
          OBVIOUS
        <5>3. reads' # <<>>
          BY <5>1, <5>2
        <5> QED
          BY <5>1, <5>3
      <4> QED
        BY <3>1, <3>4, <4>2 DEF Offers!CopiesInv
    <3> QED
      BY <2>5, <3>1, <3>3, <3>4 DEF Offers!CopiesInv
  <2>8. ASSUME NEW n \in DOMAIN reads, NEW ok \in BOOLEAN, Offers!readOffer(n, ok)
        PROVE  Offers!CopiesInv'
    <3>1. reads \in Seq(LocalCopies \ Refusing) /\ reads # <<>> /\ Len(reads) \in Nat
          /\ n \in 1..Len(reads)
      BY <2>8 DEF Offers!TypeOK
    <3>2. /\ reads' = SubSeq(reads, 1, n - 1) \o SubSeq(reads, n + 1, Len(reads))
          /\ UNCHANGED <<wire, selection>> /\ ~overtaken
          /\ ~ok => reads[n] # selection
          /\ ok => reports' = reads[n] /\ (n # Len(reads) \/ n <= 1)
      <4>1. ~(overtaken \/ (ok /\ n = Len(reads) /\ n > 1))
        BY <2>8, Zenon DEF Offers!readOffer
      <4>2. n <= 1 \/ n > 1
        BY <3>1
      <4> QED
        BY <2>8, <4>1, <4>2, Zenon DEF Offers!readOffer
    <3>3. /\ Len(reads) = 1 => reads' = <<>>
          /\ n # Len(reads) => reads' # <<>> /\ reads'[Len(reads')] = reads[Len(reads)]
      <4>1. reads' = Without(reads, n)
        BY <3>2 DEF Without
      <4> QED
        BY <3>1, <4>1, ReadEnds
    <3>4. CASE Offers!Announced(wire, selection)
      BY <3>2, <3>4 DEF Offers!CopiesInv
    <3>5. CASE Offers!Selects(wire) = {} /\ reads[Len(reads)] = selection
      <4>1. CASE n = Len(reads)
        <5>1. ok /\ Len(reads) = 1 /\ reads' = <<>> /\ reports' = selection
          BY <3>1, <3>2, <3>3, <3>5, <4>1
        <5> QED
          BY <3>2, <3>5, <5>1 DEF Offers!CopiesInv
      <4>2. CASE n # Len(reads)
        BY <3>2, <3>3, <3>5, <4>2 DEF Offers!CopiesInv
      <4> QED
        BY <4>1, <4>2
    <3> QED
      BY <3>1, <3>2, <3>4, <3>5 DEF Offers!CopiesInv
  <2>9. CASE UNCHANGED Offers!vars
    BY <2>9 DEF Offers!vars, Offers!clientVars, Offers!CopiesInv
  <2> QED
    BY <2>1, <2>2, <2>3, <2>4, <2>6, <2>7, <2>8, <2>9 DEF Offers!Next
<1> QED
  BY <1>1, <1>2

\* With nothing on the wire and nothing read, what is left is what is selected.
LEMMA ClipboardSettles ==
  ASSUME Offers!WaylandClipboardAssumption
  PROVE  /\ Offers!CopiesInv => Offers!LocalCopiesArrive
         /\ Offers!SourcesInv => Offers!OwnTextIsPublished
<1> DEFINE pending == s2
           source == s3
           alive == s4
           reads == s5
           wire == s6
           selection == s7
           texts == s9
           copied == s10
<1>1. wire = <<>> =>
        Offers!Cancels(wire) = {} /\ Offers!Selects(wire) = {} /\ Offers!Cancelled(wire) = {}
  BY DEF Offers!Cancels, Offers!Selects, Offers!Cancelled
<1>2. Offers!CopiesInv => Offers!LocalCopiesArrive
  BY <1>1 DEF Offers!CopiesInv, Offers!Announced, Offers!LocalCopiesArrive, Offers!Settled
<1>3. Offers!SourcesInv => Offers!OwnTextIsPublished
  <2> SUFFICES ASSUME Offers!SourcesInv, wire = <<>>, reads = <<>>
               PROVE  /\ texts > 0 /\ ~copied => texts \in {pending, selection}
                      /\ selection \in Nat => source = selection
                      /\ alive = {source} \ {NoSelection}
    BY DEF Offers!OwnTextIsPublished, Offers!Settled
  <2>1. /\ texts > 0 /\ ~copied => texts \in {pending, selection}
        /\ selection \in Nat => source = selection
        /\ source # NoSelection => source \in alive
        /\ alive = {selection} \cap Nat
    BY <1>1 DEF Offers!SourcesInv
  <2>2. NoSelection \notin Nat
    BY DEF Offers!WaylandClipboardAssumption
  <2>3. alive = {source} \ {NoSelection}
    <3>1. CASE selection \in Nat
      BY <2>1, <2>2, <3>1
    <3>2. CASE selection \notin Nat
      BY <2>1, <3>2
    <3> QED
      BY <3>1, <3>2
  <2> QED
    BY <2>1, <2>3
<1> QED
  BY <1>2, <1>3

\* What a sequence holds with one more item at its end.
LEMMA ItemAdded ==
  ASSUME NEW S, NEW w \in Seq(S), NEW e \in S
  PROVE  /\ Append(w, e) \in Seq(S) /\ Append(w, e) # <<>>
         /\ X11!Range(Append(w, e)) = X11!Range(w) \cup {e}
         /\ Append(w, e)[Len(Append(w, e))] = e
         /\ Head(Append(w, e)) = IF w = <<>> THEN e ELSE Head(w)
         /\ w = <<>> => Append(w, e) = <<e>>
         /\ \A T : X11!LastAmong(Append(w, e), e, T)
         /\ \A y, T : e \notin T /\ X11!LastAmong(w, y, T) => X11!LastAmong(Append(w, e), y, T)
<1> DEFINE x == Append(w, e)
<1>1. /\ x \in Seq(S) /\ Len(x) = Len(w) + 1 /\ Len(w) \in Nat
      /\ \A i \in 1..Len(w) : x[i] = w[i]
      /\ x[Len(w) + 1] = e
  OBVIOUS
<1>2. DOMAIN w = 1..Len(w) /\ DOMAIN x = 1..(Len(w) + 1)
  BY <1>1
<1>3. x # <<>> /\ Head(x) = x[1] /\ (w # <<>> => Head(w) = w[1] /\ Len(w) >= 1)
  <2>1. Len(<<>>) = 0 /\ x # <<>> /\ Head(x) = x[1]
    BY <1>1
  <2>2. w # <<>> => Head(w) = w[1] /\ Len(w) >= 1
    OBVIOUS
  <2> QED
    BY <2>1, <2>2
<1>4. w = <<>> => x = <<e>>
  OBVIOUS
<1> HIDE DEF x
<1>5. X11!Range(x) = X11!Range(w) \cup {e}
  BY <1>1, <1>2 DEF X11!Range
<1>6. \A T : X11!LastAmong(x, e, T)
  BY <1>1, <1>2 DEF X11!LastAmong
<1>7. ASSUME NEW y, NEW T, e \notin T, X11!LastAmong(w, y, T) PROVE X11!LastAmong(x, y, T)
  BY <1>1, <1>2, <1>7 DEF X11!LastAmong
<1>8. Head(x) = IF w = <<>> THEN e ELSE Head(w)
  <2>1. CASE w = <<>>
    BY <1>4, <2>1
  <2>2. CASE w # <<>>
    BY <1>1, <1>2, <1>3, <2>2
  <2> QED
    BY <2>1, <2>2
<1> QED
  BY <1>1, <1>3, <1>4, <1>5, <1>6, <1>7, <1>8 DEF x

\* And without its first.
LEMMA ItemTaken ==
  ASSUME NEW S, NEW w \in Seq(S), w # <<>>
  PROVE  /\ Head(w) \in S /\ Tail(w) \in Seq(S)
         /\ X11!Range(w) = {Head(w)} \cup X11!Range(Tail(w))
         /\ w[Len(w)] = IF Tail(w) = <<>> THEN Head(w) ELSE Tail(w)[Len(Tail(w))]
         /\ \A y, T : X11!LastAmong(w, y, T) =>
              \/ X11!LastAmong(Tail(w), y, T)
              \/ Head(w) = y /\ X11!Range(Tail(w)) \cap T = {}
<1> DEFINE x == Tail(w)
<1>1. /\ Head(w) \in S /\ Head(w) = w[1] /\ Len(w) \in Nat /\ Len(w) >= 1
      /\ x \in Seq(S) /\ Len(x) = Len(w) - 1
      /\ \A i \in 1..(Len(w) - 1) : x[i] = w[i + 1]
  OBVIOUS
<1>2. DOMAIN w = 1..Len(w) /\ DOMAIN x = 1..(Len(w) - 1)
  BY <1>1
<1>3. x = <<>> <=> Len(w) = 1
  <2> HIDE DEF x
  <2>1. x = <<>> <=> Len(x) = 0
    BY <1>1
  <2> QED
    BY <1>1, <2>1
<1> HIDE DEF x
<1>4. \A i \in DOMAIN w : i = 1 \/ (i - 1 \in DOMAIN x /\ w[i] = x[i - 1])
  BY <1>1, <1>2
<1>5. \A i \in DOMAIN x : i + 1 \in DOMAIN w /\ x[i] = w[i + 1]
  BY <1>1, <1>2
<1>6. 1 \in DOMAIN w
  BY <1>1, <1>2
<1>7. X11!Range(w) = {Head(w)} \cup X11!Range(x)
  <2>1. ASSUME NEW e \in X11!Range(w) PROVE e \in {Head(w)} \cup X11!Range(x)
    BY <1>1, <1>4, <2>1 DEF X11!Range
  <2>2. ASSUME NEW e \in {Head(w)} \cup X11!Range(x) PROVE e \in X11!Range(w)
    BY <1>1, <1>5, <1>6, <2>2 DEF X11!Range
  <2> QED
    BY <2>1, <2>2
<1>8. ASSUME NEW y, NEW T, X11!LastAmong(w, y, T)
      PROVE  X11!LastAmong(x, y, T) \/ (Head(w) = y /\ X11!Range(x) \cap T = {})
  <2>1. PICK i \in DOMAIN w : w[i] = y /\ \A j \in DOMAIN w : j > i => w[j] \notin T
    BY <1>8 DEF X11!LastAmong
  <2>2. CASE i = 1
    <3>1. \A j \in DOMAIN x : x[j] \notin T
      BY <1>2, <1>5, <2>1, <2>2
    <3> QED
      BY <1>1, <2>1, <2>2, <3>1 DEF X11!Range
  <2>3. CASE i # 1
    <3>1. i - 1 \in DOMAIN x /\ x[i - 1] = y
      BY <1>4, <2>1, <2>3
    <3>2. ASSUME NEW j \in DOMAIN x, j > i - 1 PROVE x[j] \notin T
      BY <1>2, <1>5, <2>1, <3>2
    <3> QED
      BY <3>1, <3>2 DEF X11!LastAmong
  <2> QED
    BY <2>2, <2>3
<1>9. w[Len(w)] = IF x = <<>> THEN Head(w) ELSE x[Len(x)]
  BY <1>1, <1>2, <1>3, <1>4
<1> QED
  BY <1>1, <1>7, <1>8, <1>9 DEF x

\* Two items at once.
LEMMA TwoAdded ==
  ASSUME NEW S, NEW w \in Seq(S), NEW a \in S, NEW b \in S
  PROVE  w \o <<a, b>> = Append(Append(w, a), b)
  OBVIOUS

\* Short sequences.
LEMMA ShortSequences ==
  ASSUME NEW a, NEW b
  PROVE  /\ X11!Range(<<>>) = {} /\ X11!Range(<<a>>) = {a} /\ X11!Range(<<a, b>>) = {a, b}
         /\ Head(<<a>>) = a /\ Head(<<a, b>>) = a /\ Tail(<<a>>) = <<>> /\ Tail(<<a, b>>) = <<b>>
         /\ <<a>> # <<>> /\ <<a, b>> # <<>> /\ Append(<<>>, a) = <<a>>
         /\ Append(<<a>>, b) = <<a, b>>
<1>1. X11!Range(<<>>) = {}
  BY DEF X11!Range
<1>2. X11!Range(<<a>>) = {a}
  BY DEF X11!Range
<1>3. X11!Range(<<a, b>>) = {a, b}
  BY DEF X11!Range
<1>4. Head(<<a>>) = a /\ Head(<<a, b>>) = a /\ Tail(<<a>>) = <<>>
  OBVIOUS
<1>5. Tail(<<a, b>>) = <<b>>
  OBVIOUS
<1>6. <<a>> # <<>> /\ <<a, b>> # <<>> /\ Append(<<>>, a) = <<a>>
  OBVIOUS
<1>7. Append(<<a>>, b) = <<a, b>>
  <2>1. <<>> \o <<a, b>> = Append(Append(<<>>, a), b)
    BY <<>> \in Seq({a, b}), TwoAdded
  <2>2. <<>> \o <<a, b>> = <<a, b>>
    OBVIOUS
  <2> QED
    BY <1>6, <2>1, <2>2
<1> QED
  BY <1>1, <1>2, <1>3, <1>4, <1>5, <1>6, <1>7

\* The first answer is taken from the front.
LEMMA FirstAnswered ==
  ASSUME NEW S, NEW s \in Seq(S), s # <<>>
  PROVE  SubSeq(s, 1, 0) \o SubSeq(s, 2, Len(s)) = Tail(s)
<1>1. SubSeq(s, 1, 0) = <<>> /\ SubSeq(s, 2, Len(s)) = Tail(s) /\ Tail(s) \in Seq(S)
  OBVIOUS
<1> QED
  BY <1>1

\* Events of different kinds differ, and are told apart by their type.
LEMMA EventKinds ==
  ASSUME NEW e \in X11!Event
  PROVE  /\ e.type \in {"owner", "notify", "value", "request"}
         /\ e.type = "owner" =>
              e \in X11!OwnerEvents /\ e.owner \in X11!Owners /\ e = X11!OwnerEvent(e.owner)
         /\ e.type = "notify" =>
              e.ok \in BOOLEAN /\ e = IF e.ok THEN X11!Converted ELSE X11!Declined
         /\ e.type = "value" => e = X11!Value
         /\ e.type = "request" => e = X11!Asked
<1>1. \A o : X11!OwnerEvent(o).type = "owner" /\ X11!OwnerEvent(o).owner = o
  BY DEF X11!OwnerEvent
<1>2. X11!Value.type = "value" /\ X11!Converted.type = "notify" /\ X11!Declined.type = "notify"
      /\ X11!Converted.ok = TRUE /\ X11!Declined.ok = FALSE /\ X11!Asked.type = "request"
  BY DEF X11!Converted, X11!Declined, X11!Value, X11!Asked
<1>3. CASE e \in X11!OwnerEvents
  <2>1. PICK o \in X11!Owners : e = X11!OwnerEvent(o)
    BY <1>3 DEF X11!OwnerEvents
  <2> QED
    BY <1>1, <1>3, <2>1
<1>4. CASE e \in {X11!Converted, X11!Declined, X11!Value, X11!Asked}
  BY <1>2, <1>4
<1> QED
  BY <1>3, <1>4 DEF X11!Event

\* No event is of two kinds, and each owner has an event of its own.
LEMMA EventsDiffer ==
  /\ X11!Converted # X11!Declined /\ X11!Converted # X11!Value /\ X11!Declined # X11!Value
  /\ X11!Asked \notin {X11!Converted, X11!Declined, X11!Value}
  /\ X11!OwnerEvents \cap {X11!Converted, X11!Declined, X11!Value, X11!Asked} = {}
  /\ \A o :
       X11!OwnerEvent(o).owner = o
       /\ X11!OwnerEvent(o) \notin {X11!Converted, X11!Declined, X11!Value, X11!Asked}
  /\ \A o \in X11!Owners : X11!OwnerEvent(o) \in X11!OwnerEvents
<1>1. \A o : X11!OwnerEvent(o).type = "owner" /\ X11!OwnerEvent(o).owner = o
  BY DEF X11!OwnerEvent
<1>2. X11!Value.type = "value" /\ X11!Converted.type = "notify" /\ X11!Declined.type = "notify"
      /\ X11!Converted.ok = TRUE /\ X11!Declined.ok = FALSE /\ X11!Asked.type = "request"
  BY DEF X11!Converted, X11!Declined, X11!Value, X11!Asked
<1>3. \A o : X11!OwnerEvent(o) \notin {X11!Converted, X11!Declined, X11!Value, X11!Asked}
  BY <1>1, <1>2
<1>4. X11!OwnerEvents \cap {X11!Converted, X11!Declined, X11!Value, X11!Asked} = {}
  BY <1>3 DEF X11!OwnerEvents
<1>5. \A o \in X11!Owners : X11!OwnerEvent(o) \in X11!OwnerEvents
  BY DEF X11!OwnerEvents
<1>6. /\ X11!Converted # X11!Declined /\ X11!Converted # X11!Value /\ X11!Declined # X11!Value
      /\ X11!Asked \notin {X11!Converted, X11!Declined, X11!Value}
  BY <1>2
<1> QED
  BY <1>1, <1>3, <1>4, <1>5, <1>6

\* An event that joins the queue, or leaves it, is an event.
LEMMA EventQueued ==
  ASSUME X11!StateOK, NEW e \in X11!Event
  PROVE  Append(s6, e) \in Seq(X11!Event)
BY ItemAdded DEF X11!StateOK

LEMMA EventHandled ==
  ASSUME X11!StateOK, s6 # <<>>
  PROVE  /\ Tail(s6) \in Seq(X11!Event) /\ Head(s6) \in X11!Event
         /\ X11!Range(s6) = {Head(s6)} \cup X11!Range(Tail(s6))
         /\ \A y, T : X11!LastAmong(s6, y, T) =>
              X11!LastAmong(Tail(s6), y, T) \/ (Head(s6) = y /\ X11!Range(Tail(s6)) \cap T = {})
<1> DEFINE events == s6
<1>1. events \in Seq(X11!Event)
  BY DEF X11!StateOK
<1> QED
  BY <1>1, ItemTaken

\* The owner is asked for its text.
LEMMA RequestReaches ==
  ASSUME X11!X11ClipboardAssumption, X11!StateOK, s6 # <<>>,
         NEW target \in {"UTF8_STRING", "STRING"}, X11!request(target)
  PROVE  /\ s7' = target
         /\ s6' \in Seq(X11!Event)
         /\ X11!Range(s6') \subseteq X11!Range(Tail(s6)) \cup {X11!Declined, X11!Asked}
         /\ s1 \in LocalCopies => s6' = Tail(s6)
         /\ s1 = Nobody =>
              \A y, T : X11!Declined \notin T /\ X11!LastAmong(Tail(s6), y, T) =>
                X11!LastAmong(s6', y, T)
         /\ s1 = Nobody => X11!Range(s6') = X11!Range(Tail(s6)) \cup {X11!Declined}
         /\ s1 \notin LocalCopies => s3' = s3
<1> DEFINE owner == s1
           asks == s3
           events == s6
           requested == s7
           rest == Tail(events)
<1>1. /\ rest \in Seq(X11!Event) /\ X11!Declined \in X11!Event /\ X11!Asked \in X11!Event
  BY EventHandled DEF X11!Event
<1>2. /\ requested' = target
      /\ asks' = IF owner \in LocalCopies THEN Append(asks, <<owner, target>>) ELSE asks
      /\ events' = IF owner = Nobody THEN Append(rest, X11!Declined)
                   ELSE IF owner = Us THEN Append(rest, X11!Asked) ELSE rest
  BY DEF X11!request
<1> HIDE DEF rest
<1>3. ASSUME NEW e \in X11!Event
      PROVE  /\ Append(rest, e) \in Seq(X11!Event)
             /\ X11!Range(Append(rest, e)) = X11!Range(rest) \cup {e}
             /\ \A y, T : e \notin T /\ X11!LastAmong(rest, y, T) =>
                  X11!LastAmong(Append(rest, e), y, T)
  <2>1. ASSUME NEW y, NEW T, e \notin T, X11!LastAmong(rest, y, T)
        PROVE  X11!LastAmong(Append(rest, e), y, T)
    BY <1>1, <2>1, ItemAdded
  <2> QED
    BY <1>1, <2>1, ItemAdded
<1>4. CASE owner = Nobody
  <2>1. events' = Append(rest, X11!Declined)
    BY <1>2, <1>4
  <2>2. owner \notin LocalCopies
    BY <1>4 DEF X11!X11ClipboardAssumption
  <2>3. asks' = asks
    BY <1>2, <2>2
  <2> QED
    <3>1. /\ events' \in Seq(X11!Event)
          /\ X11!Range(events') = X11!Range(rest) \cup {X11!Declined}
      BY <1>1, <1>3, <2>1
    <3>2. ASSUME NEW y, NEW T, X11!Declined \notin T, X11!LastAmong(rest, y, T)
          PROVE  X11!LastAmong(events', y, T)
      BY <1>1, <1>3, <2>1, <3>2
    <3>3. requested' = target
      BY <1>2
    <3> QED
      BY <2>2, <2>3, <3>1, <3>2, <3>3 DEF rest
<1>5. CASE owner = Us /\ owner # Nobody
  <2>1. events' = Append(rest, X11!Asked)
    BY <1>2, <1>5
  <2>2. owner \notin LocalCopies
    BY <1>5 DEF X11!X11ClipboardAssumption
  <2>3. asks' = asks /\ owner # Nobody /\ requested' = target
    BY <1>2, <1>5, <2>2
  <2>4. events' \in Seq(X11!Event) /\ X11!Range(events') = X11!Range(rest) \cup {X11!Asked}
    BY <1>1, <1>3, <2>1
  <2> QED
    BY <2>2, <2>3, <2>4 DEF rest
<1>6. CASE owner # Us /\ owner # Nobody
  BY <1>1, <1>2, <1>6 DEF rest
<1> QED
  BY <1>4, <1>5, <1>6

\* And what it is asked for waits behind what was asked for before.
LEMMA AskWaits ==
  ASSUME X11!TypeOK, NEW target \in {"UTF8_STRING", "STRING"}, X11!request(target)
  PROVE  /\ s3' \in Seq(LocalCopies \X {"UTF8_STRING", "STRING"})
         /\ X11!Range(s3') \subseteq X11!Range(s3) \cup {<<s1, target>>}
         /\ s1 \in LocalCopies => /\ s3' # <<>> /\ s3'[Len(s3')] = <<s1, target>>
                                  /\ s3 = <<>> => s3' = <<<<s1, target>>>>
         /\ s1 \notin LocalCopies => s3' = s3
<1> DEFINE owner == s1
           asks == s3
           ask == <<owner, target>>
           Asks == LocalCopies \X {"UTF8_STRING", "STRING"}
<1>1. asks \in Seq(Asks) /\ asks' = IF owner \in LocalCopies THEN Append(asks, ask) ELSE asks
  BY DEF X11!request, X11!TypeOK
<1>2. owner \in LocalCopies => ask \in Asks
  OBVIOUS
<1> HIDE DEF ask, Asks
<1>3. ASSUME owner \in LocalCopies
      PROVE  /\ asks' \in Seq(Asks) /\ asks' # <<>> /\ asks'[Len(asks')] = ask
             /\ X11!Range(asks') = X11!Range(asks) \cup {ask}
             /\ asks = <<>> => asks' = <<ask>>
  <2>1. asks' = Append(asks, ask) /\ ask \in Asks
    BY <1>1, <1>2, <1>3
  <2> QED
    BY <1>1, <2>1, ItemAdded
<1>4. /\ asks' \in Seq(Asks)
      /\ X11!Range(asks') \subseteq X11!Range(asks) \cup {ask}
      /\ owner \in LocalCopies => /\ asks' # <<>> /\ asks'[Len(asks')] = ask
                                  /\ asks = <<>> => asks' = <<ask>>
      /\ owner \notin LocalCopies => asks' = asks
  BY <1>1, <1>3
<1> QED
  BY <1>4, Zenon DEF ask, Asks

\* The queue of events holds events whatever the applications do.
LEMMA StateStays ==
  ASSUME X11!X11ClipboardAssumption, X11!StateOK, [X11!Next]_(X11!vars)
  PROVE  X11!StateOK'
<1> DEFINE owner == s1
           asks == s3
           events == s6
           requested == s7
           receiving == s8
<1>1. /\ owner \in X11!Owners /\ events \in Seq(X11!Event)
      /\ requested \in {"UTF8_STRING", "STRING"} /\ receiving \in BOOLEAN
  BY DEF X11!StateOK
<1>2. /\ X11!Value \in X11!Event /\ X11!Converted \in X11!Event /\ X11!Declined \in X11!Event
      /\ \A o \in X11!Owners : X11!OwnerEvent(o) \in X11!Event
  BY DEF X11!Event, X11!OwnerEvents
<1>3. Us \in X11!Owners /\ Nobody \in X11!Owners /\ LocalCopies \subseteq X11!Owners
  BY DEF X11!Owners
<1>4. ASSUME NEW e \in X11!Event PROVE Append(events, e) \in Seq(X11!Event)
  BY <1>4, EventQueued
<1>5. ASSUME NEW w \in Seq(X11!Event)
      PROVE  w \o <<X11!Value, X11!Converted>> \in Seq(X11!Event)
  <2> HIDE DEF X11!Event
  <2>1. Append(w, X11!Value) \in Seq(X11!Event)
    BY <1>2
  <2>2. w \o <<X11!Value, X11!Converted>> = Append(Append(w, X11!Value), X11!Converted)
    BY <1>2, TwoAdded
  <2> QED
    BY <1>2, <2>1, <2>2
<1>6. ASSUME NEW c \in LocalCopies, X11!Copy(c) PROVE X11!StateOK'
  BY <1>1, <1>2, <1>3, <1>4, <1>6 DEF X11!Copy, X11!Emit, X11!clientVars, X11!StateOK
<1>7. ASSUME NEW c \in LocalCopies, X11!NextIncrement(c) \/ X11!GiveUp(c) PROVE X11!StateOK'
  <2>1. /\ events' = Append(events, X11!Value) \/ events' = events
        /\ UNCHANGED <<owner, requested, receiving>>
    BY <1>7
    DEF X11!NextIncrement, X11!GiveUp, X11!Emit, X11!ownerVars, X11!clientVars
  <2> QED
    BY <1>1, <1>2, <1>4, <2>1 DEF X11!StateOK
<1>8. CASE X11!OwnerVanishes \/ X11!SetText
  <2>1. PICK o \in {Us, Nobody} : /\ owner' = o /\ events' = Append(events, X11!OwnerEvent(o))
                                  /\ UNCHANGED <<requested, receiving>>
    BY <1>8 DEF X11!OwnerVanishes, X11!SetText, X11!Emit, X11!clientVars
  <2> QED
    BY <1>1, <1>2, <1>3, <1>4, <2>1 DEF X11!StateOK
<1>9. ASSUME NEW n \in DOMAIN asks, X11!Answer(n) PROVE X11!StateOK'
  <2>1. /\ \/ events' = Append(events, X11!Declined)
           \/ events' = events \o <<X11!Value, X11!Converted>>
        /\ UNCHANGED <<owner, requested, receiving>>
    BY <1>9 DEF X11!Answer, X11!ownerVars, X11!clientVars
  <2> QED
    BY <1>1, <1>2, <1>4, <1>5, <2>1 DEF X11!StateOK
<1>10. ASSUME events # <<>>, NEW target \in {"UTF8_STRING", "STRING"}, X11!request(target)
       PROVE  events' \in Seq(X11!Event) /\ requested' \in {"UTF8_STRING", "STRING"}
  BY <1>10, RequestReaches
<1>11. CASE X11!ownerChanged
  <2>1. events # <<>> /\ owner' = owner
    BY <1>11 DEF X11!ownerChanged, X11!Handle, X11!ownerVars
  <2>2. \/ X11!request("UTF8_STRING")
        \/ events' = Tail(events) /\ requested' = requested
    BY <1>11 DEF X11!ownerChanged, X11!clientVars
  <2>3. receiving' \in {receiving, FALSE}
    BY <1>11 DEF X11!ownerChanged, X11!clientVars, X11!StopReceiving
  <2> QED
    BY <1>1, <1>10, <2>1, <2>2, <2>3, EventHandled DEF X11!StateOK
<1>12. CASE X11!selectionNotify
  <2>1. events # <<>> /\ owner' = owner
    BY <1>12 DEF X11!selectionNotify, X11!Handle, X11!ownerVars
  <2>2. \/ X11!request("STRING")
        \/ events' = Tail(events) /\ requested' = requested
    BY <1>12 DEF X11!selectionNotify, X11!RetryAsString, X11!clientVars
  <2>3. receiving' \in {receiving, TRUE}
    BY <1>12 DEF X11!selectionNotify, X11!clientVars
  <2> QED
    BY <1>1, <1>10, <2>1, <2>2, <2>3, EventHandled DEF X11!StateOK
<1>13. CASE X11!propertyNotify
  <2>1. events # <<>> /\ events' = Tail(events) /\ UNCHANGED <<owner, requested>>
    BY <1>13 DEF X11!propertyNotify, X11!Handle, X11!ownerVars
  <2>2. receiving' \in {receiving, FALSE}
    BY <1>13 DEF X11!propertyNotify, X11!StopReceiving
  <2> QED
    BY <1>1, <2>1, <2>2, EventHandled DEF X11!StateOK
<1>14. CASE X11!selectionRequest
  <2>1. /\ events # <<>> /\ events' = Tail(events) \o <<X11!Value, X11!Converted>>
        /\ UNCHANGED <<owner, requested, receiving>>
    BY <1>14 DEF X11!selectionRequest, X11!Handle, X11!ownerVars, X11!clientVars
  <2>2. Tail(events) \in Seq(X11!Event)
    BY <2>1, EventHandled
  <2> QED
    BY <1>1, <1>5, <2>1, <2>2 DEF X11!StateOK
<1>15. CASE UNCHANGED X11!vars
  BY <1>1, <1>15 DEF X11!vars, X11!ownerVars, X11!clientVars, X11!StateOK
<1> QED
  BY <1>6, <1>7, <1>8, <1>9, <1>11, <1>12, <1>13, <1>14, <1>15 DEF X11!Next

\* An owner's event after what a large copy leaves, and other owners' events
\* after that.
LEMMA OwnerResets ==
  ASSUME X11!StateOK, NEW o \in X11!Owners, s6' = Append(s6, X11!OwnerEvent(o)), s3' = <<>>,
         \/ X11!Reset
         \/ /\ X11!Range(s6) \subseteq {X11!Value, X11!Converted, X11!OwnerEvent(Us)} /\ o # Us
  PROVE  X11!Reset'
<1> DEFINE events == s6
           e == X11!OwnerEvent(o)
           Left == {X11!Value, X11!Converted, X11!OwnerEvent(Us)}
<1>1. /\ e \in X11!OwnerEvents /\ X11!OwnerEvent(Us).owner = Us /\ e.owner = o
      /\ e \in X11!Event /\ events \in Seq(X11!Event)
  BY EventsDiffer DEF X11!StateOK, X11!Event
<1>2. events' = Append(events, e)
  OBVIOUS
<1> HIDE DEF e
<1>3. /\ DOMAIN events' = 1..(Len(events) + 1) /\ DOMAIN events = 1..Len(events)
      /\ Len(events) \in Nat /\ \A i \in DOMAIN events : events'[i] = events[i]
      /\ events'[Len(events) + 1] = e
  BY <1>1, <1>2, AppendItems
<1>4. CASE X11!Reset
  <2>1. PICK i \in DOMAIN events :
          /\ events[i] \in X11!OwnerEvents \ {X11!OwnerEvent(Us)}
          /\ \A j \in DOMAIN events : /\ j < i => events[j] \in Left
                                      /\ j > i => events[j] \in X11!OwnerEvents
    BY <1>4 DEF X11!Reset
  <2>2. i \in DOMAIN events' /\ events'[i] = events[i]
    BY <1>3
  <2>3. ASSUME NEW j \in DOMAIN events'
        PROVE  /\ j < i => events'[j] \in Left
               /\ j > i => events'[j] \in X11!OwnerEvents
    <3>1. j \in DOMAIN events \/ (j = Len(events) + 1 /\ j > i)
      BY <1>3
    <3>2. j > i => ~(j < i)
      BY <1>3
    <3> QED
      BY <1>1, <1>3, <2>1, <3>1, <3>2
  <2> QED
    BY <2>1, <2>2, <2>3 DEF X11!Reset
<1>5. CASE X11!Range(events) \subseteq Left /\ o # Us
  <2>1. Len(events) + 1 \in DOMAIN events'
        /\ events'[Len(events) + 1] \in X11!OwnerEvents \ {X11!OwnerEvent(Us)}
    BY <1>1, <1>3, <1>5
  <2>2. ASSUME NEW j \in DOMAIN events'
        PROVE  /\ j < Len(events) + 1 => events'[j] \in Left
               /\ ~(j > Len(events) + 1)
    BY <1>3, <1>5 DEF X11!Range
  <2> QED
    BY <2>1, <2>2 DEF X11!Reset
<1> QED
  BY <1>4, <1>5

\* What was left is heard, and then the owner's event with no other left.
LEMMA ResetHeard ==
  ASSUME X11!StateOK, X11!Reset
  PROVE  /\ s6 # <<>> /\ s3 = <<>>
         /\ Head(s6) \in X11!OwnerEvents \cup {X11!Value, X11!Converted}
         /\ Head(s6) \in X11!OwnerEvents \ {X11!OwnerEvent(Us)} =>
              X11!Range(Tail(s6)) \subseteq X11!OwnerEvents
         /\ Head(s6) \notin X11!OwnerEvents \ {X11!OwnerEvent(Us)}
              /\ s6' = Tail(s6) /\ s3' = s3 => X11!Reset'
<1> DEFINE events == s6
           Left == {X11!Value, X11!Converted, X11!OwnerEvent(Us)}
<1>1. events \in Seq(X11!Event) /\ s3 = <<>>
  BY DEF X11!StateOK, X11!Reset
<1>2. PICK i \in DOMAIN events :
        /\ events[i] \in X11!OwnerEvents \ {X11!OwnerEvent(Us)}
        /\ \A j \in DOMAIN events : /\ j < i => events[j] \in Left
                                    /\ j > i => events[j] \in X11!OwnerEvents
  BY DEF X11!Reset
<1>3. /\ Len(events) \in Nat /\ DOMAIN events = 1..Len(events) /\ events # <<>>
      /\ 1 \in DOMAIN events /\ Head(events) = events[1]
  <2>1. DOMAIN events = 1..Len(events) /\ Len(events) \in Nat
    BY <1>1
  <2>2. Len(events) # 0 /\ 1 \in DOMAIN events
    BY <1>2, <2>1
  <2> QED
    BY <1>1, <2>1, <2>2
<1>4. /\ DOMAIN Tail(events) = 1..(Len(events) - 1)
      /\ \A j \in DOMAIN Tail(events) : Tail(events)[j] = events[j + 1]
  BY <1>1, <1>3, TailItems
<1>5. X11!OwnerEvent(Us) \in X11!OwnerEvents /\ X11!Value \notin X11!OwnerEvents
      /\ X11!Converted \notin X11!OwnerEvents
  BY EventsDiffer DEF X11!Owners
<1>6. CASE i = 1
  <2>1. ASSUME NEW j \in DOMAIN Tail(events) PROVE Tail(events)[j] \in X11!OwnerEvents
    <3>1. j + 1 \in DOMAIN events /\ j + 1 > i
      BY <1>3, <1>4, <1>6
    <3> QED
      BY <1>2, <1>4, <3>1
  <2> QED
    BY <1>1, <1>2, <1>3, <1>6, <2>1 DEF X11!Range
<1>7. CASE i # 1
  <2>1. Head(events) \in Left
    BY <1>2, <1>3, <1>7
  <2>2. ASSUME events' = Tail(events), s3' = s3 PROVE X11!Reset'
    <3>1. i - 1 \in DOMAIN events' /\ events'[i - 1] = events[i]
      BY <1>3, <1>4, <1>7, <2>2
    <3>2. ASSUME NEW j \in DOMAIN events'
          PROVE  /\ j < i - 1 => events'[j] \in Left
                 /\ j > i - 1 => events'[j] \in X11!OwnerEvents
      <4>1. j + 1 \in DOMAIN events /\ events'[j] = events[j + 1]
            /\ (j < i - 1 => j + 1 < i) /\ (j > i - 1 => j + 1 > i)
        BY <1>3, <1>4, <2>2
      <4> QED
        BY <1>2, <4>1
    <3> QED
      BY <1>1, <1>2, <2>2, <3>1, <3>2 DEF X11!Reset
  <2> QED
    BY <1>1, <1>3, <1>5, <2>1, <2>2
<1> QED
  BY <1>6, <1>7

\* A copy that crosses nothing, or is the first since all was quiet, is announced.
LEMMA CopyComes ==
  ASSUME X11!X11ClipboardAssumption, X11!StateOK, X11!StateOK',
         NEW c \in LocalCopies, X11!Copy(c),
         X11!Quiet \/ (X11!OwnersTextIsDue /\ ~X11!Crosses(c))
  PROVE  X11!OwnersTextIsDue'
<1> DEFINE owner == s1
           unused == s2
           asks == s3
           property == s4
           increment == s5
           events == s6
           requested == s7
           receiving == s8
           receiveData == s9
           reports == s10
<1> USE DEF X11!X11ClipboardAssumption, X11!Moving
<1> DEFINE Asks == LocalCopies \X {"UTF8_STRING", "STRING"}
           Left == {X11!Value, X11!Converted, X11!OwnerEvent(Us)}
<1>1. /\ owner' = c /\ events' = Append(events, X11!OwnerEvent(c))
      /\ UNCHANGED <<asks, property, increment, requested, receiving, receiveData, reports>>
  BY DEF X11!Copy, X11!Emit, X11!clientVars
<1>2. /\ X11!Moving = {} /\ \A a \in X11!Range(asks) : a[1] \notin Large
      /\ c \in Large => asks = <<>> /\ events = <<>>
      /\ asks \in Seq(Asks)
  <2>1. X11!Range(<<>>) = {}
    BY ShortSequences
  <2>2. <<>> \in Seq(Asks)
    OBVIOUS
  <2> QED
    BY <2>1, <2>2 DEF X11!Quiet, X11!Crosses, X11!OwnersTextIsDue, X11!TypeOK
<1>3. /\ events \in Seq(X11!Event) /\ X11!OwnerEvent(c) \in X11!Event /\ c \in X11!Owners
      /\ X11!OwnerEvent(c) # X11!Converted
  BY EventsDiffer DEF X11!StateOK, X11!Event, X11!OwnerEvents, X11!Owners
<1>4. /\ X11!Range(events') = X11!Range(events) \cup {X11!OwnerEvent(c)}
      /\ X11!LastAmong(events', X11!OwnerEvent(c), X11!Late)
      /\ events = <<>> => events' = <<X11!OwnerEvent(c)>>
  <2> HIDE DEF X11!OwnerEvent, X11!Late
  <2> QED
    BY <1>1, <1>3, ItemAdded
<1>5. asks = <<>> /\ (X11!Reset \/ X11!Range(events) \subseteq Left) => X11!Reset'
  BY <1>1, <1>3, OwnerResets
<1>6. X11!NoneMoves \/ (asks = <<>> /\ X11!Range(events) \subseteq Left)
  <2>1. CASE X11!Quiet
    BY <2>1, ShortSequences DEF X11!Quiet
  <2>2. CASE X11!OwnersTextIsDue /\ ~X11!Crosses(c)
    <3>1. CASE owner = Us /\ X11!CutOff
      <4>1. ASSUME NEW d \in Large, NEW target, asks = <<<<d, target>>>> PROVE FALSE
        <5>1. <<d, target>> \in X11!Range(asks)
          BY <4>1, ShortSequences
        <5> QED
          BY <1>2, <5>1
      <4> QED
        BY <3>1, <4>1 DEF X11!CutOff
    <3>2. CASE owner \in Large /\ X11!LargeMoves(owner)
      <4>1. asks # <<<<owner, requested>>>>
        <5>1. asks = <<<<owner, requested>>>> => <<owner, requested>> \in X11!Range(asks)
          BY ShortSequences
        <5> QED
          BY <1>2, <3>2, <5>1
      <4>2. asks = <<>> /\ events = <<X11!Value>>
        BY <1>2, <3>2, <4>1 DEF X11!LargeMoves
      <4>3. X11!Range(<<X11!Value>>) = {X11!Value}
        BY ShortSequences
      <4> QED
        BY <4>2, <4>3
    <3> QED
      BY <2>2, <3>1, <3>2
      DEF X11!OwnersTextIsDue, X11!LargeArrives, X11!TypeOK, X11!StateOK, X11!Owners
  <2> QED
    BY <2>1, <2>2
<1>7. X11!NoneMoves'
  <2>1. X11!Clean => X11!Clean'
    BY <1>1, <1>3, <1>4 DEF X11!Clean
  <2>2. X11!Reset => X11!Reset'
    BY <1>5 DEF X11!Reset
  <2> QED
    BY <1>1, <1>2, <1>5, <1>6, <2>1, <2>2 DEF X11!NoneMoves
<1>8. X11!TypeOK'
  BY <1>1, <1>2 DEF X11!TypeOK
<1>9. CASE c \notin Large
  BY <1>1, <1>4, <1>7, <1>8, <1>9 DEF X11!OwnersTextIsDue, X11!SmallArrives
<1>10. CASE c \in Large
  BY <1>1, <1>2, <1>4, <1>7, <1>8, <1>10 DEF X11!OwnersTextIsDue, X11!LargeArrives
<1> QED
  BY <1>9, <1>10

\* An owner that goes away with all there was to answer leaves nothing to come.
LEMMA OwnerGone ==
  ASSUME X11!X11ClipboardAssumption, X11!OwnersTextIsDue, X11!StateOK',
         X11!OwnerVanishes, s3' = <<>>
  PROVE  X11!OwnersTextIsDue'
<1> DEFINE owner == s1
           unused == s2
           asks == s3
           property == s4
           increment == s5
           events == s6
           requested == s7
           receiving == s8
           receiveData == s9
           reports == s10
<1> USE DEF X11!X11ClipboardAssumption, X11!Moving
<1> DEFINE Left == {X11!Value, X11!Converted, X11!OwnerEvent(Us)}
           gone == X11!OwnerEvent(Nobody)
<1>1. /\ owner \in LocalCopies /\ owner' = Nobody
      /\ increment' = [d \in X11!Moving \ {owner} |-> increment[d]]
      /\ events' = Append(events, gone)
      /\ UNCHANGED <<property, requested, receiving, receiveData, reports>>
  BY DEF X11!OwnerVanishes, X11!Emit, X11!clientVars
<1>2. /\ events \in Seq(X11!Event) /\ gone \in X11!Event
      /\ gone \notin {X11!Converted, X11!Declined, X11!Value} /\ Nobody \in X11!Owners
  BY EventsDiffer DEF X11!OwnersTextIsDue, X11!TypeOK, X11!StateOK, X11!Event, X11!Owners
<1>3. X11!StateOK
  BY DEF X11!OwnersTextIsDue, X11!TypeOK
<1>4. /\ X11!Range(events') = X11!Range(events) \cup {gone}
      /\ X11!LastAmong(events', gone, X11!Late \cup {X11!Converted})
  <2> HIDE DEF gone, X11!Late
  <2> QED
    BY <1>1, <1>2, ItemAdded
<1>5. X11!Reset \/ X11!Range(events) \subseteq Left => X11!Reset'
  BY <1>1, <1>2, <1>3, OwnerResets
<1>6. X11!NoneMoves \/ (X11!LargeMoves(owner) /\ owner \in Large)
  BY <1>1 DEF X11!OwnersTextIsDue, X11!LargeArrives
<1>7. X11!Moving' = {}
  BY <1>1, <1>6 DEF X11!NoneMoves, X11!LargeMoves
<1>8. X11!Clean' \/ X11!Reset'
  <2>1. X11!Clean => X11!Clean'
    BY <1>1, <1>2, <1>4 DEF X11!Clean
  <2>2. X11!LargeMoves(owner) => X11!Range(events) \subseteq Left
    <3>1. /\ X11!Range(<<>>) = {} /\ X11!Range(<<X11!Value>>) = {X11!Value}
          /\ X11!Range(<<X11!Converted>>) = {X11!Converted}
          /\ X11!Range(<<X11!Value, X11!Converted>>) = {X11!Value, X11!Converted}
      BY ShortSequences
    <3>2. X11!LargeMoves(owner) =>
            events \in {<<>>, <<X11!Value>>, <<X11!Converted>>, <<X11!Value, X11!Converted>>}
      BY DEF X11!LargeMoves
    <3> QED
      BY <3>1, <3>2
  <2> QED
    BY <1>5, <1>6, <2>1, <2>2 DEF X11!NoneMoves
<1>9. X11!NoneMoves'
  BY <1>7, <1>8, ShortSequences DEF X11!NoneMoves
<1>10. X11!TypeOK'
  BY DEF X11!TypeOK
<1> QED
  BY <1>1, <1>4, <1>9, <1>10 DEF X11!OwnersTextIsDue, X11!NobodyArrives

\* Our own text cuts a large copy off, and leaves what is under way alone.
LEMMA OwnTextCuts ==
  ASSUME X11!X11ClipboardAssumption, X11!OwnersTextIsDue, X11!StateOK', X11!SetText
  PROVE  X11!OwnersTextIsDue'
<1> DEFINE owner == s1
           unused == s2
           asks == s3
           property == s4
           increment == s5
           events == s6
           requested == s7
           receiving == s8
           receiveData == s9
           reports == s10
<1> USE DEF X11!X11ClipboardAssumption, X11!Moving
<1> DEFINE ours == X11!OwnerEvent(Us)
<1>1. /\ owner' = Us /\ events' = Append(events, ours)
      /\ UNCHANGED <<asks, property, increment, requested, receiving, receiveData, reports>>
  BY DEF X11!SetText, X11!Emit, X11!clientVars
<1>2. /\ events \in Seq(X11!Event) /\ ours \in X11!Event /\ ours # X11!Converted
      /\ X11!StateOK /\ Us \in X11!Owners /\ requested \in {"UTF8_STRING", "STRING"}
  BY EventsDiffer DEF X11!OwnersTextIsDue, X11!TypeOK, X11!StateOK, X11!Event, X11!Owners
<1>3. X11!Range(events') = X11!Range(events) \cup {ours}
  <2> HIDE DEF ours
  <2> QED
    BY <1>1, <1>2, ItemAdded
<1>4. X11!TypeOK'
  BY <1>1 DEF X11!OwnersTextIsDue, X11!TypeOK
<1>5. CASE X11!NoneMoves
  <2>1. X11!Clean => X11!Clean'
    BY <1>1, <1>2, <1>3 DEF X11!Clean
  <2>2. X11!Reset => X11!Reset'
    <3>1. X11!Reset => asks' = <<>>
      BY <1>1 DEF X11!Reset
    <3> QED
      BY <1>1, <1>2, <3>1, OwnerResets
  <2>3. X11!NoneMoves'
    BY <1>1, <1>5, <2>1, <2>2 DEF X11!NoneMoves
  <2> QED
    BY <1>1, <1>4, <2>3 DEF X11!OwnersTextIsDue
<1>6. CASE X11!CutOff
  <2>1. X11!CutOff'
    BY <1>1, <1>3, <1>6 DEF X11!CutOff
  <2> QED
    BY <1>1, <1>4, <2>1 DEF X11!OwnersTextIsDue
<1>7. CASE owner \in Large /\ X11!LargeMoves(owner)
  <2>1. /\ X11!Range(<<>>) = {} /\ X11!Range(<<X11!Value>>) = {X11!Value}
        /\ X11!Range(<<X11!Converted>>) = {X11!Converted}
        /\ X11!Range(<<X11!Value, X11!Converted>>) = {X11!Value, X11!Converted}
    BY ShortSequences
  <2>2. \/ asks = <<<<owner, requested>>>> /\ X11!Moving = {} /\ ~receiving /\ events = <<>>
        \/ /\ asks = <<>>
           /\ events \in {<<>>, <<X11!Value>>, <<X11!Converted>>, <<X11!Value, X11!Converted>>}
    BY <1>7 DEF X11!LargeMoves
  <2>3. X11!CutOff'
    BY <1>1, <1>2, <1>3, <1>7, <2>1, <2>2 DEF X11!CutOff
  <2> QED
    BY <1>1, <1>4, <2>3 DEF X11!OwnersTextIsDue
<1> QED
  BY <1>2, <1>5, <1>6, <1>7
  DEF X11!OwnersTextIsDue, X11!LargeArrives, X11!StateOK, X11!Owners

\* The answer to the oldest conversion.
LEMMA AnswerArrives ==
  ASSUME X11!X11ClipboardAssumption, X11!OwnersTextIsDue, X11!StateOK',
         1 \in DOMAIN s3, X11!Answer(1)
  PROVE  X11!OwnersTextIsDue'
<1> DEFINE owner == s1
           unused == s2
           asks == s3
           property == s4
           increment == s5
           events == s6
           requested == s7
           receiving == s8
           receiveData == s9
           reports == s10
<1> USE DEF X11!X11ClipboardAssumption, X11!Moving
<1> DEFINE Targets == {"UTF8_STRING", "STRING"}
           c == Head(asks)[1]
           refuses == c \in Refusing /\ Head(asks)[2] = "UTF8_STRING"
<1>1. /\ X11!TypeOK /\ events \in Seq(X11!Event) /\ asks \in Seq(LocalCopies \X Targets)
      /\ X11!Value \in X11!Event /\ X11!Converted \in X11!Event /\ X11!Declined \in X11!Event
      /\ owner \in X11!Owners
  BY DEF X11!OwnersTextIsDue, X11!TypeOK, X11!StateOK, X11!Event
<1>2. asks # <<>> /\ asks[1] = Head(asks)
  BY <1>1
<1>3. /\ Head(asks) \in LocalCopies \X Targets /\ Tail(asks) \in Seq(LocalCopies \X Targets)
      /\ X11!Range(asks) = {Head(asks)} \cup X11!Range(Tail(asks))
      /\ asks[Len(asks)] = IF Tail(asks) = <<>> THEN Head(asks) ELSE Tail(asks)[Len(Tail(asks))]
      /\ SubSeq(asks, 1, 0) \o SubSeq(asks, 2, Len(asks)) = Tail(asks)
  BY <1>1, <1>2, ItemTaken, FirstAnswered
<1>4. /\ asks' = Tail(asks) /\ c \in LocalCopies
      /\ property' = IF refuses THEN property ELSE X11!Written(IF c \in Large THEN "incr" ELSE "text", c)
      /\ increment' = IF c \in Large /\ ~refuses
                      THEN [x \in X11!Moving \cup {c} |->
                              IF x = c THEN [sent |-> 0, deleted |-> 0] ELSE increment[x]]
                      ELSE increment
      /\ events' = IF refuses THEN Append(events, X11!Declined)
                   ELSE Append(Append(events, X11!Value), X11!Converted)
      /\ UNCHANGED <<owner, requested, receiving, receiveData, reports>>
  <2>1. events \o <<X11!Value, X11!Converted>> = Append(Append(events, X11!Value), X11!Converted)
    BY <1>1, TwoAdded
  <2>2. asks' = Tail(asks)
    <3>1. asks' = SubSeq(asks, 1, 1 - 1) \o SubSeq(asks, 1 + 1, Len(asks))
      BY DEF X11!Answer
    <3>2. 1 - 1 = 0 /\ 1 + 1 = 2
      OBVIOUS
    <3> QED
      BY <1>3, <3>1, <3>2, Zenon
  <2> QED
    BY <1>2, <1>3, <2>1, <2>2 DEF X11!Answer, X11!ownerVars, X11!clientVars
<1>5. /\ X11!Range(events') = X11!Range(events)
           \cup (IF refuses THEN {X11!Declined} ELSE {X11!Value, X11!Converted})
      /\ X11!LastAmong(events, X11!OwnerEvent(owner), X11!Late) =>
           X11!LastAmong(events', X11!OwnerEvent(owner), X11!Late)
  <2>1. {X11!Value, X11!Converted, X11!Declined} \cap X11!Late = {}
    BY EventsDiffer DEF X11!Late
  <2>2. CASE refuses
    BY <1>1, <1>4, <2>1, <2>2, ItemAdded
  <2>3. CASE ~refuses
    <3> DEFINE first == Append(events, X11!Value)
    <3>1. /\ first \in Seq(X11!Event)
          /\ X11!Range(first) = X11!Range(events) \cup {X11!Value}
          /\ X11!LastAmong(events, X11!OwnerEvent(owner), X11!Late) =>
               X11!LastAmong(first, X11!OwnerEvent(owner), X11!Late)
      BY <1>1, <2>1, ItemAdded
    <3>2. events' = Append(first, X11!Converted)
      BY <1>4, <2>3
    <3> HIDE DEF first
    <3> QED
      BY <1>1, <2>1, <2>3, <3>1, <3>2, ItemAdded
  <2> QED
    BY <2>2, <2>3
<1>6. X11!TypeOK'
  BY <1>3, <1>4 DEF X11!TypeOK
<1>7. ~X11!Reset /\ ~X11!NobodyArrives /\ ~X11!LargeArrives(owner)
  BY <1>2 DEF X11!Reset, X11!NobodyArrives, X11!LargeArrives
<1>8. CASE X11!NoneMoves
  <2>1. c \notin Large /\ ~receiving /\ increment' = increment /\ X11!Clean
    BY <1>2, <1>3, <1>4, <1>7, <1>8 DEF X11!NoneMoves, X11!Clean
  <2>2. property' = IF refuses THEN property ELSE X11!Written("text", c)
    BY <1>4, <2>1
  <2>3. X11!NoneMoves'
    <3>1. X11!Written("text", c).kind = "text" /\ X11!Converted # X11!Declined
      BY EventsDiffer DEF X11!Written
    <3>2. X11!Clean'
      BY <1>4, <1>5, <2>1, <2>2, <3>1 DEF X11!Clean
    <3> QED
      BY <1>3, <1>4, <1>8, <2>1, <3>2 DEF X11!NoneMoves
  <2>4. owner # Nobody /\ owner \notin Large
    <3>1. owner \in Large => asks # <<<<owner, requested>>>>
      BY <1>2, <1>3, <2>1, ShortSequences
    <3> QED
      BY <1>2, <1>7, <3>1 DEF X11!OwnersTextIsDue, X11!LargeMoves
  <2>5. CASE owner \in LocalCopies
    <3>1. X11!SmallArrives(owner)
      BY <2>4, <2>5 DEF X11!OwnersTextIsDue
    <3>2. X11!SmallArrives(owner)'
      <4>1. CASE X11!LastAmong(events, X11!OwnerEvent(owner), X11!Late)
        BY <1>4, <1>5, <4>1 DEF X11!SmallArrives
      <4>2. CASE X11!Range(events) \cap X11!Late = {} /\ asks[Len(asks)] = <<owner, requested>>
        <5>1. X11!Range(events') \cap X11!Late = {}
          BY <1>5, <4>2, EventsDiffer DEF X11!Late
        <5>2. CASE Tail(asks) # <<>>
          BY <1>3, <1>4, <4>2, <5>1, <5>2 DEF X11!SmallArrives
        <5>3. CASE Tail(asks) = <<>>
          <6>1. c = owner /\ Head(asks)[2] = requested
            BY <1>3, <4>2, <5>3
          <6>2. refuses => requested' = "UTF8_STRING" /\ X11!Declined \in X11!Range(events')
            BY <1>4, <1>5, <6>1
          <6>3. ~refuses =>
                  property' = X11!Written("text", owner) /\ X11!Converted \in X11!Range(events')
            BY <1>5, <2>2, <6>1
          <6>4. asks' = <<>> /\ owner' = owner
            BY <1>4, <5>3
          <6> QED
            BY <5>1, <6>2, <6>3, <6>4 DEF X11!SmallArrives, X11!Written
        <5> QED
          BY <5>2, <5>3
      <4> QED
        BY <1>2, <3>1, <4>1, <4>2 DEF X11!SmallArrives
    <3> QED
      BY <1>4, <1>6, <2>3, <2>4, <2>5, <3>2 DEF X11!OwnersTextIsDue
  <2> QED
    BY <1>1, <1>4, <1>6, <2>3, <2>4, <2>5 DEF X11!OwnersTextIsDue, X11!Owners
<1>9. CASE ~X11!NoneMoves
  <2>1. /\ X11!Moving = {} /\ ~receiving /\ X11!Range(events) \subseteq {X11!OwnerEvent(Us)}
        /\ \E d \in Large, target \in Targets : asks = <<<<d, target>>>>
        /\ owner = Us \/ (owner \in Large /\ events = <<>> /\ asks = <<<<owner, requested>>>>)
    <3>1. CASE owner = Us
      BY <1>2, <1>9, <3>1 DEF X11!OwnersTextIsDue, X11!CutOff
    <3>2. CASE owner \in Large
      <4>1. requested \in Targets /\ X11!Range(<<>>) = {}
        BY <1>1, ShortSequences DEF X11!TypeOK, X11!StateOK
      <4> QED
        BY <1>2, <1>7, <3>2, <4>1 DEF X11!OwnersTextIsDue, X11!LargeMoves
    <3> QED
      BY <1>1, <1>9, <3>1, <3>2 DEF X11!OwnersTextIsDue, X11!Owners
  <2>2. PICK d \in Large, target \in Targets : asks = <<<<d, target>>>>
    BY <2>1
  <2>3. Head(asks) = <<d, target>> /\ Tail(asks) = <<>> /\ c = d /\ Head(asks)[2] = target
    BY <2>2, ShortSequences
  <2>4. CASE refuses
    <3>1. /\ asks' = <<>> /\ property' = property /\ increment' = increment
          /\ X11!Range(events') \subseteq {X11!OwnerEvent(Us), X11!Declined}
      BY <1>4, <1>5, <2>1, <2>3, <2>4
    <3>2. X11!NoneMoves'
      <4>1. X11!Converted \notin {X11!OwnerEvent(Us), X11!Declined} /\ X11!Range(<<>>) = {}
        BY EventsDiffer, ShortSequences
      <4> QED
        BY <1>4, <2>1, <3>1, <4>1 DEF X11!NoneMoves, X11!Clean
    <3>3. CASE owner = Us
      BY <1>4, <1>6, <3>2, <3>3 DEF X11!OwnersTextIsDue
    <3>4. CASE owner \in Large /\ events = <<>> /\ asks = <<<<owner, requested>>>>
      <4>1. Head(asks) = <<owner, requested>>
        BY <3>4, ShortSequences
      <4>2. c = owner /\ requested = "UTF8_STRING"
        BY <2>4, <4>1
      <4>3. events' = <<X11!Declined>>
        BY <1>4, <2>4, <3>4, ShortSequences
      <4> QED
        BY <1>4, <1>6, <3>1, <3>2, <3>4, <4>2, <4>3 DEF X11!OwnersTextIsDue, X11!LargeArrives
    <3> QED
      BY <2>1, <3>3, <3>4
  <2>5. CASE ~refuses
    <3>1. /\ asks' = <<>> /\ property' = X11!Written("incr", d) /\ ~receiving'
          /\ increment' = [x \in {d} |->
                             IF x = d THEN [sent |-> 0, deleted |-> 0] ELSE increment[x]]
      BY <1>4, <2>1, <2>3, <2>5
    <3>2. X11!Moving' = {d} /\ increment'[d] = [sent |-> 0, deleted |-> 0]
      BY <3>1
    <3>3. CASE owner = Us
      <4>1. X11!CutOff'
        BY <1>5, <2>1, <2>5, <3>1 DEF X11!CutOff
      <4> QED
        BY <1>4, <1>6, <3>3, <4>1 DEF X11!OwnersTextIsDue
    <3>4. CASE owner \in Large /\ events = <<>> /\ asks = <<<<owner, requested>>>>
      <4>1. Head(asks) = <<owner, requested>>
        BY <3>4, ShortSequences
      <4>2. d = owner
        BY <2>3, <4>1
      <4>3. events' = <<X11!Value, X11!Converted>>
        BY <1>4, <2>5, <3>4, ShortSequences
      <4> QED
        BY <1>4, <1>6, <3>1, <3>2, <3>4, <4>2, <4>3 DEF X11!OwnersTextIsDue, X11!LargeMoves
    <3> QED
      BY <2>1, <3>3, <3>4
  <2> QED
    BY <2>4, <2>5
<1> QED
  BY <1>8, <1>9

\* The next part of a large copy, or its end.
LEMMA IncrementArrives ==
  ASSUME X11!X11ClipboardAssumption, X11!OwnersTextIsDue, X11!StateOK',
         NEW c \in LocalCopies, X11!NextIncrement(c)
  PROVE  X11!OwnersTextIsDue'
<1> DEFINE owner == s1
           unused == s2
           asks == s3
           property == s4
           increment == s5
           events == s6
           requested == s7
           receiving == s8
           receiveData == s9
           reports == s10
<1> USE DEF X11!X11ClipboardAssumption, X11!Moving
<1> DEFINE at == increment[c]
<1>1. /\ c \in X11!Moving /\ at.deleted > 0
      /\ property' = X11!Written(IF at.sent < 2 THEN "part" ELSE "end", c)
      /\ increment' = IF at.sent < 2
                      THEN [increment EXCEPT ![c].sent = @ + 1, ![c].deleted = @ - 1]
                      ELSE [x \in X11!Moving \ {c} |-> increment[x]]
      /\ events' = Append(events, X11!Value)
      /\ UNCHANGED <<owner, asks, requested, receiving, receiveData, reports>>
  BY DEF X11!NextIncrement, X11!Emit, X11!ownerVars, X11!clientVars
<1>2. X11!TypeOK /\ events \in Seq(X11!Event) /\ X11!Value \in X11!Event /\ owner \in X11!Owners
  BY DEF X11!OwnersTextIsDue, X11!TypeOK, X11!StateOK, X11!Event
<1>3. X11!Range(events') = X11!Range(events) \cup {X11!Value}
  BY <1>1, <1>2, ItemAdded
<1>4. X11!TypeOK'
  BY <1>1, <1>2 DEF X11!TypeOK
<1>5. ~X11!NoneMoves
  BY <1>1 DEF X11!NoneMoves
<1>6. CASE owner = Us
  <2>1. asks = <<>> /\ X11!Range(events) \subseteq {X11!OwnerEvent(Us), X11!Value, X11!Converted}
    BY <1>1, <1>5, <1>6 DEF X11!OwnersTextIsDue, X11!CutOff
  <2> QED
    BY <1>1, <1>3, <1>4, <1>6, <2>1 DEF X11!OwnersTextIsDue, X11!CutOff
<1>7. CASE owner \in Large
  <2>1. /\ X11!Moving = {owner} /\ c = owner /\ asks = <<>> /\ receiving /\ events = <<>>
        /\ [at |-> at, data |-> receiveData] \in
             {X11!At(0, 1, <<>>), X11!At(1, 1, <<owner>>), X11!At(2, 1, <<owner, owner>>)}
    <3>1. c = owner /\ X11!LargeMoves(owner)
      BY <1>1, <1>5, <1>7 DEF X11!OwnersTextIsDue, X11!LargeArrives, X11!LargeMoves
    <3>2. at # [sent |-> 0, deleted |-> 0]
      BY <1>1
    <3>3. [at |-> at, data |-> receiveData] \notin
            {X11!At(1, 0, <<>>), X11!At(2, 0, <<owner>>)}
      BY <1>1 DEF X11!At
    <3> QED
      BY <1>1, <3>1, <3>2, <3>3 DEF X11!LargeMoves
  <2>2. events' = <<X11!Value>>
    BY <1>1, <2>1, ShortSequences
  <2>3. PICK n \in 0..2 : at = [sent |-> n, deleted |-> 1]
                          /\ receiveData = IF n = 0 THEN <<>> ELSE IF n = 1 THEN <<owner>> ELSE <<owner, owner>>
    <3>1. \/ at = [sent |-> 0, deleted |-> 1] /\ receiveData = <<>>
          \/ at = [sent |-> 1, deleted |-> 1] /\ receiveData = <<owner>>
          \/ at = [sent |-> 2, deleted |-> 1] /\ receiveData = <<owner, owner>>
      BY <2>1 DEF X11!At
    <3> QED
      BY <3>1
  <2>4. CASE n \in {0, 1}
    <3>1. X11!Moving' = {owner} /\ property' = X11!Written("part", owner)
      BY <1>1, <2>1, <2>3, <2>4
    <3>2. increment'[owner] = [sent |-> n + 1, deleted |-> 0]
      BY <1>1, <2>1, <2>3, <2>4
    <3>3. [at |-> increment[owner], data |-> receiveData]' \in
            {X11!At(1, 0, <<>>), X11!At(2, 0, <<owner>>)}
      <4>1. \/ increment'[owner] = [sent |-> 1, deleted |-> 0] /\ receiveData' = <<>>
            \/ increment'[owner] = [sent |-> 2, deleted |-> 0] /\ receiveData' = <<owner>>
        <5>1. receiveData' = receiveData
          BY <1>1
        <5>2. CASE n = 0
          <6>1. 0 + 1 = 1
            OBVIOUS
          <6> QED
            BY <2>3, <3>2, <5>1, <5>2, <6>1
        <5>3. CASE n = 1
          <6>1. 1 + 1 = 2
            OBVIOUS
          <6> QED
            BY <2>3, <3>2, <5>1, <5>3, <6>1
        <5> QED
          BY <2>4, <5>2, <5>3
      <4>2. owner' = owner
        BY <1>1
      <4> QED
        BY <4>1, <4>2 DEF X11!At
    <3>4. X11!LargeMoves(owner)'
      BY <1>1, <2>1, <2>2, <3>1, <3>3 DEF X11!LargeMoves
    <3> QED
      BY <1>1, <1>4, <1>7, <3>4 DEF X11!OwnersTextIsDue
  <2>5. CASE n = 2
    <3>1. X11!Moving' = {} /\ property' = X11!Written("end", owner)
      BY <1>1, <2>1, <2>3, <2>5
    <3>2. X11!LargeMoves(owner)'
      BY <1>1, <2>1, <2>2, <2>3, <2>5, <3>1 DEF X11!LargeMoves
    <3> QED
      BY <1>1, <1>4, <1>7, <3>2 DEF X11!OwnersTextIsDue
  <2> QED
    BY <2>4, <2>5
<1> QED
  BY <1>2, <1>5, <1>6, <1>7 DEF X11!OwnersTextIsDue, X11!Owners

\* Only a large copy that was cut off is given up.
LEMMA TransferEnds ==
  ASSUME X11!X11ClipboardAssumption, X11!OwnersTextIsDue, X11!StateOK',
         NEW c \in LocalCopies, X11!GiveUp(c)
  PROVE  X11!OwnersTextIsDue'
<1> DEFINE owner == s1
           unused == s2
           asks == s3
           property == s4
           increment == s5
           events == s6
           requested == s7
           receiving == s8
           receiveData == s9
           reports == s10
<1> USE DEF X11!X11ClipboardAssumption, X11!Moving
<1>1. /\ c \in X11!Moving \ {owner}
      /\ UNCHANGED <<owner, asks, property, events, requested, receiving, receiveData, reports>>
  BY DEF X11!GiveUp, X11!ownerVars, X11!clientVars
<1>2. X11!TypeOK' /\ owner \in X11!Owners /\ ~X11!NoneMoves
  BY <1>1 DEF X11!OwnersTextIsDue, X11!TypeOK, X11!StateOK, X11!NoneMoves
<1>3. owner = Us /\ X11!CutOff
  BY <1>1, <1>2 DEF X11!OwnersTextIsDue, X11!LargeArrives, X11!LargeMoves, X11!Owners
<1> QED
  BY <1>1, <1>2, <1>3 DEF X11!OwnersTextIsDue, X11!CutOff

\* A new owner is asked, or reported to be nobody.
LEMMA OwnerHeard ==
  ASSUME X11!X11ClipboardAssumption, X11!OwnersTextIsDue, X11!StateOK', X11!ownerChanged
  PROVE  X11!OwnersTextIsDue'
<1> DEFINE owner == s1
           unused == s2
           asks == s3
           property == s4
           increment == s5
           events == s6
           requested == s7
           receiving == s8
           receiveData == s9
           reports == s10
<1> USE DEF X11!X11ClipboardAssumption, X11!Moving
<1> DEFINE to == Head(events).owner
<1>1. /\ X11!TypeOK /\ X11!StateOK /\ owner \in X11!Owners /\ events # <<>>
      /\ Head(events) \in X11!OwnerEvents /\ to \in X11!Owners
      /\ Head(events) = X11!OwnerEvent(to)
      /\ Head(events) \notin {X11!Converted, X11!Declined, X11!Value}
  <2>1. /\ X11!TypeOK /\ X11!StateOK /\ owner \in X11!Owners /\ events # <<>>
        /\ Head(events).type = "owner"
    BY DEF X11!OwnersTextIsDue, X11!ownerChanged, X11!Handle, X11!TypeOK, X11!StateOK
  <2>2. Head(events) \in X11!Event
    BY <2>1, EventHandled
  <2> QED
    BY <2>1, <2>2, EventKinds, EventsDiffer
<1>2. UNCHANGED <<owner, property, increment>>
  BY DEF X11!ownerChanged, X11!ownerVars
<1>3. to = Us => events' = Tail(events) /\ UNCHANGED <<asks, requested, receiving, reports>>
  BY DEF X11!ownerChanged, X11!clientVars
<1>4. to # Us => receiving' = FALSE
  BY DEF X11!ownerChanged, X11!StopReceiving
<1>5. to = Nobody => reports' = <<>> /\ events' = Tail(events) /\ UNCHANGED <<asks, requested>>
  BY DEF X11!ownerChanged, X11!report
<1>6. to \in LocalCopies => X11!request("UTF8_STRING")
  BY DEF X11!ownerChanged
<1>7. /\ X11!Range(events') \subseteq X11!Range(Tail(events)) \cup {X11!Declined, X11!Asked}
      /\ owner \in LocalCopies => events' = Tail(events)
      /\ asks' \in Seq(LocalCopies \X {"UTF8_STRING", "STRING"})
      /\ owner \notin LocalCopies => asks' = asks
      /\ X11!Range(asks') \subseteq X11!Range(asks) \cup {<<owner, "UTF8_STRING">>}
      /\ owner = Nobody =>
           /\ X11!Range(events') \subseteq X11!Range(Tail(events)) \cup {X11!Declined}
           /\ \A y, T : X11!Declined \notin T /\ X11!LastAmong(Tail(events), y, T) =>
                X11!LastAmong(events', y, T)
  <2>1. CASE to \in LocalCopies
    <3>1. X11!request("UTF8_STRING") /\ "UTF8_STRING" \in {"UTF8_STRING", "STRING"}
      BY <1>6, <2>1
    <3>2. /\ X11!Range(events') \subseteq X11!Range(Tail(events)) \cup {X11!Declined, X11!Asked}
          /\ owner \in LocalCopies => events' = Tail(events)
          /\ owner = Nobody =>
               /\ X11!Range(events') \subseteq X11!Range(Tail(events)) \cup {X11!Declined}
               /\ \A y, T : X11!Declined \notin T /\ X11!LastAmong(Tail(events), y, T) =>
                    X11!LastAmong(events', y, T)
      BY <1>1, <3>1, RequestReaches
    <3>3. /\ asks' \in Seq(LocalCopies \X {"UTF8_STRING", "STRING"})
          /\ owner \notin LocalCopies => asks' = asks
          /\ X11!Range(asks') \subseteq X11!Range(asks) \cup {<<owner, "UTF8_STRING">>}
      BY <1>1, <3>1, AskWaits
    <3> QED
      BY <3>2, <3>3
  <2>2. CASE to \in {Us, Nobody}
    <3>1. events' = Tail(events) /\ asks' = asks
      BY <1>3, <1>5, <2>2
    <3> QED
      BY <1>1, <3>1 DEF X11!TypeOK
  <2> QED
    BY <1>1, <2>1, <2>2 DEF X11!Owners
<1>8. X11!TypeOK'
  BY <1>7 DEF X11!TypeOK
<1>9. /\ X11!Range(events) = {Head(events)} \cup X11!Range(Tail(events))
      /\ \A y, T : X11!LastAmong(events, y, T) =>
           \/ X11!LastAmong(Tail(events), y, T)
           \/ Head(events) = y /\ X11!Range(Tail(events)) \cap T = {}
  BY <1>1, EventHandled
<1>10. X11!NoneMoves /\ owner \notin Large => X11!NoneMoves'
  <2>1. SUFFICES ASSUME X11!NoneMoves, owner \notin Large PROVE X11!NoneMoves'
    OBVIOUS
  <2>2. X11!Converted \in X11!Range(events') => X11!Converted \in X11!Range(Tail(events))
    BY <1>7, EventsDiffer
  <2>3. CASE X11!Clean
    <3>1. ~receiving'
      BY <1>3, <1>4, <2>3 DEF X11!Clean
    <3>2. X11!Clean'
      BY <1>2, <1>9, <2>2, <2>3, <3>1 DEF X11!Clean
    <3> QED
      BY <1>2, <1>7, <2>1, <3>2 DEF X11!NoneMoves
  <2>4. CASE X11!Reset
    <3>1. CASE to = Us
      <4>1. Head(events) \notin X11!OwnerEvents \ {X11!OwnerEvent(Us)}
        BY <1>1, <3>1
      <4>2. X11!Reset'
        BY <1>1, <1>3, <2>4, <3>1, <4>1, ResetHeard
      <4> QED
        BY <1>2, <1>3, <2>1, <3>1, <4>2 DEF X11!NoneMoves
    <3>2. CASE to # Us
      <4>1. Head(events) \in X11!OwnerEvents \ {X11!OwnerEvent(Us)}
        BY <1>1, <3>2, EventsDiffer
      <4>2. X11!Range(Tail(events)) \subseteq X11!OwnerEvents
        BY <1>1, <2>4, <4>1, ResetHeard
      <4>3. X11!Clean'
        BY <1>4, <2>2, <3>2, <4>2, EventsDiffer DEF X11!Clean
      <4> QED
        BY <1>2, <1>7, <2>1, <4>3 DEF X11!NoneMoves
    <3> QED
      BY <3>1, <3>2
  <2> QED
    BY <2>1, <2>3, <2>4 DEF X11!NoneMoves
<1>11. CASE owner = Us
  <2>1. CASE X11!NoneMoves
    BY <1>2, <1>8, <1>10, <1>11, <2>1 DEF X11!OwnersTextIsDue
  <2>2. CASE X11!CutOff
    <3>1. to = Us
      BY <1>1, <1>9, <2>2, EventsDiffer DEF X11!CutOff
    <3>2. X11!CutOff'
      BY <1>2, <1>3, <1>9, <2>2, <3>1 DEF X11!CutOff
    <3> QED
      BY <1>2, <1>8, <1>11, <3>2 DEF X11!OwnersTextIsDue
  <2> QED
    BY <1>11, <2>1, <2>2 DEF X11!OwnersTextIsDue
<1>12. CASE owner = Nobody
  <2> DEFINE T == X11!Late \cup {X11!Converted}
  <2>1. X11!NoneMoves /\ X11!NobodyArrives
    BY <1>12 DEF X11!OwnersTextIsDue
  <2>2. X11!LastAmong(events, X11!OwnerEvent(Nobody), T) /\ asks = <<>>
    BY <1>1, <1>9, <2>1 DEF X11!NobodyArrives, X11!Late
  <2>3. X11!Declined \notin T
    BY EventsDiffer DEF X11!Late
  <2>4. X11!NobodyArrives'
    <3>1. CASE X11!LastAmong(Tail(events), X11!OwnerEvent(Nobody), T)
      BY <1>7, <1>12, <2>2, <2>3, <3>1 DEF X11!NobodyArrives
    <3>2. CASE Head(events) = X11!OwnerEvent(Nobody) /\ X11!Range(Tail(events)) \cap T = {}
      <4>1. to = Nobody
        BY <3>2, EventsDiffer
      <4> QED
        BY <1>5, <2>2, <3>2, <4>1 DEF X11!NobodyArrives
    <3> QED
      BY <1>9, <2>2, <3>1, <3>2
  <2> QED
    BY <1>2, <1>8, <1>10, <1>12, <2>1, <2>4 DEF X11!OwnersTextIsDue
<1>13. CASE owner \in LocalCopies \ Large
  <2>1. X11!NoneMoves /\ X11!SmallArrives(owner) /\ events' = Tail(events)
    BY <1>7, <1>13 DEF X11!OwnersTextIsDue
  <2>2. X11!LastAmong(events, X11!OwnerEvent(owner), X11!Late)
    BY <1>1, <1>9, <2>1 DEF X11!SmallArrives, X11!Late
  <2>3. X11!SmallArrives(owner)'
    <3>1. CASE X11!LastAmong(Tail(events), X11!OwnerEvent(owner), X11!Late)
      BY <1>2, <2>1, <3>1 DEF X11!SmallArrives
    <3>2. CASE Head(events) = X11!OwnerEvent(owner) /\ X11!Range(Tail(events)) \cap X11!Late = {}
      <4>1. to = owner
        BY <3>2, EventsDiffer
      <4>2. X11!request("UTF8_STRING") /\ requested' = "UTF8_STRING"
        BY <1>6, <1>13, <4>1 DEF X11!request
      <4>3. asks' # <<>> /\ asks'[Len(asks')] = <<owner, requested'>>
        BY <1>1, <1>13, <4>2, AskWaits
      <4> QED
        BY <1>2, <2>1, <3>2, <4>3 DEF X11!SmallArrives
    <3> QED
      BY <1>9, <2>2, <3>1, <3>2
  <2> QED
    BY <1>2, <1>8, <1>10, <1>13, <2>1, <2>3 DEF X11!OwnersTextIsDue
<1>14. CASE owner \in Large
  <2>1. X11!Moving = {} /\ asks = <<>> /\ events = <<X11!OwnerEvent(owner)>>
    <3>1. /\ events # <<X11!Declined>> /\ events # <<X11!Value>> /\ events # <<X11!Converted>>
          /\ events # <<X11!Value, X11!Converted>>
      BY <1>1, ShortSequences
    <3> QED
      BY <1>1, <1>14, <3>1
      DEF X11!OwnersTextIsDue, X11!LargeArrives, X11!LargeMoves, X11!NoneMoves
  <2>2. to = owner /\ Tail(events) = <<>>
    BY <2>1, ShortSequences, EventsDiffer
  <2>3. X11!request("UTF8_STRING") /\ requested' = "UTF8_STRING" /\ ~receiving'
    BY <1>4, <1>6, <1>14, <2>2 DEF X11!request
  <2>4. asks' = <<<<owner, requested'>>>> /\ events' = <<>>
    BY <1>1, <1>7, <1>14, <2>1, <2>2, <2>3, AskWaits
  <2>5. X11!LargeMoves(owner)'
    BY <1>2, <2>1, <2>3, <2>4 DEF X11!LargeMoves
  <2> QED
    BY <1>2, <1>8, <1>14, <2>5 DEF X11!OwnersTextIsDue
<1> QED
  BY <1>1, <1>11, <1>12, <1>13, <1>14 DEF X11!Owners

\* A conversion that was refused is tried again, one that was answered is read.
LEMMA AnswerHeard ==
  ASSUME X11!X11ClipboardAssumption, X11!OwnersTextIsDue, X11!StateOK', X11!selectionNotify
  PROVE  X11!OwnersTextIsDue'
<1> DEFINE owner == s1
           unused == s2
           asks == s3
           property == s4
           increment == s5
           events == s6
           requested == s7
           receiving == s8
           receiveData == s9
           reports == s10
<1> USE DEF X11!X11ClipboardAssumption, X11!Moving
<1> DEFINE ok == Head(events).ok
<1>1. /\ X11!TypeOK /\ X11!StateOK /\ owner \in X11!Owners /\ events # <<>> /\ ok \in BOOLEAN
      /\ Head(events) = IF ok THEN X11!Converted ELSE X11!Declined
      /\ Head(events) \notin X11!Late /\ Head(events) # X11!Value
  <2>1. /\ X11!TypeOK /\ X11!StateOK /\ owner \in X11!Owners /\ events # <<>>
        /\ Head(events).type = "notify"
    BY DEF X11!OwnersTextIsDue, X11!selectionNotify, X11!Handle, X11!TypeOK, X11!StateOK
  <2>2. Head(events) \in X11!Event
    BY <2>1, EventHandled
  <2>3. ok \in BOOLEAN /\ Head(events) = IF ok THEN X11!Converted ELSE X11!Declined
    BY <2>1, <2>2, EventKinds
  <2> QED
    BY <2>1, <2>3, EventsDiffer DEF X11!Late
<1>2. owner' = owner /\ X11!Moving' = X11!Moving
  BY DEF X11!selectionNotify, X11!ownerVars, X11!GetProperty
<1>3. owner = Us =>
        /\ events' = Tail(events)
        /\ UNCHANGED <<asks, property, increment, requested, receiving, reports>>
  BY DEF X11!selectionNotify, X11!clientVars
<1>4. owner # Us /\ ~ok =>
        /\ UNCHANGED <<property, increment, receiving, reports>>
        /\ \/ requested # "STRING" /\ X11!request("STRING")
           \/ requested = "STRING" /\ events' = Tail(events) /\ UNCHANGED <<asks, requested>>
  BY DEF X11!selectionNotify, X11!RetryAsString
<1>5. owner # Us /\ ok =>
        /\ events' = Tail(events) /\ property' = X11!Nothing /\ UNCHANGED <<asks, requested>>
        /\ property # X11!Nothing =>
             increment' = [d \in X11!Moving |-> [increment[d] EXCEPT !.deleted = @ + 1]]
        /\ property.kind = "incr" =>
             receiving' = TRUE /\ receiveData' = <<>> /\ reports' = reports
        /\ property.kind # "incr" => receiving' = receiving
        /\ property.kind = "nothing" => reports' = reports
        /\ property.kind = "text" => reports' = <<property.text>>
  BY DEF X11!selectionNotify, X11!report, X11!GetProperty
<1>6. /\ X11!Range(events') \subseteq X11!Range(Tail(events)) \cup {X11!Declined, X11!Asked}
      /\ owner \in LocalCopies => events' = Tail(events)
      /\ asks' \in Seq(LocalCopies \X {"UTF8_STRING", "STRING"})
      /\ owner \notin LocalCopies => asks' = asks
      /\ X11!Range(asks') \subseteq X11!Range(asks) \cup {<<owner, "STRING">>}
      /\ owner = Nobody =>
           /\ X11!Range(events') \subseteq X11!Range(Tail(events)) \cup {X11!Declined}
           /\ \A y, T : X11!Declined \notin T /\ X11!LastAmong(Tail(events), y, T) =>
                X11!LastAmong(events', y, T)
  <2>1. CASE owner # Us /\ ~ok /\ requested # "STRING"
    <3>1. X11!request("STRING") /\ "STRING" \in {"UTF8_STRING", "STRING"}
      BY <1>4, <2>1
    <3>2. /\ X11!Range(events') \subseteq X11!Range(Tail(events)) \cup {X11!Declined, X11!Asked}
          /\ owner \in LocalCopies => events' = Tail(events)
          /\ owner = Nobody =>
               /\ X11!Range(events') \subseteq X11!Range(Tail(events)) \cup {X11!Declined}
               /\ \A y, T : X11!Declined \notin T /\ X11!LastAmong(Tail(events), y, T) =>
                    X11!LastAmong(events', y, T)
      BY <1>1, <3>1, RequestReaches
    <3>3. /\ asks' \in Seq(LocalCopies \X {"UTF8_STRING", "STRING"})
          /\ owner \notin LocalCopies => asks' = asks
          /\ X11!Range(asks') \subseteq X11!Range(asks) \cup {<<owner, "STRING">>}
      BY <1>1, <3>1, AskWaits
    <3> QED
      BY <3>2, <3>3
  <2>2. CASE ~(owner # Us /\ ~ok /\ requested # "STRING")
    <3>1. events' = Tail(events) /\ asks' = asks
      BY <1>1, <1>3, <1>4, <1>5, <2>2
    <3> QED
      BY <1>1, <3>1 DEF X11!TypeOK
  <2> QED
    BY <2>1, <2>2
<1>7. X11!TypeOK'
  BY <1>6 DEF X11!TypeOK
<1>8. /\ X11!Range(events) = {Head(events)} \cup X11!Range(Tail(events))
      /\ \A y, T : X11!LastAmong(events, y, T) =>
           \/ X11!LastAmong(Tail(events), y, T)
           \/ Head(events) = y /\ X11!Range(Tail(events)) \cap T = {}
  BY <1>1, EventHandled
<1>9. X11!Reset => ok /\ X11!Reset'
  <2> SUFFICES ASSUME X11!Reset PROVE ok /\ X11!Reset'
    OBVIOUS
  <2>1. ok
    BY <1>1, ResetHeard, EventsDiffer
  <2>2. events' = Tail(events) /\ asks' = asks
    BY <1>3, <1>5, <2>1
  <2>3. Head(events) \notin X11!OwnerEvents \ {X11!OwnerEvent(Us)}
    BY <1>1 DEF X11!Late
  <2> QED
    BY <1>1, <2>1, <2>2, <2>3, ResetHeard
<1>10. X11!Clean => X11!Clean' /\ (ok => property.kind \in {"nothing", "text"})
  <2> SUFFICES ASSUME X11!Clean
               PROVE  X11!Clean' /\ (ok => property.kind \in {"nothing", "text"})
    OBVIOUS
  <2>1. ok => property.kind \in {"nothing", "text"}
    BY <1>1, <1>8 DEF X11!Clean
  <2>2. ~receiving' /\ property' \in {property, X11!Nothing}
    BY <1>1, <1>3, <1>4, <1>5, <2>1 DEF X11!Clean
  <2>3. X11!Converted \in X11!Range(events') => X11!Converted \in X11!Range(events)
    BY <1>6, <1>8, EventsDiffer
  <2>4. X11!Nothing.kind = "nothing"
    BY DEF X11!Nothing
  <2> QED
    BY <2>1, <2>2, <2>3, <2>4 DEF X11!Clean
<1>11. X11!NoneMoves /\ owner \notin Large => X11!NoneMoves'
  <2>1. SUFFICES ASSUME X11!NoneMoves, owner \notin Large PROVE X11!NoneMoves'
    OBVIOUS
  <2>2. \A a \in X11!Range(asks') : a[1] \notin Large
    BY <1>6, <2>1 DEF X11!NoneMoves
  <2> QED
    BY <1>2, <1>9, <1>10, <2>1, <2>2 DEF X11!NoneMoves
<1>12. CASE owner = Us
  <2>1. CASE X11!NoneMoves
    BY <1>2, <1>7, <1>11, <1>12, <2>1 DEF X11!OwnersTextIsDue
  <2>2. CASE X11!CutOff
    <3>1. X11!CutOff'
      BY <1>2, <1>3, <1>8, <1>12, <2>2 DEF X11!CutOff
    <3> QED
      BY <1>2, <1>7, <1>12, <3>1 DEF X11!OwnersTextIsDue
  <2> QED
    BY <1>12, <2>1, <2>2 DEF X11!OwnersTextIsDue
<1>13. CASE owner = Nobody
  <2> DEFINE T == X11!Late \cup {X11!Converted}
  <2>1. X11!NoneMoves /\ X11!NobodyArrives /\ asks' = asks
    BY <1>6, <1>13 DEF X11!OwnersTextIsDue
  <2>2. X11!Declined \notin T
    BY EventsDiffer DEF X11!Late
  <2>3. CASE X11!LastAmong(Tail(events), X11!OwnerEvent(Nobody), T)
    <3>1. X11!NobodyArrives'
      BY <1>6, <1>13, <2>1, <2>2, <2>3 DEF X11!NobodyArrives
    <3> QED
      BY <1>2, <1>7, <1>11, <1>13, <2>1, <3>1 DEF X11!OwnersTextIsDue
  <2>4. CASE X11!Range(events) \cap T = {} /\ reports \in {<<>>, Us}
    <3>1. ~ok
      BY <1>1, <1>8, <2>4
    <3>2. X11!Range(events') \cap T = {} /\ reports' = reports
      BY <1>1, <1>4, <1>6, <1>8, <1>13, <2>2, <2>4, <3>1
    <3>3. X11!NobodyArrives'
      BY <2>1, <2>4, <3>2 DEF X11!NobodyArrives
    <3> QED
      BY <1>2, <1>7, <1>11, <1>13, <2>1, <3>3 DEF X11!OwnersTextIsDue
  <2>5. Head(events) # X11!OwnerEvent(Nobody)
    BY <1>1, EventsDiffer DEF X11!Owners
  <2> QED
    BY <1>8, <2>1, <2>3, <2>4, <2>5 DEF X11!NobodyArrives
<1>14. CASE owner \in LocalCopies \ Large
  <2>1. X11!NoneMoves /\ X11!SmallArrives(owner) /\ events' = Tail(events) /\ owner # Us
    BY <1>6, <1>14 DEF X11!OwnersTextIsDue
  <2>2. CASE X11!LastAmong(events, X11!OwnerEvent(owner), X11!Late)
    <3>1. Head(events) # X11!OwnerEvent(owner)
      BY <1>1, <1>14, EventsDiffer DEF X11!Owners
    <3>2. X11!LastAmong(events', X11!OwnerEvent(owner), X11!Late)
      BY <1>8, <2>1, <2>2, <3>1
    <3>3. X11!SmallArrives(owner)'
      BY <1>2, <3>2 DEF X11!SmallArrives
    <3> QED
      BY <1>2, <1>7, <1>11, <1>14, <2>1, <3>3 DEF X11!OwnersTextIsDue
  <2>3. CASE ~X11!LastAmong(events, X11!OwnerEvent(owner), X11!Late)
    <3>1. X11!Range(events) \cap X11!Late = {} /\ X11!Range(events') \cap X11!Late = {}
      BY <1>8, <2>1, <2>3 DEF X11!SmallArrives
    <3>2. CASE ~ok /\ requested # "STRING"
      <4>1. X11!request("STRING") /\ requested' = "STRING"
        BY <1>4, <2>1, <3>2 DEF X11!request
      <4>2. asks' # <<>> /\ asks'[Len(asks')] = <<owner, requested'>>
        BY <1>1, <1>14, <4>1, AskWaits
      <4>3. X11!SmallArrives(owner)'
        BY <1>2, <3>1, <4>2 DEF X11!SmallArrives
      <4> QED
        BY <1>2, <1>7, <1>11, <1>14, <2>1, <4>3 DEF X11!OwnersTextIsDue
    <3>3. CASE ~ok /\ requested = "STRING"
      <4>1. UNCHANGED <<asks, requested, property, reports>>
        BY <1>4, <2>1, <3>3
      <4>2. X11!Converted \in X11!Range(events) => X11!Converted \in X11!Range(events')
        BY <1>1, <1>8, <2>1, <3>3, EventsDiffer
      <4>3. X11!SmallArrives(owner)'
        BY <1>2, <2>1, <2>3, <3>1, <3>3, <4>1, <4>2 DEF X11!SmallArrives
      <4> QED
        BY <1>2, <1>7, <1>11, <1>14, <2>1, <4>3 DEF X11!OwnersTextIsDue
    <3>4. CASE ok
      <4>1. /\ UNCHANGED <<asks, requested>> /\ property' = X11!Nothing
            /\ property.kind = "nothing" => reports' = reports
            /\ property.kind = "text" => reports' = <<property.text>>
        BY <1>5, <2>1, <3>4
      <4>2. X11!Declined \in X11!Range(events) => X11!Declined \in X11!Range(events')
        BY <1>1, <1>8, <2>1, <3>4, EventsDiffer
      <4>3. /\ property = X11!Written("text", owner) => reports' = <<owner>>
            /\ property = X11!Nothing => reports' = reports
        BY <4>1 DEF X11!Written, X11!Nothing
      <4>4. X11!SmallArrives(owner)'
        BY <1>2, <2>1, <2>3, <3>1, <4>1, <4>2, <4>3 DEF X11!SmallArrives
      <4> QED
        BY <1>2, <1>7, <1>11, <1>14, <2>1, <4>4 DEF X11!OwnersTextIsDue
    <3> QED
      BY <1>1, <3>2, <3>3, <3>4
  <2> QED
    BY <2>2, <2>3
<1>15. CASE owner \in Large
  <2>1. asks = <<>> /\ owner # Us /\ owner # Nobody
        /\ \/ X11!NoneMoves /\ events = <<X11!Declined>> /\ requested = "UTF8_STRING"
           \/ /\ X11!Moving = {owner} /\ increment[owner] = [sent |-> 0, deleted |-> 0]
              /\ property = X11!Written("incr", owner) /\ events = <<X11!Converted>>
    <3>1. /\ events # <<X11!OwnerEvent(owner)>> /\ events # <<>> /\ events # <<X11!Value>>
          /\ events # <<X11!Value, X11!Converted>> /\ X11!OwnerEvent(owner) \in X11!OwnerEvents
      BY <1>1, <1>15, ShortSequences, EventsDiffer DEF X11!Owners, X11!Late
    <3> QED
      BY <1>15, <3>1 DEF X11!OwnersTextIsDue, X11!LargeArrives, X11!LargeMoves
  <2>2. CASE X11!NoneMoves /\ events = <<X11!Declined>> /\ requested = "UTF8_STRING"
    <3>1. Head(events) = X11!Declined /\ Tail(events) = <<>>
      BY <2>2, ShortSequences
    <3>2. ~ok
      BY <1>1, <3>1, EventsDiffer
    <3>3. X11!request("STRING") /\ requested' = "STRING" /\ receiving' = receiving
      BY <1>4, <2>1, <2>2, <3>2 DEF X11!request
    <3>4. ~receiving /\ X11!Moving = {}
      BY <1>9, <2>2, <3>2 DEF X11!NoneMoves, X11!Clean
    <3>5. asks' = <<<<owner, requested'>>>> /\ events' = <<>>
      BY <1>1, <1>6, <1>15, <2>1, <3>1, <3>3, AskWaits
    <3>6. X11!LargeMoves(owner)'
      BY <1>2, <3>3, <3>4, <3>5 DEF X11!LargeMoves
    <3> QED
      BY <1>2, <1>7, <1>15, <3>6 DEF X11!OwnersTextIsDue
  <2>3. CASE /\ X11!Moving = {owner} /\ increment[owner] = [sent |-> 0, deleted |-> 0]
             /\ property = X11!Written("incr", owner) /\ events = <<X11!Converted>>
    <3>1. Head(events) = X11!Converted /\ Tail(events) = <<>>
      BY <2>3, ShortSequences
    <3>2. ok
      BY <1>1, <3>1, EventsDiffer
    <3>3. property.kind = "incr" /\ property # X11!Nothing
      BY <2>3 DEF X11!Written, X11!Nothing
    <3>4. /\ events' = <<>> /\ property' = X11!Nothing /\ asks' = <<>>
          /\ receiving' = TRUE /\ receiveData' = <<>>
          /\ increment' = [d \in {owner} |-> [increment[d] EXCEPT !.deleted = @ + 1]]
      BY <1>5, <2>1, <2>3, <3>1, <3>2, <3>3
    <3>5. increment'[owner] = [sent |-> 0, deleted |-> 1]
      BY <2>3, <3>4
    <3>6. [at |-> increment[owner], data |-> receiveData]' = X11!At(0, 1, <<>>)
      BY <1>2, <3>4, <3>5 DEF X11!At
    <3>7. X11!LargeMoves(owner)'
      BY <1>2, <2>3, <3>4, <3>6 DEF X11!LargeMoves
    <3> QED
      BY <1>2, <1>7, <1>15, <3>7 DEF X11!OwnersTextIsDue
  <2> QED
    BY <2>1, <2>2, <2>3
<1> QED
  BY <1>1, <1>12, <1>13, <1>14, <1>15 DEF X11!Owners

\* While a large copy comes in, a new value is the next part of it, or the end.
LEMMA ValueHeard ==
  ASSUME X11!X11ClipboardAssumption, X11!OwnersTextIsDue, X11!StateOK', X11!propertyNotify
  PROVE  X11!OwnersTextIsDue'
<1> DEFINE owner == s1
           unused == s2
           asks == s3
           property == s4
           increment == s5
           events == s6
           requested == s7
           receiving == s8
           receiveData == s9
           reports == s10
<1> USE DEF X11!X11ClipboardAssumption, X11!Moving
<1>1. /\ X11!TypeOK /\ X11!StateOK /\ owner \in X11!Owners /\ events # <<>>
      /\ Head(events) = X11!Value
  <2>1. /\ X11!TypeOK /\ X11!StateOK /\ owner \in X11!Owners /\ events # <<>>
        /\ Head(events).type = "value"
    BY DEF X11!OwnersTextIsDue, X11!propertyNotify, X11!Handle, X11!TypeOK, X11!StateOK
  <2>2. Head(events) \in X11!Event
    BY <2>1, EventHandled
  <2> QED
    BY <2>1, <2>2, EventKinds
<1>2. events' = Tail(events) /\ UNCHANGED <<owner, asks, requested>> /\ X11!Moving' = X11!Moving
  BY DEF X11!propertyNotify, X11!ownerVars, X11!GetProperty
<1>3. ~receiving => UNCHANGED <<property, increment, receiving, reports>>
  BY DEF X11!propertyNotify
<1>4. receiving =>
        /\ property' = X11!Nothing
        /\ property # X11!Nothing =>
             increment' = [d \in X11!Moving |-> [increment[d] EXCEPT !.deleted = @ + 1]]
        /\ property.kind = "end" => receiving' = FALSE /\ reports' = receiveData
        /\ property.kind = "part" =>
             receiveData' = Append(receiveData, property.text) /\ receiving' = receiving
  BY DEF X11!propertyNotify, X11!StopReceiving, X11!report, X11!GetProperty
<1>5. /\ Tail(events) \in Seq(X11!Event)
      /\ X11!Range(events) = {X11!Value} \cup X11!Range(Tail(events))
      /\ \A o, T : X11!LastAmong(events, X11!OwnerEvent(o), T) =>
           X11!LastAmong(Tail(events), X11!OwnerEvent(o), T)
  <2>1. \A o : X11!OwnerEvent(o) # X11!Value
    BY EventsDiffer
  <2> QED
    BY <1>1, <2>1, EventHandled
<1>6. X11!TypeOK'
  BY <1>1, <1>2 DEF X11!TypeOK
<1>7. X11!Reset => X11!Reset' /\ X11!Range(events) \cap X11!Late # {}
  <2> SUFFICES ASSUME X11!Reset PROVE X11!Reset' /\ X11!Range(events) \cap X11!Late # {}
    OBVIOUS
  <2>1. Head(events) \notin X11!OwnerEvents \ {X11!OwnerEvent(Us)}
    BY <1>1, EventsDiffer
  <2>2. X11!Reset'
    BY <1>1, <1>2, <2>1, ResetHeard
  <2> QED
    BY <2>2 DEF X11!Reset, X11!Range, X11!Late
<1>8. X11!NoneMoves => X11!NoneMoves'
  <2>1. X11!Clean => X11!Clean'
    BY <1>2, <1>3, <1>5 DEF X11!Clean
  <2> QED
    BY <1>2, <1>7, <2>1 DEF X11!NoneMoves
<1>9. X11!NoneMoves /\ receiving => X11!Range(events) \cap X11!Late # {}
  BY <1>7 DEF X11!NoneMoves, X11!Clean
<1>10. CASE owner = Us
  <2>1. X11!CutOff => X11!CutOff'
    <3>1. X11!Value # X11!OwnerEvent(Us)
      BY EventsDiffer
    <3> QED
      BY <1>2, <1>5, <3>1 DEF X11!CutOff
  <2> QED
    BY <1>2, <1>6, <1>8, <1>10, <2>1 DEF X11!OwnersTextIsDue
<1>11. CASE owner = Nobody
  <2>1. X11!NoneMoves /\ X11!NobodyArrives
    BY <1>11 DEF X11!OwnersTextIsDue
  <2>2. X11!NobodyArrives'
    BY <1>2, <1>3, <1>5, <1>9, <2>1 DEF X11!NobodyArrives
  <2> QED
    BY <1>2, <1>6, <1>8, <1>11, <2>1, <2>2 DEF X11!OwnersTextIsDue
<1>12. CASE owner \in LocalCopies \ Large
  <2>1. X11!NoneMoves /\ X11!SmallArrives(owner)
    BY <1>12 DEF X11!OwnersTextIsDue
  <2>2. X11!Value \notin {X11!Converted, X11!Declined}
    BY EventsDiffer
  <2>3. X11!SmallArrives(owner)'
    <3>1. CASE X11!LastAmong(events, X11!OwnerEvent(owner), X11!Late)
      BY <1>2, <1>5, <3>1 DEF X11!SmallArrives
    <3>2. CASE ~X11!LastAmong(events, X11!OwnerEvent(owner), X11!Late)
      <4>1. X11!Range(events) \cap X11!Late = {}
        BY <2>1, <3>2 DEF X11!SmallArrives
      <4>2. UNCHANGED <<property, reports>>
        BY <1>3, <1>9, <2>1, <4>1
      <4> QED
        BY <1>2, <1>5, <2>1, <2>2, <3>2, <4>1, <4>2 DEF X11!SmallArrives
    <3> QED
      BY <3>1, <3>2
  <2> QED
    BY <1>2, <1>6, <1>8, <1>12, <2>1, <2>3 DEF X11!OwnersTextIsDue
<1>13. CASE owner \in Large
  <2>1. X11!LargeMoves(owner) /\ events \notin {<<>>, <<X11!Converted>>}
    <3>1. events \notin {<<X11!OwnerEvent(owner)>>, <<X11!Declined>>, <<>>, <<X11!Converted>>}
      BY <1>1, ShortSequences, EventsDiffer
    <3> QED
      BY <1>13, <3>1 DEF X11!OwnersTextIsDue, X11!LargeArrives
  <2>2. CASE ~receiving
    <3>1. /\ X11!Moving = {owner} /\ increment[owner] = [sent |-> 0, deleted |-> 0]
          /\ asks = <<>> /\ property = X11!Written("incr", owner)
          /\ events = <<X11!Value, X11!Converted>>
      BY <2>1, <2>2 DEF X11!LargeMoves
    <3>2. events' = <<X11!Converted>>
      BY <1>2, <3>1, ShortSequences
    <3>3. X11!LargeMoves(owner)'
      BY <1>2, <1>3, <2>2, <3>1, <3>2 DEF X11!LargeMoves
    <3> QED
      BY <1>2, <1>6, <1>13, <3>3 DEF X11!OwnersTextIsDue
  <2>3. CASE receiving
    <3>1. asks = <<>> /\ events = <<X11!Value>> /\ events' = <<>>
      BY <1>2, <2>1, <2>3, ShortSequences DEF X11!LargeMoves
    <3>2. CASE /\ X11!Moving = {owner} /\ property = X11!Written("part", owner)
               /\ [at |-> increment[owner], data |-> receiveData] \in
                    {X11!At(1, 0, <<>>), X11!At(2, 0, <<owner>>)}
      <4>1. property.kind = "part" /\ property.text = owner /\ property # X11!Nothing
        BY <3>2 DEF X11!Written, X11!Nothing
      <4>2. /\ property' = X11!Nothing /\ receiving'
            /\ receiveData' = Append(receiveData, owner)
            /\ increment' = [d \in {owner} |-> [increment[d] EXCEPT !.deleted = @ + 1]]
        BY <1>4, <2>3, <3>2, <4>1
      <4>3. \/ increment[owner] = [sent |-> 1, deleted |-> 0] /\ receiveData = <<>>
            \/ increment[owner] = [sent |-> 2, deleted |-> 0] /\ receiveData = <<owner>>
        BY <3>2 DEF X11!At
      <4>4. Append(<<>>, owner) = <<owner>> /\ Append(<<owner>>, owner) = <<owner, owner>>
        BY ShortSequences
      <4>5. \/ increment'[owner] = [sent |-> 1, deleted |-> 1] /\ receiveData' = <<owner>>
            \/ increment'[owner] = [sent |-> 2, deleted |-> 1] /\ receiveData' = <<owner, owner>>
        <5>1. increment'[owner] = [increment[owner] EXCEPT !.deleted = @ + 1]
          BY <3>2, <4>2
        <5>2. ASSUME increment[owner] = [sent |-> 1, deleted |-> 0], receiveData = <<>>
              PROVE  increment'[owner] = [sent |-> 1, deleted |-> 1] /\ receiveData' = <<owner>>
          BY <4>2, <4>4, <5>1, <5>2
        <5>3. ASSUME increment[owner] = [sent |-> 2, deleted |-> 0], receiveData = <<owner>>
              PROVE  increment'[owner] = [sent |-> 2, deleted |-> 1]
                     /\ receiveData' = <<owner, owner>>
          BY <4>2, <4>4, <5>1, <5>3
        <5> QED
          BY <4>3, <5>2, <5>3
      <4>6. [at |-> increment[owner], data |-> receiveData]' \in
              {X11!At(1, 1, <<owner>>), X11!At(2, 1, <<owner, owner>>)}
        BY <1>2, <4>5 DEF X11!At
      <4>7. X11!LargeMoves(owner)'
        BY <1>2, <3>1, <3>2, <4>2, <4>6 DEF X11!LargeMoves
      <4> QED
        BY <1>2, <1>6, <1>13, <4>7 DEF X11!OwnersTextIsDue
    <3>3. CASE /\ X11!Moving = {} /\ property = X11!Written("end", owner)
               /\ receiveData = <<owner, owner>>
      <4>1. property.kind = "end"
        BY <3>3 DEF X11!Written
      <4>2. receiving' = FALSE /\ reports' = X11!TextOf(owner)
        <5>1. X11!TextOf(owner) = <<owner, owner>>
          BY <1>13 DEF X11!TextOf
        <5> QED
          BY <1>4, <2>3, <3>3, <4>1, <5>1
      <4>3. X11!NoneMoves'
        <5>1. X11!Range(<<>>) = {}
          BY ShortSequences
        <5> QED
          BY <1>2, <3>1, <3>3, <4>2, <5>1 DEF X11!NoneMoves, X11!Clean
      <4>4. X11!LargeArrives(owner)'
        BY <1>2, <3>1, <4>2, <4>3 DEF X11!LargeArrives, X11!TextOf
      <4> QED
        BY <1>2, <1>6, <1>13, <4>4 DEF X11!OwnersTextIsDue
    <3> QED
      BY <2>1, <2>3, <3>1, <3>2, <3>3 DEF X11!LargeMoves
  <2> QED
    BY <2>2, <2>3
<1> QED
  BY <1>1, <1>10, <1>11, <1>12, <1>13 DEF X11!Owners

\* Our own text answers us before the new owner's text is asked for.
LEMMA OwnTextRead ==
  ASSUME X11!X11ClipboardAssumption, X11!OwnersTextIsDue, X11!StateOK',
         X11!selectionRequest, s1 # Nobody
  PROVE  X11!OwnersTextIsDue'
<1> DEFINE owner == s1
           unused == s2
           asks == s3
           property == s4
           increment == s5
           events == s6
           requested == s7
           receiving == s8
           receiveData == s9
           reports == s10
<1> USE DEF X11!X11ClipboardAssumption, X11!Moving
<1>1. /\ X11!TypeOK /\ X11!StateOK /\ owner \in X11!Owners /\ events # <<>>
      /\ Head(events) = X11!Asked
  <2>1. /\ X11!TypeOK /\ X11!StateOK /\ owner \in X11!Owners /\ events # <<>>
        /\ Head(events).type = "request"
    BY DEF X11!OwnersTextIsDue, X11!selectionRequest, X11!Handle, X11!TypeOK, X11!StateOK
  <2>2. Head(events) \in X11!Event
    BY <2>1, EventHandled
  <2> QED
    BY <2>1, <2>2, EventKinds
<1>2. /\ property' = X11!Written("text", Us)
      /\ events' = Append(Append(Tail(events), X11!Value), X11!Converted)
      /\ UNCHANGED <<owner, asks, increment, requested, receiving, reports>>
  <2>1. Tail(events) \in Seq(X11!Event) /\ X11!Value \in X11!Event /\ X11!Converted \in X11!Event
    BY <1>1, EventHandled DEF X11!Event
  <2>2. Tail(events) \o <<X11!Value, X11!Converted>>
          = Append(Append(Tail(events), X11!Value), X11!Converted)
    BY <2>1, TwoAdded
  <2> QED
    BY <2>2 DEF X11!selectionRequest, X11!ownerVars, X11!clientVars
<1>3. X11!Asked \in X11!Range(events) /\ X11!Asked \notin {X11!OwnerEvent(Us), X11!Value, X11!Converted}
      /\ X11!Asked \notin X11!OwnerEvents /\ X11!Asked # X11!Declined
  BY <1>1, EventHandled, EventsDiffer
<1>4. X11!TypeOK'
  BY <1>1, <1>2 DEF X11!TypeOK
<1>5. ~X11!Reset /\ ~X11!CutOff
  <2>1. ~X11!Reset
    BY <1>1, <1>3, ResetHeard
  <2>2. ~X11!CutOff
    BY <1>3 DEF X11!CutOff
  <2> QED
    BY <2>1, <2>2
<1>6. owner \notin Large
  <2>1. ASSUME owner \in Large PROVE FALSE
    <3>1. /\ events \notin {<<>>, <<X11!Declined>>, <<X11!Value>>, <<X11!Converted>>,
                             <<X11!Value, X11!Converted>>}
          /\ events # <<X11!OwnerEvent(owner)>>
      BY <1>1, <1>3, <2>1, ShortSequences, EventsDiffer
    <3> QED
      BY <2>1, <3>1 DEF X11!OwnersTextIsDue, X11!LargeArrives, X11!LargeMoves
  <2> QED
    BY <2>1
<1>7. X11!NoneMoves
  BY <1>1, <1>5, <1>6 DEF X11!OwnersTextIsDue, X11!Owners
<1>8. X11!NoneMoves'
  <2>1. property'.kind = "text"
    BY <1>2 DEF X11!Written
  <2> QED
    BY <1>2, <1>5, <1>7, <2>1 DEF X11!NoneMoves, X11!Clean
<1>9. CASE owner = Us
  BY <1>2, <1>4, <1>8, <1>9 DEF X11!OwnersTextIsDue
<1>10. CASE owner \in LocalCopies \ Large
  <2>1. X11!LastAmong(events, X11!OwnerEvent(owner), X11!Late)
    BY <1>3, <1>10 DEF X11!OwnersTextIsDue, X11!SmallArrives, X11!Late
  <2>2. X11!LastAmong(Tail(events), X11!OwnerEvent(owner), X11!Late)
    BY <1>1, <1>3, <1>10, <2>1, EventHandled, EventsDiffer DEF X11!Owners
  <2> DEFINE rest == Tail(events)
             first == Append(rest, X11!Value)
  <2>3. /\ rest \in Seq(X11!Event) /\ X11!Value \in X11!Event /\ X11!Converted \in X11!Event
        /\ X11!Value \notin X11!Late /\ X11!Converted \notin X11!Late
    BY <1>1, EventHandled, EventsDiffer DEF X11!Event, X11!Late
  <2> HIDE DEF rest
  <2>4. first \in Seq(X11!Event) /\ X11!LastAmong(first, X11!OwnerEvent(owner), X11!Late)
    BY <2>2, <2>3, ItemAdded DEF rest
  <2>5. events' = Append(first, X11!Converted)
    BY <1>2 DEF rest
  <2> HIDE DEF first
  <2>6. X11!LastAmong(events', X11!OwnerEvent(owner), X11!Late)
    BY <2>3, <2>4, <2>5, ItemAdded
  <2>7. X11!SmallArrives(owner)'
    BY <1>2, <2>6 DEF X11!SmallArrives
  <2> QED
    BY <1>2, <1>4, <1>8, <1>10, <2>7 DEF X11!OwnersTextIsDue
<1> QED
  BY <1>1, <1>6, <1>9, <1>10 DEF X11!Owners

\* The selection that somebody holds is asked for, on its way, or reported,
\* unless something overtook it.
LEMMA ArrivalInvariant ==
  ASSUME X11!X11ClipboardAssumption
  PROVE  /\ X11!Init => X11!ArrivalInv
         /\ X11!ArrivalInv /\ [X11!Next]_(X11!vars) => X11!ArrivalInv'
         /\ X11!ArrivalInv => X11!LocalCopiesArrive
<1> DEFINE owner == s1
           unused == s2
           asks == s3
           property == s4
           increment == s5
           events == s6
           requested == s7
           receiving == s8
           receiveData == s9
           reports == s10
<1> USE DEF X11!X11ClipboardAssumption, X11!Moving
<1> DEFINE overtaken == s12
<1>1. X11!Init => X11!ArrivalInv
  <2> SUFFICES ASSUME X11!Init PROVE X11!ArrivalInv
    OBVIOUS
  <2>1. /\ owner \in {Nobody} \cup LocalCopies
        /\ requested = "UTF8_STRING" /\ property = X11!Nothing /\ X11!Moving = {}
        /\ receiving = FALSE /\ reports = Us
        /\ owner = Nobody => asks = <<>> /\ events = <<X11!Declined>>
        /\ owner # Nobody => asks = <<<<owner, "UTF8_STRING">>>> /\ events = <<>>
    BY DEF X11!Init
  <2>2. X11!TypeOK
    <3>1. events \in Seq(X11!Event)
      <4>1. X11!Declined \in X11!Event
        BY DEF X11!Event
      <4>2. events = <<>> \/ events = <<X11!Declined>>
        BY <2>1
      <4>3. <<>> \in Seq(X11!Event)
        OBVIOUS
      <4>4. <<X11!Declined>> \in Seq(X11!Event)
        <5> HIDE DEF X11!Declined, X11!Event
        <5> QED
          BY <4>1
      <4> QED
        BY <4>2, <4>3, <4>4, Zenon
    <3>2. asks \in Seq(LocalCopies \X {"UTF8_STRING", "STRING"})
      <4> DEFINE ask == <<owner, "UTF8_STRING">>
                 Asks == LocalCopies \X {"UTF8_STRING", "STRING"}
      <4>1. asks = <<>> \/ (asks = <<ask>> /\ ask \in Asks)
        BY <2>1
      <4> HIDE DEF ask, Asks
      <4>2. <<>> \in Seq(Asks) /\ (ask \in Asks => <<ask>> \in Seq(Asks))
        OBVIOUS
      <4>3. asks \in Seq(Asks)
        BY <4>1, <4>2, Zenon
      <4> QED
        BY <4>3 DEF Asks
    <3> QED
      BY <2>1, <3>1, <3>2 DEF X11!TypeOK, X11!StateOK, X11!Owners
  <2>3. CASE owner = Nobody
    <3>1. X11!Range(events) = {X11!Declined} /\ X11!Range(asks) = {}
      BY <2>1, <2>3, ShortSequences
    <3>2. X11!Declined \notin X11!Late \cup {X11!Converted}
      BY EventsDiffer DEF X11!Late
    <3>3. X11!NoneMoves /\ X11!NobodyArrives
      BY <2>1, <2>3, <3>1, <3>2 DEF X11!NoneMoves, X11!Clean, X11!NobodyArrives
    <3> QED
      BY <2>2, <2>3, <3>3 DEF X11!ArrivalInv, X11!OwnersTextIsDue, X11!TypeOK
  <2>4. CASE owner # Nobody
    <3>1. X11!Range(events) = {} /\ X11!Range(asks) = {<<owner, "UTF8_STRING">>}
      BY <2>1, <2>4, ShortSequences
    <3>2. asks # <<>> /\ asks[Len(asks)] = <<owner, requested>>
      BY <2>1, <2>4
    <3>3. CASE owner \in Large
      <4>1. X11!LargeMoves(owner)
        BY <2>1, <2>4 DEF X11!LargeMoves
      <4> QED
        BY <2>2, <3>3, <4>1 DEF X11!ArrivalInv, X11!OwnersTextIsDue, X11!TypeOK
    <3>4. CASE owner \notin Large
      <4>1. X11!NoneMoves /\ X11!SmallArrives(owner)
        BY <2>1, <2>4, <3>1, <3>2, <3>4 DEF X11!NoneMoves, X11!Clean, X11!SmallArrives
      <4> QED
        BY <2>1, <2>2, <2>4, <3>4, <4>1 DEF X11!ArrivalInv, X11!OwnersTextIsDue, X11!TypeOK
    <3> QED
      BY <3>3, <3>4
  <2> QED
    BY <2>3, <2>4
<1>2. X11!ArrivalInv /\ [X11!Next]_(X11!vars) => X11!ArrivalInv'
  <2> SUFFICES ASSUME X11!ArrivalInv, [X11!Next]_(X11!vars), ~overtaken'
               PROVE  X11!OwnersTextIsDue'
    BY StateStays DEF X11!ArrivalInv
  <2>1. X11!StateOK /\ X11!StateOK' /\ (~overtaken => X11!OwnersTextIsDue)
    BY StateStays DEF X11!ArrivalInv
  <2>2. CASE UNCHANGED X11!vars
    <3>1. X11!OwnersTextIsDue
      BY <2>1, <2>2 DEF X11!vars
    <3> QED
      BY <2>2, <3>1
      DEF X11!vars, X11!ownerVars, X11!clientVars, X11!OwnersTextIsDue, X11!TypeOK, X11!StateOK,
          X11!NoneMoves, X11!Clean, X11!Reset, X11!NobodyArrives, X11!SmallArrives,
          X11!LargeArrives, X11!LargeMoves, X11!CutOff
  <2>3. ASSUME NEW c \in LocalCopies, X11!Copy(c) PROVE X11!OwnersTextIsDue'
    <3>1. X11!Quiet \/ (~overtaken /\ ~X11!Crosses(c))
      BY <2>3 DEF X11!Copy
    <3> QED
      BY <2>1, <2>3, <3>1, CopyComes
  <2>4. ASSUME NEW c \in LocalCopies, X11!NextIncrement(c) PROVE X11!OwnersTextIsDue'
    BY <2>1, <2>4, IncrementArrives DEF X11!NextIncrement
  <2>5. ASSUME NEW c \in LocalCopies, X11!GiveUp(c) PROVE X11!OwnersTextIsDue'
    BY <2>1, <2>5, TransferEnds DEF X11!GiveUp
  <2>6. CASE X11!OwnerVanishes
    <3>1. ~overtaken /\ asks' = <<>>
      BY <2>6 DEF X11!OwnerVanishes
    <3> QED
      BY <2>1, <2>6, <3>1, OwnerGone
  <2>7. ASSUME NEW n \in DOMAIN asks, X11!Answer(n) PROVE X11!OwnersTextIsDue'
    <3>1. ~overtaken /\ n = 1
      BY <2>7 DEF X11!Answer
    <3> QED
      BY <2>1, <2>7, <3>1, AnswerArrives
  <2>8. CASE X11!SetText
    BY <2>1, <2>8, OwnTextCuts DEF X11!SetText
  <2>9. CASE X11!ownerChanged
    BY <2>1, <2>9, OwnerHeard DEF X11!ownerChanged
  <2>10. CASE X11!selectionNotify
    BY <2>1, <2>10, AnswerHeard DEF X11!selectionNotify
  <2>11. CASE X11!propertyNotify
    BY <2>1, <2>11, ValueHeard DEF X11!propertyNotify
  <2>12. CASE X11!selectionRequest
    <3>1. ~overtaken /\ owner # Nobody
      BY <2>12 DEF X11!selectionRequest
    <3> QED
      BY <2>1, <2>12, <3>1, OwnTextRead
  <2> QED
    BY <2>2, <2>3, <2>4, <2>5, <2>6, <2>7, <2>8, <2>9, <2>10, <2>11, <2>12 DEF X11!Next
<1>3. X11!ArrivalInv => X11!LocalCopiesArrive
  <2> SUFFICES ASSUME X11!OwnersTextIsDue, events = <<>>, asks = <<>>, owner # Us,
                      \A d \in X11!Moving : increment[d].deleted = 0
               PROVE  reports = X11!TextOf(owner) \/ (owner = Nobody /\ reports = Us)
    BY DEF X11!ArrivalInv, X11!LocalCopiesArrive, X11!Settled, X11!OwnersTextIsReported
  <2>1. X11!Range(events) = {} /\ \A y, T : ~X11!LastAmong(events, y, T)
    <3>1. DOMAIN events = {} /\ X11!Range(events) = {}
      <4>1. DOMAIN <<>> = {}
        OBVIOUS
      <4> QED
        BY <4>1, ShortSequences, Zenon
    <3> QED
      BY <3>1 DEF X11!LastAmong
  <2>2. events \notin {<<X11!Value>>, <<X11!Converted>>, <<X11!Declined>>,
                       <<X11!Value, X11!Converted>>, <<X11!OwnerEvent(owner)>>}
    BY ShortSequences
  <2>3. owner \in X11!Owners
    BY DEF X11!OwnersTextIsDue, X11!TypeOK, X11!StateOK
  <2>4. CASE owner = Nobody
    BY <2>1, <2>4 DEF X11!OwnersTextIsDue, X11!NobodyArrives, X11!TextOf
  <2>5. CASE owner \in LocalCopies \ Large
    BY <2>1, <2>5 DEF X11!OwnersTextIsDue, X11!SmallArrives, X11!TextOf
  <2>6. CASE owner \in Large
    <3>1. X11!LargeMoves(owner) => owner \in X11!Moving /\ increment[owner].deleted = 1
      <4>1. X11!LargeMoves(owner) =>
              /\ X11!Moving = {owner}
              /\ [at |-> increment[owner], data |-> receiveData] \in
                   {X11!At(0, 1, <<>>), X11!At(1, 1, <<owner>>), X11!At(2, 1, <<owner, owner>>)}
        BY <2>2 DEF X11!LargeMoves
      <4> QED
        BY <4>1 DEF X11!At
    <3>2. X11!LargeArrives(owner)
      BY <2>6, <3>1 DEF X11!OwnersTextIsDue
    <3> QED
      BY <2>2, <3>2 DEF X11!LargeArrives
  <2> QED
    BY <2>3, <2>4, <2>5, <2>6 DEF X11!Owners
<1> QED
  BY <1>1, <1>2, <1>3

=============================================================================
