------------------------------ MODULE Geometry ------------------------------
(***************************************************************************)
(* Where a window is: handleMoveResize and handleConfigure of              *)
(* client/client.go over a window of a native backend.                     *)
(*                                                                         *)
(* The client knows a geometry at once when the server asks for it; the    *)
(* thread that owns the window carries it out later, and the desktop's     *)
(* report of it comes later still.  The user moves, minimizes, restores and*)
(* maximizes the window in the meantime.  The Win32 backend holds a move   *)
(* back while the window is minimized; for X11 and AppKit minimizing does  *)
(* not matter here, and their maximizing is a move by the desktop.         *)
(***************************************************************************)
EXTENDS Naturals, Sequences

CONSTANTS
  Backends,   \* of "win32", "x11", "darwin", those to check
  Positions,  \* places on the desktop
  Sizes,      \* window sizes, all of them inside ClampSize's range
  Full,       \* the geometry of a maximized window
  NoRect,     \* nil
  MaxInputs   \* bound: packets and user actions

Rects == Positions \X Sizes
Places == Rects \cup {Full}

\* What the constants have to satisfy.
GeometryAssumption ==
  /\ Backends \subseteq {"win32", "x11", "darwin"}
  /\ Full \notin Rects
  /\ NoRect \notin Places
  /\ MaxInputs \in Nat

VARIABLES
  backend,  \* the backend of this session
  known,    \* Window.Geometry: the client's idea of the content area
  told,     \* the geometry the server asked for or was told last
  posted,   \* calls the window's thread or the X server has not carried out
  rect,     \* the content area, or the last one if the window is minimized
  normal,   \* the content area it has when not maximized
  zoomed,   \* maximized, also while minimized
  iconic,   \* minimized
  pending,  \* Window.pending of win32
  events,   \* Configure events the client has not handled
  broken,   \* X11 could not allocate a pixmap for a geometry it reported
  placed,   \* history: the server's last move, NoRect if the desktop moved it since
  inputs    \* history: inputs so far

desktopVars == <<rect, normal, zoomed, iconic, pending, placed>>
vars == <<backend, known, told, posted, desktopVars, events, broken, inputs>>

Move(g) == [op |-> "move", to |-> g]
Minimize == [op |-> "minimize"]
Restore == [op |-> "restore"]
Maximize(b) == [op |-> "maximize", enabled |-> b]

Calls == {Move(g) : g \in Rects} \cup {Minimize, Restore}
         \cup {Maximize(b) : b \in BOOLEAN}

\* A window has just been mapped.  It need not be where the client asked:
\* placeInitialFrame, or the window manager, may have put it elsewhere.
Init ==
  /\ backend \in Backends
  /\ known \in Rects /\ told = known
  /\ posted = <<>>
  /\ rect \in Rects /\ normal = rect
  /\ zoomed = FALSE /\ iconic = FALSE /\ pending = NoRect
  /\ events = <<rect>>
  /\ broken = FALSE
  /\ placed = NoRect
  /\ inputs = 0

Input ==
  /\ inputs < MaxInputs
  /\ inputs' = inputs + 1

-----------------------------------------------------------------------------
(* The client. *)

\* handleMoveResize and the windows' MoveResize.
MoveResize(g) ==
  /\ Input
  /\ known' = g
  /\ told' = g
  /\ posted' = Append(posted, Move(g))
  /\ UNCHANGED <<backend, desktopVars, events, broken>>

\* Window.Minimize and SetState("maximized") of win32.
AskState(call) ==
  /\ Input
  /\ backend = "win32"
  /\ posted' = Append(posted, call)
  /\ UNCHANGED <<backend, known, told, desktopVars, events, broken>>

\* Only X11 allocates anything that can fail: newPixmap, for a new size.
ResizedMayFail(g) == backend = "x11" /\ (g = Full \/ known = Full \/ g[2] # known[2])

\* handleConfigure's comparison with the geometry it knows.
AlreadyKnown(g) == g = known

\* handleConfigure.
Configure ==
  /\ events # <<>>
  /\ events' = Tail(events)
  /\ LET g == Head(events) IN
     \/ /\ AlreadyKnown(g)
        /\ UNCHANGED <<known, told, broken>>
     \/ /\ ~AlreadyKnown(g)
        /\ known' = g /\ told' = g /\ broken' = FALSE
     \/ /\ ~AlreadyKnown(g) /\ ResizedMayFail(g)
        /\ known' = g /\ broken' = TRUE /\ UNCHANGED told
  /\ UNCHANGED <<backend, posted, desktopVars, inputs>>

-----------------------------------------------------------------------------
(* The window's thread. *)

\* The window gets the content area g, which is reported if it is a change.
Place(g) ==
  /\ rect' = g
  /\ events' = IF g = rect THEN events ELSE Append(events, g)

\* Mutant: the place far off screen where Windows parks a minimized window.
ReportParked == Append(events, NoRect)

\* What minimizing reports: clientGeometry finds no content area.
ReportIconic == events

\* The call MoveResize posted.
CarryMove(g) ==
  IF iconic THEN pending' = g /\ UNCHANGED <<rect, normal, events>>
  ELSE Place(g) /\ normal' = (IF zoomed THEN normal ELSE g) /\ UNCHANGED pending

\* Mutant: the maximized geometry a restore ends in is not reported.
SilentZoom(g) == events

ReportZoom(g) == Append(events, g)

\* What the restore of a window with a held move reports: restoring hides the
\* position that Windows gives it before setWindowPos.
HeldReport(target) == IF target = normal THEN events ELSE Append(events, target)

\* restore of win32.
CarryRestore ==
  IF ~iconic THEN UNCHANGED <<rect, normal, iconic, pending, events>>
  ELSE /\ iconic' = FALSE
       /\ pending' = NoRect
       /\ IF zoomed
          THEN /\ rect' = Full /\ events' = ReportZoom(Full)
               /\ UNCHANGED normal
          ELSE IF pending = NoRect
          THEN /\ rect' = normal /\ events' = Append(events, normal)
               /\ UNCHANGED normal
          ELSE /\ rect' = pending /\ normal' = pending
               /\ events' = HeldReport(pending)

\* ShowWindow's maximize, or restore of a maximized window.
Zoom(b) ==
  /\ zoomed' = b
  /\ Place(IF b THEN Full ELSE normal)

\* The window's thread runs the oldest posted call.
Carry ==
  /\ posted # <<>>
  /\ posted' = Tail(posted)
  /\ LET call == Head(posted) IN
     \/ /\ call.op = "move"
        /\ CarryMove(call.to)
        /\ placed' = call.to
        /\ UNCHANGED <<zoomed, iconic>>
     \/ /\ call.op = "minimize"
        /\ iconic' = TRUE
        /\ events' = ReportIconic
        /\ UNCHANGED <<rect, normal, zoomed, pending, placed>>
     \/ /\ call.op = "restore"
        /\ CarryRestore
        /\ UNCHANGED <<zoomed, placed>>
     \/ /\ call.op = "maximize"
        /\ IF iconic \/ zoomed = call.enabled
           THEN UNCHANGED <<rect, zoomed, placed, events>>
           ELSE Zoom(call.enabled) /\ placed' = NoRect
        /\ UNCHANGED <<normal, iconic, pending>>
  /\ UNCHANGED <<backend, known, told, broken, inputs>>

-----------------------------------------------------------------------------
(* The user. *)

UserDrags(g) ==
  /\ Input
  /\ ~iconic /\ ~zoomed /\ g # rect
  /\ Place(g)
  /\ normal' = g /\ placed' = NoRect
  /\ UNCHANGED <<backend, known, told, posted, zoomed, iconic, pending, broken>>

UserMinimizes ==
  /\ Input
  /\ backend = "win32" /\ ~iconic
  /\ iconic' = TRUE
  /\ events' = ReportIconic
  /\ UNCHANGED <<backend, known, told, posted, rect, normal, zoomed, pending,
                 placed, broken>>

\* From the taskbar: Windows restores the window and the backend learns of it
\* by the messages only.
UserRestores ==
  /\ Input
  /\ iconic
  /\ iconic' = FALSE
  /\ rect' = IF zoomed THEN Full ELSE normal
  /\ events' = Append(events, rect')
  /\ placed' = NoRect
  /\ UNCHANGED <<backend, known, told, posted, normal, zoomed, pending, broken>>

UserZooms ==
  /\ Input
  /\ backend = "win32" /\ ~iconic
  /\ Zoom(~zoomed)
  /\ placed' = NoRect
  /\ UNCHANGED <<backend, known, told, posted, normal, iconic, pending, broken>>

Next ==
  \/ \E g \in Rects : MoveResize(g) \/ UserDrags(g)
  \/ \E call \in Calls \ {Move(g) : g \in Rects} : AskState(call)
  \/ Configure
  \/ Carry
  \/ UserMinimizes \/ UserRestores \/ UserZooms

Spec == Init /\ [][Next]_vars

-----------------------------------------------------------------------------
(* Properties. *)

\* Every variable has a value of its type.
TypeOK ==
  /\ backend \in Backends
  /\ known \in Places /\ told \in Places
  /\ posted \in Seq(Calls)
  /\ rect \in Places /\ normal \in Rects
  /\ zoomed \in BOOLEAN /\ iconic \in BOOLEAN
  /\ pending \in Rects \cup {NoRect}
  /\ events \in Seq(Places)
  /\ broken \in BOOLEAN
  /\ placed \in Rects \cup {NoRect}
  /\ inputs \in 0..MaxInputs

\* However the server's moves, the desktop's and their reports cross, once all
\* of them are handled a visible window is where the client thinks it is and
\* where the server thinks it is.  A report X11 had no pixmap for is not passed
\* on (client.go:991), and only that keeps the server from knowing.
GeometryAgreesWhenSettled ==
  (posted = <<>> /\ events = <<>> /\ ~iconic) =>
    /\ known = rect
    /\ told = known \/ broken

\* A step reports nothing but where it leaves the window: in particular a
\* restore to a held position does not report the one it passes through
\* (window.go:49 "restoring keeps that intermediate position from being
\* reported to the server").
ReportsOnlyWhereItEnds ==
  Len(events') > Len(events) => events' = Append(events, rect')

\* A restore by the server puts a window that is not maximized "to wherever the
\* server last moved it" (window.go:245), unless the desktop has moved it since.
RestoresToTheLastMove ==
  [][(/\ posted # <<>> /\ posted' = Tail(posted) /\ Head(posted) = Restore
      /\ iconic /\ ~zoomed /\ placed # NoRect)
     => rect' = placed]_vars

-----------------------------------------------------------------------------
(* The inductive invariant behind them. *)

\* What the client will know when it has handled the reports.
Latest == IF events = <<>> THEN known ELSE events[Len(events)]

\* What the client knows is where the window is going: to the last move that is
\* still to be carried out, or to the one held back.
LastMove(calls, g) ==
  \E i \in DOMAIN calls :
    /\ calls[i].op = "move" /\ calls[i].to = g
    /\ \A j \in DOMAIN calls : i < j => calls[j].op # "move"

Held(calls) ==
  iconic /\ pending = known /\ \A i \in DOMAIN calls : calls[i].op # "move"

NormalInv == ~zoomed => rect = normal

LatestInv == Latest = rect \/ (events = <<>> /\ (LastMove(posted, known) \/ Held(posted)))

ToldInv == told = known \/ broken

SettleInv == NormalInv /\ LatestInv /\ ToldInv
=============================================================================
