--------------------------- MODULE WaylandWindow ----------------------------
(***************************************************************************)
(* wayland/window.go and the seat's half of wayland/input.go.              *)
(*                                                                         *)
(* The client goroutine calls into a window, the dispatch goroutine runs   *)
(* the handler of one message at a time; both hold Display.mu, so each is  *)
(* one action.  Requests reach the compositor in order and it is taken to  *)
(* carry them out at once; its events wait on the wire, and may be about a *)
(* window that has been destroyed since.                                   *)
(***************************************************************************)
EXTENDS Naturals, Sequences, FiniteSets

CONSTANTS
  Windows,        \* windows, each opened at most once
  NoWindow,       \* nil
  MaxSize,        \* sizes are 1 .. MaxSize, 0 leaves the size to the client
  Failures,       \* shared memory may run out
  MaxConfigures,  \* bound: configures of the compositor
  MaxMoves,       \* bound: MoveResize and Paint calls of the server
  MaxWire         \* bound: events on the wire

\* What the constants have to satisfy.
WaylandAssumption ==
  /\ NoWindow \notin Windows
  /\ MaxSize \in Nat \ {0}
  /\ Failures \in BOOLEAN
  /\ {MaxConfigures, MaxMoves, MaxWire} \subseteq Nat

Sizes == 1 .. MaxSize
Devices == {"pointer", "keyboard"}

VARIABLES
  win,         \* the Window structs
  last,        \* Display.lastToplevel
  at,          \* Display.pointerOver and keyboardFocus
  proxies,     \* the surfaces in the bindings' object table
  wire,        \* events of the compositor not dispatched yet
  reports,     \* Configure events the run loop has not handled yet
  surface,     \* the compositor's side of each surface
  seat,        \* the surface the compositor's pointer and keyboard are on
  refused,     \* the compositor has refused a request: wl_display.error
  owed,        \* windows the server was told a size of and will send damage for
  configures,  \* history: configures so far
  moves        \* history: calls so far

deskVars == <<last, at>>
compVars == <<surface, seat, refused>>
boundVars == <<configures, moves>>
vars == <<win, deskVars, proxies, wire, reports, compVars, owed, boundVars>>

\* Display.windows: filled by NewWindow's success, emptied by Destroy.
Open == {w \in Windows : win[w].role \in {"toplevel", "popup"}}

Unopened == [role |-> "none", mapped |-> FALSE, configured |-> FALSE,
             size |-> 1, buf |-> 0, top |-> 0]
\* shows: the window's buffer as it is, one it has given up, or nothing yet.
NoSurface == [alive |-> FALSE, acked |-> FALSE, shows |-> "nothing", size |-> 0]

Init ==
  /\ win = [w \in Windows |-> Unopened]
  /\ last = NoWindow
  /\ at = [dev \in Devices |-> NoWindow]
  /\ proxies = {}
  /\ wire = <<>> /\ reports = <<>>
  /\ surface = [w \in Windows |-> NoSurface]
  /\ seat = at
  /\ refused = FALSE
  /\ owed = {}
  /\ configures = 0 /\ moves = 0

-----------------------------------------------------------------------------
(* Buffers and what the compositor is asked to show. *)

\* damage: attach and commit, or nothing while the window may not show.
\* s is the compositor's side after the caller's own requests.
Damage(w, record, s) ==
  IF record.buf = 0 \/ ~record.mapped \/ ~record.configured
  THEN /\ surface' = [surface EXCEPT ![w] = s]
       /\ UNCHANGED refused
  ELSE /\ surface' = [surface EXCEPT ![w] = [s EXCEPT !.shows = "current"]]
       /\ refused' = (refused \/ ~s.alive \/ ~s.acked)

\* newBuffer: a failure leaves the old buffer, in a window of the new size.
NewBuffer(record, size, ok) ==
  IF ok THEN [record EXCEPT !.buf = size, !.top = 0] ELSE record

\* What the compositor shows once releaseBuffer has given up the old buffer.
Released(s, ok) ==
  IF ok /\ s.shows = "current" THEN [s EXCEPT !.shows = "old"] ELSE s

-----------------------------------------------------------------------------
(* The client's calls, each under Display.mu. *)

\* Of a popup's parent: lastToplevel, and it must be on the screen already.
Anchored == last # NoWindow /\ win[last].mapped /\ win[last].configured

ParentShows == surface[last].alive /\ surface[last].shows # "nothing"

NewWindow(w, override, size, ok) ==
  /\ win[w].role = "none"
  /\ ~ok => Len(wire) < MaxWire
  /\ LET popup == override /\ Anchored
     IN /\ refused' = (refused \/ (popup /\ ~ParentShows))
        /\ win' = [win EXCEPT ![w] =
             IF ok THEN [Unopened EXCEPT !.role = IF popup THEN "popup" ELSE "toplevel",
                                         !.size = size, !.buf = size]
                   ELSE [Unopened EXCEPT !.role = "gone"]]
  /\ proxies' = proxies \cup {w}
  /\ surface' = [surface EXCEPT ![w].alive = ok]
  /\ wire' = IF ok THEN wire ELSE Append(wire, [type |-> "delete", win |-> w])
  /\ UNCHANGED <<deskVars, reports, seat, owed, boundVars>>

Map(w) ==
  /\ w \in Open /\ ~win[w].mapped
  /\ win' = [win EXCEPT ![w].mapped = TRUE]
  /\ last' = IF win[w].role = "toplevel" THEN w ELSE last
  /\ Damage(w, win'[w], surface[w])
  /\ UNCHANGED <<at, proxies, wire, reports, seat, owed, boundVars>>

MoveResize(w, size, ok) ==
  /\ w \in Open /\ moves < MaxMoves
  /\ moves' = moves + 1
  /\ size # win[w].size
  /\ win' = [win EXCEPT ![w] = NewBuffer([@ EXCEPT !.size = size], size, ok)]
  /\ IF ok THEN Damage(w, win'[w], Released(surface[w], ok))
           ELSE UNCHANGED <<surface, refused>>
  /\ UNCHANGED <<deskVars, proxies, wire, reports, seat, owed, configures>>

\* The run loop answers a report, if Geometry() says it is news: Resized keeps
\* the pixels off the screen, and the server is told and will send damage.
HandleReport(ok) ==
  /\ reports # <<>>
  /\ reports' = Tail(reports)
  /\ LET r == Head(reports)
         news == r.win \in Open /\ r.size # win[r.win].size
     IN IF news
        THEN /\ win' = [win EXCEPT ![r.win] = NewBuffer([@ EXCEPT !.size = r.size], r.size, ok)]
             /\ surface' = [surface EXCEPT ![r.win] = Released(@, ok)]
             /\ owed' = IF ok THEN owed \cup {r.win} ELSE owed
        ELSE UNCHANGED <<win, surface, owed>>
  /\ UNCHANGED <<deskVars, proxies, wire, seat, refused, boundVars>>

\* Damage of the server, sized to what it believes the window to be.
ClipDamage(size, limit) == IF size < limit THEN size ELSE limit

\* Mutant: damage is clipped against the window, not its buffer.
WindowWidth(w) == win[w].size

PaintWidth(w) == win[w].buf

Paint(w, size) ==
  /\ w \in Open /\ win[w].buf # 0
  /\ w \notin owed => moves < MaxMoves
  /\ moves' = IF w \in owed THEN moves ELSE moves + 1
  /\ LET width == ClipDamage(size, PaintWidth(w))
     IN win' = [win EXCEPT ![w].top = IF width > @ THEN width ELSE @]
  /\ Damage(w, win[w], surface[w])
  /\ owed' = owed \ {w}
  /\ UNCHANGED <<deskVars, proxies, wire, reports, seat, configures>>

\* Mutant: only the keyboard forgets a destroyed window.
ForgetKeyboardOnly(w) ==
  [dev \in Devices |-> IF at[dev] = w /\ dev = "keyboard" THEN NoWindow ELSE at[dev]]

Forget(w) == [dev \in Devices |-> IF at[dev] = w THEN NoWindow ELSE at[dev]]

\* The compositor's seat leaves a surface that goes away.
Leaves(dev, w) ==
  IF seat[dev] = w THEN <<[type |-> "leave", dev |-> dev, win |-> w]>> ELSE <<>>

\* The surface stays in the object table until the compositor's delete_id.
Destroy(w) ==
  /\ w \in Open
  /\ wire' = wire \o Leaves("pointer", w) \o Leaves("keyboard", w)
                  \o <<[type |-> "delete", win |-> w]>>
  /\ Len(wire) < MaxWire
  /\ last' = IF last = w THEN NoWindow ELSE last
  /\ at' = Forget(w)
  /\ win' = [win EXCEPT ![w] = [Unopened EXCEPT !.role = "gone"]]
  /\ surface' = [surface EXCEPT ![w].alive = FALSE]
  /\ seat' = [dev \in Devices |-> IF seat[dev] = w THEN NoWindow ELSE seat[dev]]
  /\ owed' = owed \ {w}
  /\ UNCHANGED <<proxies, reports, refused, boundVars>>

-----------------------------------------------------------------------------
(* The compositor, and the dispatch of its events. *)

\* A configure of the role and the one of the surface that completes it.
CompositorConfigures(w, size) ==
  /\ surface[w].alive
  /\ configures < MaxConfigures /\ Len(wire) + 2 <= MaxWire
  /\ configures' = configures + 1
  /\ wire' = wire \o <<[type |-> "size", win |-> w, size |-> size],
                       [type |-> "configure", win |-> w]>>
  /\ surface' = [surface EXCEPT ![w].size = IF size = 0 THEN @ ELSE size]
  /\ UNCHANGED <<win, deskVars, proxies, reports, seat, refused, owed, moves>>

SeatEnters(dev, w) ==
  /\ surface[w].alive /\ surface[w].shows # "nothing"
  /\ seat[dev] = NoWindow /\ Len(wire) < MaxWire
  /\ seat' = [seat EXCEPT ![dev] = w]
  /\ wire' = Append(wire, [type |-> "enter", dev |-> dev, win |-> w])
  /\ UNCHANGED <<win, deskVars, proxies, reports, surface, refused, owed, boundVars>>

SeatLeaves(dev) ==
  /\ seat[dev] # NoWindow /\ Len(wire) < MaxWire
  /\ seat' = [seat EXCEPT ![dev] = NoWindow]
  /\ wire' = Append(wire, [type |-> "leave", dev |-> dev, win |-> seat[dev]])
  /\ UNCHANGED <<win, deskVars, proxies, reports, surface, refused, owed, boundVars>>

Dispatch(type) == wire # <<>> /\ Head(wire).type = type /\ wire' = Tail(wire)

\* configureToplevel and configurePopup: the size is reported, not recorded.
ConfigureSize ==
  /\ Dispatch("size")
  /\ LET e == Head(wire)
     IN reports' = IF e.win \in Open /\ e.size \notin {0, win[e.win].size}
                   THEN Append(reports, [win |-> e.win, size |-> e.size]) ELSE reports
  /\ UNCHANGED <<win, deskVars, proxies, compVars, owed, boundVars>>

\* A destroyed window's shell objects are unregistered: its configure is dropped.
Configure ==
  /\ Dispatch("configure")
  /\ LET w == Head(wire).win
     IN IF w \in Open
        THEN /\ win' = [win EXCEPT ![w].configured = TRUE]
             /\ Damage(w, win'[w], [surface[w] EXCEPT !.acked = TRUE])
        ELSE UNCHANGED <<win, surface, refused>>
  /\ UNCHANGED <<deskVars, proxies, reports, seat, owed, boundVars>>

\* pointerEnter and keyboardEnter; typing into a window makes it the next parent.
Enter ==
  /\ Dispatch("enter")
  /\ LET e == Head(wire)
     IN IF e.win \in Open
        THEN /\ at' = [at EXCEPT ![e.dev] = e.win]
             /\ last' = IF e.dev = "keyboard" /\ win[e.win].role = "toplevel"
                        THEN e.win ELSE last
        ELSE UNCHANGED deskVars
  /\ UNCHANGED <<win, proxies, reports, compVars, owed, boundVars>>

Leave ==
  /\ Dispatch("leave")
  /\ at' = [at EXCEPT ![Head(wire).dev] = NoWindow]
  /\ UNCHANGED <<win, last, proxies, reports, compVars, owed, boundVars>>

DeleteID ==
  /\ Dispatch("delete")
  /\ proxies' = proxies \ {Head(wire).win}
  /\ UNCHANGED <<win, deskVars, reports, compVars, owed, boundVars>>

ServerCalls ==
  \/ \E ok \in {TRUE, ~Failures} : HandleReport(ok)
  \/ \E w \in Windows :
       \/ Map(w) \/ Destroy(w)
       \/ \E size \in Sizes : Paint(w, size)
       \/ \E size \in Sizes, ok \in {TRUE, ~Failures} :
            \/ MoveResize(w, size, ok)
            \/ \E override \in BOOLEAN : NewWindow(w, override, size, ok)

CompositorSends ==
  \/ \E w \in Windows, size \in 0 .. MaxSize : CompositorConfigures(w, size)
  \/ \E dev \in Devices : SeatLeaves(dev) \/ \E w \in Windows : SeatEnters(dev, w)

Handle == ConfigureSize \/ Configure \/ Enter \/ Leave \/ DeleteID

Next == ServerCalls \/ CompositorSends \/ Handle

Spec == Init /\ [][Next]_vars

-----------------------------------------------------------------------------
Events ==
  [type : {"delete", "configure"}, win : Windows]
    \cup [type : {"size"}, win : Windows, size : 0 .. MaxSize]
    \cup [type : {"enter", "leave"}, dev : Devices, win : Windows]

Window == [role : {"none", "toplevel", "popup", "gone"}, mapped : BOOLEAN,
           configured : BOOLEAN, size : Sizes, buf : 0 .. MaxSize, top : Nat]
Surface == [alive : BOOLEAN, acked : BOOLEAN, size : 0 .. MaxSize,
            shows : {"nothing", "current", "old"}]

\* Every variable has the shape its comment gives it.
TypeOK ==
  /\ win \in [Windows -> Window]
  /\ last \in Windows \cup {NoWindow}
  /\ {at, seat} \subseteq [Devices -> Windows \cup {NoWindow}]
  /\ proxies \subseteq Windows /\ owed \subseteq Windows
  /\ wire \in Seq(Events)
  /\ reports \in Seq([win : Windows, size : Sizes])
  /\ surface \in [Windows -> Surface]
  /\ refused \in BOOLEAN
  /\ configures \in 0 .. MaxConfigures /\ moves \in 0 .. MaxMoves

\* The compositor never has a reason to end the connection: whatever the order
\* of Map, configures, menus and destroys, nothing is shown before its surface
\* was configured, and no menu hangs off a window that is gone or not up yet.
NeverRefused == ~refused

\* A damage rectangle sized to a window the buffer does not have (a resize in
\* flight, a buffer that could not be allocated) is never written past it.
PaintsInsideBuffer == \A w \in Windows : win[w].top <= win[w].buf

\* Input goes to a window that is still open, and when nothing is in flight
\* the client and the compositor agree which one that is.  An event still on
\* the wire names a surface of the object table, without which the bindings
\* panic.
InputGoesWhereTheSeatIs ==
  /\ \A dev \in Devices : at[dev] # NoWindow => at[dev] \in Open
  /\ wire = <<>> => at = seat
  /\ \A n \in 1 .. Len(wire) : wire[n].type \in {"enter", "leave"} => wire[n].win \in proxies

\* Once every event is handled and owed damage painted, a mapped and configured
\* window shows the buffer it is painted into.
ShowsItsBuffer ==
  wire = <<>> /\ reports = <<>> =>
    \A w \in Open \ owed : win[w].mapped /\ win[w].configured => surface[w].shows = "current"

\* Geometry's comment: "the window's size as the compositor last set it".
\* When all is handled and the server has moved nothing, that is its size.
SizeFollowsCompositor ==
  wire = <<>> /\ reports = <<>> /\ moves = 0 =>
    \A w \in Open : surface[w].size # 0 => win[w].size = surface[w].size

-----------------------------------------------------------------------------
(* The inductive invariants behind them.  w is a sequence of events. *)

OfSeat(e) == e.type \in {"enter", "leave"}
About(w, dev) == {n \in DOMAIN w : OfSeat(w[n]) /\ w[n].dev = dev}
Named(w) == {w[n].win : n \in {m \in DOMAIN w : OfSeat(w[m])}}
Deleted(w) == {w[n].win : n \in {m \in DOMAIN w : w[m].type = "delete"}}

\* Where a device is once an event of its seat is handled.
Where(e) == IF e.type = "enter" THEN e.win ELSE NoWindow

\* The last of a device's events puts it there.
EndsAt(w, dev, there) ==
  \E n \in About(w, dev) : Where(w[n]) = there /\ \A m \in About(w, dev) : m <= n

\* No event of a seat names a surface after it was deleted.
DeletedLast(w) ==
  \A n, m \in DOMAIN w : w[n].type = "delete" /\ OfSeat(w[m]) /\ n < m => w[m].win # w[n].win

\* The client's devices are on their way to where the compositor's are.
SeatInv ==
  /\ \A w \in Windows : surface[w].alive <=> w \in Open
  /\ \A dev \in Devices :
       /\ at[dev] # NoWindow => at[dev] \in Open
       /\ seat[dev] # NoWindow => seat[dev] \in Open
       /\ IF About(wire, dev) = {} THEN at[dev] = seat[dev] ELSE EndsAt(wire, dev, seat[dev])

\* What is still to be named is still in the object table.
ObjectsInv ==
  /\ Open \cup Named(wire) \subseteq proxies
  /\ \A w \in Deleted(wire) : win[w].role = "gone"
  /\ DeletedLast(wire)

\* What is mapped and configured is on the screen, with its buffer or damage owed.
BuffersInv ==
  /\ NeverRefused /\ PaintsInsideBuffer
  /\ last # NoWindow => last \in Open
  /\ \A w \in Open :
       /\ win[w].buf # 0 /\ surface[w].alive
       /\ win[w].configured => surface[w].acked
       /\ win[w].mapped /\ win[w].configured =>
            surface[w].shows \in {"current"} \cup (IF w \in owed THEN {"old"} ELSE {})
=============================================================================
