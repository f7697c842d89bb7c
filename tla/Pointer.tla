------------------------------- MODULE Pointer -------------------------------
(***************************************************************************)
(* Where things are, as the client tells the server, and the wheel         *)
(* (client/monitor.go, client/input.go; sendHello and monitorCaps in       *)
(* client/client.go; the backends' wheel handlers).  The server looks a    *)
(* descriptor's monitor up in the table of the last hello.                 *)
(*                                                                         *)
(* The two axes are handled alike: one is modelled.                        *)
(***************************************************************************)
EXTENDS Integers, Sequences

CONSTANTS
  Layouts,   \* the outputs a display may have: sequences of [left, width]
  Points,    \* positions, on and off the outputs
  NoReport,
  Notch,     \* units of a wheel notch: WHEEL_DELTA on Windows, axisStep on Wayland
  MaxTurn    \* bound: units of one wheel event

\* What the constants have to satisfy.
PointerAssumption == Notch \in Nat \ {0} /\ MaxTurn \in Nat /\ Points \subseteq Int

VARIABLES
  outputs,   \* the display's monitors now
  monitors,  \* Client.monitors, from 0 on
  table,     \* the server's, from the last hello
  told       \* what the server was told last: a position and its descriptor, a turn
             \* of the wheel and its packets, or NoReport

vars == <<outputs, monitors, table, told>>

Init ==
  /\ outputs \in Layouts
  /\ monitors = <<>> /\ table = <<>>
  /\ told = NoReport

-----------------------------------------------------------------------------
(* client/monitor.go *)

Valid(monitor) == monitor.width > 0

usableMonitors(list) == SelectSeq(list, Valid)

\* Left edges are inclusive, right edges exclusive.
Contains(monitor, x) == x >= monitor.left /\ x < monitor.left + monitor.width

\* The first of the client's monitors that contains the point, counted from 0.
monitorRelativePosition(x) ==
  LET holding == {i \in DOMAIN monitors : Contains(monitors[i], x)}
  IN IF holding = {} THEN <<>>
     ELSE <<(CHOOSE i \in holding : \A j \in holding : i <= j) - 1>>

monitorDescriptor(index, x) ==
  <<[index |-> index, position |-> x - monitors[index + 1].left]>>

pointMonitorDescriptor(x) ==
  LET found == monitorRelativePosition(x)
  IN IF found = <<>> THEN <<>> ELSE monitorDescriptor(found[1], x)

\* A window's origin may lie on no monitor: the first one then anchors it.
windowMonitorDescriptor(x) ==
  CASE pointMonitorDescriptor(x) # <<>> -> pointMonitorDescriptor(x)
    [] monitors = <<>> -> <<>>
    [] OTHER -> monitorDescriptor(0, x)

-----------------------------------------------------------------------------
(* The wheel *)

MaxClicks == 10

Absolute(n) == IF n < 0 THEN -n ELSE n

\* Windows and AppKit make at least one click of any turn; Wayland's division
\* drops what is less than a notch.
Clicks(backend, turn) ==
  LET whole == Absolute(turn) \div Notch
      atLeast == IF backend = "wayland" THEN whole ELSE IF whole < 1 THEN 1 ELSE whole
  IN IF turn = 0 THEN 0 ELSE IF atLeast > MaxClicks THEN MaxClicks ELSE atLeast

\* Up and right are positive on Windows, down and right on Wayland.
ButtonFor(backend, axis, turn) ==
  LET positive == IF backend = "wayland" THEN turn < 0 ELSE turn > 0
  IN IF axis = "vertical" THEN IF positive THEN 4 ELSE 5
     ELSE IF turn > 0 THEN 7 ELSE 6

\* scroll, wheel, wheelClicks: each click is a press and a release.
Buttons(backend, axis, turn) ==
  [i \in 1 .. 2 * Clicks(backend, turn) |->
     [button |-> ButtonFor(backend, axis, turn), pressed |-> i % 2 = 1]]

WheelClick(e) == e.pressed

\* handleButton: only the press of a wheel button is sent, as a whole notch.
handleButton(buttons) ==
  LET presses == SelectSeq(buttons, WheelClick)
  IN [i \in DOMAIN presses |->
        [button |-> presses[i].button,
         distance |-> IF presses[i].button \in {5, 7} THEN -1000 ELSE 1000]]

-----------------------------------------------------------------------------
(* Actions *)

\* Outputs are plugged, unplugged and rearranged.
Rearrange ==
  /\ outputs' \in Layouts
  /\ UNCHANGED <<monitors, table, told>>

\* Mutant: the client numbers the display's monitors, usable or not.
AllMonitors(list) == list

Numbered(list) == usableMonitors(list)

\* sendHello: the table is numbered in the order of the monitors kept.
SendHello ==
  /\ monitors' = Numbered(outputs)
  /\ table' = SelectSeq(monitors', Valid)
  /\ told' = NoReport
  /\ UNCHANGED outputs

\* handleMotion, handleButton.
Point ==
  /\ \E x \in Points : told' = [what |-> "pointer", x |-> x, monitor |-> pointMonitorDescriptor(x)]
  /\ UNCHANGED <<outputs, monitors, table>>

\* window-map and window-configure.
PlaceWindow ==
  /\ \E x \in Points : told' = [what |-> "window", x |-> x, monitor |-> windowMonitorDescriptor(x)]
  /\ UNCHANGED <<outputs, monitors, table>>

TurnWheel ==
  /\ told = NoReport
  /\ \E backend \in {"win32", "wayland", "darwin"}, axis \in {"vertical", "horizontal"},
        turn \in -MaxTurn .. MaxTurn :
       told' = [what |-> "wheel", turn |-> turn, monitor |-> <<>>,
                packets |-> handleButton(Buttons(backend, axis, turn))]
  /\ UNCHANGED <<outputs, monitors, table>>

Next == Rearrange \/ SendHello \/ Point \/ PlaceWindow \/ TurnWheel

Spec == Init /\ [][Next]_vars

-----------------------------------------------------------------------------
(* Properties *)

\* The server finds every position where it is: in its own table, whatever the
\* display has become since, and for the pointer on a monitor that holds it.
PositionsAreRecovered ==
  told # NoReport =>
    \A i \in DOMAIN told.monitor :
      LET descriptor == told.monitor[i]
      IN /\ descriptor.index + 1 \in DOMAIN table
         /\ table[descriptor.index + 1].left + descriptor.position = told.x
         /\ told.what = "pointer" => Contains(table[descriptor.index + 1], told.x)

\* Whole notches, as far as the limit, arrive as so many notches: not as twice
\* as many for the presses and releases, nor fewer for the division.
NotchesAreCounted ==
  /\ told # NoReport /\ told.what = "wheel"
  /\ told.turn % Notch = 0 /\ Absolute(told.turn) <= MaxClicks * Notch
  => Len(told.packets) = Absolute(told.turn) \div Notch
=============================================================================
