--------------------------- MODULE WaylandCursor ----------------------------
(***************************************************************************)
(* wayland/cursor.go: one pointer image for the session.  The compositor   *)
(* takes an image only on the strength of the latest enter, which may      *)
(* still be on its way, and forgets it when the pointer leaves; the shared *)
(* memory of an image of the server's has to outlive its being shown.      *)
(***************************************************************************)
EXTENDS Naturals, Sequences

CONSTANTS
  NoImage,    \* nothing shown yet
  Theme,      \* the local theme's arrow, whose buffer the theme owns
  MaxImages,  \* bound: SetCursor calls
  MaxEnters   \* bound: enters of the pointer

\* What the constants have to satisfy.
CursorAssumption ==
  /\ MaxImages \in Nat /\ MaxEnters \in Nat
  /\ {NoImage, Theme} \cap Nat = {} /\ NoImage # Theme

VARIABLES
  serial,   \* Display.enterSerial, 0 before the first enter
  shown,    \* Display.shown, or NoImage
  owned,    \* Display.ownedCursor, or NoImage
  alive,    \* images of the server's whose shared memory exists
  missing,  \* there is no cursor theme to load
  inside,   \* the compositor's serial of the pointer's enter, 0 outside
  image,    \* the compositor's image while the pointer is inside
  enters,   \* enters not dispatched yet
  calls,    \* history: SetCursor calls so far
  entered,  \* history: enters so far
  gone      \* history: enters into windows that were destroyed since

clientVars == <<serial, shown, owned, alive, missing>>
vars == <<clientVars, inside, image, enters, calls, entered, gone>>

Init ==
  /\ serial = 0 /\ shown = NoImage /\ owned = NoImage /\ alive = {}
  /\ missing \in BOOLEAN
  /\ inside = 0 /\ image = NoImage /\ enters = <<>>
  /\ calls = 0 /\ entered = 0 /\ gone = {}

\* showCursor: attach, commit and hand over the surface.  The compositor
\* ignores it unless the serial is that of the enter it is at.
Show(next) ==
  /\ shown' = next
  /\ image' = IF inside # 0 /\ serial' = inside THEN next ELSE image

\* SetCursor with an image; sharing it with the compositor may fail.
SetImage(ok) ==
  /\ calls < MaxImages
  /\ calls' = calls + 1
  /\ IF ok
     THEN /\ UNCHANGED serial /\ Show(calls + 1)
          /\ owned' = calls + 1
          /\ alive' = (alive \cup {calls + 1}) \ {owned}
     ELSE UNCHANGED <<serial, shown, image, owned, alive>>
  /\ UNCHANGED <<missing, inside, enters, entered, gone>>

\* showThemeCursor: without a theme, the last image stays.
SetTheme ==
  /\ calls < MaxImages
  /\ calls' = calls + 1
  /\ IF shown = NoImage \/ missing THEN UNCHANGED <<serial, shown, image, owned, alive>>
     ELSE /\ UNCHANGED serial /\ Show(Theme)
          /\ owned' = NoImage /\ alive' = alive \ {owned}
  /\ UNCHANGED <<missing, inside, enters, entered, gone>>

\* pointerEnter and restoreCursor.  An enter into a window that is no more
\* tells nothing.
PointerEnter ==
  /\ enters # <<>>
  /\ enters' = Tail(enters)
  /\ IF Head(enters) \in gone THEN UNCHANGED <<serial, shown, image>>
     ELSE /\ serial' = Head(enters)
          /\ IF shown = NoImage THEN UNCHANGED <<shown, image>> ELSE Show(shown)
  /\ UNCHANGED <<owned, alive, missing, inside, calls, entered, gone>>

\* Window.Destroy, before the compositor knows.
Destroy(n) ==
  /\ gone' = gone \cup {n}
  /\ UNCHANGED <<clientVars, inside, image, enters, calls, entered>>

Enters ==
  /\ inside = 0 /\ entered < MaxEnters
  /\ entered' = entered + 1
  /\ inside' = entered + 1
  /\ image' = NoImage
  /\ enters' = Append(enters, entered + 1)
  /\ UNCHANGED <<clientVars, calls, gone>>

Leaves ==
  /\ inside # 0
  /\ inside' = 0 /\ image' = NoImage
  /\ UNCHANGED <<clientVars, enters, calls, entered, gone>>

Next ==
  \/ (\E ok \in BOOLEAN : SetImage(ok)) \/ SetTheme
  \/ PointerEnter \/ Enters \/ Leaves \/ \E n \in (1 .. entered) \ gone : Destroy(n)

Spec == Init /\ [][Next]_vars

-----------------------------------------------------------------------------
\* What is shown, and would be shown again on the next enter, still has its
\* memory, and no other image has; with no enter on its way, the pointer over
\* one of our windows looks the way the server last said.
CursorShownIsAlive ==
  /\ {shown, image} \subseteq alive \cup {NoImage, Theme}
  /\ alive = {owned} \ {NoImage}
  /\ inside \notin gone \cup {0} /\ enters = <<>> => image = shown

\* The latest enter that was dispatched.
Dispatched == entered - Len(enters)

\* The enters on their way are the latest ones, and the serial is that of the
\* last one dispatched unless its window is gone.
EntersInv ==
  /\ serial \in Nat /\ entered \in Nat /\ enters \in Seq(Nat)
  /\ serial <= Dispatched
  /\ Dispatched \in gone \cup {0} \/ serial = Dispatched
  /\ \A i \in 1 .. Len(enters) : enters[i] = Dispatched + i
  /\ inside \in {0, entered}

\* The image is the one shown if the serial is that of the compositor's enter.
CursorInv ==
  /\ EntersInv /\ calls \in Nat
  /\ image = IF inside # 0 /\ serial = inside THEN shown ELSE NoImage
  /\ \/ owned = NoImage /\ shown \in {NoImage, Theme}
     \/ owned \in 1 .. calls /\ shown = owned
  /\ alive = {owned} \ {NoImage}
=============================================================================
