----------------------------- MODULE Win32Tray ------------------------------
(***************************************************************************)
(* What the Windows backend holds of the desktop for the whole session:    *)
(* the notification icon (win32/tray.go), which Explorer forgets when it   *)
(* restarts, and the session cursor (win32/cursor.go, display.go).         *)
(***************************************************************************)
EXTENDS Naturals, FiniteSets

CONSTANTS
  MaxHandles,    \* bound: icons and cursors created
  MaxRestarts    \* bound: restarts of Explorer

\* What the constants have to satisfy.
Win32TrayAssumption == MaxHandles \in Nat /\ MaxRestarts \in Nat

\* Handles of the system's own are never destroyed.
System == 0

VARIABLES
  thread,      \* the window thread: "running", "ended"
  tray,        \* Display.tray is a window
  trayAdded, trayIcon, trayIconOwned,
  cursor, cursorOwned,
  shown,       \* the shell: the icon handle it shows for us, if any
  announced,   \* the shell: TaskbarCreated messages on their way
  owned,       \* the system: handles we created and have not destroyed
  handles, restarts   \* bounds

vars == <<thread, tray, trayAdded, trayIcon, trayIconOwned, cursor, cursorOwned,
          shown, announced, owned, handles, restarts>>

Init ==
  /\ thread = "running" /\ tray = FALSE /\ trayAdded = FALSE
  /\ trayIcon = System /\ trayIconOwned = FALSE
  /\ cursor = System /\ cursorOwned = FALSE
  /\ shown = {} /\ announced = 0 /\ owned = {}
  /\ handles = 0 /\ restarts = 0

cursorVars == <<cursor, cursorOwned>>
shell == <<announced, restarts>>

-----------------------------------------------------------------------------
(* The icon. *)

\* Shell_NotifyIconW: adding may fail, and so may setting the version, after
\* which the icon is taken away again.
AddTrayIcon(icon, added) ==
  /\ added \in BOOLEAN
  /\ shown' = IF added THEN {icon} ELSE {}
  /\ trayAdded' = added

\* ShowTray, createTray: a tray that is there is kept, and a window that cannot
\* be made changes nothing.
ShowTray ==
  /\ thread = "running" /\ ~tray
  /\ \/ /\ handles < MaxHandles
        /\ handles' = handles + 1
        /\ \E added \in BOOLEAN :
             /\ AddTrayIcon(handles', added)
             /\ owned' = IF added THEN owned \cup {handles'} ELSE owned
             /\ tray' = added
             /\ trayIcon' = IF added THEN handles' ELSE System
             /\ trayIconOwned' = added
     \/ \E added \in BOOLEAN :     \* without the resource, the system's icon
          /\ AddTrayIcon(System, added)
          /\ tray' = added
          /\ UNCHANGED <<trayIcon, trayIconOwned, owned, handles>>
  /\ UNCHANGED <<thread, cursorVars, shell>>

\* Explorer restarts: it forgets the icon and announces its new taskbar.
ExplorerRestarts ==
  /\ restarts < MaxRestarts
  /\ restarts' = restarts + 1
  /\ shown' = {} /\ announced' = announced + 1
  /\ UNCHANGED <<thread, tray, trayAdded, trayIcon, trayIconOwned, cursorVars, owned, handles>>

RestoreTray == \E added \in BOOLEAN : AddTrayIcon(trayIcon, added)

\* windowProc: the message goes to the tray's window, if there is one.
TaskbarCreated ==
  /\ thread = "running" /\ announced > 0
  /\ announced' = announced - 1
  /\ IF tray THEN RestoreTray ELSE UNCHANGED <<shown, trayAdded>>
  /\ UNCHANGED <<thread, tray, trayIcon, trayIconOwned, cursorVars, owned, handles, restarts>>

DestroyTray ==
  /\ shown' = IF trayAdded THEN {} ELSE shown
  /\ trayAdded' = FALSE /\ tray' = FALSE
  /\ trayIcon' = System /\ trayIconOwned' = FALSE

-----------------------------------------------------------------------------
(* The cursor. *)

Destroyed(handle, isOwned) == IF isOwned THEN owned \ {handle} ELSE owned

\* The old cursor goes only after the new one is set.
ReplaceCursor(next) == owned' = Destroyed(cursor, cursorOwned) \cup ({next} \ {System})

\* SetCursor: back to the arrow, to a new cursor, or a failure that changes nothing.
SetCursor ==
  /\ thread = "running"
  /\ \/ /\ cursor' = System /\ cursorOwned' = FALSE
        /\ ReplaceCursor(System)
        /\ UNCHANGED handles
     \/ /\ handles < MaxHandles
        /\ handles' = handles + 1
        /\ cursor' = handles' /\ cursorOwned' = TRUE
        /\ ReplaceCursor(handles')
  /\ UNCHANGED <<thread, tray, trayAdded, trayIcon, trayIconOwned, shown, shell>>

-----------------------------------------------------------------------------
\* wmStop takes the tray down, and so does the end of the thread, which may come
\* without it.
StopTray ==
  /\ thread = "running"
  /\ DestroyTray
  /\ owned' = Destroyed(trayIcon, trayIconOwned)
  /\ UNCHANGED <<thread, cursorVars, shell, handles>>

Unwind ==
  /\ thread = "running"
  /\ thread' = "ended"
  /\ DestroyTray
  /\ owned' = Destroyed(trayIcon, trayIconOwned) \ (IF cursorOwned THEN {cursor} ELSE {})
  /\ UNCHANGED <<cursorVars, shell, handles>>

Next == ShowTray \/ ExplorerRestarts \/ TaskbarCreated \/ SetCursor \/ StopTray \/ Unwind

Spec == Init /\ [][Next]_vars

-----------------------------------------------------------------------------
\* The desktop holds what the session needs and nothing more: a handle in use
\* exists, the icon that is believed to be added is shown unless Explorer has
\* just restarted, and nothing is left when the thread has ended.
DesktopIsLeftClean ==
  /\ thread = "running" /\ trayIconOwned => trayIcon \in owned
  /\ thread = "running" /\ cursorOwned => cursor \in owned
  /\ owned \subseteq {trayIcon, cursor}
  /\ trayAdded /\ announced = 0 => shown = {trayIcon}
  /\ thread = "ended" => owned = {} /\ shown = {}

\* The handles that exist are those in use, each created once.
HandlesInv ==
  /\ handles \in Nat /\ trayIcon \in 0 .. handles /\ cursor \in 0 .. handles
  /\ trayIconOwned \in BOOLEAN /\ cursorOwned \in BOOLEAN
  /\ trayIconOwned <=> trayIcon # System
  /\ cursorOwned <=> cursor # System
  /\ trayIconOwned /\ cursorOwned => trayIcon # cursor
  /\ thread \in {"running", "ended"}
  /\ thread = "running" => owned = {trayIcon, cursor} \ {System}
  /\ thread = "ended" => owned = {}

\* The inductive invariant behind DesktopIsLeftClean.
TrayInv ==
  /\ HandlesInv
  /\ announced \in Nat
  /\ ~tray => ~trayAdded /\ ~trayIconOwned
  /\ thread = "ended" => ~tray
  /\ ~trayAdded => shown = {}
  /\ trayAdded /\ announced = 0 => shown = {trayIcon}
=============================================================================
