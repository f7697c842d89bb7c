------------------------------ MODULE Windows -------------------------------
(***************************************************************************)
(* The window half of client/client.go and the focus half of               *)
(* client/input.go: which local window stands for which remote one, whether*)
(* it is minimized, which one has the focus, and what the server is told.  *)
(*                                                                         *)
(* The run loop handles one thing at a time, but in any order: a packet of *)
(* the server (any packet, at any time), an event of the desktop (in the   *)
(* order they happened), or the report of a timer.  Between the call that  *)
(* asks the desktop to minimize a window and the event that says so there  *)
(* are two queues, and the user acts in the meantime.                      *)
(***************************************************************************)
EXTENDS Naturals, Sequences, SequencesExt

CONSTANTS
  Wids,         \* window ids the server uses
  NoWid,        \* no window: focused = 0 in the code
  DueCapacity,  \* capacity of the iconifyDue channel
  Inputs,       \* bound: the kinds of input the environment produces
  MaxLocals,    \* bound: local windows ever created
  MaxInputs     \* bound: packets, user actions and focus changes

ASSUME WindowsAssumption ==
  /\ NoWid \notin Wids
  /\ DueCapacity \in Nat \ {0}
  /\ Inputs \subseteq {"lost", "iconic", "show-desktop", "minimize", "focus"}
  /\ MaxLocals \in Nat
  /\ MaxInputs \in Nat

Locals == 1..MaxLocals    \* ui.WindowID, never reused
NoLocal == 0

VARIABLES
  windows,       \* Client.windows: remote id to local window
  byLocal,       \* Client.byLocal: local window to remote id
  iconified,     \* Client.iconified
  serverIconic,  \* Client.serverIconic
  focused,       \* Client.focused
  focusLosing,   \* Client.focusLosing
  iconifyTimers, \* how many iconify timers run for each remote id
  iconifyDue,    \* the iconifyDue channel
  focusTimer,    \* the focus timer is running
  focusLostDue,  \* the token in the focusLostDue channel
  created,       \* local windows created so far
  alive,         \* local windows that exist on the desktop
  minimized,     \* those the desktop has minimized
  holder,        \* the local window with the desktop's focus
  requests,      \* Minimize calls the desktop has not carried out
  events,        \* desktop events the client has not handled
  toldIconic,    \* what the last window-map or window-unmap said
  toldFocus,     \* what the last window-focus said
  inputs         \* history: inputs so far

clientVars == <<windows, byLocal, iconified, serverIconic, focused>>
timerVars == <<focusLosing, iconifyTimers, iconifyDue, focusTimer, focusLostDue>>
desktopVars == <<created, alive, minimized, holder, requests, events>>
toldVars == <<toldIconic, toldFocus>>
vars == <<clientVars, timerVars, desktopVars, toldVars, inputs>>

Init ==
  /\ windows = [w \in Wids |-> NoLocal]
  /\ byLocal = [l \in Locals |-> NoWid]
  /\ iconified = [w \in Wids |-> FALSE]
  /\ serverIconic = [w \in Wids |-> "unknown"]
  /\ focused = NoWid /\ focusLosing = FALSE
  /\ iconifyTimers = [w \in Wids |-> 0] /\ iconifyDue = <<>>
  /\ focusTimer = FALSE /\ focusLostDue = FALSE
  /\ created = 0 /\ alive = {} /\ minimized = {} /\ holder = NoLocal
  /\ requests = <<>> /\ events = <<>>
  /\ toldIconic = [w \in Wids |-> FALSE] /\ toldFocus = NoWid
  /\ inputs = 0

Input(kind) ==
  /\ kind \in Inputs
  /\ inputs < MaxInputs
  /\ inputs' = inputs + 1

Iconic(b) == IF b THEN "iconic" ELSE "normal"

Ask(l, b, why) == [local |-> l, minimize |-> b, why |-> why]
Minimized(l, b, why) == [type |-> "minimized", local |-> l, value |-> b, why |-> why]
Focus(l) == [type |-> "focus", local |-> l]
FocusLost(l) == [type |-> "focus-lost", local |-> l]

-----------------------------------------------------------------------------
(* Packets. *)

\* Mutant: the local id keeps pointing at the remote one.
KeepLocal(w) == byLocal

\* forgetWindow's delete from byLocal.
Unbind(w) == [l \in Locals |-> IF l = windows[w] THEN NoWid ELSE byLocal[l]]

\* Mutant: a destroyed window keeps the focus.
KeepFocus(w) == focused

FocusWithout(w) == IF focused = w THEN NoWid ELSE focused

\* handleNewWindow.  A window already known by this id is forgotten first, and
\* stays forgotten if the display cannot make the new one (made is FALSE).  To
\* the server its new window is mapped: it got a window-map, or it maps an
\* override-redirect window itself.
NewWindow(w, iconic, made) ==
  LET l == created + 1
      asks == iconic \in {"iconic", "normal"}
      old == windows[w]
  IN
  /\ created < MaxLocals
  /\ created' = l
  /\ windows' = [windows EXCEPT ![w] = IF made THEN l ELSE NoLocal]
  /\ byLocal' = IF made THEN [Unbind(w) EXCEPT ![l] = w] ELSE Unbind(w)
  /\ iconified' = [iconified EXCEPT ![w] = FALSE]
  /\ serverIconic' = [serverIconic EXCEPT ![w] = IF made /\ asks THEN iconic ELSE "unknown"]
  /\ focused' = FocusWithout(w)
  /\ alive' = (alive \ {old}) \cup (IF made THEN {l} ELSE {})
  /\ minimized' = minimized \ {old}
  /\ holder' = IF holder = old THEN NoLocal ELSE holder
  /\ requests' = IF made /\ asks THEN Append(requests, Ask(l, iconic = "iconic", "iconic"))
                                 ELSE requests
  /\ toldIconic' = [toldIconic EXCEPT ![w] = FALSE]
  /\ toldFocus' = IF toldFocus = w THEN NoWid ELSE toldFocus
  /\ UNCHANGED <<timerVars, events, inputs>>

\* handleLostWindow: forgetWindow.  The server forgets what it was told.
LostWindow(w) ==
  /\ Input("lost")
  /\ windows[w] # NoLocal
  /\ windows' = [windows EXCEPT ![w] = NoLocal]
  /\ byLocal' = Unbind(w)
  /\ iconified' = [iconified EXCEPT ![w] = FALSE]
  /\ serverIconic' = [serverIconic EXCEPT ![w] = "unknown"]
  /\ focused' = FocusWithout(w)
  /\ alive' = alive \ {windows[w]}
  /\ minimized' = minimized \ {windows[w]}
  /\ holder' = IF holder = windows[w] THEN NoLocal ELSE holder
  /\ toldIconic' = [toldIconic EXCEPT ![w] = FALSE]
  /\ toldFocus' = IF toldFocus = w THEN NoWid ELSE toldFocus
  /\ UNCHANGED <<timerVars, created, requests, events>>

\* handleMetadata with an "iconic" key: applyStates.
Metadata(w, b) ==
  /\ Input("iconic")
  /\ windows[w] # NoLocal
  /\ serverIconic' = [serverIconic EXCEPT ![w] = Iconic(b)]
  /\ requests' = Append(requests, Ask(windows[w], b, "iconic"))
  /\ UNCHANGED <<windows, byLocal, iconified, focused, timerVars, created, alive,
                 minimized, holder, events, toldVars>>

\* handleShowDesktop visits the windows in Go's unspecified map order.
ShowDesktop(b) ==
  /\ Input("show-desktop")
  /\ \E order \in SetToSeqs({windows[w] : w \in Wids} \ {NoLocal}) :
       requests' = requests \o [i \in DOMAIN order |-> Ask(order[i], b, "show-desktop")]
  /\ UNCHANGED <<clientVars, timerVars, created, alive, minimized, holder, events,
                 toldVars>>

-----------------------------------------------------------------------------
(* The desktop and its user. *)

\* The desktop carries out the oldest Minimize call, and reports a change.
CarryOut ==
  /\ requests # <<>>
  /\ requests' = Tail(requests)
  /\ LET ask == Head(requests) IN
       IF ask.local \in alive /\ ask.minimize # (ask.local \in minimized)
       THEN /\ minimized' = IF ask.minimize THEN minimized \cup {ask.local}
                                            ELSE minimized \ {ask.local}
            /\ events' = Append(events, Minimized(ask.local, ask.minimize, ask.why))
       ELSE UNCHANGED <<minimized, events>>
  /\ UNCHANGED <<clientVars, timerVars, created, alive, holder, toldVars, inputs>>

UserMinimizes(l) ==
  /\ Input("minimize")
  /\ l \in alive \ minimized
  /\ minimized' = minimized \cup {l}
  /\ events' = Append(events, Minimized(l, TRUE, "user"))
  /\ UNCHANGED <<clientVars, timerVars, created, alive, holder, requests,
                 toldVars>>

UserRestores(l) ==
  /\ Input("minimize")
  /\ l \in minimized
  /\ minimized' = minimized \ {l}
  /\ events' = Append(events, Minimized(l, FALSE, "user"))
  /\ UNCHANGED <<clientVars, timerVars, created, alive, holder, requests,
                 toldVars>>

\* The focus moves to one of our windows or, for NoLocal, elsewhere.  Desktops
\* differ in which of the two windows they tell first.
FocusMoves(l) ==
  LET lost == IF holder = NoLocal THEN <<>> ELSE <<FocusLost(holder)>>
      gained == IF l = NoLocal THEN <<>> ELSE <<Focus(l)>>
  IN
  /\ Input("focus")
  /\ l \in alive \cup {NoLocal}
  /\ l # holder
  /\ holder' = l
  /\ events' \in {events \o lost \o gained, events \o gained \o lost}
  /\ UNCHANGED <<clientVars, timerVars, created, alive, minimized, requests,
                 toldVars>>

-----------------------------------------------------------------------------
(* Events.  lookup ignores the ones for windows already forgotten. *)

Known(l) == byLocal[l] # NoWid

ChangesSomething(e) ==
  CASE e.type = "minimized" -> iconified[byLocal[e.local]] # e.value
    [] e.type = "focus" -> focused # byLocal[e.local]
    [] e.type = "focus-lost" -> focused = byLocal[e.local]

ActedOn(e) == Known(e.local) /\ ChangesSomething(e)

IgnoreEvent ==
  /\ events # <<>>
  /\ ~ActedOn(Head(events))
  /\ events' = Tail(events)
  /\ UNCHANGED <<clientVars, timerVars, created, alive, minimized, holder, requests,
                 toldVars, inputs>>

\* The events the client acts on.
Take(type) == /\ events # <<>>
              /\ Head(events).type = type
              /\ ActedOn(Head(events))
              /\ events' = Tail(events)

\* "A change that only carries out the server's own metadata is not reported."
AsTheServerAsked(w, b) == serverIconic[w] = Iconic(b)

\* The window-map of handleMinimized.
ReportsRestore(e) == ~e.value /\ ~AsTheServerAsked(byLocal[e.local], FALSE)

\* handleMinimized.
HandleMinimized ==
  /\ Take("minimized")
  /\ LET e == Head(events)
         w == byLocal[e.local]
     IN
     /\ iconified' = [iconified EXCEPT ![w] = e.value]
     /\ iconifyTimers' = IF e.value /\ ~AsTheServerAsked(w, TRUE)
                         THEN [iconifyTimers EXCEPT ![w] = @ + 1]
                         ELSE iconifyTimers
     /\ toldIconic' = IF ReportsRestore(e) THEN [toldIconic EXCEPT ![w] = FALSE]
                                           ELSE toldIconic
  /\ UNCHANGED <<windows, byLocal, serverIconic, focused, focusLosing, iconifyDue,
                 focusTimer, focusLostDue, created, alive, minimized, holder,
                 requests, toldFocus, inputs>>

\* handleFocus.
HandleFocus ==
  /\ Take("focus")
  /\ focused' = byLocal[Head(events).local]
  /\ toldFocus' = focused'
  /\ UNCHANGED <<windows, byLocal, iconified, serverIconic, timerVars, created, alive,
                 minimized, holder, requests, toldIconic, inputs>>

\* handleFocusLost: at most one timer is on its way.
HandleFocusLost ==
  /\ Take("focus-lost")
  /\ focused' = NoWid
  /\ focusLosing' = TRUE
  /\ focusTimer' = (focusTimer \/ ~focusLosing)
  /\ UNCHANGED <<windows, byLocal, iconified, serverIconic, iconifyTimers, iconifyDue,
                 focusLostDue, created, alive, minimized, holder, requests, toldVars,
                 inputs>>

-----------------------------------------------------------------------------
(* Timers.  An expired timer's goroutine waits for room in its channel.    *)

IconifyExpires(w) ==
  /\ iconifyTimers[w] > 0
  /\ Len(iconifyDue) < DueCapacity
  /\ iconifyTimers' = [iconifyTimers EXCEPT ![w] = @ - 1]
  /\ iconifyDue' = Append(iconifyDue, w)
  /\ UNCHANGED <<clientVars, focusLosing, focusTimer, focusLostDue, desktopVars,
                 toldVars, inputs>>

FocusExpires ==
  /\ focusTimer
  /\ ~focusLostDue
  /\ focusTimer' = FALSE
  /\ focusLostDue' = TRUE
  /\ UNCHANGED <<clientVars, focusLosing, iconifyTimers, iconifyDue, desktopVars,
                 toldVars, inputs>>

\* Mutant: the window may have been restored in the meantime.
UnmapAnyway(w) == TRUE

StillIconified(w) == iconified[w] /\ serverIconic[w] # "iconic"

\* sendIconified.  The channel carries the id alone: which timer it was is lost.
SendIconified ==
  /\ iconifyDue # <<>>
  /\ iconifyDue' = Tail(iconifyDue)
  /\ LET w == Head(iconifyDue) IN
       toldIconic' = IF StillIconified(w) THEN [toldIconic EXCEPT ![w] = TRUE]
                                          ELSE toldIconic          \* window-unmap
  /\ UNCHANGED <<clientVars, focusLosing, iconifyTimers, focusTimer, focusLostDue,
                 desktopVars, toldFocus, inputs>>

\* Mutant: the report is sent although another window has the focus.
ReportFocusLost ==
  /\ focusLostDue
  /\ focusLostDue' = FALSE
  /\ focusLosing' = FALSE
  /\ toldFocus' = NoWid
  /\ UNCHANGED <<clientVars, iconifyTimers, iconifyDue, focusTimer, desktopVars,
                 toldIconic, inputs>>

SendFocusLost ==
  /\ focusLostDue
  /\ focusLostDue' = FALSE
  /\ focusLosing' = FALSE
  /\ toldFocus' = IF focused = NoWid THEN NoWid ELSE toldFocus
  /\ UNCHANGED <<clientVars, iconifyTimers, iconifyDue, focusTimer, desktopVars,
                 toldIconic, inputs>>

-----------------------------------------------------------------------------
Next ==
  \/ \E w \in Wids, iconic \in {"absent", "iconic", "normal"}, made \in BOOLEAN :
       NewWindow(w, iconic, made)
  \/ \E w \in Wids : LostWindow(w)
  \/ \E w \in Wids, b \in BOOLEAN : Metadata(w, b)
  \/ \E b \in BOOLEAN : ShowDesktop(b)
  \/ CarryOut
  \/ \E l \in Locals : UserMinimizes(l) \/ UserRestores(l)
  \/ \E l \in Locals \cup {NoLocal} : FocusMoves(l)
  \/ IgnoreEvent
  \/ HandleMinimized
  \/ HandleFocus
  \/ HandleFocusLost
  \/ \E w \in Wids : IconifyExpires(w)
  \/ FocusExpires
  \/ SendIconified
  \/ SendFocusLost

Spec == Init /\ [][Next]_vars

-----------------------------------------------------------------------------
Event == [type : {"minimized"}, local : Locals, value : BOOLEAN,
          why : {"user", "iconic", "show-desktop"}]
         \cup [type : {"focus", "focus-lost"}, local : Locals]
Request == [local : Locals, minimize : BOOLEAN, why : {"iconic", "show-desktop"}]

TypeOK ==
  /\ windows \in [Wids -> Locals \cup {NoLocal}]
  /\ byLocal \in [Locals -> Wids \cup {NoWid}]
  /\ iconified \in [Wids -> BOOLEAN]
  /\ serverIconic \in [Wids -> {"unknown", "iconic", "normal"}]
  /\ focused \in Wids \cup {NoWid}
  /\ focusLosing \in BOOLEAN /\ focusTimer \in BOOLEAN /\ focusLostDue \in BOOLEAN
  /\ iconifyTimers \in [Wids -> Nat]
  /\ iconifyDue \in Seq(Wids)
  /\ created \in 0..MaxLocals
  /\ alive \subseteq Locals /\ minimized \subseteq alive
  /\ holder \in alive \cup {NoLocal}
  /\ requests \in Seq(Request)
  /\ events \in Seq(Event)
  /\ toldIconic \in [Wids -> BOOLEAN]
  /\ toldFocus \in Wids \cup {NoWid}
  /\ inputs \in Nat

\* The two maps are inverse to each other, and they hold exactly the windows
\* that exist on the desktop: none is leaked when an id is reused or a window
\* cannot be made, and no event can reach the wrong remote window.
MapsAgree ==
  /\ \A w \in Wids : windows[w] # NoLocal =>
       byLocal[windows[w]] = w /\ windows[w] \in alive
  /\ \A l \in Locals : byLocal[l] # NoWid => windows[byLocal[l]] = l
  /\ \A l \in alive : byLocal[l] # NoWid

\* Nothing is remembered about a window that is gone: not the focus, and no
\* iconic state a new window of the same id would inherit.
NothingOutlivesItsWindow ==
  /\ focused # NoWid => windows[focused] # NoLocal
  /\ \A w \in Wids : windows[w] = NoLocal => ~iconified[w] /\ serverIconic[w] = "unknown"

Settled == /\ requests = <<>> /\ events = <<>>
           /\ iconifyTimers = [w \in Wids |-> 0] /\ iconifyDue = <<>>
           /\ ~focusTimer /\ ~focusLostDue

\* Once everything in flight has been handled, the client and the desktop agree
\* on which windows are minimized, and where that is not what the server last
\* asked for, the server has been told: whatever the user, the server and the
\* timers did in between, and however often ids were reused.
IconicAgreesWhenSettled ==
  Settled => \A w \in Wids : windows[w] # NoLocal =>
    /\ iconified[w] = (windows[w] \in minimized)
    /\ serverIconic[w] # Iconic(iconified[w]) => toldIconic[w] = iconified[w]

\* Likewise for the focus: the server has been told of the window that has it,
\* or that none of ours does.
FocusAgreesWhenSettled ==
  Settled => /\ focused = IF holder = NoLocal THEN NoWid ELSE byLocal[holder]
             /\ toldFocus = focused

\* client/client.go:1012: "minimizing is an unmap flagged as an iconification,
\* and restoring is a map": a window the server was told is minimized, and that
\* its user restores, is mapped.
UserRestoresAreReported ==
  [][HandleMinimized /\ Head(events).why = "user" /\ ~Head(events).value
       => ~toldIconic'[byLocal[Head(events).local]]]_vars
=============================================================================
