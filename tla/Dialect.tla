------------------------------- MODULE Dialect ------------------------------
(***************************************************************************)
(* Names of packets.  Servers before and after the renaming, and servers   *)
(* told not to be compatible, name the same packet differently; the client *)
(* asks for packet families in its hello (client/hello.go), reduces the    *)
(* names it receives (protocol/packet.go) and finds a handler for what is   *)
(* left (client/client.go).                                                *)
(***************************************************************************)
EXTENDS Naturals, Sequences

CONSTANT MaxPackets   \* bound: packets the server sends

\* What the constants have to satisfy.
DialectAssumption == MaxPackets \in Nat

VARIABLES
  compatible,  \* BackwardsCompatible of the client
  legacy,      \* the server sends the legacy names
  clipboard,   \* the display has a clipboard
  connected,   \* the client has not been told to leave
  inbox,       \* packets on their way
  understood,  \* history: <<what the server meant, what the client did>>
  packets      \* bound

vars == <<compatible, legacy, clipboard, connected, inbox, understood, packets>>

-----------------------------------------------------------------------------
(* What a packet is for, with its legacy and its modern name.  A menu is an *)
(* override-redirect window, which the modern dialect marks in the metadata. *)
Names ==
  [window |-> <<"new-window", "window-create">>,
   menu |-> <<"new-override-redirect", "window-create">>,
   lost |-> <<"lost-window", "window-destroy">>,
   draw |-> <<"draw", "window-draw">>,
   raise |-> <<"raise-window", "window-raise">>,
   move |-> <<"configure-override-redirect", "window-move-resize">>,
   bell |-> <<"bell", "window-bell">>,
   notification |-> <<"notify_show", "notification-show">>,
   cursor |-> <<"cursor", "cursor-data">>,
   arrow |-> <<"cursor", "cursor-default">>,
   claim |-> <<"clipboard-token", "clipboard-data">>,
   status |-> <<"set-clipboard-enabled", "clipboard-status">>,
   echo |-> <<"ping_echo", "ping-echo">>,
   close |-> <<"disconnect", "connection-close">>]

Spelled(what, old) == Names[what][IF old THEN 1 ELSE 2]

\* buildHello: what is not advertised is never sent.  The cursor's dialect is
\* the one the hello asks for.
Advertised ==
  {"window", "menu", "lost", "draw", "raise", "move", "bell", "notification",
   "cursor", "arrow", "echo", "close"}
  \cup IF clipboard THEN {"claim", "status"} ELSE {}

OldName(what) == legacy /\ (what \in {"cursor", "arrow"} => compatible)

Init ==
  /\ compatible \in BOOLEAN /\ legacy \in BOOLEAN /\ clipboard \in BOOLEAN
  /\ connected = TRUE /\ inbox = <<>> /\ understood = {} /\ packets = 0

\* A cursor packet of two items stands for the arrow.
Packet(what) ==
  [name |-> Spelled(what, OldName(what)), means |-> what,
   override |-> what = "menu" /\ ~legacy, short |-> what = "arrow"]

ServerSends(what) ==
  /\ packets < MaxPackets /\ what \in Advertised
  /\ packets' = packets + 1
  /\ inbox' = Append(inbox, Packet(what))
  /\ UNCHANGED <<compatible, legacy, clipboard, connected, understood>>

-----------------------------------------------------------------------------
(* The client. *)

Renamed == {"window", "lost", "draw", "raise", "move", "bell", "notification", "echo"}

\* Mutant: the name of an override-redirect window is folded away like the rest.
CanonicalMenu(name) ==
  IF compatible /\ \E w \in Renamed \cup {"menu"} : name = Spelled(w, TRUE)
  THEN Spelled(CHOOSE w \in Renamed \cup {"menu"} : name = Spelled(w, TRUE), FALSE) ELSE name

Canonical(name) ==
  IF compatible /\ \E w \in Renamed : name = Spelled(w, TRUE)
  THEN Spelled(CHOOSE w \in Renamed : name = Spelled(w, TRUE), FALSE) ELSE name

\* The cases under a modern name, which means one thing.
ByModernName(name) ==
  LET meant == {w \in DOMAIN Names \ {"window", "menu"} : name = Spelled(w, FALSE)}
  IN IF meant = {} THEN "ignored" ELSE CHOOSE w \in meant : TRUE

\* handlePacket, and handleNewWindow's and handleCursor's look into the packet.
Handled(p) ==
  LET name == Canonical(p.name)
      OnlyCompatible(what) == IF compatible THEN what ELSE "ignored" IN
  CASE name = "window-create" -> IF p.override THEN "menu" ELSE "window"
    [] name = "new-override-redirect" -> OnlyCompatible("menu")
    [] name = "cursor" -> OnlyCompatible(IF p.short THEN "arrow" ELSE "cursor")
    [] name = "clipboard-token" -> OnlyCompatible("claim")
    [] name = "set-clipboard-enabled" -> OnlyCompatible("status")
    [] name = "disconnect" -> OnlyCompatible("close")
    [] OTHER -> ByModernName(name)

Handle ==
  /\ connected /\ inbox # <<>>
  /\ LET done == Handled(Head(inbox)) IN
     /\ understood' = understood \cup {<<Head(inbox).means, done>>}
     /\ connected' = (done # "close")
  /\ inbox' = Tail(inbox)
  /\ UNCHANGED <<compatible, legacy, clipboard, packets>>

\* sendDisconnect, for the user or for a failure: what is under way is not read.
Leave ==
  /\ connected /\ connected' = FALSE
  /\ UNCHANGED <<compatible, legacy, clipboard, inbox, understood, packets>>

Next ==
  \/ \E what \in Advertised : ServerSends(what)
  \/ Handle
  \/ Leave

Spec == Init /\ [][Next]_vars

-----------------------------------------------------------------------------
\* Everything the hello asks for is done as the server meant it, by a compatible
\* client from every server, and by the other from a server without legacy names.
AskedForIsHandled ==
  compatible \/ ~legacy => \A pair \in understood : pair[1] = pair[2]

\* What waits is what the server may send: with AskedForIsHandled, inductive.
PacketsInv ==
  /\ compatible \in BOOLEAN /\ legacy \in BOOLEAN /\ clipboard \in BOOLEAN
  /\ inbox \in Seq({Packet(what) : what \in Advertised})
=============================================================================
