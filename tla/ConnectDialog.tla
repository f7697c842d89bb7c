--------------------------- MODULE ConnectDialog ----------------------------
(***************************************************************************)
(* The two ways of naming a server: the startup form of                    *)
(* cmd/go-xpra/connect_dialog.go, driven by keys and clicks, and the URL   *)
(* that parseConnectionURL (cmd/go-xpra/main.go) reads.                    *)
(*                                                                         *)
(* A text is a sequence of characters.  Where a click lands is given by    *)
(* what is drawn there.                                                    *)
(***************************************************************************)
EXTENDS Integers, Sequences, SequencesExt

CONSTANTS
  Texts,      \* what one key press may type
  MaxEvents   \* bound: key presses and clicks

\* What the constants have to satisfy.
ConnectDialogAssumption == MaxEvents \in Nat

\* The focus constants start at iota = 2: two other constants precede them.
focusProtocol == 2
focusUsername == 3
focusPassword == 4
focusHost == 5
focusPort == 6
focusDisplay == 7
focusCancel == 8
focusConnect == 9
focusCount == 10

Digits == [c \in {"0", "1", "2", "3", "4", "5", "7", "8"} |->
             CASE c = "0" -> 0 [] c = "1" -> 1 [] c = "2" -> 2 [] c = "3" -> 3
               [] c = "4" -> 4 [] c = "5" -> 5 [] c = "7" -> 7 [] c = "8" -> 8]

DefaultPort ==
  [tcp |-> <<"1", "4", "5", "0", "0">>, ssl |-> <<"1", "4", "5", "0", "0">>,
   ws |-> <<"8", "0">>, wss |-> <<"4", "4", "3">>, ssh |-> <<"2", "2">>, socket |-> <<>>]

dialogProtocols == <<"tcp", "ssl", "ws", "wss", "ssh", "socket">>

Fields == {"username", "password", "host", "port", "display", "path"}

VARIABLES
  protocol, inputs, focus, dropdownOpen, message,
  outcome,   \* "open", "cancelled" or "connect"
  events     \* bound: how many events there have been

vars == <<protocol, inputs, focus, dropdownOpen, message, outcome, events>>

\* textInput.set: the cursor goes to the end.
Set(text) == [text |-> text, cursor |-> Len(text)]

Init ==
  /\ protocol = 1
  /\ inputs = [f \in Fields |-> CASE f = "port" -> Set(DefaultPort["tcp"])
                                  [] f = "path" -> Set(<<"/">>)
                                  [] OTHER -> Set(<<>>)]
  /\ focus = focusHost
  /\ dropdownOpen = FALSE /\ message = FALSE
  /\ outcome = "open" /\ events = 0

-----------------------------------------------------------------------------
(* The form. *)

transport == dialogProtocols[protocol]

socketSelected == transport = "socket"
extraSelected == transport \in {"ssh", "ws", "wss"}

visibleInputFocuses ==
  {focusUsername, focusPassword, focusHost}
    \cup (IF socketSelected THEN {} ELSE {focusPort})
    \cup (IF extraSelected THEN {focusDisplay} ELSE {})

focusVisible(f) == f \in focusUsername .. focusDisplay => f \in visibleInputFocuses

\* inputFor: the field a focus edits, or "none".
inputFor(f) ==
  CASE f = focusUsername -> "username"
    [] f = focusPassword -> "password"
    [] f = focusHost -> "host"
    [] f = focusPort /\ ~socketSelected -> "port"
    [] f = focusDisplay /\ transport = "ssh" -> "display"
    [] f = focusDisplay /\ transport \in {"ws", "wss"} -> "path"
    [] OTHER -> "none"

Insert(i, text) ==
  [text |-> SubSeq(i.text, 1, i.cursor) \o text \o SubSeq(i.text, i.cursor + 1, Len(i.text)),
   cursor |-> i.cursor + Len(text)]

Backspace(i) ==
  IF i.cursor = 0 THEN i
  ELSE [text |-> RemoveAt(i.text, i.cursor), cursor |-> i.cursor - 1]

Delete(i) ==
  IF i.cursor = Len(i.text) THEN i ELSE [i EXCEPT !.text = RemoveAt(@, i.cursor + 1)]

\* insertPort: digits only, five at most.
InsertPort(i, text) ==
  LET digits == SelectSeq(text, LAMBDA c : c \in DOMAIN Digits)
      room == 5 - Len(i.text)
  IN IF room <= 0 THEN i
     ELSE Insert(i, SubSeq(digits, 1, IF Len(digits) < room THEN Len(digits) ELSE room))

selectProtocol(index) ==
  /\ protocol' = index
  /\ inputs' = IF protocol = index THEN inputs
               ELSE [inputs EXCEPT !["port"] = Set(DefaultPort[dialogProtocols[index]])]
  /\ dropdownOpen' = FALSE /\ message' = FALSE

-----------------------------------------------------------------------------
(* What the form, and a URL, connect to. *)

Rejected == [transport |-> "none", host |-> <<>>, port |-> 0, path |-> <<>>, username |-> <<>>]

TrimSpace(text) ==
  LET solid == {n \in DOMAIN text : text[n] # " "}
  IN IF solid = {} THEN <<>>
     ELSE SubSeq(text, CHOOSE n \in solid : \A m \in solid : n <= m,
                       CHOOSE n \in solid : \A m \in solid : n >= m)

Starts(text, c) == text # <<>> /\ Head(text) = c

Unbracketed(text) ==
  IF Starts(text, "[") /\ Last(text) = "]" THEN SubSeq(text, 2, Len(text) - 1) ELSE text

\* strconv.ParseUint with 16 bits; 0 stands for an error as well.
Number(text) ==
  LET n == FoldLeft(LAMBDA sum, c : 10 * sum + Digits[c], 0, text)
  IN IF n > 65535 THEN 0 ELSE n

validSocketPath(path) == Starts(path, "/") /\ path # <<"/">>

Has(text, c) == \E n \in DOMAIN text : text[n] = c

\* Mutant: the sign of an option is looked for before the brackets are taken off.
OptionAsTyped(raw) == Starts(raw, "-")

\* The host ssh would be given looks like one of its options.
LooksLikeOption(raw) == Starts(Unbracketed(raw), "-")

\* A WebSocket path gets a leading slash.
Endpoint(text) == IF Starts(text, "/") THEN text ELSE <<"/">> \o text

\* url.Parse: just two leading slashes introduce a host, which may be empty.
NamesHost(path) == Starts(Tail(path), "/") /\ Len(path) > 2 /\ path[3] # "/"
PathOf(path) == IF path = <<"/", "/">> THEN <<"/">> ELSE path

target ==
  LET text == [f \in Fields |-> TrimSpace(inputs[f].text)]
      raw == text["host"]
      port == Number(text["port"])
      endpoint == Endpoint(text["path"])
      path == IF transport = "ssh" THEN text["display"]
              ELSE IF extraSelected THEN PathOf(endpoint) ELSE <<>>
      to(h, p) == [transport |-> transport, host |-> h, port |-> p, path |-> path,
                   username |-> inputs["username"].text]
  IN IF socketSelected
     THEN IF validSocketPath(raw) THEN to(raw, 0) ELSE Rejected
     ELSE IF \/ raw = <<>> \/ port = 0
             \/ transport = "ssh" /\ (LooksLikeOption(raw) \/ Has(path, "/"))
             \/ transport \in {"ws", "wss"} /\ NamesHost(endpoint)
          THEN Rejected
          ELSE to(Unbracketed(raw), port)

\* parseConnectionURL, of a URL that has been split into its parts.
parseConnectionURL(url) ==
  LET number == IF url.port = <<>> THEN Number(DefaultPort[url.scheme]) ELSE Number(url.port)
      rest == IF url.path = <<"/">> THEN <<>> ELSE url.path
      display == IF rest = <<>> THEN <<>> ELSE Tail(rest)
      to(path) == [transport |-> url.scheme, host |-> url.host, port |-> number, path |-> path,
                   username |-> url.username]
      rejected ==
        \/ url.host = <<>> \/ number = 0
        \/ url.scheme \in {"tcp", "ssl"} /\ rest # <<>>
        \/ url.scheme = "ssh" /\ (Starts(url.host, "-") \/ Has(display, "/"))
  IN IF url.scheme = "socket"
     THEN IF url.host = <<>> /\ validSocketPath(url.path)
          THEN [to(<<>>) EXCEPT !.host = url.path, !.port = 0]
          ELSE Rejected
     ELSE IF rejected THEN Rejected
     ELSE CASE url.scheme = "ssh" -> to(display)
            [] url.scheme \in {"ws", "wss"} -> to(IF url.path = <<>> THEN <<"/">> ELSE url.path)
            [] OTHER -> to(<<>>)

-----------------------------------------------------------------------------
(* The user. *)

Happens == events < MaxEvents /\ outcome = "open" /\ events' = events + 1

\* The form asks for a connection; a form that names no server shows why.
Connect ==
  /\ outcome' = IF target = Rejected THEN "open" ELSE "connect"
  /\ message' = (target = Rejected)
  /\ UNCHANGED <<protocol, inputs, dropdownOpen>>

Cancel == outcome' = "cancelled" /\ UNCHANGED <<protocol, inputs, dropdownOpen, message>>

Close == Happens /\ Cancel /\ UNCHANGED focus

Escape ==
  /\ Happens /\ UNCHANGED focus
  /\ \/ /\ dropdownOpen
        /\ dropdownOpen' = FALSE
        /\ UNCHANGED <<protocol, inputs, message, outcome>>
     \/ ~dropdownOpen /\ Cancel

\* The next visible focus in a direction; 0 and 1 count as visible.
NextFocus(direction) ==
  LET at(n) == (focus + n * (direction + focusCount)) % focusCount
      n == CHOOSE n \in 1 .. focusCount :
             focusVisible(at(n)) /\ \A m \in 1 .. n - 1 : ~focusVisible(at(m))
  IN at(n)

Tab(direction) ==
  /\ Happens
  /\ focus' = NextFocus(direction)
  /\ dropdownOpen' = FALSE
  /\ UNCHANGED <<protocol, inputs, message, outcome>>

Toggle == dropdownOpen' = ~dropdownOpen /\ UNCHANGED <<protocol, inputs, message, outcome>>

Return ==
  /\ Happens /\ UNCHANGED focus
  /\ CASE focus = focusCancel -> Cancel
       [] focus = focusProtocol -> Toggle
       [] OTHER -> Connect

Arrow(step) ==
  /\ Happens /\ focus = focusProtocol
  /\ selectProtocol(1 + ((protocol - 1 + step + Len(dialogProtocols)) % Len(dialogProtocols)))
  /\ UNCHANGED <<focus, outcome>>

Space ==
  /\ Happens /\ inputFor(focus) = "none"
  /\ UNCHANGED focus
  /\ CASE focus = focusProtocol -> Toggle
       [] focus = focusCancel -> Cancel
       [] focus = focusConnect -> Connect
       [] OTHER -> UNCHANGED <<protocol, inputs, dropdownOpen, message, outcome>>

Focused == inputs[inputFor(focus)]

\* The focused field becomes input, if a field has the focus.
Edit(input) ==
  /\ Happens /\ inputFor(focus) # "none"
  /\ inputs' = [inputs EXCEPT ![inputFor(focus)] = input]
  /\ message' = FALSE
  /\ UNCHANGED <<protocol, focus, dropdownOpen, outcome>>

Type(text) ==
  Edit(IF focus = focusPort THEN InsertPort(Focused, text) ELSE Insert(Focused, text))

MoveCursor ==
  \/ Edit([Focused EXCEPT !.cursor = IF @ = 0 THEN 0 ELSE @ - 1])
  \/ Edit([Focused EXCEPT !.cursor = IF @ = Len(Focused.text) THEN @ ELSE @ + 1])
  \/ Edit([Focused EXCEPT !.cursor = 0])
  \/ Edit([Focused EXCEPT !.cursor = Len(Focused.text)])

\* click: an open menu lies over the fields, and any click closes it first;
\* one on the protocol field therefore opens it again.
ClickOption(index) ==
  /\ Happens /\ dropdownOpen
  /\ selectProtocol(index)
  /\ focus' = focusProtocol
  /\ UNCHANGED outcome

Click(where) ==
  /\ Happens
  /\ focus' = where
  /\ CASE where = focusProtocol -> /\ dropdownOpen' = TRUE
                                   /\ UNCHANGED <<protocol, inputs, message, outcome>>
       [] where = focusCancel -> Cancel
       [] where = focusConnect -> /\ outcome' = IF target = Rejected THEN "open" ELSE "connect"
                                  /\ message' = (target = Rejected)
                                  /\ dropdownOpen' = FALSE
                                  /\ UNCHANGED <<protocol, inputs>>
       [] OTHER -> dropdownOpen' = FALSE /\ UNCHANGED <<protocol, inputs, message, outcome>>

\* A click beside everything.
ClickNothing ==
  /\ Happens
  /\ dropdownOpen' = FALSE
  /\ UNCHANGED <<protocol, inputs, focus, message, outcome>>

Next ==
  \/ Close \/ ClickNothing \/ Escape \/ Return \/ Space \/ MoveCursor
  \/ \E direction \in {-1, 1} : Tab(direction) \/ Arrow(direction)
  \/ \E text \in Texts : Type(text)
  \/ Edit(Backspace(Focused)) \/ Edit(Delete(Focused))
  \/ \E index \in DOMAIN dialogProtocols : ClickOption(index)
  \/ \E where \in {focusProtocol, focusCancel, focusConnect} \cup visibleInputFocuses : Click(where)

Spec == Init /\ [][Next]_vars

-----------------------------------------------------------------------------
\* Editing slices the text at the cursor: it never points outside it.
CursorInText == \A f \in Fields : inputs[f].cursor \in 0 .. Len(inputs[f].text)

\* A host that a URL can spell.
Spelled(host) == \A c \in {"/", "[", "]", " "} : ~Has(host, c)

\* The URL that names what the form shows.
Shown ==
  LET text(f) == TrimSpace(inputs[f].text)
  IN [scheme |-> transport, username |-> inputs["username"].text,
      host |-> IF socketSelected THEN <<>> ELSE Unbracketed(text("host")),
      port |-> IF socketSelected THEN <<>> ELSE text("port"),
      path |-> CASE socketSelected -> text("host")
                 [] transport = "ssh" -> <<"/">> \o text("display")
                 [] transport \in {"ws", "wss"} -> Endpoint(text("path"))
                 [] OTHER -> <<>>]

\* Whatever was typed, in whatever order, a server the dialog connects to is the
\* one that the URL spelling out the visible fields connects to.  Two things only
\* the dialog takes for a server: a pair of brackets with no host in it, which it
\* does not recognise as an empty host, and a WebSocket path of two slashes, in
\* which it reads an empty host.
FrontEndsAgree ==
  /\ target # Rejected
  /\ socketSelected \/ (Spelled(Shown.host) /\ Shown.host # <<>>)
  /\ Shown.path # <<"/", "/">>
  => parseConnectionURL(Shown) = target
=============================================================================
