----------------------------- MODULE Clipboard ------------------------------
(***************************************************************************)
(* client/clipboard.go: text copied on either side is offered to the other.*)
(*                                                                         *)
(* A claim of the server carries its text, or makes the client ask for it; *)
(* the answer may come late, after another claim, a renegotiation or a     *)
(* local copy.  Packets of the server arrive in the order it sent them;    *)
(* events of the desktop in the order it emitted them; the run loop picks  *)
(* between the two.                                                        *)
(***************************************************************************)
EXTENDS Naturals, Sequences, FiniteSets, Functions

CONSTANTS
  Texts,       \* clipboard texts
  NoText,      \* nothing known yet
  Refused,     \* texts over maxClipboardBytes, or not valid UTF-8
  Echoes,      \* the desktop may report SetText's own text back
  MaxPackets,  \* bound: packets the server sends
  MaxCopies    \* bound: copies the local user makes

\* What the constants have to satisfy.
ClipboardAssumption ==
  /\ NoText \notin Texts
  /\ Refused \subseteq Texts
  /\ Echoes \in BOOLEAN
  /\ MaxPackets \in Nat /\ MaxCopies \in Nat

VARIABLES
  ready, canSend, canReceive,  \* Client.clipboardReady, CanSend, CanReceive
  text,         \* Client.clipboardText, or NoText while not clipboardKnown
  generation,   \* Client.clipboardGeneration
  nextRequest,  \* Client.nextClipboardRequest
  requests,     \* Client.clipboardRequests: id to generation
  desktop,      \* the text in the desktop's clipboard
  events,       \* ClipboardChange events not handled yet
  inbox,        \* the server's packets not handled yet
  asked,        \* requests the server has not answered: id to the claim
  sent,         \* history: packets the server sent
  copies,       \* history: copies the local user made
  claims,       \* history: claims of the server
  shared,       \* history: the text last claimed towards or applied from the server
  applied       \* history: the claim whose text was applied last

modeVars == <<ready, canSend, canReceive>>
requestVars == <<generation, nextRequest, requests>>
desktopVars == <<desktop, events, copies>>
serverVars == <<inbox, asked, sent, claims>>
vars == <<modeVars, text, requestVars, desktopVars, serverVars, shared, applied>>

Empty == [id \in {} |-> 0]

Without(f, id) == Restrict(f, DOMAIN f \ {id})

\* A ClipboardChange; echo tells a copy of our own text from a user's.
Change(t, echo) == [text |-> t, echo |-> echo]

Init ==
  /\ ready = FALSE /\ canSend = FALSE /\ canReceive = FALSE
  /\ text = NoText
  /\ generation = 0 /\ nextRequest = 0 /\ requests = Empty
  /\ desktop = NoText /\ events = <<>> /\ copies = 0
  /\ inbox = <<>> /\ asked = Empty /\ sent = 0 /\ claims = 0
  /\ shared = NoText /\ applied = 0

-----------------------------------------------------------------------------
(* The server and the user. *)

ServerSends(packet) ==
  /\ sent < MaxPackets
  /\ sent' = sent + 1
  /\ inbox' = Append(inbox, packet)
  /\ UNCHANGED <<modeVars, text, requestVars, desktopVars, shared, applied>>

\* A claim with its text, without it, or without a target we could ask for.
ServerClaims(t, kind) ==
  /\ ServerSends([type |-> "claim", claim |-> claims + 1, text |-> t, kind |-> kind])
  /\ claims' = claims + 1
  /\ UNCHANGED asked

\* The answer carries the text of the claim the server was at when it read it:
\* the one it was asked about, or a later one.
ServerAnswers(id, n, t) ==
  /\ ServerSends([type |-> "contents", id |-> id, claim |-> n, text |-> t])
  /\ asked' = Without(asked, id)
  /\ UNCHANGED claims

ServerHasNone(id) ==
  /\ ServerSends([type |-> "contents-none", id |-> id])
  /\ asked' = Without(asked, id)
  /\ UNCHANGED claims

ServerGreets(direction) ==
  /\ ServerSends([type |-> "hello", direction |-> direction])
  /\ UNCHANGED <<asked, claims>>

ServerSwitches(type, on) ==
  /\ ServerSends([type |-> type, on |-> on])
  /\ UNCHANGED <<asked, claims>>

UserCopies(t) ==
  /\ copies < MaxCopies
  /\ copies' = copies + 1
  /\ desktop' = t
  /\ events' = Append(events, Change(t, FALSE))
  /\ UNCHANGED <<modeVars, text, requestVars, serverVars, shared, applied>>

-----------------------------------------------------------------------------
(* Packet handlers. *)

Receive(type) ==
  /\ inbox # <<>>
  /\ Head(inbox).type = type
  /\ inbox' = Tail(inbox)
  /\ UNCHANGED <<sent, claims>>

\* sendClipboardToken, once the text is known.
Offer(send) == shared' = IF send /\ text # NoText THEN text ELSE shared

\* configureClipboard, at the server's hello.
HandleHello ==
  LET direction == Head(inbox).direction IN
  /\ Receive("hello")
  /\ ready' = (direction # "disabled")
  /\ canSend' = (direction \in {"both", "to-server"})
  /\ canReceive' = (direction \in {"both", "to-client"})
  /\ requests' = Empty
  /\ Offer(canSend')
  /\ UNCHANGED <<text, generation, nextRequest, desktopVars, asked, applied>>

\* Mutant: the text known by now is not offered.
EnableSilently ==
  /\ Receive("enable-selections")
  /\ ready' = (Head(inbox).on /\ (canSend \/ canReceive))
  /\ UNCHANGED <<canSend, canReceive, text, requestVars, desktopVars, asked,
                 shared, applied>>

HandleEnableSelections ==
  /\ Receive("enable-selections")
  /\ ready' = IF Head(inbox).on THEN ready \/ canSend \/ canReceive ELSE FALSE
  /\ Offer(Head(inbox).on /\ canSend)
  /\ UNCHANGED <<canSend, canReceive, text, requestVars, desktopVars, asked, applied>>

HandleStatus ==
  /\ Receive("status")
  /\ ready' = (Head(inbox).on /\ (canSend \/ canReceive))
  /\ requests' = IF ready' THEN requests ELSE Empty
  /\ Offer(ready' /\ canSend)
  /\ UNCHANGED <<canSend, canReceive, text, generation, nextRequest, desktopVars,
                 asked, applied>>

\* applyRemoteClipboard; SetText may fail (ok is FALSE).
Apply(t, n, ok) ==
  IF text = t
  THEN /\ shared' = t
       /\ applied' = n
       /\ UNCHANGED <<text, desktopVars>>
  ELSE IF ok
  THEN /\ text' = t /\ shared' = t /\ applied' = n
       /\ desktop' = t
       /\ \/ events' = events
          \/ Echoes /\ events' = Append(events, Change(t, TRUE))
       /\ UNCHANGED copies
  ELSE UNCHANGED <<text, desktopVars, shared, applied>>

mayReceive == ready /\ canReceive

\* Mutant: a new claim leaves the requests of older ones alone.
KeepRequests == UNCHANGED <<generation, requests>>

\* beginRemoteClipboard.
BeginRemote == /\ generation' = generation + 1
               /\ requests' = Empty

Ask(id, claim) ==
  asked' = [i \in DOMAIN asked \cup {id} |-> IF i = id THEN claim ELSE asked[i]]

\* Mutant: the request is registered next to the older ones.
RequestBesides(claim) ==
  /\ nextRequest' = nextRequest + 1
  /\ requests' = [id \in DOMAIN requests \cup {nextRequest'} |->
                    IF id = nextRequest' THEN generation ELSE requests[id]]
  /\ generation' = generation
  /\ Ask(nextRequest', claim)

\* beginRemoteClipboard and requestRemoteClipboard.
BeginAndRequest(claim) ==
  /\ nextRequest' = nextRequest + 1
  /\ generation' = generation + 1
  /\ requests' = [id \in {nextRequest'} |-> generation']
  /\ Ask(nextRequest', claim)

\* handleClipboardToken and handleClipboardData.
HandleClaim ==
  LET p == Head(inbox) IN
  /\ Receive("claim")
  /\ \/ /\ ~mayReceive
        /\ UNCHANGED <<requestVars, asked, text, desktopVars, shared, applied>>
     \/ /\ mayReceive /\ p.kind = "eager" /\ p.text \notin Refused
        /\ BeginRemote
        /\ \E ok \in BOOLEAN : Apply(p.text, p.claim, ok)
        /\ UNCHANGED <<nextRequest, asked>>
     \/ /\ mayReceive
        /\ p.kind = "lazy" \/ (p.kind = "eager" /\ p.text \in Refused)
        /\ BeginAndRequest(p.claim)
        /\ UNCHANGED <<text, desktopVars, shared, applied>>
     \/ /\ mayReceive /\ p.kind = "noTarget"
        /\ BeginRemote
        /\ UNCHANGED <<nextRequest, asked, text, desktopVars, shared, applied>>
  /\ UNCHANGED modeVars

\* handleClipboardContents does not ask whether the clipboard is still ready.
HandleContents ==
  LET p == Head(inbox) IN
  /\ Receive("contents")
  /\ requests' = Without(requests, p.id)
  /\ IF p.id \in DOMAIN requests /\ requests[p.id] = generation /\ p.text \notin Refused
     THEN \E ok \in BOOLEAN : Apply(p.text, p.claim, ok)
     ELSE UNCHANGED <<text, desktopVars, shared, applied>>
  /\ UNCHANGED <<modeVars, generation, nextRequest, asked>>

HandleContentsNone ==
  /\ Receive("contents-none")
  /\ requests' = Without(requests, Head(inbox).id)
  /\ UNCHANGED <<modeVars, text, generation, nextRequest, desktopVars, asked,
                 shared, applied>>

\* The token of handleClipboardChange.
OffersChange(e) == e.text \notin Refused /\ text # e.text /\ ready /\ canSend

\* handleClipboardChange.
HandleChange ==
  /\ events # <<>>
  /\ events' = Tail(events)
  /\ LET e == Head(events) IN
       /\ text' = IF e.text \in Refused THEN text ELSE e.text
       /\ shared' = IF OffersChange(e) THEN e.text ELSE shared
  /\ UNCHANGED <<modeVars, requestVars, desktop, copies, serverVars, applied>>

\* What handleClipboardRequest answers, NoText standing for contents-none.
Answer == IF ready /\ canSend THEN text ELSE NoText

-----------------------------------------------------------------------------
Directions == {"both", "to-server", "to-client", "disabled"}

Server ==
  \/ \E t \in Texts, kind \in {"eager", "lazy", "noTarget"} : ServerClaims(t, kind)
  \/ \E id \in DOMAIN asked, t \in Texts : \E n \in asked[id]..claims : ServerAnswers(id, n, t)
  \/ \E id \in DOMAIN asked : ServerHasNone(id)
  \/ \E d \in Directions : ServerGreets(d)
  \/ \E type \in {"enable-selections", "status"}, on \in BOOLEAN : ServerSwitches(type, on)

Next ==
  \/ Server
  \/ \E t \in Texts : UserCopies(t)
  \/ HandleHello
  \/ HandleEnableSelections
  \/ HandleStatus
  \/ HandleClaim
  \/ HandleContents
  \/ HandleContentsNone
  \/ HandleChange

Spec == Init /\ [][Next]_vars

-----------------------------------------------------------------------------
Claim == [type : {"claim"}, claim : Nat, text : Texts, kind : {"eager", "lazy", "noTarget"}]
Contents == [type : {"contents"}, id : Nat, claim : Nat, text : Texts]
None == [type : {"contents-none"}, id : Nat]
Hello == [type : {"hello"}, direction : Directions]
Switch == [type : {"enable-selections", "status"}, on : BOOLEAN]

Packet == Claim \cup Contents \cup None \cup Hello \cup Switch

Changes == [text : Texts, echo : BOOLEAN]

ModesOK ==
  /\ ready \in BOOLEAN /\ canSend \in BOOLEAN /\ canReceive \in BOOLEAN
  /\ text \in (Texts \ Refused) \cup {NoText}

RequestsOK ==
  /\ generation \in Nat /\ nextRequest \in Nat
  /\ DOMAIN requests \subseteq 1..nextRequest
  /\ \A id \in DOMAIN requests : requests[id] \in 1..generation

ServerOK ==
  /\ inbox \in Seq(Packet)
  /\ DOMAIN asked \subseteq 1..nextRequest
  /\ \A id \in DOMAIN asked : asked[id] \in Nat
  /\ sent \in Nat /\ claims \in Nat

DesktopOK ==
  /\ desktop \in Texts \cup {NoText}
  /\ events \in Seq(Changes)
  /\ copies \in Nat /\ applied \in Nat
  /\ shared \in Texts \cup {NoText}

TypeOK == ModesOK /\ RequestsOK /\ ServerOK /\ DesktopOK

\* However claims, renegotiations and late answers interleave, at most one
\* request is open, it belongs to the latest claim, and only a server that was
\* allowed to send us its clipboard can have one to answer.
OneOpenRequest ==
  /\ \A id, other \in DOMAIN requests : id = other
  /\ \A id \in DOMAIN requests : requests[id] = generation /\ canReceive

\* A server that asks gets the text it was last told of: nothing else has been
\* put in its place unannounced, and what was copied while the clipboard was
\* not ready is offered when it becomes so.
NothingWithheld == Answer # NoText => Answer = shared

\* A stale answer never undoes a newer claim: remote texts are applied in the
\* order the server claimed its clipboard (TestStaleClipboardReplyIsIgnored).
\* And the direction agreed with the server is respected: nothing it says changes
\* the desktop's clipboard unless we may receive.
RemoteTextsAreDue ==
  /\ applied' >= applied
  /\ copies' = copies /\ desktop' # desktop => canReceive

\* client/clipboard_test.go:54: "An echo caused by the native SetText
\* notification is suppressed."
EchoesAreSuppressed ==
  [][HandleChange /\ Head(events).echo => ~OffersChange(Head(events))]_vars
=============================================================================
