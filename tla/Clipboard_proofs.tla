-------------------------- MODULE Clipboard_proofs --------------------------
(***************************************************************************)
(* Proofs about Clipboard, for any texts, any number of packets and copies:*)
(* types, the one open request, what the server was told, and that remote  *)
(* texts are applied in the order of the claims.                           *)
(***************************************************************************)
EXTENDS Clipboard, TLAPS

-----------------------------------------------------------------------------
(* Queues. *)

\* Appending keeps what is there and puts the new item last.
LEMMA AppendItems ==
  ASSUME NEW S, NEW s \in Seq(S), NEW e \in S
  PROVE  /\ Append(s, e) \in Seq(S)
         /\ DOMAIN Append(s, e) = 1..(Len(s) + 1) /\ DOMAIN s = 1..Len(s) /\ Len(s) \in Nat
         /\ \A i \in DOMAIN s : Append(s, e)[i] = s[i]
         /\ Append(s, e)[Len(s) + 1] = e
<1>1. /\ Append(s, e) \in Seq(S) /\ Len(Append(s, e)) = Len(s) + 1 /\ Len(s) \in Nat
      /\ \A i \in 1..Len(s) : Append(s, e)[i] = s[i]
      /\ Append(s, e)[Len(s) + 1] = e
  OBVIOUS
<1>2. DOMAIN s = 1..Len(s) /\ DOMAIN Append(s, e) = 1..(Len(s) + 1)
  BY <1>1
<1> QED
  BY <1>1, <1>2

\* Taking the first item moves the others up by one.
LEMMA TailItems ==
  ASSUME NEW S, NEW s \in Seq(S), s # <<>>
  PROVE  /\ Head(s) \in S /\ Head(s) = s[1] /\ 1 \in DOMAIN s
         /\ Tail(s) \in Seq(S) /\ DOMAIN s \subseteq Nat
         /\ \A i \in DOMAIN Tail(s) : i \in Nat /\ i + 1 \in DOMAIN s /\ Tail(s)[i] = s[i + 1]
<1>1. /\ Head(s) \in S /\ Head(s) = s[1] /\ Len(s) \in Nat /\ Len(s) >= 1
      /\ Tail(s) \in Seq(S) /\ Len(Tail(s)) = Len(s) - 1
      /\ \A i \in 1..(Len(s) - 1) : Tail(s)[i] = s[i + 1]
  OBVIOUS
<1>2. DOMAIN s = 1..Len(s) /\ DOMAIN Tail(s) = 1..(Len(s) - 1)
  BY <1>1
<1>3. \A i \in 1..(Len(s) - 1) : i \in Nat /\ i + 1 \in 1..Len(s)
  BY <1>1
<1> QED
  BY <1>1, <1>2, <1>3

\* A packet's type tells its fields.
LEMMA PacketFields ==
  ASSUME NEW p \in Packet
  PROVE  /\ p.type = "claim" => p.claim \in Nat /\ p.text \in Texts
         /\ p.type = "contents" => p.id \in Nat /\ p.claim \in Nat /\ p.text \in Texts
         /\ p.type = "hello" => p.direction \in Directions
         /\ p.type \in {"enable-selections", "status"} => p.on \in BOOLEAN
  BY DEF Packet, Claim, Contents, None, Hello, Switch

-----------------------------------------------------------------------------
(* Types. *)

\* What the server sends is a packet, and only an answer settles a request.
LEMMA ServerPackets ==
  ASSUME RequestsOK, ServerOK, Server
  PROVE  \E packet \in Packet : ServerSends(packet) /\ claims' \in Nat
           /\ (asked' = asked \/ \E id \in DOMAIN asked : asked' = Without(asked, id))
<1>1. ASSUME NEW t \in Texts, NEW kind \in {"eager", "lazy", "noTarget"}, ServerClaims(t, kind)
      PROVE  \E packet \in Claim : ServerSends(packet) /\ claims' \in Nat /\ asked' = asked
  BY <1>1 DEF ServerClaims, ServerOK, Claim
<1>2. ASSUME NEW id \in DOMAIN asked, NEW t \in Texts, NEW n \in asked[id]..claims,
             ServerAnswers(id, n, t)
      PROVE  \E packet \in Contents : /\ ServerSends(packet) /\ claims' \in Nat
                                      /\ asked' = Without(asked, id)
  <2>1. id \in Nat /\ n \in Nat
    BY DEF RequestsOK, ServerOK
  <2> QED
    BY <1>2, <2>1 DEF ServerAnswers, ServerOK, Contents
<1>3. ASSUME NEW id \in DOMAIN asked, ServerHasNone(id)
      PROVE  \E packet \in None : /\ ServerSends(packet) /\ claims' \in Nat
                                  /\ asked' = Without(asked, id)
  <2>1. id \in Nat
    BY DEF RequestsOK, ServerOK
  <2> QED
    BY <1>3, <2>1 DEF ServerHasNone, ServerOK, None
<1>4. ASSUME NEW d \in Directions, ServerGreets(d)
      PROVE  \E packet \in Hello : ServerSends(packet) /\ claims' \in Nat /\ asked' = asked
  BY <1>4 DEF ServerGreets, ServerOK, Hello
<1>5. ASSUME NEW type \in {"enable-selections", "status"}, NEW on \in BOOLEAN,
             ServerSwitches(type, on)
      PROVE  \E packet \in Switch : ServerSends(packet) /\ claims' \in Nat /\ asked' = asked
  BY <1>5 DEF ServerSwitches, ServerOK, Switch
<1> QED
  BY <1>1, <1>2, <1>3, <1>4, <1>5 DEF Server, Packet

\* What a handler takes is a packet, and packets are left.
LEMMA Received ==
  ASSUME ServerOK, NEW type, Receive(type)
  PROVE  /\ Head(inbox) \in Packet /\ Head(inbox).type = type
         /\ inbox' \in Seq(Packet) /\ UNCHANGED <<sent, claims>>
  BY TailItems DEF ServerOK, Receive

\* A text that may be applied leaves the desktop's variables what they are.
LEMMA ApplyTyped ==
  ASSUME ModesOK, DesktopOK, NEW t \in Texts \ Refused, NEW n \in Nat, NEW ok,
         Apply(t, n, ok)
  PROVE  text' \in (Texts \ Refused) \cup {NoText} /\ DesktopOK'
<1>1. CASE text = t
  BY <1>1 DEF Apply, DesktopOK, ModesOK, desktopVars
<1>2. CASE text # t /\ ok
  <2>1. Change(t, TRUE) \in Changes /\ events \in Seq(Changes)
    BY DEF Change, Changes, DesktopOK
  <2>2. events' \in {events, Append(events, Change(t, TRUE))}
    BY <1>2 DEF Apply
  <2>3. Append(events, Change(t, TRUE)) \in Seq(Changes)
    BY <2>1, AppendItems
  <2> QED
    BY <1>2, <2>1, <2>2, <2>3 DEF Apply, DesktopOK
<1>3. CASE text # t /\ ~ok
  BY <1>3 DEF Apply, DesktopOK, ModesOK, desktopVars
<1> QED
  BY <1>1, <1>2, <1>3

\* The server's packets, requests, texts and switches have their types
\* throughout (client/clipboard.go).
THEOREM TypeCorrect ==
  ASSUME ClipboardAssumption
  PROVE  Spec => []TypeOK
<1>1. Init => TypeOK
  <2>1. Init => ModesOK
    BY DEF Init, ModesOK
  <2>4. Init => RequestsOK
    BY DEF Init, RequestsOK, Empty
  <2>2. Init => ServerOK
    BY DEF Init, ServerOK, Empty
  <2>3. Init => DesktopOK
    BY DEF Init, DesktopOK
  <2> QED
    BY <2>1, <2>2, <2>3, <2>4 DEF TypeOK
<1>2. TypeOK /\ [Next]_vars => TypeOK'
  <2> SUFFICES ASSUME TypeOK, [Next]_vars PROVE TypeOK'
    OBVIOUS
  <2>0. ModesOK /\ RequestsOK /\ ServerOK /\ DesktopOK
    BY DEF TypeOK
  <2> USE <2>0 DEF modeVars, requestVars, desktopVars, serverVars
  <2>1. CASE Server
    <3>1. PICK packet \in Packet : ServerSends(packet) /\ claims' \in Nat
                /\ (asked' = asked \/ \E id \in DOMAIN asked : asked' = Without(asked, id))
      BY <2>1, ServerPackets
    <3>2. inbox' \in Seq(Packet) /\ sent' \in Nat
      BY <3>1, AppendItems DEF ServerSends, ServerOK
    <3>3. ServerOK'
      BY <3>1, <3>2 DEF ServerOK, ServerSends, Without, Restrict
    <3> QED
      BY <3>1, <3>3 DEF ServerSends, TypeOK, ModesOK, RequestsOK, DesktopOK
  <2>2. ASSUME NEW t \in Texts, UserCopies(t) PROVE TypeOK'
    <3>1. Change(t, FALSE) \in Changes /\ events \in Seq(Changes)
      BY DEF Change, Changes, DesktopOK
    <3>2. /\ events' = Append(events, Change(t, FALSE))
          /\ desktop' = t /\ copies' = copies + 1 /\ UNCHANGED <<shared, applied>>
      BY <2>2 DEF UserCopies
    <3>3. events' \in Seq(Changes)
      BY <3>1, <3>2, AppendItems
    <3>6. desktop' \in Texts \cup {NoText} /\ shared' \in Texts \cup {NoText}
      BY <3>2 DEF DesktopOK
    <3>7. copies' \in Nat /\ applied' \in Nat
      BY <3>2 DEF DesktopOK
    <3>5. DesktopOK'
      BY <3>6, <3>3, <3>7 DEF DesktopOK
    <3>4. ModesOK' /\ RequestsOK' /\ ServerOK'
      BY <2>2 DEF UserCopies, ModesOK, RequestsOK, ServerOK
    <3> QED
      BY <3>4, <3>5 DEF TypeOK
  <2>3. CASE HandleHello
    <3>1. ModesOK' /\ shared' \in Texts \cup {NoText}
      BY <2>3 DEF HandleHello, Offer, ModesOK, DesktopOK
    <3>2. RequestsOK' /\ DesktopOK'
      BY <2>3, <3>1 DEF HandleHello, RequestsOK, Empty, DesktopOK
    <3>3. ServerOK'
      BY <2>3, Received DEF HandleHello, ServerOK
    <3> QED
      BY <3>1, <3>2, <3>3 DEF TypeOK
  <2>4. CASE HandleEnableSelections
    <3>1. Head(inbox).on \in BOOLEAN /\ ServerOK' /\ RequestsOK'
      BY <2>4, Received, PacketFields DEF HandleEnableSelections, ServerOK, RequestsOK
    <3>2. ModesOK' /\ DesktopOK'
      BY <2>4, <3>1 DEF HandleEnableSelections, Offer, ModesOK, DesktopOK
    <3> QED
      BY <3>1, <3>2 DEF TypeOK
  <2>5. CASE HandleStatus
    <3>1. Head(inbox).on \in BOOLEAN /\ ServerOK'
      BY <2>5, Received, PacketFields DEF HandleStatus, ServerOK
    <3>2. ModesOK' /\ DesktopOK'
      BY <2>5, <3>1 DEF HandleStatus, Offer, ModesOK, DesktopOK
    <3>3. RequestsOK'
      BY <2>5 DEF HandleStatus, RequestsOK, Empty
    <3> QED
      BY <3>1, <3>2, <3>3 DEF TypeOK
  <2>6. CASE HandleClaim
    <3> DEFINE p == Head(inbox)
    <3>1. /\ p \in Packet /\ p.claim \in Nat /\ p.text \in Texts
          /\ inbox' \in Seq(Packet) /\ UNCHANGED <<sent, claims, modeVars>>
      BY <2>6, Received, PacketFields DEF HandleClaim
    <3>2. CASE UNCHANGED <<requestVars, asked, text, desktopVars, shared, applied>>
      BY <3>1, <3>2 DEF TypeOK, ModesOK, RequestsOK, ServerOK, DesktopOK
    <3>3. ASSUME BeginRemote, UNCHANGED <<nextRequest, asked>>,
                 text' \in (Texts \ Refused) \cup {NoText}, DesktopOK'
          PROVE  TypeOK'
      BY <3>1, <3>3 DEF BeginRemote, Empty, TypeOK, ModesOK, RequestsOK, ServerOK
    <3>4. ASSUME NEW ok \in BOOLEAN, p.text \notin Refused, BeginRemote,
                 Apply(p.text, p.claim, ok), UNCHANGED <<nextRequest, asked>>
          PROVE  TypeOK'
      BY <3>1, <3>3, <3>4, ApplyTyped
    <3>5. CASE BeginRemote /\ UNCHANGED <<nextRequest, asked, text, desktopVars, shared, applied>>
      BY <3>3, <3>5 DEF ModesOK, DesktopOK
    <3>6. CASE BeginAndRequest(p.claim) /\ UNCHANGED <<text, desktopVars, shared, applied>>
      <4>1. /\ nextRequest' = nextRequest + 1 /\ generation' = generation + 1
            /\ requests' = [id \in {nextRequest'} |-> generation']
            /\ DOMAIN asked' = DOMAIN asked \cup {nextRequest'}
            /\ \A i \in DOMAIN asked' :
                 asked'[i] = IF i = nextRequest' THEN p.claim ELSE asked[i]
        BY <3>6 DEF BeginAndRequest, Ask
      <4>2. RequestsOK'
        BY <4>1 DEF RequestsOK
      <4>3. ServerOK'
        BY <3>1, <4>1 DEF ServerOK, RequestsOK
      <4> QED
        BY <3>1, <3>6, <4>2, <4>3 DEF TypeOK, ModesOK, DesktopOK
    <3> QED
      BY <2>6, <3>2, <3>4, <3>5, <3>6 DEF HandleClaim
  <2>7. CASE HandleContents
    <3> DEFINE p == Head(inbox)
    <3>1. /\ p.claim \in Nat /\ p.text \in Texts
          /\ inbox' \in Seq(Packet) /\ UNCHANGED <<sent, claims>>
      BY <2>7, Received, PacketFields DEF HandleContents
    <3>2. text' \in (Texts \ Refused) \cup {NoText} /\ DesktopOK'
      <4>1. CASE UNCHANGED <<text, desktopVars, shared, applied>>
        BY <4>1 DEF ModesOK, DesktopOK
      <4>2. ASSUME NEW ok \in BOOLEAN, p.text \notin Refused, Apply(p.text, p.claim, ok)
            PROVE  text' \in (Texts \ Refused) \cup {NoText} /\ DesktopOK'
        BY <3>1, <4>2, ApplyTyped
      <4> QED
        BY <2>7, <4>1, <4>2 DEF HandleContents
    <3>3. RequestsOK'
      BY <2>7 DEF HandleContents, RequestsOK, Without, Restrict
    <3> QED
      BY <2>7, <3>1, <3>2, <3>3 DEF HandleContents, TypeOK, ModesOK, ServerOK
  <2>8. CASE HandleContentsNone
    <3>1. ServerOK' /\ RequestsOK'
      BY <2>8, Received DEF HandleContentsNone, ServerOK, RequestsOK, Without, Restrict
    <3> QED
      BY <2>8, <3>1 DEF HandleContentsNone, TypeOK, ModesOK, DesktopOK
  <2>9. CASE HandleChange
    <3>1. Head(events) \in Changes /\ events' \in Seq(Changes)
      BY <2>9, TailItems DEF HandleChange, DesktopOK
    <3>2. Head(events).text \in Texts
      BY <3>1 DEF Changes
    <3>3. ModesOK' /\ DesktopOK'
      BY <2>9, <3>1, <3>2 DEF HandleChange, OffersChange, ModesOK, DesktopOK
    <3>4. RequestsOK' /\ ServerOK'
      BY <2>9 DEF HandleChange, RequestsOK, ServerOK
    <3> QED
      BY <3>3, <3>4 DEF TypeOK
  <2>10. CASE UNCHANGED vars
    BY <2>10 DEF vars, TypeOK, ModesOK, RequestsOK, ServerOK, DesktopOK
  <2> QED
    BY <2>1, <2>2, <2>3, <2>4, <2>5, <2>6, <2>7, <2>8, <2>9, <2>10 DEF Next
<1> QED
  BY <1>1, <1>2, PTL DEF Spec

-----------------------------------------------------------------------------
(* Requests and offers. *)

\* Only one request to the server's clipboard is open, for its latest claim,
\* and only if we may receive (client/clipboard.go: beginRemoteClipboard clears
\* the others, configureClipboard all of them).
THEOREM OneRequestAtATime ==
  ASSUME ClipboardAssumption
  PROVE  Spec => []OneOpenRequest
<1>1. Init => OneOpenRequest
  BY DEF Init, OneOpenRequest, Empty
<1>2. OneOpenRequest /\ [Next]_vars => OneOpenRequest'
  <2> SUFFICES ASSUME OneOpenRequest, [Next]_vars PROVE OneOpenRequest'
    OBVIOUS
  <2> USE DEF modeVars, requestVars, desktopVars, serverVars
  <2>1. CASE UNCHANGED <<requests, generation, canReceive>>
    BY <2>1 DEF OneOpenRequest
  <2>2. CASE requests' = Empty
    BY <2>2 DEF OneOpenRequest, Empty
  <2>3. ASSUME NEW id, requests' = Without(requests, id), UNCHANGED <<generation, canReceive>>
        PROVE  OneOpenRequest'
    BY <2>3 DEF OneOpenRequest, Without, Restrict
  <2>4. CASE HandleClaim
    <3>1. ASSUME NEW claim, BeginAndRequest(claim), mayReceive, UNCHANGED modeVars
          PROVE  OneOpenRequest'
      BY <3>1 DEF OneOpenRequest, BeginAndRequest, mayReceive
    <3> QED
      BY <2>1, <2>2, <2>4, <3>1 DEF HandleClaim, BeginRemote
  <2>5. CASE HandleContents \/ HandleContentsNone
    BY <2>3, <2>5 DEF HandleContents, HandleContentsNone
  <2>6. CASE HandleHello \/ HandleEnableSelections \/ HandleStatus
    BY <2>1, <2>2, <2>6 DEF HandleHello, HandleEnableSelections, HandleStatus
  <2>7. CASE Server \/ (\E t \in Texts : UserCopies(t)) \/ HandleChange \/ UNCHANGED vars
    BY <2>1, <2>7 DEF Server, ServerClaims, ServerAnswers, ServerHasNone, ServerGreets, ServerSwitches, ServerSends,
                      UserCopies, HandleChange, vars
  <2> QED
    BY <2>4, <2>5, <2>6, <2>7 DEF Next
<1> QED
  BY <1>1, <1>2, PTL DEF Spec

\* What a server that asks is told is what it was last offered, or last sent
\* itself (client/clipboard.go: every way for a text to become known, and for the
\* clipboard to become ready, offers it).
THEOREM WhatIsKnownIsOffered ==
  ASSUME ClipboardAssumption
  PROVE  Spec => []NothingWithheld
<1>1. Init => NothingWithheld
  BY DEF Init, NothingWithheld, Answer
<1>2. ModesOK /\ NothingWithheld /\ [Next]_vars => NothingWithheld'
  <2> SUFFICES ASSUME ModesOK, NothingWithheld, [Next]_vars PROVE NothingWithheld'
    OBVIOUS
  <2> USE DEF modeVars, requestVars, desktopVars, serverVars
  <2>1. CASE UNCHANGED <<ready, canSend, text, shared>>
    BY <2>1 DEF NothingWithheld, Answer
  <2>2. ASSUME NEW t, NEW n, NEW ok, Apply(t, n, ok), UNCHANGED modeVars
        PROVE  NothingWithheld'
    BY <2>2 DEF NothingWithheld, Answer, Apply
  <2>3. CASE HandleHello
    BY <2>3 DEF HandleHello, Offer, NothingWithheld, Answer
  <2>4. CASE HandleEnableSelections
    BY <2>4 DEF HandleEnableSelections, Offer, NothingWithheld, Answer
  <2>5. CASE HandleStatus
    BY <2>5 DEF HandleStatus, Offer, NothingWithheld, Answer
  <2>6. CASE HandleClaim
    BY <2>1, <2>2, <2>6 DEF HandleClaim
  <2>7. CASE HandleContents
    BY <2>1, <2>2, <2>7 DEF HandleContents
  <2>8. CASE HandleChange
    BY <2>8 DEF HandleChange, OffersChange, NothingWithheld, Answer
  <2>9. CASE \/ Server \/ (\E t \in Texts : UserCopies(t)) \/ HandleContentsNone
             \/ UNCHANGED vars
    BY <2>1, <2>9 DEF Server, ServerClaims, ServerAnswers, ServerHasNone, ServerGreets, ServerSwitches, ServerSends,
                      UserCopies, HandleContentsNone, vars
  <2> QED
    BY <2>3, <2>4, <2>5, <2>6, <2>7, <2>8, <2>9 DEF Next
<1> QED
  BY <1>1, <1>2, TypeCorrect, PTL DEF Spec, TypeOK

-----------------------------------------------------------------------------
(* The order of remote texts. *)

Dated(p) == p.type \in {"claim", "contents"}

\* What is under way is no older than what was applied: a claim is newer than
\* all that was sent before it.
ClaimsInOrder ==
  /\ \A i \in DOMAIN inbox : Dated(inbox[i]) => inbox[i].claim <= claims
  /\ \A i \in DOMAIN inbox : inbox[i].type = "claim" => applied < inbox[i].claim
  /\ \A i, j \in DOMAIN inbox :
       i < j /\ Dated(inbox[i]) /\ inbox[j].type = "claim" => inbox[i].claim < inbox[j].claim
  /\ applied <= claims

\* An answer under way to an open request is due as well: the claim the request
\* was made for is newer than the text applied.
AnswersAreDue ==
  /\ \A id \in DOMAIN requests \cap DOMAIN asked : applied <= asked[id]
  /\ \A i \in DOMAIN inbox :
       inbox[i].type = "contents" =>
         /\ inbox[i].id <= nextRequest
         /\ inbox[i].id \in DOMAIN requests => applied <= inbox[i].claim

DueInv == ClaimsInOrder /\ AnswersAreDue

\* The numbers of a packet are numbers.
LEMMA InboxNumbers ==
  ASSUME ServerOK
  PROVE  \A i \in DOMAIN inbox :
           /\ Dated(inbox[i]) => inbox[i].claim \in Nat
           /\ inbox[i].type = "contents" => inbox[i].id \in Nat
<1> SUFFICES ASSUME NEW i \in DOMAIN inbox
             PROVE  /\ Dated(inbox[i]) => inbox[i].claim \in Nat
                    /\ inbox[i].type = "contents" => inbox[i].id \in Nat
  OBVIOUS
<1>1. inbox[i] \in Packet
  BY DEF ServerOK
<1> QED
  BY <1>1, PacketFields DEF Dated

\* A packet that is newer than what was sent before it, and not older than the
\* request it answers, keeps the order.
LEMMA SentInOrder ==
  ASSUME RequestsOK, ServerOK, DesktopOK, DueInv,
         NEW packet \in Packet, ServerSends(packet), claims' \in Nat, claims <= claims',
         DOMAIN asked' \subseteq DOMAIN asked, \A id \in DOMAIN asked' : asked'[id] = asked[id],
         Dated(packet) => packet.claim <= claims',
         packet.type = "claim" => claims < packet.claim,
         packet.type = "contents" => packet.id \in DOMAIN asked /\ asked[packet.id] <= packet.claim
  PROVE  DueInv'
<1> DEFINE last == Len(inbox) + 1
<1>1. /\ DOMAIN inbox' = DOMAIN inbox \cup {last} /\ inbox'[last] = packet
      /\ last \in Nat /\ \A i \in DOMAIN inbox : i \in Nat /\ i < last /\ inbox'[i] = inbox[i]
  <2>1. inbox' = Append(inbox, packet) /\ inbox \in Seq(Packet)
    BY DEF ServerSends, ServerOK
  <2>2. /\ DOMAIN inbox' = 1..(Len(inbox) + 1) /\ DOMAIN inbox = 1..Len(inbox) /\ Len(inbox) \in Nat
        /\ \A i \in DOMAIN inbox : inbox'[i] = inbox[i]
        /\ inbox'[Len(inbox) + 1] = packet
    BY <2>1, AppendItems
  <2> QED
    BY <2>2
<1>2. /\ Dated(packet) => packet.claim \in Nat
      /\ packet.type = "contents" => packet.id \in Nat
  BY PacketFields DEF Dated
<1>3. UNCHANGED <<requests, nextRequest, applied>> /\ applied \in Nat /\ claims \in Nat
  BY DEF ServerSends, requestVars, ServerOK, DesktopOK
<1>4. applied' <= claims'
  BY <1>3 DEF DueInv, ClaimsInOrder
<1>5. \A i \in DOMAIN inbox' : Dated(inbox'[i]) => inbox'[i].claim <= claims'
  BY <1>1, <1>2, <1>3, InboxNumbers DEF DueInv, ClaimsInOrder
<1>6. \A i \in DOMAIN inbox' : inbox'[i].type = "claim" => applied' < inbox'[i].claim
  BY <1>1, <1>2, <1>3, InboxNumbers DEF DueInv, ClaimsInOrder, Dated
<1>7. ASSUME NEW i \in DOMAIN inbox', NEW j \in DOMAIN inbox', i < j, Dated(inbox'[i]),
             inbox'[j].type = "claim"
      PROVE  inbox'[i].claim < inbox'[j].claim
  <2>1. i \in DOMAIN inbox /\ inbox'[i] = inbox[i]
    BY <1>1, <1>7
  <2>2. CASE j \in DOMAIN inbox
    BY <1>1, <1>7, <2>1, <2>2 DEF DueInv, ClaimsInOrder
  <2>3. CASE j = last
    <3>1. inbox[i].claim \in Nat /\ inbox[i].claim <= claims
      BY <1>7, <2>1, InboxNumbers DEF DueInv, ClaimsInOrder
    <3> QED
      BY <1>1, <1>2, <1>3, <1>7, <2>1, <2>3, <3>1 DEF Dated
  <2> QED
    BY <1>1, <2>2, <2>3
<1>8. ClaimsInOrder'
  BY <1>4, <1>5, <1>6, <1>7 DEF ClaimsInOrder, Dated
<1>9. \A id \in DOMAIN requests' \cap DOMAIN asked' : applied' <= asked'[id]
  BY <1>3 DEF DueInv, AnswersAreDue
<1>10. ASSUME NEW i \in DOMAIN inbox', inbox'[i].type = "contents"
       PROVE  /\ inbox'[i].id <= nextRequest'
              /\ inbox'[i].id \in DOMAIN requests' => applied' <= inbox'[i].claim
  <2>1. CASE i \in DOMAIN inbox
    BY <1>1, <1>3, <1>10, <2>1 DEF DueInv, AnswersAreDue
  <2>2. CASE i = last
    <3>1. packet.type = "contents" /\ inbox'[i] = packet
      BY <1>1, <1>10, <2>2
    <3>2. packet.id \in DOMAIN asked /\ asked[packet.id] <= packet.claim /\ packet.claim \in Nat
      BY <1>2, <3>1 DEF Dated
    <3>3. packet.id <= nextRequest /\ asked[packet.id] \in Nat
      BY <3>2 DEF ServerOK, RequestsOK
    <3>4. packet.id \in DOMAIN requests => applied <= asked[packet.id]
      BY <3>2 DEF DueInv, AnswersAreDue
    <3> QED
      BY <1>3, <3>1, <3>2, <3>3, <3>4
  <2> QED
    BY <1>1, <2>1, <2>2
<1> QED
  BY <1>8, <1>9, <1>10 DEF DueInv, AnswersAreDue

\* The server keeps the order: it numbers its claims, and answers with what it
\* has after it was asked.
LEMMA ServerInOrder ==
  ASSUME RequestsOK, ServerOK, DesktopOK, DueInv, Server
  PROVE  DueInv'
<1>1. ASSUME NEW t \in Texts, NEW kind \in {"eager", "lazy", "noTarget"}, ServerClaims(t, kind)
      PROVE  DueInv'
  <2> DEFINE packet == [type |-> "claim", claim |-> claims + 1, text |-> t, kind |-> kind]
  <2>1. packet \in Packet
    BY DEF ServerOK, Packet, Claim
  <2>2. /\ ServerSends(packet) /\ claims' = claims + 1 /\ asked' = asked /\ claims \in Nat
        /\ packet.type = "claim" /\ packet.claim = claims + 1
    BY <1>1 DEF ServerClaims, ServerOK
  <2> HIDE DEF packet
  <2>3. claims' \in Nat /\ claims <= claims' /\ packet.claim <= claims' /\ claims < packet.claim
    BY <2>2
  <2> QED
    BY <2>1, <2>2, <2>3, SentInOrder
<1>2. ASSUME NEW id \in DOMAIN asked, NEW t \in Texts, NEW n \in asked[id]..claims,
             ServerAnswers(id, n, t)
      PROVE  DueInv'
  <2> DEFINE packet == [type |-> "contents", id |-> id, claim |-> n, text |-> t]
  <2>1. id \in Nat /\ n \in Nat /\ asked[id] <= n /\ n <= claims /\ claims \in Nat
    BY DEF RequestsOK, ServerOK
  <2>2. packet \in Packet
    BY <2>1 DEF Packet, Contents
  <2>3. /\ ServerSends(packet) /\ claims' = claims /\ asked' = Without(asked, id)
        /\ packet.type = "contents" /\ packet.claim = n /\ packet.id = id
    BY <1>2 DEF ServerAnswers
  <2> HIDE DEF packet
  <2>4. DOMAIN asked' \subseteq DOMAIN asked /\ \A i \in DOMAIN asked' : asked'[i] = asked[i]
    BY <2>3 DEF Without, Restrict
  <2>5. claims' \in Nat /\ claims <= claims' /\ packet.claim <= claims'
    BY <2>1, <2>3
  <2> QED
    BY <2>1, <2>2, <2>3, <2>4, <2>5, SentInOrder
<1>3. ASSUME NEW packet \in Packet, ServerSends(packet), ~Dated(packet), claims' = claims,
             asked' = asked \/ \E id \in DOMAIN asked : asked' = Without(asked, id)
      PROVE  DueInv'
  <2>1. DOMAIN asked' \subseteq DOMAIN asked /\ \A i \in DOMAIN asked' : asked'[i] = asked[i]
    BY <1>3 DEF Without, Restrict
  <2>2. claims' \in Nat /\ claims <= claims'
    BY <1>3 DEF ServerOK
  <2> QED
    BY <1>3, <2>1, <2>2, SentInOrder DEF Dated
<1>4. ASSUME NEW id \in DOMAIN asked, ServerHasNone(id)
      PROVE  DueInv'
  <2> DEFINE packet == [type |-> "contents-none", id |-> id]
  <2>1. id \in Nat
    BY DEF RequestsOK, ServerOK
  <2>2. packet \in Packet /\ ~Dated(packet)
    BY <2>1 DEF Packet, None, Dated
  <2>3. ServerSends(packet) /\ claims' = claims /\ asked' = Without(asked, id)
    BY <1>4 DEF ServerHasNone
  <2> QED
    BY <2>2, <2>3, <1>3
<1>5. ASSUME NEW d \in Directions, ServerGreets(d)
      PROVE  DueInv'
  <2> DEFINE packet == [type |-> "hello", direction |-> d]
  <2>1. packet \in Packet /\ ~Dated(packet)
    BY DEF Packet, Hello, Dated
  <2> QED
    BY <1>3, <1>5, <2>1 DEF ServerGreets
<1>6. ASSUME NEW type \in {"enable-selections", "status"}, NEW on \in BOOLEAN,
             ServerSwitches(type, on)
      PROVE  DueInv'
  <2> DEFINE packet == [type |-> type, on |-> on]
  <2>1. packet \in Packet /\ ~Dated(packet)
    BY DEF Packet, Switch, Dated
  <2> QED
    BY <1>3, <1>6, <2>1 DEF ServerSwitches
<1> QED
  BY <1>1, <1>2, <1>4, <1>5, <1>6 DEF Server

\* Taking the first packet keeps the order, and its own text may be applied if
\* it is not older than the last one.
LEMMA TakenInOrder ==
  ASSUME ServerOK, DesktopOK, ClaimsInOrder, inbox # <<>>, inbox' = Tail(inbox), claims' = claims,
         applied' = applied \/ (Dated(Head(inbox)) /\ applied' = Head(inbox).claim)
  PROVE  ClaimsInOrder'
<1>1. /\ Head(inbox) = inbox[1] /\ 1 \in DOMAIN inbox
      /\ \A i \in DOMAIN inbox' : i \in Nat /\ i + 1 \in DOMAIN inbox /\ inbox'[i] = inbox[i + 1]
      /\ DOMAIN inbox \subseteq Nat /\ \A i \in DOMAIN inbox' : 1 < i + 1
  <2>1. inbox \in Seq(Packet)
    BY DEF ServerOK
  <2>2. /\ Head(inbox) = inbox[1] /\ 1 \in DOMAIN inbox /\ DOMAIN inbox \subseteq Nat
        /\ \A i \in DOMAIN Tail(inbox) :
             i \in Nat /\ i + 1 \in DOMAIN inbox /\ Tail(inbox)[i] = inbox[i + 1]
    BY <2>1, TailItems
  <2>3. \A i \in DOMAIN inbox' : 1 <= i
    <3>1. DOMAIN Tail(inbox) = 1..Len(Tail(inbox))
      BY <2>1, TailItems
    <3> QED
      BY <3>1
  <2> QED
    BY <2>2, <2>3
<1>2. applied' <= claims'
  BY <1>1 DEF ClaimsInOrder
<1>3. \A i \in DOMAIN inbox' : Dated(inbox'[i]) => inbox'[i].claim <= claims'
  BY <1>1 DEF ClaimsInOrder
<1>4. \A i \in DOMAIN inbox' : inbox'[i].type = "claim" => applied' < inbox'[i].claim
  BY <1>1 DEF ClaimsInOrder
<1>5. ASSUME NEW i \in DOMAIN inbox', NEW j \in DOMAIN inbox', i < j, Dated(inbox'[i]),
             inbox'[j].type = "claim"
      PROVE  inbox'[i].claim < inbox'[j].claim
  BY <1>1, <1>5 DEF ClaimsInOrder
<1> QED
  BY <1>2, <1>3, <1>4, <1>5 DEF ClaimsInOrder, Dated

\* While nothing is applied, giving up requests keeps the others' answers due;
\* without requests, none is.
LEMMA AnswersStayDue ==
  ASSUME ServerOK, AnswersAreDue, inbox # <<>>, inbox' = Tail(inbox), asked' = asked,
         nextRequest' = nextRequest,
         \A id \in DOMAIN requests' : id \in DOMAIN requests /\ applied' = applied
  PROVE  AnswersAreDue'
<1>1. \A i \in DOMAIN inbox' : i + 1 \in DOMAIN inbox /\ inbox'[i] = inbox[i + 1]
  <2>1. inbox \in Seq(Packet)
    BY DEF ServerOK
  <2> QED
    BY <2>1, TailItems
<1>2. \A id \in DOMAIN requests' \cap DOMAIN asked' : applied' <= asked'[id]
  BY DEF AnswersAreDue
<1>3. ASSUME NEW i \in DOMAIN inbox', inbox'[i].type = "contents"
      PROVE  /\ inbox'[i].id <= nextRequest'
             /\ inbox'[i].id \in DOMAIN requests' => applied' <= inbox'[i].claim
  BY <1>1, <1>3 DEF AnswersAreDue
<1> QED
  BY <1>2, <1>3 DEF AnswersAreDue

\* What a claim does keeps the order.
LEMMA ClaimInOrder ==
  ASSUME RequestsOK, ServerOK, DesktopOK, DueInv, HandleClaim
  PROVE  DueInv' /\ RemoteTextsAreDue
<1> USE DEF modeVars, requestVars, desktopVars
<1> DEFINE p == Head(inbox)
<1>1. /\ p \in Packet /\ p.type = "claim" /\ inbox # <<>> /\ inbox' = Tail(inbox)
      /\ p.claim \in Nat /\ claims' = claims /\ canReceive' = canReceive
  BY Received, PacketFields DEF HandleClaim, Receive
<1>2. applied < p.claim /\ applied \in Nat
  <2>1. p = inbox[1] /\ 1 \in DOMAIN inbox
    BY <1>1, TailItems DEF ServerOK
  <2> QED
    BY <1>1, <2>1 DEF DueInv, ClaimsInOrder, DesktopOK
<1>3. ASSUME applied' = applied \/ applied' = p.claim
      PROVE  ClaimsInOrder' /\ applied' >= applied
  BY <1>1, <1>2, <1>3, TakenInOrder DEF DueInv, Dated
<1>4. CASE UNCHANGED <<requestVars, asked, text, desktopVars, shared, applied>>
  BY <1>1, <1>3, <1>4, AnswersStayDue DEF DueInv, RemoteTextsAreDue
<1>5. ASSUME mayReceive, p.text \notin Refused, BeginRemote, NEW ok \in BOOLEAN,
             Apply(p.text, p.claim, ok), UNCHANGED <<nextRequest, asked>>
      PROVE  DueInv' /\ RemoteTextsAreDue
  <2>1. applied' = applied \/ applied' = p.claim
    BY <1>5 DEF Apply
  <2>2. DOMAIN requests' = {}
    BY <1>5 DEF BeginRemote, Empty
  <2>3. AnswersAreDue'
    BY <1>1, <1>5, <2>2, AnswersStayDue DEF DueInv
  <2> QED
    BY <1>3, <1>5, <2>1, <2>3 DEF DueInv, RemoteTextsAreDue, mayReceive
<1>6. CASE /\ BeginAndRequest(p.claim)
           /\ UNCHANGED <<text, desktopVars, shared, applied>>
  <2>1. /\ nextRequest' = nextRequest + 1 /\ nextRequest \in Nat
        /\ DOMAIN requests' = {nextRequest'} /\ asked'[nextRequest'] = p.claim
        /\ UNCHANGED <<desktop, applied>>
    BY <1>6 DEF BeginAndRequest, Ask, RequestsOK
  <2>2. \A id \in DOMAIN requests' \cap DOMAIN asked' : applied' <= asked'[id]
    BY <1>1, <1>2, <2>1
  <2>3. ASSUME NEW i \in DOMAIN inbox', inbox'[i].type = "contents"
        PROVE  inbox'[i].id <= nextRequest' /\ inbox'[i].id \notin DOMAIN requests'
    <3>1. inbox \in Seq(Packet)
      BY DEF ServerOK
    <3>2. i + 1 \in DOMAIN inbox /\ inbox'[i] = inbox[i + 1]
      BY <1>1, <3>1, TailItems
    <3>3. inbox'[i].id \in Nat /\ inbox'[i].id <= nextRequest
      BY <2>3, <3>2, InboxNumbers DEF DueInv, AnswersAreDue
    <3> QED
      BY <2>1, <3>3
  <2>4. AnswersAreDue'
    BY <2>2, <2>3 DEF AnswersAreDue
  <2> QED
    BY <1>3, <2>1, <2>4 DEF DueInv, RemoteTextsAreDue
<1>7. CASE BeginRemote /\ UNCHANGED <<nextRequest, asked, text, desktopVars, shared, applied>>
  <2>1. DOMAIN requests' = {}
    BY <1>7 DEF BeginRemote, Empty
  <2>2. AnswersAreDue'
    BY <1>1, <1>7, <2>1, AnswersStayDue DEF DueInv
  <2> QED
    BY <1>3, <1>7, <2>2 DEF DueInv, RemoteTextsAreDue
<1> QED
  BY <1>4, <1>5, <1>6, <1>7 DEF HandleClaim

\* So does an answer: only that to the open request is applied.
LEMMA ContentsInOrder ==
  ASSUME RequestsOK, ServerOK, DesktopOK, OneOpenRequest, DueInv, HandleContents
  PROVE  DueInv' /\ RemoteTextsAreDue
<1> USE DEF modeVars, desktopVars
<1> DEFINE p == Head(inbox)
<1>1. /\ p \in Packet /\ p.type = "contents" /\ inbox # <<>> /\ inbox' = Tail(inbox)
      /\ p.claim \in Nat /\ claims' = claims /\ p = inbox[1] /\ 1 \in DOMAIN inbox
  BY Received, PacketFields, TailItems DEF HandleContents, Receive, ServerOK
<1>2. /\ requests' = Without(requests, p.id) /\ UNCHANGED <<asked, nextRequest>>
      /\ DOMAIN requests' = DOMAIN requests \ {p.id}
  BY DEF HandleContents, Without, Restrict
<1>3. CASE UNCHANGED <<text, desktopVars, shared, applied>>
  <2>1. AnswersAreDue'
    BY <1>1, <1>2, <1>3, AnswersStayDue DEF DueInv
  <2>2. ClaimsInOrder'
    BY <1>1, <1>3, TakenInOrder DEF DueInv
  <2> QED
    BY <1>3, <2>1, <2>2 DEF DueInv, RemoteTextsAreDue, DesktopOK
<1>4. ASSUME p.id \in DOMAIN requests, NEW ok \in BOOLEAN, Apply(p.text, p.claim, ok)
      PROVE  DueInv' /\ RemoteTextsAreDue
  <2>1. DOMAIN requests' = {} /\ canReceive
    BY <1>2, <1>4 DEF OneOpenRequest
  <2>2. AnswersAreDue'
    BY <1>1, <1>2, <2>1, AnswersStayDue DEF DueInv
  <2>3. applied' = applied \/ applied' = p.claim
    BY <1>4 DEF Apply
  <2>4. applied <= p.claim /\ applied \in Nat
    BY <1>1, <1>4 DEF DueInv, AnswersAreDue, DesktopOK
  <2>5. ClaimsInOrder'
    BY <1>1, <2>3, TakenInOrder DEF DueInv, Dated
  <2> QED
    BY <1>1, <2>1, <2>2, <2>3, <2>4, <2>5 DEF DueInv, RemoteTextsAreDue
<1> QED
  BY <1>3, <1>4 DEF HandleContents

\* Remote texts are applied in the order in which the server claimed its
\* clipboard, and only if we may receive: a late answer never undoes a newer claim
\* (client/clipboard.go handleClipboardContents).
THEOREM RemoteTextsInOrder ==
  ASSUME ClipboardAssumption
  PROVE  Spec => [][RemoteTextsAreDue]_vars
<1>1. Init => DueInv
  BY DEF Init, DueInv, ClaimsInOrder, AnswersAreDue, Empty
<1>2. TypeOK /\ OneOpenRequest /\ DueInv /\ [Next]_vars => DueInv' /\ [RemoteTextsAreDue]_vars
  <2> SUFFICES ASSUME TypeOK, OneOpenRequest, DueInv, [Next]_vars
               PROVE  DueInv' /\ [RemoteTextsAreDue]_vars
    OBVIOUS
  <2>0. RequestsOK /\ ServerOK /\ DesktopOK
    BY DEF TypeOK
  <2> USE <2>0 DEF modeVars, requestVars, desktopVars, serverVars
  <2>1. ASSUME UNCHANGED <<inbox, claims, applied, requests, asked, nextRequest>>
        PROVE  DueInv'
    BY <2>1 DEF DueInv, ClaimsInOrder, AnswersAreDue, Dated
  <2>2. CASE Server
    <3>1. UNCHANGED <<applied, desktop>>
      BY <2>2 DEF Server, ServerClaims, ServerAnswers, ServerHasNone, ServerGreets, ServerSwitches, ServerSends
    <3> QED
      BY <2>2, <3>1, ServerInOrder DEF RemoteTextsAreDue, DesktopOK
  <2>3. CASE (\E t \in Texts : UserCopies(t)) \/ HandleChange
    <3>1. /\ UNCHANGED <<inbox, claims, applied, requests, asked, nextRequest>>
          /\ copies' = copies + 1 \/ desktop' = desktop
      BY <2>3 DEF UserCopies, HandleChange
    <3> QED
      BY <2>1, <3>1 DEF RemoteTextsAreDue, DesktopOK
  <2>4. CASE HandleHello \/ HandleEnableSelections \/ HandleStatus \/ HandleContentsNone
    <3>1. /\ inbox # <<>> /\ inbox' = Tail(inbox)
          /\ UNCHANGED <<claims, applied, asked, nextRequest, desktop>>
      BY <2>4 DEF HandleHello, HandleEnableSelections, HandleStatus, HandleContentsNone, Receive
    <3>2. DOMAIN requests' \subseteq DOMAIN requests
      BY <2>4 DEF HandleHello, HandleEnableSelections, HandleStatus, HandleContentsNone, Empty,
                  Without, Restrict
    <3>3. ClaimsInOrder' /\ AnswersAreDue'
      BY <3>1, <3>2, TakenInOrder, AnswersStayDue DEF DueInv
    <3> QED
      BY <3>1, <3>3 DEF DueInv, RemoteTextsAreDue, DesktopOK
  <2>5. CASE HandleClaim
    BY <2>5, ClaimInOrder
  <2>6. CASE HandleContents
    BY <2>6, ContentsInOrder
  <2>7. CASE UNCHANGED vars
    BY <2>1, <2>7 DEF vars
  <2> QED
    BY <2>2, <2>3, <2>4, <2>5, <2>6, <2>7 DEF Next
<1> QED
  BY <1>1, <1>2, TypeCorrect, OneRequestAtATime, PTL DEF Spec
=============================================================================
