--------------------------- MODULE MCParts_proofs ---------------------------
(***************************************************************************)
(* What is proved about the parts holds of the specification that TLC      *)
(* explores, in which they take turns at the same variables.  The proofs   *)
(* about the clipboard, the screen updates and the backends are in modules *)
(* of their own; those about the other parts are here, where s1, s2 and so *)
(* on are the variables that MCParts gives them.                           *)
(***************************************************************************)
EXTENDS MCParts, Desktops_proofs, TLAPS

\* The part that was chosen stays.
LEMMA PartStays == [Next]_vars => UNCHANGED part
  BY DEF vars, Next, ClipboardSteps, DrawingSteps, GeometrySteps, WaylandWindowSteps,
         WaylandCursorSteps, X11ClipboardSteps, X11TransfersSteps, WaylandClipboardSteps,
         SequenceClipboardSteps, WindowThreadSteps, SSHStreamSteps, ConnectDialogSteps,
         PasswordPromptSteps, Win32TraySteps, RencodeplusSteps, DialectSteps, LoginSteps,
         PointerSteps, PaintingSteps, PacketsSteps, CommandLineSteps

\* A step is one of the part that was chosen.
LEMMA OnlyItsOwnSteps ==
  /\ part = "clipboard" /\ Next => Clipboard!Next
  /\ part = "drawing" /\ Next => Drawing!Next
  /\ part = "geometry" /\ Next => Geometry!Next
  /\ part = "wayland windows" /\ Next => Wayland!Next
  /\ part = "login" /\ Next => Login!Next
  /\ part = "ssh stream" /\ Next => Stream!Next
  /\ part = "win32 tray" /\ Next => Tray!Next
  /\ part = "wayland cursor" /\ Next => Cursor!Next
  /\ part = "password prompt" /\ Next => Prompt!Next
  /\ part = "x11 transfers" /\ Next => Pastes!Next
  /\ part = "window thread" /\ Next => Thread!Next
  /\ part = "dialect" /\ Next => Dialect!Next
  /\ part = "sequence clipboard" /\ Next => Sequence!Next
  /\ part = "wayland clipboard" /\ Next => Offers!Next
  /\ part = "x11 clipboard" /\ Next => X11!Next
  BY DEF Next, ClipboardSteps, DrawingSteps, GeometrySteps, WaylandWindowSteps,
         WaylandCursorSteps, X11ClipboardSteps, X11TransfersSteps, WaylandClipboardSteps,
         SequenceClipboardSteps, WindowThreadSteps, SSHStreamSteps, ConnectDialogSteps,
         PasswordPromptSteps, Win32TraySteps, RencodeplusSteps, DialectSteps, LoginSteps,
         PointerSteps, PaintingSteps, PacketsSteps, CommandLineSteps

-----------------------------------------------------------------------------
(* The clipboard. *)

\* Chosen at the start, it makes its own steps and no others.
LEMMA ClipboardRunsAlone ==
  /\ Init /\ part = "clipboard" => Clipboard!Init
  /\ part = "clipboard" /\ [Next]_vars =>
       part' = "clipboard" /\ [Clipboard!Next]_(Clipboard!vars)
  /\ part # "clipboard" /\ [Next]_vars => part' # "clipboard"
<1>1. Init /\ part = "clipboard" => Clipboard!Init
  BY DEF Init
<1>2. part = "clipboard" /\ Next => Clipboard!Next
  BY OnlyItsOwnSteps
<1>3. UNCHANGED vars => UNCHANGED Clipboard!vars
  BY DEF vars, Clipboard!vars, Clipboard!modeVars, Clipboard!requestVars,
         Clipboard!desktopVars, Clipboard!serverVars
<1> QED
  BY <1>1, <1>2, <1>3, PartStays

\* At most one clipboard request is open, and it belongs to the latest claim
\* (client/clipboard.go beginRemote).
THEOREM OneRequestAtATime == Spec => []OneOpenRequest
<1> DEFINE Here == part = "clipboard"
<1>1. Init /\ Here => Clipboard!Init
  BY ClipboardRunsAlone
<1>2. Here /\ [Next]_vars => Here' /\ [Clipboard!Next]_(Clipboard!vars)
  BY ClipboardRunsAlone
<1>3. ~Here /\ [Next]_vars => ~Here'
  BY ClipboardRunsAlone
<1>4. Clipboard!Spec => []Clipboard!OneOpenRequest
  BY PartsAssumption, Clipboard!OneRequestAtATime
<1>5. (Here => Clipboard!OneOpenRequest) => OneOpenRequest
  BY DEF OneOpenRequest
<1> HIDE DEF Here
<1> QED
  BY <1>1, <1>2, <1>3, <1>4, <1>5, PTL DEF Spec, Clipboard!Spec

\* A server that asks for the clipboard gets the text it was last told of
\* (client/clipboard.go).
THEOREM WhatIsKnownIsOffered == Spec => []NothingWithheld
<1> DEFINE Here == part = "clipboard"
<1>1. Init /\ Here => Clipboard!Init
  BY ClipboardRunsAlone
<1>2. Here /\ [Next]_vars => Here' /\ [Clipboard!Next]_(Clipboard!vars)
  BY ClipboardRunsAlone
<1>3. ~Here /\ [Next]_vars => ~Here'
  BY ClipboardRunsAlone
<1>4. Clipboard!Spec => []Clipboard!NothingWithheld
  BY PartsAssumption, Clipboard!WhatIsKnownIsOffered
<1>5. (Here => Clipboard!NothingWithheld) => NothingWithheld
  BY DEF NothingWithheld
<1> HIDE DEF Here
<1> QED
  BY <1>1, <1>2, <1>3, <1>4, <1>5, PTL DEF Spec, Clipboard!Spec

-----------------------------------------------------------------------------
(* Screen updates. *)

\* Chosen at the start, they make their own steps and no others.
LEMMA DrawingRunsAlone ==
  /\ Init /\ part = "drawing" => Drawing!Init
  /\ part = "drawing" /\ [Next]_vars =>
       part' = "drawing" /\ [Drawing!Next]_(Drawing!vars)
  /\ part # "drawing" /\ [Next]_vars => part' # "drawing"
<1>1. Init /\ part = "drawing" => Drawing!Init
  BY DEF Init
<1>2. part = "drawing" /\ Next => Drawing!Next
  BY OnlyItsOwnSteps
<1>3. UNCHANGED vars => UNCHANGED Drawing!vars
  BY DEF vars, Drawing!vars, Drawing!serverVars, Drawing!ackVars
<1> QED
  BY <1>1, <1>2, <1>3, PartStays

\* What is painted from shared memory is what the server wrote for that draw
\* (client/client.go handleDraw, client/mmap.go).
THEOREM PaintsAreTrue == Spec => []PaintsWhatWasDrawn
<1> DEFINE Here == part = "drawing"
<1>1. Init /\ Here => Drawing!Init
  BY DrawingRunsAlone
<1>2. Here /\ [Next]_vars => Here' /\ [Drawing!Next]_(Drawing!vars)
  BY DrawingRunsAlone
<1>3. ~Here /\ [Next]_vars => ~Here'
  BY DrawingRunsAlone
<1>4. Drawing!Spec => []Drawing!PaintsWhatWasDrawn
  BY PartsAssumption, Drawing!PaintsAreTrue
<1>5. (Here => Drawing!PaintsWhatWasDrawn) => PaintsWhatWasDrawn
  BY DEF PaintsWhatWasDrawn
<1> HIDE DEF Here
<1> QED
  BY <1>1, <1>2, <1>3, <1>4, <1>5, PTL DEF Spec, Drawing!Spec

\* Each draw is acknowledged once, in order, and not before its part of the ring
\* is free; with nothing under way all of the ring is (client/client.go ack).
THEOREM DrawsSettle == Spec => []DrawsAreSettled
<1> DEFINE Here == part = "drawing"
<1>1. Init /\ Here => Drawing!Init
  BY DrawingRunsAlone
<1>2. Here /\ [Next]_vars => Here' /\ [Drawing!Next]_(Drawing!vars)
  BY DrawingRunsAlone
<1>3. ~Here /\ [Next]_vars => ~Here'
  BY DrawingRunsAlone
<1>4. Drawing!Spec => []Drawing!DrawsAreSettled
  BY PartsAssumption, Drawing!DrawsSettle
<1>5. (Here => Drawing!DrawsAreSettled) => DrawsAreSettled
  BY DEF DrawsAreSettled, Drawing!DrawsAreSettled
<1> HIDE DEF Here
<1> QED
  BY <1>1, <1>2, <1>3, <1>4, <1>5, PTL DEF Spec, Drawing!Spec

-----------------------------------------------------------------------------
(* The geometry of windows. *)

\* Chosen at the start, it makes its own steps and no others.
LEMMA GeometryRunsAlone ==
  /\ Init /\ part = "geometry" => Geometry!Init
  /\ part = "geometry" /\ [Next]_vars =>
       part' = "geometry" /\ [Geometry!Next]_(Geometry!vars)
  /\ part # "geometry" /\ [Next]_vars => part' # "geometry"
<1>1. Init /\ part = "geometry" => Geometry!Init
  BY DEF Init
<1>2. part = "geometry" /\ Next => Geometry!Next
  BY OnlyItsOwnSteps
<1>3. UNCHANGED vars => UNCHANGED Geometry!vars
  BY DEF vars, Geometry!vars, Geometry!desktopVars
<1> QED
  BY <1>1, <1>2, <1>3, PartStays

\* Once all moves and reports are handled, client, desktop and server agree
\* where a visible window is (the backends' MoveResize and Resized).
THEOREM GeometrySettles == Spec => []GeometryAgreesWhenSettled
<1> DEFINE Here == part = "geometry"
<1>1. Init /\ Here => Geometry!Init
  BY GeometryRunsAlone
<1>2. Here /\ [Next]_vars => Here' /\ [Geometry!Next]_(Geometry!vars)
  BY GeometryRunsAlone
<1>3. ~Here /\ [Next]_vars => ~Here'
  BY GeometryRunsAlone
<1> DEFINE Inv == Here => Geometry!TypeOK /\ Geometry!SettleInv
<1>4. Init => Inv
  BY <1>1, PartsAssumption, GeometryTypes, SettleInvariant
<1>5. Inv /\ [Next]_vars => Inv'
  BY <1>2, <1>3, PartsAssumption, GeometryTypes, SettleInvariant
<1>6. Inv => GeometryAgreesWhenSettled
  BY GeometrySafe DEF GeometryAgreesWhenSettled
<1> HIDE DEF Inv
<1> QED
  BY <1>4, <1>5, <1>6, PTL DEF Spec

\* A clipboard that stands still leaves no step to the whole.
LEMMA ClipboardStandsStill ==
  part = "clipboard" /\ [Next]_vars /\ UNCHANGED Clipboard!vars => UNCHANGED vars
<1>1. UNCHANGED Clipboard!vars =>
        UNCHANGED <<s1, s2, s3, s4, s5, s6, s7, s8, s9, s10, s11, s12, s13, s14, s15, s16>>
  BY DEF Clipboard!vars, Clipboard!modeVars, Clipboard!requestVars,
         Clipboard!desktopVars, Clipboard!serverVars
<1> QED
  BY <1>1, PartStays DEF vars

\* No step does what is not due: a remote text comes in the order of the claims
\* and only if it may (client/clipboard.go), and a window's geometry is reported
\* where the step leaves it (the backends' MoveResize, Minimize and Resized).
THEOREM StepsInTurn == Spec => NoStepOutOfTurn
<1> DEFINE C == part = "clipboard"
           G == part = "geometry"
<1>1. Init /\ C => Clipboard!Init
  BY ClipboardRunsAlone
<1>2. C /\ [Next]_vars => C' /\ [Clipboard!Next]_(Clipboard!vars)
  BY ClipboardRunsAlone
<1>3. ~C /\ [Next]_vars => ~C'
  BY ClipboardRunsAlone
<1>4. Clipboard!Spec => [][Clipboard!RemoteTextsAreDue]_(Clipboard!vars)
  BY PartsAssumption, Clipboard!RemoteTextsInOrder
<1> DEFINE Inv == G => Geometry!TypeOK
<1>5. Init => Inv
  BY PartsAssumption, GeometryRunsAlone, GeometryTypes
<1>6. Inv /\ [Next]_vars => Inv' /\ (G => Geometry!ReportsOnlyWhereItEnds)
  BY PartsAssumption, GeometryRunsAlone, GeometryTypes, ReportsAreFinal
<1>7. /\ [Next]_vars
      /\ C => [Clipboard!RemoteTextsAreDue]_(Clipboard!vars)
      /\ G => Geometry!ReportsOnlyWhereItEnds
      => [/\ part = "clipboard" => Clipboard!RemoteTextsAreDue
          /\ part = "geometry" => Geometry!ReportsOnlyWhereItEnds]_vars
  BY ClipboardStandsStill
<1> HIDE DEF C, G, Inv
<1> QED
  BY <1>1, <1>2, <1>3, <1>4, <1>5, <1>6, <1>7, PTL DEF Spec, Clipboard!Spec, NoStepOutOfTurn

-----------------------------------------------------------------------------
(* Windows on Wayland. *)

\* Chosen at the start, they make their own steps and no others.
LEMMA WaylandRunsAlone ==
  /\ Init /\ part = "wayland windows" => Wayland!Init
  /\ part = "wayland windows" /\ [Next]_vars =>
       part' = "wayland windows" /\ [Wayland!Next]_(Wayland!vars)
  /\ part # "wayland windows" /\ [Next]_vars => part' # "wayland windows"
<1>1. Init /\ part = "wayland windows" => Wayland!Init
  BY DEF Init
<1>2. UNCHANGED vars => UNCHANGED Wayland!vars
  BY DEF vars, Wayland!vars, Wayland!deskVars, Wayland!compVars, Wayland!boundVars
<1> QED
  BY <1>1, <1>2, OnlyItsOwnSteps, PartStays

\* Pointer and keyboard are where the compositor says, and always at a window
\* that is still open (wayland/input.go, wire.go).
THEOREM InputFollowsTheSeat == Spec => []InputGoesWhereTheSeatIs
<1> DEFINE Here == part = "wayland windows"
           Inv == Here => Wayland!TypeOK /\ Wayland!SeatInv /\ Wayland!ObjectsInv
<1>1. Wayland!WaylandAssumption
  BY PartsAssumption
<1>2. Init => Inv
  BY <1>1, WaylandRunsAlone, WindowTypes, SeatInvariant, ObjectsInvariant
<1>3. Inv /\ [Next]_vars => Inv'
  BY <1>1, WaylandRunsAlone, WindowTypes, SeatInvariant, ObjectsInvariant
<1>4. Inv => InputGoesWhereTheSeatIs
  BY WindowsSettle DEF InputGoesWhereTheSeatIs
<1> HIDE DEF Inv
<1> QED
  BY <1>2, <1>3, <1>4, PTL DEF Spec

\* A Wayland window is never shown before its surface was configured nor hung
\* off a window that is gone, its damage stays inside its buffer, and in the
\* end its surface shows that buffer (wayland/window.go, wire.go).
THEOREM WindowsShowTheirBuffers == Spec => []WindowShowsItsBuffer
<1> DEFINE Here == part = "wayland windows"
           Inv == Here => Wayland!TypeOK /\ Wayland!BuffersInv
<1>1. Wayland!WaylandAssumption
  BY PartsAssumption
<1>2. Init => Inv
  BY <1>1, WaylandRunsAlone, WindowTypes, BuffersInvariant
<1>3. Inv /\ [Next]_vars => Inv'
  BY <1>1, WaylandRunsAlone, WindowTypes, BuffersInvariant
<1>4. Inv => WindowShowsItsBuffer
  BY WindowsSettle DEF WindowShowsItsBuffer
<1> HIDE DEF Inv
<1> QED
  BY <1>2, <1>3, <1>4, PTL DEF Spec

\* The variables keep the shapes their comments give them: the clipboard, the
\* ring and its draws, where windows are, and the windows on Wayland.
THEOREM TypeCorrect == Spec => []TypeOK
<1> DEFINE C == part = "clipboard"
           D == part = "drawing"
           G == part = "geometry"
           W == part = "wayland windows"
           Inv == (G => Geometry!TypeOK) /\ (W => Wayland!TypeOK)
<1>1. /\ Init /\ C => Clipboard!Init
      /\ C /\ [Next]_vars => C' /\ [Clipboard!Next]_(Clipboard!vars)
      /\ ~C /\ [Next]_vars => ~C'
  BY ClipboardRunsAlone
<1>2. /\ Init /\ D => Drawing!Init
      /\ D /\ [Next]_vars => D' /\ [Drawing!Next]_(Drawing!vars)
      /\ ~D /\ [Next]_vars => ~D'
  BY DrawingRunsAlone
<1>3. Clipboard!Spec => []Clipboard!TypeOK
  BY PartsAssumption, Clipboard!TypeCorrect
<1>4. Drawing!Spec => []Drawing!TypeOK
  BY PartsAssumption, Drawing!TypeCorrect
<1>5. Init => Inv
  BY PartsAssumption, GeometryRunsAlone, GeometryTypes, WaylandRunsAlone, WindowTypes
<1>6. Inv /\ [Next]_vars => Inv'
  BY PartsAssumption, GeometryRunsAlone, GeometryTypes, WaylandRunsAlone, WindowTypes
<1>7. Inv /\ (C => Clipboard!TypeOK) /\ (D => Drawing!TypeOK) => TypeOK
  BY DEF TypeOK
<1> HIDE DEF C, D, G, W, Inv
<1> QED
  BY <1>1, <1>2, <1>3, <1>4, <1>5, <1>6, <1>7, PTL DEF Spec, Clipboard!Spec, Drawing!Spec

-----------------------------------------------------------------------------
(* The password (client/client.go): s1 to s5 say how the server is reached and
   which passwords there are, s6 the server's own, s7 to s12 how far it came. *)

\* Who gave a password that is used is one of the three.
LEMMA LoginPassword ==
  Login!challengePassword # NoPassword =>
    /\ Login!challengePassword \in {s2, s3, s4}
    /\ s1 = "ssh" => Login!challengePassword \in {s3, s4}
  BY DEF Login!challengePassword, Login!clientPassword

\* One challenge is answered, the last, and with the one password there is.
LEMMA LoginInvariant ==
  ASSUME Login!LoginAssumption
  PROVE  /\ Login!Init => Login!LoginInv
         /\ Login!LoginInv /\ [Login!Next]_(Login!vars) => Login!LoginInv'
<1> DEFINE transport == s1
           url == s2
           proxied == s5
           secret == s6
           challengeSeen == s7
           challenge == s8
           pending == s9
           sent == s10
           outcome == s11
           challenges == s12
<1>1. Login!Init => Login!LoginInv
  BY DEF Login!LoginAssumption, Login!Init, Login!LoginInv, Login!OneReply,
         Login!ReplyIsToTheChallenge, Login!VerdictIsTrue
<1>2. Login!LoginInv /\ [Login!Next]_(Login!vars) => Login!LoginInv'
  <2> SUFFICES ASSUME Login!LoginInv, [Login!Next]_(Login!vars) PROVE Login!LoginInv'
    OBVIOUS
  <2> USE DEF Login!LoginInv
  <2>1. CASE Login!ServerChallenges
    <3>1. challenges' \in 0 .. MaxChallenges /\ challenges' # 0
          /\ proxied' = (IF transport' = "ssh" THEN url' ELSE NoPassword)
      BY <2>1 DEF Login!ServerChallenges, Login!given, Login!LoginAssumption
    <3>2. Login!challengePassword' = Login!challengePassword
      BY <2>1
      DEF Login!ServerChallenges, Login!given, Login!challengePassword, Login!clientPassword
    <3>3. Login!OneReply'
      BY <2>1, <3>2 DEF Login!ServerChallenges, Login!OneReply, Login!Reply, Login!hmacHex
    <3>4. Login!ReplyIsToTheChallenge'
      <4>1. PICK salt \in {0, challenges'}, digest \in Login!Names,
                 saltDigest \in Login!Names, length \in 4 .. 5 :
              challenge' = {[salt |-> salt, digest |-> digest, saltDigest |-> saltDigest,
                             length |-> length]}
        BY <2>1 DEF Login!ServerChallenges
      <4>2. salt \in 0 .. MaxChallenges
        BY <3>1 DEF Login!LoginAssumption
      <4>3. /\ \A c, d \in challenge' : c = d
            /\ \A c \in challenge' : c.salt = salt
        BY <4>1
      <4>4. pending'
        BY <2>1 DEF Login!ServerChallenges
      <4> QED
        BY <4>2, <4>3, <4>4 DEF Login!ReplyIsToTheChallenge
    <3>5. Login!VerdictIsTrue'
      BY <2>1, <3>2 DEF Login!ServerChallenges, Login!VerdictIsTrue, Login!given
    <3> QED
      BY <3>1, <3>3, <3>4, <3>5
  <2>2. CASE Login!HandleChallenge
    <3>1. PICK c \in challenge : Login!Answer(c)
      BY <2>2 DEF Login!HandleChallenge
    <3>2. /\ UNCHANGED <<Login!given, proxied, challenge, challenges>>
          /\ pending' = FALSE /\ outcome = "open"
          /\ Login!challengePassword' = Login!challengePassword
      BY <2>2
      DEF Login!HandleChallenge, Login!given, Login!challengePassword, Login!clientPassword
    <3>3. /\ \A d \in challenge : d = c
          /\ c.salt \in 0 .. MaxChallenges
      BY DEF Login!ReplyIsToTheChallenge
    <3>4. CASE outcome' = "stopped" /\ UNCHANGED sent
      <4>1. Login!OneReply'
        BY <3>1, <3>2, <3>4
        DEF Login!Answer, Login!Stop, Login!OneReply, Login!Reply, Login!hmacHex
      <4>2. Login!ReplyIsToTheChallenge' /\ Login!VerdictIsTrue'
        BY <3>2, <3>4 DEF Login!ReplyIsToTheChallenge, Login!VerdictIsTrue
      <4> QED
        BY <3>2, <4>1, <4>2 DEF Login!given
    <3>5. CASE /\ ~challengeSeen /\ challengeSeen' = TRUE
               /\ Login!challengePassword # NoPassword /\ Login!Supported(c)
               /\ sent' = Append(sent, Login!Reply(c, <<"salt", Len(sent)>>))
               /\ UNCHANGED outcome
      <4>1. sent = <<>>
        BY <3>5 DEF Login!OneReply
      <4>2. sent' = <<Login!Reply(c, <<"salt", 0>>)>>
        BY <3>5, <4>1
      <4>3. c.salt \in 1 .. MaxChallenges
        BY <3>3, <3>5 DEF Login!Supported, Login!LoginAssumption
      <4>4. Login!Reply(c, <<"salt", 0>>)' = Login!Reply(c, <<"salt", 0>>)
            /\ Login!Reply(c, <<"salt", 0>>) = Login!Reply([salt |-> c.salt], <<"salt", 0>>)'
        BY <3>2 DEF Login!Reply, Login!hmacHex
      <4>5. Login!OneReply'
        BY <3>2, <3>5, <4>2, <4>3, <4>4 DEF Login!OneReply
      <4>6. Login!ReplyIsToTheChallenge'
        BY <3>2, <3>3, <4>2, <4>4 DEF Login!ReplyIsToTheChallenge
      <4>7. Login!VerdictIsTrue'
        BY <3>2, <3>5 DEF Login!VerdictIsTrue
      <4> QED
        BY <3>2, <4>5, <4>6, <4>7 DEF Login!given
    <3> QED
      BY <3>1, <3>4, <3>5 DEF Login!Answer, Login!Stop
  <2>3. CASE Login!ServerVerifies
    <3> DEFINE reply == sent[Len(sent)]
               Expected(c) == Login!hmacHex(secret, Login!hmacHex(reply.clientSalt, c.salt))
    <3>1. PICK c \in challenge :
            \/ reply.response = Expected(c) /\ outcome' = "accepted" /\ UNCHANGED challenge
            \/ /\ reply.response # Expected(c)
               /\ \/ outcome' = "refused" /\ UNCHANGED challenge
                  \/ challenge' = {} /\ UNCHANGED outcome
      BY <2>3 DEF Login!ServerVerifies
    <3>2. /\ UNCHANGED <<Login!given, proxied, challengeSeen, pending, sent, challenges>>
          /\ outcome = "open" /\ Login!challengePassword' = Login!challengePassword
      BY <2>3
      DEF Login!ServerVerifies, Login!given, Login!challengePassword, Login!clientPassword
    <3>3. sent = <<Login!Reply(c, <<"salt", 0>>)>>
      BY <2>3, <3>1 DEF Login!ServerVerifies, Login!ReplyIsToTheChallenge
    <3>4. reply.response = Expected(c) <=> secret = Login!challengePassword
      BY <3>3 DEF Login!Reply, Login!hmacHex
    <3>5. Login!VerdictIsTrue'
      BY <3>1, <3>2, <3>3, <3>4 DEF Login!VerdictIsTrue, Login!given
    <3>6. Login!ReplyIsToTheChallenge'
      BY <3>1, <3>2 DEF Login!ReplyIsToTheChallenge, Login!Reply, Login!hmacHex
    <3>7. Login!OneReply'
      BY <3>2 DEF Login!OneReply, Login!Reply, Login!hmacHex
    <3> QED
      BY <3>2, <3>5, <3>6, <3>7 DEF Login!given
  <2>4. CASE UNCHANGED Login!vars
    <3>1. Login!challengePassword' = Login!challengePassword
      BY <2>4 DEF Login!vars, Login!challengePassword, Login!clientPassword
    <3> QED
      BY <2>4, <3>1
      DEF Login!vars, Login!OneReply, Login!ReplyIsToTheChallenge, Login!VerdictIsTrue,
          Login!Reply, Login!hmacHex
  <2> QED
    BY <2>1, <2>2, <2>3, <2>4 DEF Login!Next
<1> QED
  BY <1>1, <1>2

\* A verdict that is true of a reply to the challenge gives nothing away.
LEMMA LoginSafe == Login!LoginInv => Login!CredentialsStayInPlace
<1> DEFINE sent == s10
<1> SUFFICES ASSUME Login!LoginInv PROVE Login!CredentialsStayInPlace
  OBVIOUS
<1>1. CASE sent = <<>>
  BY <1>1 DEF Login!LoginInv, Login!VerdictIsTrue, Login!CredentialsStayInPlace
<1>2. CASE sent # <<>>
  <2>1. PICK salt \in 1 .. MaxChallenges : sent = <<Login!Reply([salt |-> salt], <<"salt", 0>>)>>
    BY <1>2 DEF Login!LoginInv, Login!OneReply
  <2>2. /\ Len(sent) = 1 /\ DOMAIN sent = {1}
        /\ sent[1].response = Login!hmacHex(Login!challengePassword, Login!hmacHex(<<"salt", 0>>, salt))
    BY <2>1 DEF Login!Reply
  <2>3. sent[1].response[1] = "hmac" /\ sent[1].response[2] = Login!challengePassword
        /\ sent[1].response[3][3] # 0
    BY <2>2 DEF Login!hmacHex
  <2>4. Login!challengePassword # NoPassword
    BY <1>2 DEF Login!LoginInv, Login!OneReply
  <2> QED
    BY <2>2, <2>3, <2>4, LoginPassword
    DEF Login!LoginInv, Login!VerdictIsTrue, Login!CredentialsStayInPlace
<1> QED
  BY <1>1, <1>2

\* Chosen at the start, it makes its own steps and no others.
LEMMA LoginRunsAlone ==
  /\ Init /\ part = "login" => Login!Init
  /\ part = "login" /\ [Next]_vars =>
       part' = "login" /\ [Login!Next]_(Login!vars)
  /\ part # "login" /\ [Next]_vars => part' # "login"
<1>1. Init /\ part = "login" => Login!Init
  BY DEF Init
<1>2. UNCHANGED vars => UNCHANGED Login!vars
  BY DEF vars, Login!vars, Login!given
<1> QED
  BY <1>1, <1>2, OnlyItsOwnSteps, PartStays

\* A password answers one challenge, of the server it was given for, and only
\* in a digest (client.go handleChallenge, hello.go, main.go connect).
THEOREM CredentialsStay == Spec => []CredentialsStayInPlace
<1> DEFINE Inv == part = "login" => Login!LoginInv
<1>1. Init => Inv
  BY PartsAssumption, LoginRunsAlone, LoginInvariant
<1>2. Inv /\ [Next]_vars => Inv'
  BY PartsAssumption, LoginRunsAlone, LoginInvariant
<1>3. Inv => CredentialsStayInPlace
  BY LoginSafe DEF CredentialsStayInPlace
<1> HIDE DEF Inv
<1> QED
  BY <1>1, <1>2, <1>3, PTL DEF Spec

-----------------------------------------------------------------------------
(* The tray icon and the cursor on Windows (win32/tray.go): s2 to s5 the icon,
   s6 and s7 the cursor, s8 to s11 what the desktop and the system have. *)

\* Chosen at the start, it makes its own steps and no others.
LEMMA TrayRunsAlone ==
  /\ Init /\ part = "win32 tray" => Tray!Init
  /\ part = "win32 tray" /\ [Next]_vars =>
       part' = "win32 tray" /\ [Tray!Next]_(Tray!vars)
  /\ part # "win32 tray" /\ [Next]_vars => part' # "win32 tray"
<1>1. Init /\ part = "win32 tray" => Tray!Init
  BY DEF Init
<1>2. UNCHANGED vars => UNCHANGED Tray!vars
  BY DEF vars, Tray!vars
<1> QED
  BY <1>1, <1>2, OnlyItsOwnSteps, PartStays

-----------------------------------------------------------------------------
(* The cursor on Wayland (wayland/cursor.go): s1 to s5 the client's, s6 to s10
   where the compositor has the pointer and what it shows there. *)

\* Chosen at the start, it makes its own steps and no others.
LEMMA CursorRunsAlone ==
  /\ Init /\ part = "wayland cursor" => Cursor!Init
  /\ part = "wayland cursor" /\ [Next]_vars =>
       part' = "wayland cursor" /\ [Cursor!Next]_(Cursor!vars)
  /\ part # "wayland cursor" /\ [Next]_vars => part' # "wayland cursor"
<1>1. Init /\ part = "wayland cursor" => Cursor!Init
  BY DEF Init
<1>2. UNCHANGED vars => UNCHANGED Cursor!vars
  BY DEF vars, Cursor!vars, Cursor!clientVars
<1> QED
  BY <1>1, <1>2, OnlyItsOwnSteps, PartStays

-----------------------------------------------------------------------------
(* The ssh process (cmd/go-xpra/ssh.go): s1 to s4 the process and its stream,
   s5 to s8 who reads it, who closes it and who waits for it. *)

\* ssh is waited for by one goroutine, and what it said decides the end.
LEMMA ReapedInvariant ==
  /\ Stream!Init => Stream!ReapedInv
  /\ Stream!ReapedInv /\ [Stream!Next]_(Stream!vars) => Stream!ReapedInv'
<1> USE DEF Stream!ReapedInv, Stream!Ended, Stream!CleanEndIsClean, Stream!NoChildLeft,
            Stream!CloseIsNotStuck
<1>1. Stream!Init => Stream!ReapedInv
  BY DEF Stream!Init
<1>2. Stream!ReapedInv /\ [Stream!Next]_(Stream!vars) => Stream!ReapedInv'
  <2> SUFFICES ASSUME Stream!ReapedInv, [Stream!Next]_(Stream!vars) PROVE Stream!ReapedInv'
    OBVIOUS
  <2>1. CASE Stream!CloseOutput \/ \E status \in {"exited", "failed"} : Stream!Exit(status)
    BY <2>1 DEF Stream!CloseOutput, Stream!Exit
  <2>2. CASE Stream!ReadEOF \/ Stream!ReadClosed
    BY <2>2 DEF Stream!ReadEOF, Stream!ReadClosed
  <2>3. CASE Stream!ReaderWaits \/ Stream!CloserWaits
    BY <2>3 DEF Stream!ReaderWaits, Stream!CloserWaits, Stream!Enter, Stream!Reaped
  <2>4. CASE Stream!ReaderReturns
    BY <2>4 DEF Stream!ReaderReturns, Stream!EndOfRead
  <2>5. CASE Stream!ClosePipes \/ Stream!CloserReturns
    BY <2>5 DEF Stream!ClosePipes, Stream!CloserReturns
  <2>6. CASE Stream!Kill
    BY <2>6 DEF Stream!Kill, Stream!MayKill
  <2>7. CASE UNCHANGED Stream!vars
    BY <2>7 DEF Stream!vars
  <2> QED
    BY <2>1, <2>2, <2>3, <2>4, <2>5, <2>6, <2>7 DEF Stream!Next, Stream!Read, Stream!Close
<1> QED
  BY <1>1, <1>2

\* Chosen at the start, it makes its own steps and no others.
LEMMA StreamRunsAlone ==
  /\ Init /\ part = "ssh stream" => Stream!Init
  /\ part = "ssh stream" /\ [Next]_vars =>
       part' = "ssh stream" /\ [Stream!Next]_(Stream!vars)
  /\ part # "ssh stream" /\ [Next]_vars => part' # "ssh stream"
<1>1. Init /\ part = "ssh stream" => Stream!Init
  BY DEF Init
<1>2. UNCHANGED vars => UNCHANGED Stream!vars
  BY DEF vars, Stream!vars
<1> QED
  BY <1>1, <1>2, OnlyItsOwnSteps, PartStays

-----------------------------------------------------------------------------
(* The password prompt (cmd/go-xpra/password_linux.go): s1 to s4 the prompt, s5
   and s6 pinentry, s7 and s8 the echo, s9 to s14 signals. *)

\* While the echo is off the process is alive and on its way to restore it.
LEMMA EchoInvariant ==
  /\ Prompt!Init => Prompt!EchoInv
  /\ Prompt!EchoInv /\ [Prompt!Next]_(Prompt!vars) => Prompt!EchoInv'
  /\ Prompt!EchoInv => Prompt!EchoIsRestored
<1> DEFINE pc == s1
           echo == s7
           restored == s8
           alive == s12
<1>1. Prompt!Init => Prompt!EchoInv
  BY DEF Prompt!Init, Prompt!EchoInv
<1>2. Prompt!EchoInv /\ [Prompt!Next]_(Prompt!vars) => Prompt!EchoInv'
  <2> SUFFICES ASSUME Prompt!EchoInv, [Prompt!Next]_(Prompt!vars) PROVE Prompt!EchoInv'
    OBVIOUS
  <2> USE DEF Prompt!EchoInv, Prompt!signals, Prompt!Go
  <2>1. CASE Prompt!StartPinentry \/ Prompt!Respond \/ Prompt!PinentryExits \/ Prompt!Reap
    BY <2>1 DEF Prompt!StartPinentry, Prompt!Respond, Prompt!PinentryExits, Prompt!Reap
  <2>2. CASE Prompt!Ask
    BY <2>2 DEF Prompt!Ask
  <2>3. CASE Prompt!ReadLine \/ Prompt!ReadEOF
    <3>1. /\ alive /\ pc = "read"
          /\ pc' \in {"read", "ask", "reap", "bye"}
          /\ UNCHANGED <<echo, restored, Prompt!signals>>
      <4>1. CASE Prompt!ReadLine
        BY <4>1 DEF Prompt!ReadLine, Prompt!Failed, Prompt!Means
      <4>2. CASE Prompt!ReadEOF
        BY <4>2 DEF Prompt!ReadEOF, Prompt!Failed
      <4> QED
        BY <2>3, <4>1, <4>2
    <3> QED
      BY <3>1
  <2>4. CASE Prompt!Open \/ Prompt!Notify \/ Prompt!Hide \/ Prompt!TakeLine \/ Prompt!TakeInterrupt
    <3>1. CASE Prompt!Open
      BY <3>1 DEF Prompt!Open
    <3>2. CASE Prompt!Notify
      BY <3>2 DEF Prompt!Notify
    <3>3. CASE Prompt!Hide
      BY <3>3 DEF Prompt!Hide
    <3>4. CASE Prompt!TakeLine
      BY <3>4 DEF Prompt!TakeLine
    <3>5. CASE Prompt!TakeInterrupt
      BY <3>5 DEF Prompt!TakeInterrupt
    <3> QED
      BY <2>4, <3>1, <3>2, <3>3, <3>4, <3>5
  <2>5. CASE Prompt!Prompt \/ Prompt!Restore \/ Prompt!SignalStop
    <3>1. Prompt!Deferred[1] = "restore" /\ Prompt!Deferred[2] = "stop"
          /\ Prompt!After("restore") = "stop" /\ Prompt!After("stop") = "returned"
      BY DEF Prompt!Deferred, Prompt!After
    <3> QED
      <4>1. CASE Prompt!Prompt
        BY <4>1, <3>1 DEF Prompt!Prompt
      <4>2. CASE Prompt!Restore
        BY <4>2, <3>1 DEF Prompt!Restore
      <4>3. CASE Prompt!SignalStop
        BY <4>3, <3>1 DEF Prompt!SignalStop
      <4> QED
        BY <2>5, <4>1, <4>2, <4>3
  <2>6. CASE Prompt!Interrupt \/ Prompt!HandlerStops
    BY <2>6 DEF Prompt!Interrupt, Prompt!HandlerStops
  <2>7. CASE UNCHANGED Prompt!vars
    BY <2>7 DEF Prompt!vars
  <2> QED
    BY <2>1, <2>2, <2>3, <2>4, <2>5, <2>6, <2>7 DEF Prompt!Next
<1>3. Prompt!EchoInv => Prompt!EchoIsRestored
  BY DEF Prompt!EchoInv, Prompt!EchoIsRestored
<1> QED
  BY <1>1, <1>2, <1>3

\* The end of a response is met once all before it has been read, and not sooner.
LEMMA EndOfResponse ==
  ASSUME NEW S, NEW a \in Seq(S)
  PROVE  \A d, l \in Seq(S), e \in S :
           l # <<>> /\ d \o l = a \o <<e>> /\ (\A i \in 1 .. Len(a) : a[i] # e) =>
             /\ Head(l) = e => d = a /\ Tail(l) = <<>>
             /\ Head(l) # e => Tail(l) # <<>> /\ \E i \in 1 .. Len(a) : Head(l) = a[i]
<1> SUFFICES ASSUME NEW d \in Seq(S), NEW l \in Seq(S), NEW e \in S,
                    l # <<>>, d \o l = a \o <<e>>, \A i \in 1 .. Len(a) : a[i] # e
             PROVE  /\ Head(l) = e => d = a /\ Tail(l) = <<>>
                    /\ Head(l) # e => Tail(l) # <<>> /\ \E i \in 1 .. Len(a) : Head(l) = a[i]
  OBVIOUS
<1>1. /\ Len(d) \in Nat /\ Len(l) \in Nat /\ Len(l) >= 1 /\ Len(a) \in Nat
      /\ Head(l) = l[1] /\ Tail(l) \in Seq(S) /\ Len(Tail(l)) = Len(l) - 1
  OBVIOUS
<1>2. /\ Len(d \o l) = Len(d) + Len(l)
      /\ \A i \in 1 .. Len(d) + Len(l) : (d \o l)[i] = IF i <= Len(d) THEN d[i] ELSE l[i - Len(d)]
  BY <1>1, JoinedItems
<1>3. /\ Len(a \o <<e>>) = Len(a) + 1
      /\ \A i \in 1 .. Len(a) + 1 : (a \o <<e>>)[i] = IF i <= Len(a) THEN a[i] ELSE e
  <2>1. Len(a \o <<e>>) = Len(a) + 1
    BY <1>1
  <2>2. \A i \in 1 .. Len(a) : (a \o <<e>>)[i] = a[i]
    BY <1>1
  <2>3. (a \o <<e>>)[Len(a) + 1] = e
    BY <1>1
  <2> QED
    BY <1>1, <2>1, <2>2, <2>3
<1>4. Len(d) + Len(l) = Len(a) + 1
  BY <1>2, <1>3
<1>5. Head(l) = (a \o <<e>>)[Len(d) + 1]
  BY <1>1, <1>2
<1>6. CASE Len(d) = Len(a)
  <2>1. Head(l) = e
    BY <1>1, <1>3, <1>5, <1>6
  <2>2. Len(Tail(l)) = 0
    BY <1>1, <1>4, <1>6
  <2>3. \A i \in 1 .. Len(a) : d[i] = a[i]
    BY <1>1, <1>2, <1>3, <1>4, <1>6
  <2>4. d = a
    BY <1>1, <1>6, <2>3
  <2>5. Tail(l) = <<>>
    <3>1. \A s \in Seq(S) : Len(s) = 0 => s = <<>>
      OBVIOUS
    <3> QED
      BY <1>1, <2>2, <3>1
  <2> QED
    BY <2>1, <2>4, <2>5
<1>7. CASE Len(d) < Len(a)
  <2>1. Head(l) = a[Len(d) + 1] /\ Len(d) + 1 \in 1 .. Len(a)
    BY <1>1, <1>3, <1>5, <1>7
  <2>2. Len(Tail(l)) > 0
    BY <1>1, <1>4, <1>7
  <2>3. Tail(l) # <<>>
    <3>1. PICK b \in Seq(S) : b = Tail(l)
      BY <1>1
    <3>2. Len(b) > 0
      BY <2>2, <3>1
    <3>3. b # <<>>
      BY <3>2
    <3> QED
      BY <3>1, <3>3
  <2> QED
    BY <2>1, <2>3
<1> QED
  BY <1>1, <1>4, <1>6, <1>7

\* The OK after a command's data is such an end.
LEMMA OKEndsResponse ==
  ASSUME NEW a \in Seq(Prompt!Lines), s3 \in Seq(Prompt!Lines), s6 \in Seq(Prompt!Lines),
         s6 # <<>>, s3 \o s6 = a \o <<"OK">>, \A i \in 1 .. Len(a) : a[i] # "OK"
  PROVE  /\ Head(s6) = "OK" => s3 = a /\ Tail(s6) = <<>>
         /\ Head(s6) # "OK" => Tail(s6) # <<>> /\ \E i \in 1 .. Len(a) : Head(s6) = a[i]
<1> DEFINE data == s3
           lines == s6
<1>1. "OK" \in Prompt!Lines
  BY DEF Prompt!Lines
<1> DEFINE Sought(d, l, e) ==
             l # <<>> /\ d \o l = a \o <<e>> /\ (\A i \in 1 .. Len(a) : a[i] # e) =>
               /\ Head(l) = e => d = a /\ Tail(l) = <<>>
               /\ Head(l) # e => Tail(l) # <<>> /\ \E i \in 1 .. Len(a) : Head(l) = a[i]
<1>2. \A d, l \in Seq(Prompt!Lines), e \in Prompt!Lines : Sought(d, l, e)
  BY EndOfResponse, Zenon
<1> HIDE DEF Sought
<1>3. Sought(data, lines, "OK")
  BY <1>1, <1>2, Zenon
<1> QED
  BY <1>3, Zenon DEF Sought

\* What was read is the start of one response, and only all of it is an answer.
LEMMA ResponseInvariant ==
  ASSUME Prompt!PasswordPromptAssumption
  PROVE  /\ Prompt!Init => Prompt!ResponseInv
         /\ Prompt!ResponseInv /\ [Prompt!Next]_(Prompt!vars) => Prompt!ResponseInv'
         /\ Prompt!ResponseInv => Prompt!PasswordIsComplete
<1> DEFINE pc == s1
           step == s2
           data == s3
           answer == s4
           lines == s6
<1>1. Prompt!Init => Prompt!ResponseInv
  BY DEF Prompt!Init, Prompt!ResponseInv
<1>2. Prompt!ResponseInv /\ [Prompt!Next]_(Prompt!vars) => Prompt!ResponseInv'
  <2> SUFFICES ASSUME Prompt!ResponseInv, [Prompt!Next]_(Prompt!vars) PROVE Prompt!ResponseInv'
    OBVIOUS
  <2> USE DEF Prompt!ResponseInv, Prompt!signals, Prompt!dialogue, Prompt!Go
  <2>0. Pin \in Seq(Prompt!Lines) /\ <<"OK">> \in Seq(Prompt!Lines)
        /\ Pin \o <<"OK">> \in Seq(Prompt!Lines)
        /\ Pin \o <<"OK">> # <<>> /\ <<>> \o <<"OK">> = <<"OK">>
        /\ <<>> \o (Pin \o <<"OK">>) = Pin \o <<"OK">>
    <3>1. \A q \in Seq(Prompt!Lines) : <<>> \o q = q
      OBVIOUS
    <3>2. Pin \in Seq(Prompt!Lines) /\ Len(Pin) \in Nat
      BY DEF Prompt!PasswordPromptAssumption, Prompt!Lines
    <3>3. Pin \o <<"OK">> \in Seq(Prompt!Lines) /\ Len(Pin \o <<"OK">>) = Len(Pin) + 1
      <4>1. <<"OK">> \in Seq(Prompt!Lines) /\ Len(<<"OK">>) = 1
        BY DEF Prompt!Lines
      <4> QED
        BY <3>2, <4>1, JoinedItems
    <3>4. Pin \o <<"OK">> # <<>>
      <4>1. Len(<<>>) = 0 /\ Len(Pin) + 1 # 0
        BY <3>2
      <4> QED
        BY <3>3, <4>1
    <3> QED
      BY <3>1, <3>2, <3>3, <3>4
  <2>00. Prompt!Response' = IF Prompt!Commands[step'] = "GETPIN" THEN Pin \o <<"OK">> ELSE <<"OK">>
    BY DEF Prompt!Response, Prompt!Commands
  <2>1. CASE Prompt!StartPinentry
    BY <2>1 DEF Prompt!StartPinentry
  <2>2. CASE Prompt!Respond
    <3>1. /\ data = <<>> /\ UNCHANGED <<pc, step, data, answer>> /\ pc = "read"
      BY <2>2 DEF Prompt!Respond
    <3>2. lines' \in {<<"S">>, <<"ERR">>} \/ lines' = Prompt!Response
      BY <2>2 DEF Prompt!Respond, Prompt!Response
    <3>3. lines' \in Seq(Prompt!Lines) /\ Prompt!Response' = Prompt!Response
          /\ Prompt!Response # <<>> /\ <<>> \o Prompt!Response = Prompt!Response
      <4>1. Prompt!Response' = Prompt!Response
        BY <3>1 DEF Prompt!Response
      <4>2. Prompt!Response \in Seq(Prompt!Lines) /\ Prompt!Response # <<>>
            /\ <<>> \o Prompt!Response = Prompt!Response
        BY <2>0 DEF Prompt!Response
      <4>3. <<"S">> \in Seq(Prompt!Lines) /\ <<"ERR">> \in Seq(Prompt!Lines)
        BY DEF Prompt!Lines
      <4> QED
        BY <3>2, <4>1, <4>2, <4>3
    <3> QED
      BY <3>1, <3>2, <3>3
  <2>3. CASE Prompt!PinentryExits \/ Prompt!Interrupt \/ Prompt!HandlerStops \/ UNCHANGED Prompt!vars
    <3>1. UNCHANGED <<pc, step, data, lines, answer>>
      BY <2>3 DEF Prompt!PinentryExits, Prompt!Interrupt, Prompt!HandlerStops, Prompt!vars
    <3> QED
      BY <3>1 DEF Prompt!Response
  <2>4. CASE Prompt!Ask
    BY <2>4 DEF Prompt!Ask
  <2>5. CASE Prompt!ReadLine
    <3> DEFINE line == Head(lines)
    <3>1. /\ pc = "read" /\ lines # <<>> /\ lines' = Tail(lines) /\ UNCHANGED step
          /\ Tail(lines) \in Seq(Prompt!Lines) /\ line \in Prompt!Lines
      BY <2>5 DEF Prompt!ReadLine
    <3>2. CASE data = <<>> /\ lines \in {<<"S">>, <<"ERR">>}
      <4>1. lines' = <<>> /\ line \in {"S", "ERR"}
        BY <3>1, <3>2
      <4>2. UNCHANGED <<data, answer>> /\ pc' \in {"read", "ask", "reap"}
            /\ (pc' = "read" => line = "S")
        BY <2>5, <3>1, <4>1 DEF Prompt!ReadLine, Prompt!Means, Prompt!Failed
      <4> QED
        BY <3>1, <3>2, <4>1, <4>2
    <3>3. CASE data \o lines = Prompt!Response
      <4>1. data \o lines = Prompt!Response
        BY <3>3
      <4>2. Append(data, line) \o Tail(lines) = Prompt!Response
            /\ Append(data, line) \in Seq(Prompt!Lines)
        BY <3>1, <4>1, Drawing!ArrivingKeepsOrder
      <4>3. PICK a \in Seq(Prompt!Lines) : /\ Prompt!Response = a \o <<"OK">>
                                           /\ \A i \in 1 .. Len(a) : a[i] # "OK" /\ a[i] # "ERR" /\ a[i] # "S"
                                           /\ Prompt!Commands[step] = "GETPIN" => a = Pin
        <5>1. <<>> \in Seq(Prompt!Lines) /\ Len(<<>>) = 0
              /\ Pin \in Seq(Prompt!Lines) /\ DOMAIN Pin = 1 .. Len(Pin)
          BY <2>0
        <5>2. \A i \in 1 .. Len(Pin) : Pin[i] \notin {"OK", "ERR", "S"}
          BY <5>1 DEF Prompt!PasswordPromptAssumption, Prompt!Range
        <5>3. CASE Prompt!Commands[step] = "GETPIN"
          BY <5>1, <5>2, <5>3 DEF Prompt!Response
        <5>4. CASE Prompt!Commands[step] # "GETPIN"
          <6> DEFINE Fits(a) ==
                       /\ Prompt!Response = a \o <<"OK">>
                       /\ \A i \in 1 .. Len(a) : a[i] # "OK" /\ a[i] # "ERR" /\ a[i] # "S"
                       /\ Prompt!Commands[step] = "GETPIN" => a = Pin
          <6>1. Prompt!Response = <<>> \o <<"OK">>
            BY <2>0, <5>4 DEF Prompt!Response
          <6>2. \A i \in 1 .. Len(<<>>) : FALSE
            BY <5>1
          <6>3. Fits(<<>>)
            BY <5>4, <6>1, <6>2, Zenon
          <6> HIDE DEF Fits
          <6>4. \E a \in Seq(Prompt!Lines) : Fits(a)
            BY <5>1, <6>3, Zenon
          <6> QED
            BY <6>4, Zenon DEF Fits
        <5> QED
          BY <5>3, <5>4
      <4>4. /\ line = "OK" => data = a /\ Tail(lines) = <<>>
            /\ line # "OK" => Tail(lines) # <<>> /\ line \notin {"ERR", "S"}
        <5>1. data \o lines = a \o <<"OK">>
          BY <4>1, <4>3, Zenon
        <5>3. "OK" \in Prompt!Lines
          BY DEF Prompt!Lines
        <5>4. \A i \in 1 .. Len(a) : a[i] # "OK"
          BY <4>3, Zenon
        <5>2. /\ line = "OK" => data = a /\ Tail(lines) = <<>>
              /\ line # "OK" => Tail(lines) # <<>> /\ \E i \in 1 .. Len(a) : line = a[i]
          <6>1. data \in Seq(Prompt!Lines) /\ lines \in Seq(Prompt!Lines) /\ lines # <<>>
            BY <3>1
          <6> QED
            BY <5>1, <5>4, <6>1, OKEndsResponse
        <5> QED
          BY <4>3, <5>2, Zenon
      <4>5. CASE line = "OK"
        <5>1. /\ UNCHANGED data /\ pc' \in {"bye", "ask"}
              /\ IF Prompt!Commands[step] = "GETPIN" THEN answer' = <<data>> ELSE UNCHANGED answer
          BY <2>5, <4>5 DEF Prompt!ReadLine, Prompt!Means
        <5>2. answer' \in {<<>>, <<Pin>>}
          <6>1. CASE Prompt!Commands[step] = "GETPIN"
            <7>1. data = Pin
              BY <4>3, <4>4, <4>5, <6>1, Zenon
            <7> QED
              BY <5>1, <6>1, <7>1
          <6>2. CASE Prompt!Commands[step] # "GETPIN"
            BY <5>1, <6>2
          <6> QED
            BY <6>1, <6>2
        <5> QED
          BY <3>1, <4>4, <4>5, <5>1, <5>2
      <4>6. CASE line # "OK"
        <5>1. data' = Append(data, line) /\ UNCHANGED <<pc, answer>>
          BY <2>5, <4>4, <4>6 DEF Prompt!ReadLine, Prompt!Means
        <5>2. Prompt!Response' = Prompt!Response
          BY <3>1 DEF Prompt!Response
        <5> QED
          BY <3>1, <4>2, <4>4, <4>6, <5>1, <5>2
      <4> QED
        BY <4>5, <4>6
    <3> QED
      BY <3>1, <3>2, <3>3
  <2>6. CASE Prompt!ReadEOF
    BY <2>6 DEF Prompt!ReadEOF, Prompt!Failed
  <2>7. CASE Prompt!Reap
    BY <2>7 DEF Prompt!Reap
  <2>8. CASE Prompt!Open \/ Prompt!Notify \/ Prompt!Hide \/ Prompt!Prompt
             \/ Prompt!TakeLine \/ Prompt!TakeInterrupt \/ Prompt!Restore \/ Prompt!SignalStop
    <3>1. pc # "start" /\ pc' \notin {"start", "ask", "read"} /\ UNCHANGED <<data, lines>>
      BY <2>8
      DEF Prompt!Open, Prompt!Notify, Prompt!Hide, Prompt!Prompt, Prompt!TakeLine,
          Prompt!TakeInterrupt, Prompt!Restore, Prompt!SignalStop, Prompt!After,
          Prompt!Deferred
    <3>2. answer' \in {<<>>, <<Pin>>}
      BY <2>8
      DEF Prompt!Open, Prompt!Notify, Prompt!Hide, Prompt!Prompt, Prompt!TakeLine,
          Prompt!TakeInterrupt, Prompt!Restore, Prompt!SignalStop
    <3> QED
      BY <3>1, <3>2
  <2> QED
    BY <2>1, <2>2, <2>3, <2>4, <2>5, <2>6, <2>7, <2>8 DEF Prompt!Next
<1>3. Prompt!ResponseInv => Prompt!PasswordIsComplete
  BY DEF Prompt!ResponseInv, Prompt!PasswordIsComplete
<1> QED
  BY <1>1, <1>2, <1>3

\* Chosen at the start, it makes its own steps and no others.
LEMMA PromptRunsAlone ==
  /\ Init /\ part = "password prompt" => Prompt!Init
  /\ part = "password prompt" /\ [Next]_vars =>
       part' = "password prompt" /\ [Prompt!Next]_(Prompt!vars)
  /\ part # "password prompt" /\ [Next]_vars => part' # "password prompt"
<1>1. Init /\ part = "password prompt" => Prompt!Init
  BY DEF Init
<1>2. UNCHANGED vars => UNCHANGED Prompt!vars
  BY DEF vars, Prompt!vars, Prompt!dialogue, Prompt!signals
<1> QED
  BY <1>1, <1>2, OnlyItsOwnSteps, PartStays

\* Nothing is left behind, and nothing in use is let go of: icons and cursors
\* (win32/tray.go, wayland/cursor.go), the ssh process (ssh.go), the terminal's
\* echo and half a password (password_linux.go).
THEOREM NothingLeftBehind == Spec => []NothingIsLeftBehind
<1> DEFINE Inv == /\ part = "win32 tray" => Tray!TrayInv
                  /\ part = "wayland cursor" => Cursor!CursorInv
                  /\ part = "ssh stream" => Stream!ReapedInv
                  /\ part = "password prompt" => Prompt!EchoInv /\ Prompt!ResponseInv
<1>1. Init => Inv
  BY PartsAssumption, TrayRunsAlone, TrayInvariant, CursorRunsAlone, CursorInvariant,
     StreamRunsAlone, ReapedInvariant, PromptRunsAlone, EchoInvariant, ResponseInvariant
<1>2. Inv /\ [Next]_vars => Inv'
  BY PartsAssumption, TrayRunsAlone, TrayInvariant, CursorRunsAlone, CursorInvariant,
     StreamRunsAlone, ReapedInvariant, PromptRunsAlone, EchoInvariant, ResponseInvariant
<1>3. Inv => NothingIsLeftBehind
  BY PartsAssumption, TrayInvariant, CursorInvariant, EchoInvariant, ResponseInvariant
  DEF NothingIsLeftBehind, Stream!ReapedInv
<1> HIDE DEF Inv
<1> QED
  BY <1>1, <1>2, <1>3, PTL DEF Spec

-----------------------------------------------------------------------------
(* Incremental transfers on X11 (x11/clipboard.go): s1 and s2 the client's, s3 and
   s4 the X server's, s5 to s8 what each requestor waits for and has. *)

\* Chosen at the start, it makes its own steps and no others.
LEMMA PastesRunsAlone ==
  /\ Init /\ part = "x11 transfers" => Pastes!Init
  /\ part = "x11 transfers" /\ [Next]_vars =>
       part' = "x11 transfers" /\ [Pastes!Next]_(Pastes!vars)
  /\ part # "x11 transfers" /\ [Next]_vars => part' # "x11 transfers"
<1>1. Init /\ part = "x11 transfers" => Pastes!Init
  BY DEF Init
<1>2. UNCHANGED vars => UNCHANGED Pastes!vars
  BY DEF vars, Pastes!vars, Pastes!clientVars, Pastes!requestorVars
<1> QED
  BY <1>1, <1>2, OnlyItsOwnSteps, PartStays

\* A paste that ends has all of one text, however often the text is replaced
\* meanwhile (x11/clipboard.go, incremental transfers).
THEOREM PastesComeWhole == Spec => []PastesAreWhole
<1> DEFINE Inv == part = "x11 transfers" => Pastes!TransfersInv
<1>1. Init => Inv
  BY PartsAssumption, PastesRunsAlone, TransfersInvariant
<1>2. Inv /\ [Next]_vars => Inv'
  BY PartsAssumption, PastesRunsAlone, TransfersInvariant
<1>3. Inv => PastesAreWhole
  BY PartsAssumption, TransfersInvariant DEF PastesAreWhole
<1> HIDE DEF Inv
<1> QED
  BY <1>1, <1>2, <1>3, PTL DEF Spec

-----------------------------------------------------------------------------
(* The thread that owns the windows (win32/display.go, darwin/run.go): s2 to s5
   the callers, s6 and s7 what they queued, s8 and s9 the close, s10 to s12 the
   thread and what it ran. *)

\* Chosen at the start, it makes its own steps and no others.
LEMMA ThreadRunsAlone ==
  /\ Init /\ part = "window thread" => Thread!Init
  /\ part = "window thread" /\ [Next]_vars =>
       part' = "window thread" /\ [Thread!Next]_(Thread!vars)
  /\ part # "window thread" /\ [Next]_vars => part' # "window thread"
<1>1. Init /\ part = "window thread" => Thread!Init
  BY DEF Init
<1>2. UNCHANGED vars => UNCHANGED Thread!vars
  BY DEF vars, Thread!vars, Thread!callerVars
<1> QED
  BY <1>1, <1>2, OnlyItsOwnSteps, PartStays

\* Nobody waits for a thread that has ended or sleeps, and what was queued
\* before the close runs before the cleanup (win32/display.go, darwin/run.go);
\* Close waits for an ssh that is ending (cmd/go-xpra/ssh.go).
THEOREM NobodyWaitsInVain == Spec => []NobodyIsStranded
<1> DEFINE Inv == /\ part = "window thread" => Thread!WindowThreadInv
                  /\ part = "ssh stream" => Stream!ReapedInv
<1>1. Init => Inv
  BY PartsAssumption, ThreadRunsAlone, WindowThreadInvariant, StreamRunsAlone, ReapedInvariant
<1>2. Inv /\ [Next]_vars => Inv'
  BY PartsAssumption, ThreadRunsAlone, WindowThreadInvariant, StreamRunsAlone, ReapedInvariant
<1>3. Inv => NobodyIsStranded
  BY PartsAssumption, WindowThreadSafe DEF NobodyIsStranded, Stream!ReapedInv
<1> HIDE DEF Inv
<1> QED
  BY <1>1, <1>2, <1>3, PTL DEF Spec

-----------------------------------------------------------------------------
(* The names of packets (client/hello.go, protocol/packet.go): s1 to s3 the
   client's and the server's settings, s5 and s6 the packets on their way and
   what was made of them. *)

\* A compatible client knows a renamed packet under both names, and leaves the
\* others alone.
LEMMA CanonicalNames ==
  /\ \A what \in Dialect!Renamed :
       /\ s1 => Dialect!Canonical(Dialect!Spelled(what, TRUE)) = Dialect!Spelled(what, FALSE)
       /\ Dialect!Canonical(Dialect!Spelled(what, FALSE)) = Dialect!Spelled(what, FALSE)
  /\ \A what \in DOMAIN Dialect!Names \ Dialect!Renamed : \A old \in BOOLEAN :
       Dialect!Canonical(Dialect!Spelled(what, old)) = Dialect!Spelled(what, old)
<1> DEFINE compatible == s1
<1>1. \A what, w \in Dialect!Renamed :
        Dialect!Spelled(what, TRUE) = Dialect!Spelled(w, TRUE) => what = w
  BY DEF Dialect!Renamed, Dialect!Spelled, Dialect!Names
<1>2. \A what, w \in Dialect!Renamed : Dialect!Spelled(what, FALSE) # Dialect!Spelled(w, TRUE)
  BY DEF Dialect!Renamed, Dialect!Spelled, Dialect!Names
<1>3. \A what \in DOMAIN Dialect!Names \ Dialect!Renamed, w \in Dialect!Renamed,
         old \in BOOLEAN :
        Dialect!Spelled(what, old) # Dialect!Spelled(w, TRUE)
  BY DEF Dialect!Renamed, Dialect!Spelled, Dialect!Names
<1>4. ASSUME NEW what \in Dialect!Renamed, compatible
      PROVE  Dialect!Canonical(Dialect!Spelled(what, TRUE)) = Dialect!Spelled(what, FALSE)
  <2> DEFINE found == CHOOSE w \in Dialect!Renamed :
                        Dialect!Spelled(what, TRUE) = Dialect!Spelled(w, TRUE)
  <2>1. found \in Dialect!Renamed /\ Dialect!Spelled(what, TRUE) = Dialect!Spelled(found, TRUE)
    OBVIOUS
  <2>2. found = what
    BY <1>1, <2>1
  <2>3. Dialect!Canonical(Dialect!Spelled(what, TRUE)) = Dialect!Spelled(found, FALSE)
    BY <1>4 DEF Dialect!Canonical
  <2> QED
    BY <2>2, <2>3
<1>5. ASSUME NEW what \in Dialect!Renamed
      PROVE Dialect!Canonical(Dialect!Spelled(what, FALSE)) = Dialect!Spelled(what, FALSE)
  BY <1>2 DEF Dialect!Canonical
<1>6. ASSUME NEW what \in DOMAIN Dialect!Names \ Dialect!Renamed, NEW old \in BOOLEAN
      PROVE  Dialect!Canonical(Dialect!Spelled(what, old)) = Dialect!Spelled(what, old)
  BY <1>3 DEF Dialect!Canonical
<1> QED
  BY <1>4, <1>5, <1>6

\* What was asked for is handled as it was meant.
LEMMA HandledAsMeant ==
  ASSUME Dialect!PacketsInv, s1 \/ ~s2, NEW what \in Dialect!Advertised
  PROVE  Dialect!Handled(Dialect!Packet(what)) = what
<1> DEFINE compatible == s1
           legacy == s2
<1> DEFINE p == Dialect!Packet(what)
<1>0. what \in {"window", "menu", "lost", "draw", "raise", "move", "bell", "notification",
                "cursor", "arrow", "claim", "status", "echo", "close"}
  BY DEF Dialect!Advertised
<1>1. /\ p.name = Dialect!Spelled(what, Dialect!OldName(what))
      /\ p.override = (what = "menu" /\ ~legacy)
      /\ p.short = (what = "arrow")
  BY DEF Dialect!Packet
<1>2. Dialect!OldName(what) \in BOOLEAN /\ (Dialect!OldName(what) => compatible)
  BY DEF Dialect!OldName, Dialect!PacketsInv
<1>3. Dialect!Canonical(p.name) =
        IF what \in Dialect!Renamed THEN Dialect!Spelled(what, FALSE) ELSE p.name
  <2>1. what \in DOMAIN Dialect!Names
    BY <1>0 DEF Dialect!Names
  <2>2. CASE what \in Dialect!Renamed
    <3>1. CASE Dialect!OldName(what)
      BY <1>1, <1>2, <2>2, <3>1, CanonicalNames
    <3>2. CASE ~Dialect!OldName(what)
      BY <1>1, <1>2, <2>2, <3>2, CanonicalNames
    <3> QED
      BY <3>1, <3>2
  <2>3. CASE what \notin Dialect!Renamed
    BY <1>1, <1>2, <2>1, <2>3, CanonicalNames
  <2> QED
    BY <2>2, <2>3
<1>4. CASE Dialect!Canonical(p.name) = Dialect!Spelled(what, FALSE)
           /\ what \notin {"window", "menu"}
  <2> DEFINE meant == {w \in DOMAIN Dialect!Names \ {"window", "menu"} :
                         Dialect!Spelled(what, FALSE) = Dialect!Spelled(w, FALSE)}
  <2>1. meant = {what}
    BY <1>0, <1>4 DEF Dialect!Spelled, Dialect!Names
  <2>2. Dialect!Spelled(what, FALSE) \notin {"window-create", "new-override-redirect", "cursor",
          "clipboard-token", "set-clipboard-enabled", "disconnect"}
    BY <1>0, <1>4 DEF Dialect!Spelled, Dialect!Names
  <2>3. Dialect!Handled(p) = Dialect!ByModernName(Dialect!Spelled(what, FALSE))
    BY <1>4, <2>2 DEF Dialect!Handled
  <2>4. Dialect!ByModernName(Dialect!Spelled(what, FALSE)) = CHOOSE w \in meant : TRUE
    BY <2>1 DEF Dialect!ByModernName
  <2> QED
    BY <2>1, <2>3, <2>4
<1>5. CASE what = "window" \/ (what = "menu" /\ ~legacy)
  <2>1. Dialect!Canonical(p.name) = "window-create"
    BY <1>1, <1>3, <1>5 DEF Dialect!Renamed, Dialect!OldName, Dialect!Spelled, Dialect!Names
  <2> QED
    BY <1>1, <1>5, <2>1 DEF Dialect!Handled
<1>6. CASE what = "menu" /\ legacy
  <2>1. Dialect!Canonical(p.name) = "new-override-redirect" /\ compatible
    BY <1>1, <1>3, <1>6 DEF Dialect!Renamed, Dialect!OldName, Dialect!Spelled, Dialect!Names
  <2> QED
    BY <1>1, <1>6, <2>1 DEF Dialect!Handled
<1>7. CASE what \in {"cursor", "arrow", "claim", "status", "close"} /\ Dialect!OldName(what)
  <2>1. Dialect!Canonical(p.name) = Dialect!Spelled(what, TRUE) /\ compatible
    BY <1>1, <1>2, <1>3, <1>7 DEF Dialect!Renamed
  <2>2. CASE what \in {"cursor", "arrow"}
    <3>1. Dialect!Canonical(p.name) = "cursor" /\ p.short = (what = "arrow")
      BY <1>1, <2>1, <2>2 DEF Dialect!Spelled, Dialect!Names
    <3> QED
      BY <2>1, <2>2, <3>1 DEF Dialect!Handled
  <2>3. CASE what = "claim"
    <3>1. Dialect!Canonical(p.name) = "clipboard-token"
      BY <2>1, <2>3 DEF Dialect!Spelled, Dialect!Names
    <3> QED
      BY <2>1, <2>3, <3>1 DEF Dialect!Handled
  <2>4. CASE what = "status"
    <3>1. Dialect!Canonical(p.name) = "set-clipboard-enabled"
      BY <2>1, <2>4 DEF Dialect!Spelled, Dialect!Names
    <3> QED
      BY <2>1, <2>4, <3>1 DEF Dialect!Handled
  <2>5. CASE what = "close"
    <3>1. Dialect!Canonical(p.name) = "disconnect"
      BY <2>1, <2>5 DEF Dialect!Spelled, Dialect!Names
    <3> QED
      BY <2>1, <2>5, <3>1 DEF Dialect!Handled
  <2> QED
    BY <1>7, <2>2, <2>3, <2>4, <2>5
<1>8. CASE what \in Dialect!Renamed \ {"window", "menu"} \/ ~Dialect!OldName(what)
  BY <1>0, <1>1, <1>2, <1>3, <1>4, <1>5, <1>6, <1>8 DEF Dialect!PacketsInv
<1> QED
  BY <1>0, <1>2, <1>5, <1>6, <1>7, <1>8 DEF Dialect!Renamed, Dialect!PacketsInv

\* The packets that wait are the server's, and what was handled was meant so.
LEMMA PacketsInvariant ==
  /\ Dialect!Init => Dialect!PacketsInv /\ Dialect!AskedForIsHandled
  /\ Dialect!PacketsInv /\ Dialect!AskedForIsHandled /\ [Dialect!Next]_(Dialect!vars) =>
       Dialect!PacketsInv' /\ Dialect!AskedForIsHandled'
<1> DEFINE compatible == s1
           legacy == s2
           clipboard == s3
           inbox == s5
           understood == s6
<1>1. Dialect!Init => Dialect!PacketsInv /\ Dialect!AskedForIsHandled
  BY DEF Dialect!Init, Dialect!PacketsInv, Dialect!AskedForIsHandled
<1>2. Dialect!PacketsInv /\ Dialect!AskedForIsHandled /\ [Dialect!Next]_(Dialect!vars) =>
        Dialect!PacketsInv' /\ Dialect!AskedForIsHandled'
  <2> SUFFICES ASSUME Dialect!PacketsInv, Dialect!AskedForIsHandled,
                      [Dialect!Next]_(Dialect!vars)
               PROVE  Dialect!PacketsInv' /\ Dialect!AskedForIsHandled'
    OBVIOUS
  <2> DEFINE Sendable == {Dialect!Packet(what) : what \in Dialect!Advertised}
  <2>1. inbox \in Seq(Sendable) /\ UNCHANGED <<compatible, legacy, clipboard>>
    BY DEF Dialect!PacketsInv, Dialect!Next, Dialect!ServerSends, Dialect!Handle,
           Dialect!Leave, Dialect!vars
  <2>2. Sendable' = Sendable
    BY <2>1 DEF Dialect!Packet, Dialect!OldName, Dialect!Advertised
  <2>3. ASSUME NEW what \in Dialect!Advertised, Dialect!ServerSends(what)
        PROVE  inbox' \in Seq(Sendable) /\ UNCHANGED understood
    <3>1. Dialect!Packet(what) \in Sendable /\ inbox' = Append(inbox, Dialect!Packet(what))
      BY <2>3 DEF Dialect!ServerSends
    <3> HIDE DEF Sendable
    <3> QED
      BY <2>1, <2>3, <3>1 DEF Dialect!ServerSends
  <2>4. CASE Dialect!Handle
    <3>1. inbox' \in Seq(Sendable) /\ Head(inbox) \in Sendable
      <4> HIDE DEF Sendable
      <4> QED
        BY <2>1, <2>4 DEF Dialect!Handle
    <3>2. PICK what \in Dialect!Advertised : Head(inbox) = Dialect!Packet(what)
      BY <3>1
    <3>3. understood' = understood \cup {<<what, Dialect!Handled(Dialect!Packet(what))>>}
      BY <2>4, <3>2 DEF Dialect!Handle, Dialect!Packet
    <3>4. compatible \/ ~legacy => Dialect!Handled(Dialect!Packet(what)) = what
      BY HandledAsMeant
    <3>5. Dialect!AskedForIsHandled'
      BY <2>1, <3>3, <3>4 DEF Dialect!AskedForIsHandled
    <3> QED
      BY <2>1, <2>2, <3>1, <3>5 DEF Dialect!PacketsInv
  <2>5. CASE Dialect!Leave \/ UNCHANGED Dialect!vars
    BY <2>1, <2>2, <2>5
    DEF Dialect!Leave, Dialect!vars, Dialect!PacketsInv, Dialect!AskedForIsHandled
  <2> QED
    BY <2>1, <2>2, <2>3, <2>4, <2>5
    DEF Dialect!Next, Dialect!PacketsInv, Dialect!AskedForIsHandled
<1> QED
  BY <1>1, <1>2

\* Chosen at the start, it makes its own steps and no others.
LEMMA DialectRunsAlone ==
  /\ Init /\ part = "dialect" => Dialect!Init
  /\ part = "dialect" /\ [Next]_vars =>
       part' = "dialect" /\ [Dialect!Next]_(Dialect!vars)
  /\ part # "dialect" /\ [Next]_vars => part' # "dialect"
<1>1. Init /\ part = "dialect" => Dialect!Init
  BY DEF Init
<1>2. UNCHANGED vars => UNCHANGED Dialect!vars
  BY DEF vars, Dialect!vars
<1> QED
  BY <1>1, <1>2, OnlyItsOwnSteps, PartStays

\* Every packet family that the hello asks for is handled as the server meant it,
\* under whichever of its names it comes (client/hello.go, protocol/packet.go,
\* client/client.go handlePacket).
THEOREM AskedForComesThrough == Spec => []AskedForIsHandled
<1> DEFINE Inv == part = "dialect" => Dialect!PacketsInv /\ Dialect!AskedForIsHandled
<1>1. Init => Inv
  BY DialectRunsAlone, PacketsInvariant
<1>2. Inv /\ [Next]_vars => Inv'
  BY DialectRunsAlone, PacketsInvariant
<1>3. Inv => AskedForIsHandled
  BY DEF AskedForIsHandled
<1> HIDE DEF Inv
<1> QED
  BY <1>1, <1>2, <1>3, PTL DEF Spec

-----------------------------------------------------------------------------
(* The clipboards of the desktops: Windows' and AppKit's sequence numbers, *)
(* Wayland's offers and sources, X11's selection.                          *)

\* Chosen at the start, it makes its own steps and no others.
LEMMA SequenceRunsAlone ==
  /\ Init /\ part = "sequence clipboard" => Sequence!Init
  /\ part = "sequence clipboard" /\ [Next]_vars =>
       part' = "sequence clipboard" /\ [Sequence!Next]_(Sequence!vars)
  /\ part # "sequence clipboard" /\ [Next]_vars => part' # "sequence clipboard"
<1>1. Init /\ part = "sequence clipboard" => Sequence!Init
  BY DEF Init
<1>2. UNCHANGED vars => UNCHANGED Sequence!vars
  BY DEF vars, Sequence!vars
<1> QED
  BY <1>1, <1>2, OnlyItsOwnSteps, PartStays

\* Chosen at the start, it makes its own steps and no others.
LEMMA OffersRunsAlone ==
  /\ Init /\ part = "wayland clipboard" => Offers!Init
  /\ part = "wayland clipboard" /\ [Next]_vars =>
       part' = "wayland clipboard" /\ [Offers!Next]_(Offers!vars)
  /\ part # "wayland clipboard" /\ [Next]_vars => part' # "wayland clipboard"
<1>1. Init /\ part = "wayland clipboard" => Offers!Init
  BY DEF Init
<1>2. UNCHANGED vars => UNCHANGED Offers!vars
  BY DEF vars, Offers!vars, Offers!clientVars
<1> QED
  BY <1>1, <1>2, OnlyItsOwnSteps, PartStays

\* Chosen at the start, it makes its own steps and no others.
LEMMA X11RunsAlone ==
  /\ Init /\ part = "x11 clipboard" => X11!Init
  /\ part = "x11 clipboard" /\ [Next]_vars =>
       part' = "x11 clipboard" /\ [X11!Next]_(X11!vars)
  /\ part # "x11 clipboard" /\ [Next]_vars => part' # "x11 clipboard"
<1>1. Init /\ part = "x11 clipboard" => X11!Init
  BY DEF Init
<1>2. UNCHANGED vars => UNCHANGED X11!vars
  BY DEF vars, X11!vars, X11!ownerVars, X11!clientVars
<1> QED
  BY <1>1, <1>2, OnlyItsOwnSteps, PartStays

\* When everything is handled, the last local copy that was reported is the one
\* on the desktop's clipboard, and a remote text is published unless a copy came
\* after it (the backends' clipboard.go), unless an answer overtook another, or a
\* large X11 copy met another, since it was last quiet.
THEOREM LocalCopiesComeThrough ==
  Spec => []LocalCopiesArrive
<1> DEFINE Inv ==
      /\ part = "sequence clipboard" => Sequence!SequenceInv
      /\ part = "wayland clipboard" =>
           Offers!TypeOK /\ Offers!SourcesInv /\ Offers!CopiesInv
      /\ part = "x11 clipboard" => X11!ArrivalInv
<1>1. Sequence!SequenceAssumption /\ Offers!WaylandClipboardAssumption
      /\ X11!X11ClipboardAssumption
  BY PartsAssumption
<1>2. Init => Inv
  BY <1>1, SequenceRunsAlone, SequenceInvariant, OffersRunsAlone, SourcesInvariant, CopiesInvariant,
     X11RunsAlone, ArrivalInvariant
<1>3. Inv /\ [Next]_vars => Inv'
  BY <1>1, SequenceRunsAlone, SequenceInvariant, OffersRunsAlone, SourcesInvariant, CopiesInvariant,
     X11RunsAlone, ArrivalInvariant
<1>4. Inv => LocalCopiesArrive
  BY <1>1, ClipboardSettles, ArrivalInvariant DEF Sequence!SequenceInv, LocalCopiesArrive
<1> HIDE DEF Inv
<1> QED
  BY <1>2, <1>3, <1>4, PTL DEF Spec
=============================================================================
