------------------------------ MODULE MCParts -------------------------------
(***************************************************************************)
(* The parts of the client that are machines of their own, on small        *)
(* instances: which one runs is chosen at the start.  They take turns at   *)
(* the same sixteen variables; each INSTANCE says which is which, here and *)
(* in Desktops, where the backends' machines are.  An INSTANCE of a proof  *)
(* module brings the theorems about the part along.                        *)
(***************************************************************************)
EXTENDS Desktops, Integers, Sequences, TLC

CONSTANTS
  Texts, NoText, Refused, Echoes, MaxPackets, MaxCopies, RingSize, WriteQueue,
  MaxDraws, Pin, MaxEvents, MaxStatus, MaxInterrupts, MaxDepth, Passwords,
  NoPassword, MaxChallenges, NoReport, Notch, MaxTurn, MaxSide, MaxDimension,
  MaxDecoded, MaxImageBytes, Samples, MaxPayloadSize, MaxRawChunks,
  MaxPacketIndex, MaxFrames, Bools, Strings, Unknown, MaxArgs, MaxNamed

VARIABLE part

vars == <<part, s1, s2, s3, s4, s5, s6, s7, s8, s9, s10, s11, s12, s13, s14, s15, s16>>

\* Letters, the characters that URLs give a meaning to, and digits.
Typed == {<<"h">>, <<"-">>, <<"/">>, <<" ">>, <<"[", "-", "]">>, <<"0", "7">>}

\* A password that pinentry sends in two parts.
TwoParts == <<"p", "q">>

Output(left, width) == [left |-> left, width |-> width]

\* None, one, one of no size before others, overlapping ones, and a gap.
MonitorLayouts ==
  {<<>>, <<Output(0, 2)>>, <<Output(0, 0), Output(-2, 2), Output(0, 3)>>,
   <<Output(0, 2), Output(1, 2)>>, <<Output(0, 1), Output(3, 0), Output(2, 2)>>}

Clipboard ==
  INSTANCE Clipboard_proofs WITH
    ready <- s1, canSend <- s2, canReceive <- s3, text <- s4,
    generation <- s5, nextRequest <- s6, requests <- s7, desktop <- s8,
    events <- s9, inbox <- s10, asked <- s11, sent <- s12, copies <- s13,
    claims <- s14, shared <- s15, applied <- s16

Drawing ==
  INSTANCE Drawing_proofs WITH
    Size <- RingSize,
    ring <- s1, cursor <- s2, writer <- s3, inbox <- s4, handling <- s5,
    draw <- s6, pixels <- s7, window <- s8, outbound <- s9, acks <- s10,
    sent <- s11, shown <- s12, unread <- s13, lost <- s14

Stream ==
  INSTANCE SSHStream WITH
    process <- s1, output <- s2, pipe <- s3, state <- s4, reader <- s5,
    readResult <- s6, closer <- s7, wait <- s8

ConnectDialog ==
  INSTANCE ConnectDialog WITH
    Texts <- Typed, protocol <- s1, inputs <- s2, focus <- s3,
    dropdownOpen <- s4, message <- s5, outcome <- s6, events <- s7

Prompt ==
  INSTANCE PasswordPrompt WITH
    pc <- s1, step <- s2, data <- s3, answer <- s4,
    pinentry <- s5, lines <- s6, echo <- s7, restored <- s8, notified <- s9,
    caught <- s10, session <- s11, alive <- s12, statuses <- s13,
    interrupts <- s14

Rencodeplus ==
  INSTANCE Rencodeplus WITH
    value <- s1, wire <- s2, phase <- s3, got <- s4

Dialect ==
  INSTANCE Dialect WITH
    MaxPackets <- MaxNamed, compatible <- s1, legacy <- s2, clipboard <- s3,
    connected <- s4, inbox <- s5, understood <- s6, packets <- s7

Login ==
  INSTANCE Login WITH
    transport <- s1, url <- s2, environment <- s3, prompt <- s4,
    proxied <- s5, secret <- s6, challengeSeen <- s7, challenge <- s8,
    pending <- s9, sent <- s10, outcome <- s11, challenges <- s12

Pointer ==
  INSTANCE Pointer WITH
    Layouts <- MonitorLayouts, Points <- -3 .. 4, outputs <- s1,
    monitors <- s2, table <- s3, told <- s4

Painting ==
  INSTANCE Painting WITH
    kind <- s1, size <- s2, pixels <- s3, draw <- s4, result <- s5

Packets ==
  INSTANCE Packets WITH
    frames <- s1, waiting <- s2, held <- s3, delivered <- s4, ending <- s5

CommandLine ==
  INSTANCE CommandLine WITH
    args <- s1, checked <- s2, verdict <- s3, parsed <- s4, applied <- s5,
    outcome <- s6

-----------------------------------------------------------------------------
\* The variables that a part does not have.
Idle16 == s16 = 0
Idle15 == s15 = 0 /\ Idle16
Idle14 == s14 = 0 /\ Idle15
Idle13 == s13 = 0 /\ Idle14
Idle12 == s12 = 0 /\ Idle13
Idle11 == s11 = 0 /\ Idle12
Idle10 == s10 = 0 /\ Idle11
Idle9 == s9 = 0 /\ Idle10
Idle8 == s8 = 0 /\ Idle9
Idle7 == s7 = 0 /\ Idle8
Idle6 == s6 = 0 /\ Idle7
Idle5 == s5 = 0 /\ Idle6

Init ==
  \/ part = "clipboard" /\ Clipboard!Init
  \/ part = "drawing" /\ Drawing!Init /\ Idle15
  \/ part = "geometry" /\ Geometry!Init /\ Idle14
  \/ part = "wayland windows" /\ Wayland!Init /\ Idle13
  \/ part = "wayland cursor" /\ Cursor!Init /\ Idle12
  \/ part = "x11 clipboard" /\ X11!Init /\ Idle13
  \/ part = "x11 transfers" /\ Pastes!Init /\ Idle9
  \/ part = "wayland clipboard" /\ Offers!Init /\ Idle13
  \/ part = "sequence clipboard" /\ Sequence!Init /\ Idle8
  \/ part = "window thread" /\ Thread!Init /\ Idle13
  \/ part = "ssh stream" /\ Stream!Init /\ Idle9
  \/ part = "connect dialog" /\ ConnectDialog!Init /\ Idle8
  \/ part = "password prompt" /\ Prompt!Init /\ Idle15
  \/ part = "win32 tray" /\ Tray!Init /\ Idle13
  \/ part = "rencodeplus" /\ Rencodeplus!Init /\ Idle5
  \/ part = "dialect" /\ Dialect!Init /\ Idle8
  \/ part = "login" /\ Login!Init /\ Idle13
  \/ part = "pointer" /\ Pointer!Init /\ Idle5
  \/ part = "painting" /\ Painting!Init /\ Idle6
  \/ part = "packets" /\ Packets!Init /\ Idle6
  \/ part = "command line" /\ CommandLine!Init /\ Idle7

ClipboardSteps ==
  /\ part = "clipboard" /\ Clipboard!Next
  /\ UNCHANGED <<part>>

DrawingSteps ==
  /\ part = "drawing" /\ Drawing!Next
  /\ UNCHANGED <<part, s15, s16>>

GeometrySteps ==
  /\ part = "geometry" /\ Geometry!Next
  /\ UNCHANGED <<part, s14, s15, s16>>

WaylandWindowSteps ==
  /\ part = "wayland windows" /\ Wayland!Next
  /\ UNCHANGED <<part, s13, s14, s15, s16>>

WaylandCursorSteps ==
  /\ part = "wayland cursor" /\ Cursor!Next
  /\ UNCHANGED <<part, s12, s13, s14, s15, s16>>

X11ClipboardSteps ==
  /\ part = "x11 clipboard" /\ X11!Next
  /\ UNCHANGED <<part, s13, s14, s15, s16>>

X11TransfersSteps ==
  /\ part = "x11 transfers" /\ Pastes!Next
  /\ UNCHANGED <<part, s9, s10, s11, s12, s13, s14, s15, s16>>

WaylandClipboardSteps ==
  /\ part = "wayland clipboard" /\ Offers!Next
  /\ UNCHANGED <<part, s13, s14, s15, s16>>

SequenceClipboardSteps ==
  /\ part = "sequence clipboard" /\ Sequence!Next
  /\ UNCHANGED <<part, s8, s9, s10, s11, s12, s13, s14, s15, s16>>

WindowThreadSteps ==
  /\ part = "window thread" /\ Thread!Next
  /\ UNCHANGED <<part, s13, s14, s15, s16>>

SSHStreamSteps ==
  /\ part = "ssh stream" /\ Stream!Next
  /\ UNCHANGED <<part, s9, s10, s11, s12, s13, s14, s15, s16>>

ConnectDialogSteps ==
  /\ part = "connect dialog" /\ ConnectDialog!Next
  /\ UNCHANGED <<part, s8, s9, s10, s11, s12, s13, s14, s15, s16>>

PasswordPromptSteps ==
  /\ part = "password prompt" /\ Prompt!Next
  /\ UNCHANGED <<part, s15, s16>>

Win32TraySteps ==
  /\ part = "win32 tray" /\ Tray!Next
  /\ UNCHANGED <<part, s13, s14, s15, s16>>

RencodeplusSteps ==
  /\ part = "rencodeplus" /\ Rencodeplus!Next
  /\ UNCHANGED <<part, s5, s6, s7, s8, s9, s10, s11, s12, s13, s14, s15, s16>>

DialectSteps ==
  /\ part = "dialect" /\ Dialect!Next
  /\ UNCHANGED <<part, s8, s9, s10, s11, s12, s13, s14, s15, s16>>

LoginSteps ==
  /\ part = "login" /\ Login!Next
  /\ UNCHANGED <<part, s13, s14, s15, s16>>

PointerSteps ==
  /\ part = "pointer" /\ Pointer!Next
  /\ UNCHANGED <<part, s5, s6, s7, s8, s9, s10, s11, s12, s13, s14, s15, s16>>

PaintingSteps ==
  /\ part = "painting" /\ Painting!Next
  /\ UNCHANGED <<part, s6, s7, s8, s9, s10, s11, s12, s13, s14, s15, s16>>

PacketsSteps ==
  /\ part = "packets" /\ Packets!Next
  /\ UNCHANGED <<part, s6, s7, s8, s9, s10, s11, s12, s13, s14, s15, s16>>

CommandLineSteps ==
  /\ part = "command line" /\ CommandLine!Next
  /\ UNCHANGED <<part, s7, s8, s9, s10, s11, s12, s13, s14, s15, s16>>

Next ==
  \/ ClipboardSteps \/ DrawingSteps \/ GeometrySteps
  \/ WaylandWindowSteps \/ WaylandCursorSteps \/ X11ClipboardSteps
  \/ X11TransfersSteps \/ WaylandClipboardSteps \/ SequenceClipboardSteps
  \/ WindowThreadSteps \/ SSHStreamSteps \/ ConnectDialogSteps
  \/ PasswordPromptSteps \/ Win32TraySteps \/ RencodeplusSteps
  \/ DialectSteps \/ LoginSteps \/ PointerSteps
  \/ PaintingSteps \/ PacketsSteps \/ CommandLineSteps

Spec == Init /\ [][Next]_vars

\* Texts, places, sizes and windows are only compared with each other.
Symmetry ==
  Permutations(Texts \ Refused) \cup Permutations(Positions) \cup Permutations(WindowSizes)
    \cup Permutations(Windows)

ASSUME PartsAssumption ==
  /\ Clipboard!ClipboardAssumption /\ Drawing!DrawingAssumption
  /\ Geometry!GeometryAssumption /\ Wayland!WaylandAssumption
  /\ Cursor!CursorAssumption /\ X11!X11ClipboardAssumption
  /\ Pastes!X11TransfersAssumption
  /\ Offers!WaylandClipboardAssumption
  /\ Sequence!SequenceAssumption /\ Thread!WindowThreadAssumption
  /\ ConnectDialog!ConnectDialogAssumption /\ Prompt!PasswordPromptAssumption
  /\ Tray!Win32TrayAssumption /\ Rencodeplus!RencodeplusAssumption
  /\ Dialect!DialectAssumption /\ Login!LoginAssumption
  /\ Pointer!PointerAssumption /\ Painting!PaintingAssumption
  /\ Packets!PacketsAssumption /\ CommandLine!CommandLineAssumption

-----------------------------------------------------------------------------
(* Properties: each part's own, gathered by what they are about. *)

\* Every variable has the shape its comment gives it.
TypeOK ==
  /\ part = "clipboard" => Clipboard!TypeOK
  /\ part = "drawing" => Drawing!TypeOK
  /\ part = "geometry" => Geometry!TypeOK
  /\ part = "wayland windows" => Wayland!TypeOK

\* At most one clipboard request is open, and it belongs to the latest claim
\* (client/clipboard.go).
OneOpenRequest == part = "clipboard" => Clipboard!OneOpenRequest

\* A server that asks for the clipboard gets the text it was last told of
\* (client/clipboard.go).
NothingWithheld == part = "clipboard" => Clipboard!NothingWithheld

\* No step does what is not due: a remote text comes in the order of the claims
\* and only if it may (client/clipboard.go), and a window's geometry is reported
\* where the step leaves it (the backends' MoveResize, Minimize and Resized).
NoStepOutOfTurn ==
  [][/\ part = "clipboard" => Clipboard!RemoteTextsAreDue
     /\ part = "geometry" => Geometry!ReportsOnlyWhereItEnds]_vars

\* What is painted from shared memory is what the server wrote for that draw
\* (client/mmap.go).
PaintsWhatWasDrawn == part = "drawing" => Drawing!PaintsWhatWasDrawn

\* Each draw is acknowledged once, in order, and not before its part of the
\* ring is free; with nothing under way all of the ring is (client.go
\* handleDraw).
DrawsAreSettled ==
  part = "drawing" =>
    Drawing!PublishedBeforeAck /\ Drawing!RingDrains /\ Drawing!AcknowledgedOnce

\* Once all moves and reports are handled, client, desktop and server agree
\* where a visible window is (win32, x11 and darwin).
GeometryAgreesWhenSettled == part = "geometry" => Geometry!GeometryAgreesWhenSettled

\* A Wayland window is never shown before its surface was configured nor hung
\* off a window that is gone, its damage stays inside its buffer, and in the
\* end its surface shows that buffer (wayland/window.go, wire.go).
WindowShowsItsBuffer ==
  part = "wayland windows" =>
    /\ Wayland!NeverRefused
    /\ Wayland!PaintsInsideBuffer
    /\ Wayland!ShowsItsBuffer

\* Pointer and keyboard are where the compositor says, and always at a window
\* that is still open (wayland/input.go, wire.go).
InputGoesWhereTheSeatIs ==
  part = "wayland windows" => Wayland!InputGoesWhereTheSeatIs

\* When everything is handled, the last local copy that was reported is the one
\* on the desktop's clipboard, and a remote text is published unless a copy came
\* after it (the backends' clipboard.go), unless an answer overtook another, or a
\* large X11 copy met another, since it was last quiet.
LocalCopiesArrive ==
  /\ part = "x11 clipboard" => X11!LocalCopiesArrive
  /\ part = "wayland clipboard" =>
       Offers!LocalCopiesArrive /\ Offers!OwnTextIsPublished
  /\ part = "sequence clipboard" => Sequence!LocalCopiesArrive

\* A paste that ends has all of one text, however often the text is replaced
\* meanwhile (x11/clipboard.go, incremental transfers).
PastesAreWhole == part = "x11 transfers" => Pastes!PastesAreWhole

\* Nobody waits for a thread that has ended or sleeps, and what was queued
\* before the close runs before the cleanup (win32/display.go, darwin/run.go);
\* Close waits for an ssh that is ending (cmd/go-xpra/ssh.go).
NobodyIsStranded ==
  /\ part = "window thread" => Thread!NobodyIsStranded /\ Thread!CleanupComesLast
  /\ part = "ssh stream" => Stream!CloseIsNotStuck

\* Nothing is left behind, and nothing in use is let go of: icons and cursors
\* (win32/tray.go, wayland/cursor.go), the ssh process (ssh.go), the terminal's
\* echo and half a password (password_linux.go).
NothingIsLeftBehind ==
  /\ part = "win32 tray" => Tray!DesktopIsLeftClean
  /\ part = "wayland cursor" => Cursor!CursorShownIsAlive
  /\ part = "ssh stream" => Stream!NoChildLeft /\ Stream!CleanEndIsClean
  /\ part = "password prompt" =>
       Prompt!EchoIsRestored /\ Prompt!PasswordIsComplete

\* What was encoded is decoded to the same value and anything else is refused
\* (rencodeplus), and every packet has all of its own chunks and nobody else's
\* (protocol/conn.go).
StreamsAreUnderstood ==
  /\ part = "rencodeplus" => Rencodeplus!RoundTrips
  /\ part = "packets" => Packets!PacketsAreWhole

\* Damage lands in the window where it was drawn, in its colours, and nowhere
\* else; only a broken draw is refused (ui/pixels.go, client/image.go).
PaintsWhereDrawn ==
  part = "painting" => Painting!PaintsWhereDrawn /\ Painting!GoodDrawsArePainted

\* The server finds every position where it is, and counts the notches that the
\* wheel turned (client/monitor.go, client/input.go).
PointerReportsAreTrue ==
  part = "pointer" => Pointer!PositionsAreRecovered /\ Pointer!NotchesAreCounted

\* The dialog and the URL name the same server (connect_dialog.go, main.go), and
\* the spelling check knows an option when package flag does (main.go).
FrontEndsAgree ==
  /\ part = "connect dialog" => ConnectDialog!CursorInText /\ ConnectDialog!FrontEndsAgree
  /\ part = "command line" => CommandLine!OptionsAreSpelled

\* A password answers one challenge, of the server it was given for, and only
\* in a digest (client.go handleChallenge, hello.go, main.go connect).
CredentialsStayInPlace == part = "login" => Login!CredentialsStayInPlace

\* What the hello asks for is done as the server meant it, whichever names it
\* uses (protocol/packet.go, client.go handlePacket).
AskedForIsHandled == part = "dialect" => Dialect!AskedForIsHandled
=============================================================================
