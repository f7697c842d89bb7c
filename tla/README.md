# go-xpra in TLA+

go-xpra is a client for xpra, the remote desktop: it connects to a server,
shows the server's windows on the local desktop, and sends the user's input
back. This directory models the parts of it whose correctness depends on the
order in which things happen, model-checks them with TLC, and proves some of
the results with TLAPS. Line numbers refer to the sources beside it.

## The system

| Component | State | Operations | Talks to |
|---|---|---|---|
| Event queue (`ui/event_queue.go`) and relay goroutine (`win32`, `wayland`, `darwin` `display.go`) | `events`, soft limit, one-token `Wake` channel | `Push` (coalesce, discard, evict, grow), `Pop`, the relay's loop | backends' callbacks push; the relay sends on `Display.Events()` |
| Framed connection (`protocol/conn.go`) | write queue, `closed`, `closing`, `err`, packet channel, raw chunks | `Send`, `Flush`, `Close`, `fail`, `readLoop`, `writeLoop` | every caller of `Send`; the socket |
| Session (`client/client.go`, `client/mmap.go`, `cmd/go-xpra`) | `quit`, `exitErr`, `disconnect`, `challengeSeen`, mmap area and its file, ping ticker | `Run`'s select, hello, challenge, ping, disconnect, `stop`, flush, signal handler | connection, display, signals |
| Windows (`client/client.go`) | each window's geometry, `windows`, `byLocal`, `iconified`, `serverIconic`, iconify timers | new, lost, metadata, show-desktop, minimized, configure | display calls, window-map/unmap packets |
| Keyboard focus (`client/input.go`) | `focused`, `focusLosing`, focus timer | focus, focus lost, timer | window-focus packets |
| Clipboard (`client/clipboard.go`) | readiness, direction, text, generation, open requests | token, contents, request, status, enable-selections, local change | display `SetText`, clipboard packets |
| Screen updates (`client/client.go`, `client/mmap.go`) | shared ring, read cursor | draw: look up, decode, paint, release, acknowledge | the server's process, through shared memory |
| Native windows (`win32/window.go`, `wayland/window.go`, `x11/window.go`, `darwin/window.go`) | geometry, states, surface, role, buffer | move, resize, minimize, map, destroy, paint | the desktop; callbacks push events |
| Native input (`wayland/input.go`, the wheel handlers) | pointer, keyboard, the windows they are at | enter, leave, wheel | pointer and key packets |
| Native clipboards (`clipboard.go` of each backend) | ownership, serial or sequence number, transfers | publish, read, serve, notice | other applications, through the desktop |
| Window thread (`win32/display.go`, `darwin/run.go`) | queue of functions, wake-up message, stopping | post, call, run, close | every goroutine that touches a native window |
| Tray and cursor (`win32/tray.go`, `wayland/cursor.go`) | the desktop's handles in use | show, replace, forget, restore | Explorer; the compositor |
| Hello and authentication (`client/hello.go`, `client.go`, `cmd/go-xpra/main.go`) | whether a challenge was answered, whose password it is | challenge, digest, names of packets | the server |
| Codecs (`rencodeplus`, `protocol/packet.go`, `header.go`, `client/image.go`, `ui/pixels.go`, `client/monitor.go`) | none, or raw chunks awaiting their packet | encode, decode, clip, convert, locate | packets |
| Transports (`protocol/websocket.go`, `cmd/go-xpra/ssh.go`) | a child process for ssh | dial, read, write, close | the framed connection |
| Front ends (`cmd/go-xpra/main.go`, `connect_dialog.go`, `password_linux.go`) | the form's fields and focus, the terminal's echo | parse, type, click, prompt, interrupt | the user |

Almost all of the client's state belongs to one goroutine, the run loop. It
selects among packets, desktop events, timers, signals and its own `quit`
channel, and Go's `select` picks at random among what is ready. What is hard:

* **order**: the run loop handles each source in its order and mixes sources in
  any order, so a timer's report, a desktop event and a packet about the same
  window can arrive in every interleaving, also after the window has gone;
* **concurrency**: several goroutines push into the event queue and into the
  connection, and both have a window between the unlock and the send that
  follows it;
* **limits**: the event queue may discard, the write queue may refuse, the
  timers' channels have room for a few, the ring is reused as soon as a cursor
  says so;
* **endings**: a server disconnect, a connection failure, a closed display, a
  menu exit and an interrupt can coincide, and the goodbye, the error and the
  shared memory's file must come out right in every case.

## Modules

| Module | Models | State and actions |
|---|---|---|
| `InputChannel` | what the event queue promises about input: a lossless FIFO channel until the stop | abstract |
| `EventQueue` | `ui/event_queue.go` and the relay loops | `pending`, `wake` are the queue's fields; `signalling` is the set of producers between the unlock and the non-blocking send to `Wake`; `relay` is where the relay goroutine is. `Push` is the critical section with its five outcomes (`AppendBelowLimit`, `ReplaceNewestMatch`, `DiscardUnmatched`, `EvictOldestVictim`, `GrowPastLimit`), `Signal` what follows it |
| `Conn` | `protocol/conn.go` | one program counter per caller and loop; every lock section, channel operation and socket call is an action. `queued` and `written` are histories of accepted and written frames |
| `Session` | `Client.Run`, the handlers that can end it, `connect`, `onInterrupt` | `run` is the position of `Run` and its caller; one action per case of the select and per packet type; the connection is reduced to its bounded queue and how it ends |
| `Windows` | the window maps, minimizing, show-desktop, focus | the client's maps under their names; the desktop is `alive`, `minimized`, `holder`, the calls it has not carried out (`requests`) and the events not handled (`events`) |
| `Geometry` | `handleMoveResize`, `handleConfigure`, and `MoveResize`, `Resized`, `Minimize`, `SetState`, `restore` of the native windows | `known` is what `Geometry()` returns; `posted` the calls the window's thread (or the X server) has still to run, `Carry` runs one; `events` the reports the client has still to handle |
| `Clipboard` | `client/clipboard.go` | the client's fields under their names; `inbox`, `events` are what is under way towards it; `shared` is the text the server was last told of, or told us |
| `Drawing` | `handleDraw`, `mmapArea.readChunks` and `release` | the ring's cells hold the number of the draw they were written for; `handling` is the position in `handleDraw`, split where the server's process can see or change the ring |
| `WaylandWindow` | `wayland/window.go`, the windows' half of `input.go`, object ids of `wire.go` | `win` is each window's role, size, buffer and whether it is mapped and configured; `surface` what the compositor has of it, `wire` the compositor's events not yet read, `seat` where pointer and keyboard are on both sides. Server calls, compositor events and handlers are the actions |
| `WaylandCursor` | `wayland/cursor.go` | `serial` of the last enter handled, the image `shown` and the one whose memory is `owned`; `enters` on the wire, some into windows that are `gone` by then |
| `WaylandClipboard` | `wayland/clipboard.go` | `pending` text, our `source`, `reads` under way (a goroutine each, which end in any order), the `wire`, and the compositor's `selection` |
| `X11Clipboard` | `x11/clipboard.go`, receiving | `requested` and `receiving` are the client's conversion; `property` is the one that every application answers into, `asks` the conversions under way, which are answered in any order, `increment` the large copies under way, `events` the X server's |
| `X11Transfers` | `x11/clipboard.go`, serving | `transfers` in progress, and what each `Requestors` window has got |
| `SequenceClipboard` | `win32/clipboard.go`, `darwin/clipboard.go` | `sequence` of the desktop, `own` and `seen` of ours, `updates` notified and not handled |
| `WindowThread` | post, call, close of `win32/display.go`; the main loop of `darwin/run.go` | a program counter per caller, the `queue`, the thread's `messages` |
| `SSHStream` | `cmd/go-xpra/ssh.go` | `process` and its `pipe`; the reader and the closer, one program counter each |
| `Win32Tray` | `win32/tray.go`, the session cursor of `cursor.go` | `owned` are the handles that exist, `shown` the icons Explorer has |
| `PasswordPrompt` | `cmd/go-xpra/password_linux.go` | where the prompt is, pinentry's conversation, the terminal's `echo`, the interrupt handlers in force |
| `ConnectDialog` | `connect_dialog.go`'s form, `parseConnectionURL` | the form's fields, focus and drop-down, an action per key and click; the URL parser as an operator beside the form's target |
| `CommandLine` | `validateOptionSpelling` and the parse that follows it | the arguments, what was checked, what `flag` sets |
| `Login` | `connect`, `handleChallenge`, `challengeResponse`, digests | the passwords known, `challengeSeen`, what was `sent` |
| `Dialect` | the hello's packet families, `Canonical` names, `handlePacket`'s cases | a packet as a meaning and a name on the wire |
| `Rencodeplus` | `rencodeplus/` | `Encode` and `Decode` over bytes; the state is one value on its way, which may be cut or extended |
| `Packets` | `header.go`, `readLoop`'s raw chunks, `decompress` | frames that wait, chunks `held`, packets `delivered` |
| `Painting` | `decodeImage`, `ClipDamage`, `ConverterFor`, `Convert`, the four `Paint`s | a window's `pixels`, each byte named by where in the packet it came from |
| `Pointer` | `monitor.go`, hello's monitors, pointer position and wheel packets | the display's `outputs`, the `monitors` we know, the server's `table` |
| `Desktops` | what the backends make of the desktops | puts `Geometry`, `WaylandWindow`, `WaylandCursor`, `WindowThread`, `Win32Tray` and the native clipboards side by side: they use the variables `s1` to `s16` in turn |
| `MCParts` | the parts one at a time | extends `Desktops` by the other modules from `Clipboard` to `Pointer` above; `part` says which one a behaviour belongs to |
| `EventQueue_proofs`, `Conn_proofs`, `Windows_proofs`, `Session_proofs`, `Clipboard_proofs`, `Drawing_proofs` | proofs | theorems about the module they are named after |
| `Desktops_proofs` | proofs | lemmas about the machines of `Desktops`: their types, their inductive invariants, and what follows from these |
| `MCParts_proofs` | proofs | theorems about the specification that the `parts` run explores: those of the clipboard, the draws and the desktops carried over to it, and the proofs about login, ssh, prompts and packet names |
| other `MC*` | | the modules with TLC's symmetry sets |

The modules meet at their edges: `Session` and `Drawing` use the write queue as
`Conn` shows it (bounded, refusing when full, first-in first-out), and `Windows`
and `Clipboard` take their events in the order `EventQueue` shows for events of
one kind. What native windows and clipboards report in `Geometry`,
`X11Clipboard` and the like is what `Windows` and `Clipboard` take as their
events; `Packets` and `Conn` are two views of one read loop, of its data and of
its goroutine. Each is checked by itself: composing them would multiply state
spaces that only touch through a queue.

Definitions marked "Mutant" are faulty variants of the definition after them.
Nothing uses them; put in its place, each makes the property that guards
against it fail, which shows that the property depends on that code.

## What is checked

Every run ends with no deadlock check where the environment stops at its bounds;
`CHECK_DEADLOCK FALSE` says so in each configuration.

| Run | Properties | Bounds, and why they are enough |
|---|---|---|
| `event_queue` | `TypeOK`, `NoLostWakeup`, `GrowsOnlyWithInput`, `InputNeverLost`, `NoOvertaking`, `RelayTerminates`, refinement of `InputChannel` | two producers (any two may be between unlock and wake), two windows (coalescing is per window), limit 2 and 4 events: the limit is reached, exceeded, and left again |
| `conn` | `WrittenInOrder`, `EndIsExplained`, `FlushIsHonest` | two callers, a queue of 2, two frames out, one packet and one raw chunk in, one flush: the queue fills, a flush waits behind a frame, both loops fail, a caller closes, in every order; `ender` is who was the first |
| `conn_live` | `FlushEndsWithConnection`, `LoopsStop` | one caller and a queue of 1; the flush timer is not assumed to fire |
| `windows` | `MapsAgree`, `NothingOutlivesItsWindow`, `IconicAgreesWhenSettled`, `FocusAgreesWhenSettled` | two ids, two local windows, four inputs of any kind: both windows under one id in turn, or side by side, with events and timers of the first left over |
| `session` | `GoodbyeReachesTheServer`, `ReturnIsExplained`, `NoFileLeft`, `InterruptEnds`, `StopEndsTheLoop` | two packets (two challenges, or a hello and a disconnect), two signals (caught and fatal), one tick, a write queue of 1, which fills |
| `parts` | nineteen, below | each part's own, below |

`parts` explores the twenty-one components of `MCParts` one at a time; its
properties, `TypeOK` among them, gather theirs by subject. What they say, and on which instance:

| Property | About | Bounds |
|---|---|---|
| `OneOpenRequest`, `NothingWithheld`, `NoStepOutOfTurn` | clipboard claims, requests and answers in any order | three texts, one refused, four packets, one copy |
| `PaintsWhatWasDrawn`, `DrawsAreSettled` | the shared ring | 4 cells and 4 draws: the writer wraps, splits a draw and catches up |
| `GeometryAgreesWhenSettled`, `NoStepOutOfTurn` | moves, minimizing and maximizing on three backends | two positions, two sizes and the maximized one, five inputs of any kind |
| `WindowShowsItsBuffer`, `InputGoesWhereTheSeatIs` | Wayland surfaces, popups, failing memory, input on the wire | two windows, sizes up to 2, two configures, one move or paint of the server's, two events on the wire |
| `LocalCopiesArrive` | the receiving half of four clipboards; on Wayland also that our own text is published | three copies, one refused as UTF-8 and one incremental, one text of ours (three on Wayland), owners that answer late, out of turn or vanish, five changes of a sequence number |
| `PastesAreWhole` | incremental pastes while the text changes | two pasting windows, three texts, two of them large, three pastes |
| `NobodyIsStranded` | the window thread's callers, and ssh's | the closing client, one other caller, a queue of 2 |
| `NothingIsLeftBehind` | icons, cursors, the ssh process, the terminal's echo, half a password | four handles, two restarts of Explorer, three images and two enters, three interrupts |
| `StreamsAreUnderstood` | rencodeplus and raw chunks | values at every boundary of the format, nested four deep, cut or extended; three frames, two chunks, payloads around the limit |
| `PaintsWhereDrawn` | clipping, conversion, colours | windows and damage up to 2 by 2 at every offset, each format, padding in both rowstrides |
| `PointerReportsAreTrue` | positions and wheel notches | five layouts with a gap, an overlap and monitors of no size, positions -3 to 4, half-notch steps |
| `FrontEndsAgree` | the dialog's target against the URL parser; option spelling against package `flag` | five events of any kind on texts of every class the URL syntax tells apart; three arguments |
| `CredentialsStayInPlace` | whose password answers which challenge | two passwords, two challenges, each transport |
| `AskedForIsHandled` | packet names | three packets, both kinds of server and client |

The bounds are the smallest at which each of the orders that a handler's code
distinguishes occurs: an event, the one that overtakes it, and one more.

Six runs end in a violation on purpose: they state what a comment or a test of
the repository says and the code does not do.

* `event_queue_discards`: a full queue discards or evicts clipboard changes
  (`ui/event_queue.go:97`) although the backends' comments say "only motion and
  configure events". The server then keeps an older clipboard text.
* `windows_restore`: `handleMinimized` compares a change with the server's last
  *iconic* request, for ever. After `iconic=false`, a window the user minimizes
  (reported) and restores is not reported as restored.
* `clipboard_echo`: of two remote texts applied before the desktop's event for
  the first is handled, the first is taken for a local copy and offered back.
* `geometry_restore`: on Win32 a move that arrives while the window is minimized
  is held in `pending` until the *server* restores the window. If the user
  restores it instead, the position stays there, and the server's next restore
  takes the window to it although the server has moved the window since.
* `wayland_resize`: `resize` compares the compositor's size with the size the
  client last answered with. A configure back to that size which comes before
  the answer to the one between is ignored, and the window keeps a size the
  compositor has taken back.
* `local_copy_overtaken`: on X11 every application answers into one property,
  and a `SelectionNotify` does not say whose value is there when it is handled.
  Of two copies, the second of them large, the first one's notification finds
  and deletes the announcement of the second one's increments; the property is
  then empty when that announcement's own event is handled, and the client
  reports an empty text and never reads the large one. The run has two
  applications that answer in the order in which they are asked.

Other divergences were met while modelling and have no run of their own.
After the server's disconnect, `Run` may return an error instead of nil when the
connection or the display ends before it looks at `quit`. A full write queue
drops the acknowledgement of a draw although "every draw must be acknowledged".
`ui/event.go:12` says that backends never echo a `MoveResize`, and the native
ones do; of two close moves the first echo is reported as the desktop's.
`Conn.Send` "returns an error only if the packet cannot be encoded" and also does
for a full queue. The iconify timers leave only a window id in their channel, so
a window that is minimized, restored and minimized again is reported when the
*first* timer fires. A change the server asked for is reported back to it
if the server has asked for the opposite before the desktop's event is handled.
`README.md:109` says that outgoing packets always use the modern names; a
compatible client sends disconnect, the ping's echo, the wheel and clipboard
claims under the legacy ones (`client/client.go:182`, `620`). `Run` may return
nil although the connection broke or the display closed, if the user or the
server wished the end at the same time: `select` takes either case. The
connection form takes `[]` for a host, because it looks for an empty host before
it removes the brackets, and the URL parser does not take an empty host.

## Fairness

Weak fairness is given to goroutines that can run (a runnable goroutine is
scheduled), and to cases of a select that stay ready (`select` picks uniformly,
so a ready case is taken eventually). The user, the server and the network are
under no obligation; neither is the password prompt, which `InterruptEnds` and
`StopEndsTheLoop` therefore except. `Conn`'s liveness does not use `Flush`'s
timer; `Session` does not need more of `Flush` than that it returns, which the
timer ensures.

## What is proved

The theorems hold for every value of the constants: any number of producers,
callers, windows, requestors and draws, queues and rings of any size, histories
of any length. All are safety properties, proved by an inductive invariant that
TLC checked first. `Spec => []P` names the property `P` that a run checks.

`EventQueue_proofs`

* `TypeCorrect`; `WakeupNeverLost` (`NoLostWakeup`): the relay sleeps only on an
  empty queue, and each push that stores an event leaves its producer in
  `signalling` until the token is in `wake`.
* `QueueGrowsOnlyWithInput`: growth beyond the limit happens only when no victim
  is left, so everything queued is input, and eviction keeps the length.
* `InputIsKept` (`InputNeverLost`): each input event emitted is delivered, held
  or queued; no push replaces, evicts or discards one.
* `NothingOvertakes` (`NoOvertaking`), by `OrderInv`: what is delivered, held and
  queued are genuine events of the history, and of two that may not overtake
  each other the older one is further on. Replacing an event in place is the
  step that needs all of it: only a *newest* match keeps the order.
* `ChannelImplemented`: `Spec => Input!Safety`, the refinement of `InputChannel`
  step by step. Its fairness is left to the `event_queue` run.

`Conn_proofs`

* `TypeCorrect`; `EndExplained` (`EndIsExplained`), by `EndInv`: `fail` records
  its error only if nobody had failed or closed before, so the error is that of
  the loop that was first, and there is none after a wanted close.
* `FramesInOrder` (`WrittenInOrder`), by `QueueInv`: while the write loop runs
  the queue holds exactly the frames not taken yet, in increasing order.
* `FlushHonest` (`FlushIsHonest`), by `FlushNumbers` and `MarkerInv`: no frame
  accepted before a flush is behind its marker, so when the write loop comes to
  the marker they are all written. Markers are never reused, which keeps one
  caller's flush from answering another's.

`Windows_proofs`

* `TypeCorrect`, `MapsStayInverse` (`MapsAgree`) and `NothingIsInherited`
  (`NothingOutlivesItsWindow`) are inductive together.
* `FocusSettles` (`FocusAgreesWhenSettled`), by `FocusInv`: for each window, the
  last focus event under way about it says what the desktop has, and a loss
  that is not reported yet is in the timer or its channel.
* `IconicSettles` (`IconicAgreesWhenSettled`), by `IconicInv`: the same of the
  minimized state, with the timers and the channel of due windows between.

`Session_proofs`

* `TypeCorrect`, `FileIsRemoved` (`NoFileLeft`).
* `ReturnsAreExplained` (`ReturnIsExplained`), by `StopKnown`: the loop holds an
  error exactly when a handler failed, and is told to stop only for a reason.
* `GoodbyesAreAccounted` (`GoodbyeReachesTheServer`): the goodbye of a session
  its user ended is sent, still queued, or it is known what took it. With
  `FlushTells`, which says that a flush reporting success left an empty queue,
  nothing is still queued at the end.

`Clipboard_proofs`

* `TypeCorrect`, `OneRequestAtATime`, `WhatIsKnownIsOffered`.
* `RemoteTextsInOrder` (`[][RemoteTextsAreDue]_vars`), by `DueInv`: a claim under
  way is newer than all that was sent before it and than what was applied, and
  an answer that still has its request belongs to a claim that is due.

`Drawing_proofs`

* `TypeCorrect`; `PaintsAreTrue` (`PaintsWhatWasDrawn`), by `RingInv`: from the
  read cursor to the writer, around the ring's end, lie the draws in use, in the
  order they were sent and unharmed. That is what the server's one free cell is
  for: without it a full ring and an empty one are the same.
* `DrawsSettle` (`PublishedBeforeAck`, `RingDrains`, `AcknowledgedOnce`), by
  `AckInv`: the draws done with are those acknowledged and those refused by a
  full queue, and draws whose cells are not back are still in use.

`Desktops_proofs` and `MCParts_proofs` are read together. In the specification
that the `parts` run explores, a behaviour belongs to the part chosen at the
start (`PartStays`) and takes only its steps (`OnlyItsOwnSteps`). For each
machine of `Desktops`, `Desktops_proofs` shows without temporal formulas that an
invariant holds at first, that every step of the machine keeps it, and what it
implies; `MCParts_proofs` makes theorems of `Spec` from that, and proves the
other parts. `s1`, `s2` and so on are the machine's variables as its `INSTANCE`
says; a proof calls them by the machine's own names.

`OneRequestAtATime`, `WhatIsKnownIsOffered`, `PaintsAreTrue` and `DrawsSettle`
carry over what is above. The other theorems are

* `TypeCorrect` (`TypeOK`), of the clipboard, the ring, geometry and Wayland.
* `GeometrySettles` (`GeometryAgreesWhenSettled`), by `SettleInv`: where the
  window is is the latest report under way, or there is none and the client
  knows where a call, posted or held back while minimized, will take it.
* `StepsInTurn` (`NoStepOutOfTurn`): `RemoteTextsInOrder`, and what a backend
  reports of a window's geometry is where the step leaves it (`ReportsAreFinal`).
* `InputFollowsTheSeat` (`InputGoesWhereTheSeatIs`), by `SeatInv`: of the events
  on the wire about a device the last one puts it where the compositor has it,
  and the client has it there already if there is none. The client forgets a
  window it closes at once, while events about it are still on the wire. By
  `ObjectsInv` their ids are still in use: an id is given back with an event
  that comes after all of the seat's.
* `WindowsShowTheirBuffers` (`WindowShowsItsBuffer`), by `BuffersInv`: a window
  that is mapped and configured is on the screen, with the buffer it is painted
  into, or with its old one and a paint owed by the server; every open window
  has a buffer; and the client takes no surface for configured that is not.
* `CredentialsStay` (`CredentialsStayInPlace`), by `LoginInv`: at most one reply
  was made, with the salt of the challenge it answers, and the server's verdict
  is about the password used.
* `NothingLeftBehind` (`NothingIsLeftBehind`): the tray's and the cursor's
  handles in use are the ones that exist (`TrayInv`); the Wayland enters on the
  wire are the latest, so the image shown is the last one set (`CursorInv`); ssh
  was reaped only after it ended (`ReapedInv`); the echo is off only between two
  points at which an interrupt reaches the prompt (`EchoInv`), and what was read
  from pinentry and what is to come are one response (`ResponseInv`).
* `PastesComeWhole` (`PastesAreWhole`), by `TransfersInv`: a requestor has read
  all the pieces its transfer handed out but the one in its property; of its
  events at most a deletion and, after it, a new request wait.
* `NobodyWaitsInVain` (`NobodyIsStranded`), by `WindowThreadInv`: what somebody
  waits for is queued, and the thread is awake or has a message; the order in
  which `done`, the stop and the cleanup come on each backend; and that the
  client's own functions are ahead of its cleanup.
* `AskedForComesThrough` (`AskedForIsHandled`), by `PacketsInv`: what waits is
  what the server may send. The lemma it rests on, `HandledAsMeant`, goes through
  the packets by the kind of name they have: folded, legacy only, or one.
* `LocalCopiesComeThrough` (`LocalCopiesArrive`), where nothing was `overtaken`.
  On Windows and AppKit (`SequenceInv`) a number says whose text is there.
  On Wayland our sources that are alive are the selection and those about to be
  cancelled (`SourcesInv`), and the copy that is selected is the last announced,
  the last being read, or reported (`CopiesInv`). On X11 (`ArrivalInv`) the
  owner's text is where one of five steps leaves it, from its owner's event to
  its report; a copy in increments has the property and the events to itself,
  unless a text of ours cuts it off. Then the client stays `receiving`, and the
  invariant says that an owner's event ends that before anything else is read.

### Assumptions

The `ASSUME`s of the modules say that limits are numbers, that sentinels and
tags are not among the values they stand beside, and that goroutines with
different names are different; a queue, and the channel of iconify timers, has
room for one item, and the ring for two cells. One goes further: in
`WindowThread` the queue has room for one function of every other goroutine
(`Cardinality(Others) <= Capacity`): the channels have 64 places
(`darwin/run.go:100`, `win32/display.go:93`), and the client's other goroutines
are a handful. On AppKit it is needed: a post that finds the queue full after the
main thread has ended would wait for ever. What the environment is taken to do
is not assumed but modelled, and is listed below.

### What the proofs found

* `CASE` with two arms that hold at once is a free choice among them. TLC takes
  the first arm and the provers none, so four definitions (`ParseOption`,
  `RunCalls`, the dialog's transport, `Handled`) said less than the code does.
  They are tests in order now, as in the code.
* The clipboard's server could answer a request with the text of a claim older
  than one it had sent, which no server does, and `RemoteTextsAreDue` is false
  of such a server. The bound on packets had been too small for a run to reach it.

### What stays with TLC

* Liveness (`RelayTerminates`, `FlushEndsWithConnection`, `LoopsStop`,
  `InterruptEnds`, `StopEndsTheLoop`) and `InputChannel`'s fairness: both need
  `ENABLED`, which the provers do not have.
* What recursive definitions compute for every input: rencodeplus, the parsers,
  clipping and conversion (`StreamsAreUnderstood`, `PaintsWhereDrawn`,
  `FrontEndsAgree`). It takes an induction over data. `Pointer`'s monitors are
  matched with `SelectSeq`, which is recursive too (`PointerReportsAreTrue`).

## What is not modelled, and assumptions

* What Windows does with a minimized or maximized window (`Geometry`): a move of
  a maximized window leaves its normal position alone, and a window minimized
  while maximized is maximized again by a restore. The queue's limit, at which
  it discards reports, is not reached. The conversion between outer frame and
  content area is exact.
* Neither X11 nor Wayland promises that applications hand over their texts in
  the order in which they copied them, and nothing in the code tells a late
  answer from a timely one. Both models let them come in any order, and
  `LocalCopiesArrive` excepts, by the history `overtaken`, just the cases in
  which the code may be misled. On Wayland that is a newest read which ended
  before an older one, until the next copy. On X11 it is, until the next copy
  that finds every event handled and nothing under way: an answer before that of
  a request made earlier; an owner that vanishes while other requests are not
  answered; a copy made while a large one is asked for or under way; a large copy
  made while anything is asked for or an event waits; and an answer of our own
  when nobody owns the selection any more. `local_copy_overtaken` checks the
  property without the exception, on X11.
* `X11Clipboard`: a text of ours that the client asks for itself, because the
  owner changed meanwhile, is answered in one piece; an application that has lost
  the selection gives an unread transfer up; and an incremental copy has two
  increments.
* Local window ids are never reused (`Windows`). X11 and Wayland ids are not in
  practice; a Win32 window handle may be, after its window's destruction.
* The server's behaviour is not in this repository: it sends anything the
  protocol allows, in any order, and its ring writer keeps one cell free. So is
  that of the desktops; what the models take it to be is in the definitions
  mapped as external.
* Keys and buttons, bells, notifications, titles, size constraints and icons
  translate one packet or event into one call and keep no state. `Dialect` has
  the names of their packets, and nothing else of them is modelled.
* Keymaps and key names are tables. The JPEG, PNG and WebP decoders, LZ4,
  Brotli, TLS and the WebSocket transport are libraries: models choose whether
  they succeed. `Painting` takes one colour per WebP image.
* `Rencodeplus` treats integers wider than 32 bits and floats as opaque bytes.
* The shims over native APIs (`win32/api.go`, `darwin/objc.go`,
  `wayland/wire.go`'s marshalling) do one system call each.
* The dialog's drawing and its icon, the Windows credentials dialog, the mock
  server, packaging.
* The signal handler's second interrupt kills the process: what it leaves
  behind is in `PasswordPrompt` (the echo) and excepted in `NoFileLeft`.

## Plan

Every component that keeps state of its own is modelled, and every safety
property the runs check is proved, but for those listed under what stays with
TLC.

`Desktops_proofs` is the longest to check, about seven minutes; `MCParts_proofs`
takes four.
