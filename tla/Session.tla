------------------------------- MODULE Session -------------------------------
(***************************************************************************)
(* A session from the first hello to the last cleanup: Client.Run's select *)
(* loop, what makes it return, and what connect and onInterrupt do around  *)
(* it (client/client.go, client/mmap.go, cmd/go-xpra/main.go, signals.go). *)
(*                                                                         *)
(* A select takes any ready case, so a packet, a menu choice, a signal and *)
(* the end of the connection may be noticed in any order, also after the   *)
(* loop has been told to stop.  The connection is the one of Conn, reduced *)
(* to its bounded queue and to the way it ends.                            *)
(***************************************************************************)
EXTENDS Naturals, Sequences

CONSTANTS
  WriteQueue,   \* capacity of the connection's write queue
  Mmap,         \* EnableMmap was called: the server is on a local socket
  MaxPackets,   \* bound: packets the server sends
  MaxTicks,     \* bound: ticks of the ping timer
  MaxSignals    \* bound: interrupts

ASSUME SessionAssumption ==
  /\ WriteQueue \in Nat \ {0}
  /\ Mmap \in BOOLEAN
  /\ MaxPackets \in Nat /\ MaxTicks \in Nat /\ MaxSignals \in Nat

VARIABLES
  run,            \* where Run and its caller are
  quit,           \* the quit channel is closed
  exitErr,        \* Client.exitErr: "none" or "failure"
  returned,       \* what Run returns
  disconnect,     \* a reason is in the disconnect channel
  challengeSeen,  \* Client.challengeSeen
  pinging,        \* pingTicks is not nil
  area,           \* Client.mmap: "none", "offered" or "enabled"
  file,           \* the mmap backing file exists
  inbox,          \* packets received and not handled
  ended,          \* the packet stream: "no", "clean" or "error"
  outbound,       \* the write queue: goodbyes and other packets
  goodbyeSent,    \* the connection has written a goodbye
  display,        \* the display's events channel is open
  notified,       \* signals are delivered to the handler's channel
  signals,        \* a signal is in that channel
  handler,        \* the goroutine of onInterrupt
  sent,           \* history: packets the server sent
  ticks,          \* history: ticks
  interrupts,     \* history: interrupts
  cause,          \* history: what stopped the loop first
  failed,         \* history: a handler failed
  goodbyeLost,    \* history: the queue had no room for the goodbye
  flushed         \* history: how the last flush ended

loopVars == <<quit, exitErr, challengeSeen, cause, failed>>
mmapVars == <<area, file>>
connVars == <<inbox, ended, outbound, goodbyeSent, sent, goodbyeLost>>
signalVars == <<notified, signals, handler, interrupts>>
timerVars == <<pinging, ticks>>
vars == <<run, returned, flushed, disconnect, display, loopVars, mmapVars, connVars,
          signalVars, timerVars>>

Init ==
  /\ run = "start" /\ returned = "pending" /\ flushed = "pending"
  /\ quit = FALSE /\ exitErr = "none"
  /\ disconnect = FALSE /\ challengeSeen = FALSE
  /\ cause = "none" /\ failed = FALSE
  /\ area = IF Mmap THEN "offered" ELSE "none"
  /\ file = Mmap
  /\ inbox = <<>> /\ ended = "no" /\ outbound = <<>> /\ goodbyeSent = FALSE
  /\ sent = 0 /\ goodbyeLost = FALSE
  /\ display = TRUE
  /\ notified = TRUE /\ signals = FALSE /\ handler = "listening" /\ interrupts = 0
  /\ pinging = FALSE /\ ticks = 0

-----------------------------------------------------------------------------
(* What the handlers share. *)

\* Conn.Send on a connection that failed accepts and forgets; on a full queue
\* it refuses.
Accepted == ended = "error" \/ Len(outbound) < WriteQueue

Send(packet) ==
  outbound' = IF ended # "error" /\ Len(outbound) < WriteQueue
              THEN Append(outbound, packet) ELSE outbound

SendGoodbye == /\ Send("goodbye")
               /\ goodbyeLost' = (goodbyeLost \/ ~Accepted)

\* stop: a clean exit does not keep a later error from being reported.
Stop(err, why) ==
  /\ exitErr' = IF exitErr = "none" THEN err ELSE exitErr
  /\ quit' = TRUE
  /\ cause' = IF cause = "none" THEN why ELSE cause
  /\ failed' = (failed \/ err # "none")

GoOn == UNCHANGED <<quit, exitErr, cause, failed>>

\* Mutant: Run returns without its deferred flush.
ReturnAtOnce(value) ==
  /\ returned' = value
  /\ run' = "returned"
  /\ flushed' = "done"
  /\ pinging' = FALSE

\* Run returns: its deferred calls stop the pings, flush, and drop the area.
Return(value) ==
  /\ returned' = value
  /\ run' = "flush"
  /\ pinging' = FALSE
  /\ UNCHANGED flushed

ExitValue == IF exitErr = "none" THEN "nil" ELSE "error"

-----------------------------------------------------------------------------
(* Run. *)

SendHello ==
  /\ run = "start"
  /\ Send("packet")
  /\ run' = "select"
  /\ UNCHANGED <<returned, flushed, disconnect, display, loopVars, mmapVars, inbox,
                 ended, goodbyeSent, sent, goodbyeLost, signalVars, timerVars>>

Handling(type) == /\ run = "select"
                  /\ inbox # <<>>
                  /\ Head(inbox).type = type
                  /\ inbox' = Tail(inbox)
                  /\ UNCHANGED <<returned, flushed, disconnect, display, ended, goodbyeSent, sent,
                                 signalVars, ticks>>

\* Mutant: a declined area is dropped without being closed.
DeclineLeaks(answer) ==
  /\ area # "none"
  /\ answer = "declined"
  /\ area' = "none"
  /\ UNCHANGED file

\* negotiateMmap, for each answer of the server.
Decline(answer) ==
  /\ area # "none"
  /\ answer = "declined"
  /\ area' = "none"
  /\ file' = FALSE

Accept(answer) ==
  /\ area # "none"
  /\ answer = "accepted"
  /\ area' = "enabled"
  /\ file' = FALSE

\* handleHello: an area the server gets wrong ends the session.
HandleHello ==
  LET p == Head(inbox)
      bad == area # "none" /\ p.mmap = "bad"
  IN
  /\ Handling("hello")
  /\ \/ Decline(p.mmap)
     \/ Accept(p.mmap)
     \/ (area = "none" \/ bad) /\ UNCHANGED mmapVars
  /\ IF bad THEN Stop("failure", "failure") ELSE GoOn
  /\ pinging' = IF bad THEN pinging ELSE p.ping        \* configurePings
  /\ UNCHANGED <<run, challengeSeen, outbound, goodbyeLost>>

\* sendHello with the challenge response, or the failure to compute or send it.
AnswerChallenge ==
  \/ /\ Send("packet")
     /\ IF Accepted THEN GoOn ELSE Stop("failure", "failure")
  \/ /\ Stop("failure", "failure")
     /\ UNCHANGED outbound

\* handleChallenge.  The prompt, if there has to be one, blocks the loop.
HandleChallenge ==
  /\ Handling("challenge")
  /\ challengeSeen' = TRUE
  /\ \/ challengeSeen /\ Stop("failure", "failure") /\ UNCHANGED <<run, outbound>>
     \/ ~challengeSeen /\ AnswerChallenge /\ UNCHANGED run
     \/ ~challengeSeen /\ run' = "prompt" /\ GoOn /\ UNCHANGED outbound
  /\ UNCHANGED <<mmapVars, pinging, goodbyeLost>>

PromptReturns ==
  /\ run = "prompt"
  /\ run' = "select"
  /\ AnswerChallenge
  /\ UNCHANGED <<returned, flushed, disconnect, display, challengeSeen, mmapVars, inbox,
                 ended, goodbyeSent, sent, goodbyeLost, signalVars, timerVars>>

HandlePing ==
  /\ Handling("ping")
  /\ Send("packet")
  /\ UNCHANGED <<run, loopVars, mmapVars, pinging, goodbyeLost>>

HandleDisconnect ==
  /\ Handling("disconnect")
  /\ Stop("none", "server")
  /\ UNCHANGED <<run, challengeSeen, mmapVars, pinging, outbound, goodbyeLost>>

\* Mutant: the end of the packet stream is told as stop left it, without Err.
ReportStopOnly ==
  /\ run = "select"
  /\ inbox = <<>> /\ ended # "no"
  /\ Return(ExitValue)
  /\ UNCHANGED <<disconnect, display, loopVars, mmapVars, connVars, signalVars, ticks>>

\* The packet stream is closed: Err first, exitErr only if there is none.
PacketsClosed ==
  /\ run = "select"
  /\ inbox = <<>> /\ ended # "no"
  /\ Return(IF ended = "error" THEN "error" ELSE ExitValue)
  /\ UNCHANGED <<disconnect, display, loopVars, mmapVars, connVars, signalVars, ticks>>

\* ui.ExitRequest, from the Exit menu.
HandleExitRequest ==
  /\ run = "select"
  /\ display
  /\ SendGoodbye
  /\ Stop("none", "user")
  /\ UNCHANGED <<run, returned, flushed, disconnect, display, challengeSeen, mmapVars, inbox,
                 ended, goodbyeSent, sent, signalVars, timerVars>>

DisplayLost ==
  /\ run = "select"
  /\ ~display
  /\ Return("error")
  /\ UNCHANGED <<disconnect, display, loopVars, mmapVars, connVars, signalVars, ticks>>

PingTick ==
  /\ run = "select"
  /\ pinging
  /\ ticks < MaxTicks
  /\ ticks' = ticks + 1
  /\ Send("packet")
  /\ UNCHANGED <<run, returned, flushed, disconnect, display, loopVars, mmapVars, inbox,
                 ended, goodbyeSent, sent, goodbyeLost, signalVars, pinging>>

TakeDisconnect ==
  /\ run = "select"
  /\ disconnect
  /\ disconnect' = FALSE
  /\ SendGoodbye
  /\ Stop("none", "user")
  /\ Return(ExitValue)
  /\ UNCHANGED <<display, challengeSeen, mmapVars, inbox, ended, goodbyeSent, sent,
                 signalVars, ticks>>

\* Mutant: quit is only noticed once the packets have ended.
QuitAfterPackets ==
  /\ run = "select"
  /\ quit /\ ended # "no"
  /\ Return(ExitValue)
  /\ UNCHANGED <<disconnect, display, loopVars, mmapVars, connVars, signalVars, ticks>>

TakeQuit ==
  /\ run = "select"
  /\ quit
  /\ Return(ExitValue)
  /\ UNCHANGED <<disconnect, display, loopVars, mmapVars, connVars, signalVars, ticks>>

\* flushOutbound returns: the queue is drained, the connection ended, or the
\* timer fired; then closeMmap.
FlushEnds(how) ==
  /\ run = "flush"
  /\ \/ how = "done" /\ outbound = <<>>
     \/ how = "ended" /\ ended = "error"
     \/ how = "timeout"
  /\ run' = "returned"
  /\ flushed' = how
  /\ area' = "none"
  /\ file' = FALSE
  /\ UNCHANGED <<returned, disconnect, display, loopVars, connVars, signalVars, timerVars>>

\* connect's deferred stopSignals, then conn.Close: what is queued is lost.
Leave ==
  /\ run = "returned"
  /\ run' = "left"
  /\ notified' = FALSE
  /\ handler' = IF handler = "listening" THEN "done" ELSE handler
  /\ ended' = IF ended = "no" THEN "clean" ELSE ended
  /\ outbound' = <<>>
  /\ UNCHANGED <<returned, flushed, disconnect, display, loopVars, mmapVars, inbox, goodbyeSent,
                 sent, goodbyeLost, signals, interrupts, timerVars>>

-----------------------------------------------------------------------------
(* Signals. *)

Alive == run \notin {"left", "killed"}

\* A signal nobody is notified of kills the process; one that finds the channel
\* full is dropped.
Interrupt ==
  /\ Alive
  /\ interrupts < MaxSignals
  /\ interrupts' = interrupts + 1
  /\ IF notified THEN signals' = TRUE /\ UNCHANGED run
                 ELSE run' = "killed" /\ UNCHANGED signals
  /\ UNCHANGED <<returned, flushed, disconnect, display, loopVars, mmapVars, connVars,
                 notified, handler, timerVars>>

HandlerTakes ==
  /\ Alive
  /\ handler = "listening" /\ signals
  /\ signals' = FALSE
  /\ handler' = "caught"
  /\ UNCHANGED <<run, returned, flushed, disconnect, display, loopVars, mmapVars, connVars,
                 notified, interrupts, timerVars>>

HandlerStops ==
  /\ Alive
  /\ handler = "caught"
  /\ notified' = FALSE
  /\ handler' = "shutdown"
  /\ UNCHANGED <<run, returned, flushed, disconnect, display, loopVars, mmapVars, connVars,
                 signals, interrupts, timerVars>>

\* Mutant: the reason is only left with a loop that is waiting for it.
DisconnectIfSelecting ==
  /\ Alive
  /\ handler = "shutdown"
  /\ disconnect' = (disconnect \/ run = "select")
  /\ handler' = "done"
  /\ UNCHANGED <<run, returned, flushed, display, loopVars, mmapVars, connVars,
                 notified, signals, interrupts, timerVars>>

\* Disconnect: a second reason is dropped.
Disconnect ==
  /\ Alive
  /\ handler = "shutdown"
  /\ disconnect' = TRUE
  /\ handler' = "done"
  /\ UNCHANGED <<run, returned, flushed, display, loopVars, mmapVars, connVars,
                 notified, signals, interrupts, timerVars>>

-----------------------------------------------------------------------------
(* The server, the network and the display. *)

ServerSends(packet) ==
  /\ Alive
  /\ ended = "no"
  /\ sent < MaxPackets
  /\ sent' = sent + 1
  /\ inbox' = Append(inbox, packet)
  /\ UNCHANGED <<run, returned, flushed, disconnect, display, loopVars, mmapVars, ended,
                 outbound, goodbyeSent, goodbyeLost, signalVars, timerVars>>

WriteLoop ==
  /\ Alive
  /\ outbound # <<>> /\ ended # "error"
  /\ outbound' = Tail(outbound)
  /\ goodbyeSent' = (goodbyeSent \/ Head(outbound) = "goodbye")
  /\ UNCHANGED <<run, returned, flushed, disconnect, display, loopVars, mmapVars, inbox,
                 ended, sent, goodbyeLost, signalVars, timerVars>>

ServerCloses ==
  /\ Alive
  /\ ended = "no"
  /\ ended' = "clean"
  /\ UNCHANGED <<run, returned, flushed, disconnect, display, loopVars, mmapVars, inbox,
                 outbound, goodbyeSent, sent, goodbyeLost, signalVars, timerVars>>

\* A read fails, or a write does, the latter also after the stream's clean end.
ConnFails ==
  /\ Alive
  /\ ended # "error"
  /\ ended' = "error"
  /\ UNCHANGED <<run, returned, flushed, disconnect, display, loopVars, mmapVars, inbox,
                 outbound, goodbyeSent, sent, goodbyeLost, signalVars, timerVars>>

DisplayCloses ==
  /\ Alive
  /\ display
  /\ display' = FALSE
  /\ UNCHANGED <<run, returned, flushed, disconnect, loopVars, mmapVars, connVars,
                 signalVars, timerVars>>

-----------------------------------------------------------------------------
Packet == [type : {"hello"}, mmap : {"accepted", "declined", "bad"}, ping : BOOLEAN]
          \cup [type : {"challenge", "ping", "disconnect"}]

Handlers == HandleHello \/ HandleChallenge \/ HandlePing \/ HandleDisconnect
            \/ HandleExitRequest \/ PingTick

Returns == PacketsClosed \/ DisplayLost \/ TakeDisconnect \/ TakeQuit

Next ==
  \/ SendHello
  \/ Handlers
  \/ PromptReturns
  \/ Returns
  \/ \E how \in {"done", "ended", "timeout"} : FlushEnds(how)
  \/ Leave
  \/ Interrupt
  \/ HandlerTakes \/ HandlerStops \/ Disconnect
  \/ \E p \in Packet : ServerSends(p)
  \/ WriteLoop
  \/ ServerCloses
  \/ ConnFails
  \/ DisplayCloses

Spec == Init /\ [][Next]_vars

(* Goroutines that can run do run, Flush has a timer, and Go's select picks *)
(* at random: a case that stays ready is taken some day, however many       *)
(* others are.  No user has to answer the prompt, no server to send.        *)
Fairness ==
  /\ WF_vars(SendHello)
  /\ WF_vars(TakeDisconnect) /\ WF_vars(TakeQuit)
  /\ WF_vars(\E how \in {"done", "ended", "timeout"} : FlushEnds(how))
  /\ WF_vars(Leave)
  /\ WF_vars(HandlerTakes) /\ WF_vars(HandlerStops) /\ WF_vars(Disconnect)

FairSpec == Spec /\ Fairness

-----------------------------------------------------------------------------
RunOK ==
  /\ run \in {"start", "select", "prompt", "flush", "returned", "left", "killed"}
  /\ quit \in BOOLEAN /\ exitErr \in {"none", "failure"}
  /\ returned \in {"pending", "nil", "error"}
  /\ flushed \in {"pending", "done", "ended", "timeout"}
  /\ cause \in {"none", "server", "user", "failure"}
  /\ failed \in BOOLEAN /\ challengeSeen \in BOOLEAN

PartnersOK ==
  /\ area \in {"none", "offered", "enabled"} /\ file \in BOOLEAN
  /\ ended \in {"no", "clean", "error"}
  /\ display \in BOOLEAN /\ goodbyeSent \in BOOLEAN /\ goodbyeLost \in BOOLEAN

SignalsOK ==
  /\ notified \in BOOLEAN /\ signals \in BOOLEAN /\ disconnect \in BOOLEAN
  /\ handler \in {"listening", "caught", "shutdown", "done"}
  /\ pinging \in BOOLEAN
  /\ sent \in Nat /\ ticks \in Nat /\ interrupts \in Nat

QueuesOK ==
  /\ inbox \in Seq(Packet)
  /\ outbound \in Seq({"goodbye", "packet"})
  /\ Len(outbound) <= WriteQueue

TypeOK == RunOK /\ PartnersOK /\ SignalsOK /\ QueuesOK

\* A session the user ends says goodbye: by the time the process leaves, the
\* server has it, unless the queue was full, the connection broke first, or the
\* server read nothing for the whole flush.
GoodbyeReachesTheServer ==
  run = "left" /\ cause = "user" =>
    \/ goodbyeSent
    \/ goodbyeLost
    \/ ended = "error"
    \/ flushed = "timeout"

\* What Run returns is what happened to the session by then.  It succeeds only if
\* no handler failed, and the user or the server wished the end or the stream
\* ended without an error; it fails only if a handler, the connection or the
\* display did.  A broken connection or a lost display may go unreported, but
\* only where somebody had wished the end: select takes either case then.
ReturnIsExplained ==
  [][IF returned' = "nil"
     THEN ~failed' /\ (cause' \in {"user", "server"} \/ ended = "clean")
     ELSE failed' \/ ended = "error" \/ ~display]_returned

\* The shared memory's file does not outlive the session, and once either side
\* has settled the negotiation, not even until then.
NoFileLeft == /\ run \in {"returned", "left"} => ~file
              /\ area # "offered" => ~file

\* An interrupt ends the process, even when it comes in the middle of a packet
\* or before the loop has begun; only a password prompt may hold it up.
InterruptEnds == interrupts > 0 ~> run \in {"left", "killed", "prompt"}

\* Once told to stop, the loop does return, however busy server and desktop
\* keep it.
StopEndsTheLoop == quit ~> returned # "pending" \/ run \in {"killed", "prompt"}
=============================================================================
