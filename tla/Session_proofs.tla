--------------------------- MODULE Session_proofs ---------------------------
(***************************************************************************)
(* How a session ends, for any write queue and any number of packets,      *)
(* ticks and signals.                                                      *)
(***************************************************************************)
EXTENDS Session, TLAPS

USE SessionAssumption

-----------------------------------------------------------------------------
(* The write queue. *)

\* Putting a packet on the queue, if it is accepted, keeps those before it.
LEMMA AppendItems ==
  ASSUME NEW S, NEW s \in Seq(S), NEW e \in S
  PROVE  /\ Append(s, e) \in Seq(S) /\ Len(Append(s, e)) = Len(s) + 1 /\ Len(s) \in Nat
         /\ \A i \in DOMAIN s : i \in DOMAIN Append(s, e) /\ Append(s, e)[i] = s[i]
         /\ \E i \in DOMAIN Append(s, e) : Append(s, e)[i] = e
<1>1. /\ Append(s, e) \in Seq(S) /\ Len(Append(s, e)) = Len(s) + 1 /\ Len(s) \in Nat
      /\ Append(s, e)[Len(s) + 1] = e
      /\ \A i \in 1..Len(s) : Append(s, e)[i] = s[i]
  OBVIOUS
<1>2. DOMAIN s = 1..Len(s) /\ DOMAIN Append(s, e) = 1..(Len(s) + 1)
  BY <1>1
<1>3. Len(s) + 1 \in 1..(Len(s) + 1) /\ \A i \in 1..Len(s) : i \in 1..(Len(s) + 1)
  BY <1>1
<1> QED
  BY <1>1, <1>2, <1>3

\* Taking a packet off the queue keeps those behind it.
LEMMA TailItems ==
  ASSUME NEW S, NEW s \in Seq(S), s # <<>>
  PROVE  /\ Head(s) \in S /\ Head(s) = s[1]
         /\ Tail(s) \in Seq(S) /\ Len(Tail(s)) = Len(s) - 1 /\ Len(s) \in Nat
         /\ \A i \in DOMAIN s : i # 1 => i - 1 \in DOMAIN Tail(s) /\ Tail(s)[i - 1] = s[i]
<1>1. /\ Head(s) \in S /\ Head(s) = s[1] /\ Len(s) \in Nat /\ Len(s) >= 1
      /\ Tail(s) \in Seq(S) /\ Len(Tail(s)) = Len(s) - 1
      /\ \A i \in 1..(Len(s) - 1) : Tail(s)[i] = s[i + 1]
  OBVIOUS
<1>2. DOMAIN s = 1..Len(s) /\ DOMAIN Tail(s) = 1..(Len(s) - 1)
  BY <1>1
<1>3. \A i \in 1..Len(s) : i # 1 => i - 1 \in 1..(Len(s) - 1) /\ (i - 1) + 1 = i
  BY <1>1
<1> QED
  BY <1>1, <1>2, <1>3

\* Send never overfills the queue.
LEMMA SendIsBounded ==
  ASSUME QueuesOK, NEW packet \in {"goodbye", "packet"}, Send(packet)
  PROVE  outbound' \in Seq({"goodbye", "packet"}) /\ Len(outbound') <= WriteQueue
<1>1. outbound \in Seq({"goodbye", "packet"}) /\ Len(outbound) <= WriteQueue
  BY DEF QueuesOK
<1>2. CASE outbound' = outbound
  BY <1>1, <1>2
<1>3. CASE outbound' = Append(outbound, packet) /\ Len(outbound) < WriteQueue
  <2>1. outbound' \in Seq({"goodbye", "packet"}) /\ Len(outbound') = Len(outbound) + 1
        /\ Len(outbound) \in Nat
    BY <1>1, <1>3, AppendItems
  <2> QED
    BY <1>3, <2>1
<1> QED
  BY <1>2, <1>3 DEF Send

-----------------------------------------------------------------------------
\* Packets are neither invented nor does the write queue ever hold more than
\* it can.
LEMMA QueuesInductive == QueuesOK /\ [Next]_vars => QueuesOK'
<1> SUFFICES ASSUME QueuesOK, [Next]_vars PROVE QueuesOK'
  OBVIOUS
<1> USE DEF loopVars, mmapVars, connVars, signalVars, timerVars
<1>1. /\ inbox \in Seq(Packet) /\ outbound \in Seq({"goodbye", "packet"})
      /\ Len(outbound) <= WriteQueue /\ Len(outbound) \in Nat
  BY DEF QueuesOK
<1>2. CASE UNCHANGED <<inbox, outbound>>
  BY <1>2 DEF QueuesOK
<1>3. CASE UNCHANGED inbox /\ (Send("packet") \/ Send("goodbye"))
  <2>1. outbound' \in Seq({"goodbye", "packet"}) /\ Len(outbound') <= WriteQueue
    BY <1>3, SendIsBounded
  <2> QED
    BY <1>1, <1>3, <2>1 DEF QueuesOK
<1>4. ASSUME NEW type, Handling(type), Send("packet") \/ UNCHANGED outbound
      PROVE  QueuesOK'
  <2>1. inbox' \in Seq(Packet)
    BY <1>1, <1>4, TailItems DEF Handling
  <2>2. outbound' \in Seq({"goodbye", "packet"}) /\ Len(outbound') <= WriteQueue
    BY <1>1, <1>4, SendIsBounded
  <2> QED
    BY <2>1, <2>2 DEF QueuesOK
<1>5. CASE Handlers
  BY <1>3, <1>4, <1>5 DEF Handlers, HandleHello, HandleChallenge, AnswerChallenge, HandlePing,
                          HandleDisconnect, HandleExitRequest, SendGoodbye, PingTick
<1>6. CASE SendHello \/ PromptReturns \/ Returns
  BY <1>2, <1>3, <1>6 DEF SendHello, PromptReturns, AnswerChallenge, Returns, PacketsClosed,
                          DisplayLost, TakeDisconnect, SendGoodbye, TakeQuit
<1>7. CASE Leave
  <2>1. outbound' \in Seq({"goodbye", "packet"}) /\ Len(outbound') <= WriteQueue
    BY <1>7 DEF Leave
  <2> QED
    BY <1>1, <1>7, <2>1 DEF Leave, QueuesOK
<1>8. ASSUME NEW p \in Packet, ServerSends(p) PROVE QueuesOK'
  <2>1. inbox' \in Seq(Packet) /\ UNCHANGED outbound
    BY <1>1, <1>8, AppendItems DEF ServerSends
  <2> QED
    BY <1>1, <2>1 DEF QueuesOK
<1>9. CASE WriteLoop
  <2>1. /\ outbound' \in Seq({"goodbye", "packet"}) /\ Len(outbound') = Len(outbound) - 1
        /\ UNCHANGED inbox
    BY <1>1, <1>9, TailItems DEF WriteLoop
  <2> QED
    BY <1>1, <2>1 DEF QueuesOK
<1>10. CASE \/ \E how \in {"done", "ended", "timeout"} : FlushEnds(how)
            \/ Interrupt \/ HandlerTakes \/ HandlerStops \/ Disconnect
            \/ ServerCloses \/ ConnFails \/ DisplayCloses \/ UNCHANGED vars
  BY <1>2, <1>10 DEF FlushEnds, Interrupt, HandlerTakes, HandlerStops, Disconnect,
                     ServerCloses, ConnFails, DisplayCloses, vars
<1> QED
  BY <1>5, <1>6, <1>7, <1>8, <1>9, <1>10 DEF Next

\* The loop and its caller are in one of their states.
LEMMA RunInductive == RunOK /\ [Next]_vars => RunOK'
<1> SUFFICES ASSUME RunOK, [Next]_vars PROVE RunOK'
  OBVIOUS
<1> USE DEF loopVars, mmapVars, connVars, signalVars, timerVars
<1>1. CASE HandleHello \/ HandlePing \/ HandleDisconnect \/ HandleExitRequest \/ PingTick
  <2>1. UNCHANGED <<run, challengeSeen, returned, flushed>>
    BY <1>1 DEF Handling, HandleHello, HandlePing, HandleDisconnect, HandleExitRequest, PingTick
  <2>2. Stop("failure", "failure") \/ Stop("none", "server") \/ Stop("none", "user") \/ GoOn
    BY <1>1 DEF HandleHello, HandlePing, HandleDisconnect, HandleExitRequest, PingTick, GoOn
  <2>3. /\ quit' \in BOOLEAN /\ exitErr' \in {"none", "failure"}
        /\ cause' \in {"none", "server", "user", "failure"} /\ failed' \in BOOLEAN
    BY <2>2 DEF Stop, GoOn, RunOK
  <2> QED
    BY <2>1, <2>3 DEF RunOK
<1>6. CASE HandleChallenge
  <2>1. run' \in {run, "prompt"} /\ challengeSeen' = TRUE /\ UNCHANGED <<returned, flushed>>
    BY <1>6 DEF Handling, HandleChallenge
  <2>2. Stop("failure", "failure") \/ GoOn
    BY <1>6 DEF HandleChallenge, AnswerChallenge
  <2>3. /\ quit' \in BOOLEAN /\ exitErr' \in {"none", "failure"}
        /\ cause' \in {"none", "server", "user", "failure"} /\ failed' \in BOOLEAN
    BY <2>2 DEF Stop, GoOn, RunOK
  <2> QED
    BY <2>1, <2>3 DEF RunOK
<1>2. CASE PromptReturns \/ SendHello
  <2>1. CASE PromptReturns
    BY <2>1 DEF PromptReturns, AnswerChallenge, Stop, GoOn, RunOK
  <2>2. CASE SendHello
    BY <2>2 DEF SendHello, Stop, GoOn, RunOK
  <2> QED
    BY <1>2, <2>1, <2>2
<1>3. CASE Returns
  BY <1>3 DEF Returns, PacketsClosed, DisplayLost, TakeDisconnect, TakeQuit, Return,
              ExitValue, Stop, RunOK
<1>4. CASE (\E how \in {"done", "ended", "timeout"} : FlushEnds(how)) \/ Leave \/ Interrupt
  BY <1>4 DEF FlushEnds, Leave, Interrupt, RunOK
<1>5. CASE HandlerTakes \/ HandlerStops \/ Disconnect \/ (\E p \in Packet : ServerSends(p))
           \/ WriteLoop \/ ServerCloses \/ ConnFails \/ DisplayCloses \/ UNCHANGED vars
  BY <1>5 DEF HandlerTakes, HandlerStops, Disconnect, ServerSends, WriteLoop, ServerCloses,
              ConnFails, DisplayCloses, vars, RunOK
<1> QED
  BY <1>1, <1>2, <1>3, <1>4, <1>5, <1>6 DEF Next, Handlers

\* The shared memory, the connection and the display are in one of theirs.
LEMMA PartnersInductive == PartnersOK /\ [Next]_vars => PartnersOK'
<1> SUFFICES ASSUME PartnersOK, [Next]_vars PROVE PartnersOK'
  OBVIOUS
<1> USE DEF loopVars, mmapVars, connVars, signalVars, timerVars
<1>1. CASE Handlers
  BY <1>1 DEF Handlers, Handling, HandleHello, Decline, Accept, HandleChallenge, HandlePing,
              HandleDisconnect, HandleExitRequest, SendGoodbye, PingTick, PartnersOK
<1>2. CASE PromptReturns \/ SendHello \/ Returns
  BY <1>2 DEF PromptReturns, SendHello, Returns, PacketsClosed, DisplayLost, TakeDisconnect,
              TakeQuit, SendGoodbye, PartnersOK
<1>3. CASE (\E how \in {"done", "ended", "timeout"} : FlushEnds(how)) \/ Leave \/ Interrupt
  BY <1>3 DEF FlushEnds, Leave, Interrupt, PartnersOK
<1>4. CASE HandlerTakes \/ HandlerStops \/ Disconnect \/ (\E p \in Packet : ServerSends(p))
           \/ WriteLoop \/ ServerCloses \/ ConnFails \/ DisplayCloses \/ UNCHANGED vars
  <2>1. CASE HandlerTakes \/ HandlerStops \/ Disconnect \/ (\E p \in Packet : ServerSends(p))
    BY <2>1 DEF HandlerTakes, HandlerStops, Disconnect, ServerSends, PartnersOK
  <2>2. CASE WriteLoop \/ ServerCloses \/ ConnFails \/ DisplayCloses
    BY <2>2 DEF WriteLoop, ServerCloses, ConnFails, DisplayCloses, PartnersOK
  <2>3. CASE UNCHANGED vars
    BY <2>3 DEF vars, PartnersOK
  <2> QED
    BY <1>4, <2>1, <2>2, <2>3
<1> QED
  BY <1>1, <1>2, <1>3, <1>4 DEF Next

\* So are the signal handler and the ping timer.
LEMMA SignalsInductive == SignalsOK /\ QueuesOK /\ [Next]_vars => SignalsOK'
<1> SUFFICES ASSUME SignalsOK, QueuesOK, [Next]_vars PROVE SignalsOK'
  OBVIOUS
<1> USE DEF loopVars, mmapVars, connVars, signalVars, timerVars
<1>1. CASE HandleHello
  <2>1. Head(inbox) \in Packet /\ Head(inbox).type = "hello"
    BY <1>1, TailItems DEF HandleHello, Handling, QueuesOK
  <2>2. Head(inbox).ping \in BOOLEAN
    BY <2>1 DEF Packet
  <2> QED
    BY <1>1, <2>2 DEF HandleHello, Handling, SignalsOK
<1>2. CASE HandleChallenge \/ HandlePing \/ HandleDisconnect \/ HandleExitRequest \/ PingTick
  BY <1>2 DEF Handling, HandleChallenge, HandlePing, HandleDisconnect, HandleExitRequest,
              PingTick, SignalsOK
<1>3. CASE PromptReturns \/ SendHello \/ Returns
  BY <1>3 DEF PromptReturns, SendHello, Returns, PacketsClosed, DisplayLost, TakeDisconnect,
              TakeQuit, Return, SignalsOK
<1>4. CASE (\E how \in {"done", "ended", "timeout"} : FlushEnds(how)) \/ Leave
  BY <1>4 DEF FlushEnds, Leave, SignalsOK
<1>5. CASE Interrupt
  <2>1. interrupts' \in Nat /\ UNCHANGED <<notified, disconnect, handler, pinging, sent, ticks>>
    BY <1>5 DEF Interrupt, SignalsOK
  <2>2. signals' \in BOOLEAN
    BY <1>5 DEF Interrupt, SignalsOK
  <2> QED
    BY <2>1, <2>2 DEF SignalsOK
<1>6. CASE HandlerTakes \/ HandlerStops \/ Disconnect
  BY <1>6 DEF HandlerTakes, HandlerStops, Disconnect, SignalsOK
<1>7. ASSUME NEW p \in Packet, ServerSends(p) PROVE SignalsOK'
  BY <1>7 DEF ServerSends, SignalsOK
<1>8. CASE WriteLoop \/ ServerCloses \/ ConnFails \/ DisplayCloses \/ UNCHANGED vars
  BY <1>8 DEF WriteLoop, ServerCloses, ConnFails, DisplayCloses, vars, SignalsOK
<1> QED
  BY <1>1, <1>2, <1>3, <1>4, <1>5, <1>6, <1>7, <1>8 DEF Next, Handlers

\* Run and its caller, the negotiation, the queues and the signal handler are
\* always in one of their states, and the write queue is never overfull.
THEOREM TypeCorrect == Spec => []TypeOK
<1>1. Init => TypeOK
  <2> SUFFICES ASSUME Init PROVE TypeOK
    OBVIOUS
  <2>1. RunOK /\ PartnersOK
    BY DEF Init, RunOK, PartnersOK
  <2>2. SignalsOK
    BY DEF Init, SignalsOK
  <2>3. QueuesOK
    <3>1. <<>> \in Seq(Packet) /\ <<>> \in Seq({"goodbye", "packet"}) /\ Len(<<>>) = 0
      OBVIOUS
    <3>2. inbox = <<>> /\ outbound = <<>> /\ 0 <= WriteQueue
      BY DEF Init
    <3> QED
      BY <3>1, <3>2 DEF QueuesOK
  <2> QED
    BY <2>1, <2>2, <2>3 DEF TypeOK
<1>2. TypeOK /\ [Next]_vars => TypeOK'
  BY RunInductive, PartnersInductive, SignalsInductive, QueuesInductive DEF TypeOK
<1> QED
  BY <1>1, <1>2, PTL DEF Spec

-----------------------------------------------------------------------------
(* What Run reports. *)

\* The loop has an error to report exactly when a handler failed, and it is told
\* to stop for a reason.
StopKnown ==
  /\ failed <=> exitErr # "none"
  /\ quit => cause # "none"
  /\ cause = "failure" => failed

\* stop keeps the first error and the first reason.
LEMMA StopTells ==
  ASSUME RunOK, StopKnown,
         Stop("failure", "failure") \/ Stop("none", "server") \/ Stop("none", "user") \/ GoOn
  PROVE  StopKnown'
<1>1. CASE Stop("failure", "failure")
  <2>1. failed' = TRUE /\ exitErr' # "none"
    BY <1>1 DEF Stop, RunOK
  <2>2. cause' # "none"
    BY <1>1 DEF Stop
  <2> QED
    BY <2>1, <2>2 DEF StopKnown
<1>2. CASE Stop("none", "server") \/ Stop("none", "user")
  <2>1. (failed' <=> failed) /\ exitErr' = exitErr
    BY <1>2 DEF Stop, RunOK
  <2>2. cause' # "none" /\ (cause' = "failure" => cause = "failure")
    BY <1>2 DEF Stop
  <2> QED
    BY <2>1, <2>2 DEF StopKnown
<1>3. CASE GoOn
  BY <1>3 DEF GoOn, StopKnown
<1> QED
  BY <1>1, <1>2, <1>3

\* A session that reports success was ended by the user, by the server or by a
\* clean end of its stream, and no handler had failed; one that reports an error
\* had a failed handler, a broken connection or a lost display.
THEOREM ReturnsAreExplained == Spec => ReturnIsExplained
<1>1. Init => StopKnown
  BY DEF Init, StopKnown
<1>2. RunOK /\ StopKnown /\ [Next]_vars => StopKnown'
  <2> SUFFICES ASSUME RunOK, StopKnown, [Next]_vars PROVE StopKnown'
    OBVIOUS
  <2> USE DEF loopVars, mmapVars, connVars, signalVars, timerVars
  <2>1. CASE Handlers \/ PromptReturns \/ Returns
    <3>1. Stop("failure", "failure") \/ Stop("none", "server") \/ Stop("none", "user") \/ GoOn
      BY <2>1 DEF Handlers, Handling, HandleHello, HandleChallenge, AnswerChallenge, HandlePing,
                  HandleDisconnect, HandleExitRequest, PingTick, PromptReturns, Returns,
                  PacketsClosed, DisplayLost, TakeDisconnect, TakeQuit, GoOn
    <3> QED
      BY <3>1, StopTells
  <2>2. CASE \/ SendHello \/ (\E how \in {"done", "ended", "timeout"} : FlushEnds(how)) \/ Leave
             \/ Interrupt \/ HandlerTakes \/ HandlerStops \/ Disconnect
             \/ (\E p \in Packet : ServerSends(p))
             \/ WriteLoop \/ ServerCloses \/ ConnFails \/ DisplayCloses \/ UNCHANGED vars
    <3>1. UNCHANGED <<quit, cause, exitErr, failed>>
      BY <2>2 DEF SendHello, FlushEnds, Leave, Interrupt, HandlerTakes, HandlerStops,
                  Disconnect, ServerSends, WriteLoop, ServerCloses, ConnFails, DisplayCloses, vars
    <3> QED
      BY <3>1 DEF StopKnown
  <2> QED
    BY <2>1, <2>2 DEF Next
<1>3. RunOK /\ PartnersOK /\ RunOK' /\ StopKnown /\ StopKnown' /\ [Next]_vars
        => \/ UNCHANGED returned
           \/ IF returned' = "nil"
              THEN ~failed' /\ (cause' \in {"user", "server"} \/ ended = "clean")
              ELSE failed' \/ ended = "error" \/ ~display
  <2> SUFFICES ASSUME RunOK, PartnersOK, RunOK', StopKnown, StopKnown', [Next]_vars, returned' # returned
               PROVE  IF returned' = "nil"
                      THEN ~failed' /\ (cause' \in {"user", "server"} \/ ended = "clean")
                      ELSE failed' \/ ended = "error" \/ ~display
    OBVIOUS
  <2> USE DEF loopVars, mmapVars, connVars, signalVars, timerVars
  <2>1. Returns
    BY DEF Next, Handlers, Handling, HandleHello, HandleChallenge, HandlePing, HandleDisconnect,
           HandleExitRequest, PingTick, PromptReturns, SendHello, FlushEnds, Leave, Interrupt,
           HandlerTakes, HandlerStops, Disconnect, ServerSends, WriteLoop, ServerCloses,
           ConnFails, DisplayCloses, vars
  <2>2. CASE returned' = "error" /\ (ended = "error" \/ ~display)
    BY <2>2
  <2>3. CASE returned' = ExitValue /\ (cause' # "none" \/ ended = "clean")
    <3>1. exitErr' = exitErr
      BY <2>1 DEF Returns, PacketsClosed, DisplayLost, TakeDisconnect, TakeQuit, Stop, RunOK
    <3>2. returned' = "nil" <=> ~failed'
      BY <2>3, <3>1 DEF ExitValue, StopKnown
    <3>3. ~failed' => cause' \in {"none", "user", "server"}
      BY DEF RunOK, StopKnown
    <3> QED
      BY <2>3, <3>2, <3>3
  <2>4. CASE PacketsClosed
    BY <2>2, <2>3, <2>4 DEF PacketsClosed, Return, PartnersOK
  <2>5. CASE DisplayLost
    BY <2>2, <2>5 DEF DisplayLost, Return
  <2>6. CASE TakeDisconnect
    BY <2>3, <2>6 DEF TakeDisconnect, Return, Stop
  <2>7. CASE TakeQuit
    BY <2>3, <2>7 DEF TakeQuit, Return, StopKnown
  <2> QED
    BY <2>1, <2>4, <2>5, <2>6, <2>7 DEF Returns
<1> QED
  BY <1>1, <1>2, <1>3, TypeCorrect, PTL DEF Spec, TypeOK, ReturnIsExplained

-----------------------------------------------------------------------------
(* What is left behind. *)

\* However the negotiation and the session end, the shared memory's file goes
\* with them.
THEOREM FileIsRemoved == Spec => []NoFileLeft
<1>1. Init => NoFileLeft
  BY DEF Init, NoFileLeft
<1>2. NoFileLeft /\ [Next]_vars => NoFileLeft'
  <2> SUFFICES ASSUME NoFileLeft, [Next]_vars PROVE NoFileLeft'
    OBVIOUS
  <2> USE DEF loopVars, mmapVars, connVars, signalVars, timerVars
  <2>1. CASE HandleHello
    <3>1. run = "select" /\ run' = run
      BY <2>1 DEF HandleHello, Handling
    <3>2. \/ area' \in {"none", "enabled"} /\ file' = FALSE
          \/ UNCHANGED <<area, file>>
      BY <2>1 DEF HandleHello, Decline, Accept
    <3> QED
      BY <3>1, <3>2 DEF NoFileLeft
  <2>2. ASSUME NEW how \in {"done", "ended", "timeout"}, FlushEnds(how) PROVE NoFileLeft'
    BY <2>2 DEF FlushEnds, NoFileLeft
  <2>3. CASE Leave
    BY <2>3 DEF Leave, NoFileLeft
  <2>4. CASE \/ SendHello \/ HandleChallenge \/ HandlePing \/ HandleDisconnect
             \/ HandleExitRequest \/ PingTick \/ PromptReturns \/ Returns
             \/ Interrupt \/ HandlerTakes \/ HandlerStops \/ Disconnect
             \/ (\E p \in Packet : ServerSends(p))
             \/ WriteLoop \/ ServerCloses \/ ConnFails \/ DisplayCloses \/ UNCHANGED vars
    <3>1. UNCHANGED <<area, file>>
      BY <2>4 DEF SendHello, HandleChallenge, HandlePing, HandleDisconnect, HandleExitRequest,
                  PingTick, PromptReturns, Returns, PacketsClosed, DisplayLost, TakeDisconnect,
                  TakeQuit, Interrupt, HandlerTakes, HandlerStops, Disconnect, ServerSends,
                  WriteLoop, ServerCloses, ConnFails, DisplayCloses, vars
    <3>2. run' \in {"returned", "left"} => run' = run
      BY <2>4 DEF SendHello, Handling, HandleChallenge, HandlePing, HandleDisconnect,
                  HandleExitRequest, PingTick, PromptReturns, Returns, PacketsClosed,
                  DisplayLost, TakeDisconnect, TakeQuit, Return, Interrupt, HandlerTakes,
                  HandlerStops, Disconnect, ServerSends, WriteLoop, ServerCloses, ConnFails,
                  DisplayCloses, vars
    <3> QED
      BY <3>1, <3>2 DEF NoFileLeft
  <2> QED
    BY <2>1, <2>2, <2>3, <2>4 DEF Next, Handlers
<1> QED
  BY <1>1, <1>2, PTL DEF Spec

-----------------------------------------------------------------------------
(* The goodbye. *)

Queued == \E i \in DOMAIN outbound : outbound[i] = "goodbye"

\* What became of the goodbye of a session its user ended.
GoodbyeAccounted ==
  cause = "user" => goodbyeSent \/ goodbyeLost \/ ended = "error" \/ Queued
                    \/ (run = "left" /\ flushed = "timeout")

\* What a flush that ended tells: nothing is queued after a full one.
FlushTells ==
  /\ run \in {"start", "select", "prompt"} => flushed = "pending"
  /\ run \in {"returned", "left"} => flushed # "pending"
  /\ flushed = "done" => outbound = <<>>
  /\ flushed = "ended" => ended = "error"

\* Queueing another packet keeps a queued goodbye.
LEMMA SendKeeps ==
  ASSUME QueuesOK, NEW packet \in {"goodbye", "packet"}, Send(packet)
  PROVE  Queued => Queued'
<1>1. outbound \in Seq({"goodbye", "packet"})
  BY DEF QueuesOK
<1>2. CASE outbound' = outbound
  BY <1>2 DEF Queued
<1>3. CASE outbound' = Append(outbound, packet)
  BY <1>1, <1>3, AppendItems DEF Queued
<1> QED
  BY <1>2, <1>3 DEF Send

\* A goodbye is queued, or it is known why it is not.
LEMMA GoodbyeQueued ==
  ASSUME QueuesOK, SendGoodbye
  PROVE  Queued' \/ goodbyeLost' \/ ended = "error"
<1>1. outbound \in Seq({"goodbye", "packet"}) /\ "goodbye" \in {"goodbye", "packet"}
  BY DEF QueuesOK
<1>2. CASE ended # "error" /\ Len(outbound) < WriteQueue
  <2>1. outbound' = Append(outbound, "goodbye")
    BY <1>2 DEF SendGoodbye, Send
  <2> QED
    BY <1>1, <2>1, AppendItems DEF Queued
<1>3. CASE ended # "error" /\ ~(Len(outbound) < WriteQueue)
  BY <1>3 DEF SendGoodbye, Accepted
<1> QED
  BY <1>2, <1>3

\* Only a running loop queues packets, and only its first stop is the cause.
THEOREM GoodbyesAreAccounted == Spec => []GoodbyeReachesTheServer
<1> DEFINE Inv == GoodbyeAccounted /\ FlushTells
<1>1. Init => Inv
  BY DEF Init, GoodbyeAccounted, FlushTells
<1>2. RunOK /\ QueuesOK /\ Inv /\ [Next]_vars => Inv'
  <2> SUFFICES ASSUME RunOK, QueuesOK, Inv, [Next]_vars PROVE Inv'
    OBVIOUS
  <2> USE DEF loopVars, mmapVars, connVars, signalVars, timerVars
  <2>1. ASSUME UNCHANGED <<goodbyeSent, goodbyeLost, ended, flushed>>,
               run \in {"start", "select", "prompt"},
               run' \in {"select", "prompt", "flush"},
               Send("packet") \/ UNCHANGED outbound,
               \/ GoOn \/ UNCHANGED cause
               \/ Stop("failure", "failure") \/ Stop("none", "server")
        PROVE  Inv'
    <3>1. Queued => Queued'
      BY <2>1, SendKeeps DEF Queued
    <3>2. cause' = "user" => cause = "user"
      BY <2>1 DEF Stop, GoOn
    <3> QED
      BY <2>1, <3>1, <3>2 DEF GoodbyeAccounted, FlushTells
  <2>2. CASE HandleHello \/ HandleChallenge \/ HandlePing \/ HandleDisconnect \/ PingTick
    BY <2>1, <2>2 DEF Handling, HandleHello, HandleChallenge, AnswerChallenge, HandlePing,
                      HandleDisconnect, PingTick
  <2>3. CASE SendHello \/ PromptReturns \/ PacketsClosed \/ DisplayLost \/ TakeQuit
    BY <2>1, <2>3 DEF SendHello, PromptReturns, AnswerChallenge, PacketsClosed, DisplayLost,
                      TakeQuit, Return
  <2>4. CASE HandleExitRequest \/ TakeDisconnect
    <3>1. /\ run = "select" /\ run' \in {"select", "flush"} /\ SendGoodbye
          /\ UNCHANGED <<goodbyeSent, ended, flushed>>
      BY <2>4 DEF HandleExitRequest, TakeDisconnect, Return
    <3>2. Queued' \/ goodbyeLost' \/ ended = "error"
      BY <3>1, GoodbyeQueued
    <3> QED
      BY <3>1, <3>2 DEF GoodbyeAccounted, FlushTells
  <2>5. ASSUME NEW how \in {"done", "ended", "timeout"}, FlushEnds(how) PROVE Inv'
    <3>1. /\ run = "flush" /\ run' = "returned" /\ flushed' = how
          /\ how = "done" => outbound = <<>>
          /\ how = "ended" => ended = "error"
          /\ UNCHANGED <<cause, goodbyeSent, goodbyeLost, ended, outbound>>
      BY <2>5 DEF FlushEnds
    <3> QED
      BY <3>1 DEF GoodbyeAccounted, FlushTells, Queued
  <2>6. CASE Leave
    <3>1. /\ run = "returned" /\ run' = "left" /\ outbound' = <<>>
          /\ ended = "error" => ended' = "error"
          /\ UNCHANGED <<cause, goodbyeSent, goodbyeLost, flushed>>
      BY <2>6 DEF Leave
    <3>2. flushed = "done" => ~Queued
      BY DEF FlushTells, Queued
    <3>3. flushed \in {"done", "ended", "timeout"}
      BY <3>1 DEF RunOK, FlushTells
    <3> QED
      BY <3>1, <3>2, <3>3 DEF GoodbyeAccounted, FlushTells
  <2>7. CASE WriteLoop
    <3>1. /\ run # "left" /\ outbound # <<>> /\ outbound' = Tail(outbound)
          /\ goodbyeSent' = (goodbyeSent \/ Head(outbound) = "goodbye")
          /\ UNCHANGED <<run, cause, goodbyeLost, ended, flushed>>
      BY <2>7 DEF WriteLoop, Alive
    <3>2. Queued => Queued' \/ Head(outbound) = "goodbye"
      BY <3>1, TailItems DEF Queued, QueuesOK
    <3> QED
      BY <3>1, <3>2 DEF GoodbyeAccounted, FlushTells
  <2>8. CASE \/ HandlerTakes \/ HandlerStops \/ Disconnect \/ Interrupt
             \/ (\E p \in Packet : ServerSends(p))
             \/ ServerCloses \/ ConnFails \/ DisplayCloses \/ UNCHANGED vars
    <3>1. /\ UNCHANGED <<cause, goodbyeSent, goodbyeLost, flushed, outbound>>
          /\ ended = "error" => ended' = "error"
      BY <2>8 DEF HandlerTakes, HandlerStops, Disconnect, Interrupt, ServerSends, ServerCloses,
                  ConnFails, DisplayCloses, vars
    <3>2. run' = run \/ (run # "left" /\ run' = "killed")
      BY <2>8 DEF HandlerTakes, HandlerStops, Disconnect, Interrupt, Alive, ServerSends,
                  ServerCloses, ConnFails, DisplayCloses, vars
    <3> QED
      BY <3>1, <3>2 DEF GoodbyeAccounted, FlushTells, Queued
  <2> QED
    BY <2>2, <2>3, <2>4, <2>5, <2>6, <2>7, <2>8 DEF Next, Handlers, Returns
<1>3. RunOK /\ Inv => GoodbyeReachesTheServer
  BY DEF RunOK, GoodbyeAccounted, FlushTells, Queued, GoodbyeReachesTheServer
<1> QED
  BY <1>1, <1>2, <1>3, TypeCorrect, PTL DEF Spec, TypeOK
=============================================================================
