--------------------------- MODULE PasswordPrompt ---------------------------
(***************************************************************************)
(* Asking for a password on Linux (cmd/go-xpra/password_linux.go): a       *)
(* conversation with pinentry, then, if that fails, a line read from the   *)
(* terminal with its echo off, under the interrupts that                   *)
(* cmd/go-xpra/signals.go handles once.                                    *)
(***************************************************************************)
EXTENDS Naturals, Sequences, Functions

CONSTANTS
  Pin,            \* the password, as the parts pinentry may send it in
  MaxStatus,      \* bound: status and comment lines of pinentry
  MaxInterrupts   \* bound: interrupts by the user

\* What the constants have to satisfy.
PasswordPromptAssumption ==
  /\ Pin \in Seq(Range(Pin)) /\ Range(Pin) \cap {"OK", "ERR", "S"} = {}
  /\ MaxStatus \in Nat /\ MaxInterrupts \in Nat

VARIABLES
  pc,         \* where promptPassword is
  step,       \* the pinentry command whose response is read
  data,       \* what readPinentryResponse has collected
  answer,     \* the password returned, if any: a sequence of one or none
  pinentry,   \* the process: "none", "running", "exited"
  lines,      \* what it has written and nobody has read
  echo,       \* the terminal echoes
  restored,   \* restore has run
  notified,   \* the prompt's own channel is notified of interrupts
  caught,     \* an interrupt is in that channel
  session,    \* onInterrupt: "waiting", "caught", and "stopped" after signal.Stop
  alive,      \* the process
  statuses, interrupts   \* bounds

signals == <<notified, caught, session, alive, interrupts>>
dialogue == <<step, data, pinentry, lines, statuses>>
vars == <<pc, answer, dialogue, echo, restored, signals>>

Commands == <<"greeting", "OPTION", "SETTITLE", "SETDESC", "SETPROMPT", "GETPIN">>

Init ==
  /\ pc = "start" /\ step = 1 /\ data = <<>> /\ answer = <<>>
  /\ pinentry = "none" /\ lines = <<>>
  /\ echo = TRUE /\ restored = FALSE
  /\ notified = FALSE /\ caught = FALSE
  /\ session = "waiting" /\ alive = TRUE
  /\ statuses = 0 /\ interrupts = 0

Go(at, next) == alive /\ pc = at /\ pc' = next

-----------------------------------------------------------------------------
(* promptPasswordPinentry. *)

\* exec.LookPath and Start; without a pinentry the terminal is asked.
StartPinentry ==
  /\ \/ Go("start", "read") /\ pinentry' = "running"
     \/ Go("start", "open") /\ UNCHANGED pinentry
  /\ UNCHANGED <<step, data, answer, lines, statuses, echo, restored, signals>>

\* The process writes the response to the command it has been sent, maybe with
\* lines that do not end it; pinentry may also refuse, or the user cancel.
Respond ==
  /\ alive /\ pinentry = "running" /\ pc = "read" /\ lines = <<>>
  /\ \/ /\ statuses < MaxStatus
        /\ statuses' = statuses + 1
        /\ lines' = <<"S">>
     \/ /\ UNCHANGED statuses
        /\ \/ lines' = <<"ERR">>
           \/ lines' = IF Commands[step] = "GETPIN" THEN Pin \o <<"OK">> ELSE <<"OK">>
  /\ UNCHANGED <<pc, step, data, answer, pinentry, echo, restored, signals>>

PinentryExits ==
  /\ pinentry = "running"
  /\ pinentry' = "exited"
  /\ UNCHANGED <<pc, step, data, answer, lines, statuses, echo, restored, signals>>

\* The next command; writing it fails when nobody reads it any more.
Ask ==
  /\ alive /\ pc = "ask"
  /\ IF pinentry = "running"
     THEN step' = step + 1 /\ pc' = "read"
     ELSE IF Commands[step + 1] = "OPTION"
     THEN step' = step + 1 /\ UNCHANGED pc
     ELSE pc' = "reap" /\ UNCHANGED step
  /\ data' = <<>>
  /\ UNCHANGED <<answer, pinentry, lines, statuses, echo, restored, signals>>

\* Only OPTION may fail.
Failed == pc' = IF Commands[step] = "OPTION" THEN "ask" ELSE "reap"

Means(line) ==
  IF line = "OK" THEN "done" ELSE IF line = "ERR" THEN "failed"
  ELSE IF line = "S" THEN "status" ELSE "data"

\* readPinentryResponse, a line at a time.
ReadLine ==
  /\ alive /\ pc = "read" /\ lines # <<>>
  /\ lines' = Tail(lines)
  /\ LET line == Head(lines) IN
       CASE Means(line) = "status" -> UNCHANGED <<pc, data, answer>>
         [] Means(line) = "data" -> data' = Append(data, line) /\ UNCHANGED <<pc, answer>>
         [] Means(line) = "failed" -> Failed /\ UNCHANGED <<data, answer>>
         [] Means(line) = "done" ->
              /\ UNCHANGED data
              /\ IF Commands[step] = "GETPIN"
                 THEN answer' = <<data>> /\ pc' = "bye"
                 ELSE UNCHANGED answer /\ pc' = "ask"
  /\ UNCHANGED <<step, pinentry, statuses, echo, restored, signals>>

ReadEOF ==
  /\ alive /\ pc = "read" /\ lines = <<>> /\ pinentry = "exited"
  /\ Failed
  /\ UNCHANGED <<answer, dialogue, echo, restored, signals>>

\* The deferred Kill and Wait.
Reap ==
  /\ Go("reap", "open") \/ Go("bye", "returned")
  /\ pinentry' = "none" /\ lines' = <<>>
  /\ UNCHANGED <<step, data, answer, statuses, echo, restored, signals>>

-----------------------------------------------------------------------------
(* readTerminalPassword. *)

\* Opening /dev/tty and reading its settings.
Open ==
  /\ Go("open", "notify") \/ Go("open", "returned")
  /\ UNCHANGED <<answer, dialogue, echo, restored, signals>>

Notify ==
  /\ Go("notify", "hide")
  /\ notified' = TRUE
  /\ UNCHANGED <<answer, dialogue, echo, restored, caught, session, alive, interrupts>>

\* A failure leaves only signal.Stop deferred; after it, restore is too.
Hide ==
  /\ \/ Go("hide", "prompt") /\ echo' = FALSE
     \/ Go("hide", "stop") /\ UNCHANGED echo
  /\ UNCHANGED <<answer, dialogue, restored, signals>>

\* Mutant: the deferred calls run in the order they were deferred in.
StopFirst == <<"stop", "restore">>

\* restore was deferred last: it runs before signal.Stop.
Deferred == <<"restore", "stop">>

After(at) == IF at = Deferred[1] THEN Deferred[2] ELSE "returned"

Prompt ==
  /\ Go("prompt", "wait") \/ Go("prompt", Deferred[1])
  /\ UNCHANGED <<answer, dialogue, echo, restored, signals>>

\* The line read by the goroutine, or an error of the terminal.
TakeLine ==
  /\ Go("wait", "finish")
  /\ answer' \in {<<>>, <<Pin>>}
  /\ UNCHANGED <<dialogue, echo, restored, signals>>

TakeInterrupt ==
  /\ Go("wait", "finish") /\ caught
  /\ caught' = FALSE
  /\ UNCHANGED <<answer, dialogue, echo, restored, notified, session, alive, interrupts>>

Restore ==
  /\ Go("finish", Deferred[1]) \/ Go("restore", After("restore"))
  /\ IF restored THEN UNCHANGED echo ELSE echo' = TRUE
  /\ restored' = TRUE
  /\ UNCHANGED <<answer, dialogue, signals>>

SignalStop ==
  /\ Go("stop", After("stop"))
  /\ notified' = FALSE /\ caught' = FALSE
  /\ UNCHANGED <<answer, dialogue, echo, restored, session, alive, interrupts>>

-----------------------------------------------------------------------------
(* Interrupts. *)

\* Every notified channel gets it, and without one it ends the process.
\* pinentry is in the same process group.
Interrupt ==
  /\ alive /\ pc # "returned" /\ interrupts < MaxInterrupts
  /\ interrupts' = interrupts + 1
  /\ caught' = notified
  /\ session' = IF session = "waiting" THEN "caught" ELSE session
  /\ alive' = (notified \/ session # "stopped")
  /\ pinentry' \in {pinentry, IF pinentry = "running" THEN "exited" ELSE pinentry}
  /\ UNCHANGED <<pc, step, data, answer, lines, statuses, echo, restored, notified>>

\* onInterrupt's goroutine: signal.Stop after the first.
HandlerStops ==
  /\ alive /\ session = "caught"
  /\ session' = "stopped"
  /\ UNCHANGED <<pc, answer, dialogue, echo, restored, notified, caught, alive, interrupts>>

Next ==
  \/ StartPinentry \/ Respond \/ PinentryExits \/ Ask \/ ReadLine \/ ReadEOF \/ Reap
  \/ Open \/ Notify \/ Hide \/ Prompt \/ TakeLine \/ TakeInterrupt \/ Restore \/ SignalStop
  \/ Interrupt \/ HandlerStops

Spec == Init /\ [][Next]_vars

-----------------------------------------------------------------------------
\* However the prompt ends, the terminal echoes again, also when an interrupt
\* kills the process the ordinary way.
EchoIsRestored == pc = "returned" \/ ~alive => echo

\* A password is all of what the user gave, and never what answered another command.
PasswordIsComplete == answer \in {<<>>, <<Pin>>}

\* While the echo is off an interrupt comes to the prompt, which restores it.
EchoInv ==
  /\ echo \in BOOLEAN /\ restored \in BOOLEAN /\ notified \in BOOLEAN /\ alive \in BOOLEAN
  /\ pc \in {"hide", "prompt", "wait", "finish", "restore", "stop"} => notified
  /\ restored => pc \in {"restore", "stop", "returned"}
  /\ ~echo => pc \in {"prompt", "wait", "finish", "restore"} /\ ~restored /\ alive

Lines == {"OK", "ERR", "S"} \cup Range(Pin)

Response == IF Commands[step] = "GETPIN" THEN Pin \o <<"OK">> ELSE <<"OK">>

\* What was read and what is still to come make up one response.
ResponseInv ==
  /\ answer \in {<<>>, <<Pin>>}
  /\ data \in Seq(Lines) /\ lines \in Seq(Lines)
  /\ pc \in {"start", "ask"} => lines = <<>>
  /\ pc = "start" => data = <<>>
  /\ pc = "read" => \/ data = <<>> /\ lines \in {<<>>, <<"S">>, <<"ERR">>}
                    \/ data \o lines = Response /\ lines # <<>>
=============================================================================
