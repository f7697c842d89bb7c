----------------------------- MODULE SSHStream ------------------------------
(***************************************************************************)
(* The ssh process as a stream (cmd/go-xpra/ssh.go): the connection's read *)
(* loop meets the end of ssh's output and reaps it, while another          *)
(* goroutine closes the stream.                                            *)
(***************************************************************************)
EXTENDS Naturals

VARIABLES
  process,    \* "running", "exited", "failed", "killed"
  output,     \* the write end of ssh's stdout is open
  pipe,       \* our end of it is open
  state,      \* command.ProcessState is set
  reader,     \* the read loop
  readResult, \* what its last Read returned
  closer,     \* Close
  wait        \* waitOnce: "free", held by "reader" or "closer", "over"

vars == <<process, output, pipe, state, reader, readResult, closer, wait>>

Init ==
  /\ process = "running" /\ output = TRUE /\ pipe = TRUE /\ state = FALSE
  /\ reader = "reading" /\ readResult = "none"
  /\ closer = "idle" /\ wait = "free"

Ended == process # "running"

-----------------------------------------------------------------------------
(* The ssh process. *)

\* It may close its output some time before it ends, and need not end by itself.
CloseOutput ==
  /\ process = "running" /\ output
  /\ output' = FALSE
  /\ UNCHANGED <<process, pipe, state, reader, readResult, closer, wait>>

Exit(status) ==
  /\ process = "running"
  /\ process' = status /\ output' = FALSE
  /\ UNCHANGED <<pipe, state, reader, readResult, closer, wait>>

-----------------------------------------------------------------------------
(* Read, in the connection's read loop. *)

ReadEOF ==
  /\ reader = "reading" /\ pipe /\ ~output
  /\ reader' = "waiting"
  /\ UNCHANGED <<process, output, pipe, state, readResult, closer, wait>>

ReadClosed ==
  /\ reader = "reading" /\ ~pipe
  /\ reader' = "done" /\ readResult' = "closed"
  /\ UNCHANGED <<process, output, pipe, state, closer, wait>>

\* What command.Wait returned decides what the end of the output means.
EndOfRead == IF process = "exited" THEN "eof" ELSE "failed"

\* wait: the first one in waits for the process, the other one for the first.
Enter(who) ==
  /\ wait = "free"
  /\ wait' = who
  /\ UNCHANGED <<process, output, pipe, state, reader, readResult, closer>>

\* command.Wait also closes our end of the pipe.
Reaped(who) ==
  /\ wait = who /\ Ended
  /\ wait' = "over" /\ state' = TRUE /\ pipe' = FALSE
  /\ UNCHANGED <<process, output, reader, readResult, closer>>

ReaderWaits == reader = "waiting" /\ (Enter("reader") \/ Reaped("reader"))

ReaderReturns ==
  /\ reader = "waiting" /\ wait = "over"
  /\ reader' = "done" /\ readResult' = EndOfRead
  /\ UNCHANGED <<process, output, pipe, state, closer, wait>>

-----------------------------------------------------------------------------
(* Close. *)

ClosePipes ==
  /\ closer = "idle"
  /\ closer' = "test" /\ pipe' = FALSE
  /\ UNCHANGED <<process, output, state, reader, readResult, wait>>

\* The unsynchronized test of ProcessState: when it is being set the process has
\* ended, so that either outcome of the race does the same, as Kill is then
\* without effect and ErrProcessDone is no error.
MayKill == ~state

Kill ==
  /\ closer = "test"
  /\ closer' = "waiting"
  /\ process' = IF MayKill /\ ~Ended THEN "killed" ELSE process
  /\ output' = (output /\ process' = "running")
  /\ UNCHANGED <<pipe, state, reader, readResult, wait>>

CloserWaits == closer = "waiting" /\ (Enter("closer") \/ Reaped("closer"))

CloserReturns ==
  /\ closer = "waiting" /\ wait = "over"
  /\ closer' = "done"
  /\ UNCHANGED <<process, output, pipe, state, reader, readResult, wait>>

Read == ReadEOF \/ ReadClosed \/ ReaderWaits \/ ReaderReturns
Close == Kill \/ CloserWaits \/ CloserReturns

Next ==
  \/ CloseOutput \/ \E status \in {"exited", "failed"} : Exit(status)
  \/ Read \/ ClosePipes \/ Close

Spec == Init /\ [][Next]_vars

-----------------------------------------------------------------------------
\* The stream ends cleanly only if ssh did, whoever reaped it.
CleanEndIsClean == readResult = "eof" => process = "exited"

\* A closed stream has left no child process behind.
NoChildLeft == closer = "done" => Ended /\ state

\* Close waits for a process that is ending: ssh need never end by itself, and
\* the read loop may have been waiting for it first.
CloseIsNotStuck == closer = "waiting" => Ended

\* Whoever was first has reaped an ssh that had ended, and Close goes on only then.
ReapedInv ==
  /\ process \in {"running", "exited", "failed", "killed"}
  /\ state = (wait = "over")
  /\ state => Ended
  /\ CleanEndIsClean /\ NoChildLeft /\ CloseIsNotStuck
=============================================================================
