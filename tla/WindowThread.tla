---------------------------- MODULE WindowThread ----------------------------
(***************************************************************************)
(* The thread that owns the windows on Windows (win32/display.go) and the  *)
(* AppKit main thread (darwin/display.go, run.go): other goroutines queue  *)
(* functions for it and wake it with a message of its own, wait for them   *)
(* or not, and one of them ends it.                                        *)
(***************************************************************************)
EXTENDS Naturals, Sequences, FiniteSets, Functions

CONSTANTS
  Client,    \* the goroutine that closes the display
  Others,    \* further goroutines that call, such as pollClipboard
  Capacity,  \* of Display.calls and mainCalls
  MaxJobs    \* bound: functions each goroutine queues

Callers == {Client} \cup Others

\* What the constants have to satisfy.
WindowThreadAssumption ==
  /\ Client \notin Others
  /\ Capacity \in Nat \ {0} /\ MaxJobs \in Nat
  /\ IsFiniteSet(Others) /\ Cardinality(Others) <= Capacity

Job(c, n) == <<c, n>>
Cleanup == <<"cleanup">>
Stop == <<"stop">>

VARIABLES
  backend,   \* "win32" or "darwin"
  pc,        \* where each goroutine is
  job,       \* the function it is queueing
  waits,     \* it called rather than posted
  made,      \* history: functions it queued
  queue,     \* Display.calls, mainCalls
  messages,  \* wmRunCalls and wmStop; on AppKit trampolines queued by dispatch_async
  done,      \* Display.done is closed
  once,      \* who is inside Display.once, if anybody; "over" after it
  thread,    \* "loop", "running" queued functions, "quitting" and its "lastCalls",
             \* "unwinding", "ended"
  failed,    \* getMessage failed
  ran        \* history: functions run, in order

callerVars == <<pc, job, waits, made>>
vars == <<backend, callerVars, queue, messages, done, once, thread, failed, ran>>

Init ==
  /\ backend \in {"win32", "darwin"}
  /\ pc = [c \in Callers |-> "idle"]
  /\ job = [c \in Callers |-> Stop]
  /\ waits = [c \in Callers |-> FALSE]
  /\ made = [c \in Callers |-> 0]
  /\ queue = <<>> /\ messages = <<>>
  /\ done = FALSE /\ once = "nobody"
  /\ thread = "loop" /\ failed = FALSE
  /\ ran = <<>>

-----------------------------------------------------------------------------
(* The callers. *)

\* post: nothing is queued once the display is done.
Queue(c, f, wait, next) ==
  /\ job' = [job EXCEPT ![c] = f]
  /\ waits' = [waits EXCEPT ![c] = wait]
  /\ pc' = [pc EXCEPT ![c] = IF ~done THEN next ELSE IF wait THEN "wait" ELSE "idle"]

Post(c, wait) ==
  /\ pc[c] = "idle" /\ made[c] < MaxJobs
  /\ c = Client => once \notin {"client", "over"}
  /\ made' = [made EXCEPT ![c] = @ + 1]
  /\ Queue(c, Job(c, made'[c]), wait, "send")
  /\ UNCHANGED <<backend, queue, messages, done, once, thread, failed, ran>>

Sent(c) == pc' = [pc EXCEPT ![c] = IF waits[c] THEN "wait" ELSE "idle"]

Full == Len(queue) >= Capacity

\* Mutant: the send has no way out of a full queue.
SendOnly(c) == FALSE

\* On Windows the send gives way to done; dispatchOnMain's does not.
GiveWay(c) == backend = "win32" /\ done

Send(c) ==
  /\ pc[c] = "send"
  /\ \/ /\ ~Full
        /\ queue' = Append(queue, job[c])
        /\ pc' = [pc EXCEPT ![c] = "wake"]
     \/ GiveWay(c) /\ Sent(c) /\ UNCHANGED queue
  /\ UNCHANGED <<backend, job, waits, made, messages, done, once, thread, failed, ran>>

\* A message loop that has ended takes no more messages.
Listening == thread \notin {"unwinding", "ended"}

Arrives(message) == messages' = IF Listening THEN Append(messages, message) ELSE messages

\* postMessage, dispatchAsyncF.
Wake(c) ==
  /\ pc[c] = "wake"
  /\ Arrives("run")
  /\ Sent(c)
  /\ UNCHANGED <<backend, job, waits, made, queue, done, once, thread, failed, ran>>

\* call's select: the function has run, or the display is done.
Return(c) ==
  /\ pc[c] = "wait"
  /\ job[c] \in Range(ran) \/ done
  /\ job[c] # Cleanup
  /\ pc' = [pc EXCEPT ![c] = "idle"]
  /\ UNCHANGED <<backend, job, waits, made, queue, messages, done, once, thread, failed, ran>>

-----------------------------------------------------------------------------
(* Close, which runs at most once. *)

\* On Windows: done first, then the message.  On AppKit: the cleanup is called
\* like anything else.
Close ==
  /\ pc[Client] = "idle" /\ once = "nobody"
  /\ once' = "client"
  /\ IF backend = "win32"
     THEN done' = TRUE /\ pc' = [pc EXCEPT ![Client] = "stop"] /\ UNCHANGED <<job, waits>>
     ELSE Queue(Client, Cleanup, TRUE, "send") /\ UNCHANGED done
  /\ UNCHANGED <<backend, made, queue, messages, thread, failed, ran>>

PostStop == Arrives("stop")

CloseStop ==
  /\ pc[Client] = "stop"
  /\ PostStop
  /\ once' = "over"
  /\ pc' = [pc EXCEPT ![Client] = "idle"]
  /\ UNCHANGED <<backend, job, waits, made, queue, done, thread, failed, ran>>

\* AppKit: Close returns, the function RunMain runs too, and its stop is queued.
CloseDone ==
  /\ pc[Client] = "wait" /\ job[Client] = Cleanup
  /\ Cleanup \in Range(ran)
  /\ done' = TRUE /\ once' = "over"
  /\ job' = [job EXCEPT ![Client] = Stop]
  /\ waits' = [waits EXCEPT ![Client] = FALSE]
  /\ pc' = [pc EXCEPT ![Client] = "send"]
  /\ UNCHANGED <<backend, made, queue, messages, thread, failed, ran>>

-----------------------------------------------------------------------------
(* The thread. *)

\* getMessage and windowProc: WM_QUIT comes when no other message is left.
Dispatch ==
  /\ thread \in {"loop", "quitting"} /\ messages # <<>>
  /\ messages' = Tail(messages)
  /\ IF Head(messages) = "stop"
     THEN thread' = "quitting"
     ELSE thread' = IF thread = "loop" THEN "running" ELSE "lastCalls"
  /\ UNCHANGED <<backend, callerVars, queue, done, once, failed, ran>>

\* runCalls, runQueuedMainCalls: everything queued by now.
RunCalls ==
  /\ thread \in {"running", "lastCalls"}
  /\ IF queue # <<>>
     THEN /\ queue' = Tail(queue)
          /\ ran' = Append(ran, Head(queue))
          /\ UNCHANGED thread
     ELSE /\ thread' = IF Stop \in Range(ran) THEN "ended"
                       ELSE IF thread = "running" THEN "loop" ELSE "quitting"
          /\ UNCHANGED <<queue, ran>>
  /\ UNCHANGED <<backend, callerVars, messages, done, once, failed>>

GetMessageFails ==
  /\ backend = "win32" /\ thread = "loop"
  /\ thread' = "quitting" /\ failed' = TRUE /\ messages' = <<>>
  /\ UNCHANGED <<backend, callerVars, queue, done, once, ran>>

\* windowThread's deferred calls: the cleanup, then Close, which waits for one
\* under way.
Unwind ==
  /\ thread = "quitting" /\ messages = <<>>
  /\ thread' = "unwinding"
  /\ ran' = Append(ran, Cleanup)
  /\ UNCHANGED <<backend, callerVars, queue, messages, done, once, failed>>

UnwindClose ==
  /\ thread = "unwinding" /\ once # "client"
  /\ done' = TRUE /\ once' = "over"
  /\ thread' = "ended"
  /\ UNCHANGED <<backend, callerVars, queue, messages, failed, ran>>

Thread == Dispatch \/ RunCalls \/ Unwind \/ UnwindClose

Next ==
  \/ \E c \in Callers :
       \/ \E wait \in BOOLEAN : Post(c, wait)
       \/ Send(c) \/ Wake(c) \/ Return(c)
  \/ Close \/ CloseStop \/ CloseDone
  \/ Thread \/ GetMessageFails

Spec == Init /\ [][Next]_vars

-----------------------------------------------------------------------------
\* Whatever the client posted before it closed the display has run when the
\* windows, the tray icon and the cursor go, unless the loop broke; on Windows
\* nothing that a goroutine waits for in vain is run on what has gone.
CleanupComesLast ==
  Cleanup \in Range(ran) /\ ~failed =>
    LET n == CHOOSE n \in DOMAIN ran : ran[n] = Cleanup
    IN /\ \A k \in 1 .. made[Client] : Job(Client, k) \in Range(SubSeq(ran, 1, n))
       /\ \A k \in n + 1 .. Len(ran) : backend = "darwin" /\ ran[k][1] \in Others \cup {"stop"}

\* Nobody is left waiting: a function that somebody waits for has run, or the
\* display is done, or the thread is awake or about to be woken; and once the
\* thread has ended, nobody is stuck before a queue that it no longer empties.
NobodyIsStranded ==
  \A c \in Callers :
    /\ pc[c] = "wait" =>
         \/ job[c] \in Range(ran) \/ done
         \/ messages # <<>> \/ thread \in {"running", "lastCalls", "quitting", "unwinding"}
    /\ pc[c] = "send" /\ thread = "ended" => ~Full \/ GiveWay(c)

Jobs == {Job(c, n) : c \in Callers, n \in 1 .. MaxJobs} \cup {Cleanup, Stop}

ThreadTypeOK ==
  /\ backend \in {"win32", "darwin"}
  /\ pc \in [Callers -> {"idle", "send", "wake", "wait", "stop"}]
  /\ job \in [Callers -> Jobs] /\ waits \in [Callers -> BOOLEAN]
  /\ made \in [Callers -> 0 .. MaxJobs]
  /\ queue \in Seq(Jobs) /\ ran \in Seq(Jobs) /\ messages \in Seq({"run", "stop"})
  /\ done \in BOOLEAN /\ failed \in BOOLEAN
  /\ once \in {"nobody", "client", "over"}
  /\ thread \in {"loop", "running", "quitting", "lastCalls", "unwinding", "ended"}

\* What was queued, in order, run or not.
Queued == ran \o queue

\* What each goroutine queues: the client's cleanup and its stop come last.
OwnJobs ==
  /\ \A c \in Others :
       /\ pc[c] # "stop"
       /\ (pc[c] = "idle" /\ job[c] = Stop) \/ \E n \in 1 .. MaxJobs : job[c] = Job(c, n)
  /\ pc[Client] = "stop" => backend = "win32" /\ once = "client"
  /\ pc[Client] \in {"send", "wake", "wait"} =>
       \/ /\ job[Client] = Job(Client, made[Client]) /\ made[Client] \in 1 .. MaxJobs
          /\ (backend = "darwin" => once = "nobody")
       \/ job[Client] = Cleanup /\ backend = "darwin" /\ once = "client"
       \/ job[Client] = Stop /\ backend = "darwin" /\ once = "over" /\ pc[Client] # "wait" /\ ~waits[Client]

\* How far the display is closed: on Windows done comes first, on AppKit last.
ClosingInv ==
  /\ done => once # "nobody"
  /\ once = "over" => done
  /\ backend = "win32" /\ once # "nobody" => done
  /\ backend = "darwin" /\ done => once = "over"
  /\ thread = "ended" => done
  /\ backend = "win32" /\ ~failed =>
       /\ once # "nobody" => pc[Client] \in {"stop", "idle"}
       /\ pc[Client] # "stop" => once # "client"
       /\ "stop" \in Range(messages) \/ thread \notin {"loop", "running"} => once = "over"

\* The AppKit main thread ends with the client's stop, and only so.
StopInv ==
  /\ Stop \in Range(Queued) =>
       backend = "darwin" /\ once = "over" /\ pc[Client] # "send"
  /\ backend = "darwin" =>
       /\ thread \in {"loop", "running", "ended"} /\ ~failed
       /\ "stop" \notin Range(messages)
       /\ thread = "ended" =>
            /\ Stop \in Range(ran)
            /\ Len(queue) + Cardinality({c \in Others : pc[c] = "send"}) <= Capacity

\* What somebody waits for is queued, and the thread has been told.
AwakeInv ==
  \A c \in Callers :
    /\ pc[c] = "wake" => job[c] \in Range(Queued)
    /\ pc[c] = "wait" /\ ~done =>
         \/ job[c] \in Range(ran)
         \/ /\ job[c] \in Range(queue)
            /\ messages # <<>> \/ thread \in {"running", "lastCalls", "quitting", "unwinding"}

\* Windows: the client's functions come before its stop; the cleanup is last.
LastOnWindows ==
  backend = "win32" =>
    /\ Cleanup \notin Range(queue)
    /\ \A i \in 1 .. Len(ran) : ran[i] = Cleanup =>
         i = Len(ran) /\ thread \in {"unwinding", "ended"}
    /\ ~failed => \A k \in 1 .. made[Client] :
         \/ Job(Client, k) \in Range(ran)
         \/ /\ Job(Client, k) \in Range(queue)
            /\ "run" \in Range(messages) \/ thread \in {"running", "lastCalls"} \/ pc[Client] = "wake"
            /\ thread \notin {"unwinding", "ended"}
         \/ pc[Client] = "send" /\ job[Client] = Job(Client, k)

\* AppKit: the cleanup is queued once, after all that the client queued.
LastOnAppKit ==
  backend = "darwin" =>
    /\ Cleanup \in Range(Queued) => once # "nobody" /\ ~(pc[Client] = "send" /\ job[Client] = Cleanup)
    /\ \A k \in 1 .. made[Client] :
         Job(Client, k) \in Range(Queued) \/ (pc[Client] = "send" /\ job[Client] = Job(Client, k))
    /\ \A i \in 1 .. Len(Queued) : Queued[i] = Cleanup =>
         /\ \A k \in 1 .. made[Client] : \E j \in 1 .. i : Queued[j] = Job(Client, k)
         /\ \A j \in i + 1 .. Len(Queued) :
              Queued[j] # Cleanup /\ Queued[j][1] \in Others \cup {"stop"}

\* The inductive invariant behind both.
WindowThreadInv ==
  ThreadTypeOK /\ OwnJobs /\ ClosingInv /\ StopInv /\ AwakeInv /\ LastOnWindows /\ LastOnAppKit
=============================================================================
