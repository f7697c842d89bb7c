---------------------------- MODULE InputChannel ----------------------------
(***************************************************************************)
(* What a display promises the client about key presses, button releases   *)
(* and every other event that is not mere presentation: they arrive, all   *)
(* of them, once, in the order they happened, until the display closes.    *)
(* Of presentation events it promises no more than that they happened.     *)
(***************************************************************************)
EXTENDS Naturals, Sequences

CONSTANT Important(_)   \* the events that must never be lost

VARIABLES
  sent,       \* the events so far, no two of them alike
  received,   \* those the client has handled
  closed      \* the display is shutting down

vars == <<sent, received, closed>>

Init ==
  /\ sent = <<>>
  /\ received = <<>>
  /\ closed = FALSE

Happen ==
  /\ Len(sent') = Len(sent) + 1
  /\ sent = SubSeq(sent', 1, Len(sent))
  /\ UNCHANGED <<received, closed>>

\* The input transitions the client has not handled yet.
Outstanding ==
  {n \in DOMAIN sent : /\ Important(sent[n])
                       /\ \A i \in DOMAIN received : received[i] # sent[n]}

ReceiveInput ==
  /\ \E n \in Outstanding : /\ \A m \in Outstanding : n <= m
                            /\ received' = Append(received, sent[n])
  /\ UNCHANGED <<sent, closed>>

ReceiveOther ==
  /\ \E n \in DOMAIN sent : /\ ~Important(sent[n])
                            /\ received' = Append(received, sent[n])
  /\ UNCHANGED <<sent, closed>>

Close ==
  /\ ~closed
  /\ closed' = TRUE
  /\ UNCHANGED <<sent, received>>

Next == Happen \/ ReceiveInput \/ ReceiveOther \/ Close

Safety == Init /\ [][Next]_vars

Spec == Safety /\ WF_vars(~closed /\ ReceiveInput)
=============================================================================
