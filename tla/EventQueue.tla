----------------------------- MODULE EventQueue -----------------------------
(***************************************************************************)
(* ui/event_queue.go and the relay goroutine that drains it                *)
(* (dispatchEvents in win32 and darwin, relayEvents in wayland).           *)
(*                                                                         *)
(* Desktop goroutines (Producers) Push events without ever blocking; one   *)
(* relay goroutine Pops them and hands them, one rendezvous at a time, to  *)
(* the client.  Push works in two steps, because the Wake token is only    *)
(* offered once the mutex is released.  Past MaxPending the queue trades   *)
(* presentation events (configure, motion, clipboard) for room.            *)
(***************************************************************************)
EXTENDS Naturals, Sequences, Functions

CONSTANTS
  Producers,    \* goroutines that may emit events
  Windows,      \* local windows events belong to
  NoWindow,     \* the window of an event that has none
  MaxPending,   \* the queue's soft limit
  MaxEvents     \* bound: how many events the desktop emits

ASSUME EventQueueAssumption ==
  /\ NoWindow \notin Windows
  /\ MaxPending \in Nat \ {0}
  /\ MaxEvents \in Nat

VARIABLES
  pending,      \* EventQueue.pending, oldest first
  wake,         \* the token in the capacity-one Wake channel
  signalling,   \* producers between the unlock and the Wake send
  relay,        \* where the relay goroutine is
  held,         \* the event the relay popped last
  eventStop,    \* the eventStop channel is closed
  emitted,      \* history: every event pushed, in order
  delivered     \* history: every event the client received, in order

vars == <<pending, wake, signalling, relay, held, eventStop, emitted, delivered>>

-----------------------------------------------------------------------------
(* Events.  The id stands for the payload: the n-th event emitted has id n. *)

Event ==
  [kind : {"configure", "motion", "input"}, window : Windows, id : Nat]
    \cup [kind : {"clipboard"}, window : {NoWindow}, id : Nat]

Coalescible(e) == e.kind \in {"configure", "motion", "clipboard"}

Important(e) == ~Coalescible(e)

CanCoalesce(old, next) ==
  /\ Coalescible(next)
  /\ old.kind = next.kind
  /\ old.window = next.window

InFlight == (IF relay = "send" THEN <<held>> ELSE <<>>) \o pending

-----------------------------------------------------------------------------
Init ==
  /\ pending = <<>>
  /\ wake = FALSE
  /\ signalling = {}
  /\ relay = "pop"
  /\ held = <<>>
  /\ eventStop = FALSE
  /\ emitted = <<>>
  /\ delivered = <<>>

(* The five outcomes of pushLocked. *)

AppendBelowLimit(e) ==
  /\ Len(pending) < MaxPending
  /\ pending' = Append(pending, e)

Matches(e) == {i \in DOMAIN pending : CanCoalesce(pending[i], e)}

\* Mutant: scan from the front, so an older match is replaced.
ReplaceOldestMatch(e) ==
  /\ Len(pending) >= MaxPending
  /\ \E i \in Matches(e) :
       /\ \A j \in Matches(e) : i <= j
       /\ pending' = [pending EXCEPT ![i] = e]

ReplaceNewestMatch(e) ==
  /\ Len(pending) >= MaxPending
  /\ \E i \in Matches(e) :
       /\ \A j \in Matches(e) : j <= i
       /\ pending' = [pending EXCEPT ![i] = e]

DiscardUnmatched(e) ==
  /\ Len(pending) >= MaxPending
  /\ Coalescible(e)
  /\ Matches(e) = {}
  /\ pending' = pending

Victims == {i \in DOMAIN pending : Coalescible(pending[i])}

\* Mutant: the victims behind the first slot are not looked for.
EvictHead(e) ==
  /\ Len(pending) >= MaxPending
  /\ Important(e)
  /\ Victims # {}
  /\ pending' = Append(Tail(pending), e)

\* Mutant: the vacated last slot is left nil.
EvictIntoNil(e) ==
  /\ Len(pending) >= MaxPending
  /\ Important(e)
  /\ \E i \in Victims :
       /\ \A j \in Victims : i <= j
       /\ pending' = [j \in DOMAIN pending |->
                        IF j < i THEN pending[j]
                        ELSE IF j < Len(pending) THEN pending[j + 1] ELSE <<>>]

\* Mutant: the event is added, but no victim is removed for it.
EvictNothing(e) ==
  /\ Len(pending) >= MaxPending
  /\ Important(e)
  /\ Victims # {}
  /\ pending' = Append(pending, e)

\* The event is put last; everything behind the victim moves up by one.
EvictOldestVictim(e) ==
  /\ Len(pending) >= MaxPending
  /\ Important(e)
  /\ \E i \in Victims :
       /\ \A j \in Victims : i <= j
       /\ pending' = [j \in DOMAIN pending |->
                        IF j < i THEN pending[j]
                        ELSE IF j < Len(pending) THEN pending[j + 1] ELSE e]

\* Mutant: the limit is hard, and an input transition is dropped at it.
DropAtLimit(e) ==
  /\ Len(pending) >= MaxPending
  /\ Important(e)
  /\ Victims = {}
  /\ pending' = pending

GrowPastLimit(e) ==
  /\ Len(pending) >= MaxPending
  /\ Important(e)
  /\ Victims = {}
  /\ pending' = Append(pending, e)

\* Push up to the unlock.  Only a discarded event leaves no token to send.
Push(p, e) ==
  /\ p \notin signalling
  /\ emitted' = Append(emitted, e)
  /\ \/ /\ \/ AppendBelowLimit(e)
           \/ ReplaceNewestMatch(e)
           \/ EvictOldestVictim(e)
           \/ GrowPastLimit(e)
        /\ signalling' = signalling \cup {p}
     \/ /\ DiscardUnmatched(e)
        /\ UNCHANGED signalling
  /\ UNCHANGED <<wake, relay, held, eventStop, delivered>>

\* Mutant: the token is never offered.
ForgetToSignal(p) ==
  /\ p \in signalling
  /\ signalling' = signalling \ {p}
  /\ UNCHANGED <<pending, wake, relay, held, eventStop, emitted, delivered>>

\* Push after the unlock: a second token is dropped, not waited for.
Signal(p) ==
  /\ p \in signalling
  /\ signalling' = signalling \ {p}
  /\ wake' = TRUE
  /\ UNCHANGED <<pending, relay, held, eventStop, emitted, delivered>>

-----------------------------------------------------------------------------
(* The relay goroutine. *)

RelayPop ==
  /\ relay = "pop"
  /\ IF pending = <<>>
     THEN relay' = "wait" /\ UNCHANGED <<pending, held>>
     ELSE /\ held' = Head(pending)
          /\ pending' = Tail(pending)
          /\ relay' = "send"
  /\ UNCHANGED <<wake, signalling, eventStop, emitted, delivered>>

RelayWake ==
  /\ relay = "wait"
  /\ wake
  /\ wake' = FALSE
  /\ relay' = "pop"
  /\ UNCHANGED <<pending, signalling, held, eventStop, emitted, delivered>>

\* The rendezvous on the unbuffered events channel.
RelaySend ==
  /\ relay = "send"
  /\ delivered' = Append(delivered, held)
  /\ relay' = "pop"
  /\ UNCHANGED <<pending, wake, signalling, held, eventStop, emitted>>

\* Mutant: only the send watches eventStop.
StopWhileSending ==
  /\ relay = "send"
  /\ eventStop
  /\ relay' = "done"
  /\ UNCHANGED <<pending, wake, signalling, held, eventStop, emitted, delivered>>

\* Both selects of the relay also watch eventStop; leaving closes events.
RelayStop ==
  /\ relay \in {"wait", "send"}
  /\ eventStop
  /\ relay' = "done"
  /\ UNCHANGED <<pending, wake, signalling, held, eventStop, emitted, delivered>>

\* The desktop side shuts down.
Stop ==
  /\ ~eventStop
  /\ eventStop' = TRUE
  /\ UNCHANGED <<pending, wake, signalling, relay, held, emitted, delivered>>

NextEvents == {e \in [kind : {"configure", "motion", "input"}, window : Windows,
                      id : {Len(emitted) + 1}]
                 \cup [kind : {"clipboard"}, window : {NoWindow},
                       id : {Len(emitted) + 1}] : Len(emitted) < MaxEvents}

Next ==
  \/ \E p \in Producers, e \in NextEvents : Push(p, e)
  \/ \E p \in Producers : Signal(p)
  \/ RelayPop
  \/ RelayWake
  \/ RelaySend
  \/ RelayStop
  \/ Stop

Spec == Init /\ [][Next]_vars

(* Goroutines that can run do run; the client's loop keeps receiving (Go's  *)
(* select picks among ready cases at random).  Nothing forces Push or Stop. *)
Fairness ==
  /\ \A p \in Producers : WF_vars(Signal(p))
  /\ WF_vars(RelayPop) /\ WF_vars(RelayWake)
  /\ WF_vars(RelaySend) /\ WF_vars(RelayStop)

FairSpec == Spec /\ Fairness

-----------------------------------------------------------------------------
TypeOK ==
  /\ pending \in Seq(Event)
  /\ wake \in BOOLEAN
  /\ signalling \subseteq Producers
  /\ relay \in {"pop", "wait", "send", "done"}
  /\ relay = "send" => held \in Event
  /\ eventStop \in BOOLEAN
  /\ emitted \in Seq(Event)
  /\ delivered \in Seq(Event)

\* A relay that sleeps on Wake while events are queued has a token waiting for
\* it, or a producer that is about to offer one.
NoLostWakeup ==
  relay = "wait" /\ pending # <<>> => wake \/ signalling # {}

\* "The queue grows only when it contains nothing safe to discard": beyond the
\* soft limit there are only input transitions.
GrowsOnlyWithInput ==
  Len(pending) > MaxPending => \A i \in DOMAIN pending : Important(pending[i])

\* Key and button transitions "must never be lost": until the relay stops, each
\* one emitted is with the client, with the relay, or still queued.
InputNeverLost ==
  relay # "done" =>
    \A i \in DOMAIN emitted :
      Important(emitted[i]) => emitted[i] \in Range(delivered) \cup Range(InFlight)

\* Two events of which one may not overtake the other: two input transitions,
\* or two presentation events of the same kind and window.
Ordered(old, next) == \/ Important(old) /\ Important(next)
                      \/ CanCoalesce(old, next)

\* "... must remain ordered", and a stale geometry, position or clipboard never
\* follows a fresh one, however the queue coalesced and evicted in between.
NoOvertaking ==
  LET all == delivered \o InFlight
  IN  \A i, j \in DOMAIN all : i < j /\ Ordered(all[i], all[j]) => all[i].id < all[j].id

\* Once the display is told to stop, the relay does close the events channel.
RelayTerminates == eventStop ~> relay = "done"

-----------------------------------------------------------------------------
(* What the queue promises about input: a lossless first-in first-out      *)
(* channel, whatever happens to the presentation events around it.         *)
Input == INSTANCE InputChannel WITH
  sent <- emitted,
  received <- delivered,
  closed <- eventStop

ImplementsInputChannel == Input!Spec

\* win32/display.go:335, wayland and darwin alike: "The queue may discard only
\* motion and configure events".  A push that leaves the queue without one of
\* the events it held, or without the event itself, lost an event that is not
\* replaced by a newer one of its kind.
DiscardsOnlyMotionAndConfigure ==
  [][Len(emitted') > Len(emitted) =>
       \A e \in Range(Append(pending, emitted'[Len(emitted')])) : e \notin Range(pending')
         => e.kind \in {"motion", "configure"}
            \/ \E f \in Range(pending') : CanCoalesce(e, f)]_vars
=============================================================================
