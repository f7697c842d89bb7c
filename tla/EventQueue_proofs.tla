-------------------------- MODULE EventQueue_proofs --------------------------
(***************************************************************************)
(* What the event queue guarantees for any number of producers, windows    *)
(* and events, and any soft limit.                                         *)
(***************************************************************************)
EXTENDS EventQueue, TLAPS

USE EventQueueAssumption

\* What an emitted event is, and how Coalescible tells the kinds apart.
LEMMA NextEventIsEvent ==
  ASSUME NEW e \in NextEvents
  PROVE  e \in Event
BY DEF NextEvents, Event

\* Coalescing keeps the kind, so only presentation events are replaced.
LEMMA CoalescedIsCoalescible ==
  ASSUME NEW old, NEW next, CanCoalesce(old, next)
  PROVE  Coalescible(old) /\ Coalescible(next)
BY DEF CanCoalesce, Coalescible

-----------------------------------------------------------------------------
\* The four ways a push changes pending, as facts about sequences.
LEMMA PushOutcome ==
  ASSUME TypeOK, NEW p \in Producers, NEW e \in Event, Push(p, e)
  PROVE  /\ pending' \in Seq(Event)
         /\ emitted' \in Seq(Event)
         /\ signalling' \subseteq Producers
<1>1. emitted' \in Seq(Event)
  BY DEF TypeOK, Push
<1>2. signalling' \subseteq Producers
  BY DEF TypeOK, Push
<1>3. pending' \in Seq(Event)
  <2>1. CASE AppendBelowLimit(e)
    BY <2>1 DEF TypeOK, AppendBelowLimit
  <2>2. CASE ReplaceNewestMatch(e)
    BY <2>2 DEF TypeOK, ReplaceNewestMatch, Matches
  <2>3. CASE EvictOldestVictim(e)
    <3>1. PICK i \in Victims :
            pending' = [j \in DOMAIN pending |->
                          IF j < i THEN pending[j]
                          ELSE IF j < Len(pending) THEN pending[j + 1] ELSE e]
      BY <2>3 DEF EvictOldestVictim
    <3>2. DOMAIN pending = 1..Len(pending) /\ Len(pending) \in Nat
      BY DEF TypeOK
    <3>3. \A j \in 1..Len(pending) : pending[j] \in Event
      BY DEF TypeOK
    <3>4. i \in 1..Len(pending)
      BY <3>2 DEF Victims
    <3>5. \A j \in 1..Len(pending) :
            (IF j < i THEN pending[j]
             ELSE IF j < Len(pending) THEN pending[j + 1] ELSE e) \in Event
      BY <3>2, <3>3, <3>4
    <3>6. pending' \in [1..Len(pending) -> Event]
      BY <3>1, <3>2, <3>5
    <3> QED
      BY <3>2, <3>6
  <2>4. CASE GrowPastLimit(e)
    BY <2>4 DEF TypeOK, GrowPastLimit
  <2>5. CASE DiscardUnmatched(e)
    BY <2>5 DEF TypeOK, DiscardUnmatched
  <2> QED
    BY <2>1, <2>2, <2>3, <2>4, <2>5 DEF Push
<1> QED
  BY <1>1, <1>2, <1>3

\* Every state of the queue and of its relay is well-formed.
THEOREM TypeCorrect == Spec => []TypeOK
<1>1. Init => TypeOK
  <2>1. <<>> \in Seq(Event)
    OBVIOUS
  <2> QED
    BY <2>1 DEF Init, TypeOK
<1>2. TypeOK /\ [Next]_vars => TypeOK'
  <2> SUFFICES ASSUME TypeOK, [Next]_vars PROVE TypeOK'
    OBVIOUS
  <2>1. ASSUME NEW p \in Producers, NEW e \in NextEvents, Push(p, e)
        PROVE  TypeOK'
    <3>1. e \in Event
      BY NextEventIsEvent
    <3>2. /\ pending' \in Seq(Event)
          /\ emitted' \in Seq(Event)
          /\ signalling' \subseteq Producers
      BY <2>1, <3>1, PushOutcome
    <3>3. UNCHANGED <<wake, relay, held, eventStop, delivered>>
      BY <2>1 DEF Push
    <3> QED
      BY <3>2, <3>3 DEF TypeOK
  <2>2. ASSUME NEW p \in Producers, Signal(p) PROVE TypeOK'
    BY <2>2 DEF TypeOK, Signal
  <2>3. CASE RelayPop
    <3>1. CASE pending = <<>>
      BY <2>3, <3>1 DEF TypeOK, RelayPop
    <3>2. CASE pending # <<>>
      <4>1. Head(pending) \in Event /\ Tail(pending) \in Seq(Event)
        BY <3>2 DEF TypeOK
      <4> QED
        BY <2>3, <3>2, <4>1 DEF TypeOK, RelayPop
    <3> QED
      BY <3>1, <3>2
  <2>4. CASE RelayWake
    BY <2>4 DEF TypeOK, RelayWake
  <2>5. CASE RelaySend
    BY <2>5 DEF TypeOK, RelaySend
  <2>6. CASE RelayStop
    BY <2>6 DEF TypeOK, RelayStop
  <2>7. CASE Stop
    BY <2>7 DEF TypeOK, Stop
  <2>8. CASE UNCHANGED vars
    BY <2>8 DEF TypeOK, vars
  <2> QED
    BY <2>1, <2>2, <2>3, <2>4, <2>5, <2>6, <2>7, <2>8 DEF Next
<1> QED
  BY <1>1, <1>2, PTL DEF Spec

-----------------------------------------------------------------------------
\* A producer between unlock and Wake accounts for every event pushed while
\* the relay sleeps; taking the token always leads back to Pop.
THEOREM WakeupNeverLost == Spec => []NoLostWakeup
<1>1. Init => NoLostWakeup
  BY DEF Init, NoLostWakeup
<1>2. NoLostWakeup /\ [Next]_vars => NoLostWakeup'
  <2> SUFFICES ASSUME NoLostWakeup, [Next]_vars PROVE NoLostWakeup'
    OBVIOUS
  <2>1. ASSUME NEW p \in Producers, NEW e \in NextEvents, Push(p, e)
        PROVE  NoLostWakeup'
    BY <2>1 DEF NoLostWakeup, Push, DiscardUnmatched
  <2>2. ASSUME NEW p \in Producers, Signal(p) PROVE NoLostWakeup'
    BY <2>2 DEF NoLostWakeup, Signal
  <2>3. CASE RelayPop
    BY <2>3 DEF NoLostWakeup, RelayPop
  <2>4. CASE RelayWake
    BY <2>4 DEF NoLostWakeup, RelayWake
  <2>5. CASE RelaySend
    BY <2>5 DEF NoLostWakeup, RelaySend
  <2>6. CASE RelayStop
    BY <2>6 DEF NoLostWakeup, RelayStop
  <2>7. CASE Stop
    BY <2>7 DEF NoLostWakeup, Stop
  <2>8. CASE UNCHANGED vars
    BY <2>8 DEF NoLostWakeup, vars
  <2> QED
    BY <2>1, <2>2, <2>3, <2>4, <2>5, <2>6, <2>7, <2>8 DEF Next
<1> QED
  BY <1>1, <1>2, PTL DEF Spec

-----------------------------------------------------------------------------
\* Above the soft limit nothing is safe to discard, so a push can only append
\* an input transition; the relay only shortens the queue.
THEOREM QueueGrowsOnlyWithInput == Spec => []GrowsOnlyWithInput
<1>1. Init => GrowsOnlyWithInput
  BY DEF Init, GrowsOnlyWithInput
<1>2. TypeOK /\ GrowsOnlyWithInput /\ [Next]_vars => GrowsOnlyWithInput'
  <2> SUFFICES ASSUME TypeOK, GrowsOnlyWithInput, [Next]_vars
               PROVE  GrowsOnlyWithInput'
    OBVIOUS
  <2>0. Len(pending) \in Nat /\ DOMAIN pending = 1..Len(pending) /\ pending \in Seq(Event)
    BY DEF TypeOK
  <2>1. ASSUME NEW p \in Producers, NEW e \in NextEvents, Push(p, e)
        PROVE  GrowsOnlyWithInput'
    <3>0. e \in Event
      BY NextEventIsEvent
    <3>1. CASE AppendBelowLimit(e)
      BY <2>0, <3>0, <3>1 DEF GrowsOnlyWithInput, AppendBelowLimit
    <3>2. CASE ReplaceNewestMatch(e)
      <4>1. PICK i \in Matches(e) : pending' = [pending EXCEPT ![i] = e]
        BY <3>2 DEF ReplaceNewestMatch
      <4>2. i \in DOMAIN pending /\ Coalescible(pending[i])
        BY CoalescedIsCoalescible DEF Matches
      <4>3. ~(Len(pending) > MaxPending)
        BY <4>2 DEF GrowsOnlyWithInput, Important
      <4>4. Len(pending') = Len(pending)
        BY <2>0, <4>1
      <4> QED
        BY <4>3, <4>4 DEF GrowsOnlyWithInput
    <3>3. CASE EvictOldestVictim(e)
      <4>1. PICK i \in Victims :
              pending' = [j \in DOMAIN pending |->
                            IF j < i THEN pending[j]
                            ELSE IF j < Len(pending) THEN pending[j + 1] ELSE e]
        BY <3>3 DEF EvictOldestVictim
      <4>2. ~(Len(pending) > MaxPending)
        BY DEF Victims, GrowsOnlyWithInput, Important
      <4>3. DOMAIN pending' = 1..Len(pending)
        BY <2>0, <4>1
      <4>4. pending' \in Seq(Event)
        BY <2>1, <3>0, PushOutcome
      <4>5. Len(pending') = Len(pending)
        BY <2>0, <4>3, <4>4
      <4> QED
        BY <4>2, <4>5 DEF GrowsOnlyWithInput
    <3>4. CASE GrowPastLimit(e)
      <4>1. pending' = Append(pending, e) /\ Important(e) /\ Victims = {}
        BY <3>4 DEF GrowPastLimit
      <4>2. \A i \in 1..Len(pending) : Important(pending[i])
        BY <2>0, <4>1 DEF Victims, Important
      <4> QED
        BY <2>0, <3>0, <4>1, <4>2 DEF GrowsOnlyWithInput
    <3>5. CASE DiscardUnmatched(e)
      BY <3>5 DEF GrowsOnlyWithInput, DiscardUnmatched
    <3> QED
      BY <2>1, <3>1, <3>2, <3>3, <3>4, <3>5 DEF Push
  <2>2. ASSUME NEW p \in Producers, Signal(p) PROVE GrowsOnlyWithInput'
    BY <2>2 DEF GrowsOnlyWithInput, Signal
  <2>3. CASE RelayPop
    <3>1. CASE pending = <<>>
      BY <2>3, <3>1 DEF GrowsOnlyWithInput, RelayPop
    <3>2. CASE pending # <<>>
      <4>1. pending' = Tail(pending)
        BY <2>3, <3>2 DEF RelayPop
      <4>2. Len(pending') = Len(pending) - 1 /\ DOMAIN pending' = 1..(Len(pending) - 1)
        BY <2>0, <3>2, <4>1
      <4>3. \A i \in DOMAIN pending' : pending'[i] = pending[i + 1]
        BY <2>0, <3>2, <4>1, <4>2
      <4>4. \A i \in DOMAIN pending' : i + 1 \in DOMAIN pending
        BY <2>0, <4>2
      <4> QED
        BY <2>0, <4>2, <4>3, <4>4 DEF GrowsOnlyWithInput
    <3> QED
      BY <3>1, <3>2
  <2>4. CASE RelayWake
    BY <2>4 DEF GrowsOnlyWithInput, RelayWake
  <2>5. CASE RelaySend
    BY <2>5 DEF GrowsOnlyWithInput, RelaySend
  <2>6. CASE RelayStop
    BY <2>6 DEF GrowsOnlyWithInput, RelayStop
  <2>7. CASE Stop
    BY <2>7 DEF GrowsOnlyWithInput, Stop
  <2>8. CASE UNCHANGED vars
    BY <2>8 DEF GrowsOnlyWithInput, vars
  <2> QED
    BY <2>1, <2>2, <2>3, <2>4, <2>5, <2>6, <2>7, <2>8 DEF Next
<1> QED
  BY <1>1, <1>2, TypeCorrect, PTL DEF Spec

-----------------------------------------------------------------------------
(* Where events are, and in which order. *)

\* The events on their way: with the relay or still queued.
OnTheWay == (IF relay = "send" THEN {held} ELSE {}) \cup Range(pending)

\* The relay's event and the queue, as one sequence, hold just these events.
LEMMA InFlightEvents == TypeOK => Range(InFlight) = OnTheWay
<1> SUFFICES ASSUME TypeOK PROVE Range(InFlight) = OnTheWay
  OBVIOUS
<1>0. pending \in Seq(Event) /\ DOMAIN pending = 1..Len(pending) /\ Len(pending) \in Nat
  BY DEF TypeOK
<1>1. CASE relay = "send"
  <2>1. InFlight = <<held>> \o pending
    BY <1>1 DEF InFlight
  <2>2. /\ DOMAIN InFlight = 1..(Len(pending) + 1)
        /\ InFlight[1] = held
        /\ \A i \in 1..Len(pending) : InFlight[i + 1] = pending[i]
    BY <1>0, <1>1, <2>1 DEF TypeOK
  <2>3. \A i \in 1..(Len(pending) + 1) : i = 1 \/ (i - 1 \in 1..Len(pending) /\ (i - 1) + 1 = i)
    BY <1>0
  <2>4. \A i \in 1..Len(pending) : i + 1 \in 1..(Len(pending) + 1)
    BY <1>0
  <2>5. 1 \in 1..(Len(pending) + 1)
    BY <1>0
  <2>6. ASSUME NEW x \in Range(InFlight) PROVE x \in OnTheWay
    <3>1. PICK i \in 1..(Len(pending) + 1) : x = InFlight[i]
      BY <2>2 DEF Range
    <3>2. CASE i = 1
      BY <1>1, <2>2, <3>1, <3>2 DEF OnTheWay
    <3>3. CASE i # 1
      <4>1. i - 1 \in 1..Len(pending) /\ x = pending[i - 1]
        BY <2>2, <2>3, <3>1, <3>3
      <4> QED
        BY <1>0, <4>1 DEF OnTheWay, Range
    <3> QED
      BY <3>2, <3>3
  <2>7. ASSUME NEW x \in OnTheWay PROVE x \in Range(InFlight)
    <3>1. CASE x = held
      BY <2>2, <2>5, <3>1 DEF Range
    <3>2. CASE x \in Range(pending)
      <4>1. PICK i \in 1..Len(pending) : x = pending[i]
        BY <1>0, <3>2 DEF Range
      <4> QED
        BY <2>2, <2>4, <4>1 DEF Range
    <3> QED
      BY <1>1, <3>1, <3>2 DEF OnTheWay
  <2> QED
    BY <2>6, <2>7
<1>2. CASE relay # "send"
  <2>1. InFlight = pending
    BY <1>0, <1>2 DEF InFlight
  <2> QED
    BY <1>2, <2>1 DEF OnTheWay
<1> QED
  BY <1>1, <1>2

\* Whichever of its outcomes a push has, the queue still holds every input
\* transition it held, and the new event if that is one.
LEMMA PushKeepsInput ==
  ASSUME TypeOK, NEW p \in Producers, NEW e \in Event, Push(p, e),
         NEW x \in Range(pending) \cup {e}, Important(x)
  PROVE  x \in Range(pending')
<1>0. pending \in Seq(Event) /\ DOMAIN pending = 1..Len(pending) /\ Len(pending) \in Nat
  BY DEF TypeOK
<1>1. ASSUME pending' = Append(pending, e) PROVE x \in Range(pending')
  <2>1. /\ DOMAIN pending' = 1..(Len(pending) + 1)
        /\ \A i \in 1..Len(pending) : pending'[i] = pending[i]
        /\ pending'[Len(pending) + 1] = e
    BY <1>0, <1>1
  <2>2. \A i \in 1..Len(pending) : i \in 1..(Len(pending) + 1)
    BY <1>0
  <2>3. Len(pending) + 1 \in 1..(Len(pending) + 1)
    BY <1>0
  <2> QED
    BY <1>0, <2>1, <2>2, <2>3 DEF Range
<1>2. CASE ReplaceNewestMatch(e)
  <2>1. PICK i \in Matches(e) : pending' = [pending EXCEPT ![i] = e]
    BY <1>2 DEF ReplaceNewestMatch
  <2>2. i \in DOMAIN pending /\ Coalescible(pending[i]) /\ Coalescible(e)
    BY CoalescedIsCoalescible DEF Matches
  <2>3. x # pending[i] /\ x # e
    BY <2>2 DEF Important
  <2>4. PICK j \in DOMAIN pending : x = pending[j]
    BY <2>3 DEF Range
  <2>5. j # i
    BY <2>3, <2>4
  <2> QED
    BY <2>1, <2>4, <2>5 DEF Range
<1>3. CASE EvictOldestVictim(e)
  <2>1. PICK i \in Victims :
          pending' = [j \in DOMAIN pending |->
                        IF j < i THEN pending[j]
                        ELSE IF j < Len(pending) THEN pending[j + 1] ELSE e]
    BY <1>3 DEF EvictOldestVictim
  <2>2. i \in 1..Len(pending) /\ Coalescible(pending[i])
    BY <1>0 DEF Victims
  <2>3. x # pending[i]
    BY <2>2 DEF Important
  <2>4. CASE x = e
    <3>1. pending'[Len(pending)] = e /\ Len(pending) \in DOMAIN pending'
      BY <1>0, <2>1, <2>2
    <3> QED
      BY <2>4, <3>1 DEF Range
  <2>5. CASE x # e
    <3>1. PICK j \in 1..Len(pending) : x = pending[j]
      BY <1>0, <2>5 DEF Range
    <3>2. j # i
      BY <2>3, <3>1
    <3>3. CASE j < i
      <4>1. pending'[j] = x /\ j \in DOMAIN pending'
        BY <1>0, <2>1, <3>1, <3>3
      <4> QED
        BY <4>1 DEF Range
    <3>4. CASE i < j
      <4>1. j - 1 \in 1..Len(pending) /\ ~(j - 1 < i) /\ j - 1 < Len(pending) /\ (j - 1) + 1 = j
        BY <1>0, <2>2, <3>4
      <4>2. pending'[j - 1] = x /\ j - 1 \in DOMAIN pending'
        BY <1>0, <2>1, <3>1, <4>1
      <4> QED
        BY <4>2 DEF Range
    <3> QED
      BY <1>0, <2>2, <3>2, <3>3, <3>4
  <2> QED
    BY <2>4, <2>5
<1>4. CASE DiscardUnmatched(e)
  BY <1>4 DEF DiscardUnmatched, Important
<1> QED
  BY <1>1, <1>2, <1>3, <1>4 DEF Push, AppendBelowLimit, GrowPastLimit

\* Popping moves the head from the queue to the relay.
LEMMA PopKeepsAll ==
  ASSUME TypeOK, RelayPop, pending # <<>>
  PROVE  /\ OnTheWay' = OnTheWay
         /\ held' = pending[1] /\ held' \in Event
         /\ DOMAIN pending' = 1..(Len(pending) - 1)
         /\ \A i \in DOMAIN pending' : i + 1 \in DOMAIN pending /\ pending'[i] = pending[i + 1]
         /\ 1 \in DOMAIN pending
<1>0. /\ pending \in Seq(Event) /\ DOMAIN pending = 1..Len(pending) /\ Len(pending) \in Nat
      /\ Len(pending) >= 1
  BY DEF TypeOK
<1>1. /\ held' = Head(pending) /\ pending' = Tail(pending)
      /\ relay = "pop" /\ relay' = "send"
  BY DEF RelayPop
<1>2. /\ held' = pending[1] /\ held' \in Event
      /\ DOMAIN pending' = 1..(Len(pending) - 1)
      /\ \A i \in 1..(Len(pending) - 1) : pending'[i] = pending[i + 1]
  BY <1>0, <1>1
<1>3. /\ \A i \in 1..(Len(pending) - 1) : i + 1 \in 1..Len(pending)
      /\ \A i \in 1..Len(pending) : i = 1 \/ (i - 1 \in 1..(Len(pending) - 1) /\ (i - 1) + 1 = i)
      /\ 1 \in 1..Len(pending)
  BY <1>0
<1>4. Range(pending) = {pending[i] : i \in 1..Len(pending)}
  BY <1>0 DEF Range
<1>5. Range(pending') = {pending[i + 1] : i \in 1..(Len(pending) - 1)}
  BY <1>2 DEF Range
<1>6. ASSUME NEW x \in Range(pending) PROVE x = pending[1] \/ x \in Range(pending')
  <2>1. PICK i \in 1..Len(pending) : x = pending[i]
    BY <1>4
  <2>2. i = 1 \/ (i - 1 \in 1..(Len(pending) - 1) /\ x = pending[(i - 1) + 1])
    BY <1>3, <2>1
  <2> QED
    BY <1>5, <2>1, <2>2
<1>7. ASSUME NEW x, x = pending[1] \/ x \in Range(pending') PROVE x \in Range(pending)
  BY <1>3, <1>4, <1>5, <1>7
<1>8. Range(pending) = {pending[1]} \cup Range(pending')
  BY <1>6, <1>7
<1> QED
  BY <1>0, <1>1, <1>2, <1>3, <1>8 DEF OnTheWay

\* Key and button transitions are never lost, whatever the queue coalesces,
\* evicts or discards and wherever the relay is.
THEOREM InputIsKept == Spec => []InputNeverLost
<1> DEFINE Kept == relay # "done" =>
             \A i \in DOMAIN emitted :
               Important(emitted[i]) => emitted[i] \in Range(delivered) \cup OnTheWay
<1>1. Init => Kept
  BY DEF Init
<1>2. TypeOK /\ Kept /\ [Next]_vars => Kept'
  <2> SUFFICES ASSUME TypeOK, Kept, [Next]_vars PROVE Kept'
    OBVIOUS
  <2>1. ASSUME NEW p \in Producers, NEW e \in NextEvents, Push(p, e)
        PROVE  Kept'
    <3>0. e \in Event
      BY NextEventIsEvent
    <3>1. /\ emitted' = Append(emitted, e)
          /\ UNCHANGED <<relay, held, delivered>>
      BY <2>1 DEF Push
    <3>2. \A i \in DOMAIN emitted' : \/ i \in DOMAIN emitted /\ emitted'[i] = emitted[i]
                                     \/ emitted'[i] = e
      BY <3>0, <3>1 DEF TypeOK
    <3>3. \A x \in OnTheWay \cup {e} : Important(x) => x \in OnTheWay'
      BY <2>1, <3>0, <3>1, PushKeepsInput DEF OnTheWay
    <3> QED
      BY <3>1, <3>2, <3>3
  <2>2. ASSUME NEW p \in Producers, Signal(p) PROVE Kept'
    BY <2>2 DEF Signal, OnTheWay
  <2>3. CASE RelayPop
    <3>1. CASE pending = <<>>
      BY <2>3, <3>1 DEF RelayPop, OnTheWay
    <3>2. CASE pending # <<>>
      BY <2>3, <3>2, PopKeepsAll DEF RelayPop
    <3> QED
      BY <3>1, <3>2
  <2>4. CASE RelayWake
    BY <2>4 DEF RelayWake, OnTheWay
  <2>5. CASE RelaySend
    <3>1. Range(delivered') = Range(delivered) \cup {held}
      <4>1. delivered \in Seq(Event) /\ held \in Event /\ delivered' = Append(delivered, held)
        BY <2>5 DEF TypeOK, RelaySend
      <4>2. /\ DOMAIN delivered = 1..Len(delivered)
            /\ DOMAIN delivered' = (1..Len(delivered)) \cup {Len(delivered) + 1}
            /\ \A i \in 1..Len(delivered) : delivered'[i] = delivered[i]
            /\ delivered'[Len(delivered) + 1] = held
        BY <4>1
      <4> QED
        BY <4>2 DEF Range
    <3> QED
      BY <2>5, <3>1 DEF RelaySend, OnTheWay
  <2>6. CASE RelayStop
    BY <2>6 DEF RelayStop
  <2>7. CASE Stop
    BY <2>7 DEF Stop, OnTheWay
  <2>8. CASE UNCHANGED vars
    BY <2>8 DEF vars, OnTheWay
  <2> QED
    BY <2>1, <2>2, <2>3, <2>4, <2>5, <2>6, <2>7, <2>8 DEF Next
<1>3. TypeOK /\ Kept => InputNeverLost
  BY InFlightEvents DEF InputNeverLost
<1> QED
  BY <1>1, <1>2, <1>3, TypeCorrect, PTL DEF Spec

-----------------------------------------------------------------------------
\* An event is the one that the log of emitted events has under its number.
Genuine(log, e) == e \in Event /\ e.id \in DOMAIN log /\ log[e.id] = e

\* If one of the two may not overtake the other, the first is the older.
Precedes(old, next) == Ordered(old, next) => old.id < next.id

\* The events in flight are genuine and none overtakes another, within what
\* was delivered, within the queue, between them, and around the relay.
OrderInv ==
  /\ \A i \in DOMAIN emitted : emitted[i].id = i
  /\ \A i \in DOMAIN delivered : Genuine(emitted, delivered[i])
  /\ \A i \in DOMAIN pending : Genuine(emitted, pending[i])
  /\ \A i, j \in DOMAIN delivered : i < j => Precedes(delivered[i], delivered[j])
  /\ \A i, j \in DOMAIN pending : i < j => Precedes(pending[i], pending[j])
  /\ \A i \in DOMAIN delivered, j \in DOMAIN pending : Precedes(delivered[i], pending[j])
  /\ relay = "send" =>
       /\ Genuine(emitted, held)
       /\ \A i \in DOMAIN delivered : Precedes(delivered[i], held)
       /\ \A j \in DOMAIN pending : Precedes(held, pending[j])

\* An emitted event is genuine, and so are all those emitted before it.
LEMMA PushIsGenuine ==
  ASSUME TypeOK, OrderInv, NEW p \in Producers, NEW e \in NextEvents, Push(p, e)
  PROVE  /\ e \in Event /\ Genuine(emitted', e)
         /\ \A x : Genuine(emitted, x) => Genuine(emitted', x) /\ x.id < e.id
         /\ \A i \in DOMAIN emitted' : emitted'[i].id = i
<1>0. e \in Event /\ e.id = Len(emitted) + 1
  BY NextEventIsEvent DEF NextEvents
<1>1. emitted' = Append(emitted, e) /\ emitted \in Seq(Event)
  BY DEF Push, TypeOK
<1>2. /\ DOMAIN emitted = 1..Len(emitted) /\ Len(emitted) \in Nat
      /\ DOMAIN emitted' = 1..(Len(emitted) + 1)
      /\ \A i \in 1..Len(emitted) : emitted'[i] = emitted[i]
      /\ emitted'[Len(emitted) + 1] = e
  BY <1>0, <1>1
<1>3. Genuine(emitted', e)
  BY <1>0, <1>2 DEF Genuine
<1>4. ASSUME NEW x, Genuine(emitted, x) PROVE Genuine(emitted', x) /\ x.id < e.id
  BY <1>0, <1>2, <1>4 DEF Genuine
<1>5. \A i \in DOMAIN emitted' : emitted'[i].id = i
  BY <1>0, <1>2 DEF OrderInv
<1> QED
  BY <1>0, <1>3, <1>4, <1>5

\* After a push each event of the queue was there before, in the same order, or
\* is the new one; and the new one has none behind it that it may not overtake.
LEMMA PushKeepsOrder ==
  ASSUME TypeOK, OrderInv, NEW p \in Producers, NEW e \in NextEvents, Push(p, e)
  PROVE  /\ \A j \in DOMAIN pending' :
              pending'[j] = e \/ \E i \in DOMAIN pending : pending'[j] = pending[i]
         /\ \A j, k \in DOMAIN pending' : j < k => Precedes(pending'[j], pending'[k])
<1>0. pending \in Seq(Event) /\ DOMAIN pending = 1..Len(pending) /\ Len(pending) \in Nat
  BY DEF TypeOK
<1>1. e \in Event /\ \A i \in DOMAIN pending : pending[i].id < e.id
  BY PushIsGenuine DEF OrderInv
<1>2. \A i \in DOMAIN pending : Precedes(pending[i], e)
  BY <1>1 DEF Precedes
<1>3. \A i, j \in DOMAIN pending : i < j => Precedes(pending[i], pending[j])
  BY DEF OrderInv
<1>4. ASSUME pending' = Append(pending, e)
      PROVE  /\ \A j \in DOMAIN pending' :
                  pending'[j] = e \/ \E i \in DOMAIN pending : pending'[j] = pending[i]
             /\ \A j, k \in DOMAIN pending' : j < k => Precedes(pending'[j], pending'[k])
  <2>1. /\ DOMAIN pending' = 1..(Len(pending) + 1)
        /\ \A i \in 1..Len(pending) : pending'[i] = pending[i]
        /\ pending'[Len(pending) + 1] = e
    BY <1>0, <1>1, <1>4
  <2>2. \A i \in 1..(Len(pending) + 1) : i \in 1..Len(pending) \/ i = Len(pending) + 1
    BY <1>0
  <2>3. ASSUME NEW j \in DOMAIN pending', NEW k \in DOMAIN pending', j < k
        PROVE  Precedes(pending'[j], pending'[k])
    <3>1. j \in 1..Len(pending)
      BY <1>0, <2>1, <2>3
    <3> QED
      BY <1>0, <1>2, <1>3, <2>1, <2>2, <2>3, <3>1
  <2> QED
    BY <1>0, <2>1, <2>2, <2>3
<1>5. CASE ReplaceNewestMatch(e)
  <2>1. PICK i \in Matches(e) : /\ \A j \in Matches(e) : j <= i
                                /\ pending' = [pending EXCEPT ![i] = e]
    BY <1>5 DEF ReplaceNewestMatch
  <2>2. i \in DOMAIN pending /\ Coalescible(e)
    BY CoalescedIsCoalescible DEF Matches
  <2>3. /\ DOMAIN pending' = DOMAIN pending
        /\ \A j \in DOMAIN pending : pending'[j] = IF j = i THEN e ELSE pending[j]
    BY <2>1
  <2>4. ASSUME NEW k \in DOMAIN pending, i < k PROVE Precedes(e, pending[k])
    <3>1. k \notin Matches(e)
      BY <1>0, <2>1, <2>2, <2>4
    <3>2. ~CanCoalesce(e, pending[k])
      BY <2>4, <3>1 DEF Matches, CanCoalesce, Coalescible
    <3> QED
      BY <2>2, <3>2 DEF Precedes, Ordered, Important
  <2>5. ASSUME NEW j \in DOMAIN pending, NEW k \in DOMAIN pending, j < k
        PROVE  Precedes(pending'[j], pending'[k])
    <3>1. CASE j = i
      <4>1. k # i
        BY <1>0, <2>5, <3>1
      <4> QED
        BY <2>3, <2>4, <2>5, <3>1, <4>1
    <3>2. CASE k = i
      <4>1. j # i
        BY <1>0, <2>5, <3>2
      <4> QED
        BY <1>2, <2>3, <3>2, <4>1
    <3>3. CASE j # i /\ k # i
      BY <1>3, <2>3, <2>5, <3>3
    <3> QED
      BY <3>1, <3>2, <3>3
  <2> QED
    BY <2>3, <2>5
<1>6. CASE EvictOldestVictim(e)
  <2>1. PICK i \in Victims :
          pending' = [j \in DOMAIN pending |->
                        IF j < i THEN pending[j]
                        ELSE IF j < Len(pending) THEN pending[j + 1] ELSE e]
    BY <1>6 DEF EvictOldestVictim
  <2>2. i \in 1..Len(pending)
    BY <1>0 DEF Victims
  <2>3. DOMAIN pending' = 1..Len(pending)
    BY <1>0, <2>1
  <2>4. \A j \in 1..Len(pending) : j < i => pending'[j] = pending[j]
    BY <1>0, <2>1
  <2>5. \A j \in 1..Len(pending) : ~(j < i) /\ j < Len(pending) =>
          j + 1 \in 1..Len(pending) /\ pending'[j] = pending[j + 1]
    <3> TAKE j \in 1..Len(pending)
    <3> HAVE ~(j < i) /\ j < Len(pending)
    <3>1. j + 1 \in 1..Len(pending)
      BY <1>0
    <3> QED
      BY <1>0, <2>1, <3>1
  <2>6. pending'[Len(pending)] = e
    BY <1>0, <2>1, <2>2
  <2>7. \A j \in 1..Len(pending) : j < Len(pending) \/ j = Len(pending)
    <3>1. Len(pending) \in Nat
      BY <1>0
    <3> QED
      BY <3>1
  <2>8. \A j \in 1..Len(pending) :
          pending'[j] = e \/ \E k \in 1..Len(pending) : pending'[j] = pending[k]
    <3> TAKE j \in 1..Len(pending)
    <3>1. CASE j < i
      BY <2>4, <3>1
    <3>2. CASE ~(j < i) /\ j < Len(pending)
      BY <2>5, <3>2
    <3>3. CASE j = Len(pending)
      BY <2>6, <3>3
    <3> QED
      BY <2>7, <3>1, <3>2, <3>3
  <2>9. ASSUME NEW j \in 1..Len(pending), NEW k \in 1..Len(pending), j < k
        PROVE  Precedes(pending'[j], pending'[k])
    <3>1. j < Len(pending)
      BY <1>0, <2>9
    <3>2. CASE k = Len(pending)
      BY <1>0, <1>2, <2>4, <2>5, <2>6, <3>1, <3>2
    <3>3. CASE k < i
      <4>1. j < i
        BY <1>0, <2>2, <2>9, <3>3
      <4> QED
        BY <1>0, <1>3, <2>4, <2>9, <3>3, <4>1
    <3>4. CASE ~(k < i) /\ k < Len(pending)
      <4>1. k + 1 \in 1..Len(pending) /\ pending'[k] = pending[k + 1]
        BY <2>5, <3>4
      <4>2. CASE j < i
        <5>1. j < k + 1
          BY <1>0, <2>9
        <5> QED
          BY <1>0, <1>3, <2>4, <4>1, <4>2, <5>1
      <4>3. CASE ~(j < i)
        <5>1. j + 1 \in 1..Len(pending) /\ pending'[j] = pending[j + 1]
          BY <2>5, <3>1, <4>3
        <5>2. j + 1 < k + 1
          BY <1>0, <2>9
        <5> QED
          BY <1>0, <1>3, <4>1, <5>1, <5>2
      <4> QED
        BY <4>2, <4>3
    <3> QED
      BY <2>7, <3>2, <3>3, <3>4
  <2> QED
    BY <1>0, <2>3, <2>8, <2>9
<1>7. CASE DiscardUnmatched(e)
  BY <1>3, <1>7 DEF DiscardUnmatched
<1> QED
  BY <1>4, <1>5, <1>6, <1>7 DEF Push, AppendBelowLimit, GrowPastLimit

\* Everything in flight stays genuine and in order.
LEMMA OrderInvariant == Spec => []OrderInv
<1>1. Init => OrderInv
  BY DEF Init, OrderInv
<1>2. TypeOK /\ OrderInv /\ [Next]_vars => OrderInv'
  <2> SUFFICES ASSUME TypeOK, OrderInv, [Next]_vars PROVE OrderInv'
    OBVIOUS
  <2>1. ASSUME NEW p \in Producers, NEW e \in NextEvents, Push(p, e)
        PROVE  OrderInv'
    <3>0. UNCHANGED <<relay, held, delivered>>
      BY <2>1 DEF Push
    <3>1. /\ Genuine(emitted', e)
          /\ \A x : Genuine(emitted, x) => Genuine(emitted', x) /\ x.id < e.id
          /\ \A i \in DOMAIN emitted' : emitted'[i].id = i
      BY <2>1, PushIsGenuine
    <3>2. /\ \A j \in DOMAIN pending' :
               pending'[j] = e \/ \E i \in DOMAIN pending : pending'[j] = pending[i]
          /\ \A j, k \in DOMAIN pending' : j < k => Precedes(pending'[j], pending'[k])
      BY <2>1, PushKeepsOrder
    <3>3. \A j \in DOMAIN pending' : Genuine(emitted', pending'[j])
      BY <3>1, <3>2 DEF OrderInv
    <3>4. ASSUME NEW x, Genuine(emitted, x), \A i \in DOMAIN pending : Precedes(x, pending[i])
          PROVE  \A j \in DOMAIN pending' : Precedes(x, pending'[j])
      BY <3>1, <3>2, <3>4 DEF Precedes
    <3>5. \A i \in DOMAIN delivered, j \in DOMAIN pending' : Precedes(delivered[i], pending'[j])
      BY <3>4 DEF OrderInv
    <3>6. relay = "send" => \A j \in DOMAIN pending' : Precedes(held, pending'[j])
      BY <3>4 DEF OrderInv
    <3>7. \A i, j \in DOMAIN delivered : i < j => Precedes(delivered[i], delivered[j])
      BY DEF OrderInv
    <3>8. /\ \A i \in DOMAIN delivered : Genuine(emitted', delivered[i])
          /\ relay = "send" => Genuine(emitted', held) /\ \A i \in DOMAIN delivered : Precedes(delivered[i], held)
      BY <3>0, <3>1 DEF OrderInv
    <3> QED
      BY <3>0, <3>1, <3>2, <3>3, <3>5, <3>6, <3>7, <3>8 DEF OrderInv
  <2>2. ASSUME NEW p \in Producers, Signal(p) PROVE OrderInv'
    BY <2>2 DEF Signal, OrderInv, Genuine
  <2>3. CASE RelayPop
    <3>1. CASE pending = <<>>
      BY <2>3, <3>1 DEF RelayPop, OrderInv, Genuine
    <3>2. CASE pending # <<>>
      <4>1. /\ held' = pending[1] /\ 1 \in DOMAIN pending
            /\ DOMAIN pending' = 1..(Len(pending) - 1)
            /\ \A i \in DOMAIN pending' : i + 1 \in DOMAIN pending /\ pending'[i] = pending[i + 1]
        BY <2>3, <3>2, PopKeepsAll
      <4>2. Len(pending) \in Nat /\ UNCHANGED <<delivered, emitted>>
        BY <2>3 DEF TypeOK, RelayPop
      <4>3. \A i, j \in DOMAIN pending' : i < j => i + 1 < j + 1
        BY <4>1, <4>2
      <4>4. \A j \in DOMAIN pending' : 1 < j + 1
        BY <4>1, <4>2
      <4> QED
        BY <4>1, <4>2, <4>3, <4>4 DEF OrderInv, Genuine
    <3> QED
      BY <3>1, <3>2
  <2>4. CASE RelayWake
    BY <2>4 DEF RelayWake, OrderInv, Genuine
  <2>5. CASE RelaySend
    <3>1. /\ delivered \in Seq(Event) /\ held \in Event /\ delivered' = Append(delivered, held)
          /\ UNCHANGED <<pending, held, emitted>>
          /\ relay = "send" /\ relay' = "pop"
      BY <2>5 DEF TypeOK, RelaySend
    <3>2. /\ DOMAIN delivered = 1..Len(delivered) /\ Len(delivered) \in Nat
          /\ DOMAIN delivered' = 1..(Len(delivered) + 1)
          /\ \A i \in 1..Len(delivered) : delivered'[i] = delivered[i]
          /\ delivered'[Len(delivered) + 1] = held
      BY <3>1
    <3>3. \A i, j \in DOMAIN delivered' : i < j => i \in DOMAIN delivered
      BY <3>2
    <3>4. \A j \in DOMAIN delivered' : j \in DOMAIN delivered \/ j = Len(delivered) + 1
      BY <3>2
    <3> QED
      BY <3>1, <3>2, <3>3, <3>4 DEF OrderInv, Genuine
  <2>6. CASE RelayStop
    BY <2>6 DEF RelayStop, OrderInv, Genuine
  <2>7. CASE Stop
    BY <2>7 DEF Stop, OrderInv, Genuine
  <2>8. CASE UNCHANGED vars
    BY <2>8 DEF vars, OrderInv, Genuine
  <2> QED
    BY <2>1, <2>2, <2>3, <2>4, <2>5, <2>6, <2>7, <2>8 DEF Next
<1> QED
  BY <1>1, <1>2, TypeCorrect, PTL DEF Spec

\* No input transition overtakes another, and no presentation event one of its
\* own kind and window, on the whole way from the desktop to the client.
THEOREM NothingOvertakes == Spec => []NoOvertaking
<1>1. TypeOK /\ OrderInv => NoOvertaking
  <2> SUFFICES ASSUME TypeOK, OrderInv PROVE NoOvertaking
    OBVIOUS
  <2> DEFINE all == delivered \o InFlight
             d == Len(delivered)
  <2>0. /\ delivered \in Seq(Event) /\ DOMAIN delivered = 1..d /\ d \in Nat
        /\ pending \in Seq(Event) /\ DOMAIN pending = 1..Len(pending) /\ Len(pending) \in Nat
    BY DEF TypeOK
  <2>1. CASE relay = "send"
    <3>0. held \in Event
      BY <2>1 DEF TypeOK
    <3>1. InFlight = <<held>> \o pending
      BY <2>1 DEF InFlight
    <3>2. /\ InFlight \in Seq(Event) /\ Len(InFlight) = Len(pending) + 1
          /\ InFlight[1] = held
          /\ \A i \in 2..(Len(pending) + 1) : InFlight[i] = pending[i - 1]
      BY <2>0, <3>0, <3>1
    <3>3. /\ DOMAIN all = 1..(d + Len(pending) + 1)
          /\ \A i \in 1..d : all[i] = delivered[i]
          /\ \A i \in (d + 1)..(d + Len(pending) + 1) : all[i] = InFlight[i - d]
      <4>1. DOMAIN all = 1..(d + Len(pending) + 1)
        BY <2>0, <3>2
      <4>2. \A i \in 1..d : all[i] = delivered[i]
        BY <2>0, <3>2
      <4>3. \A i \in (d + 1)..(d + Len(pending) + 1) : all[i] = InFlight[i - d]
        BY <2>0, <3>2
      <4> QED
        BY <4>1, <4>2, <4>3
    <3>4. \A i \in DOMAIN all :
            \/ i \in DOMAIN delivered /\ all[i] = delivered[i]
            \/ i = d + 1 /\ all[i] = held
            \/ i > d + 1 /\ i - d - 1 \in DOMAIN pending /\ all[i] = pending[i - d - 1]
      <4> TAKE i \in DOMAIN all
      <4>1. CASE i \in 1..d
        BY <2>0, <3>3, <4>1
      <4>2. CASE i = d + 1
        <5>1. i \in (d + 1)..(d + Len(pending) + 1) /\ i - d = 1
          BY <2>0, <4>2
        <5> QED
          BY <3>2, <3>3, <4>2, <5>1
      <4>3. CASE i > d + 1
        <5>1. /\ i \in (d + 1)..(d + Len(pending) + 1)
              /\ i - d \in 2..(Len(pending) + 1)
              /\ i - d - 1 \in 1..Len(pending)
          BY <2>0, <3>3, <4>3
        <5> QED
          BY <2>0, <3>2, <3>3, <4>3, <5>1
      <4> QED
        BY <2>0, <3>3, <4>1, <4>2, <4>3
    <3> HIDE DEF all, d
    <3>5. ASSUME NEW i \in DOMAIN all, NEW j \in DOMAIN all, i < j
          PROVE  Precedes(all[i], all[j])
      <4>1. CASE j \in DOMAIN delivered
        <5>1. i \in DOMAIN delivered
          BY <2>0, <3>3, <3>5, <4>1
        <5> QED
          BY <2>0, <3>3, <3>5, <4>1, <5>1 DEF OrderInv
      <4>2. CASE j = d + 1 /\ all[j] = held
        <5>1. i \in DOMAIN delivered
          BY <2>0, <3>3, <3>5, <4>2
        <5> QED
          BY <2>0, <2>1, <3>3, <4>2, <5>1 DEF OrderInv
      <4>3. CASE j > d + 1 /\ j - d - 1 \in DOMAIN pending /\ all[j] = pending[j - d - 1]
        <5>1. CASE i \in DOMAIN delivered /\ all[i] = delivered[i]
          BY <4>3, <5>1 DEF OrderInv
        <5>2. CASE i = d + 1 /\ all[i] = held
          BY <2>1, <4>3, <5>2 DEF OrderInv
        <5>3. CASE i > d + 1 /\ i - d - 1 \in DOMAIN pending /\ all[i] = pending[i - d - 1]
          <6>1. i - d - 1 < j - d - 1
            BY <2>0, <3>3, <3>5
          <6> QED
            BY <4>3, <5>3, <6>1 DEF OrderInv
        <5> QED
          BY <3>4, <5>1, <5>2, <5>3
      <4> QED
        BY <3>4, <4>1, <4>2, <4>3
    <3> QED
      BY <3>5 DEF NoOvertaking, Precedes, all
  <2>2. CASE relay # "send"
    <3>1. InFlight = pending
      BY <2>0, <2>2 DEF InFlight
    <3>2. /\ DOMAIN all = 1..(d + Len(pending))
          /\ \A i \in 1..d : all[i] = delivered[i]
          /\ \A i \in (d + 1)..(d + Len(pending)) : all[i] = pending[i - d]
      BY <2>0, <3>1
    <3>3. \A i \in DOMAIN all :
            \/ i \in DOMAIN delivered /\ all[i] = delivered[i]
            \/ i > d /\ i - d \in DOMAIN pending /\ all[i] = pending[i - d]
      BY <2>0, <3>2
    <3> HIDE DEF all, d
    <3>4. ASSUME NEW i \in DOMAIN all, NEW j \in DOMAIN all, i < j
          PROVE  Precedes(all[i], all[j])
      <4>1. CASE j \in DOMAIN delivered
        <5>1. i \in DOMAIN delivered
          BY <2>0, <3>2, <3>4, <4>1
        <5> QED
          BY <2>0, <3>2, <3>4, <4>1, <5>1 DEF OrderInv
      <4>2. CASE j > d /\ j - d \in DOMAIN pending /\ all[j] = pending[j - d]
        <5>1. CASE i \in DOMAIN delivered /\ all[i] = delivered[i]
          BY <4>2, <5>1 DEF OrderInv
        <5>2. CASE i > d /\ i - d \in DOMAIN pending /\ all[i] = pending[i - d]
          <6>1. i - d < j - d
            BY <2>0, <3>2, <3>4
          <6> QED
            BY <4>2, <5>2, <6>1 DEF OrderInv
        <5> QED
          BY <3>3, <5>1, <5>2
      <4> QED
        BY <3>3, <4>1, <4>2
    <3> QED
      BY <3>4 DEF NoOvertaking, Precedes, all
  <2> QED
    BY <2>1, <2>2
<1> QED
  BY <1>1, OrderInvariant, TypeCorrect, PTL

-----------------------------------------------------------------------------
\* Handing over the event the relay holds is a Receive of the channel: if it is
\* input, every older input was delivered before.
LEMMA SendIsReceive ==
  ASSUME TypeOK, OrderInv, InputNeverLost, RelaySend
  PROVE  Input!ReceiveInput \/ Input!ReceiveOther
<1>1. /\ relay = "send" /\ delivered' = Append(delivered, held)
      /\ UNCHANGED <<emitted, eventStop>>
  BY DEF RelaySend
<1>2. Genuine(emitted, held)
  BY <1>1 DEF OrderInv
<1>3. held.id \in DOMAIN emitted /\ emitted[held.id] = held
  BY <1>2 DEF Genuine
<1>4. CASE ~Important(held)
  BY <1>1, <1>3, <1>4 DEF Input!ReceiveOther
<1>5. CASE Important(held)
  <2>1. \A i \in DOMAIN delivered : delivered[i] # held
    <3> SUFFICES ASSUME NEW i \in DOMAIN delivered, delivered[i] = held PROVE FALSE
      OBVIOUS
    <3>1. Precedes(held, held)
      BY <1>1 DEF OrderInv
    <3>2. held.id < held.id /\ held.id \in Nat
      BY <1>3, <1>5, <3>1 DEF Precedes, Ordered, TypeOK
    <3> QED
      BY <3>2
  <2>2. held.id \in Input!Outstanding
    BY <1>3, <1>5, <2>1 DEF Input!Outstanding
  <2>3. \A m \in Input!Outstanding : held.id <= m
    <3> TAKE m \in Input!Outstanding
    <3>1. /\ m \in DOMAIN emitted /\ Important(emitted[m])
          /\ \A i \in DOMAIN delivered : delivered[i] # emitted[m]
      BY DEF Input!Outstanding
    <3>2. emitted[m] \notin Range(delivered)
      BY <3>1 DEF Range
    <3>3. emitted[m] \in OnTheWay
      BY <1>1, <3>1, <3>2, InFlightEvents DEF InputNeverLost
    <3>4. emitted[m].id = m /\ m \in Nat /\ held.id \in Nat
      BY <1>3, <3>1 DEF OrderInv, TypeOK
    <3>5. CASE emitted[m] = held
      BY <3>4, <3>5
    <3>6. CASE emitted[m] \in Range(pending)
      <4>1. PICK j \in DOMAIN pending : pending[j] = emitted[m]
        BY <3>6 DEF Range
      <4>2. Precedes(held, emitted[m])
        BY <1>1, <4>1 DEF OrderInv
      <4>3. held.id < m
        BY <1>5, <3>1, <3>4, <4>2 DEF Precedes, Ordered
      <4> QED
        BY <3>4, <4>3
    <3> QED
      BY <3>3, <3>5, <3>6 DEF OnTheWay
  <2>4. delivered' = Append(delivered, emitted[held.id])
    BY <1>1, <1>3
  <2> QED
    BY <1>1, <2>2, <2>3, <2>4 DEF Input!ReceiveInput
<1> QED
  BY <1>4, <1>5

\* To input the queue and its relay are a lossless first-in first-out channel:
\* a push is an event happening, a hand-over is one received, and every other
\* step is invisible.
THEOREM ChannelImplemented == Spec => Input!Safety
<1>1. Init => Input!Init
  BY DEF Init, Input!Init
<1>2. TypeOK /\ OrderInv /\ InputNeverLost /\ [Next]_vars => [Input!Next]_(Input!vars)
  <2> SUFFICES ASSUME TypeOK, OrderInv, InputNeverLost, [Next]_vars
               PROVE  Input!Next \/ UNCHANGED Input!vars
    OBVIOUS
  <2>1. ASSUME NEW p \in Producers, NEW e \in NextEvents, Push(p, e)
        PROVE  Input!Happen
    <3>1. emitted' = Append(emitted, e) /\ UNCHANGED <<delivered, eventStop>>
      BY <2>1 DEF Push
    <3>2. emitted \in Seq(Event) /\ e \in Event
      BY NextEventIsEvent DEF TypeOK
    <3>3. Len(emitted') = Len(emitted) + 1 /\ emitted = SubSeq(emitted', 1, Len(emitted))
      BY <3>1, <3>2
    <3> QED
      BY <3>1, <3>3 DEF Input!Happen
  <2>2. ASSUME NEW p \in Producers, Signal(p) PROVE UNCHANGED Input!vars
    BY <2>2 DEF Signal, Input!vars
  <2>3. CASE RelayPop
    BY <2>3 DEF RelayPop, Input!vars
  <2>4. CASE RelayWake
    BY <2>4 DEF RelayWake, Input!vars
  <2>5. CASE RelaySend
    BY <2>5, SendIsReceive DEF Input!Next
  <2>6. CASE RelayStop
    BY <2>6 DEF RelayStop, Input!vars
  <2>7. CASE Stop
    BY <2>7 DEF Stop, Input!Next, Input!Close
  <2>8. CASE UNCHANGED vars
    BY <2>8 DEF vars, Input!vars
  <2> QED
    BY <2>1, <2>2, <2>3, <2>4, <2>5, <2>6, <2>7, <2>8 DEF Next, Input!Next
<1> QED
  BY <1>1, <1>2, TypeCorrect, OrderInvariant, InputIsKept, PTL DEF Spec, Input!Safety
=============================================================================
