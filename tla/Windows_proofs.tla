--------------------------- MODULE Windows_proofs ---------------------------
(***************************************************************************)
(* What the client's window state guarantees for any number of windows and *)
(* in any order of packets, desktop events and timers.                     *)
(***************************************************************************)
EXTENDS Windows, FiniteSetTheorems, SequenceTheorems, TLAPS

USE WindowsAssumption DEF NoLocal

-----------------------------------------------------------------------------
(* The inductive invariants. *)

\* Local ids are never reused: what mentions one comes after its creation.
OnlyCreated ==
  /\ alive \subseteq 1..created
  /\ \A i \in DOMAIN requests : requests[i].local \in 1..created
  /\ \A i \in DOMAIN events : events[i].local \in 1..created

\* The places in the event queue of one kind of news about a local window.
At(type, l) == {i \in DOMAIN events : events[i].type = type /\ events[i].local = l}

\* The last news of a window tells what the desktop made of it, and without
\* news the client knows.
KnowsTrue(w, l) ==
  LET news == At("minimized", l) IN
    \/ news = {} /\ (iconified[w] <=> l \in minimized)
    \/ \E i \in news : (\A j \in news : j <= i) /\ (events[i].value <=> l \in minimized)

NewsIsTrue == \A w \in Wids, l \in Locals : windows[w] = l => KnowsTrue(w, l)

\* A report about a window is waiting for its timer or in the channel.
ReportPending(w) == iconifyTimers[w] > 0 \/ \E i \in DOMAIN iconifyDue : iconifyDue[i] = w

\* The server knows, or will be told, of the state the client thinks it is in.
Answered(w) == \/ serverIconic[w] = Iconic(iconified[w])
               \/ toldIconic[w] <=> iconified[w]
               \/ iconified[w] /\ ReportPending(w)

\* The state the server asked for is still asked for, or being reported.
Coming(w, l) ==
  \E b \in BOOLEAN :
    /\ serverIconic[w] = Iconic(b)
    /\ \/ \E i \in DOMAIN requests : requests[i].local = l /\ (requests[i].minimize <=> b)
       \/ \E i \in At("minimized", l) : events[i].value <=> b

ServerFollows ==
  \A w \in Wids, l \in Locals : windows[w] = l => Answered(w) \/ Coming(w, l)

\* The desktop's choice prevails: all that happened before it is older news.
HolderPrevails ==
  holder # NoLocal =>
    /\ focused = byLocal[holder] \/ At("focus", holder) # {}
    /\ \A l \in Locals, i \in DOMAIN events :
         (i \in At("focus", l) /\ l # holder) \/ i \in At("focus-lost", holder) =>
            \E j \in At("focus", holder) : i < j

\* A window that does not have the focus loses it with the client, too.
OthersLose ==
  \A l \in alive \ {holder} :
    /\ focused = byLocal[l] => At("focus-lost", l) # {}
    /\ \A i \in At("focus", l) : \E j \in At("focus-lost", l) : i < j

\* The server's idea of the focus is stale only while a lost focus is reported.
ToldInTime ==
  /\ focusLosing => focusTimer \/ focusLostDue
  /\ toldFocus # focused => focused = NoWid /\ (focusTimer \/ focusLostDue)

-----------------------------------------------------------------------------
(* What happens to the queues. *)

\* Taking the head of a queue moves the other items one place forward.
LEMMA TailItems ==
  ASSUME NEW S, NEW s \in Seq(S), s # <<>>
  PROVE  /\ Head(s) \in S /\ Head(s) = s[1] /\ 1 \in DOMAIN s
         /\ Tail(s) \in Seq(S)
         /\ \A i \in DOMAIN Tail(s) : i \in Nat \ {0} /\ i + 1 \in DOMAIN s /\ Tail(s)[i] = s[i + 1]
         /\ \A i \in DOMAIN s : i \in Nat \ {0}
                                /\ (i # 1 => i - 1 \in DOMAIN Tail(s) /\ Tail(s)[i - 1] = s[i])
<1>1. /\ Head(s) \in S /\ Head(s) = s[1] /\ Len(s) \in Nat /\ Len(s) >= 1
      /\ Tail(s) \in Seq(S) /\ Len(Tail(s)) = Len(s) - 1
      /\ \A i \in 1..(Len(s) - 1) : Tail(s)[i] = s[i + 1]
  OBVIOUS
<1>2. DOMAIN s = 1..Len(s) /\ DOMAIN Tail(s) = 1..(Len(s) - 1)
  BY <1>1
<1>3. \A i \in 1..(Len(s) - 1) : i \in Nat \ {0} /\ i + 1 \in 1..Len(s)
  BY <1>1
<1>4. \A i \in 1..Len(s) : i # 1 => i - 1 \in 1..(Len(s) - 1) /\ (i - 1) + 1 = i
  BY <1>1
<1>5. \A i \in 1..Len(s) : i \in Nat \ {0}
  BY <1>1
<1>6. 1 \in 1..Len(s)
  BY <1>1
<1> QED
  BY <1>1, <1>2, <1>3, <1>4, <1>5, <1>6

\* Putting items behind a queue leaves those in it where they were.
LEMMA ConcatItems ==
  ASSUME NEW S, NEW s \in Seq(S), NEW t \in Seq(S)
  PROVE  /\ s \o t \in Seq(S) /\ Len(s) \in Nat
         /\ \A i \in DOMAIN s : i \in Nat /\ i <= Len(s)
                                /\ i \in DOMAIN (s \o t) /\ (s \o t)[i] = s[i]
         /\ \A j \in DOMAIN t : j \in Nat \ {0} /\ Len(s) + j \in DOMAIN (s \o t)
                                /\ (s \o t)[Len(s) + j] = t[j]
         /\ \A i \in DOMAIN (s \o t) : /\ i \in Nat
                                       /\ \/ i \in DOMAIN s
                                          \/ \E j \in DOMAIN t : i = Len(s) + j
<1>1. /\ s \o t \in Seq(S) /\ Len(s) \in Nat /\ Len(t) \in Nat
      /\ Len(s \o t) = Len(s) + Len(t)
  OBVIOUS
<1>2. /\ DOMAIN s = 1..Len(s) /\ DOMAIN t = 1..Len(t)
      /\ DOMAIN (s \o t) = 1..(Len(s) + Len(t))
  BY <1>1
<1>3. \A i \in 1..Len(s) : i \in Nat /\ i <= Len(s)
                           /\ i \in 1..(Len(s) + Len(t)) /\ (s \o t)[i] = s[i]
  BY <1>1
<1>4. \A j \in 1..Len(t) : j \in Nat \ {0} /\ Len(s) + j \in 1..(Len(s) + Len(t))
                           /\ (s \o t)[Len(s) + j] = t[j]
  BY <1>1
<1>5. \A i \in 1..(Len(s) + Len(t)) :
        i \in Nat /\ (i \in 1..Len(s) \/ (i - Len(s) \in 1..Len(t) /\ i = Len(s) + (i - Len(s))))
  BY <1>1
<1> QED
  BY <1>1, <1>2, <1>3, <1>4, <1>5

\* What is put behind a queue comes after what is in it.
LEMMA ConcatBehind ==
  ASSUME NEW S, NEW s \in Seq(S), NEW t \in Seq(S), NEW j \in DOMAIN t
  PROVE  (s \o t)[Len(s) + j] = t[j]
<1>1. Len(s) \in Nat /\ Len(t) \in Nat /\ j \in 1..Len(t)
  OBVIOUS
<1> QED
  BY <1>1

\* Putting one item behind a queue is putting a queue of one behind it.
LEMMA AppendItems ==
  ASSUME NEW S, NEW s \in Seq(S), NEW e \in S
  PROVE  /\ Append(s, e) = s \o <<e>> /\ <<e>> \in Seq(S)
         /\ DOMAIN <<e>> = {1} /\ <<e>>[1] = e
OBVIOUS

\* Queues of one and of two items.
LEMMA ShortQueues ==
  ASSUME NEW S, NEW a \in S, NEW b \in S
  PROVE  /\ <<a>> \in Seq(S) /\ DOMAIN <<a>> = {1} /\ <<a>>[1] = a
         /\ <<>> \o <<a>> = <<a>> /\ <<a>> \o <<>> = <<a>>
         /\ <<a>> \o <<b>> \in Seq(S) /\ DOMAIN (<<a>> \o <<b>>) = {1, 2}
         /\ (<<a>> \o <<b>>)[1] = a /\ (<<a>> \o <<b>>)[2] = b
<1>1. /\ <<a>> \in Seq(S) /\ DOMAIN <<a>> = {1} /\ <<a>>[1] = a
  OBVIOUS
<1>2. <<>> \o <<a>> = <<a>> /\ <<a>> \o <<>> = <<a>>
  OBVIOUS
<1>3. /\ <<a>> \o <<b>> \in Seq(S) /\ DOMAIN (<<a>> \o <<b>>) = {1, 2}
      /\ (<<a>> \o <<b>>)[1] = a /\ (<<a>> \o <<b>>)[2] = b
  OBVIOUS
<1> QED
  BY <1>1, <1>2, <1>3

\* Asks and events are well-formed.
LEMMA Messages ==
  ASSUME NEW l \in Locals, NEW b \in BOOLEAN
  PROVE  /\ \A why \in {"iconic", "show-desktop"} : Ask(l, b, why) \in Request
         /\ \A why \in {"user", "iconic", "show-desktop"} : Minimized(l, b, why) \in Event
         /\ Focus(l) \in Event
         /\ FocusLost(l) \in Event
BY DEF Ask, Minimized, Focus, FocusLost, Request, Event

\* The fields of a request and of each kind of event.
LEMMA MessageFields ==
  /\ \A r \in Request : r.local \in Locals /\ r.minimize \in BOOLEAN
                        /\ r.why \in {"iconic", "show-desktop"}
  /\ \A e \in Event : /\ e.local \in Locals
                      /\ e.type \in {"minimized", "focus", "focus-lost"}
                      /\ e.type = "minimized" => e.value \in BOOLEAN
BY DEF Request, Event

\* Show-desktop asks once for each window, in some order.
LEMMA ShowDesktopAsks ==
  ASSUME TypeOK, NEW b \in BOOLEAN,
         NEW order \in SetToSeqs({windows[w] : w \in Wids} \ {NoLocal})
  PROVE  [i \in DOMAIN order |-> Ask(order[i], b, "show-desktop")] \in Seq(Request)
<1> DEFINE S == {windows[w] : w \in Wids} \ {NoLocal}
           asks == [i \in DOMAIN order |-> Ask(order[i], b, "show-desktop")]
<1>1. S \in SUBSET Locals
  BY DEF TypeOK
<1>2. IsFiniteSet(Locals)
  BY FS_Interval DEF Locals
<1>3. Cardinality(S) \in Nat
  BY <1>1, <1>2, FS_Subset, FS_CardinalityType
<1>4. order \in [1..Cardinality(S) -> S]
  BY DEF SetToSeqs
<1> HIDE DEF S
<1>5. \A i \in 1..Cardinality(S) : Ask(order[i], b, "show-desktop") \in Request
  BY <1>1, <1>4, Messages
<1>6. asks \in [1..Cardinality(S) -> Request]
  BY <1>4, <1>5
<1> QED
  BY <1>3, <1>6

\* Moving the focus reports what was lost and what was gained, and no more.
LEMMA FocusNews ==
  ASSUME TypeOK, NEW l \in Locals \cup {NoLocal}, FocusMoves(l)
  PROVE  \E s \in Seq(Event) :
           /\ events' = events \o s
           /\ \A i \in DOMAIN s : \/ l # NoLocal /\ s[i] = Focus(l)
                                  \/ holder # NoLocal /\ s[i] = FocusLost(holder)
           /\ l # NoLocal => \E i \in DOMAIN s : s[i] = Focus(l)
           /\ holder # NoLocal => \E i \in DOMAIN s : s[i] = FocusLost(holder)
<1> DEFINE lost == IF holder = NoLocal THEN <<>> ELSE <<FocusLost(holder)>>
           gained == IF l = NoLocal THEN <<>> ELSE <<Focus(l)>>
<1>1. /\ holder # NoLocal => FocusLost(holder) \in Event
      /\ l # NoLocal => Focus(l) \in Event
  BY Messages DEF TypeOK
<1>2. lost \in Seq(Event) /\ gained \in Seq(Event)
  BY <1>1
<1>3. events' \in {events \o lost \o gained, events \o gained \o lost}
  BY DEF FocusMoves
<1>4. events \in Seq(Event)
  BY DEF TypeOK
<1>5. /\ (events \o lost) \o gained = events \o (lost \o gained)
      /\ (events \o gained) \o lost = events \o (gained \o lost)
  <2> HIDE DEF lost, gained
  <2>1. (events \o lost) \o gained = events \o (lost \o gained)
    BY <1>2, <1>4, ConcatAssociative
  <2>2. (events \o gained) \o lost = events \o (gained \o lost)
    BY <1>2, <1>4, ConcatAssociative
  <2> QED
    BY <2>1, <2>2
<1>6. CASE l = NoLocal /\ holder = NoLocal
  BY <1>6 DEF FocusMoves
<1>7. CASE l # NoLocal /\ holder = NoLocal
  <2> DEFINE f == Focus(l)
  <2>1. f \in Event /\ lost = <<>> /\ gained = <<f>>
    BY <1>1, <1>7
  <2> HIDE DEF f, lost, gained
  <2>2. events' = events \o <<f>>
    BY <1>3, <1>5, <2>1, ShortQueues
  <2>3. <<f>> \in Seq(Event) /\ DOMAIN <<f>> = {1} /\ <<f>>[1] = f
    BY <2>1, ShortQueues
  <2> QED
    BY <1>7, <2>2, <2>3 DEF f
<1>8. CASE l = NoLocal /\ holder # NoLocal
  <2> DEFINE g == FocusLost(holder)
  <2>1. g \in Event /\ lost = <<g>> /\ gained = <<>>
    BY <1>1, <1>8
  <2> HIDE DEF g, lost, gained
  <2>2. events' = events \o <<g>>
    BY <1>3, <1>5, <2>1, ShortQueues
  <2>3. <<g>> \in Seq(Event) /\ DOMAIN <<g>> = {1} /\ <<g>>[1] = g
    BY <2>1, ShortQueues
  <2> QED
    BY <1>8, <2>2, <2>3 DEF g
<1>9. CASE l # NoLocal /\ holder # NoLocal
  <2> DEFINE f == Focus(l)
             g == FocusLost(holder)
  <2>1. f \in Event /\ g \in Event /\ lost = <<g>> /\ gained = <<f>>
    BY <1>1, <1>9
  <2> HIDE DEF f, g, lost, gained
  <2>2. /\ lost \o gained \in Seq(Event) /\ DOMAIN (lost \o gained) = {1, 2}
        /\ (lost \o gained)[1] = g /\ (lost \o gained)[2] = f
        /\ gained \o lost \in Seq(Event) /\ DOMAIN (gained \o lost) = {1, 2}
        /\ (gained \o lost)[1] = f /\ (gained \o lost)[2] = g
    BY <2>1, ShortQueues
  <2>3. events' = events \o (lost \o gained) \/ events' = events \o (gained \o lost)
    BY <1>3, <1>5
  <2>4. CASE events' = events \o (lost \o gained)
    BY <1>9, <2>2, <2>4 DEF f, g
  <2>5. CASE events' = events \o (gained \o lost)
    BY <1>9, <2>2, <2>5 DEF f, g
  <2> QED
    BY <2>3, <2>4, <2>5
<1> QED
  BY <1>6, <1>7, <1>8, <1>9

\* The news left when the oldest event is taken out of the queue.
LEMMA TailNews ==
  ASSUME events \in Seq(Event), events # <<>>, events' = Tail(events), NEW type, NEW l
  PROVE  /\ \A i \in At(type, l)' : i \in Nat \ {0} /\ i + 1 \in At(type, l) /\ events'[i] = events[i + 1]
         /\ \A i \in At(type, l) : i \in Nat /\ (i # 1 => i - 1 \in At(type, l)')
         /\ 1 \in At(type, l) <=> Head(events).type = type /\ Head(events).local = l
BY TailItems DEF At

\* The news there is when events are put behind the queue.
LEMMA ConcatNews ==
  ASSUME events \in Seq(Event), NEW s \in Seq(Event), events' = events \o s, NEW type, NEW l
  PROVE  /\ At(type, l) \subseteq At(type, l)'
         /\ \A i \in At(type, l) : i \in Nat /\ i <= Len(events) /\ events'[i] = events[i]
         /\ \A j \in DOMAIN s : s[j].type = type /\ s[j].local = l =>
              /\ j \in Nat \ {0} /\ Len(events) + j \in At(type, l)'
              /\ events'[Len(events) + j] = s[j]
         /\ \A i \in At(type, l)' : \/ i \in At(type, l)
                                    \/ \E j \in DOMAIN s : /\ i = Len(events) + j
                                                           /\ s[j].type = type /\ s[j].local = l
<1>0. /\ \A i \in DOMAIN events : i \in Nat /\ i <= Len(events)
                                   /\ i \in DOMAIN events' /\ events'[i] = events[i]
      /\ \A j \in DOMAIN s : j \in Nat \ {0} /\ Len(events) + j \in DOMAIN events'
                             /\ events'[Len(events) + j] = s[j]
  BY ConcatItems
<1>1. \A i \in At(type, l) : /\ i \in Nat /\ i <= Len(events) /\ events'[i] = events[i]
                             /\ i \in At(type, l)'
  BY <1>0 DEF At
<1>2. \A j \in DOMAIN s : s[j].type = type /\ s[j].local = l =>
        /\ j \in Nat \ {0} /\ Len(events) + j \in At(type, l)'
        /\ events'[Len(events) + j] = s[j]
  BY <1>0 DEF At
<1>3. ASSUME NEW i \in At(type, l)', i \notin At(type, l)
      PROVE  \E j \in DOMAIN s : /\ i = Len(events) + j
                                 /\ s[j].type = type /\ s[j].local = l
  <2>1. i \in DOMAIN (events \o s) /\ events'[i].type = type /\ events'[i].local = l
    BY DEF At
  <2>2. i \notin DOMAIN events
    BY <1>3, <2>1, ConcatItems DEF At
  <2>3. PICK j \in DOMAIN s : i = Len(events) + j
    BY <2>1, <2>2, ConcatItems
  <2>4. (events \o s)[Len(events) + j] = s[j]
    BY ConcatBehind
  <2> QED
    BY <2>1, <2>3, <2>4
<1> QED
  BY <1>1, <1>2, <1>3

\* Every news was in the queue, or was put behind it.
LEMMA NewsOrigin ==
  ASSUME events \in Seq(Event), NEW s \in Seq(Event), events' = events \o s, NEW type, NEW l,
         NEW i \in At(type, l)'
  PROVE  \/ i \in At(type, l) /\ i \in Nat /\ i <= Len(events)
         \/ \E j \in DOMAIN s : i = Len(events) + j /\ s[j].type = type /\ s[j].local = l
<1>1. \A k \in At(type, l)' : \/ k \in At(type, l)
                              \/ \E j \in DOMAIN s : /\ k = Len(events) + j
                                                     /\ s[j].type = type /\ s[j].local = l
  BY ConcatNews
<1>2. \A k \in At(type, l) : k \in Nat /\ k <= Len(events)
  BY ConcatItems DEF At
<1> QED
  BY <1>1, <1>2

\* News of another kind is neither lost nor brought by one more event.
LEMMA AppendNews ==
  ASSUME events \in Seq(Event), NEW e \in Event, events' = Append(events, e),
         NEW type, NEW l, ~(e.type = type /\ e.local = l)
  PROVE  At(type, l)' = At(type, l) /\ \A i \in At(type, l) : events'[i] = events[i]
<1>1. events' = events \o <<e>> /\ <<e>> \in Seq(Event) /\ DOMAIN <<e>> = {1} /\ <<e>>[1] = e
  BY AppendItems
<1> DEFINE s == <<e>>
<1>4. s \in Seq(Event) /\ events' = events \o s /\ \A j \in DOMAIN s : s[j] = e
  BY <1>1
<1> HIDE DEF s
<1>2. At(type, l) \subseteq At(type, l)'
  BY <1>4, ConcatNews
<1>5. \A i \in At(type, l) : events'[i] = events[i]
  <2>1. \A i \in DOMAIN events : events'[i] = events[i]
    BY <1>4, ConcatItems
  <2> QED
    BY <2>1 DEF At
<1>6. \A k \in At(type, l)' : \/ k \in At(type, l)
                               \/ \E j \in DOMAIN s : /\ k = Len(events) + j
                                                      /\ s[j].type = type /\ s[j].local = l
  BY <1>4, ConcatNews
<1>3. At(type, l)' \subseteq At(type, l)
  BY <1>4, <1>6
<1> QED
  BY <1>2, <1>3, <1>5

-----------------------------------------------------------------------------
\* Every state of the client's window maps, timers and queues, and of the
\* desktop's, is well-formed; and no local id is used before it is created.
LEMMA WellFormed == Spec => [](TypeOK /\ OnlyCreated /\ MapsAgree)
<1> DEFINE Inv == TypeOK /\ OnlyCreated /\ MapsAgree
<1>1. Init => Inv
  <2> SUFFICES ASSUME Init PROVE Inv
    OBVIOUS
  <2>1. TypeOK
    <3>1. <<>> \in Seq(Request) /\ <<>> \in Seq(Event) /\ <<>> \in Seq(Wids)
      OBVIOUS
    <3>2. 0 \in 0..MaxLocals
      OBVIOUS
    <3> QED
      BY <3>1, <3>2 DEF Init, TypeOK
  <2>2. OnlyCreated /\ MapsAgree
    BY DEF Init, OnlyCreated, MapsAgree
  <2> QED
    BY <2>1, <2>2
<1>2. Inv /\ [Next]_vars => Inv'
  <2> SUFFICES ASSUME TypeOK, OnlyCreated, MapsAgree, [Next]_vars
               PROVE  Inv'
    OBVIOUS
  <2> HIDE DEF Inv
  <2> USE DEF clientVars, timerVars, desktopVars, toldVars
  <2>0. /\ requests \in Seq(Request) /\ events \in Seq(Event)
        /\ created \in Nat /\ MaxLocals \in Nat
    BY DEF TypeOK
  <2>1. ASSUME NEW w \in Wids, NEW iconic \in {"absent", "iconic", "normal"},
               NEW made \in BOOLEAN, NewWindow(w, iconic, made)
        PROVE  Inv'
    <3>1. created + 1 \in Locals /\ created' = created + 1 /\ created' \in 0..MaxLocals
      BY <2>0, <2>1 DEF NewWindow, Locals
    <3>2. 1..created \subseteq 1..(created + 1)
      BY <2>0
    <3>3. /\ requests' \in Seq(Request)
          /\ \A i \in DOMAIN requests' : requests'[i].local \in 1..created'
      <4>1. CASE made /\ iconic \in {"iconic", "normal"}
        <5> DEFINE ask == Ask(created + 1, iconic = "iconic", "iconic")
        <5>1. requests' = Append(requests, ask)
          BY <2>1, <4>1 DEF NewWindow
        <5>2. ask \in Request /\ ask.local = created + 1
          BY <3>1, Messages DEF Ask
        <5> HIDE DEF ask
        <5>3. /\ requests' \in Seq(Request)
              /\ \A i \in DOMAIN requests' :
                   requests'[i] = ask \/ (i \in DOMAIN requests /\ requests'[i] = requests[i])
          BY <2>0, <5>1, <5>2
        <5> QED
          BY <2>0, <3>1, <3>2, <5>2, <5>3 DEF OnlyCreated
      <4>2. CASE ~(made /\ iconic \in {"iconic", "normal"})
        <5>1. requests' = requests
          BY <2>1, <4>2 DEF NewWindow
        <5> QED
          BY <2>0, <3>1, <3>2, <5>1 DEF OnlyCreated
      <4> QED
        BY <4>1, <4>2
    <3>4. /\ alive' \subseteq Locals /\ alive' \subseteq 1..created'
          /\ minimized' \subseteq alive'
          /\ holder' \in alive' \cup {NoLocal}
      <4>1. /\ alive' = (alive \ {windows[w]}) \cup (IF made THEN {created + 1} ELSE {})
            /\ minimized' = minimized \ {windows[w]}
            /\ holder' = IF holder = windows[w] THEN NoLocal ELSE holder
        BY <2>1 DEF NewWindow
      <4>2. created + 1 \in 1..(created + 1)
        BY <2>0
      <4>3. /\ alive \subseteq Locals /\ alive \subseteq 1..created
            /\ minimized \subseteq alive /\ holder \in alive \cup {NoLocal}
        BY DEF TypeOK, OnlyCreated
      <4> QED
        BY <3>1, <3>2, <4>1, <4>2, <4>3
    <3>5. /\ windows' \in [Wids -> Locals \cup {NoLocal}]
          /\ byLocal' \in [Locals -> Wids \cup {NoWid}]
          /\ iconified' \in [Wids -> BOOLEAN]
          /\ toldIconic' \in [Wids -> BOOLEAN]
      BY <2>1, <3>1 DEF NewWindow, Unbind, TypeOK
    <3>6. /\ serverIconic' \in [Wids -> {"unknown", "iconic", "normal"}]
          /\ focused' \in Wids \cup {NoWid} /\ toldFocus' \in Wids \cup {NoWid}
          /\ UNCHANGED <<timerVars, events, inputs>>
      BY <2>1 DEF NewWindow, FocusWithout, TypeOK
    <3>7. TypeOK' /\ OnlyCreated'
      BY <3>1, <3>2, <3>3, <3>4, <3>5, <3>6, <2>0 DEF TypeOK, OnlyCreated
    <3>8. MapsAgree'
      <4>1. created + 1 \notin alive /\ \A v \in Wids : windows[v] # created + 1
        BY <2>0, <3>1 DEF OnlyCreated, MapsAgree
      <4>2. byLocal[created + 1] = NoWid
        BY <3>1, <4>1 DEF TypeOK, MapsAgree
      <4> QED
        BY <2>1, <3>1, <4>1, <4>2 DEF NewWindow, Unbind, TypeOK, MapsAgree
    <3> QED
      BY <3>7, <3>8 DEF Inv
  <2>2. ASSUME NEW w \in Wids, LostWindow(w) PROVE Inv'
    <3>1. TypeOK'
      BY <2>2 DEF LostWindow, Input, Unbind, FocusWithout, TypeOK
    <3>2. OnlyCreated'
      BY <2>2 DEF LostWindow, OnlyCreated
    <3>3. MapsAgree'
      BY <2>2 DEF LostWindow, Unbind, TypeOK, MapsAgree
    <3> QED
      BY <3>1, <3>2, <3>3 DEF Inv
  <2>3. ASSUME NEW w \in Wids, NEW b \in BOOLEAN, Metadata(w, b)
        PROVE  Inv'
    <3> DEFINE ask == Ask(windows[w], b, "iconic")
    <3>1. windows[w] \in Locals /\ requests' = Append(requests, ask)
      BY <2>3 DEF Metadata, TypeOK
    <3>2. ask \in Request /\ ask.local = windows[w]
      BY <3>1, Messages DEF Ask
    <3> HIDE DEF ask
    <3>3. /\ requests' \in Seq(Request)
          /\ \A i \in DOMAIN requests' :
               requests'[i] = ask \/ (i \in DOMAIN requests /\ requests'[i] = requests[i])
      BY <2>0, <3>1, <3>2
    <3>4. windows[w] \in 1..created
      BY <2>3, <3>1 DEF Metadata, OnlyCreated, MapsAgree
    <3>5. TypeOK'
      BY <2>3, <3>3 DEF Metadata, Input, Iconic, TypeOK
    <3> QED
      BY <2>3, <3>2, <3>3, <3>4, <3>5 DEF Inv, Metadata, OnlyCreated, MapsAgree
  <2>4. ASSUME NEW b \in BOOLEAN, ShowDesktop(b) PROVE Inv'
    <3>1. PICK order \in SetToSeqs({windows[w] : w \in Wids} \ {NoLocal}) :
            requests' = requests \o [i \in DOMAIN order |-> Ask(order[i], b, "show-desktop")]
      BY <2>4 DEF ShowDesktop
    <3> DEFINE asks == [i \in DOMAIN order |-> Ask(order[i], b, "show-desktop")]
    <3>2. asks \in Seq(Request)
      BY ShowDesktopAsks
    <3>3. \A i \in DOMAIN asks : asks[i].local \in 1..created
      <4>1. order \in [DOMAIN order -> {windows[w] : w \in Wids} \ {NoLocal}]
        BY DEF SetToSeqs
      <4>2. \A i \in DOMAIN order : order[i] \in 1..created
        BY <4>1 DEF OnlyCreated, MapsAgree
      <4> QED
        BY <4>2 DEF Ask
    <3> HIDE DEF asks
    <3>4. /\ requests' \in Seq(Request)
          /\ \A i \in DOMAIN requests' : requests'[i].local \in 1..created
      BY <2>0, <3>1, <3>2, <3>3, ConcatItems DEF OnlyCreated, asks
    <3>5. /\ UNCHANGED <<clientVars, timerVars, created, alive, minimized, holder, events, toldVars>>
          /\ inputs' \in Nat
      BY <2>4 DEF ShowDesktop, Input, TypeOK
    <3>6. TypeOK'
      BY <3>4, <3>5 DEF TypeOK
    <3>7. OnlyCreated' /\ MapsAgree'
      BY <3>4, <3>5 DEF OnlyCreated, MapsAgree
    <3> QED
      BY <3>6, <3>7 DEF Inv
  <2>5. ASSUME NEW s \in Seq(Event), events' = events \o s,
               \A i \in DOMAIN s : s[i].local \in alive
        PROVE  /\ events' \in Seq(Event)
               /\ \A i \in DOMAIN events' : events'[i].local \in 1..created
    <3>1. alive \subseteq 1..created /\ \A i \in DOMAIN events : events[i].local \in 1..created
      BY DEF OnlyCreated
    <3>2. events' \in Seq(Event)
      BY <2>0, <2>5, ConcatItems
    <3>3. ASSUME NEW i \in DOMAIN events'
          PROVE  events'[i].local \in 1..created
      <4>1. CASE i \in DOMAIN events
        BY <2>0, <2>5, <3>1, <4>1, ConcatItems
      <4>2. CASE \E j \in DOMAIN s : i = Len(events) + j
        <5>1. PICK j \in DOMAIN s : i = Len(events) + j
          BY <4>2
        <5>2. (events \o s)[Len(events) + j] = s[j]
          BY <2>0, ConcatBehind
        <5>3. events'[i] = s[j] /\ s[j].local \in alive
          BY <2>5, <5>1, <5>2
        <5> QED
          BY <3>1, <5>3
      <4> QED
        BY <2>0, <2>5, <3>3, <4>1, <4>2, ConcatItems
    <3> QED
      BY <3>2, <3>3
  <2>6. ASSUME NEW e \in Event, events' = Append(events, e), e.local \in alive
        PROVE  /\ events' \in Seq(Event)
               /\ \A i \in DOMAIN events' : events'[i].local \in 1..created
    <3>1. /\ events' = events \o <<e>> /\ <<e>> \in Seq(Event)
          /\ \A i \in DOMAIN <<e>> : <<e>>[i].local \in alive
      BY <2>0, <2>6, AppendItems
    <3> QED
      BY <2>5, <3>1
  <2>7. CASE CarryOut
    <3> DEFINE ask == Head(requests)
    <3>1. ask \in Request /\ requests' = Tail(requests) /\ requests # <<>>
      BY <2>0, <2>7, TailItems DEF CarryOut
    <3>2. /\ requests' \in Seq(Request)
          /\ \A i \in DOMAIN requests' : requests'[i].local \in 1..created
      BY <2>0, <3>1, TailItems DEF OnlyCreated
    <3>3. CASE ask.local \in alive /\ ask.minimize # (ask.local \in minimized)
      <4> DEFINE e == Minimized(ask.local, ask.minimize, ask.why)
      <4>1. e \in Event /\ e.local = ask.local
        BY <3>1, Messages, MessageFields DEF Minimized
      <4>2. events' = Append(events, e)
        BY <2>7, <3>3 DEF CarryOut
      <4>3. minimized' \subseteq alive
        BY <2>7, <3>3 DEF CarryOut, TypeOK
      <4> HIDE DEF e
      <4>4. /\ events' \in Seq(Event)
            /\ \A i \in DOMAIN events' : events'[i].local \in 1..created
        BY <2>6, <3>3, <4>1, <4>2
      <4> QED
        BY <2>7, <3>2, <4>3, <4>4 DEF Inv, CarryOut, TypeOK, OnlyCreated, MapsAgree
    <3>4. CASE ~(ask.local \in alive /\ ask.minimize # (ask.local \in minimized))
      <4>1. UNCHANGED <<minimized, events>>
        BY <2>7, <3>4 DEF CarryOut
      <4> QED
        BY <2>7, <3>2, <4>1 DEF Inv, CarryOut, TypeOK, OnlyCreated, MapsAgree
    <3> QED
      BY <3>3, <3>4
  <2>8. ASSUME NEW l \in Locals, UserMinimizes(l) \/ UserRestores(l) PROVE Inv'
    <3>1. CASE UserMinimizes(l)
      <4>1. /\ events' \in Seq(Event)
            /\ \A i \in DOMAIN events' : events'[i].local \in 1..created
        <5>1. Minimized(l, TRUE, "user") \in Event /\ Minimized(l, TRUE, "user").local = l
          BY Messages DEF Minimized
        <5> QED
          BY <2>6, <3>1, <5>1 DEF UserMinimizes
      <4>2. minimized' \subseteq alive
        BY <3>1 DEF UserMinimizes, TypeOK
      <4>3. /\ UNCHANGED <<clientVars, timerVars, created, alive, holder, requests, toldVars>>
            /\ inputs' \in Nat
        BY <3>1 DEF UserMinimizes, Input, TypeOK
      <4>4. TypeOK'
        BY <4>1, <4>2, <4>3 DEF TypeOK
      <4>5. OnlyCreated' /\ MapsAgree'
        BY <4>1, <4>3 DEF OnlyCreated, MapsAgree
      <4> QED
        BY <4>4, <4>5 DEF Inv
    <3>2. CASE UserRestores(l)
      <4>1. /\ events' \in Seq(Event)
            /\ \A i \in DOMAIN events' : events'[i].local \in 1..created
        <5>1. Minimized(l, FALSE, "user") \in Event /\ Minimized(l, FALSE, "user").local = l
          BY Messages DEF Minimized
        <5> QED
          BY <2>6, <3>2, <5>1 DEF UserRestores, TypeOK
      <4>2. minimized' \subseteq alive
        BY <3>2 DEF UserRestores, TypeOK
      <4>3. /\ UNCHANGED <<clientVars, timerVars, created, alive, holder, requests, toldVars>>
            /\ inputs' \in Nat
        BY <3>2 DEF UserRestores, Input, TypeOK
      <4>4. TypeOK'
        BY <4>1, <4>2, <4>3 DEF TypeOK
      <4>5. OnlyCreated' /\ MapsAgree'
        BY <4>1, <4>3 DEF OnlyCreated, MapsAgree
      <4> QED
        BY <4>4, <4>5 DEF Inv
    <3> QED
      BY <2>8, <3>1, <3>2
  <2>9. ASSUME NEW l \in Locals \cup {NoLocal}, FocusMoves(l) PROVE Inv'
    <3>1. PICK s \in Seq(Event) :
            /\ events' = events \o s
            /\ \A i \in DOMAIN s : \/ l # NoLocal /\ s[i] = Focus(l)
                                   \/ holder # NoLocal /\ s[i] = FocusLost(holder)
      BY <2>9, FocusNews
    <3>3. \A i \in DOMAIN s : s[i].local \in alive
      BY <2>9, <3>1 DEF FocusMoves, TypeOK, Focus, FocusLost
    <3>2. /\ events' \in Seq(Event)
          /\ \A i \in DOMAIN events' : events'[i].local \in 1..created
      BY <2>5, <3>1, <3>3
    <3>4. /\ holder' \in alive \cup {NoLocal} /\ inputs' \in Nat
          /\ UNCHANGED <<clientVars, timerVars, created, alive, minimized, requests, toldVars>>
      BY <2>9 DEF FocusMoves, Input, TypeOK
    <3>5. TypeOK'
      BY <3>2, <3>4 DEF TypeOK
    <3>6. OnlyCreated' /\ MapsAgree'
      BY <3>2, <3>4 DEF OnlyCreated, MapsAgree
    <3> QED
      BY <3>5, <3>6 DEF Inv
  <2>10. ASSUME events # <<>>, events' = Tail(events)
         PROVE  /\ events' \in Seq(Event)
                /\ \A i \in DOMAIN events' : events'[i].local \in 1..created
    BY <2>0, <2>10, TailItems DEF OnlyCreated
  <2>11. ASSUME NEW type, Take(type)
         PROVE  /\ events' \in Seq(Event)
                /\ \A i \in DOMAIN events' : events'[i].local \in 1..created
                /\ Head(events) \in Event /\ byLocal[Head(events).local] \in Wids
    <3>1. Head(events) \in Event
      BY <2>0, <2>11, TailItems DEF Take
    <3>2. byLocal[Head(events).local] \in Wids
      BY <2>11, <3>1, MessageFields DEF Take, ActedOn, Known, TypeOK
    <3> QED
      BY <2>10, <2>11, <3>1, <3>2 DEF Take
  <2>12. CASE IgnoreEvent
    BY <2>10, <2>12 DEF Inv, IgnoreEvent, TypeOK, OnlyCreated, MapsAgree
  <2>13. CASE HandleMinimized
    <3>1. /\ events' \in Seq(Event)
          /\ \A i \in DOMAIN events' : events'[i].local \in 1..created
      BY <2>11, <2>13 DEF HandleMinimized
    <3>2. Head(events).value \in BOOLEAN
      BY <2>11, <2>13, MessageFields DEF HandleMinimized, Take
    <3>3. /\ iconified' \in [Wids -> BOOLEAN]
          /\ iconifyTimers' \in [Wids -> Nat]
          /\ toldIconic' \in [Wids -> BOOLEAN]
      <4> DEFINE e == Head(events)
                 w == byLocal[e.local]
      <4>1. w \in Wids
        BY <2>11, <2>13 DEF HandleMinimized
      <4> HIDE DEF e, w
      <4>2. iconified' = [iconified EXCEPT ![w] = e.value]
        BY <2>13 DEF HandleMinimized, e, w
      <4>3. \/ iconifyTimers' = [iconifyTimers EXCEPT ![w] = @ + 1]
            \/ iconifyTimers' = iconifyTimers
        BY <2>13 DEF HandleMinimized, e, w
      <4>4. \/ toldIconic' = [toldIconic EXCEPT ![w] = FALSE]
            \/ toldIconic' = toldIconic
        BY <2>13 DEF HandleMinimized, e, w
      <4>5. e.value \in BOOLEAN
        BY <3>2 DEF e
      <4>6. iconified' \in [Wids -> BOOLEAN]
        BY <4>2, <4>5 DEF TypeOK
      <4>7. iconifyTimers' \in [Wids -> Nat]
        <5>1. iconifyTimers \in [Wids -> Nat] /\ iconifyTimers[w] + 1 \in Nat
          BY <4>1 DEF TypeOK
        <5> QED
          BY <4>1, <4>3, <5>1
      <4>8. toldIconic' \in [Wids -> BOOLEAN]
        BY <4>4 DEF TypeOK
      <4> QED
        BY <4>6, <4>7, <4>8
    <3> QED
      BY <2>13, <3>1, <3>3 DEF Inv, HandleMinimized, TypeOK, OnlyCreated, MapsAgree
  <2>14. CASE HandleFocus
    BY <2>11, <2>14 DEF Inv, HandleFocus, TypeOK, OnlyCreated, MapsAgree
  <2>15. CASE HandleFocusLost
    BY <2>11, <2>15 DEF Inv, HandleFocusLost, TypeOK, OnlyCreated, MapsAgree
  <2>16. ASSUME NEW w \in Wids, IconifyExpires(w) PROVE Inv'
    <3>1. iconifyDue' \in Seq(Wids) /\ iconifyTimers' \in [Wids -> Nat]
      BY <2>16 DEF IconifyExpires, TypeOK
    <3> QED
      BY <2>16, <3>1 DEF Inv, IconifyExpires, TypeOK, OnlyCreated, MapsAgree
  <2>17. CASE SendIconified
    <3>1. iconifyDue' \in Seq(Wids) /\ toldIconic' \in [Wids -> BOOLEAN]
      BY <2>17 DEF SendIconified, TypeOK
    <3> QED
      BY <2>17, <3>1 DEF Inv, SendIconified, TypeOK, OnlyCreated, MapsAgree
  <2>18. CASE FocusExpires \/ SendFocusLost
    <3>1. CASE FocusExpires
      BY <3>1 DEF Inv, FocusExpires, TypeOK, OnlyCreated, MapsAgree
    <3>2. CASE SendFocusLost
      <4>1. /\ focusLosing' \in BOOLEAN /\ focusLostDue' \in BOOLEAN
            /\ toldFocus' \in Wids \cup {NoWid}
        BY <3>2 DEF SendFocusLost, TypeOK
      <4>2. UNCHANGED <<clientVars, iconifyTimers, iconifyDue, focusTimer, desktopVars,
                       toldIconic, inputs>>
        BY <3>2 DEF SendFocusLost
      <4>3. TypeOK'
        BY <4>1, <4>2 DEF TypeOK
      <4>4. OnlyCreated' /\ MapsAgree'
        BY <4>2 DEF OnlyCreated, MapsAgree
      <4> QED
        BY <4>3, <4>4 DEF Inv
    <3> QED
      BY <2>18, <3>1, <3>2
  <2>19. CASE UNCHANGED vars
    BY <2>19 DEF Inv, vars, TypeOK, OnlyCreated, MapsAgree
  <2> QED
    BY <2>1, <2>2, <2>3, <2>4, <2>7, <2>8, <2>9, <2>12, <2>13, <2>14, <2>15, <2>16,
       <2>17, <2>18, <2>19 DEF Next
<1> QED
  BY <1>1, <1>2, PTL DEF Spec

\* Maps, timers, queues and what the server was told stay well-formed.
THEOREM TypeCorrect == Spec => []TypeOK
BY WellFormed, PTL

\* The two maps stay inverse to each other and hold exactly the windows of the
\* desktop, however ids are reused and whichever windows cannot be made.
THEOREM MapsStayInverse == Spec => []MapsAgree
BY WellFormed, PTL

\* Neither the focus nor an iconic state survives its window, so that a window
\* whose id is reused starts afresh.
THEOREM NothingIsInherited == Spec => []NothingOutlivesItsWindow
<1>1. Init => NothingOutlivesItsWindow
  BY DEF Init, NothingOutlivesItsWindow
<1>2. TypeOK /\ MapsAgree /\ NothingOutlivesItsWindow /\ [Next]_vars => NothingOutlivesItsWindow'
  <2> SUFFICES ASSUME TypeOK, MapsAgree, NothingOutlivesItsWindow, [Next]_vars
               PROVE  NothingOutlivesItsWindow'
    OBVIOUS
  <2> USE DEF clientVars, timerVars, desktopVars, toldVars
  <2>1. ASSUME NEW w \in Wids, NEW iconic \in {"absent", "iconic", "normal"},
               NEW made \in BOOLEAN, NewWindow(w, iconic, made)
        PROVE  NothingOutlivesItsWindow'
    <3>1. created + 1 # NoLocal
      BY DEF TypeOK
    <3> QED
      BY <2>1, <3>1 DEF NewWindow, FocusWithout, TypeOK, NothingOutlivesItsWindow
  <2>2. ASSUME NEW w \in Wids, LostWindow(w) PROVE NothingOutlivesItsWindow'
    BY <2>2 DEF LostWindow, FocusWithout, TypeOK, NothingOutlivesItsWindow
  <2>3. ASSUME NEW w \in Wids, NEW b \in BOOLEAN, Metadata(w, b)
        PROVE  NothingOutlivesItsWindow'
    BY <2>3 DEF Metadata, TypeOK, NothingOutlivesItsWindow
  <2>4. ASSUME events # <<>>, ActedOn(Head(events))
        PROVE  /\ byLocal[Head(events).local] \in Wids
               /\ windows[byLocal[Head(events).local]] # NoLocal
    <3>1. Head(events) \in Event
      BY <2>4, TailItems DEF TypeOK
    <3>2. Head(events).local \in Locals /\ Head(events).local # NoLocal
      BY <3>1, MessageFields DEF Locals
    <3> QED
      BY <2>4, <3>2 DEF ActedOn, Known, TypeOK, MapsAgree
  <2>5. CASE HandleMinimized
    <3>1. PICK w \in Wids : /\ windows[w] # NoLocal
                            /\ iconified' = [iconified EXCEPT ![w] = Head(events).value]
      BY <2>4, <2>5 DEF HandleMinimized, Take
    <3> QED
      BY <2>5, <3>1 DEF HandleMinimized, TypeOK, NothingOutlivesItsWindow
  <2>6. CASE HandleFocus \/ HandleFocusLost
    BY <2>4, <2>6 DEF HandleFocus, HandleFocusLost, Take, NothingOutlivesItsWindow
  <2>7. CASE \/ \E b \in BOOLEAN : ShowDesktop(b)
             \/ CarryOut
             \/ \E l \in Locals : UserMinimizes(l) \/ UserRestores(l)
             \/ \E l \in Locals \cup {NoLocal} : FocusMoves(l)
             \/ IgnoreEvent
             \/ \E w \in Wids : IconifyExpires(w)
             \/ FocusExpires \/ SendIconified \/ SendFocusLost
             \/ UNCHANGED vars
    <3>1. UNCHANGED clientVars
      BY <2>7 DEF ShowDesktop, CarryOut, UserMinimizes, UserRestores, FocusMoves, IgnoreEvent,
                  IconifyExpires, FocusExpires, SendIconified, SendFocusLost, vars
    <3> QED
      BY <3>1 DEF NothingOutlivesItsWindow
  <2> QED
    BY <2>1, <2>2, <2>3, <2>5, <2>6, <2>7 DEF Next
<1> QED
  BY <1>1, <1>2, WellFormed, PTL DEF Spec

-----------------------------------------------------------------------------
(* The focus. *)

FocusInv == HolderPrevails /\ OthersLose /\ ToldInTime

\* What the queue has to say of the focus is no less true without its head.
LEMMA FocusTail ==
  ASSUME TypeOK, MapsAgree, FocusInv, events # <<>>, events' = Tail(events),
         UNCHANGED <<byLocal, holder, alive>>,
         \/ ~ActedOn(Head(events)) /\ UNCHANGED focused
         \/ ActedOn(Head(events)) /\ Head(events).type = "minimized" /\ UNCHANGED focused
         \/ /\ ActedOn(Head(events)) /\ Head(events).type = "focus"
            /\ focused' = byLocal[Head(events).local]
         \/ ActedOn(Head(events)) /\ Head(events).type = "focus-lost" /\ focused' = NoWid
  PROVE  HolderPrevails' /\ OthersLose'
<1> DEFINE e == Head(events)
<1>1. events \in Seq(Event) /\ e \in Event
  BY TailItems DEF TypeOK
<1>2. \A l \in Locals : byLocal[l] # NoWid =>
        \A k \in Locals : byLocal[k] = byLocal[l] => k = l
  BY DEF MapsAgree
<1>3. \A l \in alive : l \in Locals /\ byLocal[l] # NoWid
  BY DEF TypeOK, MapsAgree
<1>4. e.local \in Locals
  BY <1>1, MessageFields
<1>5. ActedOn(e) => byLocal[e.local] # NoWid
  BY DEF ActedOn, Known
<1>6. \A type, l : /\ \A i \in At(type, l)' : i \in Nat /\ i + 1 \in At(type, l)
                   /\ \A i \in At(type, l) : i \in Nat /\ (i # 1 => i - 1 \in At(type, l)')
                   /\ 1 \in At(type, l) <=> e.type = type /\ e.local = l
  BY <1>1, TailNews
<1>7. \A i, j \in Nat : i + 1 < j => j # 1 /\ i < j - 1
  OBVIOUS
<1>8. HolderPrevails'
  <2> SUFFICES ASSUME holder # NoLocal
               PROVE  /\ focused' = byLocal[holder] \/ At("focus", holder)' # {}
                      /\ \A l \in Locals, i \in (DOMAIN events)' :
                           (i \in At("focus", l)' /\ l # holder) \/ i \in At("focus-lost", holder)' =>
                              \E j \in At("focus", holder)' : i < j
    BY DEF HolderPrevails
  <2>1. holder \in alive
    BY DEF TypeOK
  <2>2. /\ focused = byLocal[holder] \/ At("focus", holder) # {}
        /\ \A l \in Locals, i \in DOMAIN events :
             (i \in At("focus", l) /\ l # holder) \/ i \in At("focus-lost", holder) =>
                \E j \in At("focus", holder) : i < j
    BY DEF FocusInv, HolderPrevails
  <2>3. \A l \in Locals : \A i :
          (i \in At("focus", l) /\ l # holder) \/ i \in At("focus-lost", holder) =>
             \E j \in At("focus", holder) : i < j
    BY <2>2 DEF At
  <2>4. ASSUME NEW l \in Locals,
               NEW i, (i \in At("focus", l)' /\ l # holder) \/ i \in At("focus-lost", holder)'
        PROVE  \E j \in At("focus", holder)' : i < j
    <3>1. i \in Nat /\ ((i + 1 \in At("focus", l) /\ l # holder) \/ i + 1 \in At("focus-lost", holder))
      BY <1>6, <2>4
    <3>2. PICK j \in At("focus", holder) : i + 1 < j
      BY <2>3, <3>1
    <3> QED
      BY <1>6, <1>7, <3>1, <3>2
  <2>5. focused' = byLocal[holder] \/ At("focus", holder)' # {}
    <3>1. CASE \E j \in At("focus", holder) : j # 1
      BY <1>6, <3>1
    <3>2. CASE 1 \in At("focus", holder)
      <4>1. e.type = "focus" /\ e.local = holder
        BY <1>6, <3>2
      <4>2. byLocal[holder] # NoWid
        BY <1>3, <2>1
      <4> QED
        BY <4>1, <4>2 DEF ActedOn, Known, ChangesSomething
    <3>3. CASE At("focus", holder) = {}
      <4>1. focused = byLocal[holder]
        BY <2>2, <3>3
      <4>2. ~(e.type = "focus") /\ ~(e.type = "focus-lost" /\ e.local = holder)
        BY <1>4, <1>6, <2>3, <3>3
      <4>3. e.type = "focus-lost" /\ ActedOn(e) => byLocal[e.local] = focused
        BY DEF ActedOn, ChangesSomething
      <4>4. focused' = focused
        BY <1>2, <1>3, <1>4, <1>5, <2>1, <4>1, <4>2, <4>3
      <4> QED
        BY <4>1, <4>4
    <3> QED
      BY <3>1, <3>2, <3>3
  <2> QED
    BY <2>4, <2>5
<1>9. OthersLose'
  <2> SUFFICES ASSUME NEW l \in alive \ {holder}
               PROVE  /\ focused' = byLocal[l] => At("focus-lost", l)' # {}
                      /\ \A i \in At("focus", l)' : \E j \in At("focus-lost", l)' : i < j
    BY DEF OthersLose
  <2>1. /\ focused = byLocal[l] => At("focus-lost", l) # {}
        /\ \A i \in At("focus", l) : \E j \in At("focus-lost", l) : i < j
    BY DEF FocusInv, OthersLose
  <2>2. ASSUME NEW i \in At("focus", l)' PROVE \E j \in At("focus-lost", l)' : i < j
    <3>1. i \in Nat /\ i + 1 \in At("focus", l)
      BY <1>6
    <3>2. PICK j \in At("focus-lost", l) : i + 1 < j
      BY <2>1, <3>1
    <3> QED
      BY <1>6, <1>7, <3>1, <3>2
  <2>3. ASSUME focused' = byLocal[l] PROVE At("focus-lost", l)' # {}
    <3>1. CASE ActedOn(e) /\ e.type = "focus"
      <4>1. e.local = l
        BY <1>2, <1>3, <1>4, <2>3, <3>1
      <4>2. PICK j \in At("focus-lost", l) : 1 < j
        BY <1>6, <2>1, <3>1, <4>1
      <4>3. j # 1
        BY <1>6, <4>2
      <4> QED
        BY <1>6, <4>3
    <3>2. CASE focused' = focused
      <4>1. PICK j \in At("focus-lost", l) : TRUE
        BY <2>1, <2>3, <3>2
      <4>2. CASE j # 1
        BY <1>6, <4>2
      <4>3. CASE j = 1
        <5>1. e.type = "focus-lost" /\ e.local = l
          BY <1>6, <4>3
        <5>2. ActedOn(e)
          BY <1>3, <2>3, <3>2, <5>1 DEF ActedOn, Known, ChangesSomething
        <5>3. focused' = NoWid
          BY <5>1, <5>2
        <5> QED
          BY <1>3, <2>3, <5>3
      <4> QED
        BY <4>2, <4>3
    <3>3. CASE focused' = NoWid
      BY <1>3, <2>3, <3>3
    <3> QED
      BY <3>1, <3>2, <3>3
  <2> QED
    BY <2>2, <2>3
<1> QED
  BY <1>8, <1>9

\* A step that brings no news of the focus changes nothing in what the queue
\* says of it.
LEMMA FocusQuiet ==
  ASSUME HolderPrevails, OthersLose, UNCHANGED <<byLocal, holder, alive, focused>>,
         \A l \in Locals : /\ At("focus", l)' = At("focus", l)
                           /\ At("focus-lost", l)' = At("focus-lost", l),
         alive \subseteq Locals, holder \in alive \cup {NoLocal}
  PROVE  HolderPrevails' /\ OthersLose'
<1>1. ASSUME holder # NoLocal
      PROVE  /\ focused' = byLocal[holder] \/ At("focus", holder)' # {}
             /\ \A l \in Locals, i \in (DOMAIN events)' :
                  (i \in At("focus", l)' /\ l # holder) \/ i \in At("focus-lost", holder)' =>
                     \E j \in At("focus", holder)' : i < j
  <2>1. holder \in Locals
    BY <1>1
  <2>2. \A l \in Locals : \A i :
          (i \in At("focus", l) /\ l # holder) \/ i \in At("focus-lost", holder) =>
             \E j \in At("focus", holder) : i < j
    BY <1>1 DEF HolderPrevails, At
  <2> QED
    BY <1>1, <2>1, <2>2 DEF HolderPrevails
<1>2. ASSUME NEW l \in alive \ {holder}
      PROVE  /\ focused' = byLocal[l] => At("focus-lost", l)' # {}
             /\ \A i \in At("focus", l)' : \E j \in At("focus-lost", l)' : i < j
  BY <1>2 DEF OthersLose
<1> QED
  BY <1>1, <1>2 DEF HolderPrevails, OthersLose

\* The news of a focus that moves is the last in the queue.
LEMMA FocusMoved ==
  ASSUME TypeOK, FocusInv, NEW l \in Locals \cup {NoLocal}, FocusMoves(l)
  PROVE  HolderPrevails' /\ OthersLose'
<1>1. PICK s \in Seq(Event) :
        /\ events' = events \o s
        /\ \A i \in DOMAIN s : \/ l # NoLocal /\ s[i] = Focus(l)
                               \/ holder # NoLocal /\ s[i] = FocusLost(holder)
        /\ l # NoLocal => \E i \in DOMAIN s : s[i] = Focus(l)
        /\ holder # NoLocal => \E i \in DOMAIN s : s[i] = FocusLost(holder)
  BY FocusNews
<1>2. /\ holder' = l /\ l # holder /\ UNCHANGED <<byLocal, alive, focused>>
      /\ events \in Seq(Event) /\ Len(events) \in Nat
  BY DEF FocusMoves, TypeOK, clientVars
<1>3. \A k : /\ Focus(k).type = "focus" /\ Focus(k).local = k
             /\ FocusLost(k).type = "focus-lost" /\ FocusLost(k).local = k
  BY DEF Focus, FocusLost
<1>4. /\ \A i \in DOMAIN s : s[i].type = "focus" => s[i].local = l /\ l # NoLocal
      /\ \A i \in DOMAIN s : s[i].type = "focus-lost" => s[i].local = holder /\ holder # NoLocal
  BY <1>1, <1>3
<1>13. events \in Seq(Event) /\ s \in Seq(Event) /\ events' = events \o s
  BY <1>1, <1>2
<1>14. \A type, k, i : i \in At(type, k)' =>
         \/ i \in At(type, k) /\ i \in Nat /\ i <= Len(events)
         \/ \E j \in DOMAIN s : s[j].type = type /\ s[j].local = k
  <2> TAKE type, k, i
  <2> HAVE i \in At(type, k)'
  <2>1. \/ i \in At(type, k) /\ i \in Nat /\ i <= Len(events)
        \/ \E j \in DOMAIN s : i = Len(events) + j /\ s[j].type = type /\ s[j].local = k
    BY <1>13, NewsOrigin
  <2> QED
    BY <2>1
<1>15. \A type, k, j : j \in DOMAIN s /\ s[j].type = type /\ s[j].local = k =>
         j \in Nat \ {0} /\ Len(events) + j \in At(type, k)'
  BY <1>13, ConcatNews
<1>5. \A k, i : i \in At("focus", k)' => k = l \/ (i \in At("focus", k) /\ i \in Nat /\ i <= Len(events))
  BY <1>4, <1>14
<1>6. \A k, i : i \in At("focus-lost", k)' =>
        k = holder \/ (i \in At("focus-lost", k) /\ i \in Nat /\ i <= Len(events))
  BY <1>4, <1>14
<1>7. \A type, k : At(type, k) \subseteq At(type, k)'
  BY <1>13, ConcatNews
<1>8. ASSUME l # NoLocal PROVE \E j \in Nat \ {0} : Len(events) + j \in At("focus", l)'
  <2>1. PICK j \in DOMAIN s : s[j] = Focus(l)
    BY <1>1, <1>8
  <2> QED
    BY <1>3, <1>15, <2>1
<1>9. ASSUME NEW k, k = holder, k # NoLocal
      PROVE  \E j \in Nat \ {0} : Len(events) + j \in At("focus-lost", k)'
  <2>1. PICK j \in DOMAIN s : s[j] = FocusLost(k)
    BY <1>1, <1>9
  <2> QED
    BY <1>3, <1>15, <2>1
<1>10. \A i, j \in Nat : i <= Len(events) /\ j # 0 => i < Len(events) + j
  BY <1>2
<1>11. HolderPrevails'
  <2> SUFFICES ASSUME l # NoLocal
               PROVE  /\ focused' = byLocal'[l] \/ At("focus", l)' # {}
                      /\ \A k \in Locals, i \in (DOMAIN events)' :
                           (i \in At("focus", k)' /\ k # l) \/ i \in At("focus-lost", l)' =>
                              \E j \in At("focus", l)' : i < j
    BY <1>2 DEF HolderPrevails
  <2> QED
    BY <1>2, <1>5, <1>6, <1>8, <1>10
<1>12. OthersLose'
  <2> SUFFICES ASSUME NEW k \in alive \ {l}
               PROVE  /\ focused' = byLocal'[k] => At("focus-lost", k)' # {}
                      /\ \A i \in At("focus", k)' : \E j \in At("focus-lost", k)' : i < j
    BY <1>2 DEF OthersLose
  <2>1. CASE k = holder
    <3>1. holder # NoLocal
      BY <2>1 DEF TypeOK, Locals
    <3>2. PICK j \in Nat \ {0} : Len(events) + j \in At("focus-lost", k)'
      BY <1>9, <2>1, <3>1
    <3>3. \A i \in At("focus", k)' : i < Len(events) + j
      BY <1>5, <1>10
    <3> QED
      BY <3>2, <3>3
  <2>2. CASE k # holder
    <3>1. /\ focused = byLocal[k] => At("focus-lost", k) # {}
          /\ \A i \in At("focus", k) : \E j \in At("focus-lost", k) : i < j
      BY <2>2 DEF FocusInv, OthersLose
    <3> QED
      BY <1>2, <1>5, <1>7, <3>1
  <2> QED
    BY <2>1, <2>2
<1> QED
  BY <1>11, <1>12

\* A window that is gone, or just made, is in no news that matters.
LEMMA FocusRebound ==
  ASSUME TypeOK, MapsAgree, OnlyCreated, FocusInv, NEW w \in Wids,
         LostWindow(w) \/ \E iconic \in {"absent", "iconic", "normal"}, made \in BOOLEAN :
                            NewWindow(w, iconic, made)
  PROVE  HolderPrevails' /\ OthersLose'
<1>1. /\ focused' = FocusWithout(w) /\ UNCHANGED events
      /\ holder' = IF holder = windows[w] THEN NoLocal ELSE holder
  BY DEF LostWindow, NewWindow
<1>2. \A type, l : At(type, l)' = At(type, l)
  BY <1>1 DEF At
<1>3. \A l \in alive' : \/ l \in alive /\ l # windows[w] /\ byLocal'[l] = byLocal[l]
                        \/ l = created + 1 /\ l \in Locals /\ byLocal'[l] = w
  <2>1. CASE LostWindow(w)
    BY <2>1 DEF LostWindow, Unbind, TypeOK
  <2>2. CASE \E iconic \in {"absent", "iconic", "normal"}, made \in BOOLEAN :
               NewWindow(w, iconic, made)
    <3>1. created + 1 \in Locals /\ created + 1 \notin alive
      BY <2>2 DEF NewWindow, Locals, TypeOK, OnlyCreated
    <3> QED
      BY <2>2, <3>1 DEF NewWindow, Unbind, TypeOK
  <2> QED
    BY <2>1, <2>2
<1>4. focused' # w /\ (focused' = NoWid \/ focused' = focused)
  BY DEF FocusWithout, LostWindow, NewWindow
<1>5. \A type : At(type, created + 1) = {}
  BY DEF At, OnlyCreated, TypeOK
<1>6. holder' # NoLocal => /\ holder' = holder /\ holder \in alive /\ holder # windows[w]
                           /\ byLocal'[holder] = byLocal[holder]
                           /\ byLocal[holder] # w
  <2> SUFFICES ASSUME holder' # NoLocal
               PROVE  /\ holder' = holder /\ holder \in alive /\ holder # windows[w]
                      /\ byLocal'[holder] = byLocal[holder]
                      /\ byLocal[holder] # w
    OBVIOUS
  <2>1. holder' = holder /\ holder \in alive /\ holder # windows[w]
    BY <1>1 DEF TypeOK
  <2>2. byLocal[holder] # w
    BY <2>1 DEF MapsAgree, TypeOK
  <2>3. byLocal'[holder] = byLocal[holder]
    <3>1. holder \in alive' /\ holder # created + 1
      BY <2>1 DEF LostWindow, NewWindow, TypeOK, OnlyCreated
    <3> QED
      BY <1>3, <3>1
  <2> QED
    BY <2>1, <2>2, <2>3
<1>7. HolderPrevails'
  <2> SUFFICES ASSUME NEW h, h = holder', h # NoLocal
               PROVE  /\ focused' = byLocal'[h] \/ At("focus", h)' # {}
                      /\ \A l \in Locals, i \in (DOMAIN events)' :
                           (i \in At("focus", l)' /\ l # h) \/ i \in At("focus-lost", h)' =>
                              \E j \in At("focus", h)' : i < j
    BY DEF HolderPrevails
  <2>1. /\ focused = byLocal[holder] \/ At("focus", holder) # {}
        /\ \A l \in Locals, i \in DOMAIN events :
             (i \in At("focus", l) /\ l # holder) \/ i \in At("focus-lost", holder) =>
                \E j \in At("focus", holder) : i < j
    BY <1>6 DEF FocusInv, HolderPrevails
  <2>2. focused = byLocal[holder] => focused' = focused
    BY <1>1, <1>6 DEF FocusWithout
  <2> QED
    BY <1>1, <1>2, <1>6, <2>1, <2>2
<1>8. OthersLose'
  <2> SUFFICES ASSUME NEW l \in alive' \ {holder'}
               PROVE  /\ focused' = byLocal'[l] => At("focus-lost", l)' # {}
                      /\ \A i \in At("focus", l)' : \E j \in At("focus-lost", l)' : i < j
    BY DEF OthersLose
  <2>1. CASE l \in alive /\ l # windows[w] /\ byLocal'[l] = byLocal[l]
    <3>1. l # holder
      BY <1>1, <2>1
    <3>2. /\ focused = byLocal[l] => At("focus-lost", l) # {}
          /\ \A i \in At("focus", l) : \E j \in At("focus-lost", l) : i < j
      BY <2>1, <3>1 DEF FocusInv, OthersLose
    <3>3. byLocal[l] # NoWid
      BY <2>1 DEF MapsAgree
    <3> QED
      BY <1>2, <1>4, <2>1, <3>2, <3>3
  <2>2. CASE l = created + 1 /\ byLocal'[l] = w
    BY <1>2, <1>4, <1>5, <2>2
  <2> QED
    BY <1>3, <2>1, <2>2
<1> QED
  BY <1>7, <1>8

\* Every step keeps the focus invariant.
LEMMA FocusInductive ==
  TypeOK /\ OnlyCreated /\ MapsAgree /\ FocusInv /\ [Next]_vars => FocusInv'
<1> SUFFICES ASSUME TypeOK, OnlyCreated, MapsAgree, FocusInv, [Next]_vars
             PROVE  FocusInv'
  OBVIOUS
<1> USE DEF clientVars, timerVars, desktopVars, toldVars
<1>0. alive \subseteq Locals /\ holder \in alive \cup {NoLocal} /\ events \in Seq(Event)
  BY DEF TypeOK
<1>1. ASSUME UNCHANGED <<byLocal, holder, alive, focused, events>>
      PROVE  HolderPrevails' /\ OthersLose'
  <2>1. \A type, l : At(type, l)' = At(type, l)
    BY <1>1 DEF At
  <2> QED
    BY <1>0, <1>1, <2>1, FocusQuiet DEF FocusInv
<1>2. ASSUME NEW e \in Event, e.type = "minimized", events' = Append(events, e),
             UNCHANGED <<byLocal, holder, alive, focused>>
      PROVE  HolderPrevails' /\ OthersLose'
  <2>1. \A l : /\ At("focus", l)' = At("focus", l)
               /\ At("focus-lost", l)' = At("focus-lost", l)
    BY <1>0, <1>2, AppendNews
  <2> QED
    BY <1>0, <1>2, <2>1, FocusQuiet DEF FocusInv
<1>3. ASSUME UNCHANGED <<focusLosing, focusTimer, focusLostDue, focused, toldFocus>>
      PROVE  ToldInTime'
  BY <1>3 DEF FocusInv, ToldInTime
<1>4. ASSUME NEW w \in Wids,
             LostWindow(w) \/ \E iconic \in {"absent", "iconic", "normal"}, made \in BOOLEAN :
                                NewWindow(w, iconic, made)
      PROVE  FocusInv'
  <2>1. HolderPrevails' /\ OthersLose'
    BY <1>4, FocusRebound
  <2>2. ToldInTime'
    BY <1>4 DEF LostWindow, NewWindow, FocusWithout, FocusInv, ToldInTime
  <2> QED
    BY <2>1, <2>2 DEF FocusInv
<1>5. ASSUME NEW w \in Wids, NEW b \in BOOLEAN, Metadata(w, b) PROVE FocusInv'
  BY <1>1, <1>3, <1>5 DEF Metadata, FocusInv
<1>6. ASSUME NEW b \in BOOLEAN, ShowDesktop(b) PROVE FocusInv'
  BY <1>1, <1>3, <1>6 DEF ShowDesktop, FocusInv
<1>7. CASE CarryOut
  <2> DEFINE ask == Head(requests)
             e == Minimized(ask.local, ask.minimize, ask.why)
  <2>1. e \in Event /\ e.type = "minimized"
    <3>1. ask \in Request
      BY <1>7, TailItems DEF CarryOut, TypeOK
    <3> QED
      BY <3>1, Messages, MessageFields DEF Minimized
  <2>2. UNCHANGED events \/ events' = Append(events, e)
    BY <1>7 DEF CarryOut
  <2>3. UNCHANGED <<byLocal, holder, alive, focusLosing, focusTimer, focusLostDue, focused, toldFocus>>
    BY <1>7 DEF CarryOut
  <2> HIDE DEF e
  <2> QED
    BY <1>1, <1>2, <1>3, <2>1, <2>2, <2>3 DEF FocusInv
<1>8. ASSUME NEW l \in Locals, UserMinimizes(l) \/ UserRestores(l) PROVE FocusInv'
  <2>1. \A b \in BOOLEAN : Minimized(l, b, "user") \in Event
                           /\ Minimized(l, b, "user").type = "minimized"
    BY Messages DEF Minimized
  <2>2. \E b \in BOOLEAN : events' = Append(events, Minimized(l, b, "user"))
    BY <1>8 DEF UserMinimizes, UserRestores
  <2>3. UNCHANGED <<byLocal, holder, alive, focusLosing, focusTimer, focusLostDue, focused, toldFocus>>
    BY <1>8 DEF UserMinimizes, UserRestores
  <2> QED
    BY <1>2, <1>3, <2>1, <2>2, <2>3 DEF FocusInv
<1>9. ASSUME NEW l \in Locals \cup {NoLocal}, FocusMoves(l) PROVE FocusInv'
  <2>1. HolderPrevails' /\ OthersLose'
    BY <1>9, FocusMoved
  <2> QED
    BY <1>3, <1>9, <2>1 DEF FocusMoves, FocusInv
<1>10. CASE IgnoreEvent
  <2>1. HolderPrevails' /\ OthersLose'
    BY <1>10, FocusTail DEF IgnoreEvent
  <2> QED
    BY <1>3, <1>10, <2>1 DEF IgnoreEvent, FocusInv
<1>11. CASE HandleMinimized
  <2>1. HolderPrevails' /\ OthersLose'
    BY <1>11, FocusTail DEF HandleMinimized, Take
  <2> QED
    BY <1>3, <1>11, <2>1 DEF HandleMinimized, FocusInv
<1>12. CASE HandleFocus
  <2>1. HolderPrevails' /\ OthersLose'
    BY <1>12, FocusTail DEF HandleFocus, Take
  <2>2. ToldInTime'
    BY <1>12 DEF HandleFocus, FocusInv, ToldInTime
  <2> QED
    BY <2>1, <2>2 DEF FocusInv
<1>13. CASE HandleFocusLost
  <2>1. HolderPrevails' /\ OthersLose'
    BY <1>13, FocusTail DEF HandleFocusLost, Take
  <2>2. ToldInTime'
    BY <1>13 DEF HandleFocusLost, FocusInv, ToldInTime, TypeOK
  <2> QED
    BY <2>1, <2>2 DEF FocusInv
<1>14. CASE \/ \E w \in Wids : IconifyExpires(w)
            \/ SendIconified
            \/ UNCHANGED vars
  <2>1. UNCHANGED <<byLocal, holder, alive, events, focusLosing, focusTimer, focusLostDue,
                    focused, toldFocus>>
    BY <1>14 DEF IconifyExpires, SendIconified, vars
  <2> QED
    BY <1>1, <1>3, <2>1 DEF FocusInv
<1>15. CASE FocusExpires
  <2>1. ToldInTime'
    BY <1>15 DEF FocusExpires, FocusInv, ToldInTime
  <2> QED
    BY <1>1, <1>15, <2>1 DEF FocusExpires, FocusInv
<1>16. CASE SendFocusLost
  <2>1. ToldInTime'
    BY <1>16 DEF SendFocusLost, FocusInv, ToldInTime
  <2> QED
    BY <1>1, <1>16, <2>1 DEF SendFocusLost, FocusInv
<1> QED
  BY <1>4, <1>5, <1>6, <1>7, <1>8, <1>9, <1>10, <1>11, <1>12, <1>13, <1>14, <1>15, <1>16 DEF Next

\* Whatever order the desktop tells the loser and the gainer in, and whatever
\* windows come and go meanwhile: once the queue and the timer have run out,
\* the client and the server know which window has the focus.
THEOREM FocusSettles == Spec => []FocusAgreesWhenSettled
<1>1. Init => FocusInv
  BY DEF Init, FocusInv, HolderPrevails, OthersLose, ToldInTime, At
<1>2. TypeOK /\ MapsAgree /\ NothingOutlivesItsWindow /\ FocusInv => FocusAgreesWhenSettled
  <2> SUFFICES ASSUME TypeOK, MapsAgree, NothingOutlivesItsWindow, FocusInv, Settled
               PROVE  focused = IF holder = NoLocal THEN NoWid ELSE byLocal[holder]
    BY DEF FocusAgreesWhenSettled, FocusInv, ToldInTime, Settled
  <2>1. \A type, l : At(type, l) = {}
    BY DEF Settled, At
  <2>2. CASE holder # NoLocal
    BY <2>1, <2>2 DEF FocusInv, HolderPrevails
  <2>3. CASE holder = NoLocal
    <3>1. \A l \in alive : l # NoLocal => focused # byLocal[l]
      BY <2>1, <2>3 DEF FocusInv, OthersLose
    <3>2. focused = NoWid
      BY <3>1 DEF NothingOutlivesItsWindow, MapsAgree, TypeOK
    <3> QED
      BY <2>3, <3>2
  <2> QED
    BY <2>2, <2>3
<1> QED
  BY <1>1, <1>2, FocusInductive, WellFormed, NothingIsInherited, PTL DEF Spec

-----------------------------------------------------------------------------
(* Minimized windows. *)

IconicInv == NewsIsTrue /\ ServerFollows

\* What is known of a window whose state and news a step leaves alone.
LEMMA NewsKept ==
  ASSUME NEW w, NEW l, KnowsTrue(w, l), iconified'[w] = iconified[w],
         l \in minimized' <=> l \in minimized,
         At("minimized", l)' = At("minimized", l),
         \A i \in At("minimized", l) : events'[i] = events[i]
  PROVE  KnowsTrue(w, l)'
BY DEF KnowsTrue

\* What is known of a window when the oldest event has been handled.
LEMMA NewsHandled ==
  ASSUME NEW w, NEW l, KnowsTrue(w, l), events \in Seq(Event), events # <<>>,
         events' = Tail(events), UNCHANGED minimized,
         IF Head(events).type = "minimized" /\ Head(events).local = l
         THEN iconified'[w] <=> Head(events).value
         ELSE iconified'[w] <=> iconified[w]
  PROVE  KnowsTrue(w, l)'
<1> DEFINE news == At("minimized", l)
           left == At("minimized", l)'
<1>1. /\ \A i \in left : i \in Nat \ {0} /\ i + 1 \in news /\ events'[i] = events[i + 1]
      /\ \A i \in news : i \in Nat /\ (i # 1 => i - 1 \in left)
      /\ 1 \in news <=> Head(events).type = "minimized" /\ Head(events).local = l
  BY TailNews
<1>2. Head(events) = events[1]
  BY TailItems
<1>3. SUFFICES \/ left = {} /\ (iconified'[w] <=> l \in minimized)
               \/ \E i \in left : (\A j \in left : j <= i) /\ (events'[i].value <=> l \in minimized)
  BY DEF KnowsTrue
<1>4. CASE news = {} /\ (iconified[w] <=> l \in minimized)
  BY <1>1, <1>4
<1>5. CASE \E i \in news : (\A j \in news : j <= i) /\ (events[i].value <=> l \in minimized)
  <2>1. PICK i \in news : (\A j \in news : j <= i) /\ (events[i].value <=> l \in minimized)
    BY <1>5
  <2> HIDE DEF news, left
  <2>2. CASE i = 1
    <3>1. \A j \in left : j \in Nat \ {0} /\ j + 1 <= 1
      BY <1>1, <2>1, <2>2
    <3>2. left = {}
      BY <3>1
    <3> QED
      BY <1>1, <1>2, <2>1, <2>2, <3>2
  <2>3. CASE i # 1
    <3>1. i - 1 \in left /\ i \in Nat
      BY <1>1, <2>1, <2>3
    <3>2. \A j \in left : j <= i - 1
      <4> TAKE j \in left
      <4>1. j \in Nat /\ j + 1 <= i
        BY <1>1, <2>1
      <4> QED
        BY <3>1, <4>1
    <3>3. events'[i - 1] = events[i]
      <4>1. events'[i - 1] = events[(i - 1) + 1]
        BY <1>1, <3>1
      <4>2. (i - 1) + 1 = i
        BY <3>1
      <4> QED
        BY <4>1, <4>2
    <3> QED
      BY <2>1, <3>1, <3>2, <3>3
  <2> QED
    BY <2>2, <2>3
<1> QED
  BY <1>4, <1>5 DEF KnowsTrue

\* The news of a change is the last.
LEMMA NewsAdded ==
  ASSUME NEW w, NEW l \in Locals, NEW b \in BOOLEAN, NEW e \in Event,
         e.type = "minimized", e.local = l, e.value = b,
         events \in Seq(Event), events' = Append(events, e), l \in minimized' <=> b
  PROVE  /\ KnowsTrue(w, l)'
         /\ \E i \in At("minimized", l)' : events'[i].value <=> b
<1> DEFINE s == <<e>>
           n == Len(events) + 1
<1>1. s \in Seq(Event) /\ events' = events \o s /\ DOMAIN s = {1} /\ s[1] = e
  BY AppendItems
<1>2. Len(events) \in Nat
  OBVIOUS
<1> HIDE DEF s
<1>5. 1 \in DOMAIN s /\ s[1].type = "minimized" /\ s[1].local = l
  BY <1>1
<1>7. \A type, k, j : j \in DOMAIN s /\ s[j].type = type /\ s[j].local = k =>
        Len(events) + j \in At(type, k)'
  BY <1>1, ConcatNews
<1>8. \A j \in DOMAIN s : events'[Len(events) + j] = s[j]
  BY <1>1, ConcatItems
<1>6. /\ Len(events) + 1 \in At("minimized", l)'
      /\ events'[Len(events) + 1] = e
  BY <1>1, <1>5, <1>7, <1>8
<1>3. n \in At("minimized", l)' /\ events'[n] = e
  BY <1>6
<1>4. \A i \in At("minimized", l)' : i <= n
  <2> TAKE i \in At("minimized", l)'
  <2>1. i \in At("minimized", l) \/ \E j \in DOMAIN s : i = Len(events) + j
    BY <1>1, NewsOrigin
  <2>2. i \in At("minimized", l) => i \in Nat /\ i <= Len(events)
    BY <1>1, ConcatNews
  <2> QED
    BY <1>1, <1>2, <2>1, <2>2
<1> HIDE DEF n
<1> QED
  BY <1>3, <1>4 DEF KnowsTrue

\* The server still knows, or will still be told.
LEMMA AnswerKept ==
  ASSUME NEW w, Answered(w), serverIconic'[w] = serverIconic[w], iconified'[w] = iconified[w],
         toldIconic'[w] = toldIconic[w], ReportPending(w) => ReportPending(w)'
  PROVE  Answered(w)'
BY DEF Answered

\* What is on its way stays on its way while the queues only grow.
LEMMA ComingKept ==
  ASSUME NEW w, NEW l, Coming(w, l), serverIconic'[w] = serverIconic[w],
         \A i \in DOMAIN requests : i \in DOMAIN requests' /\ requests'[i] = requests[i],
         \A i \in At("minimized", l) : i \in At("minimized", l)' /\ events'[i] = events[i]
  PROVE  Coming(w, l)'
BY DEF Coming

\* What was on its way arrives when it is handled.
LEMMA ComingHandled ==
  ASSUME NEW w, NEW l, Coming(w, l), serverIconic'[w] = serverIconic[w], UNCHANGED requests,
         events \in Seq(Event), events # <<>>, events' = Tail(events)
  PROVE  \/ Coming(w, l)'
         \/ /\ Head(events).type = "minimized" /\ Head(events).local = l
            /\ serverIconic[w] = Iconic(Head(events).value)
<1>1. PICK b \in BOOLEAN :
        /\ serverIconic[w] = Iconic(b)
        /\ \/ \E i \in DOMAIN requests : requests[i].local = l /\ (requests[i].minimize <=> b)
           \/ \E i \in At("minimized", l) : events[i].value <=> b
  BY DEF Coming
<1>2. CASE \E i \in DOMAIN requests : requests[i].local = l /\ (requests[i].minimize <=> b)
  BY <1>1, <1>2 DEF Coming
<1>3. CASE \E i \in At("minimized", l) : events[i].value <=> b
  <2>1. PICK i \in At("minimized", l) : events[i].value <=> b
    BY <1>3
  <2>2. CASE i = 1
    <3>1. Head(events) = events[1] /\ Head(events).type = "minimized" /\ Head(events).local = l
      BY <2>1, <2>2, TailItems DEF At
    <3>2. Iconic(Head(events).value) = Iconic(b)
      BY <2>1, <2>2, <3>1 DEF Iconic
    <3> QED
      BY <1>1, <3>1, <3>2
  <2>3. CASE i # 1
    <3>1. i - 1 \in At("minimized", l)' /\ i \in Nat
      BY <2>1, <2>3, TailNews
    <3>2. events'[i - 1] = events[i]
      BY <2>1, <2>3, TailItems DEF At
    <3> QED
      BY <1>1, <2>1, <3>1, <3>2 DEF Coming
  <2> QED
    BY <2>2, <2>3
<1> QED
  BY <1>1, <1>2, <1>3

\* The desktop changes a window's state and says so: the news of the others is
\* as it was.
LEMMA DesktopChanges ==
  ASSUME TypeOK, NewsIsTrue, UNCHANGED <<windows, iconified>>,
         NEW l \in Locals, NEW b \in BOOLEAN, NEW e \in Event,
         e.type = "minimized", e.local = l, e.value = b, events' = Append(events, e),
         minimized' = IF b THEN minimized \cup {l} ELSE minimized \ {l}
  PROVE  /\ NewsIsTrue'
         /\ \E i \in At("minimized", l)' : events'[i].value <=> b
         /\ \A k : \A i \in At("minimized", k) : i \in At("minimized", k)' /\ events'[i] = events[i]
<1>1. events \in Seq(Event) /\ (l \in minimized' <=> b)
  BY DEF TypeOK
<1>2. /\ \A w : KnowsTrue(w, l)'
      /\ \E i \in At("minimized", l)' : events'[i].value <=> b
  <2>1. \A w : KnowsTrue(w, l)'
    <3> TAKE w
    <3> QED
      BY <1>1, NewsAdded
  <2>2. \E i \in At("minimized", l)' : events'[i].value <=> b
    BY <1>1, NewsAdded
  <2> QED
    BY <2>1, <2>2
<1>3. \A k : k # l => /\ At("minimized", k)' = At("minimized", k)
                      /\ \A i \in At("minimized", k) : events'[i] = events[i]
  <2> TAKE k
  <2> HAVE k # l
  <2>1. ~(e.type = "minimized" /\ e.local = k)
    OBVIOUS
  <2>2. e \in Event /\ events' = Append(events, e)
    OBVIOUS
  <2> QED
    BY ONLY <1>1, <2>1, <2>2, AppendNews
<1>4. \A k : k # l => (k \in minimized' <=> k \in minimized)
  OBVIOUS
<1>5. ASSUME NEW w \in Wids, NEW k \in Locals, windows[w] = k PROVE KnowsTrue(w, k)'
  <2>1. CASE k = l
    BY <1>2, <2>1
  <2>2. CASE k # l
    <3>1. KnowsTrue(w, k)
      BY <1>5 DEF NewsIsTrue
    <3> QED
      BY <1>3, <1>4, <2>2, <3>1, NewsKept
  <2> QED
    BY <2>1, <2>2
<1>6. \A k : \A i \in At("minimized", k) : i \in At("minimized", k)' /\ events'[i] = events[i]
  <2>1. events' = events \o <<e>> /\ <<e>> \in Seq(Event)
    BY <1>1, AppendItems
  <2> TAKE k
  <2> TAKE i \in At("minimized", k)
  <2>2. i \in At("minimized", k)'
    BY <1>1, <2>1, ConcatNews
  <2>3. events'[i] = events[i]
    BY <1>1, <2>1, ConcatItems DEF At
  <2> QED
    BY <2>2, <2>3
<1> QED
  BY <1>2, <1>5, <1>6 DEF NewsIsTrue

\* Every step keeps the invariant of the minimized windows.
LEMMA IconicInductive ==
  TypeOK /\ OnlyCreated /\ MapsAgree /\ IconicInv /\ [Next]_vars => IconicInv'
<1> SUFFICES ASSUME TypeOK, OnlyCreated, MapsAgree, IconicInv, [Next]_vars
             PROVE  IconicInv'
  OBVIOUS
<1> USE DEF clientVars, timerVars, desktopVars, toldVars
<1> DEFINE Follows(w, l) == Answered(w) \/ Coming(w, l)
<1>0. events \in Seq(Event) /\ requests \in Seq(Request)
  BY DEF TypeOK
<1>1. ASSUME NEW w \in Wids, NEW l \in Locals, windows[w] = l
      PROVE  KnowsTrue(w, l) /\ Follows(w, l) /\ byLocal[l] = w /\ l \in alive
  BY <1>1 DEF IconicInv, NewsIsTrue, ServerFollows, MapsAgree, Locals
<1>2. ASSUME \A w \in Wids, l \in Locals : windows'[w] = l => KnowsTrue(w, l)' /\ Follows(w, l)'
      PROVE  IconicInv'
  BY <1>2 DEF IconicInv, NewsIsTrue, ServerFollows
<1>3. ASSUME NEW w \in Wids, NEW l \in Locals, windows[w] = l,
             UNCHANGED events, iconified'[w] = iconified[w],
             l \in minimized' <=> l \in minimized
      PROVE  KnowsTrue(w, l)'
  <2>1. At("minimized", l)' = At("minimized", l)
    BY <1>3 DEF At
  <2> QED
    BY <1>1, <1>3, <2>1, NewsKept
<1>4. ASSUME NEW w \in Wids, NEW l \in Locals, windows[w] = l,
             UNCHANGED <<events, requests>>,
             serverIconic'[w] = serverIconic[w], iconified'[w] = iconified[w],
             toldIconic'[w] = toldIconic[w], ReportPending(w) => ReportPending(w)'
      PROVE  Follows(w, l)'
  <2>1. At("minimized", l)' = At("minimized", l)
    BY <1>4 DEF At
  <2> QED
    BY <1>1, <1>4, <2>1, AnswerKept, ComingKept
<1>5. ASSUME NEW w \in Wids,
             LostWindow(w) \/ \E iconic \in {"absent", "iconic", "normal"}, made \in BOOLEAN :
                                NewWindow(w, iconic, made)
      PROVE  IconicInv'
  <2>1. ASSUME NEW v \in Wids, NEW l \in Locals, windows'[v] = l, v # w
        PROVE  KnowsTrue(v, l)' /\ Follows(v, l)'
    <3>1. windows[v] = l
      BY <1>5, <2>1 DEF LostWindow, NewWindow, TypeOK
    <3>2. l # windows[w]
      BY <1>1, <2>1, <3>1
    <3>3. /\ UNCHANGED <<events, iconifyTimers, iconifyDue>>
          /\ iconified'[v] = iconified[v] /\ serverIconic'[v] = serverIconic[v]
          /\ toldIconic'[v] = toldIconic[v]
          /\ l \in minimized' <=> l \in minimized
      BY <1>5, <2>1, <3>2 DEF LostWindow, NewWindow, TypeOK
    <3>4. ReportPending(v) => ReportPending(v)'
      BY <3>3 DEF ReportPending
    <3>5. \A i \in DOMAIN requests : i \in DOMAIN requests' /\ requests'[i] = requests[i]
      <4>1. CASE UNCHANGED requests
        BY <4>1
      <4>2. CASE \E ask \in Request : requests' = Append(requests, ask)
        BY <1>0, <4>2
      <4>3. ASSUME NEW iconic \in {"absent", "iconic", "normal"}, NEW made \in BOOLEAN,
                   NewWindow(w, iconic, made)
            PROVE  \/ UNCHANGED requests
                   \/ \E ask \in Request : requests' = Append(requests, ask)
        <5>1. created + 1 \in Locals
          BY <4>3 DEF NewWindow, TypeOK, Locals
        <5>2. Ask(created + 1, iconic = "iconic", "iconic") \in Request
          BY <5>1, Messages
        <5> QED
          BY <4>3, <5>2 DEF NewWindow
      <4> QED
        BY <1>5, <4>1, <4>2, <4>3 DEF LostWindow
    <3>6. \A i \in At("minimized", l) : i \in At("minimized", l)' /\ events'[i] = events[i]
      BY <3>3 DEF At
    <3> QED
      BY <1>1, <1>3, <3>1, <3>3, <3>4, <3>5, <3>6, AnswerKept, ComingKept
  <2>2. ASSUME NEW l \in Locals, windows'[w] = l
        PROVE  KnowsTrue(w, l)' /\ Follows(w, l)'
    <3>1. l # NoLocal
      BY DEF Locals
    <3>2. PICK iconic \in {"absent", "iconic", "normal"}, made \in BOOLEAN : NewWindow(w, iconic, made)
      BY <1>5, <2>2, <3>1 DEF LostWindow, TypeOK
    <3>3. l = created + 1 /\ created \in Nat
      BY <2>2, <3>1, <3>2 DEF NewWindow, TypeOK
    <3>4. At("minimized", l)' = {}
      BY <3>2, <3>3 DEF At, OnlyCreated, NewWindow
    <3>5. ~iconified'[w] /\ ~toldIconic'[w] /\ l \notin minimized'
      BY <3>2, <3>3 DEF NewWindow, TypeOK, OnlyCreated
    <3> QED
      BY <3>4, <3>5 DEF KnowsTrue, Answered
  <2> QED
    BY <1>2, <2>1, <2>2
<1>6. ASSUME NEW w \in Wids, NEW b \in BOOLEAN, Metadata(w, b) PROVE IconicInv'
  <2> DEFINE ask == Ask(windows[w], b, "iconic")
  <2>1. ask \in Request /\ ask.local = windows[w] /\ ask.minimize = b
    BY <1>6, Messages DEF Metadata, TypeOK, Ask
  <2>2. requests' = Append(requests, ask)
    BY <1>6 DEF Metadata
  <2> HIDE DEF ask
  <2>3. /\ \A i \in DOMAIN requests : i \in DOMAIN requests' /\ requests'[i] = requests[i]
        /\ Len(requests) + 1 \in DOMAIN requests' /\ requests'[Len(requests) + 1] = ask
    BY <1>0, <2>1, <2>2
  <2> SUFFICES ASSUME NEW v \in Wids, NEW l \in Locals, windows'[v] = l
               PROVE  KnowsTrue(v, l)' /\ Follows(v, l)'
    BY <1>2
  <2>4. windows[v] = l /\ UNCHANGED <<events, iconified, minimized, toldIconic, iconifyTimers, iconifyDue>>
    BY <1>6 DEF Metadata
  <2>5. KnowsTrue(v, l)'
    BY <1>3, <2>4
  <2>6. CASE v = w
    <3>1. serverIconic'[w] = Iconic(b)
      BY <1>6 DEF Metadata, TypeOK
    <3>2. \E i \in DOMAIN requests' : requests'[i].local = l /\ (requests'[i].minimize <=> b)
      BY <2>1, <2>3, <2>4, <2>6
    <3>3. Coming(v, l)'
      BY <2>6, <3>1, <3>2 DEF Coming
    <3> QED
      BY <2>5, <3>3
  <2>7. CASE v # w
    <3>1. serverIconic'[v] = serverIconic[v]
      BY <1>6, <2>7 DEF Metadata, TypeOK
    <3>2. \A i \in At("minimized", l) : i \in At("minimized", l)' /\ events'[i] = events[i]
      BY <2>4 DEF At
    <3>3. ReportPending(v) => ReportPending(v)'
      BY <2>4 DEF ReportPending
    <3> QED
      BY <1>1, <2>3, <2>4, <2>5, <3>1, <3>2, <3>3, AnswerKept, ComingKept
  <2> QED
    BY <2>6, <2>7
<1>7. ASSUME NEW b \in BOOLEAN, ShowDesktop(b) PROVE IconicInv'
  <2>1. PICK order \in SetToSeqs({windows[w] : w \in Wids} \ {NoLocal}) :
          requests' = requests \o [i \in DOMAIN order |-> Ask(order[i], b, "show-desktop")]
    BY <1>7 DEF ShowDesktop
  <2> DEFINE asks == [i \in DOMAIN order |-> Ask(order[i], b, "show-desktop")]
  <2>2. asks \in Seq(Request) /\ requests' = requests \o asks
    BY <2>1, ShowDesktopAsks
  <2> HIDE DEF asks
  <2>3. \A i \in DOMAIN requests : i \in DOMAIN requests' /\ requests'[i] = requests[i]
    BY <1>0, <2>2, ConcatItems
  <2> SUFFICES ASSUME NEW v \in Wids, NEW l \in Locals, windows'[v] = l
               PROVE  KnowsTrue(v, l)' /\ Follows(v, l)'
    BY <1>2
  <2>4. windows[v] = l /\ UNCHANGED <<events, iconified, minimized, toldIconic, serverIconic,
                                      iconifyTimers, iconifyDue>>
    BY <1>7 DEF ShowDesktop
  <2>5. \A i \in At("minimized", l) : i \in At("minimized", l)' /\ events'[i] = events[i]
    BY <2>4 DEF At
  <2>6. ReportPending(v) => ReportPending(v)'
    BY <2>4 DEF ReportPending
  <2> QED
    BY <1>1, <1>3, <2>3, <2>4, <2>5, <2>6, AnswerKept, ComingKept
<1>8. ASSUME NEW l \in Locals, UserMinimizes(l) \/ UserRestores(l) PROVE IconicInv'
  <2>1. PICK b \in BOOLEAN :
          /\ events' = Append(events, Minimized(l, b, "user"))
          /\ minimized' = IF b THEN minimized \cup {l} ELSE minimized \ {l}
    BY <1>8 DEF UserMinimizes, UserRestores
  <2>2. /\ Minimized(l, b, "user") \in Event
        /\ Minimized(l, b, "user").type = "minimized"
        /\ Minimized(l, b, "user").local = l /\ Minimized(l, b, "user").value = b
    BY Messages DEF Minimized
  <2>3. UNCHANGED <<windows, iconified, serverIconic, requests, toldIconic, iconifyTimers, iconifyDue>>
    BY <1>8 DEF UserMinimizes, UserRestores
  <2>4. /\ NewsIsTrue'
        /\ \A k : \A i \in At("minimized", k) : i \in At("minimized", k)' /\ events'[i] = events[i]
    BY <2>1, <2>2, <2>3, DesktopChanges DEF IconicInv
  <2>5. ASSUME NEW v \in Wids, NEW k \in Locals, windows'[v] = k
        PROVE  Follows(v, k)'
    <3>1. ReportPending(v) => ReportPending(v)'
      BY <2>3 DEF ReportPending
    <3> QED
      BY <1>1, <2>3, <2>4, <2>5, <3>1, AnswerKept, ComingKept
  <2> QED
    BY <2>4, <2>5 DEF IconicInv, ServerFollows
<1>9. CASE CarryOut
  <2>1. PICK m \in Locals, b \in BOOLEAN, why \in {"iconic", "show-desktop"} :
          Head(requests) = [local |-> m, minimize |-> b, why |-> why]
    <3>1. Head(requests) \in Request
      BY <1>0, <1>9, TailItems DEF CarryOut
    <3> QED
      BY <3>1 DEF Request
  <2>2. /\ requests[1].local = m /\ requests[1].minimize = b
        /\ \A i \in DOMAIN requests : i = 1 \/ (i - 1 \in DOMAIN requests'
                                                /\ requests'[i - 1] = requests[i])
    BY <1>0, <1>9, <2>1, TailItems DEF CarryOut
  <2>3. UNCHANGED <<windows, iconified, serverIconic, toldIconic, iconifyTimers, iconifyDue>>
    BY <1>9 DEF CarryOut
  <2>4. ASSUME \A k : \A i \in At("minimized", k) : i \in At("minimized", k)' /\ events'[i] = events[i],
               NEW v \in Wids, NEW l \in Locals, windows[v] = l,
               l = m => \/ serverIconic[v] = Iconic(b) => Answered(v)
                        \/ \E i \in At("minimized", l)' : events'[i].value <=> b
        PROVE  Follows(v, l)'
    <3>1. Answered(v) => Answered(v)'
      <4>1. ReportPending(v) => ReportPending(v)'
        BY <2>3 DEF ReportPending
      <4> QED
        BY <2>3, <4>1, AnswerKept
    <3>2. ASSUME Coming(v, l) PROVE Coming(v, l)' \/ Answered(v)
      <4>1. PICK c \in BOOLEAN :
              /\ serverIconic[v] = Iconic(c)
              /\ \/ \E i \in DOMAIN requests : requests[i].local = l /\ (requests[i].minimize <=> c)
                 \/ \E i \in At("minimized", l) : events[i].value <=> c
        BY <3>2 DEF Coming
      <4>2. CASE \E i \in At("minimized", l) : events[i].value <=> c
        BY <2>3, <2>4, <4>1, <4>2 DEF Coming
      <4>3. CASE \E i \in DOMAIN requests : requests[i].local = l /\ (requests[i].minimize <=> c)
        <5>1. PICK i \in DOMAIN requests : requests[i].local = l /\ (requests[i].minimize <=> c)
          BY <4>3
        <5>2. CASE i # 1
          BY <2>2, <2>3, <4>1, <5>1, <5>2 DEF Coming
        <5>3. CASE i = 1
          <6>1. l = m /\ c = b
            BY <2>2, <5>1, <5>3
          <6> QED
            BY <2>3, <2>4, <4>1, <6>1 DEF Coming
        <5> QED
          BY <5>2, <5>3
      <4> QED
        BY <4>1, <4>2, <4>3
    <3> QED
      BY <1>1, <2>4, <3>1, <3>2
  <2>5. CASE m \in alive /\ b # (m \in minimized)
    <3> DEFINE e == Minimized(m, b, why)
    <3>1. /\ e \in Event /\ e.type = "minimized" /\ e.local = m /\ e.value = b
      BY Messages DEF Minimized
    <3>2. /\ events' = Append(events, e)
          /\ minimized' = IF b THEN minimized \cup {m} ELSE minimized \ {m}
      BY <1>9, <2>1, <2>5 DEF CarryOut
    <3> HIDE DEF e
    <3>3. /\ NewsIsTrue'
          /\ \E i \in At("minimized", m)' : events'[i].value <=> b
          /\ \A k : \A i \in At("minimized", k) : i \in At("minimized", k)' /\ events'[i] = events[i]
      BY <2>3, <3>1, <3>2, DesktopChanges DEF IconicInv
    <3>4. ASSUME NEW v \in Wids, NEW l \in Locals, windows'[v] = l PROVE Follows(v, l)'
      BY <2>3, <2>4, <3>3, <3>4
    <3> QED
      BY <3>3, <3>4 DEF IconicInv, ServerFollows
  <2>6. CASE ~(m \in alive /\ b # (m \in minimized))
    <3>1. UNCHANGED <<minimized, events>>
      BY <1>9, <2>1, <2>6 DEF CarryOut
    <3>2. \A k : At("minimized", k)' = At("minimized", k)
      BY <3>1 DEF At
    <3> SUFFICES ASSUME NEW v \in Wids, NEW l \in Locals, windows'[v] = l
                 PROVE  KnowsTrue(v, l)' /\ Follows(v, l)'
      BY <1>2
    <3>3. windows[v] = l /\ KnowsTrue(v, l)'
      BY <1>3, <2>3, <3>1
    <3>4. ASSUME l = m
          PROVE  \/ serverIconic[v] = Iconic(b) => Answered(v)
                 \/ \E i \in At("minimized", l)' : events'[i].value <=> b
      <4>1. b <=> l \in minimized
        BY <1>1, <2>6, <3>3, <3>4
      <4>2. KnowsTrue(v, l)
        BY <1>1, <3>3
      <4>3. CASE iconified[v] <=> l \in minimized
        <5>1. Iconic(iconified[v]) = Iconic(b)
          BY <4>1, <4>3 DEF Iconic
        <5> QED
          BY <5>1 DEF Answered
      <4>4. CASE \E i \in At("minimized", l) : events[i].value <=> l \in minimized
        BY <3>1, <3>2, <4>1, <4>4
      <4> QED
        BY <4>2, <4>3, <4>4 DEF KnowsTrue
    <3>5. Follows(v, l)'
      <4>1. \A k : \A i \in At("minimized", k) : i \in At("minimized", k)' /\ events'[i] = events[i]
        BY <3>1, <3>2
      <4> QED
        BY <2>4, <3>3, <3>4, <4>1
    <3> QED
      BY <3>3, <3>5
  <2> QED
    BY <2>5, <2>6
<1>10. ASSUME NEW l \in Locals \cup {NoLocal}, FocusMoves(l) PROVE IconicInv'
  <2>1. PICK s \in Seq(Event) :
          /\ events' = events \o s
          /\ \A i \in DOMAIN s : \/ l # NoLocal /\ s[i] = Focus(l)
                                 \/ holder # NoLocal /\ s[i] = FocusLost(holder)
    BY <1>10, FocusNews
  <2>2. \A i \in DOMAIN s : s[i].type # "minimized"
    BY <2>1 DEF Focus, FocusLost
  <2>3. \A k : At("minimized", k) \subseteq At("minimized", k)'
    BY <1>0, <2>1, ConcatNews
  <2>4. \A k : \A i \in At("minimized", k)' :
          i \in At("minimized", k) \/ \E j \in DOMAIN s : s[j].type = "minimized"
    BY <1>0, <2>1, ConcatNews
  <2>5. \A k : At("minimized", k)' = At("minimized", k)
    <3> TAKE k
    <3>1. At("minimized", k)' \subseteq At("minimized", k)
      BY <2>2, <2>4
    <3> QED
      BY <2>3, <3>1
  <2>6. \A k : \A i \in At("minimized", k) : events'[i] = events[i]
    BY <1>0, <2>1, ConcatItems DEF At
  <2> SUFFICES ASSUME NEW v \in Wids, NEW k \in Locals, windows'[v] = k
               PROVE  KnowsTrue(v, k)' /\ Follows(v, k)'
    BY <1>2
  <2>7. windows[v] = k /\ UNCHANGED <<requests, iconified, minimized, toldIconic, serverIconic,
                                      iconifyTimers, iconifyDue>>
    BY <1>10 DEF FocusMoves
  <2>8. KnowsTrue(v, k)'
    BY <1>1, <2>5, <2>6, <2>7, NewsKept
  <2>9. ReportPending(v) => ReportPending(v)'
    BY <2>7 DEF ReportPending
  <2> QED
    BY <1>1, <2>5, <2>6, <2>7, <2>8, <2>9, AnswerKept, ComingKept
<1>11. ASSUME events # <<>>, events' = Tail(events), UNCHANGED <<windows, minimized, requests, serverIconic>>,
              \A v \in Wids, l \in Locals : windows[v] = l =>
                IF Head(events).type = "minimized" /\ Head(events).local = l
                THEN iconified'[v] <=> Head(events).value
                ELSE iconified'[v] <=> iconified[v],
              \A v \in Wids, l \in Locals : windows[v] = l =>
                \/ Answered(v)'
                \/ /\ Answered(v) => Answered(v)'
                   /\ Head(events).type = "minimized" /\ Head(events).local = l
                        => serverIconic[v] # Iconic(Head(events).value)
       PROVE  IconicInv'
  <2> SUFFICES ASSUME NEW v \in Wids, NEW l \in Locals, windows'[v] = l
               PROVE  KnowsTrue(v, l)' /\ Follows(v, l)'
    BY <1>2
  <2>1. windows[v] = l
    BY <1>11
  <2>2. KnowsTrue(v, l)'
    BY <1>0, <1>1, <1>11, <2>1, NewsHandled
  <2>3. Coming(v, l) => \/ Coming(v, l)'
                        \/ /\ Head(events).type = "minimized" /\ Head(events).local = l
                           /\ serverIconic[v] = Iconic(Head(events).value)
    BY <1>0, <1>11, ComingHandled
  <2> QED
    BY <1>1, <1>11, <2>1, <2>2, <2>3
<1>12. ASSUME events # <<>>
       PROVE  /\ Head(events) \in Event /\ Head(events).local \in Locals
              /\ Head(events).type = "minimized" => Head(events).value \in BOOLEAN
  BY <1>0, <1>12, TailItems, MessageFields
<1>13. CASE IgnoreEvent
  <2>1. /\ events # <<>> /\ ~ActedOn(Head(events)) /\ events' = Tail(events)
        /\ UNCHANGED <<windows, minimized, requests, serverIconic, iconified, toldIconic,
                       iconifyTimers, iconifyDue>>
    BY <1>13 DEF IgnoreEvent
  <2>2. \A v : Answered(v) => Answered(v)'
    BY <2>1 DEF Answered, ReportPending
  <2>3. ASSUME NEW v \in Wids, NEW l \in Locals, windows[v] = l,
               Head(events).type = "minimized", Head(events).local = l
        PROVE  iconified[v] = Head(events).value
    <3>1. byLocal[l] = v
      BY <1>1, <2>3
    <3>2. v # NoWid
      OBVIOUS
    <3> QED
      BY <2>1, <2>3, <3>1, <3>2 DEF ActedOn, Known, ChangesSomething
  <2>4. ASSUME NEW v \in Wids, NEW l \in Locals, windows[v] = l
        PROVE  \/ Answered(v)'
               \/ /\ Answered(v) => Answered(v)'
                  /\ Head(events).type = "minimized" /\ Head(events).local = l
                       => serverIconic[v] # Iconic(Head(events).value)
    <3>1. CASE Head(events).type = "minimized" /\ Head(events).local = l
               /\ serverIconic[v] = Iconic(Head(events).value)
      <4>1. Answered(v)
        BY <2>3, <2>4, <3>1 DEF Answered
      <4> QED
        BY <2>2, <4>1
    <3> QED
      BY <2>2, <3>1
  <2>5. ASSUME NEW v \in Wids, NEW l \in Locals, windows[v] = l
        PROVE  IF Head(events).type = "minimized" /\ Head(events).local = l
               THEN iconified'[v] <=> Head(events).value
               ELSE iconified'[v] <=> iconified[v]
    BY <2>1, <2>3, <2>5
  <2> QED
    BY <1>11, <2>1, <2>4, <2>5
<1>14. CASE HandleMinimized
  <2>1. /\ events # <<>> /\ events' = Tail(events) /\ Head(events).type = "minimized"
        /\ UNCHANGED <<windows, minimized, requests, serverIconic, iconifyDue>>
    BY <1>14 DEF HandleMinimized, Take
  <2>2. PICK w \in Wids, m \in Locals, b \in BOOLEAN :
          /\ Head(events).local = m /\ byLocal[m] = w /\ windows[w] = m /\ Head(events).value = b
    BY <1>12, <1>14, <2>1 DEF HandleMinimized, Take, ActedOn, Known, MapsAgree, TypeOK
  <2>3. /\ iconified' = [iconified EXCEPT ![w] = b]
        /\ iconifyTimers' = IF b /\ ~AsTheServerAsked(w, TRUE)
                            THEN [iconifyTimers EXCEPT ![w] = @ + 1]
                            ELSE iconifyTimers
        /\ toldIconic' = IF ~b /\ ~AsTheServerAsked(w, FALSE) THEN [toldIconic EXCEPT ![w] = FALSE]
                                                           ELSE toldIconic
    BY <1>14, <2>2 DEF HandleMinimized, ReportsRestore
  <2>4. Answered(w)'
    <3>1. iconified'[w] = b
      BY <2>3 DEF TypeOK
    <3>2. CASE AsTheServerAsked(w, b)
      BY <2>1, <3>1, <3>2 DEF AsTheServerAsked, Answered
    <3>3. CASE ~AsTheServerAsked(w, b) /\ b
      <4>1. iconifyTimers'[w] > 0
        BY <2>3, <3>3 DEF TypeOK
      <4> QED
        BY <3>1, <3>3, <4>1 DEF Answered, ReportPending
    <3>4. CASE ~AsTheServerAsked(w, b) /\ ~b
      <4>1. ~toldIconic'[w]
        BY <2>3, <3>4 DEF TypeOK
      <4> QED
        BY <3>1, <3>4, <4>1 DEF Answered
    <3> QED
      BY <3>2, <3>3, <3>4
  <2>5. ASSUME NEW v \in Wids, v # w
        PROVE  /\ iconified'[v] = iconified[v] /\ toldIconic'[v] = toldIconic[v]
               /\ iconifyTimers'[v] = iconifyTimers[v]
    BY <2>3, <2>5 DEF TypeOK
  <2>6. ASSUME NEW v \in Wids, v # w PROVE Answered(v) => Answered(v)'
    <3>1. ReportPending(v) => ReportPending(v)'
      BY <2>1, <2>5, <2>6 DEF ReportPending
    <3> QED
      BY <2>1, <2>5, <2>6, <3>1, AnswerKept
  <2>7. ASSUME NEW v \in Wids, NEW l \in Locals, windows[v] = l
        PROVE  l = m <=> v = w
    BY <1>1, <2>2, <2>7
  <2>8. ASSUME NEW v \in Wids, NEW l \in Locals, windows[v] = l
        PROVE  IF Head(events).type = "minimized" /\ Head(events).local = l
               THEN iconified'[v] <=> Head(events).value
               ELSE iconified'[v] <=> iconified[v]
    <3>1. iconified'[w] = b
      BY <2>3 DEF TypeOK
    <3> QED
      BY <2>1, <2>2, <2>5, <2>7, <2>8, <3>1
  <2>9. ASSUME NEW v \in Wids, NEW l \in Locals, windows[v] = l
        PROVE  \/ Answered(v)'
               \/ /\ Answered(v) => Answered(v)'
                  /\ Head(events).type = "minimized" /\ Head(events).local = l
                       => serverIconic[v] # Iconic(Head(events).value)
    BY <2>2, <2>4, <2>6, <2>7, <2>9
  <2> QED
    BY <1>11, <2>1, <2>8, <2>9
<1>15. CASE HandleFocus \/ HandleFocusLost
  <2>1. /\ events # <<>> /\ events' = Tail(events) /\ Head(events).type # "minimized"
        /\ UNCHANGED <<windows, minimized, requests, serverIconic, iconified, toldIconic,
                       iconifyTimers, iconifyDue>>
    BY <1>15 DEF HandleFocus, HandleFocusLost, Take
  <2>2. \A v : Answered(v) => Answered(v)'
    BY <2>1 DEF Answered, ReportPending
  <2> QED
    BY <1>11, <2>1, <2>2
<1>16. ASSUME UNCHANGED <<windows, minimized, requests, events, serverIconic, iconified>>,
              \A v \in Wids : Answered(v) => Answered(v)'
       PROVE  IconicInv'
  <2> SUFFICES ASSUME NEW v \in Wids, NEW l \in Locals, windows'[v] = l
               PROVE  KnowsTrue(v, l)' /\ Follows(v, l)'
    BY <1>2
  <2>1. windows[v] = l /\ KnowsTrue(v, l)'
    BY <1>3, <1>16
  <2>2. Coming(v, l) => Coming(v, l)'
    <3>1. At("minimized", l)' = At("minimized", l)
      BY <1>16 DEF At
    <3> QED
      BY <1>16, <3>1, ComingKept
  <2> QED
    BY <1>1, <1>16, <2>1, <2>2
<1>17. ASSUME NEW w \in Wids, IconifyExpires(w) PROVE IconicInv'
  <2>1. /\ UNCHANGED <<windows, minimized, requests, events, serverIconic, iconified, toldIconic>>
        /\ iconifyTimers' = [iconifyTimers EXCEPT ![w] = @ - 1]
        /\ iconifyDue' = Append(iconifyDue, w) /\ iconifyDue \in Seq(Wids)
    BY <1>17 DEF IconifyExpires, TypeOK
  <2>2. /\ \A i \in DOMAIN iconifyDue : i \in DOMAIN iconifyDue' /\ iconifyDue'[i] = iconifyDue[i]
        /\ \E i \in DOMAIN iconifyDue' : iconifyDue'[i] = w
    BY <2>1
  <2>3. ASSUME NEW v \in Wids, ReportPending(v) PROVE ReportPending(v)'
    <3>1. CASE v = w
      BY <2>2, <3>1 DEF ReportPending
    <3>2. CASE v # w
      <4>1. iconifyTimers'[v] = iconifyTimers[v]
        BY <2>1, <3>2 DEF TypeOK
      <4> QED
        BY <2>2, <2>3, <4>1 DEF ReportPending
    <3> QED
      BY <3>1, <3>2
  <2>4. \A v \in Wids : Answered(v) => Answered(v)'
    BY <2>1, <2>3, AnswerKept
  <2> QED
    BY <1>16, <2>1, <2>4
<1>18. CASE SendIconified
  <2>1. PICK w \in Wids : w = Head(iconifyDue)
    BY <1>18, TailItems DEF SendIconified, TypeOK
  <2>2. /\ UNCHANGED <<windows, minimized, requests, events, serverIconic, iconified, iconifyTimers>>
        /\ toldIconic' = IF StillIconified(w) THEN [toldIconic EXCEPT ![w] = TRUE] ELSE toldIconic
    BY <1>18, <2>1 DEF SendIconified
  <2>3. \A i \in DOMAIN iconifyDue : \/ iconifyDue[i] = w
                                     \/ i - 1 \in DOMAIN iconifyDue' /\ iconifyDue'[i - 1] = iconifyDue[i]
    BY <1>18, <2>1, TailItems DEF SendIconified, TypeOK
  <2>4. ASSUME NEW v \in Wids, v # w, ReportPending(v) PROVE ReportPending(v)'
    BY <2>2, <2>3, <2>4 DEF ReportPending
  <2>5. ASSUME NEW v \in Wids, v # w PROVE Answered(v) => Answered(v)'
    <3>1. toldIconic'[v] = toldIconic[v]
      BY <2>2, <2>5 DEF TypeOK
    <3> QED
      BY <2>2, <2>4, <2>5, <3>1, AnswerKept
  <2>6. Answered(w) => Answered(w)'
    <3>1. CASE StillIconified(w)
      <4>1. iconified'[w] /\ toldIconic'[w]
        BY <2>2, <3>1 DEF StillIconified, TypeOK
      <4> QED
        BY <4>1 DEF Answered
    <3>2. CASE ~iconified[w]
      BY <2>2, <3>2 DEF Answered, StillIconified
    <3>3. CASE iconified[w] /\ serverIconic[w] = "iconic"
      BY <2>2, <3>3 DEF Answered, Iconic
    <3> QED
      BY <3>1, <3>2, <3>3 DEF StillIconified
  <2> QED
    BY <1>16, <2>2, <2>5, <2>6
<1>19. CASE FocusExpires \/ SendFocusLost \/ UNCHANGED vars
  <2>1. UNCHANGED <<windows, minimized, requests, events, serverIconic, iconified, toldIconic,
                    iconifyTimers, iconifyDue>>
    BY <1>19 DEF FocusExpires, SendFocusLost, vars
  <2>2. \A v : Answered(v) => Answered(v)'
    BY <2>1 DEF Answered, ReportPending
  <2> QED
    BY <1>16, <2>1, <2>2
<1> QED
  BY <1>5, <1>6, <1>7, <1>8, <1>9, <1>10, <1>13, <1>14, <1>15, <1>17, <1>18, <1>19 DEF Next

\* However the user, the server and the timers interleave: once the queues and
\* the timers have run out, the client knows which windows are minimized, and
\* the server has been told of those that are not as it asked.
THEOREM IconicSettles == Spec => []IconicAgreesWhenSettled
<1>1. Init => IconicInv
  BY DEF Init, IconicInv, NewsIsTrue, ServerFollows, Locals
<1>2. TypeOK /\ IconicInv => IconicAgreesWhenSettled
  <2> SUFFICES ASSUME TypeOK, IconicInv, Settled, NEW w \in Wids, windows[w] # NoLocal
               PROVE  /\ iconified[w] = (windows[w] \in minimized)
                      /\ serverIconic[w] # Iconic(iconified[w]) => toldIconic[w] = iconified[w]
    BY DEF IconicAgreesWhenSettled
  <2> DEFINE l == windows[w]
  <2>1. l \in Locals
    BY DEF TypeOK
  <2>2. At("minimized", l) = {} /\ requests = <<>>
    BY DEF Settled, At
  <2>3. KnowsTrue(w, l) /\ (Answered(w) \/ Coming(w, l))
    BY <2>1 DEF IconicInv, NewsIsTrue, ServerFollows
  <2>4. iconified[w] <=> l \in minimized
    BY <2>2, <2>3 DEF KnowsTrue
  <2>5. ~Coming(w, l)
    BY <2>2 DEF Coming
  <2>6. ~ReportPending(w)
    BY DEF Settled, ReportPending
  <2>7. serverIconic[w] # Iconic(iconified[w]) => (toldIconic[w] <=> iconified[w])
    BY <2>3, <2>5, <2>6 DEF Answered
  <2>8. iconified[w] \in BOOLEAN /\ toldIconic[w] \in BOOLEAN
    BY DEF TypeOK
  <2> QED
    BY <2>4, <2>7, <2>8
<1> QED
  BY <1>1, <1>2, IconicInductive, WellFormed, PTL DEF Spec
=============================================================================
