---------------------------- MODULE X11Clipboard ----------------------------
(***************************************************************************)
(* x11/clipboard.go, the receiving half: text of the CLIPBOARD selection's *)
(* owner becomes a ClipboardChange.                                        *)
(*                                                                         *)
(* Every conversion is answered into the one property of the helper        *)
(* window, by whichever application owned the selection when the X server  *)
(* saw the request; by then another may own it.  The handlers' round trips *)
(* to the X server are part of the handler: what happens between two of    *)
(* them has the effect it has when it comes after the handler.             *)
(***************************************************************************)
EXTENDS Naturals, Sequences, Functions

CONSTANTS
  Copies,    \* copies other applications make, each by an application of its own
  Refusing,  \* those whose owner offers no UTF8_STRING
  Large,     \* those whose owner sends them in two increments
  Us, Nobody,
  MaxOwn     \* bound: SetText calls

\* What the constants have to satisfy.
X11ClipboardAssumption ==
  /\ Refusing \cup Large \subseteq Copies
  /\ Us # Nobody /\ {Us, Nobody} \cap Copies = {}
  /\ MaxOwn \in Nat

Nothing == [kind |-> "nothing", text |-> Nobody]

\* The events: SelectionNotify, the owner's change, a new property value, and
\* a conversion that we are asked for ourselves.
Converted == [type |-> "notify", ok |-> TRUE]
Declined == [type |-> "notify", ok |-> FALSE]
OwnerEvent(o) == [type |-> "owner", owner |-> o]
Value == [type |-> "value"]
Asked == [type |-> "request"]

VARIABLES
  owner,      \* the X server's selection owner
  unused,     \* copies not made yet
  asks,       \* conversions not answered: <<copy, target>>, oldest first
  property,   \* the helper window's property
  increment,  \* large copies under way: increments sent, and deletions of the
              \* property seen and not yet answered by another increment
  events,     \* X events the client has not handled
  requested,  \* clipboard.requested
  receiving, receiveData,
  reports,    \* history: the last ClipboardChange, Us before the first
  own,        \* history: SetText calls
  overtaken   \* history: since all was quiet, an application answered out of
              \* turn, or a copy was made while a large one was under way

ownerVars == <<owner, unused, own>>
clientVars == <<requested, receiving, receiveData, reports>>
vars == <<ownerVars, asks, property, increment, events, clientVars, overtaken>>

\* newClipboard asks for whatever is there.
Init ==
  /\ owner \in {Nobody} \cup Copies
  /\ unused = Copies \ {owner}
  /\ requested = "UTF8_STRING"
  /\ asks = IF owner = Nobody THEN <<>> ELSE <<<<owner, "UTF8_STRING">>>>
  /\ events = IF owner = Nobody THEN <<Declined>> ELSE <<>>
  /\ property = Nothing /\ increment = [c \in {} |-> 0]
  /\ receiving = FALSE /\ receiveData = <<>>
  /\ reports = Us /\ own = 0 /\ overtaken = FALSE

Emit(e) == events' = Append(events, e)
Written(kind, text) == [kind |-> kind, text |-> text]
Moving == DOMAIN increment

\* The texts, by their parts.
TextOf(o) == IF o = Nobody THEN <<>> ELSE IF o \in Large THEN <<o, o>> ELSE <<o>>

-----------------------------------------------------------------------------
(* The other applications, and the X server. *)

Quiet == asks = <<>> /\ events = <<>> /\ Moving = {}

\* Copy c is made before all of a large one arrived, or is large itself and
\* made before all that came before it is over.
Crosses(c) ==
  \/ Moving # {} \/ \E a \in Range(asks) : a[1] \in Large
  \/ c \in Large /\ ~(asks = <<>> /\ events = <<>>)

Copy(c) ==
  /\ c \in unused
  /\ owner' = c /\ unused' = unused \ {c}
  /\ overtaken' = (~Quiet /\ (overtaken \/ Crosses(c)))
  /\ Emit(OwnerEvent(c))
  /\ UNCHANGED <<own, asks, property, increment, clientVars>>

\* The owner's window or connection goes away, with what it had to answer.
OwnerVanishes ==
  /\ owner \in Copies
  /\ owner' = Nobody
  /\ asks' = SelectSeq(asks, LAMBDA a : a[1] # owner)
  /\ increment' = [c \in Moving \ {owner} |-> increment[c]]
  /\ overtaken' = (overtaken \/ asks' # <<>>)
  /\ Emit(OwnerEvent(Nobody))
  /\ UNCHANGED <<unused, own, property, clientVars>>

\* An application answers, whether or not it still owns the selection.
Answer(n) ==
  /\ n \in DOMAIN asks
  /\ asks' = SubSeq(asks, 1, n - 1) \o SubSeq(asks, n + 1, Len(asks))
  /\ overtaken' = (overtaken \/ n # 1)
  /\ LET c == asks[n][1]
         refuses == c \in Refusing /\ asks[n][2] = "UTF8_STRING"
     IN /\ property' = IF refuses THEN property
                       ELSE Written(IF c \in Large THEN "incr" ELSE "text", c)
        /\ increment' = IF c \in Large /\ ~refuses
                        THEN [x \in Moving \cup {c} |->
                                IF x = c THEN [sent |-> 0, deleted |-> 0] ELSE increment[x]]
                        ELSE increment
        /\ events' = IF refuses THEN Append(events, Declined)
                     ELSE events \o <<Value, Converted>>
  /\ UNCHANGED <<ownerVars, clientVars>>

\* The property was deleted: the next increment replaces what is there by now,
\* two with data and an empty one.
NextIncrement(c) ==
  /\ c \in Moving /\ increment[c].deleted > 0
  /\ IF increment[c].sent < 2
     THEN /\ property' = Written("part", c)
          /\ increment' = [increment EXCEPT ![c].sent = @ + 1, ![c].deleted = @ - 1]
     ELSE /\ property' = Written("end", c)
          /\ increment' = [x \in Moving \ {c} |-> increment[x]]
  /\ Emit(Value)
  /\ UNCHANGED <<ownerVars, asks, clientVars, overtaken>>

\* An application that lost the selection waits in vain for a deletion.
GiveUp(c) ==
  /\ c \in Moving \ {owner} /\ increment[c].deleted = 0
  /\ increment' = [x \in Moving \ {c} |-> increment[x]]
  /\ UNCHANGED <<ownerVars, asks, property, events, clientVars, overtaken>>

-----------------------------------------------------------------------------
(* The client. *)

SetText ==
  /\ own < MaxOwn
  /\ own' = own + 1
  /\ owner' = Us
  /\ Emit(OwnerEvent(Us))
  /\ UNCHANGED <<unused, asks, property, increment, clientVars, overtaken>>

Handle(type) == events # <<>> /\ Head(events).type = type

\* ConvertSelection reaches whoever owns the selection now, which may be us;
\* with no owner the X server answers it.
request(target) ==
  /\ requested' = target
  /\ asks' = IF owner \in Copies THEN Append(asks, <<owner, target>>) ELSE asks
  /\ events' = IF owner = Nobody THEN Append(Tail(events), Declined)
               ELSE IF owner = Us THEN Append(Tail(events), Asked)
               ELSE Tail(events)

report(text) == reports' = text

\* Mutant: a new owner's value is taken for a part of the old one's.
KeepReceiving == UNCHANGED <<receiving, receiveData>>

StopReceiving == receiving' = FALSE /\ receiveData' = <<>>

ownerChanged ==
  /\ Handle("owner")
  /\ LET to == Head(events).owner
     IN IF to = Us
        THEN events' = Tail(events) /\ UNCHANGED <<asks, clientVars>>
        ELSE /\ StopReceiving
             /\ IF to = Nobody
                THEN report(<<>>) /\ events' = Tail(events) /\ UNCHANGED <<asks, requested>>
                ELSE request("UTF8_STRING") /\ UNCHANGED reports
  /\ UNCHANGED <<ownerVars, property, increment, overtaken>>

\* A refused UTF8_STRING is asked for as STRING; a refused STRING is given up.
RetryAsString ==
  IF requested # "STRING" THEN request("STRING")
  ELSE events' = Tail(events) /\ UNCHANGED <<asks, requested>>

\* GetProperty takes the value away, and whoever moves a large copy sees it.
GetProperty ==
  /\ property' = Nothing
  /\ increment' = IF property = Nothing THEN increment
                  ELSE [c \in Moving |-> [increment[c] EXCEPT !.deleted = @ + 1]]

\* What is there is reported, whoever wrote it; no property is no text.
selectionNotify ==
  /\ Handle("notify")
  /\ IF owner = Us
     THEN events' = Tail(events) /\ UNCHANGED <<asks, property, increment, clientVars>>
     ELSE IF ~Head(events).ok
     THEN RetryAsString /\ UNCHANGED <<property, increment, receiving, receiveData, reports>>
     ELSE /\ events' = Tail(events)
          /\ GetProperty
          /\ IF property.kind = "incr"
             THEN receiving' = TRUE /\ receiveData' = <<>> /\ UNCHANGED reports
             ELSE /\ CASE property.kind = "nothing" -> UNCHANGED reports
                       [] property.kind = "end" -> report(<<>>)
                       [] OTHER -> report(<<property.text>>)
                  /\ UNCHANGED <<receiving, receiveData>>
          /\ UNCHANGED <<asks, requested>>
  /\ UNCHANGED <<ownerVars, overtaken>>

\* propertyNotify: an empty value ends the increments, a value that is no text
\* gives them up.
propertyNotify ==
  /\ Handle("value")
  /\ events' = Tail(events)
  /\ IF ~receiving THEN UNCHANGED <<property, increment, receiving, receiveData, reports>>
     ELSE /\ GetProperty
          /\ IF property.kind \in {"nothing", "end", "incr"}
             THEN /\ StopReceiving
                  /\ IF property.kind = "incr" THEN UNCHANGED reports ELSE report(receiveData)
             ELSE /\ receiveData' = Append(receiveData, property.text)
                  /\ UNCHANGED <<receiving, reports>>
  /\ UNCHANGED <<ownerVars, asks, requested, overtaken>>

\* selectionRequest: our own conversion of our own text, in one piece.  Who
\* owns the selection by now does not matter to it.
selectionRequest ==
  /\ Handle("request")
  /\ property' = Written("text", Us)
  /\ events' = Tail(events) \o <<Value, Converted>>
  /\ overtaken' = (overtaken \/ owner = Nobody)
  /\ UNCHANGED <<ownerVars, asks, increment, clientVars>>

Next ==
  \/ \E c \in Copies : Copy(c) \/ NextIncrement(c) \/ GiveUp(c)
  \/ OwnerVanishes
  \/ \E n \in DOMAIN asks : Answer(n)
  \/ SetText \/ ownerChanged \/ selectionNotify \/ propertyNotify \/ selectionRequest

Spec == Init /\ [][Next]_vars

-----------------------------------------------------------------------------
\* Everything is handled, and nothing more is sent.
Settled ==
  events = <<>> /\ asks = <<>> /\ \A c \in Moving : increment[c].deleted = 0

\* The last change reported is the text of the application that owns the
\* selection, whole, or nothing when there is none.
OwnersTextIsReported ==
  owner # Us => reports = TextOf(owner) \/ (owner = Nobody /\ reports = Us)

\* Local changes arrive: the client ends up with the owner's text, however the
\* small copies, the own texts and the refusals before it overlapped, unless
\* something came out of turn since the selection was last quiet.
LocalCopiesArrive == Settled /\ ~overtaken => OwnersTextIsReported

\* A ClipboardChange reports new text: the same without the exception, which
\* one property for all answers does not give (ui/event.go, ClipboardChange).
ClipboardChangesAreNew == Settled => OwnersTextIsReported

-----------------------------------------------------------------------------
(* The inductive invariant behind it. *)

Owners == Copies \cup {Us, Nobody}
OwnerEvents == {OwnerEvent(o) : o \in Owners}
Event == OwnerEvents \cup {Declined, Converted, Value, Asked}

StateOK ==
  /\ owner \in Owners /\ events \in Seq(Event)
  /\ requested \in {"UTF8_STRING", "STRING"} /\ receiving \in BOOLEAN

TypeOK == StateOK /\ asks \in Seq(Copies \X {"UTF8_STRING", "STRING"})

\* One of the events is x, and none after it is in S.
LastAmong(w, x, S) ==
  \E i \in DOMAIN w : w[i] = x /\ \A j \in DOMAIN w : j > i => w[j] \notin S

\* No large copy is under way.  One that was cut off leaves its last events,
\* and leaves us receiving, until the next owner's event.
Clean ==
  ~receiving /\ (Converted \in Range(events) => property.kind \in {"nothing", "text"})

Reset ==
  /\ asks = <<>>
  /\ \E i \in DOMAIN events :
       /\ events[i] \in OwnerEvents \ {OwnerEvent(Us)}
       /\ \A j \in DOMAIN events :
            /\ j < i => events[j] \in {Value, Converted, OwnerEvent(Us)}
            /\ j > i => events[j] \in OwnerEvents

NoneMoves ==
  /\ Moving = {} /\ \A a \in Range(asks) : a[1] \notin Large
  /\ Clean \/ Reset

Late == OwnerEvents \cup {Asked}

\* The owner will be asked, is being asked, refuses UTF8_STRING, has answered,
\* or its text is reported.
SmallArrives(c) ==
  \/ LastAmong(events, OwnerEvent(c), Late)
  \/ /\ Range(events) \cap Late = {}
     /\ \/ asks # <<>> /\ asks[Len(asks)] = <<c, requested>>
        \/ asks = <<>> /\ requested = "UTF8_STRING" /\ Declined \in Range(events)
        \/ asks = <<>> /\ property = Written("text", c) /\ Converted \in Range(events)
        \/ asks = <<>> /\ property \in {Nothing, Written("text", c)} /\ reports = <<c>>

\* Once nobody's selection is reported, nothing else is.
NobodyArrives ==
  /\ asks = <<>>
  /\ \/ LastAmong(events, OwnerEvent(Nobody), Late \cup {Converted})
     \/ /\ Range(events) \cap (Late \cup {Converted}) = {}
        /\ reports \in {<<>>, Us}

\* A large copy before and after its transfer, and at each point of it.
LargeArrives(c) ==
  /\ NoneMoves /\ asks = <<>>
  /\ \/ events = <<OwnerEvent(c)>>
     \/ events = <<Declined>> /\ requested = "UTF8_STRING"
     \/ events = <<>> /\ reports = TextOf(c)

At(sent, deleted, data) == [at |-> [sent |-> sent, deleted |-> deleted], data |-> data]

LargeMoves(c) ==
  \/ /\ Moving = {} /\ ~receiving /\ asks = <<<<c, requested>>>> /\ events = <<>>
  \/ /\ Moving = {c} /\ increment[c] = [sent |-> 0, deleted |-> 0]
     /\ asks = <<>> /\ ~receiving
     /\ property = Written("incr", c) /\ events \in {<<Value, Converted>>, <<Converted>>}
  \/ /\ Moving = {c} /\ asks = <<>> /\ receiving
     /\ LET here == [at |-> increment[c], data |-> receiveData]
        IN \/ /\ property = Nothing /\ events = <<>>
              /\ here \in {At(0, 1, <<>>), At(1, 1, <<c>>), At(2, 1, <<c, c>>)}
           \/ /\ property = Written("part", c) /\ events = <<Value>>
              /\ here \in {At(1, 0, <<>>), At(2, 0, <<c>>)}
  \/ /\ Moving = {} /\ asks = <<>> /\ receiving /\ property = Written("end", c)
     /\ events = <<Value>> /\ receiveData = <<c, c>>

\* A large copy that we cut off: not answered yet, or ending unheard.
CutOff ==
  \/ /\ Moving = {} /\ ~receiving /\ Range(events) \subseteq {OwnerEvent(Us)}
     /\ \E c \in Large, target \in {"UTF8_STRING", "STRING"} : asks = <<<<c, target>>>>
  \/ asks = <<>> /\ Range(events) \subseteq {OwnerEvent(Us), Value, Converted}

OwnersTextIsDue ==
  /\ TypeOK
  /\ owner = Us => NoneMoves \/ CutOff
  /\ owner = Nobody => NoneMoves /\ NobodyArrives
  /\ owner \in Copies \ Large => NoneMoves /\ SmallArrives(owner)
  /\ owner \in Large => LargeArrives(owner) \/ LargeMoves(owner)

ArrivalInv == StateOK /\ (~overtaken => OwnersTextIsDue)
=============================================================================
