-------------------------- MODULE WaylandClipboard --------------------------
(***************************************************************************)
(* wayland/clipboard.go.  Our text is a data source of ours, published on  *)
(* the strength of an input serial; a local copy is an offer, read by a    *)
(* goroutine of its own.  Handlers hold Display.mu and are one action; the *)
(* compositor carries out requests at once and its events wait on the wire.*)
(***************************************************************************)
EXTENDS Naturals, Sequences, Functions

CONSTANTS
  Copies,   \* local copies, each made at most once
  None,     \* nil, an empty selection
  MaxTexts  \* bound: SetText calls

\* What the constants have to satisfy.
WaylandClipboardAssumption ==
  /\ None \notin Copies \cup Nat
  /\ Copies \cap Nat = {}
  /\ MaxTexts \in Nat

VARIABLES
  serial,     \* Display.inputSerial is not 0
  pending,    \* clipboard.pending: a text waiting for a serial
  source,     \* clipboard.source, named by its text
  alive,      \* sources that have not been destroyed
  reads,      \* offers being read, in the order begun
  wire,       \* events not dispatched yet
  selection,  \* the compositor's selection: a source, a copy or None
  unused,     \* copies not made yet
  texts,      \* history: SetText calls
  copied,     \* history: a copy was made after the last SetText
  reports,    \* history: the last ClipboardChange, 0 before the first
  overtaken   \* history: since the last copy the newest read ended before an
              \* older one

clientVars == <<serial, pending, source, alive, reads>>
vars == <<clientVars, wire, selection, unused, texts, copied, reports, overtaken>>

Init ==
  /\ serial = FALSE /\ pending = None /\ source = None
  /\ alive = {} /\ reads = <<>>
  /\ wire = <<>> /\ selection = None /\ unused = Copies
  /\ texts = 0 /\ copied = FALSE /\ reports = 0 /\ overtaken = FALSE

\* The events by which the selection passes from one source to the next: our
\* own is cancelled, and a selection of ours comes without an offer.
Replaced(old, new) ==
  LET cancels == IF old \in Nat THEN <<[type |-> "cancelled", source |-> old]>> ELSE <<>>
      selects == <<[type |-> "selection", offer |-> IF new \in Nat THEN None ELSE new]>>
  IN {cancels \o selects, selects \o cancels}

-----------------------------------------------------------------------------
(* The user. *)

Copy(c) ==
  /\ c \in unused
  /\ unused' = unused \ {c}
  /\ selection' = c /\ copied' = TRUE /\ overtaken' = FALSE
  /\ \E events \in Replaced(selection, c) : wire' = wire \o events
  /\ UNCHANGED <<clientVars, texts, reports>>

OwnerVanishes ==
  /\ selection \in Copies
  /\ selection' = None /\ copied' = TRUE
  /\ wire' = Append(wire, [type |-> "selection", offer |-> None])
  /\ UNCHANGED <<clientVars, unused, texts, reports, overtaken>>

Input ==
  /\ [type |-> "input"] \notin Range(wire)
  /\ ~serial \/ pending # None
  /\ wire' = Append(wire, [type |-> "input"])
  /\ UNCHANGED <<clientVars, selection, unused, texts, copied, reports, overtaken>>

-----------------------------------------------------------------------------
(* The client; rest is the wire after the event at hand. *)

\* publish: a new source becomes the selection and the one we remember.
publish(text, rest) ==
  /\ alive' = alive \cup {text}
  /\ source' = text /\ pending' = None
  /\ selection' = text
  /\ \E events \in Replaced(selection, text) : wire' = rest \o events

SetText ==
  /\ texts < MaxTexts
  /\ texts' = texts + 1 /\ copied' = FALSE
  /\ IF serial THEN publish(texts + 1, wire)
     ELSE pending' = texts + 1 /\ UNCHANGED <<source, alive, wire, selection>>
  /\ UNCHANGED <<serial, reads, unused, reports, overtaken>>

Dispatch(type) == wire # <<>> /\ Head(wire).type = type

setInputSerial ==
  /\ Dispatch("input")
  /\ serial' = TRUE
  /\ IF pending # None THEN publish(pending, Tail(wire))
     ELSE wire' = Tail(wire) /\ UNCHANGED <<pending, source, alive, selection>>
  /\ UNCHANGED <<reads, unused, texts, copied, reports, overtaken>>

\* selection: an empty one while we have a source is our own SetText.
handleSelection ==
  /\ Dispatch("selection")
  /\ wire' = Tail(wire)
  /\ LET offer == Head(wire).offer
     IN /\ reads' = IF offer = None THEN reads ELSE Append(reads, offer)
        /\ reports' = IF offer = None /\ source = None THEN None ELSE reports
  /\ UNCHANGED <<serial, pending, source, alive, selection, unused, texts, copied, overtaken>>

\* Mutant: any cancelled source is taken for the current one.
ForgetAny(cancelled) == None

AfterCancel(cancelled) == IF source = cancelled THEN None ELSE source

onCancelled ==
  /\ Dispatch("cancelled")
  /\ wire' = Tail(wire)
  /\ source' = AfterCancel(Head(wire).source)
  /\ alive' = alive \ {Head(wire).source}
  /\ UNCHANGED <<serial, pending, reads, selection, unused, texts, copied, reports, overtaken>>

\* readOffer ends, in any order, or fails and reports nothing: its owner has
\* gone.
readOffer(n, ok) ==
  /\ n \in DOMAIN reads
  /\ ~ok => reads[n] # selection
  /\ reads' = SubSeq(reads, 1, n - 1) \o SubSeq(reads, n + 1, Len(reads))
  /\ reports' = IF ok THEN reads[n] ELSE reports
  /\ overtaken' = (overtaken \/ (ok /\ n = Len(reads) /\ n > 1))
  /\ UNCHANGED <<serial, pending, source, alive, wire, selection, unused, texts, copied>>

Next ==
  \/ \E c \in Copies : Copy(c)
  \/ OwnerVanishes \/ Input
  \/ SetText \/ setInputSerial \/ handleSelection \/ onCancelled
  \/ \E n \in DOMAIN reads, ok \in BOOLEAN : readOffer(n, ok)

Spec == Init /\ [][Next]_vars

-----------------------------------------------------------------------------
Settled == wire = <<>> /\ reads = <<>>

\* Local changes arrive: when every event is handled and every read has ended,
\* the last change reported is the copy that is selected, unless an older read
\* took longer than the newest one.
LocalCopiesArrive ==
  Settled /\ ~overtaken /\ selection \in Copies => reports = selection

\* SetText's text becomes the selection: at once, or with the next input, and
\* a newer text is never taken for a cancelled one; no other source remains.
OwnTextIsPublished ==
  Settled =>
    /\ texts > 0 /\ ~copied => texts \in {pending, selection}
    /\ selection \in Nat => source = selection
    /\ alive = {source} \ {None}

-----------------------------------------------------------------------------
(* The inductive invariants behind them.  A wire is a sequence of events. *)

Event == [type : {"input"}] \cup [type : {"cancelled"}, source : Nat]
         \cup [type : {"selection"}, offer : Copies \cup {None}]

TypeOK ==
  /\ serial \in BOOLEAN /\ texts \in Nat /\ copied \in BOOLEAN
  /\ pending \in {None} \cup 1 .. texts /\ source \in {None} \cup Nat
  /\ alive \subseteq 1 .. texts
  /\ reads \in Seq(Copies) /\ wire \in Seq(Event)
  /\ selection \in {None} \cup Copies \cup Nat

Cancels(w) == {i \in DOMAIN w : w[i].type = "cancelled"}
Selects(w) == {i \in DOMAIN w : w[i].type = "selection"}

\* The sources that are about to be cancelled, each once.
Cancelled(w) == {w[i].source : i \in Cancels(w)}
CancelledOnce(w) == \A i, j \in Cancels(w) : w[i].source = w[j].source => i = j

\* The last selection that is announced.
Announced(w, offer) == \E i \in Selects(w) : w[i].offer = offer /\ \A j \in Selects(w) : j <= i

\* A text that waits is the last one; the source we remember is the selection,
\* or about to be cancelled like all others that are left.
SourcesInv ==
  /\ pending # None => pending = texts /\ pending \notin alive
  /\ texts > 0 /\ ~copied => texts \in {pending, selection}
  /\ selection \in Nat => source = selection /\ selection \notin Cancelled(wire)
  /\ source # None => source \in alive
  /\ alive = ({selection} \cap Nat) \cup Cancelled(wire)
  /\ CancelledOnce(wire)

\* The copy that is selected is the last one announced, read or reported.
CopiesInv ==
  ~overtaken /\ selection \in Copies =>
    \/ Announced(wire, selection)
    \/ /\ Selects(wire) = {}
       /\ IF reads = <<>> THEN reports = selection ELSE reads[Len(reads)] = selection
=============================================================================
