---------------------------- MODULE X11Transfers ----------------------------
(***************************************************************************)
(* x11/clipboard.go, the serving half: the server's text for applications  *)
(* that paste, at once or in increments, each written when the one before  *)
(* has been taken away, while SetText goes on replacing the text.          *)
(***************************************************************************)
EXTENDS Naturals, Sequences, Functions

CONSTANTS
  Requestors,  \* windows that paste, each into one property
  Large,       \* texts over maxImageBytes, by the number of their SetText
  MaxTexts,    \* bound: SetText calls
  MaxAsks      \* bound: conversions asked for

\* What the constants have to satisfy.
X11TransfersAssumption ==
  /\ MaxTexts \in Nat \ {0} /\ MaxAsks \in Nat
  /\ Large \subseteq 1 .. MaxTexts

VARIABLES
  text,       \* clipboard.text: the number of the last SetText
  transfers,  \* clipboard.transfers: requestor to [data, offset]
  property,   \* what is in each requestor's property
  events,     \* SelectionRequest and PropertyNotify events not handled
  state,      \* what each requestor is at
  got,        \* what it has read since it asked
  since,      \* the text when it asked
  asks        \* history: conversions asked for

clientVars == <<text, transfers>>
requestorVars == <<state, got, since, asks>>
vars == <<clientVars, property, events, requestorVars>>

Empty == <<"empty">>
Incr == <<"incr">>

\* Two increments are a text; a small one goes in one piece.
Size(t) == IF t \in Large THEN 2 ELSE 1
Piece(t, n) == <<"piece", t, n>>
Whole(t) == [n \in 1 .. Size(t) |-> Piece(t, n)]

Init ==
  /\ text = 1 /\ transfers = [r \in {} |-> 0]
  /\ property = [r \in Requestors |-> Empty]
  /\ events = <<>>
  /\ state = [r \in Requestors |-> "idle"]
  /\ got = [r \in Requestors |-> <<>>]
  /\ since = [r \in Requestors |-> 1]
  /\ asks = 0

SetText ==
  /\ text < MaxTexts
  /\ text' = text + 1
  /\ UNCHANGED <<transfers, property, events, requestorVars>>

Handle(type) == events # <<>> /\ Head(events).type = type /\ events' = Tail(events)

\* What a transfer keeps: the text as it was when it was asked for.
Snapshot == text

\* selectionRequest; the requestor may be gone, and is refused.
selectionRequest(ok) ==
  /\ Handle("request")
  /\ LET r == Head(events).from
     IN /\ IF ok /\ text \in Large
           THEN /\ transfers' = [x \in DOMAIN transfers \cup {r} |->
                     IF x = r THEN [data |-> Snapshot, offset |-> 0] ELSE transfers[x]]
                /\ property' = [property EXCEPT ![r] = Incr]
           ELSE /\ UNCHANGED transfers
                /\ property' = IF ok THEN [property EXCEPT ![r] = Piece(text, 1)] ELSE property
        /\ state' = [state EXCEPT ![r] = IF ok THEN "notified" ELSE "idle"]
  /\ UNCHANGED <<text, got, since, asks>>

\* Mutant: the increments are cut from the current text.
Current(transfer) == text

Kept(transfer) == transfer.data

\* propertyNotify: the next piece of the transfer, then an empty one.
propertyNotify ==
  /\ Handle("deleted")
  /\ LET r == Head(events).from
     IN IF r \notin DOMAIN transfers THEN UNCHANGED <<transfers, property, state>>
        ELSE LET transfer == transfers[r]
                 ended == transfer.offset = Size(transfer.data)
             IN /\ transfers' = IF ended
                                THEN [x \in DOMAIN transfers \ {r} |-> transfers[x]]
                                ELSE [transfers EXCEPT ![r].offset = @ + 1]
                /\ property' = [property EXCEPT ![r] =
                     IF ended THEN Empty ELSE Piece(Kept(transfer), transfer.offset + 1)]
                /\ state' = [state EXCEPT ![r] = IF @ = "waiting" THEN "offered" ELSE @]
  /\ UNCHANGED <<text, got, since, asks>>

\* An application pastes; it may have given up an earlier paste half way.
Ask(r) ==
  /\ state[r] # "asked" /\ asks < MaxAsks
  /\ asks' = asks + 1
  /\ state' = [state EXCEPT ![r] = "asked"]
  /\ got' = [got EXCEPT ![r] = <<>>]
  /\ since' = [since EXCEPT ![r] = text]
  /\ events' = Append(events, [type |-> "request", from |-> r])
  /\ UNCHANGED <<clientVars, property>>

\* Read the property and delete it, which we hear of.
Read(r) ==
  /\ state[r] \in {"notified", "offered"}
  /\ property' = [property EXCEPT ![r] = Empty]
  /\ LET piece == property[r]
     IN /\ got' = [got EXCEPT ![r] = IF piece \in {Incr, Empty} THEN @ ELSE Append(@, piece)]
        /\ state' = [state EXCEPT ![r] =
             IF piece = Incr \/ (@ = "offered" /\ piece # Empty) THEN "waiting" ELSE "done"]
  /\ events' = Append(events, [type |-> "deleted", from |-> r])
  /\ UNCHANGED <<clientVars, since, asks>>

Next ==
  \/ SetText
  \/ \E ok \in BOOLEAN : selectionRequest(ok)
  \/ propertyNotify
  \/ \E r \in Requestors : Ask(r) \/ Read(r)

Spec == Init /\ [][Next]_vars

-----------------------------------------------------------------------------
\* However often the text is replaced and pastes are given up half way, a paste
\* that ends has all of one text, and one that was current since it was asked.
PastesAreWhole ==
  \A r \in Requestors :
    state[r] = "done" => \E t \in since[r] .. text : got[r] = Whole(t)

TypeOK ==
  /\ text \in 1 .. MaxTexts
  /\ DOMAIN transfers \subseteq Requestors
  /\ \A r \in DOMAIN transfers :
       transfers[r] \in [data : Large, offset : 0 .. 2]
  /\ events \in Seq([type : {"request", "deleted"}, from : Requestors])
  /\ state \in [Requestors -> {"idle", "asked", "notified", "waiting", "offered", "done"}]
  /\ since \in [Requestors -> 1 .. MaxTexts] /\ \A r \in Requestors : since[r] <= text
  /\ DOMAIN property = Requestors /\ DOMAIN got = Requestors

\* Of one requestor at most two events wait: that it deleted its property, and
\* then that it asks again.  None waits once its request has been answered.
QueueInv ==
  /\ \A i, j \in 1 .. Len(events) :
       i < j /\ events[i].from = events[j].from =>
         events[i].type = "deleted" /\ events[j].type = "request"
  /\ \A i \in 1 .. Len(events) :
       state[events[i].from] \in IF events[i].type = "request" THEN {"asked"}
                                 ELSE {"asked", "waiting", "done"}

\* The first n pieces of a text.
Part(t, n) == [k \in 1 .. n |-> Piece(t, k)]

\* r has read all that its transfer has handed out but the last n pieces.
Behind(r, n) ==
  /\ r \in DOMAIN transfers /\ transfers[r].data >= since[r] /\ transfers[r].data <= text
  /\ transfers[r].offset >= n
  /\ got[r] = Part(transfers[r].data, transfers[r].offset - n)

\* What a requestor has read, and what is in its property, fit together.
PasteInv(r) ==
  /\ state[r] = "asked" => got[r] = <<>>
  /\ state[r] = "notified" =>
       \/ property[r] = Incr /\ Behind(r, 0)
       \/ /\ got[r] = <<>>
          /\ \E t \in since[r] .. text : t \notin Large /\ property[r] = Piece(t, 1)
  /\ state[r] = "waiting" => Behind(r, 0)
  /\ state[r] = "offered" =>
       \/ Behind(r, 1) /\ property[r] = Piece(transfers[r].data, transfers[r].offset)
       \/ property[r] = Empty /\ \E t \in since[r] .. text : got[r] = Whole(t)
  /\ state[r] = "done" => \E t \in since[r] .. text : got[r] = Whole(t)

\* The inductive invariant behind PastesAreWhole.
TransfersInv == TypeOK /\ QueueInv /\ \A r \in Requestors : PasteInv(r)
=============================================================================
