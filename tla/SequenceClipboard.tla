------------------------- MODULE SequenceClipboard --------------------------
(***************************************************************************)
(* win32/clipboard.go and darwin/clipboard.go: both know a change of the   *)
(* desktop's clipboard by its sequence number only.  Windows posts an      *)
(* update for each change, handled after any number of further changes;    *)
(* AppKit is polled.  Both sides run on the thread that owns the window.   *)
(***************************************************************************)
EXTENDS Naturals

CONSTANTS
  Ours,       \* a text of SetText, told apart from local copies
  Absent,     \* no text on the clipboard
  MaxChanges  \* bound: changes of the clipboard

\* What the constants have to satisfy.
SequenceAssumption ==
  /\ MaxChanges \in Nat
  /\ {Ours, Absent} \cap Nat = {} /\ Ours # Absent

VARIABLES
  backend,   \* "win32" or "darwin"
  sequence,  \* the sequence number, or NSPasteboard's change count
  contents,  \* Ours, Absent, or a local copy, named by its number
  own,       \* clipboardSequence, clipboardOwnChangeCount
  seen,      \* lastSeenChangeCount
  updates,   \* WM_CLIPBOARDUPDATE messages not handled
  reports    \* history: the last ClipboardChange

vars == <<backend, sequence, contents, own, seen, updates, reports>>

\* Sequence numbers start at 1: 0 and -1 stand for none.
Init ==
  /\ backend \in {"win32", "darwin"}
  /\ sequence = 1 /\ contents = Absent
  /\ own = 0 /\ seen = 0 /\ updates = 0 /\ reports = Absent

\* Opening, emptying and filling is one change to everybody else.
Change(text) ==
  /\ sequence <= MaxChanges
  /\ sequence' = sequence + 1
  /\ contents' = text
  /\ updates' = IF backend = "win32" THEN updates + 1 ELSE updates
  /\ UNCHANGED <<backend, seen, reports>>

Copy == Change(sequence + 1) /\ UNCHANGED own
CopyOther == Change(Absent) /\ UNCHANGED own

\* SetText; on Windows it may fail with the clipboard emptied.
SetText(ok) ==
  /\ ok \/ backend = "win32"
  /\ Change(IF ok THEN Ours ELSE Absent)
  /\ own' = IF ok THEN sequence' ELSE own

clipboardChanged ==
  /\ backend = "win32" /\ updates > 0
  /\ updates' = updates - 1
  /\ IF sequence = own THEN own' = 0 /\ UNCHANGED reports
     ELSE reports' = contents /\ UNCHANGED own
  /\ UNCHANGED <<backend, sequence, contents, seen>>

IsOwn == sequence = own

pollClipboard ==
  /\ backend = "darwin" /\ sequence # seen
  /\ seen' = sequence
  /\ reports' = IF IsOwn \/ contents = Absent THEN reports ELSE contents
  /\ UNCHANGED <<backend, sequence, contents, own, updates>>

Next ==
  \/ Copy \/ CopyOther \/ \E ok \in BOOLEAN : SetText(ok)
  \/ clipboardChanged \/ pollClipboard

Spec == Init /\ [][Next]_vars

-----------------------------------------------------------------------------
Settled == IF backend = "win32" THEN updates = 0 ELSE seen = sequence

\* Local changes arrive: once updates are handled, or the clipboard was polled,
\* the last change reported is the copy on it.  AppKit never reports our own
\* text; Windows may, when two changes come before the first update.
LocalCopiesArrive ==
  /\ Settled /\ contents \in Nat => reports = contents
  /\ backend = "darwin" => reports # Ours

\* The inductive invariant behind LocalCopiesArrive: a copy is known by its
\* number, our text by ours.
SequenceInv ==
  /\ backend \in {"win32", "darwin"} /\ sequence \in Nat \ {0} /\ updates \in Nat
  /\ own \in 0 .. sequence /\ seen \in 0 .. sequence
  /\ contents \in {Ours, Absent, sequence}
  /\ own = sequence => contents = Ours
  /\ backend = "darwin" /\ contents = Ours => own = sequence
  /\ LocalCopiesArrive
=============================================================================
