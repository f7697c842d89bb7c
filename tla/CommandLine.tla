----------------------------- MODULE CommandLine -----------------------------
(***************************************************************************)
(* The command line (cmd/go-xpra/main.go): validateOptionSpelling walks    *)
(* the arguments ahead of package flag, which takes -name for --name, and  *)
(* must tell options from their values as package flag will.               *)
(***************************************************************************)
EXTENDS Naturals, Sequences

CONSTANTS
  Bools,    \* options without a value, "v" among them
  Strings,  \* options with one
  Unknown,  \* a name nobody defined
  MaxArgs   \* bound

\* What the constants have to satisfy.
CommandLineAssumption == MaxArgs \in Nat

Option(dashes, name, hasValue) ==
  [is |-> "option", dashes |-> dashes, name |-> name, hasValue |-> hasValue]
Word == [is |-> "word"]        \* no dash in front
Dash == [is |-> "dash"]        \* "-"
Terminator == [is |-> "end"]   \* "--"

Names == Bools \cup Strings \cup {Unknown}

\* Of three dashes the third one is left to the name, which is then nobody's.
Arguments ==
  {Word, Dash, Terminator}
    \cup {Option(dashes, name, hasValue) : dashes \in 1 .. 2, name \in Names, hasValue \in BOOLEAN}
    \cup {Option(3, Unknown, FALSE)}

VARIABLES
  args,
  checked,   \* arguments validateOptionSpelling has passed
  verdict,   \* "checking", "accepted", "refused"
  parsed,    \* arguments flag.Parse has passed
  applied,   \* the options it set, by position
  outcome    \* "parsing", "dialog", "version", "run", "usage"

vars == <<args, checked, verdict, parsed, applied, outcome>>

Init ==
  /\ \E n \in 0 .. MaxArgs : args \in [1 .. n -> Arguments]
  /\ checked = 0 /\ verdict = "checking"
  /\ parsed = 0 /\ applied = {} /\ outcome = "parsing"

-----------------------------------------------------------------------------
(* validateOptionSpelling *)

Verdict(v) == verdict' = v /\ UNCHANGED checked

Skip(n) == checked' = checked + n /\ UNCHANGED verdict

\* The next argument is this option's value, even if it begins with a dash.
ValueFollows(arg) == arg.name \in Strings /\ ~arg.hasValue

Check(arg) ==
  IF arg.is # "option" THEN Verdict("accepted")
  ELSE IF arg.name = "v" THEN IF arg.dashes = 1 THEN Skip(1) ELSE Verdict("refused")
  ELSE IF arg.dashes = 1 THEN Verdict("refused")
  ELSE Skip(IF ValueFollows(arg) THEN 2 ELSE 1)

validateOptionSpelling ==
  /\ verdict = "checking"
  /\ IF checked < Len(args) THEN Check(args[checked + 1]) ELSE Verdict("accepted")
  /\ UNCHANGED <<args, parsed, applied, outcome>>

-----------------------------------------------------------------------------
(* flag.Parse and main.  A refusal ends the program; what package flag would  *)
(* have made of the arguments is worked out all the same, to compare.         *)

Outcome(o) == outcome' = o /\ UNCHANGED <<parsed, applied>>

Applied(name) == \E i \in applied : args[i].name = name

\* What is left after the options has to be one URL, unless nothing was given.
Main(rest) ==
  Outcome(CASE Applied("version") -> "version"
            [] ~Applied("version") /\ args = <<>> -> "dialog"
            [] ~Applied("version") /\ args # <<>> /\ rest = 1 -> "run"
            [] OTHER -> "usage")

Set(n) ==
  /\ applied' = applied \cup {parsed + 1}
  /\ parsed' = parsed + n
  /\ UNCHANGED outcome

ParseOption(arg) ==
  IF arg.dashes = 3 \/ arg.name = Unknown THEN Outcome("usage")
  ELSE IF arg.name \in Bools \/ arg.hasValue THEN Set(1)
  ELSE IF parsed + 1 = Len(args) THEN Outcome("usage") ELSE Set(2)

Parse ==
  /\ verdict # "checking" /\ outcome = "parsing"
  /\ IF parsed = Len(args) THEN Main(0)
     ELSE LET arg == args[parsed + 1] IN
          CASE arg.is = "option" -> ParseOption(arg)
            [] arg.is = "end" -> Main(Len(args) - parsed - 1)
            [] OTHER -> Main(Len(args) - parsed)
  /\ UNCHANGED <<args, checked, verdict>>

Next == validateOptionSpelling \/ Parse

Spec == Init /\ [][Next]_vars

-----------------------------------------------------------------------------
Spelled(arg) == arg.dashes = IF arg.name = "v" THEN 1 ELSE 2

\* The spelling check and package flag agree about what is an option: a command
\* line that is accepted sets misspelt options never, and one whose options are
\* all spelled as they should be, values that look like options aside, is
\* refused only over an argument that package flag refuses as well.
OptionsAreSpelled ==
  outcome # "parsing" =>
    /\ verdict = "accepted" => \A i \in applied : Spelled(args[i])
    /\ verdict = "refused" /\ outcome # "usage" => \E i \in applied : ~Spelled(args[i])
=============================================================================
