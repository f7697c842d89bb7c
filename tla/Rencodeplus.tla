---------------------------- MODULE Rencodeplus -----------------------------
(***************************************************************************)
(* The packet encoding (rencodeplus/): Encode and Decode over sequences of *)
(* bytes, checked on values at every boundary of the format, whole, cut    *)
(* short and with bytes after them.                                        *)
(*                                                                         *)
(* A 32-bit integer is a number; a wider one and a float are the eight     *)
(* bytes the Go runtime gives them, and a bignum is its decimal digits.    *)
(***************************************************************************)
EXTENDS Integers, Sequences, SequencesExt

CONSTANT MaxDepth   \* maxDepth of decode.go

\* What the constants have to satisfy.
RencodeplusAssumption == MaxDepth \in Nat

VARIABLES value, wire, phase, got
vars == <<value, wire, phase, got>>

-----------------------------------------------------------------------------
(* Tags *)
chrFloat64 == 44
chrList == 59
chrDict == 60
chrInt == 61
chrInt1 == 62
chrInt2 == 63
chrInt4 == 64
chrInt8 == 65
chrFloat32 == 66
chrTrue == 67
chrFalse == 68
chrNone == 69
chrTerm == 127
sepText == 58
sepBinary == 47
Digits == 48 .. 57

(* Go's values, as Encode takes them and as Decode returns them *)
None == [kind |-> "none"]
Bool(b) == [kind |-> "bool", truth |-> b]
Number(n) == [kind |-> "int", num |-> n]
Wide(b) == [kind |-> "wide", eight |-> b]
Big(d) == [kind |-> "big", digits |-> d]
Float(b) == [kind |-> "float", bits |-> b]
Text(s) == [kind |-> "text", text |-> s]
Binary(s) == [kind |-> "bytes", data |-> s]
List(s) == [kind |-> "list", items |-> s]
Dict(s) == [kind |-> "dict", pairs |-> s]        \* pairs in the order they are sent
Map(f) == [kind |-> "map", entries |-> f]        \* map[string]any
Error == [kind |-> "error"]

Bytes(n, count) == [i \in 1 .. count |-> (n \div (256 ^ (count - i))) % 256]

Decimal[n \in Nat] ==
  IF n < 10 THEN <<48 + n>> ELSE Append(Decimal[n \div 10], 48 + (n % 10))

Formatted(n) == IF n < 0 THEN <<45>> \o Decimal[-n] ELSE Decimal[n]

-----------------------------------------------------------------------------
(* The values on the format's boundaries, and those within them *)
Copies(n, x) == [i \in 1 .. n |-> x]

Nested[n \in 0 .. MaxDepth + 1] == IF n = 0 THEN None ELSE List(<<Nested[n - 1]>>)

Integer32 == {0, 43, 44, 127, 128, 32767, 32768, 65535, 2147483647,
              -1, -32, -33, -128, -129, -32768, -32769, -2147483647}

Leaves ==
  {None, Bool(TRUE), Bool(FALSE), Wide(Copies(8, 255)), Float(Copies(8, 127)),
   Big(<<45>> \o Copies(20, 49)), Big(Copies(19, 57))}
  \cup {Number(n) : n \in Integer32}
  \cup {Text(Copies(n, 58)) : n \in {0, 1, 9, 63, 64, 100}}
  \cup {Binary(Copies(n, 127)) : n \in {0, 1, 10, 64}}

Settings(a) == Dict(<< <<Text(<<97>>), a>>, <<Text(<<98>>), List(<<a>>)>> >>)

Values ==
  Leaves
  \cup {List(<<a, Settings(a), a>>) : a \in Leaves}
  \cup {List(Copies(n, a)) : n \in {0, 1, 63, 64}, a \in {Number(1), Text(<<127>>)}}
  \cup {Dict([i \in 1 .. n |-> <<Number(i - 2), Bool(i > 2)>>]) : n \in {0, 24, 25}}
  \cup {Dict([i \in 1 .. n |-> <<Binary(<<i>>), None>>]) : n \in {1, 25}}
  \cup {Nested[n] : n \in {1, MaxDepth, MaxDepth + 1}}

Parts ==
  {Settings(a) : a \in Leaves} \cup {List(<<a>>) : a \in Leaves}
  \cup {Text(<<97>>), Text(<<98>>), Text(<<127>>)}
  \cup {Number(i - 2) : i \in 1 .. 25} \cup {Binary(<<i>>) : i \in 1 .. 25}
  \cup {Nested[n] : n \in 0 .. MaxDepth}

-----------------------------------------------------------------------------
(* Encode *)
encodeBytes(sep, s) == Decimal[Len(s)] \o <<sep>> \o s

encodeString(s) == IF Len(s) < 64 THEN <<128 + Len(s)>> \o s ELSE encodeBytes(sepText, s)

encodeInt(n) ==
  CASE n \in 0 .. 43 -> <<n>>
    [] n \in -32 .. -1 -> <<69 - n>>
    [] n \in (-128 .. 127) \ (-32 .. 43) -> <<chrInt1>> \o Bytes(n, 1)
    [] n \in (-32768 .. 32767) \ (-128 .. 127) -> <<chrInt2>> \o Bytes(n, 2)
    [] OTHER -> <<chrInt4>> \o Bytes(n, 4)

\* A count below the limit goes into the tag, a larger one is ended by a
\* terminator.
encodeCount(n, limit, start, tag, body) ==
  IF n < limit THEN <<start + n>> \o body ELSE <<tag>> \o body \o <<chrTerm>>

Encode[v \in Values \cup Parts] ==
  CASE v.kind = "none" -> <<chrNone>>
    [] v.kind = "bool" -> <<IF v.truth THEN chrTrue ELSE chrFalse>>
    [] v.kind = "text" -> encodeString(v.text)
    [] v.kind = "bytes" -> encodeBytes(sepBinary, v.data)
    [] v.kind = "int" -> encodeInt(v.num)
    [] v.kind = "wide" -> <<chrInt8>> \o v.eight
    [] v.kind = "big" -> <<chrInt>> \o v.digits \o <<chrTerm>>
    [] v.kind = "float" -> <<chrFloat64>> \o v.bits
    [] v.kind = "list" ->
         encodeCount(Len(v.items), 64, 192, chrList,
                     FlattenSeq([i \in DOMAIN v.items |-> Encode[v.items[i]]]))
    [] v.kind = "dict" ->
         encodeCount(Len(v.pairs), 25, 102, chrDict,
                     FlattenSeq([i \in DOMAIN v.pairs |->
                                   Encode[v.pairs[i][1]] \o Encode[v.pairs[i][2]]]))

-----------------------------------------------------------------------------
(* Decode: a result has a value and the position after it, or is Failed. *)
At(v, pos) == [ok |-> TRUE, val |-> v, pos |-> pos]
Failed == [ok |-> FALSE]

Slice(data, pos, n) == SubSeq(data, pos, pos + n - 1)

\* What is made of the n bytes from pos on, if they are there.
next(data, pos, n, made) ==
  IF pos + n - 1 > Len(data) THEN Failed ELSE At(made, pos + n)

Signed(b) ==
  FoldLeft(LAMBDA n, byte : (n * 256) + byte, IF b[1] > 127 THEN b[1] - 256 ELSE b[1], Tail(b))

Parsed(digits) == FoldLeft(LAMBDA n, d : (n * 10) + d - 48, 0, digits)

AllDigits(s) == s # <<>> /\ \A i \in DOMAIN s : s[i] \in Digits

\* The first position from pos on that holds a byte of ends.
Until(data, pos, ends) == SelectInSubSeq(data, pos, Len(data), LAMBDA b : b \in ends)

sized(data, pos) ==
  LET sep == Until(data, pos, {sepText, sepBinary})
      count == SubSeq(data, pos, sep - 1)
      found == Slice(data, sep + 1, Parsed(count)) IN
  IF sep = 0 \/ ~AllDigits(count) THEN Failed
  ELSE next(data, sep + 1, Parsed(count),
            IF data[sep] = sepBinary THEN Binary(found) ELSE Text(found))

\* Up to nine digits are a number again.
bigInt(data, pos) ==
  LET term == Until(data, pos, {chrTerm})
      all == SubSeq(data, pos, term - 1)
      negative == all # <<>> /\ all[1] = 45
      digits == IF all # <<>> /\ all[1] \in {43, 45} THEN Tail(all) ELSE all IN
  IF term = 0 \/ ~AllDigits(digits) THEN Failed
  ELSE At(IF Len(digits) > 9 THEN Big(all)
          ELSE Number(IF negative THEN -Parsed(digits) ELSE Parsed(digits)), term + 1)

\* Keys become text, whatever they are sent as.
Key(k) ==
  CASE k.kind = "text" -> k.text
    [] k.kind = "bytes" -> k.data
    [] k.kind = "int" -> Formatted(k.num)

\* A key and its value alternate; of two equal keys the later one counts.
Mapped(items) ==
  LET keys == {i \in DOMAIN items : i % 2 = 1} IN
  [k \in {Key(items[i]) : i \in keys} |-> items[1 + Max({i \in keys : Key(items[i]) = k})]]

Open == -1   \* as many as come before the terminator

\* What holds the items that were read, and goes on behind them.
list(r) == IF r.ok THEN At(List(r.val), r.pos) ELSE Failed

dict(r) ==
  IF /\ r.ok
     /\ Len(r.val) % 2 = 0
     /\ \A i \in DOMAIN r.val : i % 2 = 1 => r.val[i].kind \in {"text", "bytes", "int"}
  THEN At(Map(Mapped(r.val)), r.pos) ELSE Failed

\* The value at pos: items[n] are the n items from behind its tag on, one level
\* deeper.
Decoded(data, pos, depth, items) ==
  IF depth > MaxDepth \/ pos > Len(data) THEN Failed
  ELSE LET tag == data[pos]
           after(n) == Slice(data, pos + 1, n) IN
    CASE tag \in 0 .. 43 -> At(Number(tag), pos + 1)
      [] tag \in 70 .. 101 -> At(Number(69 - tag), pos + 1)
      [] tag \in 128 .. 191 -> next(data, pos + 1, tag - 128, Text(after(tag - 128)))
      [] tag \in 192 .. 255 -> list(items[tag - 192])
      [] tag \in 102 .. 126 -> dict(items[2 * (tag - 102)])
      [] tag \in Digits -> sized(data, pos)
      [] tag = chrNone -> At(None, pos + 1)
      [] tag \in {chrTrue, chrFalse} -> At(Bool(tag = chrTrue), pos + 1)
      [] tag \in {chrInt1, chrInt2, chrInt4} ->
           LET n == 2 ^ (tag - chrInt1) IN next(data, pos + 1, n, Number(Signed(after(n))))
      [] tag = chrInt8 -> next(data, pos + 1, 8, Wide(after(8)))
      [] tag = chrInt -> bigInt(data, pos + 1)
      [] tag = chrFloat32 -> next(data, pos + 1, 4, Float(after(4)))
      [] tag = chrFloat64 -> next(data, pos + 1, 8, Float(after(8)))
      [] tag = chrList -> list(items[Open])
      [] tag = chrDict -> dict(items[Open])
      [] OTHER -> Failed

\* The n items from pos on, or those before the terminator.
ItemsOf(data) ==
  LET items[pos \in Nat, depth \in Nat, n \in Int] ==
        IF n = 0 THEN At(<<>>, pos)
        ELSE IF n = Open /\ pos <= Len(data) /\ data[pos] = chrTerm THEN At(<<>>, pos + 1)
        ELSE LET item == Decoded(data, pos, depth, [m \in Int |-> items[pos + 1, depth + 1, m]])
                 rest == items[item.pos, depth, IF n = Open THEN Open ELSE n - 1] IN
          IF ~item.ok \/ ~rest.ok THEN Failed ELSE At(<<item.val>> \o rest.val, rest.pos)
  IN  items

Decode(data) ==
  LET r == ItemsOf(data)[1, 0, 1] IN IF r.ok /\ r.pos > Len(data) THEN r.val[1] ELSE Error

-----------------------------------------------------------------------------
Init == value \in Values /\ wire = Encode[value] /\ phase = "sent" /\ got = None

CutShort == \E n \in 0 .. Len(wire) - 1 :
              wire' = SubSeq(wire, 1, n) /\ phase' = "damaged" /\ UNCHANGED <<value, got>>

Extend == \E b \in {0, chrTerm, 192} :
            wire' = Append(wire, b) /\ phase' = "damaged" /\ UNCHANGED <<value, got>>

Receive ==
  /\ phase \in {"sent", "damaged"}
  /\ got' = Decode(wire)
  /\ phase' = IF phase = "sent" THEN "received" ELSE "rejected"
  /\ UNCHANGED <<value, wire>>

Next == (phase = "sent" /\ (CutShort \/ Extend)) \/ Receive

Spec == Init /\ [][Next]_vars

-----------------------------------------------------------------------------
\* What Go code holds after Decode: dicts with text keys.
Normal[v \in Values \cup Parts] ==
  CASE v.kind = "list" -> List([i \in DOMAIN v.items |-> Normal[v.items[i]]])
    [] v.kind = "dict" ->
         Map([k \in {Key(v.pairs[i][1]) : i \in DOMAIN v.pairs} |->
                Normal[v.pairs[CHOOSE i \in DOMAIN v.pairs : Key(v.pairs[i][1]) = k][2]]])
    [] OTHER -> v

\* What was encoded is decoded to the same value, with text keys, unless it is
\* nested too deeply; cut short anywhere, or with more after it, it is refused.
RoundTrips ==
  /\ phase = "received" => got = IF value = Nested[MaxDepth + 1] THEN Error ELSE Normal[value]
  /\ phase = "rejected" => got = Error
=============================================================================
