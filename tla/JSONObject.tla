------------------------------ MODULE JSONObject -----------------------------
(***************************************************************************)
(* CU::JSONObject (utils/CuJSONObject.cpp): an object is parsed from a     *)
(* text, one character a step, and then used: keys are added, removed,     *)
(* subscripted, and objects are merged into it.                            *)
(***************************************************************************)
EXTENDS JSONText

CONSTANTS
    Texts,     \* the texts given to the parser
    Comments,  \* enableComments
    CallKeys, CallValues,  \* the keys and values of the calls that follow
    Other,     \* another object, as a sequence of pairs <<key, value>>
    MaxCalls   \* bound: calls after the parse

ASSUME ObjectAssumption ==
    /\ Comments \in BOOLEAN /\ MaxCalls \in Nat
    /\ Texts \cup CallKeys \cup CallValues \subseteq Seq(Chars)
    /\ Invalid \notin CallValues
    /\ Other \in Seq(Seq(Chars) \X Seq(Chars)) /\ IsInjective(OrderOf(Other))

VARIABLES
    text, parser,  \* the text, and the locals of Parse_Impl_
    data, order,   \* data_ and order_
    phase,         \* "parsing", "parsed", "failed" (an exception), or "used"
    calls,         \* how many calls there have been
    repeated       \* history: the text repeated a key

vars == <<text, parser, data, order, phase, calls, repeated>>

Init ==
    /\ text \in Texts
    /\ parser = NewParser("object", Comments)
    /\ data = <<>> /\ order = <<>>
    /\ phase = "parsing" /\ calls = 0 /\ repeated = FALSE

------------------------------------------------------------------------------
(* Parse_Impl_ *)

ReadChar ==
    /\ phase = "parsing" /\ parser.pos <= Len(text)
    /\ parser' = Step(parser, text, JSONItem)
    /\ phase' = IF parser'.idx = "FAILED" THEN "failed" ELSE "parsing"
    /\ UNCHANGED <<text, data, order, calls, repeated>>

\* Mutant: the state after the last character is not looked at.
EndUnchecked ==
    /\ phase = "parsing" /\ parser.pos > Len(text)
    /\ phase' = "parsed"
    /\ data' = DataOf(parser.pairs) /\ order' = OrderOf(parser.pairs)
    /\ repeated' = ~IsInjective(order')
    /\ UNCHANGED <<text, parser, calls>>

EndOfText ==
    /\ phase = "parsing" /\ parser.pos > Len(text)
    /\ IF parser.idx = "NONE"
         THEN /\ phase' = "parsed"
              /\ data' = DataOf(parser.pairs) /\ order' = OrderOf(parser.pairs)
              /\ repeated' = ~IsInjective(order')
         ELSE /\ phase' = "failed"
              /\ UNCHANGED <<data, order, repeated>>
    /\ UNCHANGED <<text, parser, calls>>

------------------------------------------------------------------------------
(* The other operations *)

\* A call on the object; the text is no longer needed.
Call ==
    /\ phase \in {"parsed", "used"} /\ calls < MaxCalls
    /\ calls' = calls + 1
    /\ phase' = "used"
    /\ text' = <<>> /\ parser' = NewParser("object", Comments)
    /\ UNCHANGED repeated

With(d, key, value) == [k \in DOMAIN d \cup {key} |-> IF k = key THEN value ELSE d[k]]
Without(d, key) == [k \in DOMAIN d \ {key} |-> d[k]]
Ordered(o, d, key) == IF key \in DOMAIN d THEN o ELSE Append(o, key)

AddItem(key, value) ==
    /\ Call
    /\ order' = Ordered(order, data, key)
    /\ data' = With(data, key, value)

\* operator[] creates a null item.
SubscriptItem(key) ==
    /\ Call
    /\ order' = Ordered(order, data, key)
    /\ data' = IF key \in DOMAIN data THEN data ELSE With(data, key, <<"null">>)

\* Mutant: the key stays in order_.
RemoveData(key) ==
    /\ Call
    /\ data' = Without(data, key)
    /\ UNCHANGED order

\* remove throws when order_ does not hold the key.
RemoveItem(key) ==
    /\ Call
    /\ data' = IF Contains(order, key) THEN Without(data, key) ELSE data
    /\ order' = RemoveFirst(order, key)

\* The keys of one object are added to the other, one after the other.
Merged(o, d, fromOrder, from) ==
    LET with[i \in 0..Len(fromOrder)] ==
          IF i = 0 THEN [order |-> o, data |-> d]
          ELSE LET key == fromOrder[i]
                   m == with[i - 1]
               IN  [order |-> Ordered(m.order, m.data, key),
                    data |-> With(m.data, key, from[key])]
    IN  with[Len(fromOrder)]

\* this += Other
PlusAssign ==
    /\ Call
    /\ LET m == Merged(order, data, OrderOf(Other), DataOf(Other))
       IN  order' = m.order /\ data' = m.data

\* this = this + Other: the other object comes first, and loses; at throws for
\* a key of order_ that data_ has not.
Plus ==
    /\ Call
    /\ ToSet(order) \subseteq DOMAIN data
    /\ LET m == Merged(OrderOf(Other), DataOf(Other), order, data)
       IN  order' = m.order /\ data' = m.data

ClearItems ==
    /\ Call
    /\ order' = <<>> /\ data' = <<>>

Next ==
    \/ ReadChar \/ EndOfText
    \/ \E key \in CallKeys : SubscriptItem(key) \/ RemoveItem(key)
    \/ \E key \in CallKeys, value \in CallValues : AddItem(key, value)
    \/ PlusAssign \/ Plus \/ ClearItems

Spec == Init /\ [][Next]_vars

------------------------------------------------------------------------------
\* After an odd number of backslashes a character stands for itself.
EscapedAt(t, i) ==
    \E n \in 1..(i - 1) :
        /\ n % 2 = 1 /\ \A k \in (i - n)..(i - 1) : t[k] = "backslash"
        /\ i - n > 1 => t[i - n - 1] # "backslash"

\* A comment of the daemon's configuration, and the blanks of any text.
Uncommented(t) ==
    SelectSeq([i \in 1..Len(t) |->
                 IF \E j \in 1..i : /\ t[j] = "#" /\ ~EscapedAt(t, j)
                                    /\ \A k \in j..i : t[k] # "newline"
                 THEN "newline" ELSE t[i]],
              LAMBDA ch : ch \notin Blank)

\* A nested value is being read exactly while a bracket of it is open.
TypeOK ==
    /\ parser.idx \in Idx /\ parser.pos \in 1..(Len(text) + 1)
    /\ phase \in {"parsing", "parsed", "failed", "used"}
    /\ calls \in 0..MaxCalls
    /\ parser.idx \in Nested => parser.count \in 1..Len(parser.value)
    /\ ToSet(OrderOf(parser.pairs)) \cap {<<>>} = {}

\* Of a text without repeated keys, and after any calls, order_ lists the keys
\* of data_, each once: toString, which asks data_ for each key, cannot throw.
\* And the parser leaves a nested value when its brackets are closed (TypeOK).
OrderListsData ==
    TypeOK /\ (~repeated => IsInjective(order) /\ ToSet(order) = DOMAIN data)

\* A blank after a backslash is a character of its string.
NoBlankEscaped(t) == \A i \in 1..Len(t) : EscapedAt(t, i) => t[i] \notin Blank

\* What toString writes of the object that was read, with quotes, backslashes,
\* comment signs and line ends in its keys and strings, is parsed again to the
\* same object; only a blank within one is written bare and would be lost.
RoundTrip ==
    phase = "parsed" /\ (\A key \in DOMAIN data : " " \notin ToSet(key) \cup ToSet(data[key])) =>
        LET p == Run(NewParser("object", Comments), ObjectToString(data, order), JSONItem)
        IN  p.idx = "NONE" /\ OrderOf(p.pairs) = order /\ DataOf(p.pairs) = data
==============================================================================
