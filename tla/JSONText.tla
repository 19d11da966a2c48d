------------------------------- MODULE JSONText ------------------------------
(***************************************************************************)
(* The parser of utils/CuJSONObject.cpp: Parse_Impl_ of JSONObject and of  *)
(* JSONArray, which read one character at a time, the constructor of       *)
(* JSONItem, which reads the text of one value, and toString, which writes *)
(* them again.                                                             *)
(*                                                                         *)
(* A text is a sequence of characters; those with a meaning of their own   *)
(* are named, and the words true, false and null are one character.        *)
(* Numbers with a point and integers beyond 32 bits are left out.  A value *)
(* is represented by the text toRaw writes for it.                         *)
(***************************************************************************)
EXTENDS Naturals, Sequences, SequencesExt

CONSTANT Letters  \* bound: the characters with no meaning of their own

Blank == {" ", "newline"}
Digits == {"0", "1", "2"}
Words == {"true", "false", "null"}
Chars ==
    Blank \cup Digits \cup Words \cup Letters
    \cup {"{", "}", "[", "]", ",", ":", "quote", "backslash", "#", "-", "n"}
Invalid == <<>>  \* no value: JSONItem throws

\* ObjectIdx and ArrayIdx.  VALUE_FRONT and ITEM_FRONT are FRONT here, and so on.
Nested == {"ARRAY", "OBJECT"}
Content == Nested \cup {"STRING"}
Idx == {"NONE", "KEY_FRONT", "KEY_CONTENT", "KEY_BACK", "FRONT", "COMMON",
        "BACK", "FAILED"} \cup Content

\* The characters that end a state, with the state that follows.
Shared ==
    {<<"[", "FRONT", "ARRAY">>, <<"{", "FRONT", "OBJECT">>,
     <<"quote", "FRONT", "STRING">>, <<"quote", "STRING", "BACK">>}
Edges(kind) ==
    Shared \cup
    IF kind = "object"
      THEN {<<"{", "NONE", "KEY_FRONT">>, <<"quote", "KEY_FRONT", "KEY_CONTENT">>,
            <<"quote", "KEY_CONTENT", "KEY_BACK">>, <<":", "KEY_BACK", "FRONT">>,
            <<",", "COMMON", "KEY_FRONT">>, <<",", "BACK", "KEY_FRONT">>,
            <<"}", "COMMON", "NONE">>, <<"}", "BACK", "NONE">>, <<"}", "KEY_FRONT", "NONE">>}
      ELSE {<<"[", "NONE", "FRONT">>, <<",", "COMMON", "FRONT">>, <<",", "BACK", "FRONT">>,
            <<"]", "COMMON", "NONE">>, <<"]", "BACK", "NONE">>, <<"]", "FRONT", "NONE">>}

Structural(kind) ==
    {"{", "}", "[", "]", ",", "quote"} \cup IF kind = "object" THEN {":"} ELSE {}

\* The locals of Parse_Impl_; pairs are the items entered, each with its key.
NewParser(kind, comments) ==
    [kind |-> kind, comments |-> comments, pos |-> 1, idx |-> "NONE", count |-> 0,
     key |-> <<>>, value |-> <<>>, pairs |-> <<>>]

Failed(p) == [p EXCEPT !.idx = "FAILED"]
PutKey(p, ch) == [p EXCEPT !.key = Append(@, ch)]
PutValue(p, ch) == [p EXCEPT !.value = Append(@, ch)]

\* A bracket of the kind that opened the nested value.
Bracket(p, ch) ==
    \/ p.idx = "OBJECT" /\ ch \in {"{", "}"}
    \/ p.idx = "ARRAY" /\ ch \in {"[", "]"}

Count(p, ch) ==
    IF ch \in {"{", "["} THEN [PutValue(p, ch) EXCEPT !.count = @ + 1]
    ELSE [PutValue(p, ch) EXCEPT !.count = @ - 1, !.idx = IF p.count = 1 THEN "BACK" ELSE @]

\* A character of the text between the quotes or brackets of a key or a value.
Keep(p, ch) ==
    IF p.idx = "KEY_CONTENT" THEN PutKey(p, ch)
    ELSE IF p.idx \in Content THEN PutValue(p, ch)
    ELSE Failed(p)

\* A structural character; "}" or "]" closes at the front only what is empty.
Follow(p, ch) ==
    LET edges == {e \in Edges(p.kind) : e[1] = ch /\ e[2] = p.idx}
    IN  IF Bracket(p, ch) THEN Count(p, ch)
        ELSE IF edges = {} THEN Keep(p, ch)
        ELSE LET to == (CHOOSE e \in edges : TRUE)[3]
             IN  IF to = "NONE" /\ p.idx \in {"KEY_FRONT", "FRONT"} /\ p.pairs # <<>>
                   THEN Failed(p)
                 ELSE IF p.idx = "STRING" \/ to \in Content
                   THEN [PutValue(p, ch) EXCEPT !.idx = to, !.count = IF to \in Nested THEN 1 ELSE @]
                 ELSE [p EXCEPT !.idx = to]

\* Any other character.
Ordinary(p, ch) ==
    IF p.idx = "FRONT" THEN [PutValue(p, ch) EXCEPT !.idx = "COMMON"]
    ELSE IF p.idx = "COMMON" THEN PutValue(p, ch)
    ELSE Keep(p, ch)

GetEscapeChar(ch) == IF ch = "n" THEN "newline" ELSE ch

\* A backslash: in a nested value it is kept for the parser of that value.
Escape(p, text) ==
    IF p.idx \in {"KEY_CONTENT", "STRING"}
      THEN IF p.pos = Len(text) THEN Failed(p)
           ELSE [Keep(p, GetEscapeChar(text[p.pos + 1])) EXCEPT !.pos = @ + 1]
      ELSE IF p.idx \in Nested THEN PutValue(p, "backslash") ELSE Failed(p)

\* A comment, wherever it stands, reaches to the end of its line or of the text.
SkipComment(p, text) ==
    LET end == SelectInSubSeq(text, p.pos + 1, Len(text), LAMBDA ch : ch = "newline")
    IN  [p EXCEPT !.pos = IF end = 0 THEN Len(text) ELSE end]

\* Mutant: a blank belongs to the key or value it stands in.
ConsumeBlank(p, text) ==
    LET ch == text[p.pos]
    IN  CASE ch = "backslash" -> Escape(p, text)
          [] ch = "#" /\ p.comments -> SkipComment(p, text)
          [] ch \in Structural(p.kind) -> Follow(p, ch)
          [] OTHER -> Ordinary(p, ch)

\* Blanks are dropped wherever they stand, within quotes too.
Consume(p, text) ==
    LET ch == text[p.pos]
    IN  CASE ch \in Blank -> p
          [] ch = "backslash" -> Escape(p, text)
          [] ch = "#" /\ p.comments -> SkipComment(p, text)
          [] ch \in Structural(p.kind) -> Follow(p, ch)
          [] OTHER -> Ordinary(p, ch)

------------------------------------------------------------------------------
(* What toRaw and toString write *)

\* Mutant: a comment sign is written as it is.
EscapeNoSign(ch) ==
    CASE ch = "newline" -> <<"backslash", "n">>
      [] ch \in {"backslash", "quote"} -> <<"backslash", ch>>
      [] OTHER -> <<ch>>

\* StringToJSONRaw
EscapeFor(ch) ==
    CASE ch = "newline" -> <<"backslash", "n">>
      [] ch \in {"backslash", "quote", "#"} -> <<"backslash", ch>>
      [] OTHER -> <<ch>>

StringToJSONRaw(str) ==
    <<"quote">> \o FlattenSeq([i \in 1..Len(str) |-> EscapeFor(str[i])]) \o <<"quote">>

CommaList(texts) ==
    FlattenSeq([i \in 1..Len(texts) |-> IF i = 1 THEN texts[i] ELSE <<",">> \o texts[i]])

ArrayToString(items) == <<"[">> \o CommaList(items) \o <<"]">>

ObjectToString(data, order) ==
    <<"{">>
    \o CommaList([i \in 1..Len(order) |-> StringToJSONRaw(order[i]) \o <<":">> \o data[order[i]]])
    \o <<"}">>

\* order_ and data_ after Parse_Impl_: each key is appended to the one, and
\* emplaced into the other, where the first value of a key stays.
OrderOf(pairs) == [i \in 1..Len(pairs) |-> pairs[i][1]]
DataOf(pairs) ==
    [key \in ToSet(OrderOf(pairs)) |->
       pairs[SelectInSeq(pairs, LAMBDA pair : pair[1] = key)][2]]

------------------------------------------------------------------------------
(* JSONItem(raw), and the parsers that call it *)

\* strtod reads the longest number at the front and ignores the rest; a zero
\* counts only when it is all there is.
Number(raw) ==
    LET sign == IF raw[1] = "-" THEN <<"-">> ELSE <<>>
        from == Len(sign) + 1
        to == SelectInSubSeq(Append(raw, "end"), from, Len(raw) + 1, LAMBDA ch : ch \notin Digits) - 1
        first == SelectInSubSeq(raw, from, to, LAMBDA ch : ch # "0")
    IN  IF first # 0 THEN sign \o SubSeq(raw, first, to)
        ELSE IF raw = <<"0">> THEN raw ELSE Invalid

\* A pair or an item is entered when its last character has been read and key
\* and value are not empty; else what has been read of the value stays there.
\* item gives the JSONItem of each text.
Enter(p, item) ==
    LET complete ==
          /\ p.idx \in (IF p.kind = "object" THEN {"KEY_FRONT", "NONE"} ELSE {"FRONT", "NONE"})
          /\ p.value # <<>> /\ (p.kind = "object" => p.key # <<>>)
    IN  IF ~complete THEN p
        ELSE IF item[p.value] = Invalid THEN Failed(p)
        ELSE [p EXCEPT !.pairs = Append(@, <<p.key, item[p.value]>>),
                       !.key = <<>>, !.value = <<>>]

Step(p, text, item) ==
    LET q == Enter(Consume(p, text), item) IN [q EXCEPT !.pos = @ + 1]

\* The parser after the whole text, or where it failed.
Run(p, text, item) ==
    LET after[i \in 0..Len(text)] ==
          IF i = 0 THEN p
          ELSE LET q == after[i - 1]
               IN  IF q.idx = "FAILED" \/ q.pos # i THEN q ELSE Step(q, text, item)
    IN  after[Len(text)]

ParseNested(kind, raw, item) == Run(NewParser(kind, FALSE), raw, item).pairs

NestedFails(kind, raw, item) == Run(NewParser(kind, FALSE), raw, item).idx # "NONE"

JSONItem[raw \in Seq(Chars)] ==
    CASE Head(raw) = "{" /\ Last(raw) = "}" ->
           IF NestedFails("object", raw, JSONItem) THEN Invalid
           ELSE LET pairs == ParseNested("object", raw, JSONItem)
                IN  ObjectToString(DataOf(pairs), OrderOf(pairs))
      [] Head(raw) = "[" /\ Last(raw) = "]" ->
           IF NestedFails("array", raw, JSONItem) THEN Invalid
           ELSE LET pairs == ParseNested("array", raw, JSONItem)
                IN  ArrayToString([i \in 1..Len(pairs) |-> pairs[i][2]])
      [] Head(raw) = "quote" /\ Last(raw) = "quote" ->
           StringToJSONRaw(SubSeq(raw, 2, Len(raw) - 1))
      [] Head(raw) \in Digits \cup {"-"} -> Number(raw)
      [] Len(raw) = 1 /\ Head(raw) \in Words -> raw
      [] OTHER -> Invalid
==============================================================================
