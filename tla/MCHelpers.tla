------------------------------ MODULE MCHelpers ------------------------------
(* A pair list of numbers.  The values it comes to hold are every sequence  *)
(* of up to MaxSize numbers: the lists and the strings for which the pure   *)
(* helpers are compared with what they should return (by MCContainers).     *)
EXTENDS PairList, ListHelpers, StringHelpers, Format, StringMatcher

Delimiters == {[kind |-> "char", str |-> <<0>>]}
    \cup {[kind |-> k, str |-> s] : k \in {"string", "chars"}, s \in {<<0>>, <<0, 0>>, <<0, 1>>}}

\* MaxIter, by which UpdatePolicy_ falls back to the highest rate, and its
\* siblings: the first of the greatest and of the least, the first of the
\* nearest, and the nearest that is not below, or not above, the target.
SearchesChoose ==
    values # <<>> =>
        LET first == Min({i \in DOMAIN values : \A j \in DOMAIN values : values[j] <= values[i]})
            least == Min({i \in DOMAIN values : \A j \in DOMAIN values : values[j] >= values[i]})
        IN  /\ MaxIter(values) = first /\ MinIter(values) = least
            /\ \A t \in 0..2 :
                 LET near == {i \in DOMAIN values : \A j \in DOMAIN values :
                                Distance(values[i], t) <= Distance(values[j], t)}
                     up == {v \in ToSet(values) : v >= t}
                     down == {v \in ToSet(values) : v <= t}
                 IN  /\ ApproxIter(values, t) = Min(near)
                     /\ up # {} => values[ApproxGreaterIter(values, t)] = Min(up)
                     /\ down # {} => values[ApproxLesserIter(values, t)] = Max(down)

\* The lines of a dump: the tokens, between delimiters, make up the string, but
\* for its last character when the delimiter is a character; no token is empty
\* or has a delimiter in it; StrSplitAt, which has loops of its own, finds the
\* same ones.
SplitKeepsText ==
    \A d \in Delimiters :
        Len(values) > Len(d.str) =>
            LET tokens == StrSplit(values, d.str, d.kind)
                rest == IF d.kind = "char" THEN Front(values) ELSE values
            IN  /\ \A i \in DOMAIN tokens :
                     tokens[i] # <<>> /\ ~StrContains(tokens[i], d.str)
                /\ \A i \in 0..Len(tokens) :
                     StrSplitAt(values, d.str, i, d.kind) = IF i < Len(tokens) THEN tokens[i + 1] ELSE <<>>
                /\ Len(d.str) = 1 => FlattenSeq(tokens) = TrimStr(rest, {0})
                /\ Len(d.str) = 1 =>
                     Len(tokens) = Cardinality({i \in DOMAIN rest :
                                      rest[i] # 0 /\ (i = 1 \/ rest[i - 1] = 0)})

\* The fields of a mode line: what is cut off before and after a delimiter and
\* the delimiter make up the string, at the first and at the last occurrence;
\* the overload for a character overlooks one at the very end.
CutsRejoin ==
    \A d \in Delimiters :
        Len(values) > Len(d.str) /\ StrContains(values, d.str) =>
            LET prev == SubPrevStr(values, d.str, d.kind)
                post == SubPostStr(values, d.str, d.kind)
                rePrev == SubRePrevStr(values, d.str, d.kind)
                rePost == SubRePostStr(values, d.str, d.kind)
            IN  /\ prev \o d.str \o post = values /\ ~StrContains(prev, d.str)
                /\ StrStartsWith(values, d.str) <=> prev = <<>>
                /\ ~(d.kind = "char" /\ StrEndsWith(values, d.str)) =>
                     rePrev \o d.str \o rePost = values /\ ~StrContains(rePost, d.str)

\* A text of rules, in which the value 1 is a star and 2 ends a rule; the other
\* two are a character and a set of some.
RuleText(letter) ==
    FlattenSeq([i \in DOMAIN values |->
        <<letter, <<"*">>, <<"|">>, <<"[", "b", "-", "d", "]">>>>[values[i] + 1]])

\* Its rules, each some values; and those that have a star at their ends alone.
RulesRead == {SubSeq(values, i, j) : <<i, j>> \in
            {p \in (1..Len(values)) \X (1..Len(values)) :
                /\ p[1] <= p[2] /\ (p[1] = 1 \/ values[p[1] - 1] = 2)
                /\ p[2] = Len(values) \/ values[p[2] + 1] = 2
                /\ \A k \in p[1]..p[2] : values[k] # 2}}
Inner(rule) == SelectSeq(rule, LAMBDA v : v # 1)
WellFormed(rule) ==
    Inner(rule) # <<>> /\ \A i \in 2..(Len(rule) - 1) : rule[i] # 1

Strings == {<<"a">>, <<"c">>, <<"a", "c">>, <<"c", "a">>, <<"d", "a", "b">>, <<"a", "a", "b">>}

\* A rule is found at the front, at the back, anywhere or as the whole string,
\* by where its stars are; front and back add to those.
Finds(rule, str, front, back) ==
    \E i \in 1..Len(str) :
        LET j == i + Len(Inner(rule)) - 1
        IN  /\ j <= Len(str) /\ \A k \in i..j : (Inner(rule)[k - i + 1] = 0) <=> (str[k] = "a")
            /\ i = 1 \/ front \/ Head(rule) = 1
            /\ j = Len(str) \/ back \/ Last(rule) = 1

\* A group of the rules, with an escaped parenthesis for the letter.
Group(front, back) ==
    (IF front THEN <<"*">> ELSE <<>>) \o <<"(">> \o RuleText(<<"\\", "(">>) \o <<")">>
        \o (IF back THEN <<"*">> ELSE <<>>)

\* A matcher matches what one of its rules does; stars around a group of rules
\* are stars of each, and an escaped character has no meaning of its own; a
\* rule with two stars next to each other throws.
MatchesRules ==
    LET m == StringMatcher(RuleText(<<"a">>))
    IN  /\ StrContains(values, <<1, 1>>) => m.throws
        /\ Len(values) \in 1..5 /\ values[1] # 2 /\ ~StrContains(values, <<2, 2>>)
             /\ (\A r \in RulesRead : WellFormed(r)) =>
             \A str \in Strings :
               /\ Match(m, str) <=> \E r \in RulesRead : Finds(r, str, FALSE, FALSE)
               /\ ~Contains(values, 1) =>
                    \A front, back \in BOOLEAN :
                      Match(StringMatcher(Group(front, back)),
                            [i \in DOMAIN str |-> IF str[i] = "a" THEN "(" ELSE str[i]])
                        <=> \E r \in RulesRead : Finds(r, str, front, back)

\* Searches, tokens, cuts and matches are what their reference definitions say.
HelpersAgree == SearchesChoose /\ SplitKeepsText /\ CutsRejoin /\ MatchesRules

\* The values as characters.
Text == [i \in DOMAIN values |-> <<"{", "}", ":", "1">>[values[i] + 1]]

\* A text as it is written in a format.
Escaped(text) == FlattenSeq([i \in DOMAIN text |->
    IF text[i] \in {"{", "}"} THEN <<text[i], text[i]>> ELSE <<text[i]>>])

\* The commands, paths and log lines: a format with its braces doubled is the
\* text, and rules in it become their arguments, the second one also by its
\* number, cut to the length asked for; a missing argument throws.
RulesExpand ==
    \A i \in 0..Len(Text), size \in 0..2 :
        LET before == SubSeq(Text, 1, i)
            after == SubSeq(Text, i + 1, Len(Text))
            Rules(second) == Escaped(before) \o <<"{", "}">> \o Escaped(after) \o second
            sized == <<":", DigitChars[size + 1], "}">>
            args == <<<<"x", "y">>, <<"{", "}">>>>
        IN  /\ Format(Escaped(Text), args) = Text
            /\ \A second \in {<<"{">> \o sized, <<"{", "1">> \o sized} :
                 Format(Rules(second), args)
                   = before \o args[1] \o after \o SubSeq(args[2], 1, size)
            /\ Format(Rules(<<"{", "}">>), SubSeq(args, 1, 1)) = Throws

\* An argument of up to ObjectSize characters is copied, and so is any text but
\* one of more than ItemSize that stands before a rule: those are moved.
LongTexts ==
    LET Long(n) == [i \in 1..n |-> "x"]
        rule == <<"{", "}">>
        text == Escaped(Text)
    IN  /\ \A n \in {32, 33, 56, 57} :
             Format(text \o rule, <<Long(n)>>) = IF n > 56 THEN Undefined ELSE Text \o Long(n)
        /\ Format(text \o Long(60) \o rule, <<rule>>)
             = IF Len(Text) > 4 THEN Undefined ELSE Text \o Long(60) \o rule
        /\ Format(rule \o text \o Long(60), <<rule>>) = rule \o Text \o Long(60)

\* The buffer after some calls, one for each value; and its length by itself.
Calls(n) ==
    FoldLeft(LAMBDA b, v : CASE v = 0 -> AppendChar(b) [] v = 1 -> Move(AppendText(b, 16))
                             [] v = 2 -> AppendText(b, 31) [] v = 3 -> Shrink(b, 15),
             NewBuffer, SubSeq(values, 1, n))
Grown(n) ==
    FoldLeft(LAMBDA length, v : IF v = 3 THEN Min({15, length}) ELSE length + <<1, 16, 31>>[v + 1],
             0, SubSeq(values, 1, n))

\* However a text grows, it is within what is allocated for it; a move stays
\* within its object exactly as long as no text longer than that is moved.
BufferHolds ==
    LET buffer == Calls(Len(values))
    IN  /\ Fits(buffer) /\ buffer.length = Grown(Len(values))
        /\ buffer.copied <= ObjectSize <=>
             \A n \in DOMAIN values : values[n] = 1 => Grown(n) <= ObjectSize

\* What Format returns is the format with its rules replaced, unless it moves a
\* text longer than the object that holds it, and exactly then it writes outside
\* of that object; appended to, a text stays within its buffer; and a number is
\* read as it was written.
FormatExpands ==
    /\ RulesExpand /\ LongTexts /\ BufferHolds
    /\ LET n == FoldLeft(LAMBDA sum, v : sum * 4 + v, 0, values)
       IN  StringToInt(IntToString(n)) = n /\ IntToString(-n - 1) = <<"-">> \o IntToString(n + 1)
==============================================================================
