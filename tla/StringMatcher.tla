----------------------------- MODULE StringMatcher ---------------------------
(***************************************************************************)
(* utils/CuStringMatcher.h: a text of rules like "a*|*(b|c[d-f])", read    *)
(* character by character, and the strings it matches.  A text is a        *)
(* sequence of characters.  (No file of the daemon uses it.)               *)
(***************************************************************************)
EXTENDS Integers, SequencesExt

\* The characters a set may range over, in their order; digits and capitals are
\* ranges of their own and like this one.
RangeLetters == <<"a", "b", "c", "d">>
LetterIndex(ch) == Max({i \in DOMAIN RangeLetters : RangeLetters[i] = ch})

\* Where ch is at pos or later; 0 for npos.
FindFrom(str, ch, pos) ==
    LET at == {i \in pos..Len(str) : str[i] = ch} IN IF at = {} THEN 0 ELSE Min(at)

\* Between two letters a hyphen stands for those between them.
GetCharset(content) ==
    FlattenSeq([i \in DOMAIN content |->
        IF content[i] = "-" /\ i \in 2..(Len(content) - 1)
             /\ {content[i - 1], content[i + 1]} \subseteq Range(RangeLetters)
          THEN SubSeq(RangeLetters, LetterIndex(content[i - 1]) + 1, LetterIndex(content[i + 1]) - 1)
          ELSE <<content[i]>>])

\* Each set, in all rules at once, becomes its characters in turn.  An empty
\* set leaves no rule, and the code then looks at the first one all the same:
\* here it comes to an end.
RECURSIVE ParseCharsets(_, _)
ParseCharsets(rules, pos) ==
    LET begin == FindFrom(rules[1], "[", pos)
        end == FindFrom(rules[1], "]", begin + 1)
        charSet == GetCharset(SubSeq(rules[1], begin + 1, end - 1))
        Expanded(rule) ==
            [i \in DOMAIN charSet |->
                SubSeq(rule, 1, begin - 1) \o <<charSet[i]>> \o SubSeq(rule, end + 1, Len(rule))]
    IN  IF rules = <<>> \/ begin = 0 \/ end = 0 THEN rules
        ELSE ParseCharsets(FlattenSeq([i \in DOMAIN rules |-> Expanded(rules[i])]), begin + 1)

\* The alternatives: a last one that is empty is left out.
RECURSIVE ParseRuleContent(_)
ParseRuleContent(content) ==
    LET bar == FindFrom(content, "|", 1)
        rule == IF bar = 0 THEN content ELSE SubSeq(content, 1, bar - 1)
        rest == IF bar = 0 THEN <<>> ELSE SubSeq(content, bar + 1, Len(content))
    IN  IF content = <<>> THEN <<>>
        ELSE (IF Contains(rule, "[") /\ Contains(rule, "]") THEN ParseCharsets(<<rule>>, 1)
              ELSE <<rule>>) \o ParseRuleContent(rest)

------------------------------------------------------------------------------
MatchIndex == {"FRONT", "MIDDLE", "BACK", "ENTIRE"}

NoRule == [idx |-> "RULE_FRONT", matchFront |-> TRUE, matchBack |-> TRUE, content |-> <<>>]

\* What is read of a rule, after one more character, which esc says was escaped.
\* A character that is not expected throws.
Read(rule, ch, esc) ==
    LET Put == [rule EXCEPT !.content = Append(@, ch),
                            !.idx = IF @ = "RULE_FRONT" THEN "RULE_CONTENT" ELSE @]
        Go(idx) == [rule EXCEPT !.idx = idx]
    IN  CASE esc \/ ch \notin {"*", "|", "(", ")"} -> Put
          [] ch = "*" /\ rule.idx = "RULE_FRONT" /\ rule.matchFront -> [rule EXCEPT !.matchFront = FALSE]
          [] ch = "*" /\ rule.idx = "RULE_CONTENT" /\ rule.matchBack -> [rule EXCEPT !.matchBack = FALSE]
          [] ch = "|" /\ rule.idx = "RULE_CONTENT" -> Go("RULE_BACK")
          [] ch = "|" /\ rule.idx = "RULE_SET" -> Put
          [] ch = "(" /\ rule.idx = "RULE_FRONT" -> Go("RULE_SET")
          [] ch = ")" /\ rule.idx = "RULE_SET" -> Go("RULE_CONTENT")
          [] OTHER -> Go("throws")

\* Where the keys of a rule are kept.
IndexOf(rule) ==
    CASE rule.matchFront /\ rule.matchBack -> "ENTIRE"
      [] rule.matchFront /\ ~rule.matchBack -> "FRONT"
      [] ~rule.matchFront /\ rule.matchBack -> "BACK"
      [] OTHER -> "MIDDLE"

NoMatcher == [throws |-> FALSE, matchAll |-> FALSE, matchRule |-> [i \in MatchIndex |-> <<>>]]
Throw == [NoMatcher EXCEPT !.throws = TRUE]

RECURSIVE ReadFrom(_, _, _, _)
ReadFrom(ruleText, pos, rule, m) ==
    LET esc == ruleText[pos] = "\\"
        last == IF esc THEN pos + 1 ELSE pos
        next == Read(rule, ruleText[last], esc)
        done == next.idx = "RULE_BACK" \/ last = Len(ruleText)
    IN  IF pos > Len(ruleText) THEN m
        ELSE IF last > Len(ruleText) \/ next.idx = "throws" THEN Throw
        ELSE ReadFrom(ruleText, last + 1, IF done THEN NoRule ELSE next,
                      IF ~done THEN m
                      ELSE [m EXCEPT !.matchRule[IndexOf(next)] = @ \o ParseRuleContent(next.content)])

StringMatcher(ruleText) ==
    IF ruleText = <<"*">> THEN [NoMatcher EXCEPT !.matchAll = TRUE]
    ELSE ReadFrom(ruleText, 1, NoRule, NoMatcher)

Match(m, str) ==
    LET keys == [i \in MatchIndex |-> Range(m.matchRule[i])]
    IN  \/ m.matchAll
        \/ str # <<>> /\ \/ \E key \in keys["FRONT"] : IsPrefix(key, str)
                         \/ \E key \in keys["BACK"] : IsSuffix(key, str)
                         \/ str \in keys["ENTIRE"]
                         \/ \E key \in keys["MIDDLE"] :
                              \E i \in 1..(Len(str) - Len(key) + 1) :
                                SubSeq(str, i, i + Len(key) - 1) = key
==============================================================================
