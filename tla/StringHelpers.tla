---------------------------- MODULE StringHelpers ----------------------------
(***************************************************************************)
(* The string helpers of utils/libcu.h.  A string is a sequence of         *)
(* characters.  Most helpers come in three overloads, whose delimiter is a *)
(* std::string ("string"), a char* ("chars") or one character ("char"):    *)
(* here a sequence of characters and the kind of the overload.             *)
(***************************************************************************)
EXTENDS Integers, SequencesExt

\* find and rfind; 0 stands for npos.
Occurrences(str, key) ==
    {i \in 1..(Len(str) - Len(key) + 1) : SubSeq(str, i, i + Len(key) - 1) = key}
Find(str, key) == LET at == Occurrences(str, key) IN IF at = {} THEN 0 ELSE Min(at)
RFind(str, key) == LET at == Occurrences(str, key) IN IF at = {} THEN 0 ELSE Max(at)

Before(str, pos) == SubSeq(str, 1, pos - 1)
From(str, pos) == SubSeq(str, pos, Len(str))

\* The strings an overload does not look into.
TooShort(str, delimiter) == delimiter = <<>> \/ Len(str) <= Len(delimiter)

\* The pieces between the delimiters, found from the left, one after another.
RECURSIVE Cut(_, _)
Cut(str, delimiter) ==
    LET pos == Find(str, delimiter)
    IN  IF pos = 0 THEN <<str>>
        ELSE <<Before(str, pos)>> \o Cut(From(str, pos + Len(delimiter)), delimiter)

\* Mutant: empty pieces are tokens too.
SplitEmpty(str, delimiter, kind) ==
    IF TooShort(str, delimiter) THEN <<>>
    ELSE Cut(IF kind = "char" THEN Front(str) \o delimiter ELSE str, delimiter)

\* Empty pieces are left out; the overload for a character ends a token at the
\* last character whether it is the delimiter or not, and leaves it out.
StrSplit(str, delimiter, kind) ==
    IF TooShort(str, delimiter) THEN <<>>
    ELSE SelectSeq(Cut(IF kind = "char" THEN Front(str) \o delimiter ELSE str, delimiter),
                   LAMBDA piece : piece # <<>>)

\* The loop of StrSplitAt: what is not empty is counted, up to the one asked for.
RECURSIVE PieceAt(_, _, _)
PieceAt(str, delimiter, count) ==
    LET pos == Find(str, delimiter)
        piece == IF pos = 0 THEN str ELSE Before(str, pos)
    IN  IF piece # <<>> /\ count = 0 THEN piece
        ELSE IF pos = 0 THEN <<>>
        ELSE PieceAt(From(str, pos + Len(delimiter)), delimiter,
                     IF piece = <<>> THEN count ELSE count - 1)

StrSplitAt(str, delimiter, targetCount, kind) ==
    IF TooShort(str, delimiter) THEN <<>>
    ELSE PieceAt(IF kind = "char" THEN Front(str) \o delimiter ELSE str, delimiter, targetCount)

\* The text before the first delimiter, or all of it.
SubPrevStr(str, delimiter, kind) ==
    LET pos == Find(str, delimiter)
        short == IF kind = "chars" THEN Len(str) < Len(delimiter) \/ delimiter = <<>>
                 ELSE TooShort(str, delimiter)
    IN  IF short \/ pos = 0 THEN str ELSE Before(str, pos)

\* Before the last delimiter.  The overload for a character runs off the front
\* of a string of two or more characters that has none: it is not called so.
SubRePrevStr(str, delimiter, kind) ==
    LET pos == RFind(str, delimiter)
        short == IF kind = "chars" THEN Len(str) < Len(delimiter) \/ delimiter = <<>>
                 ELSE TooShort(str, delimiter)
    IN  IF short \/ pos = 0 THEN str ELSE Before(str, pos)

\* The text after the first delimiter, or none.
SubPostStr(str, delimiter, kind) ==
    LET pos == Find(str, delimiter)
    IN  IF TooShort(str, delimiter) \/ pos = 0 THEN <<>> ELSE From(str, pos + Len(delimiter))

\* After the last delimiter; the overload for a character starts one before
\* the last character.
SubRePostStr(str, delimiter, kind) ==
    LET pos == RFind(IF kind = "char" THEN Front(str) ELSE str, delimiter)
    IN  IF TooShort(str, delimiter) \/ pos = 0 THEN <<>> ELSE From(str, pos + Len(delimiter))

StrContains(str, key) == Find(str, key) # 0
StrStartsWith(str, key) == key # <<>> /\ IsPrefix(key, str)
StrEndsWith(str, key) == key # <<>> /\ IsSuffix(key, str)

\* Blanks are taken out wherever they stand.
TrimStr(str, blanks) == SelectSeq(str, LAMBDA ch : ch \notin blanks)
==============================================================================
