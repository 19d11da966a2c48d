-------------------------------- MODULE Format -------------------------------
(***************************************************************************)
(* utils/CuFormat.h: Format, which every command, path and log line of the *)
(* daemon is made with, and the growth of the buffer it writes to.  A text *)
(* is a sequence of characters; the arguments are texts already.           *)
(***************************************************************************)
EXTENDS Integers, SequencesExt

DigitChars == <<"0", "1", "2", "3", "4", "5", "6", "7", "8", "9">>
IsDigit(ch) == Contains(DigitChars, ch)

\* The digits at the front of a text, if there are any.
StringToInt(str) ==
    LET digits == SubSeq(str, 1, Min({i \in 1..(Len(str) + 1) :
                                        i = Len(str) + 1 \/ ~IsDigit(str[i])}) - 1)
    IN  FoldLeft(LAMBDA value, ch : value * 10 + IndexFirstSubSeq(<<ch>>, DigitChars) - 1, 0, digits)

RECURSIVE Digits(_)
Digits(n) == IF n = 0 THEN <<>> ELSE Append(Digits(n \div 10), DigitChars[(n % 10) + 1])

IntToString(n) ==
    IF n = 0 THEN <<"0">> ELSE IF n > 0 THEN Digits(n) ELSE <<"-">> \o Digits(-n)

\* The first ch at pos or later; 0 for npos.
FindChar(str, ch, pos) ==
    LET at == {i \in pos..Len(str) : str[i] = ch} IN IF at = {} THEN 0 ELSE Min(at)

------------------------------------------------------------------------------
(* A format is read into items: some text, and the argument that follows.   *)

None == -1
Unlimited == 2147483647  \* INT_MAX
NewItem == [content |-> <<>>, arg |-> None, max |-> Unlimited]

Throws == <<"FormatExcept">>

PutChar(items, ch) == [items EXCEPT ![Len(items)].content = Append(@, ch)]

PutRule(items, arg, max) ==
    Append([items EXCEPT ![Len(items)].arg = arg, ![Len(items)].max = max], NewItem)

\* Mutant: each rule takes the first argument.
ReadRuleFirst(format, pos, items) ==
    LET ch == format[pos]
    IN  IF ch = "}" THEN PutRule(items, 0, Unlimited)
        ELSE PutRule(items, 0, StringToInt(SubSeq(format, pos + 1, Len(format))))

\* The rule whose second character is at pos.  One without a number takes the
\* argument of its own position.
ReadRule(format, pos, items) ==
    LET ch == format[pos]
        rest == SubSeq(format, pos, Len(format))
        colon == FindChar(format, ":", pos + 1)
        hasSize == colon # 0 /\ colon < FindChar(format, "}", pos + 1)
        size == StringToInt(SubSeq(format, (IF ch = ":" THEN pos ELSE colon) + 1, Len(format)))
    IN  CASE ch = "}" -> PutRule(items, Len(items) - 1, Unlimited)
          [] ch = ":" -> PutRule(items, Len(items) - 1, size)
          [] IsDigit(ch) -> PutRule(items, StringToInt(rest), IF hasSize THEN size ELSE Unlimited)

\* The items, and how the loop ends.  The search for the end of a rule that is
\* not closed yields npos, to which one is added: the loop begins again with
\* the first character, and so on for ever.
RECURSIVE Scan(_, _, _)
Scan(format, pos, items) ==
    LET ch == IF pos > Len(format) THEN "end" ELSE format[pos]
        next == IF pos >= Len(format) THEN "end" ELSE format[pos + 1]
        close == FindChar(format, "}", pos + 1)
    IN  CASE ch = "end" -> [items |-> items, end |-> <<>>]
          [] ch = "{" /\ next = "{" -> Scan(format, pos + 2, PutChar(items, "{"))
          [] ch = "{" /\ (next \in {"}", ":"} \/ IsDigit(next)) ->
                 IF close = 0 THEN [items |-> items, end |-> <<"loops">>]
                 ELSE Scan(format, close + 1, ReadRule(format, pos + 1, items))
          [] ch = "}" /\ next = "}" -> Scan(format, pos + 2, PutChar(items, "}"))
          [] ch \notin {"{", "}"} \/ (ch = "{" /\ next = "end") ->
                 Scan(format, pos + 1, PutChar(items, ch))
          [] OTHER -> [items |-> items, end |-> Throws]

\* An item after what is already expanded.  A length cuts the argument itself,
\* so a later rule that uses it finds it cut.
PutItem(done, item) ==
    LET arg == done.args[item.arg + 1]
        cut == SubSeq(arg, 1, Min({item.max, Len(arg)}))
    IN  IF done.text = Throws THEN done
        ELSE IF item.arg = None THEN [done EXCEPT !.text = @ \o item.content]
        ELSE IF item.arg >= Len(done.args) THEN [done EXCEPT !.text = Throws]
        ELSE [text |-> done.text \o item.content \o cut,
              args |-> [done.args EXCEPT ![item.arg + 1] = cut]]

\* The move constructor copies the characters from one stack_buffer to the other
\* whether they are there or on the heap.  Those beyond the buffer fall on the
\* members after it, which are the same in both: ObjectSize is sizeof of the
\* string with them, ItemSize that of an item, whose own members follow.  A
\* longer text is written outside the object, and what comes of it is undefined.
ObjectSize == 56
ItemSize == 64
Undefined == <<"undefined">>

\* The items moved to a larger vector, whose capacity doubles.
Relocated(items) ==
    SubSeq(items, 1, Max({0} \cup {n \in {2^k : k \in 0..Len(items)} : n < Len(items)}))

\* Without arguments the format is the text, braces and all.  Each argument is
\* moved into the list of them.
Format(format, args) ==
    LET scan == Scan(format, 1, <<NewItem>>)
        long == \E item \in ToSet(Relocated(scan.items)) : Len(item.content) > ItemSize
    IN  IF args = <<>> THEN format
        ELSE IF long THEN Undefined
        ELSE IF scan.end # <<>> THEN scan.end
        ELSE IF \E arg \in ToSet(args) : Len(arg) > ObjectSize THEN Undefined
        ELSE FoldLeft(PutItem, [text |-> <<>>, args |-> args], scan.items).text

------------------------------------------------------------------------------
(* _Format_String: a buffer of StackSize bytes within it, or one on the heap *)

StackSize == 32
NewBuffer == [length |-> 0, capacity |-> StackSize, allocated |-> StackSize, copied |-> 0]

Expand(b, size) ==
    IF size < b.capacity THEN b
    ELSE [b EXCEPT !.capacity = size,
                   !.allocated = IF size > StackSize \/ @ # StackSize THEN size ELSE @]

AppendText(b, n) ==
    [(IF b.length + n + 1 > b.capacity THEN Expand(b, b.capacity + b.length + n) ELSE b)
        EXCEPT !.length = @ + n]

AppendChar(b) ==
    [(IF b.length + 1 >= b.capacity THEN Expand(b, b.capacity * 2) ELSE b)
        EXCEPT !.length = @ + 1]

Shrink(b, n) == [b EXCEPT !.length = Min({n, @})]

\* copied is the most that a move has copied between two stack_buffers.
Move(b) == [b EXCEPT !.copied = Max({@, b.length})]

\* The characters and the zero at their end are within what is allocated.
Fits(b) == b.length + 1 <= b.capacity /\ b.capacity <= b.allocated
==============================================================================
