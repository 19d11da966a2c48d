----------------------------- MODULE ListHelpers -----------------------------
(***************************************************************************)
(* The searches of utils/libcu.h in a list of numbers.  Each is one pass   *)
(* that keeps the best position so far; 0 stands for end().                *)
(***************************************************************************)
EXTENDS Integers, SequencesExt

\* numeric_limits::max(), greater than every difference.
MaxDiff == 1000

Distance(a, b) == IF a < b THEN b - a ELSE a - b

\* The pass: from the first position on, a later one is kept if it scores more.
Pass(scores) ==
    IF scores = <<>> THEN 0
    ELSE FoldLeftDomain(LAMBDA best, i : IF scores[i] > scores[best] THEN i ELSE best, 1, scores)

MaxIter(list) == Pass(list)

MinIter(list) == Pass([i \in DOMAIN list |-> -list[i]])

ApproxIter(list, target) == Pass([i \in DOMAIN list |-> -Distance(list[i], target)])

\* The pass that keeps a position and minDiff, starting from a position that
\* stays when no difference qualifies.
DiffPass(diffs, start) ==
    IF diffs = <<>> THEN 0
    ELSE FoldLeftDomain(
           LAMBDA best, i : IF diffs[i] >= 0 /\ diffs[i] < best.diff THEN [pos |-> i, diff |-> diffs[i]] ELSE best,
           [pos |-> start, diff |-> MaxDiff], diffs).pos

ApproxGreaterIter(list, target) == DiffPass([i \in DOMAIN list |-> list[i] - target], Len(list))

ApproxLesserIter(list, target) == DiffPass([i \in DOMAIN list |-> target - list[i]], 1)
==============================================================================
