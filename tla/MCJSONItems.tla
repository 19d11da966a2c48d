----------------------------- MODULE MCJSONItems -----------------------------
(* Two JSONItem variables and two boxes, with one scalar value.             *)
EXTENDS JSONView

CONSTANTS long, short

MCLength == long :> 2 @@ short :> 1
MCKinds ==
    {long :> "array" @@ short :> "array", long :> "array" @@ short :> "object"}
MCScalars == {[type |-> "integer", value |-> 1]}

\* Nodes can trade places, and so can the two variables.
Interchangeable == Permutations(Nodes) \cup Permutations(Vars)
==============================================================================
