------------------------------ MODULE JSONValues -----------------------------
(***************************************************************************)
(* What JSONItem, JSONArray and JSONObject promise a program that uses     *)
(* them: they are values.  A variable holds a tree that no other variable  *)
(* shares, so a call changes the variable it is made on (a move also the   *)
(* one moved from) and nothing else.                                       *)
(***************************************************************************)
EXTENDS Naturals, Sequences, SequencesExt

CONSTANTS Vars, Boxes, Scalars, Lengths, nullptr

VARIABLES kind,   \* which boxes are arrays, which objects
          item,   \* the tree each JSONItem variable holds
          box     \* the list of trees of each JSONArray, JSONObject variable

vars == <<kind, item, box>>

Leaf(i) == [type |-> i.type, value |-> i.value, list |-> <<>>]
Null == [type |-> "null", value |-> nullptr, list |-> <<>>]
Tree(type, list) == [type |-> type, value |-> nullptr, list |-> list]

Init ==
    /\ kind \in [Boxes -> {"array", "object"}]
    /\ item = [x \in Vars |-> Null]
    /\ box = [b \in Boxes |-> <<>>]

SetItem(x, tree) ==
    item' = [item EXCEPT ![x] = tree] /\ UNCHANGED box

SetBox(b, list) ==
    box' = [box EXCEPT ![b] = list] /\ UNCHANGED item

Assign(x) ==
    \/ SetItem(x, Null)
    \/ \E s \in Scalars : SetItem(x, Leaf(s))
    \/ \E y \in Vars : SetItem(x, item[y])
    \/ \E b \in Boxes : SetItem(x, Tree(kind[b], box[b]))
    \/ \E b \in Boxes : \E i \in DOMAIN box[b] : SetItem(x, box[b][i])

Move(x, y) ==
    item' = [item EXCEPT ![x] = item[y], ![y] = Null] /\ UNCHANGED box

MoveAt(x, b, i) ==
    /\ item' = [item EXCEPT ![x] = box[b][i]]
    /\ box' = [box EXCEPT ![b][i] = Null]

Convert(x, b) ==
    IF item[x].type = kind[b] THEN SetBox(b, item[x].list) ELSE UNCHANGED vars

MoveBox(b, c) ==
    /\ kind[b] = kind[c]
    /\ box' = [box EXCEPT ![b] = box[c], ![c] = <<>>]
    /\ UNCHANGED item

Resized(list, n) == [i \in 1..n |-> IF i <= Len(list) THEN list[i] ELSE Null]

Change(b) ==
    \/ \E x \in Vars : SetBox(b, Append(box[b], item[x]))
    \/ \E x \in Vars, i \in DOMAIN box[b] : SetBox(b, [box[b] EXCEPT ![i] = item[x]])
    \/ \E c \in Boxes \ {b} : kind[b] = kind[c] /\ SetBox(b, box[c])
    \/ \E c, d \in Boxes :
        c # d /\ {kind[b], kind[c], kind[d]} = {"array"} /\ SetBox(b, box[c] \o box[d])
    \/ SetBox(b, box[b])
    \/ kind[b] = "object" /\ \E i \in DOMAIN box[b] : SetBox(b, RemoveAt(box[b], i))
    \/ \E n \in Lengths : SetBox(b, Resized(box[b], n))

\* An element is found by its value, but for one of a type that owns memory.
\* A null may be missed: one that was moved from differs from the others.
RemoveItem(b, x) ==
    LET At == {i \in DOMAIN box[b] : box[b][i] = item[x]}
    IN  \/ /\ item[x].type \notin {"array", "object"}
           /\ \E i \in At :
                /\ item[x] # Null => \A j \in At : i <= j
                /\ SetBox(b, RemoveAt(box[b], i))
        \/ /\ At = {} \/ item[x].type \in {"null", "array", "object"}
           /\ UNCHANGED vars

Next ==
    \/ \E x \in Vars : Assign(x)
    \/ \E x, y \in Vars : Move(x, y)
    \/ \E x \in Vars, b \in Boxes : Convert(x, b) \/ RemoveItem(b, x)
    \/ \E x \in Vars, b \in Boxes : \E i \in DOMAIN box[b] : MoveAt(x, b, i)
    \/ \E b, c \in Boxes : MoveBox(b, c)
    \/ \E b \in Boxes : Change(b)

Spec == Init /\ [][Next /\ UNCHANGED kind]_vars
==============================================================================
