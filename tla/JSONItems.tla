------------------------------- MODULE JSONItems -------------------------------
(***************************************************************************)
(* utils/CuJSONObject.cpp: who owns the JSONArray or the JSONObject behind *)
(* the raw pointer in a JSONItem.                                          *)
(*                                                                         *)
(* A node is an array or an object on the heap; it holds its elements, an  *)
(* object the values of its keys in their order.  A program has variables  *)
(* of the three types and makes calls on them, one after the other.  A     *)
(* temporary is made and destroyed within a step.                          *)
(***************************************************************************)
EXTENDS Naturals, SequencesExt

CONSTANTS
    Vars,       \* the JSONItem variables
    Boxes,      \* the JSONArray and JSONObject variables
    Kinds,      \* which box is an "array", which an "object": the ways to choose
    Scalars,    \* items of the other types, records [type, value]
    Nodes,      \* bound: the nodes there may be at once
    MaxLength,  \* bound: how many elements each box may hold
    nullptr

Pointers == {"array", "object"}
ItemTypes == Pointers \cup {s.type : s \in Scalars}

ASSUME ItemAssumption ==
    /\ Kinds \subseteq [Boxes -> Pointers]
    /\ IsFiniteSet(Nodes) /\ nullptr \notin Nodes
    /\ \A s \in Scalars :
        /\ s = [type |-> s.type, value |-> s.value]
        /\ s.type \notin Pointers \cup {"null"} /\ s.value \notin Nodes
    /\ MaxLength \in [Boxes -> Nat]

VARIABLES
    kind,    \* which each box is, which never changes
    item,    \* type_ and value_ of each JSONItem variable
    box,     \* data_ of each JSONArray or JSONObject variable
    heap     \* data_ of each node that was made by new and not deleted

vars == <<kind, item, box, heap>>

Null == [type |-> "null", value |-> nullptr]

Init ==
    /\ kind \in Kinds
    /\ item = [x \in Vars |-> Null]
    /\ box = [b \in Boxes |-> <<>>]
    /\ heap = <<>>

------------------------------------------------------------------------------
(* Deleting and copying *)

\* The nodes that items own, and those that these own, and so on: what their
\* destructors delete and their copy constructors copy.
Held(items) == {items[i].value : i \in {j \in DOMAIN items : items[j].type \in Pointers}}

Reach(items) ==
    {n \in Nodes : \A C \in SUBSET Nodes :
        Held(items) \subseteq C /\ (\A m \in C \cap DOMAIN heap : Held(heap[m]) \subseteq C)
          => n \in C}

\* Where new may put the copies of the nodes items own, by the node copied.
Places(items) ==
    {f \in [Reach(items) -> Nodes \ DOMAIN heap] : IsInjective(f)}

Copied(items, f) ==
    [i \in DOMAIN items |->
        IF items[i].type \in Pointers THEN [items[i] EXCEPT !.value = f[@]] ELSE items[i]]

\* The heap once old has been destroyed and copies been made at f.
Heap(old, f) ==
    [n \in (DOMAIN heap \ Reach(old)) \cup Range(f) |->
        IF n \in Range(f) THEN Copied(heap[Inverse(f, DOMAIN f, Range(f))[n]], f) ELSE heap[n]]

Without(old) == [n \in DOMAIN heap \ Reach(old) |-> heap[n]]

------------------------------------------------------------------------------
(* JSONItem *)

\* A call that throws has changed nothing.
Throws == UNCHANGED vars

\* x is assigned a temporary made from something that owns no node.
AssignScalar(x) ==
    /\ item' \in {[item EXCEPT ![x] = s] : s \in Scalars \cup {Null}}
    /\ heap' = Without(<<item[x]>>)
    /\ UNCHANGED box

\* x = from, for an item that lives elsewhere than in x.
CopyTo(x, from) ==
    \E f \in Places(<<from>>) :
        /\ item' = [item EXCEPT ![x] = Head(Copied(<<from>>, f))]
        /\ heap' = Heap(<<item[x]>>, f)
        /\ UNCHANGED box

CopyAssign(x, y) == x # y /\ CopyTo(x, item[y])

\* Mutant: value_rv leaves the type as it was.
MoveKeepType(x, y) ==
    /\ x # y
    /\ item' = [item EXCEPT ![x] = item[y]]
    /\ heap' = Without(<<item[x]>>)
    /\ UNCHANGED box

MoveAssign(x, y) ==
    /\ x # y
    /\ item' = [item EXCEPT ![x] = item[y], ![y] = Null]
    /\ heap' = Without(<<item[x]>>)
    /\ UNCHANGED box

\* x = JSONItem(b): a new node, with a copy of what b holds, moved into x.
FromBox(x, b) ==
    \E f \in Places(box[b]) : \E n \in Nodes \ (DOMAIN heap \cup Range(f)) :
        /\ item' = [item EXCEPT ![x] = [type |-> kind[b], value |-> n]]
        /\ heap' = [m \in DOMAIN Heap(<<item[x]>>, f) \cup {n} |->
                        IF m = n THEN Copied(box[b], f) ELSE Heap(<<item[x]>>, f)[m]]
        /\ UNCHANGED box

------------------------------------------------------------------------------
(* JSONArray and JSONObject *)

\* b comes to hold kept, items it held before, and then copies of others.
Fill(b, kept, dropped, others) ==
    \E f \in Places(others) :
        /\ Len(kept) + Len(others) <= MaxLength[b]
        /\ box' = [box EXCEPT ![b] = kept \o Copied(others, f)]
        /\ heap' = Heap(dropped, f)
        /\ UNCHANGED item

\* b = x.toArray() or b = x.toObject()
ToBox(b, x) ==
    \/ item[x].type = kind[b] /\ Fill(b, <<>>, box[b], heap[item[x].value])
    \/ item[x].type # kind[b] /\ Throws

Add(b, x) == Fill(b, box[b], <<>>, <<item[x]>>)

CopyBox(b, c) == b # c /\ kind[b] = kind[c] /\ Fill(b, <<>>, box[b], box[c])

\* JSONArray b(std::move(c)), for a b whose last value has been destroyed.
MoveBox(b, c) ==
    /\ b # c /\ kind[b] = kind[c] /\ Len(box[c]) <= MaxLength[b]
    /\ box' = [box EXCEPT ![b] = box[c], ![c] = <<>>]
    /\ heap' = Without(box[b])
    /\ UNCHANGED item

\* b += c: what c holds goes to the end of b, but nothing when c is b.
PlusAssign(b, c) ==
    /\ b # c /\ kind[b] = "array" /\ kind[c] = "array"
    /\ Fill(b, box[b], <<>>, box[c])

\* b = c + d, which leaves out d when it is c.
Plus(b, c, d) ==
    /\ c # d /\ {kind[b], kind[c], kind[d]} = {"array"}
    /\ Fill(b, <<>>, box[b], box[c] \o box[d])

\* b = JSONArray(b.toListInt()), and so on: the elements must be of one type.
ListOf(b, type) == {box[b][i].type : i \in DOMAIN box[b]} \subseteq {type}

Rebuild(b, type) ==
    /\ kind[b] = "array"
    /\ \/ ListOf(b, type) /\ Fill(b, <<>>, box[b], box[b])
       \/ ~ListOf(b, type) /\ Throws

InBounds(b, i) == i \in DOMAIN box[b]

\* b[i] = x
SetAt(b, i, x) ==
    \/ /\ InBounds(b, i)
       /\ \E f \in Places(<<item[x]>>) :
            /\ box' = [box EXCEPT ![b][i] = Head(Copied(<<item[x]>>, f))]
            /\ heap' = Heap(<<box[b][i]>>, f)
            /\ UNCHANGED item
    \/ ~InBounds(b, i) /\ kind[b] = "array" /\ Throws

\* x = b.at(i)
GetAt(x, b, i) ==
    \/ InBounds(b, i) /\ CopyTo(x, box[b][i])
    \/ ~InBounds(b, i) /\ Throws

\* x = std::move(b[i])
MoveAt(x, b, i) ==
    /\ InBounds(b, i)
    /\ item' = [item EXCEPT ![x] = box[b][i]]
    /\ box' = [box EXCEPT ![b][i] = Null]
    /\ heap' = Without(<<item[x]>>)

Erase(b, i) == Fill(b, RemoveAt(box[b], i), <<box[b][i]>>, <<>>)

\* Mutant: operator== compares the types alone.
FoundByType(b, x) == {i \in DOMAIN box[b] : box[b][i].type = item[x].type}

Found(b, x) == {i \in DOMAIN box[b] : box[b][i] = item[x]}

\* remove(x) of an array: the first element that equals x, pointers and all.
\* An item moved from keeps its value_, so that it is null by its type but
\* equal to other nulls or not.
RemoveItem(b, x) ==
    /\ kind[b] = "array"
    /\ \/ \E i \in Found(b, x) :
            /\ item[x] = Null \/ \A j \in Found(b, x) : i <= j
            /\ Erase(b, i)
       \/ (Found(b, x) = {} \/ item[x] = Null) /\ Throws

\* remove(key) of an object
RemoveKey(b, i) == kind[b] = "object" /\ InBounds(b, i) /\ Erase(b, i)

\* resize of an array, and clear for n = 0
Resize(b, n) ==
    LET old == box[b]
    IN  /\ kind[b] = "array" \/ n = 0
        /\ Fill(b, SubSeq(old, 1, Min({n, Len(old)})), SubSeq(old, n + 1, Len(old)),
                [i \in 1..(IF n > Len(old) THEN n - Len(old) ELSE 0) |-> Null])

------------------------------------------------------------------------------
Next ==
    \/ \E x \in Vars : AssignScalar(x)
    \/ \E x, y \in Vars : CopyAssign(x, y) \/ MoveAssign(x, y)
    \/ \E b, c \in Boxes :
        \/ CopyBox(b, c) \/ MoveBox(b, c) \/ PlusAssign(b, c)
        \/ \E d \in Boxes : Plus(d, b, c)
    \/ \E b \in Boxes, type \in ItemTypes : Rebuild(b, type)
    \/ \E x \in Vars, b \in Boxes :
        \/ FromBox(x, b) \/ ToBox(b, x) \/ Add(b, x) \/ RemoveItem(b, x)
        \/ \E i \in 1..MaxLength[b] : SetAt(b, i, x) \/ GetAt(x, b, i) \/ MoveAt(x, b, i)
    \/ \E b \in Boxes : \E n \in 0..MaxLength[b] : Resize(b, n) \/ RemoveKey(b, n)

Spec == Init /\ [][Next /\ UNCHANGED kind]_vars

------------------------------------------------------------------------------
Position == UNION {1..MaxLength[b] : b \in Boxes}

Owns(i, n) == i.type \in Pointers /\ i.value = n

\* The places of the items that own n: a variable, or an element of a box or
\* of a node.
Owners(n) ==
    {x \in Vars : Owns(item[x], n)}
    \cup {p \in Boxes \X Position :
            p[2] \in DOMAIN box[p[1]] /\ Owns(box[p[1]][p[2]], n)}
    \cup {p \in (DOMAIN heap) \X Position :
            p[2] \in DOMAIN heap[p[1]] /\ Owns(heap[p[1]][p[2]], n)}

\* The nodes that the destructors of the variables would delete are those that
\* there are, and each is owned by one item: none is deleted twice, or used
\* after it was, and none is left that nothing will delete.
OwnedOnce ==
    /\ DOMAIN heap = UNION ({Reach(<<item[x]>>) : x \in Vars} \cup {Reach(box[b]) : b \in Boxes})
    /\ \A n \in DOMAIN heap : Cardinality(Owners(n)) = 1
==============================================================================
