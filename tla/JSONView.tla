------------------------------- MODULE JSONView -------------------------------
(***************************************************************************)
(* What a program sees of the items, arrays and objects of JSONItems: the  *)
(* trees that its variables hold, with the lists of the nodes in the place *)
(* of pointers to them.                                                    *)
(***************************************************************************)
EXTENDS JSONItems

\* The tree an item stands for, given the lists of trees its nodes stand for.
TreeOf(i, lists) ==
    [type |-> i.type,
     value |-> IF i.type \in Pointers \cup {"null"} THEN nullptr ELSE i.value,
     list |-> IF i.type \in Pointers /\ i.value \in DOMAIN lists THEN lists[i.value] ELSE <<>>]

TreesOf(items, lists) == [i \in DOMAIN items |-> TreeOf(items[i], lists)]

\* The lists of all nodes to a depth; no list is deeper than there are nodes.
Lists[depth \in 0..Cardinality(Nodes)] ==
    IF depth = 0 THEN <<>>
    ELSE LET below == Lists[depth - 1]
         IN  [n \in DOMAIN heap |-> TreesOf(heap[n], below)]

View ==
    LET lists == Lists[Cardinality(Nodes)]
    IN  [item |-> TreesOf(item, lists), box |-> [b \in Boxes |-> TreesOf(box[b], lists)]]

\* View, kept in a variable to be computed once in each step.
VARIABLE view

ViewInit == Init /\ view = View
ViewNext == Next /\ UNCHANGED kind /\ view' = View'
ViewSpec == ViewInit /\ [][ViewNext]_<<vars, view>>

Values == INSTANCE JSONValues WITH
    item <- view.item, box <- view.box, Lengths <- Position \cup {0}

\* However items are copied, moved, put into one another and taken out, they
\* behave as values: no call changes what another variable holds.
ImplementsValues == Values!Spec
==============================================================================
