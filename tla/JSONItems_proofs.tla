---------------------------- MODULE JSONItems_proofs ---------------------------
(***************************************************************************)
(* Proofs about JSONItems, for any variables, boxes, scalars and nodes.    *)
(*                                                                         *)
(* The pointers of the items make a forest: its roots are the nodes that   *)
(* variables and boxes own, and every node that is no root is owned by     *)
(* one element of one node.  A forest of finitely many nodes is no deeper  *)
(* than these are many, so the lists of trees that the view is made of are *)
(* complete, and each call changes them as the call on values does.        *)
(***************************************************************************)
EXTENDS JSONView, FiniteSetTheorems, SequenceTheorems, WellFoundedInduction, TLAPS

\* Kids gives the nodes that the elements of each node own.
Closed(kids, C) == \A m \in C \cap DOMAIN kids : kids[m] \subseteq C

\* What can be reached from the nodes in S.
From(kids, S) ==
    {n \in Nodes : \A C \in SUBSET Nodes : S \subseteq C /\ Closed(kids, C) => n \in C}

\* Every node has one owner and is reached from a root.
Forest(kids, roots) ==
    /\ DOMAIN kids \subseteq Nodes /\ roots \subseteq DOMAIN kids
    /\ \A m \in DOMAIN kids : kids[m] \subseteq DOMAIN kids \ roots
    /\ \A m, n \in DOMAIN kids : m = n \/ kids[m] \cap kids[n] = {}
    /\ DOMAIN kids \subseteq From(kids, roots)

\* No two of these items own the same node.
Distinct(items) ==
    \A i, j \in {k \in DOMAIN items : items[k].type \in Pointers} :
        items[i].value = items[j].value => i = j

Item == [type : Pointers, value : Nodes] \cup Scalars \cup {Null}

\* What new makes and delete leaves: each node has its list, which owns no node twice.
HeapOK(h) ==
    /\ h = [n \in DOMAIN h |-> h[n]]
    /\ \A n \in DOMAIN h :
         h[n] \in Seq(Item) /\ DOMAIN h[n] \subseteq Position /\ Distinct(h[n])

KidsIn(h) == [n \in DOMAIN h |-> Held(h[n])]

TypeInv ==
    /\ kind \in [Boxes -> Pointers]
    /\ item \in [Vars -> Item] /\ box \in [Boxes -> Seq(Item)]
    /\ \A b \in Boxes : Len(box[b]) <= MaxLength[b] /\ Distinct(box[b])
    /\ HeapOK(heap)

Own(x) == Held(<<item[x]>>)
Roots == UNION ({Own(x) : x \in Vars} \cup {Held(box[b]) : b \in Boxes})

\* No two variables own the same node.
RootInv ==
    /\ \A x, y \in Vars : x = y \/ Own(x) \cap Own(y) = {}
    /\ \A x \in Vars, b \in Boxes : Own(x) \cap Held(box[b]) = {}
    /\ \A b, c \in Boxes : b = c \/ Held(box[b]) \cap Held(box[c]) = {}

IInv == TypeInv /\ RootInv /\ Forest(KidsIn(heap), Roots)

------------------------------------------------------------------------------
(* Forests *)

\* The destructor of an item gets at the nodes it owns and at their kids.
LEMMA FromCloses ==
    ASSUME NEW kids, NEW S \in SUBSET Nodes, \A m \in DOMAIN kids : kids[m] \subseteq Nodes
    PROVE  S \subseteq From(kids, S) /\ From(kids, S) \subseteq Nodes /\ Closed(kids, From(kids, S))
  <1>1. S \subseteq From(kids, S) /\ From(kids, S) \subseteq Nodes
    BY DEF From
  <1>2. ASSUME NEW m \in From(kids, S) \cap DOMAIN kids, NEW n \in kids[m]
        PROVE  n \in From(kids, S)
    <2>1. ASSUME NEW C \in SUBSET Nodes, S \subseteq C, Closed(kids, C) PROVE n \in C
      <3>1. m \in C
        BY <1>2, <2>1 DEF From
      <3> QED
        BY <1>2, <2>1, <3>1 DEF Closed
    <2> QED
      BY <1>2, <2>1 DEF From
  <1> QED
    BY <1>1, <1>2 DEF Closed

\* And at no others.
LEMMA FromLeast ==
    ASSUME NEW kids, NEW S, NEW C \in SUBSET Nodes, S \subseteq C, Closed(kids, C)
    PROVE  From(kids, S) \subseteq C
  BY DEF From

\* A node is got at as one of the first or from its owner.
LEMMA FromOwner ==
    ASSUME NEW kids, NEW S \in SUBSET Nodes, \A m \in DOMAIN kids : kids[m] \subseteq Nodes,
           NEW n \in From(kids, S), n \notin S
    PROVE  \E m \in From(kids, S) \cap DOMAIN kids : n \in kids[m]
  <1> SUFFICES ASSUME \A m \in From(kids, S) \cap DOMAIN kids : n \notin kids[m] PROVE FALSE
    OBVIOUS
  <1> DEFINE C == From(kids, S) \ {n}
  <1>1. S \subseteq C /\ C \in SUBSET Nodes
    BY FromCloses
  <1>2. Closed(kids, C)
    BY FromCloses DEF Closed
  <1>3. From(kids, S) \subseteq C
    BY <1>1, <1>2, FromLeast
  <1> QED
    BY <1>3

\* What the roots in O get at is apart from what the others do.
LEMMA ForestSplits ==
    ASSUME NEW kids, NEW K, NEW O, Forest(kids, K \cup O), K \cap O = {}
    PROVE  /\ From(kids, K) \cap From(kids, O) = {}
           /\ From(kids, K) \cup From(kids, O) = DOMAIN kids
  <1>1. /\ K \in SUBSET Nodes /\ O \in SUBSET Nodes
        /\ \A m \in DOMAIN kids : kids[m] \subseteq Nodes
        /\ DOMAIN kids \in SUBSET Nodes /\ Closed(kids, DOMAIN kids)
        /\ K \subseteq DOMAIN kids /\ O \subseteq DOMAIN kids
    BY DEF Forest, Closed
  <1>2. From(kids, K) \subseteq DOMAIN kids /\ From(kids, O) \subseteq DOMAIN kids
    BY <1>1, FromLeast
  <1>3. ASSUME NEW n \in From(kids, K) \cap From(kids, O) PROVE FALSE
    <2> DEFINE C == From(kids, O) \ From(kids, K)
    <2>1. O \cap From(kids, K) = {}
      <3>1. ASSUME NEW m \in O \cap From(kids, K) PROVE FALSE
        <4>1. \E p \in From(kids, K) \cap DOMAIN kids : m \in kids[p]
          BY <1>1, <3>1, FromOwner
        <4> QED
          BY <3>1, <4>1 DEF Forest
      <3> QED
        BY <3>1
    <2>2. O \subseteq C /\ C \in SUBSET Nodes
      BY <1>1, <2>1, FromCloses
    <2>3. Closed(kids, C)
      <3>1. ASSUME NEW m \in C \cap DOMAIN kids, NEW c \in kids[m] PROVE c \in C
        <4>1. c \in From(kids, O)
          BY <1>1, <3>1, FromCloses DEF Closed
        <4>2. ASSUME c \in From(kids, K) PROVE FALSE
          <5>1. c \notin K
            BY <3>1 DEF Forest
          <5>2. PICK p \in From(kids, K) \cap DOMAIN kids : c \in kids[p]
            BY <1>1, <4>2, <5>1, FromOwner
          <5>3. p = m
            BY <3>1, <5>2 DEF Forest
          <5> QED
            BY <3>1, <5>2, <5>3
        <4> QED
          BY <4>1, <4>2
      <3> QED
        BY <3>1 DEF Closed
    <2>4. From(kids, O) \subseteq C
      BY <2>2, <2>3, FromLeast
    <2> QED
      BY <1>3, <2>4
  <1>4. DOMAIN kids \subseteq From(kids, K) \cup From(kids, O)
    <2> DEFINE C == From(kids, K) \cup From(kids, O)
    <2>1. C \in SUBSET Nodes /\ K \cup O \subseteq C /\ Closed(kids, C)
      BY <1>1, FromCloses DEF Closed
    <2>2. From(kids, K \cup O) \subseteq C
      BY <2>1, FromLeast
    <2> QED
      BY <2>2 DEF Forest
  <1> QED
    BY <1>2, <1>3, <1>4

\* A call destroys what the roots in O own, keeps those in K, and copies what S
\* gets at to other places of the heap.
Call(kids, K, O, S, f, new) ==
    /\ Forest(kids, K \cup O) /\ K \cap O = {}
    /\ S \subseteq DOMAIN kids /\ \A m \in From(kids, S) : kids[m] \cap S = {}
    /\ f \in [From(kids, S) -> Nodes \ DOMAIN kids] /\ IsInjective(f)
    /\ DOMAIN new = (DOMAIN kids \ From(kids, O)) \cup Range(f)
    /\ \A n \in DOMAIN kids \ From(kids, O) : new[n] = kids[n]
    /\ \A m \in From(kids, S) : new[f[m]] = {f[c] : c \in kids[m]}

\* It leaves a forest, whose roots are those that are kept and the copies of S.
LEMMA ForestChange ==
    ASSUME NEW kids, NEW K, NEW O, NEW S, NEW f, NEW new, Call(kids, K, O, S, f, new)
    PROVE  Forest(new, K \cup {f[s] : s \in S})
  <1> USE DEF Call
  <1> DEFINE R == K \cup {f[s] : s \in S}
  <1>1. /\ K \in SUBSET Nodes /\ O \in SUBSET Nodes /\ S \in SUBSET Nodes
        /\ \A m \in DOMAIN kids : kids[m] \subseteq Nodes
        /\ DOMAIN kids \in SUBSET Nodes /\ Closed(kids, DOMAIN kids)
        /\ K \subseteq DOMAIN kids /\ O \subseteq DOMAIN kids
    BY DEF Forest, Closed
  <1>2. PICK kept, copied : kept = From(kids, K) /\ copied = From(kids, S)
    OBVIOUS
  <1>3. /\ kept = DOMAIN kids \ From(kids, O)
        /\ K \subseteq kept /\ kept \subseteq DOMAIN kids /\ Closed(kids, kept)
    <2>1. kept \cap From(kids, O) = {} /\ kept \cup From(kids, O) = DOMAIN kids
      BY <1>2, ForestSplits
    <2>2. K \subseteq kept /\ Closed(kids, kept)
      BY <1>1, <1>2, FromCloses
    <2> QED
      BY <2>1, <2>2
  <1>4. S \subseteq copied /\ copied \subseteq DOMAIN kids /\ Closed(kids, copied)
    BY <1>1, <1>2, FromCloses, FromLeast
  <1>5. /\ f \in [copied -> Nodes \ DOMAIN kids]
        /\ \A a, b \in copied : f[a] = f[b] => a = b
        /\ \A m \in copied : kids[m] \subseteq copied /\ kids[m] \cap S = {}
    BY <1>2, <1>4 DEF IsInjective, Closed
  <1>6. /\ DOMAIN new = kept \cup {f[m] : m \in copied}
        /\ \A n \in kept : new[n] = kids[n] /\ new[n] \subseteq kept
        /\ \A m \in copied : new[f[m]] = {f[c] : c \in kids[m]}
    BY <1>2, <1>3, <1>5 DEF Range, Closed
  <1>7. DOMAIN new \subseteq Nodes /\ R \subseteq DOMAIN new
    BY <1>1, <1>3, <1>4, <1>5, <1>6
  <1>8. ASSUME NEW m \in DOMAIN new PROVE new[m] \subseteq DOMAIN new \ R
    <2>1. CASE m \in kept
      <3>1. new[m] = kids[m] /\ new[m] \subseteq kept
        BY <1>6, <2>1
      <3>2. kids[m] \cap K = {}
        BY <1>3, <2>1 DEF Forest
      <3> QED
        BY <1>3, <1>4, <1>5, <1>6, <3>1, <3>2
    <2>2. ASSUME NEW a \in copied, m = f[a] PROVE new[m] \subseteq DOMAIN new \ R
      <3>1. ASSUME NEW c \in kids[a] PROVE f[c] \in DOMAIN new /\ f[c] \notin R
        <4>1. c \in copied /\ c \notin S
          BY <1>5, <2>2, <3>1
        <4> QED
          BY <1>3, <1>4, <1>5, <1>6, <4>1
      <3> QED
        BY <1>6, <2>2, <3>1
    <2> QED
      BY <1>6, <2>1, <2>2
  <1>9. ASSUME NEW m \in DOMAIN new, NEW n \in DOMAIN new, m # n
        PROVE  new[m] \cap new[n] = {}
    <2>1. \A a \in kept : new[a] \subseteq DOMAIN kids
      BY <1>3, <1>6
    <2>2. \A a \in copied : new[f[a]] \cap DOMAIN kids = {}
      BY <1>5, <1>6
    <2>3. CASE m \in kept /\ n \in kept
      BY <1>3, <1>6, <1>9, <2>3 DEF Forest
    <2>4. ASSUME NEW a \in copied, NEW b \in copied, m = f[a], n = f[b]
          PROVE  new[m] \cap new[n] = {}
      <3>1. kids[a] \cap kids[b] = {}
        BY <1>4, <1>9, <2>4 DEF Forest
      <3> QED
        BY <1>5, <1>6, <2>4, <3>1
    <2> QED
      BY <1>6, <2>1, <2>2, <2>3, <2>4
  <1>10. ASSUME NEW C \in SUBSET Nodes, R \subseteq C, Closed(new, C)
         PROVE  DOMAIN new \subseteq C
    <2>1. kept \subseteq C
      <3> DEFINE D == kept \cap C
      <3>1. Closed(kids, D)
        BY <1>3, <1>6, <1>10 DEF Closed
      <3>2. K \subseteq D /\ D \in SUBSET Nodes
        BY <1>3, <1>10
      <3>3. From(kids, K) \subseteq D
        BY <3>1, <3>2, FromLeast
      <3> QED
        BY <1>2, <3>3
    <2>2. \A m \in copied : f[m] \in C
      <3> DEFINE D == {m \in copied : f[m] \in C}
      <3>1. Closed(kids, D)
        <4>1. ASSUME NEW m \in D, NEW c \in kids[m] PROVE c \in D
          <5>1. f[c] \in new[f[m]] /\ f[m] \in C /\ f[m] \in DOMAIN new
            <6>1. m \in copied /\ f[m] \in C
              BY <4>1
            <6> QED
              BY <1>6, <4>1, <6>1
          <5>2. f[c] \in C
            BY <1>10, <5>1 DEF Closed
          <5> QED
            BY <1>5, <4>1, <5>2
        <4> QED
          BY <4>1 DEF Closed
      <3>2. S \subseteq D /\ D \in SUBSET Nodes
        BY <1>1, <1>4, <1>10
      <3>3. From(kids, S) \subseteq D
        BY <3>1, <3>2, FromLeast
      <3> QED
        BY <1>2, <3>3
    <2> QED
      BY <1>6, <2>1, <2>2
  <1>11. DOMAIN new \subseteq From(new, R)
    BY <1>7, <1>10 DEF From
  <1> QED
    BY <1>7, <1>8, <1>9, <1>11 DEF Forest

\* A new node that takes over what some roots own is a root in their place.
LEMMA ForestBox ==
    ASSUME NEW kids, NEW K, NEW L, Forest(kids, K \cup L), K \cap L = {},
           NEW n \in Nodes \ DOMAIN kids,
           NEW new, DOMAIN new = DOMAIN kids \cup {n}, new[n] = L,
           \A m \in DOMAIN kids : new[m] = kids[m]
    PROVE  Forest(new, K \cup {n})
  <1>1. /\ DOMAIN kids \subseteq Nodes /\ K \cup L \subseteq DOMAIN kids
        /\ \A m \in DOMAIN kids : kids[m] \subseteq DOMAIN kids /\ kids[m] \cap (K \cup L) = {}
    BY DEF Forest
  <1>2. \A m \in DOMAIN new : new[m] \subseteq DOMAIN new \ (K \cup {n})
    BY <1>1
  <1>3. \A a, b \in DOMAIN new : a = b \/ new[a] \cap new[b] = {}
    BY <1>1 DEF Forest
  <1>4. ASSUME NEW C \in SUBSET Nodes, K \cup {n} \subseteq C, Closed(new, C)
        PROVE  DOMAIN new \subseteq C
    <2>1. L \subseteq C
      BY <1>4 DEF Closed
    <2>2. Closed(kids, C)
      BY <1>4 DEF Closed
    <2>3. From(kids, K \cup L) \subseteq C
      BY <1>4, <2>1, <2>2, FromLeast
    <2> QED
      BY <1>4, <2>3 DEF Forest
  <1>5. DOMAIN new \subseteq Nodes /\ K \cup {n} \subseteq DOMAIN new
    BY <1>1
  <1>6. DOMAIN new \subseteq From(new, K \cup {n})
    BY <1>4, <1>5 DEF From
  <1> QED
    BY <1>2, <1>3, <1>5, <1>6 DEF Forest

------------------------------------------------------------------------------
(* Copies of items *)

\* An item owns the node it points to, if it points to one.
LEMMA HeldOne ==
    ASSUME NEW i
    PROVE  Held(<<i>>) = IF i.type \in Pointers THEN {i.value} ELSE {}
  <1>1. DOMAIN <<i>> = {1} /\ <<i>>[1] = i
    OBVIOUS
  <1> QED
    BY <1>1 DEF Held

\* A list of pointers owns nodes.
LEMMA HeldNodes ==
    ASSUME NEW items \in Seq(Item)
    PROVE  Held(items) \subseteq Nodes
  <1> SUFFICES ASSUME NEW i \in DOMAIN items, items[i].type \in Pointers
      PROVE  items[i].value \in Nodes
    BY DEF Held
  <1>1. items[i] \in Item
    OBVIOUS
  <1> QED
    BY <1>1, ItemAssumption DEF Item, Null, Pointers

\* The copy of an item has a pointer of its own, or the same scalar.
LEMMA CopiesOne ==
    ASSUME NEW S, NEW f \in [S -> Nodes], NEW i \in Item, i.type \in Pointers => i.value \in S,
           NEW copy, copy = IF i.type \in Pointers THEN [i EXCEPT !.value = f[@]] ELSE i
    PROVE  /\ copy \in Item /\ (copy.type \in Pointers <=> i.type \in Pointers)
           /\ i.type \in Pointers => copy.value = f[i.value]
  <1>1. CASE i.type \in Pointers
    <2>1. i \in [type : Pointers, value : Nodes]
      BY <1>1, ItemAssumption DEF Item, Null, Pointers
    <2>2. f[i.value] \in Nodes
      BY <1>1
    <2> QED
      BY <1>1, <2>1, <2>2 DEF Item
  <1>2. CASE i.type \notin Pointers
    BY <1>2
  <1> QED
    BY <1>1, <1>2

\* The nodes that the copy of items owns.
Copies(f, items) == {f[n] : n \in Held(items)}

\* The copy of a list owns the copies of what the list owns, each once.
LEMMA CopiesList ==
    ASSUME NEW S, NEW f \in [S -> Nodes], IsInjective(f),
           NEW items \in Seq(Item), Held(items) \subseteq S, Distinct(items)
    PROVE  /\ Copied(items, f) \in Seq(Item) /\ Len(Copied(items, f)) = Len(items)
           /\ Held(Copied(items, f)) = Copies(f, items)
           /\ Distinct(Copied(items, f))
  <1> DEFINE copy == Copied(items, f)
  <1>1. copy = [i \in 1..Len(items) |->
                   IF items[i].type \in Pointers THEN [items[i] EXCEPT !.value = f[@]] ELSE items[i]]
    BY DEF Copied
  <1>2. ASSUME NEW i \in 1..Len(items)
        PROVE  /\ copy[i] \in Item /\ (copy[i].type \in Pointers <=> items[i].type \in Pointers)
               /\ items[i].type \in Pointers => copy[i].value = f[items[i].value] /\ items[i].value \in S
    <2>1. items[i] \in Item /\ (items[i].type \in Pointers => items[i].value \in S)
      BY DEF Held
    <2>2. copy[i] = IF items[i].type \in Pointers THEN [items[i] EXCEPT !.value = f[@]] ELSE items[i]
      BY <1>1
    <2> QED
      BY <2>1, <2>2, CopiesOne
  <1> HIDE DEF copy
  <1>3. copy \in Seq(Item) /\ Len(copy) = Len(items) /\ DOMAIN copy = DOMAIN items
    BY <1>1, <1>2
  <1>4. Held(copy) = Copies(f, items)
    BY <1>2, <1>3 DEF Held, Copies
  <1>5. Distinct(copy)
    BY <1>2, <1>3 DEF Distinct, IsInjective
  <1> QED
    BY <1>3, <1>4, <1>5 DEF copy

\* What destructors and copy constructors get at, in the heap as it is.
LEMMA ReachIsFrom ==
    ASSUME NEW items
    PROVE  Reach(items) = From(KidsIn(heap), Held(items))
  BY DEF Reach, From, Closed, KidsIn

\* Of a heap after a call, what was there is as it was and what is new a copy.
LEMMA HeapAfter ==
    ASSUME NEW old, NEW src, NEW f \in Places(src)
    PROVE  /\ DOMAIN Heap(old, f) = (DOMAIN heap \ Reach(old)) \cup Range(f)
           /\ \A n \in DOMAIN heap \ Reach(old) : Heap(old, f)[n] = heap[n]
           /\ \A m \in Reach(src) : Heap(old, f)[f[m]] = Copied(heap[m], f)
           /\ Heap(old, f) = [n \in DOMAIN Heap(old, f) |-> Heap(old, f)[n]]
  <1>1. f \in [Reach(src) -> Nodes \ DOMAIN heap] /\ IsInjective(f)
    BY DEF Places
  <1>2. Range(f) \cap DOMAIN heap = {}
    BY <1>1 DEF Range
  <1>3. ASSUME NEW m \in Reach(src)
        PROVE  f[m] \in Range(f) /\ Inverse(f, DOMAIN f, Range(f))[f[m]] = m
    <2>1. f[m] \in Range(f)
      BY <1>1 DEF Range
    <2>2. Inverse(f, DOMAIN f, Range(f))[f[m]]
            = CHOOSE s \in DOMAIN f : f[m] \in Range(f) => f[s] = f[m]
      BY <2>1 DEF Inverse
    <2>3. \A s \in DOMAIN f : (f[m] \in Range(f) => f[s] = f[m]) <=> s = m
      BY <1>1, <2>1 DEF IsInjective
    <2>4. m \in DOMAIN f
      BY <1>1
    <2> QED
      BY <2>1, <2>2, <2>3, <2>4
  <1> QED
    BY <1>2, <1>3 DEF Heap

------------------------------------------------------------------------------
(* Destroying and copying *)

\* An item to be copied is no part of its own copy: nothing that a root gets at
\* owns a root.
Source(src) ==
    /\ src \in Seq(Item) /\ Distinct(src) /\ Held(src) \subseteq DOMAIN heap
    /\ \A m \in Reach(src) \cap DOMAIN heap : Held(heap[m]) \cap Held(src) = {}

\* What copying a source gets at is there.
LEMMA SourceReach ==
    ASSUME IInv, NEW src, Source(src)
    PROVE  Held(src) \subseteq Reach(src) /\ Reach(src) \subseteq DOMAIN heap
  <1>1. PICK kids : kids = KidsIn(heap)
    OBVIOUS
  <1>2. /\ DOMAIN kids = DOMAIN heap /\ DOMAIN kids \in SUBSET Nodes
        /\ \A m \in DOMAIN kids : kids[m] \subseteq DOMAIN kids
    BY <1>1 DEF IInv, Forest, KidsIn
  <1>3. Closed(kids, DOMAIN kids) /\ \A m \in DOMAIN kids : kids[m] \subseteq Nodes
    BY <1>2 DEF Closed
  <1>4. Held(src) \subseteq DOMAIN kids /\ Held(src) \in SUBSET Nodes
    BY <1>2 DEF Source
  <1>5. Held(src) \subseteq From(kids, Held(src))
    BY <1>3, <1>4, FromCloses
  <1>6. From(kids, Held(src)) \subseteq DOMAIN kids
    BY <1>2, <1>3, <1>4, FromLeast
  <1> QED
    BY <1>1, <1>2, <1>5, <1>6, ReachIsFrom

\* A call that keeps the roots in K, destroys old, which the others owned, and
\* copies src.
HeapCall(K, old, src, f, h) ==
    /\ Roots = K \cup Held(old) /\ K \cap Held(old) = {}
    /\ Source(src) /\ f \in Places(src) /\ h = Heap(old, f)

\* It leaves a forest.
LEMMA CallForest ==
    ASSUME IInv, NEW K, NEW old, NEW src, NEW f, NEW h, HeapCall(K, old, src, f, h)
    PROVE  Forest(KidsIn(h), K \cup Copies(f, src)) /\ HeapOK(h)
  <1> USE DEF HeapCall
  <1>1. PICK kids, O, S, new : kids = KidsIn(heap) /\ O = Held(old) /\ S = Held(src) /\ new = KidsIn(h)
    OBVIOUS
  <1>2. Reach(old) = From(kids, O) /\ Reach(src) = From(kids, S)
    BY <1>1, ReachIsFrom
  <1>3. Forest(kids, K \cup O) /\ K \cap O = {} /\ DOMAIN kids = DOMAIN heap
    BY <1>1 DEF IInv, KidsIn
  <1>4. S \subseteq Reach(src) /\ Reach(src) \subseteq DOMAIN heap
    BY <1>1, SourceReach
  <1>5. S \in SUBSET DOMAIN kids /\ \A m \in From(kids, S) : kids[m] \cap S = {}
    BY <1>1, <1>2, <1>3, <1>4 DEF Source, KidsIn
  <1>6. f \in [From(kids, S) -> Nodes \ DOMAIN kids] /\ IsInjective(f)
    BY <1>2, <1>3 DEF Places
  <1>7. /\ DOMAIN h = (DOMAIN heap \ Reach(old)) \cup Range(f)
        /\ \A n \in DOMAIN heap \ Reach(old) : h[n] = heap[n]
        /\ \A m \in Reach(src) : h[f[m]] = Copied(heap[m], f)
        /\ h = [n \in DOMAIN h |-> h[n]]
    <2>1. /\ DOMAIN Heap(old, f) = (DOMAIN heap \ Reach(old)) \cup Range(f)
          /\ \A n \in DOMAIN heap \ Reach(old) : Heap(old, f)[n] = heap[n]
          /\ \A m \in Reach(src) : Heap(old, f)[f[m]] = Copied(heap[m], f)
          /\ Heap(old, f) = [n \in DOMAIN Heap(old, f) |-> Heap(old, f)[n]]
      BY HeapAfter
    <2> QED
      BY <2>1
  <1>8. ASSUME NEW m \in Reach(src)
        PROVE  /\ h[f[m]] \in Seq(Item) /\ DOMAIN h[f[m]] \subseteq Position /\ Distinct(h[f[m]])
               /\ Held(h[f[m]]) = {f[c] : c \in kids[m]}
    <2>1. heap[m] \in Seq(Item) /\ DOMAIN heap[m] \subseteq Position /\ Distinct(heap[m])
      BY <1>4, <1>8 DEF IInv, TypeInv, HeapOK
    <2>2. kids[m] = Held(heap[m])
      BY <1>1, <1>4, <1>8 DEF KidsIn
    <2>3. Held(heap[m]) \subseteq Reach(src)
      <3>1. \A a \in DOMAIN kids : kids[a] \subseteq Nodes
        BY <1>3 DEF Forest
      <3>2. S \in SUBSET Nodes
        BY <1>3, <1>5 DEF Forest
      <3>3. Closed(kids, From(kids, S))
        BY <3>1, <3>2, FromCloses
      <3> QED
        BY <1>2, <1>3, <1>4, <1>8, <2>2, <3>3 DEF Closed
    <2>4. f \in [Reach(src) -> Nodes]
      BY <1>2, <1>6
    <2>5. /\ Copied(heap[m], f) \in Seq(Item) /\ Len(Copied(heap[m], f)) = Len(heap[m])
          /\ Held(Copied(heap[m], f)) = Copies(f, heap[m])
          /\ Distinct(Copied(heap[m], f))
      BY <1>6, <2>1, <2>3, <2>4, CopiesList
    <2>6. DOMAIN Copied(heap[m], f) = DOMAIN heap[m]
      BY <2>1, <2>5
    <2> QED
      BY <1>7, <1>8, <2>1, <2>2, <2>5, <2>6 DEF Copies
  <1>9. /\ DOMAIN new = (DOMAIN kids \ From(kids, O)) \cup Range(f)
        /\ \A n \in DOMAIN kids \ From(kids, O) : new[n] = kids[n]
    BY <1>1, <1>2, <1>3, <1>7 DEF KidsIn
  <1>10. \A m \in From(kids, S) : new[f[m]] = {f[c] : c \in kids[m]}
    <2>1. ASSUME NEW m \in Reach(src) PROVE new[f[m]] = {f[c] : c \in kids[m]}
      <3>1. f[m] \in DOMAIN h
        BY <1>2, <1>6, <1>7, <2>1 DEF Range
      <3>2. new[f[m]] = Held(h[f[m]])
        BY <1>1, <3>1 DEF KidsIn
      <3> QED
        BY <1>8, <2>1, <3>2
    <2> QED
      BY <1>2, <2>1
  <1>11. Forest(new, K \cup {f[s] : s \in S})
    <2>1. Call(kids, K, O, S, f, new)
      BY <1>3, <1>5, <1>6, <1>9, <1>10 DEF Call
    <2> QED
      BY <2>1, ForestChange
  <1>12. ASSUME NEW n \in DOMAIN h
         PROVE  h[n] \in Seq(Item) /\ DOMAIN h[n] \subseteq Position /\ Distinct(h[n])
    <2>1. CASE n \in DOMAIN heap \ Reach(old)
      BY <1>7, <2>1 DEF IInv, TypeInv, HeapOK
    <2>2. CASE n \in Range(f)
      <3>1. PICK m \in Reach(src) : n = f[m]
        BY <1>2, <1>6, <2>2 DEF Range
      <3> QED
        BY <1>8, <3>1
    <2> QED
      BY <1>7, <1>12, <2>1, <2>2
  <1> QED
    BY <1>1, <1>7, <1>11, <1>12 DEF HeapOK, Copies

\* A call that copies nothing.
LEMMA DropForest ==
    ASSUME IInv, NEW K, NEW old, Roots = K \cup Held(old), K \cap Held(old) = {},
           NEW h, h = Without(old)
    PROVE  Forest(KidsIn(h), K) /\ HeapOK(h)
  <1>1. PICK kids, O, new : kids = KidsIn(heap) /\ O = Held(old) /\ new = KidsIn(h)
    OBVIOUS
  <1>2. PICK f : f = [n \in {} |-> n]
    OBVIOUS
  <1>3. Reach(old) = From(kids, O)
    BY <1>1, ReachIsFrom
  <1>4. Forest(kids, K \cup O) /\ K \cap O = {} /\ DOMAIN kids = DOMAIN heap
    BY <1>1 DEF IInv, KidsIn
  <1>5. From(kids, {}) = {}
    <2>1. Closed(kids, {}) /\ {} \in SUBSET Nodes
      BY DEF Closed
    <2> QED
      BY <2>1, FromLeast
  <1>6. /\ f \in [From(kids, {}) -> Nodes \ DOMAIN kids] /\ IsInjective(f) /\ Range(f) = {}
        /\ {} \in SUBSET DOMAIN kids /\ \A m \in From(kids, {}) : kids[m] \cap {} = {}
    BY <1>2, <1>5 DEF IsInjective, Range
  <1>7. h = [n \in DOMAIN heap \ Reach(old) |-> heap[n]]
    BY DEF Without
  <1>8. /\ DOMAIN new = (DOMAIN kids \ From(kids, O)) \cup Range(f)
        /\ \A n \in DOMAIN kids \ From(kids, O) : new[n] = kids[n]
        /\ \A m \in From(kids, {}) : new[f[m]] = {f[c] : c \in kids[m]}
    BY <1>1, <1>3, <1>4, <1>5, <1>6, <1>7 DEF KidsIn
  <1>9. Forest(new, K \cup {f[s] : s \in {}})
    <2>1. Call(kids, K, O, {}, f, new)
      BY <1>4, <1>6, <1>8 DEF Call
    <2> QED
      BY <2>1, ForestChange
  <1>10. K \cup {f[s] : s \in {}} = K
    OBVIOUS
  <1>11. HeapOK(h)
    BY <1>7 DEF IInv, TypeInv, HeapOK
  <1> QED
    BY <1>1, <1>9, <1>10, <1>11

------------------------------------------------------------------------------
(* What may be copied *)

\* Variables own nodes that are there.
LEMMA RootsThere ==
    ASSUME IInv
    PROVE  /\ Roots \subseteq DOMAIN heap /\ DOMAIN heap \subseteq Nodes
           /\ \A x \in Vars : Own(x) \subseteq Roots
           /\ \A b \in Boxes : Held(box[b]) \subseteq Roots
  BY DEF IInv, Forest, KidsIn, Roots

\* Items of variables can be copied,
LEMMA RootSource ==
    ASSUME IInv, NEW src \in Seq(Item), Distinct(src), Held(src) \subseteq Roots
    PROVE  Source(src)
  <1>1. \A m \in DOMAIN heap : Held(heap[m]) \cap Roots = {}
    BY DEF IInv, Forest, KidsIn
  <1> QED
    BY <1>1, RootsThere DEF Source

\* and so can the list of a node that a variable owns.
LEMMA NodeSource ==
    ASSUME IInv, NEW n \in Roots
    PROVE  Source(heap[n])
  <1>1. PICK kids, S : kids = KidsIn(heap) /\ S = Held(heap[n])
    OBVIOUS
  <1>2. n \in DOMAIN heap /\ heap[n] \in Seq(Item) /\ Distinct(heap[n])
    BY RootsThere DEF IInv, TypeInv, HeapOK
  <1>3. /\ DOMAIN kids = DOMAIN heap /\ kids[n] = S
        /\ \A m \in DOMAIN kids : kids[m] = Held(heap[m])
    BY <1>1, <1>2 DEF KidsIn
  <1>4. /\ DOMAIN kids \subseteq Nodes
        /\ \A m \in DOMAIN kids : kids[m] \subseteq DOMAIN kids \ Roots
        /\ \A m \in DOMAIN kids : m = n \/ kids[m] \cap S = {}
    BY <1>1, <1>2, <1>3 DEF IInv, Forest
  <1>5. S \in SUBSET Nodes /\ \A m \in DOMAIN kids : kids[m] \subseteq Nodes
    BY <1>2, <1>3, <1>4
  <1>6. n \notin From(kids, S)
    <2>1. n \notin S
      BY <1>2, <1>3, <1>4
    <2>2. ASSUME n \in From(kids, S) PROVE FALSE
      <3>1. PICK m \in From(kids, S) \cap DOMAIN kids : n \in kids[m]
        BY <1>5, <2>1, <2>2, FromOwner
      <3> QED
        BY <1>4, <3>1
    <2> QED
      BY <2>2
  <1>7. Reach(heap[n]) = From(kids, S)
    BY <1>1, ReachIsFrom
  <1>8. \A m \in Reach(heap[n]) \cap DOMAIN heap : Held(heap[m]) \cap Held(heap[n]) = {}
    BY <1>1, <1>3, <1>4, <1>6, <1>7
  <1>9. Held(heap[n]) \subseteq DOMAIN heap
    BY <1>2, <1>3, <1>4
  <1> QED
    BY <1>2, <1>8, <1>9 DEF Source

\* Two lists one after the other own what each of them does.
LEMMA HeldConcat ==
    ASSUME NEW s \in Seq(Item), NEW t \in Seq(Item)
    PROVE  /\ s \o t \in Seq(Item)
           /\ Held(s \o t) = Held(s) \cup Held(t)
           /\ Distinct(s) /\ Distinct(t) /\ Held(s) \cap Held(t) = {} => Distinct(s \o t)
  <1>1. /\ s \o t \in Seq(Item) /\ DOMAIN (s \o t) = 1..(Len(s) + Len(t))
        /\ \A i \in DOMAIN s : i \in DOMAIN (s \o t) /\ (s \o t)[i] = s[i]
        /\ \A i \in DOMAIN t : Len(s) + i \in DOMAIN (s \o t) /\ (s \o t)[Len(s) + i] = t[i]
    OBVIOUS
  <1>2. \A i \in DOMAIN (s \o t) : i \in DOMAIN s \/ \E j \in DOMAIN t : i = Len(s) + j
    <2>1. ASSUME NEW i \in DOMAIN (s \o t), i \notin DOMAIN s
          PROVE  i - Len(s) \in DOMAIN t /\ i = Len(s) + (i - Len(s))
      BY <1>1, <2>1
    <2> QED
      BY <2>1
  <1>3. Held(s \o t) = Held(s) \cup Held(t)
    <2>1. ASSUME NEW n \in Held(s \o t) PROVE n \in Held(s) \cup Held(t)
      <3>1. PICK i \in DOMAIN (s \o t) : (s \o t)[i].type \in Pointers /\ n = (s \o t)[i].value
        BY <2>1 DEF Held
      <3> QED
        BY <1>1, <1>2, <3>1 DEF Held
    <2>2. Held(s) \subseteq Held(s \o t)
      BY <1>1 DEF Held
    <2>3. Held(t) \subseteq Held(s \o t)
      BY <1>1 DEF Held
    <2> QED
      BY <2>1, <2>2, <2>3
  <1>4. ASSUME Distinct(s), Distinct(t), Held(s) \cap Held(t) = {} PROVE Distinct(s \o t)
    <2> SUFFICES ASSUME NEW i \in DOMAIN (s \o t), NEW j \in DOMAIN (s \o t),
                        (s \o t)[i].type \in Pointers, (s \o t)[j].type \in Pointers,
                        (s \o t)[i].value = (s \o t)[j].value
        PROVE  i = j
      BY DEF Distinct
    <2>1. CASE i \in DOMAIN s /\ j \in DOMAIN s
      BY <1>1, <1>4, <2>1 DEF Distinct
    <2>2. ASSUME NEW a \in DOMAIN t, NEW b \in DOMAIN t, i = Len(s) + a, j = Len(s) + b
          PROVE  i = j
      BY <1>1, <1>4, <2>2 DEF Distinct
    <2>3. ASSUME NEW a \in DOMAIN s, NEW b \in DOMAIN t,
                 s[a].type \in Pointers, t[b].type \in Pointers, s[a].value = t[b].value
          PROVE  FALSE
      BY <1>4, <2>3 DEF Held
    <2> QED
      BY <1>1, <1>2, <2>1, <2>2, <2>3
  <1> QED
    BY <1>1, <1>3, <1>4

\* The empty list owns nothing.
LEMMA HeldNone ==
    /\ <<>> \in Seq(Item) /\ Held(<<>>) = {} /\ Distinct(<<>>)
    /\ IInv => Source(<<>>)
  <1>1. <<>> \in Seq(Item) /\ Held(<<>>) = {} /\ Distinct(<<>>)
    BY DEF Held, Distinct
  <1> QED
    BY <1>1 DEF Source

\* A list of one item.
LEMMA ListOne ==
    ASSUME NEW i \in Item
    PROVE  <<i>> \in Seq(Item) /\ Distinct(<<i>>)
  BY DEF Distinct

\* What an item of a list owns, the list does.
LEMMA HeldAt ==
    ASSUME NEW items \in Seq(Item), NEW i \in DOMAIN items
    PROVE  items[i] \in Item /\ Held(<<items[i]>>) \subseteq Held(items)
  <1>1. Held(<<items[i]>>) = IF items[i].type \in Pointers THEN {items[i].value} ELSE {}
    BY HeldOne
  <1> QED
    BY <1>1 DEF Held

\* An item of no other type than a pointer owns nothing; null is one.
LEMMA NullOwnsNone == Null \in Item /\ Held(<<Null>>) = {}
  <1>1. Null.type \notin Pointers
    BY DEF Null, Pointers
  <1>2. Held(<<Null>>) = IF Null.type \in Pointers THEN {Null.value} ELSE {}
    BY HeldOne
  <1> QED
    BY <1>1, <1>2 DEF Item

\* Where one item takes the place of another, so does what it owns.
LEMMA HeldReplace ==
    ASSUME NEW items \in Seq(Item), Distinct(items), NEW i \in DOMAIN items,
           NEW new \in Item, Held(<<new>>) \cap Held(items) = {},
           NEW s, s = ReplaceAt(items, i, new)
    PROVE  /\ s \in Seq(Item) /\ Len(s) = Len(items) /\ Distinct(s)
           /\ Held(s) = (Held(items) \ Held(<<items[i]>>)) \cup Held(<<new>>)
  <1>1. /\ s \in Seq(Item) /\ Len(s) = Len(items) /\ DOMAIN s = DOMAIN items /\ s[i] = new
        /\ \A j \in DOMAIN items \ {i} : s[j] = items[j]
    BY DEF ReplaceAt
  <1>2. PICK N, O : N = Held(<<new>>) /\ O = Held(<<items[i]>>)
    OBVIOUS
  <1>3. N = IF new.type \in Pointers THEN {new.value} ELSE {}
    BY <1>2, HeldOne
  <1>4. O = IF items[i].type \in Pointers THEN {items[i].value} ELSE {}
    BY <1>2, HeldOne
  <1>5. ASSUME NEW j \in DOMAIN items \ {i}, items[j].type \in Pointers
        PROVE  items[j].value \in Held(items) \ O /\ items[j].value \notin N
    <2>1. items[j].value \in Held(items)
      BY <1>5 DEF Held
    <2>2. items[j].value \notin O
      BY <1>4, <1>5 DEF Distinct
    <2> QED
      BY <1>2, <2>1, <2>2
  <1>6. Held(s) = (Held(items) \ O) \cup N
    <2>1. ASSUME NEW n \in Held(s) PROVE n \in (Held(items) \ O) \cup N
      <3>1. PICK j \in DOMAIN s : s[j].type \in Pointers /\ n = s[j].value
        BY DEF Held
      <3> QED
        BY <1>1, <1>3, <1>5, <3>1
    <2>2. ASSUME NEW n \in Held(items), n \notin O PROVE n \in Held(s)
      <3>1. PICK j \in DOMAIN items : items[j].type \in Pointers /\ n = items[j].value
        BY DEF Held
      <3>2. j # i
        BY <1>4, <2>2, <3>1
      <3> QED
        BY <1>1, <3>1, <3>2 DEF Held
    <2>3. ASSUME NEW n \in N PROVE n \in Held(s)
      BY <1>1, <1>3, <2>3 DEF Held
    <2> QED
      BY <2>1, <2>2, <2>3
  <1>7. Distinct(s)
    <2> SUFFICES ASSUME NEW j \in DOMAIN s, NEW k \in DOMAIN s, s[j].type \in Pointers,
                        s[k].type \in Pointers, s[j].value = s[k].value
        PROVE  j = k
      BY DEF Distinct
    <2>1. CASE j # i /\ k # i
      BY <1>1, <2>1 DEF Distinct
    <2>2. CASE j = i /\ k # i
      BY <1>1, <1>3, <1>5, <2>2
    <2>3. CASE j # i /\ k = i
      BY <1>1, <1>3, <1>5, <2>3
    <2> QED
      BY <2>1, <2>2, <2>3
  <1> QED
    BY <1>1, <1>2, <1>6, <1>7

\* The nodes that the items at some places of a list own.
HeldIn(items, I) == {items[i].value : i \in {j \in I \cap DOMAIN items : items[j].type \in Pointers}}

\* The places of a list share out what it owns.
LEMMA HeldShared ==
    ASSUME NEW items
    PROVE  /\ \A I : DOMAIN items \subseteq I => HeldIn(items, I) = Held(items)
           /\ Distinct(items)
                => \A I, J : I \cap J = {} => HeldIn(items, I) \cap HeldIn(items, J) = {}
  <1>1. ASSUME NEW I, DOMAIN items \subseteq I PROVE HeldIn(items, I) = Held(items)
    <2>1. I \cap DOMAIN items = DOMAIN items
      BY <1>1
    <2> QED
      BY <2>1 DEF Held, HeldIn
  <1>2. ASSUME Distinct(items), NEW I, NEW J, I \cap J = {}
        PROVE  HeldIn(items, I) \cap HeldIn(items, J) = {}
    BY <1>2 DEF HeldIn, Distinct
  <1> QED
    BY <1>1, <1>2

\* A part of a list, and the places it takes up.
Part(items, a, c, I, part) ==
    /\ a \in Nat \ {0} /\ c \in Nat /\ c <= Len(items) /\ I = a..c
    /\ part = SubSeq(items, a, c)

\* A part of a list owns what the items there do, each node once.
LEMMA HeldSub ==
    ASSUME NEW items \in Seq(Item), Distinct(items), NEW a, NEW c, NEW I, NEW part,
           Part(items, a, c, I, part)
    PROVE  part \in Seq(Item) /\ Held(part) = HeldIn(items, I) /\ Distinct(part)
  <1> USE DEF Part
  <1>1. \A i \in a..c : items[i] \in Item
    OBVIOUS
  <1>2. /\ part \in Seq(Item) /\ Len(part) = IF a <= c THEN c - a + 1 ELSE 0
        /\ \A i \in 1..c - a + 1 : part[i] = items[a + i - 1]
    <2>1. a \in Int /\ c \in Int
      OBVIOUS
    <2> QED
      BY <1>1, <2>1, SubSeqProperties
  <1>3. \A i \in DOMAIN part : i \in Int /\ a + i - 1 \in (a..c) \cap DOMAIN items
                               /\ part[i] = items[a + i - 1]
    BY <1>2
  <1>4. \A i \in (a..c) \cap DOMAIN items : i - a + 1 \in DOMAIN part /\ part[i - a + 1] = items[i]
    BY <1>2
  <1>5. Held(part) = HeldIn(items, I)
    <2>1. ASSUME NEW n \in Held(part) PROVE n \in HeldIn(items, I)
      <3>1. PICK i \in DOMAIN part : part[i].type \in Pointers /\ n = part[i].value
        BY DEF Held
      <3>2. PICK j \in I \cap DOMAIN items : part[i] = items[j]
        BY <1>3, <3>1
      <3> QED
        BY <3>1, <3>2 DEF HeldIn
    <2>2. ASSUME NEW n \in HeldIn(items, I) PROVE n \in Held(part)
      <3>1. PICK j \in I \cap DOMAIN items : items[j].type \in Pointers /\ n = items[j].value
        BY DEF HeldIn
      <3>2. PICK i \in DOMAIN part : part[i] = items[j]
        BY <1>4, <3>1
      <3> QED
        BY <3>1, <3>2 DEF Held
    <2> QED
      BY <2>1, <2>2
  <1>6. Distinct(part)
    <2> SUFFICES ASSUME NEW i \in DOMAIN part, NEW j \in DOMAIN part, part[i].type \in Pointers,
                        part[j].type \in Pointers, part[i].value = part[j].value
        PROVE  i = j
      BY DEF Distinct
    <2>1. a + i - 1 = a + j - 1
      BY <1>3 DEF Distinct
    <2> QED
      BY <1>3, <2>1
  <1> QED
    BY <1>2, <1>5, <1>6

\* Erasing an item leaves what the others own.
LEMMA HeldErase ==
    ASSUME NEW items \in Seq(Item), Distinct(items), NEW i \in DOMAIN items,
           NEW rest, rest = RemoveAt(items, i)
    PROVE  /\ rest \in Seq(Item) /\ Distinct(rest)
           /\ Held(rest) \cup Held(<<items[i]>>) = Held(items)
           /\ Held(rest) \cap Held(<<items[i]>>) = {}
  <1>1. PICK n, front, back : /\ n = Len(items) /\ front = SubSeq(items, 1, i - 1)
                              /\ back = SubSeq(items, i + 1, n)
    OBVIOUS
  <1>2. n \in Nat /\ i \in 1..n /\ DOMAIN items = 1..n
    BY <1>1
  <1>3. PICK I, J : I = 1..i - 1 /\ J = i + 1..n
    OBVIOUS
  <1>4. /\ front \in Seq(Item) /\ Held(front) = HeldIn(items, I) /\ Distinct(front)
        /\ back \in Seq(Item) /\ Held(back) = HeldIn(items, J) /\ Distinct(back)
    <2>1. Part(items, 1, i - 1, I, front)
      BY <1>1, <1>2, <1>3 DEF Part
    <2>2. Part(items, i + 1, n, J, back)
      BY <1>1, <1>2, <1>3 DEF Part
    <2> QED
      BY <2>1, <2>2, HeldSub
  <1>5. Held(<<items[i]>>) = HeldIn(items, {i})
    <2>1. Held(<<items[i]>>) = IF items[i].type \in Pointers THEN {items[i].value} ELSE {}
      BY HeldOne
    <2> QED
      BY <2>1 DEF HeldIn
  <1>6. I \cap J = {} /\ (I \cup J) \cap {i} = {} /\ DOMAIN items = (I \cup J) \cup {i}
    BY <1>2, <1>3
  <1>7. Held(front) \cap Held(back) = {}
    BY <1>4, <1>6, HeldShared
  <1>8. rest = front \o back
    BY <1>1 DEF RemoveAt
  <1>9. rest \in Seq(Item) /\ Distinct(rest) /\ Held(rest) = Held(front) \cup Held(back)
    BY <1>4, <1>7, <1>8, HeldConcat
  <1>10. Held(rest) = HeldIn(items, I \cup J)
    <2>1. HeldIn(items, I) \cup HeldIn(items, J) = HeldIn(items, I \cup J)
      BY DEF HeldIn
    <2> QED
      BY <1>4, <1>9, <2>1
  <1>11. HeldIn(items, I \cup J) \cap HeldIn(items, {i}) = {}
    BY <1>6, HeldShared
  <1>12. HeldIn(items, I \cup J) \cup HeldIn(items, {i}) = Held(items)
    <2>1. HeldIn(items, I \cup J) \cup HeldIn(items, {i}) = HeldIn(items, (I \cup J) \cup {i})
      BY DEF HeldIn
    <2>2. HeldIn(items, DOMAIN items) = Held(items)
      BY HeldShared
    <2> QED
      BY <1>6, <2>1, <2>2
  <1> QED
    BY <1>5, <1>9, <1>10, <1>11, <1>12

\* A list cut after n items.
Cut(items, n, kept, dropped) ==
    /\ n \in Nat
    /\ kept = SubSeq(items, 1, Min({n, Len(items)}))
    /\ dropped = SubSeq(items, n + 1, Len(items))

\* Cutting a list short leaves what the items up to there own.
LEMMA HeldCut ==
    ASSUME NEW items \in Seq(Item), Distinct(items), NEW n, NEW kept, NEW dropped,
           Cut(items, n, kept, dropped)
    PROVE  /\ kept \in Seq(Item) /\ Distinct(kept)
           /\ Held(kept) \cup Held(dropped) = Held(items)
           /\ Held(kept) \cap Held(dropped) = {}
  <1> USE DEF Cut
  <1>1. PICK m, c : m = Min({n, Len(items)}) /\ c = Len(items)
    OBVIOUS
  <1>2. c \in Nat /\ m \in {n, c} /\ m <= n /\ m <= c /\ DOMAIN items = 1..c
    <2>1. \E x \in {n, c} : \A y \in {n, c} : x =< y
      BY <1>1
    <2>2. m \in {n, c} /\ \A y \in {n, c} : m =< y
      BY <1>1, <2>1 DEF Min
    <2> QED
      BY <1>1, <2>2
  <1>3. PICK I, J : I = 1..m /\ J = n + 1..c
    OBVIOUS
  <1>4. kept \in Seq(Item) /\ Held(kept) = HeldIn(items, I) /\ Distinct(kept)
    <2>1. Part(items, 1, m, I, kept)
      BY <1>1, <1>2, <1>3 DEF Part
    <2> QED
      BY <2>1, HeldSub
  <1>5. Held(dropped) = HeldIn(items, J)
    <2>1. Part(items, n + 1, c, J, dropped)
      BY <1>1, <1>2, <1>3 DEF Part
    <2> QED
      BY <2>1, HeldSub
  <1>6. I \cap J = {} /\ DOMAIN items \subseteq I \cup J
    BY <1>2, <1>3
  <1>7. HeldIn(items, I) \cap HeldIn(items, J) = {}
    BY <1>6, HeldShared
  <1>8. HeldIn(items, I) \cup HeldIn(items, J) = Held(items)
    <2>1. HeldIn(items, I) \cup HeldIn(items, J) = HeldIn(items, I \cup J)
      BY DEF HeldIn
    <2>2. HeldIn(items, I \cup J) = Held(items)
      BY <1>6, HeldShared
    <2> QED
      BY <2>1, <2>2
  <1> QED
    BY <1>5, <1>4, <1>7, <1>8

------------------------------------------------------------------------------
(* What a call does to the roots *)

\* A variable that is given another item is the one to own what that item does.
LEMMA ItemRoots ==
    ASSUME IInv, NEW x \in Vars, NEW new \in Item, box' = box, item' = [item EXCEPT ![x] = new],
           NEW N, N = Held(<<new>>), N \cap (Roots \ Own(x)) = {}
    PROVE  Roots' = (Roots \ Own(x)) \cup N /\ RootInv'
  <1>1. item \in [Vars -> Item]
    BY DEF IInv, TypeInv
  <1>2. Own(x)' = N /\ \A y \in Vars \ {x} : Own(y)' = Own(y)
    BY <1>1 DEF Own
  <1>3. /\ \A y \in Vars \ {x} : Own(y) \subseteq Roots \ Own(x)
        /\ \A b \in Boxes : Held(box[b]) \subseteq Roots \ Own(x)
    BY RootsThere DEF IInv, RootInv
  <1>4. Roots' = UNION ({Own(y)' : y \in Vars} \cup {Held(box[b]) : b \in Boxes})
    BY DEF Roots
  <1>5. Roots' = (Roots \ Own(x)) \cup N
    <2>1. ASSUME NEW n \in Roots' PROVE n \in (Roots \ Own(x)) \cup N
      BY <1>2, <1>3, <1>4, <2>1
    <2>2. N \subseteq Roots'
      BY <1>2, <1>4
    <2>3. ASSUME NEW n \in Roots, n \notin Own(x) PROVE n \in Roots'
      BY <1>2, <1>4, <2>3 DEF Roots
    <2> QED
      BY <2>1, <2>2, <2>3
  <1>6. RootInv'
    <2>1. \A y, z \in Vars : y = z \/ Own(y)' \cap Own(z)' = {}
      BY <1>2, <1>3 DEF IInv, RootInv
    <2>2. \A y \in Vars, b \in Boxes : Own(y)' \cap Held(box[b]) = {}
      BY <1>2, <1>3 DEF IInv, RootInv
    <2>3. \A b, c \in Boxes : b = c \/ Held(box[b]) \cap Held(box[c]) = {}
      BY DEF IInv, RootInv
    <2> QED
      BY <2>1, <2>2, <2>3 DEF RootInv
  <1> QED
    BY <1>5, <1>6

\* The same of a box that is given another list.
LEMMA BoxRoots ==
    ASSUME IInv, NEW b \in Boxes, NEW new, item' = item, box' = [box EXCEPT ![b] = new],
           NEW N, N = Held(new), N \cap (Roots \ Held(box[b])) = {}
    PROVE  Roots' = (Roots \ Held(box[b])) \cup N /\ RootInv'
  <1>1. box \in [Boxes -> Seq(Item)]
    BY DEF IInv, TypeInv
  <1>2. Held(box'[b]) = N /\ \A c \in Boxes \ {b} : Held(box'[c]) = Held(box[c])
    BY <1>1
  <1>3. /\ \A x \in Vars : Own(x) \subseteq Roots \ Held(box[b])
        /\ \A c \in Boxes \ {b} : Held(box[c]) \subseteq Roots \ Held(box[b])
    BY RootsThere DEF IInv, RootInv
  <1>4. \A x \in Vars : Own(x)' = Own(x)
    BY DEF Own
  <1>5. Roots' = UNION ({Own(x) : x \in Vars} \cup {Held(box'[c]) : c \in Boxes})
    BY <1>4 DEF Roots
  <1>6. Roots' = (Roots \ Held(box[b])) \cup N
    <2>1. ASSUME NEW n \in Roots' PROVE n \in (Roots \ Held(box[b])) \cup N
      BY <1>2, <1>3, <1>5, <2>1
    <2>2. N \subseteq Roots'
      BY <1>2, <1>5
    <2>3. ASSUME NEW n \in Roots, n \notin Held(box[b]) PROVE n \in Roots'
      BY <1>2, <1>5, <2>3 DEF Roots
    <2> QED
      BY <2>1, <2>2, <2>3
  <1>7. RootInv'
    <2>1. \A x, y \in Vars : x = y \/ Own(x)' \cap Own(y)' = {}
      BY <1>4 DEF IInv, RootInv
    <2>2. \A x \in Vars, c \in Boxes : Own(x)' \cap Held(box'[c]) = {}
      BY <1>2, <1>3, <1>4 DEF IInv, RootInv
    <2>3. \A c, d \in Boxes : c = d \/ Held(box'[c]) \cap Held(box'[d]) = {}
      BY <1>2, <1>3 DEF IInv, RootInv
    <2> QED
      BY <2>1, <2>2, <2>3 DEF RootInv
  <1> QED
    BY <1>6, <1>7

\* The copy of an item owns new nodes.
LEMMA CopiedItem ==
    ASSUME IInv, NEW from \in Item, Source(<<from>>), NEW f \in Places(<<from>>)
    PROVE  /\ Head(Copied(<<from>>, f)) \in Item
           /\ Held(<<Head(Copied(<<from>>, f))>>) = Copies(f, <<from>>)
           /\ Copies(f, <<from>>) \cap DOMAIN heap = {}
  <1>1. PICK src, S : src = <<from>> /\ S = Reach(<<from>>)
    OBVIOUS
  <1>2. f \in [S -> Nodes] /\ f \in [S -> Nodes \ DOMAIN heap] /\ IsInjective(f) /\ Held(src) \subseteq S
    BY <1>1, SourceReach DEF Places
  <1>3. src \in Seq(Item) /\ Distinct(src)
    BY <1>1, ListOne
  <1>4. /\ Copied(src, f) \in Seq(Item) /\ Len(Copied(src, f)) = Len(src)
        /\ Held(Copied(src, f)) = Copies(f, src)
    BY <1>2, <1>3, CopiesList
  <1>5. Copied(src, f) = <<Head(Copied(src, f))>> /\ Head(Copied(src, f)) \in Item
    BY <1>1, <1>4
  <1>6. Copies(f, src) \cap DOMAIN heap = {}
    BY <1>2 DEF Copies
  <1> QED
    BY <1>1, <1>4, <1>5, <1>6

\* x = from, whatever owns from.
LEMMA CopyToKeeps ==
    ASSUME IInv, NEW x \in Vars, NEW from \in Item, Source(<<from>>), CopyTo(x, from), kind' = kind
    PROVE  IInv'
  <1>1. PICK f \in Places(<<from>>) :
            /\ item' = [item EXCEPT ![x] = Head(Copied(<<from>>, f))]
            /\ heap' = Heap(<<item[x]>>, f) /\ box' = box
    BY DEF CopyTo
  <1>2. PICK new, N, K : /\ new = Head(Copied(<<from>>, f)) /\ N = Copies(f, <<from>>)
                         /\ K = Roots \ Own(x)
    OBVIOUS
  <1>3. new \in Item /\ Held(<<new>>) = N /\ N \cap DOMAIN heap = {}
    BY <1>2, CopiedItem
  <1>4. Roots' = K \cup N /\ RootInv'
    <2>1. N \cap (Roots \ Own(x)) = {}
      BY <1>3, RootsThere
    <2>2. item' = [item EXCEPT ![x] = new]
      BY <1>1, <1>2
    <2> QED
      BY <1>1, <1>2, <1>3, <2>1, <2>2, ItemRoots
  <1>5. Forest(KidsIn(heap'), K \cup N) /\ HeapOK(heap')
    <2>1. Roots = K \cup Held(<<item[x]>>) /\ K \cap Held(<<item[x]>>) = {}
      BY <1>2, RootsThere DEF Own
    <2>2. HeapCall(K, <<item[x]>>, <<from>>, f, heap')
      BY <1>1, <2>1 DEF HeapCall
    <2> QED
      BY <1>2, <2>2, CallForest
  <1>6. TypeInv'
    BY <1>1, <1>2, <1>3, <1>5 DEF IInv, TypeInv
  <1> QED
    BY <1>4, <1>5, <1>6 DEF IInv

\* A box that keeps some items, destroys others and copies more.
LEMMA FillKeeps ==
    ASSUME IInv, kind' = kind, NEW b \in Boxes,
           NEW kept \in Seq(Item), Distinct(kept), NEW dropped,
           Held(kept) \cup Held(dropped) = Held(box[b]), Held(kept) \cap Held(dropped) = {},
           NEW others, Source(others), Fill(b, kept, dropped, others)
    PROVE  IInv'
  <1>1. PICK f \in Places(others) :
            /\ Len(kept) + Len(others) <= MaxLength[b] /\ item' = item
            /\ box' = [box EXCEPT ![b] = kept \o Copied(others, f)] /\ heap' = Heap(dropped, f)
    BY DEF Fill
  <1>2. PICK S, copy, list, N, K :
            /\ S = Reach(others) /\ copy = Copied(others, f) /\ list = kept \o copy
            /\ N = Copies(f, others) /\ K = Roots \ Held(dropped)
    OBVIOUS
  <1>3. /\ f \in [S -> Nodes] /\ f \in [S -> Nodes \ DOMAIN heap] /\ IsInjective(f)
        /\ Held(others) \subseteq S /\ others \in Seq(Item) /\ Distinct(others)
    BY <1>2, SourceReach DEF Places, Source
  <1>4. /\ copy \in Seq(Item) /\ Len(copy) = Len(others) /\ Held(copy) = N /\ Distinct(copy)
    BY <1>2, <1>3, CopiesList
  <1>5. N \cap DOMAIN heap = {}
    BY <1>2, <1>3 DEF Copies
  <1>6. Held(kept) \subseteq Roots /\ Held(dropped) \subseteq Roots
    BY RootsThere
  <1>7. list \in Seq(Item) /\ Held(list) = Held(kept) \cup N /\ Distinct(list)
    <2>1. Held(kept) \cap Held(copy) = {}
      BY <1>4, <1>5, <1>6, RootsThere
    <2> QED
      BY <1>2, <1>4, <2>1, HeldConcat
  <1>8. Roots' = K \cup N /\ RootInv'
    <2>1. PICK M : M = Held(kept) \cup N
      OBVIOUS
    <2>2. M \cap (Roots \ Held(box[b])) = {} /\ M = Held(list)
      BY <1>5, <1>7, <2>1, RootsThere
    <2>3. box' = [box EXCEPT ![b] = list]
      BY <1>1, <1>2
    <2>4. Roots' = (Roots \ Held(box[b])) \cup M /\ RootInv'
      BY <1>1, <2>2, <2>3, BoxRoots
    <2>5. (Roots \ Held(box[b])) \cup M = K \cup N
      BY <1>2, <1>6, <2>1
    <2> QED
      BY <2>4, <2>5
  <1>9. Forest(KidsIn(heap'), K \cup N) /\ HeapOK(heap')
    <2>1. Roots = K \cup Held(dropped) /\ K \cap Held(dropped) = {}
      BY <1>2, <1>6
    <2>2. HeapCall(K, dropped, others, f, heap')
      BY <1>1, <2>1 DEF HeapCall
    <2> QED
      BY <1>2, <2>2, CallForest
  <1>10. TypeInv'
    <2>1. Len(list) <= MaxLength[b]
      <3>1. Len(kept \o copy) = Len(kept) + Len(copy) /\ Len(kept) \in Nat /\ Len(copy) \in Nat
        BY <1>4
      <3>2. Len(copy) = Len(others)
        BY <1>4
      <3> QED
        BY <1>1, <1>2, <3>1, <3>2
    <2> QED
      BY <1>1, <1>2, <1>7, <1>9, <2>1 DEF IInv, TypeInv
  <1> QED
    BY <1>8, <1>9, <1>10 DEF IInv

\* x = JSONItem(b)
LEMMA FromBoxKeeps ==
    ASSUME IInv, NEW x \in Vars, NEW b \in Boxes, FromBox(x, b), kind' = kind
    PROVE  IInv'
  <1>1. PICK f \in Places(box[b]) : \E n \in Nodes \ (DOMAIN heap \cup Range(f)) :
            /\ item' = [item EXCEPT ![x] = [type |-> kind[b], value |-> n]]
            /\ heap' = [m \in DOMAIN Heap(<<item[x]>>, f) \cup {n} |->
                           IF m = n THEN Copied(box[b], f) ELSE Heap(<<item[x]>>, f)[m]]
            /\ box' = box
    BY DEF FromBox
  <1>2. PICK n \in Nodes \ (DOMAIN heap \cup Range(f)) :
            /\ item' = [item EXCEPT ![x] = [type |-> kind[b], value |-> n]]
            /\ heap' = [m \in DOMAIN Heap(<<item[x]>>, f) \cup {n} |->
                           IF m = n THEN Copied(box[b], f) ELSE Heap(<<item[x]>>, f)[m]]
            /\ box' = box
    BY <1>1
  <1>3. PICK S, src, copy, h, N, K, new :
            /\ S = Reach(box[b]) /\ src = box[b] /\ copy = Copied(box[b], f)
            /\ h = Heap(<<item[x]>>, f) /\ N = Copies(f, box[b]) /\ K = Roots \ Own(x)
            /\ new = [type |-> kind[b], value |-> n]
    OBVIOUS
  <1>4. src \in Seq(Item) /\ Distinct(src) /\ Len(src) <= MaxLength[b] /\ Source(src)
    BY <1>3, RootSource, RootsThere DEF IInv, TypeInv
  <1>5. /\ f \in [S -> Nodes] /\ f \in [S -> Nodes \ DOMAIN heap] /\ IsInjective(f)
        /\ Held(src) \subseteq S
    BY <1>3, <1>4, SourceReach DEF Places
  <1>6. copy \in Seq(Item) /\ Len(copy) = Len(src) /\ Held(copy) = N /\ Distinct(copy)
    BY <1>3, <1>4, <1>5, CopiesList
  <1>7. new \in Item /\ Held(<<new>>) = {n}
    <2>1. kind[b] \in Pointers
      BY DEF IInv, TypeInv
    <2>2. new.type \in Pointers /\ new.value = n /\ new \in Item
      BY <1>2, <1>3, <2>1 DEF Item
    <2>3. Held(<<new>>) = IF new.type \in Pointers THEN {new.value} ELSE {}
      BY HeldOne
    <2> QED
      BY <2>2, <2>3
  <1>8. Forest(KidsIn(h), K \cup N) /\ HeapOK(h)
    <2>1. Roots = K \cup Held(<<item[x]>>) /\ K \cap Held(<<item[x]>>) = {}
      BY <1>3, RootsThere DEF Own
    <2>2. HeapCall(K, <<item[x]>>, box[b], f, h)
      BY <1>3, <1>4, <2>1 DEF HeapCall
    <2> QED
      BY <1>3, <2>2, CallForest
  <1>9. n \in Nodes \ DOMAIN h
    <2>1. DOMAIN Heap(<<item[x]>>, f) = (DOMAIN heap \ Reach(<<item[x]>>)) \cup Range(f)
      BY HeapAfter
    <2> QED
      BY <1>2, <1>3, <2>1
  <1>10. Forest(KidsIn(heap'), K \cup {n})
    <2>1. PICK kids, after : kids = KidsIn(h) /\ after = KidsIn(heap')
      OBVIOUS
    <2>2. /\ DOMAIN kids = DOMAIN h /\ DOMAIN after = DOMAIN h \cup {n} /\ after[n] = N
          /\ \A m \in DOMAIN kids : after[m] = kids[m]
      BY <1>2, <1>3, <1>6, <1>9, <2>1 DEF KidsIn
    <2>3. K \cap N = {}
      BY <1>3, <1>5, RootsThere DEF Copies
    <2> QED
      BY <1>8, <1>9, <2>1, <2>2, <2>3, ForestBox
  <1>11. HeapOK(heap')
    <2>1. DOMAIN copy \subseteq Position
      BY <1>4, <1>6, ItemAssumption DEF Position
    <2>2. heap' = [m \in DOMAIN h \cup {n} |-> IF m = n THEN copy ELSE h[m]]
      BY <1>2, <1>3
    <2> QED
      BY <1>6, <1>8, <1>9, <2>1, <2>2 DEF HeapOK
  <1>12. Roots' = K \cup {n} /\ RootInv'
    <2>1. {n} \cap (Roots \ Own(x)) = {}
      BY <1>2, RootsThere
    <2> QED
      BY <1>2, <1>3, <1>7, <2>1, ItemRoots
  <1>13. TypeInv'
    BY <1>2, <1>3, <1>7, <1>11 DEF IInv, TypeInv
  <1> QED
    BY <1>10, <1>12, <1>13 DEF IInv

\* x = JSONItem(), or a scalar
LEMMA AssignScalarKeeps ==
    ASSUME IInv, NEW x \in Vars, AssignScalar(x), kind' = kind
    PROVE  IInv'
  <1>1. PICK s \in Scalars \cup {Null} :
            item' = [item EXCEPT ![x] = s] /\ heap' = Without(<<item[x]>>) /\ box' = box
    BY DEF AssignScalar
  <1>2. s \in Item /\ Held(<<s>>) = {}
    <2>1. s.type \notin Pointers
      BY ItemAssumption DEF Null, Pointers
    <2>2. Held(<<s>>) = IF s.type \in Pointers THEN {s.value} ELSE {}
      BY HeldOne
    <2> QED
      BY <2>1, <2>2 DEF Item
  <1>3. PICK K, N : K = Roots \ Own(x) /\ N = {}
    OBVIOUS
  <1>4. Roots' = K /\ RootInv'
    <2>1. Roots' = (Roots \ Own(x)) \cup N /\ RootInv'
      BY <1>1, <1>2, <1>3, ItemRoots
    <2> QED
      BY <1>3, <2>1
  <1>5. Forest(KidsIn(heap'), K) /\ HeapOK(heap')
    <2>1. Roots = K \cup Held(<<item[x]>>) /\ K \cap Held(<<item[x]>>) = {}
      BY <1>3, RootsThere DEF Own
    <2> QED
      BY <1>1, <2>1, DropForest
  <1>6. TypeInv'
    BY <1>1, <1>2, <1>5 DEF IInv, TypeInv
  <1> QED
    BY <1>4, <1>5, <1>6 DEF IInv

\* x = std::move(y): y owns nothing any more.
LEMMA MoveAssignKeeps ==
    ASSUME IInv, NEW x \in Vars, NEW y \in Vars, MoveAssign(x, y), kind' = kind
    PROVE  IInv'
  <1>1. /\ x # y /\ item' = [item EXCEPT ![x] = item[y], ![y] = Null]
        /\ heap' = Without(<<item[x]>>) /\ box' = box /\ item \in [Vars -> Item]
    BY DEF MoveAssign, IInv, TypeInv
  <1>2. Null \in Item /\ Held(<<Null>>) = {}
    <2>1. Null.type \notin Pointers
      BY DEF Null, Pointers
    <2>2. Held(<<Null>>) = IF Null.type \in Pointers THEN {Null.value} ELSE {}
      BY HeldOne
    <2> QED
      BY <2>1, <2>2 DEF Item
  <1>3. Own(x)' = Own(y) /\ Own(y)' = {} /\ \A z \in Vars \ {x, y} : Own(z)' = Own(z)
    BY <1>1, <1>2 DEF Own
  <1>4. PICK K : K = Roots \ Own(x)
    OBVIOUS
  <1>5. /\ \A z \in Vars \ {x} : Own(z) \subseteq K
        /\ \A b \in Boxes : Held(box[b]) \subseteq K
    BY <1>4, RootsThere DEF IInv, RootInv
  <1>6. Roots' = UNION ({Own(z)' : z \in Vars} \cup {Held(box[b]) : b \in Boxes})
    BY <1>1 DEF Roots
  <1>7. Roots' = K
    <2>1. ASSUME NEW n \in Roots' PROVE n \in K
      BY <1>1, <1>3, <1>5, <1>6, <2>1
    <2>2. ASSUME NEW n \in Roots, n \notin Own(x) PROVE n \in Roots'
      BY <1>3, <1>6, <2>2 DEF Roots
    <2> QED
      BY <1>4, <2>1, <2>2
  <1>8. RootInv'
    <2>1. \A a, b \in Vars : a = b \/ Own(a)' \cap Own(b)' = {}
      BY <1>3 DEF IInv, RootInv
    <2>2. \A a \in Vars, b \in Boxes : Own(a)' \cap Held(box'[b]) = {}
      BY <1>1, <1>3 DEF IInv, RootInv
    <2> QED
      BY <1>1, <2>1, <2>2 DEF IInv, RootInv
  <1>9. Forest(KidsIn(heap'), K) /\ HeapOK(heap')
    <2>1. Roots = K \cup Held(<<item[x]>>) /\ K \cap Held(<<item[x]>>) = {}
      BY <1>4, RootsThere DEF Own
    <2> QED
      BY <1>1, <2>1, DropForest
  <1>10. TypeInv'
    BY <1>1, <1>2, <1>9 DEF IInv, TypeInv
  <1> QED
    BY <1>7, <1>8, <1>9, <1>10 DEF IInv

\* JSONArray b(std::move(c)): c holds nothing any more.
LEMMA MoveBoxKeeps ==
    ASSUME IInv, NEW b \in Boxes, NEW c \in Boxes, MoveBox(b, c), kind' = kind
    PROVE  IInv'
  <1>1. /\ b # c /\ box' = [box EXCEPT ![b] = box[c], ![c] = <<>>] /\ Len(box[c]) <= MaxLength[b]
        /\ heap' = Without(box[b]) /\ item' = item /\ box \in [Boxes -> Seq(Item)]
    BY DEF MoveBox, IInv, TypeInv
  <1>2. /\ Held(box'[b]) = Held(box[c]) /\ Held(box'[c]) = {}
        /\ \A d \in Boxes \ {b, c} : Held(box'[d]) = Held(box[d])
    BY <1>1, HeldNone
  <1>3. PICK K : K = Roots \ Held(box[b])
    OBVIOUS
  <1>4. /\ \A x \in Vars : Own(x) \subseteq K
        /\ \A d \in Boxes \ {b} : Held(box[d]) \subseteq K
    BY <1>3, RootsThere DEF IInv, RootInv
  <1>5. \A x \in Vars : Own(x)' = Own(x)
    BY <1>1 DEF Own
  <1>6. Roots' = UNION ({Own(x) : x \in Vars} \cup {Held(box'[d]) : d \in Boxes})
    BY <1>5 DEF Roots
  <1>7. Roots' = K
    <2>1. ASSUME NEW n \in Roots' PROVE n \in K
      BY <1>1, <1>2, <1>4, <1>6, <2>1
    <2>2. ASSUME NEW n \in Roots, n \notin Held(box[b]) PROVE n \in Roots'
      BY <1>2, <1>6, <2>2 DEF Roots
    <2> QED
      BY <1>3, <2>1, <2>2
  <1>8. RootInv'
    <2>1. \A x \in Vars, d \in Boxes : Own(x)' \cap Held(box'[d]) = {}
      BY <1>2, <1>5 DEF IInv, RootInv
    <2>2. \A d, e \in Boxes : d = e \/ Held(box'[d]) \cap Held(box'[e]) = {}
      BY <1>2 DEF IInv, RootInv
    <2> QED
      BY <1>5, <2>1, <2>2 DEF IInv, RootInv
  <1>9. Forest(KidsIn(heap'), K) /\ HeapOK(heap')
    <2>1. Roots = K \cup Held(box[b]) /\ K \cap Held(box[b]) = {}
      BY <1>3, RootsThere
    <2> QED
      BY <1>1, <2>1, DropForest
  <1>10. TypeInv'
    <2>1. ASSUME NEW d \in Boxes PROVE Len(box'[d]) <= MaxLength[d] /\ Distinct(box'[d])
      <3>1. CASE d = b
        <4>1. box'[d] = box[c]
          BY <1>1, <3>1
        <4> QED
          BY <1>1, <3>1, <4>1 DEF IInv, TypeInv
      <3>2. CASE d = c
        <4>1. box'[d] = <<>> /\ Len(<<>>) = 0 /\ MaxLength[d] \in Nat
          BY <1>1, <3>2, ItemAssumption
        <4>2. Len(box'[d]) = 0 /\ Distinct(box'[d])
          BY <4>1, HeldNone
        <4> QED
          BY <4>1, <4>2
      <3>3. CASE d \notin {b, c}
        <4>1. box'[d] = box[d]
          BY <1>1, <3>3
        <4> QED
          BY <4>1 DEF IInv, TypeInv
      <3> QED
        BY <3>1, <3>2, <3>3
    <2> QED
      BY <1>1, <1>9, <2>1, HeldNone DEF IInv, TypeInv
  <1> QED
    BY <1>7, <1>8, <1>9, <1>10 DEF IInv

\* x = std::move(b[i]): b owns no more what the element did.
LEMMA MoveAtKeeps ==
    ASSUME IInv, NEW x \in Vars, NEW b \in Boxes, NEW i, MoveAt(x, b, i), kind' = kind
    PROVE  IInv'
  <1>1. PICK old, new, K : old = box[b] /\ new = [old EXCEPT ![i] = Null] /\ K = Roots \ Own(x)
    OBVIOUS
  <1>2. /\ i \in DOMAIN old /\ old \in Seq(Item) /\ Distinct(old) /\ Len(old) <= MaxLength[b]
        /\ item' = [item EXCEPT ![x] = old[i]] /\ box' = [box EXCEPT ![b] = new]
        /\ heap' = Without(<<item[x]>>)
        /\ item \in [Vars -> Item] /\ box \in [Boxes -> Seq(Item)]
    BY <1>1 DEF MoveAt, InBounds, IInv, TypeInv
  <1>3. Null \in Item /\ Held(<<Null>>) = {}
    BY NullOwnsNone
  <1>4. /\ new \in Seq(Item) /\ Len(new) = Len(old) /\ Distinct(new)
        /\ Held(new) = Held(old) \ Held(<<old[i]>>)
    <2>1. Held(<<Null>>) \cap Held(old) = {}
      BY <1>3
    <2>2. old \in Seq(Item) /\ Distinct(old) /\ i \in DOMAIN old /\ Null \in Item
      BY <1>2, <1>3
    <2>3. new = ReplaceAt(old, i, Null)
      BY <1>1 DEF ReplaceAt
    <2>4. /\ new \in Seq(Item) /\ Len(new) = Len(old) /\ Distinct(new)
          /\ Held(new) = (Held(old) \ Held(<<old[i]>>)) \cup Held(<<Null>>)
      BY <2>1, <2>2, <2>3, HeldReplace
    <2> QED
      BY <1>3, <2>4
  <1>5. old[i] \in Item /\ Held(<<old[i]>>) \subseteq Held(old)
    BY <1>2, HeldAt
  <1>6. Own(x)' = Held(<<old[i]>>) /\ \A y \in Vars \ {x} : Own(y)' = Own(y)
    BY <1>2 DEF Own
  <1>7. Held(box'[b]) = Held(new) /\ \A c \in Boxes \ {b} : Held(box'[c]) = Held(box[c])
    BY <1>2
  <1>8. /\ \A y \in Vars \ {x} : Own(y) \subseteq K
        /\ \A c \in Boxes : Held(box[c]) \subseteq K
    BY <1>1, RootsThere DEF IInv, RootInv
  <1>9. Roots' = UNION ({Own(y)' : y \in Vars} \cup {Held(box'[c]) : c \in Boxes})
    BY DEF Roots
  <1>10. Roots' = K
    <2>1. ASSUME NEW n \in Roots' PROVE n \in K
      BY <1>1, <1>4, <1>5, <1>6, <1>7, <1>8, <1>9, <2>1
    <2>2. ASSUME NEW n \in Roots, n \notin Own(x) PROVE n \in Roots'
      BY <1>1, <1>4, <1>6, <1>7, <1>9, <2>2 DEF Roots
    <2> QED
      BY <1>1, <2>1, <2>2
  <1>11. RootInv'
    <2>1. \A y \in Vars \ {x} : Own(y) \cap Held(old) = {}
      BY <1>1 DEF IInv, RootInv
    <2>2. \A c \in Boxes \ {b} : Held(box[c]) \cap Held(old) = {}
      BY <1>1 DEF IInv, RootInv
    <2>3. \A y, z \in Vars : y = z \/ Own(y)' \cap Own(z)' = {}
      BY <1>5, <1>6, <2>1 DEF IInv, RootInv
    <2>4. \A y \in Vars, c \in Boxes : Own(y)' \cap Held(box'[c]) = {}
      <3>1. ASSUME NEW y \in Vars, NEW c \in Boxes PROVE Own(y)' \cap Held(box'[c]) = {}
        <4>1. CASE y = x /\ c = b
          BY <1>4, <1>6, <1>7, <4>1
        <4>2. CASE y = x /\ c # b
          BY <1>5, <1>6, <1>7, <2>2, <4>2
        <4>3. CASE y # x /\ c = b
          BY <1>4, <1>6, <1>7, <2>1, <4>3
        <4>4. CASE y # x /\ c # b
          BY <1>6, <1>7, <4>4 DEF IInv, RootInv
        <4> QED
          BY <4>1, <4>2, <4>3, <4>4
      <3> QED
        BY <3>1
    <2>5. \A c, d \in Boxes : c = d \/ Held(box'[c]) \cap Held(box'[d]) = {}
      BY <1>4, <1>7, <2>2 DEF IInv, RootInv
    <2> QED
      BY <2>3, <2>4, <2>5 DEF RootInv
  <1>12. Forest(KidsIn(heap'), K) /\ HeapOK(heap')
    <2>1. Roots = K \cup Held(<<item[x]>>) /\ K \cap Held(<<item[x]>>) = {}
      BY <1>1, RootsThere DEF Own
    <2> QED
      BY <1>2, <2>1, DropForest
  <1>13. TypeInv'
    <2>1. item' \in [Vars -> Item] /\ box' \in [Boxes -> Seq(Item)]
      BY <1>2, <1>4, <1>5
    <2>2. \A c \in Boxes : Len(box'[c]) <= MaxLength[c] /\ Distinct(box'[c])
      BY <1>2, <1>4 DEF IInv, TypeInv
    <2> QED
      BY <1>12, <2>1, <2>2 DEF IInv, TypeInv
  <1> QED
    BY <1>10, <1>11, <1>12, <1>13 DEF IInv

\* b[i] = x
LEMMA SetAtKeeps ==
    ASSUME IInv, NEW x \in Vars, NEW b \in Boxes, NEW i, InBounds(b, i),
           NEW f \in Places(<<item[x]>>),
           box' = [box EXCEPT ![b][i] = Head(Copied(<<item[x]>>, f))],
           heap' = Heap(<<box[b][i]>>, f), item' = item, kind' = kind
    PROVE  IInv'
  <1>1. PICK from, old, gone, copy, new, N, K :
            /\ from = item[x] /\ old = box[b] /\ gone = Held(<<old[i]>>)
            /\ copy = Head(Copied(<<item[x]>>, f)) /\ new = [old EXCEPT ![i] = copy]
            /\ N = Copies(f, <<item[x]>>) /\ K = Roots \ gone
    OBVIOUS
  <1>2. /\ i \in DOMAIN old /\ old \in Seq(Item) /\ Distinct(old) /\ Len(old) <= MaxLength[b]
        /\ box' = [box EXCEPT ![b] = new] /\ box \in [Boxes -> Seq(Item)]
        /\ from \in Item /\ Held(<<from>>) = Own(x)
    BY <1>1 DEF InBounds, IInv, TypeInv, Own
  <1>3. Source(<<from>>)
    <2>1. <<from>> \in Seq(Item) /\ Distinct(<<from>>)
      BY <1>2, ListOne
    <2>2. Held(<<from>>) \subseteq Roots
      BY <1>2, RootsThere
    <2> QED
      BY <2>1, <2>2, RootSource
  <1>4. copy \in Item /\ Held(<<copy>>) = N /\ N \cap DOMAIN heap = {}
    BY <1>1, <1>2, <1>3, CopiedItem
  <1>5. Held(old) \subseteq Roots /\ Roots \subseteq DOMAIN heap
    BY <1>1, RootsThere
  <1>6. gone \subseteq Held(old)
    BY <1>1, <1>2, HeldAt
  <1>7. /\ new \in Seq(Item) /\ Len(new) = Len(old) /\ Distinct(new)
        /\ Held(new) = (Held(old) \ gone) \cup N
    <2>1. Held(<<copy>>) \cap Held(old) = {}
      BY <1>4, <1>5
    <2>2. old \in Seq(Item) /\ Distinct(old) /\ i \in DOMAIN old /\ copy \in Item
      BY <1>2, <1>4
    <2>3. new = ReplaceAt(old, i, copy)
      BY <1>1 DEF ReplaceAt
    <2>4. /\ new \in Seq(Item) /\ Len(new) = Len(old) /\ Distinct(new)
          /\ Held(new) = (Held(old) \ Held(<<old[i]>>)) \cup Held(<<copy>>)
      BY <2>1, <2>2, <2>3, HeldReplace
    <2> QED
      BY <1>1, <1>4, <2>4
  <1>8. Roots' = K \cup N /\ RootInv'
    <2>1. PICK M : M = (Held(old) \ gone) \cup N
      OBVIOUS
    <2>2. M \cap (Roots \ Held(box[b])) = {} /\ M = Held(new)
      BY <1>1, <1>4, <1>5, <1>7, <2>1
    <2>3. Roots' = (Roots \ Held(box[b])) \cup M /\ RootInv'
      BY <1>2, <2>2, BoxRoots
    <2>4. (Roots \ Held(box[b])) \cup M = K \cup N
      BY <1>1, <1>5, <1>6, <2>1
    <2> QED
      BY <2>3, <2>4
  <1>9. Forest(KidsIn(heap'), K \cup N) /\ HeapOK(heap')
    <2>1. Roots = K \cup Held(<<box[b][i]>>) /\ K \cap Held(<<box[b][i]>>) = {}
      BY <1>1, <1>5, <1>6
    <2>2. HeapCall(K, <<box[b][i]>>, <<item[x]>>, f, heap')
      BY <1>1, <1>3, <2>1 DEF HeapCall
    <2> QED
      BY <1>1, <2>2, CallForest
  <1>10. TypeInv'
    <2>1. box' \in [Boxes -> Seq(Item)]
      BY <1>2, <1>7
    <2>2. \A c \in Boxes : Len(box'[c]) <= MaxLength[c] /\ Distinct(box'[c])
      BY <1>2, <1>7 DEF IInv, TypeInv
    <2> QED
      BY <1>9, <2>1, <2>2 DEF IInv, TypeInv
  <1> QED
    BY <1>8, <1>9, <1>10 DEF IInv

\* A box that is given other items for those it held.
LEMMA ReplaceKeeps ==
    ASSUME IInv, kind' = kind, NEW b \in Boxes, NEW others, Source(others),
           Fill(b, <<>>, box[b], others)
    PROVE  IInv'
  <1>1. PICK none, all : none = <<>> /\ all = box[b]
    OBVIOUS
  <1>2. none \in Seq(Item) /\ Distinct(none) /\ Held(none) = {}
    BY <1>1, HeldNone
  <1>3. Held(none) \cup Held(all) = Held(box[b]) /\ Held(none) \cap Held(all) = {}
    BY <1>1, <1>2
  <1>4. Fill(b, none, all, others)
    BY <1>1
  <1> QED
    BY <1>2, <1>3, <1>4, FillKeeps

\* A box that keeps all its items and is given more.
LEMMA AppendKeeps ==
    ASSUME IInv, kind' = kind, NEW b \in Boxes, NEW others, Source(others),
           Fill(b, box[b], <<>>, others)
    PROVE  IInv'
  <1>1. PICK none, all : none = <<>> /\ all = box[b]
    OBVIOUS
  <1>2. all \in Seq(Item) /\ Distinct(all) /\ Held(none) = {}
    BY <1>1, HeldNone DEF IInv, TypeInv
  <1>3. Held(all) \cup Held(none) = Held(box[b]) /\ Held(all) \cap Held(none) = {}
    BY <1>1, <1>2
  <1>4. Fill(b, all, none, others)
    BY <1>1
  <1> QED
    BY <1>2, <1>3, <1>4, FillKeeps

\* The list of a box can be copied,
LEMMA BoxSource ==
    ASSUME IInv, NEW b \in Boxes
    PROVE  box[b] \in Seq(Item) /\ Distinct(box[b]) /\ Source(box[b])
  <1>1. PICK src : src = box[b]
    OBVIOUS
  <1>2. src \in Seq(Item) /\ Distinct(src) /\ Held(src) \subseteq Roots
    BY <1>1, RootsThere DEF IInv, TypeInv
  <1> QED
    BY <1>1, <1>2, RootSource

\* and so can the item of a variable.
LEMMA ItemSource ==
    ASSUME IInv, NEW x \in Vars
    PROVE  item[x] \in Item /\ Source(<<item[x]>>)
  <1>1. PICK src : src = <<item[x]>>
    OBVIOUS
  <1>2. item[x] \in Item
    BY DEF IInv, TypeInv
  <1>3. src \in Seq(Item) /\ Distinct(src)
    BY <1>1, <1>2, ListOne
  <1>4. Held(src) \subseteq Roots
    BY <1>1, RootsThere DEF Own
  <1> QED
    BY <1>1, <1>2, <1>3, <1>4, RootSource

\* b = x.toArray() or b = x.toObject()
LEMMA ToBoxKeeps ==
    ASSUME IInv, NEW x \in Vars, NEW b \in Boxes, ToBox(b, x), kind' = kind,
           item[x].type = kind[b]
    PROVE  IInv'
  <1>1. item[x].type \in Pointers
    BY DEF IInv, TypeInv
  <1>2. item[x].value \in Roots
    <2>1. Own(x) = IF item[x].type \in Pointers THEN {item[x].value} ELSE {}
      BY HeldOne DEF Own
    <2> QED
      BY <1>1, <2>1, RootsThere
  <1>3. PICK others : others = heap[item[x].value]
    OBVIOUS
  <1>4. Source(others)
    BY <1>2, <1>3, NodeSource
  <1>5. Fill(b, <<>>, box[b], others)
    BY <1>3 DEF ToBox
  <1> QED
    BY <1>4, <1>5, ReplaceKeeps

\* b = c + d
LEMMA PlusKeeps ==
    ASSUME IInv, NEW b \in Boxes, NEW c \in Boxes, NEW d \in Boxes, Plus(b, c, d), kind' = kind
    PROVE  IInv'
  <1>1. PICK s, t, others : s = box[c] /\ t = box[d] /\ others = s \o t
    OBVIOUS
  <1>2. s \in Seq(Item) /\ Distinct(s) /\ t \in Seq(Item) /\ Distinct(t)
    BY <1>1, BoxSource
  <1>3. Held(s) \cap Held(t) = {} /\ Held(s) \subseteq Roots /\ Held(t) \subseteq Roots
    BY <1>1, RootsThere DEF Plus, IInv, RootInv
  <1>4. others \in Seq(Item) /\ Held(others) = Held(s) \cup Held(t) /\ Distinct(others)
    BY <1>1, <1>2, <1>3, HeldConcat
  <1>5. Source(others)
    BY <1>3, <1>4, RootSource
  <1>6. Fill(b, <<>>, box[b], others)
    BY <1>1 DEF Plus
  <1> QED
    BY <1>5, <1>6, ReplaceKeeps

\* remove of the element at i
LEMMA EraseKeeps ==
    ASSUME IInv, NEW b \in Boxes, NEW i \in DOMAIN box[b], Erase(b, i), kind' = kind
    PROVE  IInv'
  <1>1. PICK all, rest, gone, none : /\ all = box[b] /\ rest = RemoveAt(all, i)
                                     /\ gone = <<all[i]>> /\ none = <<>>
    OBVIOUS
  <1>2. all \in Seq(Item) /\ Distinct(all)
    BY <1>1, BoxSource
  <1>3. /\ rest \in Seq(Item) /\ Distinct(rest)
        /\ Held(rest) \cup Held(gone) = Held(box[b]) /\ Held(rest) \cap Held(gone) = {}
    BY <1>1, <1>2, HeldErase
  <1>4. Fill(b, rest, gone, none)
    BY <1>1 DEF Erase
  <1>5. Source(none)
    BY <1>1, HeldNone
  <1> QED
    BY <1>3, <1>4, <1>5, FillKeeps

\* resize and clear
LEMMA ResizeKeeps ==
    ASSUME IInv, NEW b \in Boxes, NEW n \in Nat, Resize(b, n), kind' = kind
    PROVE  IInv'
  <1>1. PICK old, kept, dropped, more, others :
            /\ old = box[b] /\ kept = SubSeq(old, 1, Min({n, Len(old)}))
            /\ dropped = SubSeq(old, n + 1, Len(old))
            /\ more = (IF n > Len(old) THEN n - Len(old) ELSE 0)
            /\ others = [i \in 1..more |-> Null]
    OBVIOUS
  <1>2. old \in Seq(Item) /\ Distinct(old)
    BY <1>1, BoxSource
  <1>3. /\ kept \in Seq(Item) /\ Distinct(kept)
        /\ Held(kept) \cup Held(dropped) = Held(box[b]) /\ Held(kept) \cap Held(dropped) = {}
    <2>1. Cut(old, n, kept, dropped)
      BY <1>1 DEF Cut
    <2>2. /\ kept \in Seq(Item) /\ Distinct(kept)
          /\ Held(kept) \cup Held(dropped) = Held(old) /\ Held(kept) \cap Held(dropped) = {}
      BY <1>2, <2>1, HeldCut
    <2> QED
      BY <1>1, <2>2
  <1>4. more \in Nat
    BY <1>1, <1>2
  <1>5. others \in Seq(Item)
    BY <1>1, <1>4, NullOwnsNone
  <1>6. \A i \in DOMAIN others : others[i].type \notin Pointers
    BY <1>1, <1>4 DEF Null, Pointers
  <1>7. Held(others) = {} /\ Distinct(others)
    BY <1>6 DEF Held, Distinct
  <1>8. Source(others)
    BY <1>5, <1>7, RootSource
  <1>9. Fill(b, kept, dropped, others)
    BY <1>1 DEF Resize
  <1> QED
    BY <1>3, <1>8, <1>9, FillKeeps

------------------------------------------------------------------------------
(* Every call *)

\* A call that throws changes nothing.
LEMMA ThrowsKeeps ==
    ASSUME IInv, UNCHANGED vars
    PROVE  IInv'
  BY DEF vars, IInv, TypeInv, RootInv, Roots, Own

\* Calls on variables of type JSONItem.
LEMMA ItemCalls ==
    ASSUME IInv, kind' = kind, NEW x \in Vars, NEW y \in Vars,
           CopyAssign(x, y) \/ MoveAssign(x, y)
    PROVE  IInv'
  <1>1. CASE CopyAssign(x, y)
    BY <1>1, ItemSource, CopyToKeeps DEF CopyAssign
  <1> QED
    BY <1>1, MoveAssignKeeps

\* Calls on one box, or on two.
LEMMA BoxCalls ==
    ASSUME IInv, kind' = kind, NEW b \in Boxes, NEW c \in Boxes,
           CopyBox(b, c) \/ MoveBox(b, c) \/ PlusAssign(b, c)
    PROVE  IInv'
  <1>1. CASE CopyBox(b, c)
    BY <1>1, BoxSource, ReplaceKeeps DEF CopyBox
  <1>2. CASE PlusAssign(b, c)
    BY <1>2, BoxSource, AppendKeeps DEF PlusAssign
  <1> QED
    BY <1>1, <1>2, MoveBoxKeeps

\* b = JSONArray(b.toListInt()), and so on.
LEMMA RebuildKeeps ==
    ASSUME IInv, kind' = kind, NEW b \in Boxes, NEW type, Rebuild(b, type)
    PROVE  IInv'
  <1>1. CASE Fill(b, <<>>, box[b], box[b])
    BY <1>1, BoxSource, ReplaceKeeps
  <1> QED
    BY <1>1, ThrowsKeeps DEF Rebuild, Throws

\* Calls on an item and a box.
LEMMA ElementCalls ==
    ASSUME IInv, kind' = kind, NEW x \in Vars, NEW b \in Boxes,
           ToBox(b, x) \/ Add(b, x) \/ RemoveItem(b, x)
    PROVE  IInv'
  <1>1. CASE ToBox(b, x)
    BY <1>1, ToBoxKeeps, ThrowsKeeps DEF ToBox, Throws
  <1>2. CASE Add(b, x)
    BY <1>2, ItemSource, AppendKeeps DEF Add
  <1>3. CASE RemoveItem(b, x)
    <2>1. ASSUME NEW i \in Found(b, x), Erase(b, i) PROVE IInv'
      BY <2>1, EraseKeeps DEF Found
    <2> QED
      BY <1>3, <2>1, ThrowsKeeps DEF RemoveItem, Throws
  <1> QED
    BY <1>1, <1>2, <1>3

\* Calls on an element by its place.
LEMMA PlaceCalls ==
    ASSUME IInv, kind' = kind, NEW x \in Vars, NEW b \in Boxes, NEW i,
           SetAt(b, i, x) \/ GetAt(x, b, i) \/ MoveAt(x, b, i)
    PROVE  IInv'
  <1>1. CASE SetAt(b, i, x)
    BY <1>1, SetAtKeeps, ThrowsKeeps DEF SetAt, Throws
  <1>2. CASE GetAt(x, b, i)
    <2>1. ASSUME InBounds(b, i), CopyTo(x, box[b][i]) PROVE IInv'
      <3>1. PICK all, from, src : all = box[b] /\ from = all[i] /\ src = <<from>>
        OBVIOUS
      <3>2. all \in Seq(Item) /\ i \in DOMAIN all /\ Held(all) \subseteq Roots
        BY <2>1, <3>1, BoxSource, RootsThere DEF InBounds
      <3>3. from \in Item /\ Held(src) \subseteq Held(all)
        BY <3>1, <3>2, HeldAt
      <3>4. src \in Seq(Item) /\ Distinct(src)
        BY <3>1, <3>3, ListOne
      <3>5. Source(src)
        BY <3>2, <3>3, <3>4, RootSource
      <3> QED
        BY <2>1, <3>1, <3>3, <3>5, CopyToKeeps
    <2> QED
      BY <1>2, <2>1, ThrowsKeeps DEF GetAt, Throws
  <1> QED
    BY <1>1, <1>2, MoveAtKeeps

\* No call takes a node from its owner or gives it a second one.
LEMMA NextIInv == IInv /\ [Next /\ UNCHANGED kind]_vars => IInv'
  <1> SUFFICES ASSUME IInv, [Next /\ UNCHANGED kind]_vars PROVE IInv'
    OBVIOUS
  <1>1. CASE UNCHANGED vars
    BY <1>1, ThrowsKeeps
  <1>2. CASE Next /\ kind' = kind
    <2>1. ASSUME NEW x \in Vars, AssignScalar(x) PROVE IInv'
      BY <1>2, <2>1, AssignScalarKeeps
    <2>2. ASSUME NEW b \in Boxes, NEW c \in Boxes, NEW d \in Boxes, Plus(d, b, c) PROVE IInv'
      BY <1>2, <2>2, PlusKeeps
    <2>3. ASSUME NEW x \in Vars, NEW b \in Boxes, FromBox(x, b) PROVE IInv'
      BY <1>2, <2>3, FromBoxKeeps
    <2>4. ASSUME NEW b \in Boxes, NEW n \in 0..MaxLength[b], Resize(b, n) PROVE IInv'
      <3>1. n \in Nat
        BY ItemAssumption
      <3> QED
        BY <1>2, <2>4, <3>1, ResizeKeeps
    <2>5. ASSUME NEW b \in Boxes, NEW n, RemoveKey(b, n) PROVE IInv'
      BY <1>2, <2>5, EraseKeeps DEF RemoveKey, InBounds
    <2>6. ASSUME NEW x \in Vars, NEW y \in Vars, CopyAssign(x, y) \/ MoveAssign(x, y) PROVE IInv'
      BY <1>2, <2>6, ItemCalls
    <2>7. ASSUME NEW b \in Boxes, NEW c \in Boxes, CopyBox(b, c) \/ MoveBox(b, c) \/ PlusAssign(b, c)
          PROVE  IInv'
      BY <1>2, <2>7, BoxCalls
    <2>8. ASSUME NEW b \in Boxes, NEW type, Rebuild(b, type) PROVE IInv'
      BY <1>2, <2>8, RebuildKeeps
    <2>9. ASSUME NEW x \in Vars, NEW b \in Boxes, ToBox(b, x) \/ Add(b, x) \/ RemoveItem(b, x)
          PROVE  IInv'
      BY <1>2, <2>9, ElementCalls
    <2>10. ASSUME NEW x \in Vars, NEW b \in Boxes, NEW i, SetAt(b, i, x) \/ GetAt(x, b, i) \/ MoveAt(x, b, i)
           PROVE  IInv'
      BY <1>2, <2>10, PlaceCalls
    <2> QED
      BY <1>2, <2>1, <2>2, <2>3, <2>4, <2>5, <2>6, <2>7, <2>8, <2>9, <2>10 DEF Next
  <1> QED
    BY <1>1, <1>2

\* No node at first.
LEMMA InitIInv == Init => IInv
  <1> SUFFICES ASSUME Init PROVE IInv
    OBVIOUS
  <1>1. /\ kind \in [Boxes -> Pointers] /\ item \in [Vars -> Item] /\ box \in [Boxes -> Seq(Item)]
        /\ \A b \in Boxes : box[b] = <<>>
        /\ \A x \in Vars : Own(x) = {}
    BY ItemAssumption, NullOwnsNone, HeldNone DEF Init, Own
  <1>2. \A b \in Boxes : Held(box[b]) = {} /\ Distinct(box[b]) /\ Len(box[b]) <= MaxLength[b]
    BY <1>1, HeldNone, ItemAssumption
  <1>3. DOMAIN heap = {} /\ heap = [n \in {} |-> heap[n]]
    BY DEF Init
  <1>4. Roots = {} /\ RootInv
    BY <1>1, <1>2 DEF Roots, RootInv
  <1>5. Forest(KidsIn(heap), Roots)
    BY <1>3, <1>4 DEF Forest, KidsIn
  <1>6. TypeInv
    BY <1>1, <1>2, <1>3 DEF TypeInv, HeapOK
  <1> QED
    BY <1>4, <1>5, <1>6 DEF IInv

\* Destructors get at every node, and at no other.
LEMMA AllReached ==
    ASSUME IInv
    PROVE  DOMAIN heap = UNION ({Reach(<<item[x]>>) : x \in Vars} \cup {Reach(box[b]) : b \in Boxes})
  <1>1. PICK kids, U : /\ kids = KidsIn(heap)
                       /\ U = UNION ({Reach(<<item[x]>>) : x \in Vars} \cup {Reach(box[b]) : b \in Boxes})
    OBVIOUS
  <1>2. /\ DOMAIN kids = DOMAIN heap /\ DOMAIN kids \subseteq Nodes
        /\ \A m \in DOMAIN kids : kids[m] \subseteq Nodes
        /\ DOMAIN kids \subseteq From(kids, Roots)
    BY <1>1 DEF IInv, Forest, KidsIn
  <1>3. ASSUME NEW x \in Vars
        PROVE  /\ Own(x) \subseteq Reach(<<item[x]>>) /\ Reach(<<item[x]>>) \subseteq DOMAIN heap
               /\ Closed(kids, Reach(<<item[x]>>))
    <2>1. PICK src : src = <<item[x]>>
      OBVIOUS
    <2>2. Held(src) \subseteq Reach(src) /\ Reach(src) \subseteq DOMAIN heap
      BY <2>1, ItemSource, SourceReach
    <2>3. Held(src) \in SUBSET Nodes
      BY <1>2, <2>2
    <2>4. Closed(kids, Reach(src))
      BY <1>1, <1>2, <2>3, FromCloses, ReachIsFrom
    <2> QED
      BY <2>1, <2>2, <2>4 DEF Own
  <1>4. ASSUME NEW b \in Boxes
        PROVE  /\ Held(box[b]) \subseteq Reach(box[b]) /\ Reach(box[b]) \subseteq DOMAIN heap
               /\ Closed(kids, Reach(box[b]))
    <2>1. PICK src : src = box[b]
      OBVIOUS
    <2>2. Held(src) \subseteq Reach(src) /\ Reach(src) \subseteq DOMAIN heap
      BY <2>1, BoxSource, SourceReach
    <2>3. Held(src) \in SUBSET Nodes
      BY <1>2, <2>2
    <2>4. Closed(kids, Reach(src))
      BY <1>1, <1>2, <2>3, FromCloses, ReachIsFrom
    <2> QED
      BY <2>1, <2>2, <2>4
  <1>5. U \subseteq DOMAIN heap
    BY <1>1, <1>3, <1>4
  <1>6. Roots \subseteq U
    BY <1>1, <1>3, <1>4 DEF Roots
  <1>7. Closed(kids, U)
    <2> SUFFICES ASSUME NEW m \in U \cap DOMAIN kids, NEW n \in kids[m] PROVE n \in U
      BY DEF Closed
    <2>1. ASSUME NEW x \in Vars, m \in Reach(<<item[x]>>) PROVE n \in U
      <3>1. n \in Reach(<<item[x]>>)
        BY <1>3, <2>1 DEF Closed
      <3> QED
        BY <1>1, <3>1
    <2>2. ASSUME NEW b \in Boxes, m \in Reach(box[b]) PROVE n \in U
      <3>1. n \in Reach(box[b])
        BY <1>4, <2>2 DEF Closed
      <3> QED
        BY <1>1, <3>1
    <2> QED
      BY <1>1, <2>1, <2>2
  <1>8. From(kids, Roots) \subseteq U
    <2>1. U \in SUBSET Nodes
      BY <1>2, <1>5
    <2> QED
      BY <1>6, <1>7, <2>1, FromLeast
  <1> QED
    BY <1>1, <1>2, <1>5, <1>8

\* A place of a list whose item owns n.
At(items, i, n) == i \in DOMAIN items /\ Owns(items[i], n)

\* A list owns a node where one of its items does, which is one place at most.
LEMMA HeldWhere ==
    ASSUME NEW items, NEW n
    PROVE  /\ n \in Held(items) <=> \E i : At(items, i, n)
           /\ Distinct(items) => \A i, j : At(items, i, n) /\ At(items, j, n) => i = j
  BY DEF Held, Distinct, At, Owns

\* Every node has an owner, and no two.
LEMMA OneOwnerEach ==
    ASSUME IInv, NEW n \in DOMAIN heap
    PROVE  Cardinality(Owners(n)) = 1
  <1>1. PICK kids : kids = KidsIn(heap)
    OBVIOUS
  <1>2. /\ DOMAIN kids = DOMAIN heap /\ DOMAIN kids \subseteq Nodes
        /\ \A m \in DOMAIN heap : kids[m] = Held(heap[m])
        /\ \A m \in DOMAIN kids : kids[m] \subseteq DOMAIN kids \ Roots
        /\ \A l, m \in DOMAIN kids : l = m \/ kids[l] \cap kids[m] = {}
        /\ DOMAIN kids \subseteq From(kids, Roots)
    BY <1>1 DEF IInv, Forest, KidsIn
  <1>3. PICK A, B, C :
          /\ A = {x \in Vars : Owns(item[x], n)}
          /\ B = {p \in Boxes \X Position : At(box[p[1]], p[2], n)}
          /\ C = {p \in (DOMAIN heap) \X Position : At(heap[p[1]], p[2], n)}
    OBVIOUS
  <1>4. Owners(n) = A \cup B \cup C
    BY <1>3 DEF Owners, At
  <1>5. \A x \in Vars : x \in A <=> n \in Own(x)
    <2>1. ASSUME NEW x \in Vars PROVE x \in A <=> n \in Own(x)
      <3>1. Own(x) = IF item[x].type \in Pointers THEN {item[x].value} ELSE {}
        BY HeldOne DEF Own
      <3> QED
        BY <1>3, <3>1 DEF Owns
    <2> QED
      BY <2>1
  <1>6. \A b \in Boxes : n \in Held(box[b]) => \E i : <<b, i>> \in B
    <2>1. ASSUME NEW b \in Boxes, n \in Held(box[b]) PROVE \E i : <<b, i>> \in B
      <3>1. PICK i : At(box[b], i, n)
        BY <2>1, HeldWhere
      <3>2. i \in 1..MaxLength[b]
        <4>1. box[b] \in Seq(Item) /\ Len(box[b]) <= MaxLength[b] /\ MaxLength[b] \in Nat
          BY ItemAssumption DEF IInv, TypeInv
        <4> QED
          BY <3>1, <4>1 DEF At
      <3> QED
        BY <1>3, <3>1, <3>2 DEF Position
    <2> QED
      BY <2>1
  <1>7. \A m \in DOMAIN heap : n \in kids[m] => \E i : <<m, i>> \in C
    <2>1. ASSUME NEW m \in DOMAIN heap, n \in kids[m] PROVE \E i : <<m, i>> \in C
      <3>1. PICK i : At(heap[m], i, n)
        BY <1>2, <2>1, HeldWhere
      <3>2. i \in Position
        BY <3>1 DEF At, IInv, TypeInv, HeapOK
      <3> QED
        BY <1>3, <3>1, <3>2
    <2> QED
      BY <2>1
  <1>8. \E o : o \in Owners(n)
    <2>1. CASE n \in Roots
      BY <1>4, <1>5, <1>6, <2>1 DEF Roots
    <2>2. CASE n \notin Roots
      <3>1. Roots \in SUBSET Nodes /\ \A m \in DOMAIN kids : kids[m] \subseteq Nodes
        BY <1>2, RootsThere
      <3>2. n \in From(kids, Roots)
        BY <1>2
      <3>3. PICK m \in DOMAIN kids : n \in kids[m]
        BY <2>2, <3>1, <3>2, FromOwner
      <3> QED
        BY <1>2, <1>4, <1>7, <3>3
    <2> QED
      BY <2>1, <2>2
  <1>9. ASSUME NEW x \in A PROVE x \in Vars /\ n \in Own(x) /\ n \in Roots
    BY <1>3, <1>5, <1>9 DEF Roots
  <1>10. ASSUME NEW p \in B
         PROVE  /\ p = <<p[1], p[2]>> /\ p[1] \in Boxes /\ At(box[p[1]], p[2], n)
                /\ n \in Held(box[p[1]]) /\ n \in Roots
    <2>1. p = <<p[1], p[2]>> /\ p[1] \in Boxes /\ At(box[p[1]], p[2], n)
      BY <1>3
    <2>2. n \in Held(box[p[1]])
      BY <2>1, HeldWhere
    <2> QED
      BY <2>1, <2>2 DEF Roots
  <1>11. ASSUME NEW p \in C
         PROVE  /\ p = <<p[1], p[2]>> /\ p[1] \in DOMAIN heap /\ At(heap[p[1]], p[2], n)
                /\ n \in kids[p[1]] /\ n \notin Roots
    <2>1. p = <<p[1], p[2]>> /\ p[1] \in DOMAIN heap /\ At(heap[p[1]], p[2], n)
      BY <1>3
    <2>2. n \in Held(heap[p[1]])
      BY <2>1, HeldWhere
    <2> QED
      BY <1>2, <2>1, <2>2
  <1>12. \A x, y \in A : x = y
    BY <1>9 DEF IInv, RootInv
  <1>13. \A x \in A, p \in B : FALSE
    BY <1>9, <1>10 DEF IInv, RootInv
  <1>14. ASSUME NEW p \in B, NEW q \in B PROVE p = q
    <2>1. p[1] = q[1]
      BY <1>10 DEF IInv, RootInv
    <2>2. Distinct(box[p[1]])
      BY <1>10 DEF IInv, TypeInv
    <2>3. p[2] = q[2]
      BY <1>10, <2>1, <2>2, HeldWhere
    <2> QED
      BY <1>10, <2>1, <2>3
  <1>15. ASSUME NEW p \in C, NEW q \in C PROVE p = q
    <2>1. p[1] = q[1]
      BY <1>2, <1>11
    <2>2. Distinct(heap[p[1]])
      BY <1>11 DEF IInv, TypeInv, HeapOK
    <2>3. p[2] = q[2]
      BY <1>11, <2>1, <2>2, HeldWhere
    <2> QED
      BY <1>11, <2>1, <2>3
  <1>16. \A o, p \in Owners(n) : o = p
    BY <1>4, <1>9, <1>10, <1>11, <1>12, <1>13, <1>14, <1>15
  <1>17. PICK o : Owners(n) = {o}
    BY <1>8, <1>16
  <1> QED
    BY <1>17, FS_Singleton

\* Copies, moves and removals, of any items of any depth, never leave two items
\* with one node, a node that is gone in an item, or a node that no destructor
\* deletes.
THEOREM OneOwner == Spec => []OwnedOnce
  <1>1. IInv => OwnedOnce
    BY AllReached, OneOwnerEach DEF OwnedOnce
  <1> QED
    BY InitIInv, NextIInv, <1>1, PTL DEF Spec

------------------------------------------------------------------------------
(* Numbers for the nodes of a forest *)

\* Every set of numbers has a least one.
LEMMA LeastNumber ==
    ASSUME NEW T, T \subseteq Nat, T # {}
    PROVE  \E m \in T : \A k \in T : m <= k
  <1> DEFINE C == {0..k : k \in T}
  <1>1. C \subseteq FiniteSubsetsOf(Nat)
    <2>1. ASSUME NEW k \in T PROVE 0..k \in FiniteSubsetsOf(Nat)
      <3>1. k \in Int /\ IsFiniteSet(0..k)
        BY FS_Interval
      <3> QED
        BY <3>1 DEF FiniteSubsetsOf
    <2> QED
      BY <2>1
  <1>2. C # {}
    OBVIOUS
  <1>3. PICK x \in C : \A y \in C : <<y, x>> \notin StrictSubsetOrdering(Nat)
    <2> HIDE DEF C
    <2> QED
      BY <1>1, <1>2, FS_StrictSubsetOrderingWellFounded, WFMin
  <1>4. PICK m \in T : x = 0..m
    OBVIOUS
  <1>5. ASSUME NEW k \in T, k < m PROVE FALSE
    <2>1. 0..k \subseteq 0..m /\ m \in 0..m /\ m \notin 0..k
      BY <1>5
    <2>2. <<0..k, 0..m>> \in StrictSubsetOrdering(Nat)
      BY <2>1 DEF StrictSubsetOrdering
    <2> QED
      BY <1>3, <1>4, <2>2
  <1> QED
    BY <1>5

------------------------------------------------------------------------------
(* The lists of trees *)

\* A node is not among what its kids get at.
LEMMA ForestHasNoCycle ==
    ASSUME NEW kids, NEW roots, Forest(kids, roots),
           NEW n \in DOMAIN kids, NEW m \in kids[n]
    PROVE  n \notin From(kids, {m})
  <1>1. PICK S, C : S = From(kids, {m}) /\ C = DOMAIN kids \ S
    OBVIOUS
  <1>2. /\ DOMAIN kids \subseteq Nodes /\ m \in DOMAIN kids /\ m \notin roots
        /\ \A a \in DOMAIN kids : kids[a] \subseteq DOMAIN kids
        /\ \A a \in DOMAIN kids : kids[a] \cap roots = {}
        /\ \A a, b \in DOMAIN kids : a = b \/ kids[a] \cap kids[b] = {}
        /\ roots \subseteq DOMAIN kids /\ DOMAIN kids \subseteq From(kids, roots)
    BY DEF Forest
  <1>3. {m} \in SUBSET Nodes /\ \A a \in DOMAIN kids : kids[a] \subseteq Nodes
    BY <1>2
  <1> SUFFICES ASSUME n \in S PROVE FALSE
    BY <1>1
  <1>4. ASSUME NEW c \in S, c # m PROVE \E p \in S \cap DOMAIN kids : c \in kids[p]
    BY <1>1, <1>3, <1>4, FromOwner
  <1>5. roots \subseteq C
    BY <1>1, <1>2, <1>4
  <1>6. Closed(kids, C)
    <2> SUFFICES ASSUME NEW a \in C, NEW c \in kids[a], c \in S PROVE FALSE
      BY <1>1, <1>2 DEF Closed
    <2>1. \E p \in S \cap DOMAIN kids : c \in kids[p]
      BY <1>4
    <2> QED
      BY <1>1, <1>2, <2>1
  <1>7. From(kids, roots) \subseteq C
    BY <1>1, <1>2, <1>5, <1>6, FromLeast
  <1> QED
    BY <1>1, <1>2, <1>7

\* Nodes can be numbered so that the kids of a node come before it.
Ranked(h, rank) ==
    /\ rank \in [DOMAIN h -> 1..Cardinality(Nodes)]
    /\ \A n \in DOMAIN h : \A m \in Held(h[n]) \cap DOMAIN h : rank[m] < rank[n]

\* A forest has such numbers.
LEMMA ForestRanked ==
    ASSUME NEW h, NEW roots, Forest(KidsIn(h), roots)
    PROVE  \E rank : Ranked(h, rank)
  <1>1. PICK kids : kids = KidsIn(h)
    OBVIOUS
  <1>2. PICK size : size = [n \in DOMAIN h |-> Cardinality(From(kids, {n}))]
    OBVIOUS
  <1>3. /\ DOMAIN kids = DOMAIN h /\ \A n \in DOMAIN h : kids[n] = Held(h[n])
        /\ DOMAIN kids \subseteq Nodes /\ \A n \in DOMAIN kids : kids[n] \subseteq Nodes
        /\ Forest(kids, roots)
    BY <1>1 DEF KidsIn, Forest
  <1>4. IsFiniteSet(Nodes)
    BY ItemAssumption
  <1>5. ASSUME NEW n \in DOMAIN h
        PROVE  /\ n \in From(kids, {n}) /\ From(kids, {n}) \subseteq Nodes
               /\ Closed(kids, From(kids, {n})) /\ IsFiniteSet(From(kids, {n}))
    <2>1. {n} \in SUBSET Nodes
      BY <1>3
    <2>2. n \in From(kids, {n}) /\ From(kids, {n}) \subseteq Nodes /\ Closed(kids, From(kids, {n}))
      BY <1>3, <2>1, FromCloses
    <2> QED
      BY <1>4, <2>2, FS_Subset
  <1>6. ASSUME NEW n \in DOMAIN h PROVE size[n] \in 1..Cardinality(Nodes)
    <2>1. Cardinality(From(kids, {n})) \in Nat /\ Cardinality(From(kids, {n})) # 0
      BY <1>5, FS_CardinalityType, FS_EmptySet
    <2>2. Cardinality(Nodes) \in Nat /\ Cardinality(From(kids, {n})) <= Cardinality(Nodes)
      BY <1>4, <1>5, FS_CardinalityType, FS_Subset
    <2> QED
      BY <1>2, <2>1, <2>2
  <1>7. ASSUME NEW n \in DOMAIN h, NEW m \in Held(h[n]) \cap DOMAIN h PROVE size[m] < size[n]
    <2>1. PICK A, B : A = From(kids, {m}) /\ B = From(kids, {n})
      OBVIOUS
    <2>2. m \in kids[n] /\ n \in DOMAIN kids
      BY <1>3
    <2>3. n \notin A
      BY <1>3, <2>1, <2>2, ForestHasNoCycle
    <2>4. n \in B /\ B \in SUBSET Nodes /\ Closed(kids, B) /\ IsFiniteSet(B)
      BY <1>5, <2>1
    <2>5. A \subseteq B
      <3>1. {m} \subseteq B
        BY <2>2, <2>4 DEF Closed
      <3> QED
        BY <2>1, <2>4, <3>1, FromLeast
    <2>6. Cardinality(A) < Cardinality(B)
      <3>1. A \subseteq B /\ A # B
        BY <2>3, <2>4, <2>5
      <3>2. Cardinality(A) <= Cardinality(B) /\ Cardinality(A) # Cardinality(B)
        BY <2>4, <3>1, FS_Subset
      <3>3. Cardinality(A) \in Nat /\ Cardinality(B) \in Nat
        BY <1>5, <2>1, FS_CardinalityType
      <3> QED
        BY <3>2, <3>3
    <2> QED
      BY <1>2, <2>1, <2>6
  <1>8. size \in [DOMAIN h -> 1..Cardinality(Nodes)]
    BY <1>2, <1>6
  <1>9. Ranked(h, size)
    BY <1>7, <1>8 DEF Ranked
  <1> QED
    BY <1>9

\* The lists of trees to a depth, for any heap.
Level(h, g, depth) == IF depth = 0 THEN <<>> ELSE [n \in DOMAIN h |-> TreesOf(h[n], g[depth - 1])]

Levels(h, g, top) == g = [depth \in 0..top |-> Level(h, g, depth)]

\* There are such lists to every depth.
LEMMA LevelsExist ==
    ASSUME NEW h, NEW top \in Nat
    PROVE  \E g : Levels(h, g, top)
  <1> DEFINE T == {k \in Nat : ~\E g : Levels(h, g, k)}
  <1> SUFFICES ASSUME top \in T PROVE FALSE
    OBVIOUS
  <1>1. PICK m \in T : \A k \in T : m <= k
    <2>1. T \subseteq Nat /\ T # {}
      OBVIOUS
    <2> HIDE DEF T
    <2> QED
      BY <2>1, LeastNumber
  <1>2. CASE m = 0
    <2>1. PICK g : g = [depth \in 0..0 |-> <<>>]
      OBVIOUS
    <2>2. \A depth \in 0..0 : Level(h, g, depth) = <<>>
      BY DEF Level
    <2>3. [depth \in 0..0 |-> Level(h, g, depth)] = [depth \in 0..0 |-> <<>>]
      BY <2>2
    <2>4. Levels(h, g, 0)
      BY <2>1, <2>3 DEF Levels
    <2> QED
      BY <1>2, <2>4
  <1>3. CASE m # 0
    <2>1. m - 1 \in Nat /\ m - 1 \notin T
      BY <1>1, <1>3
    <2>2. PICK g : Levels(h, g, m - 1)
      BY <2>1
    <2>3. PICK last : last = [n \in DOMAIN h |-> TreesOf(h[n], g[m - 1])]
      OBVIOUS
    <2>4. PICK more : more = [depth \in 0..m |-> IF depth = m THEN last ELSE g[depth]]
      OBVIOUS
    <2>5. more[m] = last /\ \A depth \in 0..m - 1 : more[depth] = g[depth]
      BY <2>1, <2>4
    <2>6. \A depth \in 0..m - 1 : g[depth] = Level(h, g, depth)
      BY <2>2 DEF Levels
    <2>7. ASSUME NEW depth \in 0..m PROVE more[depth] = Level(h, more, depth)
      <3>1. CASE depth = m
        <4>1. more[m - 1] = g[m - 1]
          BY <2>1, <2>5
        <4> QED
          BY <1>3, <2>3, <2>5, <3>1, <4>1 DEF Level
      <3>2. CASE depth # m
        <4>1. depth \in 0..m - 1 /\ (depth = 0 \/ depth - 1 \in 0..m - 1)
          BY <3>2
        <4>2. depth = 0 \/ more[depth - 1] = g[depth - 1]
          BY <2>5, <4>1
        <4>3. Level(h, more, depth) = Level(h, g, depth)
          BY <4>2 DEF Level
        <4> QED
          BY <2>5, <2>6, <4>1, <4>3
      <3> QED
        BY <3>1, <3>2
    <2>8. Levels(h, more, m)
      BY <2>4, <2>7 DEF Levels
    <2> QED
      BY <2>8
  <1> QED
    BY <1>2, <1>3

ListsOf(h) == CHOOSE g : Levels(h, g, Cardinality(Nodes))

\* The recursive definition defines something, before a call and after it.
LEMMA ListsOfLevels ==
    ASSUME NEW h
    PROVE  Levels(h, ListsOf(h), Cardinality(Nodes))
  <1>1. Cardinality(Nodes) \in Nat
    BY ItemAssumption, FS_CardinalityType
  <1>2. \E g : Levels(h, g, Cardinality(Nodes))
    BY <1>1, LevelsExist
  <1> QED
    BY <1>2 DEF ListsOf

\* The lists of the model are those of its heap.
LEMMA ListsAre == Lists = ListsOf(heap) /\ Lists' = ListsOf(heap')
  BY DEF Lists, ListsOf, Levels, Level

\* The list of each node is that of its elements' trees.
Trees(h, lists) == lists = [n \in DOMAIN h |-> TreesOf(h[n], lists)]

\* Two lists that agree on the nodes items own give them the same trees.
LEMMA TreesAgree ==
    ASSUME NEW items, NEW F, NEW G,
           \A n \in Held(items) : /\ n \in DOMAIN F <=> n \in DOMAIN G
                                  /\ n \in DOMAIN F => F[n] = G[n]
    PROVE  TreesOf(items, F) = TreesOf(items, G)
  <1>1. ASSUME NEW i \in DOMAIN items PROVE TreeOf(items[i], F) = TreeOf(items[i], G)
    <2>1. items[i].type \in Pointers => items[i].value \in Held(items)
      BY DEF Held
    <2> QED
      BY <2>1 DEF TreeOf
  <1> QED
    BY <1>1 DEF TreesOf

\* No list is deeper than there are nodes.
LEMMA LevelsEnd ==
    ASSUME NEW h, NEW rank, Ranked(h, rank), \A n \in DOMAIN h : Held(h[n]) \subseteq DOMAIN h,
           NEW g, Levels(h, g, Cardinality(Nodes))
    PROVE  Trees(h, g[Cardinality(Nodes)])
  <1>1. PICK top : top = Cardinality(Nodes)
    OBVIOUS
  <1>2. top \in Nat
    BY <1>1, ItemAssumption, FS_CardinalityType
  <1>3. \A depth \in 0..top : g[depth] = Level(h, g, depth)
    BY <1>1 DEF Levels
  <1>4. /\ \A n \in DOMAIN h : rank[n] \in 1..top
        /\ \A n \in DOMAIN h : \A m \in Held(h[n]) : m \in DOMAIN h /\ rank[m] < rank[n]
    BY <1>1 DEF Ranked
  <1>5. \A depth \in 0..top : depth # 0 => g[depth] = [n \in DOMAIN h |-> TreesOf(h[n], g[depth - 1])]
    BY <1>3 DEF Level
  <1> DEFINE Bad(n, depth) == n \in DOMAIN h /\ rank[n] <= depth /\ g[depth][n] # g[depth + 1][n]
             T == {depth \in 0..top - 1 : \E n : Bad(n, depth)}
  <1>6. T = {}
    <2> SUFFICES ASSUME T # {} PROVE FALSE
      OBVIOUS
    <2>1. PICK d \in T : \A k \in T : d <= k
      <3>1. T \subseteq Nat
        OBVIOUS
      <3> HIDE DEF T
      <3> QED
        BY <3>1, LeastNumber
    <2>2. PICK n : Bad(n, d)
      OBVIOUS
    <2>3. d \in 0..top - 1 /\ n \in DOMAIN h /\ rank[n] \in 1..top /\ rank[n] <= d
      BY <1>4, <2>2
    <2>4. d # 0 /\ d \in 0..top /\ d + 1 \in 0..top /\ (d + 1) - 1 = d /\ d - 1 \in 0..top - 1
          /\ d - 1 \in 0..top /\ (d - 1) + 1 = d
      BY <1>2, <2>3
    <2>5. /\ g[d] = [k \in DOMAIN h |-> TreesOf(h[k], g[d - 1])]
          /\ g[d + 1] = [k \in DOMAIN h |-> TreesOf(h[k], g[d])]
      BY <1>5, <2>4
    <2>6. d - 1 \notin T
      BY <2>1, <2>4
    <2>7. ASSUME NEW m \in Held(h[n])
          PROVE  m \in DOMAIN g[d] /\ m \in DOMAIN g[d - 1] /\ g[d - 1][m] = g[d][m]
      <3>1. m \in DOMAIN h /\ rank[m] \in 1..top /\ rank[m] < rank[n]
        BY <1>4, <2>3
      <3>2. rank[m] <= d - 1 /\ d - 1 # 0
        BY <1>2, <2>3, <2>4, <3>1
      <3>3. g[d - 1] = [k \in DOMAIN h |-> TreesOf(h[k], g[(d - 1) - 1])]
        BY <1>5, <2>4, <3>2
      <3>4. ~Bad(m, d - 1)
        BY <2>4, <2>6
      <3> QED
        BY <2>4, <2>5, <3>1, <3>2, <3>3, <3>4
    <2>8. TreesOf(h[n], g[d - 1]) = TreesOf(h[n], g[d])
      BY <2>7, TreesAgree
    <2> QED
      BY <2>2, <2>3, <2>5, <2>8
  <1>7. CASE top = 0
    <2>1. DOMAIN h = {}
      BY <1>4, <1>7
    <2>2. g[top] = <<>>
      BY <1>2, <1>3, <1>7 DEF Level
    <2> QED
      BY <1>1, <2>1, <2>2 DEF Trees
  <1>8. CASE top # 0
    <2>1. top \in 0..top /\ top - 1 \in 0..top - 1 /\ top - 1 \in 0..top /\ (top - 1) + 1 = top
      BY <1>2, <1>8
    <2>2. g[top] = [n \in DOMAIN h |-> TreesOf(h[n], g[top - 1])]
      BY <1>5, <1>8, <2>1
    <2>3. ASSUME NEW n \in DOMAIN h PROVE TreesOf(h[n], g[top - 1]) = TreesOf(h[n], g[top])
      <3>1. ASSUME NEW m \in Held(h[n])
            PROVE  m \in DOMAIN g[top] /\ m \in DOMAIN g[top - 1] /\ g[top - 1][m] = g[top][m]
        <4>1. m \in DOMAIN h /\ rank[m] \in 1..top /\ rank[n] \in 1..top /\ rank[m] < rank[n]
          BY <1>4
        <4>2. rank[m] <= top - 1 /\ top - 1 # 0
          BY <1>2, <4>1
        <4>3. g[top - 1] = [k \in DOMAIN h |-> TreesOf(h[k], g[(top - 1) - 1])]
          BY <1>5, <2>1, <4>2
        <4>4. ~Bad(m, top - 1)
          BY <1>6, <2>1
        <4> QED
          BY <2>1, <2>2, <4>1, <4>2, <4>3, <4>4
      <3> QED
        BY <3>1, TreesAgree
    <2>4. g[top] = [n \in DOMAIN h |-> TreesOf(h[n], g[top])]
      BY <2>2, <2>3
    <2> QED
      BY <1>1, <2>4 DEF Trees
  <1> QED
    BY <1>7, <1>8

\* The lists of the trees that the program sees.
Now == Lists[Cardinality(Nodes)]

\* The nodes have lists of trees, now and after a call.
LEMMA NowTrees ==
    ASSUME IInv
    PROVE  Trees(heap, Now)
  <1>1. Forest(KidsIn(heap), Roots)
    BY DEF IInv
  <1>2. PICK rank : Ranked(heap, rank)
    BY <1>1, ForestRanked
  <1>3. \A n \in DOMAIN heap : Held(heap[n]) \subseteq DOMAIN heap
    BY <1>1 DEF Forest, KidsIn
  <1> QED
    BY <1>2, <1>3, ListsAre, ListsOfLevels, LevelsEnd DEF Now

\* So they are after a call.
LEMMA NextTrees ==
    ASSUME IInv'
    PROVE  Trees(heap', Now') /\ \E rank : Ranked(heap', rank)
  <1>1. Forest(KidsIn(heap'), Roots')
    BY DEF IInv
  <1>2. PICK rank : Ranked(heap', rank)
    BY <1>1, ForestRanked
  <1>3. \A n \in DOMAIN heap' : Held(heap'[n]) \subseteq DOMAIN heap'
    BY <1>1 DEF Forest, KidsIn
  <1> QED
    BY <1>2, <1>3, ListsAre, ListsOfLevels, LevelsEnd DEF Now

\* Item i stands for what item j stands for, if node n of one heap stands for
\* node origin[n] of another.
Match(i, j, origin) ==
    /\ i.type = j.type
    /\ IF i.type \in Pointers THEN i.value \in DOMAIN origin /\ j.value = origin[i.value]
       ELSE i.value = j.value

MatchAll(s, t, origin) ==
    DOMAIN s = DOMAIN t /\ \A k \in DOMAIN s : Match(s[k], t[k], origin)

\* The lists of two heaps that agree on matching nodes.
SameLists(h2, F2, h, F, origin) ==
    /\ Trees(h2, F2) /\ Trees(h, F)
    /\ \A n \in DOMAIN origin : n \in DOMAIN h2 /\ origin[n] \in DOMAIN h /\ F2[n] = F[origin[n]]

\* Where the lists agree on matching nodes, matching items have the same tree.
LEMMA SameTree ==
    ASSUME NEW h2, NEW F2, NEW h, NEW F, NEW origin, SameLists(h2, F2, h, F, origin),
           NEW i, NEW j, Match(i, j, origin)
    PROVE  TreeOf(i, F2) = TreeOf(j, F)
  <1>1. DOMAIN F2 = DOMAIN h2 /\ DOMAIN F = DOMAIN h
    BY DEF SameLists, Trees
  <1>2. i.type = j.type
    BY DEF Match
  <1>3. CASE i.type \in Pointers
    <2>1. i.value \in DOMAIN origin /\ j.value = origin[i.value]
      BY <1>3 DEF Match
    <2>2. i.value \in DOMAIN F2 /\ j.value \in DOMAIN F /\ F2[i.value] = F[j.value]
      BY <1>1, <2>1 DEF SameLists
    <2> QED
      BY <1>2, <1>3, <2>2 DEF TreeOf
  <1>4. CASE i.type \notin Pointers
    BY <1>2, <1>4 DEF Match, TreeOf
  <1> QED
    BY <1>3, <1>4

\* And lists of matching items are the same lists of trees.
LEMMA SameTreesOf ==
    ASSUME NEW h2, NEW F2, NEW h, NEW F, NEW origin, SameLists(h2, F2, h, F, origin),
           NEW s, NEW t, MatchAll(s, t, origin)
    PROVE  TreesOf(s, F2) = TreesOf(t, F)
  <1>1. DOMAIN s = DOMAIN t
    BY DEF MatchAll
  <1>2. \A k \in DOMAIN s : TreeOf(s[k], F2) = TreeOf(t[k], F)
    BY SameTree DEF MatchAll
  <1> QED
    BY <1>1, <1>2 DEF TreesOf

\* They agree on nodes whose elements match: their kids are of lower rank.
LEMMA MatchingNodes ==
    ASSUME NEW h2, NEW F2, NEW h, NEW F, NEW origin, NEW rank,
           Trees(h2, F2), Trees(h, F), Ranked(h2, rank),
           \A n \in DOMAIN origin : /\ n \in DOMAIN h2 /\ origin[n] \in DOMAIN h
                                    /\ MatchAll(h2[n], h[origin[n]], origin)
    PROVE  SameLists(h2, F2, h, F, origin)
  <1> DEFINE Bad(n) == n \in DOMAIN origin /\ F2[n] # F[origin[n]]
             T == {rank[n] : n \in {m \in DOMAIN origin : Bad(m)}}
  <1> SUFFICES ASSUME NEW b \in DOMAIN origin, Bad(b) PROVE FALSE
    BY DEF SameLists
  <1>1. Cardinality(Nodes) \in Nat
    BY ItemAssumption, FS_CardinalityType
  <1>2. \A n \in DOMAIN h2 : rank[n] \in Nat
    BY <1>1 DEF Ranked
  <1>3. PICK r \in T : \A k \in T : r <= k
    <2>1. T \subseteq Nat /\ T # {}
      BY <1>2
    <2> HIDE DEF T
    <2> QED
      BY <2>1, LeastNumber
  <1>4. PICK n : Bad(n) /\ r = rank[n]
    OBVIOUS
  <1>5. n \in DOMAIN h2 /\ origin[n] \in DOMAIN h /\ MatchAll(h2[n], h[origin[n]], origin)
    BY <1>4
  <1>6. \A m \in DOMAIN origin : rank[m] < rank[n] => F2[m] = F[origin[m]]
    <2>1. ASSUME NEW m \in DOMAIN origin, rank[m] < rank[n], Bad(m) PROVE FALSE
      <3>1. rank[m] \in T /\ rank[m] \in Nat /\ rank[n] \in Nat
        BY <1>2, <1>5, <2>1
      <3> QED
        BY <1>3, <1>4, <2>1, <3>1
    <2> QED
      BY <2>1
  <1>7. DOMAIN F2 = DOMAIN h2 /\ DOMAIN F = DOMAIN h
    BY DEF Trees
  <1>8. ASSUME NEW k \in DOMAIN h2[n]
        PROVE  TreeOf(h2[n][k], F2) = TreeOf(h[origin[n]][k], F)
    <2>1. PICK i, j : i = h2[n][k] /\ j = h[origin[n]][k]
      OBVIOUS
    <2>2. Match(i, j, origin)
      BY <1>5, <2>1 DEF MatchAll
    <2>3. i.type = j.type
      BY <2>2 DEF Match
    <2>4. CASE i.type \in Pointers
      <3>1. i.value \in DOMAIN origin /\ j.value = origin[i.value]
        BY <2>2, <2>4 DEF Match
      <3>2. i.value \in Held(h2[n])
        BY <2>1, <2>4 DEF Held
      <3>3. i.value \in DOMAIN h2 /\ j.value \in DOMAIN h /\ rank[i.value] < rank[n]
        BY <1>5, <3>1, <3>2 DEF Ranked
      <3>4. F2[i.value] = F[j.value]
        BY <1>6, <3>1, <3>3
      <3> QED
        BY <1>7, <2>1, <2>3, <2>4, <3>3, <3>4 DEF TreeOf
    <2>5. CASE i.type \notin Pointers
      BY <2>1, <2>2, <2>5 DEF Match, TreeOf
    <2> QED
      BY <2>4, <2>5
  <1>9. TreesOf(h2[n], F2) = TreesOf(h[origin[n]], F)
    BY <1>5, <1>8 DEF MatchAll, TreesOf
  <1>10. F2[n] = F[origin[n]]
    BY <1>5, <1>9 DEF Trees
  <1> QED
    BY <1>4, <1>10

------------------------------------------------------------------------------
(* Calls leave the trees of what they keep, and make equal copies *)

\* What items not destroyed stand for stays, and copies stand for what was copied.
Kept(K, F, F2) == \A s \in Seq(Item) : Held(s) \subseteq K => TreesOf(s, F2) = TreesOf(s, F)

Faithful(K, src, copy, F, F2) == Kept(K, F, F2) /\ TreesOf(copy, F2) = TreesOf(src, F)

\* The heap that a call leaves.
Left(old, src, f, h) ==
    /\ DOMAIN h = (DOMAIN heap \ Reach(old)) \cup Range(f)
    /\ \A n \in DOMAIN heap \ Reach(old) : h[n] = heap[n]
    /\ \A m \in Reach(src) : h[f[m]] = Copied(heap[m], f)

\* Copying and destroying leave such a heap.
LEMMA CallLeft ==
    ASSUME NEW K, NEW old, NEW src, NEW f, NEW h, HeapCall(K, old, src, f, h)
    PROVE  Left(old, src, f, h)
  <1> USE DEF HeapCall
  <1>1. /\ DOMAIN Heap(old, f) = (DOMAIN heap \ Reach(old)) \cup Range(f)
        /\ \A n \in DOMAIN heap \ Reach(old) : Heap(old, f)[n] = heap[n]
        /\ \A m \in Reach(src) : Heap(old, f)[f[m]] = Copied(heap[m], f)
        /\ Heap(old, f) = [n \in DOMAIN Heap(old, f) |-> Heap(old, f)[n]]
    BY HeapAfter
  <1> QED
    BY <1>1 DEF Left

\* The heap after a call holds h, with or without a node more.
LEMMA CallTrees ==
    ASSUME IInv, IInv', NEW K, NEW old, NEW src, NEW f, NEW h, HeapCall(K, old, src, f, h),
           \A n \in DOMAIN h : n \in DOMAIN heap' /\ heap'[n] = h[n]
    PROVE  Faithful(K, src, Copied(src, f), Now, Now')
  <1> USE DEF HeapCall
  <1>1. PICK F, F2, kept, h2 : /\ F = Now /\ F2 = Now' /\ h2 = heap'
                               /\ kept = DOMAIN heap \ Reach(old)
    OBVIOUS
  <1>2. Trees(heap, F) /\ Trees(h2, F2) /\ \E rank : Ranked(h2, rank)
    BY <1>1, NowTrees, NextTrees
  <1>3. /\ f \in [Reach(src) -> Nodes \ DOMAIN heap] /\ IsInjective(f)
        /\ Held(src) \subseteq Reach(src) /\ Reach(src) \subseteq DOMAIN heap
    BY SourceReach DEF Places
  <1>4. /\ DOMAIN h = kept \cup Range(f)
        /\ \A n \in kept : h[n] = heap[n]
        /\ \A m \in Reach(src) : h[f[m]] = Copied(heap[m], f)
    <2>1. Left(old, src, f, h)
      <3> HIDE DEF HeapCall
      <3> QED
        BY CallLeft
    <2> QED
      BY <1>1, <2>1 DEF Left
  <1>5. PICK origin : origin = [n \in kept \cup Range(f) |->
                          IF n \in kept THEN n ELSE CHOOSE m \in Reach(src) : f[m] = n]
    OBVIOUS
  <1>6. /\ DOMAIN origin = kept \cup Range(f)
        /\ \A n \in kept : origin[n] = n
        /\ \A m \in Reach(src) : f[m] \in DOMAIN origin /\ origin[f[m]] = m
    <2>1. ASSUME NEW m \in Reach(src) PROVE f[m] \in DOMAIN origin /\ origin[f[m]] = m
      <3>1. f[m] \in Range(f) /\ f[m] \notin kept
        BY <1>1, <1>3 DEF Range
      <3>2. (CHOOSE a \in Reach(src) : f[a] = f[m]) = m
        BY <1>3 DEF IsInjective
      <3> QED
        BY <1>5, <3>1, <3>2
    <2> QED
      BY <1>5, <2>1
  <1>7. PICK kids : kids = KidsIn(heap)
    OBVIOUS
  <1>8. /\ DOMAIN kids = DOMAIN heap /\ \A n \in DOMAIN heap : kids[n] = Held(heap[n])
        /\ DOMAIN kids \subseteq Nodes /\ \A n \in DOMAIN kids : kids[n] \subseteq Nodes
        /\ Forest(kids, K \cup Held(old)) /\ K \cap Held(old) = {}
        /\ K \in SUBSET Nodes
    BY <1>7 DEF IInv, Forest, KidsIn
  <1>9. K \subseteq kept /\ Closed(kids, kept)
    <2>1. From(kids, K) = kept
      <3>1. PICK O : O = Held(old)
        OBVIOUS
      <3>2. From(kids, O) = Reach(old)
        BY <1>7, <3>1, ReachIsFrom
      <3>3. From(kids, K) \cap From(kids, O) = {} /\ From(kids, K) \cup From(kids, O) = DOMAIN kids
        BY <1>8, <3>1, ForestSplits
      <3> QED
        BY <1>1, <1>8, <3>2, <3>3
    <2> QED
      BY <1>8, <2>1, FromCloses
  <1>10. Closed(kids, Reach(src))
    <2>1. Held(src) \in SUBSET Nodes
      BY <1>3, <1>8
    <2> QED
      BY <1>7, <1>8, <2>1, FromCloses, ReachIsFrom
  <1>11. ASSUME NEW s, Held(s) \subseteq kept PROVE MatchAll(s, s, origin)
    <2> SUFFICES ASSUME NEW k \in DOMAIN s PROVE Match(s[k], s[k], origin)
      BY DEF MatchAll
    <2>1. s[k].type \in Pointers => s[k].value \in kept
      BY <1>11 DEF Held
    <2> QED
      BY <1>6, <2>1 DEF Match
  <1>12. ASSUME NEW s, \A k \in DOMAIN s : s[k].type \in Pointers => s[k] \in [type : Pointers, value : Reach(src)]
         PROVE  MatchAll(Copied(s, f), s, origin)
    <2>1. DOMAIN Copied(s, f) = DOMAIN s
      BY DEF Copied
    <2> SUFFICES ASSUME NEW k \in DOMAIN s PROVE Match(Copied(s, f)[k], s[k], origin)
      BY <2>1 DEF MatchAll
    <2>2. PICK i, j : i = s[k] /\ j = Copied(s, f)[k]
      OBVIOUS
    <2>3. j = IF i.type \in Pointers THEN [i EXCEPT !.value = f[@]] ELSE i
      BY <2>2 DEF Copied
    <2>4. CASE i.type \in Pointers
      <3>1. i \in [type : Pointers, value : Reach(src)]
        BY <1>12, <2>2, <2>4
      <3>2. j.type = i.type /\ j.value = f[i.value]
        BY <2>3, <2>4, <3>1
      <3> QED
        BY <1>6, <2>2, <2>4, <3>1, <3>2 DEF Match
    <2>5. CASE i.type \notin Pointers
      BY <2>2, <2>3, <2>5 DEF Match
    <2> QED
      BY <2>4, <2>5
  <1>13. ASSUME NEW s \in Seq(Item), Held(s) \subseteq Reach(src)
         PROVE  \A k \in DOMAIN s : s[k].type \in Pointers => s[k] \in [type : Pointers, value : Reach(src)]
    <2> SUFFICES ASSUME NEW k \in DOMAIN s, s[k].type \in Pointers
                 PROVE  s[k] \in [type : Pointers, value : Reach(src)]
      OBVIOUS
    <2>1. s[k] \in [type : Pointers, value : Nodes]
      BY ItemAssumption DEF Item, Null, Pointers
    <2>2. s[k].value \in Reach(src)
      BY <1>13 DEF Held
    <2> QED
      BY <2>1, <2>2
  <1>14. \A n \in DOMAIN origin : /\ n \in DOMAIN h2 /\ origin[n] \in DOMAIN heap
                                  /\ MatchAll(h2[n], heap[origin[n]], origin)
    <2>1. ASSUME NEW n \in kept PROVE MatchAll(h2[n], heap[origin[n]], origin)
      <3>1. h2[n] = heap[n] /\ origin[n] = n
        BY <1>1, <1>4, <1>6
      <3>2. Held(heap[n]) \subseteq kept
        BY <1>1, <1>8, <1>9 DEF Closed
      <3> QED
        BY <1>11, <3>1, <3>2
    <2>2. ASSUME NEW m \in Reach(src) PROVE MatchAll(h2[f[m]], heap[origin[f[m]]], origin)
      <3>1. f[m] \in DOMAIN h
        BY <1>4, <1>6
      <3>2. h2[f[m]] = Copied(heap[m], f) /\ origin[f[m]] = m /\ m \in DOMAIN heap
        BY <1>1, <1>3, <1>4, <1>6, <3>1
      <3>3. Held(heap[m]) \subseteq Reach(src) /\ heap[m] \in Seq(Item)
        BY <1>8, <1>10, <3>2 DEF Closed, IInv, TypeInv, HeapOK
      <3> QED
        BY <1>12, <1>13, <3>2, <3>3
    <2>3. \A n \in Range(f) : \E m \in Reach(src) : n = f[m]
      BY <1>3 DEF Range
    <2>4. \A n \in DOMAIN origin : n \in DOMAIN h2
      BY <1>1, <1>4, <1>6
    <2>5. \A n \in DOMAIN origin : origin[n] \in DOMAIN heap
      BY <1>1, <1>3, <1>6, <2>3
    <2> QED
      BY <1>6, <2>1, <2>2, <2>3, <2>4, <2>5
  <1>15. SameLists(h2, F2, heap, F, origin)
    BY <1>2, <1>14, MatchingNodes
  <1>16. ASSUME NEW s \in Seq(Item), Held(s) \subseteq K PROVE TreesOf(s, F2) = TreesOf(s, F)
    <2>1. MatchAll(s, s, origin)
      BY <1>9, <1>11, <1>16
    <2> QED
      BY <1>15, <2>1, SameTreesOf
  <1>17. TreesOf(Copied(src, f), F2) = TreesOf(src, F)
    <2>1. src \in Seq(Item)
      BY DEF Source
    <2>2. MatchAll(Copied(src, f), src, origin)
      BY <1>3, <1>12, <1>13, <2>1
    <2> QED
      BY <1>15, <2>2, SameTreesOf
  <1> QED
    BY <1>1, <1>16, <1>17 DEF Faithful, Kept

\* A call that only destroys copies no item.
LEMMA DropTrees ==
    ASSUME IInv, IInv', NEW K, NEW old, Roots = K \cup Held(old), K \cap Held(old) = {},
           heap' = Without(old)
    PROVE  Kept(K, Now, Now')
  <1>1. PICK f, src, h : f = [n \in {} |-> n] /\ src = <<>> /\ h = heap'
    OBVIOUS
  <1>2. Source(src) /\ Held(src) = {}
    BY <1>1, HeldNone
  <1>3. Reach(src) = {}
    <2>1. From(KidsIn(heap), {}) = {}
      <3>1. Closed(KidsIn(heap), {}) /\ {} \in SUBSET Nodes
        BY DEF Closed
      <3> QED
        BY <3>1, FromLeast
    <2> QED
      BY <1>2, <2>1, ReachIsFrom
  <1>4. f \in Places(src) /\ Range(f) = {}
    <2>1. f \in [{} -> Nodes \ DOMAIN heap] /\ IsInjective(f) /\ Range(f) = {}
      BY <1>1 DEF IsInjective, Range
    <2> QED
      BY <1>3, <2>1 DEF Places
  <1>5. h = Heap(old, f)
    BY <1>1, <1>4 DEF Heap, Without
  <1>6. HeapCall(K, old, src, f, h)
    BY <1>2, <1>4, <1>5 DEF HeapCall
  <1>7. \A n \in DOMAIN h : n \in DOMAIN heap' /\ heap'[n] = h[n]
    BY <1>1
  <1>8. Faithful(K, src, Copied(src, f), Now, Now')
    BY <1>6, <1>7, CallTrees
  <1> QED
    BY <1>8 DEF Faithful

\* So for an item alone.
LEMMA KeptOne ==
    ASSUME NEW K, NEW F, NEW F2, Kept(K, F, F2), NEW i \in Item, Held(<<i>>) \subseteq K
    PROVE  TreeOf(i, F2) = TreeOf(i, F)
  <1>1. PICK s : s = <<i>>
    OBVIOUS
  <1>2. s \in Seq(Item) /\ DOMAIN s = {1} /\ s[1] = i
    BY <1>1
  <1>3. TreesOf(s, F2) = TreesOf(s, F)
    BY <1>1, <1>2 DEF Kept
  <1>4. TreesOf(s, F2)[1] = TreeOf(i, F2) /\ TreesOf(s, F)[1] = TreeOf(i, F)
    BY <1>2 DEF TreesOf
  <1> QED
    BY <1>3, <1>4

\* The copy of one item.
LEMMA CopiedTree ==
    ASSUME NEW f, NEW F, NEW F2, NEW from,
           TreesOf(Copied(<<from>>, f), F2) = TreesOf(<<from>>, F)
    PROVE  TreeOf(Head(Copied(<<from>>, f)), F2) = TreeOf(from, F)
  <1>1. PICK src, copy : src = <<from>> /\ copy = Copied(<<from>>, f)
    OBVIOUS
  <1>2. DOMAIN src = 1..1 /\ 1 \in DOMAIN src /\ src[1] = from
    BY <1>1
  <1>3. DOMAIN copy = 1..1 /\ Head(copy) = copy[1]
    BY <1>1, <1>2 DEF Copied
  <1>4. TreesOf(copy, F2)[1] = TreeOf(copy[1], F2) /\ TreesOf(src, F)[1] = TreeOf(from, F)
    BY <1>2, <1>3 DEF TreesOf
  <1> QED
    BY <1>1, <1>3, <1>4

\* Null and scalars, whatever the nodes hold.
LEMMA LeafTrees ==
    ASSUME NEW F
    PROVE  TreeOf(Null, F) = Values!Null /\ \A s \in Scalars : TreeOf(s, F) = Values!Leaf(s)
  <1>1. TreeOf(Null, F) = Values!Null
    BY DEF TreeOf, Null, Pointers, Values!Null
  <1>2. ASSUME NEW s \in Scalars PROVE TreeOf(s, F) = Values!Leaf(s)
    <2>1. s.type \notin Pointers /\ s.type \notin Pointers \cup {"null"}
      BY ItemAssumption
    <2> QED
      BY <2>1 DEF TreeOf, Values!Leaf
  <1> QED
    BY <1>1, <1>2

TreeSet(F) == {TreeOf(i, F) : i \in Item}

\* A list of items stands for a list of trees.
LEMMA TreesSeq ==
    ASSUME NEW s \in Seq(Item), NEW F
    PROVE  /\ TreesOf(s, F) \in Seq(TreeSet(F))
           /\ Len(TreesOf(s, F)) = Len(s) /\ DOMAIN TreesOf(s, F) = DOMAIN s
           /\ \A k \in DOMAIN s : TreesOf(s, F)[k] = TreeOf(s[k], F)
  <1>1. PICK T : T = TreeSet(F)
    OBVIOUS
  <1>2. \A k \in 1..Len(s) : TreeOf(s[k], F) \in T
    BY <1>1 DEF TreeSet
  <1>3. TreesOf(s, F) = [k \in 1..Len(s) |-> TreeOf(s[k], F)]
    BY DEF TreesOf
  <1> QED
    BY <1>1, <1>2, <1>3

\* Two lists of items, one after the other.
LEMMA TreesConcat ==
    ASSUME NEW s \in Seq(Item), NEW t \in Seq(Item), NEW F
    PROVE  TreesOf(s \o t, F) = TreesOf(s, F) \o TreesOf(t, F)
  <1>1. PICK T, u, v, w : /\ T = TreeSet(F) /\ u = s \o t
                          /\ v = TreesOf(s, F) /\ w = TreesOf(t, F)
    OBVIOUS
  <1>2. /\ v \in Seq(T) /\ w \in Seq(T) /\ Len(v) = Len(s) /\ Len(w) = Len(t)
        /\ \A k \in 1..Len(s) : v[k] = TreeOf(s[k], F)
        /\ \A k \in 1..Len(t) : w[k] = TreeOf(t[k], F)
    BY <1>1, TreesSeq
  <1>3. /\ u \in Seq(Item) /\ Len(u) = Len(s) + Len(t)
        /\ \A k \in 1..Len(u) : u[k] = IF k <= Len(s) THEN s[k] ELSE t[k - Len(s)]
    BY <1>1
  <1>4. /\ v \o w \in Seq(T) /\ Len(v \o w) = Len(u)
        /\ \A k \in 1..Len(u) : (v \o w)[k] = IF k <= Len(s) THEN v[k] ELSE w[k - Len(s)]
    BY <1>2, <1>3
  <1>5. ASSUME NEW k \in 1..Len(u) PROVE (v \o w)[k] = TreeOf(u[k], F)
    <2>1. CASE k <= Len(s)
      BY <1>2, <1>3, <1>4, <2>1
    <2>2. CASE ~(k <= Len(s))
      <3>1. k - Len(s) \in 1..Len(t)
        BY <1>3, <2>2
      <3> QED
        BY <1>2, <1>3, <1>4, <2>2, <3>1
    <2> QED
      BY <2>1, <2>2
  <1>6. TreesOf(u, F) \in Seq(T) /\ Len(TreesOf(u, F)) = Len(u)
        /\ \A k \in 1..Len(u) : TreesOf(u, F)[k] = TreeOf(u[k], F)
    <2>1. u \in Seq(Item) /\ DOMAIN u = 1..Len(u)
      BY <1>3
    <2>2. /\ TreesOf(u, F) \in Seq(TreeSet(F)) /\ Len(TreesOf(u, F)) = Len(u)
          /\ \A k \in DOMAIN u : TreesOf(u, F)[k] = TreeOf(u[k], F)
      BY <2>1, TreesSeq
    <2> QED
      BY <1>1, <2>1, <2>2
  <1>7. PICK x, y : x = TreesOf(u, F) /\ y = v \o w
    OBVIOUS
  <1>8. x \in Seq(T) /\ y \in Seq(T) /\ Len(x) = Len(y) /\ \A k \in 1..Len(x) : x[k] = y[k]
    BY <1>4, <1>5, <1>6, <1>7
  <1>9. x = y
    BY <1>8
  <1> QED
    BY <1>1, <1>7, <1>9

------------------------------------------------------------------------------
(* Each call on the variables is one on values *)

\* The program sees what its variables hold, before a call and after it.
Seen == view = View /\ view' = View' /\ IInv /\ IInv' /\ kind' = kind

\* What it sees of each variable.
LEMMA SeenThere ==
    ASSUME Seen
    PROVE  /\ view.item = TreesOf(item, Now) /\ view'.item = TreesOf(item', Now')
           /\ view.box = [b \in Boxes |-> TreesOf(box[b], Now)]
           /\ view'.box = [b \in Boxes |-> TreesOf(box'[b], Now')]
           /\ item \in [Vars -> Item] /\ box \in [Boxes -> Seq(Item)]
           /\ item' \in [Vars -> Item] /\ box' \in [Boxes -> Seq(Item)]
           /\ \A x \in Vars : view.item[x] = TreeOf(item[x], Now)
           /\ \A b \in Boxes : view.box[b] = TreesOf(box[b], Now)
  <1>1. /\ item \in [Vars -> Item] /\ box \in [Boxes -> Seq(Item)]
        /\ item' \in [Vars -> Item] /\ box' \in [Boxes -> Seq(Item)]
    BY DEF Seen, IInv, TypeInv
  <1>2. /\ view.item = TreesOf(item, Now)
        /\ view.box = [b \in Boxes |-> TreesOf(box[b], Now)]
    BY DEF Seen, View, Now
  <1>3. /\ view'.item = TreesOf(item', Now')
        /\ view'.box = [b \in Boxes |-> TreesOf(box'[b], Now')]
    BY DEF Seen, View, Now
  <1>4. \A x \in Vars : view.item[x] = TreeOf(item[x], Now)
    BY <1>1, <1>2 DEF TreesOf
  <1> QED
    BY <1>1, <1>2, <1>3, <1>4

\* A call that changes one item.
LEMMA ItemSeen ==
    ASSUME Seen, NEW x \in Vars, NEW new, item' = [item EXCEPT ![x] = new], box' = box,
           Kept(Roots \ Own(x), Now, Now'), NEW tree, tree = TreeOf(new, Now')
    PROVE  Values!SetItem(x, tree)
  <1>1. PICK F, F2, K : F = Now /\ F2 = Now' /\ K = Roots \ Own(x)
    OBVIOUS
  <1>2. IInv
    BY DEF Seen
  <1>3. /\ \A y \in Vars \ {x} : Held(<<item[y]>>) \subseteq K
        /\ \A b \in Boxes : Held(box[b]) \subseteq K
    BY <1>1, <1>2, RootsThere DEF IInv, RootInv, Own
  <1>4. ASSUME NEW y \in Vars \ {x} PROVE TreeOf(item[y], F2) = TreeOf(item[y], F)
    <2>1. item[y] \in Item /\ Held(<<item[y]>>) \subseteq K /\ Kept(K, F, F2)
      BY <1>1, <1>3, SeenThere
    <2> QED
      BY <2>1, KeptOne
  <1>5. \A b \in Boxes : TreesOf(box[b], F2) = TreesOf(box[b], F)
    BY <1>1, <1>3, SeenThere DEF Kept
  <1>6. view'.item = [view.item EXCEPT ![x] = tree]
    <2>1. DOMAIN item = Vars /\ DOMAIN item' = Vars
      BY SeenThere
    <2>2. view.item = [y \in Vars |-> TreeOf(item[y], F)]
      BY <1>1, <2>1, SeenThere DEF TreesOf
    <2>3. view'.item = [y \in Vars |-> TreeOf(item'[y], F2)]
      BY <1>1, <2>1, SeenThere DEF TreesOf
    <2>4. \A y \in Vars : item'[y] = IF y = x THEN new ELSE item[y]
      BY <2>1
    <2> QED
      BY <1>1, <1>4, <2>2, <2>3, <2>4
  <1>7. view'.box = view.box
    BY <1>1, <1>5, SeenThere
  <1> QED
    BY <1>6, <1>7 DEF Values!SetItem

\* A call that changes one box.
LEMMA BoxSeen ==
    ASSUME Seen, NEW b \in Boxes, NEW new, box' = [box EXCEPT ![b] = new], item' = item,
           NEW K, Kept(K, Now, Now'), Roots \ Held(box[b]) \subseteq K,
           NEW list, list = TreesOf(new, Now')
    PROVE  Values!SetBox(b, list)
  <1>1. PICK F, F2 : F = Now /\ F2 = Now'
    OBVIOUS
  <1>2. IInv
    BY DEF Seen
  <1>3. /\ \A y \in Vars : Held(<<item[y]>>) \subseteq K
        /\ \A c \in Boxes \ {b} : Held(box[c]) \subseteq K
    BY <1>2, RootsThere DEF IInv, RootInv, Own
  <1>4. ASSUME NEW y \in Vars PROVE TreeOf(item[y], F2) = TreeOf(item[y], F)
    <2>1. item[y] \in Item /\ Held(<<item[y]>>) \subseteq K /\ Kept(K, F, F2)
      BY <1>1, <1>3, SeenThere
    <2> QED
      BY <2>1, KeptOne
  <1>5. \A c \in Boxes \ {b} : TreesOf(box[c], F2) = TreesOf(box[c], F)
    BY <1>1, <1>3, SeenThere DEF Kept
  <1>6. view'.item = view.item
    BY <1>1, <1>4, SeenThere DEF TreesOf
  <1>7. view'.box = [view.box EXCEPT ![b] = list]
    BY <1>1, <1>5, SeenThere
  <1> QED
    BY <1>6, <1>7 DEF Values!SetBox

\* What x is assigned takes the place of what it owns, which is destroyed.
LEMMA ItemKept ==
    ASSUME Seen, NEW x \in Vars, heap' = Without(<<item[x]>>)
    PROVE  Kept(Roots \ Own(x), Now, Now')
  <1>1. PICK K, old : K = Roots \ Own(x) /\ old = <<item[x]>>
    OBVIOUS
  <1>2. IInv /\ IInv'
    BY DEF Seen
  <1>3. Roots = K \cup Held(old) /\ K \cap Held(old) = {}
    BY <1>1, <1>2, RootsThere DEF Own
  <1>4. heap' = Without(old)
    BY <1>1
  <1>5. Kept(K, Now, Now')
    BY <1>2, <1>3, <1>4, DropTrees
  <1> QED
    BY <1>1, <1>5

\* A call on a variable that copies src and destroys what the variable held.
LEMMA ItemFaithful ==
    ASSUME Seen, NEW x \in Vars, NEW src, Source(src), NEW f \in Places(src),
           NEW h, h = Heap(<<item[x]>>, f), \A n \in DOMAIN h : n \in DOMAIN heap' /\ heap'[n] = h[n]
    PROVE  Faithful(Roots \ Own(x), src, Copied(src, f), Now, Now')
  <1>1. PICK K, old : K = Roots \ Own(x) /\ old = <<item[x]>>
    OBVIOUS
  <1>2. IInv /\ IInv'
    BY DEF Seen
  <1>3. Roots = K \cup Held(old) /\ K \cap Held(old) = {}
    BY <1>1, <1>2, RootsThere DEF Own
  <1>4. HeapCall(K, old, src, f, h)
    BY <1>1, <1>3 DEF HeapCall
  <1>5. Faithful(K, src, Copied(src, f), Now, Now')
    BY <1>2, <1>4, CallTrees
  <1> QED
    BY <1>1, <1>5

\* x = JSONItem(), or a scalar
LEMMA AssignScalarSeen ==
    ASSUME Seen, NEW x \in Vars, AssignScalar(x)
    PROVE  Values!Assign(x)
  <1>1. PICK s \in Scalars \cup {Null} :
            item' = [item EXCEPT ![x] = s] /\ heap' = Without(<<item[x]>>) /\ box' = box
    BY DEF AssignScalar
  <1>2. PICK tree : tree = TreeOf(s, Now')
    OBVIOUS
  <1>3. Kept(Roots \ Own(x), Now, Now')
    BY <1>1, ItemKept
  <1>4. Values!SetItem(x, tree)
    BY <1>1, <1>2, <1>3, ItemSeen
  <1>5. tree = Values!Null \/ \E t \in Scalars : tree = Values!Leaf(t)
    BY <1>1, <1>2, LeafTrees
  <1> QED
    BY <1>4, <1>5 DEF Values!Assign

\* x = from, whatever owns from.
LEMMA CopyToSeen ==
    ASSUME Seen, NEW x \in Vars, NEW from \in Item, Source(<<from>>), CopyTo(x, from),
           NEW tree, tree = TreeOf(from, Now)
    PROVE  Values!SetItem(x, tree)
  <1>1. PICK f \in Places(<<from>>) :
            /\ item' = [item EXCEPT ![x] = Head(Copied(<<from>>, f))]
            /\ heap' = Heap(<<item[x]>>, f) /\ box' = box
    BY DEF CopyTo
  <1>2. PICK src, new, h : src = <<from>> /\ new = Head(Copied(<<from>>, f)) /\ h = heap'
    OBVIOUS
  <1>3. Faithful(Roots \ Own(x), src, Copied(src, f), Now, Now')
    <2>1. Source(src) /\ f \in Places(src) /\ h = Heap(<<item[x]>>, f)
      BY <1>1, <1>2
    <2>2. \A n \in DOMAIN h : n \in DOMAIN heap' /\ heap'[n] = h[n]
      BY <1>2
    <2> QED
      BY <2>1, <2>2, ItemFaithful
  <1>4. TreeOf(new, Now') = tree
    <2>1. TreesOf(Copied(<<from>>, f), Now') = TreesOf(<<from>>, Now)
      BY <1>2, <1>3 DEF Faithful
    <2> QED
      BY <1>2, <2>1, CopiedTree
  <1>5. Kept(Roots \ Own(x), Now, Now') /\ item' = [item EXCEPT ![x] = new] /\ box' = box
    BY <1>1, <1>2, <1>3 DEF Faithful
  <1> QED
    BY <1>4, <1>5, ItemSeen

\* x = y
LEMMA CopyAssignSeen ==
    ASSUME Seen, NEW x \in Vars, NEW y \in Vars, CopyAssign(x, y)
    PROVE  Values!Assign(x)
  <1>1. PICK from, tree : from = item[y] /\ tree = TreeOf(from, Now)
    OBVIOUS
  <1>2. from \in Item /\ Source(<<from>>)
    BY <1>1, ItemSource DEF Seen
  <1>3. CopyTo(x, from)
    BY <1>1 DEF CopyAssign
  <1>4. Values!SetItem(x, tree)
    BY <1>1, <1>2, <1>3, CopyToSeen
  <1>5. tree = view.item[y]
    BY <1>1, SeenThere
  <1> QED
    BY <1>4, <1>5 DEF Values!Assign

\* x = b.at(i)
LEMMA GetAtSeen ==
    ASSUME Seen, NEW x \in Vars, NEW b \in Boxes, NEW i \in DOMAIN box[b], CopyTo(x, box[b][i])
    PROVE  Values!Assign(x)
  <1>1. PICK all, from, src, tree : /\ all = box[b] /\ from = all[i] /\ src = <<from>>
                                    /\ tree = TreeOf(from, Now)
    OBVIOUS
  <1>2. all \in Seq(Item) /\ i \in DOMAIN all /\ Held(all) \subseteq Roots
    BY <1>1, BoxSource, RootsThere DEF Seen
  <1>3. from \in Item /\ Held(src) \subseteq Held(all)
    BY <1>1, <1>2, HeldAt
  <1>4. src \in Seq(Item) /\ Distinct(src)
    BY <1>1, <1>3, ListOne
  <1>5. Source(src) /\ CopyTo(x, from)
    BY <1>1, <1>2, <1>3, <1>4, RootSource DEF Seen
  <1>6. Values!SetItem(x, tree)
    BY <1>1, <1>3, <1>5, CopyToSeen
  <1>7. view.box[b] = TreesOf(all, Now) /\ TreesOf(all, Now)[i] = tree
    BY <1>1, <1>2, SeenThere, TreesSeq
  <1>8. i \in DOMAIN view.box[b]
    BY <1>2, <1>7, TreesSeq
  <1> QED
    BY <1>6, <1>7, <1>8 DEF Values!Assign

\* x = std::move(y)
LEMMA MoveAssignSeen ==
    ASSUME Seen, NEW x \in Vars, NEW y \in Vars, MoveAssign(x, y)
    PROVE  Values!Move(x, y)
  <1>1. /\ x # y /\ item' = [item EXCEPT ![x] = item[y], ![y] = Null]
        /\ heap' = Without(<<item[x]>>) /\ box' = box
    BY DEF MoveAssign
  <1>2. PICK F, F2, K : F = Now /\ F2 = Now' /\ K = Roots \ Own(x)
    OBVIOUS
  <1>3. Kept(K, F, F2)
    BY <1>1, <1>2, ItemKept
  <1>4. /\ \A z \in Vars \ {x} : Held(<<item[z]>>) \subseteq K
        /\ \A b \in Boxes : Held(box[b]) \subseteq K
    BY <1>2, RootsThere DEF Seen, IInv, RootInv, Own
  <1>5. ASSUME NEW z \in Vars \ {x} PROVE TreeOf(item[z], F2) = TreeOf(item[z], F)
    <2>1. item[z] \in Item /\ Held(<<item[z]>>) \subseteq K /\ Kept(K, F, F2)
      BY <1>3, <1>4, SeenThere
    <2> QED
      BY <2>1, KeptOne
  <1>6. \A b \in Boxes : TreesOf(box[b], F2) = TreesOf(box[b], F)
    BY <1>3, <1>4, SeenThere DEF Kept
  <1>7. TreeOf(Null, F2) = Values!Null
    BY LeafTrees
  <1>8. view'.item = [view.item EXCEPT ![x] = view.item[y], ![y] = Values!Null]
    <2>1. DOMAIN item = Vars /\ DOMAIN item' = Vars
      BY SeenThere
    <2>2. view.item = [z \in Vars |-> TreeOf(item[z], F)]
      BY <1>2, <2>1, SeenThere DEF TreesOf
    <2>3. view'.item = [z \in Vars |-> TreeOf(item'[z], F2)]
      BY <1>2, <2>1, SeenThere DEF TreesOf
    <2>4. \A z \in Vars : item'[z] = IF z = y THEN Null ELSE IF z = x THEN item[y] ELSE item[z]
      BY <1>1, <2>1
    <2>5. PICK v, w, none : v = view.item /\ w = view'.item /\ none = Values!Null
      OBVIOUS
    <2>6. \A z \in Vars : w[z] = IF z = y THEN none ELSE IF z = x THEN v[y] ELSE v[z]
      <3>1. /\ \A z \in Vars : v[z] = TreeOf(item[z], F)
            /\ \A z \in Vars : w[z] = TreeOf(item'[z], F2)
        BY <2>2, <2>3, <2>5
      <3> SUFFICES ASSUME NEW z \in Vars
                   PROVE  w[z] = IF z = y THEN none ELSE IF z = x THEN v[y] ELSE v[z]
        OBVIOUS
      <3>2. CASE z = y
        BY <1>7, <2>4, <2>5, <3>1, <3>2
      <3>3. CASE z # y /\ z = x
        <4>1. TreeOf(item[y], F2) = TreeOf(item[y], F)
          BY <1>1, <1>5
        <4> QED
          BY <2>4, <3>1, <3>3, <4>1
      <3>4. CASE z # y /\ z # x
        <4>1. TreeOf(item[z], F2) = TreeOf(item[z], F)
          BY <1>5, <3>4
        <4> QED
          BY <2>4, <3>1, <3>4, <4>1
      <3> QED
        BY <3>2, <3>3, <3>4
    <2>7. w = [z \in Vars |-> w[z]] /\ v = [z \in Vars |-> v[z]]
      BY <2>2, <2>3, <2>5
    <2>8. w = [v EXCEPT ![x] = v[y], ![y] = none]
      BY <2>6, <2>7
    <2> QED
      BY <2>5, <2>8
  <1>9. view'.box = view.box
    BY <1>1, <1>2, <1>6, SeenThere
  <1> QED
    BY <1>8, <1>9 DEF Values!Move

\* x = JSONItem(b)
LEMMA FromBoxSeen ==
    ASSUME Seen, NEW x \in Vars, NEW b \in Boxes, FromBox(x, b)
    PROVE  Values!Assign(x)
  <1>1. PICK f \in Places(box[b]) : \E n \in Nodes \ (DOMAIN heap \cup Range(f)) :
            /\ item' = [item EXCEPT ![x] = [type |-> kind[b], value |-> n]]
            /\ heap' = [m \in DOMAIN Heap(<<item[x]>>, f) \cup {n} |->
                           IF m = n THEN Copied(box[b], f) ELSE Heap(<<item[x]>>, f)[m]]
            /\ box' = box
    BY DEF FromBox
  <1>2. PICK n \in Nodes \ (DOMAIN heap \cup Range(f)) :
            /\ item' = [item EXCEPT ![x] = [type |-> kind[b], value |-> n]]
            /\ heap' = [m \in DOMAIN Heap(<<item[x]>>, f) \cup {n} |->
                           IF m = n THEN Copied(box[b], f) ELSE Heap(<<item[x]>>, f)[m]]
            /\ box' = box
    BY <1>1
  <1>3. PICK src, copy, h, new, tree :
            /\ src = box[b] /\ copy = Copied(box[b], f) /\ h = Heap(<<item[x]>>, f)
            /\ new = [type |-> kind[b], value |-> n] /\ tree = TreeOf(new, Now')
    OBVIOUS
  <1>4. Source(src)
    BY <1>3, BoxSource DEF Seen
  <1>5. n \notin DOMAIN h
    <2>1. DOMAIN Heap(<<item[x]>>, f) = (DOMAIN heap \ Reach(<<item[x]>>)) \cup Range(f)
      BY HeapAfter
    <2> QED
      BY <1>2, <1>3, <2>1
  <1>6. \A m \in DOMAIN h : m \in DOMAIN heap' /\ heap'[m] = h[m]
    BY <1>2, <1>3, <1>5
  <1>7. Faithful(Roots \ Own(x), src, Copied(src, f), Now, Now')
    <2>1. f \in Places(src) /\ h = Heap(<<item[x]>>, f)
      BY <1>3
    <2> QED
      BY <1>4, <1>6, <2>1, ItemFaithful
  <1>8. Values!SetItem(x, tree)
    <2>1. Kept(Roots \ Own(x), Now, Now') /\ item' = [item EXCEPT ![x] = new] /\ box' = box
      BY <1>2, <1>3, <1>7 DEF Faithful
    <2> QED
      BY <1>3, <2>1, ItemSeen
  <1>9. tree = Values!Tree(kind[b], view.box[b])
    <2>1. kind[b] \in Pointers
      BY DEF Seen, IInv, TypeInv
    <2>2. n \in DOMAIN heap' /\ heap'[n] = copy
      BY <1>2, <1>3
    <2>3. Trees(heap', Now')
      BY NextTrees DEF Seen
    <2>4. n \in DOMAIN Now' /\ Now'[n] = TreesOf(copy, Now')
      BY <2>2, <2>3 DEF Trees
    <2>5. TreesOf(copy, Now') = TreesOf(src, Now)
      BY <1>3, <1>7 DEF Faithful
    <2>6. TreesOf(src, Now) = view.box[b]
      BY <1>3, SeenThere
    <2>7. new.type = kind[b] /\ new.value = n
      BY <1>3
    <2> QED
      BY <1>3, <2>1, <2>4, <2>5, <2>6, <2>7 DEF TreeOf, Values!Tree
  <1> QED
    BY <1>8, <1>9 DEF Values!Assign

\* A box that keeps some items, destroys others and copies more.
LEMMA FillSeen ==
    ASSUME Seen, NEW b \in Boxes, NEW kept \in Seq(Item), NEW dropped,
           Held(kept) \cup Held(dropped) = Held(box[b]), Held(kept) \cap Held(dropped) = {},
           NEW others, Source(others), Fill(b, kept, dropped, others),
           NEW list, list = TreesOf(kept, Now) \o TreesOf(others, Now)
    PROVE  Values!SetBox(b, list)
  <1>1. PICK f \in Places(others) :
            /\ box' = [box EXCEPT ![b] = kept \o Copied(others, f)]
            /\ heap' = Heap(dropped, f) /\ item' = item
    BY DEF Fill
  <1>2. PICK copy, new, K, h : /\ copy = Copied(others, f) /\ new = kept \o copy
                               /\ K = Roots \ Held(dropped) /\ h = heap'
    OBVIOUS
  <1>3. IInv /\ IInv'
    BY DEF Seen
  <1>4. /\ Held(box[b]) \subseteq Roots /\ Roots = K \cup Held(dropped) /\ K \cap Held(dropped) = {}
        /\ Held(kept) \subseteq K /\ Roots \ Held(box[b]) \subseteq K
    <2>1. Held(box[b]) \subseteq Roots
      BY <1>3, RootsThere
    <2> QED
      BY <1>2, <2>1
  <1>5. Faithful(K, others, copy, Now, Now')
    <2>1. HeapCall(K, dropped, others, f, h)
      BY <1>1, <1>2, <1>4 DEF HeapCall
    <2>2. \A n \in DOMAIN h : n \in DOMAIN heap' /\ heap'[n] = h[n]
      BY <1>2
    <2>3. Faithful(K, others, Copied(others, f), Now, Now')
      BY <1>3, <2>1, <2>2, CallTrees
    <2> QED
      BY <1>2, <2>3
  <1>6. copy \in Seq(Item)
    <2>1. PICK S : S = Reach(others)
      OBVIOUS
    <2>2. /\ f \in [S -> Nodes] /\ IsInjective(f) /\ Held(others) \subseteq S
          /\ others \in Seq(Item) /\ Distinct(others)
      BY <1>3, <2>1, SourceReach DEF Places, Source
    <2>3. Copied(others, f) \in Seq(Item)
      BY <2>2, CopiesList
    <2> QED
      BY <1>2, <2>3
  <1>7. TreesOf(new, Now') = list
    <2>1. PICK F, F2 : F = Now /\ F2 = Now'
      OBVIOUS
    <2>2. TreesOf(kept \o copy, F2) = TreesOf(kept, F2) \o TreesOf(copy, F2)
      BY <1>6, TreesConcat
    <2>3. TreesOf(kept, F2) = TreesOf(kept, F) /\ TreesOf(copy, F2) = TreesOf(others, F)
      BY <1>4, <1>5, <2>1 DEF Faithful, Kept
    <2> QED
      BY <1>2, <2>1, <2>2, <2>3
  <1>8. Kept(K, Now, Now') /\ box' = [box EXCEPT ![b] = new] /\ item' = item
    BY <1>1, <1>2, <1>5 DEF Faithful
  <1> QED
    BY <1>4, <1>7, <1>8, BoxSeen

\* The empty list.
LEMMA NoTrees ==
    ASSUME NEW F
    PROVE  TreesOf(<<>>, F) = <<>>
  BY DEF TreesOf

\* A box that is given other items for those it held.
LEMMA ReplaceSeen ==
    ASSUME Seen, NEW b \in Boxes, NEW others, Source(others), Fill(b, <<>>, box[b], others),
           NEW list, list = TreesOf(others, Now)
    PROVE  Values!SetBox(b, list)
  <1>1. PICK none, all : none = <<>> /\ all = box[b]
    OBVIOUS
  <1>2. none \in Seq(Item) /\ Held(none) = {}
    BY <1>1, HeldNone
  <1>3. /\ Held(none) \cup Held(all) = Held(box[b]) /\ Held(none) \cap Held(all) = {}
        /\ Fill(b, none, all, others)
    BY <1>1, <1>2
  <1>4. list = TreesOf(none, Now) \o TreesOf(others, Now)
    <2>1. TreesOf(none, Now) = <<>>
      BY <1>1, NoTrees
    <2>2. list \in Seq(TreeSet(Now))
      BY TreesSeq DEF Source
    <2> QED
      BY <2>1, <2>2
  <1> QED
    BY <1>2, <1>3, <1>4, FillSeen

\* A box that keeps all its items and is given more.
LEMMA AppendSeen ==
    ASSUME Seen, NEW b \in Boxes, NEW others, Source(others), Fill(b, box[b], <<>>, others),
           NEW list, list = view.box[b] \o TreesOf(others, Now)
    PROVE  Values!SetBox(b, list)
  <1>1. PICK none, all : none = <<>> /\ all = box[b]
    OBVIOUS
  <1>2. all \in Seq(Item) /\ Held(none) = {}
    BY <1>1, HeldNone, SeenThere
  <1>3. /\ Held(all) \cup Held(none) = Held(box[b]) /\ Held(all) \cap Held(none) = {}
        /\ Fill(b, all, none, others)
    BY <1>1, <1>2
  <1>4. list = TreesOf(all, Now) \o TreesOf(others, Now)
    BY <1>1, SeenThere
  <1> QED
    BY <1>2, <1>3, <1>4, FillSeen

\* b = x.toArray() or b = x.toObject(), for an x that is one
LEMMA ToBoxSeen ==
    ASSUME Seen, NEW x \in Vars, NEW b \in Boxes, item[x].type = kind[b],
           Fill(b, <<>>, box[b], heap[item[x].value])
    PROVE  Values!Convert(x, b)
  <1>1. PICK i, others, list : i = item[x] /\ others = heap[item[x].value] /\ list = TreesOf(others, Now)
    OBVIOUS
  <1>2. i.type \in Pointers /\ i.type = kind[b]
    BY <1>1 DEF Seen, IInv, TypeInv
  <1>3. i.value \in Roots /\ i.value \in DOMAIN heap
    <2>1. Own(x) = IF i.type \in Pointers THEN {i.value} ELSE {}
      BY <1>1, HeldOne DEF Own
    <2> QED
      BY <1>2, <2>1, RootsThere DEF Seen
  <1>4. Source(others)
    BY <1>1, <1>3, NodeSource DEF Seen
  <1>5. Values!SetBox(b, list)
    BY <1>1, <1>4, ReplaceSeen
  <1>6. view.item[x] = TreeOf(i, Now)
    BY <1>1, SeenThere
  <1>7. Trees(heap, Now)
    BY NowTrees DEF Seen
  <1>8. i.value \in DOMAIN Now /\ Now[i.value] = list
    BY <1>1, <1>3, <1>7 DEF Trees
  <1>9. view.item[x].type = kind[b] /\ view.item[x].list = list
    BY <1>2, <1>6, <1>8 DEF TreeOf
  <1> QED
    BY <1>5, <1>9 DEF Values!Convert

\* b.add(x)
LEMMA AddSeen ==
    ASSUME Seen, NEW x \in Vars, NEW b \in Boxes, Add(b, x)
    PROVE  Values!Change(b)
  <1>1. PICK i, others, list : /\ i = item[x] /\ others = <<i>>
                               /\ list = view.box[b] \o TreesOf(others, Now)
    OBVIOUS
  <1>2. Source(others)
    BY <1>1, ItemSource DEF Seen
  <1>3. Fill(b, box[b], <<>>, others)
    BY <1>1 DEF Add
  <1>4. Values!SetBox(b, list)
    BY <1>1, <1>2, <1>3, AppendSeen
  <1>5. list = Append(view.box[b], view.item[x])
    <2>1. TreesOf(others, Now) = <<TreeOf(i, Now)>>
      BY <1>1 DEF TreesOf
    <2>2. view.item[x] = TreeOf(i, Now) /\ TreeOf(i, Now) \in TreeSet(Now)
      BY <1>1, SeenThere DEF TreeSet
    <2>3. PICK S, v, t : S = TreeSet(Now) /\ v = view.box[b] /\ t = TreeOf(i, Now)
      OBVIOUS
    <2>4. v \in Seq(S) /\ t \in S
      BY <2>2, <2>3, SeenThere, TreesSeq
    <2>5. v \o <<t>> = Append(v, t)
      BY <2>4, AppendIsConcat
    <2> QED
      BY <1>1, <2>1, <2>2, <2>3, <2>5
  <1> QED
    BY <1>4, <1>5 DEF Values!Change

\* b = c, b += c and b = c + d
LEMMA CopyBoxSeen ==
    ASSUME Seen, NEW b \in Boxes, NEW c \in Boxes, CopyBox(b, c)
    PROVE  Values!Change(b)
  <1>1. PICK others, list : others = box[c] /\ list = TreesOf(others, Now)
    OBVIOUS
  <1>2. Source(others) /\ Fill(b, <<>>, box[b], others)
    BY <1>1, BoxSource DEF Seen, CopyBox
  <1>3. Values!SetBox(b, list)
    BY <1>1, <1>2, ReplaceSeen
  <1>4. list = view.box[c]
    BY <1>1, SeenThere
  <1> QED
    BY <1>3, <1>4 DEF CopyBox, Values!Change

\* b += c
LEMMA PlusAssignSeen ==
    ASSUME Seen, NEW b \in Boxes, NEW c \in Boxes, PlusAssign(b, c)
    PROVE  Values!Change(b)
  <1>1. PICK others, list : others = box[c] /\ list = view.box[b] \o TreesOf(others, Now)
    OBVIOUS
  <1>2. Source(others) /\ Fill(b, box[b], <<>>, others)
    BY <1>1, BoxSource DEF Seen, PlusAssign
  <1>3. Values!SetBox(b, list)
    BY <1>1, <1>2, AppendSeen
  <1>4. list = view.box[b] \o view.box[c]
    BY <1>1, SeenThere
  <1>5. b # c /\ {kind[b], kind[b], kind[c]} = {"array"}
    BY DEF PlusAssign
  <1> QED
    BY <1>3, <1>4, <1>5 DEF Values!Change

\* b = c + d
LEMMA PlusSeen ==
    ASSUME Seen, NEW b \in Boxes, NEW c \in Boxes, NEW d \in Boxes, Plus(b, c, d)
    PROVE  Values!Change(b)
  <1>1. PICK s, t, others, list : /\ s = box[c] /\ t = box[d] /\ others = s \o t
                                  /\ list = TreesOf(others, Now)
    OBVIOUS
  <1>2. s \in Seq(Item) /\ Distinct(s) /\ t \in Seq(Item) /\ Distinct(t)
    BY <1>1, BoxSource DEF Seen
  <1>3. Held(s) \cap Held(t) = {} /\ Held(s) \subseteq Roots /\ Held(t) \subseteq Roots
    BY <1>1, RootsThere DEF Seen, Plus, IInv, RootInv
  <1>4. others \in Seq(Item) /\ Held(others) = Held(s) \cup Held(t) /\ Distinct(others)
    BY <1>1, <1>2, <1>3, HeldConcat
  <1>5. Source(others) /\ Fill(b, <<>>, box[b], others)
    BY <1>1, <1>3, <1>4, RootSource DEF Seen, Plus
  <1>6. Values!SetBox(b, list)
    BY <1>1, <1>5, ReplaceSeen
  <1>7. list = view.box[c] \o view.box[d]
    <2>1. PICK F : F = Now
      OBVIOUS
    <2>2. TreesOf(s \o t, F) = TreesOf(s, F) \o TreesOf(t, F)
      BY <1>2, TreesConcat
    <2> QED
      BY <1>1, <2>1, <2>2, SeenThere
  <1>8. c # d /\ {kind[b], kind[c], kind[d]} = {"array"}
    BY DEF Plus
  <1> QED
    BY <1>6, <1>7, <1>8 DEF Values!Change

\* b = JSONArray(b.toListInt()), and so on
LEMMA RebuildSeen ==
    ASSUME Seen, NEW b \in Boxes, Fill(b, <<>>, box[b], box[b])
    PROVE  Values!Change(b)
  <1>1. PICK others, list : others = box[b] /\ list = TreesOf(others, Now)
    OBVIOUS
  <1>2. Source(others) /\ Fill(b, <<>>, box[b], others)
    BY <1>1, BoxSource DEF Seen
  <1>3. Values!SetBox(b, list)
    BY <1>1, <1>2, ReplaceSeen
  <1>4. list = view.box[b]
    BY <1>1, SeenThere
  <1> QED
    BY <1>3, <1>4 DEF Values!Change

\* An element of a list that takes the place of another.
LEMMA PutTrees ==
    ASSUME NEW items \in Seq(Item), Distinct(items), NEW i \in DOMAIN items, NEW new \in Item,
           NEW K, NEW F, NEW F2, Kept(K, F, F2), Held(items) \ Held(<<items[i]>>) \subseteq K
    PROVE  TreesOf([items EXCEPT ![i] = new], F2) = [TreesOf(items, F) EXCEPT ![i] = TreeOf(new, F2)]
  <1>1. ASSUME NEW k \in DOMAIN items \ {i} PROVE TreeOf(items[k], F2) = TreeOf(items[k], F)
    <2>1. PICK own, gone : own = Held(<<items[k]>>) /\ gone = Held(<<items[i]>>)
      OBVIOUS
    <2>2. own = IF items[k].type \in Pointers THEN {items[k].value} ELSE {}
      BY <2>1, HeldOne
    <2>3. gone = IF items[i].type \in Pointers THEN {items[i].value} ELSE {}
      BY <2>1, HeldOne
    <2>4. items[k] \in Item /\ own \subseteq Held(items)
      BY <2>1, HeldAt
    <2>5. own \cap gone = {}
      BY <2>2, <2>3 DEF Distinct
    <2>6. Held(<<items[k]>>) \subseteq K
      BY <2>1, <2>4, <2>5
    <2> QED
      BY <2>4, <2>6, KeptOne
  <1>2. PICK s, t, u : /\ s = [items EXCEPT ![i] = new] /\ t = TreesOf(s, F2)
                       /\ u = [TreesOf(items, F) EXCEPT ![i] = TreeOf(new, F2)]
    OBVIOUS
  <1>3. DOMAIN s = DOMAIN items /\ s[i] = new /\ \A k \in DOMAIN items \ {i} : s[k] = items[k]
    BY <1>2
  <1>4. t = [k \in DOMAIN items |-> TreeOf(s[k], F2)]
    BY <1>2, <1>3 DEF TreesOf
  <1>5. u = [k \in DOMAIN items |-> IF k = i THEN TreeOf(new, F2) ELSE TreeOf(items[k], F)]
    BY <1>2 DEF TreesOf
  <1>6. t = u
    BY <1>1, <1>3, <1>4, <1>5
  <1> QED
    BY <1>2, <1>6

\* b[i] = x
LEMMA SetAtSeen ==
    ASSUME Seen, NEW x \in Vars, NEW b \in Boxes, NEW i \in DOMAIN box[b],
           NEW f \in Places(<<item[x]>>),
           box' = [box EXCEPT ![b][i] = Head(Copied(<<item[x]>>, f))],
           heap' = Heap(<<box[b][i]>>, f), item' = item
    PROVE  Values!Change(b)
  <1>1. PICK from, old, dropped, src, copy, new, K, h :
            /\ from = item[x] /\ old = box[b] /\ dropped = <<old[i]>> /\ src = <<from>>
            /\ copy = Head(Copied(<<item[x]>>, f)) /\ new = [old EXCEPT ![i] = copy]
            /\ K = Roots \ Held(dropped) /\ h = heap'
    OBVIOUS
  <1>2. IInv /\ IInv'
    BY DEF Seen
  <1>3. /\ old \in Seq(Item) /\ Distinct(old) /\ i \in DOMAIN old
        /\ box' = [box EXCEPT ![b] = new] /\ from \in Item /\ Source(src)
    BY <1>1, <1>2, BoxSource, ItemSource, SeenThere
  <1>4. Held(old) \subseteq Roots /\ Held(dropped) \subseteq Held(old)
    <2>1. Held(<<old[i]>>) \subseteq Held(old)
      BY <1>3, HeldAt
    <2> QED
      BY <1>1, <1>2, <2>1, RootsThere
  <1>5. copy \in Item
    <2>1. Source(<<from>>) /\ f \in Places(<<from>>) /\ from \in Item
      BY <1>1, <1>3
    <2>2. Head(Copied(<<from>>, f)) \in Item
      BY <1>2, <2>1, CopiedItem
    <2> QED
      BY <1>1, <2>2
  <1>6. Faithful(K, src, Copied(src, f), Now, Now')
    <2>1. Roots = K \cup Held(dropped) /\ K \cap Held(dropped) = {}
      BY <1>1, <1>4
    <2>2. HeapCall(K, dropped, src, f, h)
      BY <1>1, <1>3, <2>1 DEF HeapCall
    <2>3. \A n \in DOMAIN h : n \in DOMAIN heap' /\ heap'[n] = h[n]
      BY <1>1
    <2> QED
      BY <1>2, <2>2, <2>3, CallTrees
  <1>7. PICK F, F2, list : F = Now /\ F2 = Now' /\ list = TreesOf(new, Now')
    OBVIOUS
  <1>8. TreeOf(copy, F2) = view.item[x]
    <2>1. TreesOf(Copied(<<from>>, f), F2) = TreesOf(<<from>>, F)
      BY <1>1, <1>6, <1>7 DEF Faithful
    <2>2. TreeOf(Head(Copied(<<from>>, f)), F2) = TreeOf(from, F)
      BY <2>1, CopiedTree
    <2> QED
      BY <1>1, <1>7, <2>2, SeenThere
  <1>9. list = [view.box[b] EXCEPT ![i] = view.item[x]]
    <2>1. Kept(K, F, F2) /\ Held(old) \ Held(<<old[i]>>) \subseteq K
      BY <1>1, <1>4, <1>6, <1>7 DEF Faithful
    <2>2. TreesOf([old EXCEPT ![i] = copy], F2) = [TreesOf(old, F) EXCEPT ![i] = TreeOf(copy, F2)]
      BY <1>3, <1>5, <2>1, PutTrees
    <2>3. view.box[b] = TreesOf(old, F)
      BY <1>1, <1>7, SeenThere
    <2> QED
      BY <1>1, <1>7, <1>8, <2>2, <2>3
  <1>10. Values!SetBox(b, list)
    <2>1. Kept(K, Now, Now') /\ Roots \ Held(box[b]) \subseteq K
      BY <1>1, <1>4, <1>6 DEF Faithful
    <2> QED
      BY <1>3, <1>7, <2>1, BoxSeen
  <1>11. i \in DOMAIN view.box[b]
    BY <1>1, <1>3, SeenThere, TreesSeq
  <1> QED
    BY <1>9, <1>10, <1>11 DEF Values!Change

\* x = std::move(b[i])
LEMMA MoveAtSeen ==
    ASSUME Seen, NEW x \in Vars, NEW b \in Boxes, NEW i, MoveAt(x, b, i)
    PROVE  i \in DOMAIN view.box[b] /\ Values!MoveAt(x, b, i)
  <1>1. PICK old, from, new, K, F, F2 :
            /\ old = box[b] /\ from = old[i] /\ new = [old EXCEPT ![i] = Null]
            /\ K = Roots \ Own(x) /\ F = Now /\ F2 = Now'
    OBVIOUS
  <1>2. /\ i \in DOMAIN old /\ item' = [item EXCEPT ![x] = from]
        /\ box' = [box EXCEPT ![b] = new] /\ heap' = Without(<<item[x]>>)
    BY <1>1 DEF MoveAt, InBounds
  <1>3. old \in Seq(Item) /\ Distinct(old)
    BY <1>1, BoxSource DEF Seen
  <1>4. Kept(K, F, F2)
    BY <1>1, <1>2, ItemKept
  <1>5. /\ \A y \in Vars \ {x} : Held(<<item[y]>>) \subseteq K
        /\ \A c \in Boxes : Held(box[c]) \subseteq K
    BY <1>1, RootsThere DEF Seen, IInv, RootInv, Own
  <1>6. from \in Item /\ Held(<<from>>) \subseteq K
    <2>1. old[i] \in Item /\ Held(<<old[i]>>) \subseteq Held(old)
      BY <1>2, <1>3, HeldAt
    <2> QED
      BY <1>1, <1>5, <2>1
  <1>7. TreeOf(from, F2) = TreeOf(from, F)
    BY <1>4, <1>6, KeptOne
  <1>8. ASSUME NEW y \in Vars \ {x} PROVE TreeOf(item[y], F2) = TreeOf(item[y], F)
    <2>1. item[y] \in Item /\ Held(<<item[y]>>) \subseteq K
      BY <1>5, SeenThere
    <2> QED
      BY <1>4, <2>1, KeptOne
  <1>9. \A c \in Boxes : TreesOf(box[c], F2) = TreesOf(box[c], F)
    BY <1>4, <1>5, SeenThere DEF Kept
  <1>10. /\ DOMAIN TreesOf(old, F) = DOMAIN old /\ TreesOf(old, F)[i] = TreeOf(from, F)
         /\ view.box[b] = TreesOf(old, F)
    BY <1>1, <1>2, <1>3, TreesSeq, SeenThere
  <1>11. view'.item = [view.item EXCEPT ![x] = view.box[b][i]]
    <2>1. DOMAIN item = Vars /\ DOMAIN item' = Vars
      BY SeenThere
    <2>2. view.item = [y \in Vars |-> TreeOf(item[y], F)]
      BY <1>1, <2>1, SeenThere DEF TreesOf
    <2>3. view'.item = [y \in Vars |-> TreeOf(item'[y], F2)]
      BY <1>1, <2>1, SeenThere DEF TreesOf
    <2>4. \A y \in Vars : item'[y] = IF y = x THEN from ELSE item[y]
      BY <1>2, <2>1
    <2> QED
      BY <1>7, <1>8, <1>10, <2>2, <2>3, <2>4
  <1>12. view'.box = [view.box EXCEPT ![b][i] = Values!Null]
    <2>1. Held(old) \ Held(<<old[i]>>) \subseteq K
      BY <1>1, <1>5
    <2>2. Null \in Item
      BY NullOwnsNone
    <2>3. TreesOf([old EXCEPT ![i] = Null], F2) = [TreesOf(old, F) EXCEPT ![i] = TreeOf(Null, F2)]
      BY <1>2, <1>3, <1>4, <2>1, <2>2, PutTrees
    <2>4. TreeOf(Null, F2) = Values!Null
      BY LeafTrees
    <2>5. PICK none, list : none = Values!Null /\ list = [view.box[b] EXCEPT ![i] = Values!Null]
      OBVIOUS
    <2>6. TreesOf(new, F2) = list
      BY <1>1, <1>10, <2>3, <2>4, <2>5
    <2>7. \A c \in Boxes : box'[c] = IF c = b THEN new ELSE box[c]
      BY <1>2, SeenThere
    <2>8. view'.box = [c \in Boxes |-> IF c = b THEN list ELSE view.box[c]]
      <3>1. view'.box = [c \in Boxes |-> TreesOf(box'[c], F2)]
        BY <1>1, SeenThere
      <3>2. ASSUME NEW c \in Boxes
            PROVE  TreesOf(box'[c], F2) = IF c = b THEN list ELSE view.box[c]
        <4>1. CASE c = b
          <5>1. box'[c] = new
            BY <2>7, <4>1
          <5> QED
            BY <2>6, <4>1, <5>1
        <4>2. CASE c # b
          <5>1. box'[c] = box[c] /\ view.box[c] = TreesOf(box[c], F)
            BY <1>1, <2>7, <4>2, SeenThere
          <5> QED
            BY <1>9, <4>2, <5>1
        <4> QED
          BY <4>1, <4>2
      <3> QED
        BY <3>1, <3>2
    <2>9. view.box = [c \in Boxes |-> view.box[c]]
      BY SeenThere
    <2> QED
      BY <2>5, <2>8, <2>9
  <1> QED
    BY <1>2, <1>10, <1>11, <1>12 DEF Values!MoveAt

\* JSONArray b(std::move(c))
LEMMA MoveBoxSeen ==
    ASSUME Seen, NEW b \in Boxes, NEW c \in Boxes, MoveBox(b, c)
    PROVE  Values!MoveBox(b, c)
  <1>1. PICK old, K, F, F2 : old = box[b] /\ K = Roots \ Held(old) /\ F = Now /\ F2 = Now'
    OBVIOUS
  <1>2. /\ b # c /\ kind[b] = kind[c] /\ box' = [box EXCEPT ![b] = box[c], ![c] = <<>>]
        /\ heap' = Without(old) /\ item' = item
    BY <1>1 DEF MoveBox
  <1>3. Kept(K, F, F2)
    <2>1. IInv /\ IInv' /\ Roots = K \cup Held(old) /\ K \cap Held(old) = {}
      BY <1>1, RootsThere DEF Seen
    <2>2. Kept(K, Now, Now')
      BY <1>2, <2>1, DropTrees
    <2> QED
      BY <1>1, <2>2
  <1>4. /\ \A y \in Vars : Held(<<item[y]>>) \subseteq K
        /\ \A d \in Boxes \ {b} : Held(box[d]) \subseteq K
    BY <1>1, RootsThere DEF Seen, IInv, RootInv, Own
  <1>5. ASSUME NEW y \in Vars PROVE TreeOf(item[y], F2) = TreeOf(item[y], F)
    <2>1. item[y] \in Item /\ Held(<<item[y]>>) \subseteq K
      BY <1>4, SeenThere
    <2> QED
      BY <1>3, <2>1, KeptOne
  <1>6. \A d \in Boxes \ {b} : TreesOf(box[d], F2) = TreesOf(box[d], F)
    BY <1>3, <1>4, SeenThere DEF Kept
  <1>7. view'.item = view.item
    BY <1>1, <1>2, <1>5, SeenThere DEF TreesOf
  <1>8. view'.box = [view.box EXCEPT ![b] = view.box[c], ![c] = <<>>]
    <2>1. PICK v, w : v = view.box /\ w = view'.box
      OBVIOUS
    <2>2. /\ v = [d \in Boxes |-> v[d]] /\ \A d \in Boxes : v[d] = TreesOf(box[d], F)
          /\ w = [d \in Boxes |-> w[d]] /\ \A d \in Boxes : w[d] = TreesOf(box'[d], F2)
      BY <1>1, <2>1, SeenThere
    <2>3. \A d \in Boxes : box'[d] = IF d = c THEN <<>> ELSE IF d = b THEN box[c] ELSE box[d]
      BY <1>2, SeenThere
    <2>4. w[c] = <<>>
      BY <2>2, <2>3, NoTrees
    <2>5. w[b] = v[c] /\ \A d \in Boxes \ {b, c} : w[d] = v[d]
      <3>1. box'[b] = box[c] /\ TreesOf(box[c], F2) = TreesOf(box[c], F)
        BY <1>2, <1>6, <2>3
      <3>2. w[b] = TreesOf(box'[b], F2) /\ v[c] = TreesOf(box[c], F)
        BY <2>2
      <3>3. ASSUME NEW d \in Boxes \ {b, c} PROVE w[d] = v[d]
        <4>1. box'[d] = box[d] /\ TreesOf(box[d], F2) = TreesOf(box[d], F)
          BY <1>6, <2>3
        <4>2. w[d] = TreesOf(box'[d], F2) /\ v[d] = TreesOf(box[d], F)
          BY <2>2
        <4> QED
          BY <4>1, <4>2
      <3> QED
        BY <3>1, <3>2, <3>3
    <2>6. w = [v EXCEPT ![b] = v[c], ![c] = <<>>]
      BY <1>2, <2>2, <2>4, <2>5
    <2> QED
      BY <2>1, <2>6
  <1> QED
    BY <1>2, <1>7, <1>8 DEF Values!MoveBox

\* Part of a list.
LEMMA TreesSub ==
    ASSUME NEW s \in Seq(Item), NEW a, NEW c, NEW I, NEW part, Part(s, a, c, I, part), NEW F
    PROVE  TreesOf(part, F) = SubSeq(TreesOf(s, F), a, c) /\ part \in Seq(Item)
  <1> USE DEF Part
  <1>1. PICK t, T : t = TreesOf(s, F) /\ T = TreeSet(F)
    OBVIOUS
  <1>2. t \in Seq(T) /\ Len(t) = Len(s) /\ \A k \in 1..Len(s) : t[k] = TreeOf(s[k], F)
    BY <1>1, TreesSeq
  <1>3. /\ part \in Seq(Item) /\ Len(part) = IF a <= c THEN c - a + 1 ELSE 0
        /\ \A k \in 1..c - a + 1 : part[k] = s[a + k - 1]
    <2>1. a \in Int /\ c \in Int /\ \A k \in a..c : s[k] \in Item
      OBVIOUS
    <2> QED
      BY <2>1, SubSeqProperties
  <1>4. PICK u : u = SubSeq(t, a, c)
    OBVIOUS
  <1>5. /\ u \in Seq(T) /\ Len(u) = IF a <= c THEN c - a + 1 ELSE 0
        /\ \A k \in 1..c - a + 1 : u[k] = t[a + k - 1]
    <2>1. a \in Int /\ c \in Int /\ \A k \in a..c : t[k] \in T
      BY <1>2
    <2> QED
      BY <1>4, <2>1, SubSeqProperties
  <1>6. PICK v : v = TreesOf(part, F)
    OBVIOUS
  <1>7. v \in Seq(T) /\ Len(v) = Len(part) /\ \A k \in 1..Len(part) : v[k] = TreeOf(part[k], F)
    <2>1. part \in Seq(Item) /\ DOMAIN part = 1..Len(part)
      BY <1>3
    <2>2. /\ TreesOf(part, F) \in Seq(TreeSet(F)) /\ Len(TreesOf(part, F)) = Len(part)
          /\ \A k \in DOMAIN part : TreesOf(part, F)[k] = TreeOf(part[k], F)
      BY <2>1, TreesSeq
    <2> QED
      BY <1>1, <1>6, <2>1, <2>2
  <1>8. Len(u) = Len(v) /\ \A k \in 1..Len(u) : u[k] = v[k]
    <2>1. ASSUME NEW k \in 1..Len(u) PROVE u[k] = v[k]
      <3>1. k \in 1..c - a + 1 /\ k \in 1..Len(part) /\ a + k - 1 \in 1..Len(s)
        BY <1>3, <1>5
      <3> QED
        BY <1>2, <1>3, <1>5, <1>7, <3>1
    <2> QED
      BY <1>3, <1>5, <1>7, <2>1
  <1>9. u = v
    <2>1. u \in Seq(T) /\ v \in Seq(T) /\ Len(u) = Len(v) /\ \A k \in 1..Len(u) : u[k] = v[k]
      BY <1>5, <1>7, <1>8
    <2> QED
      BY <2>1, SeqEqual
  <1> QED
    BY <1>1, <1>3, <1>4, <1>6, <1>9

\* remove of the element at i
LEMMA EraseSeen ==
    ASSUME Seen, NEW b \in Boxes, NEW i \in DOMAIN box[b], Erase(b, i),
           NEW list, list = RemoveAt(view.box[b], i)
    PROVE  Values!SetBox(b, list)
  <1>1. PICK all, rest, gone, none, n : /\ all = box[b] /\ rest = RemoveAt(all, i)
                                        /\ gone = <<all[i]>> /\ none = <<>> /\ n = Len(all)
    OBVIOUS
  <1>2. all \in Seq(Item) /\ Distinct(all) /\ i \in 1..n /\ n \in Nat
    BY <1>1, BoxSource DEF Seen
  <1>3. /\ rest \in Seq(Item)
        /\ Held(rest) \cup Held(gone) = Held(box[b]) /\ Held(rest) \cap Held(gone) = {}
    BY <1>1, <1>2, HeldErase
  <1>4. Fill(b, rest, gone, none)
    BY <1>1 DEF Erase
  <1>5. Source(none)
    BY <1>1, HeldNone DEF Seen
  <1>6. PICK F, front, back, I, J, before, after :
            /\ F = Now /\ before = i - 1 /\ after = i + 1
            /\ front = SubSeq(all, 1, before) /\ back = SubSeq(all, after, n)
            /\ I = 1..before /\ J = after..n
    OBVIOUS
  <1>7. TreesOf(front, F) = SubSeq(TreesOf(all, F), 1, before) /\ front \in Seq(Item)
    <2>1. Part(all, 1, before, I, front)
      BY <1>1, <1>2, <1>6 DEF Part
    <2> QED
      BY <1>2, <2>1, TreesSub
  <1>8. TreesOf(back, F) = SubSeq(TreesOf(all, F), after, n) /\ back \in Seq(Item)
    <2>1. Part(all, after, n, J, back)
      BY <1>1, <1>2, <1>6 DEF Part
    <2> QED
      BY <1>2, <2>1, TreesSub
  <1>9. list = TreesOf(rest, F)
    <2>1. rest = front \o back
      BY <1>1, <1>6 DEF RemoveAt
    <2>2. TreesOf(front \o back, F) = TreesOf(front, F) \o TreesOf(back, F)
      BY <1>7, <1>8, TreesConcat
    <2>3. view.box[b] = TreesOf(all, F) /\ Len(TreesOf(all, F)) = n
      BY <1>1, <1>2, <1>6, SeenThere, TreesSeq
    <2>4. list = SubSeq(TreesOf(all, F), 1, before) \o SubSeq(TreesOf(all, F), after, n)
      BY <1>6, <2>3 DEF RemoveAt
    <2> QED
      BY <1>7, <1>8, <2>1, <2>2, <2>4
  <1>10. list = TreesOf(rest, Now) \o TreesOf(none, Now)
    <2>1. TreesOf(none, Now) = <<>>
      BY <1>1, NoTrees
    <2>2. TreesOf(rest, Now) \in Seq(TreeSet(Now))
      BY <1>3, TreesSeq
    <2> QED
      BY <1>6, <1>9, <2>1, <2>2
  <1> QED
    BY <1>3, <1>4, <1>5, <1>10, FillSeen

\* remove(key) of an object
LEMMA RemoveKeySeen ==
    ASSUME Seen, NEW b \in Boxes, NEW i, RemoveKey(b, i)
    PROVE  Values!Change(b)
  <1>1. kind[b] = "object" /\ i \in DOMAIN box[b] /\ Erase(b, i)
    BY DEF RemoveKey, InBounds
  <1>2. PICK list : list = RemoveAt(view.box[b], i)
    OBVIOUS
  <1>3. Values!SetBox(b, list)
    BY <1>1, <1>2, EraseSeen
  <1>4. i \in DOMAIN view.box[b]
    BY <1>1, SeenThere, TreesSeq
  <1>5. Values!RemoveAt(view.box[b], i) = list
    BY <1>2 DEF RemoveAt, Values!RemoveAt
  <1>6. \E k \in DOMAIN view.box[b] : Values!SetBox(b, Values!RemoveAt(view.box[b], k))
    BY <1>3, <1>4, <1>5
  <1> QED
    BY <1>1, <1>6 DEF Values!Change

\* A call that throws, and one that is not made
LEMMA StutterSeen ==
    ASSUME Seen, UNCHANGED vars
    PROVE  UNCHANGED Values!vars
  <1>1. item' = item /\ box' = box /\ heap' = heap /\ kind' = kind
    BY DEF vars
  <1>2. Now' = Now
    BY <1>1, ListsAre DEF Now
  <1>3. view' = view
    BY <1>1, <1>2 DEF Seen, View, Now
  <1> QED
    BY <1>1, <1>3 DEF Values!vars

\* An item of no pointer type is found by its tree as it is found by itself.
LEMMA FoundTree ==
    ASSUME NEW i \in Item, NEW j \in Item, NEW F, i.type \notin Pointers,
           TreeOf(j, F) = TreeOf(i, F)
    PROVE  j = i
  <1>1. j.type = i.type /\ (i.type # "null" => j.value = i.value)
    BY DEF TreeOf
  <1>2. CASE i = Null
    <2>1. j.type = "null"
      BY <1>1, <1>2 DEF Null
    <2> QED
      BY <1>2, <2>1, ItemAssumption DEF Item, Pointers
  <1>3. CASE i \in Scalars
    <2>1. i.type # "null" /\ i = [type |-> i.type, value |-> i.value]
      BY <1>3, ItemAssumption
    <2>2. j \in Scalars
      BY <1>1, <2>1 DEF Item, Null
    <2>3. j = [type |-> j.type, value |-> j.value]
      BY <2>2, ItemAssumption
    <2> QED
      BY <1>1, <2>1, <2>3
  <1> QED
    BY <1>2, <1>3 DEF Item

\* b.remove(x)
LEMMA RemoveItemSeen ==
    ASSUME Seen, NEW b \in Boxes, NEW x \in Vars, RemoveItem(b, x)
    PROVE  Values!RemoveItem(b, x)
  <1>1. PICK all, i, F, P : /\ all = box[b] /\ i = item[x] /\ F = Now
                            /\ P = {k \in DOMAIN view.box[b] : view.box[b][k] = view.item[x]}
    OBVIOUS
  <1>2. /\ all \in Seq(Item) /\ i \in Item /\ view.item[x] = TreeOf(i, F)
        /\ DOMAIN view.box[b] = DOMAIN all /\ \A k \in DOMAIN all : view.box[b][k] = TreeOf(all[k], F)
    BY <1>1, SeenThere, TreesSeq
  <1>3. \A k \in Found(b, x) : k \in P
    BY <1>1, <1>2 DEF Found
  <1>4. i.type \notin Pointers => P = Found(b, x)
    <2> SUFFICES ASSUME i.type \notin Pointers, NEW k \in P PROVE k \in Found(b, x)
      BY <1>3
    <2>1. k \in DOMAIN all /\ TreeOf(all[k], F) = TreeOf(i, F)
      BY <1>1, <1>2
    <2>2. all[k] \in Item
      BY <1>2, <2>1
    <2>3. all[k] = i
      BY <1>2, <2>1, <2>2, FoundTree
    <2> QED
      BY <1>1, <2>1, <2>3 DEF Found
  <1>5. view.item[x].type = i.type
    BY <1>2 DEF TreeOf
  <1>6. ASSUME NEW k \in Found(b, x), item[x] = Null \/ \A j \in Found(b, x) : k <= j, Erase(b, k)
        PROVE  Values!RemoveItem(b, x)
    <2>1. k \in DOMAIN all /\ all[k] = i
      BY <1>1 DEF Found
    <2>2. i.type \notin Pointers
      <3>1. Own(x) = IF i.type \in Pointers THEN {i.value} ELSE {}
        BY <1>1, HeldOne DEF Own
      <3>2. i.type \in Pointers => i.value \in Held(all)
        BY <2>1 DEF Held
      <3>3. Own(x) \cap Held(all) = {}
        BY <1>1 DEF Seen, IInv, RootInv
      <3> QED
        BY <3>1, <3>2, <3>3
    <2>3. view.item[x].type \notin {"array", "object"}
      BY <1>5, <2>2 DEF Pointers
    <2>4. k \in P
      BY <1>3
    <2>5. view.item[x] # Values!Null => \A j \in P : k <= j
      <3>1. item[x] = Null => view.item[x] = Values!Null
        BY <1>1, <1>2, LeafTrees
      <3> QED
        BY <1>4, <1>6, <2>2, <3>1
    <2>6. PICK list : list = RemoveAt(view.box[b], k)
      OBVIOUS
    <2>7. Values!SetBox(b, list)
      BY <1>1, <1>6, <2>1, <2>6, EraseSeen
    <2>8. Values!RemoveAt(view.box[b], k) = list
      BY <2>6 DEF RemoveAt, Values!RemoveAt
    <2> QED
      BY <1>1, <2>3, <2>4, <2>5, <2>7, <2>8 DEF Values!RemoveItem
  <1>7. ASSUME Found(b, x) = {} \/ item[x] = Null, UNCHANGED vars
        PROVE  Values!RemoveItem(b, x)
    <2>1. P = {} \/ view.item[x].type \in {"null", "array", "object"}
      <3>1. CASE i.type \in Pointers
        BY <1>5, <3>1 DEF Pointers
      <3>2. CASE i = Null
        BY <1>5, <3>2 DEF Null
      <3>3. CASE i.type \notin Pointers /\ i # Null
        BY <1>1, <1>4, <1>7, <3>3
      <3> QED
        BY <3>1, <3>2, <3>3
    <2>2. UNCHANGED Values!vars
      BY <1>7, StutterSeen
    <2> QED
      BY <1>1, <2>1, <2>2 DEF Values!RemoveItem
  <1>8. CASE \E k \in Found(b, x) : /\ item[x] = Null \/ \A j \in Found(b, x) : k <= j
                                    /\ Erase(b, k)
    BY <1>6, <1>8
  <1>9. CASE (Found(b, x) = {} \/ item[x] = Null) /\ UNCHANGED vars
    BY <1>7, <1>9
  <1> QED
    BY <1>8, <1>9 DEF RemoveItem, Throws

\* b.resize(n) of an array, or clear()
LEMMA ResizeSeen ==
    ASSUME Seen, NEW b \in Boxes, NEW n \in 0..MaxLength[b], Resize(b, n)
    PROVE  Values!Change(b)
  <1>1. PICK old, kept, dropped, more, others :
            /\ old = box[b] /\ kept = SubSeq(old, 1, Min({n, Len(old)}))
            /\ dropped = SubSeq(old, n + 1, Len(old))
            /\ more = (IF n > Len(old) THEN n - Len(old) ELSE 0)
            /\ others = [i \in 1..more |-> Null]
    OBVIOUS
  <1>2. old \in Seq(Item) /\ Distinct(old)
    BY <1>1, BoxSource DEF Seen
  <1>3. n \in Nat /\ n \in Position \cup {0}
    BY ItemAssumption DEF Position
  <1>4. /\ kept \in Seq(Item) /\ Distinct(kept)
        /\ Held(kept) \cup Held(dropped) = Held(box[b]) /\ Held(kept) \cap Held(dropped) = {}
    <2>1. Cut(old, n, kept, dropped)
      BY <1>1, <1>3 DEF Cut
    <2>2. /\ kept \in Seq(Item) /\ Distinct(kept)
          /\ Held(kept) \cup Held(dropped) = Held(old) /\ Held(kept) \cap Held(dropped) = {}
      BY <1>2, <2>1, HeldCut
    <2> QED
      BY <1>1, <2>2
  <1>5. more \in Nat
    BY <1>1, <1>2, <1>3
  <1>6. others \in Seq(Item) /\ Len(others) = more /\ \A i \in 1..more : others[i] = Null
    BY <1>1, <1>5, NullOwnsNone
  <1>7. Source(others)
    <2>1. \A i \in DOMAIN others : others[i].type \notin Pointers
      BY <1>1, <1>5 DEF Null, Pointers
    <2>2. Held(others) = {} /\ Distinct(others)
      BY <2>1 DEF Held, Distinct
    <2> QED
      BY <1>6, <2>2, RootSource DEF Seen
  <1>8. PICK list : list = TreesOf(kept, Now) \o TreesOf(others, Now)
    OBVIOUS
  <1>9. Values!SetBox(b, list)
    <2>1. Fill(b, kept, dropped, others)
      BY <1>1 DEF Resize
    <2> QED
      BY <1>4, <1>7, <1>8, <2>1, FillSeen
  <1>10. PICK all, m, F : all = kept \o others /\ m = Min({n, Len(old)}) /\ F = Now
    OBVIOUS
  <1>11. m \in Nat /\ m = IF n <= Len(old) THEN n ELSE Len(old)
    <2>1. PICK c : c = Len(old)
      OBVIOUS
    <2>2. c \in Nat /\ m = Min({n, c})
      BY <1>2, <1>10, <2>1
    <2>3. \E y \in {n, c} : \A z \in {n, c} : y =< z
      BY <1>3, <2>2
    <2>4. m \in {n, c} /\ \A y \in {n, c} : m =< y
      BY <2>2, <2>3 DEF Min
    <2> QED
      BY <1>3, <2>1, <2>2, <2>4
  <1>12. kept \in Seq(Item) /\ Len(kept) = m /\ \A i \in 1..m : kept[i] = old[i]
    <2>1. kept = SubSeq(old, 1, m)
      BY <1>1, <1>10
    <2>2. \A i \in 1..m : i \in 1..Len(old)
      BY <1>2, <1>3, <1>11
    <2>3. 1 \in Int /\ m \in Int /\ \A i \in 1..m : old[i] \in Item
      BY <1>2, <1>11, <2>2
    <2> QED
      BY <1>11, <2>1, <2>3, SubSeqProperties
  <1>13. /\ all \in Seq(Item) /\ Len(all) = n
         /\ \A i \in 1..n : all[i] = IF i <= Len(old) THEN old[i] ELSE Null
    <2>1. all \in Seq(Item) /\ Len(all) = m + more
      <3>1. all = kept \o others
        BY <1>10
      <3>2. kept \in Seq(Item) /\ others \in Seq(Item) /\ Len(kept) = m /\ Len(others) = more
        BY <1>6, <1>12
      <3>3. kept \o others \in Seq(Item) /\ Len(kept \o others) = Len(kept) + Len(others)
        BY <3>2, ConcatProperties
      <3> QED
        BY <3>1, <3>2, <3>3
    <2>2. m + more = n
      <3>1. PICK c : c = Len(old)
        OBVIOUS
      <3>2. /\ c \in Nat /\ n \in Nat /\ m = (IF n <= c THEN n ELSE c)
            /\ more = (IF n > c THEN n - c ELSE 0)
        BY <1>1, <1>2, <1>3, <1>11, <3>1
      <3> QED
        BY <3>2
    <2>3. ASSUME NEW i \in 1..n PROVE all[i] = IF i <= Len(old) THEN old[i] ELSE Null
      <3>1. all[i] = IF i <= m THEN kept[i] ELSE others[i - m]
        BY <1>5, <1>6, <1>10, <1>11, <1>12, <2>2
      <3>2. CASE i <= Len(old)
        <4>1. i \in 1..m
          BY <1>2, <1>3, <1>11, <3>2
        <4> QED
          BY <1>12, <3>1, <3>2, <4>1
      <3>3. CASE ~(i <= Len(old))
        <4>1. ~(i <= m) /\ i - m \in 1..more
          BY <1>1, <1>2, <1>3, <1>11, <2>2, <3>3
        <4> QED
          BY <1>6, <3>1, <3>3, <4>1
      <3> QED
        BY <3>2, <3>3
    <2> QED
      BY <2>1, <2>2, <2>3
  <1>14. list = TreesOf(all, F)
    BY <1>4, <1>6, <1>8, <1>10, TreesConcat
  <1>15. PICK seen : seen = view.box[b]
    OBVIOUS
  <1>16. /\ Len(seen) = Len(old)
         /\ \A i \in 1..Len(old) : seen[i] = TreeOf(old[i], F)
    <2>1. seen = TreesOf(old, F)
      BY <1>1, <1>10, <1>15, SeenThere
    <2>2. Len(TreesOf(old, F)) = Len(old) /\ \A i \in DOMAIN old : TreesOf(old, F)[i] = TreeOf(old[i], F)
      BY <1>2, TreesSeq
    <2> QED
      BY <1>2, <2>1, <2>2
  <1>17. list = Values!Resized(seen, n)
    <2>1. list = [i \in 1..n |-> TreeOf(all[i], F)]
      BY <1>13, <1>14 DEF TreesOf
    <2>2. ASSUME NEW i \in 1..n
          PROVE  TreeOf(all[i], F) = IF i <= Len(seen) THEN seen[i] ELSE Values!Null
      <3>1. CASE i <= Len(old)
        <4>1. i \in 1..Len(old)
          BY <1>2, <3>1
        <4> QED
          BY <1>13, <1>16, <3>1, <4>1
      <3>2. CASE ~(i <= Len(old))
        BY <1>13, <1>16, <3>2, LeafTrees
      <3> QED
        BY <3>1, <3>2
    <2>3. Values!Resized(seen, n) = [i \in 1..n |-> IF i <= Len(seen) THEN seen[i] ELSE Values!Null]
      BY DEF Values!Resized
    <2> QED
      BY <2>1, <2>2, <2>3
  <1>18. Values!SetBox(b, Values!Resized(view.box[b], n))
    BY <1>9, <1>15, <1>17
  <1>19. \E k \in Position \cup {0} : Values!SetBox(b, Values!Resized(view.box[b], k))
    BY <1>3, <1>18
  <1> QED
    BY <1>19 DEF Values!Change

------------------------------------------------------------------------------
(* The items, arrays and objects implement values *)

\* Whatever call is made, the program sees one on values, or none.
LEMMA NextSeen ==
    ASSUME Seen, Next
    PROVE  Values!Next \/ UNCHANGED Values!vars
  <1>1. ASSUME UNCHANGED vars PROVE UNCHANGED Values!vars
    BY <1>1, StutterSeen
  <1>2. ASSUME NEW x \in Vars, AssignScalar(x) PROVE Values!Next
    BY <1>2, AssignScalarSeen DEF Values!Next
  <1>3. ASSUME NEW x \in Vars, NEW y \in Vars, CopyAssign(x, y) \/ MoveAssign(x, y)
        PROVE  Values!Next
    BY <1>3, CopyAssignSeen, MoveAssignSeen DEF Values!Next
  <1>4. ASSUME NEW b \in Boxes, NEW c \in Boxes, CopyBox(b, c) \/ PlusAssign(b, c)
        PROVE  Values!Next
    BY <1>4, CopyBoxSeen, PlusAssignSeen DEF Values!Next
  <1>5. ASSUME NEW b \in Boxes, NEW c \in Boxes, MoveBox(b, c) PROVE Values!Next
    BY <1>5, MoveBoxSeen DEF Values!Next
  <1>6. ASSUME NEW b \in Boxes, NEW c \in Boxes, NEW d \in Boxes, Plus(d, b, c) PROVE Values!Next
    BY <1>6, PlusSeen DEF Values!Next
  <1>7. ASSUME NEW b \in Boxes, NEW type, Rebuild(b, type)
        PROVE  Values!Next \/ UNCHANGED Values!vars
    BY <1>1, <1>7, RebuildSeen DEF Values!Next, Rebuild, Throws
  <1>8. ASSUME NEW x \in Vars, NEW b \in Boxes, FromBox(x, b) PROVE Values!Next
    BY <1>8, FromBoxSeen DEF Values!Next
  <1>9. ASSUME NEW x \in Vars, NEW b \in Boxes, ToBox(b, x)
        PROVE  Values!Next \/ UNCHANGED Values!vars
    BY <1>1, <1>9, ToBoxSeen DEF Values!Next, ToBox, Throws
  <1>10. ASSUME NEW x \in Vars, NEW b \in Boxes, Add(b, x) PROVE Values!Next
    BY <1>10, AddSeen DEF Values!Next
  <1>11. ASSUME NEW x \in Vars, NEW b \in Boxes, RemoveItem(b, x) PROVE Values!Next
    BY <1>11, RemoveItemSeen DEF Values!Next
  <1>12. ASSUME NEW x \in Vars, NEW b \in Boxes, NEW i, SetAt(b, i, x)
         PROVE  Values!Next \/ UNCHANGED Values!vars
    BY <1>1, <1>12, SetAtSeen DEF Values!Next, SetAt, InBounds, Throws
  <1>13. ASSUME NEW x \in Vars, NEW b \in Boxes, NEW i, GetAt(x, b, i)
         PROVE  Values!Next \/ UNCHANGED Values!vars
    BY <1>1, <1>13, GetAtSeen DEF Values!Next, GetAt, InBounds, Throws
  <1>14. ASSUME NEW x \in Vars, NEW b \in Boxes, NEW i, MoveAt(x, b, i) PROVE Values!Next
    BY <1>14, MoveAtSeen DEF Values!Next
  <1>15. ASSUME NEW b \in Boxes, NEW n \in 0..MaxLength[b], Resize(b, n) PROVE Values!Next
    BY <1>15, ResizeSeen DEF Values!Next
  <1>16. ASSUME NEW b \in Boxes, NEW n, RemoveKey(b, n) PROVE Values!Next
    BY <1>16, RemoveKeySeen DEF Values!Next
  <1> QED
    BY <1>2, <1>3, <1>4, <1>5, <1>6, <1>7, <1>8, <1>9, <1>10, <1>11, <1>12, <1>13, <1>14, <1>15,
       <1>16 DEF Next

\* At first every item is null and every array and object empty.
LEMMA InitSeen ==
    ASSUME Init, view = View
    PROVE  Values!Init
  <1>1. PICK F : F = Lists[Cardinality(Nodes)]
    OBVIOUS
  <1>2. view.item = TreesOf(item, F) /\ view.box = [b \in Boxes |-> TreesOf(box[b], F)]
    BY <1>1 DEF View
  <1>3. kind \in [Boxes -> {"array", "object"}]
    BY ItemAssumption DEF Init, Pointers
  <1>4. view.item = [x \in Vars |-> Values!Null]
    BY <1>2, LeafTrees DEF Init, TreesOf
  <1>5. view.box = [b \in Boxes |-> <<>>]
    BY <1>2, NoTrees DEF Init
  <1> QED
    BY <1>3, <1>4, <1>5 DEF Values!Init

\* JSONItem, JSONArray and JSONObject behave as values: what a program sees of
\* its variables is changed by each call as the call on values changes it, in
\* the variable it is made on alone, whatever nodes behind raw pointers were
\* copied, moved and deleted for it.
THEOREM ValuesImplemented == ViewSpec => ImplementsValues
  <1>1. ViewInit => Values!Init /\ IInv /\ view = View
    BY InitIInv, InitSeen DEF ViewInit
  <1>2. IInv /\ view = View /\ [ViewNext]_<<vars, view>>
            => IInv' /\ (view = View)' /\ [Values!Next /\ UNCHANGED kind]_(Values!vars)
    <2> SUFFICES ASSUME IInv, view = View, [ViewNext]_<<vars, view>>
                 PROVE  /\ IInv' /\ view' = View'
                        /\ [Values!Next /\ UNCHANGED kind]_(Values!vars)
      OBVIOUS
    <2>1. CASE ViewNext
      <3>1. IInv' /\ Seen /\ Next
        BY <2>1, NextIInv DEF ViewNext, Seen
      <3>2. Values!Next \/ UNCHANGED Values!vars
        BY <3>1, NextSeen
      <3> QED
        BY <3>1, <3>2 DEF Seen
    <2>2. CASE UNCHANGED <<vars, view>>
      <3>1. UNCHANGED vars /\ view' = view
        BY <2>2
      <3>2. IInv'
        BY <3>1, ThrowsKeeps
      <3>3. View' = View
        BY <3>1, ListsAre DEF vars, View
      <3>4. UNCHANGED Values!vars
        BY <3>1 DEF vars, Values!vars
      <3> QED
        BY <3>1, <3>2, <3>3, <3>4
    <2> QED
      BY <2>1, <2>2
  <1> QED
    BY <1>1, <1>2, PTL DEF ViewSpec, ImplementsValues, Values!Spec
==============================================================================
