-------------------------- MODULE Containers_proofs --------------------------
(***************************************************************************)
(* PairList is a dictionary, for any keys, values and MaxSize. And the     *)
(* order_ of an object lists the keys of its data_, for any texts read and *)
(* any calls.                                                              *)
(***************************************************************************)
EXTENDS PairList, JSONObject, SequenceTheorems, FiniteSetTheorems, TLAPS

\* A set of numbers that is not empty has a least element: of the intervals
\* that end at its elements, one is no proper superset of another.
LEMMA LeastNumber ==
    ASSUME NEW T, T \subseteq Nat, T # {}
    PROVE  \E m \in T : \A k \in T : m <= k
  <1> DEFINE C == {0..k : k \in T}
  <1>1. C \subseteq FiniteSubsetsOf(Nat)
    <2>1. ASSUME NEW k \in T PROVE 0..k \in FiniteSubsetsOf(Nat)
      <3>1. k \in Int /\ IsFiniteSet(0..k)
        BY FS_Interval
      <3> QED
        BY <3>1 DEF FiniteSubsetsOf
    <2> QED
      BY <2>1
  <1>2. C # {}
    OBVIOUS
  <1>3. PICK x \in C : \A y \in C : <<y, x>> \notin StrictSubsetOrdering(Nat)
    <2> HIDE DEF C
    <2> QED
      BY <1>1, <1>2, FS_StrictSubsetOrderingWellFounded, WFMin
  <1>4. PICK m \in T : x = 0..m
    OBVIOUS
  <1>5. ASSUME NEW k \in T, k < m PROVE FALSE
    <2>1. 0..k \subseteq 0..m /\ m \in 0..m /\ m \notin 0..k
      BY <1>5
    <2>2. <<0..k, 0..m>> \in StrictSubsetOrdering(Nat)
      BY <2>1 DEF StrictSubsetOrdering
    <2> QED
      BY <1>3, <1>4, <2>2
  <1> QED
    BY <1>5

\* An element of a sequence has a first position.
LEMMA PositionIsFirst ==
    ASSUME NEW S, NEW seq \in Seq(S), NEW e, Contains(seq, e)
    PROVE  /\ Position(seq, e) \in 1..Len(seq)
           /\ seq[Position(seq, e)] = e
  <1> DEFINE T == {i \in 1..Len(seq) : seq[i] = e}
  <1>1. T \subseteq Nat /\ T # {}
    BY DEF Contains
  <1>2. PICK m \in T : \A k \in T : m <= k
    <2> HIDE DEF T
    <2> QED
      BY <1>1, LeastNumber
  <1>3. m \in DOMAIN seq /\ seq[m] = e /\ \A j \in 1..(m - 1) : seq[j] # e
    BY <1>2
  <1> QED
    BY <1>3 DEF Position

\* erase moves what comes after one place to the front.
LEMMA RemoveAtShifts ==
    ASSUME NEW S, NEW seq \in Seq(S), NEW i \in 1..Len(seq)
    PROVE  /\ RemoveAt(seq, i) \in Seq(S)
           /\ Len(RemoveAt(seq, i)) = Len(seq) - 1
           /\ \A j \in 1..(Len(seq) - 1) :
                RemoveAt(seq, i)[j] = seq[IF j < i THEN j ELSE j + 1]
  <1> DEFINE front == SubSeq(seq, 1, i - 1)
             back == SubSeq(seq, i + 1, Len(seq))
  <1>1. front \in Seq(S) /\ Len(front) = i - 1 /\ \A j \in 1..(i - 1) : front[j] = seq[j]
    BY SubSeqProperties
  <1>2. /\ back \in Seq(S) /\ Len(back) = Len(seq) - i
        /\ \A j \in 1..(Len(seq) - i) : back[j] = seq[i + j]
    BY SubSeqProperties
  <1> HIDE DEF front, back
  <1>3. /\ front \o back \in Seq(S)
        /\ Len(front \o back) = Len(seq) - 1
        /\ \A j \in 1..(Len(seq) - 1) :
             (front \o back)[j] = IF j < i THEN front[j] ELSE back[j - (i - 1)]
    <2>1. /\ front \o back \in Seq(S)
          /\ Len(front \o back) = Len(front) + Len(back)
          /\ \A j \in 1..(Len(front) + Len(back)) :
               (front \o back)[j] = IF j <= Len(front) THEN front[j] ELSE back[j - Len(front)]
      BY <1>1, <1>2, ConcatProperties
    <2>2. Len(front) + Len(back) = Len(seq) - 1 /\ \A j \in Int : j <= Len(front) <=> j < i
      BY <1>1, <1>2
    <2> QED
      BY <1>1, <2>1, <2>2
  <1>4. ASSUME NEW j \in 1..(Len(seq) - 1)
        PROVE  (front \o back)[j] = seq[IF j < i THEN j ELSE j + 1]
    <2>1. CASE j < i
      BY <1>1, <1>3, <2>1
    <2>2. CASE ~(j < i)
      <3>1. j - (i - 1) \in 1..(Len(seq) - i) /\ i + (j - (i - 1)) = j + 1
        BY <2>2
      <3> QED
        BY <1>2, <1>3, <2>2, <3>1
    <2> QED
      BY <2>1, <2>2
  <1> QED
    BY <1>3, <1>4 DEF RemoveAt, front, back

\* In a sequence without repetitions an element has one position.
LEMMA PositionIsOnly ==
    ASSUME NEW S, NEW seq \in Seq(S), NEW i \in 1..Len(seq),
           \A j, k \in 1..Len(seq) : seq[j] = seq[k] => j = k
    PROVE  Position(seq, seq[i]) = i
  <1>1. Contains(seq, seq[i])
    BY DEF Contains
  <1> QED
    BY <1>1, PositionIsFirst

------------------------------------------------------------------------------
(* ListTypeOK is inductive. *)

\* Erasing the pair at one position keeps the vectors aligned, and the keys
\* that stay are all but the one erased.
LEMMA RemovePairAligned ==
    ASSUME ListTypeOK, NEW i \in 1..Len(keys), RemovePair(i)
    PROVE  /\ ListTypeOK'
           /\ \A j \in 1..Len(keys') :
                LET k == IF j < i THEN j ELSE j + 1
                IN  /\ k \in 1..Len(keys) /\ k # i
                    /\ keys'[j] = keys[k] /\ values'[j] = values[k]
           /\ \A k \in 1..Len(keys) : k # i => \E j \in 1..Len(keys') : keys'[j] = keys[k]
  <1> USE DEF ListTypeOK
  <1>1. /\ keys' \in Seq(Keys) /\ Len(keys') = Len(keys) - 1
        /\ \A j \in 1..(Len(keys) - 1) : keys'[j] = keys[IF j < i THEN j ELSE j + 1]
    BY RemoveAtShifts DEF RemovePair
  <1>2. /\ values' \in Seq(Values) /\ Len(values') = Len(values) - 1
        /\ \A j \in 1..(Len(values) - 1) : values'[j] = values[IF j < i THEN j ELSE j + 1]
    <2>1. values \in Seq(Values) /\ i \in 1..Len(values) /\ values' = RemoveAt(values, i)
      BY DEF RemovePair
    <2> HIDE DEF ListTypeOK
    <2> QED
      BY <2>1, RemoveAtShifts
  <1>3. \A j \in 1..Len(keys') :
          LET k == IF j < i THEN j ELSE j + 1
          IN  k \in 1..Len(keys) /\ k # i /\ keys'[j] = keys[k] /\ values'[j] = values[k]
    <2> SUFFICES ASSUME NEW j \in 1..Len(keys')
                 PROVE  LET k == IF j < i THEN j ELSE j + 1
                        IN  k \in 1..Len(keys) /\ k # i /\ keys'[j] = keys[k] /\ values'[j] = values[k]
      OBVIOUS
    <2> DEFINE k == IF j < i THEN j ELSE j + 1
    <2>1. j \in 1..(Len(keys) - 1) /\ j \in 1..(Len(values) - 1)
      BY <1>1
    <2>2. k \in 1..Len(keys) /\ k # i
      BY <2>1
    <2>3. keys'[j] = keys[k] /\ values'[j] = values[k]
      BY <1>1, <1>2, <2>1
    <2> QED
      BY <2>2, <2>3
  <1>4. ASSUME NEW k \in 1..Len(keys), k # i
        PROVE  \E j \in 1..Len(keys') : keys'[j] = keys[k]
    <2>1. CASE k < i
      <3>1. k \in 1..(Len(keys) - 1)
        BY <2>1
      <3> QED
        BY <1>1, <2>1, <3>1
    <2>2. CASE ~(k < i)
      <3>1. k - 1 \in 1..(Len(keys) - 1) /\ ~(k - 1 < i) /\ (k - 1) + 1 = k
        BY <1>4, <2>2
      <3> QED
        BY <1>1, <3>1
    <2> QED
      BY <2>1, <2>2
  <1>5. ASSUME NEW a \in 1..Len(keys'), NEW b \in 1..Len(keys'), keys'[a] = keys'[b]
        PROVE  a = b
    BY <1>1, <1>3, <1>5
  <1> QED
    BY <1>1, <1>2, <1>3, <1>4, <1>5

\* A new key goes to the end, with its value.
LEMMA AppendAligned ==
    ASSUME ListTypeOK, NEW key \in Keys, NEW value \in Values, ~Contains(keys, key),
           keys' = Append(keys, key), values' = Append(values, value)
    PROVE  ListTypeOK'
  BY DEF ListTypeOK, Contains

\* What SubscriptKey leaves at the end is the value assigned, not the default.
LEMMA SubscriptAppends ==
    ASSUME ListTypeOK, NEW value \in Values
    PROVE  [Append(values, Default) EXCEPT ![Len(values) + 1] = value] = Append(values, value)
  <1> DEFINE made == Append(values, Default)
             n == Len(values) + 1
  <1>1. made \in Seq(Values) /\ Len(made) = n /\ \A i \in 1..Len(values) : made[i] = values[i]
    BY ListAssumption, AppendProperties DEF ListTypeOK
  <1>2. /\ Append(values, value) \in Seq(Values) /\ Len(Append(values, value)) = n
        /\ \A i \in 1..Len(values) : Append(values, value)[i] = values[i]
        /\ Append(values, value)[n] = value
    BY AppendProperties DEF ListTypeOK
  <1>3. n \in 1..n /\ n \in Nat /\ \A i \in 1..n : i # n => i \in 1..Len(values)
    BY DEF ListTypeOK
  <1> HIDE DEF made, n
  <1>4. /\ [made EXCEPT ![n] = value] \in Seq(Values)
        /\ Len([made EXCEPT ![n] = value]) = n
        /\ \A i \in 1..n : [made EXCEPT ![n] = value][i] = IF i = n THEN value ELSE made[i]
    BY <1>1, <1>3, ExceptSeq
  <1>5. [made EXCEPT ![n] = value] = Append(values, value)
    <2> DEFINE left == [made EXCEPT ![n] = value]
               right == Append(values, value)
    <2>1. \A i \in 1..n : left[i] = right[i]
      BY <1>1, <1>2, <1>3, <1>4
    <2>2. left \in Seq(Values) /\ right \in Seq(Values) /\ Len(left) = n /\ Len(right) = n
      BY <1>2, <1>4
    <2> HIDE DEF left, right
    <2>3. left = right
      BY <2>1, <2>2, SeqEqual
    <2> QED
      BY <2>3 DEF left, right
  <1> QED
    BY <1>5 DEF made, n

\* Reversing a vector moves its positions, end for end.
LEMMA ReverseMoves ==
    ASSUME NEW S, NEW seq \in Seq(S)
    PROVE  /\ Reverse(seq) \in Seq(S)
           /\ Len(Reverse(seq)) = Len(seq)
           /\ \A i \in 1..Len(seq) :
                Len(seq) - i + 1 \in 1..Len(seq) /\ Reverse(seq)[i] = seq[Len(seq) - i + 1]
  <1>1. \A i \in 1..Len(seq) : Len(seq) - i + 1 \in 1..Len(seq)
    OBVIOUS
  <1> QED
    BY <1>1 DEF Reverse

\* Both vectors are reversed, so that pairs stay pairs.
LEMMA ReversePairsAligned ==
    ASSUME ListTypeOK, ReversePairs
    PROVE  /\ ListTypeOK' /\ Len(keys') = Len(keys)
           /\ \A i \in 1..Len(keys) :
                LET k == Len(keys) - i + 1
                IN  k \in 1..Len(keys) /\ keys'[i] = keys[k] /\ values'[i] = values[k]
  <1>1. /\ keys' \in Seq(Keys) /\ Len(keys') = Len(keys)
        /\ \A i \in 1..Len(keys) :
             Len(keys) - i + 1 \in 1..Len(keys) /\ keys'[i] = keys[Len(keys) - i + 1]
    BY ReverseMoves DEF ListTypeOK, ReversePairs
  <1>2. /\ values' \in Seq(Values) /\ Len(values') = Len(values)
        /\ \A i \in 1..Len(values) : values'[i] = values[Len(values) - i + 1]
    BY ReverseMoves DEF ListTypeOK, ReversePairs
  <1>3. \A i, j \in 1..Len(keys') : keys'[i] = keys'[j] => i = j
    BY <1>1 DEF ListTypeOK
  <1> QED
    BY <1>1, <1>2, <1>3 DEF ListTypeOK

\* No call disturbs the alignment of the vectors or repeats a key.
LEMMA NextListTypeOK == ListTypeOK /\ [ListNext]_listVars => ListTypeOK'
  <1> SUFFICES ASSUME ListTypeOK, [ListNext]_listVars PROVE ListTypeOK'
    OBVIOUS
  <1>1. ASSUME NEW key \in Keys, NEW value \in Values, SubscriptKey(key, value) PROVE ListTypeOK'
    <2>1. CASE Contains(keys, key)
      <3>1. Position(keys, key) \in 1..Len(keys)
        BY <2>1, PositionIsFirst DEF ListTypeOK
      <3>2. keys' = keys /\ values' = [values EXCEPT ![Position(keys, key)] = value]
        BY <1>1, <2>1 DEF SubscriptKey
      <3>3. values' \in Seq(Values) /\ Len(values') = Len(values)
        BY <3>1, <3>2, ExceptSeq DEF ListTypeOK
      <3> QED
        BY <3>2, <3>3 DEF ListTypeOK
    <2>2. CASE ~Contains(keys, key)
      BY <1>1, <2>2, AppendAligned, SubscriptAppends DEF SubscriptKey
    <2> QED
      BY <2>1, <2>2
  <1>2. ASSUME NEW key \in Keys, NEW value \in Values, SubscriptValue(value, key) PROVE ListTypeOK'
    <2>1. Position(values, value) \in 1..Len(keys)
      BY <1>2, PositionIsFirst DEF SubscriptValue, ListTypeOK
    <2>2. /\ keys' \in Seq(Keys) /\ Len(keys') = Len(keys) /\ values' = values
          /\ \A i \in 1..Len(keys) : keys'[i] = IF i = Position(values, value) THEN key ELSE keys[i]
      BY <1>2, <2>1, ExceptSeq DEF SubscriptValue, ListTypeOK
    <2>3. \A i \in 1..Len(keys) : keys[i] # key
      BY <1>2 DEF SubscriptValue, Contains
    <2> QED
      BY <2>2, <2>3 DEF ListTypeOK
  <1>3. ASSUME NEW key \in Keys, NEW value \in Values, AddPair(key, value) PROVE ListTypeOK'
    BY <1>3, AppendAligned DEF AddPair
  <1>4. ASSUME NEW key \in Keys, RemoveKey(key) PROVE ListTypeOK'
    <2>1. Position(keys, key) \in 1..Len(keys)
      BY <1>4, PositionIsFirst DEF RemoveKey, ListTypeOK
    <2> QED
      BY <1>4, <2>1, RemovePairAligned DEF RemoveKey
  <1>5. ASSUME NEW value \in Values, RemoveValue(value) PROVE ListTypeOK'
    <2>1. Position(values, value) \in 1..Len(keys)
      BY <1>5, PositionIsFirst DEF RemoveValue, ListTypeOK
    <2> QED
      BY <1>5, <2>1, RemovePairAligned DEF RemoveValue
  <1>6. ASSUME NEW i \in DOMAIN keys, RemovePair(i) PROVE ListTypeOK'
    BY <1>6, RemovePairAligned DEF ListTypeOK
  <1>7. CASE ReversePairs
    <2>1. ListTypeOK' /\ Len(keys') = Len(keys)
      BY <1>7, ReversePairsAligned
    <2> QED
      BY <2>1
  <1>8. CASE ClearPairs
    BY <1>8 DEF ClearPairs, ListTypeOK
  <1>9. CASE UNCHANGED listVars
    BY <1>9 DEF listVars, ListTypeOK
  <1> QED
    BY <1>1, <1>2, <1>3, <1>4, <1>5, <1>6, <1>7, <1>8, <1>9 DEF ListNext

\* The two vectors of a PairList stay aligned, and hold each key once.
THEOREM ListTypeCorrect == ListSpec => []ListTypeOK
  <1>1. ListInit => ListTypeOK
    BY DEF ListInit, ListTypeOK
  <1> QED
    BY <1>1, NextListTypeOK, PTL DEF ListSpec

------------------------------------------------------------------------------
(* The refinement. *)

\* A place of the vectors is an entry of the dictionary they stand for.
LEMMA MapEntries ==
    ASSUME ListTypeOK
    PROVE  /\ DOMAIN Map = {keys[i] : i \in 1..Len(keys)}
           /\ \A i \in 1..Len(keys) : Map[keys[i]] = values[i]
  <1>1. \A i \in 1..Len(keys) : Position(keys, keys[i]) = i
    BY PositionIsOnly DEF ListTypeOK
  <1> QED
    BY <1>1 DEF Map

\* After a step, a function with the entries of the vectors is their dictionary.
LEMMA MapAfter ==
    ASSUME ListTypeOK', NEW g, g = [key \in DOMAIN g |-> g[key]],
           DOMAIN g = {keys'[i] : i \in 1..Len(keys')},
           \A i \in 1..Len(keys') : g[keys'[i]] = values'[i]
    PROVE  Map' = g
  <1>1. \A i \in 1..Len(keys') : Position(keys', keys'[i]) = i
    BY PositionIsOnly DEF ListTypeOK
  <1> QED
    BY <1>1 DEF Map

\* A value written at the place of a key, or with it at the end, is put.
LEMMA AppendPuts ==
    ASSUME ListTypeOK, ListTypeOK', NEW key, NEW value, ~Contains(keys, key),
           key \in Keys, value \in Values,
           keys' = Append(keys, key), values' = Append(values, value)
    PROVE  Abstract!Put(key, value)
  <1> DEFINE g == [k \in DOMAIN Map \cup {key} |-> IF k = key THEN value ELSE Map[k]]
             n == Len(keys)
  <1>1. /\ n \in Nat /\ Len(keys') = n + 1 /\ n + 1 \in 1..(n + 1)
        /\ \A i \in 1..(n + 1) : i # n + 1 => i \in 1..n
        /\ \A i \in 1..n : i \in 1..(n + 1)
    BY DEF ListTypeOK
  <1>2. \A i \in 1..n : keys'[i] = keys[i] /\ values'[i] = values[i] /\ keys[i] # key
    BY DEF ListTypeOK, Contains
  <1>3. keys'[n + 1] = key /\ values'[n + 1] = value
    BY DEF ListTypeOK
  <1> HIDE DEF n
  <1>4. DOMAIN Map = {keys[i] : i \in 1..n} /\ \A i \in 1..n : Map[keys[i]] = values[i]
    BY MapEntries DEF n
  <1>5. DOMAIN g = {keys'[i] : i \in 1..Len(keys')}
    BY <1>1, <1>2, <1>3, <1>4
  <1>6. ASSUME NEW i \in 1..Len(keys') PROVE g[keys'[i]] = values'[i]
    <2>1. CASE i = n + 1
      BY <1>3, <2>1
    <2>2. CASE i # n + 1
      BY <1>1, <1>2, <1>4, <2>2
    <2> QED
      BY <2>1, <2>2
  <1>7. g = [k \in DOMAIN g |-> g[k]]
    OBVIOUS
  <1> HIDE DEF g
  <1>8. Map' = g
    BY <1>5, <1>6, <1>7, MapAfter
  <1> QED
    BY <1>8 DEF g, Abstract!Put

\* Assigning to the value of a key that is there puts it.
LEMMA AssignPuts ==
    ASSUME ListTypeOK, ListTypeOK', NEW key \in Keys, NEW value \in Values,
           Contains(keys, key), SubscriptKey(key, value)
    PROVE  Abstract!Put(key, value)
  <1> DEFINE g == [k \in DOMAIN Map \cup {key} |-> IF k = key THEN value ELSE Map[k]]
             p == Position(keys, key)
  <1>1. p \in 1..Len(keys) /\ keys[p] = key
    BY PositionIsFirst DEF ListTypeOK
  <1>2. keys' = keys /\ values' = [values EXCEPT ![p] = value]
    BY DEF SubscriptKey
  <1>3. \A i \in 1..Len(keys) : values'[i] = IF i = p THEN value ELSE values[i]
    BY <1>1, <1>2, ExceptSeq DEF ListTypeOK
  <1>4. \A i \in 1..Len(keys) : keys[i] = key <=> i = p
    BY <1>1 DEF ListTypeOK
  <1> HIDE DEF p
  <1>5. DOMAIN g = {keys'[i] : i \in 1..Len(keys')}
    BY <1>1, <1>2, MapEntries
  <1>6. \A i \in 1..Len(keys') : g[keys'[i]] = values'[i]
    BY <1>2, <1>3, <1>4, MapEntries
  <1>7. g = [k \in DOMAIN g |-> g[k]]
    OBVIOUS
  <1> HIDE DEF g
  <1>8. Map' = g
    BY <1>5, <1>6, <1>7, MapAfter
  <1> QED
    BY <1>8 DEF g, Abstract!Put

\* Assigning a new key to the place of a value renames the key there.
LEMMA AssignKeyRenames ==
    ASSUME ListTypeOK, ListTypeOK', NEW key \in Keys, NEW value \in Values, SubscriptValue(value, key)
    PROVE  Abstract!Rename(keys[Position(values, value)], key)
  <1> DEFINE p == Position(values, value)
             old == keys[p]
             g == [k \in (DOMAIN Map \ {old}) \cup {key} |-> IF k = key THEN Map[old] ELSE Map[k]]
  <1>1. p \in 1..Len(keys)
    BY PositionIsFirst DEF ListTypeOK, SubscriptValue
  <1>2. values' = values /\ Len(keys') = Len(keys)
        /\ \A i \in 1..Len(keys) : keys'[i] = IF i = p THEN key ELSE keys[i]
    BY <1>1, ExceptSeq DEF ListTypeOK, SubscriptValue
  <1>3. \A i \in 1..Len(keys) : keys[i] # key
    BY DEF SubscriptValue, Contains
  <1>4. \A i \in 1..Len(keys) : keys[i] = old <=> i = p
    BY <1>1 DEF ListTypeOK
  <1> HIDE DEF p, old
  <1>5. old = keys[p]
    BY DEF old
  <1>6. DOMAIN Map = {keys[i] : i \in 1..Len(keys)} /\ \A i \in 1..Len(keys) : Map[keys[i]] = values[i]
    BY MapEntries
  <1>7. DOMAIN g = {keys'[i] : i \in 1..Len(keys')}
    <2>1. ASSUME NEW k \in DOMAIN g PROVE k \in {keys'[i] : i \in 1..Len(keys')}
      <3>1. CASE k = key
        BY <1>1, <1>2, <3>1
      <3>2. CASE k # key
        <4>1. PICK i \in 1..Len(keys) : k = keys[i]
          BY <1>6, <2>1, <3>2
        <4> QED
          BY <1>2, <1>4, <2>1, <3>2, <4>1
      <3> QED
        BY <3>1, <3>2
    <2>2. ASSUME NEW i \in 1..Len(keys') PROVE keys'[i] \in DOMAIN g
      BY <1>2, <1>4, <1>6, <2>2
    <2> QED
      BY <2>1, <2>2
  <1>8. \A i \in 1..Len(keys') : g[keys'[i]] = values'[i]
    BY <1>1, <1>2, <1>3, <1>4, <1>5, <1>6, <1>7
  <1>9. g = [k \in DOMAIN g |-> g[k]]
    OBVIOUS
  <1>10. old \in DOMAIN Map /\ key \notin DOMAIN Map
    BY <1>1, <1>3, <1>5, <1>6
  <1> HIDE DEF g
  <1>11. Map' = g
    BY <1>7, <1>8, <1>9, MapAfter
  <1> QED
    BY <1>10, <1>11 DEF g, old, p, Abstract!Rename

\* Erasing the pair at one place drops its key.
LEMMA RemoveDrops ==
    ASSUME ListTypeOK, ListTypeOK', NEW i \in 1..Len(keys), RemovePair(i)
    PROVE  Abstract!Drop(keys[i])
  <1> DEFINE g == [k \in DOMAIN Map \ {keys[i]} |-> Map[k]]
             From(j) == IF j < i THEN j ELSE j + 1
  <1>1. \A j \in 1..Len(keys') :
          /\ From(j) \in 1..Len(keys) /\ From(j) # i
          /\ keys'[j] = keys[From(j)] /\ values'[j] = values[From(j)]
    BY RemovePairAligned
  <1>2. \A k \in 1..Len(keys) : k # i => \E j \in 1..Len(keys') : keys'[j] = keys[k]
    BY RemovePairAligned
  <1> HIDE DEF From
  <1>3. \A k \in 1..Len(keys) : keys[k] = keys[i] <=> k = i
    BY DEF ListTypeOK
  <1>4. DOMAIN Map = {keys[k] : k \in 1..Len(keys)} /\ \A k \in 1..Len(keys) : Map[keys[k]] = values[k]
    BY MapEntries
  <1>5. DOMAIN g = {keys'[j] : j \in 1..Len(keys')}
    <2>1. ASSUME NEW k \in DOMAIN g PROVE k \in {keys'[j] : j \in 1..Len(keys')}
      <3>1. PICK n \in 1..Len(keys) : k = keys[n]
        BY <1>4, <2>1
      <3>2. n # i
        BY <2>1, <3>1
      <3> QED
        BY <1>2, <3>1, <3>2
    <2>2. ASSUME NEW j \in 1..Len(keys') PROVE keys'[j] \in DOMAIN g
      BY <1>1, <1>3, <1>4, <2>2
    <2> QED
      BY <2>1, <2>2
  <1>6. \A j \in 1..Len(keys') : g[keys'[j]] = values'[j]
    BY <1>1, <1>3, <1>4
  <1>7. g = [k \in DOMAIN g |-> g[k]]
    OBVIOUS
  <1>8. keys[i] \in DOMAIN Map
    BY <1>4
  <1> HIDE DEF g
  <1>9. Map' = g
    BY <1>5, <1>6, <1>7, MapAfter
  <1> QED
    BY <1>8, <1>9 DEF g, Abstract!Drop

\* Reversing both vectors changes no entry.
LEMMA ReverseKeeps ==
    ASSUME ListTypeOK, ListTypeOK', ReversePairs
    PROVE  Map' = Map
  <1> DEFINE Turn(i) == Len(keys) - i + 1
  <1>1. /\ Len(keys') = Len(keys)
        /\ \A i \in 1..Len(keys) :
             Turn(i) \in 1..Len(keys) /\ keys'[i] = keys[Turn(i)] /\ values'[i] = values[Turn(i)]
    BY ReversePairsAligned
  <1>2. \A i \in 1..Len(keys) : Turn(Turn(i)) = i
    BY DEF ListTypeOK
  <1> HIDE DEF Turn
  <1>3. DOMAIN Map = {keys'[i] : i \in 1..Len(keys')}
    BY <1>1, <1>2, MapEntries
  <1>4. \A i \in 1..Len(keys') : Map[keys'[i]] = values'[i]
    BY <1>1, MapEntries
  <1>5. Map = [k \in DOMAIN Map |-> Map[k]]
    BY DEF Map
  <1> QED
    BY <1>3, <1>4, <1>5, MapAfter

\* Each call is the dictionary's step, or none of it.
LEMMA NextDictionary == ListTypeOK /\ ListTypeOK' /\ [ListNext]_listVars => [Abstract!Next]_Map
  <1> SUFFICES ASSUME ListTypeOK, ListTypeOK', [ListNext]_listVars PROVE [Abstract!Next]_Map
    OBVIOUS
  <1>1. ASSUME NEW key \in Keys, NEW value \in Values, SubscriptKey(key, value)
        PROVE  Abstract!Put(key, value)
    <2>1. CASE ~Contains(keys, key)
      BY <1>1, <2>1, SubscriptAppends, AppendPuts DEF SubscriptKey
    <2> QED
      BY <1>1, <2>1, AssignPuts
  <1>2. ASSUME NEW key \in Keys, NEW value \in Values, SubscriptValue(value, key)
        PROVE  \E old \in Keys : Abstract!Rename(old, key)
    <2>1. Position(values, value) \in 1..Len(keys)
      BY <1>2, PositionIsFirst DEF SubscriptValue, ListTypeOK
    <2>2. keys[Position(values, value)] \in Keys
      BY <2>1, ElementOfSeq DEF ListTypeOK
    <2> QED
      BY <1>2, <2>2, AssignKeyRenames
  <1>3. ASSUME NEW key \in Keys, NEW value \in Values, AddPair(key, value)
        PROVE  Abstract!Put(key, value)
    BY <1>3, AppendPuts DEF AddPair
  <1>4. ASSUME NEW i \in 1..Len(keys), RemovePair(i)
        PROVE  \E key \in Keys : Abstract!Drop(key)
    <2>1. keys[i] \in Keys
      BY ElementOfSeq DEF ListTypeOK
    <2> QED
      BY <1>4, <2>1, RemoveDrops
  <1>5. ASSUME NEW key \in Keys, RemoveKey(key) PROVE \E k \in Keys : Abstract!Drop(k)
    <2>1. Position(keys, key) \in 1..Len(keys)
      BY <1>5, PositionIsFirst DEF RemoveKey, ListTypeOK
    <2> QED
      BY <1>4, <1>5, <2>1 DEF RemoveKey
  <1>6. ASSUME NEW value \in Values, RemoveValue(value) PROVE \E k \in Keys : Abstract!Drop(k)
    <2>1. Position(values, value) \in 1..Len(keys)
      BY <1>6, PositionIsFirst DEF RemoveValue, ListTypeOK
    <2> QED
      BY <1>4, <1>6, <2>1 DEF RemoveValue
  <1>7. CASE ReversePairs
    BY <1>7, ReverseKeeps
  <1>8. CASE ClearPairs
    <2>1. Map' = [k \in {} |-> Map[k]]
      BY <1>8 DEF ClearPairs, Map
    <2> QED
      BY <2>1 DEF Abstract!Next, Abstract!Clear
  <1>9. CASE UNCHANGED listVars
    BY <1>9 DEF listVars, Map
  <1>10. DOMAIN keys = 1..Len(keys)
    BY DEF ListTypeOK
  <1> QED
    BY <1>1, <1>2, <1>3, <1>4, <1>5, <1>6, <1>7, <1>8, <1>9, <1>10 DEF ListNext, Abstract!Next

\* Whatever calls are made, a PairList answers as a dictionary does.
THEOREM ListImplements == ListSpec => ImplementsDictionary
  <1>1. ListInit => Abstract!Init
    BY DEF ListInit, Map, Abstract!Init
  <1> QED
    BY <1>1, ListTypeCorrect, NextDictionary, PTL DEF ListSpec, ImplementsDictionary, Abstract!Spec

------------------------------------------------------------------------------
(* JSONObject: the parser *)

Strings == Seq(Chars)
Pairs == (Strings \ {<<>>}) \X {JSONItem[raw] : raw \in Strings}

Parsers ==
    [kind : {"object"}, comments : BOOLEAN, pos : Nat \ {0}, idx : Idx, count : Nat,
     key : Strings, value : Strings, pairs : Seq(Pairs)]

\* The brackets of a nested value that are open are among what was read of it,
\* and the place of the parser is one up to n.
Parsing(p, n) ==
    /\ p \in Parsers /\ p.pos <= n
    /\ p.idx \in Nested => p.count \in 1..Len(p.value)

\* A character that is put to the key or to the value.
LEMMA PutKeeps ==
    ASSUME NEW n, NEW p, Parsing(p, n), NEW ch \in Chars
    PROVE  /\ p.idx \notin Nested => Parsing(PutKey(p, ch), n)
           /\ Parsing(PutValue(p, ch), n)
           /\ PutValue(p, ch).pos = p.pos /\ PutValue(p, ch).idx = p.idx
           /\ PutValue(p, ch).count = p.count
           /\ Len(PutValue(p, ch).value) = Len(p.value) + 1 /\ Len(p.value) \in Nat
  <1>1. Append(p.key, ch) \in Strings /\ Append(p.value, ch) \in Strings
        /\ Len(Append(p.value, ch)) = Len(p.value) + 1
    BY DEF Parsing, Parsers, Strings
  <1>2. Len(p.value) \in Nat
    BY DEF Parsing, Parsers, Strings
  <1>3. /\ PutValue(p, ch) \in Parsers /\ PutValue(p, ch).value = Append(p.value, ch)
        /\ PutValue(p, ch).pos = p.pos /\ PutValue(p, ch).idx = p.idx
        /\ PutValue(p, ch).count = p.count
    BY <1>1 DEF Parsing, Parsers, PutValue
  <1>4. PutKey(p, ch) \in Parsers /\ PutKey(p, ch).pos = p.pos /\ PutKey(p, ch).idx = p.idx
    BY <1>1 DEF Parsing, Parsers, PutKey
  <1>5. Parsing(PutValue(p, ch), n)
    BY <1>1, <1>2, <1>3 DEF Parsing
  <1>6. p.idx \notin Nested => Parsing(PutKey(p, ch), n)
    BY <1>4 DEF Parsing
  <1> QED
    BY <1>1, <1>2, <1>3, <1>5, <1>6

\* A parser that gives up.
LEMMA FailedKeeps ==
    ASSUME NEW n, NEW p, Parsing(p, n)
    PROVE  Parsing(Failed(p), n) /\ Failed(p).pos = p.pos
  BY DEF Parsing, Parsers, Failed, Idx, Content, Nested

\* Keep
LEMMA KeepKeeps ==
    ASSUME NEW n, NEW p, Parsing(p, n), NEW ch \in Chars
    PROVE  Parsing(Keep(p, ch), n) /\ Keep(p, ch).pos = p.pos
  <1>1. p.idx = "KEY_CONTENT" => p.idx \notin Nested
    BY DEF Nested
  <1>2. /\ p.idx = "KEY_CONTENT" => Parsing(PutKey(p, ch), n)
        /\ Parsing(PutValue(p, ch), n) /\ Parsing(Failed(p), n) /\ Failed(p).pos = p.pos
    BY <1>1, PutKeeps, FailedKeeps
  <1>3. PutKey(p, ch).pos = p.pos /\ PutValue(p, ch).pos = p.pos
    BY DEF PutKey, PutValue, Parsing, Parsers
  <1> QED
    BY <1>2, <1>3 DEF Keep

\* Count
LEMMA CountKeeps ==
    ASSUME NEW n, NEW p, Parsing(p, n), NEW ch \in Chars, p.idx \in Nested
    PROVE  Parsing(Count(p, ch), n)
  <1>1. PICK q : q = PutValue(p, ch)
    OBVIOUS
  <1>2. /\ q \in Parsers /\ q.pos <= n /\ q.idx = p.idx /\ q.count = p.count
        /\ Len(q.value) = Len(p.value) + 1 /\ Len(p.value) \in Nat /\ p.count \in 1..Len(p.value)
    BY <1>1, PutKeeps DEF Parsing
  <1>3. CASE ch \in {"{", "["}
    <2>1. PICK r : r = [q EXCEPT !.count = @ + 1]
      OBVIOUS
    <2>2. r \in Parsers /\ r.pos = q.pos /\ r.idx = q.idx /\ r.count = q.count + 1 /\ r.value = q.value
      BY <1>2, <2>1 DEF Parsers
    <2>3. Parsing(r, n)
      BY <1>2, <2>2 DEF Parsing
    <2> QED
      BY <1>1, <1>3, <2>1, <2>3 DEF Count
  <1>4. CASE ch \notin {"{", "["}
    <2>1. PICK r : r = [q EXCEPT !.count = @ - 1, !.idx = IF p.count = 1 THEN "BACK" ELSE @]
      OBVIOUS
    <2>2. p.count - 1 \in Nat /\ (IF p.count = 1 THEN "BACK" ELSE q.idx) \in Idx
      BY <1>2 DEF Parsers, Idx
    <2>3. /\ r \in Parsers /\ r.pos = q.pos /\ r.count = q.count - 1 /\ r.value = q.value
          /\ r.idx = IF p.count = 1 THEN "BACK" ELSE q.idx
      BY <1>2, <2>1, <2>2 DEF Parsers
    <2>4. Parsing(r, n)
      BY <1>2, <2>3 DEF Parsing, Nested
    <2> QED
      BY <1>1, <1>4, <2>1, <2>4 DEF Count
  <1> QED
    BY <1>3, <1>4

\* Edges lead to states.
LEMMA EdgesLead ==
    ASSUME NEW e \in Edges("object")
    PROVE  e[3] \in Idx
  <1>1. ASSUME NEW a, NEW from, NEW to \in Idx, e = <<a, from, to>> PROVE e[3] \in Idx
    BY <1>1
  <1>2. "ARRAY" \in Idx /\ "OBJECT" \in Idx /\ "STRING" \in Idx /\ "BACK" \in Idx /\ "NONE" \in Idx
        /\ "KEY_FRONT" \in Idx /\ "KEY_CONTENT" \in Idx /\ "KEY_BACK" \in Idx /\ "FRONT" \in Idx
    BY DEF Idx, Content, Nested
  <1>3. CASE e \in Shared
    BY <1>1, <1>2, <1>3 DEF Shared
  <1>4. CASE e \notin Shared
    BY <1>1, <1>2, <1>4 DEF Edges
  <1> QED
    BY <1>3, <1>4

\* Follow
LEMMA FollowKeeps ==
    ASSUME NEW n, NEW p, Parsing(p, n), NEW ch \in Chars
    PROVE  Parsing(Follow(p, ch), n)
  <1>1. PICK edges : edges = {e \in Edges(p.kind) : e[1] = ch /\ e[2] = p.idx}
    OBVIOUS
  <1>2. CASE Bracket(p, ch)
    <2>1. p.idx \in Nested
      BY <1>2 DEF Bracket, Nested
    <2> QED
      BY <1>2, <2>1, CountKeeps DEF Follow
  <1>3. CASE ~Bracket(p, ch) /\ edges = {}
    <2>1. Follow(p, ch) = Keep(p, ch)
      BY <1>1, <1>3 DEF Follow
    <2> QED
      BY <2>1, KeepKeeps
  <1>4. CASE ~Bracket(p, ch) /\ edges # {}
    <2>1. PICK to : to = (CHOOSE e \in edges : TRUE)[3]
      OBVIOUS
    <2>2. to \in Idx
      <3>1. (CHOOSE e \in edges : TRUE) \in edges
        BY <1>4
      <3>2. p.kind = "object"
        BY DEF Parsing, Parsers
      <3>3. (CHOOSE e \in edges : TRUE) \in Edges("object")
        BY <1>1, <3>1, <3>2
      <3> QED
        BY <2>1, <3>3, EdgesLead
    <2>3. PICK q, r, s :
              /\ q = PutValue(p, ch) /\ s = [p EXCEPT !.idx = to]
              /\ r = [PutValue(p, ch) EXCEPT !.idx = to, !.count = IF to \in Nested THEN 1 ELSE @]
      OBVIOUS
    <2>4. /\ q \in Parsers /\ q.pos <= n /\ Len(q.value) = Len(p.value) + 1 /\ Len(p.value) \in Nat
      BY <2>3, PutKeeps DEF Parsing
    <2>5. Parsing(r, n)
      <3>1. (IF to \in Nested THEN 1 ELSE q.count) \in Nat
        BY <2>4 DEF Parsers
      <3>2. /\ r \in Parsers /\ r.pos = q.pos /\ r.value = q.value /\ r.idx = to
            /\ r.count = IF to \in Nested THEN 1 ELSE q.count
        BY <2>2, <2>3, <2>4, <3>1 DEF Parsers
      <3> QED
        BY <2>4, <3>2 DEF Parsing
    <2>6. to \notin Content => Parsing(s, n)
      <3>1. s \in Parsers /\ s.pos = p.pos /\ s.idx = to
        BY <2>2, <2>3 DEF Parsing, Parsers
      <3> QED
        BY <3>1 DEF Parsing, Content
    <2>7. Parsing(Failed(p), n)
      BY FailedKeeps
    <2>8. Follow(p, ch) = IF to = "NONE" /\ p.idx \in {"KEY_FRONT", "FRONT"} /\ p.pairs # <<>> THEN Failed(p)
                          ELSE IF p.idx = "STRING" \/ to \in Content THEN r ELSE s
      BY <1>1, <1>4, <2>1, <2>3 DEF Follow
    <2> QED
      BY <2>5, <2>6, <2>7, <2>8
  <1> QED
    BY <1>2, <1>3, <1>4

\* Ordinary
LEMMA OrdinaryKeeps ==
    ASSUME NEW n, NEW p, Parsing(p, n), NEW ch \in Chars
    PROVE  Parsing(Ordinary(p, ch), n)
  <1>1. PICK q, r : q = PutValue(p, ch) /\ r = [PutValue(p, ch) EXCEPT !.idx = "COMMON"]
    OBVIOUS
  <1>2. Parsing(q, n)
    BY <1>1, PutKeeps
  <1>3. r \in Parsers /\ r.pos = q.pos /\ r.idx = "COMMON"
    BY <1>1, <1>2 DEF Parsing, Parsers, Idx
  <1>4. Parsing(r, n)
    BY <1>2, <1>3 DEF Parsing, Nested
  <1> QED
    BY <1>1, <1>2, <1>4, KeepKeeps DEF Ordinary

\* Escape
LEMMA EscapeKeeps ==
    ASSUME NEW txt \in Strings, NEW p, Parsing(p, Len(txt))
    PROVE  Parsing(Escape(p, txt), Len(txt))
  <1>1. PICK n, ch : n = Len(txt) /\ ch = GetEscapeChar(txt[p.pos + 1])
    OBVIOUS
  <1>2. n \in Nat /\ p.pos \in Nat \ {0} /\ p.pos <= n /\ Parsing(p, n)
    BY <1>1 DEF Parsing, Parsers, Strings
  <1>3. Parsing(Failed(p), n) /\ "backslash" \in Chars /\ "newline" \in Chars
    BY <1>2, FailedKeeps DEF Chars, Blank
  <1>4. Parsing(PutValue(p, "backslash"), n)
    BY <1>2, <1>3, PutKeeps
  <1>5. CASE p.pos # n
    <2>1. p.pos + 1 \in 1..n
      BY <1>2, <1>5
    <2>2. ch \in Chars
      BY <1>1, <1>3, <2>1 DEF GetEscapeChar, Strings
    <2>3. PICK q, r : q = Keep(p, ch) /\ r = [q EXCEPT !.pos = @ + 1]
      OBVIOUS
    <2>4. Parsing(q, n) /\ q.pos = p.pos
      BY <1>2, <2>2, <2>3, KeepKeeps
    <2>5. /\ r \in Parsers /\ r.pos = q.pos + 1 /\ r.idx = q.idx /\ r.count = q.count
          /\ r.value = q.value
      <3>1. q \in Parsers /\ q.pos + 1 \in Nat \ {0}
        BY <1>2, <2>4 DEF Parsing
      <3> QED
        BY <2>3, <3>1 DEF Parsers
    <2>6. Parsing(r, n)
      BY <2>1, <2>4, <2>5 DEF Parsing
    <2> QED
      BY <1>1, <1>3, <1>4, <1>5, <2>3, <2>6 DEF Escape
  <1>6. CASE p.pos = n
    BY <1>1, <1>3, <1>4, <1>6 DEF Escape
  <1> QED
    BY <1>5, <1>6

\* SkipComment
LEMMA SkipKeeps ==
    ASSUME NEW txt \in Strings, NEW p, Parsing(p, Len(txt))
    PROVE  Parsing(SkipComment(p, txt), Len(txt))
  <1>1. PICK n, end, J : /\ n = Len(txt) /\ J = {i \in p.pos + 1..n : txt[i] = "newline"}
                         /\ end = IF J # {} THEN Min(J) ELSE 0
    OBVIOUS
  <1>2. n \in Nat /\ p.pos \in Nat \ {0} /\ p.pos <= n /\ J \subseteq Nat
    BY <1>1 DEF Parsing, Parsers, Strings
  <1>3. end = 0 \/ end \in p.pos + 1..n
    <2>1. CASE J # {}
      <3>1. \E x \in J : \A y \in J : x <= y
        BY <1>2, <2>1, LeastNumber
      <3>2. Min(J) \in J
        BY <3>1 DEF Min
      <3> QED
        BY <1>1, <2>1, <3>2
    <2> QED
      BY <1>1, <2>1
  <1>4. PICK q, to : to = (IF end = 0 THEN n ELSE end) /\ q = [p EXCEPT !.pos = to]
    OBVIOUS
  <1>5. to \in Nat \ {0} /\ to <= n
    BY <1>2, <1>3, <1>4
  <1>6. q \in Parsers /\ q.pos = to /\ q.idx = p.idx /\ q.count = p.count /\ q.value = p.value
    BY <1>4, <1>5 DEF Parsing, Parsers
  <1>7. Parsing(q, n)
    BY <1>5, <1>6 DEF Parsing
  <1>8. SkipComment(p, txt) = q
    <2>1. SelectInSubSeq(txt, p.pos + 1, Len(txt), LAMBDA ch : ch = "newline") = end
      BY <1>1 DEF SelectInSubSeq
    <2> QED
      BY <1>1, <1>4, <2>1 DEF SkipComment
  <1> QED
    BY <1>1, <1>7, <1>8

\* A character that is consumed.
LEMMA ConsumeKeeps ==
    ASSUME NEW txt \in Strings, NEW p, Parsing(p, Len(txt))
    PROVE  Parsing(Consume(p, txt), Len(txt))
  <1>1. PICK n, ch : n = Len(txt) /\ ch = txt[p.pos]
    OBVIOUS
  <1>2. ch \in Chars
    BY <1>1 DEF Parsing, Parsers, Strings
  <1>3. /\ Parsing(p, n) /\ Parsing(Escape(p, txt), n) /\ Parsing(SkipComment(p, txt), n)
        /\ Parsing(Follow(p, ch), n) /\ Parsing(Ordinary(p, ch), n)
    BY <1>1, <1>2, EscapeKeeps, SkipKeeps, FollowKeeps, OrdinaryKeeps
  <1>4. Consume(p, txt) \in {p, Escape(p, txt), SkipComment(p, txt), Follow(p, ch), Ordinary(p, ch)}
    BY <1>1 DEF Consume
  <1> QED
    BY <1>1, <1>3, <1>4

\* A pair that is entered.
LEMMA EnterKeeps ==
    ASSUME NEW n, NEW p, Parsing(p, n)
    PROVE  Parsing(Enter(p, JSONItem), n)
  <1>1. Parsing(Failed(p), n)
    BY FailedKeeps
  <1>2. PICK v, q : /\ v = JSONItem[p.value]
                    /\ q = [p EXCEPT !.pairs = Append(@, <<p.key, v>>), !.key = <<>>, !.value = <<>>]
    OBVIOUS
  <1>3. CASE p.idx \in {"KEY_FRONT", "NONE"} /\ p.key # <<>>
    <2>1. <<p.key, v>> \in Pairs
      BY <1>2, <1>3 DEF Parsing, Parsers, Pairs
    <2>2. Append(p.pairs, <<p.key, v>>) \in Seq(Pairs) /\ <<>> \in Strings
      BY <2>1 DEF Parsing, Parsers, Strings
    <2>3. q \in Parsers /\ q.pos = p.pos /\ q.idx = p.idx
      BY <1>2, <2>2 DEF Parsing, Parsers
    <2>4. Parsing(q, n)
      BY <1>3, <2>3 DEF Parsing, Nested
    <2> QED
      BY <1>1, <1>2, <2>4 DEF Enter
  <1>4. CASE ~(p.idx \in {"KEY_FRONT", "NONE"} /\ p.key # <<>>)
    BY <1>4 DEF Enter, Parsing, Parsers
  <1> QED
    BY <1>3, <1>4

\* A turn of the parser's loop.
LEMMA StepKeeps ==
    ASSUME NEW txt \in Strings, NEW p, Parsing(p, Len(txt))
    PROVE  Parsing(Step(p, txt, JSONItem), Len(txt) + 1)
  <1>1. PICK n, c, q : n = Len(txt) /\ c = Consume(p, txt) /\ q = Enter(c, JSONItem)
    OBVIOUS
  <1>2. Parsing(c, n) /\ n \in Nat
    BY <1>1, ConsumeKeeps DEF Strings
  <1>3. Parsing(q, n)
    BY <1>1, <1>2, EnterKeeps
  <1>4. PICK r : r = [q EXCEPT !.pos = @ + 1]
    OBVIOUS
  <1>5. r \in Parsers /\ r.pos = q.pos + 1 /\ r.idx = q.idx /\ r.count = q.count /\ r.value = q.value
    BY <1>3, <1>4 DEF Parsing, Parsers
  <1>6. Parsing(r, n + 1)
    BY <1>2, <1>3, <1>5 DEF Parsing, Parsers
  <1> QED
    BY <1>1, <1>4, <1>6 DEF Step

------------------------------------------------------------------------------
(* JSONObject: the calls *)

\* The order lists the keys of the data, each once.
Agree(o, d) == IsInjective(o) /\ ToSet(o) = DOMAIN d

\* A key that is added.
LEMMA AddAgrees ==
    ASSUME NEW o \in Seq(Strings), NEW d, NEW key \in Strings, NEW value
    PROVE  /\ Ordered(o, d, key) \in Seq(Strings)
           /\ Agree(o, d) => Agree(Ordered(o, d, key), With(d, key, value))
  <1>1. DOMAIN With(d, key, value) = DOMAIN d \cup {key}
    BY DEF With
  <1>2. CASE key \in DOMAIN d
    BY <1>1, <1>2 DEF Ordered, Agree
  <1>3. CASE key \notin DOMAIN d
    <2>1. PICK q, n : q = Append(o, key) /\ n = Len(o)
      OBVIOUS
    <2>2. /\ q \in Seq(Strings) /\ n \in Nat /\ DOMAIN q = 1..n + 1 /\ DOMAIN o = 1..n
          /\ q[n + 1] = key /\ \A i \in 1..n : q[i] = o[i]
      BY <2>1
    <2>3. ASSUME Agree(o, d) PROVE Agree(q, With(d, key, value))
      <3>1. ToSet(q) = ToSet(o) \cup {key}
        BY <2>2 DEF ToSet
      <3>2. \A i \in 1..n : o[i] # key
        BY <1>3, <2>2, <2>3 DEF Agree, ToSet
      <3>3. IsInjective(q)
        <4> SUFFICES ASSUME NEW i \in 1..n + 1, NEW j \in 1..n + 1, q[i] = q[j] PROVE i = j
          BY <2>2 DEF IsInjective
        <4>1. \A k \in 1..n + 1 : k \in 1..n \/ k = n + 1
          BY <2>2
        <4>2. \A k, l \in 1..n : o[k] = o[l] => k = l
          BY <2>2, <2>3 DEF Agree, IsInjective
        <4> QED
          BY <2>2, <3>2, <4>1, <4>2
      <3> QED
        BY <1>1, <2>3, <3>1, <3>3 DEF Agree
    <2> QED
      BY <1>3, <2>1, <2>2, <2>3 DEF Ordered
  <1> QED
    BY <1>2, <1>3

\* A key that is removed.
LEMMA RemoveAgrees ==
    ASSUME NEW o \in Seq(Strings), NEW d, NEW key
    PROVE  /\ RemoveFirst(o, key) \in Seq(Strings)
           /\ Agree(o, d) => Agree(RemoveFirst(o, key), IF Contains(o, key) THEN Without(d, key) ELSE d)
  <1>1. CASE ~Contains(o, key)
    BY <1>1 DEF RemoveFirst, Contains
  <1>2. CASE Contains(o, key)
    <2>1. PICK n, J, i : n = Len(o) /\ J = {k \in 1..Len(o) : o[k] = key} /\ i = Min(J)
      OBVIOUS
    <2>2. n \in Nat /\ DOMAIN o = 1..n /\ J # {} /\ J \subseteq Nat
      BY <1>2, <2>1 DEF Contains
    <2>3. i \in 1..n /\ o[i] = key
      <3>1. \E x \in J : \A y \in J : x <= y
        BY <2>2, LeastNumber
      <3>2. i \in J
        BY <2>1, <3>1 DEF Min
      <3> QED
        BY <2>1, <3>2
    <2>4. PICK q : q = RemoveAt(o, i)
      OBVIOUS
    <2>5. RemoveFirst(o, key) = q
      <3>1. SelectInSeq(o, LAMBDA v : v = key) = i
        BY <2>1, <2>2 DEF SelectInSeq
      <3> QED
        BY <1>2, <2>4, <3>1 DEF RemoveFirst, Contains
    <2>6. /\ q \in Seq(Strings) /\ DOMAIN q = 1..n - 1
          /\ \A j \in 1..n - 1 : q[j] = o[IF j < i THEN j ELSE j + 1]
      <3>1. i \in 1..Len(o)
        BY <2>1, <2>3
      <3>2. /\ RemoveAt(o, i) \in Seq(Strings) /\ Len(RemoveAt(o, i)) = Len(o) - 1
            /\ \A j \in 1..(Len(o) - 1) : RemoveAt(o, i)[j] = o[IF j < i THEN j ELSE j + 1]
        BY <3>1, RemoveAtShifts
      <3>3. q \in Seq(Strings) /\ Len(q) = n - 1
        BY <2>1, <2>4, <3>2
      <3>4. DOMAIN q = 1..Len(q)
        BY <3>3
      <3> QED
        BY <2>1, <2>4, <3>2, <3>3, <3>4
    <2>7. ASSUME Agree(o, d) PROVE Agree(q, Without(d, key))
      <3>1. \A k, l \in 1..n : o[k] = o[l] => k = l
        BY <2>2, <2>7 DEF Agree, IsInjective
      <3>2. PICK at : at = [j \in 1..n - 1 |-> IF j < i THEN j ELSE j + 1]
        OBVIOUS
      <3>3. /\ \A j \in 1..n - 1 : at[j] \in 1..n /\ at[j] # i /\ q[j] = o[at[j]]
            /\ \A j, k \in 1..n - 1 : at[j] = at[k] => j = k
            /\ \A k \in 1..n : k # i => \E j \in 1..n - 1 : at[j] = k
        <4>1. \A j \in 1..n - 1 : at[j] \in 1..n /\ at[j] # i /\ q[j] = o[at[j]]
          BY <2>2, <2>3, <2>6, <3>2
        <4>2. \A j, k \in 1..n - 1 : at[j] = at[k] => j = k
          BY <2>2, <2>3, <3>2
        <4>3. ASSUME NEW k \in 1..n, k # i PROVE \E j \in 1..n - 1 : at[j] = k
          <5>1. CASE k < i
            <6>1. k \in 1..n - 1 /\ at[k] = k
              BY <2>2, <2>3, <3>2, <5>1
            <6> QED
              BY <6>1
          <5>2. CASE ~(k < i)
            <6>1. k - 1 \in 1..n - 1 /\ ~(k - 1 < i)
              BY <2>2, <2>3, <4>3, <5>2
            <6>2. at[k - 1] = k
              BY <3>2, <6>1
            <6> QED
              BY <6>1, <6>2
          <5> QED
            BY <5>1, <5>2
        <4> QED
          BY <4>1, <4>2, <4>3
      <3>4. IsInjective(q)
        BY <2>6, <3>1, <3>3 DEF IsInjective
      <3>5. ToSet(q) = ToSet(o) \ {key}
        <4>1. ASSUME NEW e \in ToSet(q) PROVE e \in ToSet(o) \ {key}
          <5>1. PICK j \in 1..n - 1 : e = q[j]
            BY <2>6 DEF ToSet
          <5>2. PICK k : k = at[j]
            OBVIOUS
          <5>3. k \in 1..n /\ k # i /\ e = o[k]
            BY <3>3, <5>1, <5>2
          <5>4. o[k] # o[i]
            BY <2>3, <3>1, <5>3
          <5> QED
            BY <2>2, <2>3, <5>3, <5>4 DEF ToSet
        <4>2. ASSUME NEW e \in ToSet(o) \ {key} PROVE e \in ToSet(q)
          <5>1. PICK k \in 1..n : o[k] = e
            BY <2>2 DEF ToSet
          <5>2. k # i
            BY <2>3, <5>1
          <5>3. PICK j \in 1..n - 1 : at[j] = k
            BY <3>3, <5>2
          <5> QED
            BY <2>6, <3>3, <5>1, <5>3 DEF ToSet
        <4> QED
          BY <4>1, <4>2
      <3>6. DOMAIN Without(d, key) = DOMAIN d \ {key}
        BY DEF Without
      <3> QED
        BY <2>7, <3>4, <3>5, <3>6 DEF Agree
    <2> QED
      BY <1>2, <2>5, <2>6, <2>7
  <1> QED
    BY <1>1, <1>2

\* An object, and what it is after each of some keys has been added.
Added(o, d, keysOf, from, g, i) ==
    IF i = 0 THEN [order |-> o, data |-> d]
    ELSE LET key == keysOf[i]
             m == g[i - 1]
         IN  [order |-> Ordered(m.order, m.data, key), data |-> With(m.data, key, from[key])]

Adding(o, d, keysOf, from, n, g) == g = [i \in 0..n |-> Added(o, d, keysOf, from, g, i)]

\* It is something after any number of keys.
LEMMA AddingExists ==
    ASSUME NEW o, NEW d, NEW keysOf, NEW from, NEW n \in Nat
    PROVE  \E g : Adding(o, d, keysOf, from, n, g)
  <1> DEFINE T == {k \in Nat : ~\E g : Adding(o, d, keysOf, from, k, g)}
  <1> SUFFICES ASSUME n \in T PROVE FALSE
    OBVIOUS
  <1>1. PICK m \in T : \A k \in T : m <= k
    <2>1. T \subseteq Nat /\ T # {}
      OBVIOUS
    <2> HIDE DEF T
    <2> QED
      BY <2>1, LeastNumber
  <1>2. CASE m = 0
    <2>1. PICK g : g = [i \in 0..0 |-> [order |-> o, data |-> d]]
      OBVIOUS
    <2>2. \A i \in 0..0 : Added(o, d, keysOf, from, g, i) = [order |-> o, data |-> d]
      BY DEF Added
    <2>3. Adding(o, d, keysOf, from, 0, g)
      BY <2>1, <2>2 DEF Adding
    <2> QED
      BY <1>2, <2>3
  <1>3. CASE m # 0
    <2>1. m - 1 \in Nat /\ m - 1 \notin T
      BY <1>1, <1>3
    <2>2. PICK g : Adding(o, d, keysOf, from, m - 1, g)
      BY <2>1
    <2>3. PICK last : last = Added(o, d, keysOf, from, g, m)
      OBVIOUS
    <2>4. PICK more : more = [i \in 0..m |-> IF i = m THEN last ELSE g[i]]
      OBVIOUS
    <2>5. more[m] = last /\ \A i \in 0..m - 1 : more[i] = g[i]
      BY <2>1, <2>4
    <2>6. \A i \in 0..m - 1 : g[i] = Added(o, d, keysOf, from, g, i)
      BY <2>2 DEF Adding
    <2>7. ASSUME NEW i \in 0..m PROVE more[i] = Added(o, d, keysOf, from, more, i)
      <3>1. i = 0 \/ more[i - 1] = g[i - 1]
        BY <2>1, <2>5
      <3>2. Added(o, d, keysOf, from, more, i) = Added(o, d, keysOf, from, g, i)
        BY <3>1 DEF Added
      <3>3. i = m \/ i \in 0..m - 1
        OBVIOUS
      <3> QED
        BY <2>3, <2>5, <2>6, <3>2, <3>3
    <2>8. Adding(o, d, keysOf, from, m, more)
      BY <2>4, <2>7 DEF Adding
    <2> QED
      BY <2>8
  <1> QED
    BY <1>2, <1>3

\* Objects that are merged.
LEMMA MergedAgrees ==
    ASSUME NEW o \in Seq(Strings), NEW d, NEW keysOf \in Seq(Strings), NEW from
    PROVE  /\ Merged(o, d, keysOf, from).order \in Seq(Strings)
           /\ Agree(o, d) => Agree(Merged(o, d, keysOf, from).order, Merged(o, d, keysOf, from).data)
  <1>1. PICK n, g : n = Len(keysOf) /\ g = CHOOSE f : Adding(o, d, keysOf, from, n, f)
    OBVIOUS
  <1>2. n \in Nat
    BY <1>1
  <1>3. Adding(o, d, keysOf, from, n, g)
    BY <1>1, <1>2, AddingExists
  <1>4. Merged(o, d, keysOf, from) = g[n]
    BY <1>1 DEF Merged, Adding, Added
  <1>5. \A i \in 0..n : g[i] = Added(o, d, keysOf, from, g, i)
    BY <1>3 DEF Adding
  <1> DEFINE Fine(m) == m.order \in Seq(Strings) /\ (Agree(o, d) => Agree(m.order, m.data))
             T == {i \in 0..n : ~Fine(g[i])}
  <1>6. T = {}
    <2> SUFFICES ASSUME T # {} PROVE FALSE
      OBVIOUS
    <2>1. PICK i \in T : \A k \in T : i <= k
      <3>1. T \subseteq Nat
        BY <1>2
      <3> HIDE DEF T
      <3> QED
        BY <3>1, LeastNumber
    <2>2. i # 0
      <3>1. 0 \in 0..n /\ Added(o, d, keysOf, from, g, 0) = [order |-> o, data |-> d]
        BY <1>2 DEF Added
      <3>2. g[0] = [order |-> o, data |-> d]
        BY <1>5, <3>1
      <3>3. Fine(g[0])
        BY <3>2
      <3> QED
        BY <3>3
    <2>3. PICK m, key : m = g[i - 1] /\ key = keysOf[i]
      OBVIOUS
    <2>4. i \in 1..n /\ i - 1 \in 0..n /\ i - 1 \notin T
      BY <1>2, <2>1, <2>2
    <2>5. Fine(m) /\ key \in Strings
      BY <1>1, <2>3, <2>4
    <2>6. PICK q, e : q = Ordered(m.order, m.data, key) /\ e = With(m.data, key, from[key])
      OBVIOUS
    <2>7. q \in Seq(Strings) /\ (Agree(m.order, m.data) => Agree(q, e))
      BY <2>5, <2>6, AddAgrees
    <2>8. g[i] = [order |-> q, data |-> e]
      BY <1>5, <2>2, <2>3, <2>4, <2>6 DEF Added
    <2> QED
      BY <2>5, <2>7, <2>8
  <1>7. Fine(g[n])
    BY <1>2, <1>6
  <1> QED
    BY <1>4, <1>7

------------------------------------------------------------------------------
(* JSONObject: every step *)

\* The two members of an object whose text repeated no key agree.
AgreeInv == ~repeated => Agree(order, data)

ObjectInv ==
    /\ text \in Strings /\ Parsing(parser, Len(text) + 1)
    /\ phase \in {"parsing", "parsed", "failed", "used"} /\ calls \in 0..MaxCalls
    /\ order \in Seq(Strings)
    /\ AgreeInv

\* Where the parser starts.
LEMMA NewParses ==
    ASSUME NEW n \in Nat
    PROVE  Parsing(NewParser("object", Comments), n + 1)
  <1>1. PICK p : p = NewParser("object", Comments)
    OBVIOUS
  <1>2. p \in Parsers
    BY <1>1, ObjectAssumption DEF NewParser, Parsers, Idx, Strings
  <1>3. p.pos = 1 /\ p.idx = "NONE"
    BY <1>1 DEF NewParser
  <1> QED
    BY <1>1, <1>2, <1>3 DEF Parsing, Nested

\* An empty object.
LEMMA EmptyAgrees == <<>> \in Seq(Strings) /\ Agree(<<>>, <<>>)
  BY DEF Agree, IsInjective, ToSet

\* The pairs that the parser has entered.
LEMMA PairsAgree ==
    ASSUME NEW pairs \in Seq(Pairs)
    PROVE  /\ OrderOf(pairs) \in Seq(Strings)
           /\ IsInjective(OrderOf(pairs)) => Agree(OrderOf(pairs), DataOf(pairs))
  <1>1. \A i \in 1..Len(pairs) : pairs[i][1] \in Strings
    BY DEF Pairs
  <1>2. OrderOf(pairs) \in Seq(Strings)
    BY <1>1 DEF OrderOf
  <1> QED
    BY <1>2 DEF Agree, DataOf

\* Another object that is merged.
LEMMA OtherAgrees == OrderOf(Other) \in Seq(Strings) /\ Agree(OrderOf(Other), DataOf(Other))
  <1>1. PICK other : other = Other
    OBVIOUS
  <1>2. other \in Seq(Strings \X Strings)
    BY <1>1, ObjectAssumption DEF Strings
  <1>3. Len(other) \in Nat /\ \A i \in 1..Len(other) : other[i][1] \in Strings
    BY <1>2
  <1>4. OrderOf(other) \in Seq(Strings)
    BY <1>3 DEF OrderOf
  <1> QED
    BY <1>1, <1>4, ObjectAssumption DEF Agree, DataOf

\* A call that leaves an order and data that agree if they did.
LEMMA CallKeeps ==
    ASSUME ObjectInv, Call, order' \in Seq(Strings), Agree(order, data) => Agree(order', data')
    PROVE  ObjectInv'
  <1>1. text' = <<>> /\ parser' = NewParser("object", Comments) /\ phase' = "used"
    BY DEF Call
  <1>2. text' \in Strings /\ Parsing(parser', Len(text') + 1)
    <2>1. Len(text') = 0 /\ text' \in Strings
      BY <1>1 DEF Strings
    <2> QED
      BY <1>1, <2>1, NewParses
  <1>3. calls' \in 0..MaxCalls
    BY ObjectAssumption DEF ObjectInv, Call
  <1>4. AgreeInv'
    BY DEF ObjectInv, AgreeInv, Call
  <1> QED
    BY <1>1, <1>2, <1>3, <1>4 DEF ObjectInv

\* The parser and the calls keep the invariant.
LEMMA NextObjectInv == ObjectInv /\ [Next]_vars => ObjectInv'
  <1> SUFFICES ASSUME ObjectInv, [Next]_vars PROVE ObjectInv'
    OBVIOUS
  <1>1. CASE UNCHANGED vars
    BY <1>1 DEF ObjectInv, AgreeInv, vars
  <1>2. CASE ReadChar
    <2>1. /\ parser' = Step(parser, text, JSONItem) /\ phase' \in {"failed", "parsing"}
          /\ parser.pos <= Len(text) /\ text' = text /\ order' = order /\ data' = data
          /\ calls' = calls /\ repeated' = repeated
      BY <1>2 DEF ReadChar
    <2>2. text \in Strings /\ Parsing(parser, Len(text))
      BY <2>1 DEF ObjectInv, Parsing
    <2>3. Parsing(parser', Len(text') + 1)
      BY <2>1, <2>2, StepKeeps
    <2> QED
      BY <2>1, <2>3 DEF ObjectInv, AgreeInv
  <1>3. CASE EndOfText
    <2>1. /\ phase' \in {"parsed", "failed"} /\ text' = text /\ parser' = parser /\ calls' = calls
          /\ \/ /\ order' = OrderOf(parser.pairs) /\ data' = DataOf(parser.pairs)
                /\ repeated' = ~IsInjective(order')
             \/ order' = order /\ data' = data /\ repeated' = repeated
      BY <1>3 DEF EndOfText
    <2>2. parser.pairs \in Seq(Pairs)
      BY DEF ObjectInv, Parsing, Parsers
    <2>3. order' \in Seq(Strings) /\ AgreeInv'
      <3>1. CASE order' = order /\ data' = data /\ repeated' = repeated
        BY <3>1 DEF ObjectInv, AgreeInv
      <3>2. CASE /\ order' = OrderOf(parser.pairs) /\ data' = DataOf(parser.pairs)
                 /\ repeated' = ~IsInjective(order')
        <4>1. order' \in Seq(Strings) /\ (IsInjective(order') => Agree(order', data'))
          BY <2>2, <3>2, PairsAgree
        <4>2. ~repeated' => IsInjective(order')
          BY <3>2, Zenon
        <4> QED
          BY <4>1, <4>2 DEF AgreeInv
      <3> QED
        BY <2>1, <3>1, <3>2, Zenon
    <2> QED
      BY <2>1, <2>3 DEF ObjectInv
  <1>4. CASE \E key \in CallKeys : SubscriptItem(key)
    <2>1. PICK key \in CallKeys : SubscriptItem(key)
      BY <1>4
    <2>2. key \in Strings /\ order \in Seq(Strings)
      BY ObjectAssumption DEF Strings, ObjectInv
    <2>3. /\ Ordered(order, data, key) \in Seq(Strings)
          /\ Agree(order, data) => Agree(Ordered(order, data, key), With(data, key, <<"null">>))
      BY <2>2, AddAgrees
    <2>4. key \in DOMAIN data => Ordered(order, data, key) = order
      BY DEF Ordered
    <2>5. order' \in Seq(Strings) /\ (Agree(order, data) => Agree(order', data'))
      BY <2>1, <2>3, <2>4 DEF SubscriptItem
    <2> QED
      BY <2>1, <2>5, CallKeeps DEF SubscriptItem
  <1>5. CASE \E key \in CallKeys : RemoveItem(key)
    <2>1. PICK key \in CallKeys : RemoveItem(key)
      BY <1>5
    <2>2. order' \in Seq(Strings) /\ (Agree(order, data) => Agree(order', data'))
      BY <2>1, RemoveAgrees DEF RemoveItem, ObjectInv
    <2> QED
      BY <2>1, <2>2, CallKeeps DEF RemoveItem
  <1>6. CASE \E key \in CallKeys, value \in CallValues : AddItem(key, value)
    <2>1. PICK key \in CallKeys, value \in CallValues : AddItem(key, value)
      BY <1>6
    <2>2. key \in Strings /\ order \in Seq(Strings)
      BY ObjectAssumption DEF Strings, ObjectInv
    <2>3. order' \in Seq(Strings) /\ (Agree(order, data) => Agree(order', data'))
      BY <2>1, <2>2, AddAgrees DEF AddItem
    <2> QED
      BY <2>1, <2>3, CallKeeps DEF AddItem
  <1>7. CASE PlusAssign
    <2>1. order' \in Seq(Strings) /\ (Agree(order, data) => Agree(order', data'))
      BY <1>7, OtherAgrees, MergedAgrees DEF PlusAssign, ObjectInv
    <2> QED
      BY <1>7, <2>1, CallKeeps DEF PlusAssign
  <1>8. CASE Plus
    <2>1. order' \in Seq(Strings) /\ (Agree(order, data) => Agree(order', data'))
      BY <1>8, OtherAgrees, MergedAgrees DEF Plus, ObjectInv
    <2> QED
      BY <1>8, <2>1, CallKeeps DEF Plus
  <1>9. CASE ClearItems
    BY <1>9, EmptyAgrees, CallKeeps DEF ClearItems
  <1> QED
    BY <1>1, <1>2, <1>3, <1>4, <1>5, <1>6, <1>7, <1>8, <1>9 DEF Next

\* Whatever the text, and whatever is called then, the order of an object lists
\* the keys of its data, each once, so that printing it finds each; only a text
\* that repeats a key makes an exception. And the parser is in a nested value
\* exactly while a bracket of it is open.
THEOREM OrderAndDataAgree == Spec => []OrderListsData
  <1>1. Init => ObjectInv
    <2> SUFFICES ASSUME Init PROVE ObjectInv
      OBVIOUS
    <2>1. text \in Strings /\ Len(text) \in Nat
      BY ObjectAssumption DEF Init, Strings
    <2>2. Parsing(parser, Len(text) + 1)
      BY <2>1, NewParses DEF Init
    <2>3. order \in Seq(Strings) /\ Agree(order, data)
      BY EmptyAgrees DEF Init
    <2> QED
      BY <2>1, <2>2, <2>3, ObjectAssumption DEF Init, ObjectInv, AgreeInv
  <1>2. ObjectInv => OrderListsData
    <2> SUFFICES ASSUME ObjectInv PROVE OrderListsData
      OBVIOUS
    <2>1. parser \in Parsers /\ parser.pos \in 1..(Len(text) + 1)
      BY DEF ObjectInv, Parsing, Parsers, Strings
    <2>2. <<>> \notin ToSet(OrderOf(parser.pairs))
      <3>1. parser.pairs \in Seq(Pairs)
        BY <2>1 DEF Parsers
      <3>2. \A i \in 1..Len(parser.pairs) : parser.pairs[i][1] # <<>>
        BY <3>1 DEF Pairs
      <3> QED
        BY <3>2 DEF ToSet, OrderOf
    <2>3. TypeOK
      BY <2>1, <2>2 DEF TypeOK, ObjectInv, Parsing, Parsers
    <2> QED
      BY <2>3 DEF OrderListsData, ObjectInv, AgreeInv, Agree
  <1> QED
    BY <1>1, <1>2, NextObjectInv, PTL DEF Spec
==============================================================================
