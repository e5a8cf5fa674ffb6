-------------------------- MODULE InsertionSortProofs --------------------------
(***************************************************************************)
(* The sorting loop is correct for arrays of every length and all contents *)
(* (partial correctness; that it ends is left to TLC).                     *)
(***************************************************************************)
EXTENDS InsertionSort, BooksProofs

LEMMA LoopInit == Init => LoopInvariant
<1> SUFFICES ASSUME Init PROVE LoopInvariant
  OBVIOUS
<1>1. /\ input \in Seq(Book) /\ a = input /\ Len(input) \in Nat /\ DOMAIN input = 1 .. Len(input)
  BY InputsAssumption, LenProperties DEF Init
<1> QED
  BY <1>1 DEF Init, LoopInvariant, LoopTypes, Permuted, PrefixSorted, Whole, WholeFrom, Gap, IsGap,
              Frontier

LEMMA LoopStep == LoopInvariant /\ [Next]_vars => LoopInvariant'
<1> SUFFICES ASSUME LoopInvariant, [Next]_vars PROVE LoopInvariant'
  OBVIOUS
<1> USE DEF Gap, IsGap, Frontier
<1>0. /\ LoopTypes /\ Permuted /\ PrefixSorted
      /\ Len(a) \in Nat /\ DOMAIN a = 1 .. Len(a) /\ \A k \in 1 .. Len(a) : a[k] \in Book
  BY LenProperties, ElementOfSeq DEF LoopInvariant, LoopTypes
<1>1. CASE TakeKey
  <2>1. /\ pc = "outer" /\ i \in 2 .. Len(a) /\ key' = a[i] /\ j' = i - 1 /\ pc' = "inner"
        /\ UNCHANGED <<order, input, a, i, from>>
    BY <1>0, <1>1 DEF TakeKey, LoopTypes
  <2>2. LoopTypes'
    BY <1>0, <2>1 DEF LoopTypes
  <2>3. \A k \in 1 .. Len(a) : Whole'[k] = a[k] /\ WholeFrom'[k] = from[k]
    <3>1. from[i] = i /\ from \in [1 .. Len(a) -> 1 .. Len(a)]
      BY <1>0, <2>1 DEF LoopTypes, Permuted, WholeFrom
    <3>2. j' + 1 = i
      BY <2>1
    <3>3. Whole' = [a EXCEPT ![i] = a[i]] /\ WholeFrom' = [from EXCEPT ![i] = i]
      BY <2>1, <3>2 DEF Whole, WholeFrom
    <3> QED
      BY <1>0, <2>1, <3>1, <3>3
  <2>4. Permuted'
    BY <1>0, <2>1, <2>3 DEF Permuted, Whole, WholeFrom, LoopTypes
  <2>5. PrefixSorted'
    BY <1>0, <2>1 DEF PrefixSorted, Before
  <2> QED
    BY <2>2, <2>4, <2>5 DEF LoopInvariant
<1>2. CASE ShiftRight
  <2>1. /\ pc = "inner" /\ i \in 2 .. Len(a) /\ j \in 1 .. i - 1 /\ Precedes(order, key, a[j])
        /\ a' = [a EXCEPT ![j + 1] = a[j]] /\ from' = [from EXCEPT ![j + 1] = from[j]]
        /\ j' = j - 1 /\ key \in Book
        /\ UNCHANGED <<order, input, i, key, pc>>
    BY <1>0, <1>2 DEF ShiftRight, Previous, MustShift, LoopTypes
  <2>2. /\ a' \in Seq(Book) /\ Len(a') = Len(a)
        /\ \A k \in 1 .. Len(a) : a'[k] = IF k = j + 1 THEN a[j] ELSE a[k]
    BY <1>0, <2>1, ExceptSeq DEF LoopTypes
  <2>3. /\ from' \in [1 .. Len(a) -> 1 .. Len(a)]
        /\ \A k \in 1 .. Len(a) : from'[k] = IF k = j + 1 THEN from[j] ELSE from[k]
    BY <1>0, <2>1 DEF LoopTypes
  <2>4. LoopTypes'
    BY <1>0, <2>1, <2>2, <2>3 DEF LoopTypes
  \* In the array with the key put in, the key and a[j] change places.
  <2>5. \A k \in 1 .. Len(a) :
          /\ Whole'[k] = IF k = j THEN key ELSE IF k = j + 1 THEN a[j] ELSE a[k]
          /\ WholeFrom'[k] = IF k = j THEN i ELSE IF k = j + 1 THEN from[j] ELSE from[k]
          /\ Whole[k] = IF k = j + 1 THEN key ELSE a[k]
          /\ WholeFrom[k] = IF k = j + 1 THEN i ELSE from[k]
    BY <1>0, <2>1, <2>2, <2>3 DEF Whole, WholeFrom, LoopTypes
  <2>6. Permuted'
    BY <1>0, <2>1, <2>2, <2>5 DEF Permuted
  <2>7. PrefixSorted'
    <3> SUFFICES ASSUME NEW l \in 1 .. Len(a), l <= i
                 PROVE  /\ \A k \in 1 .. l - 1 : Before(k, l)' \/ k = j \/ l = j
                        /\ j < l => Precedes(order, key, a'[l])
      BY <2>1, <2>2 DEF PrefixSorted
    <3>1. j < l => Precedes(order, key, a'[l])
      BY <1>0, <2>1, <2>2 DEF PrefixSorted
    <3>2. ASSUME NEW k \in 1 .. l - 1, k # j, l # j
          PROVE  Before(k, l)'
      <4>1. CASE k # j + 1 /\ l # j + 1
        BY <1>0, <2>1, <2>2, <2>3, <3>2, <4>1 DEF PrefixSorted, Before
      <4>2. CASE k = j + 1
        BY <1>0, <2>1, <2>2, <2>3, <3>2, <4>2 DEF PrefixSorted, Before
      <4>3. CASE l = j + 1
        BY <1>0, <2>1, <2>2, <2>3, <3>2, <4>3 DEF PrefixSorted, Before
      <4> QED
        BY <4>1, <4>2, <4>3
    <3> QED
      BY <3>1, <3>2
  <2> QED
    BY <2>4, <2>6, <2>7 DEF LoopInvariant
<1>3. CASE PlaceKey
  <2>1. /\ pc = "inner" /\ i \in 2 .. Len(a) /\ j \in 0 .. i - 1 /\ key \in Book
        /\ j >= 1 => ~Precedes(order, key, a[j])
        /\ a' = [a EXCEPT ![j + 1] = key] /\ from' = [from EXCEPT ![j + 1] = i]
        /\ i' = i + 1 /\ pc' = "outer" /\ order' = order /\ input' = input
    BY <1>0, <1>3 DEF PlaceKey, MustShift, LoopTypes
  <2>2. /\ a' \in Seq(Book) /\ Len(a') = Len(a)
        /\ \A k \in 1 .. Len(a) : a'[k] = IF k = j + 1 THEN key ELSE a[k]
    BY <1>0, <2>1, ExceptSeq DEF LoopTypes
  <2>3. /\ from' \in [1 .. Len(a) -> 1 .. Len(a)]
        /\ \A k \in 1 .. Len(a) : from'[k] = IF k = j + 1 THEN i ELSE from[k]
    BY <1>0, <2>1 DEF LoopTypes
  <2>4. LoopTypes'
    BY <1>0, <2>1, <2>2, <2>3 DEF LoopTypes
  <2>5. /\ Whole = a' /\ WholeFrom = from'
        /\ Whole' = a' /\ WholeFrom' = from'
    BY <2>1 DEF Whole, WholeFrom
  <2>6. Permuted'
    BY <1>0, <2>1, <2>2, <2>5 DEF Permuted
  <2>7. ASSUME NEW l \in 1 .. Len(a), l <= i, NEW k \in 1 .. l - 1
        PROVE  Before(k, l)'
    <3>1. CASE k # j + 1 /\ l # j + 1
      BY <1>0, <2>1, <2>2, <2>3, <2>7, <3>1 DEF PrefixSorted, Before
    <3>2. CASE k = j + 1
      BY <1>0, <2>1, <2>2, <2>3, <2>7, <3>2 DEF PrefixSorted, Before
    \* The books before the gap stay before the key: none follows a[j], and
    \* all of them were before it in the input.
    <3>3. CASE l = j + 1
      <4>1. /\ j \in 1 .. Len(a) /\ j < i /\ k \in 1 .. Len(a) /\ k <= j
            /\ a[j] \in Book /\ a[k] \in Book /\ order \in Orders
            /\ ~Precedes(order, key, a[j])
        BY <1>0, <2>1, <2>7, <3>3 DEF LoopTypes
      <4>2. from'[k] < i
        <5>1. /\ WholeFrom[k] <= i
              /\ WholeFrom[k] = WholeFrom[j + 1] => k = j + 1
          BY <1>0, <2>1, <2>7, <3>3, <4>1 DEF Permuted
        <5> QED
          BY <2>1, <2>3, <2>5, <2>7, <3>3, <4>1, <5>1
      <4>3. ~Precedes(order, a[j], a[k])
        <5>1. CASE k = j
          BY <4>1, <5>1, PrecedesOrder
        <5>2. CASE k < j
          <6>1. Before(k, j)
            BY <1>0, <2>1, <4>1, <5>2 DEF PrefixSorted
          <6> QED
            BY <4>1, <6>1, PrecedesOrder DEF Before
        <5> QED
          BY <4>1, <5>1, <5>2
      <4>4. ~Precedes(order, key, a[k])
        BY <2>1, <4>1, <4>3, PrecedesOrder
      <4> QED
        BY <2>1, <2>2, <2>3, <2>7, <3>3, <4>1, <4>2, <4>4 DEF Before
    <3> QED
      BY <3>1, <3>2, <3>3
  <2>8. PrefixSorted'
    BY <1>0, <2>1, <2>2, <2>7 DEF PrefixSorted
  <2> QED
    BY <2>4, <2>6, <2>8 DEF LoopInvariant
<1>4. CASE Return \/ Returned \/ UNCHANGED vars
  <2>1. /\ UNCHANGED <<order, input, a, i, j, key, from>>
        /\ pc' = pc \/ (pc = "outer" /\ pc' = "done" /\ i > Len(a))
    BY <1>4 DEF Return, Returned, vars
  <2>2. Whole' = Whole /\ WholeFrom' = WholeFrom /\ Gap' = Gap
    BY <2>1 DEF Whole, WholeFrom
  <2>3. LoopTypes'
    BY <1>0, <2>1 DEF LoopTypes
  <2>4. Permuted' /\ PrefixSorted'
    BY <1>0, <2>1, <2>2 DEF Permuted, PrefixSorted, Before
  <2> QED
    BY <2>3, <2>4 DEF LoopInvariant
<1> QED
  BY <1>1, <1>2, <1>3, <1>4 DEF Next, Step

LEMMA DoneIsSorted == LoopInvariant => SortsStably
<1> SUFFICES ASSUME LoopInvariant, pc = "done" PROVE a \in SortedBy(order, input)
  BY DEF SortsStably
<1> DEFINE n == Len(input)
<1>1. /\ n \in Nat /\ DOMAIN input = 1 .. n /\ DOMAIN a = 1 .. n /\ Len(a) = n
      /\ i > n /\ i \in Nat
      /\ from \in [1 .. n -> 1 .. n]
  BY LenProperties DEF LoopInvariant, LoopTypes
<1>2. /\ \A k \in 1 .. n : a[k] = input[from[k]]
      /\ \A k, l \in 1 .. n : from[k] = from[l] => k = l
  BY <1>1 DEF LoopInvariant, Permuted, Whole, WholeFrom, Gap
<1>3. \A k, l \in 1 .. n : k < l => Before(k, l)
  BY <1>1 DEF LoopInvariant, PrefixSorted, Gap, IsGap, Frontier
<1>4. from \in Bijection(1 .. n, 1 .. n)
  <2>1. from \in Injection(1 .. n, 1 .. n)
    BY <1>1, <1>2 DEF Injection, IsInjective
  <2>2. IsFiniteSet(1 .. n)
    BY <1>1, FS_Interval
  <2>3. from \in Surjection(1 .. n, 1 .. n)
    BY <2>1, <2>2, FS_Injection
  <2> QED
    BY <2>1, <2>3 DEF Bijection
<1>5. a = [k \in 1 .. n |-> input[from[k]]]
  <2>1. a = [k \in 1 .. n |-> a[k]]
    BY <1>1 DEF LoopInvariant, LoopTypes
  <2> QED
    BY <1>2, <2>1
<1>6. Arranges(from, order, input)
  BY <1>1, <1>2, <1>3 DEF Arranges, Before
<1> QED
  BY <1>1, <1>4, <1>5, <1>6 DEF SortedBy

\* For every array and each of the three orders, what the loop returns is the
\* stable rearrangement of the array it was given.
THEOREM InsertionSortCorrect == Spec => []SortsStably
<1>1. Spec => []LoopInvariant
  BY LoopInit, LoopStep, PTL DEF Spec
<1> QED
  BY <1>1, DoneIsSorted, PTL
===============================================================================
