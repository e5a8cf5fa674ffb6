----------------------------- MODULE InsertionSort -----------------------------
(***************************************************************************)
(* The sorting loop of sorting.c, one action per iteration of its two      *)
(* loops, on arrays of books in one of the three orders. Indices are those *)
(* of TLA+ sequences: the code's i and j are one less.                     *)
(***************************************************************************)
EXTENDS Books

CONSTANT Inputs   \* the arrays that are sorted

ASSUME InputsAssumption == Inputs \subseteq Seq(Book)

VARIABLES
  order,   \* which of the three comparisons the caller chose
  input,   \* history: the array before the call
  a, i, j, key,
  pc,      \* at the head of the outer loop, of the inner loop, or done
  from     \* history: where in input each element of a was

vars == <<order, input, a, i, j, key, pc, from>>

Init ==
  /\ order \in Orders /\ input \in Inputs
  /\ a = input /\ i = 2 /\ j = 0
  /\ key = <<>>   \* a local of the loop body: no book yet
  /\ pc = "outer"
  /\ from = [k \in DOMAIN input |-> k]

FaultyMustShift == j >= 1 /\ ~Precedes(order, a[j], key)
\* The test of the inner loop: cmp(&a[j], &key) > 0.
MustShift == j >= 1 /\ Precedes(order, key, a[j])

\* One book to the left: --j.
Previous == j - 1

TakeKey ==
  /\ pc = "outer" /\ i <= Len(a)
  /\ key' = a[i] /\ j' = i - 1 /\ pc' = "inner"
  /\ UNCHANGED <<order, input, a, i, from>>

ShiftRight ==
  /\ pc = "inner" /\ MustShift
  /\ a' = [a EXCEPT ![j + 1] = a[j]]
  /\ from' = [from EXCEPT ![j + 1] = from[j]]
  /\ j' = Previous
  /\ UNCHANGED <<order, input, i, key, pc>>

PlaceKey ==
  /\ pc = "inner" /\ ~MustShift
  /\ a' = [a EXCEPT ![j + 1] = key]
  /\ from' = [from EXCEPT ![j + 1] = i]
  /\ i' = i + 1 /\ pc' = "outer"
  /\ UNCHANGED <<order, input, j, key>>

Return ==
  /\ pc = "outer" /\ i > Len(a)
  /\ pc' = "done"
  /\ UNCHANGED <<order, input, a, i, j, key, from>>

Returned == pc = "done" /\ UNCHANGED vars

Step == TakeKey \/ ShiftRight \/ PlaceKey \/ Return
Next == Step \/ Returned

Spec == Init /\ [][Next]_vars

-------------------------------------------------------------------------------
\* The loop returns the stable rearrangement of its input: every book once,
\* in order, and books the comparison cannot tell apart in their old order.
SortsStably == pc = "done" => a \in SortedBy(order, input)

(***************************************************************************)
(* The array with the key put into the gap of the inner loop is always a   *)
(* permutation of the input; what is left of i is in order except for the  *)
(* key, which precedes everything between the gap and i.                   *)
(***************************************************************************)
Gap == pc = "inner"
Whole == IF Gap THEN [a EXCEPT ![j + 1] = key] ELSE a
WholeFrom == IF Gap THEN [from EXCEPT ![j + 1] = i] ELSE from

Before(k, l) ==
  \/ Precedes(order, a[k], a[l])
  \/ ~Precedes(order, a[l], a[k]) /\ from[k] < from[l]

LoopTypes ==
  /\ order \in Orders /\ input \in Seq(Book) /\ a \in Seq(Book) /\ Len(a) = Len(input)
  /\ pc \in {"outer", "inner", "done"}
  /\ i \in Nat /\ i >= 2 /\ (i <= Len(a) + 1 \/ i = 2)
  /\ from \in [1 .. Len(a) -> 1 .. Len(a)]
  /\ Gap => key \in Book /\ i <= Len(a) /\ j \in 0 .. i - 1
  /\ pc = "done" => i > Len(a)

\* The last index the loop has rearranged.
Frontier == IF Gap THEN i ELSE i - 1

Permuted ==
  \A k \in 1 .. Len(a) :
    /\ Whole[k] = input[WholeFrom[k]]
    /\ IF k <= Frontier THEN WholeFrom[k] <= Frontier ELSE WholeFrom[k] = k
    /\ \A l \in 1 .. Len(a) : WholeFrom[k] = WholeFrom[l] => k = l

IsGap(k) == Gap /\ k = j + 1

PrefixSorted ==
  \A l \in 1 .. Len(a) : l <= Frontier =>
    /\ \A k \in 1 .. l - 1 : Before(k, l) \/ IsGap(k) \/ IsGap(l)
    /\ Gap /\ j + 1 < l => Precedes(order, key, a[l])

LoopInvariant == LoopTypes /\ Permuted /\ PrefixSorted
===============================================================================
