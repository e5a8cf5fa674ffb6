------------------------------ MODULE TextProofs ------------------------------
(***************************************************************************)
(* Theorems about text, for texts of every length: the dialogue with its   *)
(* lines (Session), the comparison and the search that ignore case         *)
(* (CaseText), the text file of an inventory (TextFile) and its migration  *)
(* (Migrate).                                                              *)
(***************************************************************************)
EXTENDS Session, CaseText, Migrate,
        FiniteSetTheorems, SequenceTheorems, WellFoundedInduction, TLAPS

-------------------------------------------------------------------------------
\* Every set of numbers that is not empty has a least one; so whatever holds of
\* 0 and of the successor of each number it holds of, holds of all.
LEMMA LeastNumber ==
  ASSUME NEW U \in SUBSET Nat, U # {}
  PROVE  Min(U) \in U /\ \A m \in U : Min(U) <= m
<1> DEFINE R == {p \in Nat \X Nat : p[1] < p[2]}
<1>1. OpToRel(<, Nat) = R
  BY Zenon DEF OpToRel
<1>2. \A m, n \in Nat : m < n => <<m, n>> \in R
  OBVIOUS
<1> HIDE DEF R
<1>3. PICK n \in U : \A m \in U : <<m, n>> \notin R
  BY <1>1, NatLessThanWellFounded, WFMin
<1>4. \A m \in U : ~(m < n)
  BY <1>2, <1>3, Zenon
<1>5. \E x \in U : \A y \in U : x <= y
  BY <1>4
<1> QED
  BY <1>5, Zenon DEF Min

\* A set of numbers up to a bound has a greatest one.
LEMMA GreatestNumber ==
  ASSUME NEW n \in Nat, NEW U \in SUBSET (1 .. n), U # {}
  PROVE  Max(U) \in U /\ \A m \in U : m <= Max(U)
<1> DEFINE V == {n - m : m \in U}
<1>1. V \in SUBSET Nat /\ V # {}
  <2>1. \A m \in U : n - m \in Nat
    OBVIOUS
  <2> QED
    BY <2>1
<1>2. Min(V) \in V /\ \A v \in V : Min(V) <= v
  BY <1>1, LeastNumber
<1>3. PICK m \in U : Min(V) = n - m
  BY <1>2
<1>4. \A u \in U : n - m <= n - u
  BY <1>2, <1>3
<1>5. \A u \in U : u <= m
  BY <1>4
<1>6. \E x \in U : \A y \in U : x >= y
  BY <1>5
<1>7. Max(U) \in U /\ \A y \in U : Max(U) >= y
  BY <1>6, Zenon DEF Max
<1> QED
  BY <1>7

\* Texts may be joined in either order. The equation is kept under a name, so that
\* it can be cited beside others of its kind.
JoinsEitherWay(x, y, z) == (x \o y) \o z = x \o (y \o z)

LEMMA JoinEitherWay ==
  ASSUME NEW S, NEW x \in Seq(S), NEW y \in Seq(S), NEW z \in Seq(S)
  PROVE  JoinsEitherWay(x, y, z)
BY ConcatAssociative DEF JoinsEitherWay

\* A set of numbers that holds 0, and the successor of each of its numbers, holds
\* every number.
LEMMA Induction ==
  ASSUME NEW U \in SUBSET Nat, 0 \in U, \A n \in U : n + 1 \in U
  PROVE  U = Nat
<1> SUFFICES ASSUME Nat \ U # {} PROVE FALSE
  OBVIOUS
<1>1. Min(Nat \ U) \in Nat \ U /\ \A m \in Nat \ U : Min(Nat \ U) <= m
  BY LeastNumber
<1> DEFINE n == Min(Nat \ U)
<1>2. n \in Nat /\ n # 0 /\ n \notin U
  BY <1>1
<1>3. n - 1 \in Nat /\ n - 1 \in U
  BY <1>1, <1>2
<1> QED
  BY <1>2, <1>3

\* The recursion of FlattenSeq.
IsFlat(f, s) == f = [i \in 1 .. Len(s) |-> IF i = 1 THEN s[i] ELSE f[i - 1] \o s[i]]

\* The recursion of FlattenSeq has a solution, by induction on how much of the
\* sequence is flattened,
LEMMA FlatExists ==
  ASSUME NEW S, NEW s \in Seq(Seq(S))
  PROVE  \E f \in [1 .. Len(s) -> Seq(S)] : IsFlat(f, s)
<1> DEFINE N == Len(s)
           Flat(f, n) == /\ f \in [1 .. n -> Seq(S)]
                         /\ \A i \in 1 .. n : f[i] = IF i = 1 THEN s[i] ELSE f[i - 1] \o s[i]
           U == {n \in Nat : n <= N => \E f : Flat(f, n)}
<1>0. N \in Nat /\ \A i \in 1 .. N : s[i] \in Seq(S)
  BY LenProperties, ElementOfSeq
<1> HIDE DEF N
<1>1. 0 \in U
  <2>1. Flat(<<>>, 0)
    OBVIOUS
  <2> QED
    BY <2>1
<1>2. ASSUME NEW n \in U PROVE n + 1 \in U
  <2> HIDE DEF Flat
  <2>0. n \in Nat /\ n + 1 \in Nat /\ (n <= N => \E f : Flat(f, n))
    OBVIOUS
  <2> SUFFICES ASSUME n + 1 <= N PROVE \E f : Flat(f, n + 1)
    BY <2>0
  <2> USE DEF Flat
  <2>1. PICK f : Flat(f, n)
    BY <1>0, <2>0
  <2> DEFINE x == IF n = 0 THEN s[n + 1] ELSE f[n] \o s[n + 1]
             g == [i \in 1 .. n + 1 |-> IF i = n + 1 THEN x ELSE f[i]]
  <2>2. x \in Seq(S)
    <3>1. s[n + 1] \in Seq(S)
      BY <1>0, <2>0
    <3>2. n # 0 => f[n] \in Seq(S)
      BY <2>0, <2>1
    <3> DEFINE y == s[n + 1]
               z == f[n]
    <3> HIDE DEF y, z
    <3>3. n # 0 => z \o y \in Seq(S)
      BY <3>1, <3>2 DEF y, z
    <3> QED
      BY <3>1, <3>3 DEF y, z
  <2> HIDE DEF x
  <2>3. g \in [1 .. n + 1 -> Seq(S)]
    BY <2>0, <2>1, <2>2
  <2>4. ASSUME NEW i \in 1 .. n + 1
        PROVE  g[i] = IF i = 1 THEN s[i] ELSE g[i - 1] \o s[i]
    <3>1. CASE i = n + 1
      <4>1. g[i] = x /\ (i # 1 => g[i - 1] = f[n] /\ n # 0)
        BY <2>0, <3>1
      <4> QED
        BY <2>0, <3>1, <4>1 DEF x
    <3>2. CASE i # n + 1
      <4>1. i \in 1 .. n /\ g[i] = f[i] /\ (i # 1 => g[i - 1] = f[i - 1])
        BY <2>0, <3>2
      <4> QED
        BY <2>1, <4>1
    <3> QED
      BY <3>1, <3>2
  <2>5. Flat(g, n + 1)
    BY <2>3, <2>4
  <2> QED
    BY <2>5
<1>3. U = Nat
  <2> HIDE DEF Flat
  <2>1. U \in SUBSET Nat
    OBVIOUS
  <2> HIDE DEF U
  <2> QED
    BY <1>1, <1>2, <2>1, Induction
<1>4. PICK f : Flat(f, N)
  <2>1. \A n \in U : n <= N => \E f : Flat(f, n)
    OBVIOUS
  <2> HIDE DEF Flat, U
  <2> QED
    BY <1>0, <1>3, <2>1
<1>5. f \in [1 .. N -> Seq(S)] /\ f = [i \in 1 .. N |-> IF i = 1 THEN s[i] ELSE f[i - 1] \o s[i]]
  BY <1>4
<1> QED
  BY <1>5 DEF IsFlat, N

\* and only one, so that FlattenSeq is its last value.
LEMMA FlatUnique ==
  ASSUME NEW s, Len(s) \in Nat, NEW f, NEW g, IsFlat(f, s), IsFlat(g, s)
  PROVE  f = g
<1> DEFINE N == Len(s)
           U == {n \in Nat : n \in 1 .. N => f[n] = g[n]}
<1>1. 0 \in U
  OBVIOUS
<1>2. ASSUME NEW n \in U PROVE n + 1 \in U
  <2> SUFFICES ASSUME n + 1 \in 1 .. N PROVE f[n + 1] = g[n + 1]
    OBVIOUS
  <2>1. n = 0 \/ f[n] = g[n]
    OBVIOUS
  <2>2. /\ f[n + 1] = IF n + 1 = 1 THEN s[n + 1] ELSE f[(n + 1) - 1] \o s[n + 1]
        /\ g[n + 1] = IF n + 1 = 1 THEN s[n + 1] ELSE g[(n + 1) - 1] \o s[n + 1]
    BY DEF IsFlat
  <2>3. n \in Nat /\ (n + 1) - 1 = n /\ (n = 0 => n + 1 = 1)
    OBVIOUS
  <2> QED
    BY <2>1, <2>2, <2>3
<1>3. U = Nat
  <2>1. U \in SUBSET Nat
    OBVIOUS
  <2> HIDE DEF U
  <2> QED
    BY <1>1, <1>2, <2>1, Induction
<1>4. \A n \in 1 .. N : f[n] = g[n]
  BY <1>3
<1> QED
  BY <1>4 DEF IsFlat

\* FlattenSeq gives the last of the partial results.
LEMMA FlattenFrom ==
  ASSUME NEW s, Len(s) \in Nat \ {0}, NEW f, IsFlat(f, s)
  PROVE  FlattenSeq(s) = f[Len(s)]
<1> DEFINE F == CHOOSE g : g = [i \in 1 .. Len(s) |-> IF i = 1 THEN s[i] ELSE g[i - 1] \o s[i]]
<1>1. FlattenSeq(s) = F[Len(s)]
  BY DEF FlattenSeq
<1>2. f = [i \in 1 .. Len(s) |-> IF i = 1 THEN s[i] ELSE f[i - 1] \o s[i]]
  BY DEF IsFlat
<1>3. F = [i \in 1 .. Len(s) |-> IF i = 1 THEN s[i] ELSE F[i - 1] \o s[i]]
  BY <1>2
<1> HIDE DEF F
<1>4. IsFlat(F, s)
  BY <1>3 DEF IsFlat
<1>5. F = f
  BY <1>4, FlatUnique
<1> QED
  BY <1>1, <1>5

\* Nothing is flattened to nothing.
LEMMA FlattenEmpty ==
  ASSUME NEW s, Len(s) = 0 PROVE FlattenSeq(s) = s
BY DEF FlattenSeq

\* What the flattened sequences are made of the result is made of.
LEMMA FlattenType ==
  ASSUME NEW S, NEW s \in Seq(Seq(S))
  PROVE  FlattenSeq(s) \in Seq(S)
<1>0. Len(s) \in Nat
  BY LenProperties
<1>1. CASE Len(s) = 0
  <2>1. s = <<>>
    BY <1>1, EmptySeq
  <2>2. FlattenSeq(s) = s
    BY <1>1, FlattenEmpty, Zenon
  <2>3. <<>> \in Seq(S)
    BY EmptySeq, Zenon
  <2> QED
    BY <2>1, <2>2, <2>3, Zenon
<1>2. CASE Len(s) # 0
  <2>1. PICK f \in [1 .. Len(s) -> Seq(S)] : IsFlat(f, s)
    BY FlatExists
  <2>2. Len(s) \in Nat \ {0} /\ Len(s) \in 1 .. Len(s)
    BY <1>0, <1>2
  <2>3. FlattenSeq(s) = f[Len(s)]
    BY <2>1, <2>2, FlattenFrom, Zenon
  <2>4. f[Len(s)] \in Seq(S)
    BY <2>2, Zenon
  <2> QED
    BY <2>3, <2>4, Zenon
<1> QED
  BY <1>1, <1>2

\* A single sequence is its own flattening.
LEMMA FlattenOne ==
  ASSUME NEW s, Len(s) = 1
  PROVE  FlattenSeq(s) = s[1]
<1> DEFINE f == [i \in 1 .. 1 |-> s[i]]
<1>1. IsFlat(f, s)
  BY DEF IsFlat
<1> QED
  BY <1>1, FlattenFrom

\* One more sequence at the end.
LEMMA FlattenAppend ==
  ASSUME NEW S, NEW s \in Seq(Seq(S)), NEW x \in Seq(S)
  PROVE  FlattenSeq(Append(s, x)) = FlattenSeq(s) \o x
<1> DEFINE n == Len(s)
           r == Append(s, x)
<1>0. /\ n \in Nat /\ Len(r) = n + 1 /\ r \in Seq(Seq(S)) /\ r[n + 1] = x
      /\ \A i \in 1 .. n : r[i] = s[i]
  BY AppendProperties, LenProperties
<1> HIDE DEF r
<1>1. CASE n = 0
  <2>1. FlattenSeq(s) = <<>>
    BY <1>1, FlattenEmpty, EmptySeq
  <2>2. FlattenSeq(r) = x
    BY <1>0, <1>1, FlattenOne
  <2>3. <<>> \o x = x
    BY ConcatEmptySeq
  <2> QED
    BY <2>1, <2>2, <2>3, Zenon DEF r
<1>2. CASE n # 0
  <2>0. n \in Nat \ {0} /\ n + 1 \in Nat \ {0} /\ n \in 1 .. n + 1 /\ n + 1 \in 1 .. n + 1
        /\ n + 1 # 1 /\ (n + 1) - 1 = n
    BY <1>0, <1>2
  <2>1. PICK f \in [1 .. n + 1 -> Seq(S)] : IsFlat(f, r)
    BY <1>0, FlatExists, Zenon
  <2>2. FlattenSeq(r) = f[n + 1]
    BY <1>0, <2>0, <2>1, FlattenFrom, Zenon
  <2>3. f = [i \in 1 .. n + 1 |-> IF i = 1 THEN r[i] ELSE f[i - 1] \o r[i]]
    BY <1>0, <2>1, Zenon DEF IsFlat
  <2>4. f[n + 1] = f[(n + 1) - 1] \o r[n + 1]
    BY <2>0, <2>3, Zenon
  <2>5. f[n + 1] = f[n] \o x
    BY <1>0, <2>0, <2>4, Zenon
  <2> DEFINE g == [i \in 1 .. n |-> f[i]]
  <2>6. g = [i \in 1 .. n |-> IF i = 1 THEN s[i] ELSE g[i - 1] \o s[i]]
    <3> SUFFICES ASSUME NEW i \in 1 .. n
                 PROVE  f[i] = IF i = 1 THEN s[i] ELSE g[i - 1] \o s[i]
      BY Zenon
    <3>1. i \in 1 .. n + 1 /\ (i # 1 => i - 1 \in 1 .. n)
      BY <2>0
    <3>2. f[i] = IF i = 1 THEN r[i] ELSE f[i - 1] \o r[i]
      BY <2>3, <3>1, Zenon
    <3>3. r[i] = s[i]
      BY <1>0, Zenon
    <3>4. i # 1 => g[i - 1] = f[i - 1]
      BY <3>1, Zenon
    <3> QED
      BY <3>2, <3>3, <3>4, Zenon
  <2>7. IsFlat(g, s)
    BY <2>6, Zenon DEF IsFlat
  <2>8. n \in 1 .. n
    BY <2>0
  <2>9. FlattenSeq(s) = f[n]
    <3>1. g[n] = f[n]
      BY <2>8, Zenon
    <3> HIDE DEF g
    <3>2. FlattenSeq(s) = g[n]
      BY <2>0, <2>7, FlattenFrom, Zenon
    <3> QED
      BY <3>1, <3>2, Zenon
  <2> QED
    BY <2>2, <2>5, <2>9, Zenon DEF r
<1> QED
  BY <1>1, <1>2

\* The first sequence comes first.
LEMMA FlattenTail ==
  ASSUME NEW S, NEW s \in Seq(Seq(S)), s # <<>>
  PROVE  FlattenSeq(s) = s[1] \o FlattenSeq(Tail(s))
<1> DEFINE n == Len(s)
           r == Tail(s)
<1>0. /\ n \in Nat \ {0} /\ r \in Seq(Seq(S)) /\ Len(r) = n - 1
      /\ \A i \in 1 .. n - 1 : r[i] = s[i + 1]
      /\ \A i \in 1 .. n : s[i] \in Seq(S)
  BY HeadTailProperties, LenProperties, EmptySeq, ElementOfSeq
<1> HIDE DEF r
<1>1. CASE n = 1
  <2>0. Len(r) = 0 /\ 1 \in 1 .. n
    BY <1>0, <1>1
  <2>1. FlattenSeq(r) = <<>>
    BY <1>0, <2>0, FlattenEmpty, EmptySeq
  <2>2. FlattenSeq(s) = s[1]
    BY <1>1, FlattenOne
  <2>3. s[1] \o <<>> = s[1]
    BY <1>0, <2>0, ConcatEmptySeq, Zenon
  <2> QED
    BY <2>1, <2>2, <2>3, Zenon DEF r
<1>2. CASE n # 1
  <2>0. n \in Nat \ {0} /\ n - 1 \in Nat \ {0} /\ 1 \in 1 .. n /\ 1 \in 1 .. n - 1
        /\ n - 1 \in 1 .. n - 1 /\ (n - 1) + 1 = n
    BY <1>0, <1>2
  <2>1. PICK f \in [1 .. n -> Seq(S)] : IsFlat(f, s)
    BY FlatExists, Zenon
  <2>2. PICK g \in [1 .. n - 1 -> Seq(S)] : IsFlat(g, r)
    BY <1>0, FlatExists, Zenon
  <2>3. FlattenSeq(s) = f[n] /\ FlattenSeq(r) = g[n - 1]
    BY <1>0, <2>0, <2>1, <2>2, FlattenFrom, Zenon
  <2>4. f = [i \in 1 .. n |-> IF i = 1 THEN s[i] ELSE f[i - 1] \o s[i]]
    BY <2>1, Zenon DEF IsFlat
  <2>5. g = [i \in 1 .. n - 1 |-> IF i = 1 THEN r[i] ELSE g[i - 1] \o r[i]]
    BY <1>0, <2>2, Zenon DEF IsFlat
  <2> HIDE DEF n
  <2> DEFINE U == {k \in Nat : k \in 1 .. n - 1 => f[k + 1] = s[1] \o g[k]}
  <2>6. 0 \in U
    BY <2>0
  <2>7. ASSUME NEW k \in U PROVE k + 1 \in U
    <3>0. /\ k \in Nat /\ k + 1 \in Nat
          /\ k \in 1 .. n - 1 => f[k + 1] = s[1] \o g[k]
      <4>1. k \in Nat /\ (k \in 1 .. n - 1 => f[k + 1] = s[1] \o g[k])
        BY Zenon
      <4>2. k + 1 \in Nat
        OBVIOUS
      <4> QED
        BY <4>1, <4>2, Zenon
    <3> SUFFICES ASSUME k + 1 \in 1 .. n - 1 PROVE f[(k + 1) + 1] = s[1] \o g[k + 1]
      BY <3>0
    <3> DEFINE m == k + 1
    <3>1. /\ m \in 1 .. n - 1 /\ m \in 1 .. n /\ m + 1 \in 1 .. n
          /\ m + 1 # 1 /\ (m + 1) - 1 = m /\ m - 1 = k
          /\ k # 0 => k \in 1 .. n - 1 /\ m # 1
          /\ k = 0 => m = 1
      BY <2>0, <3>0
    <3> HIDE DEF m, n
    <3>2. f[m + 1] = f[m] \o s[m + 1]
      <4>1. f[m + 1] = f[(m + 1) - 1] \o s[m + 1]
        BY <2>4, <3>1, Zenon
      <4> QED
        BY <3>1, <4>1, Zenon
    <3>3. r[m] = s[m + 1]
      BY <1>0, <3>1, Zenon
    <3>4. CASE k = 0
      <4>1. f[m] = s[m]
        BY <2>4, <3>1, <3>4, Zenon
      <4>2. g[m] = r[m]
        BY <2>5, <3>1, <3>4, Zenon
      <4>3. f[m + 1] = s[1] \o g[m]
        BY <3>1, <3>2, <3>3, <3>4, <4>1, <4>2, Zenon
      <4> QED
        BY <4>3, Zenon DEF m
    <3>5. CASE k # 0
      <4>1. f[m] = s[1] \o g[k]
        BY <3>0, <3>1, <3>5, Zenon DEF m
      <4>2. g[m] = g[m - 1] \o r[m]
        BY <2>5, <3>1, <3>5, Zenon
      <4>3. g[m] = g[k] \o s[m + 1]
        BY <3>1, <3>3, <4>2, Zenon
      <4>4. s[1] \in Seq(S) /\ g[k] \in Seq(S) /\ s[m + 1] \in Seq(S)
        BY <1>0, <2>0, <2>2, <3>1, <3>5, Zenon
      <4>5. (s[1] \o g[k]) \o s[m + 1] = s[1] \o (g[k] \o s[m + 1])
        <5> DEFINE x == s[1]
                   y == g[k]
                   z == s[m + 1]
        <5>1. x \in Seq(S) /\ y \in Seq(S) /\ z \in Seq(S)
          BY <4>4, Zenon
        <5> HIDE DEF x, y, z, U
        <5>2. JoinsEitherWay(x, y, z)
          BY <5>1, JoinEitherWay, Zenon
        <5> QED
          BY <5>2, Zenon DEF JoinsEitherWay, x, y, z
      <4>6. f[m + 1] = s[1] \o g[m]
        BY <3>2, <4>1, <4>3, <4>5, Zenon
      <4> QED
        BY <4>6, Zenon DEF m
    <3> QED
      BY <3>4, <3>5, Zenon
  <2>8. U = Nat
    <3>1. U \in SUBSET Nat
      OBVIOUS
    <3> HIDE DEF U
    <3> QED
      BY <2>6, <2>7, <3>1, Induction, Zenon
  <2>9. n - 1 \in U
    <3> HIDE DEF U
    <3> QED
      BY <2>0, <2>8
  <2>10. f[(n - 1) + 1] = s[1] \o g[n - 1]
    BY <2>0, <2>9, Zenon
  <2> QED
    BY <2>0, <2>3, <2>10, Zenon DEF r
<1> QED
  BY <1>1, <1>2

-------------------------------------------------------------------------------
\* What may be on the standard input, and a line without its newline.
Typed == Characters \cup {"nl"}
NoNewline(l) == \A i \in 1 .. Len(l) : l[i] # "nl"

\* The lines as they are typed.
Ended(lines) == [i \in DOMAIN lines |-> lines[i] \o <<"nl">>]

\* No line holds the newline.
LEMMA NewlineApart == "nl" \notin Characters
BY DEF Characters, Digits

\* A line is typed character by character, none of them the newline.
LEMMA LineType ==
  ASSUME NEW l \in Seq(Characters)
  PROVE  l \in Seq(Typed) /\ NoNewline(l)
<1>1. l \in Seq(Typed)
  BY SeqMonotonic DEF Typed
<1>2. \A i \in 1 .. Len(l) : l[i] \in Characters
  BY ElementOfSeq
<1> QED
  BY <1>1, <1>2, NewlineApart DEF NoNewline

\* SelectInSeq finds the first newline,
LEMMA FirstNewline ==
  ASSUME NEW s \in Seq(Typed), NEW k \in 1 .. Len(s), s[k] = "nl",
         \A i \in 1 .. k - 1 : s[i] # "nl"
  PROVE  SelectInSeq(s, LAMBDA c : c = "nl") = k
<1> DEFINE U == {i \in 1 .. Len(s) : s[i] = "nl"}
<1>1. SelectInSeq(s, LAMBDA c : c = "nl") = IF U = {} THEN 0 ELSE Min(U)
  BY DEF SelectInSeq
<1>2. Len(s) \in Nat /\ U \in SUBSET Nat /\ k \in U /\ \A i \in U : k <= i
  BY LenProperties
<1> HIDE DEF U
<1>3. Min(U) \in U /\ \A i \in U : Min(U) <= i
  BY <1>2, LeastNumber
<1> QED
  BY <1>1, <1>2, <1>3

\* or answers 0 where there is none.
LEMMA NoFirstNewline ==
  ASSUME NEW s, NoNewline(s)
  PROVE  SelectInSeq(s, LAMBDA c : c = "nl") = 0
BY DEF SelectInSeq, NoNewline

\* Where fgets stops: at the newline, or at the end of the buffer.
Room(n) == IF n < BufferSize - 1 THEN n ELSE BufferSize - 1

\* fgets takes what comes up to the newline, if the buffer has room for it,
LEMMA FgetsNewline ==
  ASSUME NEW s \in Seq(Typed), NEW k \in 1 .. Len(s), s[k] = "nl",
         \A i \in 1 .. k - 1 : s[i] # "nl", NEW size \in Nat, size >= 2
  PROVE  FgetsLength(s, size) = IF k <= size - 1 THEN k ELSE size - 1
<1> DEFINE room == IF Len(s) < size - 1 THEN Len(s) ELSE size - 1
<1>1. SelectInSeq(s, LAMBDA c : c = "nl") = k
  BY FirstNewline
<1>2. FgetsLength(s, size) = IF k \in 1 .. room THEN k ELSE room
  BY <1>1, Zenon DEF FgetsLength
<1>3. Len(s) \in Nat
  BY LenProperties
<1> QED
  BY <1>2, <1>3

\* and without a newline all there is room for.
LEMMA FgetsNoNewline ==
  ASSUME NEW s \in Seq(Typed), NoNewline(s)
  PROVE  FgetsLength(s, BufferSize) = Room(Len(s))
<1>1. SelectInSeq(s, LAMBDA c : c = "nl") = 0
  BY NoFirstNewline
<1>2. FgetsLength(s, BufferSize) = IF 0 \in 1 .. Room(Len(s)) THEN 0 ELSE Room(Len(s))
  BY <1>1, Zenon DEF FgetsLength, Room
<1>3. Len(s) \in Nat /\ BufferSize \in Nat
  BY LenProperties, SessionAssumption
<1> QED
  BY <1>2, <1>3

\* The characters of a line, of its newline, and of what follows.
IsLineThenRest(s, l, rest) ==
  /\ s \in Seq(Typed) /\ Len(s) = Len(l) + 1 + Len(rest)
  /\ \A i \in 1 .. Len(l) : s[i] = l[i] /\ s[i] # "nl"
  /\ s[Len(l) + 1] = "nl"
  /\ \A i \in 1 .. Len(rest) : s[Len(l) + 1 + i] = rest[i]

LEMMA LineThenRest ==
  ASSUME NEW l \in Seq(Typed), NEW rest \in Seq(Typed), NoNewline(l)
  PROVE  IsLineThenRest((l \o <<"nl">>) \o rest, l, rest)
<1> DEFINE e == l \o <<"nl">>
           s == e \o rest
<1>1. /\ <<"nl">> \in Seq(Typed) /\ Len(<<"nl">>) = 1 /\ <<"nl">>[1] = "nl"
      /\ Len(l) \in Nat /\ Len(rest) \in Nat
  BY LenProperties DEF Typed
<1>2. /\ e \in Seq(Typed) /\ Len(e) = Len(l) + 1 /\ e[Len(l) + 1] = "nl"
      /\ \A i \in 1 .. Len(l) : e[i] = l[i]
  BY <1>1, ConcatProperties
<1> HIDE DEF e
<1>3. /\ e \o rest \in Seq(Typed) /\ Len(e \o rest) = Len(e) + Len(rest)
      /\ \A i \in 1 .. Len(e) + Len(rest) : (e \o rest)[i] = IF i <= Len(e) THEN e[i] ELSE rest[i - Len(e)]
  BY <1>2, ConcatProperties, Zenon
<1>4. s = e \o rest
  BY Zenon
<1> HIDE DEF s
<1>5. \A i \in 1 .. Len(s) : s[i] = IF i <= Len(e) THEN e[i] ELSE rest[i - Len(e)]
  BY <1>3, <1>4, Zenon
<1>6. /\ s \in Seq(Typed) /\ Len(s) = Len(l) + 1 + Len(rest)
      /\ \A i \in 1 .. Len(l) + 1 : i \in 1 .. Len(s) /\ i <= Len(e)
      /\ \A i \in 1 .. Len(rest) : LET m == Len(l) + 1 + i IN m \in 1 .. Len(s) /\ ~(m <= Len(e)) /\ m - Len(e) = i
  BY <1>1, <1>2, <1>3, <1>4
<1>7. Len(l) + 1 \in 1 .. Len(l) + 1 /\ \A i \in 1 .. Len(l) : i \in 1 .. Len(l) + 1
  BY <1>1
<1>8. \A i \in 1 .. Len(l) : s[i] = l[i] /\ s[i] # "nl"
  BY <1>2, <1>5, <1>6, <1>7, Zenon DEF NoNewline
<1>9. s[Len(l) + 1] = "nl"
  BY <1>2, <1>5, <1>6, <1>7, Zenon
<1>10. \A i \in 1 .. Len(rest) : s[Len(l) + 1 + i] = rest[i]
  BY <1>5, <1>6, Zenon
<1> QED
  BY <1>6, <1>8, <1>9, <1>10, Zenon DEF IsLineThenRest, e, s

\* The end of a sequence is known by its length and its elements.
LEMMA SubSeqIs ==
  ASSUME NEW S, NEW s \in Seq(S), NEW t \in Seq(S), NEW m \in Nat \ {0}, m <= Len(s) + 1,
         Len(t) = Len(s) + 1 - m, \A i \in 1 .. Len(t) : s[m - 1 + i] = t[i]
  PROVE  SubSeq(s, m, Len(s)) = t
<1> DEFINE n == Len(s)
           u == SubSeq(s, m, n)
<1>1. n \in Nat /\ Len(t) \in Nat /\ \A i \in m .. n : s[i] \in S
  BY LenProperties, ElementOfSeq
<1>2. /\ u \in Seq(S) /\ Len(u) = IF m <= n THEN n - m + 1 ELSE 0
      /\ \A i \in 1 .. n - m + 1 : u[i] = s[m + i - 1]
  BY <1>1, SubSeqProperties
<1> HIDE DEF u
<1>3. /\ Len(u) = Len(t)
      /\ \A i \in 1 .. Len(u) : m + i - 1 = m - 1 + i /\ i \in 1 .. Len(t) /\ i \in 1 .. n - m + 1
  BY <1>1, <1>2
<1>4. \A i \in 1 .. Len(u) : u[i] = t[i]
  <2> TAKE i \in 1 .. Len(u)
  <2>1. u[i] = s[m + i - 1] /\ s[m - 1 + i] = t[i]
    BY <1>2, <1>3, Zenon
  <2>2. m + i - 1 = m - 1 + i
    BY <1>3, Zenon
  <2> QED
    BY <2>1, <2>2, Zenon
<1> QED
  BY <1>2, <1>3, <1>4, SeqEqual, Zenon DEF u, n

\* read_line leaves what follows the line, wherever the buffer ended.
LEMMA AfterLineRest ==
  ASSUME NEW l \in Seq(Typed), NEW rest \in Seq(Typed), NoNewline(l)
  PROVE  AfterLine((l \o <<"nl">>) \o rest) = rest
<1> DEFINE s == (l \o <<"nl">>) \o rest
           k == Len(l) + 1
           taken == FgetsLength(s, BufferSize)
           left == AfterFgets(s, BufferSize)
           newline == SelectInSeq(left, LAMBDA c : c = "nl")
<1>1. /\ s \in Seq(Typed) /\ Len(s) = Len(l) + 1 + Len(rest)
      /\ \A i \in 1 .. Len(l) : s[i] = l[i] /\ s[i] # "nl"
      /\ s[k] = "nl"
      /\ \A i \in 1 .. Len(rest) : s[k + i] = rest[i]
  <2>1. IsLineThenRest(s, l, rest)
    BY LineThenRest, Zenon
  <2> HIDE DEF s
  <2> QED
    BY <2>1, Zenon DEF IsLineThenRest, k
<1>2. AfterLine(s) = IF s[taken] # "nl" /\ BufferFull(taken)
                     THEN IF newline = 0 THEN <<>> ELSE SubSeq(left, newline + 1, Len(left))
                     ELSE left
  BY Zenon DEF AfterLine
<1>3. left = SubSeq(s, taken + 1, Len(s))
  BY Zenon DEF AfterFgets
<1> HIDE DEF s
<1>4. Len(l) \in Nat /\ Len(rest) \in Nat /\ BufferSize \in Nat /\ BufferSize >= 2
  BY LenProperties, SessionAssumption
<1>5. k \in 1 .. Len(s) /\ \A i \in 1 .. k - 1 : s[i] # "nl"
  BY <1>1, <1>4
<1>6. taken = IF k <= BufferSize - 1 THEN k ELSE BufferSize - 1
  BY <1>1, <1>4, <1>5, FgetsNewline, Zenon
<1> HIDE DEF taken
<1>7. CASE k <= BufferSize - 1
  <2>1. taken = k /\ s[taken] = "nl"
    BY <1>1, <1>6, <1>7
  <2>2. SubSeq(s, k + 1, Len(s)) = rest
    BY <1>1, <1>4, SubSeqIs
  <2>3. left = rest
    BY <1>3, <2>1, <2>2, Zenon
  <2> HIDE DEF left, newline
  <2> QED
    BY <1>2, <2>1, <2>3, Zenon DEF s
<1>8. CASE ~(k <= BufferSize - 1)
  <2> DEFINE n == BufferSize - 1
             j == k - n
  <2>1. taken = n /\ n \in 1 .. Len(l) /\ n \in Nat /\ j \in Nat \ {0}
    BY <1>4, <1>6, <1>8
  <2>2. s[taken] # "nl" /\ BufferFull(taken)
    BY <1>1, <2>1 DEF BufferFull
  <2>3. \A i \in taken + 1 .. Len(s) : s[i] \in Typed
    BY <1>1, <2>1, ElementOfSeq
  <2>4. /\ left \in Seq(Typed) /\ Len(left) = Len(s) - taken
        /\ \A i \in 1 .. Len(s) - taken : left[i] = s[taken + i]
    <3>1. /\ left \in Seq(Typed)
          /\ Len(left) = IF taken + 1 <= Len(s) THEN Len(s) - (taken + 1) + 1 ELSE 0
          /\ \A i \in 1 .. Len(s) - (taken + 1) + 1 : left[i] = s[taken + 1 + i - 1]
      BY <1>1, <1>3, <1>4, <2>1, <2>3, SubSeqProperties
    <3> HIDE DEF left
    <3> QED
      BY <1>1, <1>4, <2>1, <3>1
  <2> HIDE DEF left
  <2>5. Len(left) = j + Len(rest) /\ j \in 1 .. Len(left)
    BY <1>1, <1>4, <2>1, <2>4
  <2>6. left[j] = "nl" /\ \A i \in 1 .. j - 1 : left[i] # "nl"
    <3>1. j \in 1 .. Len(s) - taken /\ taken + j = k
      BY <1>1, <1>4, <2>1
    <3>2. left[j] = s[taken + j]
      BY <2>4, <3>1, Zenon
    <3>3. ASSUME NEW i \in 1 .. j - 1 PROVE left[i] # "nl"
      <4>1. i \in 1 .. Len(s) - taken /\ taken + i \in 1 .. Len(l)
        BY <1>1, <1>4, <2>1
      <4>2. left[i] = s[taken + i]
        BY <2>4, <4>1, Zenon
      <4> QED
        BY <1>1, <4>1, <4>2, Zenon
    <3> QED
      BY <1>1, <3>1, <3>2, <3>3, Zenon
  <2>7. newline = j
    BY <2>4, <2>5, <2>6, FirstNewline
  <2>8. ASSUME NEW i \in 1 .. Len(rest) PROVE left[j + i] = rest[i]
    <3>1. j + i \in 1 .. Len(s) - taken /\ taken + (j + i) = k + i
      BY <1>1, <1>4, <2>1
    <3>2. left[j + i] = s[taken + (j + i)]
      BY <2>4, <3>1, Zenon
    <3> QED
      BY <1>1, <3>1, <3>2, Zenon
  <2>9. SubSeq(left, j + 1, Len(left)) = rest
    BY <1>4, <2>1, <2>4, <2>5, <2>8, SubSeqIs
  <2> HIDE DEF newline, j
  <2> QED
    BY <1>2, <2>1, <2>2, <2>7, <2>9, Zenon DEF s
<1> QED
  BY <1>7, <1>8, Zenon

\* At the end of the input a read leaves nothing, however long the line is.
LEMMA AfterLineEnd ==
  ASSUME NEW l \in Seq(Typed), NoNewline(l), l # <<>>
  PROVE  AfterLine(l) = <<>>
<1> DEFINE taken == FgetsLength(l, BufferSize)
           left == AfterFgets(l, BufferSize)
           newline == SelectInSeq(left, LAMBDA c : c = "nl")
<1>1. AfterLine(l) = IF l[taken] # "nl" /\ BufferFull(taken)
                     THEN IF newline = 0 THEN <<>> ELSE SubSeq(left, newline + 1, Len(left))
                     ELSE left
  BY Zenon DEF AfterLine
<1>2. left = SubSeq(l, taken + 1, Len(l))
  BY Zenon DEF AfterFgets
<1>3. Len(l) \in Nat \ {0} /\ BufferSize \in Nat /\ BufferSize >= 2
  BY EmptySeq, SessionAssumption
<1>4. taken = IF Len(l) < BufferSize - 1 THEN Len(l) ELSE BufferSize - 1
  BY FgetsNoNewline DEF Room
<1> HIDE DEF taken
<1>5. taken \in 1 .. Len(l) /\ l[taken] # "nl"
  BY <1>3, <1>4 DEF NoNewline
<1>6. CASE Len(l) < BufferSize - 1
  <2>1. ~BufferFull(taken) /\ taken = Len(l)
    BY <1>3, <1>4, <1>6 DEF BufferFull
  <2>2. left = <<>>
    BY <1>2, <1>3, <2>1, SubSeqEmpty
  <2> HIDE DEF left, newline
  <2> QED
    BY <1>1, <2>1, <2>2, Zenon
<1>7. CASE ~(Len(l) < BufferSize - 1)
  <2>1. BufferFull(taken)
    BY <1>4, <1>7, Zenon DEF BufferFull
  <2>2. \A i \in taken + 1 .. Len(l) : l[i] \in Typed
    BY <1>3, <1>5, ElementOfSeq
  <2>3. /\ Len(left) = IF taken + 1 <= Len(l) THEN Len(l) - (taken + 1) + 1 ELSE 0
        /\ \A i \in 1 .. Len(l) - (taken + 1) + 1 : left[i] = l[taken + 1 + i - 1]
    BY <1>2, <1>3, <1>5, <2>2, SubSeqProperties
  <2> HIDE DEF left
  <2>4. NoNewline(left)
    BY <1>3, <1>5, <2>3 DEF NoNewline
  <2>5. newline = 0
    BY <2>4, NoFirstNewline
  <2> HIDE DEF newline
  <2> QED
    BY <1>1, <1>5, <2>1, <2>5, Zenon
<1> QED
  BY <1>6, <1>7, Zenon

\* The program sees what the buffer holds of the line.
LEMMA LineOfRest ==
  ASSUME NEW l \in Seq(Typed), NEW rest \in Seq(Typed), NoNewline(l)
  PROVE  LineOf((l \o <<"nl">>) \o rest, BufferSize) = SubSeq(l, 1, Room(Len(l)))
<1> DEFINE s == (l \o <<"nl">>) \o rest
           k == Len(l) + 1
           taken == FgetsLength(s, BufferSize)
<1>1. /\ s \in Seq(Typed) /\ Len(s) = Len(l) + 1 + Len(rest)
      /\ \A i \in 1 .. Len(l) : s[i] = l[i] /\ s[i] # "nl"
      /\ s[k] = "nl"
      /\ \A i \in 1 .. Len(rest) : s[k + i] = rest[i]
  <2>1. IsLineThenRest(s, l, rest)
    BY LineThenRest, Zenon
  <2> HIDE DEF s
  <2> QED
    BY <2>1, Zenon DEF IsLineThenRest, k
<1>2. LineOf(s, BufferSize) = SubSeq(s, 1, IF s[taken] = "nl" THEN taken - 1 ELSE taken)
  BY Zenon DEF LineOf
<1> HIDE DEF s
<1>3. Len(l) \in Nat /\ Len(rest) \in Nat /\ BufferSize \in Nat /\ BufferSize >= 2
  BY LenProperties, SessionAssumption
<1>4. k \in 1 .. Len(s) /\ \A i \in 1 .. k - 1 : s[i] # "nl"
  BY <1>1, <1>3
<1>5. taken = IF k <= BufferSize - 1 THEN k ELSE BufferSize - 1
  BY <1>1, <1>3, <1>4, FgetsNewline, Zenon
<1> HIDE DEF taken
<1> DEFINE m == Room(Len(l))
<1>6. m \in 0 .. Len(l) /\ m \in 0 .. Len(s) /\ m = IF s[taken] = "nl" THEN taken - 1 ELSE taken
  BY <1>1, <1>3, <1>5 DEF Room
<1> HIDE DEF m
<1>7. LineOf(s, BufferSize) = SubSeq(s, 1, m)
  BY <1>2, <1>6, Zenon
<1>8. SubSeq(s, 1, m) = SubSeq(l, 1, m)
  <2>1. \A i \in 1 .. m : s[i] \in Typed /\ l[i] \in Typed /\ s[i] = l[i]
    BY <1>1, <1>3, <1>6, ElementOfSeq
  <2> DEFINE u == SubSeq(s, 1, m)
             v == SubSeq(l, 1, m)
  <2>2. u \in Seq(Typed) /\ Len(u) = (IF 1 <= m THEN m - 1 + 1 ELSE 0)
        /\ \A i \in 1 .. m - 1 + 1 : u[i] = s[1 + i - 1]
    BY <1>3, <1>6, <2>1, SubSeqProperties
  <2>3. v \in Seq(Typed) /\ Len(v) = (IF 1 <= m THEN m - 1 + 1 ELSE 0)
        /\ \A i \in 1 .. m - 1 + 1 : v[i] = l[1 + i - 1]
    BY <1>3, <1>6, <2>1, SubSeqProperties
  <2> HIDE DEF u, v
  <2>4. Len(u) = Len(v) /\ \A i \in 1 .. Len(u) : u[i] = v[i]
    BY <1>3, <1>6, <2>1, <2>2, <2>3
  <2> QED
    BY <2>2, <2>3, <2>4, SeqEqual, Zenon DEF u, v
<1> QED
  BY <1>7, <1>8, Zenon DEF s, m

\* What it answers is what the buffer holds of that line.
LEMMA LineOfEnd ==
  ASSUME NEW l \in Seq(Typed), NoNewline(l), l # <<>>
  PROVE  LineOf(l, BufferSize) = SubSeq(l, 1, Room(Len(l)))
<1> DEFINE taken == FgetsLength(l, BufferSize)
<1>1. LineOf(l, BufferSize) = SubSeq(l, 1, IF l[taken] = "nl" THEN taken - 1 ELSE taken)
  BY Zenon DEF LineOf
<1>2. taken = Room(Len(l))
  BY FgetsNoNewline
<1> HIDE DEF taken
<1>3. Len(l) \in Nat \ {0} /\ BufferSize \in Nat /\ BufferSize >= 2
  BY EmptySeq, SessionAssumption
<1>4. l[taken] # "nl"
  BY <1>2, <1>3 DEF Room, NoNewline
<1> QED
  BY <1>1, <1>2, <1>4, Zenon

-------------------------------------------------------------------------------
\* All that has been typed and not read.
Waiting(lines) == FlattenSeq(Ended(lines))

SessionTypes == unanswered \in Seq(Seq(Characters)) /\ stdin \in Seq(Typed)

SessionInvariant == SessionTypes /\ ReadsInStep

\* ReadsInStep in the names used here.
LEMMA ReadsInStepIs ==
  ReadsInStep <=> stdin = Waiting(unanswered) \/ (closed /\ stdin \o <<"nl">> = Waiting(unanswered))
BY Zenon DEF ReadsInStep, Waiting, Ended

\* The lines of a file, each with its newline, are as many as the lines;
LEMMA EndedType ==
  ASSUME NEW lines \in Seq(Seq(Characters))
  PROVE  /\ Ended(lines) \in Seq(Seq(Typed)) /\ Len(Ended(lines)) = Len(lines)
         /\ \A i \in 1 .. Len(lines) : Ended(lines)[i] = lines[i] \o <<"nl">>
<1> DEFINE e(i) == lines[i] \o <<"nl">>
           n == Len(lines)
<1>1. n \in Nat /\ DOMAIN lines = 1 .. n
  BY LenProperties
<1>2. ASSUME NEW i \in 1 .. n PROVE e(i) \in Seq(Typed)
  <2>1. lines[i] \in Seq(Characters)
    BY ElementOfSeq
  <2>2. lines[i] \in Seq(Typed) /\ <<"nl">> \in Seq(Typed)
    BY <2>1, LineType DEF Typed
  <2> QED
    BY <2>2, ConcatProperties, Zenon
<1>3. Ended(lines) = [i \in 1 .. n |-> e(i)]
  BY <1>1, Zenon DEF Ended
<1> HIDE DEF e
<1>4. Ended(lines) \in [1 .. n -> Seq(Typed)]
  BY <1>2, <1>3
<1>5. Ended(lines) \in Seq(Seq(Typed)) /\ Len(Ended(lines)) = n
  BY <1>1, <1>4
<1>6. \A i \in 1 .. n : Ended(lines)[i] = e(i)
  BY <1>3, Zenon
<1> QED
  BY <1>5, <1>6, Zenon DEF e

\* one line more is one ended line more,
LEMMA EndedAppend ==
  ASSUME NEW lines \in Seq(Seq(Characters)), NEW l \in Seq(Characters)
  PROVE  Ended(Append(lines, l)) = Append(Ended(lines), l \o <<"nl">>)
<1> DEFINE n == Len(lines)
           r == Append(lines, l)
           e == l \o <<"nl">>
           u == Ended(lines)
           v == Ended(r)
           w == Append(u, e)
<1>1. /\ n \in Nat /\ r \in Seq(Seq(Characters)) /\ Len(r) = n + 1 /\ r[n + 1] = l
      /\ \A i \in 1 .. n : r[i] = lines[i]
  BY AppendProperties, LenProperties
<1> HIDE DEF r
<1>2. /\ v \in Seq(Seq(Typed)) /\ Len(v) = n + 1
      /\ \A i \in 1 .. n + 1 : v[i] = r[i] \o <<"nl">>
  BY <1>1, EndedType, Zenon
<1>3. /\ u \in Seq(Seq(Typed)) /\ Len(u) = n
      /\ \A i \in 1 .. n : u[i] = lines[i] \o <<"nl">>
  BY EndedType, Zenon
<1>4. e \in Seq(Typed)
  <2>1. l \in Seq(Typed) /\ <<"nl">> \in Seq(Typed)
    BY LineType DEF Typed
  <2> QED
    BY <2>1, ConcatProperties, Zenon
<1> HIDE DEF u, v, e
<1>5. /\ w \in Seq(Seq(Typed)) /\ Len(w) = n + 1 /\ w[n + 1] = e
      /\ \A i \in 1 .. n : w[i] = u[i]
  BY <1>3, <1>4, AppendProperties
<1> HIDE DEF w
<1>6. ASSUME NEW i \in 1 .. n + 1 PROVE v[i] = w[i]
  <2>1. CASE i \in 1 .. n
    BY <1>1, <1>2, <1>3, <1>5, <2>1, Zenon
  <2>2. CASE i = n + 1
    BY <1>1, <1>2, <1>5, <2>2, Zenon DEF e
  <2>3. i \in 1 .. n \/ i = n + 1
    BY <1>1
  <2> QED
    BY <2>1, <2>2, <2>3
<1>7. v = w
  <2> HIDE DEF n
  <2> QED
    BY <1>2, <1>5, <1>6, SeqEqual, Zenon
<1> QED
  BY <1>7, Zenon DEF v, w, u, e, r

\* and one less one less.
LEMMA EndedTail ==
  ASSUME NEW lines \in Seq(Seq(Characters)), lines # <<>>
  PROVE  Ended(Tail(lines)) = Tail(Ended(lines))
<1> DEFINE n == Len(lines)
           r == Tail(lines)
           u == Ended(lines)
           v == Ended(r)
           w == Tail(u)
<1>1. /\ n \in Nat \ {0} /\ r \in Seq(Seq(Characters)) /\ Len(r) = n - 1
      /\ \A i \in 1 .. n - 1 : r[i] = lines[i + 1]
  BY HeadTailProperties, EmptySeq
<1> HIDE DEF r
<1>2. /\ v \in Seq(Seq(Typed)) /\ Len(v) = n - 1
      /\ \A i \in 1 .. n - 1 : v[i] = r[i] \o <<"nl">>
  BY <1>1, EndedType, Zenon
<1>3. /\ u \in Seq(Seq(Typed)) /\ Len(u) = n
      /\ \A i \in 1 .. n : u[i] = lines[i] \o <<"nl">>
  BY EndedType, Zenon
<1> HIDE DEF u, v
<1>4. u # <<>>
  BY <1>1, <1>3, EmptySeq
<1>5. /\ w \in Seq(Seq(Typed)) /\ Len(w) = n - 1
      /\ \A i \in 1 .. n - 1 : w[i] = u[i + 1]
  BY <1>3, <1>4, HeadTailProperties
<1> HIDE DEF w
<1>6. ASSUME NEW i \in 1 .. n - 1 PROVE v[i] = w[i]
  <2>1. i + 1 \in 1 .. n
    BY <1>1
  <2> QED
    BY <1>1, <1>2, <1>3, <1>5, <2>1, Zenon
<1>7. v = w
  <2> HIDE DEF n
  <2> QED
    BY <1>2, <1>5, <1>6, SeqEqual, Zenon
<1> QED
  BY <1>7, Zenon DEF v, w, u, r

\* Typing a line puts it, with its newline, behind what waits.
LEMMA WaitingAppend ==
  ASSUME NEW lines \in Seq(Seq(Characters)), NEW l \in Seq(Characters)
  PROVE  /\ Waiting(lines) \in Seq(Typed)
         /\ Waiting(Append(lines, l)) = (Waiting(lines) \o l) \o <<"nl">>
<1> DEFINE u == Ended(lines)
           w == Waiting(lines)
<1>1. u \in Seq(Seq(Typed))
  BY EndedType
<1>2. l \in Seq(Typed) /\ <<"nl">> \in Seq(Typed)
  BY LineType DEF Typed
<1>3. l \o <<"nl">> \in Seq(Typed)
  BY <1>2, ConcatProperties, Zenon
<1>4. w \in Seq(Typed)
  BY <1>1, FlattenType, Zenon DEF Waiting
<1>5. Waiting(Append(lines, l)) = w \o (l \o <<"nl">>)
  <2>1. Ended(Append(lines, l)) = Append(u, l \o <<"nl">>)
    BY EndedAppend, Zenon
  <2> HIDE DEF u
  <2>2. FlattenSeq(Append(u, l \o <<"nl">>)) = FlattenSeq(u) \o (l \o <<"nl">>)
    BY <1>1, <1>3, FlattenAppend, Zenon
  <2> QED
    BY <2>1, <2>2, Zenon DEF Waiting, u
<1> HIDE DEF w
<1>6. w \o (l \o <<"nl">>) = (w \o l) \o <<"nl">>
  <2> DEFINE z == <<"nl">>
  <2>1. z \in Seq(Typed)
    BY <1>2, Zenon
  <2> HIDE DEF z
  <2>2. JoinsEitherWay(w, l, z)
    BY <1>2, <1>4, <2>1, JoinEitherWay, Zenon
  <2> QED
    BY <2>2, Zenon DEF JoinsEitherWay, z
<1> QED
  BY <1>4, <1>5, <1>6, Zenon DEF w

\* What waits begins with the first line and its newline.
LEMMA WaitingTail ==
  ASSUME NEW lines \in Seq(Seq(Characters)), lines # <<>>
  PROVE  Waiting(lines) = (lines[1] \o <<"nl">>) \o Waiting(Tail(lines))
<1> DEFINE u == Ended(lines)
<1>1. /\ u \in Seq(Seq(Typed)) /\ Len(u) = Len(lines)
      /\ \A i \in 1 .. Len(lines) : u[i] = lines[i] \o <<"nl">>
  BY EndedType, Zenon
<1>2. Len(lines) \in Nat \ {0} /\ 1 \in 1 .. Len(lines)
  BY EmptySeq
<1>3. Ended(Tail(lines)) = Tail(u)
  BY EndedTail
<1> HIDE DEF u
<1>4. u # <<>>
  BY <1>1, <1>2, EmptySeq
<1>5. FlattenSeq(u) = u[1] \o FlattenSeq(Tail(u))
  BY <1>1, <1>4, FlattenTail, Zenon
<1>6. u[1] = lines[1] \o <<"nl">>
  BY <1>1, <1>2, Zenon
<1> QED
  BY <1>3, <1>5, <1>6, Zenon DEF Waiting, u

\* When every line has been read nothing waits.
LEMMA WaitingEmpty == Waiting(<<>>) = <<>>
<1>1. <<>> \in Seq(Seq(Characters)) /\ Len(<<>>) = 0
  OBVIOUS
<1>2. Ended(<<>>) \in Seq(Seq(Typed)) /\ Len(Ended(<<>>)) = 0
  BY <1>1, EndedType
<1>3. Ended(<<>>) = <<>>
  BY <1>2, EmptySeq
<1>4. FlattenSeq(<<>>) = <<>>
  BY <1>1, FlattenEmpty, Zenon
<1> QED
  BY <1>3, <1>4, Zenon DEF Waiting

\* What waits ends with a newline.
LEMMA WaitingEnds ==
  ASSUME NEW lines \in Seq(Seq(Characters)), lines # <<>>
  PROVE  \E w \in Seq(Typed) : Waiting(lines) = w \o <<"nl">>
<1>1. PICK p \in Seq(Seq(Characters)), l \in Seq(Characters) : lines = Append(p, l)
  BY SequenceEmptyOrAppend
<1>2. Waiting(p) \in Seq(Typed) /\ Waiting(lines) = (Waiting(p) \o l) \o <<"nl">>
  BY <1>1, WaitingAppend, Zenon
<1>3. l \in Seq(Typed)
  BY LineType
<1>4. Waiting(p) \o l \in Seq(Typed)
  BY <1>2, <1>3, ConcatProperties, Zenon
<1> QED
  BY <1>2, <1>4, Zenon

\* The next line to read, with its newline and what follows, or the last one
\* without its newline.
LEMMA NextLine ==
  ASSUME SessionInvariant, stdin # <<>>
  PROVE  /\ unanswered # <<>> /\ unanswered[1] \in Seq(Typed) /\ NoNewline(unanswered[1])
         /\ \/ \E rest \in Seq(Typed) :
                 /\ stdin = (unanswered[1] \o <<"nl">>) \o rest
                 /\ rest = Waiting(Tail(unanswered)) \/ (closed /\ rest \o <<"nl">> = Waiting(Tail(unanswered)))
            \/ Tail(unanswered) = <<>> /\ stdin = unanswered[1]
<1> DEFINE z == <<"nl">>
           l == unanswered[1]
           r == Tail(unanswered)
           w == Waiting(r)
<1>1. /\ unanswered \in Seq(Seq(Characters)) /\ stdin \in Seq(Typed) /\ z \in Seq(Typed) /\ z # <<>>
      /\ stdin = Waiting(unanswered) \/ (closed /\ stdin \o z = Waiting(unanswered))
  BY ReadsInStepIs DEF SessionInvariant, SessionTypes, Typed
<1>2. stdin \o z # <<>>
  <2> HIDE DEF z
  <2> QED
    BY <1>1, ConcatEqualIffEmpty
<1>3. unanswered # <<>>
  BY <1>1, <1>2, WaitingEmpty, Zenon
<1>4. l \in Seq(Typed) /\ NoNewline(l)
  <2>1. 1 \in 1 .. Len(unanswered)
    BY <1>1, <1>3, EmptySeq
  <2>2. l \in Seq(Characters)
    BY <1>1, <2>1, ElementOfSeq
  <2> QED
    BY <2>2, LineType
<1>5. r \in Seq(Seq(Characters))
  BY <1>1, <1>3, HeadTailProperties
<1>6. Waiting(unanswered) = (l \o z) \o w
  BY <1>1, <1>3, WaitingTail, Zenon
<1>7. w \in Seq(Typed) /\ l \o z \in Seq(Typed)
  <2>1. w \in Seq(Typed)
    <3>1. Characters # {}
      BY DEF Characters
    <3>2. <<>> \in Seq(Characters)
      BY EmptySeq
    <3> HIDE DEF r
    <3> QED
      BY <1>5, <3>2, WaitingAppend, Zenon
  <2> HIDE DEF l, z
  <2> QED
    BY <1>1, <1>4, <2>1, ConcatProperties
<1> HIDE DEF l, r, w, z
<1>8. CASE stdin = Waiting(unanswered)
  BY <1>3, <1>4, <1>6, <1>7, <1>8, Zenon DEF l, r, w, z
<1>9. CASE closed /\ stdin \o z = Waiting(unanswered) /\ r # <<>>
  <2>1. PICK v \in Seq(Typed) : w = v \o z
    BY <1>5, <1>9, WaitingEnds, Zenon DEF w, z
  <2> DEFINE e == l \o z
  <2>2. stdin \o z = e \o (v \o z) /\ e \in Seq(Typed)
    BY <1>6, <1>7, <1>9, <2>1, Zenon
  <2> HIDE DEF e
  <2>3. e \o v \in Seq(Typed) /\ e \o (v \o z) = (e \o v) \o z
    <3>1. e \o v \in Seq(Typed)
      BY <2>2, ConcatProperties
    <3>2. e \in Seq(Typed) /\ v \in Seq(Typed) /\ z \in Seq(Typed)
      BY <1>1, <2>2, Zenon
    <3>3. JoinsEitherWay(e, v, z)
      BY <3>2, JoinEitherWay, Zenon
    <3> QED
      BY <3>1, <3>3, Zenon DEF JoinsEitherWay
  <2>4. stdin = e \o v
    BY <1>1, <2>2, <2>3, ConcatSimplifications
  <2> QED
    BY <1>3, <1>4, <1>9, <2>1, <2>4, Zenon DEF l, r, w, z, e
<1>10. CASE stdin \o z = Waiting(unanswered) /\ r = <<>>
  <2>1. w = <<>>
    BY <1>10, WaitingEmpty, Zenon DEF w
  <2>2. stdin \o z = (l \o z) \o <<>>
    BY <1>6, <1>10, <2>1, Zenon
  <2>3. (l \o z) \o <<>> = l \o z
    <3> DEFINE e == l \o z
    <3>1. e \in Seq(Typed)
      BY <1>7, Zenon
    <3> HIDE DEF e
    <3>2. e \o <<>> = e
      BY <3>1, ConcatEmptySeq
    <3> QED
      BY <3>2, Zenon DEF e
  <2>4. stdin \o z = l \o z
    BY <2>2, <2>3, Zenon
  <2>5. stdin = l
    BY <1>1, <1>4, <2>4, ConcatSimplifications
  <2> QED
    BY <1>3, <1>4, <1>10, <2>5, Zenon DEF l, r
<1> QED
  BY <1>1, <1>8, <1>9, <1>10, Zenon DEF z

\* A read keeps the invariant: it takes one line from stdin, and one from unanswered.
LEMMA ConsumeStep ==
  ASSUME SessionInvariant, Consume
  PROVE  SessionInvariant'
<1>0. stdin # <<>> /\ stdin' = AfterLine(stdin) /\ unanswered' = Tail(unanswered) /\ closed' = closed
  BY Zenon DEF Consume
<1> DEFINE l == unanswered[1]
<1>1. /\ unanswered # <<>> /\ l \in Seq(Typed) /\ NoNewline(l)
      /\ \/ \E rest \in Seq(Typed) :
              /\ stdin = (l \o <<"nl">>) \o rest
              /\ rest = Waiting(unanswered') \/ (closed /\ rest \o <<"nl">> = Waiting(unanswered'))
         \/ unanswered' = <<>> /\ stdin = l
  BY <1>0, NextLine, Zenon
<1>2. unanswered' \in Seq(Seq(Characters))
  BY <1>0, <1>1, HeadTailProperties DEF SessionInvariant, SessionTypes
<1> HIDE DEF l
<1>3. ASSUME NEW rest \in Seq(Typed), stdin = (l \o <<"nl">>) \o rest,
             rest = Waiting(unanswered') \/ (closed /\ rest \o <<"nl">> = Waiting(unanswered'))
      PROVE  SessionInvariant'
  <2>1. stdin' = rest
    BY <1>0, <1>1, <1>3, AfterLineRest, Zenon
  <2>2. SessionTypes'
    BY <1>2, <2>1, Zenon DEF SessionTypes
  <2>3. stdin' = Waiting(unanswered') \/ (closed' /\ stdin' \o <<"nl">> = Waiting(unanswered'))
    BY <1>0, <1>3, <2>1, Zenon
  <2>4. ReadsInStep'
    BY <2>3, Zenon DEF ReadsInStep, Waiting, Ended
  <2> QED
    BY <2>2, <2>4, Zenon DEF SessionInvariant
<1>4. ASSUME unanswered' = <<>>, stdin = l PROVE SessionInvariant'
  <2>1. stdin' = <<>>
    BY <1>0, <1>1, <1>4, AfterLineEnd, Zenon
  <2>2. <<>> \in Seq(Typed)
    BY EmptySeq, Zenon
  <2>3. SessionTypes'
    BY <1>2, <2>1, <2>2, Zenon DEF SessionTypes
  <2>4. stdin' = Waiting(unanswered')
    BY <1>4, <2>1, WaitingEmpty, Zenon
  <2>5. ReadsInStep'
    BY <2>4, Zenon DEF ReadsInStep, Waiting, Ended
  <2> QED
    BY <2>3, <2>5, Zenon DEF SessionInvariant
<1> QED
  BY <1>1, <1>3, <1>4, Zenon

\* The user keeps it: what is typed goes behind both.
LEMMA TypeStep ==
  ASSUME SessionInvariant, NEW line \in Lines, Type(line) \/ CloseInput(line)
  PROVE  SessionInvariant'
<1> DEFINE z == <<"nl">>
           w == Waiting(unanswered)
<1>1. /\ unanswered \in Seq(Seq(Characters)) /\ stdin \in Seq(Typed) /\ z \in Seq(Typed)
      /\ line \in Seq(Characters) /\ line \in Seq(Typed)
  BY SessionAssumption, LineType DEF SessionInvariant, SessionTypes, Typed
<1>2. ~closed /\ stdin = w
  BY ReadsInStepIs, Zenon DEF SessionInvariant, Type, CloseInput
<1>3. Waiting(Append(unanswered, line)) = (stdin \o line) \o z
  BY <1>1, <1>2, WaitingAppend, Zenon
<1>4. Append(unanswered, line) \in Seq(Seq(Characters))
  BY <1>1, AppendProperties
<1>5. stdin \o line \in Seq(Typed) /\ (stdin \o line) \o z \in Seq(Typed)
  <2> HIDE DEF z
  <2>1. stdin \o line \in Seq(Typed)
    BY <1>1, ConcatProperties
  <2> DEFINE e == stdin \o line
  <2> HIDE DEF e
  <2>2. e \in Seq(Typed) => e \o z \in Seq(Typed)
    BY <1>1, ConcatProperties
  <2> QED
    BY <2>1, <2>2, Zenon DEF e
<1> HIDE DEF z, w
<1>6. CASE Type(line)
  <2>1. stdin' = (stdin \o line) \o z /\ unanswered' = Append(unanswered, line)
    BY <1>6, Zenon DEF Type, z
  <2>2. stdin' = Waiting(unanswered')
    BY <1>3, <2>1, Zenon
  <2> QED
    BY <1>4, <1>5, <2>1, <2>2, Zenon
    DEF SessionInvariant, SessionTypes, ReadsInStep, Waiting, Ended
<1>7. CASE CloseInput(line) /\ line # <<>>
  <2>1. closed' /\ stdin' = stdin \o line /\ unanswered' = Append(unanswered, line)
    BY <1>7, Zenon DEF CloseInput
  <2>2. closed' /\ stdin' \o <<"nl">> = Waiting(unanswered')
    BY <1>3, <2>1, Zenon DEF z
  <2> QED
    BY <1>4, <1>5, <2>1, <2>2, Zenon
    DEF SessionInvariant, SessionTypes, ReadsInStep, Waiting, Ended
<1>8. CASE CloseInput(line) /\ line = <<>>
  <2>1. stdin' = stdin \o <<>> /\ unanswered' = unanswered
    BY <1>8, Zenon DEF CloseInput
  <2>2. stdin \o <<>> = stdin
    BY <1>1, ConcatEmptySeq
  <2>3. stdin' = Waiting(unanswered')
    BY <1>2, <2>1, <2>2, Zenon DEF w
  <2> QED
    BY <1>1, <2>1, <2>2, <2>3, Zenon
    DEF SessionInvariant, SessionTypes, ReadsInStep, Waiting, Ended
<1> QED
  BY <1>6, <1>7, <1>8, Zenon

\* The invariant holds of a program that has just started.
LEMMA SessionStarts == SessionInit => SessionInvariant
<1> SUFFICES ASSUME SessionInit PROVE SessionInvariant
  OBVIOUS
<1>1. stdin = <<>> /\ unanswered = <<>>
  BY Zenon DEF SessionInit
<1>2. <<>> \in Seq(Typed) /\ <<>> \in Seq(Seq(Characters))
  BY EmptySeq
<1>3. stdin = Waiting(unanswered)
  BY <1>1, WaitingEmpty, Zenon
<1> QED
  BY <1>1, <1>2, <1>3, Zenon DEF SessionInvariant, SessionTypes, ReadsInStep, Waiting, Ended

\* Every step of the program and of the user keeps it.
LEMMA SessionStep == SessionInvariant /\ [SessionNext]_sessionVars => SessionInvariant'
<1> SUFFICES ASSUME SessionInvariant, [SessionNext]_sessionVars PROVE SessionInvariant'
  OBVIOUS
<1>1. CASE Rejected \/ Answered
  BY <1>1, ConsumeStep, Zenon DEF Rejected, Answered
<1>2. CASE EndOfFile \/ UNCHANGED sessionVars
  BY <1>2, Zenon DEF EndOfFile, sessionVars, SessionInvariant, SessionTypes, ReadsInStep
<1>3. CASE \E line \in Lines : Type(line) \/ CloseInput(line)
  BY <1>3, TypeStep, Zenon
<1> QED
  BY <1>1, <1>2, <1>3, Zenon DEF SessionNext, ProgramStep

\* Whatever the lines and however long, and for every size of the buffer, each
\* read consumes exactly one typed line (read_line of utils.c).
THEOREM ReadsStayInStep == SessionSpec => []ReadsInStep
<1>1. SessionInvariant => ReadsInStep
  BY Zenon DEF SessionInvariant
<1> QED
  BY SessionStarts, SessionStep, <1>1, PTL DEF SessionSpec

-------------------------------------------------------------------------------
\* Where a text has something else than white space.
Solid(t) == {i \in 1 .. Len(t) : t[i] # " "}

\* Trim cuts from the first to the last character that is not white space.
LEMMA TrimIs ==
  ASSUME NEW S, NEW t \in Seq(S)
  PROVE  IF Solid(t) = {} THEN Trim(t) = <<>>
         ELSE \E i, j \in Solid(t) : /\ Trim(t) = SubSeq(t, i, j)
                                     /\ \A k \in Solid(t) : i <= k /\ k <= j
<1> DEFINE U == Solid(t)
           first == SelectInSeq(t, LAMBDA c : c # " ")
           last == SelectLastInSeq(t, LAMBDA c : c # " ")
<1>1. first = IF U = {} THEN 0 ELSE Min(U)
  BY Zenon DEF SelectInSeq, Solid
<1>2. last = IF U = {} THEN 0 ELSE Max(U)
  BY Zenon DEF SelectLastInSeq, Solid
<1>3. Trim(t) = IF first = 0 THEN <<>> ELSE SubSeq(t, first, last)
  BY Zenon DEF Trim
<1>4. U \in SUBSET (1 .. Len(t))
  BY Zenon DEF Solid
<1>5. Len(t) \in Nat
  BY LenProperties
<1> HIDE DEF first, last, U
<1>6. CASE U = {}
  BY <1>1, <1>3, <1>6, Zenon DEF U
<1>7. CASE U # {}
  <2>1. Min(U) \in U /\ \A m \in U : Min(U) <= m
    <3>1. U \in SUBSET Nat
      BY <1>4, <1>5
    <3> QED
      BY <1>7, <3>1, LeastNumber, Zenon
  <2>2. Max(U) \in U /\ \A m \in U : m <= Max(U)
    BY <1>4, <1>5, <1>7, GreatestNumber, Zenon
  <2>3. Min(U) # 0
    BY <1>4, <1>5, <2>1
  <2>4. Trim(t) = SubSeq(t, Min(U), Max(U))
    BY <1>1, <1>2, <1>3, <1>7, <2>3, Zenon
  <2> QED
    BY <1>7, <2>1, <2>2, <2>4, Zenon DEF U
<1> QED
  BY <1>6, <1>7, Zenon

\* A number and a text are never nothing.
LEMMA AcceptsSomething ==
  ASSUME NEW question, NEW text, Accepts(question, text)
  PROVE  text # <<>>
<1> SUFFICES ASSUME text = <<>> PROVE FALSE
  OBVIOUS
<1>1. IsNumber(<<>>)
  BY Zenon DEF Accepts
<1>2. SelectInSeq(<<>>, LAMBDA c : c # " ") # 0
  BY <1>1, Zenon DEF IsNumber
<1> DEFINE U == {i \in 1 .. Len(<<>>) : <<>>[i] # " "}
<1>3. SelectInSeq(<<>>, LAMBDA c : c # " ") = IF U # {} THEN Min(U) ELSE 0
  BY Zenon DEF SelectInSeq
<1>4. Len(<<>>) = 0 /\ 1 .. 0 = {}
  BY EmptySeq
<1>5. U = {}
  BY <1>4, Zenon
<1> QED
  BY <1>2, <1>3, <1>5, Zenon

\* The line a read makes is what the buffer holds of the first unanswered line.
LEMMA SeenOfLine ==
  ASSUME SessionInvariant, stdin # <<>>
  PROVE  /\ unanswered[1] \in Seq(Typed)
         /\ LineOf(stdin, BufferSize) = SubSeq(unanswered[1], 1, Room(Len(unanswered[1])))
<1> DEFINE l == unanswered[1]
<1>1. /\ l \in Seq(Typed) /\ NoNewline(l)
      /\ (\E rest \in Seq(Typed) : stdin = (l \o <<"nl">>) \o rest) \/ stdin = l
  BY NextLine, Zenon
<1> HIDE DEF l
<1> QED
  BY <1>1, LineOfRest, LineOfEnd, Zenon DEF l

\* An accepted text, a number or a text that is not empty, is cut from that line.
LEMMA AnswerStep ==
  ASSUME SessionInvariant, Answered
  PROVE  \E i, j \in 1 .. BufferSize - 1 :
           /\ {i, j} \subseteq DOMAIN unanswered[1] /\ Text = SubSeq(unanswered[1], i, j)
           /\ unanswered[1][i] # " " /\ unanswered[1][j] # " "
           /\ \A k \in DOMAIN unanswered[1] \ (i .. j) : k < BufferSize => unanswered[1][k] = " "
<1> DEFINE l == unanswered[1]
           m == Room(Len(l))
           t == SubSeq(l, 1, m)
<1>1. stdin # <<>> /\ Text # <<>>
  BY AcceptsSomething, Zenon DEF Answered, Consume
<1>2. l \in Seq(Typed) /\ Text = Trim(t)
  BY <1>1, SeenOfLine, Zenon DEF Text
<1>3. Len(l) \in Nat /\ DOMAIN l = 1 .. Len(l) /\ BufferSize \in Nat /\ BufferSize >= 2
  BY <1>2, LenProperties, SessionAssumption
<1>4. m \in 0 .. Len(l) /\ m <= BufferSize - 1 /\ \A k \in 1 .. Len(l) : k < BufferSize => k <= m
  BY <1>3 DEF Room
<1> HIDE DEF l, m
<1>5. /\ t \in Seq(Typed) /\ Len(t) = m /\ \A i \in 1 .. m : t[i] = l[i]
  <2>1. \A i \in 1 .. m : l[i] \in Typed
    BY <1>2, <1>3, <1>4, ElementOfSeq
  <2>2. /\ t \in Seq(Typed) /\ Len(t) = (IF 1 <= m THEN m - 1 + 1 ELSE 0)
        /\ \A i \in 1 .. m - 1 + 1 : t[i] = l[1 + i - 1]
    BY <1>3, <1>4, <2>1, SubSeqProperties
  <2> HIDE DEF t
  <2> QED
    BY <1>3, <1>4, <2>2
<1> HIDE DEF t
<1>6. PICK i, j \in Solid(t) : /\ Text = SubSeq(t, i, j)
                               /\ \A k \in Solid(t) : i <= k /\ k <= j
  BY <1>1, <1>2, <1>5, TrimIs, Zenon
<1>7. i \in 1 .. m /\ j \in 1 .. m /\ i <= j
  BY <1>5, <1>6, Zenon DEF Solid
<1>8. /\ i \in 1 .. BufferSize - 1 /\ j \in 1 .. BufferSize - 1 /\ i \in 1 .. Len(l)
      /\ j \in 1 .. Len(l)
  BY <1>3, <1>4, <1>7
<1>9. l[i] # " " /\ l[j] # " "
  BY <1>5, <1>6, <1>7, Zenon DEF Solid
<1>10. Text = SubSeq(l, i, j)
  <2> DEFINE u == SubSeq(t, i, j)
             v == SubSeq(l, i, j)
  <2>1. \A k \in i .. j : k \in 1 .. m /\ t[k] = l[k]
    BY <1>3, <1>4, <1>5, <1>7
  <2>2. \A k \in i .. j : t[k] \in Typed /\ l[k] \in Typed
    BY <1>3, <1>4, <1>5, <2>1, ElementOfSeq
  <2>3. i \in Int /\ j \in Int
    BY <1>7, <1>4, <1>3
  <2>4. u \in Seq(Typed) /\ Len(u) = (IF i <= j THEN j - i + 1 ELSE 0)
        /\ \A k \in 1 .. j - i + 1 : u[k] = t[i + k - 1]
    BY <2>2, <2>3, SubSeqProperties
  <2>5. v \in Seq(Typed) /\ Len(v) = (IF i <= j THEN j - i + 1 ELSE 0)
        /\ \A k \in 1 .. j - i + 1 : v[k] = l[i + k - 1]
    BY <2>2, <2>3, SubSeqProperties
  <2> HIDE DEF u, v
  <2>6. \A k \in 1 .. j - i + 1 : i + k - 1 \in i .. j
    BY <2>3
  <2>7. Len(u) = Len(v) /\ \A k \in 1 .. Len(u) : k \in 1 .. j - i + 1
    BY <1>7, <2>3, <2>4, <2>5
  <2>8. \A k \in 1 .. Len(u) : u[k] = v[k]
    BY <2>1, <2>4, <2>5, <2>6, <2>7, Zenon
  <2> QED
    BY <1>6, <2>4, <2>5, <2>7, <2>8, SeqEqual, Zenon DEF u, v
<1>11. ASSUME NEW k \in DOMAIN l \ (i .. j), k < BufferSize PROVE l[k] = " "
  <2>1. k \in 1 .. m /\ ~(i <= k /\ k <= j)
    BY <1>3, <1>4, <1>7, <1>11
  <2>2. k \notin Solid(t)
    BY <1>6, <2>1, Zenon
  <2> QED
    BY <1>5, <2>1, <2>2, Zenon DEF Solid
<1>12. {i, j} \subseteq DOMAIN l
  BY <1>3, <1>8
<1> QED
  BY <1>8, <1>9, <1>10, <1>11, <1>12, Zenon DEF l

\* An answer is its own line, cut by the buffer and trimmed, and is never
\* nothing (input_string and input_int of input.c, trim of utils.c).
THEOREM AnswersAreTrimmedLines == SessionSpec => AnswerIsTrimmedLine
<1>1. SessionInvariant /\ [SessionNext]_sessionVars =>
        [Answered =>
          \E i, j \in 1 .. BufferSize - 1 :
            /\ {i, j} \subseteq DOMAIN unanswered[1] /\ Text = SubSeq(unanswered[1], i, j)
            /\ unanswered[1][i] # " " /\ unanswered[1][j] # " "
            /\ \A k \in DOMAIN unanswered[1] \ (i .. j) : k < BufferSize => unanswered[1][k] = " "]_sessionVars
  BY AnswerStep, Zenon
<1> QED
  BY SessionStarts, SessionStep, <1>1, PTL DEF SessionSpec, AnswerIsTrimmedLine
-------------------------------------------------------------------------------
(***************************************************************************)
(* The comparison and the search.                                          *)
(***************************************************************************)

\* Before is decided at the end of the common prefix.
LEMMA FirstDifference ==
  ASSUME NEW s \in Seq(Chars), NEW t \in Seq(Chars), NEW n \in Nat,
         n <= Len(s), n <= Len(t), SameUpTo(s, t, n),
         n < Len(s) /\ n < Len(t) => Lower[s[n + 1]] # Lower[t[n + 1]]
  PROVE  /\ Before(s, t) <=> n < Len(t) /\ (n = Len(s) \/ Lower[s[n + 1]] < Lower[t[n + 1]])
         /\ SameText(s, t) <=> n = Len(s) /\ n = Len(t)
<1>0. /\ Len(s) \in Nat /\ Len(t) \in Nat
      /\ \A l \in 1 .. Len(s) : Lower[s[l]] \in Nat \ {0}
      /\ \A l \in 1 .. Len(t) : Lower[t[l]] \in Nat \ {0}
  BY TextAssumption, LenProperties, ElementOfSeq
<1>1. ASSUME Before(s, t) PROVE n < Len(t) /\ (n = Len(s) \/ Lower[s[n + 1]] < Lower[t[n + 1]])
  <2>1. PICK m \in 0 .. Len(s) : /\ m < Len(t) /\ SameUpTo(s, t, m)
                                 /\ m = Len(s) \/ Lower[s[m + 1]] < Lower[t[m + 1]]
    BY <1>1 DEF Before
  <2>2. CASE m < n
    <3>1. m + 1 \in 1 .. n /\ m + 1 \in 1 .. Len(s) /\ m + 1 \in 1 .. Len(t)
      BY <1>0, <2>1, <2>2
    <3>2. Lower[s[m + 1]] = Lower[t[m + 1]] /\ m # Len(s)
      BY <1>0, <2>2, <3>1 DEF SameUpTo
    <3> QED
      BY <1>0, <2>1, <3>1, <3>2
  <2>3. CASE m > n
    <3>1. n + 1 \in 1 .. m
      BY <1>0, <2>1, <2>3
    <3>2. Lower[s[n + 1]] = Lower[t[n + 1]]
      BY <2>1, <3>1 DEF SameUpTo
    <3> QED
      BY <1>0, <2>1, <2>3, <3>2
  <2>4. CASE m = n
    BY <2>1, <2>4
  <2> QED
    BY <1>0, <2>1, <2>2, <2>3, <2>4
<1>2. ASSUME n < Len(t), n = Len(s) \/ Lower[s[n + 1]] < Lower[t[n + 1]] PROVE Before(s, t)
  BY <1>0, <1>2 DEF Before
<1>3. ASSUME SameText(s, t) PROVE n = Len(s) /\ n = Len(t)
  <2>1. CASE n < Len(s)
    <3>1. n + 1 \in 1 .. Len(s)
      BY <1>0, <2>1
    <3>2. Lower[s[n + 1]] = Lower[t[n + 1]]
      BY <1>3, <3>1 DEF SameText, SameUpTo
    <3> QED
      BY <1>3, <2>1, <3>2 DEF SameText
  <2> QED
    BY <1>0, <1>3, <2>1 DEF SameText
<1>4. ASSUME n = Len(s), n = Len(t) PROVE SameText(s, t)
  BY <1>4 DEF SameText
<1> QED
  BY <1>1, <1>2, <1>3, <1>4

\* Agreeing up to a place is symmetric.
LEMMA SameUpToSymmetric ==
  ASSUME NEW s, NEW t, NEW n \in Nat, SameUpTo(s, t, n) PROVE SameUpTo(t, s, n)
BY DEF SameUpTo

\* The loop invariants hold where the loops begin.
LEMMA TextInit == CaseInit => TextInvariant
<1> SUFFICES ASSUME CaseInit PROVE TextInvariant
  OBVIOUS
<1> QED
  BY TextAssumption, LenProperties
  DEF CaseInit, TextInvariant, TextTypes, CompareInvariant,
      SearchInvariant, SameUpTo,
      ComparesAlphabetically, FindsOccurrence

\* A step of the comparison keeps its loop invariant: the pointers move on only
\* while the characters agree but for case.
LEMMA CompareStep ==
  ASSUME TextInvariant, [CaseNext]_caseVars, textPc \in {"compare", "compared"}
  PROVE  TextTypes' /\ CompareInvariant' /\ textPc' \in {"compare", "compared"}
<1>0. /\ TextTypes /\ CompareInvariant /\ Len(haystack) \in Nat /\ Len(needle) \in Nat
      /\ \A l \in 1 .. Len(haystack) : Lower[haystack[l]] \in Nat \ {0}
      /\ \A l \in 1 .. Len(needle) : Lower[needle[l]] \in Nat \ {0}
  BY TextAssumption, LenProperties, ElementOfSeq DEF TextInvariant, TextTypes
<1> USE <1>0 DEF TextTypes
<1>1. CASE Advance
  <2>1. /\ textPc = "compare" /\ place < Len(haystack) /\ place < Len(needle)
        /\ Lower[haystack[place + 1]] = Lower[needle[place + 1]]
        /\ place' = place + 1 /\ UNCHANGED <<haystack, needle, textPc, inner, answer>>
    BY <1>1 DEF Advance, InBoth, LetterAt
  <2>2. SameUpTo(haystack, needle, place + 1)
    BY <2>1 DEF CompareInvariant, SameUpTo
  <2> QED
    BY <2>1, <2>2, SMTT(30) DEF CompareInvariant, ComparesAlphabetically, SameUpTo
<1>2. CASE Differ \/ End
  <2>1. /\ textPc = "compare" /\ textPc' = "compared"
        /\ UNCHANGED <<haystack, needle, place, inner>>
        /\ answer' = LetterAt(haystack) - LetterAt(needle)
        /\ place < Len(haystack) /\ place < Len(needle) => LetterAt(haystack) # LetterAt(needle)
    BY <1>2 DEF Differ, End, Return, EndValue, InBoth
  <2>2. /\ place < Len(haystack) =>
             LetterAt(haystack) = Lower[haystack[place + 1]] /\ LetterAt(haystack) \in Nat \ {0}
        /\ place < Len(needle) =>
             LetterAt(needle) = Lower[needle[place + 1]] /\ LetterAt(needle) \in Nat \ {0}
        /\ place = Len(haystack) => LetterAt(haystack) = 0
        /\ place = Len(needle) => LetterAt(needle) = 0
    BY DEF LetterAt
  <2>3. /\ place <= Len(haystack) /\ place <= Len(needle) /\ SameUpTo(haystack, needle, place)
        /\ SameUpTo(needle, haystack, place)
    BY <2>1, SameUpToSymmetric DEF CompareInvariant
  <2>4. place < Len(haystack) /\ place < Len(needle) => Lower[haystack[place + 1]] # Lower[needle[place + 1]]
    BY <2>1, <2>2
  <2>5. /\ Before(haystack, needle) <=>
             place < Len(needle) /\ (place = Len(haystack) \/ Lower[haystack[place + 1]] < Lower[needle[place + 1]])
        /\ SameText(haystack, needle) <=> place = Len(haystack) /\ place = Len(needle)
    BY <2>3, <2>4, FirstDifference
  <2>6. Before(needle, haystack) <=>
          place < Len(haystack) /\ (place = Len(needle) \/ Lower[needle[place + 1]] < Lower[haystack[place + 1]])
    BY <2>3, <2>4, FirstDifference
  <2>7. /\ answer' < 0 <=> Before(haystack, needle)
        /\ answer' = 0 <=> SameText(haystack, needle)
        /\ answer' > 0 <=> Before(needle, haystack)
    BY <2>1, <2>2, <2>3, <2>5, <2>6
  <2>8. ComparesAlphabetically'
    BY <2>1, <2>7 DEF ComparesAlphabetically, Before, SameText, SameUpTo
  <2>9. answer' \in Int
    BY <2>1, <2>2, <2>3
  <2> QED
    BY <2>1, <2>8, <2>9 DEF CompareInvariant
<1>3. CASE UNCHANGED caseVars
  BY <1>3
  DEF caseVars, CompareInvariant, ComparesAlphabetically, Before, SameText,
      SameUpTo
<1> QED
  BY <1>1, <1>2, <1>3
  DEF CaseNext, Step, Over, EmptyNeedle, Begin, EnterInner,
      NotFound, Match, Found, TryNext, LeaveInner

\* A step of the search keeps its: every start left behind has been seen to differ
\* somewhere, or not to have room for the text.
LEMMA SearchStep ==
  ASSUME TextInvariant, [CaseNext]_caseVars, textPc \in {"start", "outer", "inner", "searched"}
  PROVE  /\ TextTypes' /\ SearchInvariant'
         /\ textPc' \in {"start", "outer", "inner", "searched"}
<1>0. TextTypes /\ SearchInvariant /\ Len(haystack) \in Nat /\ Len(needle) \in Nat
  BY LenProperties DEF TextInvariant, TextTypes
<1> USE <1>0 DEF TextTypes
<1>1. CASE EmptyNeedle
  <2>1. OccursAt(0)
    BY <1>1 DEF EmptyNeedle, OccursAt
  <2> QED
    BY <1>1, <2>1
    DEF EmptyNeedle, Return, SearchInvariant, FindsOccurrence, OccursAt
<1>2. CASE Begin
  BY <1>2 DEF Begin, SearchInvariant, FindsOccurrence, OccursAt
<1>3. CASE EnterInner
  BY <1>3 DEF EnterInner, SearchInvariant, FindsOccurrence, OccursAt
<1>4. CASE NotFound
  <2>1. Len(needle) > 0
    BY <1>4, EmptySeq DEF NotFound, SearchInvariant
  <2>2. ASSUME NEW k \in 0 .. Len(haystack) PROVE ~OccursAt(k)
    <3>1. CASE k < place
      BY <1>4, <3>1 DEF NotFound, SearchInvariant
    <3>2. CASE k = Len(haystack)
      BY <2>1, <3>2 DEF OccursAt
    <3> QED
      BY <1>4, <3>1, <3>2 DEF NotFound
  <2> QED
    BY <1>4, <2>2
    DEF NotFound, Return, SearchInvariant, FindsOccurrence, OccursAt
<1>5. CASE Match
  <2>1. /\ textPc = "inner" /\ inner < Len(needle) /\ place + inner < Len(haystack)
        /\ inner' = inner + 1
        /\ Lower[haystack[place + (inner + 1)]] = Lower[needle[inner + 1]]
        /\ UNCHANGED <<haystack, needle, textPc, place, answer>>
    BY <1>5 DEF Match, Matches
  <2>2. \A l \in 1 .. inner' : Lower[haystack[place + l]] = Lower[needle[l]]
    BY <2>1 DEF SearchInvariant
  <2> QED
    BY <2>1, <2>2 DEF SearchInvariant, FindsOccurrence, OccursAt
<1>6. CASE Found
  <2>1. OccursAt(place) /\ place \in 0 .. Len(haystack)
    BY <1>6 DEF Found, LeaveInner, SearchInvariant, OccursAt
  <2> QED
    BY <1>6, <2>1
    DEF Found, LeaveInner, Return, SearchInvariant, FindsOccurrence,
        OccursAt
<1>7. CASE TryNext
  <2>1. /\ textPc = "inner" /\ ~Matches /\ inner < Len(needle) /\ place' = place + 1
        /\ textPc' = "outer"
        /\ place < Len(haystack) /\ UNCHANGED <<haystack, needle, inner, answer>>
    BY <1>7 DEF TryNext, LeaveInner, SearchInvariant, NextStart
  <2>2. ~OccursAt(place)
    <3>1. CASE place + inner < Len(haystack)
      <4>1. Lower[haystack[place + (inner + 1)]] # Lower[needle[inner + 1]]
        BY <2>1, <3>1 DEF Matches
      <4>2. inner + 1 \in 1 .. Len(needle)
        BY <2>1
      <4> QED
        BY <4>1, <4>2, Zenon DEF OccursAt
    <3>2. CASE place + inner >= Len(haystack)
      BY <2>1, <3>2 DEF OccursAt
    <3> QED
      BY <3>1, <3>2
  <2>3. \A k \in 0 .. place' - 1 : ~OccursAt(k)
    BY <2>1, <2>2 DEF SearchInvariant
  <2> QED
    BY <2>1, <2>3 DEF SearchInvariant, FindsOccurrence, OccursAt
<1>8. CASE UNCHANGED caseVars
  BY <1>8 DEF caseVars, SearchInvariant, FindsOccurrence, OccursAt
<1> QED
  BY <1>1, <1>2, <1>3, <1>4, <1>5, <1>6, <1>7, <1>8
  DEF CaseNext, Step, Over, Advance, Differ, End

\* The loop invariants of both functions.
THEOREM TextInvariantHolds == CaseSpec => []TextInvariant
<1>1. CaseInit => TextInvariant
  BY TextInit
<1>2. TextInvariant /\ [CaseNext]_caseVars => TextInvariant'
  <2> SUFFICES ASSUME TextInvariant, [CaseNext]_caseVars PROVE TextInvariant'
    OBVIOUS
  <2>1. CASE textPc \in {"compare", "compared"}
    BY <2>1, CompareStep DEF TextInvariant, SearchInvariant, FindsOccurrence
  <2>2. CASE textPc \in {"start", "outer", "inner", "searched"}
    BY <2>2, SearchStep
    DEF TextInvariant, CompareInvariant, ComparesAlphabetically
  <2> QED
    BY <2>1, <2>2 DEF TextInvariant, TextTypes
<1> QED
  BY <1>1, <1>2, PTL DEF CaseSpec

\* str_casecmp_portable returns a number whose sign is the alphabetical order
\* of the two texts whatever their case, for every two texts.
THEOREM CompareCorrect == CaseSpec => []ComparesAlphabetically
<1>1. TextInvariant => ComparesAlphabetically
  BY DEF TextInvariant, CompareInvariant
<1> QED
  BY <1>1, TextInvariantHolds, PTL

\* str_casestr_portable answers whether the one text is in the other, but for
\* case, whatever the texts.
THEOREM SearchCorrect == CaseSpec => []FindsOccurrence
<1>1. TextInvariant => FindsOccurrence
  BY DEF TextInvariant, SearchInvariant
<1> QED
  BY <1>1, TextInvariantHolds, PTL

\* Neither function reads a byte behind the end of a text.
THEOREM LoopsReadInside == CaseSpec => []ReadsInside
<1>1. TextInvariant => ReadsInside
  BY DEF TextInvariant, CompareInvariant, SearchInvariant, ReadsInside
<1> QED
  BY <1>1, TextInvariantHolds, PTL

\* The order of the comparison is one a sort may rely on: it is transitive, it
\* never puts two texts both ways, and texts it calls equal are interchangeable.
THEOREM AlphabeticalOrder ==
  ASSUME NEW s \in Seq(Chars), NEW t \in Seq(Chars), NEW u \in Seq(Chars)
  PROVE  /\ ~(Before(s, t) /\ Before(t, s))
         /\ ~(Before(s, t) /\ SameText(s, t))
         /\ Before(s, t) /\ Before(t, u) => Before(s, u)
         /\ SameText(s, t) /\ Before(t, u) => Before(s, u)
         /\ Before(s, t) /\ SameText(t, u) => Before(s, u)
<1>0. /\ Len(s) \in Nat /\ Len(t) \in Nat /\ Len(u) \in Nat
      /\ \A l \in 1 .. Len(s) : Lower[s[l]] \in Nat \ {0}
      /\ \A l \in 1 .. Len(t) : Lower[t[l]] \in Nat \ {0}
      /\ \A l \in 1 .. Len(u) : Lower[u[l]] \in Nat \ {0}
  BY TextAssumption, LenProperties, ElementOfSeq
<1>1. ASSUME Before(s, t)
      PROVE  ~Before(t, s) /\ ~SameText(s, t)
  <2>1. PICK n \in 0 .. Len(s) : /\ n < Len(t) /\ SameUpTo(s, t, n)
                                 /\ n = Len(s) \/ Lower[s[n + 1]] < Lower[t[n + 1]]
    BY <1>1 DEF Before
  <2>2. n \in Nat /\ n <= Len(s) /\ n <= Len(t) /\ SameUpTo(t, s, n)
    BY <1>0, <2>1, SameUpToSymmetric
  <2>3. n < Len(s) /\ n < Len(t) => /\ Lower[s[n + 1]] # Lower[t[n + 1]]
                                    /\ ~(Lower[t[n + 1]] < Lower[s[n + 1]])
    BY <1>0, <2>1
  <2>4. Before(t, s) <=> n < Len(s) /\ (n = Len(t) \/ Lower[t[n + 1]] < Lower[s[n + 1]])
    BY <2>2, <2>3, FirstDifference
  <2>5. SameText(s, t) <=> n = Len(s) /\ n = Len(t)
    BY <2>1, <2>2, <2>3, FirstDifference
  <2> QED
    BY <1>0, <2>1, <2>2, <2>3, <2>4, <2>5
<1>2. ASSUME Before(s, t), Before(t, u)
      PROVE  Before(s, u)
  <2>1. PICK m \in 0 .. Len(s) : /\ m < Len(t) /\ SameUpTo(s, t, m)
                                 /\ m = Len(s) \/ Lower[s[m + 1]] < Lower[t[m + 1]]
    BY <1>2 DEF Before
  <2>2. PICK n \in 0 .. Len(t) : /\ n < Len(u) /\ SameUpTo(t, u, n)
                                 /\ n = Len(t) \/ Lower[t[n + 1]] < Lower[u[n + 1]]
    BY <1>2 DEF Before
  <2>3. CASE m <= n
    <3>1. SameUpTo(s, u, m) /\ m < Len(u)
      BY <1>0, <2>1, <2>2, <2>3 DEF SameUpTo
    <3>2. m = Len(s) \/ Lower[s[m + 1]] < Lower[u[m + 1]]
      <4>1. CASE m < n
        <5>1. m + 1 \in 1 .. n
          BY <1>0, <2>1, <2>2, <4>1
        <5>2. Lower[t[m + 1]] = Lower[u[m + 1]]
          BY <2>2, <5>1 DEF SameUpTo
        <5> QED
          BY <2>1, <5>2
      <4>2. CASE m = n /\ m < Len(s)
        <5>1. /\ Lower[s[m + 1]] < Lower[t[m + 1]] /\ Lower[t[m + 1]] < Lower[u[m + 1]]
              /\ m + 1 \in 1 .. Len(s) /\ m + 1 \in 1 .. Len(t) /\ m + 1 \in 1 .. Len(u)
          BY <1>0, <2>1, <2>2, <4>2
        <5> QED
          BY <1>0, <5>1
      <4> QED
        BY <1>0, <2>1, <2>3, <4>1, <4>2
    <3> QED
      BY <2>1, <3>1, <3>2 DEF Before
  <2>4. CASE n < m
    <3>1. SameUpTo(s, u, n) /\ n \in 0 .. Len(s)
      BY <1>0, <2>1, <2>2, <2>4 DEF SameUpTo
    <3>2. Lower[s[n + 1]] = Lower[t[n + 1]] /\ n # Len(t)
      <4>1. n + 1 \in 1 .. m
        BY <1>0, <2>1, <2>2, <2>4
      <4> QED
        BY <1>0, <2>1, <2>4, <4>1 DEF SameUpTo
    <3> QED
      BY <2>2, <3>1, <3>2 DEF Before
  <2> QED
    BY <1>0, <2>1, <2>2, <2>3, <2>4
<1>3. ASSUME SameText(s, t), Before(t, u)
      PROVE  Before(s, u)
  <2>1. PICK n \in 0 .. Len(t) : /\ n < Len(u) /\ SameUpTo(t, u, n)
                                 /\ n = Len(t) \/ Lower[t[n + 1]] < Lower[u[n + 1]]
    BY <1>3 DEF Before
  <2>2. Len(s) = Len(t) /\ \A l \in 1 .. Len(t) : Lower[s[l]] = Lower[t[l]]
    BY <1>3 DEF SameText, SameUpTo
  <2>3. SameUpTo(s, u, n)
    BY <1>0, <2>1, <2>2 DEF SameUpTo
  <2>4. n = Len(s) \/ Lower[s[n + 1]] < Lower[u[n + 1]]
    <3>1. n < Len(t) => n + 1 \in 1 .. Len(t)
      BY <1>0
    <3> QED
      BY <1>0, <2>1, <2>2, <3>1
  <2> QED
    BY <2>1, <2>2, <2>3, <2>4 DEF Before
<1>4. ASSUME Before(s, t), SameText(t, u)
      PROVE  Before(s, u)
  <2>1. PICK n \in 0 .. Len(s) : /\ n < Len(t) /\ SameUpTo(s, t, n)
                                 /\ n = Len(s) \/ Lower[s[n + 1]] < Lower[t[n + 1]]
    BY <1>4 DEF Before
  <2>2. Len(t) = Len(u) /\ \A l \in 1 .. Len(t) : Lower[t[l]] = Lower[u[l]]
    BY <1>4 DEF SameText, SameUpTo
  <2>3. SameUpTo(s, u, n)
    BY <1>0, <2>1, <2>2 DEF SameUpTo
  <2>4. n + 1 \in 1 .. Len(t)
    BY <1>0, <2>1
  <2> QED
    BY <2>1, <2>2, <2>3, <2>4 DEF Before
<1> QED
  BY <1>1, <1>2, <1>3, <1>4

-------------------------------------------------------------------------------
(* Texts that are read from the front *)

\* What a recursion over the ends of a text computes that takes first[s] from
\* the front of s and goes on with next[s]: the lines, the books, the tokens.
IsUnfolded(f, D, first, next) ==
  f = [s \in D |-> IF s = <<>> THEN <<>> ELSE first[s] \o f[next[s]]]

\* On D such a recursion stays in D and comes to an end.
Descends(D, S, X, first, next) ==
  /\ D \subseteq Seq(S)
  /\ \A s \in D : s # <<>> => first[s] \in Seq(X) /\ next[s] \in D /\ Len(next[s]) < Len(s)

\* The recursion has a result, by induction on the length,
LEMMA UnfoldExists ==
  ASSUME NEW S, NEW X, NEW D, NEW first, NEW next, Descends(D, S, X, first, next),
         NEW N \in Nat, \A s \in D : Len(s) <= N
  PROVE  \E f \in [D -> Seq(X)] : IsUnfolded(f, D, first, next)
<1> DEFINE E(n) == {s \in D : Len(s) <= n}
           Good(f, n) == f \in [E(n) -> Seq(X)] /\ IsUnfolded(f, E(n), first, next)
           U == {n \in Nat : \E f : Good(f, n)}
<1>0. /\ \A s \in D : Len(s) \in Nat /\ (s = <<>> <=> Len(s) = 0)
      /\ \A s \in D : s # <<>> => first[s] \in Seq(X) /\ next[s] \in D /\ Len(next[s]) < Len(s)
  <2>1. \A s \in D : s \in Seq(S)
    BY Zenon DEF Descends
  <2>2. \A s \in D : Len(s) \in Nat /\ (s = <<>> <=> Len(s) = 0)
    BY <2>1, EmptySeq, LenProperties
  <2> QED
    BY <2>2, Zenon DEF Descends
<1>1. 0 \in U
  <2> DEFINE f == [s \in E(0) |-> <<>>]
  <2>1. \A s \in E(0) : s = <<>>
    BY <1>0
  <2>2. f = [s \in E(0) |-> IF s = <<>> THEN <<>> ELSE first[s] \o f[next[s]]]
    BY <2>1, Zenon
  <2>3. IsUnfolded(f, E(0), first, next)
    BY <2>2, Zenon DEF IsUnfolded
  <2>4. <<>> \in Seq(X)
    BY EmptySeq, Zenon
  <2>5. f \in [E(0) -> Seq(X)]
    BY <2>4, Zenon
  <2> QED
    BY <2>3, <2>5
<1>2. ASSUME NEW n \in U PROVE n + 1 \in U
  <2>1. n \in Nat /\ n + 1 \in Nat
    OBVIOUS
  <2>2. PICK f : Good(f, n)
    BY Zenon
  <2> DEFINE value(s) == IF s = <<>> THEN <<>> ELSE first[s] \o f[next[s]]
             g == [s \in E(n + 1) |-> value(s)]
  <2>3. \A s \in E(n + 1) : s # <<>> => next[s] \in E(n)
    <3> TAKE s \in E(n + 1)
    <3> HAVE s # <<>>
    <3> DEFINE left == next[s]
    <3>1. s \in D /\ Len(s) <= n + 1 /\ Len(s) \in Nat /\ left \in D /\ Len(left) < Len(s)
          /\ Len(left) \in Nat
      BY <1>0, Zenon
    <3> HIDE DEF left
    <3>2. Len(left) <= n
      BY <2>1, <3>1
    <3> QED
      BY <3>1, <3>2, Zenon DEF left
  <2>4. \A s \in E(n) : s \in E(n + 1) /\ f[s] = value(s)
    <3>1. \A s \in E(n) : Len(s) <= n + 1
      BY <1>0, <2>1
    <3>2. f = [s \in E(n) |-> value(s)]
      BY <2>2, Zenon DEF IsUnfolded
    <3> QED
      BY <3>1, <3>2, Zenon
  <2> HIDE DEF Good, U
  <2>5. \A s \in E(n) : g[s] = f[s]
    BY <2>4, Zenon
  <2>6. g = [s \in E(n + 1) |-> IF s = <<>> THEN <<>> ELSE first[s] \o g[next[s]]]
    BY <2>3, <2>5, Zenon
  <2>7. IsUnfolded(g, E(n + 1), first, next)
    BY <2>6, Zenon DEF IsUnfolded
  <2>8. \A s \in E(n + 1) : value(s) \in Seq(X)
    <3> TAKE s \in E(n + 1)
    <3>1. CASE s = <<>>
      <4>1. <<>> \in Seq(X)
        BY EmptySeq, Zenon
      <4> QED
        BY <3>1, <4>1, Zenon
    <3>2. CASE s # <<>>
      <4> DEFINE a == first[s]
                 b == f[next[s]]
      <4>1. f \in [E(n) -> Seq(X)]
        BY <2>2, Zenon DEF Good
      <4>2. b \in Seq(X)
        BY <2>3, <3>2, <4>1, Zenon
      <4>3. a \in Seq(X)
        BY <1>0, <3>2, Zenon
      <4>4. value(s) = a \o b
        BY <3>2, Zenon
      <4> HIDE DEF a, b, value
      <4>5. a \o b \in Seq(X)
        BY <4>2, <4>3, ConcatProperties, Zenon
      <4> QED
        BY <4>4, <4>5, Zenon
    <3> QED
      BY <3>1, <3>2, Zenon
  <2>9. g \in [E(n + 1) -> Seq(X)]
    BY <2>8, Zenon
  <2>10. Good(g, n + 1)
    BY <2>7, <2>9, Zenon DEF Good
  <2> QED
    BY <2>1, <2>10, Zenon DEF U
<1>3. U = Nat
  <2>1. U \in SUBSET Nat
    OBVIOUS
  <2> HIDE DEF U
  <2> QED
    BY <1>1, <1>2, <2>1, Induction, Zenon
<1>4. E(N) = D
  OBVIOUS
<1>5. \E f : Good(f, N)
  <2>1. \A n \in U : \E f : Good(f, n)
    BY Zenon
  <2> HIDE DEF Good, U
  <2> QED
    BY <1>3, <2>1, Zenon
<1> QED
  BY <1>4, <1>5, Zenon

\* and one result for a text, whatever set of texts it is part of.
LEMMA UnfoldUnique ==
  ASSUME NEW S, NEW X, NEW first, NEW next,
         NEW D, Descends(D, S, X, first, next), NEW E, Descends(E, S, X, first, next),
         NEW f, IsUnfolded(f, D, first, next), NEW g, IsUnfolded(g, E, first, next),
         NEW t \in D, t \in E
  PROVE  f[t] = g[t]
<1> DEFINE U == {n \in Nat : \A s \in D \cap E : Len(s) <= n => f[s] = g[s]}
<1>0. /\ \A s \in D \cap E : Len(s) \in Nat /\ (s = <<>> <=> Len(s) = 0)
      /\ \A s \in D \cap E : s # <<>> => next[s] \in D \cap E /\ Len(next[s]) < Len(s)
  <2>1. \A s \in D \cap E : s \in Seq(S)
    BY Zenon DEF Descends
  <2>2. \A s \in D \cap E : Len(s) \in Nat /\ (s = <<>> <=> Len(s) = 0)
    BY <2>1, EmptySeq, LenProperties
  <2> QED
    BY <2>2, Zenon DEF Descends
<1>1. /\ \A s \in D : f[s] = IF s = <<>> THEN <<>> ELSE first[s] \o f[next[s]]
      /\ \A s \in E : g[s] = IF s = <<>> THEN <<>> ELSE first[s] \o g[next[s]]
  BY Zenon DEF IsUnfolded
<1>2. 0 \in U
  <2>1. \A s \in D \cap E : Len(s) <= 0 => s = <<>>
    BY <1>0
  <2>2. \A s \in D \cap E : Len(s) <= 0 => f[s] = g[s]
    BY <1>1, <2>1, Zenon
  <2> QED
    BY <2>2
<1>3. ASSUME NEW n \in U PROVE n + 1 \in U
  <2>1. n \in Nat /\ n + 1 \in Nat /\ \A s \in D \cap E : Len(s) <= n => f[s] = g[s]
    OBVIOUS
  <2>2. \A s \in D \cap E : Len(s) <= n + 1 => f[s] = g[s]
    <3> TAKE s \in D \cap E
    <3> HAVE Len(s) <= n + 1
    <3> DEFINE left == next[s]
    <3>1. s # <<>> => left \in D \cap E /\ Len(left) < Len(s) /\ Len(left) \in Nat /\ Len(s) \in Nat
      BY <1>0, Zenon
    <3> HIDE DEF left
    <3>2. s # <<>> => f[left] = g[left]
      <4>1. s # <<>> => Len(left) <= n
        BY <2>1, <3>1
      <4> QED
        BY <2>1, <3>1, <4>1, Zenon
    <3> QED
      BY <1>1, <3>2, Zenon DEF left
  <2> QED
    BY <2>1, <2>2, Zenon
<1>4. U = Nat
  <2>1. U \in SUBSET Nat
    OBVIOUS
  <2> HIDE DEF U
  <2> QED
    BY <1>2, <1>3, <2>1, Induction, Zenon
<1>5. Len(t) \in U /\ Len(t) \in Nat /\ Len(t) <= Len(t)
  <2>1. Len(t) \in Nat
    BY <1>0
  <2> HIDE DEF U
  <2> QED
    BY <1>4, <2>1
<1> QED
  BY <1>5, Zenon

\* The end of a text from a place on.
EndFrom(text, i) == SubSeq(text, i, Len(text))

LEMMA EndFromIs ==
  ASSUME NEW S, NEW text \in Seq(S), NEW i \in 1 .. Len(text) + 1
  PROVE  /\ EndFrom(text, i) \in Seq(S)
         /\ Len(EndFrom(text, i)) = Len(text) + 1 - i
         /\ \A k \in 1 .. Len(text) + 1 - i : EndFrom(text, i)[k] = text[i - 1 + k]
<1> DEFINE t == EndFrom(text, i)
           n == Len(text)
<1>1. n \in Nat /\ \A k \in 1 .. n : text[k] \in S
  BY LenProperties, ElementOfSeq
<1>2. i \in 1 .. n + 1 /\ t = SubSeq(text, i, n)
  BY Zenon DEF EndFrom
<1> HIDE DEF n, t
<1>3. \A k \in i .. n : text[k] \in S
  BY <1>1, <1>2
<1>4. /\ t \in Seq(S) /\ Len(t) = IF i <= n THEN n - i + 1 ELSE 0
      /\ \A k \in 1 .. n - i + 1 : t[k] = text[i + k - 1]
  BY <1>1, <1>2, <1>3, SubSeqProperties
<1>5. n - i + 1 = n + 1 - i /\ Len(t) = n + 1 - i
  BY <1>1, <1>2, <1>4
<1>6. \A k \in 1 .. n + 1 - i : i + k - 1 = i - 1 + k
  BY <1>1, <1>2
<1>7. \A k \in 1 .. n + 1 - i : t[k] = text[i - 1 + k]
  BY <1>4, <1>5, <1>6, Zenon
<1> QED
  BY <1>4, <1>5, <1>7, Zenon DEF n, t

\* An end of an end is an end.
LEMMA EndOfEnd ==
  ASSUME NEW S, NEW text \in Seq(S), NEW i \in 1 .. Len(text) + 1,
         NEW k \in 0 .. Len(text) + 1 - i
  PROVE  EndFrom(EndFrom(text, i), k + 1) = EndFrom(text, i + k)
<1> DEFINE n == Len(text)
           j == i + k
           s == EndFrom(text, i)
           t == EndFrom(text, j)
           u == EndFrom(s, k + 1)
<1>1. n \in Nat
  BY LenProperties
<1>2. i \in 1 .. n + 1 /\ k \in 0 .. n + 1 - i
  BY Zenon
<1>3. s \in Seq(S) /\ Len(s) = n + 1 - i /\ \A m \in 1 .. n + 1 - i : s[m] = text[i - 1 + m]
  BY EndFromIs, Zenon
<1> HIDE DEF n, s
<1>4. /\ j \in 1 .. n + 1 /\ k + 1 \in 1 .. Len(s) + 1
      /\ n + 1 - j = Len(s) + 1 - (k + 1)
  BY <1>1, <1>2, <1>3
<1>5. \A m \in 1 .. n + 1 - j : k + 1 - 1 + m \in 1 .. n + 1 - i /\ i - 1 + (k + 1 - 1 + m) = j - 1 + m
  BY <1>1, <1>2
<1> HIDE DEF j, t, u
<1>6. t \in Seq(S) /\ Len(t) = n + 1 - j /\ \A m \in 1 .. n + 1 - j : t[m] = text[j - 1 + m]
  <2>1. j \in 1 .. Len(text) + 1
    BY <1>4, Zenon DEF n
  <2> QED
    BY <2>1, EndFromIs, Zenon DEF n, t
<1>7. u \in Seq(S) /\ Len(u) = Len(s) + 1 - (k + 1) /\ \A m \in 1 .. Len(s) + 1 - (k + 1) : u[m] = s[k + 1 - 1 + m]
  <2> DEFINE k1 == k + 1
  <2>1. k1 \in 1 .. Len(s) + 1 /\ u = EndFrom(s, k1)
    BY <1>4, Zenon DEF u
  <2> HIDE DEF k1
  <2>2. s \in Seq(S)
    BY <1>3, Zenon
  <2> DEFINE v == EndFrom(s, k1)
  <2>3. v \in Seq(S) /\ Len(v) = Len(s) + 1 - k1 /\ \A m \in 1 .. Len(s) + 1 - k1 : v[m] = s[k1 - 1 + m]
    BY <2>1, <2>2, EndFromIs, Zenon
  <2> QED
    BY <2>3 DEF k1, u
<1>8. Len(u) = Len(t) /\ \A m \in 1 .. Len(u) : u[m] = t[m]
  <2>1. Len(u) = n + 1 - j /\ Len(u) = Len(t)
    BY <1>4, <1>6, <1>7, Zenon
  <2> SUFFICES ASSUME NEW m \in 1 .. n + 1 - j PROVE u[m] = t[m]
    BY <2>1, Zenon
  <2>2. u[m] = s[k + 1 - 1 + m] /\ t[m] = text[j - 1 + m]
    BY <1>4, <1>6, <1>7, Zenon
  <2>3. s[k + 1 - 1 + m] = text[j - 1 + m]
    BY <1>3, <1>5, Zenon
  <2> QED
    BY <2>2, <2>3, Zenon
<1>9. u = t
  BY <1>6, <1>7, <1>8, SeqEqual, Zenon
<1> QED
  BY <1>9, Zenon DEF t, u, s, j

\* Suffixes are the ends.
LEMMA SuffixesAreEnds ==
  ASSUME NEW S, NEW text \in Seq(S)
  PROVE  /\ Suffixes(text) = {EndFrom(text, i) : i \in 1 .. Len(text) + 1}
         /\ EndFrom(text, 1) = text
         /\ Suffixes(text) \subseteq Seq(S)
<1> DEFINE n == Len(text)
<1>1. /\ n \in Nat /\ n + 1 \in 1 .. n + 1 /\ 1 \in 1 .. n + 1
      /\ \A i \in 1 .. n : i \in 1 .. n + 1
      /\ \A i \in 1 .. n + 1 : i \in 1 .. n \/ i = n + 1
  BY LenProperties
<1>2. Suffixes(text) = {EndFrom(text, i) : i \in 1 .. n} \cup {<<>>}
  BY Zenon DEF Suffixes, EndFrom
<1>3. EndFrom(text, n + 1) = <<>>
  <2>1. n < n + 1 /\ n + 1 \in Int /\ n \in Int
    BY <1>1
  <2> QED
    BY <2>1, SubSeqEmpty, Zenon DEF EndFrom
<1>4. EndFrom(text, 1) = text
  <2> DEFINE t == EndFrom(text, 1)
  <2>1. t \in Seq(S) /\ Len(t) = n + 1 - 1 /\ \A k \in 1 .. n + 1 - 1 : t[k] = text[1 - 1 + k]
    BY <1>1, EndFromIs, Zenon
  <2>2. n + 1 - 1 = n /\ \A k \in 1 .. n : 1 - 1 + k = k
    BY <1>1
  <2> HIDE DEF t
  <2>3. Len(text) = Len(t) /\ \A k \in 1 .. Len(text) : text[k] = t[k]
    BY <2>1, <2>2, Zenon
  <2>4. text = t
    BY <2>1, <2>3, SeqEqual, Zenon
  <2> QED
    BY <2>4, Zenon DEF t
<1> HIDE DEF n
<1>5. Suffixes(text) = {EndFrom(text, i) : i \in 1 .. n + 1}
  <2>1. ASSUME NEW s \in Suffixes(text) PROVE s \in {EndFrom(text, i) : i \in 1 .. n + 1}
    <3>1. CASE s = <<>>
      BY <1>1, <1>3, <3>1, Zenon
    <3>2. CASE s # <<>>
      BY <1>1, <1>2, <3>2, Zenon
    <3> QED
      BY <3>1, <3>2, Zenon
  <2>2. ASSUME NEW i \in 1 .. n + 1 PROVE EndFrom(text, i) \in Suffixes(text)
    <3>1. CASE i \in 1 .. n
      BY <1>2, <3>1, Zenon
    <3>2. CASE i = n + 1
      <4>1. EndFrom(text, i) = <<>>
        BY <1>3, <3>2
      <4>2. <<>> \in Suffixes(text)
        BY <1>2, Zenon
      <4> QED
        BY <4>1, <4>2, Zenon
    <3> QED
      BY <1>1, <3>1, <3>2
  <2> QED
    BY <2>1, <2>2, Zenon
<1>6. Suffixes(text) \subseteq Seq(S)
  BY <1>5, EndFromIs, Zenon DEF n
<1> QED
  BY <1>4, <1>5, <1>6, Zenon DEF n

\* A recursion that goes on with a shorter end of its text is determined: its
\* result for a text is what it takes first, and the result for the rest.
IsRest(s, t) == \E k \in 1 .. Len(s) : t = EndFrom(s, k + 1)

TakesFromFront(S, X, first, next) ==
  \A s \in Seq(S) : s # <<>> => first[s] \in Seq(X) /\ IsRest(s, next[s])

Recurs(result, S, first, next) ==
  \A s \in Seq(S) :
    (\E f : IsUnfolded(f, Suffixes(s), first, next)) =>
      \E f : IsUnfolded(f, Suffixes(s), first, next) /\ result[s] = f[s]

Unfolds(result, S, X, first, next) ==
  \A s \in Seq(S) : /\ result[s] \in Seq(X)
                    /\ s = <<>> => result[s] = <<>>
                    /\ s # <<>> => result[s] = first[s] \o result[next[s]]

LEMMA RecursionUnfolds ==
  ASSUME NEW S, NEW X, NEW first, NEW next, NEW result,
         TakesFromFront(S, X, first, next), Recurs(result, S, first, next)
  PROVE  Unfolds(result, S, X, first, next)
<1> DEFINE F(s) == CHOOSE f : IsUnfolded(f, Suffixes(s), first, next) /\ result[s] = f[s]
<1>1. ASSUME NEW text \in Seq(S)
      PROVE  /\ Descends(Suffixes(text), S, X, first, next) /\ text \in Suffixes(text)
             /\ Len(text) \in Nat /\ \A s \in Suffixes(text) : Len(s) <= Len(text)
  <2> DEFINE n == Len(text)
  <2>1. n \in Nat /\ 1 \in 1 .. n + 1
    BY LenProperties
  <2>2. Suffixes(text) = {EndFrom(text, i) : i \in 1 .. n + 1} /\ EndFrom(text, 1) = text
    BY SuffixesAreEnds, Zenon
  <2>3. \A i \in 1 .. n + 1 : EndFrom(text, i) \in Seq(S) /\ Len(EndFrom(text, i)) = n + 1 - i
    BY EndFromIs, Zenon
  <2>4. ASSUME NEW s \in Suffixes(text), s # <<>>
        PROVE  next[s] \in Suffixes(text) /\ Len(next[s]) < Len(s)
    <3>1. PICK i \in 1 .. n + 1 : s = EndFrom(text, i)
      BY <2>2, Zenon
    <3>2. s \in Seq(S) /\ Len(s) = n + 1 - i
      BY <2>3, <3>1, Zenon
    <3>3. PICK k \in 1 .. Len(s) : next[s] = EndFrom(s, k + 1)
      BY <2>4, <3>2, Zenon DEF TakesFromFront, IsRest
    <3> HIDE DEF n
    <3>4. i + k \in 1 .. n + 1 /\ k \in 0 .. n + 1 - i /\ n + 1 - (i + k) < n + 1 - i
      BY <2>1, <3>2, <3>3
    <3>5. next[s] = EndFrom(text, i + k)
      BY <3>1, <3>3, <3>4, EndOfEnd, Zenon DEF n
    <3>6. Len(next[s]) = n + 1 - (i + k)
      BY <2>3, <3>4, <3>5, Zenon
    <3>7. Len(next[s]) < Len(s)
      BY <3>2, <3>4, <3>6, Zenon
    <3> QED
      BY <2>2, <3>4, <3>5, <3>7, Zenon
  <2>5. \A s \in Suffixes(text) : s \in Seq(S)
    BY <2>2, <2>3, Zenon
  <2>6. Descends(Suffixes(text), S, X, first, next)
    BY <2>4, <2>5, Zenon DEF Descends, TakesFromFront
  <2>7. \A s \in Suffixes(text) : Len(s) <= n
    <3>1. \A i \in 1 .. n + 1 : n + 1 - i <= n
      BY <2>1
    <3> QED
      BY <2>2, <2>3, <3>1, Zenon
  <2> QED
    BY <2>1, <2>2, <2>6, <2>7, Zenon
<1>2. ASSUME NEW s \in Seq(S)
      PROVE  IsUnfolded(F(s), Suffixes(s), first, next) /\ result[s] = F(s)[s] /\ result[s] \in Seq(X)
  <2>1. PICK f \in [Suffixes(s) -> Seq(X)] : IsUnfolded(f, Suffixes(s), first, next)
    BY <1>1, UnfoldExists, Zenon
  <2>2. IsUnfolded(F(s), Suffixes(s), first, next) /\ result[s] = F(s)[s]
    <3>1. \E g : IsUnfolded(g, Suffixes(s), first, next) /\ result[s] = g[s]
      BY <2>1, Zenon DEF Recurs
    <3> QED
      BY <3>1, Zenon
  <2> DEFINE D == Suffixes(s)
             g == F(s)
  <2>3. /\ Descends(D, S, X, first, next) /\ s \in D /\ IsUnfolded(g, D, first, next)
        /\ IsUnfolded(f, D, first, next) /\ f \in [D -> Seq(X)]
    BY <1>1, <2>1, <2>2, Zenon
  <2>4. result[s] = g[s]
    BY <2>2, Zenon
  <2> HIDE DEF D, g
  <2>5. g[s] = f[s]
    BY <2>3, UnfoldUnique
  <2>6. f[s] \in Seq(X)
    BY <2>3, Zenon
  <2> QED
    BY <2>2, <2>4, <2>5, <2>6, Zenon DEF g, D
<1> HIDE DEF F
<1>3. ASSUME NEW s \in Seq(S), s = <<>> PROVE result[s] = <<>>
  <2>1. F(s)[s] = IF s = <<>> THEN <<>> ELSE first[s] \o F(s)[next[s]]
    BY <1>1, <1>2, Zenon DEF IsUnfolded
  <2> QED
    BY <1>2, <1>3, <2>1, Zenon
<1>4. ASSUME NEW s \in Seq(S), s # <<>> PROVE result[s] = first[s] \o result[next[s]]
  <2> DEFINE rest == next[s]
  <2>1. rest \in Suffixes(s) /\ rest \in Seq(S)
    BY <1>1, <1>4, Zenon DEF Descends
  <2>2. F(s)[s] = IF s = <<>> THEN <<>> ELSE first[s] \o F(s)[rest]
    BY <1>1, <1>2, Zenon DEF IsUnfolded
  <2>3. result[rest] = F(rest)[rest]
    BY <1>2, <2>1, Zenon
  <2>4. F(s)[rest] = F(rest)[rest]
    <3> DEFINE D == Suffixes(s)
               E == Suffixes(rest)
               f == F(s)
               g == F(rest)
    <3>1. /\ Descends(D, S, X, first, next) /\ rest \in D /\ IsUnfolded(f, D, first, next)
          /\ Descends(E, S, X, first, next) /\ rest \in E /\ IsUnfolded(g, E, first, next)
      BY <1>1, <1>2, <2>1, Zenon
    <3> HIDE DEF D, E, f, g, rest
    <3>2. f[rest] = g[rest]
      BY <3>1, UnfoldUnique
    <3> QED
      BY <3>2, Zenon DEF f, g
  <2> QED
    BY <1>2, <1>4, <2>2, <2>3, <2>4, Zenon
<1> QED
  BY <1>2, <1>3, <1>4, Zenon DEF Unfolds

-------------------------------------------------------------------------------
(* The lines of a text *)

\* The buffers have room for the header of a save.
LEMMA BuffersFit ==
  /\ MaxField \in Nat /\ MaxLine \in Nat /\ MaxLine >= 4 /\ MaxLine >= 2
  /\ LineBuffer \in Nat /\ LineBuffer >= MaxLine /\ LineBuffer >= 2
<1>1. Len(Header) = 3
  BY DEF Header
<1> QED
  BY <1>1, FormatAssumption, MigrateAssumption

\* fgets takes something of a text that is not empty, and leaves an end of it.
LEMMA FgetsTakes ==
  ASSUME NEW S, NEW s \in Seq(S), s # <<>>, NEW size \in Nat, size >= 2
  PROVE  /\ FgetsLength(s, size) \in 1 .. Len(s)
         /\ LineOf(s, size) \in Seq(S)
         /\ AfterFgets(s, size) \in Seq(S)
         /\ IsRest(s, AfterFgets(s, size))
<1> DEFINE n == Len(s)
           taken == FgetsLength(s, size)
           newline == SelectInSeq(s, LAMBDA c : c = "nl")
           room == IF n < size - 1 THEN n ELSE size - 1
           left == AfterFgets(s, size)
           line == LineOf(s, size)
           last == IF s[taken] = "nl" THEN taken - 1 ELSE taken
<1>1. taken = IF newline \in 1 .. room THEN newline ELSE room
  BY Zenon DEF FgetsLength
<1>2. left = EndFrom(s, taken + 1) /\ line = SubSeq(s, 1, last)
  BY Zenon DEF AfterFgets, LineOf, EndFrom
<1> HIDE DEF newline, left, line, taken
<1>3. n \in Nat \ {0} /\ \A i \in 1 .. n : s[i] \in S
  BY LenProperties, EmptySeq, ElementOfSeq
<1> HIDE DEF n
<1>4. taken \in 1 .. n /\ taken + 1 \in 1 .. n + 1
  BY <1>1, <1>3
<1>5. last \in 0 .. n
  BY <1>3, <1>4
<1> HIDE DEF last
<1>6. line \in Seq(S)
  <2>1. \A i \in 1 .. last : s[i] \in S
    BY <1>3, <1>5
  <2> QED
    BY <1>2, <1>5, <2>1, SubSeqProperties
<1>7. left \in Seq(S)
  <2> DEFINE i == taken + 1
  <2>1. i \in 1 .. Len(s) + 1
    BY <1>4, Zenon DEF n
  <2> HIDE DEF i
  <2>2. EndFrom(s, i) \in Seq(S)
    BY <2>1, EndFromIs
  <2> QED
    BY <1>2, <2>2, Zenon DEF i
<1>8. IsRest(s, left)
  BY <1>2, <1>4, Zenon DEF IsRest, n
<1> QED
  BY <1>4, <1>6, <1>7, <1>8, Zenon DEF n, taken, left, line

\* The lines of a text are its first one and those of the rest.
LEMMA LinesOfText ==
  ASSUME NEW S, NEW text \in Seq(S)
  PROVE  /\ LinesOf(text) \in Seq(Seq(S))
         /\ text = <<>> => LinesOf(text) = <<>>
         /\ text # <<>> =>
              LinesOf(text) = <<LineOf(text, LineBuffer)>> \o LinesOf(AfterFgets(text, LineBuffer))
<1> DEFINE first == [s \in Seq(S) |-> <<LineOf(s, LineBuffer)>>]
           next == [s \in Seq(S) |-> AfterFgets(s, LineBuffer)]
           result == [s \in Seq(S) |-> LinesOf(s)]
<1>0. LineBuffer \in Nat /\ LineBuffer >= 2
  BY BuffersFit
<1>1. ASSUME NEW s \in Seq(S), s # <<>>
      PROVE  first[s] \in Seq(Seq(S)) /\ next[s] \in Seq(S) /\ IsRest(s, next[s])
  <2> DEFINE line == LineOf(s, LineBuffer)
  <2>1. line \in Seq(S) /\ AfterFgets(s, LineBuffer) \in Seq(S) /\ IsRest(s, AfterFgets(s, LineBuffer))
    BY <1>0, <1>1, FgetsTakes, Zenon
  <2> HIDE DEF line
  <2>2. <<line>> \in Seq(Seq(S))
    BY <2>1
  <2> QED
    BY <2>1, <2>2, Zenon DEF line
<1>2. ASSUME NEW s \in Seq(S), \E f : IsUnfolded(f, Suffixes(s), first, next)
      PROVE  \E f : IsUnfolded(f, Suffixes(s), first, next) /\ result[s] = f[s]
  <2> DEFINE F == CHOOSE f : f = [t \in Suffixes(s) |->
                                   IF t = <<>> THEN <<>>
                                   ELSE <<LineOf(t, LineBuffer)>> \o f[AfterFgets(t, LineBuffer)]]
  <2>1. \A t \in Suffixes(s) : t \in Seq(S)
    BY SuffixesAreEnds, Zenon
  <2>2. ASSUME NEW f
        PROVE  IsUnfolded(f, Suffixes(s), first, next) <=>
                 f = [t \in Suffixes(s) |-> IF t = <<>> THEN <<>>
                                            ELSE <<LineOf(t, LineBuffer)>> \o f[AfterFgets(t, LineBuffer)]]
    <3>1. [t \in Suffixes(s) |-> IF t = <<>> THEN <<>> ELSE first[t] \o f[next[t]]]
            = [t \in Suffixes(s) |-> IF t = <<>> THEN <<>>
                                     ELSE <<LineOf(t, LineBuffer)>> \o f[AfterFgets(t, LineBuffer)]]
      BY <2>1, Zenon
    <3> QED
      BY <3>1, Zenon DEF IsUnfolded
  <2>3. IsUnfolded(F, Suffixes(s), first, next)
    BY <1>2, <2>2, Zenon
  <2>4. result[s] = F[s]
    BY Zenon DEF LinesOf
  <2> HIDE DEF F
  <2> QED
    BY <2>3, <2>4, Zenon
<1> HIDE DEF first, next, result
<1>3. TakesFromFront(S, Seq(S), first, next)
  BY <1>1, Zenon DEF TakesFromFront
<1>4. Recurs(result, S, first, next)
  BY <1>2, Zenon DEF Recurs
<1>5. Unfolds(result, S, Seq(S), first, next)
  BY <1>3, <1>4, RecursionUnfolds, Zenon
<1> QED
  BY <1>1, <1>5, Zenon DEF Unfolds, first, next, result

\* A text has as many lines of data as the text after its first line, and one
\* more if that line is one.
LEMMA DataCount ==
  ASSUME NEW S, NEW text \in Seq(S)
  PROVE  /\ IsFiniteSet(DataLines(text)) /\ Cardinality(DataLines(text)) \in Nat
         /\ text = <<>> => Cardinality(DataLines(text)) = 0
         /\ text # <<>> =>
              Cardinality(DataLines(text)) =
                Cardinality(DataLines(AfterFgets(text, LineBuffer)))
                  + (IF IsData(LineOf(text, LineBuffer)) THEN 1 ELSE 0)
<1>0. LineBuffer \in Nat /\ LineBuffer >= 2
  BY BuffersFit
<1>1. ASSUME NEW s \in Seq(S)
      PROVE  /\ LinesOf(s) \in Seq(Seq(S)) /\ Len(LinesOf(s)) \in Nat
             /\ DataLines(s) = {k \in 1 .. Len(LinesOf(s)) : IsData(LinesOf(s)[k])}
             /\ IsFiniteSet(DataLines(s)) /\ Cardinality(DataLines(s)) \in Nat
  <2>1. LinesOf(s) \in Seq(Seq(S))
    BY LinesOfText, Zenon
  <2>2. Len(LinesOf(s)) \in Nat /\ DOMAIN LinesOf(s) = 1 .. Len(LinesOf(s))
    BY <2>1, LenProperties
  <2>3. DataLines(s) = {k \in 1 .. Len(LinesOf(s)) : IsData(LinesOf(s)[k])}
    BY <2>2, Zenon DEF DataLines
  <2>4. IsFiniteSet(1 .. Len(LinesOf(s)))
    BY <2>2, FS_Interval
  <2>5. DataLines(s) \in SUBSET (1 .. Len(LinesOf(s)))
    BY <2>3, Zenon
  <2>6. IsFiniteSet(DataLines(s))
    BY <2>4, <2>5, FS_Subset, Zenon
  <2> QED
    BY <2>1, <2>2, <2>3, <2>6, FS_CardinalityType, Zenon
<1>2. text = <<>> => Cardinality(DataLines(text)) = 0
  <2> SUFFICES ASSUME text = <<>> PROVE DataLines(text) = {}
    BY FS_EmptySet, Zenon
  <2>1. LinesOf(text) = <<>>
    BY LinesOfText, Zenon
  <2>2. 1 .. Len(LinesOf(text)) = {}
    BY <2>1
  <2> QED
    BY <1>1, <2>2, Zenon
<1>3. ASSUME text # <<>>
      PROVE  Cardinality(DataLines(text)) =
                Cardinality(DataLines(AfterFgets(text, LineBuffer)))
                  + (IF IsData(LineOf(text, LineBuffer)) THEN 1 ELSE 0)
  <2> DEFINE rest == AfterFgets(text, LineBuffer)
             line == LineOf(text, LineBuffer)
             all == LinesOf(text)
             others == LinesOf(rest)
             D == DataLines(rest)
             shifted == {k + 1 : k \in D}
  <2>1. rest \in Seq(S) /\ line \in Seq(S)
    BY <1>0, <1>3, FgetsTakes, Zenon
  <2>2. all = <<line>> \o others
    BY <1>3, LinesOfText, Zenon
  <2>3. others \in Seq(Seq(S)) /\ Len(others) \in Nat
    BY <1>1, <2>1, Zenon
  <2>4. D = {k \in 1 .. Len(others) : IsData(others[k])} /\ IsFiniteSet(D) /\ Cardinality(D) \in Nat
    BY <1>1, <2>1, Zenon
  <2>5. DataLines(text) = {k \in 1 .. Len(all) : IsData(all[k])}
    BY <1>1, Zenon
  <2> HIDE DEF rest, line, others
  <2>6. /\ Len(all) = 1 + Len(others) /\ all[1] = line
        /\ \A k \in 1 .. Len(others) : all[k + 1] = others[k]
    <3>1. <<line>> \in Seq(Seq(S)) /\ Len(<<line>>) = 1 /\ <<line>>[1] = line
      BY <2>1
    <3> DEFINE a == <<line>>
    <3>2. a \in Seq(Seq(S)) /\ Len(a) = 1 /\ a[1] = line
      BY <3>1, Zenon
    <3>3. all = a \o others
      BY <2>2, Zenon
    <3> HIDE DEF a, all
    <3>4. /\ Len(all) = Len(a) + Len(others)
          /\ \A i \in 1 .. Len(a) + Len(others) : all[i] = IF i <= Len(a) THEN a[i] ELSE others[i - Len(a)]
      BY <2>3, <3>2, <3>3, ConcatProperties, Zenon
    <3>5. 1 \in 1 .. 1 + Len(others) /\ 1 <= 1
          /\ \A k \in 1 .. Len(others) : k + 1 \in 1 .. 1 + Len(others) /\ ~(k + 1 <= 1) /\ (k + 1) - 1 = k
      BY <2>3
    <3> QED
      BY <3>2, <3>4, <3>5, Zenon
  <2> HIDE DEF all, D
  <2>7. DataLines(text) = shifted \cup (IF IsData(line) THEN {1} ELSE {})
    <3>1. /\ 1 \in 1 .. Len(all) /\ \A k \in 1 .. Len(others) : k + 1 \in 1 .. Len(all)
          /\ \A m \in 1 .. Len(all) : m # 1 => m - 1 \in 1 .. Len(others) /\ (m - 1) + 1 = m
      BY <2>3, <2>6
    <3>2. \A m \in 1 .. Len(all) : IsData(all[m]) =>
            m \in shifted \cup (IF IsData(line) THEN {1} ELSE {})
      <4> TAKE m \in 1 .. Len(all)
      <4> HAVE IsData(all[m])
      <4>1. CASE m = 1
        BY <2>6, <4>1, Zenon
      <4>2. CASE m # 1
        <5>1. m - 1 \in 1 .. Len(others) /\ all[(m - 1) + 1] = others[m - 1] /\ (m - 1) + 1 = m
          BY <2>6, <3>1, <4>2, Zenon
        <5>2. IsData(others[m - 1])
          BY <5>1, Zenon
        <5>3. m - 1 \in D
          BY <2>4, <5>1, <5>2, Zenon
        <5> QED
          BY <5>1, <5>3, Zenon
      <4> QED
        BY <4>1, <4>2, Zenon
    <3>3. \A k \in D : k + 1 \in 1 .. Len(all) /\ IsData(all[k + 1])
      BY <2>4, <2>6, <3>1, Zenon
    <3>4. IsData(line) => 1 \in 1 .. Len(all) /\ IsData(all[1])
      BY <2>6, <3>1, Zenon
    <3> QED
      BY <2>5, <3>2, <3>3, <3>4, Zenon
  <2>8. IsFiniteSet(shifted) /\ Cardinality(shifted) = Cardinality(D) /\ 1 \notin shifted
    <3> DEFINE f == [k \in D |-> k + 1]
    <3>1. D \in SUBSET Nat /\ \A k \in D : k >= 1
      BY <2>4
    <3>2. f \in Bijection(D, shifted)
      BY <3>1 DEF Bijection, Injection, Surjection, IsInjective
    <3>3. 1 \notin shifted
      BY <3>1
    <3>4. ExistsBijection(D, shifted)
      BY <3>2, Zenon DEF ExistsBijection
    <3> HIDE DEF shifted
    <3> QED
      BY <2>4, <3>3, <3>4, FS_Bijection, Zenon
  <2> HIDE DEF shifted
  <2>9. CASE IsData(line)
    <3>1. DataLines(text) = shifted \cup {1}
      BY <2>7, <2>9, Zenon
    <3>2. Cardinality(shifted \cup {1}) = Cardinality(shifted) + 1
      BY <2>8, FS_AddElement, Zenon
    <3> QED
      BY <2>8, <2>9, <3>1, <3>2, Zenon DEF D, rest, line
  <2>10. CASE ~IsData(line)
    <3>1. DataLines(text) = shifted
      BY <2>7, <2>10, Zenon
    <3>2. Cardinality(DataLines(text)) = Cardinality(D) + 0
      BY <2>4, <2>8, <3>1
    <3> QED
      BY <2>10, <3>2, Zenon DEF D, rest, line
  <2> QED
    BY <2>9, <2>10, Zenon
<1> QED
  BY <1>1, <1>2, <1>3, Zenon

\* A text is a sequence, of whatever characters.
IsText(s) == s \in Seq(ToSet(s))

\* Sequences of anything are texts, and their elements are those of a set.
LEMMA TextIs ==
  ASSUME NEW S, NEW s \in Seq(S) PROVE IsText(s)
<1>1. Len(s) \in Nat /\ s \in [1 .. Len(s) -> S] /\ DOMAIN s = 1 .. Len(s)
  BY LenProperties
<1> DEFINE n == Len(s)
<1> HIDE DEF n
<1>2. s \in [1 .. n -> ToSet(s)]
  BY <1>1 DEF n, ToSet
<1>3. n \in Nat
  BY <1>1 DEF n
<1> QED
  BY <1>2, <1>3, SeqDef DEF IsText

\* One more character, or book, keeps a text a text, and makes it longer by one.
LEMMA TextGrows ==
  ASSUME NEW s, IsText(s), NEW e
  PROVE  IsText(Append(s, e)) /\ Len(Append(s, e)) = Len(s) + 1 /\ Len(s) \in Nat
<1> DEFINE S == ToSet(s) \cup {e}
<1>1. s \in Seq(S) /\ e \in S
  BY SeqMonotonic DEF IsText
<1> HIDE DEF S
<1>2. Append(s, e) \in Seq(S) /\ Len(Append(s, e)) = Len(s) + 1
  BY <1>1, AppendProperties
<1>3. Len(s) \in Nat
  BY <1>1, LenProperties
<1> QED
  BY <1>2, <1>3, TextIs, Zenon

LEMMA EmptyText == IsText(<<>>) /\ Len(<<>>) = 0
<1>1. <<>> \in Seq({}) /\ Len(<<>>) = 0
  BY EmptySeq
<1> QED
  BY <1>1, TextIs, Zenon

\* Every line of data that fgets has delivered is counted, and no other line.
Counted ==
  imported + skipped + Cardinality(DataLines(unread)) = Cardinality(DataLines(input))

\* At the end of the loop nothing is left, unless fgets failed.
ReadToEnd == unread = <<>> \/ readError

\* The inductive invariant of the migration: what has been read is counted, a
\* book is in the inventory for each import, and success is reported only when
\* nothing was refused and the database took the inventory.
MigrateInvariant ==
  /\ IsText(file) /\ IsText(input) /\ IsText(unread) /\ IsText(inventory)
  /\ imported \in Nat /\ skipped \in Nat /\ Len(inventory) = imported
  /\ step \in {"idle", "open"} => imported = 0 /\ skipped = 0
  /\ step \in {"reading", "report"} => Counted
  /\ step = "report" => ReadToEnd
  /\ step # "done" => status = "none"
  /\ status = "success" => Counted /\ skipped = 0 /\ ReadToEnd /\ (dryRun \/ db = inventory)

LEMMA MigrateInit == Init => MigrateInvariant
<1> SUFFICES ASSUME Init PROVE MigrateInvariant
  OBVIOUS
<1>1. IsText(input)
  <2>1. CASE input \in Inputs
    BY <2>1, MigrateAssumption, TextIs
  <2>2. CASE input = <<>>
    BY <2>2, EmptyText, Zenon
  <2> QED
    BY <2>1, <2>2, Zenon DEF Init
<1>2. /\ file = <<>> /\ unread = <<>> /\ inventory = <<>> /\ imported = 0 /\ skipped = 0
      /\ step \in {"idle", "open"} /\ status = "none"
  BY Zenon DEF Init, FileInit
<1> QED
  BY <1>1, <1>2, EmptyText DEF MigrateInvariant

\* One line is read: its count, if it is data, goes to one of the two counters.
LEMMA ReadLineCounts ==
  ASSUME MigrateInvariant, ReadLine
  PROVE  /\ IsText(unread')
         /\ IsData(Line) /\ imported' + skipped' = imported + skipped + 1 => Counted'
         /\ ~IsData(Line) /\ imported' = imported /\ skipped' = skipped => Counted'
<1> DEFINE S == ToSet(unread)
           c == Cardinality(DataLines(unread))
           d == Cardinality(DataLines(unread'))
           total == Cardinality(DataLines(input))
<1>1. unread \in Seq(S) /\ unread # <<>> /\ unread' = AfterFgets(unread, LineBuffer) /\ input' = input
  BY Zenon DEF MigrateInvariant, IsText, ReadLine
<1> HIDE DEF S
<1>2. unread' \in Seq(S)
  <2>1. LineBuffer \in Nat /\ LineBuffer >= 2
    BY BuffersFit
  <2> QED
    BY <1>1, <2>1, FgetsTakes, Zenon
<1>3. c = d + (IF IsData(Line) THEN 1 ELSE 0)
  BY <1>1, DataCount, Zenon DEF Line
<1>4. c \in Nat /\ d \in Nat
  BY <1>1, <1>2, DataCount, Zenon
<1>5. imported + skipped + c = total /\ imported \in Nat /\ skipped \in Nat
  BY Zenon DEF MigrateInvariant, Counted, ReadLine
<1>6. Counted' <=> imported' + skipped' + d = total
  BY <1>1, Zenon DEF Counted
<1>7. IsText(unread')
  BY <1>2, TextIs, Zenon
<1> HIDE DEF c, d, total
<1>8. ASSUME IsData(Line), imported' + skipped' = imported + skipped + 1
      PROVE  imported' + skipped' + d = total
  <2>1. c = d + 1
    BY <1>3, <1>8, Zenon
  <2>2. (imported + skipped + 1) + d = total
    BY <1>4, <1>5, <2>1
  <2> QED
    BY <1>8, <2>2, Zenon
<1>9. ASSUME ~IsData(Line), imported' = imported, skipped' = skipped
      PROVE  imported' + skipped' + d = total
  <2>1. c = d + 0
    BY <1>3, <1>9, Zenon
  <2>2. imported + skipped + d = total
    BY <1>4, <1>5, <2>1
  <2> QED
    BY <1>9, <2>2, Zenon
<1> QED
  BY <1>6, <1>7, <1>8, <1>9, Zenon

\* The program that owns the file keeps it a text; the migration has not begun.
LEMMA FileStep ==
  ASSUME MigrateInvariant, step = "idle", FileNext, UNCHANGED migrateVars
  PROVE  MigrateInvariant'
<1>1. IsText(file')
  <2>1. CASE BeginSave
    BY <2>1, EmptyText, Zenon DEF BeginSave
  <2>2. CASE WriteOut
    BY <2>2, TextGrows, Zenon DEF WriteOut, MigrateInvariant
  <2>3. CASE file' = file
    BY <2>3, Zenon DEF MigrateInvariant
  <2> QED
    BY <2>1, <2>2, <2>3, Zenon DEF FileNext, OpenStorage, CloseStorage, Load, LockForSave,
       LockFails, DiskFull, Unlock, SaveReturns, Stop, Add
<1> QED
  BY <1>1, Zenon DEF migrateVars, MigrateInvariant, Counted, ReadToEnd

LEMMA MigrateStep == MigrateInvariant /\ [Next]_<<fileVars, migrateVars>> => MigrateInvariant'
<1> SUFFICES ASSUME MigrateInvariant, [Next]_<<fileVars, migrateVars>> PROVE MigrateInvariant'
  OBVIOUS
<1>0. /\ imported \in Nat /\ skipped \in Nat /\ Len(inventory) = imported /\ IsText(inventory)
      /\ step # "done" => status = "none"
  BY Zenon DEF MigrateInvariant
<1>1. CASE step = "idle" /\ FileNext /\ UNCHANGED migrateVars
  BY <1>1, FileStep, Zenon
<1>2. CASE UNCHANGED <<fileVars, migrateVars>>
  BY <1>2, Zenon DEF fileVars, migrateVars, MigrateInvariant, Counted, ReadToEnd
<1>3. ASSUME MigrateNext, UNCHANGED fileVars PROVE MigrateInvariant'
  <2>0. file' = file
    BY <1>3, Zenon DEF fileVars
  <2>1. CASE Start
    BY <2>0, <2>1 DEF Start, reading, MigrateInvariant
  <2>2. CASE OpenInput
    <3>1. Cardinality(DataLines(input)) \in Nat
      BY DataCount, Zenon DEF MigrateInvariant, IsText
    <3>2. /\ step = "open" /\ step' = "reading" /\ unread' = input /\ input' = input
          /\ imported' = imported /\ skipped' = skipped /\ inventory' = inventory
          /\ status' = status
      BY <2>2, Zenon DEF OpenInput
    <3>3. imported = 0 /\ skipped = 0 /\ status = "none"
      BY <3>2 DEF MigrateInvariant
    <3>4. Counted'
      <4> DEFINE total == Cardinality(DataLines(input))
      <4>1. imported' + skipped' + total = total
        BY <3>1, <3>2, <3>3
      <4>2. Cardinality(DataLines(unread'))= total /\ Cardinality(DataLines(input')) = total
        BY <3>2, Zenon
      <4> HIDE DEF total
      <4> QED
        BY <4>1, <4>2, Zenon DEF Counted
    <3> QED
      BY <2>0, <3>2, <3>3, <3>4 DEF MigrateInvariant
  <2>3. CASE OpenFails
    BY <2>0, <2>3 DEF OpenFails, ExitWith, reading, MigrateInvariant
  <2>4. CASE PassOver
    <3>1. ReadLine /\ ~IsData(Line) /\ inventory' = inventory /\ imported' = imported /\ skipped' = skipped
      BY <2>4, Zenon DEF PassOver
    <3>2. IsText(unread') /\ Counted'
      BY <3>1, ReadLineCounts, Zenon
    <3> QED
      BY <2>0, <3>1, <3>2 DEF ReadLine, MigrateInvariant
  <2>5. CASE Skip
    <3>1. ReadLine /\ IsData(Line) /\ inventory' = inventory /\ imported' = imported /\ skipped' = skipped + 1
      BY <2>5, Zenon DEF Skip
    <3>2. imported' + skipped' = imported + skipped + 1 /\ imported' \in Nat /\ skipped' \in Nat
      BY <1>0, <3>1
    <3>3. IsText(unread') /\ Counted'
      BY <3>1, <3>2, ReadLineCounts, Zenon
    <3> QED
      BY <2>0, <3>1, <3>2, <3>3 DEF ReadLine, MigrateInvariant
  <2>6. CASE Import
    <3>1. /\ ReadLine /\ IsData(Line) /\ inventory' = Append(inventory, ParsedBook(Line))
          /\ imported' = imported + 1 /\ skipped' = skipped
      BY <2>6, Zenon DEF Import
    <3>2. imported' + skipped' = imported + skipped + 1 /\ imported' \in Nat /\ skipped' \in Nat
      BY <1>0, <3>1
    <3>3. IsText(unread') /\ Counted'
      BY <3>1, <3>2, ReadLineCounts, Zenon
    <3>4. IsText(inventory') /\ Len(inventory') = imported'
      <4>1. Len(inventory') = Len(inventory) + 1 /\ IsText(inventory')
        BY <1>0, <3>1, TextGrows, Zenon
      <4> QED
        BY <1>0, <3>1, <4>1, Zenon
    <3> QED
      BY <2>0, <3>1, <3>2, <3>3, <3>4 DEF ReadLine, MigrateInvariant
  <2>7. CASE EndOfInput
    BY <2>0, <2>7 DEF EndOfInput, reading, MigrateInvariant, Counted, ReadToEnd
  <2>8. CASE ReadFails
    BY <2>0, <2>8 DEF ReadFails, MigrateInvariant, Counted, ReadToEnd
  <2>9. CASE DryRun
    BY <2>0, <2>9 DEF DryRun, ExitWith, ExitStatus, reading, MigrateInvariant, Counted, ReadToEnd
  <2>10. CASE Save
    BY <2>0, <2>10 DEF Save, ExitWith, ExitStatus, reading, MigrateInvariant, Counted, ReadToEnd
  <2>11. CASE SaveFails
    BY <2>0, <2>11 DEF SaveFails, ExitWith, reading, MigrateInvariant
  <2>12. CASE Killed
    BY <2>0, <2>12 DEF Killed, ExitWith, reading, MigrateInvariant
  <2> QED
    BY <1>3, <2>1, <2>2, <2>3, <2>4, <2>5, <2>6, <2>7, <2>8, <2>9, <2>10, <2>11, <2>12, Zenon
       DEF MigrateNext
<1> QED
  BY <1>1, <1>2, <1>3, Zenon DEF Next

\* A migration that reports success, and read its input to the end, has put a
\* book into the database for every line of data (the exit status of migrate.c).
THEOREM SuccessCountsEveryLine == Spec => []SuccessIsComplete
<1>1. MigrateInvariant => SuccessIsComplete
  <2> SUFFICES ASSUME MigrateInvariant, status = "success", ~dryRun, ~readError
               PROVE  Len(db) = Cardinality(DataLines(input))
    BY Zenon DEF SuccessIsComplete
  <2>1. /\ imported + skipped + Cardinality(DataLines(unread)) = Cardinality(DataLines(input))
        /\ skipped = 0 /\ unread = <<>> /\ db = inventory /\ imported \in Nat
        /\ Len(inventory) = imported
    BY Zenon DEF MigrateInvariant, Counted, ReadToEnd
  <2>2. Cardinality(DataLines(unread)) = 0
    BY <2>1, DataCount, Zenon DEF MigrateInvariant, IsText
  <2>3. imported + 0 + 0 = imported
    BY <2>1
  <2> QED
    BY <2>1, <2>2, <2>3, Zenon
<1> QED
  BY MigrateInit, MigrateStep, <1>1, PTL DEF Spec

-------------------------------------------------------------------------------
(* Where fgets stops *)

\* Without a newline fgets takes all it has room for.
LEMMA FgetsToTheEnd ==
  ASSUME NEW s \in Seq(Typed), NoNewline(s), NEW size \in Nat, size >= 2
  PROVE  FgetsLength(s, size) = IF Len(s) < size - 1 THEN Len(s) ELSE size - 1
<1> DEFINE room == IF Len(s) < size - 1 THEN Len(s) ELSE size - 1
<1>1. SelectInSeq(s, LAMBDA c : c = "nl") = 0
  BY NoFirstNewline
<1>2. FgetsLength(s, size) = IF 0 \in 1 .. room THEN 0 ELSE room
  BY <1>1, Zenon DEF FgetsLength
<1>3. Len(s) \in Nat
  BY LenProperties
<1> QED
  BY <1>2, <1>3

\* It never goes past a newline.
LEMMA FgetsStops ==
  ASSUME NEW s \in Seq(Typed), s # <<>>, NEW size \in Nat, size >= 2
  PROVE  /\ FgetsLength(s, size) \in 1 .. Len(s)
         /\ \A i \in 1 .. FgetsLength(s, size) - 1 : s[i] # "nl"
<1> DEFINE n == Len(s)
           taken == FgetsLength(s, size)
           U == {i \in 1 .. n : s[i] = "nl"}
<1>1. n \in Nat \ {0} /\ taken \in 1 .. n
  BY EmptySeq, LenProperties, FgetsTakes
<1>2. CASE U = {}
  <2>1. \A i \in 1 .. n : s[i] # "nl"
    BY <1>2, Zenon
  <2> HIDE DEF n, taken
  <2>2. \A i \in 1 .. taken - 1 : i \in 1 .. n
    BY <1>1
  <2> QED
    BY <1>1, <2>1, <2>2, Zenon DEF n, taken
<1>3. CASE U # {}
  <2> DEFINE k == Min(U)
  <2>1. U \in SUBSET Nat
    BY <1>1
  <2>2. k \in U /\ \A i \in U : k <= i
    BY <1>3, <2>1, LeastNumber, Zenon
  <2>3. k \in 1 .. n /\ s[k] = "nl" /\ \A i \in 1 .. n : s[i] = "nl" => k <= i
    BY <2>2, Zenon
  <2> HIDE DEF k
  <2>4. \A i \in 1 .. k - 1 : i \in 1 .. n /\ ~(k <= i)
    BY <1>1, <2>3
  <2>5. \A i \in 1 .. k - 1 : s[i] # "nl"
    BY <2>3, <2>4, Zenon
  <2>6. taken = IF k <= size - 1 THEN k ELSE size - 1
    BY <2>3, <2>5, FgetsNewline, Zenon
  <2> HIDE DEF taken, n
  <2>7. \A i \in 1 .. taken - 1 : i \in 1 .. k - 1
    BY <1>1, <2>3, <2>6
  <2> QED
    BY <1>1, <2>5, <2>7, Zenon DEF taken, n
<1> QED
  BY <1>2, <1>3, Zenon

\* A line holds no newline.
LEMMA LineOfType ==
  ASSUME NEW s \in Seq(Typed), s # <<>>, NEW size \in Nat, size >= 2
  PROVE  LineOf(s, size) \in Seq(Characters)
<1> DEFINE n == Len(s)
           taken == FgetsLength(s, size)
           last == IF s[taken] = "nl" THEN taken - 1 ELSE taken
<1>1. n \in Nat /\ taken \in 1 .. n /\ \A i \in 1 .. taken - 1 : s[i] # "nl"
  BY LenProperties, FgetsStops
<1>2. LineOf(s, size) = SubSeq(s, 1, last)
  BY Zenon DEF LineOf
<1>3. \A i \in 1 .. n : s[i] \in Typed
  BY ElementOfSeq
<1> HIDE DEF n, taken
<1>4. last \in Nat /\ \A i \in 1 .. last : i \in 1 .. n /\ (i \in 1 .. taken - 1 \/ (i = taken /\ s[taken] # "nl"))
  <2>1. CASE s[taken] = "nl"
    <3>1. last = taken - 1
      BY <2>1, Zenon
    <3> HIDE DEF last
    <3> QED
      BY <1>1, <3>1
  <2>2. CASE s[taken] # "nl"
    <3>1. last = taken
      BY <2>2, Zenon
    <3>2. taken \in Nat /\ \A i \in 1 .. taken : i \in 1 .. n /\ (i \in 1 .. taken - 1 \/ i = taken)
      BY <1>1
    <3> HIDE DEF last
    <3> QED
      BY <2>2, <3>1, <3>2, Zenon
  <2> QED
    BY <2>1, <2>2, Zenon
<1>5. \A i \in 1 .. last : s[i] \in Characters
  <2> TAKE i \in 1 .. last
  <2>1. s[i] \in Typed
    BY <1>3, <1>4, Zenon
  <2>2. s[i] # "nl"
    <3>1. CASE i \in 1 .. taken - 1
      BY <1>1, <3>1, Zenon
    <3>2. CASE i = taken /\ s[taken] # "nl"
      BY <3>2
    <3> QED
      BY <1>4, <3>1, <3>2, Zenon
  <2> QED
    BY <2>1, <2>2, Zenon DEF Typed
<1> HIDE DEF last
<1>6. SubSeq(s, 1, last) \in Seq(Characters)
  BY <1>4, <1>5, SubSeqProperties
<1> QED
  BY <1>2, <1>6, Zenon

\* A line that fits the buffer is read in one piece,
LEMMA FgetsWhole ==
  ASSUME NEW l \in Seq(Characters), NEW rest \in Seq(Typed), NEW size \in Nat, Len(l) + 2 <= size
  PROVE  /\ LineOf((l \o <<"nl">>) \o rest, size) = l
         /\ AfterFgets((l \o <<"nl">>) \o rest, size) = rest
<1> DEFINE s == (l \o <<"nl">>) \o rest
           k == Len(l) + 1
           taken == FgetsLength(s, size)
<1>0. l \in Seq(Typed) /\ NoNewline(l)
  BY LineType, Zenon
<1>1. /\ s \in Seq(Typed) /\ Len(s) = Len(l) + 1 + Len(rest)
      /\ \A i \in 1 .. Len(l) : s[i] = l[i] /\ s[i] # "nl"
      /\ s[k] = "nl"
      /\ \A i \in 1 .. Len(rest) : s[k + i] = rest[i]
  <2>1. IsLineThenRest(s, l, rest)
    BY <1>0, LineThenRest, Zenon
  <2> HIDE DEF s
  <2> QED
    BY <2>1, Zenon DEF IsLineThenRest, k
<1>2. /\ LineOf(s, size) = SubSeq(s, 1, IF s[taken] = "nl" THEN taken - 1 ELSE taken)
      /\ AfterFgets(s, size) = SubSeq(s, taken + 1, Len(s))
  BY Zenon DEF LineOf, AfterFgets
<1> HIDE DEF s
<1>3. Len(l) \in Nat /\ Len(rest) \in Nat
  BY LenProperties
<1>4. k \in 1 .. Len(s) /\ (\A i \in 1 .. k - 1 : s[i] # "nl") /\ size >= 2 /\ k <= size - 1
  BY <1>1, <1>3
<1>5. taken = k
  BY <1>1, <1>4, FgetsNewline, Zenon
<1> HIDE DEF taken
<1>6. SubSeq(s, k + 1, Len(s)) = rest
  BY <1>1, <1>3, SubSeqIs
<1>7. SubSeq(s, 1, Len(l)) = l
  <2> DEFINE u == SubSeq(s, 1, Len(l))
  <2>1. \A i \in 1 .. Len(l) : s[i] \in Typed
    BY <1>1, <1>3, <1>4, ElementOfSeq
  <2>2. u \in Seq(Typed) /\ Len(u) = Len(l) /\ \A i \in 1 .. Len(l) : u[i] = s[i]
    BY <1>3, <2>1, SubSeqProperties
  <2> HIDE DEF u
  <2>3. \A i \in 1 .. Len(u) : u[i] = l[i]
    BY <1>1, <2>2, Zenon
  <2> QED
    BY <1>0, <2>2, <2>3, SeqEqual, Zenon DEF u
<1>8. taken + 1 = k + 1 /\ (IF s[taken] = "nl" THEN taken - 1 ELSE taken) = Len(l)
  BY <1>1, <1>3, <1>5
<1> QED
  BY <1>2, <1>6, <1>7, <1>8, Zenon DEF s

\* a longer one in several.
LEMMA FgetsPiece ==
  ASSUME NEW l \in Seq(Characters), NEW rest \in Seq(Typed), NEW size \in Nat, size >= 2,
         ~(Len(l) + 2 <= size)
  PROVE  \E r \in Seq(Characters) :
           /\ Len(r) < Len(l)
           /\ AfterFgets((l \o <<"nl">>) \o rest, size) = (r \o <<"nl">>) \o rest
<1> DEFINE s == (l \o <<"nl">>) \o rest
           k == Len(l) + 1
           taken == FgetsLength(s, size)
           r == EndFrom(l, size)
           t == (r \o <<"nl">>) \o rest
<1>0. l \in Seq(Typed) /\ NoNewline(l)
  BY LineType, Zenon
<1>1. /\ s \in Seq(Typed) /\ Len(s) = Len(l) + 1 + Len(rest)
      /\ \A i \in 1 .. Len(l) : s[i] = l[i] /\ s[i] # "nl"
      /\ s[k] = "nl"
      /\ \A i \in 1 .. Len(rest) : s[k + i] = rest[i]
  <2>1. IsLineThenRest(s, l, rest)
    BY <1>0, LineThenRest, Zenon
  <2> HIDE DEF s
  <2> QED
    BY <2>1, Zenon DEF IsLineThenRest, k
<1>2. AfterFgets(s, size) = SubSeq(s, taken + 1, Len(s))
  BY Zenon DEF AfterFgets
<1> HIDE DEF s
<1>3. Len(l) \in Nat /\ Len(rest) \in Nat
  BY LenProperties
<1>4. k \in 1 .. Len(s) /\ (\A i \in 1 .. k - 1 : s[i] # "nl") /\ ~(k <= size - 1) /\ size \in 1 .. Len(l) + 1
  BY <1>1, <1>3
<1>5. taken = size - 1
  BY <1>1, <1>4, FgetsNewline, Zenon
<1>6. /\ r \in Seq(Characters) /\ Len(r) = Len(l) + 1 - size
      /\ \A i \in 1 .. Len(l) + 1 - size : r[i] = l[size - 1 + i]
  BY <1>4, EndFromIs, Zenon
<1> HIDE DEF taken, r
<1>7. Len(r) < Len(l) /\ Len(r) \in Nat
  BY <1>3, <1>4, <1>6
<1>8. /\ t \in Seq(Typed) /\ Len(t) = Len(r) + 1 + Len(rest)
      /\ \A i \in 1 .. Len(r) : t[i] = r[i]
      /\ t[Len(r) + 1] = "nl"
      /\ \A i \in 1 .. Len(rest) : t[Len(r) + 1 + i] = rest[i]
  <2>1. r \in Seq(Typed) /\ NoNewline(r)
    BY <1>6, LineType, Zenon
  <2>2. IsLineThenRest(t, r, rest)
    BY <2>1, LineThenRest, Zenon
  <2> HIDE DEF t
  <2> QED
    BY <2>2, Zenon DEF IsLineThenRest
<1> HIDE DEF t
<1>9. ASSUME NEW i \in 1 .. Len(t) PROVE s[size - 1 + i] = t[i]
  <2>1. CASE i \in 1 .. Len(r)
    <3>1. i \in 1 .. Len(l) + 1 - size /\ size - 1 + i \in 1 .. Len(l)
      BY <1>3, <1>4, <1>6, <2>1
    <3> QED
      BY <1>1, <1>6, <1>8, <2>1, <3>1, Zenon
  <2>2. CASE i = Len(r) + 1
    <3>1. size - 1 + i = k
      BY <1>3, <1>4, <1>6, <2>2
    <3>2. t[i] = "nl"
      BY <1>8, <2>2
    <3> QED
      BY <1>1, <3>1, <3>2
  <2>3. CASE ~(i <= Len(r) + 1)
    <3> DEFINE m == i - (Len(r) + 1)
    <3>1. m \in 1 .. Len(rest) /\ Len(r) + 1 + m = i /\ k + m = size - 1 + i
      BY <1>3, <1>4, <1>6, <1>7, <1>8, <2>3
    <3> HIDE DEF m
    <3>2. t[Len(r) + 1 + m] = rest[m] /\ s[k + m] = rest[m]
      BY <1>1, <1>8, <3>1, Zenon
    <3> QED
      BY <3>1, <3>2
  <2>4. i \in 1 .. Len(r) \/ i = Len(r) + 1 \/ ~(i <= Len(r) + 1)
    BY <1>7
  <2> QED
    BY <2>1, <2>2, <2>3, <2>4, Zenon
<1>10. size \in Nat \ {0} /\ size <= Len(s) + 1 /\ Len(t) = Len(s) + 1 - size /\ taken + 1 = size
  <2>1. /\ Len(s) = Len(l) + 1 + Len(rest) /\ Len(t) = Len(r) + 1 + Len(rest)
        /\ Len(r) = Len(l) + 1 - size
    BY <1>1, <1>6, <1>8, Zenon
  <2> QED
    BY <1>3, <1>4, <1>5, <2>1
<1>11. SubSeq(s, size, Len(s)) = t
  <2>1. s \in Seq(Typed) /\ t \in Seq(Typed)
    BY <1>1, <1>8, Zenon
  <2> QED
    BY <1>9, <1>10, <2>1, SubSeqIs
<1>12. AfterFgets(s, size) = t
  BY <1>2, <1>10, <1>11, Zenon
<1> QED
  BY <1>6, <1>7, <1>12, Zenon DEF s, t

-------------------------------------------------------------------------------
(* The tokens of a line *)

\* A text, a mark and another text can be told apart again.
LEMMA JoinParts ==
  ASSUME NEW S, NEW l \in Seq(S), NEW c \in S, NEW r \in Seq(S)
  PROVE  LET s == (l \o <<c>>) \o r
         IN  /\ s \in Seq(S) /\ Len(s) = Len(l) + 1 + Len(r)
             /\ \A i \in 1 .. Len(l) : s[i] = l[i]
             /\ s[Len(l) + 1] = c
             /\ SubSeq(s, 1, Len(l)) = l
             /\ SubSeq(s, Len(l) + 2, Len(s)) = r
<1> DEFINE m == <<c>>
           e == l \o m
           s == e \o r
<1>1. m \in Seq(S) /\ Len(m) = 1 /\ m[1] = c /\ Len(l) \in Nat /\ Len(r) \in Nat
  BY LenProperties
<1> HIDE DEF m
<1>2. /\ e \in Seq(S) /\ Len(e) = Len(l) + 1 /\ e[Len(l) + 1] = c
      /\ \A i \in 1 .. Len(l) : e[i] = l[i]
  <2>1. /\ l \o m \in Seq(S) /\ Len(l \o m) = Len(l) + Len(m)
        /\ \A i \in 1 .. Len(l) + Len(m) : (l \o m)[i] = IF i <= Len(l) THEN l[i] ELSE m[i - Len(l)]
    BY <1>1, ConcatProperties, Zenon
  <2>2. /\ Len(l) + 1 \in 1 .. Len(l) + Len(m) /\ ~(Len(l) + 1 <= Len(l)) /\ Len(l) + 1 - Len(l) = 1
        /\ \A i \in 1 .. Len(l) : i \in 1 .. Len(l) + Len(m) /\ i <= Len(l)
    BY <1>1
  <2>3. e \in Seq(S) /\ Len(e) = Len(l) + 1
    BY <1>1, <2>1
  <2>4. e[Len(l) + 1] = c
    <3> DEFINE k == Len(l) + 1
    <3>1. k \in 1 .. Len(l) + Len(m) /\ ~(k <= Len(l)) /\ k - Len(l) = 1
      BY <2>2
    <3> HIDE DEF k
    <3>2. e[k] = m[k - Len(l)]
      BY <2>1, <3>1, Zenon
    <3>3. e[k] = c
      BY <1>1, <3>1, <3>2, Zenon
    <3> QED
      BY <3>3, Zenon DEF k
  <2>5. \A i \in 1 .. Len(l) : e[i] = l[i]
    BY <2>1, <2>2, Zenon
  <2> QED
    BY <2>3, <2>4, <2>5, Zenon
<1> HIDE DEF e
<1>3. /\ e \o r \in Seq(S) /\ Len(e \o r) = Len(e) + Len(r)
      /\ \A i \in 1 .. Len(e) + Len(r) : (e \o r)[i] = IF i <= Len(e) THEN e[i] ELSE r[i - Len(e)]
  BY <1>2, ConcatProperties, Zenon
<1>4. s = e \o r
  BY Zenon
<1> HIDE DEF s
<1>5. \A i \in 1 .. Len(s) : s[i] = IF i <= Len(e) THEN e[i] ELSE r[i - Len(e)]
  BY <1>3, <1>4, Zenon
<1>6. s \in Seq(S) /\ Len(s) = Len(e) + Len(r)
  BY <1>3, <1>4, Zenon
<1>7. /\ Len(s) = Len(l) + 1 + Len(r)
      /\ \A i \in 1 .. Len(l) + 1 : i \in 1 .. Len(s) /\ i <= Len(e)
      /\ \A i \in 1 .. Len(r) : LET k == Len(l) + 1 + i IN k \in 1 .. Len(s) /\ ~(k <= Len(e)) /\ k - Len(e) = i
      /\ Len(l) + 1 \in 1 .. Len(l) + 1 /\ \A i \in 1 .. Len(l) : i \in 1 .. Len(l) + 1
  BY <1>1, <1>2, <1>6
<1>8. \A i \in 1 .. Len(l) : s[i] = l[i]
  BY <1>2, <1>5, <1>7, Zenon
<1>9. s[Len(l) + 1] = c
  BY <1>2, <1>5, <1>7, Zenon
<1>10. \A i \in 1 .. Len(r) : s[Len(l) + 1 + i] = r[i]
  BY <1>5, <1>7, Zenon
<1>11. SubSeq(s, 1, Len(l)) = l
  <2> DEFINE u == SubSeq(s, 1, Len(l))
  <2>1. \A i \in 1 .. Len(l) : s[i] \in S
    BY <1>1, <1>6, <1>7, ElementOfSeq
  <2>2. u \in Seq(S) /\ Len(u) = Len(l) /\ \A i \in 1 .. Len(l) : u[i] = s[i]
    BY <1>1, <2>1, SubSeqProperties
  <2> HIDE DEF u
  <2>3. \A i \in 1 .. Len(u) : u[i] = l[i]
    BY <1>8, <2>2, Zenon
  <2> QED
    BY <2>2, <2>3, SeqEqual, Zenon DEF u
<1>12. SubSeq(s, Len(l) + 2, Len(s)) = r
  <2> DEFINE k == Len(l) + 2
  <2>1. k \in Nat \ {0} /\ k <= Len(s) + 1 /\ Len(r) = Len(s) + 1 - k /\ k - 1 = Len(l) + 1
    BY <1>1, <1>7
  <2> HIDE DEF k
  <2>2. \A i \in 1 .. Len(r) : s[k - 1 + i] = r[i]
    BY <1>10, <2>1
  <2>3. SubSeq(s, k, Len(s)) = r
    BY <1>6, <2>1, <2>2, SubSeqIs
  <2> QED
    BY <2>3, Zenon DEF k
<1> QED
  BY <1>6, <1>7, <1>8, <1>9, <1>11, <1>12, Zenon DEF s, e, m

\* Texts without a separator.
NoBar(t) == \A i \in 1 .. Len(t) : t[i] # "|"
FirstBar(s) == SelectInSeq(s, LAMBDA c : c = "|")

LEMMA FirstBarIs ==
  ASSUME NEW S, NEW s \in Seq(S)
  PROVE  /\ FirstBar(s) \in 0 .. Len(s)
         /\ FirstBar(s) = 0 => NoBar(s)
         /\ FirstBar(s) # 0 => s[FirstBar(s)] = "|" /\ \A i \in 1 .. FirstBar(s) - 1 : s[i] # "|"
<1> DEFINE n == Len(s)
           U == {i \in 1 .. n : s[i] = "|"}
           k == FirstBar(s)
<1>1. n \in Nat /\ U \in SUBSET Nat
  BY LenProperties
<1>2. k = IF U = {} THEN 0 ELSE Min(U)
  BY Zenon DEF FirstBar, SelectInSeq
<1>3. CASE U = {}
  <2>1. k = 0 /\ 0 \in 0 .. n
    BY <1>1, <1>2, <1>3
  <2> QED
    BY <1>3, <2>1, Zenon DEF NoBar
<1>4. CASE U # {}
  <2>1. k \in U /\ \A i \in U : k <= i
    BY <1>1, <1>2, <1>4, LeastNumber, Zenon
  <2>2. k \in 1 .. n /\ s[k] = "|" /\ \A i \in 1 .. n : s[i] = "|" => k <= i
    BY <2>1, Zenon
  <2> HIDE DEF k, n
  <2>3. k \in 0 .. n /\ k # 0 /\ \A i \in 1 .. k - 1 : i \in 1 .. n /\ ~(k <= i)
    BY <1>1, <2>2
  <2> QED
    BY <2>2, <2>3, Zenon DEF k, n
<1> QED
  BY <1>3, <1>4, Zenon

LEMMA FirstBarAt ==
  ASSUME NEW S, NEW s \in Seq(S), NEW k \in 1 .. Len(s), s[k] = "|",
         \A i \in 1 .. k - 1 : s[i] # "|"
  PROVE  FirstBar(s) = k
<1> DEFINE j == FirstBar(s)
<1>1. /\ j \in 0 .. Len(s) /\ (j = 0 => NoBar(s)) /\ Len(s) \in Nat
      /\ j # 0 => s[j] = "|" /\ \A i \in 1 .. j - 1 : s[i] # "|"
  BY FirstBarIs, LenProperties
<1> HIDE DEF j
<1>2. j # 0
  BY <1>1, Zenon DEF NoBar
<1>3. j \notin 1 .. k - 1 /\ k \notin 1 .. j - 1
  BY <1>1, <1>2, Zenon
<1>4. j = k
  BY <1>1, <1>2, <1>3
<1> QED
  BY <1>4, Zenon DEF j

LEMMA NoFirstBar ==
  ASSUME NEW S, NEW s \in Seq(S), NoBar(s)
  PROVE  FirstBar(s) = 0
<1>1. FirstBar(s) \in 0 .. Len(s) /\ Len(s) \in Nat /\ (FirstBar(s) # 0 => s[FirstBar(s)] = "|")
  BY FirstBarIs, LenProperties
<1>2. FirstBar(s) # 0 => FirstBar(s) \in 1 .. Len(s)
  BY <1>1
<1> QED
  BY <1>1, <1>2, Zenon DEF NoBar

\* strtok_r takes a run of the text, and leaves an end of it.
LEMMA RunIs ==
  ASSUME NEW S, NEW s \in Seq(S)
  PROVE  /\ FirstRun(s) = SubSeq(s, 1, IF FirstBar(s) = 0 THEN Len(s) ELSE FirstBar(s) - 1)
         /\ FirstRun(s) \in Seq(S)
         /\ Len(FirstRun(s)) = IF FirstBar(s) = 0 THEN Len(s) ELSE FirstBar(s) - 1
         /\ AfterRun(s) = IF FirstBar(s) = 0 THEN <<>> ELSE EndFrom(s, FirstBar(s) + 1)
         /\ s # <<>> => IsRest(s, AfterRun(s)) /\ AfterRun(s) \in Seq(S)
<1> DEFINE n == Len(s)
           bar == FirstBar(s)
           run == FirstRun(s)
           rest == AfterRun(s)
           k == IF bar = 0 THEN n ELSE bar - 1
<1>1. n \in Nat /\ bar \in 0 .. n /\ \A i \in 1 .. n : s[i] \in S
  BY FirstBarIs, LenProperties, ElementOfSeq
<1>2. run = SubSeq(s, 1, k) /\ rest = SubSeq(s, Len(run) + 2, n)
  BY Zenon DEF FirstRun, AfterRun, FirstBar
<1> HIDE DEF n, bar, run, rest
<1>3. k \in 0 .. n
  BY <1>1
<1> HIDE DEF k
<1>4. run \in Seq(S) /\ Len(run) = k
  <2>1. \A i \in 1 .. k : s[i] \in S
    BY <1>1, <1>3
  <2> QED
    BY <1>2, <1>3, <2>1, SubSeqProperties
<1>5. CASE bar = 0
  <2>1. Len(run) + 2 = n + 2 /\ n + 2 \in Int /\ n \in Int /\ n < n + 2 /\ n < n + 1 /\ n + 1 \in Int
    BY <1>1, <1>4, <1>5 DEF k
  <2>2. rest = <<>> /\ SubSeq(s, n + 1, n) = <<>>
    <3>1. SubSeq(s, n + 2, n) = <<>> /\ SubSeq(s, n + 1, n) = <<>>
      BY <2>1, SubSeqEmpty, Zenon
    <3> QED
      BY <1>2, <2>1, <3>1, Zenon
  <2>3. s # <<>> => IsRest(s, rest)
    <3> SUFFICES ASSUME s # <<>> PROVE IsRest(s, rest)
      OBVIOUS
    <3>1. n \in 1 .. n
      <4>1. n # 0
        BY EmptySeq DEF n
      <4> QED
        BY <1>1, <4>1
    <3>2. rest = EndFrom(s, n + 1)
      BY <2>2, Zenon DEF EndFrom, n
    <3> QED
      BY <3>1, <3>2, Zenon DEF IsRest, n
  <2>4. <<>> \in Seq(S)
    BY EmptySeq, Zenon
  <2> QED
    BY <1>2, <1>4, <1>5, <2>2, <2>3, <2>4, Zenon DEF n, bar, run, rest, k
<1>6. CASE bar # 0
  <2>1. Len(run) + 2 = bar + 1 /\ bar \in 1 .. n /\ bar + 1 \in 1 .. n + 1
    BY <1>1, <1>4, <1>6 DEF k
  <2>2. rest = EndFrom(s, bar + 1)
    BY <1>2, <2>1, Zenon DEF EndFrom, n
  <2>3. IsRest(s, rest)
    BY <2>1, <2>2, Zenon DEF IsRest, n
  <2>4. rest \in Seq(S)
    <3> DEFINE j == bar + 1
    <3>1. j \in 1 .. Len(s) + 1
      BY <2>1, Zenon DEF n
    <3> HIDE DEF j
    <3>2. EndFrom(s, j) \in Seq(S)
      BY <3>1, EndFromIs
    <3> QED
      BY <2>2, <3>2, Zenon DEF j
  <2> QED
    BY <1>2, <1>4, <1>6, <2>2, <2>3, <2>4, Zenon DEF n, bar, run, rest, k
<1> QED
  BY <1>5, <1>6, Zenon

\* The tokens of a text are its first run, unless that is empty, and the tokens
\* of what follows.
LEMMA TokensOf ==
  ASSUME NEW S, NEW text \in Seq(S)
  PROVE  /\ Tokens(text) \in Seq(Seq(S))
         /\ text = <<>> => Tokens(text) = <<>>
         /\ text # <<>> =>
              Tokens(text) = (IF FirstRun(text) = <<>> THEN <<>> ELSE <<FirstRun(text)>>)
                               \o Tokens(AfterRun(text))
<1> DEFINE run(s) == IF FirstRun(s) = <<>> THEN <<>> ELSE <<FirstRun(s)>>
           first == [s \in Seq(S) |-> run(s)]
           next == [s \in Seq(S) |-> AfterRun(s)]
           result == [s \in Seq(S) |-> Tokens(s)]
<1>1. ASSUME NEW s \in Seq(S), s # <<>>
      PROVE  first[s] \in Seq(Seq(S)) /\ next[s] \in Seq(S) /\ IsRest(s, next[s])
  <2> DEFINE token == FirstRun(s)
  <2>1. token \in Seq(S) /\ AfterRun(s) \in Seq(S) /\ IsRest(s, AfterRun(s))
    BY <1>1, RunIs, Zenon
  <2>2. first[s] = IF token = <<>> THEN <<>> ELSE <<token>>
    BY Zenon
  <2>3. next[s] = AfterRun(s)
    BY Zenon
  <2> HIDE DEF token, first, next
  <2>4. <<token>> \in Seq(Seq(S)) /\ <<>> \in Seq(Seq(S))
    BY <2>1
  <2> QED
    BY <2>1, <2>2, <2>3, <2>4, Zenon
<1>2. ASSUME NEW s \in Seq(S), \E f : IsUnfolded(f, Suffixes(s), first, next)
      PROVE  \E f : IsUnfolded(f, Suffixes(s), first, next) /\ result[s] = f[s]
  <2> DEFINE F == CHOOSE f : f = [t \in Suffixes(s) |->
                                   IF t = <<>> THEN <<>> ELSE run(t) \o f[AfterRun(t)]]
  <2>1. \A t \in Suffixes(s) : t \in Seq(S)
    BY SuffixesAreEnds, Zenon
  <2>2. ASSUME NEW f
        PROVE  IsUnfolded(f, Suffixes(s), first, next) <=>
                 f = [t \in Suffixes(s) |-> IF t = <<>> THEN <<>> ELSE run(t) \o f[AfterRun(t)]]
    <3>1. [t \in Suffixes(s) |-> IF t = <<>> THEN <<>> ELSE first[t] \o f[next[t]]]
            = [t \in Suffixes(s) |-> IF t = <<>> THEN <<>> ELSE run(t) \o f[AfterRun(t)]]
      <4> DEFINE g(t) == run(t)
      <4>1. \A t \in Suffixes(s) : first[t] = g(t) /\ next[t] = AfterRun(t)
        BY <2>1, Zenon
      <4> HIDE DEF g, first, next
      <4>2. [t \in Suffixes(s) |-> IF t = <<>> THEN <<>> ELSE first[t] \o f[next[t]]]
              = [t \in Suffixes(s) |-> IF t = <<>> THEN <<>> ELSE g(t) \o f[AfterRun(t)]]
        BY <4>1, Zenon
      <4> QED
        BY <4>2, Zenon DEF g
    <3> HIDE DEF first, next, run
    <3> QED
      BY <3>1, Zenon DEF IsUnfolded
  <2>3. IsUnfolded(F, Suffixes(s), first, next)
    <3> HIDE DEF first, next, run
    <3> QED
      BY <1>2, <2>2, Zenon
  <2>4. result[s] = F[s]
    BY Zenon DEF Tokens
  <2> HIDE DEF F, first, next, result
  <2> QED
    BY <2>3, <2>4, Zenon
<1>6. \A s \in Seq(S) : first[s] = run(s) /\ next[s] = AfterRun(s) /\ result[s] = Tokens(s)
  BY Zenon
<1> HIDE DEF first, next, result
<1>3. TakesFromFront(S, Seq(S), first, next)
  BY <1>1, Zenon DEF TakesFromFront
<1>4. Recurs(result, S, first, next)
  BY <1>2, Zenon DEF Recurs
<1>5. Unfolds(result, S, Seq(S), first, next)
  BY <1>3, <1>4, RecursionUnfolds, Zenon
<1> HIDE DEF run
<1>7. /\ result[text] \in Seq(Seq(S)) /\ (text = <<>> => result[text] = <<>>)
      /\ text # <<>> => result[text] = first[text] \o result[next[text]]
  BY <1>5, Zenon DEF Unfolds
<1>8. text # <<>> => result[next[text]] = Tokens(AfterRun(text))
  BY <1>1, <1>6, Zenon
<1>9. text # <<>> => Tokens(text) = run(text) \o Tokens(AfterRun(text))
  BY <1>6, <1>7, <1>8, Zenon
<1>10. Tokens(text) \in Seq(Seq(S)) /\ (text = <<>> => Tokens(text) = <<>>)
  BY <1>6, <1>7, Zenon
<1> QED
  BY <1>9, <1>10, Zenon DEF run

\* A token that the separator ends, and one that the text ends.
LEMMA TokenThenRest ==
  ASSUME NEW t \in Seq(Characters), t # <<>>, NoBar(t), NEW r \in Seq(Characters)
  PROVE  /\ (t \o <<"|">>) \o r \in Seq(Characters)
         /\ Tokens((t \o <<"|">>) \o r) = <<t>> \o Tokens(r)
<1> DEFINE s == (t \o <<"|">>) \o r
           k == Len(t) + 1
<1>1. "|" \in Characters
  BY DEF Characters
<1>2. /\ s \in Seq(Characters) /\ Len(s) = Len(t) + 1 + Len(r)
      /\ \A i \in 1 .. Len(t) : s[i] = t[i]
      /\ s[k] = "|"
      /\ SubSeq(s, 1, Len(t)) = t
      /\ SubSeq(s, Len(t) + 2, Len(s)) = r
  BY <1>1, JoinParts
<1> HIDE DEF s
<1>3. Len(t) \in Nat /\ Len(r) \in Nat
  BY LenProperties
<1>4. k \in 1 .. Len(s) /\ k # 0 /\ k - 1 = Len(t) /\ \A i \in 1 .. k - 1 : i \in 1 .. Len(t)
  BY <1>2, <1>3
<1>5. \A i \in 1 .. k - 1 : s[i] # "|"
  BY <1>2, <1>4, Zenon DEF NoBar
<1> HIDE DEF k
<1>6. FirstBar(s) = k
  BY <1>2, <1>4, <1>5, FirstBarAt
<1>7. FirstRun(s) = t
  BY <1>2, <1>4, <1>6, RunIs, Zenon
<1>8. AfterRun(s) = r
  BY <1>2, <1>7, Zenon DEF AfterRun
<1>9. s # <<>>
  BY <1>2, <1>4, EmptySeq
<1>10. Tokens(s) = <<t>> \o Tokens(r)
  BY <1>2, <1>7, <1>8, <1>9, TokensOf, Zenon
<1> QED
  BY <1>2, <1>10, Zenon DEF s

LEMMA LastToken ==
  ASSUME NEW t \in Seq(Characters), t # <<>>, NoBar(t)
  PROVE  Tokens(t) = <<t>>
<1>1. FirstBar(t) = 0
  BY NoFirstBar
<1>2. FirstRun(t) = SubSeq(t, 1, Len(t)) /\ AfterRun(t) = <<>>
  BY <1>1, RunIs, Zenon
<1>3. SubSeq(t, 1, Len(t)) = t
  <2>1. EndFrom(t, 1) = t
    BY SuffixesAreEnds
  <2> QED
    BY <2>1, Zenon DEF EndFrom
<1>4. Tokens(<<>>) = <<>>
  <2>1. <<>> \in Seq(Characters)
    BY EmptySeq
  <2> QED
    BY <2>1, TokensOf, Zenon
<1>5. Tokens(t) = <<t>> \o <<>>
  BY <1>2, <1>3, <1>4, TokensOf, Zenon
<1>6. <<t>> \in Seq(Seq(Characters))
  OBVIOUS
<1>7. <<t>> \o <<>> = <<t>>
  BY <1>6, ConcatEmptySeq, Zenon
<1> QED
  BY <1>5, <1>7, Zenon

\* One more element in front.
IsInFront(t, S, e, s) ==
  /\ t \in Seq(S) /\ Len(t) = Len(s) + 1 /\ t[1] = e
  /\ \A i \in 1 .. Len(s) : t[i + 1] = s[i]

LEMMA InFront ==
  ASSUME NEW S, NEW e \in S, NEW s \in Seq(S)
  PROVE  IsInFront(<<e>> \o s, S, e, s)
<1> DEFINE a == <<e>>
           t == a \o s
<1>1. a \in Seq(S) /\ Len(a) = 1 /\ a[1] = e /\ Len(s) \in Nat
  BY LenProperties
<1> HIDE DEF a
<1>2. /\ t \in Seq(S) /\ Len(t) = Len(a) + Len(s)
      /\ \A i \in 1 .. Len(a) + Len(s) : t[i] = IF i <= Len(a) THEN a[i] ELSE s[i - Len(a)]
  BY <1>1, ConcatProperties, Zenon
<1> HIDE DEF t
<1>3. Len(t) = Len(s) + 1
  BY <1>1, <1>2
<1>4. t[1] = e
  BY <1>1, <1>2
<1>5. ASSUME NEW i \in 1 .. Len(s) PROVE t[i + 1] = s[i]
  <2> DEFINE j == i + 1
  <2>1. j \in 1 .. Len(a) + Len(s) /\ ~(j <= Len(a)) /\ j - Len(a) = i
    BY <1>1
  <2> HIDE DEF j
  <2>2. t[j] = s[i]
    BY <1>2, <2>1
  <2> QED
    BY <2>2, Zenon DEF j
<1> QED
  BY <1>2, <1>3, <1>4, <1>5, Zenon DEF IsInFront, t, a

\* Four texts joined by separators fall apart into the four.
IsToken(t) == t \in Seq(Characters) /\ t # <<>> /\ NoBar(t)

HasTokens(line, t1, t2, t3, t4) ==
  /\ line \in Seq(Characters) /\ Len(Tokens(line)) = 4
  /\ Tokens(line)[1] = t1 /\ Tokens(line)[2] = t2
  /\ Tokens(line)[3] = t3 /\ Tokens(line)[4] = t4
  /\ line # <<>> /\ line[1] = t1[1]

LEMMA FourTokens ==
  ASSUME NEW t1, IsToken(t1), NEW t2, IsToken(t2), NEW t3, IsToken(t3), NEW t4, IsToken(t4)
  PROVE  HasTokens(t1 \o <<"|">> \o t2 \o <<"|">> \o t3 \o <<"|">> \o t4, t1, t2, t3, t4)
<1> DEFINE S == Seq(Characters)
           b == <<"|">>
           a1 == t1 \o b
           a2 == t2 \o b
           a3 == t3 \o b
           line == t1 \o b \o t2 \o b \o t3 \o b \o t4
           folded == a1 \o (a2 \o (a3 \o t4))
<1>0. t1 \in S /\ t2 \in S /\ t3 \in S /\ t4 \in S
  BY Zenon DEF IsToken
<1>4. t1 # <<>> /\ NoBar(t1) /\ t2 # <<>> /\ NoBar(t2) /\ t3 # <<>> /\ NoBar(t3) /\ t4 # <<>> /\ NoBar(t4)
  BY Zenon DEF IsToken
<1>1. b \in S
  <2>1. "|" \in Characters
    BY Zenon DEF Characters
  <2> QED
    BY <2>1
<1> HIDE DEF b
<1>2. a1 \in S /\ a2 \in S /\ a3 \in S
  BY <1>0, <1>1, ConcatProperties, Zenon
<1>3. line = folded
  <2> DEFINE p1 == a1 \o t2
             p2 == a1 \o a2
             p3 == p2 \o t3
             p4 == p2 \o a3
             q == a3 \o t4
  <2>1. p2 \in S /\ q \in S
    BY <1>0, <1>2, ConcatProperties
  <2>2. /\ JoinsEitherWay(a1, t2, b) /\ JoinsEitherWay(p2, t3, b)
        /\ JoinsEitherWay(p2, a3, t4) /\ JoinsEitherWay(a1, a2, q)
    <3> HIDE DEF a1, a2, a3, p2, q
    <3> QED
      BY <1>0, <1>1, <1>2, <2>1, JoinEitherWay, Zenon
  <2>3. (a1 \o t2) \o b = a1 \o a2
    BY <2>2, Zenon DEF JoinsEitherWay
  <2>4. (p2 \o t3) \o b = p2 \o a3
    BY <2>2, Zenon DEF JoinsEitherWay
  <2>5. (p2 \o a3) \o t4 = p2 \o q
    BY <2>2, Zenon DEF JoinsEitherWay
  <2>6. (a1 \o a2) \o q = a1 \o (a2 \o q)
    BY <2>2, Zenon DEF JoinsEitherWay
  <2>7. line = (p4 \o t4)
    <3>1. p1 \o b = p2
      BY <2>3, Zenon
    <3>2. p3 \o b = p4
      BY <2>4, Zenon
    <3>3. line = (((p1 \o b) \o t3) \o b) \o t4
      BY Zenon
    <3> HIDE DEF line, p4, p2, p1
    <3> QED
      BY <3>1, <3>2, <3>3, Zenon
  <2>8. p4 \o t4 = folded
    <3>1. p4 \o t4 = p2 \o q
      BY <2>5, Zenon
    <3>2. p2 \o q = folded
      BY <2>6, Zenon
    <3> QED
      BY <3>1, <3>2, Zenon
  <2> QED
    BY <2>7, <2>8, Zenon
<1> DEFINE r3 == a3 \o t4
           r2 == a2 \o r3
<1>5. Tokens(t4) \in Seq(S) /\ Len(Tokens(t4)) = 1 /\ Tokens(t4)[1] = t4
  <2>1. Tokens(t4) = <<t4>>
    BY <1>0, <1>4, LastToken, Zenon
  <2> HIDE DEF S
  <2>2. <<t4>> \in Seq(S) /\ Len(<<t4>>) = 1 /\ <<t4>>[1] = t4
    BY <1>0
  <2> QED
    BY <2>1, <2>2, Zenon
<1>6. r3 \in S /\ Tokens(r3) = <<t3>> \o Tokens(t4)
  BY <1>0, <1>4, TokenThenRest, Zenon DEF b
<1>7. r2 \in S /\ Tokens(r2) = <<t2>> \o Tokens(r3)
  <2> HIDE DEF r3
  <2> QED
    BY <1>0, <1>4, <1>6, TokenThenRest, Zenon DEF b
<1>8. folded \in S /\ Tokens(folded) = <<t1>> \o Tokens(r2)
  <2> HIDE DEF r2
  <2>1. (a1 \o r2) \in S /\ Tokens(a1 \o r2) = <<t1>> \o Tokens(r2)
    BY <1>0, <1>4, <1>7, TokenThenRest, Zenon DEF b
  <2>2. folded = a1 \o r2
    BY Zenon DEF r2
  <2> QED
    BY <2>1, <2>2, Zenon
<1>13. folded # <<>> /\ folded[1] = t1[1]
  <2> DEFINE r == r2
             s == (t1 \o <<"|">>) \o r
  <2>1. "|" \in Characters
    BY Zenon DEF Characters
  <2>2. r \in Seq(Characters)
    BY <1>7, Zenon
  <2>3. folded = s
    BY Zenon DEF b
  <2> HIDE DEF r, folded
  <2>4. s \in S /\ Len(s) = Len(t1) + 1 + Len(r) /\ \A i \in 1 .. Len(t1) : s[i] = t1[i]
    BY <1>0, <2>1, <2>2, JoinParts
  <2> HIDE DEF s
  <2>5. Len(t1) \in Nat \ {0} /\ Len(r) \in Nat
    BY <1>0, <1>4, <2>2, EmptySeq, LenProperties
  <2>6. 1 \in 1 .. Len(t1) /\ Len(s) # 0
    BY <2>4, <2>5
  <2>7. s # <<>> /\ s[1] = t1[1]
    BY <2>4, <2>6, EmptySeq
  <2> QED
    BY <2>3, <2>7, Zenon
<1> DEFINE k4 == Tokens(t4)
           k3 == Tokens(r3)
           k2 == Tokens(r2)
           k1 == Tokens(folded)
<1> HIDE DEF r2, r3, folded, line, a1, a2, a3, k4, k3, k2, k1
<1>9. k3 \in Seq(S) /\ Len(k3) = 2 /\ k3[1] = t3 /\ k3[2] = t4
  <2>0. k4 \in Seq(S) /\ Len(k4) = 1 /\ k4[1] = t4 /\ k3 = <<t3>> \o k4 /\ t3 \in S
    BY <1>0, <1>5, <1>6, Zenon DEF k4, k3
  <2> HIDE DEF S
  <2>1. /\ k3 \in Seq(S) /\ Len(k3) = Len(k4) + 1 /\ k3[1] = t3
        /\ \A i \in 1 .. Len(k4) : k3[i + 1] = k4[i]
    <3>1. IsInFront(<<t3>> \o k4, S, t3, k4)
      BY <2>0, InFront, Zenon
    <3>2. IsInFront(k3, S, t3, k4)
      BY <2>0, <3>1, Zenon
    <3> QED
      BY <3>2, Zenon DEF IsInFront
  <2> QED
    BY <2>0, <2>1
<1>10. k2 \in Seq(S) /\ Len(k2) = 3 /\ k2[1] = t2 /\ k2[2] = t3 /\ k2[3] = t4
  <2>0. k2 = <<t2>> \o k3 /\ t2 \in S
    BY <1>0, <1>7, Zenon DEF k2, k3
  <2> HIDE DEF S
  <2>1. /\ k2 \in Seq(S) /\ Len(k2) = Len(k3) + 1 /\ k2[1] = t2
        /\ \A i \in 1 .. Len(k3) : k2[i + 1] = k3[i]
    <3>1. IsInFront(<<t2>> \o k3, S, t2, k3)
      BY <1>9, <2>0, InFront, Zenon
    <3>2. IsInFront(k2, S, t2, k3)
      BY <2>0, <3>1, Zenon
    <3> QED
      BY <3>2, Zenon DEF IsInFront
  <2> QED
    BY <1>9, <2>1
<1>11. k1 \in Seq(S) /\ Len(k1) = 4 /\ k1[1] = t1 /\ k1[2] = t2 /\ k1[3] = t3 /\ k1[4] = t4
  <2>0. k1 = <<t1>> \o k2 /\ t1 \in S
    BY <1>0, <1>8, Zenon DEF k1, k2
  <2> HIDE DEF S
  <2>1. /\ k1 \in Seq(S) /\ Len(k1) = Len(k2) + 1 /\ k1[1] = t1
        /\ \A i \in 1 .. Len(k2) : k1[i + 1] = k2[i]
    <3>1. IsInFront(<<t1>> \o k2, S, t1, k2)
      BY <1>10, <2>0, InFront, Zenon
    <3>2. IsInFront(k1, S, t1, k2)
      BY <2>0, <3>1, Zenon
    <3> QED
      BY <3>2, Zenon DEF IsInFront
  <2> QED
    BY <1>10, <2>1
<1>12. line \in S /\ Tokens(line) = k1
  BY <1>3, <1>8, Zenon DEF k1
<1>14. line # <<>> /\ line[1] = t1[1]
  BY <1>3, <1>13, Zenon
<1> QED
  BY <1>11, <1>12, <1>14, Zenon DEF HasTokens, line, b

-------------------------------------------------------------------------------
(* Numbers *)

\* The recursion of ValueOf.
IsValue(f, s) ==
  f = [k \in 0 .. Len(s) |-> IF k = 0 THEN 0 ELSE 10 * f[k - 1] + DigitValue[s[k]]]

LEMMA DigitForIs ==
  /\ \A n \in 0 .. 9 : DigitFor[n + 1] \in Digits
  /\ \A m, n \in 0 .. 9 : DigitFor[m + 1] = DigitFor[n + 1] => m = n
  /\ \A d \in Digits : \E n \in 0 .. 9 : DigitFor[n + 1] = d
<1> DEFINE D == DigitFor
<1>1. /\ D[1] = "0" /\ D[2] = "1" /\ D[3] = "2" /\ D[4] = "3" /\ D[5] = "4"
      /\ D[6] = "5" /\ D[7] = "6" /\ D[8] = "7" /\ D[9] = "8" /\ D[10] = "9"
  BY DEF DigitFor
<1> HIDE DEF D
<1>2. \A n \in 0 .. 9 : n = 0 \/ n = 1 \/ n = 2 \/ n = 3 \/ n = 4 \/ n = 5 \/ n = 6 \/ n = 7 \/ n = 8 \/ n = 9
  OBVIOUS
<1>3. \A n \in 0 .. 9 : D[n + 1] \in Digits
  BY <1>1, <1>2 DEF Digits
<1>4. \A m, n \in 0 .. 9 : D[m + 1] = D[n + 1] => m = n
  BY <1>1, <1>2
<1>5. \A d \in Digits : \E n \in 0 .. 9 : D[n + 1] = d
  BY <1>1 DEF Digits
<1> QED
  BY <1>3, <1>4, <1>5, Zenon DEF D

LEMMA DigitValueIs ==
  /\ \A d \in Digits : DigitValue[d] \in 0 .. 9
  /\ \A n \in 0 .. 9 : DigitValue[DigitFor[n + 1]] = n
<1>1. \A d \in Digits : DigitValue[d] \in 0 .. 9 /\ DigitFor[DigitValue[d] + 1] = d
  <2> TAKE d \in Digits
  <2>1. DigitValue[d] = CHOOSE n \in 0 .. 9 : DigitFor[n + 1] = d
    BY Zenon DEF DigitValue
  <2>2. \E n \in 0 .. 9 : DigitFor[n + 1] = d
    BY DigitForIs, Zenon
  <2> QED
    BY <2>1, <2>2, Zenon
<1>2. \A n \in 0 .. 9 : DigitValue[DigitFor[n + 1]] = n
  BY <1>1, DigitForIs, Zenon
<1> QED
  BY <1>1, <1>2, Zenon

LEMMA ValueExists ==
  ASSUME NEW s \in Seq(Digits)
  PROVE  \E f \in [0 .. Len(s) -> Nat] : IsValue(f, s)
<1> DEFINE N == Len(s)
           digit(k) == DigitValue[s[k]]
           Value(f, n) == /\ f \in [0 .. n -> Nat]
                          /\ f = [k \in 0 .. n |-> IF k = 0 THEN 0 ELSE 10 * f[k - 1] + digit(k)]
           U == {n \in Nat : n <= N => \E f : Value(f, n)}
<1>0. N \in Nat /\ \A k \in 1 .. N : digit(k) \in Nat
  <2>1. N \in Nat /\ \A k \in 1 .. N : s[k] \in Digits
    BY LenProperties, ElementOfSeq
  <2>2. \A d \in Digits : DigitValue[d] \in Nat
    <3>1. \A k \in 0 .. 9 : k \in Nat
      OBVIOUS
    <3> QED
      BY <3>1, DigitValueIs, Zenon
  <2> QED
    BY <2>1, <2>2, Zenon
<1> HIDE DEF N, digit
<1>1. 0 \in U
  <2> DEFINE f == [k \in 0 .. 0 |-> 0]
  <2>1. f \in [0 .. 0 -> Nat] /\ \A k \in 0 .. 0 : k = 0
    OBVIOUS
  <2>2. f = [k \in 0 .. 0 |-> IF k = 0 THEN 0 ELSE 10 * f[k - 1] + digit(k)]
    BY <2>1, Zenon
  <2> HIDE DEF f
  <2> QED
    BY <2>1, <2>2
<1>2. ASSUME NEW n \in U PROVE n + 1 \in U
  <2>0. n \in Nat /\ n + 1 \in Nat /\ (n <= N => \E f : Value(f, n))
    <3>1. n \in Nat /\ (n <= N => \E f : Value(f, n))
      BY Zenon DEF U
    <3> HIDE DEF U, Value
    <3> QED
      BY <3>1
  <2> SUFFICES ASSUME n + 1 <= N PROVE \E f : Value(f, n + 1)
    BY <2>0, Zenon
  <2>1. n <= N /\ n + 1 \in 1 .. N
    BY <1>0, <2>0
  <2>2. PICK f : Value(f, n)
    BY <2>0, <2>1, Zenon
  <2> DEFINE last == 10 * f[n] + digit(n + 1)
             g == [k \in 0 .. n + 1 |-> IF k \in 0 .. n THEN f[k] ELSE last]
  <2>3. last \in Nat
    <3>1. f[n] \in Nat /\ digit(n + 1) \in Nat
      BY <1>0, <2>0, <2>1, <2>2
    <3> QED
      BY <3>1
  <2> HIDE DEF last
  <2>4. \A k \in 0 .. n + 1 : k \in 0 .. n \/ k = n + 1
    BY <2>0
  <2>5. g \in [0 .. n + 1 -> Nat]
    BY <2>2, <2>3, Zenon
  <2>6. ASSUME NEW k \in 0 .. n + 1
        PROVE  g[k] = IF k = 0 THEN 0 ELSE 10 * g[k - 1] + digit(k)
    <3>1. CASE k \in 0 .. n
      <4>1. g[k] = f[k] /\ (k # 0 => k - 1 \in 0 .. n /\ g[k - 1] = f[k - 1])
        BY <2>0, <3>1
      <4>2. f[k] = IF k = 0 THEN 0 ELSE 10 * f[k - 1] + digit(k)
        BY <2>2, <3>1, Zenon
      <4> HIDE DEF g
      <4> QED
        BY <4>1, <4>2, Zenon
    <3>2. CASE k = n + 1
      <4>1. k # 0 /\ k \notin 0 .. n /\ k - 1 = n /\ n \in 0 .. n /\ n \in 0 .. n + 1
        BY <2>0, <3>2
      <4>2. g[k] = last /\ g[n] = f[n]
        BY <4>1, Zenon
      <4> HIDE DEF g
      <4>3. g[k] = 10 * g[k - 1] + digit(k)
        BY <3>2, <4>1, <4>2, Zenon DEF last
      <4> QED
        BY <4>1, <4>3, Zenon
    <3> QED
      BY <2>4, <3>1, <3>2, Zenon
  <2>7. g = [k \in 0 .. n + 1 |-> IF k = 0 THEN 0 ELSE 10 * g[k - 1] + digit(k)]
    BY <2>6, Zenon
  <2> HIDE DEF g
  <2> QED
    BY <2>5, <2>7, Zenon
<1>3. U = Nat
  <2>1. U \in SUBSET Nat
    OBVIOUS
  <2> HIDE DEF U
  <2> QED
    BY <1>1, <1>2, <2>1, Induction, Zenon
<1>4. PICK f : Value(f, N)
  <2>1. \A n \in U : n <= N => \E f : Value(f, n)
    BY Zenon
  <2>2. N <= N
    BY <1>0
  <2> HIDE DEF Value, U
  <2> QED
    BY <1>0, <1>3, <2>1, <2>2, Zenon
<1> QED
  BY <1>4, Zenon DEF IsValue, N, digit

\* Two texts with the same first digits have the same values so far.
LEMMA ValueAgrees ==
  ASSUME NEW s, Len(s) \in Nat, NEW f, IsValue(f, s), NEW t, Len(t) \in Nat, NEW g, IsValue(g, t),
         NEW n \in Nat, n <= Len(s), n <= Len(t), \A i \in 1 .. n : s[i] = t[i]
  PROVE  f[n] = g[n]
<1> DEFINE U == {m \in Nat : m <= n => f[m] = g[m]}
<1>1. /\ \A k \in 0 .. Len(s) : f[k] = IF k = 0 THEN 0 ELSE 10 * f[k - 1] + DigitValue[s[k]]
      /\ \A k \in 0 .. Len(t) : g[k] = IF k = 0 THEN 0 ELSE 10 * g[k - 1] + DigitValue[t[k]]
  BY Zenon DEF IsValue
<1>2. 0 \in U
  <2>1. 0 \in 0 .. Len(s) /\ 0 \in 0 .. Len(t)
    OBVIOUS
  <2>2. f[0] = g[0]
    BY <1>1, <2>1, Zenon
  <2> QED
    BY <2>2
<1>3. ASSUME NEW m \in U PROVE m + 1 \in U
  <2>0. m \in Nat /\ m + 1 \in Nat /\ (m <= n => f[m] = g[m])
    <3>1. m \in Nat /\ (m <= n => f[m] = g[m])
      BY Zenon DEF U
    <3> HIDE DEF U
    <3> QED
      BY <3>1
  <2> SUFFICES ASSUME m + 1 <= n PROVE f[m + 1] = g[m + 1]
    BY <2>0, Zenon
  <2> DEFINE k == m + 1
  <2>1. k \in 0 .. Len(s) /\ k \in 0 .. Len(t) /\ k # 0 /\ k - 1 = m /\ m <= n /\ k \in 1 .. n
    BY <2>0
  <2> HIDE DEF k
  <2>2. f[k] = 10 * f[k - 1] + DigitValue[s[k]] /\ g[k] = 10 * g[k - 1] + DigitValue[t[k]]
    BY <1>1, <2>1, Zenon
  <2>3. s[k] = t[k] /\ f[m] = g[m]
    BY <2>0, <2>1, Zenon
  <2>4. f[k] = g[k]
    BY <2>1, <2>2, <2>3, Zenon
  <2> QED
    BY <2>4, Zenon DEF k
<1>4. U = Nat
  <2>1. U \in SUBSET Nat
    OBVIOUS
  <2> HIDE DEF U
  <2> QED
    BY <1>2, <1>3, <2>1, Induction, Zenon
<1>5. n <= n
  OBVIOUS
<1> QED
  BY <1>4, <1>5

\* The value of a text of digits, digit by digit.
LEMMA ValueIs ==
  ASSUME NEW s \in Seq(Digits)
  PROVE  /\ \E f \in [0 .. Len(s) -> Nat] : IsValue(f, s) /\ ValueOf(s) = f[Len(s)]
         /\ ValueOf(s) \in Nat
<1> DEFINE F == CHOOSE f : f = [k \in 0 .. Len(s) |->
                                 IF k = 0 THEN 0 ELSE 10 * f[k - 1] + DigitValue[s[k]]]
<1>1. PICK f \in [0 .. Len(s) -> Nat] : IsValue(f, s)
  BY ValueExists, Zenon
<1>2. F = [k \in 0 .. Len(s) |-> IF k = 0 THEN 0 ELSE 10 * F[k - 1] + DigitValue[s[k]]]
  BY <1>1, Zenon DEF IsValue
<1>3. ValueOf(s) = F[Len(s)]
  BY Zenon DEF ValueOf
<1> HIDE DEF F
<1>4. IsValue(F, s)
  BY <1>2, Zenon DEF IsValue
<1>5. Len(s) \in Nat /\ Len(s) <= Len(s) /\ Len(s) \in 0 .. Len(s)
  BY LenProperties
<1>6. F[Len(s)] = f[Len(s)]
  BY <1>1, <1>4, <1>5, ValueAgrees
<1> QED
  BY <1>1, <1>3, <1>5, <1>6, Zenon

LEMMA ValueAppend ==
  ASSUME NEW s \in Seq(Digits), NEW d \in Digits
  PROVE  ValueOf(Append(s, d)) = 10 * ValueOf(s) + DigitValue[d]
<1> DEFINE t == Append(s, d)
           n == Len(s)
<1>1. t \in Seq(Digits) /\ Len(t) = n + 1 /\ t[n + 1] = d /\ n \in Nat /\ \A i \in 1 .. n : t[i] = s[i]
  BY AppendProperties, LenProperties
<1> HIDE DEF t
<1>2. PICK f : IsValue(f, s) /\ ValueOf(s) = f[n]
  BY ValueIs, Zenon
<1>3. PICK g : IsValue(g, t) /\ ValueOf(t) = g[n + 1]
  BY <1>1, ValueIs, Zenon
<1>4. n + 1 \in 0 .. Len(t) /\ n + 1 # 0 /\ (n + 1) - 1 = n /\ n <= Len(t) /\ n <= n /\ Len(t) \in Nat
  BY <1>1
<1>5. g[n + 1] = 10 * g[(n + 1) - 1] + DigitValue[t[n + 1]]
  <2> DEFINE k == n + 1
  <2>1. g = [j \in 0 .. Len(t) |-> IF j = 0 THEN 0 ELSE 10 * g[j - 1] + DigitValue[t[j]]]
    BY <1>3, Zenon DEF IsValue
  <2>2. k \in 0 .. Len(t) /\ k # 0
    BY <1>4, Zenon
  <2> HIDE DEF k
  <2>3. g[k] = 10 * g[k - 1] + DigitValue[t[k]]
    BY <2>1, <2>2, Zenon
  <2> QED
    BY <2>3, Zenon DEF k
<1>6. f[n] = g[n]
  BY <1>1, <1>2, <1>3, <1>4, ValueAgrees
<1>7. g[n + 1] = 10 * g[n] + DigitValue[d]
  BY <1>1, <1>4, <1>5, Zenon
<1> QED
  BY <1>2, <1>3, <1>6, <1>7, Zenon DEF t

LEMMA ValueOne ==
  ASSUME NEW d \in Digits
  PROVE  ValueOf(<<d>>) = DigitValue[d]
<1>1. <<>> \in Seq(Digits) /\ Len(<<>>) = 0
  BY EmptySeq
<1>2. ValueOf(<<>>) = 0
  <2>1. PICK f : IsValue(f, <<>>) /\ ValueOf(<<>>) = f[0]
    BY <1>1, ValueIs, Zenon
  <2>2. 0 \in 0 .. Len(<<>>)
    BY <1>1
  <2> QED
    BY <2>1, <2>2, Zenon DEF IsValue
<1>3. ValueOf(Append(<<>>, d)) = 10 * ValueOf(<<>>) + DigitValue[d]
  BY <1>1, ValueAppend, Zenon
<1>4. Append(<<>>, d) = <<d>>
  OBVIOUS
<1>5. DigitValue[d] \in Int
  BY DigitValueIs
<1>6. 10 * 0 + DigitValue[d] = DigitValue[d]
  BY <1>5
<1> QED
  BY <1>2, <1>3, <1>4, <1>6, Zenon

\* The recursion of Decimal: the digits of a number are those of a tenth of it,
\* and the last one.
IsDecimal(f, n) ==
  f = [k \in 0 .. n |-> IF k < 10 THEN <<DigitFor[k + 1]>>
                        ELSE Append(f[k \div 10], DigitFor[(k % 10) + 1])]

LEMMA TenthIsLess ==
  ASSUME NEW k \in Nat
  PROVE  /\ k % 10 \in 0 .. 9 /\ k \div 10 \in Nat
         /\ k = 10 * (k \div 10) + (k % 10)
         /\ k >= 10 => k \div 10 < k
OBVIOUS

LEMMA DecimalExists ==
  ASSUME NEW N \in Nat
  PROVE  \E f : IsDecimal(f, N)
<1> DEFINE U == {n \in Nat : \E f : IsDecimal(f, n)}
<1>1. 0 \in U
  <2> DEFINE f == [k \in 0 .. 0 |-> <<DigitFor[k + 1]>>]
  <2>1. \A k \in 0 .. 0 : k < 10
    OBVIOUS
  <2>2. f = [k \in 0 .. 0 |-> IF k < 10 THEN <<DigitFor[k + 1]>>
                              ELSE Append(f[k \div 10], DigitFor[(k % 10) + 1])]
    BY <2>1, Zenon
  <2>3. \E g : IsDecimal(g, 0)
    BY <2>2, Zenon DEF IsDecimal
  <2> QED
    BY <2>3
<1>2. ASSUME NEW n \in U PROVE n + 1 \in U
  <2>1. n \in Nat /\ \E f : IsDecimal(f, n)
    BY Zenon DEF U
  <2>2. PICK f : IsDecimal(f, n)
    BY <2>1, Zenon
  <2> DEFINE value(k) == IF k < 10 THEN <<DigitFor[k + 1]>>
                         ELSE Append(f[k \div 10], DigitFor[(k % 10) + 1])
             g == [k \in 0 .. n + 1 |-> value(k)]
  <2>3. \A k \in 0 .. n + 1 : ~(k < 10) => k \div 10 \in 0 .. n
    <3> TAKE k \in 0 .. n + 1
    <3> HAVE ~(k < 10)
    <3> DEFINE q == k \div 10
    <3>1. k \in Nat /\ k >= 10
      OBVIOUS
    <3>2. q \in Nat /\ q < k
      BY <3>1, TenthIsLess, Zenon
    <3> HIDE DEF q
    <3>3. q \in 0 .. n
      BY <2>1, <3>2
    <3> QED
      BY <3>3, Zenon DEF q
  <2>4. \A k \in 0 .. n : k \in 0 .. n + 1 /\ f[k] = value(k)
    <3>1. \A k \in 0 .. n : k \in 0 .. n + 1
      BY <2>1
    <3> QED
      BY <2>2, <3>1, Zenon DEF IsDecimal
  <2>5. \A k \in 0 .. n : g[k] = f[k]
    BY <2>4, Zenon
  <2>6. g = [k \in 0 .. n + 1 |-> IF k < 10 THEN <<DigitFor[k + 1]>>
                                  ELSE Append(g[k \div 10], DigitFor[(k % 10) + 1])]
    BY <2>3, <2>5, Zenon
  <2>7. \E h : IsDecimal(h, n + 1)
    BY <2>6, Zenon DEF IsDecimal
  <2>8. n + 1 \in Nat
    BY <2>1
  <2> QED
    BY <2>7, <2>8, Zenon DEF U
<1>3. U = Nat
  <2>1. U \in SUBSET Nat
    OBVIOUS
  <2> HIDE DEF U
  <2> QED
    BY <1>1, <1>2, <2>1, Induction, Zenon
<1> QED
  BY <1>3, Zenon DEF U

\* What %d writes is a number of digits, and its value is the number.
LEMMA DecimalIs ==
  ASSUME NEW n \in Nat
  PROVE  Decimal(n) \in Seq(Digits) /\ Decimal(n) # <<>> /\ ValueOf(Decimal(n)) = n
<1> DEFINE F == CHOOSE f : f = [k \in 0 .. n |->
                                 IF k < 10 THEN <<DigitFor[k + 1]>>
                                 ELSE Append(f[k \div 10], DigitFor[(k % 10) + 1])]
           Writes(t, k) == t \in Seq(Digits) /\ t # <<>> /\ ValueOf(t) = k
           U == {m \in Nat : \A k \in 0 .. n : k <= m => Writes(F[k], k)}
<1>1. Decimal(n) = F[n]
  BY Zenon DEF Decimal
<1>2. F = [k \in 0 .. n |-> IF k < 10 THEN <<DigitFor[k + 1]>>
                            ELSE Append(F[k \div 10], DigitFor[(k % 10) + 1])]
  BY DecimalExists, Zenon DEF IsDecimal
<1> HIDE DEF F
<1>3. ASSUME NEW k \in 0 .. n, k < 10 PROVE Writes(F[k], k)
  <2> DEFINE d == DigitFor[k + 1]
  <2>1. k \in 0 .. 9
    BY <1>3
  <2>2. d \in Digits /\ DigitValue[d] = k
    BY <2>1, DigitForIs, DigitValueIs, Zenon
  <2>3. F[k] = <<d>>
    BY <1>2, <1>3, Zenon
  <2> HIDE DEF d
  <2>4. <<d>> \in Seq(Digits) /\ <<d>> # <<>>
    <3>1. d \in Digits
      BY <2>2, Zenon
    <3> QED
      BY <3>1
  <2>5. ValueOf(<<d>>) = k
    BY <2>2, ValueOne, Zenon
  <2> QED
    BY <2>3, <2>4, <2>5, Zenon
<1>4. ASSUME NEW k \in 0 .. n, ~(k < 10), Writes(F[k \div 10], k \div 10) PROVE Writes(F[k], k)
  <2> DEFINE q == k \div 10
             r == k % 10
             d == DigitFor[r + 1]
             t == F[q]
  <2>1. k \in Nat
    OBVIOUS
  <2>2. r \in 0 .. 9 /\ q \in Nat /\ k = 10 * q + r
    BY <2>1, TenthIsLess, Zenon
  <2>3. F[k] = Append(t, d)
    BY <1>2, <1>4, Zenon
  <2>4. Writes(t, q)
    BY <1>4, Zenon
  <2> HIDE DEF q, r, t
  <2>5. d \in Digits /\ DigitValue[d] = r
    BY <2>2, DigitForIs, DigitValueIs, Zenon
  <2> HIDE DEF d
  <2>6. ValueOf(Append(t, d)) = 10 * ValueOf(t) + DigitValue[d]
    BY <2>4, <2>5, ValueAppend, Zenon
  <2>7. ValueOf(Append(t, d)) = k
    BY <2>2, <2>4, <2>5, <2>6, Zenon
  <2>8. Append(t, d) \in Seq(Digits) /\ Append(t, d) # <<>>
    <3>1. t \in Seq(Digits)
      BY <2>4, Zenon
    <3>2. Append(t, d) \in Seq(Digits) /\ Len(Append(t, d)) = Len(t) + 1 /\ Len(t) \in Nat
      BY <2>5, <3>1, AppendProperties, LenProperties
    <3> QED
      BY <3>2, EmptySeq
  <2> QED
    BY <2>3, <2>7, <2>8, Zenon
<1> HIDE DEF Writes
<1>5. 0 \in U
  <2>1. \A k \in 0 .. n : k <= 0 => k < 10
    OBVIOUS
  <2> QED
    BY <1>3, <2>1
<1>6. ASSUME NEW m \in U PROVE m + 1 \in U
  <2>1. m \in Nat /\ \A k \in 0 .. n : k <= m => Writes(F[k], k)
    BY Zenon DEF U
  <2>2. ASSUME NEW k \in 0 .. n, k <= m + 1 PROVE Writes(F[k], k)
    <3>1. CASE k < 10
      BY <1>3, <3>1, Zenon
    <3>2. CASE ~(k < 10)
      <4> DEFINE q == k \div 10
      <4>1. k \in Nat /\ k >= 10
        BY <3>2
      <4>2. q \in Nat /\ q < k
        BY <4>1, TenthIsLess, Zenon
      <4> HIDE DEF q
      <4>3. q \in 0 .. n /\ q <= m
        BY <2>1, <2>2, <4>1, <4>2
      <4>4. Writes(F[q], q)
        BY <2>1, <4>3, Zenon
      <4> QED
        BY <1>4, <3>2, <4>4, Zenon DEF q
    <3> QED
      BY <3>1, <3>2, Zenon
  <2>3. m + 1 \in Nat
    BY <2>1
  <2> QED
    BY <2>2, <2>3, Zenon DEF U
<1>7. U = Nat
  <2>1. U \in SUBSET Nat
    OBVIOUS
  <2> HIDE DEF U
  <2> QED
    BY <1>5, <1>6, <2>1, Induction, Zenon
<1>8. n \in 0 .. n /\ n <= n
  OBVIOUS
<1>9. Writes(F[n], n)
  BY <1>7, <1>8, Zenon DEF U
<1> QED
  BY <1>1, <1>9, Zenon DEF Writes

\* atoi reads all of a text of digits.
LEMMA AtoiDigits ==
  ASSUME NEW s \in Seq(Digits) PROVE Atoi(s) = ValueOf(s)
<1> DEFINE stop == SelectInSeq(s, LAMBDA c : c \notin Digits)
<1>1. \A i \in 1 .. Len(s) : s[i] \in Digits
  BY ElementOfSeq
<1>2. {i \in 1 .. Len(s) : s[i] \notin Digits} = {}
  BY <1>1, Zenon
<1>3. stop = 0
  BY <1>2, Zenon DEF SelectInSeq
<1> HIDE DEF stop
<1>4. Atoi(s) = ValueOf(IF stop = 0 THEN s ELSE SubSeq(s, 1, stop - 1))
  BY Zenon DEF Atoi, stop
<1> QED
  BY <1>3, <1>4, Zenon

\* Digits are characters, but no white space and no separator.
LEMMA DigitsApart ==
  ASSUME NEW s \in Seq(Digits), s # <<>>
  PROVE  s \in Seq(Characters) /\ NoBar(s) /\ Solid(s) = 1 .. Len(s) /\ Trim(s) = s
<1>1. Digits \subseteq Characters /\ " " \notin Digits /\ "|" \notin Digits
  BY Zenon DEF Characters, Digits
<1>2. \A i \in 1 .. Len(s) : s[i] \in Digits
  BY ElementOfSeq
<1>3. \A i \in 1 .. Len(s) : s[i] # "|" /\ s[i] # " "
  BY <1>1, <1>2, Zenon
<1>4. Solid(s) = 1 .. Len(s)
  BY <1>3, Zenon DEF Solid
<1>5. s \in Seq(Characters)
  <2>1. Digits \subseteq Characters
    BY <1>1, Zenon
  <2> QED
    BY <2>1, SeqMonotonic, Zenon
<1>6. Trim(s) = s
  <2>1. Len(s) \in Nat \ {0} /\ 1 \in 1 .. Len(s) /\ Len(s) \in 1 .. Len(s)
    BY EmptySeq, LenProperties
  <2>2. PICK i, j \in 1 .. Len(s) : Trim(s) = SubSeq(s, i, j) /\ \A k \in 1 .. Len(s) : i <= k /\ k <= j
    <3>1. Solid(s) # {}
      BY <1>4, <2>1, Zenon
    <3> QED
      BY <1>4, <3>1, TrimIs, Zenon
  <2>3. i = 1 /\ j = Len(s)
    <3>1. i <= 1 /\ Len(s) <= j
      BY <2>1, <2>2, Zenon
    <3> QED
      BY <2>1, <3>1
  <2>4. Trim(s) = EndFrom(s, 1)
    BY <2>2, <2>3, Zenon DEF EndFrom
  <2> QED
    BY <2>4, SuffixesAreEnds, Zenon
<1> QED
  BY <1>3, <1>4, <1>5, <1>6, Zenon DEF NoBar

-------------------------------------------------------------------------------
(* Books and their lines *)

Field == {t \in Seq(Characters) : Len(t) <= MaxField}
Book == [title : Field, author : Field, genre : Field, year : Nat]

LEMMA CutIs ==
  ASSUME NEW S, NEW t \in Seq(S)
  PROVE  /\ Cut(t) \in Seq(S) /\ Len(Cut(t)) <= MaxField
         /\ Len(t) <= MaxField => Cut(t) = t
<1>1. MaxField \in Nat /\ Len(t) \in Nat /\ \A i \in 1 .. Len(t) : t[i] \in S
  BY BuffersFit, LenProperties, ElementOfSeq
<1>2. CASE Len(t) <= MaxField
  <2>1. ~(Len(t) > MaxField)
    BY <1>1, <1>2
  <2>2. Cut(t) = t
    BY <2>1, Zenon DEF Cut
  <2> QED
    BY <1>2, <2>2, Zenon
<1>3. CASE ~(Len(t) <= MaxField)
  <2> DEFINE u == SubSeq(t, 1, MaxField)
  <2>1. Len(t) > MaxField /\ \A i \in 1 .. MaxField : t[i] \in S
    BY <1>1, <1>3
  <2>2. u \in Seq(S) /\ Len(u) = MaxField
    BY <1>1, <2>1, SubSeqProperties
  <2>3. Cut(t) = u
    BY <2>1, Zenon DEF Cut
  <2> HIDE DEF u
  <2>4. Len(u) <= MaxField
    BY <1>1, <2>2
  <2> QED
    BY <1>3, <2>2, <2>3, <2>4, Zenon
<1> QED
  BY <1>2, <1>3, Zenon

LEMMA TrimType ==
  ASSUME NEW S, NEW t \in Seq(S)
  PROVE  Trim(t) \in Seq(S) /\ Len(Trim(t)) <= Len(t)
<1>1. Len(t) \in Nat /\ \A i \in 1 .. Len(t) : t[i] \in S
  BY LenProperties, ElementOfSeq
<1>2. CASE Solid(t) = {}
  <2>1. <<>> \in Seq(S) /\ Len(<<>>) = 0
    BY EmptySeq
  <2>2. Trim(t) = <<>>
    BY <1>2, TrimIs, Zenon
  <2> QED
    BY <1>1, <2>1, <2>2
<1>3. CASE Solid(t) # {}
  <2>1. PICK i, j \in Solid(t) : Trim(t) = SubSeq(t, i, j) /\ \A k \in Solid(t) : i <= k /\ k <= j
    BY <1>3, TrimIs, Zenon
  <2>2. i \in 1 .. Len(t) /\ j \in 1 .. Len(t)
    BY Zenon DEF Solid
  <2> DEFINE u == SubSeq(t, i, j)
  <2>3. \A k \in i .. j : t[k] \in S
    BY <1>1, <2>2
  <2>4. u \in Seq(S) /\ Len(u) = IF i <= j THEN j - i + 1 ELSE 0
    BY <2>2, <2>3, SubSeqProperties
  <2> HIDE DEF u
  <2>5. Len(u) <= Len(t)
    BY <1>1, <2>2, <2>4
  <2> QED
    BY <2>1, <2>4, <2>5, Zenon DEF u
<1> QED
  BY <1>2, <1>3, Zenon

\* atoi reads the digits in front.
LEMMA AtoiIs ==
  ASSUME NEW S, NEW t \in Seq(S)
  PROVE  \E n \in 0 .. Len(t) :
           /\ SubSeq(t, 1, n) \in Seq(Digits) /\ Atoi(t) = ValueOf(SubSeq(t, 1, n))
           /\ \A i \in 1 .. n : t[i] \in Digits
           /\ n < Len(t) => t[n + 1] \notin Digits
<1> DEFINE U == {i \in 1 .. Len(t) : t[i] \notin Digits}
           stop == SelectInSeq(t, LAMBDA c : c \notin Digits)
<1>1. Len(t) \in Nat /\ U \in SUBSET Nat
  BY LenProperties
<1>2. stop = IF U = {} THEN 0 ELSE Min(U)
  BY Zenon DEF SelectInSeq
<1> HIDE DEF stop
<1>3. Atoi(t) = ValueOf(IF stop = 0 THEN t ELSE SubSeq(t, 1, stop - 1))
  BY Zenon DEF Atoi, stop
<1>4. CASE U = {}
  <2>1. stop = 0 /\ SubSeq(t, 1, Len(t)) = t
    <3>1. EndFrom(t, 1) = t
      BY SuffixesAreEnds
    <3> QED
      BY <1>2, <1>4, <3>1, Zenon DEF EndFrom
  <2>2. Atoi(t) = ValueOf(SubSeq(t, 1, Len(t)))
    BY <1>3, <2>1, Zenon
  <2>3. \A i \in 1 .. Len(t) : t[i] \in Digits
    BY <1>4, Zenon
  <2>4. Len(t) \in 0 .. Len(t) /\ ~(Len(t) < Len(t))
    BY <1>1
  <2>5. SubSeq(t, 1, Len(t)) \in Seq(Digits)
    BY <1>1, <2>3, SubSeqProperties
  <2> QED
    BY <2>2, <2>3, <2>4, <2>5, Zenon
<1>5. CASE U # {}
  <2> DEFINE m == Min(U)
             n == m - 1
  <2>1. m \in U /\ \A i \in U : m <= i
    BY <1>1, <1>5, LeastNumber, Zenon
  <2>2. m \in 1 .. Len(t) /\ t[m] \notin Digits /\ \A i \in 1 .. Len(t) : t[i] \notin Digits => m <= i
    BY <2>1, Zenon
  <2>3. stop = m
    BY <1>2, <1>5, Zenon
  <2> HIDE DEF m
  <2>4. stop # 0 /\ n \in 0 .. Len(t) /\ n + 1 = m /\ \A i \in 1 .. n : i \in 1 .. Len(t) /\ ~(m <= i)
    BY <1>1, <2>2, <2>3
  <2>5. Atoi(t) = ValueOf(SubSeq(t, 1, n))
    BY <1>3, <2>3, <2>4, Zenon
  <2>6. \A i \in 1 .. n : t[i] \in Digits
    BY <2>2, <2>4, Zenon
  <2>7. t[n + 1] \notin Digits
    BY <2>2, <2>4, Zenon
  <2> HIDE DEF n
  <2>8. SubSeq(t, 1, n) \in Seq(Digits)
    BY <2>4, <2>6, SubSeqProperties
  <2> QED
    BY <2>4, <2>5, <2>6, <2>7, <2>8, Zenon
<1> QED
  BY <1>4, <1>5, Zenon

\* Whatever a line is, what is made of it is a book.
LEMMA BookFromIs ==
  ASSUME NEW line \in Seq(Characters)
  PROVE  /\ BookFrom(line) \in Book
         /\ Enough(Tokens(line)) =>
              BookFrom(line) = [title |-> Cut(Trim(Tokens(line)[1])), author |-> Cut(Trim(Tokens(line)[2])),
                                genre |-> Cut(Trim(Tokens(line)[3])), year |-> Atoi(Trim(Tokens(line)[4]))]
<1> DEFINE tokens == Tokens(line)
           part(k) == IF k <= Len(tokens) THEN Trim(tokens[k]) ELSE <<>>
           t == [k \in 1 .. 4 |-> part(k)]
           b == [title |-> Cut(t[1]), author |-> Cut(t[2]), genre |-> Cut(t[3]), year |-> Atoi(t[4])]
<1>1. tokens \in Seq(Seq(Characters)) /\ Len(tokens) \in Nat
      /\ \A k \in 1 .. Len(tokens) : tokens[k] \in Seq(Characters)
  <2>1. tokens \in Seq(Seq(Characters))
    BY TokensOf, Zenon
  <2> HIDE DEF tokens
  <2> QED
    BY <2>1, LenProperties, ElementOfSeq
<1>2. BookFrom(line) = b
  BY Zenon DEF BookFrom, Stored
<1>3. 1 \in 1 .. 4 /\ 2 \in 1 .. 4 /\ 3 \in 1 .. 4 /\ 4 \in 1 .. 4
  OBVIOUS
<1>4. t[1] = part(1) /\ t[2] = part(2) /\ t[3] = part(3) /\ t[4] = part(4)
  BY <1>3, Zenon
<1> HIDE DEF t, tokens
<1>5. \A k \in 1 .. 4 : part(k) \in Seq(Characters)
  <2> TAKE k \in 1 .. 4
  <2>1. CASE k <= Len(tokens)
    <3>1. k \in 1 .. Len(tokens)
      BY <1>1, <2>1
    <3>2. tokens[k] \in Seq(Characters)
      BY <1>1, <3>1, Zenon
    <3>3. Trim(tokens[k]) \in Seq(Characters)
      BY <3>2, TrimType, Zenon
    <3> QED
      BY <2>1, <3>3, Zenon
  <2>2. CASE ~(k <= Len(tokens))
    <3>1. <<>> \in Seq(Characters)
      BY EmptySeq, Zenon
    <3> QED
      BY <2>2, <3>1, Zenon
  <2> QED
    BY <2>1, <2>2, Zenon
<1>6. t[1] \in Seq(Characters) /\ t[2] \in Seq(Characters) /\ t[3] \in Seq(Characters) /\ t[4] \in Seq(Characters)
  BY <1>3, <1>4, <1>5, Zenon
<1>7. Cut(t[1]) \in Field /\ Cut(t[2]) \in Field /\ Cut(t[3]) \in Field
  BY <1>6, CutIs, Zenon DEF Field
<1>8. Atoi(t[4]) \in Nat
  <2>1. PICK n \in 0 .. Len(t[4]) :
          SubSeq(t[4], 1, n) \in Seq(Digits) /\ Atoi(t[4]) = ValueOf(SubSeq(t[4], 1, n))
    BY <1>6, AtoiIs, Zenon
  <2> QED
    BY <2>1, ValueIs, Zenon
<1>9. b \in Book
  <2> DEFINE x == Cut(t[1])
             y == Cut(t[2])
             z == Cut(t[3])
             n == Atoi(t[4])
  <2>1. x \in Field /\ y \in Field /\ z \in Field /\ n \in Nat
    BY <1>7, <1>8, Zenon
  <2>2. b = [title |-> x, author |-> y, genre |-> z, year |-> n]
    BY Zenon
  <2> HIDE DEF x, y, z, n, b
  <2> QED
    BY <2>1, <2>2 DEF Book
<1>10. Enough(tokens) => t[1] = Trim(tokens[1]) /\ t[2] = Trim(tokens[2]) /\ t[3] = Trim(tokens[3])
                         /\ t[4] = Trim(tokens[4])
  <2> SUFFICES ASSUME Enough(tokens)
               PROVE  t[1] = Trim(tokens[1]) /\ t[2] = Trim(tokens[2]) /\ t[3] = Trim(tokens[3])
                      /\ t[4] = Trim(tokens[4])
    OBVIOUS
  <2>1. 1 <= Len(tokens) /\ 2 <= Len(tokens) /\ 3 <= Len(tokens) /\ 4 <= Len(tokens)
    BY <1>1 DEF Enough
  <2> QED
    BY <1>4, <2>1, Zenon
<1>11. Enough(tokens) => b = [title |-> Cut(Trim(tokens[1])), author |-> Cut(Trim(tokens[2])),
                              genre |-> Cut(Trim(tokens[3])), year |-> Atoi(Trim(tokens[4]))]
  BY <1>10, Zenon
<1> QED
  BY <1>2, <1>9, <1>11, Zenon DEF tokens

\* The line that is written for a book.
LEMMA LineForType ==
  ASSUME NEW b \in Book
  PROVE  /\ b.title \in Field /\ b.author \in Field /\ b.genre \in Field /\ b.year \in Nat
         /\ LineFor(b) \in Seq(Characters)
<1>1. b.title \in Field /\ b.author \in Field /\ b.genre \in Field /\ b.year \in Nat
  BY DEF Book
<1> DEFINE S == Characters
           bar == <<"|">>
           t1 == b.title
           t2 == b.author
           t3 == b.genre
           t4 == Decimal(b.year)
<1>2. t1 \in Seq(S) /\ t2 \in Seq(S) /\ t3 \in Seq(S) /\ t4 \in Seq(S)
  <2>1. t4 \in Seq(S)
    BY <1>1, DecimalIs, DigitsApart, Zenon
  <2> QED
    BY <1>1, <2>1, Zenon DEF Field
<1>3. bar \in Seq(S)
  <2>1. "|" \in S
    BY Zenon DEF Characters
  <2> HIDE DEF S
  <2> QED
    BY <2>1
<1>4. LineFor(b) = t1 \o bar \o t2 \o bar \o t3 \o bar \o t4
  BY Zenon DEF LineFor
<1> HIDE DEF S, bar, t1, t2, t3, t4
<1>5. t1 \o bar \o t2 \o bar \o t3 \o bar \o t4 \in Seq(S)
  <2>1. \A x, y \in Seq(S) : x \o y \in Seq(S)
    BY ConcatProperties, Zenon
  <2>2. t1 \o bar \in Seq(S)
    BY <1>2, <1>3, <2>1, Zenon
  <2>3. t1 \o bar \o t2 \in Seq(S)
    BY <1>2, <2>1, <2>2, Zenon
  <2>4. t1 \o bar \o t2 \o bar \in Seq(S)
    BY <1>3, <2>1, <2>3, Zenon
  <2>5. t1 \o bar \o t2 \o bar \o t3 \in Seq(S)
    BY <1>2, <2>1, <2>4, Zenon
  <2>6. t1 \o bar \o t2 \o bar \o t3 \o bar \in Seq(S)
    BY <1>3, <2>1, <2>5, Zenon
  <2> QED
    BY <1>2, <2>1, <2>6, Zenon
<1> QED
  BY <1>1, <1>4, <1>5, Zenon DEF S

\* The line of a clean book gives the book back.
LEMMA CleanLine ==
  ASSUME NEW b \in Book, Clean(b)
  PROVE  /\ LineFor(b) \in Seq(Characters) /\ Len(LineFor(b)) + 2 <= MaxLine
         /\ LineFor(b) # <<>> /\ LineFor(b)[1] # "#"
         /\ Len(Tokens(LineFor(b))) = 4
         /\ Tokens(LineFor(b))[1] = b.title /\ Tokens(LineFor(b))[2] = b.author
         /\ Tokens(LineFor(b))[3] = b.genre /\ Tokens(LineFor(b))[4] = Decimal(b.year)
         /\ Loadable(LineFor(b)) /\ BookFrom(LineFor(b)) = b
<1> DEFINE line == LineFor(b)
           t1 == b.title
           t2 == b.author
           t3 == b.genre
           t4 == Decimal(b.year)
<1>1. /\ t1 \in Field /\ t2 \in Field /\ t3 \in Field /\ b.year \in Nat
      /\ line \in Seq(Characters) /\ Len(line) + 2 <= MaxLine
  BY LineForType, Zenon DEF Clean, FitsLineBuffer
<1>2. /\ t1 # <<>> /\ NoBar(t1) /\ Trim(t1) = t1 /\ t1[1] # "#"
      /\ t2 # <<>> /\ NoBar(t2) /\ Trim(t2) = t2
      /\ t3 # <<>> /\ NoBar(t3) /\ Trim(t3) = t3
  BY Zenon DEF Clean, Contains, NoBar
<1>3. /\ t4 \in Seq(Characters) /\ t4 # <<>> /\ NoBar(t4) /\ Trim(t4) = t4 /\ Atoi(t4) = b.year
  BY <1>1, DecimalIs, DigitsApart, AtoiDigits, Zenon
<1>4. t1 \in Seq(Characters) /\ t2 \in Seq(Characters) /\ t3 \in Seq(Characters)
      /\ Cut(t1) = t1 /\ Cut(t2) = t2 /\ Cut(t3) = t3
  BY <1>1, CutIs, Zenon DEF Field
<1>5. line = t1 \o <<"|">> \o t2 \o <<"|">> \o t3 \o <<"|">> \o t4
  BY Zenon DEF LineFor
<1> HIDE DEF t1, t2, t3, t4
<1>6. /\ Len(Tokens(line)) = 4
      /\ Tokens(line)[1] = t1 /\ Tokens(line)[2] = t2 /\ Tokens(line)[3] = t3 /\ Tokens(line)[4] = t4
      /\ line # <<>> /\ line[1] = t1[1]
  <2>1. IsToken(t1) /\ IsToken(t2) /\ IsToken(t3) /\ IsToken(t4)
    BY <1>2, <1>3, <1>4, Zenon DEF IsToken
  <2>2. HasTokens(t1 \o <<"|">> \o t2 \o <<"|">> \o t3 \o <<"|">> \o t4, t1, t2, t3, t4)
    BY <2>1, FourTokens, Zenon
  <2> HIDE DEF line
  <2>3. HasTokens(line, t1, t2, t3, t4)
    BY <1>5, <2>2, Zenon
  <2> QED
    BY <2>3, Zenon DEF HasTokens
<1>7. line[1] # "#"
  BY <1>2, <1>6, Zenon
<1> HIDE DEF line
<1>8. Enough(Tokens(line))
  <2>1. 4 >= 4
    OBVIOUS
  <2> QED
    BY <1>6, <2>1, Zenon DEF Enough
<1>9. Loadable(line)
  BY <1>6, <1>7, <1>8, Zenon DEF Loadable, Comment
<1>10. BookFrom(line) = [title |-> t1, author |-> t2, genre |-> t3, year |-> b.year]
  BY <1>1, <1>2, <1>3, <1>4, <1>6, <1>8, BookFromIs, Zenon
<1>11. b = [title |-> t1, author |-> t2, genre |-> t3, year |-> b.year]
  BY DEF Book, t1, t2, t3
<1>12. BookFrom(line) = b
  BY <1>10, <1>11, Zenon
<1> QED
  BY <1>1, <1>6, <1>7, <1>9, <1>12, Zenon DEF line, t1, t2, t3, t4

-------------------------------------------------------------------------------
(* The books of a text *)

\* What a load makes of one line.
BookOf(line) == IF Loadable(line) THEN <<BookFrom(line)>> ELSE <<>>

LEMMA BookOfType ==
  ASSUME NEW line \in Seq(Characters)
  PROVE  BookOf(line) \in Seq(Book)
<1> DEFINE b == BookFrom(line)
<1>1. b \in Book
  BY BookFromIs, Zenon
<1> HIDE DEF b
<1>2. <<b>> \in Seq(Book) /\ <<>> \in Seq(Book)
  BY <1>1
<1> QED
  BY <1>2, Zenon DEF BookOf, b

\* A line makes one book or none.
LEMMA BookOfLength == ASSUME NEW line PROVE Len(BookOf(line)) \in 0 .. 1
<1> DEFINE b == BookFrom(line)
<1>1. Len(<<b>>) = 1 /\ Len(<<>>) = 0
  OBVIOUS
<1>2. BookOf(line) = <<b>> \/ BookOf(line) = <<>>
  BY Zenon DEF BookOf
<1> HIDE DEF b
<1> QED
  BY <1>1, <1>2

\* The books of a text are that of its first line and those of the rest.
LEMMA BooksOf ==
  ASSUME NEW text \in Seq(Typed)
  PROVE  /\ BooksIn(text) \in Seq(Book)
         /\ text = <<>> => BooksIn(text) = <<>>
         /\ text # <<>> =>
              BooksIn(text) = BookOf(LineOf(text, MaxLine)) \o BooksIn(AfterFgets(text, MaxLine))
<1> DEFINE S == Typed
           taken(s) == BookOf(LineOf(s, MaxLine))
           first == [s \in Seq(S) |-> taken(s)]
           next == [s \in Seq(S) |-> AfterFgets(s, MaxLine)]
           result == [s \in Seq(S) |-> BooksIn(s)]
<1>0. MaxLine \in Nat /\ MaxLine >= 2
  BY BuffersFit
<1>1. ASSUME NEW s \in Seq(S), s # <<>>
      PROVE  first[s] \in Seq(Book) /\ next[s] \in Seq(S) /\ IsRest(s, next[s])
  <2>1. AfterFgets(s, MaxLine) \in Seq(S) /\ IsRest(s, AfterFgets(s, MaxLine))
    BY <1>0, <1>1, FgetsTakes, Zenon
  <2>2. taken(s) \in Seq(Book)
    BY <1>0, <1>1, LineOfType, BookOfType, Zenon
  <2> QED
    BY <2>1, <2>2, Zenon
<1>2. ASSUME NEW s \in Seq(S), \E f : IsUnfolded(f, Suffixes(s), first, next)
      PROVE  \E f : IsUnfolded(f, Suffixes(s), first, next) /\ result[s] = f[s]
  <2> DEFINE F == CHOOSE f : f = [t \in Suffixes(s) |->
                                   IF t = <<>> THEN <<>> ELSE taken(t) \o f[AfterFgets(t, MaxLine)]]
  <2>1. \A t \in Suffixes(s) : t \in Seq(S)
    BY SuffixesAreEnds, Zenon
  <2>2. ASSUME NEW f
        PROVE  IsUnfolded(f, Suffixes(s), first, next) <=>
                 f = [t \in Suffixes(s) |-> IF t = <<>> THEN <<>> ELSE taken(t) \o f[AfterFgets(t, MaxLine)]]
    <3>1. [t \in Suffixes(s) |-> IF t = <<>> THEN <<>> ELSE first[t] \o f[next[t]]]
            = [t \in Suffixes(s) |-> IF t = <<>> THEN <<>> ELSE taken(t) \o f[AfterFgets(t, MaxLine)]]
      <4> DEFINE g(t) == taken(t)
      <4>1. \A t \in Suffixes(s) : first[t] = g(t) /\ next[t] = AfterFgets(t, MaxLine)
        BY <2>1, Zenon
      <4> HIDE DEF g, first, next
      <4>2. [t \in Suffixes(s) |-> IF t = <<>> THEN <<>> ELSE first[t] \o f[next[t]]]
              = [t \in Suffixes(s) |-> IF t = <<>> THEN <<>> ELSE g(t) \o f[AfterFgets(t, MaxLine)]]
        BY <4>1, Zenon
      <4> QED
        BY <4>2, Zenon DEF g
    <3> HIDE DEF first, next, taken
    <3> QED
      BY <3>1, Zenon DEF IsUnfolded
  <2>3. IsUnfolded(F, Suffixes(s), first, next)
    <3> HIDE DEF first, next, taken
    <3> QED
      BY <1>2, <2>2, Zenon
  <2>4. BooksIn(s) = F[s]
    BY Zenon DEF BooksIn, BookOf
  <2>5. result[s] = F[s]
    BY <2>4, Zenon
  <2> HIDE DEF F, first, next, result
  <2> QED
    BY <2>3, <2>5, Zenon
<1>6. \A s \in Seq(S) : first[s] = taken(s) /\ next[s] = AfterFgets(s, MaxLine) /\ result[s] = BooksIn(s)
  BY Zenon
<1> HIDE DEF first, next, result
<1>3. TakesFromFront(S, Book, first, next)
  BY <1>1, Zenon DEF TakesFromFront
<1>4. Recurs(result, S, first, next)
  BY <1>2, Zenon DEF Recurs
<1>5. Unfolds(result, S, Book, first, next)
  BY <1>3, <1>4, RecursionUnfolds, Zenon
<1> HIDE DEF taken
<1>7. /\ result[text] \in Seq(Book) /\ (text = <<>> => result[text] = <<>>)
      /\ text # <<>> => result[text] = first[text] \o result[next[text]]
  BY <1>5, Zenon DEF Unfolds
<1>8. text # <<>> => result[next[text]] = BooksIn(AfterFgets(text, MaxLine))
  BY <1>1, <1>6, Zenon
<1>9. text # <<>> => BooksIn(text) = taken(text) \o BooksIn(AfterFgets(text, MaxLine))
  BY <1>6, <1>7, <1>8, Zenon
<1>10. BooksIn(text) \in Seq(Book) /\ (text = <<>> => BooksIn(text) = <<>>)
  BY <1>6, <1>7, Zenon
<1> QED
  BY <1>9, <1>10, Zenon DEF taken

\* The lines of what was read before do not change the books of the rest: a line
\* adds books in front of them, and one that fits the buffer adds its own.
AddsBooks(l, rest) ==
  \E x \in Seq(Book) : /\ BooksIn((l \o <<"nl">>) \o rest) = x \o BooksIn(rest)
                       /\ Len(l) + 2 <= MaxLine => x = BookOf(l)

LEMMA BooksAfterLine ==
  ASSUME NEW rest \in Seq(Typed), NEW l \in Seq(Characters)
  PROVE  AddsBooks(l, rest)
<1> DEFINE U == {n \in Nat : \A t \in Seq(Characters) : Len(t) <= n => AddsBooks(t, rest)}
           nl == <<"nl">>
<1>0. MaxLine \in Nat /\ MaxLine >= 2
  BY BuffersFit
<1>1. ASSUME NEW t \in Seq(Characters)
      PROVE  (t \o nl) \o rest \in Seq(Typed) /\ (t \o nl) \o rest # <<>>
             /\ BooksIn(rest) \in Seq(Book) /\ Len(t) \in Nat
  <2>1. t \in Seq(Typed) /\ NoNewline(t)
    BY LineType, Zenon
  <2>2. IsLineThenRest((t \o nl) \o rest, t, rest)
    BY <2>1, LineThenRest, Zenon
  <2> DEFINE s == (t \o nl) \o rest
  <2> HIDE DEF s
  <2>3. s \in Seq(Typed) /\ Len(s) = Len(t) + 1 + Len(rest)
    BY <2>2, Zenon DEF IsLineThenRest, s
  <2>4. Len(t) \in Nat /\ Len(rest) \in Nat
    BY LenProperties
  <2>5. s # <<>>
    <3>1. Len(s) # 0
      BY <2>3, <2>4
    <3> QED
      BY <3>1, EmptySeq
  <2> QED
    BY <2>3, <2>4, <2>5, BooksOf, Zenon DEF s
<1>2. ASSUME NEW t \in Seq(Characters), Len(t) + 2 <= MaxLine
      PROVE  AddsBooks(t, rest)
  <2>1. LineOf((t \o nl) \o rest, MaxLine) = t /\ AfterFgets((t \o nl) \o rest, MaxLine) = rest
    BY <1>0, <1>2, FgetsWhole, Zenon
  <2>2. BookOf(t) \in Seq(Book)
    BY BookOfType, Zenon
  <2> DEFINE s == (t \o nl) \o rest
  <2>3. s \in Seq(Typed) /\ s # <<>> /\ LineOf(s, MaxLine) = t /\ AfterFgets(s, MaxLine) = rest
    BY <1>1, <2>1, Zenon
  <2> HIDE DEF s
  <2>4. BooksIn(s) = BookOf(t) \o BooksIn(rest)
    BY <2>3, BooksOf, Zenon
  <2> QED
    BY <2>2, <2>4, Zenon DEF AddsBooks, s
<1>3. ASSUME NEW t \in Seq(Characters), ~(Len(t) + 2 <= MaxLine),
             \A u \in Seq(Characters) : Len(u) < Len(t) => AddsBooks(u, rest)
      PROVE  AddsBooks(t, rest)
  <2>1. PICK r \in Seq(Characters) :
           Len(r) < Len(t) /\ AfterFgets((t \o nl) \o rest, MaxLine) = (r \o nl) \o rest
    BY <1>0, <1>3, FgetsPiece, Zenon
  <2>2. PICK x \in Seq(Book) : BooksIn((r \o nl) \o rest) = x \o BooksIn(rest)
    BY <1>3, <2>1, Zenon DEF AddsBooks
  <2> DEFINE s == (t \o nl) \o rest
             y == BookOf(LineOf(s, MaxLine))
             others == BooksIn(rest)
  <2>3. s \in Seq(Typed) /\ s # <<>> /\ others \in Seq(Book)
    BY <1>1, Zenon
  <2>4. BooksIn(AfterFgets(s, MaxLine)) = x \o others
    BY <2>1, <2>2, Zenon
  <2>5. LineOf(s, MaxLine) \in Seq(Characters)
    <3> HIDE DEF s
    <3> QED
      BY <1>0, <2>3, LineOfType, Zenon
  <2> HIDE DEF s
  <2>6. y \in Seq(Book)
    BY <2>5, BookOfType, Zenon
  <2>7. BooksIn(s) = y \o (x \o others)
    BY <2>3, <2>4, BooksOf, Zenon
  <2> HIDE DEF y, others
  <2>8. JoinsEitherWay(y, x, others) /\ y \o x \in Seq(Book)
    BY <2>3, <2>6, JoinEitherWay, ConcatProperties, Zenon
  <2>9. BooksIn(s) = (y \o x) \o others
    BY <2>7, <2>8, Zenon DEF JoinsEitherWay
  <2> QED
    BY <1>3, <2>8, <2>9, Zenon DEF AddsBooks, s, others
<1>4. 0 \in U
  <2>1. \A t \in Seq(Characters) : Len(t) <= 0 => Len(t) + 2 <= MaxLine
    BY <1>0, <1>1
  <2> QED
    BY <1>2, <2>1
<1>5. ASSUME NEW n \in U PROVE n + 1 \in U
  <2>1. n \in Nat /\ n + 1 \in Nat /\ \A t \in Seq(Characters) : Len(t) <= n => AddsBooks(t, rest)
    OBVIOUS
  <2>2. ASSUME NEW t \in Seq(Characters), Len(t) <= n + 1 PROVE AddsBooks(t, rest)
    <3>1. \A u \in Seq(Characters) : Len(u) < Len(t) => Len(u) <= n
      BY <1>1, <2>1, <2>2
    <3> QED
      BY <1>2, <1>3, <2>1, <3>1, Zenon
  <2> QED
    BY <2>1, <2>2, Zenon
<1>6. U = Nat
  <2>1. U \in SUBSET Nat
    OBVIOUS
  <2> HIDE DEF U
  <2> QED
    BY <1>4, <1>5, <2>1, Induction, Zenon
<1>7. Len(l) \in U /\ Len(l) <= Len(l)
  <2>1. Len(l) \in Nat
    BY <1>1
  <2> HIDE DEF U
  <2> QED
    BY <1>6, <2>1
<1> QED
  BY <1>7, Zenon

-------------------------------------------------------------------------------
(* Elements that are found again in a longer sequence *)

\* What is found in x and, further on in s, in y is found in x followed by y.
LEMMA FoundJoin ==
  ASSUME NEW S, NEW s, NEW x \in Seq(S), NEW y \in Seq(S), NEW P, NEW Q,
         P \subseteq Nat, Q \subseteq Nat, \A p \in P, q \in Q : p < q,
         FoundIn(P, s, x), FoundIn(Q, s, y)
  PROVE  FoundIn(P \cup Q, s, x \o y)
<1> DEFINE n == Len(x)
           m == Len(y)
           z == x \o y
<1>1. /\ n \in Nat /\ m \in Nat /\ DOMAIN x = 1 .. n /\ DOMAIN y = 1 .. m
      /\ DOMAIN z = 1 .. n + m
      /\ \A i \in 1 .. n + m : z[i] = IF i <= n THEN x[i] ELSE y[i - n]
  <2>1. z \in Seq(S) /\ Len(z) = n + m
        /\ \A i \in 1 .. n + m : z[i] = IF i <= n THEN x[i] ELSE y[i - n]
    BY ConcatProperties, Zenon
  <2> HIDE DEF z
  <2> QED
    BY <2>1, LenProperties
<1>2. PICK f \in [P -> 1 .. n] : (\A i \in P : x[f[i]] = s[i]) /\ \A i, j \in P : i < j => f[i] < f[j]
  BY <1>1, Zenon DEF FoundIn
<1>3. PICK g \in [Q -> 1 .. m] : (\A i \in Q : y[g[i]] = s[i]) /\ \A i, j \in Q : i < j => g[i] < g[j]
  BY <1>1, Zenon DEF FoundIn
<1> HIDE DEF n, m, z
<1> DEFINE h(i) == IF i \in P THEN f[i] ELSE n + g[i]
           at == [i \in P \cup Q |-> h(i)]
<1>4. \A i \in P : f[i] \in 1 .. n
  BY <1>2, Zenon
<1>5. \A i \in Q : g[i] \in 1 .. m
  BY <1>3, Zenon
<1>6. \A i \in P \cup Q : i \notin P => i \in Q
  BY Zenon
<1>7. \A k \in 1 .. n : k \in 1 .. n + m /\ k <= n
  BY <1>1
<1>8. \A k \in 1 .. m : n + k \in 1 .. n + m /\ ~(n + k <= n) /\ (n + k) - n = k
  BY <1>1
<1>9. ASSUME NEW i \in P \cup Q PROVE h(i) \in 1 .. n + m /\ z[h(i)] = s[i]
  <2>1. CASE i \in P
    <3> DEFINE k == f[i]
    <3>1. k \in 1 .. n /\ x[k] = s[i]
      BY <1>2, <1>4, <2>1, Zenon
    <3>2. h(i) = k
      BY <2>1, Zenon
    <3> HIDE DEF k, h
    <3>3. k \in 1 .. n + m /\ z[k] = x[k]
      BY <1>1, <1>7, <3>1, Zenon
    <3> QED
      BY <3>1, <3>2, <3>3, Zenon
  <2>2. CASE i \notin P
    <3> DEFINE k == g[i]
    <3>1. k \in 1 .. m /\ y[k] = s[i]
      BY <1>3, <1>5, <1>6, <2>2, Zenon
    <3>2. h(i) = n + k
      BY <2>2, Zenon
    <3> HIDE DEF k, h
    <3> DEFINE c == n + k
    <3>3. c \in 1 .. n + m /\ ~(c <= n) /\ c - n = k
      BY <1>8, <3>1, Zenon
    <3>4. h(i) = c
      BY <3>2, Zenon
    <3> HIDE DEF c
    <3>5. z[c] = y[c - n]
      BY <1>1, <3>3, Zenon
    <3>6. z[c] = y[k]
      BY <3>3, <3>5, Zenon
    <3> QED
      BY <3>1, <3>3, <3>4, <3>6, Zenon
  <2> QED
    BY <2>1, <2>2, Zenon
<1>10. ASSUME NEW i \in P \cup Q, NEW j \in P \cup Q, i < j PROVE h(i) < h(j)
  <2>0. i \in Nat /\ j \in Nat
    BY Zenon
  <2>1. CASE i \in P /\ j \in P
    BY <1>2, <1>10, <2>1, Zenon
  <2>2. CASE i \notin P /\ j \notin P
    <3> DEFINE a == g[i]
               b == g[j]
    <3>1. h(i) = n + a /\ h(j) = n + b
      BY <2>2, Zenon
    <3>2. a \in 1 .. m /\ b \in 1 .. m /\ a < b
      BY <1>3, <1>5, <1>6, <1>10, <2>2, Zenon
    <3> HIDE DEF a, b, h
    <3>3. n + a < n + b
      BY <1>1, <3>2
    <3> QED
      BY <3>1, <3>3, Zenon
  <2>3. CASE i \in P /\ j \notin P
    <3> DEFINE a == f[i]
               b == g[j]
    <3>1. h(i) = a /\ h(j) = n + b
      BY <2>3, Zenon
    <3>2. a \in 1 .. n /\ b \in 1 .. m
      BY <1>4, <1>5, <1>6, <2>3, Zenon
    <3> HIDE DEF a, b, h
    <3>3. a < n + b
      BY <1>1, <3>2
    <3> QED
      BY <3>1, <3>3, Zenon
  <2>4. CASE i \notin P /\ j \in P
    <3>1. j < i
      BY <1>6, <2>4, Zenon
    <3> QED
      BY <1>10, <2>0, <3>1
  <2> QED
    BY <2>1, <2>2, <2>3, <2>4, Zenon
<1>11. /\ at \in [P \cup Q -> DOMAIN z]
       /\ \A i \in P \cup Q : at[i] = h(i)
  BY <1>1, <1>9, Zenon
<1> HIDE DEF at, h
<1>12. \A i \in P \cup Q : z[at[i]] = s[i]
  BY <1>9, <1>11, Zenon
<1>13. \A i, j \in P \cup Q : i < j => at[i] < at[j]
  BY <1>10, <1>11, Zenon
<1>14. FoundIn(P \cup Q, s, z)
  BY <1>11, <1>12, <1>13, Zenon DEF FoundIn
<1> QED
  BY <1>14, Zenon DEF z

\* Nothing is found anywhere,
LEMMA NothingFound == ASSUME NEW s, NEW t PROVE FoundIn({}, s, t)
<1> DEFINE at == [i \in {} |-> 0]
<1>1. at \in [{} -> DOMAIN t]
  BY Zenon
<1> QED
  BY <1>1, Zenon DEF FoundIn

\* and one element where it is the only one.
LEMMA OneFound ==
  ASSUME NEW s, NEW j \in Nat, NEW t, Len(t) = 1, DOMAIN t = 1 .. 1, t[1] = s[j]
  PROVE  FoundIn({j}, s, t)
<1> DEFINE at == [i \in {j} |-> 1]
<1>1. 1 \in 1 .. 1
  OBVIOUS
<1>2. at \in [{j} -> DOMAIN t] /\ at[j] = 1
  BY <1>1, Zenon
<1>3. ~(j < j)
  OBVIOUS
<1> HIDE DEF at
<1> QED
  BY <1>2, <1>3, Zenon DEF FoundIn

\* Ends, one shorter at a time.
LEMMA NextEnd ==
  ASSUME NEW S, NEW text \in Seq(S), NEW i \in 1 .. Len(text)
  PROVE  /\ EndFrom(text, i) \in Seq(S) /\ EndFrom(text, i) # <<>>
         /\ EndFrom(text, i)[1] = text[i]
         /\ Tail(EndFrom(text, i)) = EndFrom(text, i + 1)
<1> DEFINE n == Len(text)
           j == i + 1
           s == EndFrom(text, i)
           t == EndFrom(text, j)
           r == Tail(s)
<1>0. n \in Nat /\ i \in 1 .. n
  BY LenProperties
<1>1. /\ s \in Seq(S) /\ Len(s) = n + 1 - i
      /\ \A k \in 1 .. n + 1 - i : s[k] = text[i - 1 + k]
  <2>1. i \in 1 .. n + 1
    BY <1>0
  <2> QED
    BY <2>1, EndFromIs, Zenon
<1>2. /\ t \in Seq(S) /\ Len(t) = n + 1 - j
      /\ \A k \in 1 .. n + 1 - j : t[k] = text[j - 1 + k]
  <2>1. j \in 1 .. n + 1
    BY <1>0
  <2> HIDE DEF j
  <2> QED
    BY <2>1, EndFromIs, Zenon
<1> HIDE DEF n, s, t
<1>3. s # <<>>
  <2>1. Len(s) # 0
    BY <1>0, <1>1
  <2> QED
    BY <2>1, EmptySeq
<1>4. s[1] = text[i]
  <2>1. 1 \in 1 .. n + 1 - i /\ i - 1 + 1 = i
    BY <1>0
  <2>2. s[1] = text[i - 1 + 1]
    BY <1>1, <2>1, Zenon
  <2> QED
    BY <2>1, <2>2
<1>5. /\ r \in Seq(S) /\ Len(r) = Len(s) - 1
      /\ \A k \in 1 .. Len(s) - 1 : r[k] = s[k + 1]
  BY <1>1, <1>3, HeadTailProperties
<1> HIDE DEF r
<1>6. Len(r) = Len(t)
  BY <1>0, <1>1, <1>2, <1>5
<1>7. \A k \in 1 .. Len(r) : r[k] = t[k]
  <2> TAKE k \in 1 .. Len(r)
  <2> DEFINE m == k + 1
  <2>1. k \in 1 .. Len(s) - 1 /\ m \in 1 .. n + 1 - i /\ k \in 1 .. n + 1 - j
        /\ i - 1 + m = j - 1 + k
    BY <1>0, <1>1, <1>2, <1>5
  <2>2. r[k] = s[m]
    BY <1>5, <2>1, Zenon
  <2> HIDE DEF m, j
  <2>3. s[m] = text[i - 1 + m] /\ t[k] = text[j - 1 + k]
    BY <1>1, <1>2, <2>1, Zenon
  <2> QED
    BY <2>1, <2>2, <2>3, Zenon
<1>8. r = t
  BY <1>2, <1>5, <1>6, <1>7, SeqEqual, Zenon
<1> QED
  BY <1>1, <1>3, <1>4, <1>8, Zenon DEF r, s, t, j

-------------------------------------------------------------------------------
(* What a save writes *)

LinesFor(s) == [i \in DOMAIN s |-> LineFor(s[i])]
HeaderLine == <<"#", "a">>

LEMMA HeaderIs == HeaderLine \in Seq(Characters) /\ Header = HeaderLine \o <<"nl">>
<1>1. "#" \in Characters /\ "a" \in Characters
  BY Zenon DEF Characters
<1>2. HeaderLine \in Seq(Characters) /\ Len(HeaderLine) = 2 /\ HeaderLine[1] = "#" /\ HeaderLine[2] = "a"
  BY <1>1 DEF HeaderLine
<1>3. HeaderLine \in Seq(Typed) /\ NoNewline(HeaderLine)
  BY <1>2, LineType, Zenon
<1> DEFINE z == <<"nl">>
           h == HeaderLine \o z
<1>4. z \in Seq(Typed) /\ Len(z) = 1 /\ z[1] = "nl"
  BY DEF Typed
<1> HIDE DEF z
<1>5. /\ h \in Seq(Typed) /\ Len(h) = Len(HeaderLine) + Len(z)
      /\ \A i \in 1 .. Len(HeaderLine) + Len(z) :
           h[i] = IF i <= Len(HeaderLine) THEN HeaderLine[i] ELSE z[i - Len(HeaderLine)]
  BY <1>3, <1>4, ConcatProperties, Zenon
<1> HIDE DEF h
<1>6. Len(h) = 3 /\ h[1] = "#" /\ h[2] = "a" /\ h[3] = "nl"
  <2>1. 1 \in 1 .. 2 + 1 /\ 2 \in 1 .. 2 + 1 /\ 3 \in 1 .. 2 + 1 /\ 1 <= 2 /\ 2 <= 2 /\ ~(3 <= 2) /\ 3 - 2 = 1
        /\ 2 + 1 = 3
    OBVIOUS
  <2> QED
    BY <1>2, <1>4, <1>5, <2>1, Zenon
<1>7. Header \in Seq(Typed) /\ Len(Header) = 3 /\ Header[1] = "#" /\ Header[2] = "a" /\ Header[3] = "nl"
  <2>1. "#" \in Typed /\ "a" \in Typed /\ "nl" \in Typed
    BY <1>1, Zenon DEF Typed
  <2> QED
    BY <2>1 DEF Header
<1>8. Header = h
  <2>1. \A i \in 1 .. 3 : i = 1 \/ i = 2 \/ i = 3
    OBVIOUS
  <2>2. \A i \in 1 .. Len(h) : Header[i] = h[i]
    BY <1>6, <1>7, <2>1, Zenon
  <2> QED
    BY <1>5, <1>6, <1>7, <2>2, SeqEqual, Zenon
<1> QED
  BY <1>2, <1>8, Zenon DEF h, z

\* The text of a save is the header and a line for each book.
LEMMA SavedIs ==
  ASSUME NEW s \in Seq(Book)
  PROVE  /\ LinesFor(s) \in Seq(Seq(Characters)) /\ Len(LinesFor(s)) = Len(s)
         /\ \A i \in 1 .. Len(s) : s[i] \in Book /\ LinesFor(s)[i] = LineFor(s[i])
         /\ SavedText(s) = (HeaderLine \o <<"nl">>) \o Waiting(LinesFor(s))
         /\ SavedText(s) \in Seq(Typed)
<1> DEFINE n == Len(s)
           line(i) == LineFor(s[i])
           lines == LinesFor(s)
<1>1. n \in Nat /\ DOMAIN s = 1 .. n /\ \A i \in 1 .. n : s[i] \in Book
  BY LenProperties, ElementOfSeq
<1>2. lines = [i \in 1 .. n |-> line(i)]
  BY <1>1, Zenon DEF LinesFor
<1>3. \A i \in 1 .. n : line(i) \in Seq(Characters)
  BY <1>1, LineForType, Zenon
<1>4. lines \in [1 .. n -> Seq(Characters)] /\ \A i \in 1 .. n : lines[i] = line(i)
  BY <1>2, <1>3, Zenon
<1> HIDE DEF n, lines
<1>5. lines \in Seq(Seq(Characters)) /\ Len(lines) = n /\ DOMAIN lines = 1 .. n
  BY <1>1, <1>4
<1>6. Ended(lines) = [i \in DOMAIN s |-> LineFor(s[i]) \o <<"nl">>]
  <2>1. \A i \in 1 .. n : lines[i] \o <<"nl">> = LineFor(s[i]) \o <<"nl">>
    BY <1>4, Zenon
  <2>2. [i \in 1 .. n |-> lines[i] \o <<"nl">>] = [i \in 1 .. n |-> LineFor(s[i]) \o <<"nl">>]
    BY <2>1, Zenon
  <2> QED
    BY <1>1, <1>5, <2>2, Zenon DEF Ended
<1>7. SavedText(s) = Header \o Waiting(lines)
  BY <1>6, Zenon DEF SavedText, Waiting
<1>8. SavedText(s) = (HeaderLine \o <<"nl">>) \o Waiting(lines)
  BY <1>7, HeaderIs, Zenon
<1>9. SavedText(s) \in Seq(Typed)
  <2>1. HeaderLine \in Seq(Typed) /\ Waiting(lines) \in Seq(Typed)
    BY <1>5, HeaderIs, LineType, WaitingAppend, Zenon
  <2>2. <<"nl">> \in Seq(Typed)
    BY DEF Typed
  <2>3. HeaderLine \o <<"nl">> \in Seq(Typed)
    BY <2>1, <2>2, ConcatProperties, Zenon
  <2> QED
    BY <1>8, <2>1, <2>3, ConcatProperties, Zenon
<1> QED
  BY <1>1, <1>4, <1>5, <1>8, <1>9, Zenon DEF n, lines

\* The text of the lines from a place on is that line and the text of the next.
LEMMA WaitingFrom ==
  ASSUME NEW lines \in Seq(Seq(Characters)), NEW i \in 1 .. Len(lines)
  PROVE  /\ lines[i] \in Seq(Characters)
         /\ Waiting(EndFrom(lines, i + 1)) \in Seq(Typed)
         /\ Waiting(EndFrom(lines, i)) = (lines[i] \o <<"nl">>) \o Waiting(EndFrom(lines, i + 1))
<1> DEFINE s == EndFrom(lines, i)
           t == EndFrom(lines, i + 1)
<1>1. s \in Seq(Seq(Characters)) /\ s # <<>> /\ s[1] = lines[i] /\ Tail(s) = t
  BY NextEnd, Zenon
<1>2. lines[i] \in Seq(Characters)
  BY ElementOfSeq
<1>3. t \in Seq(Seq(Characters))
  <2> DEFINE j == i + 1
  <2>1. j \in 1 .. Len(lines) + 1
    BY LenProperties
  <2> HIDE DEF j
  <2>2. EndFrom(lines, j) \in Seq(Seq(Characters))
    BY <2>1, EndFromIs, Zenon
  <2> QED
    BY <2>2, Zenon DEF j
<1> HIDE DEF s, t
<1>4. Waiting(s) = (s[1] \o <<"nl">>) \o Waiting(Tail(s))
  BY <1>1, WaitingTail, Zenon
<1>5. Waiting(t) \in Seq(Typed)
  BY <1>2, <1>3, WaitingAppend, Zenon
<1> QED
  BY <1>1, <1>2, <1>4, <1>5, Zenon DEF s, t

CleanFrom(s, i) == {k \in i .. Len(s) : Clean(s[k])}

\* The header is a comment that a load reads in one piece.
LEMMA HeaderMakesNone == BookOf(HeaderLine) = <<>> /\ Len(HeaderLine) + 2 <= MaxLine
<1>1. HeaderLine[1] = "#" /\ Len(HeaderLine) = 2
  BY DEF HeaderLine
<1>2. Len(Header) = 3 /\ MaxLine \in Nat /\ Len(Header) < MaxLine
  BY FormatAssumption DEF Header
<1>3. BookOf(HeaderLine) = <<>>
  BY <1>1, Zenon DEF BookOf, Loadable, Comment
<1> QED
  BY <1>1, <1>2, <1>3

\* Clean books are found again, wherever the save is taken up.
LEMMA CleanFound ==
  ASSUME NEW s \in Seq(Book), NEW i \in 1 .. Len(s) + 1
  PROVE  FoundIn(CleanFrom(s, i), s, BooksIn(Waiting(EndFrom(LinesFor(s), i))))
<1> DEFINE n == Len(s)
           lines == LinesFor(s)
           Back(k) == FoundIn(CleanFrom(s, k), s, BooksIn(Waiting(EndFrom(lines, k))))
           U == {m \in Nat : \A k \in 1 .. n + 1 : n + 1 - k <= m => Back(k)}
<1>1. /\ n \in Nat /\ lines \in Seq(Seq(Characters)) /\ Len(lines) = n
      /\ \A k \in 1 .. n : s[k] \in Book /\ lines[k] = LineFor(s[k])
  BY SavedIs, LenProperties, Zenon
<1> HIDE DEF n, lines
<1>2. 0 \in U
  <2> SUFFICES ASSUME NEW k \in 1 .. n + 1, n + 1 - k <= 0 PROVE Back(k)
    OBVIOUS
  <2>1. k = n + 1 /\ k .. n = {}
    BY <1>1
  <2>2. CleanFrom(s, k) = {}
    BY <2>1, Zenon DEF CleanFrom, n
  <2> QED
    BY <2>2, NothingFound, Zenon
<1>3. ASSUME NEW m \in U PROVE m + 1 \in U
  <2>1. m \in Nat /\ m + 1 \in Nat
    OBVIOUS
  <2>2. ASSUME NEW k \in 1 .. n + 1, n + 1 - k <= m + 1 PROVE Back(k)
    <3>1. CASE n + 1 - k <= m
      BY <3>1
    <3>2. CASE ~(n + 1 - k <= m)
      <4> DEFINE j == k + 1
                 l == lines[k]
                 rest == Waiting(EndFrom(lines, j))
                 later == BooksIn(rest)
      <4>1. k \in 1 .. n /\ j \in 1 .. n + 1 /\ n + 1 - j <= m /\ k \in Nat
            /\ k .. n = {k} \cup (j .. n) /\ \A q \in j .. n : k < q /\ q \in Nat
        BY <1>1, <2>1, <2>2, <3>2
      <4>2. Back(j)
        <5> HIDE DEF j, Back
        <5> QED
          BY <4>1
      <4>3. /\ l \in Seq(Characters) /\ rest \in Seq(Typed)
            /\ Waiting(EndFrom(lines, k)) = (l \o <<"nl">>) \o rest
        BY <1>1, <4>1, WaitingFrom, Zenon
      <4> HIDE DEF l, rest, j
      <4>4. later \in Seq(Book)
        BY <4>3, BooksOf, Zenon
      <4>5. PICK x \in Seq(Book) : /\ BooksIn((l \o <<"nl">>) \o rest) = x \o later
                                   /\ Len(l) + 2 <= MaxLine => x = BookOf(l)
        BY <4>3, BooksAfterLine, Zenon DEF AddsBooks
      <4> HIDE DEF later
      <4>6. FoundIn(CleanFrom(s, j), s, later)
        BY <4>2, Zenon DEF rest, later
      <4>7. BooksIn(Waiting(EndFrom(lines, k))) = x \o later
        BY <4>3, <4>5, Zenon
      <4> DEFINE P == IF Clean(s[k]) THEN {k} ELSE {}
      <4>8. CleanFrom(s, k) = P \cup CleanFrom(s, j)
        <5>1. k .. n = {k} \cup (j .. n)
          BY <4>1
        <5> QED
          BY <5>1, Zenon DEF CleanFrom, n
      <4>9. FoundIn(P, s, x)
        <5>1. CASE Clean(s[k])
          <6>1. l = LineFor(s[k]) /\ s[k] \in Book
            BY <1>1, <4>1, Zenon DEF l
          <6>2. Len(l) + 2 <= MaxLine /\ Loadable(l) /\ BookFrom(l) = s[k]
            BY <5>1, <6>1, CleanLine, Zenon
          <6>3. x = <<s[k]>>
            BY <4>5, <6>2, Zenon DEF BookOf
          <6>4. Len(<<s[k]>>) = 1 /\ DOMAIN <<s[k]>> = 1 .. 1 /\ <<s[k]>>[1] = s[k]
            OBVIOUS
          <6>5. FoundIn({k}, s, x)
            BY <4>1, <6>3, <6>4, OneFound, Zenon
          <6> QED
            BY <5>1, <6>5, Zenon
        <5>2. CASE ~Clean(s[k])
          BY <5>2, NothingFound, Zenon
        <5> QED
          BY <5>1, <5>2, Zenon
      <4>10. P \subseteq Nat /\ CleanFrom(s, j) \subseteq Nat /\ \A p \in P, q \in CleanFrom(s, j) : p < q
        BY <4>1, Zenon DEF CleanFrom, n
      <4> HIDE DEF P
      <4>11. FoundIn(P \cup CleanFrom(s, j), s, x \o later)
        BY <4>4, <4>6, <4>9, <4>10, FoundJoin, Zenon DEF later
      <4> QED
        BY <4>7, <4>8, <4>11, Zenon
    <3> QED
      BY <3>1, <3>2, Zenon
  <2> QED
    BY <2>1, <2>2, Zenon
<1>4. U = Nat
  <2>1. U \in SUBSET Nat
    OBVIOUS
  <2> HIDE DEF U
  <2> QED
    BY <1>2, <1>3, <2>1, Induction, Zenon
<1>5. Back(i)
  <2>1. n + 1 - i \in Nat /\ n + 1 - i <= n + 1 - i /\ i \in 1 .. n + 1
    BY <1>1 DEF n
  <2>2. \A m \in U : \A k \in 1 .. n + 1 : n + 1 - k <= m => Back(k)
    BY Zenon
  <2> HIDE DEF U, Back
  <2> QED
    BY <1>4, <2>1, <2>2, Zenon
<1> QED
  BY <1>5, Zenon DEF lines

\* Lines that fit the buffer make one book at most, each.
LEMMA FewBooks ==
  ASSUME NEW s \in Seq(Book), NEW i \in 1 .. Len(s) + 1, \A k \in 1 .. Len(s) : FitsLineBuffer(s[k])
  PROVE  Len(BooksIn(Waiting(EndFrom(LinesFor(s), i)))) <= Len(s) + 1 - i
<1> DEFINE n == Len(s)
           lines == LinesFor(s)
           Few(k) == Len(BooksIn(Waiting(EndFrom(lines, k)))) <= n + 1 - k
           U == {m \in Nat : \A k \in 1 .. n + 1 : n + 1 - k <= m => Few(k)}
<1>1. /\ n \in Nat /\ lines \in Seq(Seq(Characters)) /\ Len(lines) = n
      /\ \A k \in 1 .. n : s[k] \in Book /\ lines[k] = LineFor(s[k]) /\ FitsLineBuffer(s[k])
  <2>1. /\ n \in Nat /\ lines \in Seq(Seq(Characters)) /\ Len(lines) = n
        /\ \A k \in 1 .. n : s[k] \in Book /\ lines[k] = LineFor(s[k])
    BY SavedIs, LenProperties, Zenon
  <2> HIDE DEF lines
  <2> QED
    BY <2>1, Zenon
<1> HIDE DEF n, lines
<1>2. 0 \in U
  <2> SUFFICES ASSUME NEW k \in 1 .. n + 1, n + 1 - k <= 0 PROVE Few(k)
    OBVIOUS
  <2>1. k = n + 1 /\ n + 1 - k = 0
    BY <1>1
  <2>2. BooksIn(Waiting(EndFrom(lines, k))) = <<>>
    <3> DEFINE e == EndFrom(lines, k)
    <3>1. e = <<>>
      <4>1. k \in Int /\ Len(lines) \in Int /\ Len(lines) < k
        BY <1>1, <2>1
      <4> QED
        BY <4>1, SubSeqEmpty, Zenon DEF EndFrom
    <3> HIDE DEF e
    <3>2. Waiting(e) = <<>> /\ <<>> \in Seq(Typed)
      BY <3>1, WaitingEmpty, EmptySeq, Zenon
    <3> QED
      BY <3>2, BooksOf, Zenon DEF e
  <2> QED
    BY <2>1, <2>2
<1>3. ASSUME NEW m \in U PROVE m + 1 \in U
  <2>1. m \in Nat /\ m + 1 \in Nat
    OBVIOUS
  <2>2. ASSUME NEW k \in 1 .. n + 1, n + 1 - k <= m + 1 PROVE Few(k)
    <3>1. CASE n + 1 - k <= m
      BY <3>1
    <3>2. CASE ~(n + 1 - k <= m)
      <4> DEFINE j == k + 1
                 l == lines[k]
                 rest == Waiting(EndFrom(lines, j))
                 later == BooksIn(rest)
                 b == BookOf(l)
      <4>1. k \in 1 .. n /\ j \in 1 .. n + 1 /\ n + 1 - j <= m /\ n + 1 - k = (n + 1 - j) + 1
            /\ n + 1 - j \in Nat
        BY <1>1, <2>1, <2>2, <3>2
      <4>2. Few(j)
        <5> HIDE DEF j, Few
        <5> QED
          BY <4>1
      <4>3. /\ l \in Seq(Characters) /\ rest \in Seq(Typed)
            /\ Waiting(EndFrom(lines, k)) = (l \o <<"nl">>) \o rest
        BY <1>1, <4>1, WaitingFrom, Zenon
      <4>4. Len(l) + 2 <= MaxLine
        BY <1>1, <4>1, Zenon DEF FitsLineBuffer
      <4>5. Len(later) <= n + 1 - j
        BY <4>2, Zenon
      <4> HIDE DEF l, rest, j
      <4>6. BooksIn(Waiting(EndFrom(lines, k))) = b \o later
        BY <4>3, <4>4, BooksAfterLine, Zenon DEF AddsBooks
      <4>7. later \in Seq(Book) /\ b \in Seq(Book)
        BY <4>3, BooksOf, BookOfType, Zenon
      <4>8. Len(b) \in 0 .. 1
        BY BookOfLength, Zenon
      <4> HIDE DEF later, b
      <4> DEFINE w == n + 1 - k
                 v == n + 1 - j
                 p == Len(b)
                 q == Len(later)
                 r == Len(b \o later)
      <4>9. r = p + q /\ q \in Nat
        BY <4>7, ConcatProperties, LenProperties, Zenon
      <4>10. w = v + 1 /\ v \in Nat /\ q <= v /\ p \in 0 .. 1
        BY <4>1, <4>5, <4>8, Zenon
      <4> HIDE DEF w, v, p, q, r
      <4>11. r <= w
        BY <4>9, <4>10
      <4> QED
        BY <4>6, <4>11, Zenon DEF w, r
    <3> QED
      BY <3>1, <3>2, Zenon
  <2> QED
    BY <2>1, <2>2, Zenon
<1>4. U = Nat
  <2>1. U \in SUBSET Nat
    OBVIOUS
  <2> HIDE DEF U
  <2> QED
    BY <1>2, <1>3, <2>1, Induction, Zenon
<1>5. Few(i)
  <2>1. n + 1 - i \in Nat /\ n + 1 - i <= n + 1 - i /\ i \in 1 .. n + 1
    BY <1>1 DEF n
  <2>2. \A m \in U : \A k \in 1 .. n + 1 : n + 1 - k <= m => Few(k)
    BY Zenon
  <2> HIDE DEF U, Few
  <2> QED
    BY <1>4, <2>1, <2>2, Zenon
<1> QED
  BY <1>5, Zenon DEF lines, n

-------------------------------------------------------------------------------
(* The room of the array *)

\* What fits is the beginning.
LEMMA FittingIs ==
  ASSUME NEW S, NEW s \in Seq(S)
  PROVE  /\ Fitting(s) \in Seq(S)
         /\ Len(Fitting(s)) = IF Len(s) > MaxBooks THEN MaxBooks ELSE Len(s)
         /\ \A i \in 1 .. Len(Fitting(s)) : Fitting(s)[i] = s[i]
         /\ Len(s) <= MaxBooks => Fitting(s) = s
<1> DEFINE u == SubSeq(s, 1, MaxBooks)
<1>1. Len(s) \in Nat /\ MaxBooks \in Nat /\ \A i \in 1 .. Len(s) : s[i] \in S
  BY LenProperties, ElementOfSeq, TextFileAssumption
<1>2. CASE Len(s) > MaxBooks
  <2>1. \A i \in 1 .. MaxBooks : s[i] \in S
    BY <1>1, <1>2
  <2>2. u \in Seq(S) /\ Len(u) = MaxBooks /\ \A i \in 1 .. MaxBooks : u[i] = s[i]
    BY <1>1, <2>1, SubSeqProperties
  <2>3. Fitting(s) = u /\ ~(Len(s) <= MaxBooks)
    BY <1>1, <1>2 DEF Fitting
  <2> HIDE DEF u
  <2> QED
    BY <1>2, <2>2, <2>3, Zenon
<1>3. CASE ~(Len(s) > MaxBooks)
  BY <1>3, Zenon DEF Fitting
<1> QED
  BY <1>2, <1>3, Zenon

LEMMA FittingFits ==
  ASSUME NEW S, NEW s \in Seq(S)
  PROVE  Fitting(s) \in Seq(S) /\ Len(Fitting(s)) <= MaxBooks /\ Len(Fitting(s)) \in Nat
<1>1. Len(s) \in Nat /\ MaxBooks \in Nat
  BY LenProperties, TextFileAssumption
<1>2. Fitting(s) \in Seq(S) /\ Len(Fitting(s)) = IF Len(s) > MaxBooks THEN MaxBooks ELSE Len(s)
  BY FittingIs, Zenon
<1> DEFINE n == Len(Fitting(s))
<1>3. n = IF Len(s) > MaxBooks THEN MaxBooks ELSE Len(s)
  BY <1>2, Zenon
<1> HIDE DEF n
<1>4. n <= MaxBooks /\ n \in Nat
  BY <1>1, <1>3
<1> QED
  BY <1>2, <1>4, Zenon DEF n

-------------------------------------------------------------------------------
(* The program of the file *)

FileTypes ==
  /\ books \in Seq(Book) /\ saved \in Seq(Book)
  /\ Len(books) <= MaxBooks /\ Len(saved) <= MaxBooks
  /\ file \in Seq(Typed) /\ pending \in Seq(Typed)

\* What is in the file, and what is still to go there, begins the last save.
Begins(s, t) == \E rest \in Seq(Typed) : t = s \o rest
Truncated == pc = "truncated" => file = <<>>
FileInvariant == FileTypes /\ Truncated /\ Begins(file \o pending, SavedText(saved))

LEMMA FileInitHolds == FileInit => FileInvariant
<1> SUFFICES ASSUME FileInit PROVE FileInvariant
  OBVIOUS
<1>1. books = <<>> /\ saved = <<>> /\ file = <<>> /\ pending = <<>> /\ Truncated
  BY Zenon DEF FileInit, Truncated
<1>2. <<>> \in Seq(Book) /\ <<>> \in Seq(Typed)
  BY EmptySeq, Zenon
<1>3. SavedText(saved) \in Seq(Typed)
  BY <1>1, <1>2, SavedIs, Zenon
<1>4. file \o pending = <<>>
  BY <1>1, <1>2, ConcatEmptySeq, Zenon
<1>5. SavedText(saved) = <<>> \o SavedText(saved)
  BY <1>3, ConcatEmptySeq, Zenon
<1>6. Len(books) <= MaxBooks /\ Len(saved) <= MaxBooks
  BY <1>1, TextFileAssumption
<1> QED
  BY <1>1, <1>2, <1>3, <1>4, <1>5, <1>6, Zenon DEF FileInvariant, FileTypes, Begins

\* An add and a load leave an inventory of books.
LEMMA LoadIs ==
  ASSUME NEW b \in Seq(Book), NEW text \in Seq(Typed)
  PROVE  Fitting(b \o BooksIn(text)) \in Seq(Book) /\ Len(Fitting(b \o BooksIn(text))) <= MaxBooks
<1> DEFINE all == b \o BooksIn(text)
<1>1. all \in Seq(Book)
  <2>1. BooksIn(text) \in Seq(Book)
    BY BooksOf, Zenon
  <2> QED
    BY <2>1, ConcatProperties, Zenon
<1> HIDE DEF all
<1>2. Fitting(all) \in Seq(Book) /\ Len(Fitting(all)) <= MaxBooks
  BY <1>1, FittingFits, Zenon
<1> QED
  BY <1>2, Zenon DEF all

LEMMA StoredIs == ASSUME NEW d \in Catalogue PROVE Stored(d) \in Book
<1>1. /\ d.title \in Seq(Characters) /\ d.author \in Seq(Characters) /\ d.genre \in Seq(Characters)
      /\ d.year \in Nat
  BY TextFileAssumption, Zenon
<1> DEFINE x == Cut(d.title)
           y == Cut(d.author)
           z == Cut(d.genre)
           n == d.year
<1>2. x \in Field /\ y \in Field /\ z \in Field /\ n \in Nat
  BY <1>1, CutIs, Zenon DEF Field
<1>3. Stored(d) = [title |-> x, author |-> y, genre |-> z, year |-> n]
  BY Zenon DEF Stored
<1> HIDE DEF x, y, z, n
<1> QED
  BY <1>2, <1>3 DEF Book

LEMMA FileStepHolds == FileInvariant /\ FileNext => FileInvariant'
<1> SUFFICES ASSUME FileInvariant, FileNext PROVE FileInvariant'
  OBVIOUS
<1>0. /\ books \in Seq(Book) /\ saved \in Seq(Book) /\ file \in Seq(Typed) /\ pending \in Seq(Typed)
      /\ Len(books) <= MaxBooks /\ Len(saved) <= MaxBooks
      /\ Begins(file \o pending, SavedText(saved))
  BY Zenon DEF FileInvariant, FileTypes
<1>1. Truncated'
  <2>1. Truncated /\ "saving" # "truncated" /\ "flushing" # "truncated" /\ "open" # "truncated"
        /\ "closed" # "truncated"
    BY Zenon DEF FileInvariant
  <2>2. \/ pc' \in {"saving", "flushing", "open", "closed"} \/ file' = <<>>
        \/ pc' = pc /\ file' = file
    BY Zenon DEF FileNext, OpenStorage, CloseStorage, Add, Load, BeginSave, LockForSave, LockFails,
       WriteOut, DiskFull, Unlock, SaveReturns, Stop
  <2> QED
    BY <2>1, <2>2, Zenon DEF Truncated
<1> SUFFICES FileTypes' /\ Begins(file' \o pending', SavedText(saved'))
  BY <1>1, Zenon DEF FileInvariant
<1>2. CASE UNCHANGED <<books, file, pending, saved>>
  BY <1>0, <1>2, Zenon DEF FileTypes
<1>3. CASE \E d \in Catalogue : Add(d)
  <2>1. PICK d \in Catalogue : /\ Len(books) < MaxBooks /\ books' = Append(books, Stored(d))
                               /\ UNCHANGED <<file, pending, saved>>
    BY <1>3, Zenon DEF Add
  <2>2. Stored(d) \in Book
    BY StoredIs, Zenon
  <2> DEFINE b == Stored(d)
  <2> HIDE DEF b
  <2>3. Append(books, b) \in Seq(Book) /\ Len(Append(books, b)) = Len(books) + 1
    BY <1>0, <2>2, AppendProperties, Zenon DEF b
  <2>4. Len(books) + 1 <= MaxBooks
    BY <1>0, <2>1, LenProperties, TextFileAssumption
  <2> QED
    BY <1>0, <2>1, <2>3, <2>4, Zenon DEF b, FileTypes
<1>4. CASE Load
  <2>1. books' \in Seq(Book) /\ Len(books') <= MaxBooks
    BY <1>0, <1>4, LoadIs, Zenon DEF Load
  <2>2. UNCHANGED <<file, pending, saved>>
    BY <1>4, Zenon DEF Load
  <2> QED
    BY <1>0, <2>1, <2>2, Zenon DEF FileInvariant, FileTypes
<1>5. CASE LockForSave
  <2>1. file' = <<>> /\ pending' = SavedText(books) /\ saved' = books /\ books' = books
    BY <1>5, Zenon DEF LockForSave, FileInvariant, Truncated
  <2>2. SavedText(books) \in Seq(Typed) /\ <<>> \in Seq(Typed)
    BY <1>0, SavedIs, EmptySeq, Zenon
  <2>3. file' \o pending' = SavedText(books)
    BY <2>1, <2>2, ConcatEmptySeq, Zenon
  <2>4. SavedText(books) = SavedText(books) \o <<>>
    BY <2>2, ConcatEmptySeq, Zenon
  <2>5. Begins(file' \o pending', SavedText(saved'))
    BY <2>1, <2>2, <2>3, <2>4, Zenon DEF Begins
  <2> QED
    BY <1>0, <2>1, <2>2, <2>5, Zenon DEF FileInvariant, FileTypes
<1>6. CASE WriteOut
  <2>1. /\ pending # <<>> /\ file' = Append(file, Head(pending)) /\ pending' = Tail(pending)
        /\ books' = books /\ saved' = saved
    BY <1>6, Zenon DEF WriteOut
  <2> DEFINE c == Head(pending)
             r == Tail(pending)
  <2>2. c \in Typed /\ r \in Seq(Typed) /\ pending = <<c>> \o r
    BY <1>0, <2>1, HeadTailProperties
  <2> HIDE DEF c, r
  <2> DEFINE m == <<c>>
  <2>3. m \in Seq(Typed) /\ Append(file, c) = file \o m /\ Append(file, c) \in Seq(Typed)
    <3>1. m \in Seq(Typed)
      BY <2>2
    <3>2. Append(file, c) = file \o m
      BY <1>0, <2>2, AppendIsConcat, Zenon DEF m
    <3>3. Append(file, c) \in Seq(Typed)
      BY <1>0, <2>2, AppendProperties, Zenon
    <3> QED
      BY <3>1, <3>2, <3>3, Zenon
  <2> HIDE DEF m
  <2>4. (file \o m) \o r = file \o (m \o r)
    <3>1. JoinsEitherWay(file, m, r)
      BY <1>0, <2>2, <2>3, JoinEitherWay, Zenon
    <3> QED
      BY <3>1, Zenon DEF JoinsEitherWay
  <2>5. file' \o pending' = file \o pending
    <3>1. file' = file \o m
      BY <2>1, <2>3, Zenon DEF c
    <3>2. pending' = r /\ pending = m \o r
      BY <2>1, <2>2, Zenon DEF r, m
    <3> QED
      BY <2>4, <3>1, <3>2, Zenon
  <2>6. file' \in Seq(Typed) /\ pending' \in Seq(Typed)
    BY <2>1, <2>2, <2>3, Zenon DEF c, r
  <2> QED
    BY <1>0, <2>1, <2>5, <2>6, Zenon DEF FileTypes
<1>7. CASE pending' = <<>> /\ UNCHANGED <<file, saved>> /\ (books' = books \/ books' = <<>>)
  <2>1. books' \in Seq(Book) /\ pending' \in Seq(Typed) /\ Len(books') <= MaxBooks
    <3>1. Len(<<>>) = 0 /\ 0 <= MaxBooks
      BY TextFileAssumption
    <3> QED
      BY <1>0, <1>7, <3>1, EmptySeq, Zenon
  <2>2. PICK rest \in Seq(Typed) : SavedText(saved) = (file \o pending) \o rest
    BY <1>0, Zenon DEF Begins
  <2>3. SavedText(saved) = file \o (pending \o rest) /\ pending \o rest \in Seq(Typed)
    <3>1. (file \o pending) \o rest = file \o (pending \o rest)
      <4>1. JoinsEitherWay(file, pending, rest)
        BY <1>0, JoinEitherWay, Zenon
      <4> QED
        BY <4>1, Zenon DEF JoinsEitherWay
    <3>2. pending \o rest \in Seq(Typed)
      BY <1>0, ConcatProperties, Zenon
    <3> QED
      BY <2>2, <3>1, <3>2, Zenon
  <2>4. file \o <<>> = file
    BY <1>0, ConcatEmptySeq, Zenon
  <2>5. Begins(file' \o pending', SavedText(saved'))
    BY <1>7, <2>3, <2>4, Zenon DEF Begins
  <2> QED
    BY <1>0, <1>7, <2>1, <2>5, Zenon DEF FileInvariant, FileTypes
<1>8. CASE BeginSave
  <2>1. file' = <<>> /\ pending' = <<>> /\ books' = books /\ saved' = saved
    BY <1>8, Zenon DEF BeginSave
  <2>2. SavedText(saved) \in Seq(Typed) /\ <<>> \in Seq(Typed)
    BY <1>0, SavedIs, EmptySeq, Zenon
  <2>3. file' \o pending' = <<>> /\ SavedText(saved) = <<>> \o SavedText(saved)
    BY <2>1, <2>2, ConcatEmptySeq, Zenon
  <2>4. Begins(file' \o pending', SavedText(saved'))
    BY <2>1, <2>2, <2>3, Zenon DEF Begins
  <2> QED
    BY <1>0, <2>1, <2>2, <2>4, Zenon DEF FileTypes
<1> QED
  BY <1>2, <1>3, <1>4, <1>5, <1>6, <1>7, <1>8, Zenon
     DEF FileNext, OpenStorage, CloseStorage, LockFails, DiskFull, Unlock, SaveReturns, Stop

LEMMA FileAlways == Spec => []FileInvariant
<1>1. Init => FileInvariant
  BY FileInitHolds, Zenon DEF Init
<1>2. FileInvariant /\ [Next]_<<fileVars, migrateVars>> => FileInvariant'
  <2>1. FileInvariant /\ UNCHANGED fileVars => FileInvariant'
    BY Zenon DEF FileInvariant, FileTypes, Truncated, fileVars
  <2> QED
    BY <2>1, FileStepHolds, Zenon DEF Next, MigrateNext
<1> QED
  BY <1>1, <1>2, PTL DEF Spec

\* A complete save loses no book whose text the format can carry (inventory_save,
\* inventory_load): the next launch finds all of them, in order.
THEOREM CleanBooksComeBack == Spec => []CleanBooksSurvive
<1>1. FileInvariant => CleanBooksSurvive
  <2> SUFFICES ASSUME FileInvariant, file = SavedText(saved),
                      \A i \in DOMAIN saved : FitsLineBuffer(saved[i])
               PROVE  FoundIn({i \in DOMAIN saved : Clean(saved[i])}, saved, Loaded(file))
    BY Zenon DEF CleanBooksSurvive, Complete
  <2> DEFINE n == Len(saved)
             lines == LinesFor(saved)
             body == Waiting(lines)
             P == {i \in DOMAIN saved : Clean(saved[i])}
  <2>1. /\ saved \in Seq(Book) /\ n \in Nat /\ DOMAIN saved = 1 .. n /\ 1 \in 1 .. n + 1
        /\ n <= MaxBooks /\ n + 1 - 1 = n
    BY LenProperties DEF FileInvariant, FileTypes
  <2>2. lines \in Seq(Seq(Characters)) /\ file = (HeaderLine \o <<"nl">>) \o body
    BY <2>1, SavedIs, Zenon
  <2>3. EndFrom(lines, 1) = lines
    BY <2>2, SuffixesAreEnds, Zenon
  <2>4. P = CleanFrom(saved, 1) /\ P \subseteq Nat
    BY <2>1 DEF CleanFrom
  <2>5. FoundIn(CleanFrom(saved, 1), saved, BooksIn(Waiting(EndFrom(lines, 1))))
    BY <2>1, CleanFound, Zenon
  <2>6. Len(BooksIn(body)) <= n
    <3>1. Len(BooksIn(Waiting(EndFrom(lines, 1)))) <= Len(saved) + 1 - 1
      BY <2>1, FewBooks, Zenon
    <3>2. Len(saved) + 1 - 1 = Len(saved)
      BY <2>1
    <3> QED
      BY <2>3, <3>1, <3>2, Zenon
  <2> HIDE DEF lines, body, P, n
  <2>7. FoundIn(P, saved, BooksIn(body))
    BY <2>3, <2>4, <2>5, Zenon DEF body
  <2>8. body \in Seq(Typed)
    BY <2>2, WaitingAppend, HeaderIs, Zenon DEF body
  <2> DEFINE later == BooksIn(body)
  <2>9. BooksIn(file) = later
    <3>1. AddsBooks(HeaderLine, body) /\ BookOf(HeaderLine) = <<>> /\ Len(HeaderLine) + 2 <= MaxLine
      BY <2>8, BooksAfterLine, HeaderIs, HeaderMakesNone, Zenon
    <3>2. BooksIn((HeaderLine \o <<"nl">>) \o body) = <<>> \o later
      BY <3>1, Zenon DEF AddsBooks
    <3>3. later \in Seq(Book)
      BY <2>8, BooksOf, Zenon
    <3> HIDE DEF later
    <3>4. <<>> \o later = later
      BY <3>3, ConcatEmptySeq, Zenon
    <3> QED
      BY <2>2, <3>2, <3>4, Zenon
  <2>10. later \in Seq(Book)
    BY <2>8, BooksOf, Zenon
  <2>11. FoundIn(P, saved, later) /\ Len(later) <= n
    BY <2>7, <2>6, Zenon
  <2> HIDE DEF later
  <2>12. Len(later) <= MaxBooks
    BY <2>1, <2>10, <2>11, LenProperties, TextFileAssumption
  <2>13. Fitting(later) = later
    BY <2>10, <2>12, FittingIs, Zenon
  <2> QED
    BY <2>9, <2>11, <2>13, Zenon DEF P, Loaded
<1> QED
  BY FileAlways, <1>1, PTL

-------------------------------------------------------------------------------
(* The years of the two formats *)

\* A number is white space and then digits only; strtol and atoi, of the text
\* with its white space trimmed, agree on it.
LEMMA NumberIs ==
  ASSUME NEW S, NEW t \in Seq(S), IsNumber(t)
  PROVE  /\ ValueOfNumber(t) = Atoi(Trim(t)) /\ ValueOfNumber(t) \in Nat
         /\ Trim(t) \in Seq(Digits) /\ Trim(t) # <<>>
<1> DEFINE U == Solid(t)
           n == Len(t)
           first == SelectInSeq(t, LAMBDA c : c # " ")
           u == SubSeq(t, first, n)
<1>1. n \in Nat /\ U \in SUBSET (1 .. n) /\ U \in SUBSET Nat
  <2>1. U \in SUBSET (1 .. n)
    BY Zenon DEF Solid
  <2> HIDE DEF U
  <2> QED
    BY <2>1, LenProperties
<1>2. first = IF U = {} THEN 0 ELSE Min(U)
  BY Zenon DEF SelectInSeq, Solid
<1>3. first # 0 /\ \A i \in first .. n : t[i] \in Digits
  BY Zenon DEF IsNumber
<1>4. ValueOfNumber(t) = ValueOf(u)
  BY Zenon DEF ValueOfNumber
<1> HIDE DEF first
<1>5. U # {} /\ first \in U /\ \A i \in U : first <= i
  <2>1. U # {}
    BY <1>2, <1>3, Zenon
  <2> HIDE DEF U
  <2> QED
    BY <1>1, <1>2, <2>1, LeastNumber, Zenon
<1>6. first \in 1 .. n /\ n \in first .. n
  <2>1. first \in 1 .. n
    BY <1>1, <1>5, Zenon
  <2> QED
    BY <1>1, <2>1
<1>7. n \in U
  <2>1. t[n] \in Digits /\ n \in 1 .. n
    BY <1>1, <1>3, <1>6
  <2>2. t[n] # " "
    BY <2>1, Zenon DEF Digits
  <2> QED
    BY <2>1, <2>2, Zenon DEF Solid
<1>8. Trim(t) = u
  <2>1. PICK i, j \in Solid(t) : Trim(t) = SubSeq(t, i, j) /\ \A k \in Solid(t) : i <= k /\ k <= j
    BY <1>5, TrimIs, Zenon
  <2>2. i \in 1 .. n /\ j \in 1 .. n /\ i <= first /\ first <= i /\ n <= j
    BY <1>1, <1>5, <1>7, <2>1, Zenon
  <2>3. i = first /\ j = n
    BY <1>1, <1>6, <2>2
  <2> QED
    BY <2>1, <2>3, Zenon
<1>9. u \in Seq(Digits) /\ Len(u) = n - first + 1
  BY <1>1, <1>3, <1>6, SubSeqProperties
<1> HIDE DEF u
<1>10. u # <<>>
  <2>1. Len(u) # 0
    BY <1>1, <1>6, <1>9
  <2> QED
    BY <2>1, EmptySeq
<1>11. Atoi(u) = ValueOf(u) /\ ValueOf(u) \in Nat
  BY <1>9, AtoiDigits, ValueIs, Zenon
<1> QED
  BY <1>4, <1>8, <1>9, <1>10, <1>11, Zenon

\* A year that was written is a number, and the same one.
LEMMA DecimalIsNumber ==
  ASSUME NEW n \in Nat
  PROVE  IsNumber(Decimal(n)) /\ ValueOfNumber(Decimal(n)) = n
<1> DEFINE s == Decimal(n)
           first == SelectInSeq(s, LAMBDA c : c # " ")
<1>1. s \in Seq(Digits) /\ s # <<>> /\ ValueOf(s) = n
  BY DecimalIs, Zenon
<1>2. Solid(s) = 1 .. Len(s) /\ Trim(s) = s
  BY <1>1, DigitsApart, Zenon
<1>3. Len(s) \in Nat \ {0} /\ \A i \in 1 .. Len(s) : s[i] \in Digits
  BY <1>1, EmptySeq, LenProperties, ElementOfSeq
<1> HIDE DEF s
<1>4. first = IF Solid(s) = {} THEN 0 ELSE Min(Solid(s))
  BY Zenon DEF SelectInSeq, Solid
<1> HIDE DEF first
<1>5. first \in 1 .. Len(s)
  <2> DEFINE U == Solid(s)
  <2>1. U # {} /\ U \in SUBSET Nat
    BY <1>2, <1>3
  <2> HIDE DEF U
  <2>2. Min(U) \in U
    BY <2>1, LeastNumber, Zenon
  <2> QED
    BY <1>2, <1>4, <2>1, <2>2, Zenon DEF U
<1>6. IsNumber(s)
  <2>1. first # 0 /\ \A i \in first .. Len(s) : i \in 1 .. Len(s)
    BY <1>3, <1>5
  <2>2. first # 0 /\ \A i \in first .. Len(s) : s[i] \in Digits
    BY <1>3, <2>1, Zenon
  <2> QED
    BY <2>2, Zenon DEF IsNumber, first
<1>7. ValueOfNumber(s) = n
  BY <1>1, <1>2, <1>6, NumberIs, AtoiDigits, Zenon
<1> QED
  BY <1>6, <1>7, Zenon DEF s

\* The line of a clean book of an early year parses, into the book.
LEMMA CleanParses ==
  ASSUME NEW b \in Book, Clean(b), b.year <= MaxYear
  PROVE  /\ IsData(LineFor(b)) /\ Parses(LineFor(b))
         /\ ParsedBook(LineFor(b)) = Numbered(NextNumber, b)
<1> DEFINE line == LineFor(b)
           t == Tokens(line)
<1>1. /\ line # <<>> /\ line[1] # "#" /\ Len(t) = 4
      /\ t[1] = b.title /\ t[2] = b.author /\ t[3] = b.genre /\ t[4] = Decimal(b.year)
  BY CleanLine, Zenon
<1>2. b.title \in Field /\ b.author \in Field /\ b.genre \in Field /\ b.year \in Nat
  BY LineForType, Zenon
<1>3. Cut(b.title) = b.title /\ Cut(b.author) = b.author /\ Cut(b.genre) = b.genre
  BY <1>2, CutIs, Zenon DEF Field
<1>4. IsNumber(t[4]) /\ ValueOfNumber(t[4]) = b.year
  BY <1>1, <1>2, DecimalIsNumber, Zenon
<1>5. IsData(line)
  BY <1>1, Zenon DEF IsData
<1>6. Parses(line)
  <2>1. 4 >= 4
    OBVIOUS
  <2> QED
    BY <1>1, <1>4, <2>1, Zenon DEF Parses
<1>7. ParsedBook(line) = Numbered(NextNumber, b)
  BY <1>1, <1>3, <1>4, Zenon DEF ParsedBook, Numbered
<1> QED
  BY <1>5, <1>6, <1>7, Zenon

-------------------------------------------------------------------------------
(* The migration of a file *)

MigrateTypes ==
  /\ input \in Seq(Typed) /\ unread \in Seq(Typed)
  /\ step \in {"idle", "open"} => inventory = <<>> /\ unread = <<>>
  /\ step # "done" => db = OldRows

LEMMA TypesInit == Init => MigrateTypes
<1> SUFFICES ASSUME Init PROVE MigrateTypes
  OBVIOUS
<1>1. <<>> \in Seq(Typed)
  BY EmptySeq, Zenon
<1>2. input \in Seq(Typed)
  <2>1. Inputs \subseteq Seq(Typed)
    BY MigrateAssumption, Zenon DEF Typed
  <2> QED
    BY <1>1, <2>1, Zenon DEF Init
<1>3. unread = <<>> /\ inventory = <<>> /\ db = OldRows
  BY Zenon DEF Init
<1> QED
  BY <1>1, <1>2, <1>3, Zenon DEF MigrateTypes

LEMMA TypesStep ==
  FileInvariant /\ MigrateTypes /\ [Next]_<<fileVars, migrateVars>> => MigrateTypes'
<1> SUFFICES ASSUME FileInvariant, MigrateTypes, [Next]_<<fileVars, migrateVars>>
             PROVE  MigrateTypes'
  OBVIOUS
<1>1. CASE UNCHANGED migrateVars
  BY <1>1, Zenon DEF migrateVars, MigrateTypes
<1>2. CASE Start
  BY <1>2 DEF Start, reading, MigrateTypes, FileInvariant, FileTypes
<1>3. CASE OpenInput
  BY <1>3 DEF OpenInput, MigrateTypes
<1>4. CASE ReadLine
  <2>1. unread' \in Seq(Typed)
    <3>1. unread \in Seq(Typed) /\ unread # <<>> /\ unread' = AfterFgets(unread, LineBuffer)
      BY <1>4, Zenon DEF ReadLine, MigrateTypes
    <3>2. LineBuffer \in Nat /\ LineBuffer >= 2
      BY BuffersFit
    <3> QED
      BY <3>1, <3>2, FgetsTakes, Zenon
  <2> QED
    BY <1>4, <2>1 DEF ReadLine, MigrateTypes
<1>5. CASE EndOfInput
  BY <1>5 DEF EndOfInput, reading, MigrateTypes
<1>6. CASE ReadFails
  BY <1>6 DEF ReadFails, MigrateTypes
<1>7. CASE step' = "done" /\ UNCHANGED <<input, reading>>
  BY <1>7 DEF reading, MigrateTypes
<1> QED
  BY <1>1, <1>2, <1>3, <1>4, <1>5, <1>6, <1>7, Zenon
     DEF Next, MigrateNext, OpenFails, PassOver, Skip, Import, DryRun, Save, SaveFails, Killed,
         ExitWith, migrateVars, reading

-------------------------------------------------------------------------------
(* The migration of a saved file *)

\* Books the database can have: not too many, and none of a later year.
FitsDatabase(s) ==
  Len(s) <= MaxBooks /\ \A i \in DOMAIN s : Clean(s[i]) /\ s[i].year <= MaxYear

Rows(s, k) == [i \in 1 .. k |-> Numbered(i, s[i])]

\* The header is still to be read, or k books are taken and the lines of the
\* others still to be read.
ReadUpTo(s, k) ==
  unread = Waiting(EndFrom(LinesFor(s), k + 1)) /\ inventory = Rows(s, k) /\ imported = k

InPlace(s) ==
  \/ unread = SavedText(s) /\ inventory = <<>> /\ imported = 0
  \/ \E k \in 0 .. Len(s) : ReadUpTo(s, k)

\* The inductive invariant: a migration of a saved file is in such a place, has
\* refused nothing, and has all of the books when nothing is left to read.
SavedProgress ==
  LET s == BooksIn(input)
  IN  input = SavedText(s) /\ FitsDatabase(s) =>
        /\ skipped = 0
        /\ step \in {"reading", "report"} => InPlace(s)
        /\ step = "done" => db = OldRows \/ readError \/ db = Rows(s, Len(s))

\* No row before the first, and one row more.
LEMMA RowsGrow ==
  ASSUME NEW s, NEW k \in Nat
  PROVE  /\ Rows(s, 0) = <<>>
         /\ Append(Rows(s, k), Numbered(k + 1, s[k + 1])) = Rows(s, k + 1)
         /\ IsText(Rows(s, k)) /\ Len(Rows(s, k)) = k
<1> DEFINE S == {Numbered(i, s[i]) : i \in Nat}
           row(i) == Numbered(i, s[i])
           r == Rows(s, k)
           t == Rows(s, k + 1)
<1>1. \A j \in Nat : Rows(s, j) = [i \in 1 .. j |-> row(i)]
  BY Zenon DEF Rows
<1>2. \A i \in Nat : row(i) \in S
  BY Zenon
<1> HIDE DEF S, row
<1>3. ASSUME NEW j \in Nat
      PROVE  /\ Rows(s, j) \in Seq(S) /\ Len(Rows(s, j)) = j
             /\ \A i \in 1 .. j : Rows(s, j)[i] = row(i)
  <2> DEFINE x == Rows(s, j)
  <2>1. x = [i \in 1 .. j |-> row(i)]
    BY <1>1, Zenon
  <2> HIDE DEF x
  <2>2. x \in [1 .. j -> S] /\ \A i \in 1 .. j : x[i] = row(i)
    BY <1>2, <2>1
  <2>3. x \in Seq(S) /\ Len(x) = j
    BY <2>1, <2>2
  <2> QED
    BY <2>2, <2>3, Zenon DEF x
<1>4. Rows(s, 0) = <<>>
  <2>1. 0 \in Nat
    OBVIOUS
  <2> QED
    BY <1>3, <2>1, EmptySeq, Zenon
<1>5. Append(r, row(k + 1)) = t
  <2> DEFINE m == k + 1
             e == row(m)
             a == Append(r, e)
  <2>1. m \in Nat /\ m = k + 1 /\ m \in 1 .. m /\ k \in Nat
    OBVIOUS
  <2> HIDE DEF m
  <2>2. /\ r \in Seq(S) /\ Len(r) = k /\ \A i \in 1 .. k : r[i] = row(i)
        /\ Rows(s, m) \in Seq(S) /\ Len(Rows(s, m)) = m /\ \A i \in 1 .. m : Rows(s, m)[i] = row(i)
        /\ e \in S
    BY <1>2, <1>3, <2>1, Zenon
  <2> HIDE DEF r, e
  <2>3. /\ a \in Seq(S) /\ Len(a) = Len(r) + 1 /\ a[Len(r) + 1] = e
        /\ \A i \in 1 .. Len(r) : a[i] = r[i]
    BY <2>2, AppendProperties
  <2> HIDE DEF a
  <2>4. a[m] = e /\ Len(a) = m
    BY <2>1, <2>2, <2>3
  <2>5. \A i \in 1 .. m : i \in 1 .. k \/ i = m
    BY <2>1
  <2>6. \A i \in 1 .. Len(a) : a[i] = Rows(s, m)[i]
    BY <2>1, <2>2, <2>3, <2>4, <2>5, Zenon DEF e
  <2>7. a = Rows(s, m)
    BY <2>2, <2>3, <2>4, <2>6, SeqEqual, Zenon
  <2> QED
    BY <2>7, Zenon DEF a, e, m, r
<1>6. IsText(r) /\ Len(r) = k
  BY <1>3, TextIs, Zenon
<1> QED
  BY <1>4, <1>5, <1>6, Zenon DEF row

\* The header is passed over.
LEMMA HeaderRead ==
  ASSUME NEW s \in Seq(Book), unread = SavedText(s)
  PROVE  /\ ~IsData(Line) /\ AfterFgets(unread, LineBuffer) = Waiting(EndFrom(LinesFor(s), 0 + 1))
         /\ unread # <<>>
<1> DEFINE body == Waiting(LinesFor(s))
<1>1. /\ unread = (HeaderLine \o <<"nl">>) \o body /\ body \in Seq(Typed)
      /\ LinesFor(s) \in Seq(Seq(Characters))
  <2>1. LinesFor(s) \in Seq(Seq(Characters)) /\ unread = (HeaderLine \o <<"nl">>) \o body
    BY SavedIs, Zenon
  <2>2. HeaderLine \in Seq(Characters)
    BY HeaderIs, Zenon
  <2> QED
    BY <2>1, <2>2, WaitingAppend, Zenon
<1>2. body = Waiting(EndFrom(LinesFor(s), 0 + 1))
  <2>1. EndFrom(LinesFor(s), 1) = LinesFor(s) /\ 0 + 1 = 1
    BY <1>1, SuffixesAreEnds
  <2> QED
    BY <2>1
<1> HIDE DEF body
<1>3. HeaderLine \in Seq(Characters) /\ Len(HeaderLine) + 2 <= LineBuffer /\ HeaderLine[1] = "#"
      /\ Len(HeaderLine) = 2
  BY HeaderIs, BuffersFit DEF HeaderLine
<1>4. Line = HeaderLine /\ AfterFgets(unread, LineBuffer) = body
  <2>1. LineBuffer \in Nat
    BY BuffersFit
  <2> QED
    BY <1>1, <1>3, <2>1, FgetsWhole, Zenon DEF Line
<1>5. ~IsData(Line)
  BY <1>3, <1>4, Zenon DEF IsData
<1>6. unread # <<>>
  <2>1. HeaderLine \in Seq(Typed) /\ NoNewline(HeaderLine)
    BY <1>3, LineType, Zenon
  <2>2. IsLineThenRest(unread, HeaderLine, body)
    BY <1>1, <2>1, LineThenRest, Zenon
  <2>3. Len(unread) = Len(HeaderLine) + 1 + Len(body) /\ Len(body) \in Nat
    BY <1>1, <2>2, LenProperties, Zenon DEF IsLineThenRest
  <2>4. Len(unread) # 0
    BY <1>3, <2>3
  <2> QED
    BY <2>4, EmptySeq
<1> QED
  BY <1>2, <1>4, <1>5, <1>6, Zenon

\* A line of a book that fits is taken for that book.
LEMMA BookRead ==
  ASSUME NEW s \in Seq(Book), FitsDatabase(s), NEW k \in 0 .. Len(s), ReadUpTo(s, k)
  PROVE  /\ unread = <<>> <=> k = Len(s)
         /\ k < Len(s) =>
              /\ IsData(Line) /\ Taken(Line)
              /\ AfterFgets(unread, LineBuffer) = Waiting(EndFrom(LinesFor(s), k + 1 + 1))
              /\ Append(inventory, ParsedBook(Line)) = Rows(s, k + 1)
<1> DEFINE lines == LinesFor(s)
           n == Len(s)
           j == k + 1
<1>1. /\ n \in Nat /\ lines \in Seq(Seq(Characters)) /\ Len(lines) = n /\ DOMAIN s = 1 .. n
      /\ \A i \in 1 .. n : s[i] \in Book /\ lines[i] = LineFor(s[i])
  <2>1. n \in Nat /\ DOMAIN s = 1 .. n
    BY LenProperties
  <2> QED
    BY <2>1, SavedIs, Zenon
<1>2. /\ unread = Waiting(EndFrom(lines, j)) /\ inventory = Rows(s, k) /\ imported = k
      /\ n <= MaxBooks /\ \A i \in 1 .. n : Clean(s[i]) /\ s[i].year <= MaxYear
  BY <1>1, Zenon DEF ReadUpTo, FitsDatabase
<1>3. k \in 0 .. n /\ j = k + 1
  BY Zenon
<1> HIDE DEF lines, n, j
<1>4. ASSUME k = n PROVE unread = <<>>
  <2>1. EndFrom(lines, j) = <<>>
    <3>1. j \in 1 .. Len(lines) + 1 /\ Len(lines) + 1 - j = 0
      BY <1>1, <1>3, <1>4
    <3>2. EndFrom(lines, j) \in Seq(Seq(Characters)) /\ Len(EndFrom(lines, j)) = Len(lines) + 1 - j
      BY <1>1, <3>1, EndFromIs, Zenon
    <3> QED
      BY <3>1, <3>2, EmptySeq
  <2> QED
    BY <1>2, <2>1, WaitingEmpty, Zenon
<1>5. ASSUME k < n
      PROVE  /\ unread # <<>> /\ IsData(Line) /\ Taken(Line)
             /\ AfterFgets(unread, LineBuffer) = Waiting(EndFrom(lines, j + 1))
             /\ Append(inventory, ParsedBook(Line)) = Rows(s, j)
  <2> DEFINE b == s[j]
             l == lines[j]
             rest == Waiting(EndFrom(lines, j + 1))
  <2>1. j \in 1 .. n
    BY <1>1, <1>3, <1>5
  <2>2. b \in Book /\ l = LineFor(b) /\ Clean(b) /\ b.year <= MaxYear
    BY <1>1, <1>2, <2>1, Zenon
  <2>3. l \in Seq(Characters) /\ rest \in Seq(Typed) /\ unread = (l \o <<"nl">>) \o rest
    BY <1>1, <1>2, <2>1, WaitingFrom, Zenon
  <2> HIDE DEF b, l, rest
  <2>4. Len(l) + 2 <= MaxLine /\ Len(l) \in Nat
    BY <2>2, <2>3, CleanLine, LenProperties, Zenon
  <2>5. LineBuffer \in Nat /\ Len(l) + 2 <= LineBuffer
    BY <2>4, BuffersFit
  <2>6. Line = l /\ AfterFgets(unread, LineBuffer) = rest
    BY <2>3, <2>5, FgetsWhole, Zenon DEF Line
  <2>7. IsData(l) /\ Parses(l) /\ ParsedBook(l) = Numbered(NextNumber, b)
    BY <2>2, CleanParses, Zenon
  <2>8. Len(inventory) = k /\ Append(inventory, Numbered(k + 1, s[k + 1])) = Rows(s, k + 1)
    <3>1. k \in Nat
      BY <1>3
    <3> QED
      BY <1>2, <3>1, RowsGrow, Zenon
  <2>9. Taken(l)
    <3>1. k < MaxBooks
      BY <1>1, <1>2, <1>3, <1>5, TextFileAssumption
    <3> QED
      BY <2>7, <2>8, <3>1, Zenon DEF Taken
  <2>10. ParsedBook(l) = Numbered(k + 1, s[k + 1])
    BY <1>2, <2>7, Zenon DEF NextNumber, b, j
  <2>11. unread # <<>>
    <3>1. l \in Seq(Typed) /\ NoNewline(l)
      BY <2>3, LineType, Zenon
    <3>2. IsLineThenRest(unread, l, rest)
      BY <2>3, <3>1, LineThenRest, Zenon
    <3>3. Len(unread) = Len(l) + 1 + Len(rest) /\ Len(rest) \in Nat
      BY <2>3, <3>2, LenProperties, Zenon DEF IsLineThenRest
    <3>4. Len(unread) # 0
      BY <2>4, <3>3
    <3> QED
      BY <3>4, EmptySeq
  <2> QED
    BY <2>6, <2>7, <2>8, <2>9, <2>10, <2>11, Zenon DEF rest, j
<1>6. unread = <<>> <=> k = n
  <2>1. k = n \/ k < n
    BY <1>1, <1>3
  <2> QED
    BY <1>4, <1>5, <2>1, Zenon
<1> QED
  BY <1>5, <1>6, Zenon DEF n, lines, j

LEMMA SavedStarts == Init => SavedProgress
<1> SUFFICES ASSUME Init PROVE SavedProgress
  OBVIOUS
<1>1. step \in {"idle", "open"} /\ skipped = 0
  BY Zenon DEF Init
<1>2. step # "done" /\ step \notin {"reading", "report"}
  BY <1>1
<1> QED
  BY <1>1, <1>2, Zenon DEF SavedProgress

\* A line of a saved file is read: none is refused, and the next place reached.
LEMMA SavedLine ==
  ASSUME MigrateTypes, SavedProgress, PassOver \/ Skip \/ Import
  PROVE  SavedProgress'
<1>0. PICK s : s = BooksIn(input)
  OBVIOUS
<1>1. /\ input \in Seq(Typed) /\ input' = input /\ step = "reading" /\ step' = "reading"
      /\ unread # <<>> /\ unread' = AfterFgets(unread, LineBuffer)
  BY Zenon DEF MigrateTypes, PassOver, Skip, Import, ReadLine
<1>2. s \in Seq(Book) /\ BooksIn(input') = s
  BY <1>0, <1>1, BooksOf, Zenon
<1>3. SUFFICES ASSUME input = SavedText(s), FitsDatabase(s)
               PROVE  skipped' = 0 /\ InPlace(s)'
  <2>1. step' # "done"
    BY <1>1
  <2> QED
    BY <1>0, <1>1, <1>2, <2>1, Zenon DEF SavedProgress
<1>4. skipped = 0 /\ InPlace(s)
  <2>1. step \in {"reading", "report"}
    BY <1>1
  <2> QED
    BY <1>0, <1>3, <2>1, Zenon DEF SavedProgress
<1>5. CASE unread = SavedText(s) /\ inventory = <<>> /\ imported = 0
  <2>1. ~IsData(Line) /\ unread' = Waiting(EndFrom(LinesFor(s), 0 + 1))
    BY <1>1, <1>2, <1>5, HeaderRead, Zenon
  <2>2. inventory' = inventory /\ imported' = imported /\ skipped' = skipped
    BY <2>1, Zenon DEF PassOver, Skip, Import
  <2>3. Rows(s, 0) = <<>>
    <3>1. 0 \in Nat
      OBVIOUS
    <3> QED
      BY <3>1, RowsGrow, Zenon
  <2>4. 0 \in 0 .. Len(s)
    BY <1>2, LenProperties
  <2>5. ReadUpTo(s, 0)'
    BY <1>2, <1>5, <2>1, <2>2, <2>3, Zenon DEF ReadUpTo
  <2> QED
    BY <1>4, <2>2, <2>4, <2>5, Zenon DEF InPlace
<1>6. ASSUME NEW k \in 0 .. Len(s), ReadUpTo(s, k) PROVE skipped' = 0 /\ InPlace(s)'
  <2>1. k < Len(s)
    <3>1. k # Len(s)
      BY <1>1, <1>2, <1>3, <1>6, BookRead, Zenon
    <3> QED
      BY <1>2, <3>1, LenProperties
  <2>2. /\ IsData(Line) /\ Taken(Line) /\ unread' = Waiting(EndFrom(LinesFor(s), k + 1 + 1))
        /\ Append(inventory, ParsedBook(Line)) = Rows(s, k + 1)
    BY <1>1, <1>2, <1>3, <1>6, <2>1, BookRead, Zenon
  <2>3. inventory' = Append(inventory, ParsedBook(Line)) /\ imported' = imported + 1 /\ skipped' = skipped
    BY <2>2, Zenon DEF PassOver, Skip, Import
  <2>4. imported' = k + 1
    BY <1>6, <2>3, Zenon DEF ReadUpTo
  <2>5. k + 1 \in 0 .. Len(s)
    BY <1>2, <2>1, LenProperties
  <2>6. ReadUpTo(s, k + 1)'
    BY <1>1, <1>2, <2>2, <2>3, <2>4, Zenon DEF ReadUpTo
  <2> QED
    BY <1>1, <1>4, <2>3, <2>5, <2>6, Zenon DEF InPlace
<1> QED
  BY <1>4, <1>5, <1>6, Zenon DEF InPlace

LEMMA SavedStep ==
  /\ FileInvariant /\ MigrateInvariant /\ MigrateTypes /\ SavedProgress
  /\ [Next]_<<fileVars, migrateVars>>
  => SavedProgress'
<1> SUFFICES ASSUME FileInvariant, MigrateInvariant, MigrateTypes, SavedProgress,
                    [Next]_<<fileVars, migrateVars>>
             PROVE  SavedProgress'
  OBVIOUS
<1>1. CASE UNCHANGED migrateVars
  BY <1>1, Zenon DEF migrateVars, SavedProgress, InPlace, ReadUpTo
<1>2. CASE Start \/ OpenInput
  <2>1. step \in {"idle", "open"} /\ skipped' = skipped /\ imported' = imported /\ inventory' = inventory
    BY <1>2 DEF Start, OpenInput, reading
  <2>2. skipped = 0 /\ imported = 0 /\ inventory = <<>>
    BY <2>1, Zenon DEF MigrateInvariant, MigrateTypes
  <2>3. CASE Start
    <3>1. step' # "done" /\ step' \notin {"reading", "report"}
      BY <2>3 DEF Start
    <3> QED
      BY <2>1, <2>2, <3>1, Zenon DEF SavedProgress
  <2>4. CASE OpenInput
    <3>1. step' # "done" /\ unread' = input /\ input' = input
      BY <2>4 DEF OpenInput
    <3> QED
      BY <2>1, <2>2, <3>1, Zenon DEF SavedProgress, InPlace
  <2> QED
    BY <1>2, <2>3, <2>4, Zenon
<1>3. CASE PassOver \/ Skip \/ Import
  BY <1>3, SavedLine, Zenon
<1>4. CASE EndOfInput \/ ReadFails
  <2>1. /\ step = "reading" /\ step' = "report"
        /\ UNCHANGED <<input, unread, inventory, imported, skipped>>
    BY <1>4, Zenon DEF EndOfInput, ReadFails, reading
  <2>2. step' # "done" /\ step \in {"reading", "report"}
    BY <2>1
  <2> QED
    BY <2>1, <2>2, Zenon DEF SavedProgress, InPlace, ReadUpTo
<1>5. ASSUME step' = "done", UNCHANGED <<input, reading>>,
             (db' = db /\ step # "done") \/ (step = "report" /\ db' = inventory)
      PROVE  SavedProgress'
  <2>0. PICK s : s = BooksIn(input)
    OBVIOUS
  <2>1. /\ input \in Seq(Typed) /\ input' = input /\ unread' = unread /\ skipped' = skipped
        /\ readError' = readError /\ step' \notin {"reading", "report"}
    BY <1>5 DEF MigrateTypes, reading
  <2>2. s \in Seq(Book) /\ BooksIn(input') = s
    BY <2>0, <2>1, BooksOf, Zenon
  <2>3. SUFFICES ASSUME input = SavedText(s), FitsDatabase(s)
                 PROVE  skipped' = 0 /\ (db' = OldRows \/ readError' \/ db' = Rows(s, Len(s)))
    BY <2>0, <2>1, <2>2, Zenon DEF SavedProgress
  <2>4. skipped' = 0
    BY <2>0, <2>1, <2>3, Zenon DEF SavedProgress
  <2>5. CASE db' = db /\ step # "done"
    BY <2>4, <2>5, Zenon DEF MigrateTypes
  <2>6. CASE step = "report" /\ db' = inventory
    <3>1. InPlace(s)
      <4>1. step \in {"reading", "report"}
        BY <2>6
      <4> QED
        BY <2>0, <2>3, <4>1, Zenon DEF SavedProgress
    <3>2. unread = <<>> \/ readError
      BY <2>6, Zenon DEF MigrateInvariant, ReadToEnd
    <3>3. CASE unread = <<>>
      <4>1. unread # SavedText(s)
        BY <2>2, <3>3, HeaderRead, Zenon
      <4>2. PICK k \in 0 .. Len(s) : ReadUpTo(s, k)
        BY <3>1, <4>1, Zenon DEF InPlace
      <4>3. k = Len(s)
        BY <2>2, <2>3, <3>3, <4>2, BookRead, Zenon
      <4> QED
        BY <2>4, <2>6, <4>2, <4>3, Zenon DEF ReadUpTo
    <3> QED
      BY <2>1, <2>4, <3>2, <3>3, Zenon
  <2> QED
    BY <1>5, <2>5, <2>6, Zenon
<1>6. CASE OpenFails \/ DryRun \/ Save \/ SaveFails \/ Killed
  <2>1. step' = "done" /\ UNCHANGED <<input, reading>>
    BY <1>6, Zenon DEF OpenFails, DryRun, Save, SaveFails, Killed, ExitWith
  <2>2. (db' = db /\ step # "done") \/ (step = "report" /\ db' = inventory)
    BY <1>6 DEF OpenFails, DryRun, Save, SaveFails, Killed, ExitWith
  <2> QED
    BY <1>5, <2>1, <2>2, Zenon
<1> QED
  BY <1>1, <1>2, <1>3, <1>4, <1>6, Zenon DEF Next, MigrateNext, migrateVars

LEMMA SavedAlways == Spec => [](FileInvariant /\ MigrateInvariant /\ MigrateTypes /\ SavedProgress)
<1>1. Init => MigrateInvariant /\ MigrateTypes /\ SavedProgress
  BY MigrateInit, TypesInit, SavedStarts
<1>2. /\ FileInvariant /\ MigrateInvariant /\ MigrateTypes /\ SavedProgress
      /\ [Next]_<<fileVars, migrateVars>>
      => MigrateInvariant' /\ MigrateTypes' /\ SavedProgress'
  BY MigrateStep, TypesStep, SavedStep
<1> QED
  BY <1>1, <1>2, FileAlways, PTL DEF Spec

\* What inventory_save writes migrate.c reads: a saved file of clean books is
\* migrated without a line refused and without a book changed.
THEOREM SavedFilesMigrate == Spec => []SavedFileMigrates
<1>1. FileInvariant /\ MigrateInvariant /\ MigrateTypes /\ SavedProgress => SavedFileMigrates
  <2> SUFFICES ASSUME MigrateTypes, SavedProgress PROVE SavedFileMigrates
    OBVIOUS
  <2> DEFINE s == BooksIn(input)
  <2>1. s \in Seq(Book)
    BY BooksOf, Zenon DEF MigrateTypes
  <2>2. DOMAIN s = 1 .. Len(s)
    BY <2>1, LenProperties, Zenon
  <2>3. Rows(s, Len(s)) = [i \in DOMAIN s |-> Numbered(i, s[i])]
    BY <2>2, Zenon DEF Rows
  <2> HIDE DEF s
  <2>4. SUFFICES ASSUME input = SavedText(s), Len(s) <= MaxBooks, ~readError,
                        \A i \in DOMAIN s : Clean(s[i]) /\ s[i].year <= MaxYear
                 PROVE  skipped = 0 /\ (Replaced => db = [i \in DOMAIN s |-> Numbered(i, s[i])])
    BY Zenon DEF SavedFileMigrates, s
  <2>5. FitsDatabase(s)
    BY <2>4, Zenon DEF FitsDatabase
  <2>6. skipped = 0 /\ (step = "done" => db = OldRows \/ readError \/ db = Rows(s, Len(s)))
    BY <2>4, <2>5, Zenon DEF SavedProgress, s
  <2> QED
    BY <2>3, <2>4, <2>6, Zenon DEF Replaced
<1> QED
  BY SavedAlways, <1>1, PTL

-------------------------------------------------------------------------------
(* The migration and the load of one file *)

\* A line that both programs read in one piece is the same line to both.
LEMMA SameLine ==
  ASSUME NEW s \in Seq(Typed), s # <<>>, Len(LineOf(s, LineBuffer)) + 2 <= MaxLine
  PROVE  /\ LineOf(s, MaxLine) = LineOf(s, LineBuffer)
         /\ AfterFgets(s, MaxLine) = AfterFgets(s, LineBuffer)
<1> DEFINE n == Len(s)
           newline == SelectInSeq(s, LAMBDA c : c = "nl")
           room(size) == IF n < size - 1 THEN n ELSE size - 1
           taken == FgetsLength(s, LineBuffer)
           last == IF s[taken] = "nl" THEN taken - 1 ELSE taken
           l == LineOf(s, LineBuffer)
<1>1. /\ FgetsLength(s, MaxLine) = IF newline \in 1 .. room(MaxLine) THEN newline ELSE room(MaxLine)
      /\ taken = IF newline \in 1 .. room(LineBuffer) THEN newline ELSE room(LineBuffer)
  BY Zenon DEF FgetsLength
<1>2. l = SubSeq(s, 1, last)
  BY Zenon DEF LineOf
<1>3. Len(l) + 2 <= MaxLine
  BY Zenon
<1> HIDE DEF newline, n, l
<1>4. n \in Nat /\ MaxLine \in Nat /\ LineBuffer \in Nat /\ LineBuffer >= MaxLine /\ MaxLine >= 2
      /\ \A i \in 1 .. n : s[i] \in Typed
  BY BuffersFit, LenProperties, ElementOfSeq DEF n
<1>5. taken \in 1 .. n
  <2>1. LineBuffer >= 2
    BY <1>4
  <2> QED
    BY <1>4, <2>1, FgetsTakes, Zenon DEF n
<1> HIDE DEF taken
<1>6. last \in 0 .. n /\ taken <= last + 1
  BY <1>4, <1>5
<1> HIDE DEF last
<1>7. Len(l) = last
  <2>1. \A i \in 1 .. last : s[i] \in Typed
    BY <1>4, <1>6
  <2> QED
    BY <1>2, <1>6, <2>1, SubSeqProperties
<1>8. taken <= MaxLine - 1
  BY <1>3, <1>4, <1>5, <1>6, <1>7
<1>9. FgetsLength(s, MaxLine) = taken
  BY <1>1, <1>4, <1>5, <1>8
<1> QED
  BY <1>9, Zenon DEF LineOf, AfterFgets, taken

FitsLine(line) == Len(line) + 2 <= MaxLine /\ \A token \in ToSet(Tokens(line)) : Len(token) <= MaxField

\* The lines of the rest are lines of the text.
LEMMA FitsOnward ==
  ASSUME NEW text \in Seq(Typed), text # <<>>, FitsBuffers(text)
  PROVE  FitsLine(LineOf(text, LineBuffer)) /\ FitsBuffers(AfterFgets(text, LineBuffer))
<1> DEFINE rest == AfterFgets(text, LineBuffer)
           l == LineOf(text, LineBuffer)
           all == LinesOf(text)
           others == LinesOf(rest)
           a == <<l>>
<1>0. LineBuffer \in Nat /\ LineBuffer >= 2
  BY BuffersFit
<1>1. rest \in Seq(Typed) /\ l \in Seq(Typed)
  BY <1>0, FgetsTakes, Zenon
<1>2. all = a \o others
  BY LinesOfText, Zenon
<1>3. others \in Seq(Seq(Typed))
  BY <1>1, LinesOfText, Zenon
<1> HIDE DEF l, rest, all, others
<1>4. a \in Seq(Seq(Typed)) /\ Len(a) = 1 /\ a[1] = l
  BY <1>1
<1> HIDE DEF a
<1>5. /\ all \in Seq(Seq(Typed)) /\ Len(all) = Len(a) + Len(others)
      /\ \A i \in 1 .. Len(a) + Len(others) : all[i] = IF i <= Len(a) THEN a[i] ELSE others[i - Len(a)]
  BY <1>2, <1>3, <1>4, ConcatProperties, Zenon
<1>6. Len(others) \in Nat /\ DOMAIN others = 1 .. Len(others) /\ DOMAIN all = 1 .. Len(all)
  BY <1>3, <1>5, LenProperties, Zenon
<1>7. all[1] = l /\ 1 \in DOMAIN all
  <2>1. 1 \in 1 .. 1 + Len(others) /\ 1 <= 1
    BY <1>6
  <2> QED
    BY <1>4, <1>5, <1>6, <2>1, Zenon
<1>8. \A i \in DOMAIN others : i + 1 \in DOMAIN all /\ all[i + 1] = others[i]
  <2>1. \A i \in 1 .. Len(others) : i + 1 \in 1 .. 1 + Len(others) /\ ~(i + 1 <= 1) /\ (i + 1) - 1 = i
    BY <1>6
  <2> QED
    BY <1>4, <1>5, <1>6, <2>1, Zenon
<1>9. \A i \in DOMAIN all : FitsLine(all[i])
  BY Zenon DEF FitsBuffers, FitsLine, ToSet, all
<1>10. \A i \in DOMAIN others : FitsLine(others[i])
  BY <1>8, <1>9, Zenon
<1>11. FitsBuffers(rest)
  BY <1>10, Zenon DEF FitsBuffers, FitsLine, ToSet, others
<1> QED
  BY <1>7, <1>9, <1>11, Zenon DEF l, rest

\* A line that the migration takes a load takes, for the same book.
LEMMA ParsedIsLoaded ==
  ASSUME NEW l \in Seq(Characters), FitsLine(l), IsData(l), Parses(l)
  PROVE  BookOf(l) = <<Tidy(ParsedBook(l))>>
<1> DEFINE t == Tokens(l)
           t1 == t[1]
           t2 == t[2]
           t3 == t[3]
           t4 == t[4]
<1>1. Len(t) >= 4 /\ IsNumber(t4)
  BY Zenon DEF Parses
<1>2. t \in Seq(Seq(Characters)) /\ \A i \in DOMAIN t : Len(t[i]) <= MaxField
  <2>1. t \in Seq(Seq(Characters))
    BY TokensOf, Zenon
  <2> QED
    BY <2>1, Zenon DEF FitsLine, ToSet
<1>3. Loadable(l) /\ BookFrom(l) = [title |-> Cut(Trim(t1)), author |-> Cut(Trim(t2)),
                                    genre |-> Cut(Trim(t3)), year |-> Atoi(Trim(t4))]
  <2>1. Enough(t)
    BY <1>1, Zenon DEF Enough
  <2>2. Loadable(l)
    BY <2>1, Zenon DEF Loadable, Comment, IsData
  <2> QED
    BY <2>1, <2>2, BookFromIs, Zenon
<1> HIDE DEF t
<1>4. /\ t1 \in Seq(Characters) /\ t2 \in Seq(Characters) /\ t3 \in Seq(Characters) /\ t4 \in Seq(Characters)
      /\ Len(t1) <= MaxField /\ Len(t2) <= MaxField /\ Len(t3) <= MaxField
  <2>1. 1 \in 1 .. Len(t) /\ 2 \in 1 .. Len(t) /\ 3 \in 1 .. Len(t) /\ 4 \in 1 .. Len(t)
    BY <1>1, <1>2, LenProperties
  <2>2. DOMAIN t = 1 .. Len(t) /\ \A i \in 1 .. Len(t) : t[i] \in Seq(Characters)
    BY <1>2, LenProperties, ElementOfSeq
  <2> QED
    BY <1>2, <2>1, <2>2, Zenon
<1> HIDE DEF t1, t2, t3, t4
<1>5. ASSUME NEW u \in Seq(Characters), Len(u) <= MaxField
      PROVE  Cut(u) = u /\ Cut(Trim(u)) = Trim(u)
  <2> DEFINE v == Trim(u)
  <2>1. v \in Seq(Characters) /\ Len(v) <= Len(u)
    BY TrimType, Zenon
  <2> HIDE DEF v
  <2>2. Len(v) <= MaxField
    <3>1. Len(v) \in Nat /\ Len(u) \in Nat
      BY <2>1, LenProperties
    <3> QED
      BY <1>5, <2>1, <3>1, BuffersFit
  <2>3. Cut(v) = v /\ Cut(u) = u
    BY <1>5, <2>1, <2>2, CutIs, Zenon
  <2> QED
    BY <2>3, Zenon DEF v
<1>6. ValueOfNumber(t4) = Atoi(Trim(t4))
  BY <1>1, <1>4, NumberIs, Zenon
<1>7. ParsedBook(l) = [id |-> NextNumber, title |-> t1, author |-> t2, genre |-> t3, year |-> ValueOfNumber(t4)]
  <2>1. Cut(t1) = t1 /\ Cut(t2) = t2 /\ Cut(t3) = t3
    BY <1>4, <1>5, Zenon
  <2> QED
    BY <2>1, Zenon DEF ParsedBook, t, t1, t2, t3, t4
<1>8. Tidy(ParsedBook(l)) = [title |-> Trim(t1), author |-> Trim(t2), genre |-> Trim(t3), year |-> ValueOfNumber(t4)]
  <2> DEFINE p == ParsedBook(l)
             n == NextNumber
             y == ValueOfNumber(t4)
  <2>1. p = [id |-> n, title |-> t1, author |-> t2, genre |-> t3, year |-> y]
    BY <1>7, Zenon
  <2> HIDE DEF p, n, y
  <2>2. p.title = t1 /\ p.author = t2 /\ p.genre = t3 /\ p.year = y
    BY <2>1
  <2>3. Tidy(p) = [title |-> Trim(p.title), author |-> Trim(p.author), genre |-> Trim(p.genre), year |-> p.year]
    BY Zenon DEF Tidy
  <2> QED
    BY <2>2, <2>3, Zenon DEF p, y
<1>9. BookFrom(l) = Tidy(ParsedBook(l))
  <2>1. Cut(Trim(t1)) = Trim(t1) /\ Cut(Trim(t2)) = Trim(t2) /\ Cut(Trim(t3)) = Trim(t3)
    BY <1>4, <1>5, Zenon
  <2>2. BookFrom(l) = [title |-> Trim(t1), author |-> Trim(t2), genre |-> Trim(t3), year |-> Atoi(Trim(t4))]
    BY <1>3, <2>1, Zenon
  <2> QED
    BY <1>6, <1>8, <2>2, Zenon
<1> QED
  BY <1>3, <1>9, Zenon DEF BookOf

\* The places of a sequence where it is what it was.
LEMMA FoundSame ==
  ASSUME NEW P, NEW s, NEW u, NEW t, \A i \in P : s[i] = u[i], FoundIn(P, s, t)
  PROVE  FoundIn(P, u, t)
BY Zenon DEF FoundIn

Tidied(rows) == [i \in DOMAIN rows |-> Tidy(rows[i])]
Consecutive(rows) == \A i \in DOMAIN rows : rows[i].id = i

\* Books found among few enough are found in what fits of them, and of more: with
\* k others between them at most, the i-th has a place of i + k or less.
Early(n, k) == {i \in 1 .. n : i + k <= MaxBooks}

LEMMA FoundEarly ==
  ASSUME NEW S, NEW s, NEW x \in Seq(S), NEW y \in Seq(S), NEW n \in Nat, NEW k \in Nat,
         FoundIn(1 .. n, s, x), Len(x) <= n + k
  PROVE  FoundIn(Early(n, k), s, Fitting(x \o y))
<1> DEFINE m == Len(x)
           z == x \o y
           w == Fitting(z)
           P == Early(n, k)
<1>1. m \in Nat /\ DOMAIN x = 1 .. m /\ m <= n + k /\ MaxBooks \in Nat /\ Len(y) \in Nat
  BY LenProperties, TextFileAssumption
<1>2. PICK f \in [1 .. n -> 1 .. m] :
        (\A i \in 1 .. n : x[f[i]] = s[i]) /\ \A i, j \in 1 .. n : i < j => f[i] < f[j]
  BY <1>1, Zenon DEF FoundIn
<1>3. /\ z \in Seq(S) /\ Len(z) = m + Len(y)
      /\ \A i \in 1 .. m + Len(y) : z[i] = IF i <= m THEN x[i] ELSE y[i - m]
  BY ConcatProperties, Zenon
<1> HIDE DEF m, z
<1>4. /\ w \in Seq(S) /\ Len(w) = IF Len(z) > MaxBooks THEN MaxBooks ELSE Len(z)
      /\ \A i \in 1 .. Len(w) : w[i] = z[i]
  BY <1>3, FittingIs, Zenon
<1> HIDE DEF w
<1>5. DOMAIN w = 1 .. Len(w)
  BY <1>4, LenProperties, Zenon
<1>6. \A i \in 1 .. n : f[i] \in 1 .. m
  BY <1>2, Zenon
<1> DEFINE U == {d \in Nat : \A i \in 1 .. n : n - i <= d => f[i] <= i + k}
<1>7. 0 \in U
  BY <1>1, <1>6
<1>8. ASSUME NEW d \in U PROVE d + 1 \in U
  <2>1. d \in Nat /\ d + 1 \in Nat /\ \A i \in 1 .. n : n - i <= d => f[i] <= i + k
    OBVIOUS
  <2>2. ASSUME NEW i \in 1 .. n, n - i <= d + 1 PROVE f[i] <= i + k
    <3>1. CASE n - i <= d
      BY <2>1, <3>1
    <3>2. CASE i = n
      BY <2>1, <3>2
    <3>3. CASE ~(n - i <= d) /\ i # n
      <4> DEFINE j == i + 1
      <4>1. j \in 1 .. n /\ n - j <= d /\ i < j /\ j = i + 1
        BY <2>1, <2>2, <3>3
      <4> HIDE DEF j
      <4>2. f[i] < f[j] /\ f[j] <= j + k /\ f[i] \in 1 .. m /\ f[j] \in 1 .. m
        BY <1>2, <1>6, <2>1, <4>1, Zenon
      <4> QED
        BY <1>1, <4>1, <4>2
    <3> QED
      BY <3>1, <3>2, <3>3, Zenon
  <2> QED
    BY <2>1, <2>2, Zenon
<1>9. U = Nat
  <2>1. U \in SUBSET Nat
    OBVIOUS
  <2> HIDE DEF U
  <2> QED
    BY <1>7, <1>8, <2>1, Induction, Zenon
<1>10. ASSUME NEW i \in 1 .. n PROVE f[i] <= i + k
  <2>1. n - i \in Nat /\ n - i <= n - i
    OBVIOUS
  <2>2. \A d \in U : n - i <= d => f[i] <= i + k
    BY Zenon
  <2> HIDE DEF U
  <2> QED
    BY <1>9, <2>1, <2>2, Zenon
<1>11. ASSUME NEW i \in P PROVE i \in 1 .. n /\ f[i] \in DOMAIN w /\ w[f[i]] = s[i]
  <2>1. i \in 1 .. n /\ i + k <= MaxBooks
    BY Zenon DEF Early
  <2> DEFINE c == f[i]
  <2>2. c \in 1 .. m /\ c <= i + k /\ x[c] = s[i]
    BY <1>2, <1>6, <1>10, <2>1, Zenon
  <2> HIDE DEF c
  <2>3. c \in 1 .. Len(w) /\ c \in 1 .. m + Len(y) /\ c <= m
    BY <1>1, <1>3, <1>4, <2>1, <2>2
  <2>4. w[c] = z[c] /\ z[c] = x[c]
    BY <1>3, <1>4, <2>3, Zenon
  <2> QED
    BY <1>5, <2>1, <2>2, <2>3, <2>4, Zenon DEF c
<1> DEFINE at == [i \in P |-> f[i]]
<1>12. at \in [P -> DOMAIN w] /\ \A i \in P : at[i] = f[i]
  BY <1>11, Zenon
<1> HIDE DEF at, P
<1>13. /\ \A i \in P : w[at[i]] = s[i]
       /\ \A i, j \in P : i < j => at[i] < at[j]
  BY <1>2, <1>11, <1>12, Zenon
<1>14. FoundIn(P, s, w)
  BY <1>12, <1>13, Zenon DEF FoundIn
<1> QED
  BY <1>14, Zenon DEF P, w, z

\* What is in the inventory is found among the books of the lines read, unless a
\* line does not fit: one book for each line counted, at most.
ReadIsLoaded ==
  FitsBuffers(input) =>
    /\ FitsBuffers(unread)
    /\ \E x \in Seq(Book) : /\ BooksIn(input) = x \o BooksIn(unread)
                            /\ FoundIn(DOMAIN inventory, Tidied(inventory), x)
                            /\ Len(x) <= imported + skipped

\* The rows are found in the books of the file, and in a load of it.
IsLoaded(rows) ==
  /\ FoundIn(DOMAIN rows, Tidied(rows), BooksIn(input))
  /\ FoundIn({i \in DOMAIN rows : i + skipped <= MaxBooks}, Tidied(rows), Loaded(input))

LoadedProgress ==
  /\ Consecutive(inventory)
  /\ step \in {"reading", "report"} => ReadIsLoaded
  /\ step = "done" =>
       \/ db = OldRows
       \/ /\ Consecutive(db)
          /\ FitsBuffers(input) => IsLoaded(db)

\* A row more.
LEMMA RowAdded ==
  ASSUME NEW rows, IsText(rows), NEW e
  PROVE  /\ DOMAIN rows = 1 .. Len(rows) /\ Len(rows) \in Nat
         /\ DOMAIN Append(rows, e) = DOMAIN rows \cup {Len(rows) + 1}
         /\ Append(rows, e)[Len(rows) + 1] = e
         /\ \A i \in DOMAIN rows : Append(rows, e)[i] = rows[i]
<1> DEFINE S == ToSet(rows) \cup {e}
           a == Append(rows, e)
           n == Len(rows)
<1>1. rows \in Seq(S) /\ e \in S
  BY SeqMonotonic DEF IsText
<1> HIDE DEF S
<1>2. /\ a \in Seq(S) /\ Len(a) = n + 1 /\ a[n + 1] = e
      /\ \A i \in 1 .. n : a[i] = rows[i]
  BY <1>1, AppendProperties
<1>3. n \in Nat /\ DOMAIN rows = 1 .. n
  BY <1>1, LenProperties
<1> HIDE DEF n, a
<1>4. DOMAIN a = 1 .. n + 1
  BY <1>2, LenProperties
<1>5. 1 .. n + 1 = (1 .. n) \cup {n + 1}
  BY <1>3
<1> QED
  BY <1>2, <1>3, <1>4, <1>5, Zenon DEF n, a

LEMMA LoadedStarts == Init => LoadedProgress
<1> SUFFICES ASSUME Init PROVE LoadedProgress
  OBVIOUS
<1>1. step \in {"idle", "open"} /\ inventory = <<>>
  BY Zenon DEF Init
<1>2. step # "done" /\ step \notin {"reading", "report"} /\ DOMAIN inventory = {}
  BY <1>1
<1> QED
  BY <1>2, Zenon DEF LoadedProgress, Consecutive

\* A line is read: the load of the file reads it next too, and takes what the
\* migration takes.
LEMMA LoadedLine ==
  ASSUME MigrateInvariant, MigrateTypes, LoadedProgress, PassOver \/ Skip \/ Import
  PROVE  LoadedProgress'
<1>0. PICK l : l = Line
  OBVIOUS
<1>1. /\ input' = input /\ step = "reading" /\ step' = "reading" /\ unread \in Seq(Typed)
      /\ unread # <<>> /\ unread' = AfterFgets(unread, LineBuffer)
  BY Zenon DEF MigrateTypes, PassOver, Skip, Import, ReadLine
<1>2. IsText(inventory) /\ Len(inventory) = imported /\ imported \in Nat
  BY Zenon DEF MigrateInvariant
<1>3. \/ inventory' = inventory
      \/ inventory' = Append(inventory, ParsedBook(l)) /\ IsData(l) /\ Parses(l)
  BY <1>0, Zenon DEF PassOver, Skip, Import, Taken
<1>4. DOMAIN inventory = 1 .. imported
  BY <1>2, RowAdded, Zenon
<1>5. ASSUME inventory' = Append(inventory, ParsedBook(l))
      PROVE  /\ DOMAIN inventory' = DOMAIN inventory \cup {imported + 1}
             /\ inventory'[imported + 1] = ParsedBook(l)
             /\ \A i \in DOMAIN inventory : inventory'[i] = inventory[i]
  <2> DEFINE e == ParsedBook(l)
             a == Append(inventory, e)
  <2>1. /\ DOMAIN a = DOMAIN inventory \cup {Len(inventory) + 1} /\ a[Len(inventory) + 1] = e
        /\ \A i \in DOMAIN inventory : a[i] = inventory[i]
    <3>1. IsText(inventory)
      BY <1>2, Zenon
    <3> HIDE DEF e
    <3> QED
      BY <3>1, RowAdded, ZenonT(30)
  <2>2. inventory' = a
    BY <1>5, Zenon
  <2>3. Len(inventory) = imported
    BY <1>2, Zenon
  <2> HIDE DEF a, e
  <2>4. DOMAIN inventory' = DOMAIN inventory \cup {imported + 1} /\ inventory'[imported + 1] = e
    BY <2>1, <2>2, <2>3
  <2>5. \A i \in DOMAIN inventory : inventory'[i] = inventory[i]
    BY <2>1, <2>2, Zenon
  <2> QED
    BY <2>4, <2>5, Zenon DEF e
<1>6. Consecutive(inventory')
  <2>1. CASE inventory' = inventory
    BY <2>1, Zenon DEF LoadedProgress, Consecutive
  <2>2. CASE inventory' = Append(inventory, ParsedBook(l))
    <3>1. ParsedBook(l).id = imported + 1
      <4> DEFINE a == Cut(Tokens(l)[1])
                 b == Cut(Tokens(l)[2])
                 c == Cut(Tokens(l)[3])
                 y == ValueOfNumber(Tokens(l)[4])
                 n == NextNumber
      <4>1. ParsedBook(l) = [id |-> n, title |-> a, author |-> b, genre |-> c, year |-> y]
        BY Zenon DEF ParsedBook
      <4>2. n = imported + 1
        BY Zenon DEF NextNumber
      <4> HIDE DEF a, b, c, y, n
      <4>3. ParsedBook(l).id = n
        BY <4>1
      <4> QED
        BY <4>2, <4>3, Zenon
    <3> QED
      BY <1>5, <2>2, <3>1, Zenon DEF LoadedProgress, Consecutive
  <2> QED
    BY <1>3, <2>1, <2>2, Zenon
<1>7. step' # "done" /\ step \in {"reading", "report"}
  BY <1>1
<1>8. SUFFICES ASSUME FitsBuffers(input)
               PROVE  /\ FitsBuffers(unread')
                      /\ \E x \in Seq(Book) :
                           /\ BooksIn(input) = x \o BooksIn(unread')
                           /\ FoundIn(DOMAIN inventory', Tidied(inventory'), x)
                           /\ Len(x) <= imported' + skipped'
  BY <1>1, <1>6, <1>7, Zenon DEF LoadedProgress, ReadIsLoaded
<1>9. FitsBuffers(unread)
  BY <1>7, <1>8, Zenon DEF LoadedProgress, ReadIsLoaded
<1>10. PICK x \in Seq(Book) : /\ BooksIn(input) = x \o BooksIn(unread)
                              /\ FoundIn(DOMAIN inventory, Tidied(inventory), x)
                              /\ Len(x) <= imported + skipped
  BY <1>7, <1>8, Zenon DEF LoadedProgress, ReadIsLoaded
<1>11. FitsLine(l) /\ FitsBuffers(unread')
  BY <1>0, <1>1, <1>9, FitsOnward, Zenon DEF Line
<1>12. l \in Seq(Characters) /\ unread' \in Seq(Typed)
  <2>1. LineBuffer \in Nat /\ LineBuffer >= 2
    BY BuffersFit
  <2> QED
    BY <1>0, <1>1, <2>1, LineOfType, FgetsTakes, Zenon DEF Line
<1> DEFINE later == BooksIn(unread')
           b == BookOf(l)
<1>13. BooksIn(unread) = b \o later
  <2>1. LineOf(unread, MaxLine) = l /\ AfterFgets(unread, MaxLine) = unread'
    BY <1>0, <1>1, <1>11, SameLine, Zenon DEF FitsLine, Line
  <2> QED
    BY <1>1, <2>1, BooksOf, Zenon
<1>14. later \in Seq(Book) /\ b \in Seq(Book)
  BY <1>12, BooksOf, BookOfType, Zenon
<1> HIDE DEF later, b
<1>15. BooksIn(input) = (x \o b) \o later /\ x \o b \in Seq(Book)
  <2>1. JoinsEitherWay(x, b, later)
    BY <1>14, JoinEitherWay, Zenon
  <2>2. BooksIn(input) = x \o (b \o later)
    BY <1>10, <1>13, Zenon
  <2>3. x \o b \in Seq(Book)
    BY <1>14, ConcatProperties, Zenon
  <2> QED
    BY <2>1, <2>2, <2>3, Zenon DEF JoinsEitherWay
<1>16. FoundIn(DOMAIN inventory', Tidied(inventory'), x \o b)
  <2> DEFINE P == DOMAIN inventory
             u == Tidied(inventory')
             k == imported + 1
  <2>1. P \subseteq Nat /\ k \in Nat /\ \A p \in P, q \in {k} : p < q
    BY <1>2, <1>4
  <2>2. CASE inventory' = inventory
    <3>1. FoundIn(P, u, x)
      BY <1>10, <2>2, Zenon
    <3>2. FoundIn({}, u, b) /\ {} \subseteq Nat /\ \A p \in P, q \in {} : p < q
      BY NothingFound, Zenon
    <3> HIDE DEF u
    <3>3. FoundIn(P \cup {}, u, x \o b)
      <4> HIDE DEF P
      <4> QED
        BY <1>14, <2>1, <3>1, <3>2, FoundJoin, Zenon
    <3>4. P \cup {} = DOMAIN inventory'
      BY <2>2, Zenon
    <3> QED
      BY <3>3, <3>4, Zenon DEF u
  <2>3. CASE inventory' # inventory
    <3>1. inventory' = Append(inventory, ParsedBook(l)) /\ IsData(l) /\ Parses(l)
      BY <1>3, <2>3, Zenon
    <3>2. /\ DOMAIN inventory' = P \cup {k} /\ inventory'[k] = ParsedBook(l)
          /\ \A i \in P : inventory'[i] = inventory[i]
      BY <1>5, <3>1, Zenon
    <3>3. \A i \in P \cup {k} : u[i] = Tidy(inventory'[i])
      BY <3>2, Zenon DEF Tidied
    <3>4. \A i \in P : Tidied(inventory)[i] = u[i]
      BY <3>2, <3>3, Zenon DEF Tidied
    <3>5. u[k] = Tidy(ParsedBook(l))
      BY <3>2, <3>3, Zenon
    <3> HIDE DEF u, P, k
    <3>6. FoundIn(P, u, x)
      BY <1>10, <3>4, FoundSame, Zenon DEF P
    <3>7. b = <<u[k]>>
      BY <1>11, <1>12, <3>1, <3>5, ParsedIsLoaded, Zenon DEF b
    <3>8. Len(<<u[k]>>) = 1 /\ DOMAIN <<u[k]>> = 1 .. 1 /\ <<u[k]>>[1] = u[k]
      OBVIOUS
    <3>9. FoundIn({k}, u, b)
      BY <2>1, <3>7, <3>8, OneFound, Zenon
    <3>10. k \in Nat /\ {k} \subseteq Nat
      BY <2>1, Zenon
    <3>11. FoundIn(P \cup {k}, u, x \o b)
      BY <1>14, <2>1, <3>6, <3>9, <3>10, FoundJoin, Zenon
    <3> QED
      BY <3>2, <3>11, Zenon DEF u
  <2> QED
    BY <2>2, <2>3, Zenon
<1>17. Len(x \o b) <= imported' + skipped'
  <2> DEFINE p == Len(x)
             q == Len(b)
             r == Len(x \o b)
  <2>1. r = p + q /\ p \in Nat
    BY <1>14, ConcatProperties, LenProperties, Zenon
  <2>2. q \in 0 .. 1 /\ (~IsData(l) => q = 0)
    <3>1. ~IsData(l) => ~Loadable(l)
      BY Zenon DEF IsData, Loadable, Comment
    <3>2. ~IsData(l) => b = <<>>
      BY <3>1, Zenon DEF b, BookOf
    <3>3. Len(<<>>) = 0
      OBVIOUS
    <3> QED
      BY <3>2, <3>3, BookOfLength, Zenon DEF b
  <2>3. p <= imported + skipped /\ imported \in Nat /\ skipped \in Nat
    BY <1>10, Zenon DEF MigrateInvariant
  <2>4. \/ ~IsData(l) /\ imported' = imported /\ skipped' = skipped
        \/ imported' = imported /\ skipped' = skipped + 1
        \/ imported' = imported + 1 /\ skipped' = skipped
    BY <1>0, Zenon DEF PassOver, Skip, Import
  <2> HIDE DEF p, q, r
  <2>5. r <= imported' + skipped'
    BY <2>1, <2>2, <2>3, <2>4
  <2> QED
    BY <2>5, Zenon DEF r
<1> QED
  BY <1>11, <1>15, <1>16, <1>17, Zenon DEF later

LEMMA LoadedStep ==
  /\ FileInvariant /\ MigrateInvariant /\ MigrateTypes /\ LoadedProgress
  /\ [Next]_<<fileVars, migrateVars>>
  => LoadedProgress'
<1> SUFFICES ASSUME FileInvariant, MigrateInvariant, MigrateTypes, LoadedProgress,
                    [Next]_<<fileVars, migrateVars>>
             PROVE  LoadedProgress'
  OBVIOUS
<1>1. CASE UNCHANGED migrateVars
  BY <1>1, Zenon DEF migrateVars, LoadedProgress, ReadIsLoaded, IsLoaded
<1>2. CASE Start
  <2>1. inventory' = inventory /\ step' # "done" /\ step' \notin {"reading", "report"}
    BY <1>2 DEF Start, reading
  <2> QED
    BY <2>1, Zenon DEF LoadedProgress
<1>3. CASE OpenInput
  <2>1. /\ inventory' = inventory /\ step' # "done" /\ step = "open" /\ input' = input
        /\ unread' = input /\ imported' = imported /\ skipped' = skipped
    BY <1>3 DEF OpenInput
  <2>2. inventory = <<>> /\ input \in Seq(Typed)
    BY <2>1 DEF MigrateTypes
  <2>3. DOMAIN inventory = {}
    BY <2>2
  <2>4. BooksIn(input) = <<>> \o BooksIn(input) /\ <<>> \in Seq(Book)
    <3>1. BooksIn(input) \in Seq(Book)
      BY <2>2, BooksOf, Zenon
    <3> QED
      BY <3>1, ConcatEmptySeq, EmptySeq, Zenon
  <2>5. FoundIn({}, Tidied(inventory), <<>>)
    BY NothingFound, Zenon
  <2>6. Len(<<>>) <= imported + skipped
    <3>1. imported = 0 /\ skipped = 0
      BY <2>1 DEF MigrateInvariant
    <3> QED
      BY <3>1
  <2> QED
    BY <2>1, <2>3, <2>4, <2>5, <2>6, Zenon DEF LoadedProgress, ReadIsLoaded
<1>4. CASE PassOver \/ Skip \/ Import
  BY <1>4, LoadedLine, Zenon
<1>5. CASE EndOfInput \/ ReadFails
  <2>1. /\ step = "reading" /\ step' = "report"
        /\ UNCHANGED <<input, unread, inventory, imported, skipped>>
    BY <1>5, Zenon DEF EndOfInput, ReadFails, reading
  <2>2. step' # "done" /\ step \in {"reading", "report"}
    BY <2>1
  <2> QED
    BY <2>1, <2>2, Zenon DEF LoadedProgress, ReadIsLoaded
<1>6. ASSUME step' = "done", UNCHANGED <<input, reading>>, db' = db, step # "done"
      PROVE  LoadedProgress'
  <2>1. step' \notin {"reading", "report"} /\ inventory' = inventory /\ db' = OldRows
    BY <1>6 DEF MigrateTypes, reading
  <2> QED
    BY <2>1, Zenon DEF LoadedProgress
<1>7. CASE Save
  <2>1. /\ step = "report" /\ step' = "done" /\ db' = inventory /\ inventory' = inventory
        /\ unread' = unread /\ input' = input /\ skipped' = skipped
    BY <1>7, Zenon DEF Save, ExitWith, reading
  <2>2. step \in {"reading", "report"} /\ step' \notin {"reading", "report"}
    BY <2>1
  <2>3. ASSUME FitsBuffers(input)
        PROVE  IsLoaded(inventory)
    <3>1. PICK x \in Seq(Book) : /\ BooksIn(input) = x \o BooksIn(unread)
                                 /\ FoundIn(DOMAIN inventory, Tidied(inventory), x)
                                 /\ Len(x) <= imported + skipped
      BY <2>2, <2>3, Zenon DEF LoadedProgress, ReadIsLoaded
    <3> DEFINE y == BooksIn(unread)
               P == DOMAIN inventory
               s == Tidied(inventory)
    <3>2. y \in Seq(Book)
      BY BooksOf, Zenon DEF MigrateTypes
    <3>3. P \subseteq Nat /\ P = 1 .. imported /\ imported \in Nat /\ skipped \in Nat
      <4>1. P = 1 .. imported /\ imported \in Nat /\ skipped \in Nat
        BY RowAdded, Zenon DEF MigrateInvariant
      <4> QED
        BY <4>1
    <3> HIDE DEF y, P, s
    <3>4. FoundIn({}, s, y) /\ {} \subseteq Nat /\ \A p \in P, q \in {} : p < q
      BY NothingFound, Zenon
    <3>5. FoundIn(P, s, x)
      BY <3>1, Zenon DEF P, s
    <3>6. FoundIn(P \cup {}, s, x \o y)
      BY <3>2, <3>3, <3>4, <3>5, FoundJoin, Zenon
    <3>7. P \cup {} = P
      BY Zenon
    <3>8. FoundIn(P, s, BooksIn(input))
      BY <3>1, <3>6, <3>7, Zenon DEF y
    <3>9. FoundIn(Early(imported, skipped), s, Fitting(x \o y))
      BY <3>1, <3>2, <3>3, <3>5, FoundEarly, Zenon
    <3>10. Fitting(x \o y) = Loaded(input)
      BY <3>1, Zenon DEF y, Loaded
    <3>11. Early(imported, skipped) = {i \in DOMAIN inventory : i + skipped <= MaxBooks}
      BY <3>3, Zenon DEF Early, P
    <3> QED
      BY <3>8, <3>9, <3>10, <3>11, Zenon DEF P, s, IsLoaded
  <2> QED
    BY <2>1, <2>2, <2>3, Zenon DEF LoadedProgress, IsLoaded
<1>8. CASE OpenFails \/ DryRun \/ SaveFails \/ Killed
  <2>1. step' = "done" /\ UNCHANGED <<input, reading>> /\ db' = db /\ step # "done"
    BY <1>8 DEF OpenFails, DryRun, SaveFails, Killed, ExitWith
  <2> QED
    BY <1>6, <2>1, Zenon
<1> QED
  BY <1>1, <1>2, <1>3, <1>4, <1>5, <1>7, <1>8, Zenon DEF Next, MigrateNext, migrateVars

\* What migrate.c takes from a file are books that inventory_load makes of its
\* lines, the same but for white space, in their order, and numbered without a
\* gap. A load of the whole file takes them too, up to as many before the end of
\* its array as lines were refused.
THEOREM MigrationTakesWhatLoads == Spec => []MigratesWhatLoads
<1>1. Init => LoadedProgress
  BY LoadedStarts
<1>2. LoadedProgress => MigratesWhatLoads
  BY Zenon DEF LoadedProgress, Consecutive, Tidied, IsLoaded, MigratesWhatLoads, Replaced
<1> QED
  BY SavedAlways, <1>1, LoadedStep, <1>2, PTL DEF Spec

-------------------------------------------------------------------------------
(* Digits that are lost *)

LEMMA DecimalAgrees ==
  ASSUME NEW n \in Nat, NEW f, IsDecimal(f, n), NEW m \in Nat, NEW g, IsDecimal(g, m)
  PROVE  \A k \in 0 .. n : k <= m => f[k] = g[k]
<1> DEFINE U == {j \in Nat : \A k \in 0 .. n : k <= j /\ k <= m => f[k] = g[k]}
<1>1. f = [k \in 0 .. n |-> IF k < 10 THEN <<DigitFor[k + 1]>>
                            ELSE Append(f[k \div 10], DigitFor[(k % 10) + 1])]
  BY Zenon DEF IsDecimal
<1>2. g = [k \in 0 .. m |-> IF k < 10 THEN <<DigitFor[k + 1]>>
                            ELSE Append(g[k \div 10], DigitFor[(k % 10) + 1])]
  BY Zenon DEF IsDecimal
<1>3. ASSUME NEW k \in 0 .. n, k <= m, k < 10 PROVE f[k] = g[k]
  <2>1. k \in 0 .. m
    BY <1>3, SMT
  <2>2. f[k] = <<DigitFor[k + 1]>>
    BY <1>1, <1>3, Zenon
  <2>3. g[k] = <<DigitFor[k + 1]>>
    BY <1>2, <1>3, <2>1, Zenon
  <2> QED
    BY <2>2, <2>3, Zenon
<1>4. ASSUME NEW k \in 0 .. n, k <= m, ~(k < 10), f[k \div 10] = g[k \div 10] PROVE f[k] = g[k]
  <2>1. k \in 0 .. m
    BY <1>4, SMT
  <2>2. f[k] = Append(f[k \div 10], DigitFor[(k % 10) + 1])
    BY <1>1, <1>4, Zenon
  <2>3. g[k] = Append(g[k \div 10], DigitFor[(k % 10) + 1])
    BY <1>2, <1>4, <2>1, Zenon
  <2> QED
    BY <1>4, <2>2, <2>3, Zenon
<1>5. 0 \in U
  <2>1. \A k \in 0 .. n : k <= 0 => k < 10
    OBVIOUS
  <2> QED
    BY <1>3, <2>1
<1>6. ASSUME NEW j \in U PROVE j + 1 \in U
  <2>1. j \in Nat /\ \A k \in 0 .. n : k <= j /\ k <= m => f[k] = g[k]
    BY Zenon DEF U
  <2>2. ASSUME NEW k \in 0 .. n, k <= j + 1, k <= m PROVE f[k] = g[k]
    <3>1. CASE k < 10
      BY <1>3, <2>2, <3>1, Zenon
    <3>2. CASE ~(k < 10)
      <4> DEFINE q == k \div 10
      <4>1. k \in Nat /\ k >= 10
        BY <3>2
      <4>2. q \in Nat /\ q < k
        BY <4>1, TenthIsLess, Zenon
      <4> HIDE DEF q
      <4>3. q \in 0 .. n /\ q <= j /\ q <= m
        BY <2>1, <2>2, <4>1, <4>2
      <4>4. f[q] = g[q]
        BY <2>1, <4>3, Zenon
      <4> QED
        BY <1>4, <2>2, <3>2, <4>4, Zenon DEF q
    <3> QED
      BY <3>1, <3>2
  <2>3. j + 1 \in Nat
    BY <2>1
  <2> QED
    BY <2>2, <2>3, Zenon DEF U
<1>7. U = Nat
  <2>1. U \in SUBSET Nat
    OBVIOUS
  <2> HIDE DEF U
  <2> QED
    BY <1>5, <1>6, <2>1, Induction, Zenon
<1>8. ASSUME NEW k \in 0 .. n, k <= m PROVE f[k] = g[k]
  <2>1. k \in Nat /\ k <= k
    OBVIOUS
  <2>2. k \in U
    BY <1>7, <2>1, Zenon
  <2> QED
    BY <1>8, <2>1, <2>2, Zenon DEF U
<1> QED
  BY <1>8, Zenon

\* The digits of a number of more than one digit are those of its tenth and the
\* last one.
LEMMA DecimalAppend ==
  ASSUME NEW v \in Nat, v # 0, NEW e \in 0 .. 9
  PROVE  Decimal(10 * v + e) = Append(Decimal(v), DigitFor[e + 1])
<1> DEFINE n == 10 * v + e
           F == CHOOSE f : f = [k \in 0 .. n |->
                                 IF k < 10 THEN <<DigitFor[k + 1]>>
                                 ELSE Append(f[k \div 10], DigitFor[(k % 10) + 1])]
           G == CHOOSE f : f = [k \in 0 .. v |->
                                 IF k < 10 THEN <<DigitFor[k + 1]>>
                                 ELSE Append(f[k \div 10], DigitFor[(k % 10) + 1])]
<1>1. Decimal(n) = F[n] /\ Decimal(v) = G[v]
  BY Zenon DEF Decimal
<1>2. n \in Nat /\ n \in 0 .. n /\ ~(n < 10) /\ n \div 10 = v /\ n % 10 = e
      /\ v \in 0 .. n /\ v <= v
  OBVIOUS
<1> HIDE DEF n
<1>3. IsDecimal(F, n) /\ IsDecimal(G, v)
  BY <1>2, DecimalExists, Zenon DEF IsDecimal
<1> HIDE DEF F, G
<1>4. F[n] = Append(F[n \div 10], DigitFor[(n % 10) + 1])
  BY <1>2, <1>3, Zenon DEF IsDecimal
<1>5. F[v] = G[v]
  <2>1. v \in 0 .. v /\ v <= n
    BY <1>2
  <2>2. IsDecimal(F, n) /\ IsDecimal(G, v) /\ n \in Nat
    BY <1>2, <1>3, Zenon
  <2>3. \A k \in 0 .. v : k <= n => G[k] = F[k]
    BY <2>2, DecimalAgrees
  <2> QED
    BY <2>1, <2>3, Zenon
<1>6. F[n] = Append(F[v], DigitFor[e + 1])
  BY <1>2, <1>4, Zenon
<1>7. Decimal(n) = Append(Decimal(v), DigitFor[e + 1])
  BY <1>1, <1>5, <1>6, Zenon
<1> QED
  BY <1>7, Zenon DEF n

-------------------------------------------------------------------------------
(* Fronts of a text *)

IsFront(u, v) == Len(u) <= Len(v) /\ \A i \in 1 .. Len(u) : u[i] = v[i]

LEMMA FrontPart ==
  ASSUME NEW S, NEW s \in Seq(S), NEW n \in 0 .. Len(s)
  PROVE  /\ SubSeq(s, 1, n) \in Seq(S) /\ Len(SubSeq(s, 1, n)) = n
         /\ \A i \in 1 .. n : SubSeq(s, 1, n)[i] = s[i]
<1> DEFINE u == SubSeq(s, 1, n)
<1>1. n \in Nat /\ Len(s) \in Nat /\ \A i \in 1 .. n : s[i] \in S
  BY LenProperties, ElementOfSeq
<1>2. u \in Seq(S) /\ Len(u) = (IF 1 <= n THEN n - 1 + 1 ELSE 0)
      /\ \A i \in 1 .. n - 1 + 1 : u[i] = s[1 + i - 1]
  BY <1>1, SubSeqProperties
<1> HIDE DEF u
<1>3. Len(u) = n
  BY <1>1, <1>2
<1>4. \A i \in 1 .. n : i \in 1 .. n - 1 + 1 /\ 1 + i - 1 = i
  BY <1>1
<1>5. \A i \in 1 .. n : u[i] = s[i]
  BY <1>2, <1>4, Zenon
<1> QED
  BY <1>2, <1>3, <1>5, Zenon DEF u

LEMMA SameFront ==
  ASSUME NEW S, NEW s \in Seq(S), NEW t \in Seq(S), NEW n \in 0 .. Len(s), n \in 0 .. Len(t),
         \A i \in 1 .. n : s[i] = t[i]
  PROVE  SubSeq(s, 1, n) = SubSeq(t, 1, n)
<1> DEFINE u == SubSeq(s, 1, n)
           v == SubSeq(t, 1, n)
<1>1. u \in Seq(S) /\ Len(u) = n /\ \A i \in 1 .. n : u[i] = s[i]
  BY FrontPart, Zenon
<1>2. v \in Seq(S) /\ Len(v) = n /\ \A i \in 1 .. n : v[i] = t[i]
  BY FrontPart, Zenon
<1> HIDE DEF u, v
<1>3. Len(u) = Len(v) /\ \A i \in 1 .. Len(u) : u[i] = v[i]
  BY <1>1, <1>2, Zenon
<1>4. u = v
  BY <1>1, <1>2, <1>3, SeqEqual, Zenon
<1> QED
  BY <1>4, Zenon DEF u, v

LEMMA FrontIsPart ==
  ASSUME NEW S, NEW u \in Seq(S), NEW v \in Seq(S), IsFront(u, v)
  PROVE  u = SubSeq(v, 1, Len(u)) /\ Len(u) \in 0 .. Len(v)
<1>1. Len(u) \in 0 .. Len(u) /\ Len(u) \in 0 .. Len(v)
  BY LenProperties DEF IsFront
<1>2. SubSeq(u, 1, Len(u)) = u
  BY SubSeqFull, Zenon
<1>3. SubSeq(u, 1, Len(u)) = SubSeq(v, 1, Len(u))
  BY <1>1, SameFront, Zenon DEF IsFront
<1> QED
  BY <1>1, <1>2, <1>3, Zenon

-------------------------------------------------------------------------------
(* The value of the first digits *)

LEMMA NoValue == ValueOf(<<>>) = 0
<1>1. <<>> \in Seq(Digits) /\ Len(<<>>) = 0
  BY EmptySeq
<1>2. PICK f : IsValue(f, <<>>) /\ ValueOf(<<>>) = f[0]
  BY <1>1, ValueIs, Zenon
<1>3. 0 \in 0 .. Len(<<>>)
  BY <1>1
<1> QED
  BY <1>2, <1>3, Zenon DEF IsValue

LEMMA AllLost == ASSUME NEW v \in Nat PROVE LostDigits(0, v)
<1> DEFINE t == Decimal(v)
<1>1. t \in Seq(Digits)
  BY DecimalIs, Zenon
<1> HIDE DEF t
<1>2. 0 \in 0 .. Len(t)
  BY <1>1, LenProperties
<1>3. SubSeq(t, 1, 0) = <<>>
  BY SubSeqEmpty
<1>4. 0 = ValueOf(SubSeq(t, 1, 0))
  BY <1>3, NoValue, Zenon
<1> QED
  BY <1>2, <1>4, Zenon DEF LostDigits, t

LEMMA NothingLost == ASSUME NEW v \in Nat PROVE LostDigits(v, v)
<1> DEFINE t == Decimal(v)
<1>1. t \in Seq(Digits) /\ ValueOf(t) = v
  BY DecimalIs, Zenon
<1> HIDE DEF t
<1>2. Len(t) \in 0 .. Len(t)
  BY <1>1, LenProperties
<1>3. SubSeq(t, 1, Len(t)) = t
  BY <1>1, SubSeqFull, Zenon
<1>4. v = ValueOf(SubSeq(t, 1, Len(t)))
  BY <1>1, <1>3, Zenon
<1> QED
  BY <1>2, <1>4, Zenon DEF LostDigits, t

LEMMA LostOfZero == ASSUME NEW x, LostDigits(x, 0) PROVE x = 0
<1> DEFINE F == CHOOSE f : f = [k \in 0 .. 0 |->
                                 IF k < 10 THEN <<DigitFor[k + 1]>>
                                 ELSE Append(f[k \div 10], DigitFor[(k % 10) + 1])]
           d == DigitFor[0 + 1]
           t == Decimal(0)
<1>1. t = F[0] /\ 0 \in Nat
  BY Zenon DEF Decimal
<1>2. IsDecimal(F, 0)
  BY <1>1, DecimalExists, Zenon DEF IsDecimal
<1> HIDE DEF F
<1>3. 0 \in 0 .. 0 /\ 0 < 10
  OBVIOUS
<1>4. t = <<d>>
  BY <1>1, <1>2, <1>3, Zenon DEF IsDecimal
<1>5. ValueOf(t) = 0 /\ t \in Seq(Digits)
  BY <1>1, DecimalIs, Zenon
<1> HIDE DEF d
<1>6. Len(t) = 1
  BY <1>4
<1>7. PICK n \in 0 .. Len(t) : x = ValueOf(SubSeq(t, 1, n))
  BY Zenon DEF LostDigits
<1> HIDE DEF t
<1>8. SubSeq(t, 1, Len(t)) = t
  BY <1>5, SubSeqFull, Zenon
<1>9. SubSeq(t, 1, 0) = <<>>
  BY SubSeqEmpty
<1>10. n = 0 \/ n = Len(t)
  BY <1>6
<1>11. CASE n = 0
  BY <1>7, <1>9, <1>11, NoValue, Zenon
<1>12. CASE n = Len(t)
  BY <1>5, <1>7, <1>8, <1>12, Zenon
<1> QED
  BY <1>10, <1>11, <1>12, Zenon

\* One digit more is one digit more to lose.
LEMMA LostMore ==
  ASSUME NEW v \in Nat, NEW e \in 0 .. 9, NEW x, LostDigits(x, v)
  PROVE  LostDigits(x, 10 * v + e)
<1>1. CASE v = 0
  <2>1. x = 0
    BY <1>1, LostOfZero, Zenon
  <2>2. 10 * v + e \in Nat
    OBVIOUS
  <2> QED
    BY <2>1, <2>2, AllLost, Zenon
<1>2. CASE v # 0
  <2> DEFINE t == Decimal(v)
             d == DigitFor[e + 1]
             u == Append(t, d)
  <2>1. Decimal(10 * v + e) = u
    BY <1>2, DecimalAppend, Zenon
  <2>2. PICK n \in 0 .. Len(t) : x = ValueOf(SubSeq(t, 1, n))
    BY Zenon DEF LostDigits
  <2>3. t \in Seq(Digits) /\ d \in Digits
    BY DecimalIs, DigitForIs, Zenon
  <2> HIDE DEF t, d
  <2>4. u \in Seq(Digits) /\ Len(u) = Len(t) + 1 /\ Len(t) \in Nat
        /\ \A i \in 1 .. Len(t) : u[i] = t[i]
    BY <2>3, AppendProperties, LenProperties
  <2> HIDE DEF u
  <2>5. n \in 0 .. Len(u) /\ \A i \in 1 .. n : t[i] = u[i]
    BY <2>4
  <2>6. SubSeq(t, 1, n) = SubSeq(u, 1, n)
    BY <2>3, <2>4, <2>5, SameFront, Zenon
  <2>7. x = ValueOf(SubSeq(u, 1, n))
    BY <2>2, <2>6, Zenon
  <2> QED
    BY <2>1, <2>5, <2>7, Zenon DEF LostDigits
<1> QED
  BY <1>1, <1>2, Zenon

\* The digits in front write the number less some of its digits.
LEMMA FrontLost ==
  ASSUME NEW s \in Seq(Digits), NEW i \in 0 .. Len(s)
  PROVE  LostDigits(ValueOf(SubSeq(s, 1, i)), ValueOf(s))
<1> DEFINE x == ValueOf(SubSeq(s, 1, i))
           v(j) == ValueOf(SubSeq(s, 1, j))
           U == {j \in Nat : i + j <= Len(s) => LostDigits(x, v(i + j))}
<1>1. Len(s) \in Nat /\ i \in Nat /\ i + 0 = i
  BY LenProperties
<1>2. 0 \in U
  <2>1. x \in Nat
    <3>1. SubSeq(s, 1, i) \in Seq(Digits)
      BY FrontPart, Zenon
    <3> QED
      BY <3>1, ValueIs, Zenon
  <2>2. LostDigits(x, v(i + 0))
    BY <1>1, <2>1, NothingLost, Zenon
  <2> QED
    BY <2>2
<1>3. ASSUME NEW j \in U PROVE j + 1 \in U
  <2>1. j \in Nat /\ (i + j <= Len(s) => LostDigits(x, v(i + j)))
    BY Zenon DEF U
  <2>2. ASSUME i + (j + 1) <= Len(s) PROVE LostDigits(x, v(i + (j + 1)))
    <3> DEFINE n == i + j
               m == i + (j + 1)
               t == SubSeq(s, 1, n)
               d == s[m]
               e == DigitValue[d]
    <3>1. /\ n \in 0 .. Len(s) /\ m \in 1 .. Len(s) /\ m \in 0 .. Len(s) /\ n = m - 1 /\ n \in Nat
          /\ 1 \in 1 .. Len(s) /\ m \in 1 .. Len(s) /\ n <= Len(s)
      BY <1>1, <2>1, <2>2
    <3>2. LostDigits(x, ValueOf(t))
      BY <2>1, <3>1, Zenon
    <3> HIDE DEF n, m
    <3>3. d \in Digits
      BY <3>1, ElementOfSeq
    <3>4. t \in Seq(Digits) /\ Len(t) = n /\ \A k \in 1 .. n : t[k] = s[k]
      BY <3>1, FrontPart, Zenon
    <3>5. SubSeq(s, 1, m) = Append(t, d)
      <4> DEFINE a == Append(t, d)
                 b == SubSeq(s, 1, m)
      <4>1. b \in Seq(Digits) /\ Len(b) = m /\ \A k \in 1 .. m : b[k] = s[k]
        BY <3>1, FrontPart, Zenon
      <4> HIDE DEF t, d
      <4>2. a \in Seq(Digits) /\ Len(a) = Len(t) + 1 /\ a[Len(t) + 1] = d
            /\ \A k \in 1 .. Len(t) : a[k] = t[k]
        BY <3>3, <3>4, AppendProperties
      <4>3. d = s[m]
        BY DEF d
      <4> HIDE DEF a, b
      <4>4. Len(a) = Len(b) /\ \A k \in 1 .. Len(a) : a[k] = b[k]
        BY <3>1, <3>4, <4>1, <4>2, <4>3
      <4>5. a = b
        BY <4>1, <4>2, <4>4, SeqEqual, Zenon
      <4> QED
        BY <4>5, Zenon DEF a, b
    <3>6. ValueOf(Append(t, d)) = 10 * ValueOf(t) + e /\ ValueOf(t) \in Nat /\ e \in 0 .. 9
      <4> HIDE DEF t, d
      <4>1. ValueOf(Append(t, d)) = 10 * ValueOf(t) + DigitValue[d]
        BY <3>3, <3>4, ValueAppend, Zenon
      <4>2. ValueOf(t) \in Nat
        BY <3>4, ValueIs, Zenon
      <4>3. e \in 0 .. 9
        BY <3>3, DigitValueIs, Zenon
      <4> QED
        BY <4>1, <4>2, <4>3, Zenon
    <3>7. LostDigits(x, 10 * ValueOf(t) + e)
      <4> HIDE DEF t, d, x, e
      <4> QED
        BY <3>2, <3>6, LostMore, Zenon
    <3>8. LostDigits(x, ValueOf(SubSeq(s, 1, m)))
      BY <3>5, <3>6, <3>7, Zenon
    <3> QED
      BY <3>8, Zenon DEF m
  <2>3. j + 1 \in Nat
    BY <2>1
  <2> HIDE DEF x, v
  <2> QED
    BY <2>2, <2>3, Zenon DEF U
<1>4. U = Nat
  <2>1. U \in SUBSET Nat
    OBVIOUS
  <2> HIDE DEF U
  <2> QED
    BY <1>2, <1>3, <2>1, Induction, Zenon
<1>5. Len(s) - i \in Nat /\ i + (Len(s) - i) <= Len(s) /\ i + (Len(s) - i) = Len(s)
  BY <1>1
<1>6. LostDigits(x, v(i + (Len(s) - i)))
  <2> DEFINE j == Len(s) - i
  <2>1. j \in U /\ i + j <= Len(s)
    BY <1>4, <1>5, Zenon
  <2> HIDE DEF j, x, v
  <2>2. LostDigits(x, v(i + j))
    BY <2>1, Zenon DEF U
  <2> QED
    BY <2>2, Zenon DEF j
<1>7. LostDigits(x, v(Len(s)))
  BY <1>5, <1>6, Zenon
<1>8. SubSeq(s, 1, Len(s)) = s
  BY SubSeqFull, Zenon
<1> QED
  BY <1>7, <1>8, Zenon

\* What stands in front stays in front when both are trimmed.
LEMMA TrimFront ==
  ASSUME NEW S, NEW u \in Seq(S), NEW v \in Seq(S), IsFront(u, v)
  PROVE  IsFront(Trim(u), Trim(v))
<1>1. /\ Len(u) \in Nat /\ Len(v) \in Nat /\ Len(u) <= Len(v)
      /\ \A k \in 1 .. Len(u) : u[k] \in S
      /\ \A k \in 1 .. Len(v) : v[k] \in S
  BY LenProperties, ElementOfSeq DEF IsFront
<1>2. \A k \in 1 .. Len(u) : k \in 1 .. Len(v) /\ u[k] = v[k]
  BY <1>1 DEF IsFront
<1>3. CASE Solid(u) = {}
  <2>1. Trim(u) = <<>>
    BY <1>3, TrimIs, Zenon
  <2>2. Trim(v) \in Seq(S)
    BY TrimType, Zenon
  <2> DEFINE t == Trim(v)
  <2> HIDE DEF t
  <2>3. IsFront(<<>>, t)
    <3>1. t \in Seq(S)
      BY <2>2, Zenon DEF t
    <3>2. Len(t) \in Nat /\ Len(<<>>) = 0
      BY <3>1, LenProperties
    <3> QED
      BY <3>2 DEF IsFront
  <2> QED
    BY <2>1, <2>3, Zenon DEF t
<1>4. CASE Solid(u) # {}
  <2>1. PICK i, j \in Solid(u) : Trim(u) = SubSeq(u, i, j) /\ \A k \in Solid(u) : i <= k /\ k <= j
    BY <1>4, TrimIs, Zenon
  <2>2. Solid(u) \subseteq Solid(v)
    BY <1>2, Zenon DEF Solid
  <2>3. Solid(v) # {}
    BY <1>4, <2>2, Zenon
  <2>4. PICK m, n \in Solid(v) : Trim(v) = SubSeq(v, m, n) /\ \A k \in Solid(v) : m <= k /\ k <= n
    BY <2>3, TrimIs, Zenon
  <2>5. i \in 1 .. Len(u) /\ j \in 1 .. Len(u) /\ m \in 1 .. Len(v) /\ n \in 1 .. Len(v)
    BY Zenon DEF Solid
  <2>6. i <= j /\ m <= i /\ j <= n
    BY <2>1, <2>2, <2>4, Zenon
  <2>7. m \in 1 .. Len(u)
    BY <1>1, <2>5, <2>6
  <2>8. m \in Solid(u)
    BY <1>2, <2>7, Zenon DEF Solid
  <2>9. i <= m
    BY <2>1, <2>8, Zenon
  <2>10. i = m
    BY <2>5, <2>6, <2>9
  <2> DEFINE a == SubSeq(u, i, j)
             b == SubSeq(v, m, n)
  <2>11. a \in Seq(S) /\ Len(a) = (IF i <= j THEN j - i + 1 ELSE 0)
         /\ \A k \in 1 .. j - i + 1 : a[k] = u[i + k - 1]
    <3>1. i \in Int /\ j \in Int /\ \A k \in i .. j : u[k] \in S
      BY <1>1, <2>5
    <3> QED
      BY <3>1, SubSeqProperties
  <2>12. b \in Seq(S) /\ Len(b) = (IF m <= n THEN n - m + 1 ELSE 0)
         /\ \A k \in 1 .. n - m + 1 : b[k] = v[m + k - 1]
    <3>1. m \in Int /\ n \in Int /\ \A k \in m .. n : v[k] \in S
      BY <1>1, <2>5
    <3> QED
      BY <3>1, SubSeqProperties
  <2> HIDE DEF a, b
  <2>13. Len(a) <= Len(b)
    BY <2>5, <2>6, <2>10, <2>11, <2>12
  <2>14. \A k \in 1 .. Len(a) : /\ k \in 1 .. j - i + 1 /\ k \in 1 .. n - m + 1
                                /\ i + k - 1 \in 1 .. Len(u) /\ i + k - 1 = m + k - 1
    BY <1>1, <2>5, <2>6, <2>10, <2>11
  <2>15. \A k \in 1 .. Len(a) : a[k] = b[k]
    <3> TAKE k \in 1 .. Len(a)
    <3>1. a[k] = u[i + k - 1] /\ b[k] = v[m + k - 1]
      BY <2>11, <2>12, <2>14, Zenon
    <3>2. u[i + k - 1] = v[i + k - 1]
      BY <1>2, <2>14, Zenon
    <3> QED
      BY <2>14, <3>1, <3>2, Zenon
  <2>16. IsFront(a, b)
    BY <2>13, <2>15, Zenon DEF IsFront
  <2> QED
    BY <2>1, <2>4, <2>16, Zenon DEF a, b
<1> QED
  BY <1>3, <1>4, Zenon

\* atoi makes of a front the number less some of its digits.
LEMMA AtoiFront ==
  ASSUME NEW S, NEW u \in Seq(S), NEW v \in Seq(S), IsFront(u, v)
  PROVE  LostDigits(Atoi(u), Atoi(v))
<1>1. PICK n \in 0 .. Len(u) :
           /\ SubSeq(u, 1, n) \in Seq(Digits) /\ Atoi(u) = ValueOf(SubSeq(u, 1, n))
           /\ \A i \in 1 .. n : u[i] \in Digits
  BY AtoiIs, Zenon
<1>2. PICK m \in 0 .. Len(v) :
           /\ SubSeq(v, 1, m) \in Seq(Digits) /\ Atoi(v) = ValueOf(SubSeq(v, 1, m))
           /\ \A i \in 1 .. m : v[i] \in Digits
           /\ m < Len(v) => v[m + 1] \notin Digits
  BY AtoiIs, Zenon
<1>3. Len(u) \in Nat /\ Len(v) \in Nat /\ Len(u) <= Len(v) /\ n \in 0 .. Len(v)
  BY LenProperties DEF IsFront
<1>4. \A i \in 1 .. n : i \in 1 .. Len(u) /\ u[i] = v[i]
  BY <1>3 DEF IsFront
<1>5. n <= m
  <2>1. SUFFICES ASSUME ~(n <= m) PROVE FALSE
    OBVIOUS
  <2>2. m + 1 \in 1 .. n /\ m < Len(v)
    BY <1>3, <2>1
  <2>3. u[m + 1] \in Digits /\ u[m + 1] = v[m + 1]
    BY <1>1, <1>4, <2>2, Zenon
  <2> QED
    BY <1>2, <2>2, <2>3, Zenon
<1> DEFINE s == SubSeq(v, 1, m)
           t == SubSeq(u, 1, n)
<1>6. s \in Seq(S) /\ Len(s) = m /\ \A i \in 1 .. m : s[i] = v[i]
  BY FrontPart, Zenon
<1>7. s \in Seq(Digits) /\ Atoi(v) = ValueOf(s) /\ Atoi(u) = ValueOf(t)
  BY <1>1, <1>2, Zenon
<1> HIDE DEF s
<1>8. n \in 0 .. Len(s) /\ \A i \in 1 .. n : u[i] = s[i]
  BY <1>3, <1>4, <1>5, <1>6
<1>9. t = SubSeq(s, 1, n)
  BY <1>6, <1>8, SameFront, Zenon
<1> HIDE DEF t
<1>10. LostDigits(ValueOf(SubSeq(s, 1, n)), ValueOf(s))
  BY <1>7, <1>8, FrontLost, Zenon
<1> QED
  BY <1>7, <1>9, <1>10, Zenon

LEMMA YearLost ==
  ASSUME NEW S, NEW u \in Seq(S), NEW v \in Seq(S), IsFront(u, v)
  PROVE  LostDigits(Atoi(Trim(u)), Atoi(Trim(v)))
<1>1. Trim(u) \in Seq(S)
  BY TrimType, Zenon
<1>2. Trim(v) \in Seq(S)
  BY TrimType, Zenon
<1>3. IsFront(Trim(u), Trim(v))
  BY TrimFront, Zenon
<1> QED
  BY <1>1, <1>2, <1>3, AtoiFront, Zenon

-------------------------------------------------------------------------------
(* Sequences that are cut short *)

\* x begins like y, but for its last element, and R says what became of that.
Frays(x, y, R) ==
  /\ Len(x) <= Len(y)
  /\ \A i \in 1 .. Len(x) - 1 : x[i] = y[i]
  /\ Len(x) # 0 => <<x[Len(x)], y[Len(x)]>> \in R

LEMMA FrayFront ==
  ASSUME NEW S, NEW x \in Seq(S), NEW y \in Seq(S), NEW e \in S, NEW R, <<e, e>> \in R,
         Frays(x, y, R)
  PROVE  Frays(<<e>> \o x, <<e>> \o y, R)
<1> DEFINE a == <<e>> \o x
           b == <<e>> \o y
<1>1. IsInFront(a, S, e, x)
  BY InFront, Zenon
<1>2. IsInFront(b, S, e, y)
  BY InFront, Zenon
<1> HIDE DEF a, b
<1>3. /\ Len(a) = Len(x) + 1 /\ a[1] = e /\ \A i \in 1 .. Len(x) : a[i + 1] = x[i]
      /\ Len(b) = Len(y) + 1 /\ b[1] = e /\ \A i \in 1 .. Len(y) : b[i + 1] = y[i]
  BY <1>1, <1>2, Zenon DEF IsInFront
<1>4. /\ Len(x) \in Nat /\ Len(y) \in Nat /\ Len(x) <= Len(y)
      /\ \A i \in 1 .. Len(x) - 1 : x[i] = y[i]
      /\ Len(x) # 0 => <<x[Len(x)], y[Len(x)]>> \in R
  BY LenProperties DEF Frays
<1>5. Len(a) <= Len(b) /\ Len(a) # 0
  BY <1>3, <1>4
<1>6. \A i \in 1 .. Len(a) - 1 : a[i] = b[i]
  <2> TAKE i \in 1 .. Len(a) - 1
  <2>1. CASE i = 1
    BY <1>3, <2>1, Zenon
  <2>2. CASE i # 1
    <3> DEFINE k == i - 1
    <3>1. k \in 1 .. Len(x) /\ k \in 1 .. Len(x) - 1 /\ k \in 1 .. Len(y) /\ i = k + 1
      BY <1>3, <1>4, <2>2
    <3> HIDE DEF k
    <3>2. a[k + 1] = x[k] /\ b[k + 1] = y[k] /\ x[k] = y[k]
      BY <1>3, <1>4, <3>1, Zenon
    <3> QED
      BY <3>1, <3>2, Zenon
  <2> QED
    BY <2>1, <2>2, Zenon
<1>7. <<a[Len(a)], b[Len(a)]>> \in R
  <2>1. CASE Len(x) = 0
    <3>1. Len(a) = 1
      BY <1>3, <2>1
    <3> QED
      BY <1>3, <3>1, Zenon
  <2>2. CASE Len(x) # 0
    <3> DEFINE k == Len(x)
    <3>1. k \in 1 .. Len(x) /\ k \in 1 .. Len(y) /\ Len(a) = k + 1
      BY <1>3, <1>4, <2>2
    <3>2. <<x[k], y[k]>> \in R
      BY <1>4, <2>2, Zenon
    <3> HIDE DEF k
    <3>3. a[k + 1] = x[k] /\ b[k + 1] = y[k]
      BY <1>3, <3>1, Zenon
    <3> QED
      BY <3>1, <3>2, <3>3, Zenon
  <2> QED
    BY <2>1, <2>2, Zenon
<1>8. Frays(a, b, R)
  BY <1>5, <1>6, <1>7, Zenon DEF Frays
<1> QED
  BY <1>8, Zenon DEF a, b

LEMMA NothingFrays ==
  ASSUME NEW S, NEW y \in Seq(S), NEW R PROVE Frays(<<>>, y, R)
<1>1. Len(<<>>) = 0 /\ Len(y) \in Nat
  BY LenProperties
<1>2. Len(<<>>) <= Len(y) /\ \A i \in 1 .. Len(<<>>) - 1 : FALSE
  BY <1>1
<1> QED
  BY <1>1, <1>2, Zenon DEF Frays

LEMMA LastFrays ==
  ASSUME NEW S, NEW y \in Seq(S), NEW d \in S, NEW e \in S, NEW R, <<d, e>> \in R
  PROVE  Frays(<<d>>, <<e>> \o y, R)
<1> DEFINE a == <<d>>
           b == <<e>> \o y
<1>1. IsInFront(b, S, e, y)
  BY InFront, Zenon
<1>2. Len(a) = 1 /\ a[1] = d
  OBVIOUS
<1> HIDE DEF a, b
<1>3. Len(b) = Len(y) + 1 /\ b[1] = e
  BY <1>1, Zenon DEF IsInFront
<1>4. Len(y) \in Nat
  BY LenProperties
<1>5. Len(a) <= Len(b) /\ \A i \in 1 .. Len(a) - 1 : FALSE
  BY <1>2, <1>3, <1>4
<1>6. <<a[Len(a)], b[Len(a)]>> \in R
  BY <1>2, <1>3, Zenon
<1>7. Frays(a, b, R)
  BY <1>5, <1>6, Zenon DEF Frays
<1> QED
  BY <1>7, Zenon DEF a, b

LEMMA EndFront ==
  ASSUME NEW S, NEW u \in Seq(S), NEW v \in Seq(S), IsFront(u, v), NEW i \in 1 .. Len(u) + 1
  PROVE  IsFront(EndFrom(u, i), EndFrom(v, i)) /\ i \in 1 .. Len(v) + 1
<1>1. /\ Len(u) \in Nat /\ Len(v) \in Nat /\ Len(u) <= Len(v) /\ i \in 1 .. Len(v) + 1
      /\ \A k \in 1 .. Len(u) : u[k] = v[k]
  BY LenProperties DEF IsFront
<1> DEFINE a == EndFrom(u, i)
           b == EndFrom(v, i)
<1>2. Len(a) = Len(u) + 1 - i /\ \A k \in 1 .. Len(u) + 1 - i : a[k] = u[i - 1 + k]
  BY EndFromIs, Zenon
<1>3. Len(b) = Len(v) + 1 - i /\ \A k \in 1 .. Len(v) + 1 - i : b[k] = v[i - 1 + k]
  BY <1>1, EndFromIs, Zenon
<1> HIDE DEF a, b
<1>4. Len(a) <= Len(b)
  BY <1>1, <1>2, <1>3
<1>5. \A k \in 1 .. Len(a) : /\ k \in 1 .. Len(u) + 1 - i /\ k \in 1 .. Len(v) + 1 - i
                             /\ i - 1 + k \in 1 .. Len(u)
  BY <1>1, <1>2
<1>6. \A k \in 1 .. Len(a) : a[k] = b[k]
  BY <1>1, <1>2, <1>3, <1>5, Zenon
<1>7. IsFront(a, b)
  BY <1>4, <1>6, Zenon DEF IsFront
<1> QED
  BY <1>1, <1>7, Zenon DEF a, b

Fronts == {w \in Seq(Characters) \X Seq(Characters) : IsFront(w[1], w[2])}

LEMMA FrontsIs ==
  ASSUME NEW u \in Seq(Characters), NEW v \in Seq(Characters), IsFront(u, v)
  PROVE  <<u, v>> \in Fronts
<1> DEFINE w == <<u, v>>
<1>1. w \in Seq(Characters) \X Seq(Characters) /\ w[1] = u /\ w[2] = v
  OBVIOUS
<1> HIDE DEF w
<1>2. w \in Fronts
  BY <1>1, Zenon DEF Fronts
<1> QED
  BY <1>2, Zenon DEF w

LEMMA FrontOfItself ==
  ASSUME NEW S, NEW u \in Seq(S) PROVE IsFront(u, u)
<1>1. Len(u) \in Nat
  BY LenProperties
<1>2. Len(u) <= Len(u)
  BY <1>1
<1> QED
  BY <1>2, Zenon DEF IsFront

LEMMA FrontAgain ==
  ASSUME NEW w \in Fronts PROVE IsFront(w[1], w[2])
BY Zenon DEF Fronts

\* The first run of a text, when more follows the text.
LEMMA RunFront ==
  ASSUME NEW p \in Seq(Characters), NEW l \in Seq(Characters), IsFront(p, l)
  PROVE  /\ FirstBar(p) = 0 => IsFront(FirstRun(p), FirstRun(l)) /\ FirstRun(p) = p
         /\ FirstBar(p) # 0 =>
              /\ FirstRun(l) = FirstRun(p)
              /\ AfterRun(p) = EndFrom(p, FirstBar(p) + 1)
              /\ AfterRun(l) = EndFrom(l, FirstBar(p) + 1)
<1>1. Len(p) \in Nat /\ Len(l) \in Nat /\ Len(p) <= Len(l)
      /\ \A i \in 1 .. Len(p) : p[i] = l[i]
  BY LenProperties DEF IsFront
<1> DEFINE k == FirstBar(p)
           m == FirstBar(l)
<1>2. /\ k \in 0 .. Len(p) /\ (k = 0 => NoBar(p))
      /\ k # 0 => p[k] = "|" /\ \A i \in 1 .. k - 1 : p[i] # "|"
  BY FirstBarIs, Zenon
<1>3. /\ m \in 0 .. Len(l)
      /\ m # 0 => l[m] = "|"
  BY FirstBarIs, Zenon
<1>4. FirstRun(p) = SubSeq(p, 1, IF k = 0 THEN Len(p) ELSE k - 1)
      /\ AfterRun(p) = IF k = 0 THEN <<>> ELSE EndFrom(p, k + 1)
  BY RunIs, Zenon
<1>5. FirstRun(l) = SubSeq(l, 1, IF m = 0 THEN Len(l) ELSE m - 1)
      /\ AfterRun(l) = IF m = 0 THEN <<>> ELSE EndFrom(l, m + 1)
  BY RunIs, Zenon
<1> HIDE DEF m
<1>6. CASE k = 0
  <2>1. FirstRun(p) = p
    <3>1. SubSeq(p, 1, Len(p)) = p
      BY SubSeqFull, Zenon
    <3> QED
      BY <1>4, <1>6, <3>1, Zenon
  <2> DEFINE n == IF m = 0 THEN Len(l) ELSE m - 1
             r == SubSeq(l, 1, n)
  <2>2. m # 0 => m \notin 1 .. Len(p)
    BY <1>1, <1>2, <1>3, <1>6, Zenon DEF NoBar
  <2>3. n \in 0 .. Len(l) /\ Len(p) <= n
    BY <1>1, <1>3, <2>2
  <2> HIDE DEF n
  <2>4. Len(r) = n /\ \A i \in 1 .. n : r[i] = l[i]
    BY <2>3, FrontPart, Zenon
  <2> HIDE DEF r
  <2>5. Len(p) <= Len(r) /\ \A i \in 1 .. Len(p) : i \in 1 .. n
    BY <1>1, <2>3, <2>4
  <2>6. \A i \in 1 .. Len(p) : p[i] = r[i]
    BY <1>1, <2>4, <2>5, Zenon
  <2>7. IsFront(p, r)
    BY <2>5, <2>6, Zenon DEF IsFront
  <2>8. FirstRun(l) = r
    BY <1>5, Zenon DEF r, n
  <2> QED
    BY <1>6, <2>1, <2>7, <2>8, Zenon
<1>7. CASE k # 0
  <2> HIDE DEF k
  <2>1. k \in 1 .. Len(l) /\ k \in 1 .. Len(p) /\ \A i \in 1 .. k - 1 : i \in 1 .. Len(p)
    BY <1>1, <1>2, <1>7
  <2>2. l[k] = "|" /\ \A i \in 1 .. k - 1 : l[i] # "|"
    <3>1. l[k] = "|"
      BY <1>1, <1>2, <1>7, <2>1, Zenon
    <3>2. ASSUME NEW i \in 1 .. k - 1 PROVE l[i] # "|"
      BY <1>1, <1>2, <1>7, <2>1, Zenon
    <3> QED
      BY <3>1, <3>2, Zenon
  <2>3. m = k
    BY <2>1, <2>2, FirstBarAt, Zenon DEF m
  <2>4. k - 1 \in 0 .. Len(p) /\ k - 1 \in 0 .. Len(l)
    BY <1>1, <2>1
  <2>5. \A i \in 1 .. k - 1 : p[i] = l[i]
    BY <1>1, <2>1, Zenon
  <2> DEFINE n == k - 1
  <2>6. n \in 0 .. Len(p) /\ n \in 0 .. Len(l) /\ \A i \in 1 .. n : p[i] = l[i]
    BY <2>4, <2>5, Zenon
  <2> HIDE DEF n
  <2>7. SubSeq(p, 1, n) = SubSeq(l, 1, n)
    BY <2>6, SameFront, Zenon
  <2>8. FirstRun(l) = FirstRun(p)
    <3>1. FirstRun(l) = SubSeq(l, 1, n)
      BY <1>5, <1>7, <2>3, Zenon DEF n
    <3>2. FirstRun(p) = SubSeq(p, 1, n)
      BY <1>4, <1>7, Zenon DEF n
    <3> QED
      BY <2>7, <3>1, <3>2, Zenon
  <2>9. AfterRun(p) = EndFrom(p, k + 1)
    BY <1>4, <1>7, Zenon
  <2>10. AfterRun(l) = EndFrom(l, k + 1)
    BY <1>5, <1>7, <2>3, Zenon
  <2> QED
    BY <1>7, <2>8, <2>9, <2>10, Zenon DEF k
<1> QED
  BY <1>6, <1>7, Zenon

FraysLike(p, l) == Frays(Tokens(p), Tokens(l), Fronts)

LEMMA TokensFrayStep ==
  ASSUME NEW p \in Seq(Characters), NEW l \in Seq(Characters), IsFront(p, l), p # <<>>,
         \A q, m \in Seq(Characters) : Len(q) < Len(p) /\ IsFront(q, m) => FraysLike(q, m)
  PROVE  FraysLike(p, l)
<1>1. Len(p) \in Nat /\ Len(l) \in Nat /\ Len(p) # 0 /\ Len(p) <= Len(l)
  BY LenProperties, EmptySeq DEF IsFront
<1>2. l # <<>>
  <2>1. Len(<<>>) = 0
    BY EmptySeq
  <2> QED
    BY <1>1, <2>1
<1> DEFINE r == FirstRun(p)
           z == FirstRun(l)
<1>3. /\ Tokens(p) \in Seq(Seq(Characters))
      /\ Tokens(p) = (IF r = <<>> THEN <<>> ELSE <<r>>) \o Tokens(AfterRun(p))
  BY TokensOf, Zenon
<1>4. /\ Tokens(l) \in Seq(Seq(Characters))
      /\ Tokens(l) = (IF z = <<>> THEN <<>> ELSE <<z>>) \o Tokens(AfterRun(l))
  BY <1>2, TokensOf, Zenon
<1>5. r \in Seq(Characters) /\ AfterRun(p) \in Seq(Characters)
  BY RunIs, Zenon
<1>6. z \in Seq(Characters) /\ AfterRun(l) \in Seq(Characters)
  BY <1>2, RunIs, Zenon
<1>7. Tokens(AfterRun(p)) \in Seq(Seq(Characters))
  BY <1>5, TokensOf, Zenon
<1>8. Tokens(AfterRun(l)) \in Seq(Seq(Characters))
  BY <1>6, TokensOf, Zenon
<1>9. CASE FirstBar(p) = 0
  <2>1. r = p /\ IsFront(p, z)
    <3>1. IsFront(r, z) /\ r = p
      BY <1>9, RunFront, Zenon
    <3> HIDE DEF r, z
    <3> QED
      BY <3>1, Zenon
  <2>2. NoBar(p)
    BY <1>9, FirstBarIs, Zenon
  <2>3. Tokens(p) = <<p>>
    BY <2>2, LastToken, Zenon
  <2>4. z # <<>>
    <3>1. Len(p) <= Len(z)
      BY <2>1, Zenon DEF IsFront
    <3>2. Len(<<>>) = 0
      BY EmptySeq
    <3>3. Len(z) # 0
      <4> HIDE DEF z
      <4>1. Len(z) \in Nat
        BY <1>6, LenProperties
      <4> QED
        BY <1>1, <3>1, <4>1
    <3> QED
      BY <3>2, <3>3, Zenon
  <2>5. Tokens(l) = <<z>> \o Tokens(AfterRun(l))
    BY <1>4, <2>4, Zenon
  <2> HIDE DEF z
  <2>6. <<p, z>> \in Fronts
    BY <1>6, <2>1, FrontsIs, Zenon
  <2>7. Frays(<<p>>, <<z>> \o Tokens(AfterRun(l)), Fronts)
    BY <1>6, <1>8, <2>6, LastFrays, Zenon
  <2> QED
    BY <2>3, <2>5, <2>7, Zenon DEF FraysLike
<1>10. CASE FirstBar(p) # 0
  <2> DEFINE k == FirstBar(p)
             a == EndFrom(p, k + 1)
             b == EndFrom(l, k + 1)
  <2>1. z = r /\ AfterRun(p) = a /\ AfterRun(l) = b
    BY <1>10, RunFront, Zenon
  <2>2. k \in 0 .. Len(p)
    BY FirstBarIs, Zenon
  <2> HIDE DEF k
  <2>3. k + 1 \in 1 .. Len(p) + 1 /\ k # 0
    BY <1>1, <1>10, <2>2 DEF k
  <2>4. IsFront(a, b)
    BY <2>3, EndFront, Zenon
  <2>5. Len(a) = Len(p) + 1 - (k + 1)
    BY <2>3, EndFromIs, Zenon
  <2> HIDE DEF a, b
  <2>6. Len(a) < Len(p)
    BY <1>1, <2>2, <2>3, <2>5
  <2>7. a \in Seq(Characters) /\ b \in Seq(Characters)
    BY <1>5, <1>6, <2>1, Zenon
  <2>8. FraysLike(a, b)
    BY <2>4, <2>6, <2>7, Zenon
  <2> DEFINE x == Tokens(a)
             y == Tokens(b)
  <2>9. Frays(x, y, Fronts) /\ x \in Seq(Seq(Characters)) /\ y \in Seq(Seq(Characters))
    BY <1>7, <1>8, <2>1, <2>8, Zenon DEF FraysLike
  <2> HIDE DEF x, y, z
  <2>10. CASE r = <<>>
    <3>1. <<>> \o x = x /\ <<>> \o y = y
      BY <2>9, ConcatEmptySeq, Zenon
    <3>2. Tokens(p) = <<>> \o x
      BY <1>3, <2>1, <2>10, Zenon DEF x
    <3>3. Tokens(l) = <<>> \o y
      BY <1>4, <2>1, <2>10, Zenon DEF y
    <3> QED
      BY <2>9, <3>1, <3>2, <3>3, Zenon DEF FraysLike
  <2>11. CASE r # <<>>
    <3>1. Tokens(p) = <<r>> \o x
      BY <1>3, <2>1, <2>11, Zenon DEF x
    <3>2. Tokens(l) = <<r>> \o y
      BY <1>4, <2>1, <2>11, Zenon DEF y
    <3> HIDE DEF r
    <3>3. IsFront(r, r)
      BY <1>5, FrontOfItself, Zenon
    <3>4. <<r, r>> \in Fronts
      BY <1>5, <3>3, FrontsIs, Zenon
    <3>5. Frays(<<r>> \o x, <<r>> \o y, Fronts)
      BY <1>5, <2>9, <3>4, FrayFront, Zenon
    <3> QED
      BY <3>1, <3>2, <3>5, Zenon DEF FraysLike
  <2> QED
    BY <2>10, <2>11, Zenon
<1> QED
  BY <1>9, <1>10, Zenon

\* The tokens of a line that is cut short are its first ones, and of the last of
\* them a front.
LEMMA TokensFray ==
  ASSUME NEW p \in Seq(Characters), NEW l \in Seq(Characters), IsFront(p, l)
  PROVE  FraysLike(p, l)
<1> DEFINE U == {n \in Nat : \A q, m \in Seq(Characters) : Len(q) <= n /\ IsFront(q, m) => FraysLike(q, m)}
<1>1. ASSUME NEW q \in Seq(Characters), NEW m \in Seq(Characters), q = <<>> PROVE FraysLike(q, m)
  <2>1. Tokens(m) \in Seq(Seq(Characters)) /\ Tokens(q) = <<>>
    BY <1>1, TokensOf, Zenon
  <2>2. Frays(<<>>, Tokens(m), Fronts)
    BY <2>1, NothingFrays, Zenon
  <2> QED
    BY <2>1, <2>2, Zenon DEF FraysLike
<1>2. 0 \in U
  <2>1. \A q \in Seq(Characters) : Len(q) <= 0 => q = <<>>
    BY LenProperties, EmptySeq
  <2> QED
    BY <1>1, <2>1, Zenon
<1>3. ASSUME NEW n \in U PROVE n + 1 \in U
  <2>1. n \in Nat /\ \A q, m \in Seq(Characters) : Len(q) <= n /\ IsFront(q, m) => FraysLike(q, m)
    BY Zenon DEF U
  <2> DEFINE k == n + 1
  <2>2. ASSUME NEW q \in Seq(Characters), NEW m \in Seq(Characters), Len(q) <= k, IsFront(q, m)
        PROVE  FraysLike(q, m)
    <3>1. CASE q = <<>>
      BY <1>1, <3>1, Zenon
    <3>2. CASE q # <<>>
      <4>1. \A a \in Seq(Characters) : Len(a) < Len(q) => Len(a) <= n
        BY <2>1, <2>2, LenProperties
      <4>2. \A a, b \in Seq(Characters) : Len(a) < Len(q) /\ IsFront(a, b) => FraysLike(a, b)
        BY <2>1, <4>1, Zenon
      <4> QED
        BY <2>2, <3>2, <4>2, TokensFrayStep, Zenon
    <3> QED
      BY <3>1, <3>2, Zenon
  <2>3. k \in Nat
    BY <2>1
  <2> HIDE DEF k
  <2>4. k \in U
    BY <2>2, <2>3, Zenon DEF U
  <2> QED
    BY <2>4, Zenon DEF k
<1>4. U = Nat
  <2>1. U \in SUBSET Nat
    OBVIOUS
  <2> HIDE DEF U
  <2> QED
    BY <1>2, <1>3, <2>1, Induction, Zenon
<1>5. Len(p) \in Nat /\ Len(p) <= Len(p)
  BY LenProperties
<1>6. Len(p) \in U
  BY <1>4, <1>5, Zenon
<1> QED
  BY <1>5, <1>6, Zenon DEF U

-------------------------------------------------------------------------------
(* The pieces of a text that is cut short *)

\* fgets takes n characters.
Takes(s, size, n) ==
  /\ n \in 1 .. Len(s) /\ n <= size - 1
  /\ \A i \in 1 .. n - 1 : s[i] # "nl"
  /\ n = size - 1 \/ n = Len(s) \/ s[n] = "nl"

LEMMA TakesLength ==
  ASSUME NEW s \in Seq(Typed), s # <<>>, NEW size \in Nat, size >= 2
  PROVE  Takes(s, size, FgetsLength(s, size))
<1> DEFINE n == FgetsLength(s, size)
           U == {i \in 1 .. Len(s) : s[i] = "nl"}
<1>1. n \in 1 .. Len(s) /\ \A i \in 1 .. n - 1 : s[i] # "nl"
  BY FgetsStops, Zenon
<1>2. Len(s) \in Nat /\ U \in SUBSET Nat
  BY LenProperties
<1>3. n <= size - 1 /\ (n = size - 1 \/ n = Len(s) \/ s[n] = "nl")
  <2>1. CASE U = {}
    <3>1. NoNewline(s)
      BY <2>1, Zenon DEF NoNewline
    <3>2. n = IF Len(s) < size - 1 THEN Len(s) ELSE size - 1
      BY <3>1, FgetsToTheEnd, Zenon
    <3> HIDE DEF n
    <3>3. n <= size - 1 /\ (n = size - 1 \/ n = Len(s))
      BY <1>2, <3>2
    <3> QED
      BY <3>3, Zenon
  <2>2. CASE U # {}
    <3> DEFINE k == Min(U)
    <3>1. k \in U /\ \A i \in U : k <= i
      BY <1>2, <2>2, LeastNumber, Zenon
    <3>2. k \in 1 .. Len(s) /\ s[k] = "nl" /\ \A i \in 1 .. Len(s) : s[i] = "nl" => k <= i
      BY <3>1, Zenon
    <3> HIDE DEF k
    <3>3. \A i \in 1 .. k - 1 : i \in 1 .. Len(s) /\ ~(k <= i)
      BY <1>2, <3>2
    <3>4. \A i \in 1 .. k - 1 : s[i] # "nl"
      BY <3>2, <3>3, Zenon
    <3>5. n = IF k <= size - 1 THEN k ELSE size - 1
      BY <3>2, <3>4, FgetsNewline, Zenon
    <3> HIDE DEF n
    <3>6. n <= size - 1 /\ (n = size - 1 \/ n = k)
      BY <1>2, <3>2, <3>5
    <3> QED
      BY <3>2, <3>6, Zenon
  <2> QED
    BY <2>1, <2>2, Zenon
<1> QED
  BY <1>1, <1>3, Zenon DEF Takes

LEMMA TakesOnce ==
  ASSUME NEW s \in Seq(Typed), NEW size \in Nat, NEW m, Takes(s, size, m), NEW n, Takes(s, size, n)
  PROVE  ~(m < n)
<1> SUFFICES ASSUME m < n PROVE FALSE
  OBVIOUS
<1>1. /\ m \in 1 .. Len(s) /\ n \in 1 .. Len(s) /\ n <= size - 1 /\ Len(s) \in Nat
  BY LenProperties, Zenon DEF Takes
<1>2. m \in 1 .. n - 1 /\ m # size - 1 /\ m # Len(s)
  BY <1>1
<1>3. s[m] # "nl"
  BY <1>2, Zenon DEF Takes
<1> QED
  BY <1>2, <1>3, Zenon DEF Takes

LEMMA TakenLength ==
  ASSUME NEW s \in Seq(Typed), NEW size \in Nat, size >= 2, NEW n, Takes(s, size, n)
  PROVE  FgetsLength(s, size) = n
<1>1. n \in 1 .. Len(s)
  BY Zenon DEF Takes
<1>2. s # <<>>
  <2>1. Len(<<>>) = 0 /\ Len(s) \in Nat
    BY EmptySeq, LenProperties
  <2>2. Len(s) # 0
    BY <1>1, <2>1
  <2> QED
    BY <2>1, <2>2, Zenon
<1> DEFINE m == FgetsLength(s, size)
<1>3. Takes(s, size, m)
  BY <1>2, TakesLength, Zenon
<1> HIDE DEF m
<1>4. ~(m < n)
  BY <1>3, TakesOnce, Zenon
<1>5. ~(n < m)
  BY <1>3, TakesOnce, Zenon
<1>6. m \in 1 .. Len(s) /\ Len(s) \in Nat
  BY <1>3, LenProperties, Zenon DEF Takes
<1>7. m = n
  BY <1>1, <1>4, <1>5, <1>6
<1> QED
  BY <1>7, Zenon DEF m

\* A text that ends within the first piece is a piece itself, and a front of
\* the line of that.
LEMMA EndsWithin ==
  ASSUME NEW p \in Seq(Typed), NEW t \in Seq(Typed), IsFront(p, t), p # <<>>, NEW size \in Nat, size >= 2,
         Len(p) < FgetsLength(t, size)
  PROVE  /\ LineOf(p, size) = p /\ AfterFgets(p, size) = <<>>
         /\ IsFront(p, LineOf(t, size))
<1> DEFINE n == FgetsLength(t, size)
           k == Len(p)
<1>1. k \in Nat /\ k # 0 /\ Len(t) \in Nat /\ k <= Len(t) /\ \A i \in 1 .. k : p[i] = t[i]
  BY LenProperties, EmptySeq DEF IsFront
<1>2. t # <<>>
  <2>1. Len(<<>>) = 0
    BY EmptySeq
  <2>2. Len(t) # 0
    BY <1>1
  <2> QED
    BY <2>1, <2>2, Zenon
<1>3. Takes(t, size, n)
  BY <1>2, TakesLength, Zenon
<1>4. n \in 1 .. Len(t) /\ n <= size - 1 /\ \A i \in 1 .. n - 1 : t[i] # "nl"
  BY <1>3, Zenon DEF Takes
<1>5. k < n
  OBVIOUS
<1> HIDE DEF n
<1>6. k \in 1 .. n - 1 /\ k <= size - 1 /\ k \in 1 .. k /\ \A i \in 1 .. k : i \in 1 .. n - 1
  <2> HIDE DEF k
  <2> QED
    BY <1>1, <1>4, <1>5
<1>7. \A i \in 1 .. k : p[i] # "nl"
  BY <1>1, <1>4, <1>6, Zenon
<1>8. Takes(p, size, k)
  <2>1. \A i \in 1 .. k - 1 : i \in 1 .. k
    BY <1>1
  <2>2. \A i \in 1 .. k - 1 : p[i] # "nl"
    BY <1>7, <2>1, Zenon
  <2>3. k \in 1 .. Len(p) /\ k = Len(p) /\ k <= size - 1
    BY <1>6, Zenon
  <2> QED
    BY <2>2, <2>3, Zenon DEF Takes
<1>9. FgetsLength(p, size) = k
  BY <1>8, TakenLength, Zenon
<1>10. LineOf(p, size) = p
  <2>1. p[k] # "nl"
    BY <1>6, <1>7, Zenon
  <2>2. LineOf(p, size) = SubSeq(p, 1, k)
    BY <1>9, <2>1, Zenon DEF LineOf
  <2>3. SubSeq(p, 1, k) = p
    BY SubSeqFull, Zenon
  <2> QED
    BY <2>2, <2>3, Zenon
<1>11. AfterFgets(p, size) = <<>>
  <2>1. AfterFgets(p, size) = SubSeq(p, k + 1, k)
    BY <1>9, Zenon DEF AfterFgets
  <2>2. SubSeq(p, k + 1, k) = <<>>
    <3> HIDE DEF k
    <3>1. k + 1 \in Int /\ k \in Int /\ k < k + 1
      BY <1>1
    <3> QED
      BY <3>1, SubSeqEmpty
  <2> QED
    BY <2>1, <2>2, Zenon
<1> DEFINE last == IF t[n] = "nl" THEN n - 1 ELSE n
           l == SubSeq(t, 1, last)
<1>12. LineOf(t, size) = l
  BY Zenon DEF LineOf, n
<1>13. last = n - 1 \/ last = n
  BY Zenon
<1> HIDE DEF last
<1>14. last \in 0 .. Len(t) /\ k <= last
  <2> HIDE DEF k
  <2> QED
    BY <1>1, <1>4, <1>6, <1>13
<1>15. Len(l) = last /\ \A i \in 1 .. last : l[i] = t[i]
  BY <1>14, FrontPart, Zenon
<1> HIDE DEF l
<1>16. \A i \in 1 .. k : i \in 1 .. last
  <2> HIDE DEF k
  <2> QED
    BY <1>1, <1>14
<1>17. Len(p) <= Len(l) /\ \A i \in 1 .. Len(p) : p[i] = l[i]
  BY <1>1, <1>14, <1>15, <1>16, Zenon
<1>18. IsFront(p, LineOf(t, size))
  BY <1>12, <1>17, Zenon DEF IsFront
<1> QED
  BY <1>10, <1>11, <1>18, Zenon

\* Otherwise the first piece of both is the same.
LEMMA EndsBehind ==
  ASSUME NEW p \in Seq(Typed), NEW t \in Seq(Typed), IsFront(p, t), t # <<>>, NEW size \in Nat, size >= 2,
         ~(Len(p) < FgetsLength(t, size))
  PROVE  /\ LineOf(p, size) = LineOf(t, size)
         /\ IsFront(AfterFgets(p, size), AfterFgets(t, size))
<1> DEFINE n == FgetsLength(t, size)
<1>1. Len(p) \in Nat /\ Len(t) \in Nat /\ Len(p) <= Len(t) /\ \A i \in 1 .. Len(p) : p[i] = t[i]
  BY LenProperties DEF IsFront
<1>2. Takes(t, size, n)
  BY TakesLength, Zenon
<1>3. /\ n \in 1 .. Len(t) /\ n <= size - 1 /\ \A i \in 1 .. n - 1 : t[i] # "nl"
      /\ n = size - 1 \/ n = Len(t) \/ t[n] = "nl"
  BY <1>2, Zenon DEF Takes
<1>4. ~(Len(p) < n)
  BY Zenon
<1> HIDE DEF n
<1>5. n \in 1 .. Len(p) /\ n \in 1 .. Len(t) /\ n \in 0 .. Len(p) /\ n \in 0 .. Len(t)
      /\ n - 1 \in 0 .. Len(p) /\ n - 1 \in 0 .. Len(t)
      /\ \A i \in 1 .. n : i \in 1 .. Len(p)
  <2>1. n \in 1 .. Len(t)
    BY <1>3, Zenon
  <2> QED
    BY <1>1, <1>4, <2>1
<1>6. \A i \in 1 .. n : p[i] = t[i]
  BY <1>1, <1>5, Zenon
<1>7. \A i \in 1 .. n - 1 : i \in 1 .. n
  BY <1>5
<1>8. n \in 1 .. n /\ (n = Len(t) => n = Len(p))
  BY <1>1, <1>5
<1>9. Takes(p, size, n)
  <2>1. \A i \in 1 .. n - 1 : p[i] # "nl"
    BY <1>3, <1>6, <1>7, Zenon
  <2>2. n = size - 1 \/ n = Len(p) \/ p[n] = "nl"
    BY <1>3, <1>6, <1>8, Zenon
  <2> QED
    BY <1>3, <1>5, <2>1, <2>2, Zenon DEF Takes
<1>10. FgetsLength(p, size) = n
  BY <1>9, TakenLength, Zenon
<1> DEFINE last == IF t[n] = "nl" THEN n - 1 ELSE n
<1>11. p[n] = t[n]
  BY <1>6, <1>8, Zenon
<1>12. LineOf(p, size) = SubSeq(p, 1, last)
  BY <1>10, <1>11, Zenon DEF LineOf
<1>13. LineOf(t, size) = SubSeq(t, 1, last)
  BY Zenon DEF LineOf, n
<1>14. last = n - 1 \/ last = n
  BY Zenon
<1> HIDE DEF last
<1>15. last \in 0 .. Len(p) /\ last \in 0 .. Len(t) /\ \A i \in 1 .. last : i \in 1 .. n
  BY <1>5, <1>14
<1>16. \A i \in 1 .. last : p[i] = t[i]
  BY <1>6, <1>15, Zenon
<1>17. SubSeq(p, 1, last) = SubSeq(t, 1, last)
  BY <1>15, <1>16, SameFront, Zenon
<1>18. n + 1 \in 1 .. Len(p) + 1
  BY <1>1, <1>5
<1>19. IsFront(EndFrom(p, n + 1), EndFrom(t, n + 1))
  BY <1>18, EndFront, Zenon
<1>20. AfterFgets(p, size) = EndFrom(p, n + 1)
  BY <1>10, Zenon DEF AfterFgets, EndFrom
<1>21. AfterFgets(t, size) = EndFrom(t, n + 1)
  BY Zenon DEF AfterFgets, EndFrom, n
<1> QED
  BY <1>12, <1>13, <1>17, <1>19, <1>20, <1>21, Zenon

-------------------------------------------------------------------------------
(* Books that are cut short *)

IsTorn(d, b) == d = [b EXCEPT !.year = d.year] /\ LostDigits(d.year, b.year)
TornBooks == {w \in Book \X Book : IsTorn(w[1], w[2])}

LEMMA TornBooksIs ==
  ASSUME NEW d \in Book, NEW b \in Book
  PROVE  <<d, b>> \in TornBooks <=> IsTorn(d, b)
<1> DEFINE w == <<d, b>>
<1>1. w[1] = d /\ w[2] = b
  OBVIOUS
<1>2. w \in Book \X Book
  BY Zenon
<1> HIDE DEF w
<1>3. w \in TornBooks <=> IsTorn(w[1], w[2])
  BY <1>2, Zenon DEF TornBooks
<1>4. w \in TornBooks <=> IsTorn(d, b)
  BY <1>1, <1>3, Zenon
<1> QED
  BY <1>4, Zenon DEF w

LEMMA WholeIsTorn == ASSUME NEW b \in Book PROVE <<b, b>> \in TornBooks
<1>1. b.year \in Nat
  BY LineForType, Zenon
<1>2. b = [b EXCEPT !.year = b.year]
  BY DEF Book
<1>3. LostDigits(b.year, b.year)
  BY <1>1, NothingLost, Zenon
<1>4. IsTorn(b, b)
  BY <1>2, <1>3, Zenon DEF IsTorn
<1> QED
  BY <1>4, TornBooksIs, Zenon

\* The tokens of a line of which four are left.
LEMMA FirstFour ==
  ASSUME NEW x \in Seq(Seq(Characters)), NEW y \in Seq(Seq(Characters)), Frays(x, y, Fronts), Len(x) >= 4
  PROVE  /\ Len(y) >= 4 /\ x[1] = y[1] /\ x[2] = y[2] /\ x[3] = y[3]
         /\ x[4] \in Seq(Characters) /\ y[4] \in Seq(Characters) /\ IsFront(x[4], y[4])
<1>1. Len(x) \in Nat /\ Len(y) \in Nat /\ Len(x) <= Len(y) /\ \A i \in 1 .. Len(x) - 1 : x[i] = y[i]
  BY LenProperties DEF Frays
<1>2. 1 \in 1 .. Len(x) - 1 /\ 2 \in 1 .. Len(x) - 1 /\ 3 \in 1 .. Len(x) - 1 /\ Len(y) >= 4
      /\ 4 \in 1 .. Len(x) /\ 4 \in 1 .. Len(y)
  BY <1>1
<1>3. x[4] \in Seq(Characters) /\ y[4] \in Seq(Characters)
  BY <1>2, ElementOfSeq, Zenon
<1>4. CASE Len(x) = 4
  <2>1. Len(x) # 0
    BY <1>4
  <2>2. <<x[4], y[4]>> \in Fronts
    BY <1>4, <2>1, Zenon DEF Frays
  <2> DEFINE w == <<x[4], y[4]>>
  <2>3. w[1] = x[4] /\ w[2] = y[4]
    OBVIOUS
  <2>4. IsFront(w[1], w[2])
    BY <2>2, FrontAgain, Zenon
  <2> HIDE DEF w
  <2>5. IsFront(x[4], y[4])
    BY <2>3, <2>4, Zenon
  <2> QED
    BY <1>1, <1>2, <1>3, <2>5, Zenon
<1>5. CASE Len(x) # 4
  <2>1. 4 \in 1 .. Len(x) - 1
    <3>1. Len(x) \in Nat /\ Len(x) >= 4 /\ Len(x) # 4
      BY <1>1, <1>5, Zenon
    <3> DEFINE n == Len(x)
    <3> HIDE DEF n
    <3>2. n \in Nat /\ n >= 4 /\ n # 4
      BY <3>1, Zenon DEF n
    <3>3. 4 \in 1 .. n - 1
      BY <3>2
    <3> QED
      BY <3>3, Zenon DEF n
  <2>2. x[4] = y[4]
    BY <1>1, <2>1, Zenon
  <2>3. IsFront(x[4], x[4])
    BY <1>3, FrontOfItself, Zenon
  <2>4. IsFront(x[4], y[4])
    BY <2>2, <2>3, Zenon
  <2> QED
    BY <1>1, <1>2, <1>3, <2>4, Zenon
<1> QED
  BY <1>4, <1>5, Zenon

\* A line that is cut short and still makes a book makes that of the whole line,
\* but for digits of its year.
LEMMA BookTorn ==
  ASSUME NEW p \in Seq(Characters), NEW l \in Seq(Characters), IsFront(p, l), p # <<>>, Loadable(p)
  PROVE  Loadable(l) /\ <<BookFrom(p), BookFrom(l)>> \in TornBooks
<1> DEFINE x == Tokens(p)
           y == Tokens(l)
<1>1. x \in Seq(Seq(Characters))
  BY TokensOf, Zenon
<1>2. y \in Seq(Seq(Characters))
  BY TokensOf, Zenon
<1>3. Frays(x, y, Fronts)
  BY TokensFray, Zenon DEF FraysLike
<1>4. Len(x) >= 4 /\ Enough(x) /\ ~Comment(p)
  BY Zenon DEF Loadable, Enough
<1> HIDE DEF x, y
<1>5. /\ Len(y) >= 4 /\ x[1] = y[1] /\ x[2] = y[2] /\ x[3] = y[3]
      /\ x[4] \in Seq(Characters) /\ y[4] \in Seq(Characters) /\ IsFront(x[4], y[4])
  BY <1>1, <1>2, <1>3, <1>4, FirstFour, Zenon
<1>6. Enough(y)
  BY <1>5, Zenon DEF Enough
<1>7. l # <<>> /\ l[1] = p[1]
  <2>1. Len(p) \in Nat /\ Len(p) # 0 /\ Len(l) \in Nat /\ Len(p) <= Len(l)
    BY LenProperties, EmptySeq DEF IsFront
  <2>2. Len(l) # 0 /\ 1 \in 1 .. Len(p)
    BY <2>1
  <2>3. Len(<<>>) = 0
    BY EmptySeq
  <2>4. l # <<>>
    BY <2>2, <2>3, Zenon
  <2>5. l[1] = p[1]
    BY <2>2, Zenon DEF IsFront
  <2> QED
    BY <2>4, <2>5, Zenon
<1>8. Loadable(l)
  BY <1>4, <1>6, <1>7, Zenon DEF Loadable, Comment, y
<1> DEFINE d == BookFrom(p)
           b == BookFrom(l)
           title == Cut(Trim(y[1]))
           author == Cut(Trim(y[2]))
           genre == Cut(Trim(y[3]))
           torn == Atoi(Trim(x[4]))
           whole == Atoi(Trim(y[4]))
<1>9. d \in Book /\ d = [title |-> Cut(Trim(x[1])), author |-> Cut(Trim(x[2])),
                         genre |-> Cut(Trim(x[3])), year |-> torn]
  BY <1>4, BookFromIs, Zenon DEF x
<1>10. b \in Book /\ b = [title |-> title, author |-> author, genre |-> genre, year |-> whole]
  BY <1>6, BookFromIs, Zenon DEF y
<1>11. d = [title |-> title, author |-> author, genre |-> genre, year |-> torn]
  BY <1>5, <1>9, Zenon
<1>12. LostDigits(torn, whole)
  BY <1>5, YearLost, Zenon
<1>13. d \in Book /\ b \in Book
  BY <1>9, <1>10, Zenon
<1> HIDE DEF d, b, title, author, genre, torn, whole
<1>14. d.year = torn /\ b.year = whole /\ d = [b EXCEPT !.year = torn]
  BY <1>10, <1>11
<1>15. IsTorn(d, b)
  BY <1>12, <1>14, Zenon DEF IsTorn
<1>16. <<d, b>> \in TornBooks
  BY <1>13, <1>15, TornBooksIs, Zenon
<1> QED
  BY <1>8, <1>16, Zenon DEF d, b

TearsLike(p, t) == Frays(BooksIn(p), BooksIn(t), TornBooks)

LEMMA NothingTears ==
  ASSUME NEW p \in Seq(Typed), NEW t \in Seq(Typed), p = <<>>
  PROVE  TearsLike(p, t)
<1>1. BooksIn(p) = <<>>
  BY BooksOf, Zenon
<1>2. BooksIn(t) \in Seq(Book)
  BY BooksOf, Zenon
<1>3. Frays(<<>>, BooksIn(t), TornBooks)
  BY <1>2, NothingFrays, Zenon
<1> QED
  BY <1>1, <1>3, Zenon DEF TearsLike

\* The text ends within the first line of the whole.
LEMMA TearsWithin ==
  ASSUME NEW p \in Seq(Typed), NEW t \in Seq(Typed), IsFront(p, t), p # <<>>, t # <<>>,
         Len(p) < FgetsLength(t, MaxLine)
  PROVE  TearsLike(p, t)
<1> DEFINE l == LineOf(t, MaxLine)
           rest == AfterFgets(t, MaxLine)
           y == BooksIn(rest)
<1>1. MaxLine \in Nat /\ MaxLine >= 2
  BY BuffersFit, Zenon
<1>2. LineOf(p, MaxLine) = p /\ AfterFgets(p, MaxLine) = <<>> /\ IsFront(p, l)
  BY <1>1, EndsWithin, Zenon
<1>3. l \in Seq(Characters) /\ rest \in Seq(Typed)
  <2>1. l \in Seq(Characters)
    BY <1>1, LineOfType, Zenon
  <2>2. rest \in Seq(Typed)
    BY <1>1, FgetsTakes, Zenon
  <2> QED
    BY <2>1, <2>2, Zenon
<1>4. p \in Seq(Characters)
  <2>1. LineOf(p, MaxLine) \in Seq(Characters)
    BY <1>1, LineOfType, Zenon
  <2> QED
    BY <1>2, <2>1, Zenon
<1>5. BooksIn(t) = BookOf(l) \o y
  BY BooksOf, Zenon
<1> HIDE DEF l, rest, y
<1>6. y \in Seq(Book)
  <2>1. BooksIn(rest) \in Seq(Book)
    BY <1>3, BooksOf, Zenon
  <2> QED
    BY <2>1, Zenon DEF y
<1>7. BooksIn(p) = BookOf(p)
  <2>1. BooksIn(p) = BookOf(LineOf(p, MaxLine)) \o BooksIn(AfterFgets(p, MaxLine))
    BY BooksOf, Zenon
  <2>2. <<>> \in Seq(Typed)
    BY EmptySeq, Zenon
  <2>3. BooksIn(<<>>) = <<>>
    BY <2>2, BooksOf, Zenon
  <2>4. BooksIn(p) = BookOf(p) \o <<>>
    BY <1>2, <2>1, <2>3, Zenon
  <2>5. BookOf(p) \in Seq(Book)
    BY <1>4, BookOfType, Zenon
  <2>6. BookOf(p) \o <<>> = BookOf(p)
    BY <2>5, ConcatEmptySeq, Zenon
  <2> QED
    BY <2>4, <2>6, Zenon
<1>8. CASE Loadable(p)
  <2> DEFINE d == BookFrom(p)
             b == BookFrom(l)
  <2>1. Loadable(l) /\ <<d, b>> \in TornBooks
    BY <1>2, <1>3, <1>4, <1>8, BookTorn, Zenon
  <2>2. d \in Book
    BY <1>4, BookFromIs, Zenon
  <2>3. b \in Book
    BY <1>3, BookFromIs, Zenon
  <2>4. BookOf(p) = <<d>> /\ BookOf(l) = <<b>>
    BY <1>8, <2>1, Zenon DEF BookOf
  <2> HIDE DEF d, b
  <2>5. Frays(<<d>>, <<b>> \o y, TornBooks)
    BY <1>6, <2>1, <2>2, <2>3, LastFrays, Zenon
  <2> QED
    BY <1>5, <1>7, <2>4, <2>5, Zenon DEF TearsLike
<1>9. CASE ~Loadable(p)
  <2>1. BooksIn(p) = <<>>
    BY <1>7, <1>9, Zenon DEF BookOf
  <2>2. BooksIn(t) \in Seq(Book)
    BY BooksOf, Zenon
  <2>3. Frays(<<>>, BooksIn(t), TornBooks)
    BY <2>2, NothingFrays, Zenon
  <2> QED
    BY <2>1, <2>3, Zenon DEF TearsLike
<1> QED
  BY <1>8, <1>9, Zenon

\* The text ends behind the first line of the whole.
LEMMA TearsBehind ==
  ASSUME NEW p \in Seq(Typed), NEW t \in Seq(Typed), IsFront(p, t), p # <<>>, t # <<>>,
         ~(Len(p) < FgetsLength(t, MaxLine)),
         \A q, u \in Seq(Typed) : Len(q) < Len(p) /\ IsFront(q, u) => TearsLike(q, u)
  PROVE  TearsLike(p, t)
<1> DEFINE l == LineOf(t, MaxLine)
           q == AfterFgets(p, MaxLine)
           u == AfterFgets(t, MaxLine)
           x == BooksIn(q)
           y == BooksIn(u)
<1>1. MaxLine \in Nat /\ MaxLine >= 2
  BY BuffersFit, Zenon
<1>2. LineOf(p, MaxLine) = l /\ IsFront(q, u)
  BY <1>1, EndsBehind, Zenon
<1>3. l \in Seq(Characters)
  BY <1>1, LineOfType, Zenon
<1>4. u \in Seq(Typed)
  BY <1>1, FgetsTakes, Zenon
<1>5. q \in Seq(Typed) /\ IsRest(p, q)
  BY <1>1, FgetsTakes, Zenon
<1>6. BooksIn(t) = BookOf(l) \o y
  BY BooksOf, Zenon
<1>7. BooksIn(p) = BookOf(l) \o x
  <2>1. BooksIn(p) = BookOf(LineOf(p, MaxLine)) \o BooksIn(AfterFgets(p, MaxLine))
    BY BooksOf, Zenon
  <2> QED
    BY <1>2, <2>1, Zenon
<1> HIDE DEF l, q, u
<1>8. Len(q) < Len(p)
  <2>1. PICK k \in 1 .. Len(p) : q = EndFrom(p, k + 1)
    BY <1>5, Zenon DEF IsRest
  <2>2. k + 1 \in 1 .. Len(p) + 1 /\ Len(p) \in Nat
    BY LenProperties
  <2>3. Len(EndFrom(p, k + 1)) = Len(p) + 1 - (k + 1)
    BY <2>2, EndFromIs, Zenon
  <2>4. Len(q) = Len(p) + 1 - (k + 1)
    BY <2>1, <2>3, Zenon
  <2> QED
    BY <2>2, <2>4
<1>9. TearsLike(q, u)
  BY <1>2, <1>4, <1>5, <1>8, Zenon
<1>10. x \in Seq(Book)
  BY <1>5, BooksOf, Zenon
<1>11. y \in Seq(Book)
  BY <1>4, BooksOf, Zenon
<1>12. Frays(x, y, TornBooks)
  BY <1>9, Zenon DEF TearsLike
<1> HIDE DEF x, y
<1>13. CASE Loadable(l)
  <2> DEFINE b == BookFrom(l)
  <2>1. b \in Book
    BY <1>3, BookFromIs, Zenon
  <2>2. BookOf(l) = <<b>>
    BY <1>13, Zenon DEF BookOf
  <2> HIDE DEF b
  <2>3. <<b, b>> \in TornBooks
    BY <2>1, WholeIsTorn, Zenon
  <2>4. Frays(<<b>> \o x, <<b>> \o y, TornBooks)
    BY <1>10, <1>11, <1>12, <2>1, <2>3, FrayFront, Zenon
  <2> QED
    BY <1>6, <1>7, <2>2, <2>4, Zenon DEF TearsLike
<1>14. CASE ~Loadable(l)
  <2>1. BookOf(l) = <<>>
    BY <1>14, Zenon DEF BookOf
  <2>2. <<>> \o x = x
    BY <1>10, ConcatEmptySeq, Zenon
  <2>3. <<>> \o y = y
    BY <1>11, ConcatEmptySeq, Zenon
  <2> QED
    BY <1>6, <1>7, <1>12, <2>1, <2>2, <2>3, Zenon DEF TearsLike
<1> QED
  BY <1>13, <1>14, Zenon

\* The books of a text that is cut short are the first ones of the whole.
LEMMA TextTears ==
  ASSUME NEW p \in Seq(Typed), NEW t \in Seq(Typed), IsFront(p, t)
  PROVE  TearsLike(p, t)
<1> DEFINE U == {n \in Nat : \A q, u \in Seq(Typed) : Len(q) <= n /\ IsFront(q, u) => TearsLike(q, u)}
<1>1. 0 \in U
  <2>1. \A q \in Seq(Typed) : Len(q) <= 0 => q = <<>>
    BY LenProperties, EmptySeq
  <2> QED
    BY <2>1, NothingTears, Zenon
<1>2. ASSUME NEW n \in U PROVE n + 1 \in U
  <2>1. n \in Nat /\ \A q, u \in Seq(Typed) : Len(q) <= n /\ IsFront(q, u) => TearsLike(q, u)
    BY Zenon DEF U
  <2> DEFINE k == n + 1
  <2>2. ASSUME NEW q \in Seq(Typed), NEW u \in Seq(Typed), Len(q) <= k, IsFront(q, u)
        PROVE  TearsLike(q, u)
    <3>1. CASE q = <<>>
      BY <3>1, NothingTears, Zenon
    <3>2. CASE q # <<>>
      <4>1. \A a \in Seq(Typed) : Len(a) < Len(q) => Len(a) <= n
        BY <2>1, <2>2, LenProperties
      <4>2. \A a, b \in Seq(Typed) : Len(a) < Len(q) /\ IsFront(a, b) => TearsLike(a, b)
        BY <2>1, <4>1, Zenon
      <4>3. u # <<>>
        <5>1. Len(q) \in Nat /\ Len(q) # 0 /\ Len(u) \in Nat /\ Len(q) <= Len(u)
          BY <2>2, <3>2, LenProperties, EmptySeq DEF IsFront
        <5>2. Len(u) # 0
          BY <5>1
        <5>3. Len(<<>>) = 0
          BY EmptySeq
        <5> QED
          BY <5>2, <5>3, Zenon
      <4>4. CASE Len(q) < FgetsLength(u, MaxLine)
        BY <2>2, <3>2, <4>3, <4>4, TearsWithin, Zenon
      <4>5. CASE ~(Len(q) < FgetsLength(u, MaxLine))
        BY <2>2, <3>2, <4>2, <4>3, <4>5, TearsBehind, Zenon
      <4> QED
        BY <4>4, <4>5, Zenon
    <3> QED
      BY <3>1, <3>2, Zenon
  <2>3. k \in Nat
    BY <2>1
  <2> HIDE DEF k
  <2>4. k \in U
    BY <2>2, <2>3, Zenon DEF U
  <2> QED
    BY <2>4, Zenon DEF k
<1>3. U = Nat
  <2>1. U \in SUBSET Nat
    OBVIOUS
  <2> HIDE DEF U
  <2> QED
    BY <1>1, <1>2, <2>1, Induction, Zenon
<1>4. Len(p) \in Nat /\ Len(p) <= Len(p)
  BY LenProperties
<1>5. Len(p) \in U
  BY <1>3, <1>4, Zenon
<1> QED
  BY <1>4, <1>5, Zenon DEF U

\* What fits of them is cut short alike.
LEMMA FittingTears ==
  ASSUME NEW x \in Seq(Book), NEW y \in Seq(Book), Frays(x, y, TornBooks)
  PROVE  Frays(Fitting(x), Fitting(y), TornBooks)
<1> DEFINE a == Fitting(x)
           b == Fitting(y)
           n == Len(x)
           m == Len(y)
           c == Len(a)
<1>1. /\ n \in Nat /\ m \in Nat /\ MaxBooks \in Nat /\ n <= m
      /\ \A i \in 1 .. n - 1 : x[i] = y[i]
      /\ n # 0 => <<x[n], y[n]>> \in TornBooks
  BY LenProperties, TextFileAssumption, Zenon DEF Frays
<1>2. c = (IF n > MaxBooks THEN MaxBooks ELSE n) /\ \A i \in 1 .. c : a[i] = x[i]
  BY FittingIs, Zenon
<1>3. Len(b) = (IF m > MaxBooks THEN MaxBooks ELSE m) /\ \A i \in 1 .. Len(b) : b[i] = y[i]
  BY FittingIs, Zenon
<1>4. \A i \in 1 .. n : x[i] \in Book
  BY ElementOfSeq, Zenon
<1> HIDE DEF a, b, n, m, c
<1>5. /\ c \in Nat /\ c <= Len(b) /\ (c = n \/ c <= n - 1)
      /\ \A i \in 1 .. c : i \in 1 .. n /\ i \in 1 .. Len(b)
      /\ \A i \in 1 .. c - 1 : i \in 1 .. n - 1 /\ i \in 1 .. c
      /\ c # 0 => c \in 1 .. c /\ n # 0 /\ (c # n => c \in 1 .. n - 1)
  BY <1>1, <1>2, <1>3
<1>6. \A i \in 1 .. c - 1 : a[i] = b[i]
  BY <1>1, <1>2, <1>3, <1>5, Zenon
<1>7. ASSUME c # 0 PROVE <<a[c], b[c]>> \in TornBooks
  <2>1. a[c] = x[c] /\ b[c] = y[c] /\ x[c] \in Book
    BY <1>2, <1>3, <1>4, <1>5, <1>7, Zenon
  <2>2. CASE c = n
    BY <1>1, <1>5, <1>7, <2>1, <2>2, Zenon
  <2>3. CASE c # n
    <3>1. x[c] = y[c]
      BY <1>1, <1>5, <1>7, <2>3, Zenon
    <3> QED
      BY <2>1, <3>1, WholeIsTorn, Zenon
  <2> QED
    BY <2>2, <2>3, Zenon
<1> QED
  BY <1>5, <1>6, <1>7, Zenon DEF Frays, a, b, c

\* What a save that stopped half way has left loads as its first books
\* (inventory_save writes through stdio, inventory_load takes what is there).
THEOREM TornSavesLoadFirstBooks == Spec => []TornSaveLoadsPrefix
<1>1. FileInvariant => TornSaveLoadsPrefix
  <2> SUFFICES ASSUME FileInvariant PROVE TornSaveLoadsPrefix
    OBVIOUS
  <2>1. /\ saved \in Seq(Book) /\ file \in Seq(Typed) /\ pending \in Seq(Typed)
        /\ \E rest \in Seq(Typed) : SavedText(saved) = (file \o pending) \o rest
    BY Zenon DEF FileInvariant, FileTypes, Begins
  <2>2. PICK rest \in Seq(Typed) : SavedText(saved) = (file \o pending) \o rest
    BY <2>1, Zenon
  <2> DEFINE t == SavedText(saved)
             a == file \o pending
  <2>3. t \in Seq(Typed)
    BY <2>1, SavedIs, Zenon
  <2>4. /\ a \in Seq(Typed) /\ Len(a) = Len(file) + Len(pending)
        /\ \A i \in 1 .. Len(file) + Len(pending) : a[i] = IF i <= Len(file) THEN file[i] ELSE pending[i - Len(file)]
    BY <2>1, ConcatProperties, Zenon
  <2>5. t = a \o rest
    BY <2>2, Zenon
  <2> HIDE DEF t, a
  <2>6. /\ Len(t) = Len(a) + Len(rest)
        /\ \A i \in 1 .. Len(a) + Len(rest) : t[i] = IF i <= Len(a) THEN a[i] ELSE rest[i - Len(a)]
    <3>1. /\ Len(a \o rest) = Len(a) + Len(rest)
          /\ \A i \in 1 .. Len(a) + Len(rest) : (a \o rest)[i] = IF i <= Len(a) THEN a[i] ELSE rest[i - Len(a)]
      <4>1. a \in Seq(Typed) /\ rest \in Seq(Typed)
        BY <2>2, <2>4, Zenon
      <4> QED
        BY <4>1, ConcatProperties, Zenon
    <3> QED
      BY <2>5, <3>1, Zenon
  <2>7. Len(file) \in Nat /\ Len(pending) \in Nat /\ Len(rest) \in Nat
    BY <2>1, LenProperties
  <2>8. Len(file) <= Len(t) /\ \A i \in 1 .. Len(file) : /\ i \in 1 .. Len(file) + Len(pending) /\ i <= Len(file)
                                                         /\ i \in 1 .. Len(a) + Len(rest) /\ i <= Len(a)
    <3>1. Len(a) = Len(file) + Len(pending) /\ Len(t) = Len(a) + Len(rest)
      BY <2>4, <2>6, Zenon
    <3> QED
      BY <2>7, <3>1
  <2>9. \A i \in 1 .. Len(file) : file[i] = t[i]
    BY <2>4, <2>6, <2>8, Zenon
  <2>10. IsFront(file, t)
    BY <2>8, <2>9, Zenon DEF IsFront
  <2>11. TearsLike(file, t)
    BY <2>1, <2>3, <2>10, TextTears, Zenon
  <2> DEFINE torn == Loaded(file)
             whole == Loaded(t)
             n == Len(torn)
  <2>12. BooksIn(file) \in Seq(Book) /\ BooksIn(t) \in Seq(Book)
    BY <2>1, <2>3, BooksOf, Zenon
  <2>13. Frays(torn, whole, TornBooks)
    BY <2>11, <2>12, FittingTears, Zenon DEF TearsLike, Loaded
  <2>14. /\ n <= Len(whole) /\ \A i \in 1 .. n - 1 : torn[i] = whole[i]
         /\ n # 0 => <<torn[n], whole[n]>> \in TornBooks
    BY <2>13, Zenon DEF Frays
  <2>15. torn \in Seq(Book)
    BY <2>12, FittingIs, Zenon DEF Loaded
  <2>16. whole \in Seq(Book)
    BY <2>12, FittingIs, Zenon DEF Loaded
  <2> HIDE DEF torn, whole
  <2>17. ASSUME torn # <<>>
         PROVE  /\ torn[n] = [whole[n] EXCEPT !.year = torn[n].year]
                /\ LostDigits(torn[n].year, whole[n].year)
    <3>1. n \in Nat /\ n # 0 /\ n \in 1 .. n /\ n \in 1 .. Len(whole)
      <4>1. n \in Nat /\ n # 0 /\ Len(whole) \in Nat /\ n <= Len(whole)
        BY <2>14, <2>15, <2>16, <2>17, LenProperties, EmptySeq
      <4> HIDE DEF n
      <4> QED
        BY <4>1
    <3>2. torn[n] \in Book
      BY <2>15, <3>1, ElementOfSeq, Zenon
    <3>3. whole[n] \in Book
      BY <2>16, <3>1, ElementOfSeq, Zenon
    <3>4. <<torn[n], whole[n]>> \in TornBooks
      BY <2>14, <3>1, Zenon
    <3>5. IsTorn(torn[n], whole[n])
      BY <3>2, <3>3, <3>4, TornBooksIs, Zenon
    <3> QED
      BY <3>5, Zenon DEF IsTorn
  <2> QED
    BY <2>14, <2>17, Zenon DEF TornSaveLoadsPrefix, torn, whole, t
<1> QED
  BY FileAlways, <1>1, PTL
===============================================================================
