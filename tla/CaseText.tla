------------------------------- MODULE CaseText -------------------------------
(***************************************************************************)
(* Texts without regard to case: the comparison str_casecmp_portable and   *)
(* the search str_casestr_portable of utils.c, one action per test of      *)
(* their loops. All sorting uses the comparison (Books.tla stands on its   *)
(* order when it lets numbers stand for titles and genres), search.c and   *)
(* process_manager.c use the search. Indices are those of the code, from   *)
(* 0; a text is followed by its NUL.                                       *)
(***************************************************************************)
EXTENDS Integers, Sequences

CONSTANTS
  Chars,  \* the characters of texts
  Lower,  \* tolower, as an unsigned char
  Texts   \* the texts the functions are called with

ASSUME TextAssumption == Lower \in [Chars -> Nat \ {0}] /\ Texts \subseteq Seq(Chars)

VARIABLES
  haystack, needle,  \* the arguments; the comparison calls them a and b
  textPc,            \* in the comparison "compare" or "compared", in the search "start",
                     \* "outer", "inner" (the heads of the loops) or "searched"
  place, inner,      \* how far the pointers of the comparison have moved; i and j of the search
  answer             \* what the function returned, 0 before

caseVars == <<haystack, needle, textPc, place, inner, answer>>

CaseInit ==
  /\ haystack \in Texts /\ needle \in Texts
  /\ textPc \in {"compare", "start"} /\ place = 0 /\ inner = 0 /\ answer = 0

Return(where, value) ==
  textPc' = where /\ answer' = value /\ UNCHANGED <<haystack, needle, place, inner>>

(***************************************************************************)
(* The comparison                                                          *)
(***************************************************************************)
\* tolower(*p), the NUL included.
LetterAt(s) == IF place < Len(s) THEN Lower[s[place + 1]] ELSE 0

InBoth == place < Len(haystack) /\ place < Len(needle)

Advance ==
  /\ textPc = "compare" /\ InBoth /\ LetterAt(haystack) = LetterAt(needle)
  /\ place' = place + 1 /\ UNCHANGED <<haystack, needle, textPc, inner, answer>>

Differ ==
  /\ textPc = "compare" /\ InBoth /\ LetterAt(haystack) # LetterAt(needle)
  /\ Return("compared", LetterAt(haystack) - LetterAt(needle))

FaultyEndValue == 0
\* What the function returns when one text is through.
EndValue == LetterAt(haystack) - LetterAt(needle)

End == textPc = "compare" /\ ~InBoth /\ Return("compared", EndValue)

(***************************************************************************)
(* The search                                                              *)
(***************************************************************************)
EmptyNeedle == textPc = "start" /\ needle = <<>> /\ Return("searched", 1)

Begin ==
  /\ textPc = "start" /\ needle # <<>> /\ textPc' = "outer"
  /\ UNCHANGED <<haystack, needle, place, inner, answer>>

EnterInner ==
  /\ textPc = "outer" /\ place < Len(haystack) /\ textPc' = "inner" /\ inner' = 0
  /\ UNCHANGED <<haystack, needle, place, answer>>

NotFound == textPc = "outer" /\ place >= Len(haystack) /\ Return("searched", 0)

\* The condition of the inner loop, and the test in it.
Matches ==
  /\ inner < Len(needle) /\ place + inner < Len(haystack)
  /\ Lower[haystack[place + inner + 1]] = Lower[needle[inner + 1]]

Match ==
  /\ textPc = "inner" /\ Matches /\ inner' = inner + 1
  /\ UNCHANGED <<haystack, needle, textPc, place, answer>>

LeaveInner == textPc = "inner" /\ ~Matches

Found == LeaveInner /\ inner = Len(needle) /\ Return("searched", 1)

FaultyNextStart == place + inner + 1
\* Where the outer loop goes on: the next character, whatever matched.
NextStart == place + 1

TryNext ==
  /\ LeaveInner /\ inner # Len(needle) /\ place' = NextStart /\ textPc' = "outer"
  /\ UNCHANGED <<haystack, needle, inner, answer>>

-------------------------------------------------------------------------------
Over == textPc \in {"compared", "searched"}

Step ==
  \/ Advance \/ Differ \/ End
  \/ EmptyNeedle \/ Begin \/ EnterInner \/ NotFound \/ Match \/ Found \/ TryNext

CaseNext == Step \/ (Over /\ UNCHANGED caseVars)

CaseSpec == CaseInit /\ [][CaseNext]_caseVars

-------------------------------------------------------------------------------
(***************************************************************************)
(* The alphabetical order, whatever the case of the letters.               *)
(***************************************************************************)
SameUpTo(s, t, n) == \A l \in 1 .. n : Lower[s[l]] = Lower[t[l]]

SameText(s, t) == Len(s) = Len(t) /\ SameUpTo(s, t, Len(s))

\* s is a proper prefix of t, or has the smaller letter at the first difference.
Before(s, t) ==
  \E n \in 0 .. Len(s) :
    /\ n < Len(t) /\ SameUpTo(s, t, n)
    /\ n = Len(s) \/ Lower[s[n + 1]] < Lower[t[n + 1]]

\* The sign of what the comparison returns is the alphabetical order of the
\* two texts, also where they differ in length or only in case.
ComparesAlphabetically ==
  textPc = "compared" => /\ answer < 0 <=> Before(haystack, needle)
                         /\ answer = 0 <=> SameText(haystack, needle)
                         /\ answer > 0 <=> Before(needle, haystack)

\* The needle stands in the haystack from index k on, but for case.
OccursAt(k) ==
  /\ k + Len(needle) <= Len(haystack)
  /\ \A l \in 1 .. Len(needle) : Lower[haystack[k + l]] = Lower[needle[l]]

\* The search finds a text exactly when it is there, also when matches that
\* fail overlap one that does not, and at both ends.
FindsOccurrence ==
  textPc = "searched" => answer = IF \E k \in 0 .. Len(haystack) : OccursAt(k) THEN 1 ELSE 0

\* The loops never read behind the NUL of a text: the comparison reads both
\* texts at place, the outer loop of the search the haystack at place, the
\* inner one the haystack at place + inner and the needle at inner.
ReadsInside ==
  /\ textPc = "compare" => place <= Len(haystack) /\ place <= Len(needle)
  /\ textPc = "outer" => place <= Len(haystack)
  /\ textPc = "inner" => inner <= Len(needle) /\ place + inner <= Len(haystack)

(***************************************************************************)
(* The loop invariants: the texts agree up to place; nowhere before place  *)
(* does the needle stand, and its first letters, inner many, match there.  *)
(***************************************************************************)
TextTypes ==
  /\ haystack \in Seq(Chars) /\ needle \in Seq(Chars)
  /\ place \in Nat /\ inner \in Nat /\ answer \in Int
  /\ textPc \in {"compare", "compared", "start", "outer", "inner", "searched"}

CompareInvariant ==
  /\ textPc = "compare" =>
       place <= Len(haystack) /\ place <= Len(needle) /\ SameUpTo(haystack, needle, place)
  /\ ComparesAlphabetically

SearchInvariant ==
  /\ textPc = "start" => place = 0
  /\ textPc \in {"outer", "inner"} => needle # <<>> /\ \A k \in 0 .. place - 1 : ~OccursAt(k)
  /\ textPc = "outer" => place <= Len(haystack)
  /\ textPc = "inner" =>
       /\ place < Len(haystack) /\ inner <= Len(needle) /\ place + inner <= Len(haystack)
       /\ \A l \in 1 .. inner : Lower[haystack[place + l]] = Lower[needle[l]]
  /\ FindsOccurrence

TextInvariant == TextTypes /\ CompareInvariant /\ SearchInvariant
===============================================================================
