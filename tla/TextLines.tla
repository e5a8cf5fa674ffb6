------------------------------- MODULE TextLines -------------------------------
(***************************************************************************)
(* What the C library and utils.c do to lines of text: fgets, read_line,   *)
(* trim, strtok_r, atoi, strtol, and %d.                                   *)
(*                                                                         *)
(* Characters are a letter "a", the digits, " " (any white space), the two *)
(* that mean something in the text file of an inventory, "|" and "#", and  *)
(* the newline "nl".                                                       *)
(***************************************************************************)
EXTENDS Integers, Sequences, SequencesExt

Digits == {"0", "1", "2", "3", "4", "5", "6", "7", "8", "9"}
DigitFor == <<"0", "1", "2", "3", "4", "5", "6", "7", "8", "9">>
DigitValue == [d \in Digits |-> CHOOSE n \in 0 .. 9 : DigitFor[n + 1] = d]
Characters == Digits \cup {"a", " ", "|", "#"}

\* The characters fgets takes into a buffer of the given size: up to and with
\* the first newline, and one place is for the NUL.
FgetsLength(s, size) ==
  LET newline == SelectInSeq(s, LAMBDA c : c = "nl")
      room == IF Len(s) < size - 1 THEN Len(s) ELSE size - 1
  IN  IF newline \in 1 .. room THEN newline ELSE room

\* What it took, without the newline.
LineOf(s, size) ==
  LET taken == FgetsLength(s, size)
  IN  SubSeq(s, 1, IF s[taken] = "nl" THEN taken - 1 ELSE taken)

AfterFgets(s, size) == SubSeq(s, FgetsLength(s, size) + 1, Len(s))

FaultyTrim(s) ==
  LET first == SelectInSeq(s, LAMBDA c : c # " ")
  IN  IF first = 0 THEN <<>> ELSE SubSeq(s, first, Len(s))
Trim(s) ==
  LET first == SelectInSeq(s, LAMBDA c : c # " ")
      last == SelectLastInSeq(s, LAMBDA c : c # " ")
  IN  IF first = 0 THEN <<>> ELSE SubSeq(s, first, last)

\* The characters before the first separator, and those after it.
FirstRun(s) ==
  LET bar == SelectInSeq(s, LAMBDA c : c = "|")
  IN  SubSeq(s, 1, IF bar = 0 THEN Len(s) ELSE bar - 1)
AfterRun(s) == SubSeq(s, Len(FirstRun(s)) + 2, Len(s))

\* The tokens of strtok_r: the runs between separators; none is empty.
Tokens(s) ==
  LET tokens[t \in Suffixes(s)] ==
        IF t = <<>> THEN <<>>
        ELSE (IF FirstRun(t) = <<>> THEN <<>> ELSE <<FirstRun(t)>>) \o tokens[AfterRun(t)]
  IN  tokens[s]

\* The number a text of digits writes; no digit at all is zero.
ValueOf(s) ==
  LET value[k \in 0 .. Len(s)] == IF k = 0 THEN 0 ELSE 10 * value[k - 1] + DigitValue[s[k]]
  IN  value[Len(s)]

\* atoi stops at the first character that is not a digit.
Atoi(s) ==
  LET stop == SelectInSeq(s, LAMBDA c : c \notin Digits)
  IN  ValueOf(IF stop = 0 THEN s ELSE SubSeq(s, 1, stop - 1))

\* strtol consumes the whole of a text that is not empty; it skips white
\* space in front.
IsNumber(s) ==
  LET first == SelectInSeq(s, LAMBDA c : c # " ")
  IN  first # 0 /\ \A i \in first .. Len(s) : s[i] \in Digits
ValueOfNumber(s) == ValueOf(SubSeq(s, SelectInSeq(s, LAMBDA c : c # " "), Len(s)))

\* %d, for numbers that are not negative.
Decimal(n) ==
  LET decimal[k \in 0 .. n] ==
        IF k < 10 THEN <<DigitFor[k + 1]>> ELSE Append(decimal[k \div 10], DigitFor[(k % 10) + 1])
  IN  decimal[n]
===============================================================================
