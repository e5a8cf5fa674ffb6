------------------------------ MODULE MCCaseText ------------------------------
(* All texts of up to four of three characters, for TLC. *)
EXTENDS CaseText, TLC

MCLower == ("a" :> 97) @@ ("A" :> 97) @@ ("b" :> 98)
MCTexts == UNION {[1 .. n -> Chars] : n \in 0 .. 4}
===============================================================================
