------------------------- MODULE MCSensitiveFilter --------------------------
(***************************************************************************)
(* Instances of SensitiveFilter for TLC: texts of two letters, one of them *)
(* in both cases, and a letter that is two in lower case; all words of up  *)
(* to three letters.                                                       *)
(***************************************************************************)
EXTENDS SensitiveFilter

TypedLetters == {"a", "b", "A", "I"}
TypedLower == [c \in TypedLetters |-> CASE c = "A" -> <<"a">> [] c = "I" -> <<"b", "a">>
                                        [] OTHER -> <<c>>]

TypedChars == {"a", "b"}
WordsOfThree == UNION {[1..n -> TypedChars] : n \in 1..3}
\* Up to two of them at once.
UpToTwo == {{}} \union {{v, w} : v \in WordsOfThree, w \in WordsOfThree}
=============================================================================
