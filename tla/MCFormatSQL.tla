--------------------------- MODULE MCFormatSQL ---------------------------
(* FormatSQL on all texts of up to MaxLen lexemes, and on all texts of up  *)
(* to MaxComments lexemes made of line comments, newlines, words and       *)
(* semicolons.                                                             *)
EXTENDS FormatSQL

CONSTANTS MaxLen, MaxComments

Texts(K, n) == {s \in UNION {[1..k -> K] : k \in 0..n} : WellFormed(s)}

MCInputs == Texts(Lexeme, MaxLen) \cup
            Texts({"lcom", "nl", "word", "semi"}, MaxComments)
==========================================================================
