----------------------------- MODULE MCScanner -----------------------------
(* ScannerCalls for TLC: every text up to a length over an alphabet for    *)
(* each part of the scanner, and longer ones that need more.               *)
EXTENDS ScannerCalls

(* as, at, ranges; experimental_, testing_ and an upper case É before them. *)
As     == <<97, 115>>
AtWord == <<97, 116>>
Ranges == <<114, 97, 110, 103, 101, 115>>
TestingRanges == <<116, 101, 115, 116, 105, 110, 103, 95>> \o Ranges
ExperimentalRanges ==
    <<69, 120, 112, 101, 114, 105, 109, 101, 110, 116, 97, 108, 95>> \o Ranges

SomeKeywords    == {As, AtWord, Ranges}
SomeReserved    == {As}
SomeExperimental == {Ranges}

(* Texts of at most n bytes of an alphabet. *)
Over(alphabet, n) == UNION {[1..k -> alphabet] : k \in 0..n}

(* Unicode, as far as it is in the texts: A with a macron has a lower case, *)
(* and a, e and E with a combining acute accent have composed forms.       *)
SomeLower == [v \in {256} |-> 257]

Accent == <<204, 129>>
SomeComposed == (<<97>> \o Accent :> <<195, 161>>) @@ (<<101>> \o Accent :> <<195, 169>>)
                @@ (<<69>> \o Accent :> <<195, 137>>)
Accented == {FlattenSeq(t) : t \in Over({<<97>>, <<69>>, <<196, 128>>, Accent}, 2)}

SomeTexts ==
    Over({47, 42, 45, 62, 10}, 5)                    \* / * - > newline
    \cup Over({33, 126, 42, 60, 61, 124, 58, 35}, 3) \* ! ~ * < = | : #
    \cup Over({39, 39, 10, 32, 120, 66, 49}, 4)      \* ' newline space x B 1
    \cup Over({34, 39, 98, 92, 101}, 4)              \* " ' b \ e
    \cup {<<39, 97, 39>> \o t \o <<39>> : t \in Over({10, 32, 39}, 3)}
    \cup {<<101, 39, 92>> \o t \o <<39>> :
              t \in Over({120, 117, 52, 51, 55, 122}, 3)}     \* e'\ x u 4 3 7 z
    \cup {<<101, 39, 92>> \o t \o <<39>> :                     \* e'\u00e9' and beyond the runes
              t \in {<<117,48,48,101,57>>, <<117,100,56,48,48>>, <<85,48,48,49,49,48,48,48,48>>,
                     <<85,56,48,48,48,48,48,52,49>>, [i \in 1..9 |-> IF i = 1 THEN 85 ELSE 70]}}
    \cup {<<120, 39>> \o t : t \in Over({97, 70, 39, 10}, 4)} \* x' a F
    \cup Over({36, 97, 32, 49}, 5)                   \* $ a space 1
    \cup {<<36, 97, 98, 36>> \o t : t \in Over({36, 97, 98}, 6)}   \* $ab$
    \cup Over({48, 49, 46, 101, 120, 43, 97}, 4)     \* 0 1 . e x + a
    \cup {<<101, 39>> \o t \o <<39>> : t \in Over({195, 169, 255}, 3)}
    \cup Over({65, 97, 195, 137, 36, 196, 176}, 3)   \* A a, bytes of É and dotted I
    \cup Accented \cup {<<34>> \o s \o <<34>> : s \in Accented}
    \cup Over({59, 97, 32, 0, 39}, 5)                \* ; a space NUL '
    \cup {<<65, 32, 101, 39>> \o t \o <<39, 66, 39>> : t \in Over({97, 255, 39, 32}, 3)}
    \cup {TestingRanges, ExperimentalRanges, ExperimentalRanges \o <<97>>,
          <<116, 101, 115, 116, 105, 110, 103, 95>> \o As}
    \cup {<<36>> \o t : t \in Over({48, 49}, 3)}     \* $ 0 1

(* Valid UTF-8 for strings: é, the euro sign, U+FFFD and a rune of four bytes too. *)
Pieces == {<<97>>, <<39>>, <<34>>, <<92>>, <<10>>, <<127>>, <<0>>, <<195, 169>>,
           <<226, 130, 172>>, <<239, 191, 189>>, <<240, 159, 152, 128>>}
Joined(n) == UNION {{FlattenSeq(t) : t \in [1..k -> Pieces]} : k \in 0..n}

Value(k, v) == [kind |-> k, value |-> v]

SomeValues ==
    {Value("string", v) : v \in Joined(2)}
    \cup {Value("bytes", v) : v \in Over({97, 39, 92, 9, 31, 48, 255}, 3)}
    \cup {Value(k, v) : k \in {"restricted", "unrestricted"},
                        v \in Over({97, 65, 34, 95, 36}, 3)
                              \cup {FlattenSeq(t) : t \in [1..2 -> Pieces \ {<<0>>}]}
                              \cup {<<101, 195, 169>>, <<97, 196, 128>>, <<196, 129>>}
                              \cup {As, AtWord, Ranges}}

NamesWithPrefix == {Value("restricted", v) : v \in {As, AtWord, Ranges, TestingRanges}}

SomeFollowers == {<<>>, <<32>>, <<44>>, <<10, 45, 45>>}  \* nothing, a blank, a comma, a comment

NoTexts == {}
=============================================================================
