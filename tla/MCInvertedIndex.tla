---------------------------- MODULE MCInvertedIndex ----------------------------
(* Small instances of InvertedIndex for TLC. *)
EXTENDS InvertedIndex

CONSTANTS a, b, c, l    \* c has the hash of b, l is too long and cut to a

MCWords    == {a, b, c, l}
MCTermHash == [w \in MCWords |-> CASE w = a -> 1 [] w = l -> 3 [] OTHER -> 2]
MCStored   == [w \in MCWords |-> IF w = l THEN a ELSE w]
MCTerms    == 1..4
MCTexts    == UNION {[1..n -> {a, b}] : n \in 1..3} \cup {<<c, b>>, <<a, l>>}
MCQueries  == {<<b>>, <<l>>}

(* One word per term id, as if every hash were different. *)
PlainWords    == {1, 2}
PlainTermHash == [w \in PlainWords |-> w]
PlainTexts    == UNION {[1..n -> PlainWords] : n \in 1..3}
PlainQueries  == {}
================================================================================
