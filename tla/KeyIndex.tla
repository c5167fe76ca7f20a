------------------------------- MODULE KeyIndex -------------------------------
(***************************************************************************)
(* What the B-tree promises to the inverted index: a map from keys to page *)
(* locations, with an answer for every search.                             *)
(***************************************************************************)
CONSTANTS Keys, Values, NoValue

VARIABLES map,          \* the location of each key
          answer        \* what the last search returned

vars == <<map, answer>>

Init == /\ map = [k \in Keys |-> NoValue]
        /\ answer = NoValue

Insert(k, v) == /\ map[k] = NoValue
                /\ map' = [map EXCEPT ![k] = v]
                /\ UNCHANGED answer

Update(k, v) == /\ map[k] # NoValue
                /\ map' = [map EXCEPT ![k] = v]
                /\ UNCHANGED answer

Search(k) == /\ answer' = map[k]
             /\ UNCHANGED map

Next == \E k \in Keys : Search(k) \/ \E v \in Values : Insert(k, v) \/ Update(k, v)

Spec == Init /\ [][Next]_vars
===============================================================================
