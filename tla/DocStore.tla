------------------------------- MODULE DocStore -------------------------------
(***************************************************************************)
(* What a shard promises to those who insert, delete and search: the live  *)
(* documents, each under its terms.  Saving pages, and closing the shard   *)
(* and opening it again, change nothing of it.                             *)
(***************************************************************************)
CONSTANTS Nodes,        \* document identities
          Terms,        \* term ids
          Texts,        \* what a document can be, and
          TermsOf(_)    \* the terms of each

VARIABLE listed         \* the documents a search for each term lists

Init == listed = [t \in Terms |-> {}]

Live == UNION {listed[t] : t \in Terms}

(* A document enters under each of its terms at once ... *)
Insert(n, text) ==
    /\ n \notin Live
    /\ listed' = [t \in Terms |-> IF t \in TermsOf(text) THEN listed[t] \cup {n} ELSE listed[t]]

(* ... and leaves all of them at once, no other document with it. *)
Delete(n) == /\ n \in Live
             /\ listed' = [t \in Terms |-> listed[t] \ {n}]

Next == \E n \in Nodes : Delete(n) \/ \E text \in Texts : Insert(n, text)

Spec == Init /\ [][Next]_listed
===============================================================================
