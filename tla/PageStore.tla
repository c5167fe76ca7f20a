------------------------------ MODULE PageStore ------------------------------
(***************************************************************************)
(* What the buffer pool promises to the code above it: an array of pages.  *)
(* A caller that has pinned a page sees the last contents written to it,   *)
(* whatever was evicted, flushed or read back in between; a crash takes    *)
(* every page back to contents it had when it was last saved.              *)
(*                                                                         *)
(* Where page I/O may fail, the promise says how much a failure costs: a   *)
(* page that leaves the cache falls back to what the file has, the page    *)
(* that enters it may come back blank, and no other page is touched.       *)
(***************************************************************************)
EXTENDS Integers

CONSTANT Pages          \* page ids of the data file

VARIABLES content,      \* what a caller reads from a page now
          saved,        \* what the page comes back to after a crash
          faults        \* the system calls that may fail, chosen once

vars == <<content, saved, faults>>

Blank == -1             \* contents of a page that could not be read
Torn  == -2             \* contents of a page that was written in part

Init == /\ content = [p \in Pages |-> 0]
        /\ saved = content
        /\ faults \subseteq {"read", "write", "short", "fsync"}

(* A change gives one page contents never seen before. *)
Write(p) == /\ content' = [content EXCEPT ![p] = content'[p]]
            /\ content'[p] \in Nat
            /\ \A q \in Pages : content'[p] > content[q] /\ content'[p] > saved[q]
            /\ UNCHANGED <<saved, faults>>

(* Pages are saved, each as it is or, where writes may be short, torn. *)
Save == /\ \E S \in SUBSET Pages : \E T \in SUBSET S :
             /\ T # {} => "short" \in faults
             /\ saved' = [p \in Pages |-> IF p \in T THEN Torn
                                          ELSE IF p \in S THEN content[p] ELSE saved[p]]
        /\ UNCHANGED <<content, faults>>

(* A page that cannot be read is an empty page to its caller. *)
Unread(p) == /\ "read" \in faults
             /\ content' = [content EXCEPT ![p] = Blank]
             /\ UNCHANGED <<saved, faults>>

(* Page q makes room for page p after a fault: q is saved, torn or neither, *)
(* and reads as what the file has from now on.                             *)
Replace(q, p) ==
    /\ faults \cap {"read", "write", "short"} # {}
    /\ q # p
    /\ \E s \in {saved[q], content[q]} \cup (IF "short" \in faults THEN {Torn} ELSE {}) :
       \E c \in {content[p]} \cup (IF "read" \in faults THEN {Blank} ELSE {}) :
         /\ saved' = [saved EXCEPT ![q] = s]
         /\ content' = [content EXCEPT ![q] = s, ![p] = c]
         /\ UNCHANGED faults

Crash == /\ content' = saved
         /\ UNCHANGED <<saved, faults>>

Next == \/ \E p \in Pages : Write(p) \/ Unread(p)
        \/ \E p, q \in Pages : Replace(q, p)
        \/ Save
        \/ Crash

Spec == Init /\ [][Next]_vars
=============================================================================
