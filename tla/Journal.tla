-------------------------------- MODULE Journal --------------------------------
(***************************************************************************)
(* What a session store promises: an append-only journal of which the      *)
(* agent reads the most recent part.  The part grows at its end with the   *)
(* journal and shrinks at its beginning only; an entry leaves it when it   *)
(* is on the shelf, and it never comes back.                               *)
(***************************************************************************)
EXTENDS Naturals, Sequences

CONSTANT Entry

VARIABLES
    journal,  \* all entries, in order
    recent,   \* the end of the journal that is read
    shelf     \* entries that were put away

vars == <<journal, recent, shelf>>

Init == journal = <<>> /\ recent = <<>> /\ shelf = {}

Write(e) ==
    /\ journal' = Append(journal, e)
    /\ recent' = Append(recent, e)
    /\ shelf' = shelf

\* The first n entries leave; entries are put away with them or beforehand.
Leave(n) ==
    /\ recent' = SubSeq(recent, n + 1, Len(recent))
    /\ shelf \subseteq shelf'
    /\ \A i \in 1 .. n : recent[i] \in shelf'
    /\ \A e \in shelf' \ shelf : \E i \in 1 .. Len(recent) : e = recent[i]
    /\ journal' = journal

Next ==
    \/ \E e \in Entry : Write(e)
    \/ \E n \in 0 .. Len(recent) : Leave(n)

Spec == Init /\ [][Next]_vars
=============================================================================
