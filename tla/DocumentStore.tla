---------------------------- MODULE DocumentStore ----------------------------
(***************************************************************************)
(* What the ingestion service promises of each document: a catalogue that   *)
(* says which body it has, and an index that searches read.  The index has  *)
(* all of one body or nothing; the catalogue only ever takes over what the   *)
(* index already has; and a document is changed by one request at a time:    *)
(* nothing is cleared or filled before the last change is in the catalogue.  *)
(*                                                                         *)
(* A request may give up half-way.  The document is broken then: catalogue  *)
(* and index may differ, and a later request clears the index whatever it    *)
(* shows, or, when the catalogue knows of nothing to clear, writes over it.  *)
(* It is whole again when a request ends in the catalogue.                  *)
(***************************************************************************)
CONSTANTS Documents, Bodies, Absent, Mixed

VARIABLES catalogue, index, broken

Init ==
    /\ catalogue = [d \in Documents |-> Absent]
    /\ index = [d \in Documents |-> Absent]
    /\ broken = {}

\* The chunks of a settled document are removed, to be replaced or for good.
Clear(d) ==
    /\ index[d] = catalogue[d] \/ d \in broken
    /\ index' = [index EXCEPT ![d] = Absent]

\* The chunks of a whole body appear at once.
Fill(d, body) ==
    /\ index[d] = Absent
    /\ index' = [index EXCEPT ![d] = body]

\* They appear among what an upload left that the catalogue never heard of.
Overlay(d) ==
    /\ d \in broken /\ catalogue[d] = Absent
    /\ \E x \in Bodies \cup {Mixed} : index' = [index EXCEPT ![d] = x]

Write(d) == Clear(d) \/ Overlay(d) \/ \E body \in Bodies : Fill(d, body)

\* The catalogue follows.
Commit(d) ==
    /\ d \in broken => index[d] = Absent
    /\ catalogue' = [catalogue EXCEPT ![d] = index[d]]
    /\ broken' = broken \ {d}
    /\ UNCHANGED index

\* A request ends with an error, or its worker is killed.
Abandon(d) ==
    /\ Write(d) \/ UNCHANGED index
    /\ broken' = broken \cup {d}
    /\ UNCHANGED catalogue

Next ==
    \E d \in Documents :
        \/ Write(d) /\ UNCHANGED <<catalogue, broken>>
        \/ Commit(d)
        \/ Abandon(d)

Spec == Init /\ [][Next]_<<catalogue, index, broken>>

==============================================================================
