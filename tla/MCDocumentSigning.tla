------------------------- MODULE MCDocumentSigning -------------------------
(* DocumentSigning for TLC: two turns, the second one of Control Interno.  *)
EXTENDS DocumentSigning, TLC

CONSTANTS p1, p2, p3

\* Only p2 may sign for Control Interno; p2 is also acceptable at turn 1, where
\* the acta already has somebody else.
MCEligible == [s \in 1..2 |-> IF s = 2 THEN {p2} ELSE {p1, p2, p3}]

\* Workers and envelopes are interchangeable.
MCSymmetry == Permutations(Workers) \cup Permutations(Envelopes)

\* Every step that a crash can interrupt.
MCAnyStep == Steps \ {"idle"}
============================================================================
