-------------------------- MODULE MCEvidenceLedger --------------------------
(* Two signals, a claim, a question and two extractions. *)
EXTENDS EvidenceLedger

CONSTANTS s1, s2, c1, u1, r1, r2
=============================================================================
