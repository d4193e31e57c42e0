------------------------------ MODULE MCSelection ------------------------------
(* Small instances of EvidenceSelection for TLC: one proposal, which may be *)
(* authorized twice.                                                        *)
EXTENDS EvidenceSelection

CONSTANT c1
=============================================================================
