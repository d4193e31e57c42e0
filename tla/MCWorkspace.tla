------------------------------ MODULE MCWorkspace ------------------------------
(* Small instances of WorkspaceDocuments for TLC. *)
EXTENDS WorkspaceDocuments

CONSTANTS w1, w2, x, y

=============================================================================
