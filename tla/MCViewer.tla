-------------------------------- MODULE MCViewer --------------------------------
(* Small instances of SourceViewer for TLC. *)
EXTENDS SourceViewer

CONSTANTS t1, t2
=============================================================================
