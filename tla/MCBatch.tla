-------------------------------- MODULE MCBatch --------------------------------
(* Small instances of BatchIngestion for TLC. *)
EXTENDS BatchIngestion, TLC

CONSTANTS b1, b2, c1, t, u

Of(c, trace) == [candidate |-> c, trace |-> trace]

\* Two batches with the same source; one has it twice, the second time under a
\* context that gives its candidate another provenance.
MCDocuments == (b1 :> <<Of(c1, t), Of(c1, u)>>) @@ (b2 :> <<Of(c1, t)>>)
=============================================================================
