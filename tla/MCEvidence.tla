------------------------------- MODULE MCEvidence -------------------------------
(* Small instances of EvidenceRefresh for TLC. *)
EXTENDS EvidenceRefresh

CONSTANTS x, y, p

Body(c, from) == [status |-> "observed", content |-> c, from |-> from]
Gone == [status |-> "unavailable", content |-> None, from |-> "locator"]

\* One content at the locator, whether or not it is the one of the record; another
\* at the successor; and nothing.
MCAnswers == {Body(x, "locator"), Body(y, "successor"), Gone}
=============================================================================
