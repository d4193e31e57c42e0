---------------------------- MODULE CanonicalBrain ----------------------------
(***************************************************************************)
(* What promotion promises about canonical knowledge, without any of its   *)
(* machinery: a history of versions, each one the set of entries a reader  *)
(* sees.  An entry is added once; the last addition, and only it, may be   *)
(* withdrawn; nothing is ever rewritten.                                   *)
(***************************************************************************)
EXTENDS Integers, Sequences

CONSTANTS Candidate, SemanticKey

VARIABLE versions

Current == versions[Len(versions)]
Ever == UNION {versions[k] : k \in DOMAIN versions}

Init == versions = <<{}>>

\* A candidate that shares its meaning with nothing that was ever canonical.
Add(c) ==
    /\ \A d \in Ever : SemanticKey[d] # SemanticKey[c]
    /\ versions' = Append(versions, Current \cup {c})

\* The last change was an addition; the version before it comes back.
Withdraw ==
    LET n == Len(versions)
    IN  /\ n > 1
        /\ versions[n - 1] \subseteq versions[n]
        /\ versions[n - 1] # versions[n]
        /\ versions' = Append(versions, versions[n - 1])

Next == (\E c \in Candidate : Add(c)) \/ Withdraw

Spec == Init /\ [][Next]_versions
=============================================================================
