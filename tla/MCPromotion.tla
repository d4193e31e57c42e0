----------------------------- MODULE MCPromotion -----------------------------
(* Small instances of Promotion for TLC. *)
EXTENDS Promotion, TLC

CONSTANTS a1, a2, a3, c1, c2, c3, f1, f2

\* c1 and c2 carry the same payload, c3 another.
Payload == [c \in Candidate |-> IF c = c2 THEN c1 ELSE c]

\* Every authorization has its own identity and nonce, or a1 and a2 share a
\* nonce.
OwnIds == [a \in Auth |-> a]
SharedNonce == [a \in Auth |-> IF a = a2 THEN a1 ELSE a]

\* Files are interchangeable, and so are the two authorizations that share a nonce
\* and the two candidates that carry one payload.
Symmetric == {[x \in {f1, f2, a1, a2, c1, c2} |->
                 IF x \in {f1, f2} THEN p[x] ELSE IF x \in {a1, a2} THEN q[x] ELSE r[x]] :
                 p \in Permutations({f1, f2}), q \in Permutations({a1, a2}), r \in Permutations({c1, c2})}

\* A process may die where the code's own failpoints are (the crash points its
\* tests exercise).
Failpoints ==
    ({"apply", "rollback"} \X {"intent", "stage", "consume", "transaction", "terminal"})
        \cup {<<"apply", "mkdir">>, <<"apply", "committed">>,
              <<"rollback", "publish">>, <<"rollback", "started">>}
\* It may die before any write that follows the reservation.
AnyWrite == {"apply", "rollback"} \X (ExecuteSteps \ {"retain", "reserve"})
\* Reserved, staged without a manifest, behind generations.mkdir but before the
\* rename, audited but not consumed, and for a rollback without its audit events or
\* only without its terminal phase.
Windows == {<<"apply", "intent">>, <<"apply", "manifest">>, <<"apply", "publish">>,
            <<"apply", "consume">>, <<"rollback", "started">>, <<"rollback", "terminal">>}
=============================================================================
