----------------------------- MODULE CandidateStore -----------------------------
(***************************************************************************)
(* Candidates and their reviews (src/src/ao_lore/candidates.py).  A        *)
(* candidate is a directory, renamed into place whole: candidate.json,     *)
(* provenance.json, and reviews/, to which events are appended.  Its name  *)
(* is the digest of its content, so a candidate is known by its name, and  *)
(* what can differ between two writers of one is the provenance.           *)
(*                                                                         *)
(* A reviewer holds the promotion lock, so there is one at a time, and the *)
(* file .review.lock besides.  A review event is written in place: those   *)
(* who read without a lock may see it before it is whole, and a process    *)
(* may die there.                                                          *)
(***************************************************************************)
EXTENDS Integers, Sequences, FiniteSets, Folds, Functions

CONSTANTS
    Candidate,      \* contents that documents distil to
    Trace,          \* what a provenance binds besides: quality and selection reports, trace
    Decision,       \* what a reviewer may decide
    MaxReviews,     \* bound: reviews begun, of all candidates together
    MaxCrashes,     \* bound: crashes in a behaviour
    MaxNow,         \* bound: the clock
    None            \* no value

VARIABLES
    candidates,     \* the provenance of each candidate that is there
    reviews,        \* reviews/ of each: the decisions of the whole events
    torn,           \* candidates whose last event is not whole
    locks,          \* candidates with a .review.lock
    review,         \* the reviewer at work
    now,            \* the clock
    crashes         \* how often a process died

storeVars == <<candidates, reviews, torn, locks, review>>

ASSUME StoreConstants ==
    /\ Decision \subseteq {"accept", "reject"}
    /\ MaxReviews \in Nat /\ MaxCrashes \in Nat /\ MaxNow \in Nat
    /\ None \notin Candidate \cup Trace

-----------------------------------------------------------------------------
(* Values. *)

Provenance == [trace : Trace, at : 0 .. MaxNow]
Statuses == {"unreviewed"} \cup Decision
NoReview == [step |-> "none", candidate |-> None, decision |-> None]

\* The review status after the first n events.
StatusAfter(c, n) == IF n = 0 THEN "unreviewed" ELSE reviews[c][n]
Status(c) == StatusAfter(c, Len(reviews[c]))

\* load_verified_candidate: an event that is not whole makes all of it invalid.
Verifiable(c) == candidates[c] # None /\ c \notin torn

-----------------------------------------------------------------------------
(* append_review *)

StoreInit ==
    /\ candidates = [c \in Candidate |-> None]
    /\ reviews = [c \in Candidate |-> <<>>]
    /\ torn = {} /\ locks = {} /\ review = NoReview
    /\ now = 0 /\ crashes = 0

\* A .review.lock that is there, whoever made it, refuses the review.
BeginReview(c, d) ==
    /\ review = NoReview
    /\ candidates[c] # None /\ c \notin locks
    /\ FoldFunction(LAMBDA events, n : n + Len(events), 0, reviews) < MaxReviews
    /\ locks' = locks \cup {c}
    /\ review' = [step |-> "create", candidate |-> c, decision |-> d]
    /\ UNCHANGED <<candidates, reviews, torn, now, crashes>>

\* The chain is inspected and the next event's file created.
CreateEvent ==
    /\ review.step = "create"
    /\ IF review.candidate \in torn
       THEN review' = [review EXCEPT !.step = "unlock"] /\ UNCHANGED torn
       ELSE /\ torn' = torn \cup {review.candidate}
            /\ review' = [review EXCEPT !.step = "write"]
    /\ UNCHANGED <<candidates, reviews, locks, now, crashes>>

WriteEvent ==
    /\ review.step = "write"
    /\ reviews' = [reviews EXCEPT ![review.candidate] = Append(@, review.decision)]
    /\ torn' = torn \ {review.candidate}
    /\ review' = [review EXCEPT !.step = "unlock"]
    /\ UNCHANGED <<candidates, locks, now, crashes>>

UnlinkReviewLock ==
    /\ review.step = "unlock"
    /\ locks' = locks \ {review.candidate}
    /\ review' = NoReview
    /\ UNCHANGED <<candidates, reviews, torn, now, crashes>>

ReviewStep == CreateEvent \/ WriteEvent \/ UnlinkReviewLock

\* The reviewer dies: nobody else removes its lock or its event.
CrashReview ==
    /\ review # NoReview /\ crashes < MaxCrashes
    /\ review' = NoReview /\ crashes' = crashes + 1
    /\ UNCHANGED <<candidates, reviews, torn, locks, now>>

StoreNext ==
    \/ \E c \in Candidate, d \in Decision : BeginReview(c, d)
    \/ ReviewStep \/ CrashReview
=============================================================================
