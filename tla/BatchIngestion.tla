----------------------------- MODULE BatchIngestion -----------------------------
(***************************************************************************)
(* Ingestion of documents in batches (src/src/ao_lore/batch_ingestion.py,  *)
(* ingestion.py).  A batch goes through the documents of its manifest in   *)
(* order, persists a candidate for each, and advances a checkpoint that it *)
(* replaces atomically; the last write is the final readback.  A batch     *)
(* that ended early is resumed by another run of the same manifest.        *)
(*                                                                         *)
(* A batch directory is locked, the candidates are not: batches run beside *)
(* each other and beside the reviewer of CandidateStore.                   *)
(***************************************************************************)
EXTENDS CandidateStore

CONSTANTS
    Batch,          \* batch identities
    Documents,      \* the manifest of each: [candidate, trace] that a document distils to
    MaxSpoiled      \* bound: sources that change

VARIABLES
    checkpoints,    \* checkpoint.json of each batch: its terminal items
    finals,         \* final-readback.json: the same, when it is there
    work,           \* the run that holds the lock of a batch
    spoiled         \* documents whose source is no longer what the manifests bind

batchVars == <<checkpoints, finals, work, spoiled>>
vars == <<storeVars, now, crashes, batchVars>>

-----------------------------------------------------------------------------
(* Values. *)

Document == [candidate : Candidate, trace : Trace]

ASSUME BatchConstants == Documents \in [Batch -> Seq(Document)] /\ MaxSpoiled \in Nat

\* A terminal item: rejected, or the candidate as it was found.
Item == [status : {"created", "unchanged", "rejected"},
         provenance : Provenance \cup {None}, review : Statuses \cup {None}]
Rejected == [status |-> "rejected", provenance |-> None, review |-> None]

ASSUME NoneIsNoValue == None \notin Provenance \cup Item \cup Seq(Item)

\* A run: its next step, and of the document it is at the provenance to persist,
\* then the item.
NoWork == [step |-> "none", provenance |-> None, item |-> None]

Doc(b) == Documents[b][Len(checkpoints[b]) + 1]

-----------------------------------------------------------------------------
(* What is verified. *)

\* _verify_candidates of one item.
Agrees(c, item) ==
    \/ item.status = "rejected"
    \/ /\ Verifiable(c)
       /\ candidates[c] = item.provenance
       /\ Status(c) = item.review
Verified(b) ==
    \A i \in DOMAIN checkpoints[b] : Agrees(Documents[b][i].candidate, checkpoints[b][i])

\* How a run goes on behind a checkpoint.
Onward(items, b) == IF Len(items) = Len(Documents[b]) THEN "verify" ELSE "read"

-----------------------------------------------------------------------------
(* Steps of a run, on their way from one step to the next. *)

Goes(b, step) == work' = [work EXCEPT ![b].step = step]
Aborts(b) == work' = [work EXCEPT ![b] = NoWork]
Ends(b, step, item) ==
    work' = [work EXCEPT ![b] = [NoWork EXCEPT !.step = step, !.item = item]]
Rejects(b) == Ends(b, "check", Rejected)
\* Fault: what was found is dropped.
FindsNothing(b, status) == status \in {"created", "unchanged"} /\ Goes(b, "reopen")
Finds(b, status) == Ends(b, "reopen", [Rejected EXCEPT !.status = status])

\* _reconcile_existing with a candidate that is there, and another try with its
\* provenance: the time of creation is not compared.
Reconciles(b, retry) ==
    LET c == Doc(b).candidate IN
    IF ~ Verifiable(c) THEN Aborts(b)
    ELSE IF candidates[c].trace = Doc(b).trace THEN retry
    ELSE Rejects(b)

-----------------------------------------------------------------------------
(* ingest_batch *)

Init ==
    /\ StoreInit
    /\ checkpoints = [b \in Batch |-> None] /\ finals = [b \in Batch |-> None]
    /\ work = [b \in Batch |-> NoWork]
    /\ spoiled = {}

\* Fault: a checkpoint that is there is refused.
OpenAnew(b) ==
    /\ work[b] = NoWork /\ finals[b] = None /\ checkpoints[b] = None
    /\ checkpoints' = [checkpoints EXCEPT ![b] = <<>>]
    /\ Goes(b, Onward(<<>>, b))
    /\ UNCHANGED <<storeVars, finals, spoiled, now, crashes>>

\* The lock is taken and the checkpoint initialised or verified.  (A rerun of a
\* batch that has its final changes nothing.)
Open(b) ==
    /\ work[b] = NoWork /\ finals[b] = None
    /\ checkpoints[b] # None => Verified(b)
    /\ LET items == IF checkpoints[b] = None THEN <<>> ELSE checkpoints[b]
       IN  /\ checkpoints' = [checkpoints EXCEPT ![b] = items]
           /\ Goes(b, Onward(items, b))
    /\ UNCHANGED <<storeVars, finals, spoiled, now, crashes>>

OnlyWork == UNCHANGED <<storeVars, checkpoints, finals, spoiled, now, crashes>>

ReadSource(b) ==
    /\ work[b].step = "read"
    /\ IF Doc(b).candidate \in spoiled THEN Rejects(b) ELSE Goes(b, "propose")
    /\ OnlyWork

\* The source is read again: other bytes reject the document, but an error of the
\* file system stops the run.  It is parsed and distilled, and a candidate that is
\* there lends its provenance.
Propose(b) ==
    /\ work[b].step = "propose"
    /\ LET c == Doc(b).candidate
           persist(p) == work' = [work EXCEPT ![b].provenance = p, ![b].step = "persist"]
       IN  IF c \in spoiled THEN Rejects(b) \/ Aborts(b)
           ELSE IF candidates[c] = None THEN persist([trace |-> Doc(b).trace, at |-> now])
           ELSE Reconciles(b, persist(candidates[c]))
    /\ OnlyWork

\* persist_candidate: a candidate that is there must be the same.
Persist(b) ==
    /\ work[b].step = "persist"
    /\ LET c == Doc(b).candidate IN
       IF candidates[c] = None THEN Goes(b, "rename")
       ELSE IF candidates[c] = work[b].provenance THEN Finds(b, "unchanged")
       ELSE Reconciles(b, Finds(b, "unchanged"))
    /\ OnlyWork

\* Fault: the rename replaces what is there.
RenameOver(b) ==
    /\ work[b].step = "rename"
    /\ candidates' = [candidates EXCEPT ![Doc(b).candidate] = work[b].provenance]
    /\ Finds(b, "created")
    /\ UNCHANGED <<reviews, torn, locks, review, checkpoints, finals, spoiled, now, crashes>>

\* Fault: another's candidate is taken as created.
RenameToo(b) ==
    /\ work[b].step = "rename"
    /\ IF candidates[Doc(b).candidate] = None
       THEN candidates' = [candidates EXCEPT ![Doc(b).candidate] = work[b].provenance]
       ELSE UNCHANGED candidates
    /\ Finds(b, "created")
    /\ UNCHANGED <<reviews, torn, locks, review, checkpoints, finals, spoiled, now, crashes>>

\* The directory is staged and renamed, unless another was first.  Then, depending
\* on the error of the file system, the other is taken if it is the same, or after a
\* reconciliation.  A conflict found here stops the run, since what caused it was an
\* error of the file system; the next run rejects the document.
Rename(b) ==
    /\ work[b].step = "rename"
    /\ LET c == Doc(b).candidate
           same == candidates[c] = work[b].provenance
           reconciled == Verifiable(c) /\ candidates[c].trace = Doc(b).trace
       IN  IF candidates[c] = None
           THEN /\ candidates' = [candidates EXCEPT ![c] = work[b].provenance]
                /\ Finds(b, "created")
           ELSE /\ UNCHANGED candidates
                /\ \/ (same \/ reconciled) /\ Finds(b, "unchanged")
                   \/ ~ reconciled /\ Aborts(b)
    /\ UNCHANGED <<reviews, torn, locks, review, checkpoints, finals, spoiled, now, crashes>>

\* The readback binds what is there now.
Reopen(b) ==
    /\ work[b].step = "reopen"
    /\ LET c == Doc(b).candidate IN
       IF Verifiable(c)
       THEN Ends(b, "check", [work[b].item EXCEPT !.provenance = candidates[c],
                                                  !.review = Status(c)])
       ELSE Aborts(b)
    /\ OnlyWork

\* _append_terminal_item_at verifies the candidate of the item, then writes.
CheckItem(b) ==
    /\ work[b].step = "check"
    /\ IF Agrees(Doc(b).candidate, work[b].item) THEN Goes(b, "append") ELSE Aborts(b)
    /\ OnlyWork
AppendItem(b) ==
    /\ work[b].step = "append"
    /\ LET items == Append(checkpoints[b], work[b].item)
       IN  /\ checkpoints' = [checkpoints EXCEPT ![b] = items]
           /\ work' = [work EXCEPT ![b] = [NoWork EXCEPT !.step = Onward(items, b)]]
    /\ UNCHANGED <<storeVars, finals, spoiled, now, crashes>>

\* _persist_or_verify_final_at verifies the candidates of all items, then writes.
CheckAll(b) ==
    /\ work[b].step = "verify"
    /\ IF Verified(b) THEN Goes(b, "finish") ELSE Aborts(b)
    /\ OnlyWork
WriteFinal(b) ==
    /\ work[b].step = "finish"
    /\ finals' = [finals EXCEPT ![b] = checkpoints[b]]
    /\ Aborts(b)
    /\ UNCHANGED <<storeVars, checkpoints, spoiled, now, crashes>>

BatchStep(b) ==
    \/ ReadSource(b) \/ Propose(b) \/ Persist(b) \/ Rename(b) \/ Reopen(b)
    \/ CheckItem(b) \/ AppendItem(b) \/ CheckAll(b) \/ WriteFinal(b)

\* A run dies, or is interrupted.
CrashBatch(b) ==
    /\ work[b] # NoWork /\ crashes < MaxCrashes
    /\ Aborts(b) /\ crashes' = crashes + 1
    /\ UNCHANGED <<storeVars, checkpoints, finals, spoiled, now>>

-----------------------------------------------------------------------------
Spoil(c) ==
    /\ c \notin spoiled /\ Cardinality(spoiled) < MaxSpoiled
    /\ spoiled' = spoiled \cup {c}
    /\ UNCHANGED <<storeVars, checkpoints, finals, work, now, crashes>>
Tick ==
    /\ now < MaxNow
    /\ now' = now + 1
    /\ UNCHANGED <<storeVars, batchVars, crashes>>

Next ==
    \/ \E b \in Batch : Open(b) \/ BatchStep(b) \/ CrashBatch(b)
    \/ StoreNext /\ UNCHANGED batchVars
    \/ \E c \in Candidate : Spoil(c)
    \/ Tick

Spec == Init /\ [][Next]_vars

\* Processes that are not killed go on, and a batch without its final is run again.
Fairness ==
    /\ WF_vars(ReviewStep /\ UNCHANGED batchVars)
    /\ \A b \in Batch : WF_vars(BatchStep(b)) /\ SF_vars(Open(b))
FairSpec == Spec /\ Fairness

-----------------------------------------------------------------------------
(* Properties. *)

Steps == {"none", "read", "propose", "persist", "rename", "reopen", "check", "append",
          "verify", "finish"}

\* The stores and the runs at work have the shapes described above, and a run knows
\* what its next step needs.
TypeOK ==
    /\ candidates \in [Candidate -> Provenance \cup {None}]
    /\ reviews \in [Candidate -> Seq(Decision)]
    /\ torn \subseteq Candidate /\ locks \subseteq Candidate /\ spoiled \subseteq Candidate
    /\ review \in [step : {"none", "create", "write", "unlock"},
                   candidate : Candidate \cup {None}, decision : Decision \cup {None}]
    /\ now \in 0 .. MaxNow /\ crashes \in 0 .. MaxCrashes
    /\ checkpoints \in [Batch -> Seq(Item) \cup {None}]
    /\ finals \in [Batch -> Seq(Item) \cup {None}]
    /\ work \in [Batch -> [step : Steps, provenance : Provenance \cup {None},
                           item : Item \cup {None}]]
    /\ \A b \in Batch :
          /\ work[b].step \in {"persist", "rename"} => work[b].provenance # None
          /\ work[b].step \in {"reopen", "check", "append"} => work[b].item # None

\* The documents that have an item, and their items.
Items == UNION {{<<Documents[b][i], checkpoints[b][i], b, i>> : i \in DOMAIN checkpoints[b]} :
                b \in {d \in Batch : checkpoints[d] # None}}

\* An item names a candidate that is there, with the provenance the item binds and
\* the trace its document asks for, under a review status the candidate has had,
\* whatever other batches and reviewers do to the candidate.
FoundIsThere(x) ==
    LET c == x[1].candidate IN
    /\ candidates[c] = x[2].provenance /\ candidates[c].trace = x[1].trace
    /\ \E n \in 0 .. Len(reviews[c]) : x[2].review = StatusAfter(c, n)
\* And a document is rejected for its source or for a provenance that conflicts,
\* never for a lost race, a review in progress, or an earlier crash.
RejectedForCause(x) ==
    LET c == x[1].candidate IN
    c \in spoiled \/ (candidates[c] # None /\ candidates[c].trace # x[1].trace)
ItemsAreTrue ==
    \A x \in Items :
        IF x[2].status = "rejected" THEN RejectedForCause(x) ELSE FoundIsThere(x)

\* However batches race and are resumed, one item at most says it created a candidate.
CreatedOnce ==
    \A x, y \in Items :
        (x[2].status = "created" /\ y[2].status = "created"
            /\ x[1].candidate = y[1].candidate) => x = y

\* A batch that cannot end: a candidate of it was reviewed after its item was made,
\* or a reviewer died and left an event that is not whole.
Stranded(b) ==
    /\ checkpoints[b] # None
    /\ \E i \in DOMAIN Documents[b] :
           LET c == Documents[b][i].candidate IN
           \/ c \in torn /\ review.candidate # c
           \/ /\ i \in DOMAIN checkpoints[b] /\ checkpoints[b][i].status # "rejected"
              /\ Status(c) # checkpoints[b][i].review

\* Every other batch ends with its final readback, resumed as often as it died.
BatchEnds == \A b \in Batch : checkpoints[b] # None ~> finals[b] # None \/ Stranded(b)
=============================================================================
