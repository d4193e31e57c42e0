--------------------------- MODULE EvidenceSelection ---------------------------
(***************************************************************************)
(* Governed selection of evidence (src/src/ao_lore/evidence_selection.py). *)
(* A proposal is prepared from the current registry and put into the       *)
(* selection directory of its workspace; an operator authorizes it; its    *)
(* application publishes the candidate it describes and leaves, file by    *)
(* file, a reservation, a consumption, a transaction and two terminal      *)
(* records.  The recovery of a workspace, which takes no lock, completes   *)
(* what it finds or leaves it for an operator to investigate.              *)
(*                                                                         *)
(* This is the directory of one workspace: workspaces share the candidates *)
(* and the lock of the applications.  What a candidate of CandidateStore   *)
(* binds here is the registry generation (its trace) and the time its      *)
(* proposal was prepared, and a candidate stands for that proposal.        *)
(***************************************************************************)
EXTENDS CandidateStore

CONSTANTS
    Lifetime,           \* of a proposal and of an authorization (five minutes)
    MaxAuthorizations,  \* bound: authorizations begun
    MaxMoves            \* bound: how often the registry or the source head moves on

VARIABLES
    prepared,   \* what each proposal binds
    files,      \* the selection directory and its index: files by name
    registry,   \* the latest generation; stands also for the evidence it names
    head,       \* the source head
    work        \* the processes: who authorizes, who applies, who recovers

selectionVars == <<prepared, files, registry, head, work>>
vars == <<storeVars, now, crashes, selectionVars>>

ASSUME SelectionConstants ==
    /\ Lifetime \in Nat /\ MaxAuthorizations \in Nat /\ MaxMoves \in Nat
    /\ Trace = 0 .. MaxMoves

-----------------------------------------------------------------------------
(* Values. *)

Authorization == [candidate : Candidate, at : 0 .. MaxNow, head : 0 .. MaxMoves]

\* A file is named by its kind and by the proposal or authorization it is about.
ProposalKinds == {"proposal", "proposal index"}
AuthorizationKinds == {"authorization", "authorization index"}
EvidenceKinds == {"reservation", "consumption", "transaction", "audit", "completion"}
Name == (ProposalKinds \X Candidate) \cup ((AuthorizationKinds \cup EvidenceKinds) \X Authorization)

\* Of the body what can differ between two writers, the time it was recorded at.
Body(kind) == IF kind \in {"reservation", "consumption", "transaction"} THEN now ELSE 0

ASSUME NoneIsNoValue == None \notin Provenance \cup Authorization \cup 0 .. MaxNow

Process == {"authorizer", "applier", "recoverer"}
\* A process: its next step, what it is about, and whether it has created the file
\* that it writes.
Idle == [step |-> "none", candidate |-> None, auth |-> None, open |-> FALSE]

Present(kind, of) == <<kind, of>> \in DOMAIN files
Whole(kind, of) == Present(kind, of) /\ files[<<kind, of>>] # None
Named(kind) == {n[2] : n \in {m \in DOMAIN files : m[1] = kind}}

Expired(time) == time + Lifetime <= now
Unreviewed(c) == Verifiable(c) /\ Status(c) = "unreviewed"

-----------------------------------------------------------------------------
(* Steps of a process on its way. *)

\* Fault: the next file is taken for created.
GoesOn(p, step) == work' = [work EXCEPT ![p].step = step]
Goes(p, step) == work' = [work EXCEPT ![p].step = step, ![p].open = FALSE]
Ends(p) == work' = [work EXCEPT ![p] = Idle]
Begins(p, step, c, a) ==
    work' = [work EXCEPT ![p] = [step |-> step, candidate |-> c, auth |-> a, open |-> FALSE]]
OnlyWork == UNCHANGED <<storeVars, now, crashes, prepared, files, registry, head>>

\* The file a process writes, and its step behind it.
Target(p) ==
    LET kind == work[p].step IN
    <<kind, IF kind \in ProposalKinds THEN work[p].candidate ELSE work[p].auth>>
Behind(p) ==
    CASE work[p].step = "proposal" -> "proposal index"
      [] work[p].step = "proposal index" /\ work[p].auth # None -> "authorization"
      [] work[p].step = "authorization" -> "authorization index"
      [] work[p].step = "reservation" -> "persist"
      [] work[p].step = "consumption" -> "transaction"
      [] work[p].step = "transaction" -> "audit"
      [] work[p].step = "audit" -> "completion"
      [] OTHER -> "none"

Passes(p) == IF Behind(p) = "none" THEN Ends(p) ELSE Goes(p, Behind(p))

-----------------------------------------------------------------------------
(* _write_json_fd: a name is created, empty, and then written.  Only the    *)
(* terminal records have two writers at a time; what others read of another *)
(* file before it is whole just ends them, so those take one step.          *)

Writes(p) == work[p].step \in ProposalKinds \cup AuthorizationKinds \cup EvidenceKinds
Creates(p) == Writes(p) /\ ~ work[p].open /\ Target(p) \notin DOMAIN files
IsTerminal(p) == work[p].step \in {"audit", "completion"}
OnlyFiles == UNCHANGED <<storeVars, now, crashes, prepared, registry, head>>

Adds(n, v) == files' = [m \in DOMAIN files \cup {n} |-> IF m = n THEN v ELSE files[m]]

WriteFile(p) ==
    /\ Creates(p) /\ ~ IsTerminal(p)
    /\ Adds(Target(p), Body(work[p].step))
    /\ Passes(p)
    /\ OnlyFiles
CreateFile(p) ==
    /\ Creates(p) /\ IsTerminal(p)
    /\ Adds(Target(p), None)
    /\ work' = [work EXCEPT ![p].open = TRUE]
    /\ OnlyFiles
FillFile(p) ==
    /\ work[p].open
    /\ files' = [files EXCEPT ![Target(p)] = Body(work[p].step)]
    /\ Passes(p)
    /\ OnlyFiles

\* Fault: a file that is there is taken as it is.
MeetAnyFile(p) ==
    /\ Writes(p) /\ ~ work[p].open /\ Target(p) \in DOMAIN files
    /\ Passes(p)
    /\ OnlyWork

\* A file that is there must be whole and say the same.
MeetFile(p) ==
    /\ Writes(p) /\ ~ work[p].open /\ Target(p) \in DOMAIN files
    /\ IF files[Target(p)] = Body(work[p].step) THEN Passes(p) ELSE Ends(p)
    /\ OnlyWork

-----------------------------------------------------------------------------
(* prepare_evidence_selection, persist_prepared_selection *)

Prepare(c) ==
    /\ work["authorizer"] = Idle /\ prepared[c] = None
    /\ prepared' = [prepared EXCEPT ![c] = [trace |-> registry, at |-> now]]
    /\ Begins("authorizer", "proposal", c, None)
    /\ UNCHANGED <<storeVars, now, crashes, files, registry, head>>

-----------------------------------------------------------------------------
(* authorize_evidence_selection *)

\* The operator has the proposal.  Files of it that are there say the same, or are
\* torn and refused; an index that is missing is written now.  The authorization is
\* issued in the second of the check.
Authorize(c) ==
    /\ work["authorizer"] = Idle /\ prepared[c] # None /\ ~ Expired(prepared[c].at)
    /\ Cardinality(Named("authorization")) < MaxAuthorizations
    /\ \A kind \in ProposalKinds : Present(kind, c) => Whole(kind, c)
    /\ LET missing == {kind \in ProposalKinds : ~ Present(kind, c)}
           step == CASE "proposal" \in missing -> "proposal"
                     [] missing = {"proposal index"} -> "proposal index"
                     [] OTHER -> "authorization"
       IN  Begins("authorizer", step, c, [candidate |-> c, at |-> now, head |-> head])
    /\ OnlyWork

-----------------------------------------------------------------------------
(* apply_evidence_selection: one process at a time has the lock of the      *)
(* candidates.                                                              *)

\* _load_apply_state, the source head, and without a transaction what a new
\* application needs: time, the registry generation and its evidence.
Bound(a) ==
    /\ \A kind \in ProposalKinds : Whole(kind, a.candidate)
    /\ \A kind \in AuthorizationKinds : Whole(kind, a)
    /\ a.head = head
Fresh(a) ==
    /\ ~ Expired(prepared[a.candidate].at) /\ ~ Expired(a.at)
    /\ registry = prepared[a.candidate].trace

\* The first step behind what is read under the lock: a transaction that is there
\* needs its terminal records only.
FirstStep(a) ==
    CASE ~ Bound(a) -> "none"
      [] Bound(a) /\ Present("transaction", a) ->
            IF Whole("transaction", a) /\ Unreviewed(a.candidate) THEN "audit" ELSE "none"
      [] OTHER -> IF Fresh(a) THEN "reservation" ELSE "none"
Loaded(a) ==
    IF FirstStep(a) = "none" THEN Idle
    ELSE [step |-> FirstStep(a), candidate |-> a.candidate, auth |-> a, open |-> FALSE]

Apply(a) ==
    /\ work["applier"] = Idle /\ Present("authorization", a)
    /\ work' = [work EXCEPT !["applier"] = Loaded(a)]
    /\ OnlyWork

\* Fault: a candidate that is there is a conflict.
PersistNewCandidate ==
    /\ work["applier"].step = "persist"
    /\ LET c == work["applier"].candidate IN
       IF candidates[c] = None
       THEN candidates' = [candidates EXCEPT ![c] = prepared[c]] /\ Goes("applier", "reopen")
       ELSE UNCHANGED candidates /\ Ends("applier")
    /\ UNCHANGED <<reviews, torn, locks, review, now, crashes, prepared, files, registry, head>>

\* persist_candidate: the proposal determines the candidate and its provenance.
PersistCandidate ==
    /\ work["applier"].step = "persist"
    /\ LET c == work["applier"].candidate IN
       /\ candidates' = [candidates EXCEPT ![c] = IF @ = None THEN prepared[c] ELSE @]
       /\ IF candidates'[c] = prepared[c] THEN Goes("applier", "reopen") ELSE Ends("applier")
    /\ UNCHANGED <<reviews, torn, locks, review, now, crashes, prepared, files, registry, head>>

\* The candidate must be unreviewed, and nothing but what the proposal allows be in
\* its directory: a reviewer's lock is one thing too many.
Reopen ==
    /\ work["applier"].step = "reopen"
    /\ LET c == work["applier"].candidate IN
       IF Unreviewed(c) /\ c \notin locks THEN Goes("applier", "consumption") ELSE Ends("applier")
    /\ OnlyWork

-----------------------------------------------------------------------------
(* recover_evidence_selections, which has no lock.  It reads file after     *)
(* file, but files only come, so what it finds it finds at once; what comes *)
(* between its readings and its writing does come between here.             *)

\* The proposal must be the only one, with one authorization.
Recoverable(a) ==
    /\ Named("proposal") = {a.candidate}
    /\ \A kind \in ProposalKinds : Whole(kind, a.candidate)
    /\ \A b \in Named("authorization") : Whole("authorization", b)
    /\ {b \in Named("authorization") : b.candidate = a.candidate} = {a}

\* Terminal records, unless _validate_committed_selection_state agrees with them,
\* are foreign.  So both must be missing; then _recover_committed_suffix writes them
\* to a transaction, and what is authorized only is applied, when the lock is free.
NoTerminals == Named("audit") \cup Named("completion") = {}
RecoverSuffix(a) ==
    /\ work["recoverer"] = Idle
    /\ Recoverable(a) /\ NoTerminals
    /\ Whole("transaction", a) /\ Whole("consumption", a) /\ Unreviewed(a.candidate)
    /\ Begins("recoverer", "audit", a.candidate, a)
    /\ OnlyWork
RecoverAuthorized(a) ==
    /\ work["recoverer"] = Idle
    /\ Recoverable(a) /\ NoTerminals
    /\ ~ Whole("transaction", a) /\ Apply(a)

-----------------------------------------------------------------------------
Step(p) ==
    \/ WriteFile(p) \/ CreateFile(p) \/ FillFile(p) \/ MeetFile(p)
    \/ p = "applier" /\ (PersistCandidate \/ Reopen)

Recover ==
    \/ Step("recoverer")
    \/ \E a \in Named("authorization") : RecoverSuffix(a) \/ RecoverAuthorized(a)

\* A process is killed, or stopped by an error of the file system, perhaps in a file
\* that it has created and not written.
Crash(p) ==
    /\ work[p] # Idle /\ crashes < MaxCrashes
    /\ Ends(p) /\ crashes' = crashes + 1
    /\ \/ UNCHANGED files
       \/ /\ Creates(p) /\ ~ IsTerminal(p)
          /\ Adds(Target(p), None)
    /\ UNCHANGED <<storeVars, now, prepared, registry, head>>

-----------------------------------------------------------------------------
\* The clock, the registry and the source head are counted from the first proposal.
Begun == \E c \in Candidate : prepared[c] # None
Tick ==
    /\ Begun /\ now < MaxNow
    /\ now' = now + 1
    /\ UNCHANGED <<storeVars, crashes, selectionVars>>

\* A registry generation is published, or a commit made.
Move ==
    /\ Begun /\ registry + head < MaxMoves
    /\ \/ registry' = registry + 1 /\ UNCHANGED head
       \/ head' = head + 1 /\ UNCHANGED registry
    /\ UNCHANGED <<storeVars, now, crashes, prepared, files, work>>

Init ==
    /\ StoreInit
    /\ prepared = [c \in Candidate |-> None]
    /\ files = << >>
    /\ registry = 0 /\ head = 0
    /\ work = [p \in Process |-> Idle]

Next ==
    \/ \E c \in Candidate : Prepare(c) \/ Authorize(c)
    \/ \E a \in Named("authorization") : Apply(a) \/ RecoverSuffix(a)
    \/ \E p \in Process : Step(p) \/ Crash(p)
    \/ StoreNext /\ UNCHANGED selectionVars
    \/ Tick \/ Move

Spec == Init /\ [][Next]_vars

\* An application that is not killed goes on; an operator asks for the recovery
\* again and again.
Fairness ==
    /\ WF_vars(Step("applier"))
    /\ WF_vars(Recover)
FairSpec == Spec /\ Fairness

-----------------------------------------------------------------------------
(* Properties. *)

Steps == {"none", "persist", "reopen"} \cup ProposalKinds \cup AuthorizationKinds \cup EvidenceKinds

\* The candidates, the selection directory and the processes have the shapes
\* described above, and only who writes a terminal record has a file open.
TypeOK ==
    /\ candidates \in [Candidate -> Provenance \cup {None}]
    /\ reviews \in [Candidate -> Seq(Decision)]
    /\ torn \subseteq Candidate /\ locks \subseteq Candidate
    /\ review \in [step : {"none", "create", "write", "unlock"},
                   candidate : Candidate \cup {None}, decision : Decision \cup {None}]
    /\ now \in 0 .. MaxNow /\ crashes \in 0 .. MaxCrashes
    /\ prepared \in [Candidate -> Provenance \cup {None}]
    /\ DOMAIN files \subseteq Name
    /\ \A n \in DOMAIN files : files[n] \in 0 .. MaxNow \cup {None}
    /\ registry \in 0 .. MaxMoves /\ head \in 0 .. MaxMoves
    /\ work \in [Process -> [step : Steps, candidate : Candidate \cup {None},
                             auth : Authorization \cup {None}, open : BOOLEAN]]
    /\ \A p \in Process : work[p].open => IsTerminal(p) /\ Present(Target(p)[1], Target(p)[2])

\* Each thing is there only behind its cause, whole, through crashes, retries and
\* a recovery beside an application: so the last record that is there tells how
\* far a selection came, and a candidate of a selection can be traced to an
\* authorization even when nothing after it was written.
CandidateIsAuthorized ==
    \A c \in Candidate :
        candidates[c] # None =>
            /\ candidates[c] = prepared[c]
            /\ \E a \in Named("reservation") : a.candidate = c /\ Whole("reservation", a)
RecordsAreInOrder ==
    \A n \in DOMAIN files :
        LET a == n[2] IN
        CASE n[1] = "authorization" -> Whole("proposal index", a.candidate)
          [] n[1] = "reservation" -> Whole("authorization index", a)
          [] n[1] = "consumption" -> candidates[a.candidate] # None /\ Whole("reservation", a)
          [] n[1] = "transaction" -> Whole("consumption", a)
          [] n[1] = "audit" -> Whole("transaction", a)
          [] n[1] = "completion" -> Whole("audit", a)
          [] OTHER -> TRUE
RecordsAreInTime ==
    \A a \in Named("transaction") :
        Whole("transaction", a) =>
            /\ a.at <= files[<<"reservation", a>>]
            /\ files[<<"reservation", a>>] <= files[<<"consumption", a>>]
            /\ files[<<"consumption", a>>] <= files[<<"transaction", a>>]
SelectionIsBacked == CandidateIsAuthorized /\ RecordsAreInOrder /\ RecordsAreInTime

\* What keeps recovery from ending a selection that no process is writing: a file
\* is torn, or has the time of an application that died in an earlier second, or
\* there is one terminal record without the other.
Attended(a) ==
    \/ work["applier"].auth = a
    \/ work["recoverer"].auth = a /\ Writes("recoverer")
Torn(a) == \E kind \in EvidenceKinds : Present(kind, a) /\ ~ Whole(kind, a)
Late(a) ==
    \E kind \in {"reservation", "consumption"} :
        Whole(kind, a) /\ ~ Present("transaction", a) /\ files[<<kind, a>>] # now
Halfway(a) == Present("audit", a) /\ ~ Present("completion", a)

\* And otherwise: the proposal, its authorization, the registry or the source head
\* is no longer current, the candidate is reviewed or being reviewed, or there is
\* another proposal or authorization.
Overtaken(a) ==
    \/ ~ Bound(a)
    \/ ~ Present("transaction", a) /\ ~ Fresh(a)
    \/ a.candidate \in locks \/ Status(a.candidate) # "unreviewed"
    \/ Named("proposal") # {a.candidate} \/ Named("authorization") # {a}

\* Every other selection that is authorized is committed at last, wherever its
\* applications and its recoveries died.
Issued == {a \in Named("authorization index") : Whole("authorization index", a)}
Settled ==
    \A a \in Issued :
        \/ Whole("completion", a) \/ Overtaken(a)
        \/ ~ Attended(a) /\ (Torn(a) \/ Late(a) \/ Halfway(a))
SelectionEnds == []<>Settled
=============================================================================
