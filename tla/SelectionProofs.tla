---------------------------- MODULE SelectionProofs ----------------------------
(***************************************************************************)
(* What EvidenceSelection promises for any proposals and authorizations,   *)
(* any lives of them, and any number of reviews, deaths and moves.         *)
(***************************************************************************)
EXTENDS EvidenceSelection, TLAPS

-----------------------------------------------------------------------------
(* Types. *)

Work == [step : Steps, candidate : Candidate \cup {None}, auth : Authorization \cup {None},
         open : BOOLEAN]
FilesTyped ==
    /\ DOMAIN files \subseteq Name
    /\ \A n \in DOMAIN files : files[n] \in 0 .. MaxNow \cup {None}

\* A process knows the proposal or the authorization its step is about, and a reviewer
\* its candidate and its decision.
Equipped(p) ==
    /\ work[p].open => IsTerminal(p) /\ Target(p) \in DOMAIN files
    /\ work[p].step \in ProposalKinds => work[p].candidate \in Candidate
    /\ work[p].step \in AuthorizationKinds \cup EvidenceKinds \cup {"persist", "reopen"} =>
          work[p].auth # None
    /\ work[p].auth # None => work[p].candidate = work[p].auth.candidate
Bearings ==
    /\ review.step # "none" => review.candidate \in Candidate /\ review.decision \in Decision
    /\ \A p \in Process : Equipped(p)
Typed == TypeOK /\ Bearings

\* What a process writes has a name.
LEMMA TargetTyped ==
  ASSUME Typed, NEW p \in Process, Writes(p)
  PROVE  Target(p) \in Name /\ Target(p)[1] = work[p].step
  <1>1. /\ work[p].step \in ProposalKinds => work[p].candidate \in Candidate
        /\ work[p].step \in AuthorizationKinds \cup EvidenceKinds => work[p].auth \in Authorization
    BY DEF Typed, TypeOK, Bearings, Equipped
  <1>2. CASE work[p].step \in ProposalKinds
    BY <1>1, <1>2 DEF Target, Name
  <1>3. CASE work[p].step \notin ProposalKinds
    BY <1>1, <1>3 DEF Target, Name, Writes
  <1> QED BY <1>2, <1>3

\* What it writes is a body.
LEMMA BodyTyped ==
  ASSUME Typed, NEW kind
  PROVE  Body(kind) \in 0 .. MaxNow /\ Body(kind) # None
  BY StoreConstants, NoneIsNoValue DEF Body, Typed, TypeOK

\* A file that is added comes under its name, beside those that are there.
LEMMA AddsTyped ==
  ASSUME Typed, NEW n \in Name, NEW v \in 0 .. MaxNow \cup {None}, Adds(n, v), n \notin DOMAIN files
  PROVE  /\ DOMAIN files' = DOMAIN files \cup {n} /\ files'[n] = v
         /\ \A m \in DOMAIN files : files'[m] = files[m]
         /\ FilesTyped'
  BY DEF Adds, Typed, TypeOK, FilesTyped

\* A process that goes on has another step and what it was about.
LEMMA GoesTyped ==
  ASSUME Typed, NEW p \in Process, NEW step \in Steps, Goes(p, step)
  PROVE  /\ work' \in [Process -> Work] /\ \A q \in Process \ {p} : work'[q] = work[q]
         /\ work'[p].step = step /\ work'[p].open = FALSE
         /\ work'[p].candidate = work[p].candidate /\ work'[p].auth = work[p].auth
  BY DEF Typed, TypeOK, Goes, Work

\* A process that ends is idle.
LEMMA EndsTyped ==
  ASSUME Typed, NEW p \in Process, Ends(p)
  PROVE  /\ work' \in [Process -> Work] /\ \A q \in Process \ {p} : work'[q] = work[q]
         /\ work'[p] = Idle /\ work'[p].step = "none" /\ work'[p].auth = None
         /\ work'[p].open = FALSE
  <1>1. Idle \in Work
    BY DEF Idle, Work, Steps
  <1> QED BY <1>1 DEF Typed, TypeOK, Ends, Work, Idle

\* A process that begins is about what it was begun with.
LEMMA BeginsTyped ==
  ASSUME Typed, NEW p \in Process, NEW step \in Steps, NEW c \in Candidate,
         NEW a \in Authorization \cup {None}, Begins(p, step, c, a)
  PROVE  /\ work' \in [Process -> Work] /\ \A q \in Process \ {p} : work'[q] = work[q]
         /\ work'[p].step = step /\ work'[p].open = FALSE
         /\ work'[p].candidate = c /\ work'[p].auth = a
  BY DEF Typed, TypeOK, Begins, Work

\* Behind a file there is nothing, or a file or step of the same proposal.
LEMMA PassesTyped ==
  ASSUME Typed, NEW p \in Process, Writes(p), Passes(p)
  PROVE  /\ work' \in [Process -> Work] /\ \A q \in Process \ {p} : work'[q] = work[q]
         /\ work'[p].open = FALSE
         /\ \/ work'[p].step = "none" /\ work'[p].auth = None
            \/ /\ work'[p].step = Behind(p) /\ Behind(p) # "none"
               /\ work'[p].candidate = work[p].candidate /\ work'[p].auth = work[p].auth
         /\ Equipped(p)'
  <1>1. Behind(p) \in Steps
    BY DEF Behind, Steps, ProposalKinds, AuthorizationKinds, EvidenceKinds
  <1>2. CASE Behind(p) = "none"
    <2>1. Ends(p)
      BY <1>2 DEF Passes
    <2> QED BY <2>1, EndsTyped DEF Equipped, ProposalKinds, AuthorizationKinds, EvidenceKinds
  <1>3. CASE Behind(p) # "none"
    <2>1. Goes(p, Behind(p))
      BY <1>3 DEF Passes
    <2>2. Behind(p) \in ProposalKinds => work[p].step \in ProposalKinds
      BY DEF Behind, ProposalKinds
    <2>3. /\ work[p].auth = None => Behind(p) \in {"none"} \cup ProposalKinds
          /\ Equipped(p)
      BY DEF Typed, Bearings, Equipped, Behind, ProposalKinds, AuthorizationKinds, EvidenceKinds
    <2>4. Equipped(p)'
      BY <1>1, <2>1, <2>2, <2>3, GoesTyped
         DEF Equipped, ProposalKinds, AuthorizationKinds, EvidenceKinds
    <2> QED BY <1>1, <1>3, <2>1, <2>4, GoesTyped
  <1> QED BY <1>2, <1>3

\* A step that changes one process, candidates, and files that stay where they are.
LEMMA WorkerTyped ==
  ASSUME Typed, NEW p \in Process,
         UNCHANGED <<reviews, torn, locks, review, now, registry, head>>,
         candidates' \in [Candidate -> Provenance \cup {None}],
         prepared' \in [Candidate -> Provenance \cup {None}],
         crashes' \in 0 .. MaxCrashes,
         FilesTyped', DOMAIN files \subseteq DOMAIN files',
         work' \in [Process -> Work], \A q \in Process \ {p} : work'[q] = work[q], Equipped(p)'
  PROVE  Typed'
  <1>1. \A q \in Process : Equipped(q)'
    BY DEF Typed, Bearings, Equipped, Target, IsTerminal
  <1>2. \A q \in Process : work'[q].open => IsTerminal(q)' /\ Present(Target(q)[1], Target(q)[2])'
    BY <1>1 DEF Equipped, Target, Present
  <1>3. TypeOK'
    BY <1>2 DEF Typed, TypeOK, FilesTyped, Work
  <1>4. Bearings'
    BY <1>1 DEF Typed, Bearings
  <1> QED BY <1>3, <1>4 DEF Typed

\* The steps of a reviewer keep the types.
LEMMA StoreTyped ==
  ASSUME Typed, StoreNext, UNCHANGED selectionVars
  PROVE  Typed'
  <1>1. UNCHANGED <<candidates, prepared, files, registry, head, work, now>>
    BY DEF StoreNext, BeginReview, ReviewStep, CreateEvent, WriteEvent, UnlinkReviewLock,
           CrashReview, selectionVars
  <1> DEFINE Reviewing ==
        /\ reviews \in [Candidate -> Seq(Decision)]
        /\ torn \subseteq Candidate /\ locks \subseteq Candidate
        /\ review \in [step : {"none", "create", "write", "unlock"},
                       candidate : Candidate \cup {None}, decision : Decision \cup {None}]
        /\ crashes \in 0 .. MaxCrashes
        /\ review.step # "none" => review.candidate \in Candidate /\ review.decision \in Decision
  <1>2. Reviewing
    BY DEF Typed, TypeOK, Bearings
  <1> SUFFICES Reviewing'
    BY <1>1 DEF Typed, TypeOK, Bearings, Equipped, IsTerminal, Target, Present
  <1>3. ASSUME NEW c \in Candidate, NEW d \in Decision, BeginReview(c, d) PROVE Reviewing'
    BY <1>2, <1>3 DEF BeginReview
  <1>4. CASE CreateEvent
    BY <1>2, <1>4 DEF CreateEvent
  <1>5. CASE WriteEvent
    <2>1. review.candidate \in Candidate /\ review.decision \in Decision
      BY <1>2, <1>5 DEF WriteEvent
    <2>2. Append(reviews[review.candidate], review.decision) \in Seq(Decision)
      BY <1>2, <2>1
    <2> QED BY <1>2, <1>5, <2>1, <2>2 DEF WriteEvent
  <1>6. CASE UnlinkReviewLock
    BY <1>2, <1>6 DEF UnlinkReviewLock, NoReview
  <1>7. CASE CrashReview
    BY <1>2, <1>7, StoreConstants DEF CrashReview, NoReview
  <1> QED BY <1>3, <1>4, <1>5, <1>6, <1>7 DEF StoreNext, ReviewStep

\* A file that is written or created leaves the types, and so does one that is there.
LEMMA FilesStepTyped ==
  ASSUME Typed, NEW p \in Process,
         WriteFile(p) \/ CreateFile(p) \/ FillFile(p) \/ MeetFile(p)
  PROVE  Typed'
  <1>1. /\ UNCHANGED <<candidates, reviews, torn, locks, review, now, crashes, prepared, registry,
                       head>>
        /\ candidates \in [Candidate -> Provenance \cup {None}]
        /\ prepared \in [Candidate -> Provenance \cup {None}]
        /\ crashes \in 0 .. MaxCrashes
    BY DEF WriteFile, CreateFile, FillFile, MeetFile, OnlyFiles, OnlyWork, storeVars, Typed, TypeOK
  <1>2. ASSUME Writes(p), Passes(p) \/ Ends(p), FilesTyped', DOMAIN files \subseteq DOMAIN files'
        PROVE  Typed'
    <2>1. CASE Passes(p)
      BY <1>1, <1>2, <2>1, PassesTyped, WorkerTyped
    <2>2. CASE Ends(p)
      <3>1. Equipped(p)'
        BY <2>2, EndsTyped DEF Equipped, ProposalKinds, AuthorizationKinds, EvidenceKinds
      <3> QED BY <1>1, <1>2, <2>2, <3>1, EndsTyped, WorkerTyped
    <2> QED BY <1>2, <2>1, <2>2
  <1>3. CASE WriteFile(p)
    <2>1. /\ Target(p) \in Name /\ Body(work[p].step) \in 0 .. MaxNow \cup {None}
          /\ Target(p) \notin DOMAIN files /\ Writes(p)
      BY <1>3, TargetTyped, BodyTyped DEF WriteFile, Creates
    <2>2. FilesTyped' /\ DOMAIN files \subseteq DOMAIN files'
      BY <1>3, <2>1, AddsTyped DEF WriteFile
    <2> QED BY <1>2, <1>3, <2>1, <2>2 DEF WriteFile
  <1>4. CASE CreateFile(p)
    <2>1. Target(p) \in Name /\ Target(p) \notin DOMAIN files /\ Writes(p) /\ Adds(Target(p), None)
      BY <1>4, TargetTyped DEF CreateFile, Creates
    <2>2. FilesTyped' /\ DOMAIN files' = DOMAIN files \cup {Target(p)}
      BY <2>1, AddsTyped
    <2>3. /\ work' \in [Process -> Work] /\ \A q \in Process \ {p} : work'[q] = work[q]
          /\ work'[p].step = work[p].step /\ work'[p].candidate = work[p].candidate
          /\ work'[p].auth = work[p].auth
      BY <1>4 DEF CreateFile, Typed, TypeOK, Work
    <2>4. IsTerminal(p)' /\ Target(p)' = Target(p)
      BY <1>4, <2>3 DEF CreateFile, IsTerminal, Target
    <2>5. Equipped(p)'
      BY <2>2, <2>3, <2>4 DEF Equipped, Typed, Bearings
    <2> QED BY <1>1, <2>2, <2>3, <2>5, WorkerTyped
  <1>5. CASE FillFile(p)
    <2>1. Writes(p) /\ Body(work[p].step) \in 0 .. MaxNow
      BY <1>5, BodyTyped DEF FillFile, Typed, Bearings, Equipped, IsTerminal, Writes, EvidenceKinds
    <2>2. DOMAIN files' = DOMAIN files /\ FilesTyped'
      BY <1>5, <2>1 DEF FillFile, FilesTyped, Typed, TypeOK
    <2> QED BY <1>2, <1>5, <2>1, <2>2 DEF FillFile
  <1>6. CASE MeetFile(p)
    <2>1. FilesTyped' /\ DOMAIN files \subseteq DOMAIN files'
      BY <1>6 DEF MeetFile, OnlyWork, FilesTyped, Typed, TypeOK
    <2> QED BY <1>2, <1>6, <2>1 DEF MeetFile
  <1> QED BY <1>3, <1>4, <1>5, <1>6

\* The steps of an application between its files.
LEMMA ApplicationTyped ==
  ASSUME Typed, PersistCandidate \/ Reopen
  PROVE  Typed'
  <1> DEFINE p == "applier"
             c == work["applier"].candidate
  <1>1. /\ p \in Process /\ work[p] \in Work /\ Equipped(p)
        /\ work[p].auth # None /\ c \in Candidate
    BY DEF Process, Typed, TypeOK, Bearings, Equipped, PersistCandidate, Reopen, Work, Authorization
  <1>2. /\ UNCHANGED <<reviews, torn, locks, review, now, crashes, prepared, files, registry, head>>
        /\ prepared \in [Candidate -> Provenance \cup {None}]
        /\ candidates' \in [Candidate -> Provenance \cup {None}]
        /\ crashes \in 0 .. MaxCrashes
    BY <1>1 DEF PersistCandidate, Reopen, OnlyWork, storeVars, Typed, TypeOK
  <1>3. FilesTyped' /\ DOMAIN files \subseteq DOMAIN files'
    BY <1>2 DEF FilesTyped, Typed, TypeOK
  <1>4. Goes(p, "reopen") \/ Goes(p, "consumption") \/ Ends(p)
    BY DEF PersistCandidate, Reopen
  <1>5. ASSUME NEW step \in {"reopen", "consumption"}, Goes(p, step) PROVE Typed'
    <2>1. step \in Steps /\ step \notin ProposalKinds
      BY DEF Steps, EvidenceKinds, ProposalKinds
    <2>2. Equipped(p)'
      BY <1>1, <1>5, <2>1, GoesTyped DEF Equipped
    <2> QED BY <1>1, <1>2, <1>3, <1>5, <2>1, <2>2, GoesTyped, WorkerTyped
  <1>6. CASE Ends(p)
    <2>1. Equipped(p)'
      BY <1>1, <1>6, EndsTyped DEF Equipped, ProposalKinds, AuthorizationKinds, EvidenceKinds
    <2> QED BY <1>1, <1>2, <1>3, <1>6, <2>1, EndsTyped, WorkerTyped
  <1> QED BY <1>4, <1>5, <1>6

\* An authorization that there is a file of is one.
LEMMA NamedTyped ==
  ASSUME Typed, NEW kind \in AuthorizationKinds \cup EvidenceKinds, NEW a \in Named(kind)
  PROVE  a \in Authorization /\ a.candidate \in Candidate /\ Present(kind, a)
  <1>1. PICK n \in DOMAIN files : n[1] = kind /\ a = n[2]
    BY DEF Named
  <1>2. n \in Name /\ kind \notin ProposalKinds
    BY DEF Typed, TypeOK, ProposalKinds, AuthorizationKinds, EvidenceKinds
  <1>3. n = <<kind, a>> /\ a \in Authorization
    BY <1>1, <1>2 DEF Name
  <1> QED BY <1>1, <1>3 DEF Present, Authorization

\* A process that begins.
LEMMA BeginningTyped ==
  ASSUME Typed, NEW p \in Process, NEW step \in Steps \ {"none"}, NEW c \in Candidate,
         NEW a \in Authorization \cup {None}, Begins(p, step, c, a),
         step \notin ProposalKinds => a # None, a # None => a.candidate = c,
         prepared' \in [Candidate -> Provenance \cup {None}],
         UNCHANGED <<storeVars, now, crashes, files, registry, head>>
  PROVE  Typed'
  <1>1. UNCHANGED <<reviews, torn, locks, review, now, registry, head, files, candidates, crashes>>
    BY DEF storeVars
  <1>2. /\ candidates' \in [Candidate -> Provenance \cup {None}] /\ crashes' \in 0 .. MaxCrashes
        /\ FilesTyped' /\ DOMAIN files \subseteq DOMAIN files'
    BY <1>1 DEF FilesTyped, Typed, TypeOK
  <1>3. /\ work' \in [Process -> Work] /\ \A q \in Process \ {p} : work'[q] = work[q]
        /\ work'[p].step = step /\ work'[p].open = FALSE
        /\ work'[p].candidate = c /\ work'[p].auth = a
    BY BeginsTyped
  <1>4. step \in AuthorizationKinds \cup EvidenceKinds \cup {"persist", "reopen"} => a # None
    BY DEF ProposalKinds, AuthorizationKinds, EvidenceKinds
  <1>5. Equipped(p)'
    BY <1>3, <1>4 DEF Equipped
  <1> QED BY <1>1, <1>2, <1>3, <1>5, WorkerTyped

\* Who begins a proposal, an authorization, an application or a recovery.
LEMMA OperatorTyped ==
  ASSUME Typed,
         \/ \E c \in Candidate : Prepare(c) \/ Authorize(c)
         \/ \E a \in Named("authorization") : Apply(a) \/ RecoverSuffix(a)
  PROVE  Typed'
  <1>1. ASSUME NEW c \in Candidate, Prepare(c) PROVE Typed'
    <2>1. prepared' \in [Candidate -> Provenance \cup {None}]
      BY <1>1, SelectionConstants DEF Prepare, Typed, TypeOK, Provenance
    <2>2. /\ "authorizer" \in Process /\ "proposal" \in Steps \ {"none"}
          /\ "proposal" \in ProposalKinds
      BY DEF Process, Steps, ProposalKinds
    <2> QED BY <1>1, <2>1, <2>2, BeginningTyped DEF Prepare
  <1>2. ASSUME NEW c \in Candidate, Authorize(c) PROVE Typed'
    <2>1. PICK step \in {"proposal", "proposal index", "authorization"} :
             Begins("authorizer", step, c, [candidate |-> c, at |-> now, head |-> head])
      BY <1>2 DEF Authorize
    <2>2. /\ "authorizer" \in Process /\ step \in Steps \ {"none"}
          /\ [candidate |-> c, at |-> now, head |-> head] \in Authorization
      BY DEF Process, Steps, ProposalKinds, AuthorizationKinds, Authorization, Typed, TypeOK
    <2>3. prepared' \in [Candidate -> Provenance \cup {None}]
      BY <1>2 DEF Authorize, OnlyWork, Typed, TypeOK
    <2>4. [candidate |-> c, at |-> now, head |-> head] # None
      BY <2>2, NoneIsNoValue
    <2> QED BY <1>2, <2>1, <2>2, <2>3, <2>4, BeginningTyped DEF Authorize, OnlyWork
  <1>3. ASSUME NEW a \in Named("authorization"), RecoverSuffix(a) PROVE Typed'
    <2>1. a \in Authorization /\ a.candidate \in Candidate /\ a # None
      BY NamedTyped, NoneIsNoValue DEF AuthorizationKinds
    <2>2. "recoverer" \in Process /\ "audit" \in Steps \ {"none"}
      BY DEF Process, Steps, EvidenceKinds
    <2>3. prepared' \in [Candidate -> Provenance \cup {None}]
      BY <1>3 DEF RecoverSuffix, OnlyWork, Typed, TypeOK
    <2> QED BY <1>3, <2>1, <2>2, <2>3, BeginningTyped DEF RecoverSuffix, OnlyWork
  <1>4. ASSUME NEW a \in Named("authorization"), Apply(a) PROVE Typed'
    <2>1. a \in Authorization /\ a.candidate \in Candidate /\ a # None
      BY NamedTyped, NoneIsNoValue DEF AuthorizationKinds
    <2>2. /\ "applier" \in Process /\ FirstStep(a) \in {"none", "audit", "reservation"}
          /\ {"audit", "reservation"} \subseteq Steps \ {"none"}
      BY DEF Process, Steps, EvidenceKinds, FirstStep
    <2>3. prepared' \in [Candidate -> Provenance \cup {None}]
      BY <1>4 DEF Apply, OnlyWork, Typed, TypeOK
    <2>4. CASE FirstStep(a) = "none"
      <3>1. UNCHANGED work
        BY <1>4, <2>4 DEF Apply, Loaded, Typed, TypeOK
      <3> QED BY <1>4, <3>1 DEF Apply, OnlyWork, storeVars, Typed, TypeOK, Bearings, Equipped, Target,
                                IsTerminal, Present
    <2>5. CASE FirstStep(a) # "none"
      <3>1. Begins("applier", FirstStep(a), a.candidate, a)
        BY <1>4, <2>5 DEF Apply, Loaded, Begins
      <3> QED BY <1>4, <2>1, <2>2, <2>3, <2>5, <3>1, BeginningTyped DEF Apply, OnlyWork
    <2> QED BY <2>4, <2>5
  <1> QED BY <1>1, <1>2, <1>3, <1>4

\* A death, inside a file or not.
LEMMA CrashTyped ==
  ASSUME Typed, NEW p \in Process, Crash(p)
  PROVE  Typed'
  <1>1. UNCHANGED <<candidates, reviews, torn, locks, review, now, registry, head, prepared>>
    BY DEF Crash, storeVars
  <1>2. crashes' \in 0 .. MaxCrashes
    BY StoreConstants DEF Crash, Typed, TypeOK
  <1>3. FilesTyped' /\ DOMAIN files \subseteq DOMAIN files'
    <2>1. CASE UNCHANGED files
      BY <2>1 DEF FilesTyped, Typed, TypeOK
    <2>2. CASE Creates(p) /\ Adds(Target(p), None)
      BY <2>2, TargetTyped, AddsTyped DEF Creates
    <2> QED BY <2>1, <2>2 DEF Crash
  <1>4. Ends(p)
    BY DEF Crash
  <1>5. Equipped(p)'
    BY <1>4, EndsTyped DEF Equipped, ProposalKinds, AuthorizationKinds, EvidenceKinds
  <1>6. /\ candidates' \in [Candidate -> Provenance \cup {None}]
        /\ prepared' \in [Candidate -> Provenance \cup {None}]
    BY <1>1 DEF Typed, TypeOK
  <1> QED BY <1>1, <1>2, <1>3, <1>4, <1>5, <1>6, EndsTyped, WorkerTyped

\* There are no files, and nobody is at work.
THEOREM InitTyped == Init => Typed
  <1> SUFFICES ASSUME Init PROVE Typed
    OBVIOUS
  <1>1. Idle \in Work /\ Idle.step = "none" /\ Idle.auth = None /\ Idle.open = FALSE
    BY DEF Idle, Work, Steps
  <1>2. work \in [Process -> Work] /\ \A p \in Process : work[p] = Idle
    BY <1>1 DEF Init
  <1>3. \A p \in Process : Equipped(p)
    BY <1>1, <1>2 DEF Equipped, ProposalKinds, AuthorizationKinds, EvidenceKinds
  <1>4. FilesTyped
    <2>1. DOMAIN files = {}
      BY DEF Init
    <2> QED BY <2>1 DEF FilesTyped
  <1>5. /\ review \in [step : {"none", "create", "write", "unlock"},
                       candidate : Candidate \cup {None}, decision : Decision \cup {None}]
        /\ review.step = "none"
    BY DEF Init, StoreInit, NoReview
  <1>6. TypeOK
    BY <1>1, <1>2, <1>3, <1>4, <1>5, StoreConstants, SelectionConstants
       DEF TypeOK, Init, StoreInit, FilesTyped, Work
  <1> QED BY <1>3, <1>5, <1>6 DEF Typed, Bearings

\* Every step keeps the types.
THEOREM NextTyped == Typed /\ [Next]_vars => Typed'
  <1> SUFFICES ASSUME Typed, [Next]_vars PROVE Typed'
    OBVIOUS
  <1>1. ASSUME NEW p \in Process, Step(p) PROVE Typed'
    BY <1>1, FilesStepTyped, ApplicationTyped DEF Step
  <1>2. CASE StoreNext /\ UNCHANGED selectionVars
    BY <1>2, StoreTyped
  <1>3. CASE Tick \/ Move
    <2>1. UNCHANGED <<candidates, reviews, torn, locks, review, crashes, prepared, files, work>>
      BY <1>3 DEF Tick, Move, storeVars, selectionVars
    <2>2. now' \in 0 .. MaxNow /\ registry' \in 0 .. MaxMoves /\ head' \in 0 .. MaxMoves
      BY <1>3, StoreConstants, SelectionConstants DEF Tick, Move, selectionVars, Typed, TypeOK
    <2> QED BY <2>1, <2>2 DEF Typed, TypeOK, Bearings, Equipped, Target, IsTerminal, Present
  <1>4. CASE UNCHANGED vars
    BY <1>4 DEF vars, storeVars, selectionVars, Typed, TypeOK, Bearings, Equipped, Target, IsTerminal,
                Present
  <1> QED BY <1>1, <1>2, <1>3, <1>4, OperatorTyped, CrashTyped DEF Next

\* So the types always hold.
THEOREM TypesHold == Spec => []Typed
  BY InitTyped, NextTyped, PTL DEF Spec

\* The candidates, the directory and the processes keep their shapes, and only who writes
\* a terminal record has a file open.
THEOREM TypeCorrect == Spec => []TypeOK
  <1>1. Typed => TypeOK
    BY DEF Typed
  <1> QED BY <1>1, TypesHold, PTL

-----------------------------------------------------------------------------
(* Causes. *)

\* What is there before a file of an authorization, and before a process writes it or
\* the candidate.
Caused(step, a) ==
    /\ step = "authorization" => Whole("proposal index", a.candidate)
    /\ step = "reservation" => Whole("authorization index", a)
    /\ step \in {"persist", "reopen", "consumption"} => Whole("reservation", a)
    /\ step = "consumption" => candidates[a.candidate] # None
    /\ step = "transaction" => Whole("consumption", a)
    /\ step = "audit" => Whole("transaction", a)
    /\ step = "completion" => Whole("audit", a)
Grounded ==
    /\ \A n \in DOMAIN files : Caused(n[1], n[2])
    /\ \A p \in Process : Caused(work[p].step, work[p].auth)

\* No file is from the future, and each is as old as its cause at most.
Timed ==
    /\ \A n \in DOMAIN files : n[1] \notin ProposalKinds => n[2].at <= now
    /\ \A p \in Process : work[p].auth # None => work[p].auth.at <= now
    /\ \A a \in Authorization :
          /\ Whole("reservation", a) => /\ a.at <= files[<<"reservation", a>>]
                                        /\ files[<<"reservation", a>>] <= now
          /\ Whole("consumption", a) =>
                /\ files[<<"reservation", a>>] <= files[<<"consumption", a>>]
                /\ files[<<"consumption", a>>] <= now
          /\ Whole("transaction", a) =>
                files[<<"consumption", a>>] <= files[<<"transaction", a>>]

IInv == Typed /\ Grounded /\ CandidateIsAuthorized /\ Timed

\* What a cause relies on: files stay, and stay whole, candidates and proposals stay.
Grows ==
    /\ \A n \in DOMAIN files :
          /\ n \in DOMAIN files' /\ (files[n] # None => files'[n] # None)
          /\ n[1] \notin {"audit", "completion"} => files'[n] = files[n]
    /\ \A c \in Candidate : /\ candidates[c] # None => candidates'[c] = candidates[c]
                            /\ prepared[c] # None => prepared'[c] = prepared[c]
    /\ now <= now'

\* A step of a file only adds files, and fills those that are not whole.
LEMMA FilesGrow ==
  ASSUME Typed, NEW p \in Process,
         WriteFile(p) \/ CreateFile(p) \/ FillFile(p) \/ MeetFile(p)
  PROVE  /\ Grows /\ UNCHANGED <<candidates, prepared, now>>
         /\ \A n \in DOMAIN files' \ DOMAIN files :
               /\ n = Target(p) /\ n[1] = work[p].step
               /\ work[p].step \notin ProposalKinds => n[2] = work[p].auth
               /\ files'[n] \in {None, Body(work[p].step)}
  <1>1. UNCHANGED <<candidates, prepared, now>> /\ now \in 0 .. MaxNow
    BY DEF WriteFile, CreateFile, FillFile, MeetFile, OnlyFiles, OnlyWork, storeVars, Typed, TypeOK
  <1> DEFINE Kept == \A n \in DOMAIN files :
                        /\ n \in DOMAIN files' /\ (files[n] # None => files'[n] # None)
                        /\ n[1] \notin {"audit", "completion"} => files'[n] = files[n]
             Added == \A n \in DOMAIN files' \ DOMAIN files :
                        n = Target(p) /\ files'[n] \in {None, Body(work[p].step)}
  <1>2. Kept /\ Added
    <2>1. CASE WriteFile(p) \/ CreateFile(p)
      <3>1. PICK v \in {None, Body(work[p].step)} :
               Adds(Target(p), v) /\ Target(p) \notin DOMAIN files /\ Writes(p)
        BY <2>1 DEF WriteFile, CreateFile, Creates
      <3>2. Target(p) \in Name /\ v \in 0 .. MaxNow \cup {None}
        BY <3>1, TargetTyped, BodyTyped
      <3> QED BY <3>1, <3>2, AddsTyped
    <2>2. CASE FillFile(p)
      <3>1. Target(p)[1] \in {"audit", "completion"} /\ Body(work[p].step) # None
        BY <2>2, BodyTyped DEF FillFile, Typed, Bearings, Equipped, IsTerminal, Target
      <3> QED BY <2>2, <3>1 DEF FillFile
    <2>3. CASE MeetFile(p)
      BY <2>3 DEF MeetFile, OnlyWork
    <2> QED BY <2>1, <2>2, <2>3
  <1> QED BY <1>1, <1>2 DEF Grows, Target

\* And no other step takes anything away.
LEMMA NextGrows ==
  ASSUME Typed, [Next]_vars
  PROVE  Grows
  <1>1. now \in 0 .. MaxNow
    BY DEF Typed, TypeOK
  <1>2. ASSUME UNCHANGED <<candidates, prepared, files>>, now' = now \/ now' = now + 1 PROVE Grows
    BY <1>1, <1>2 DEF Grows
  <1>3. ASSUME NEW c \in Candidate, Prepare(c) PROVE Grows
    <2>1. UNCHANGED <<candidates, files, now>> /\ prepared[c] = None
      BY <1>3 DEF Prepare, storeVars
    <2>2. \A d \in Candidate : prepared[d] # None => prepared'[d] = prepared[d]
      BY <1>3 DEF Prepare, Typed, TypeOK
    <2> QED BY <1>1, <2>1, <2>2 DEF Grows
  <1>4. CASE PersistCandidate
    <2>1. UNCHANGED <<prepared, files, now>>
      BY <1>4 DEF PersistCandidate
    <2>2. \A d \in Candidate : candidates[d] # None => candidates'[d] = candidates[d]
      BY <1>4 DEF PersistCandidate, Typed, TypeOK
    <2> QED BY <1>1, <2>1, <2>2 DEF Grows
  <1>5. ASSUME NEW p \in Process, Crash(p) PROVE Grows
    <2>1. UNCHANGED <<candidates, prepared, now>>
      BY <1>5 DEF Crash, storeVars
    <2>2. CASE UNCHANGED files
      BY <1>2, <2>1, <2>2
    <2>3. CASE Creates(p) /\ Adds(Target(p), None)
      <3>1. Target(p) \in Name /\ Target(p) \notin DOMAIN files
        BY <2>3, TargetTyped DEF Creates
      <3>2. /\ DOMAIN files \subseteq DOMAIN files'
            /\ \A m \in DOMAIN files : files'[m] = files[m]
        BY <2>3, <3>1, AddsTyped
      <3> QED BY <1>1, <2>1, <3>2 DEF Grows
    <2> QED BY <1>5, <2>2, <2>3 DEF Crash
  <1>6. ASSUME NEW c \in Candidate, Authorize(c) PROVE Grows
    BY <1>2, <1>6 DEF Authorize, OnlyWork, storeVars
  <1>7. ASSUME NEW a, Apply(a) \/ RecoverSuffix(a) PROVE Grows
    BY <1>2, <1>7 DEF Apply, RecoverSuffix, OnlyWork, storeVars
  <1>8. CASE Reopen \/ Tick \/ Move \/ UNCHANGED vars
    BY <1>2, <1>8 DEF Reopen, Tick, Move, OnlyWork, vars, storeVars, selectionVars
  <1>9. CASE StoreNext /\ UNCHANGED selectionVars
    BY <1>2, <1>9 DEF StoreNext, BeginReview, ReviewStep, CreateEvent, WriteEvent, UnlinkReviewLock,
                      CrashReview, selectionVars
  <1> QED BY <1>3, <1>4, <1>5, <1>6, <1>7, <1>8, <1>9, FilesGrow DEF Next, Step

\* So what is whole stays so.
LEMMA WholeStays ==
  ASSUME Grows, NEW kind, NEW of, Whole(kind, of)
  PROVE  Whole(kind, of)'
  BY DEF Grows, Whole, Present

\* And a cause that is there stays.
LEMMA CausedStays ==
  ASSUME Typed, Grows, NEW step, NEW a, step = "consumption" => a \in Authorization,
         Caused(step, a)
  PROVE  Caused(step, a)'
  <1>1. \A kind, of : Whole(kind, of) => Whole(kind, of)'
    BY WholeStays
  <1>2. step = "consumption" => candidates'[a.candidate] # None
    BY DEF Caused, Grows, Authorization
  <1> QED BY <1>1, <1>2 DEF Caused

\* A step that changes one process keeps what it does not change grounded.
LEMMA GroundedBy ==
  ASSUME Typed, Grounded, Grows, NEW p \in Process, \A q \in Process \ {p} : work'[q] = work[q],
         Caused(work[p].step, work[p].auth)',
         \A n \in DOMAIN files' \ DOMAIN files :
            /\ n[1] \in ProposalKinds \cup AuthorizationKinds \cup EvidenceKinds
            /\ n[1] \notin ProposalKinds =>
                  n[1] = work[p].step /\ n[2] = work[p].auth
  PROVE  Grounded'
  <1>1. \A step, a : Caused(step, a) /\ (step = "consumption" => a \in Authorization)
                        => Caused(step, a)'
    BY CausedStays
  <1>2. \A q \in Process : work[q].step = "consumption" => work[q].auth \in Authorization
    BY DEF Typed, TypeOK, Bearings, Equipped, EvidenceKinds
  <1>3. \A n \in DOMAIN files : n[1] = "consumption" => n[2] \in Authorization
    BY DEF Typed, TypeOK, Name, ProposalKinds
  <1>4. ASSUME NEW n \in DOMAIN files' PROVE Caused(n[1], n[2])'
    <2>1. CASE n \in DOMAIN files
      BY <1>1, <1>3, <2>1 DEF Grounded
    <2>2. CASE n \notin DOMAIN files /\ n[1] \in ProposalKinds
      BY <2>2 DEF Caused, ProposalKinds
    <2>3. CASE n \notin DOMAIN files /\ n[1] \notin ProposalKinds
      <3>1. n[1] = work[p].step /\ n[2] = work[p].auth
        BY <1>4, <2>3
      <3>2. Caused(n[1], n[2])
        BY <3>1 DEF Grounded
      <3> QED BY <1>1, <1>2, <3>1, <3>2
    <2> QED BY <2>1, <2>2, <2>3
  <1>5. ASSUME NEW q \in Process \ {p} PROVE Caused(work[q].step, work[q].auth)'
    <2> DEFINE step == work[q].step
               a == work[q].auth
    <2>1. step' = step /\ a' = a /\ Caused(step, a) /\ (step = "consumption" => a \in Authorization)
      BY <1>2 DEF Grounded
    <2> HIDE DEF step, a
    <2>2. Caused(step, a)'
      BY <1>1, <2>1
    <2> QED BY <2>2 DEF step, a
  <1> QED BY <1>4, <1>5 DEF Grounded

\* Who passes a file that is whole has the cause of what is behind it.
LEMMA PassesCaused ==
  ASSUME Typed, NEW p \in Process, Writes(p), Passes(p),
         Target(p) \in DOMAIN files', files'[Target(p)] # None
  PROVE  Caused(work[p].step, work[p].auth)'
  <1> DEFINE a == work[p].auth
  <1>1. CASE work'[p].step = "none"
    BY <1>1 DEF Caused
  <1>2. CASE work'[p].step = Behind(p) /\ work'[p].auth = a /\ Behind(p) # "none"
    <2>1. Behind(p) \in {"proposal index", "authorization", "authorization index", "persist",
                         "transaction", "audit", "completion"}
      BY <1>2 DEF Behind
    <2>2. a # None => work[p].candidate = a.candidate
      BY DEF Typed, Bearings, Equipped
    <2>3. CASE Behind(p) = "authorization"
      <3>1. work[p].step = "proposal index" /\ a # None
        BY <2>3 DEF Behind, ProposalKinds
      <3>2. Target(p) = <<"proposal index", a.candidate>>
        BY <2>2, <3>1 DEF Target, ProposalKinds
      <3> QED BY <1>2, <2>3, <3>2 DEF Caused, Whole, Present
    <2>4. CASE Behind(p) \in {"persist", "transaction", "audit", "completion"}
      <3>1. work[p].step \notin ProposalKinds /\ Target(p) = <<work[p].step, a>>
        BY <2>4 DEF Behind, Target, ProposalKinds
      <3>2. work[p].step = CASE Behind(p) = "persist" -> "reservation"
                             [] Behind(p) = "transaction" -> "consumption"
                             [] Behind(p) = "audit" -> "transaction"
                             [] Behind(p) = "completion" -> "audit"
        BY <2>4 DEF Behind
      <3> QED BY <1>2, <2>4, <3>1, <3>2 DEF Caused, Whole, Present
    <2> QED BY <1>2, <2>1, <2>3, <2>4 DEF Caused
  <1> QED BY <1>1, <1>2, PassesTyped

\* The steps of a file.
LEMMA FilesStepGrounded ==
  ASSUME Typed, Grounded, NEW p \in Process,
         WriteFile(p) \/ CreateFile(p) \/ FillFile(p) \/ MeetFile(p)
  PROVE  Grounded'
  <1>1. /\ Grows /\ Writes(p) /\ Body(work[p].step) # None
        /\ \A n \in DOMAIN files' \ DOMAIN files :
              n[1] = work[p].step /\ (n[1] \notin ProposalKinds => n[2] = work[p].auth)
    BY FilesGrow, BodyTyped DEF WriteFile, CreateFile, FillFile, MeetFile, Creates, Typed, Bearings,
                                Equipped, IsTerminal, Writes, EvidenceKinds
  <1>2. \A q \in Process \ {p} : work'[q] = work[q]
    BY <1>1, PassesTyped, EndsTyped DEF WriteFile, CreateFile, FillFile, MeetFile, Typed, TypeOK
  <1>3. ASSUME Caused(work[p].step, work[p].auth)' PROVE Grounded'
    BY <1>1, <1>2, <1>3, GroundedBy DEF Writes
  <1>4. CASE WriteFile(p)
    <2>1. Target(p) \in Name /\ Target(p) \notin DOMAIN files /\ Body(work[p].step) \in 0 .. MaxNow
      BY <1>1, <1>4, TargetTyped, BodyTyped DEF WriteFile, Creates
    <2>2. Target(p) \in DOMAIN files' /\ files'[Target(p)] # None
      BY <1>1, <1>4, <2>1, AddsTyped DEF WriteFile
    <2> QED BY <1>1, <1>3, <1>4, <2>2, PassesCaused DEF WriteFile
  <1>5. CASE CreateFile(p)
    <2> DEFINE step == work[p].step
               a == work[p].auth
    <2>1. step' = step /\ a' = a /\ Caused(step, a)
      BY <1>5 DEF CreateFile, Grounded, Typed, TypeOK
    <2>2. step \in {"audit", "completion"}
      BY <1>5 DEF CreateFile, IsTerminal
    <2> HIDE DEF step, a
    <2>3. Caused(step, a)'
      BY <1>1, <2>1, <2>2, CausedStays DEF Caused, Whole, Present, Grows
    <2> QED BY <1>3, <2>3 DEF step, a
  <1>6. CASE FillFile(p)
    <2>1. Target(p) \in DOMAIN files
      BY <1>6 DEF FillFile, Typed, Bearings, Equipped
    <2>2. Target(p) \in DOMAIN files' /\ files'[Target(p)] # None
      BY <1>1, <1>6, <2>1 DEF FillFile
    <2> QED BY <1>1, <1>3, <1>6, <2>2, PassesCaused DEF FillFile
  <1>7. CASE MeetFile(p)
    <2>1. CASE Passes(p) /\ files[Target(p)] = Body(work[p].step)
      BY <1>1, <1>3, <1>7, <2>1, PassesCaused DEF MeetFile, OnlyWork
    <2>2. CASE Ends(p)
      <3>1. Caused(work[p].step, work[p].auth)'
        BY <2>2, EndsTyped DEF Caused
      <3> QED BY <1>3, <3>1
    <2> QED BY <1>7, <2>1, <2>2 DEF MeetFile
  <1> QED BY <1>4, <1>5, <1>6, <1>7

\* The steps of an application between its files.
LEMMA ApplicationGrounded ==
  ASSUME Typed, Grounded, Grows, PersistCandidate \/ Reopen
  PROVE  Grounded'
  <1> DEFINE p == "applier"
             a == work["applier"].auth
  <1>1. /\ p \in Process /\ a \in Authorization /\ work[p].candidate = a.candidate
        /\ work[p].step \in {"persist", "reopen"} /\ UNCHANGED files
    BY DEF Process, Typed, TypeOK, Bearings, Equipped, PersistCandidate, Reopen, OnlyWork
  <1>2. Whole("reservation", a)
    BY <1>1 DEF Grounded, Caused
  <1>3. <<"reservation", a>> \in DOMAIN files' /\ files'[<<"reservation", a>>] # None
    BY <1>1, <1>2 DEF Whole, Present
  <1>4. ASSUME Ends(p)
        PROVE Caused(work[p].step, work[p].auth)' /\ \A q \in Process \ {p} : work'[q] = work[q]
    BY <1>1, <1>4, EndsTyped DEF Caused
  <1>5. ASSUME Goes(p, "reopen")
        PROVE Caused(work[p].step, work[p].auth)' /\ \A q \in Process \ {p} : work'[q] = work[q]
    <2>1. work'[p].step = "reopen" /\ work'[p].auth = a
      BY <1>1, <1>5, GoesTyped DEF Steps
    <2>2. \A q \in Process \ {p} : work'[q] = work[q]
      BY <1>1, <1>5, GoesTyped DEF Steps
    <2> QED BY <1>3, <2>1, <2>2 DEF Caused, Whole, Present
  <1>6. ASSUME Goes(p, "consumption"), Unreviewed(a.candidate), UNCHANGED candidates
        PROVE Caused(work[p].step, work[p].auth)' /\ \A q \in Process \ {p} : work'[q] = work[q]
    <2>1. work'[p].step = "consumption" /\ work'[p].auth = a
      BY <1>1, <1>6, GoesTyped DEF Steps, EvidenceKinds
    <2>2. \A q \in Process \ {p} : work'[q] = work[q]
      BY <1>1, <1>6, GoesTyped DEF Steps, EvidenceKinds
    <2>3. candidates'[a.candidate] # None
      BY <1>6 DEF Unreviewed, Verifiable
    <2> QED BY <1>3, <2>1, <2>2, <2>3 DEF Caused, Whole, Present
  <1>7. Caused(work[p].step, work[p].auth)' /\ \A q \in Process \ {p} : work'[q] = work[q]
    BY <1>1, <1>4, <1>5, <1>6 DEF PersistCandidate, Reopen, OnlyWork, storeVars
  <1> QED BY <1>1, <1>7, GroundedBy

\* Who begins.
LEMMA OperatorGrounded ==
  ASSUME Typed, Grounded, Grows,
         \/ \E c \in Candidate : Prepare(c) \/ Authorize(c)
         \/ \E a \in Named("authorization") : Apply(a) \/ RecoverSuffix(a)
  PROVE  Grounded'
  <1>1. UNCHANGED files
    BY DEF Prepare, Authorize, Apply, RecoverSuffix, OnlyWork
  <1>2. ASSUME NEW p \in Process, NEW step \in Steps, NEW c \in Candidate,
               NEW a \in Authorization \cup {None}, Begins(p, step, c, a), Caused(step, a)
        PROVE  Grounded'
    <2>1. /\ \A q \in Process \ {p} : work'[q] = work[q]
          /\ work'[p].step = step /\ work'[p].auth = a
      BY <1>2, BeginsTyped
    <2>2. step = "consumption" => a \in Authorization
      <3>1. CASE step = "consumption" /\ a = None
        <4>1. \A n \in DOMAIN files : n[2] = None => n[1] \in ProposalKinds
          BY NoneIsNoValue DEF Typed, TypeOK, Name
        <4>2. <<"reservation", None>> \in DOMAIN files
          BY <1>2, <3>1 DEF Caused, Whole, Present
        <4> QED BY <4>1, <4>2 DEF ProposalKinds
      <3> QED BY <3>1
    <2>3. Caused(step, a)'
      BY <1>2, <2>2, CausedStays
    <2>4. Caused(work[p].step, work[p].auth)'
      BY <2>1, <2>3
    <2> QED BY <1>1, <2>1, <2>4, GroundedBy
  <1>3. ASSUME NEW c \in Candidate, Prepare(c) PROVE Grounded'
    <2>1. "authorizer" \in Process /\ "proposal" \in Steps /\ Caused("proposal", None)
      BY DEF Process, Steps, ProposalKinds, Caused
    <2> QED BY <1>2, <1>3, <2>1 DEF Prepare
  <1>4. ASSUME NEW c \in Candidate, Authorize(c) PROVE Grounded'
    <2> DEFINE a == [candidate |-> c, at |-> now, head |-> head]
               missing == {kind \in ProposalKinds : ~ Present(kind, c)}
    <2>1. PICK step \in {"proposal", "proposal index", "authorization"} :
             /\ Begins("authorizer", step, c, a)
             /\ step = "authorization" => missing = {}
      BY <1>4 DEF Authorize, ProposalKinds
    <2>2. /\ "authorizer" \in Process /\ step \in Steps /\ a \in Authorization
      BY DEF Process, Steps, ProposalKinds, AuthorizationKinds, Authorization, Typed, TypeOK
    <2>3. missing = {} => Whole("proposal index", c)
      BY <1>4 DEF Authorize, ProposalKinds
    <2>4. Caused(step, a)
      BY <2>1, <2>3 DEF Caused
    <2> QED BY <1>2, <2>1, <2>2, <2>4
  <1>5. ASSUME NEW a \in Named("authorization"), RecoverSuffix(a) PROVE Grounded'
    <2>1. a \in Authorization /\ a.candidate \in Candidate
      BY NamedTyped DEF AuthorizationKinds
    <2>2. "recoverer" \in Process /\ "audit" \in Steps /\ Caused("audit", a)
      BY <1>5 DEF Process, Steps, EvidenceKinds, RecoverSuffix, Caused
    <2> QED BY <1>2, <1>5, <2>1, <2>2 DEF RecoverSuffix
  <1>6. ASSUME NEW a \in Named("authorization"), Apply(a) PROVE Grounded'
    <2>1. a \in Authorization /\ a.candidate \in Candidate /\ "applier" \in Process
      BY NamedTyped DEF AuthorizationKinds, Process
    <2>2. CASE FirstStep(a) = "none"
      <3>1. UNCHANGED work
        BY <1>6, <2>2 DEF Apply, Loaded, Typed, TypeOK
      <3>2. work'["applier"].step = "none"
        BY <1>6, <2>1, <2>2 DEF Apply, Loaded, Idle, Typed, TypeOK
      <3>3. Caused(work["applier"].step, work["applier"].auth)'
        BY <3>2 DEF Caused
      <3> QED BY <1>1, <2>1, <3>1, <3>3, GroundedBy
    <2>3. CASE FirstStep(a) # "none"
      <3>1. Begins("applier", FirstStep(a), a.candidate, a)
        BY <1>6, <2>3 DEF Apply, Loaded, Begins
      <3>2. \/ FirstStep(a) = "audit" /\ Whole("transaction", a)
            \/ FirstStep(a) = "reservation" /\ Whole("authorization index", a)
        BY <2>3 DEF FirstStep, Bound, AuthorizationKinds
      <3>3. FirstStep(a) \in Steps /\ Caused(FirstStep(a), a)
        BY <3>2 DEF Steps, EvidenceKinds, Caused
      <3> QED BY <1>2, <2>1, <3>1, <3>3
    <2> QED BY <2>2, <2>3
  <1> QED BY <1>3, <1>4, <1>5, <1>6

\* A death leaves the file it interrupts behind its cause.
LEMMA CrashGrounded ==
  ASSUME Typed, Grounded, Grows, NEW p \in Process, Crash(p)
  PROVE  Grounded'
  <1>1. /\ \A q \in Process \ {p} : work'[q] = work[q]
        /\ Caused(work[p].step, work[p].auth)'
    BY EndsTyped DEF Crash, Caused
  <1>2. \A n \in DOMAIN files' \ DOMAIN files :
           /\ n[1] \in ProposalKinds \cup AuthorizationKinds \cup EvidenceKinds
           /\ n[1] \notin ProposalKinds => n[1] = work[p].step /\ n[2] = work[p].auth
    <2>1. CASE Creates(p) /\ Adds(Target(p), None)
      <3>1. Target(p) \in Name /\ Target(p) \notin DOMAIN files /\ Writes(p)
        BY <2>1, TargetTyped DEF Creates
      <3>2. DOMAIN files' = DOMAIN files \cup {Target(p)}
        BY <2>1, <3>1, AddsTyped
      <3> QED BY <3>1, <3>2 DEF Target, Writes
    <2> QED BY <2>1 DEF Crash
  <1> QED BY <1>1, <1>2, GroundedBy

\* Every step keeps the files and the processes behind their causes.
LEMMA NextGrounded ==
  ASSUME Typed, Grounded, [Next]_vars
  PROVE  Grounded'
  <1>1. Grows
    BY NextGrows
  <1>2. ASSUME UNCHANGED <<files, work>> PROVE Grounded'
    <2>1. "applier" \in Process
      BY DEF Process
    <2> DEFINE step == work["applier"].step
               a == work["applier"].auth
    <2>2. /\ step' = step /\ a' = a /\ Caused(step, a)
          /\ step = "consumption" => a \in Authorization
      BY <1>2, <2>1 DEF Grounded, Typed, TypeOK, Bearings, Equipped, EvidenceKinds
    <2> HIDE DEF step, a
    <2>3. Caused(step, a)'
      BY <1>1, <2>2, CausedStays
    <2>4. Caused(work["applier"].step, work["applier"].auth)'
      BY <2>3 DEF step, a
    <2> QED BY <1>1, <1>2, <2>1, <2>4, GroundedBy
  <1>3. CASE (StoreNext /\ UNCHANGED selectionVars) \/ Tick \/ Move \/ UNCHANGED vars
    BY <1>2, <1>3 DEF Tick, Move, selectionVars, vars
  <1>4. ASSUME NEW p \in Process, Step(p) PROVE Grounded'
    BY <1>1, <1>4, FilesStepGrounded, ApplicationGrounded DEF Step
  <1> QED BY <1>1, <1>3, <1>4, OperatorGrounded, CrashGrounded DEF Next

-----------------------------------------------------------------------------
(* Candidates. *)

\* Only an application that holds a reservation makes a candidate, of its own proposal.
LEMMA NextAuthorized ==
  ASSUME Typed, Grounded, CandidateIsAuthorized, [Next]_vars
  PROVE  CandidateIsAuthorized'
  <1> SUFFICES ASSUME NEW c \in Candidate, candidates'[c] # None
               PROVE  /\ candidates'[c] = prepared'[c]
                      /\ \E a \in Named("reservation")' : a.candidate = c /\ Whole("reservation", a)'
    BY DEF CandidateIsAuthorized
  <1>1. Grows
    BY NextGrows
  <1>2. ASSUME NEW a, a.candidate = c, Whole("reservation", a)
        PROVE  \E b \in Named("reservation")' : b.candidate = c /\ Whole("reservation", b)'
    <2>1. <<"reservation", a>> \in DOMAIN files' /\ files'[<<"reservation", a>>] # None
      BY <1>1, <1>2 DEF Grows, Whole, Present
    <2>2. a \in Named("reservation")'
      BY <2>1 DEF Named
    <2> QED BY <1>2, <2>1, <2>2 DEF Whole, Present
  <1>3. CASE candidates[c] # None
    BY <1>1, <1>2, <1>3 DEF CandidateIsAuthorized, Grows
  <1>4. CASE candidates[c] = None
    <2>1. PersistCandidate
      BY <1>4 DEF Next, Prepare, Authorize, Apply, RecoverSuffix, Step, WriteFile, CreateFile, FillFile,
                  MeetFile, Reopen, Crash, Tick, Move, StoreNext, BeginReview, ReviewStep, CreateEvent,
                  WriteEvent, UnlinkReviewLock, CrashReview, OnlyFiles, OnlyWork, storeVars,
                  selectionVars, vars
    <2> DEFINE a == work["applier"].auth
    <2>2. /\ candidates'[c] = prepared[c] /\ prepared' = prepared
          /\ c = work["applier"].candidate /\ work["applier"].step = "persist"
      BY <1>4, <2>1 DEF PersistCandidate, Typed, TypeOK
    <2>3. "applier" \in Process
      BY DEF Process
    <2>4. a.candidate = c /\ Whole("reservation", a)
      BY <2>2, <2>3 DEF Typed, Bearings, Equipped, Grounded, Caused
    <2> HIDE DEF a
    <2> QED BY <1>2, <2>2, <2>4
  <1> QED BY <1>3, <1>4

-----------------------------------------------------------------------------
(* Times. *)

\* A file that is new, and a process that has a new authorization, are of now.
LEMMA TimedBy ==
  ASSUME Typed, Typed', Grounded, Grounded', Timed, Grows,
         \A n \in DOMAIN files' \ DOMAIN files :
            n[1] \notin ProposalKinds =>
               /\ n[2].at <= now
               /\ n[1] \in {"reservation", "consumption", "transaction"} =>
                     files'[n] \in {None, now} /\ now' = now,
         \A p \in Process : work'[p].auth # None => work'[p].auth.at <= now'
  PROVE  Timed'
  <1>1. /\ now \in 0 .. MaxNow /\ now' \in 0 .. MaxNow /\ now <= now' /\ MaxNow \in Nat
    BY StoreConstants DEF Typed, TypeOK, Grows
  <1>2. ASSUME NEW n \in DOMAIN files', n[1] \notin ProposalKinds PROVE n[2].at <= now'
    <2>1. n[2] \in Authorization
      BY <1>2 DEF Typed, TypeOK, Name
    <2>2. n[2].at \in 0 .. MaxNow
      BY <2>1 DEF Authorization
    <2>3. n[2].at <= now
      BY <1>2 DEF Timed
    <2> QED BY <1>1, <2>2, <2>3
  <1>3. ASSUME NEW a \in Authorization
        PROVE  LET r == <<"reservation", a>>
                   c == <<"consumption", a>>
                   t == <<"transaction", a>>
                   whole(n) == n \in DOMAIN files' /\ files'[n] # None
               IN  /\ whole(r) => a.at <= files'[r] /\ files'[r] <= now'
                   /\ whole(c) => files'[r] <= files'[c] /\ files'[c] <= now'
                   /\ whole(t) => files'[c] <= files'[t]
    <2> DEFINE r == <<"reservation", a>>
               c == <<"consumption", a>>
               t == <<"transaction", a>>
               whole(n) == n \in DOMAIN files /\ files[n] # None
               new(n) == n \in DOMAIN files' \ DOMAIN files /\ files'[n] # None
    <2>1. \A n \in {r, c, t} : /\ n \in DOMAIN files => files'[n] = files[n]
                               /\ n \in DOMAIN files' /\ files'[n] # None => whole(n) \/ new(n)
                               /\ new(n) => files'[n] = now /\ now' = now /\ a.at <= now
                               /\ n \in DOMAIN files => files[n] \in 0 .. MaxNow \cup {None}
      <3> SUFFICES ASSUME NEW n \in {r, c, t}
                   PROVE  /\ n \in DOMAIN files => files'[n] = files[n]
                          /\ new(n) => files'[n] = now /\ now' = now /\ a.at <= now
                          /\ n \in DOMAIN files => files[n] \in 0 .. MaxNow \cup {None}
        OBVIOUS
      <3>1. /\ n[2] = a /\ n[1] \in {"reservation", "consumption", "transaction"}
            /\ n[1] \notin ProposalKinds /\ n[1] \notin {"audit", "completion"}
        <4>1. PICK kind \in {"reservation", "consumption", "transaction"} : n = <<kind, a>>
          OBVIOUS
        <4>2. n[1] = kind /\ n[2] = a
          BY <4>1
        <4> QED BY <4>2 DEF ProposalKinds
      <3>2. n \in DOMAIN files => files'[n] = files[n] /\ files[n] \in 0 .. MaxNow \cup {None}
        BY <3>1 DEF Grows, Typed, TypeOK
      <3>3. new(n) => files'[n] = now /\ now' = now /\ a.at <= now
        BY <3>1
      <3> QED BY <3>2, <3>3
    <2>2. /\ whole(r) => a.at <= files[r] /\ files[r] <= now
          /\ whole(c) => files[r] <= files[c] /\ files[c] <= now
          /\ whole(t) => files[c] <= files[t]
      BY DEF Timed, Whole, Present
    <2>3. /\ whole(c) => whole(r)
          /\ whole(t) => whole(c)
      BY DEF Grounded, Caused, Whole, Present
    <2>4. /\ new(c) => whole(r) \/ new(r)
          /\ new(t) => whole(c) \/ new(c)
      <3>1. \A n \in DOMAIN files' : Caused(n[1], n[2])'
        BY DEF Grounded
      <3>2. /\ new(c) => r \in DOMAIN files' /\ files'[r] # None
            /\ new(t) => c \in DOMAIN files' /\ files'[c] # None
        BY <3>1 DEF Caused, Whole, Present
      <3> QED BY <2>1, <3>2
    <2>5. a.at \in 0 .. MaxNow
      BY DEF Authorization
    <2> HIDE DEF r, c, t
    <2>6. (whole(r) \/ new(r)) => a.at <= files'[r] /\ files'[r] <= now /\ files'[r] \in Nat
      BY <1>1, <2>1, <2>2, <2>5
    <2>7. (whole(c) \/ new(c)) => files'[r] <= files'[c] /\ files'[c] <= now /\ files'[c] \in Nat
      BY <1>1, <2>1, <2>2, <2>3, <2>4, <2>6
    <2>8. (whole(t) \/ new(t)) => files'[c] <= files'[t]
      BY <1>1, <2>1, <2>2, <2>3, <2>4, <2>7
    <2>9. /\ (whole(r) \/ new(r)) => a.at <= files'[r] /\ files'[r] <= now'
          /\ (whole(c) \/ new(c)) => files'[r] <= files'[c] /\ files'[c] <= now'
          /\ (whole(t) \/ new(t)) => files'[c] <= files'[t]
      BY <1>1, <2>6, <2>7, <2>8
    <2>10. /\ r \in DOMAIN files' /\ files'[r] # None => whole(r) \/ new(r)
           /\ c \in DOMAIN files' /\ files'[c] # None => whole(c) \/ new(c)
           /\ t \in DOMAIN files' /\ files'[t] # None => whole(t) \/ new(t)
      BY <2>1
    <2> QED BY <2>9, <2>10 DEF r, c, t
  <1> QED BY <1>2, <1>3 DEF Timed, Whole, Present

\* Every step keeps the times in order.
LEMMA NextTimed ==
  ASSUME Typed, Typed', Grounded, Grounded', Timed, [Next]_vars
  PROVE  Timed'
  <1> DEFINE Ages == \A p \in Process : work'[p].auth # None => work'[p].auth.at <= now'
             Dated == \A n \in DOMAIN files' \ DOMAIN files :
                         n[1] \notin ProposalKinds =>
                            /\ n[2].at <= now
                            /\ n[1] \in {"reservation", "consumption", "transaction"} =>
                                  files'[n] \in {None, now} /\ now' = now
  <1>1. Grows
    BY NextGrows
  <1>2. ASSUME Ages, Dated PROVE Timed'
    BY <1>1, <1>2, TimedBy
  <1>3. /\ now \in Nat /\ now' \in Nat /\ now <= now'
        /\ \A p \in Process : work[p].auth # None =>
              work[p].auth.at \in Nat /\ work[p].auth.at <= now
    BY <1>1, StoreConstants DEF Typed, TypeOK, Timed, Grows, Authorization
  <1>4. ASSUME \A p \in Process : work'[p].auth \in {None, work[p].auth} PROVE Ages
    BY <1>3, <1>4
  <1>5. ASSUME UNCHANGED files PROVE Dated
    BY <1>5
  <1>6. ASSUME NEW p \in Process, WriteFile(p) \/ CreateFile(p) \/ FillFile(p) \/ MeetFile(p)
        PROVE  Timed'
    <2>1. Writes(p)
      BY <1>6 DEF WriteFile, CreateFile, FillFile, MeetFile, Creates, Typed, Bearings, Equipped,
                  IsTerminal, Writes, EvidenceKinds
    <2>2. \A q \in Process : work'[q].auth \in {None, work[q].auth}
      <3>1. CASE Passes(p) \/ Ends(p)
        BY <2>1, <3>1, PassesTyped, EndsTyped
      <3>2. CASE CreateFile(p)
        BY <3>2 DEF CreateFile, Typed, TypeOK
      <3> QED BY <1>6, <3>1, <3>2 DEF WriteFile, FillFile, MeetFile
    <2>3. Dated
      <3> SUFFICES ASSUME NEW n \in DOMAIN files' \ DOMAIN files, n[1] \notin ProposalKinds
                   PROVE  /\ n[2].at <= now
                          /\ n[1] \in {"reservation", "consumption", "transaction"} =>
                                files'[n] \in {None, now} /\ now' = now
        OBVIOUS
      <3>1. /\ n[1] = work[p].step /\ n[2] = work[p].auth /\ now' = now
            /\ files'[n] \in {None, Body(work[p].step)}
        BY <1>6, FilesGrow
      <3>2. work[p].auth # None
        BY <2>1, <3>1 DEF Writes, Typed, Bearings, Equipped
      <3> QED BY <1>3, <3>1, <3>2 DEF Body
    <2> QED BY <1>2, <1>4, <2>2, <2>3
  <1>7. ASSUME NEW p \in Process, Crash(p) PROVE Timed'
    <2>1. \A q \in Process : work'[q].auth \in {None, work[q].auth}
      BY <1>7, EndsTyped DEF Crash
    <2>2. Dated
      <3>1. CASE Creates(p) /\ Adds(Target(p), None)
        <4>1. /\ Target(p) \in Name /\ Target(p) \notin DOMAIN files /\ Writes(p)
              /\ Target(p)[1] = work[p].step
          BY <3>1, TargetTyped DEF Creates
        <4>2. DOMAIN files' = DOMAIN files \cup {Target(p)} /\ files'[Target(p)] = None
          BY <3>1, <4>1, AddsTyped
        <4>3. now' = now
          BY <1>7 DEF Crash
        <4>4. Target(p)[1] \notin ProposalKinds =>
                 Target(p)[2] = work[p].auth /\ work[p].auth # None
          BY <4>1 DEF Target, Writes, Typed, Bearings, Equipped
        <4> QED BY <1>3, <4>2, <4>3, <4>4
      <3> QED BY <1>5, <1>7, <3>1 DEF Crash
    <2> QED BY <1>2, <1>4, <2>1, <2>2
  <1>8. CASE PersistCandidate \/ Reopen
    <2>1. Goes("applier", "reopen") \/ Goes("applier", "consumption") \/ Ends("applier")
      BY <1>8 DEF PersistCandidate, Reopen
    <2>2. "applier" \in Process /\ {"reopen", "consumption"} \subseteq Steps
      BY DEF Process, Steps, EvidenceKinds
    <2>3. \A q \in Process : work'[q].auth \in {None, work[q].auth}
      BY <2>1, <2>2, GoesTyped, EndsTyped
    <2> QED BY <1>2, <1>4, <1>5, <1>8, <2>3 DEF PersistCandidate, Reopen, OnlyWork
  <1>9. ASSUME NEW p \in Process, NEW step, NEW c, NEW a, a # None => a.at <= now', UNCHANGED files,
               work' = [work EXCEPT ![p] = [step |-> step, candidate |-> c, auth |-> a, open |-> FALSE]]
        PROVE  Timed'
    <2>1. /\ work'[p].auth = a
          /\ \A q \in Process \ {p} : work'[q].auth = work[q].auth
      BY <1>9 DEF Typed, TypeOK
    <2>2. Ages
      BY <1>3, <1>9, <2>1
    <2> QED BY <1>2, <1>5, <1>9, <2>2
  <1>10. ASSUME NEW c \in Candidate, Prepare(c) \/ Authorize(c) PROVE Timed'
    <2>1. CASE Prepare(c)
      BY <1>9, <2>1 DEF Prepare, Begins, Process
    <2>2. CASE Authorize(c)
      <3> DEFINE a == [candidate |-> c, at |-> now, head |-> head]
      <3>1. PICK step : Begins("authorizer", step, c, a)
        BY <2>2 DEF Authorize
      <3>2. a.at <= now' /\ UNCHANGED files /\ "authorizer" \in Process
        BY <1>3, <2>2 DEF Authorize, OnlyWork, Process
      <3> HIDE DEF a
      <3> QED BY <1>9, <3>1, <3>2 DEF Begins
    <2> QED BY <1>10, <2>1, <2>2
  <1>11. ASSUME NEW a \in Named("authorization"), Apply(a) \/ RecoverSuffix(a) PROVE Timed'
    <2>1. a.at <= now
      <3>1. <<"authorization", a>> \in DOMAIN files
        BY NamedTyped DEF AuthorizationKinds, Present
      <3> QED BY <3>1 DEF Timed, ProposalKinds
    <2>2. UNCHANGED files /\ now' = now
      BY <1>11 DEF Apply, RecoverSuffix, OnlyWork
    <2>3. CASE RecoverSuffix(a)
      BY <1>9, <2>1, <2>2, <2>3 DEF RecoverSuffix, Begins, Process
    <2>4. CASE Apply(a)
      <3>1. CASE FirstStep(a) = "none"
        BY <1>9, <2>2, <2>4, <3>1 DEF Apply, Loaded, Idle, Process
      <3>2. CASE FirstStep(a) # "none"
        BY <1>9, <2>1, <2>2, <2>4, <3>2 DEF Apply, Loaded, Process
      <3> QED BY <3>1, <3>2
    <2> QED BY <1>11, <2>3, <2>4
  <1>12. CASE (StoreNext /\ UNCHANGED selectionVars) \/ Tick \/ Move \/ UNCHANGED vars
    <2>1. UNCHANGED <<files, work>>
      BY <1>12 DEF Tick, Move, selectionVars, vars
    <2> QED BY <1>2, <1>4, <1>5, <2>1
  <1> QED BY <1>6, <1>7, <1>8, <1>10, <1>11, <1>12 DEF Next, Step

-----------------------------------------------------------------------------
(* The inductive invariant. *)

\* There is nothing yet.
THEOREM InitIInv == Init => IInv
  <1> SUFFICES ASSUME Init PROVE IInv
    OBVIOUS
  <1>1. Typed /\ DOMAIN files = {}
    BY InitTyped DEF Init
  <1>2. \A p \in Process : work[p].step = "none" /\ work[p].auth = None
    BY DEF Init, Idle
  <1>3. Grounded
    BY <1>1, <1>2 DEF Grounded, Caused
  <1>4. CandidateIsAuthorized
    BY DEF Init, StoreInit, CandidateIsAuthorized
  <1>5. Timed
    BY <1>1, <1>2 DEF Timed, Whole, Present
  <1> QED BY <1>1, <1>3, <1>4, <1>5 DEF IInv

\* Every step keeps the types, the causes, the candidates and the times.
THEOREM NextIInv == IInv /\ [Next]_vars => IInv'
  BY NextTyped, NextGrounded, NextAuthorized, NextTimed DEF IInv

\* So all of it always holds.
THEOREM Invariance == Spec => []IInv
  BY InitIInv, NextIInv, PTL DEF Spec

\* Each record and each candidate is there only behind its cause, whole and in time,
\* through crashes, retries and recoveries beside applications.
THEOREM Backed == Spec => []SelectionIsBacked
  <1>1. IInv => SelectionIsBacked
    <2> SUFFICES ASSUME IInv PROVE SelectionIsBacked
      OBVIOUS
    <2> USE DEF IInv
    <2>1. RecordsAreInOrder
      <3> SUFFICES ASSUME NEW n \in DOMAIN files
                   PROVE  LET a == n[2] IN
                          CASE n[1] = "authorization" -> Whole("proposal index", a.candidate)
                            [] n[1] = "reservation" -> Whole("authorization index", a)
                            [] n[1] = "consumption" ->
                                  candidates[a.candidate] # None /\ Whole("reservation", a)
                            [] n[1] = "transaction" -> Whole("consumption", a)
                            [] n[1] = "audit" -> Whole("transaction", a)
                            [] n[1] = "completion" -> Whole("audit", a)
                            [] OTHER -> TRUE
        BY DEF RecordsAreInOrder
      <3>1. Caused(n[1], n[2])
        BY DEF Grounded
      <3> QED BY <3>1 DEF Caused
    <2>2. RecordsAreInTime
      <3> SUFFICES ASSUME NEW a \in Named("transaction"), Whole("transaction", a)
                   PROVE  /\ a.at <= files[<<"reservation", a>>]
                          /\ files[<<"reservation", a>>] <= files[<<"consumption", a>>]
                          /\ files[<<"consumption", a>>] <= files[<<"transaction", a>>]
        BY DEF RecordsAreInTime
      <3>1. a \in Authorization
        BY NamedTyped DEF EvidenceKinds
      <3>2. Whole("consumption", a) /\ Whole("reservation", a)
        BY DEF Grounded, Caused, Whole, Present
      <3> QED BY <3>1, <3>2 DEF Timed
    <2> QED BY <2>1, <2>2 DEF SelectionIsBacked
  <1> QED BY <1>1, Invariance, PTL
=============================================================================
