---------------------------- MODULE EvidenceRefresh ----------------------------
(***************************************************************************)
(* Refresh of acquired evidence (src/src/ao_lore/evidence_freshness.py).   *)
(* A refresh of the sources of a policy (its scope) is a run: source by    *)
(* source it fetches, keeps a receipt of the answer and the body, prepares *)
(* and publishes an observation and a comparison, and closes with a step;  *)
(* then a bundle publishes the summary, and the run is done.  A run that   *)
(* died is resumed by the next refresh of its scope.                       *)
(*                                                                         *)
(* The same lock is held as for acquisition, and again one action is one   *)
(* durable write.  Digests are what they bind, so a comparison is known by *)
(* its observation and a summary by the observations of its run.           *)
(***************************************************************************)
EXTENDS EvidenceAcquisition

CONSTANTS
    Scope,          \* policies over all the sources
    Answers,        \* what sources may answer
    Allowed,        \* the policies' allowed_terminal_classifications
    MaxAge,         \* their maximum_observation_age_seconds
    MaxPublic,      \* FreshnessLimits.max_public_artifacts_per_kind
    MaxRuns,        \* bound: runs of a scope
    MaxNow          \* bound: the clock

VARIABLES
    runs,           \* recovery/: the journal of each run, by scope and sequence
    part,           \* staging/freshness-*.part of the retained sources
    observations,   \* observations/
    comparisons,    \* comparisons/
    summaries,      \* summaries/
    bundles,        \* recovery/ and staging/: the transactions that publish them
    damaged,        \* a process died inside a write of a freshness file
    now             \* the clock

refreshVars == <<runs, part, observations, comparisons, summaries, bundles, damaged>>
vars == <<acquisitionVars, refreshVars, op, crashes, now>>

-----------------------------------------------------------------------------
(* Values. *)

\* An answer: a body or its absence, and where it came from: the locator itself,
\* the declared successor with version and date, or another place.
Answer == [status : {"observed", "unavailable", "investigate"},
           content : Content \cup {None}, from : {"locator", "successor", "elsewhere"}]
Classes == {"unchanged", "updated", "superseded", "unavailable", "investigate"}

ASSUME RefreshConstants ==
    /\ Answers \subseteq Answer /\ Allowed \subseteq Classes
    /\ \A a \in Answers : a.status = "observed" <=> a.content # None
    /\ MaxAge \in Nat /\ MaxPublic \in Nat /\ MaxRuns \in Nat /\ MaxNow \in Nat

\* No value is none of them.
ASSUME NoneIsNoValue == None \notin Scope \cup Answer

\* A receipt: the answer and the clock of the refresh that fetched it.
Fetch == [answer : Answer, at : 0 .. MaxNow]

\* A journal: receipts, and how many of them are prepared and closed by a step.
Run == [fetches : Seq(Fetch), prepares : 0 .. Sources, steps : 0 .. Sources, done : BOOLEAN]
NewRun == [fetches |-> <<>>, prepares |-> 0, steps |-> 0, done |-> FALSE]

\* An observation file, and what a summary and its bundle are of.
Observation == [scope : Scope, source : Source, fetch : Fetch]
History == [scope : Scope, fetches : Seq(Fetch)]

\* The states of a bundle, in the order of its writes.
BundleStates == <<"bundle", "intent", "staging", "staged", "published", "terminal",
                  "unstaged", "clean">>
Bundle == [of : History, at : DOMAIN BundleStates]
Complete == 8
State(b) == BundleStates[b.at]

-----------------------------------------------------------------------------
(* What the code derives from the files. *)

Last(s) == runs[s][Len(runs[s])]
\* Fault: a run that has fetched nothing is not counted.
IsOpenOnceFetched(s) == runs[s] # <<>> /\ ~ Last(s).done /\ Last(s).fetches # <<>>

IsOpen(s) == runs[s] # <<>> /\ ~ Last(s).done
HistoryOf(s) == [scope |-> s, fetches |-> Last(s).fetches]

\* compare_freshness_observation.
Classify(s, a) ==
    CASE a.from = "elsewhere" \/ a.status = "investigate" -> "investigate"
      [] a.from # "elsewhere" /\ a.status = "unavailable" -> "unavailable"
      [] a.from = "successor" /\ a.status = "observed"    -> "superseded"
      [] a.from = "locator" /\ a.status = "observed"      ->
            IF a.content = records[s] THEN "unchanged" ELSE "updated"

\* Each run adds an observation of each source, and none is ever removed.
OverLimit == Cardinality(observations) > MaxPublic

\* The inventories refuse everything when a file is torn, a bundle has no intent,
\* or there are more public files than the limit.
Blocked ==
    \/ damaged
    \/ \E b \in bundles : State(b) = "bundle"
    \/ OverLimit

\* All the sources of a policy have been acquired.
Retained == \A s \in Source : WholeRecord(s)

\* Fault: nothing keeps an observation from being in the future.
OldEnough(run, time) == \A i \in DOMAIN run.fetches : time - run.fetches[i].at <= MaxAge

\* _validate_observation_age, of all that a run has fetched.
Current(run, time) ==
    \A i \in DOMAIN run.fetches :
        run.fetches[i].at <= time /\ time - run.fetches[i].at <= MaxAge

\* Fault: a resumed run takes what is prepared as published.
NextStepPublished(run) ==
    IF run.prepares > run.steps THEN "step"
    ELSE IF Len(run.fetches) > run.prepares
    THEN IF run.fetches[Len(run.fetches)].answer.status = "observed" THEN "retain" ELSE "prepare"
    ELSE IF run.steps = Sources THEN "preflight" ELSE "fetch"

\* Fault: a run with all its steps has nothing left to do.
NextStepSteps(run) ==
    IF run.prepares > run.steps THEN "observe"
    ELSE IF Len(run.fetches) > run.prepares
    THEN IF run.fetches[Len(run.fetches)].answer.status = "observed" THEN "retain" ELSE "prepare"
    ELSE IF run.steps = Sources THEN "return" ELSE "fetch"

\* Fault: a resumed run takes a receipt's body as retained.
NextStepTrusting(run) ==
    IF run.prepares > run.steps THEN "observe"
    ELSE IF Len(run.fetches) > run.prepares THEN "prepare"
    ELSE IF run.steps = Sources THEN "preflight" ELSE "fetch"

\* Where a run goes on.
NextStep(run) ==
    IF run.prepares > run.steps THEN "observe"
    ELSE IF Len(run.fetches) > run.prepares
    THEN IF run.fetches[Len(run.fetches)].answer.status = "observed" THEN "retain" ELSE "prepare"
    ELSE IF run.steps = Sources THEN "preflight" ELSE "fetch"

-----------------------------------------------------------------------------
(* refresh_official_evidence *)

RefreshInit ==
    /\ AcquisitionInit
    /\ runs = [s \in Scope |-> <<>>]
    /\ part = None
    /\ observations = {} /\ comparisons = {} /\ summaries = {} /\ bundles = {}
    /\ damaged = FALSE /\ now = 0

\* A refresh that read the clock at `time' has the lock: all the sources have
\* records, no other scope has a run open, and an open run is not too old.
BeginRefresh(s, time) ==
    /\ op = Idle
    /\ ~ Blocked
    /\ Retained
    /\ \A o \in Scope \ {s} : ~ IsOpen(o)
    /\ LET o == [Idle EXCEPT !.scope = s, !.time = time]
       IN  IF IsOpen(s)
           THEN /\ Current(Last(s), time)
                /\ op' = [o EXCEPT !.step = NextStep(Last(s))]
           ELSE /\ Len(runs[s]) < MaxRuns
                /\ op' = [o EXCEPT !.step = "run"]
    /\ UNCHANGED <<acquisitionVars, refreshVars, crashes, now>>

Rest == <<acquisitionVars, crashes, now, damaged>>

\* The journal of the operation's run changes.
Journal(run) == runs' = [runs EXCEPT ![op.scope][Len(runs[op.scope])] = run]
Goes(step) == op' = [op EXCEPT !.step = step]

WriteRun ==
    /\ op.step = "run"
    /\ runs' = [runs EXCEPT ![op.scope] = Append(@, NewRun)]
    /\ Goes("fetch")
    /\ UNCHANGED <<part, observations, comparisons, summaries, bundles, Rest>>

\* The source answers, and a body that is not an artifact yet is staged.  A body
\* that an earlier fetch left without a receipt ends it.
StageBody ==
    /\ op.step = "fetch" /\ op.answer = None
    /\ part = None
    /\ \E a \in Answers :
          /\ a.status = "observed" /\ a.content \notin artifacts /\ Room
          /\ part' = a.content
          /\ op' = [op EXCEPT !.answer = a]
    /\ UNCHANGED <<runs, observations, comparisons, summaries, bundles, Rest>>

\* Nothing is left to do between an answer and its receipt.
Received(a) ==
    \/ op.answer = a
    \/ op.answer = None /\ part = None /\ (a.status = "observed" => a.content \in artifacts)

WriteReceipt ==
    /\ op.step = "fetch"
    /\ \E a \in Answers :
          /\ Received(a)
          /\ Journal([Last(op.scope) EXCEPT !.fetches = Append(@, [answer |-> a, at |-> op.time])])
          /\ op' = [op EXCEPT !.answer = None,
                              !.step = IF a.status = "observed" THEN "retain" ELSE "prepare"]
    /\ UNCHANGED <<part, observations, comparisons, summaries, bundles, Rest>>

\* The source does not answer in time, or with what is refused; or there is no room.
FetchFails ==
    /\ op.step = "fetch" /\ op.answer = None
    /\ op' = Idle
    /\ UNCHANGED <<acquisitionVars, refreshVars, crashes, now>>

\* _retain_refresh_body: the body becomes an artifact.
RetainBody ==
    /\ op.step = "retain"
    /\ LET c == Last(op.scope).fetches[Len(Last(op.scope).fetches)].answer.content IN
       IF c \in artifacts \/ Room
       THEN /\ artifacts' = artifacts \cup {c}
            /\ part' = None
            /\ Goes("prepare")
       ELSE /\ op' = Idle
            /\ UNCHANGED <<artifacts, part>>
    /\ UNCHANGED <<records, pending, intents, parts, terminals, torn, crashes, now,
                   runs, observations, comparisons, summaries, bundles, damaged>>

\* The comparison is made, and refused unless the policy allows what it says.
WritePrepare ==
    /\ op.step = "prepare"
    /\ LET run == Last(op.scope)
           n == run.prepares + 1
       IN  IF Classify(n, run.fetches[n].answer) \in Allowed
           THEN /\ Journal([run EXCEPT !.prepares = n])
                /\ Goes("observe")
           ELSE op' = Idle /\ UNCHANGED runs
    /\ UNCHANGED <<part, observations, comparisons, summaries, bundles, Rest>>

\* The observation that is prepared and has no step.
Prepared ==
    LET n == Last(op.scope).prepares
    IN  [scope |-> op.scope, source |-> n, fetch |-> Last(op.scope).fetches[n]]

PublishObservation ==
    /\ op.step = "observe"
    /\ observations' = observations \cup {Prepared}
    /\ Goes("compare")
    /\ UNCHANGED <<runs, part, comparisons, summaries, bundles, Rest>>
PublishComparison ==
    /\ op.step = "compare"
    /\ comparisons' = comparisons \cup {Prepared}
    /\ Goes("step")
    /\ UNCHANGED <<runs, part, observations, summaries, bundles, Rest>>
WriteStep ==
    /\ op.step = "step"
    /\ LET run == [Last(op.scope) EXCEPT !.steps = @ + 1]
       IN  Journal(run) /\ Goes(NextStep(run))
    /\ UNCHANGED <<part, observations, comparisons, summaries, bundles, Rest>>

-----------------------------------------------------------------------------
(* The bundle. *)

\* How many of its writes the bundle of a history has behind it.
Reached(h) == IF \E b \in bundles : b.of = h
              THEN (CHOOSE b \in bundles : b.of = h).at ELSE 0

\* Fault: a bundle that is there already is refused.
PreflightNew ==
    /\ op.step = "preflight"
    /\ op' = IF Blocked \/ Reached(HistoryOf(op.scope)) # 0 THEN Idle
             ELSE [op EXCEPT !.step = "bundle", !.history = HistoryOf(op.scope)]
    /\ UNCHANGED <<acquisitionVars, refreshVars, crashes, now>>

\* The inventories again, and _preflight_capacity.
Preflight ==
    /\ op.step = "preflight"
    /\ op' = IF Blocked THEN Idle
             ELSE [op EXCEPT !.step = "bundle", !.history = HistoryOf(op.scope)]
    /\ UNCHANGED <<acquisitionVars, refreshVars, crashes, now>>

\* _execute_bundle, _cleanup_completed: each write puts its bytes or finds them
\* there, so that a refresh goes on where another left off, and a run repeated
\* within a second meets its own bundle.  Of the public files only the summary is
\* new.
WriteBundle ==
    /\ op.step = "bundle"
    /\ LET n == Reached(op.history) + 1
       IN  /\ n <= Complete
           /\ bundles' = {b \in bundles : b.of # op.history} \cup {[of |-> op.history, at |-> n]}
           /\ summaries' = IF BundleStates[n] = "published"
                           THEN summaries \cup {op.history} ELSE summaries
    /\ UNCHANGED <<runs, part, observations, comparisons, op, Rest>>

\* The run is done, or the recovery of the bundle.
WriteDone ==
    /\ op.step = "bundle" /\ Reached(op.history) = Complete
    /\ runs' = IF op.scope = None THEN runs
               ELSE [runs EXCEPT ![op.scope][Len(runs[op.scope])].done = TRUE]
    /\ op' = Idle
    /\ UNCHANGED <<part, observations, comparisons, summaries, bundles, Rest>>

\* recover_freshness_transactions: a bundle whose files are all staged goes on; one
\* with some of them is left for investigation.
RecoverBundle ==
    /\ op = Idle
    /\ ~ Blocked
    /\ \E b \in bundles :
          /\ State(b) \in {"staged", "published", "terminal", "unstaged"}
          /\ op' = [Idle EXCEPT !.step = "bundle", !.history = b.of]
    /\ UNCHANGED <<acquisitionVars, refreshVars, crashes, now>>

-----------------------------------------------------------------------------
\* A process dies inside a write of a freshness file: the journal, a public file or
\* the bundle's.  (A torn body is as good as a body without a receipt.)
TearFreshnessFile ==
    /\ crashes < MaxCrashes
    /\ \/ op.step \in {"run", "prepare", "observe", "compare", "step", "bundle"}
       \/ op.step = "fetch" /\ op.answer # None
    /\ damaged' = TRUE
    /\ op' = Idle /\ crashes' = crashes + 1
    /\ UNCHANGED <<acquisitionVars, runs, part, observations, comparisons, summaries, bundles, now>>

Tick ==
    /\ now < MaxNow
    /\ now' = now + 1
    /\ UNCHANGED <<acquisitionVars, refreshVars, op, crashes>>

RefreshStep ==
    \/ WriteRun \/ StageBody \/ WriteReceipt \/ RetainBody \/ WritePrepare
    \/ PublishObservation \/ PublishComparison \/ WriteStep
    \/ Preflight \/ WriteBundle \/ WriteDone

Acquire ==
    \/ \E todo \in SUBSET Source : BeginAcquire(todo)
    \/ \E a \in Attempt : RecoverAttempt(a)
    \/ WritePending \/ AcquireFails \/ AcquisitionStep
    \/ TearAcquisitionFile \/ Crash

Next ==
    \/ Acquire /\ UNCHANGED <<refreshVars, now>>
    \/ \E s \in Scope : \E time \in 0 .. now : BeginRefresh(s, time)
    \/ RefreshStep \/ FetchFails \/ RecoverBundle \/ TearFreshnessFile \/ Tick

Spec == RefreshInit /\ [][Next]_vars

\* A process that is not killed goes on; a run that is open is refreshed again, by
\* operators who wait in flock for the lock until they have it; a source that is
\* asked again and again answers at last.
Fairness ==
    /\ WF_vars(AcquisitionStep /\ UNCHANGED <<refreshVars, now>>)
    /\ WF_vars(AcquireFails /\ UNCHANGED <<refreshVars, now>>)
    /\ WF_vars(RefreshStep \/ FetchFails)
    /\ SF_vars(StageBody \/ WriteReceipt)
    /\ \A s \in Scope : SF_vars(IsOpen(s) /\ BeginRefresh(s, now))
FairSpec == Spec /\ Fairness

-----------------------------------------------------------------------------
(* Properties. *)

Steps == {"none", "pending", "intent", "stage", "publish", "record", "terminal", "run", "fetch",
          "retain", "prepare", "observe", "compare", "step", "preflight", "bundle"}

\* The stores and the operation in progress have the shapes described above.
TypeOK ==
    /\ records \in [Source -> Content \cup {None}]
    /\ artifacts \subseteq Content
    /\ \A attempts \in {pending, intents, parts, terminals} : attempts \subseteq Attempt
    /\ torn \subseteq TornFile
    /\ runs \in [Scope -> Seq(Run)]
    /\ part \in Content \cup {None}
    /\ observations \subseteq Observation /\ comparisons \subseteq Observation
    /\ summaries \subseteq History
    /\ bundles \subseteq Bundle
    /\ damaged \in BOOLEAN
    /\ op \in [step : Steps, todo : SUBSET Source, attempt : Attempt \cup {None},
              scope : Scope \cup {None}, time : 0 .. MaxNow, answer : Answer \cup {None},
              history : History \cup {None}]
    /\ crashes \in 0 .. MaxCrashes /\ now \in 0 .. MaxNow

AllRuns == {r \in Scope \X (1 .. MaxRuns) : r[2] \in DOMAIN runs[r[1]]}
RunAt(r) == runs[r[1]][r[2]]
ContentOf(fetch) == fetch.answer.content
Observed(fetch) == fetch.answer.status = "observed"

\* The body of an answer outlives every crash: while only the receipt is there it is
\* staged or retained, and from then on it is retained, so that whoever reads a
\* summary can rebuild from what was observed.
EvidenceIsRetained ==
    /\ \A r \in AllRuns : \A i \in DOMAIN RunAt(r).fetches :
          LET fetch == RunAt(r).fetches[i] IN
          Observed(fetch) =>
              \/ ContentOf(fetch) \in artifacts
              \/ i > RunAt(r).prepares /\ part = ContentOf(fetch)
    /\ \A h \in summaries : \A i \in DOMAIN h.fetches :
          Observed(h.fetches[i]) => ContentOf(h.fetches[i]) \in artifacts

\* What is public is what a journal says, and the other way round: a step has its
\* observation and comparison, a run that is done has one step for each source, its
\* summary and a finished bundle, and nothing is public that is in no run.
PublicOf(r) == {[scope |-> r[1], source |-> i, fetch |-> RunAt(r).fetches[i]] :
                    i \in 1 .. RunAt(r).steps}
JournalIsBacked ==
    /\ \A r \in AllRuns :
          LET h == [scope |-> r[1], fetches |-> RunAt(r).fetches] IN
          /\ PublicOf(r) \subseteq observations \cap comparisons
          /\ RunAt(r).done => /\ RunAt(r).steps = Sources
                              /\ h \in summaries
                              /\ [of |-> h, at |-> Complete] \in bundles
    /\ \A o \in observations \cup comparisons :
          \E r \in AllRuns : r[1] = o.scope /\ o.source \in DOMAIN RunAt(r).fetches
                              /\ RunAt(r).fetches[o.source] = o.fetch
    /\ \A h \in summaries :
          \E r \in AllRuns : r[1] = h.scope /\ RunAt(r).fetches = h.fetches
                              /\ RunAt(r).steps = Sources

\* At most one run is open, whatever scopes and however often it died.
OneOpenRun == Cardinality({r \in AllRuns : ~ RunAt(r).done}) <= 1

\* A summary puts together observations that were once current together, although
\* a run is resumed later, by a process whose clock was read before it waited.
SummaryIsCoherent ==
    \A h \in summaries : \A i, j \in DOMAIN h.fetches :
        h.fetches[i].at - h.fetches[j].at <= MaxAge

\* A run that cannot end: something is torn or over its limit, a body lost its
\* receipt, an observation is too old, or the policy does not allow what it says.
Stranded(s) ==
    \/ Blocked
    \/ part # None /\ NextStep(Last(s)) = "fetch"
    \/ part # None /\ NextStep(Last(s)) = "retain" /\ part \notin artifacts /\ ~ Room
    \/ ~ Current(Last(s), now)
    \/ \E i \in DOMAIN Last(s).fetches : Classify(i, Last(s).fetches[i].answer) \notin Allowed

\* Every other run ends: the next refreshes resume it where it died.
RefreshEnds == \A s \in Scope : IsOpen(s) ~> ~ IsOpen(s) \/ Stranded(s)
=============================================================================
