----------------------------- MODULE EvidenceProofs -----------------------------
(***************************************************************************)
(* The safety of acquisition and of refresh (EvidenceAcquisition,          *)
(* EvidenceRefresh), for any sources, contents and policies, and any       *)
(* number of runs and of deaths.                                           *)
(***************************************************************************)
EXTENDS EvidenceRefresh, TLAPS, FiniteSetTheorems

-----------------------------------------------------------------------------
(* Types, and where an operation stands in its run. *)

AttemptSteps == {"intent", "stage", "publish", "record", "terminal"}

\* The steps of a refresh that has a run.
OpenSteps == {"fetch", "retain", "prepare", "observe", "compare", "step", "preflight"}

\* The operation has what its next write needs.
Equipped ==
    /\ op.step = "pending" => Missing(op.todo) # {}
    /\ op.step \in AttemptSteps => op.attempt \in Attempt
    /\ op.step \in OpenSteps \cup {"run"} => op.scope \in Scope
    /\ op.step = "bundle" => op.history \in History
    /\ op.answer # None => op.step = "fetch" /\ op.answer \in Answers

\* A journal closes one source after the other: a receipt, a prepare and a step.
InOrder(run) ==
    /\ run.steps <= run.prepares /\ run.prepares <= Len(run.fetches)
    /\ Len(run.fetches) <= run.steps + 1 /\ Len(run.fetches) <= Sources
    /\ run.done => run.steps = Sources
    /\ \A i \in DOMAIN run.fetches : run.fetches[i].answer \in Answers

\* Of the runs of a scope only the last one can be open, and of one scope only.
Journals ==
    /\ \A s \in Scope :
          /\ Len(runs[s]) <= MaxRuns
          /\ \A i \in DOMAIN runs[s] :
                InOrder(runs[s][i]) /\ (i # Len(runs[s]) => runs[s][i].done)
    /\ \A s, o \in Scope : IsOpen(s) /\ IsOpen(o) => s = o

\* The journal of the operation's run is as its next write takes it to be.
StandsAt(step, run) ==
    /\ step = "fetch" => Len(run.fetches) = run.steps /\ run.steps < Sources
    /\ step \in {"retain", "prepare"} => Len(run.fetches) = run.prepares + 1
    /\ step = "retain" => Observed(run.fetches[Len(run.fetches)])
    /\ step \in {"observe", "compare", "step"} => run.prepares = run.steps + 1
    /\ step = "preflight" => run.steps = Sources
Placed ==
    /\ op.step = "run" => Len(runs[op.scope]) < MaxRuns /\ \A s \in Scope : ~ IsOpen(s)
    /\ op.step \in OpenSteps => IsOpen(op.scope) /\ StandsAt(op.step, Last(op.scope))
    /\ op.step = "bundle" /\ op.scope # None =>
          /\ op.scope \in Scope /\ IsOpen(op.scope) /\ Last(op.scope).steps = Sources
          /\ op.history = HistoryOf(op.scope)

Typed == TypeOK /\ Equipped /\ Journals /\ Placed

-----------------------------------------------------------------------------
(* What the files and the operation rest on. *)

\* The artifact of an attempt comes before its record, and that before its terminal.
Acquired ==
    /\ RecordHasItsArtifact
    /\ op.step = "record" => op.attempt.content \in artifacts
    /\ op.step = "terminal" => records[op.attempt.source] = op.attempt.content

\* A body that was observed is retained once it is prepared, and staged until then.
RunRetained(run) ==
    \A i \in DOMAIN run.fetches :
        Observed(run.fetches[i]) =>
            \/ ContentOf(run.fetches[i]) \in artifacts
            \/ i > run.prepares /\ part = ContentOf(run.fetches[i])
Kept ==
    /\ \A s \in Scope : \A i \in DOMAIN runs[s] : RunRetained(runs[s][i])
    /\ op.answer # None => op.answer.status = "observed" /\ part = op.answer.content
    /\ op.step = "prepare" =>
          LET fetch == Last(op.scope).fetches[Len(Last(op.scope).fetches)]
          IN  Observed(fetch) => ContentOf(fetch) \in artifacts

\* The observations of a run were current together when the last of them was made.
RunCoherent(run) ==
    \A i, j \in DOMAIN run.fetches : run.fetches[i].at - run.fetches[j].at <= MaxAge
Coherent ==
    /\ \A s \in Scope : \A i \in DOMAIN runs[s] : RunCoherent(runs[s][i])
    /\ op.step \in OpenSteps => Current(Last(op.scope), op.time)

\* What is public is of a run, and a history of one with all its steps.
InRun(o) ==
    \E s \in Scope : \E i \in DOMAIN runs[s] :
        /\ s = o.scope /\ o.source \in DOMAIN runs[s][i].fetches
        /\ runs[s][i].fetches[o.source] = o.fetch
OfRun(h) ==
    \E s \in Scope : \E i \in DOMAIN runs[s] :
        /\ s = h.scope /\ runs[s][i].fetches = h.fetches /\ runs[s][i].steps = Sources
RunPublic(s, run) ==
    \A i \in 1 .. run.steps :
        [scope |-> s, source |-> i, fetch |-> run.fetches[i]] \in observations \cap comparisons
RunDone(s, run) ==
    LET h == [scope |-> s, fetches |-> run.fetches]
    IN  run.done => h \in summaries /\ [of |-> h, at |-> Complete] \in bundles
Public ==
    /\ \A o \in observations \cup comparisons : InRun(o)
    /\ \A s \in Scope : \A i \in DOMAIN runs[s] : RunPublic(s, runs[s][i])
    /\ op.step \in {"compare", "step"} => Prepared \in observations
    /\ op.step = "step" => Prepared \in comparisons

\* A history has one bundle, and its summary once that is published.
Bundled ==
    /\ \A h \in summaries : OfRun(h)
    /\ \A b \in bundles : OfRun(b.of) /\ (b.at >= 5 => b.of \in summaries)
    /\ \A b, d \in bundles : b.of = d.of => b = d
    /\ \A s \in Scope : \A i \in DOMAIN runs[s] : RunDone(s, runs[s][i])
    /\ op.step = "bundle" => OfRun(op.history)

IInv == Typed /\ Acquired /\ Kept /\ Coherent /\ Public /\ Bundled

-----------------------------------------------------------------------------
(* Operators. *)

Operation ==
    [step : Steps, todo : SUBSET Source, attempt : Attempt \cup {None}, scope : Scope \cup {None},
     time : 0 .. MaxNow, answer : Answer \cup {None}, history : History \cup {None}]

\* The first of some sources is one of them.
LEMMA FirstTyped ==
    ASSUME NEW S \in SUBSET Source, S # {}
    PROVE  First(S) \in S
<1>1. S \subseteq Nat
  BY AcquisitionConstants DEF Source
<1>2. PICK n \in S : \A m \in S : ~ (<<m, n>> \in OpToRel(<, Nat))
  BY <1>1, NatLessThanWellFounded, WFMin
<1>3. \A m \in S : n <= m
  <2> SUFFICES ASSUME NEW m \in S, m < n PROVE FALSE
    BY <1>1
  <2>1. <<m, n>> \in Nat \X Nat /\ <<m, n>>[1] < <<m, n>>[2]
    BY <1>1
  <2>2. <<m, n>> \in OpToRel(<, Nat)
    BY <2>1 DEF OpToRel
  <2> QED
    BY <1>2, <2>2
<1> QED
  BY <1>3 DEF First

\* The operations that begin, and one that is over.
LEMMA IdleTyped ==
    /\ Idle \in Operation /\ Idle.step = "none" /\ Idle.answer = None /\ Idle.scope = None
    /\ Idle.todo = {} /\ Idle.attempt = None /\ Idle.history = None /\ Idle.time = 0
  BY RefreshConstants DEF Idle, Operation, Steps

\* The open run of a scope.
LEMMA OpenRun ==
    ASSUME Typed, NEW s \in Scope, IsOpen(s)
    PROVE  /\ runs[s] \in Seq(Run) /\ Len(runs[s]) \in DOMAIN runs[s]
           /\ Last(s) \in Run /\ InOrder(Last(s)) /\ ~ Last(s).done
           /\ Last(s).fetches \in Seq(Fetch) /\ Len(Last(s).fetches) \in Nat
           /\ Last(s).prepares \in 0 .. Sources /\ Last(s).steps \in 0 .. Sources
<1>1. runs[s] \in Seq(Run) /\ runs[s] # <<>>
  BY DEF Typed, TypeOK, IsOpen
<1>2. Len(runs[s]) \in DOMAIN runs[s]
  BY <1>1
<1>3. Last(s) \in Run
  BY <1>1, <1>2 DEF Last
<1>4. InOrder(Last(s))
  BY <1>2 DEF Typed, Journals, Last
<1>5. Last(s).fetches \in Seq(Fetch)
  BY <1>3 DEF Run
<1> QED
  BY <1>1, <1>2, <1>3, <1>4, <1>5 DEF Run, IsOpen

\* Another step of the operation.
LEMMA GoesTyped ==
    ASSUME Typed, NEW step \in Steps, Goes(step)
    PROVE  /\ op' \in Operation /\ op'.step = step
           /\ op'.todo = op.todo /\ op'.attempt = op.attempt /\ op'.scope = op.scope
           /\ op'.time = op.time /\ op'.answer = op.answer /\ op'.history = op.history
  BY DEF Typed, TypeOK, Operation, Goes

\* What a change of the journal of the open run leaves as it is.
LEMMA JournalTyped ==
    ASSUME Typed, NEW w \in Scope, w = op.scope, IsOpen(w), NEW run \in Run, InOrder(run),
           Journal(run)
    PROVE  /\ runs' \in [Scope -> Seq(Run)] /\ Journals'
           /\ Last(w)' = run /\ IsOpen(w)' = ~ run.done
           /\ \A s \in Scope : Len(runs'[s]) = Len(runs[s]) /\ DOMAIN runs'[s] = DOMAIN runs[s]
           /\ runs'[w][Len(runs[w])] = run
           /\ \A s \in Scope : \A i \in DOMAIN runs[s] :
                 s # w \/ i # Len(runs[w]) => runs'[s][i] = runs[s][i]
<1> DEFINE n == Len(runs[w])
<1>1. runs[w] \in Seq(Run) /\ n \in DOMAIN runs[w]
  BY OpenRun
<1>2. runs \in [Scope -> Seq(Run)]
  BY DEF Typed, TypeOK
<1>3. runs' = [runs EXCEPT ![w] = [runs[w] EXCEPT ![n] = run]]
  BY <1>2 DEF Journal
<1>4. [runs[w] EXCEPT ![n] = run] \in Seq(Run) /\ Len([runs[w] EXCEPT ![n] = run]) = n
  BY <1>1
<1>5. runs' \in [Scope -> Seq(Run)]
  BY <1>2, <1>3, <1>4
<1>6. /\ \A s \in Scope \ {w} : runs'[s] = runs[s]
      /\ runs'[w] = [runs[w] EXCEPT ![n] = run]
  BY <1>2, <1>3
<1>7. \A s \in Scope : Len(runs'[s]) = Len(runs[s]) /\ DOMAIN runs'[s] = DOMAIN runs[s]
  BY <1>1, <1>4, <1>6
<1>8. /\ runs'[w][n] = run
      /\ \A i \in DOMAIN runs[w] : i # n => runs'[w][i] = runs[w][i]
  BY <1>1, <1>6
<1>9. runs'[w] # <<>>
  BY <1>1, <1>5, <1>7
<1>10. Last(w)' = run /\ IsOpen(w)' = ~ run.done
  BY <1>7, <1>8, <1>9 DEF Last, IsOpen
<1>11. \A s \in Scope \ {w} : IsOpen(s)' = IsOpen(s)
  BY <1>6 DEF IsOpen, Last
<1>12. Journals'
  <2>1. \A s \in Scope : Len(runs'[s]) <= MaxRuns
    BY <1>7 DEF Typed, Journals
  <2>2. \A s \in Scope : \A i \in DOMAIN runs'[s] :
           InOrder(runs'[s][i]) /\ (i # Len(runs'[s]) => runs'[s][i].done)
    BY <1>6, <1>7, <1>8 DEF Typed, Journals
  <2>3. \A s, o \in Scope : IsOpen(s)' /\ IsOpen(o)' => s = o
    BY <1>10, <1>11 DEF Typed, Journals
  <2> QED
    BY <2>1, <2>2, <2>3 DEF Journals
<1> QED
  BY <1>5, <1>6, <1>7, <1>8, <1>10, <1>12

\* Where a run goes on is one of its steps.
LEMMA NextStepTyped ==
    ASSUME NEW run \in Run, InOrder(run)
    PROVE  /\ NextStep(run) \in OpenSteps \ {"compare", "step"} /\ StandsAt(NextStep(run), run)
           /\ NextStep(run) = "prepare" => ~ Observed(run.fetches[Len(run.fetches)])
<1>1. /\ run.fetches \in Seq(Fetch) /\ Len(run.fetches) \in Nat
      /\ run.prepares \in 0 .. Sources /\ run.steps \in 0 .. Sources
  BY DEF Run
<1> QED
  BY <1>1, AcquisitionConstants DEF NextStep, InOrder, Observed, OpenSteps, StandsAt

-----------------------------------------------------------------------------
(* Steps of an acquisition keep the types. *)

\* The operation is over, and the journals stay.
LEMMA OverTyped ==
    ASSUME Typed, op' = Idle, UNCHANGED runs
    PROVE  op' \in Operation /\ Equipped' /\ Journals' /\ Placed'
<1>1. op' \in Operation /\ op'.step = "none" /\ op'.answer = None
  BY IdleTyped
<1>2. Journals'
  BY DEF Typed, Journals, IsOpen, Last
<1>3. Equipped' /\ Placed'
  BY <1>1 DEF Equipped, Placed, AttemptSteps, OpenSteps
<1> QED
  BY <1>1, <1>2, <1>3

\* The operation goes on in its acquisition, and the journals stay.
LEMMA AcquiringTyped ==
    ASSUME Typed, op' \in Operation, op'.step \in AttemptSteps \cup {"pending"},
           op'.attempt \in Attempt \/ op'.step = "pending", op'.answer = None,
           op'.step = "pending" => Missing(op.todo)' # {}, UNCHANGED runs
    PROVE  Equipped' /\ Journals' /\ Placed'
<1>1. Journals'
  BY DEF Typed, Journals, IsOpen, Last
<1> QED
  BY <1>1 DEF Equipped, Placed, AttemptSteps, OpenSteps

\* A call that begins, or a recovery.
LEMMA BeginAcquireTyped ==
    ASSUME Typed, UNCHANGED <<refreshVars, now>>,
           \/ \E todo \in SUBSET Source : BeginAcquire(todo)
           \/ \E a \in Attempt : RecoverAttempt(a)
    PROVE  Typed'
<1>1. UNCHANGED <<acquisitionVars, crashes>>
  BY DEF BeginAcquire, RecoverAttempt
<1>2. ASSUME NEW todo \in SUBSET Source, BeginAcquire(todo)
      PROVE  op' \in Operation /\ Equipped' /\ Journals' /\ Placed'
  <2>1. op' = [Idle EXCEPT !.step = "pending", !.todo = todo]
    BY <1>2 DEF BeginAcquire
  <2>2. /\ op' \in Operation /\ op'.step = "pending" /\ op'.todo = todo /\ op'.answer = None
    BY <2>1, IdleTyped DEF Operation, Steps
  <2>3. Missing(op.todo)' # {}
    BY <1>1, <1>2, <2>2 DEF BeginAcquire, Missing, acquisitionVars
  <2>4. Journals'
    BY DEF Typed, Journals, IsOpen, Last, refreshVars
  <2> QED
    BY <2>2, <2>3, <2>4 DEF Equipped, Placed, AttemptSteps, OpenSteps
<1>3. ASSUME NEW a \in Attempt, RecoverAttempt(a)
      PROVE  op' \in Operation /\ Equipped' /\ Journals' /\ Placed'
  <2>1. PICK step \in {"publish", "record"} : op' = [Idle EXCEPT !.attempt = a, !.step = step]
    BY <1>3 DEF RecoverAttempt
  <2>2. op' \in Operation /\ op'.step = step /\ op'.attempt = a /\ op'.answer = None
    BY <2>1, IdleTyped DEF Operation, Steps
  <2>3. Journals'
    BY DEF Typed, Journals, IsOpen, Last, refreshVars
  <2> QED
    BY <2>2, <2>3 DEF Equipped, Placed, AttemptSteps, OpenSteps
<1> QED
  BY <1>1, <1>2, <1>3 DEF Typed, TypeOK, Operation, acquisitionVars, refreshVars

\* The writes of an attempt.
LEMMA AttemptTyped ==
    ASSUME Typed, UNCHANGED <<refreshVars, now>>,
           WritePending \/ AcquireFails \/ AcquisitionStep \/ TearAcquisitionFile \/ Crash
    PROVE  Typed'
<1> DEFINE Stores ==
        /\ records \in [Source -> Content \cup {None}]
        /\ artifacts \subseteq Content
        /\ \A attempts \in {pending, intents, parts, terminals} : attempts \subseteq Attempt
        /\ torn \subseteq TornFile
        /\ crashes \in 0 .. MaxCrashes
        Steering == op' \in Operation /\ Equipped' /\ Journals' /\ Placed'
<1>1. Stores /\ op \in Operation
  BY DEF Typed, TypeOK, Operation
<1> SUFFICES Stores' /\ Steering
  BY DEF Typed, TypeOK, Operation, refreshVars
<1>2. UNCHANGED runs
  BY DEF refreshVars
<1>3. op.step \in AttemptSteps => op.attempt \in Attempt /\ op.attempt.source \in Source
                                  /\ op.attempt.content \in Content /\ op.answer = None
  BY DEF Typed, Equipped, Attempt, AttemptSteps
<1>4. ASSUME NEW step \in AttemptSteps, op.step \in AttemptSteps, Goes(step) PROVE Steering
  <2>1. step \in Steps
    BY DEF AttemptSteps, Steps
  <2> QED
    BY <1>2, <1>3, <1>4, <2>1, GoesTyped, AcquiringTyped DEF AttemptSteps
<1>5. ASSUME op' = Idle PROVE Steering
  BY <1>2, <1>5, OverTyped
<1>6. CASE WritePending
  <2>1. Missing(op.todo) # {} /\ Missing(op.todo) \subseteq Source /\ op.answer = None
    BY <1>1, <1>6 DEF WritePending, Typed, Equipped, Operation, Missing
  <2>2. PICK c \in Content :
           LET a == [source |-> First(Missing(op.todo)), content |-> c]
           IN  /\ pending' = pending \cup {a}
               /\ op' = [op EXCEPT !.step = "intent", !.attempt = a]
    BY <1>6 DEF WritePending
  <2> DEFINE a == [source |-> First(Missing(op.todo)), content |-> c]
  <2>3. a \in Attempt
    BY <2>1, FirstTyped DEF Attempt
  <2> HIDE DEF a
  <2>4. op' \in Operation /\ op'.step = "intent" /\ op'.attempt = a /\ op'.answer = None
        /\ op'.todo = op.todo
    BY <1>1, <2>1, <2>2, <2>3 DEF Operation, Steps, a
  <2>5. Steering
    BY <1>2, <2>3, <2>4, AcquiringTyped DEF AttemptSteps
  <2>6. Stores'
    BY <1>1, <1>6, <2>2, <2>3 DEF WritePending, a
  <2> QED
    BY <2>5, <2>6
<1>7. CASE AcquireFails
  BY <1>1, <1>5, <1>7 DEF AcquireFails, acquisitionVars
<1>8. CASE WriteIntent
  <2>1. Stores'
    BY <1>1, <1>3, <1>8 DEF WriteIntent, AttemptSteps
  <2> QED
    BY <1>4, <1>8, <2>1 DEF WriteIntent, Goes, AttemptSteps
<1>9. CASE StagePart
  <2>1. Stores'
    BY <1>1, <1>3, <1>9 DEF StagePart, AttemptSteps
  <2> QED
    BY <1>4, <1>9, <2>1 DEF StagePart, Goes, AttemptSteps
<1>10. CASE PublishPart
  <2>1. Stores'
    BY <1>1, <1>3, <1>10 DEF PublishPart, AttemptSteps
  <2> QED
    BY <1>4, <1>10, <2>1 DEF PublishPart, Goes, AttemptSteps
<1>11. CASE WriteRecord
  <2>1. op' = Idle \/ Goes("terminal")
    BY <1>11 DEF WriteRecord, Goes
  <2>2. Stores'
    BY <1>1, <1>3, <1>11 DEF WriteRecord, AttemptSteps
  <2> QED
    BY <1>4, <1>5, <1>11, <2>1, <2>2 DEF WriteRecord, AttemptSteps
<1>12. CASE WriteTerminal
  <2>1. Stores'
    BY <1>1, <1>3, <1>12 DEF WriteTerminal, AttemptSteps
  <2>2. CASE Missing(op.todo) = {}
    BY <1>5, <1>12, <2>1, <2>2 DEF WriteTerminal
  <2>3. CASE Missing(op.todo) # {}
    <3>1. op' \in Operation /\ op'.step = "pending" /\ op'.todo = op.todo /\ op'.answer = None
      BY <1>1, <1>3, <1>12, <2>3 DEF WriteTerminal, Operation, Steps, AttemptSteps
    <3>2. Missing(op.todo)' # {}
      BY <1>12, <2>3, <3>1 DEF WriteTerminal, Missing
    <3> QED
      BY <1>2, <2>1, <3>1, <3>2, AcquiringTyped
  <2> QED
    BY <2>2, <2>3
<1>13. CASE TearAcquisitionFile
  <2>1. op' = Idle /\ op.step \in AttemptSteps
    BY <1>13 DEF TearAcquisitionFile, AttemptSteps
  <2>2. \A file \in {"part", "record", "terminal"} : TornOf(file, op.attempt) \in TornFile
    BY <1>3, <2>1 DEF TornOf, TornFile
  <2>3. Stores'
    BY <1>1, <1>3, <1>13, <2>1, <2>2, AcquisitionConstants DEF TearAcquisitionFile
  <2> QED
    BY <1>5, <2>1, <2>3
<1>14. CASE Crash
  BY <1>1, <1>5, <1>14, AcquisitionConstants DEF Crash, acquisitionVars
<1> QED
  BY <1>6, <1>7, <1>8, <1>9, <1>10, <1>11, <1>12, <1>13, <1>14 DEF AcquisitionStep

-----------------------------------------------------------------------------
(* Steps of a refresh keep the types. *)

\* A refresh that has a run and goes on with it.
LEMMA OpenTyped ==
    ASSUME NEW w \in Scope, op' \in Operation, op'.scope = w, op'.step \in OpenSteps,
           IsOpen(w)', StandsAt(op'.step, Last(w)'),
           op'.answer # None => op'.step = "fetch" /\ op'.answer \in Answers
    PROVE  Equipped' /\ Placed'
<1>1. IsOpen(op.scope)' /\ StandsAt(op.step, Last(op.scope))'
  BY DEF StandsAt, IsOpen, Last, Observed
<1> QED
  BY <1>1 DEF Equipped, Placed, AttemptSteps, OpenSteps

\* The stores of a refresh, without its journals.
PublicTyped ==
    /\ part \in Content \cup {None}
    /\ observations \subseteq Observation /\ comparisons \subseteq Observation
    /\ summaries \subseteq History
    /\ bundles \subseteq Bundle
    /\ damaged \in BOOLEAN

\* A step that leaves the files of acquisition alone.
LEMMA RefreshTyped ==
    ASSUME Typed, UNCHANGED <<acquisitionVars, crashes, now>>, PublicTyped',
           runs' \in [Scope -> Seq(Run)], op' \in Operation, Equipped', Journals', Placed'
    PROVE  Typed'
  BY DEF Typed, TypeOK, PublicTyped, Operation, acquisitionVars

\* A refresh begins with an open run or with none.
LEMMA BeginRefreshTyped ==
    ASSUME Typed, NEW s \in Scope, NEW time \in 0 .. now, BeginRefresh(s, time)
    PROVE  Typed'
<1>1. UNCHANGED <<acquisitionVars, refreshVars, crashes, now>>
  BY DEF BeginRefresh
<1>2. PublicTyped' /\ runs' \in [Scope -> Seq(Run)] /\ Journals'
  BY <1>1 DEF refreshVars, PublicTyped, Typed, TypeOK, Journals, IsOpen, Last
<1>3. time \in 0 .. MaxNow
  BY RefreshConstants DEF Typed, TypeOK
<1>4. CASE IsOpen(s)
  <2>1. op' = [Idle EXCEPT !.scope = s, !.time = time, !.step = NextStep(Last(s))]
    BY <1>4 DEF BeginRefresh
  <2>2. NextStep(Last(s)) \in OpenSteps /\ StandsAt(NextStep(Last(s)), Last(s))
    BY <1>4, OpenRun, NextStepTyped
  <2>3. /\ op' \in Operation /\ op'.scope = s /\ op'.step = NextStep(Last(s))
        /\ op'.answer = None
    BY <1>3, <2>1, <2>2, IdleTyped DEF Operation, Steps, OpenSteps
  <2>4. IsOpen(s)' /\ Last(s)' = Last(s)
    BY <1>1, <1>4 DEF IsOpen, Last, refreshVars
  <2> QED
    BY <1>1, <1>2, <2>2, <2>3, <2>4, OpenTyped, RefreshTyped
<1>5. CASE ~ IsOpen(s)
  <2>1. op' = [Idle EXCEPT !.scope = s, !.time = time, !.step = "run"]
    BY <1>5 DEF BeginRefresh
  <2>2. op' \in Operation /\ op'.scope = s /\ op'.step = "run" /\ op'.answer = None
    BY <1>3, <2>1, IdleTyped DEF Operation, Steps
  <2>3. Len(runs[s]) < MaxRuns /\ \A o \in Scope : ~ IsOpen(o)
    BY <1>5 DEF BeginRefresh
  <2>4. Placed' /\ Equipped'
    BY <1>1, <2>2, <2>3 DEF Placed, Equipped, AttemptSteps, OpenSteps, refreshVars, IsOpen, Last
  <2> QED
    BY <1>1, <1>2, <2>2, <2>4, RefreshTyped
<1> QED
  BY <1>4, <1>5

\* A new run: those before it are done.
LEMMA WriteRunTyped ==
    ASSUME Typed, WriteRun
    PROVE  /\ Typed'
           /\ op.scope \in Scope /\ op'.scope = op.scope /\ op'.time = op.time
           /\ op'.answer = op.answer /\ op'.step = "fetch"
           /\ runs[op.scope] \in Seq(Run) /\ Len(runs[op.scope]) < MaxRuns
           /\ runs' = [runs EXCEPT ![op.scope] = Append(runs[op.scope], NewRun)]
           /\ Last(op.scope)' = NewRun
<1> DEFINE w == op.scope
           n == Len(runs[w])
<1>1. /\ op.step = "run" /\ w \in Scope /\ n < MaxRuns /\ \A s \in Scope : ~ IsOpen(s)
      /\ op.answer = None
  BY DEF WriteRun, Typed, Equipped, Placed
<1>2. runs[w] \in Seq(Run) /\ runs \in [Scope -> Seq(Run)]
  BY <1>1 DEF Typed, TypeOK
<1>3. runs' = [runs EXCEPT ![w] = Append(runs[w], NewRun)] /\ Goes("fetch")
  BY <1>2 DEF WriteRun
<1>4. NewRun \in Run /\ InOrder(NewRun) /\ ~ NewRun.done /\ StandsAt("fetch", NewRun)
  <2>1. <<>> \in Seq(Fetch) /\ Len(<<>>) = 0 /\ DOMAIN <<>> = {}
    OBVIOUS
  <2> QED
    BY <2>1, AcquisitionConstants DEF NewRun, Run, InOrder, StandsAt
<1>5. /\ op' \in Operation /\ op'.step = "fetch" /\ op'.scope = w /\ op'.answer = None
      /\ op'.time = op.time
  BY <1>1, <1>3, GoesTyped DEF Steps
<1>6. runs'[w] = Append(runs[w], NewRun) /\ \A s \in Scope \ {w} : runs'[s] = runs[s]
  BY <1>1, <1>2, <1>3
<1>7. /\ Len(runs'[w]) = n + 1 /\ runs'[w][n + 1] = NewRun /\ runs'[w] \in Seq(Run)
      /\ \A i \in DOMAIN runs[w] : runs'[w][i] = runs[w][i]
  BY <1>2, <1>4, <1>6
<1>8. IsOpen(w)' /\ Last(w)' = NewRun /\ \A s \in Scope \ {w} : ~ IsOpen(s)'
  <2>1. op'.scope = op.scope /\ n \in Nat /\ runs'[w] # <<>>
    BY <1>2, <1>5, <1>7
  <2>2. IsOpen(w)' /\ Last(w)' = NewRun
    BY <1>4, <1>7, <2>1 DEF IsOpen, Last
  <2> QED
    BY <1>1, <1>6, <2>2 DEF IsOpen, Last
<1>9. \A i \in DOMAIN runs[w] : runs[w][i].done
  BY <1>1, <1>2 DEF Typed, Journals, IsOpen, Last
<1>10. Journals'
  <2>1. \A s \in Scope : Len(runs'[s]) <= MaxRuns
    BY <1>1, <1>2, <1>6, <1>7, RefreshConstants DEF Typed, Journals
  <2>2. ASSUME NEW s \in Scope, NEW i \in DOMAIN runs'[s]
        PROVE  InOrder(runs'[s][i]) /\ (i # Len(runs'[s]) => runs'[s][i].done)
    <3>1. CASE s # w
      BY <1>6, <2>2, <3>1 DEF Typed, Journals
    <3>2. CASE s = w /\ i = n + 1
      BY <1>4, <1>7, <3>2
    <3>3. CASE s = w /\ i # n + 1
      <4>1. i \in DOMAIN runs[w]
        BY <1>2, <1>7, <2>2, <3>3
      <4> QED
        BY <1>1, <1>7, <1>9, <3>3, <4>1 DEF Typed, Journals
    <3> QED
      BY <3>1, <3>2, <3>3
  <2>3. \A s, o \in Scope : IsOpen(s)' /\ IsOpen(o)' => s = o
    BY <1>8
  <2> QED
    BY <2>1, <2>2, <2>3 DEF Journals
<1>11. Equipped' /\ Placed'
  BY <1>1, <1>4, <1>5, <1>8, OpenTyped DEF OpenSteps
<1>12. PublicTyped' /\ runs' \in [Scope -> Seq(Run)]
  BY <1>2, <1>3, <1>6, <1>7 DEF WriteRun, PublicTyped, Typed, TypeOK, Rest
<1>13. Typed'
  BY <1>5, <1>10, <1>11, <1>12, RefreshTyped DEF WriteRun, Rest
<1>14. Last(op.scope)' = NewRun
  BY <1>5, <1>8 DEF Last
<1> QED
  BY <1>1, <1>2, <1>3, <1>5, <1>13, <1>14

\* What a refresh that has a run knows of it.
LEMMA Context ==
    ASSUME Typed, op.step \in OpenSteps
    PROVE  /\ op.scope \in Scope /\ op.scope # None /\ IsOpen(op.scope)
           /\ StandsAt(op.step, Last(op.scope))
           /\ Last(op.scope) \in Run /\ InOrder(Last(op.scope)) /\ ~ Last(op.scope).done
           /\ Last(op.scope).fetches \in Seq(Fetch) /\ Len(Last(op.scope).fetches) \in Nat
           /\ Last(op.scope).prepares \in 0 .. Sources /\ Last(op.scope).steps \in 0 .. Sources
           /\ op \in Operation
<1>1. op.scope \in Scope /\ IsOpen(op.scope) /\ StandsAt(op.step, Last(op.scope))
  BY DEF Typed, Equipped, Placed
<1> QED
  BY <1>1, OpenRun, NoneIsNoValue DEF Typed, TypeOK, Operation

\* The refresh goes on and has changed its journal.
LEMMA JournalStep ==
    ASSUME Typed, op.step \in OpenSteps, NEW run \in Run, InOrder(run), ~ run.done, Journal(run),
           op' \in Operation, op'.scope = op.scope, op'.step \in OpenSteps,
           StandsAt(op'.step, run), op'.answer = None,
           UNCHANGED <<part, observations, comparisons, summaries, bundles, Rest>>
    PROVE  Typed' /\ Last(op.scope)' = run
<1>1. PICK w \in Scope : w = op.scope
  BY Context
<1>2. IsOpen(w)
  BY <1>1, Context
<1>3. /\ runs' \in [Scope -> Seq(Run)] /\ Journals'
      /\ Last(w)' = run /\ IsOpen(w)'
  BY <1>1, <1>2, JournalTyped
<1>4. StandsAt(op'.step, Last(w)')
  BY <1>3
<1>5. Equipped' /\ Placed'
  BY <1>1, <1>3, <1>4, OpenTyped
<1>6. PublicTyped'
  BY DEF PublicTyped, Typed, TypeOK, Rest
<1>7. Last(op.scope)' = run
  BY <1>1, <1>3 DEF Last
<1> QED
  BY <1>3, <1>5, <1>6, <1>7, RefreshTyped DEF Rest

\* The refresh goes on and has not.
LEMMA QuietStep ==
    ASSUME Typed, op.step \in OpenSteps, UNCHANGED runs,
           op' \in Operation, op'.scope = op.scope, op'.step \in OpenSteps,
           StandsAt(op'.step, Last(op.scope)),
           op'.answer # None => op'.step = "fetch" /\ op'.answer \in Answers
    PROVE  /\ runs' \in [Scope -> Seq(Run)] /\ Equipped' /\ Journals' /\ Placed'
           /\ Last(op.scope)' = Last(op.scope)
<1>1. PICK w \in Scope : w = op.scope
  BY Context
<1>2. IsOpen(w)' /\ Last(w)' = Last(w)
  BY <1>1, Context DEF IsOpen, Last
<1>3. StandsAt(op'.step, Last(w)')
  BY <1>1, <1>2
<1>4. Equipped' /\ Placed'
  BY <1>1, <1>2, <1>3, OpenTyped
<1>5. runs' \in [Scope -> Seq(Run)] /\ Journals'
  BY DEF Typed, TypeOK, Journals, IsOpen, Last
<1>6. Last(op.scope)' = Last(op.scope)
  BY <1>1 DEF Last
<1> QED
  BY <1>4, <1>5, <1>6

LEMMA StageBodyTyped ==
    ASSUME Typed, StageBody
    PROVE  Typed' /\ op'.step = "fetch" /\ op'.scope = op.scope /\ op'.time = op.time
           /\ op'.answer \in Answers /\ op'.answer.status = "observed"
           /\ part' = op'.answer.content /\ UNCHANGED runs
<1>1. op.step \in OpenSteps /\ op.step = "fetch"
  BY DEF StageBody, OpenSteps
<1>2. PICK a \in Answers : /\ a.status = "observed"
                           /\ part' = a.content /\ op' = [op EXCEPT !.answer = a]
  BY DEF StageBody
<1>3. a \in Answer /\ a.content \in Content
  BY <1>2, RefreshConstants DEF Answer
<1>4. /\ op' \in Operation /\ op'.scope = op.scope /\ op'.step = "fetch" /\ op'.answer = a
      /\ op'.time = op.time
  BY <1>1, <1>2, <1>3, Context DEF Operation
<1>5. /\ runs' \in [Scope -> Seq(Run)] /\ Equipped' /\ Journals' /\ Placed' /\ UNCHANGED runs
  BY <1>1, <1>2, <1>4, Context, QuietStep DEF StageBody
<1>6. PublicTyped'
  BY <1>2, <1>3 DEF StageBody, PublicTyped, Typed, TypeOK, Rest
<1> QED
  BY <1>2, <1>4, <1>5, <1>6, RefreshTyped DEF StageBody, Rest

\* The journal has one receipt more.
LEMMA WriteReceiptTyped ==
    ASSUME Typed, NEW a \in Answers, Received(a), op.step = "fetch",
           Journal([Last(op.scope) EXCEPT !.fetches = Append(@, [answer |-> a, at |-> op.time])]),
           op' = [op EXCEPT !.answer = None,
                            !.step = IF a.status = "observed" THEN "retain" ELSE "prepare"],
           UNCHANGED <<part, observations, comparisons, summaries, bundles, Rest>>
    PROVE  LET old == Last(op.scope)
               fetch == [answer |-> a, at |-> op.time]
               run == [old EXCEPT !.fetches = Append(old.fetches, fetch)]
           IN  /\ Typed' /\ Last(op.scope)' = run /\ run \in Run /\ Journal(run) /\ InOrder(run)
               /\ fetch \in Fetch /\ run.fetches = Append(old.fetches, fetch)
               /\ run.prepares = old.prepares /\ run.steps = old.steps /\ ~ run.done
               /\ op'.scope = op.scope /\ op'.time = op.time /\ op'.answer = None
               /\ op'.step = IF a.status = "observed" THEN "retain" ELSE "prepare"
<1> DEFINE old == Last(op.scope)
           fetch == [answer |-> a, at |-> op.time]
           run == [old EXCEPT !.fetches = Append(old.fetches, fetch)]
<1>1. op.step \in OpenSteps
  BY DEF OpenSteps
<1>2. /\ old \in Run /\ InOrder(old) /\ ~ old.done /\ StandsAt("fetch", old) /\ op \in Operation
      /\ old.fetches \in Seq(Fetch) /\ Len(old.fetches) \in Nat
      /\ old.prepares \in 0 .. Sources /\ old.steps \in 0 .. Sources
  BY <1>1, Context
<1>3. fetch \in Fetch /\ fetch.answer = a
  BY <1>2, RefreshConstants DEF Fetch, Operation
<1>4. Journal(run)
  BY <1>2 DEF Run
<1> HIDE DEF fetch
<1>5. Append(old.fetches, fetch) \in Seq(Fetch)
  BY <1>2, <1>3
<1>6. /\ run \in Run /\ run.fetches = Append(old.fetches, fetch) /\ ~ run.done
      /\ run.prepares = old.prepares /\ run.steps = old.steps
  BY <1>2, <1>5 DEF Run
<1>7. /\ Len(run.fetches) = Len(old.fetches) + 1 /\ run.fetches[Len(run.fetches)] = fetch
      /\ \A i \in DOMAIN run.fetches : run.fetches[i].answer \in Answers
  <2>1. \A i \in DOMAIN old.fetches : old.fetches[i].answer \in Answers
    BY <1>2 DEF InOrder
  <2> QED
    BY <1>2, <1>3, <1>6, <2>1
<1> DEFINE step == IF a.status = "observed" THEN "retain" ELSE "prepare"
<1>8. op' \in Operation /\ op'.scope = op.scope /\ op'.answer = None /\ op'.time = op.time
      /\ op'.step = step /\ step \in OpenSteps
  BY <1>2 DEF Operation, Steps, OpenSteps
<1> HIDE DEF old, run
<1>9. InOrder(run)
  BY <1>2, <1>6, <1>7, AcquisitionConstants DEF InOrder, StandsAt
<1>10. StandsAt(step, run)
  BY <1>2, <1>3, <1>6, <1>7, AcquisitionConstants DEF StandsAt, InOrder, Observed
<1> HIDE DEF step
<1>11. Typed' /\ Last(op.scope)' = run
  BY <1>1, <1>4, <1>6, <1>8, <1>9, <1>10, JournalStep
<1> QED
  BY <1>3, <1>4, <1>6, <1>8, <1>9, <1>11 DEF old, run, fetch, step

\* The answer of the receipt that waits is a body.
LEMMA RetainBodyTyped ==
    ASSUME Typed, RetainBody
    PROVE  LET c == Last(op.scope).fetches[Len(Last(op.scope).fetches)].answer.content
           IN  /\ Typed' /\ UNCHANGED runs
               /\ \/ /\ artifacts' = artifacts \cup {c} /\ part' = None /\ Goes("prepare")
                     /\ Last(op.scope)' = Last(op.scope)
                  \/ op' = Idle /\ UNCHANGED <<artifacts, part>>
<1> DEFINE run == Last(op.scope)
           c == run.fetches[Len(run.fetches)].answer.content
<1>1. op.step \in OpenSteps /\ op.step = "retain"
  BY DEF RetainBody, OpenSteps
<1>2. /\ InOrder(run) /\ run.fetches \in Seq(Fetch) /\ Len(run.fetches) = run.prepares + 1
      /\ run.prepares \in 0 .. Sources /\ Observed(run.fetches[Len(run.fetches)])
      /\ StandsAt("retain", run)
  BY <1>1, Context DEF StandsAt
<1>3. Len(run.fetches) \in DOMAIN run.fetches
  BY <1>2, AcquisitionConstants
<1>4. c \in Content
  BY <1>2, <1>3, RefreshConstants DEF InOrder, Observed, Answer
<1> HIDE DEF c
<1>5. \/ artifacts' = artifacts \cup {c} /\ part' = None /\ Goes("prepare")
      \/ op' = Idle /\ UNCHANGED <<artifacts, part>>
  BY DEF RetainBody, c
<1>6. UNCHANGED <<runs, observations, comparisons, summaries, bundles, damaged, now, crashes>>
  BY DEF RetainBody
<1>7. artifacts' \subseteq Content /\ part' \in Content \cup {None}
  BY <1>4, <1>5 DEF Typed, TypeOK
<1>8. /\ op' \in Operation /\ Equipped' /\ Journals' /\ Placed'
      /\ Goes("prepare") => Last(op.scope)' = run
  <2>1. CASE op' = Idle
    <3>1. ~ Goes("prepare")
      BY <2>1, Context, <1>1 DEF Goes, Idle, Operation
    <3> QED
      BY <1>6, <2>1, <3>1, OverTyped
  <2>2. CASE Goes("prepare")
    <3>1. /\ op' \in Operation /\ op'.scope = op.scope /\ op'.step = "prepare"
          /\ op'.answer = op.answer
      BY <2>2, GoesTyped DEF Steps
    <3>2. op.answer = None
      BY <1>1 DEF Typed, Equipped
    <3>3. StandsAt("prepare", run)
      BY <1>2 DEF StandsAt
    <3> QED
      BY <1>1, <1>6, <3>1, <3>2, <3>3, QuietStep DEF OpenSteps
  <2> QED
    BY <1>5, <2>1, <2>2
<1>9. Typed'
  BY <1>6, <1>7, <1>8 DEF RetainBody, Typed, TypeOK, Operation
<1> QED
  BY <1>5, <1>6, <1>8, <1>9 DEF c

\* The journal has one prepare more, or the comparison is refused.
LEMMA WritePrepareTyped ==
    ASSUME Typed, WritePrepare
    PROVE  LET old == Last(op.scope)
               run == [old EXCEPT !.prepares = old.prepares + 1]
           IN  /\ Typed'
               /\ \/ /\ Journal(run) /\ Goes("observe") /\ run \in Run /\ Last(op.scope)' = run
                     /\ InOrder(run) /\ op'.step = "observe"
                     /\ run.fetches = old.fetches /\ run.steps = old.steps /\ ~ run.done
                     /\ run.prepares = old.prepares + 1
                  \/ op' = Idle /\ UNCHANGED runs
<1> DEFINE old == Last(op.scope)
           run == [old EXCEPT !.prepares = old.prepares + 1]
<1>1. op.step \in OpenSteps /\ op.step = "prepare"
  BY DEF WritePrepare, OpenSteps
<1>2. /\ old \in Run /\ InOrder(old) /\ ~ old.done /\ Len(old.fetches) = old.prepares + 1
      /\ old.prepares \in 0 .. Sources /\ old.steps \in 0 .. Sources /\ Len(old.fetches) \in Nat
  BY <1>1, Context DEF StandsAt
<1>3. \/ Journal(run) /\ Goes("observe")
      \/ op' = Idle /\ UNCHANGED runs
  BY DEF WritePrepare
<1>4. UNCHANGED <<part, observations, comparisons, summaries, bundles, Rest>>
  BY DEF WritePrepare
<1>5. CASE op' = Idle /\ UNCHANGED runs
  <2>1. PublicTyped' /\ runs' \in [Scope -> Seq(Run)]
    BY <1>4, <1>5 DEF PublicTyped, Typed, TypeOK, Rest
  <2> QED
    BY <1>4, <1>5, <2>1, OverTyped, RefreshTyped DEF Rest
<1>6. CASE Journal(run) /\ Goes("observe")
  <2>1. /\ run \in Run /\ run.fetches = old.fetches /\ run.steps = old.steps /\ ~ run.done
        /\ run.prepares = old.prepares + 1
    BY <1>2, AcquisitionConstants DEF Run, InOrder
  <2>2. /\ op' \in Operation /\ op'.scope = op.scope /\ op'.step = "observe"
        /\ op'.answer = None
    BY <1>1, <1>6, GoesTyped DEF Steps, Typed, Equipped
  <2> HIDE DEF run, old
  <2>3. InOrder(run) /\ StandsAt("observe", run)
    BY <1>2, <2>1, AcquisitionConstants DEF InOrder, StandsAt
  <2>4. Typed' /\ Last(op.scope)' = run
    BY <1>1, <1>4, <1>6, <2>1, <2>2, <2>3, JournalStep DEF OpenSteps
  <2> QED
    BY <1>6, <2>1, <2>2, <2>3, <2>4 DEF run, old
<1> QED
  BY <1>3, <1>5, <1>6

\* What is prepared has an observation.
LEMMA PreparedTyped ==
    ASSUME Typed, op.step \in {"observe", "compare", "step"}
    PROVE  /\ Prepared \in Observation
           /\ Last(op.scope).prepares = Last(op.scope).steps + 1
           /\ Last(op.scope).prepares \in DOMAIN Last(op.scope).fetches
           /\ Last(op.scope).prepares \in Source
<1> DEFINE run == Last(op.scope)
           n == run.prepares
<1>1. /\ op.scope \in Scope /\ InOrder(run) /\ run.fetches \in Seq(Fetch) /\ n = run.steps + 1
      /\ Len(run.fetches) \in Nat /\ n \in 0 .. Sources /\ run.steps \in 0 .. Sources
  BY Context DEF OpenSteps, StandsAt
<1>2. n \in DOMAIN run.fetches /\ n \in Source
  BY <1>1, AcquisitionConstants DEF InOrder, Source
<1>3. run.fetches[n] \in Fetch
  BY <1>1, <1>2
<1> QED
  BY <1>1, <1>2, <1>3 DEF Prepared, Observation

\* The observation and the comparison are published.
LEMMA PublishTyped ==
    ASSUME Typed, PublishObservation \/ PublishComparison
    PROVE  Typed' /\ Last(op.scope)' = Last(op.scope) /\ Prepared' = Prepared
<1>1. Prepared \in Observation /\ op.step \in OpenSteps
  BY PreparedTyped DEF PublishObservation, PublishComparison, OpenSteps
<1>2. PICK step \in {"compare", "step"} : Goes(step)
  BY DEF PublishObservation, PublishComparison
<1>3. UNCHANGED <<runs, part, summaries, bundles, Rest>>
  BY DEF PublishObservation, PublishComparison
<1>4. op.answer = None /\ op.step \in {"observe", "compare"}
  BY DEF Typed, Equipped, PublishObservation, PublishComparison
<1>5. /\ op' \in Operation /\ op'.scope = op.scope /\ op'.step = step /\ op'.answer = None
  BY <1>2, <1>4, GoesTyped DEF Steps
<1>6. StandsAt(step, Last(op.scope)) /\ step \in OpenSteps
  BY <1>1, <1>4, Context DEF StandsAt, OpenSteps
<1>7. /\ runs' \in [Scope -> Seq(Run)] /\ Equipped' /\ Journals' /\ Placed'
      /\ Last(op.scope)' = Last(op.scope)
  BY <1>1, <1>3, <1>5, <1>6, QuietStep
<1>8. PublicTyped'
  BY <1>1, <1>3 DEF PublicTyped, Typed, TypeOK, PublishObservation, PublishComparison, Rest
<1> QED
  BY <1>3, <1>5, <1>7, <1>8, RefreshTyped DEF Prepared, Rest

\* The journal has one step more.
LEMMA WriteStepTyped ==
    ASSUME Typed, WriteStep
    PROVE  LET old == Last(op.scope)
               run == [old EXCEPT !.steps = old.steps + 1]
           IN  /\ Typed' /\ Journal(run) /\ run \in Run /\ Last(op.scope)' = run
               /\ InOrder(run)
               /\ run.fetches = old.fetches /\ run.prepares = old.prepares /\ ~ run.done
               /\ run.steps = old.steps + 1 /\ run.steps = old.prepares
               /\ Goes(NextStep(run)) /\ op'.step = NextStep(run)
               /\ NextStep(run) \in {"fetch", "preflight"}
<1> DEFINE old == Last(op.scope)
           run == [old EXCEPT !.steps = old.steps + 1]
<1>1. op.step \in OpenSteps /\ op.step = "step"
  BY DEF WriteStep, OpenSteps
<1>2. /\ old \in Run /\ InOrder(old) /\ ~ old.done /\ old.prepares = old.steps + 1
      /\ old.prepares \in 0 .. Sources /\ old.steps \in 0 .. Sources /\ Len(old.fetches) \in Nat
  BY <1>1, Context DEF StandsAt
<1>3. /\ run \in Run /\ run.fetches = old.fetches /\ run.prepares = old.prepares /\ ~ run.done
      /\ run.steps = old.steps + 1
  BY <1>2, AcquisitionConstants DEF Run, InOrder
<1>4. Journal(run) /\ Goes(NextStep(run))
  BY <1>2 DEF WriteStep, Run
<1> HIDE DEF run, old
<1>5. InOrder(run)
  BY <1>2, <1>3, AcquisitionConstants DEF InOrder
<1>6. NextStep(run) \in OpenSteps /\ StandsAt(NextStep(run), run)
  BY <1>3, <1>5, NextStepTyped
<1>7. NextStep(run) \in {"fetch", "preflight"}
  BY <1>2, <1>3, <1>5, AcquisitionConstants DEF NextStep, InOrder
<1>8. /\ op' \in Operation /\ op'.scope = op.scope /\ op'.step = NextStep(run)
      /\ op'.answer = None
  BY <1>1, <1>4, <1>7, GoesTyped DEF Steps, Typed, Equipped
<1>9. Typed' /\ Last(op.scope)' = run
  BY <1>1, <1>3, <1>4, <1>5, <1>6, <1>8, JournalStep DEF WriteStep
<1> QED
  BY <1>2, <1>3, <1>4, <1>5, <1>7, <1>8, <1>9 DEF run, old

\* The bundle's states are counted.
LEMMA StatesCounted ==
    /\ DOMAIN BundleStates = 1 .. Complete
    /\ BundleStates[5] = "published"
    /\ \A n \in 1 .. Complete : BundleStates[n] = "published" => n = 5
<1>1. DOMAIN BundleStates = 1 .. 8
  BY DEF BundleStates
<1> QED
  BY <1>1 DEF BundleStates, Complete

\* What has been reached of a bundle.
LEMMA ReachedTyped ==
    ASSUME Typed, NEW h \in History
    PROVE  /\ Reached(h) \in 0 .. Complete
           /\ Reached(h) = 0 => \A b \in bundles : b.of # h
           /\ Reached(h) # 0 => [of |-> h, at |-> Reached(h)] \in bundles
<1>1. bundles \subseteq Bundle
  BY DEF Typed, TypeOK
<1>2. CASE \E b \in bundles : b.of = h
  <2> DEFINE b == CHOOSE b \in bundles : b.of = h
  <2>1. b \in bundles /\ b.of = h /\ Reached(h) = b.at
    BY <1>2 DEF Reached
  <2>2. b \in Bundle
    BY <1>1, <2>1
  <2> HIDE DEF b
  <2>3. b = [of |-> b.of, at |-> b.at] /\ b.at \in 1 .. Complete
    BY <2>2, StatesCounted DEF Bundle
  <2>4. b = [of |-> h, at |-> Reached(h)] /\ Reached(h) \in 1 .. Complete
    BY <2>1, <2>3
  <2> QED
    BY <2>1, <2>4 DEF Complete
<1>3. CASE ~ \E b \in bundles : b.of = h
  BY <1>3 DEF Reached, Complete
<1> QED
  BY <1>2, <1>3

LEMMA PreflightTyped ==
    ASSUME Typed, Preflight
    PROVE  Typed'
<1>1. op.step = "preflight" /\ op.step \in OpenSteps
  BY DEF Preflight, OpenSteps
<1>2. UNCHANGED <<acquisitionVars, refreshVars, crashes, now>>
  BY DEF Preflight
<1>3. PublicTyped' /\ runs' \in [Scope -> Seq(Run)] /\ UNCHANGED runs
  BY <1>2 DEF PublicTyped, Typed, TypeOK, refreshVars
<1>4. CASE op' = Idle
  BY <1>2, <1>3, <1>4, OverTyped, RefreshTyped
<1>5. CASE op' = [op EXCEPT !.step = "bundle", !.history = HistoryOf(op.scope)]
  <2>1. /\ op.scope \in Scope /\ IsOpen(op.scope) /\ op \in Operation /\ op.answer = None
        /\ Last(op.scope).steps = Sources /\ HistoryOf(op.scope) \in History
    BY <1>1, Context DEF StandsAt, HistoryOf, History, Typed, Equipped
  <2>2. /\ op' \in Operation /\ op'.step = "bundle" /\ op'.scope = op.scope /\ op'.answer = None
        /\ op'.history = HistoryOf(op.scope)
    BY <1>5, <2>1 DEF Operation, Steps
  <2>3. /\ IsOpen(op.scope)' /\ Last(op.scope)' = Last(op.scope)
        /\ HistoryOf(op.scope)' = HistoryOf(op.scope)
    BY <1>3, <2>1, <2>2 DEF IsOpen, Last, HistoryOf
  <2>4. Placed' /\ Equipped'
    BY <2>1, <2>2, <2>3 DEF Placed, Equipped, AttemptSteps, OpenSteps
  <2>5. Journals'
    BY <1>3 DEF Typed, Journals, IsOpen, Last
  <2> QED
    BY <1>2, <1>3, <2>2, <2>4, <2>5, RefreshTyped
<1> QED
  BY <1>4, <1>5 DEF Preflight

\* A bundle has one write more.
LEMMA WriteBundleTyped ==
    ASSUME Typed, WriteBundle
    PROVE  LET n == Reached(op.history) + 1
           IN  /\ Typed' /\ op.history \in History /\ n \in 1 .. Complete
               /\ bundles' = {b \in bundles : b.of # op.history}
                                \cup {[of |-> op.history, at |-> n]}
               /\ summaries' = IF n = 5 THEN summaries \cup {op.history} ELSE summaries
               /\ UNCHANGED <<op, runs>>
<1> DEFINE n == Reached(op.history) + 1
           bundle == [of |-> op.history, at |-> n]
<1>1. op.history \in History
  BY DEF WriteBundle, Typed, Equipped
<1>2. n \in 1 .. Complete
  <2>1. Reached(op.history) \in 0 .. 8
    BY <1>1, ReachedTyped DEF Complete
  <2>2. Reached(op.history) + 1 <= Complete
    BY DEF WriteBundle
  <2> QED
    BY <2>1, <2>2 DEF Complete
<1>3. UNCHANGED <<runs, part, observations, comparisons, op, Rest>>
  BY DEF WriteBundle
<1>4. bundles' = {b \in bundles : b.of # op.history} \cup {bundle}
  BY DEF WriteBundle
<1>5. summaries' = IF n = 5 THEN summaries \cup {op.history} ELSE summaries
  BY <1>2, StatesCounted DEF WriteBundle
<1>6. bundle \in Bundle
  BY <1>1, <1>2, StatesCounted DEF Bundle
<1> HIDE DEF bundle, n
<1>7. PublicTyped'
  <2>1. PublicTyped
    BY DEF PublicTyped, Typed, TypeOK
  <2> QED
    BY <1>1, <1>3, <1>4, <1>5, <1>6, <2>1 DEF PublicTyped, Rest
<1>8. /\ runs' \in [Scope -> Seq(Run)] /\ op' \in Operation
      /\ Equipped' /\ Journals' /\ Placed'
  <2>1. Missing(op.todo)' = Missing(op.todo)
    BY <1>3 DEF Missing, Rest, acquisitionVars
  <2> QED
    BY <1>3, <2>1 DEF Typed, TypeOK, Operation, Equipped, Journals, Placed, IsOpen, Last,
                      StandsAt, HistoryOf, Observed
<1>9. Typed'
  BY <1>3, <1>7, <1>8, RefreshTyped DEF Rest
<1> QED
  BY <1>1, <1>2, <1>3, <1>4, <1>5, <1>9 DEF bundle, n

\* The run is done, or the recovery of a bundle is over.
LEMMA WriteDoneTyped ==
    ASSUME Typed, WriteDone
    PROVE  /\ Typed' /\ op' = Idle
           /\ \/ UNCHANGED runs
              \/ LET run == [Last(op.scope) EXCEPT !.done = TRUE]
                 IN  /\ op.scope \in Scope /\ IsOpen(op.scope) /\ op.history = HistoryOf(op.scope)
                     /\ Journal(run) /\ run \in Run /\ InOrder(run) /\ run.steps = Sources
                     /\ run.fetches = Last(op.scope).fetches
                     /\ run.steps = Last(op.scope).steps
                     /\ run.prepares = Last(op.scope).prepares
<1>1. UNCHANGED <<part, observations, comparisons, summaries, bundles, Rest>> /\ op' = Idle
  BY DEF WriteDone
<1>2. PublicTyped'
  BY <1>1 DEF PublicTyped, Typed, TypeOK, Rest
<1>3. op' \in Operation /\ Equipped' /\ Placed'
  BY <1>1, IdleTyped DEF Equipped, Placed, AttemptSteps, OpenSteps
<1>4. CASE op.scope = None
  <2>1. UNCHANGED runs
    BY <1>4 DEF WriteDone
  <2> QED
    BY <1>1, <1>2, <2>1, OverTyped, RefreshTyped DEF Rest, Typed, TypeOK
<1>5. CASE op.scope # None
  <2> DEFINE old == Last(op.scope)
             run == [old EXCEPT !.done = TRUE]
  <2>1. PICK w \in Scope : w = op.scope
    BY <1>5 DEF WriteDone, Typed, Placed
  <2>2. IsOpen(w) /\ old.steps = Sources /\ op.history = HistoryOf(w)
    BY <1>5, <2>1 DEF WriteDone, Typed, Placed
  <2>3. old \in Run /\ InOrder(old) /\ runs[w] \in Seq(Run) /\ Len(runs[w]) \in DOMAIN runs[w]
    BY <2>1, <2>2, OpenRun
  <2>4. /\ run \in Run /\ InOrder(run) /\ run.fetches = old.fetches /\ run.steps = Sources
        /\ run.prepares = old.prepares /\ run.done
    BY <2>2, <2>3 DEF Run, InOrder
  <2>5. Journal(run)
    <3>1. runs' = [runs EXCEPT ![op.scope][Len(runs[op.scope])].done = TRUE]
      BY <1>5 DEF WriteDone
    <3> QED
      BY <2>1, <2>3, <3>1 DEF Journal, Last, Typed, TypeOK
  <2> HIDE DEF run, old
  <2>6. runs' \in [Scope -> Seq(Run)] /\ Journals'
    BY <2>1, <2>2, <2>4, <2>5, JournalTyped
  <2>7. Typed'
    BY <1>1, <1>2, <1>3, <2>6, RefreshTyped DEF Rest
  <2> QED
    BY <1>1, <2>1, <2>2, <2>4, <2>5, <2>7 DEF run, old
<1> QED
  BY <1>4, <1>5

\* Steps that change the operation and not what is stored.
LEMMA OtherTyped ==
    ASSUME Typed, FetchFails \/ RecoverBundle \/ TearFreshnessFile \/ Tick
    PROVE  Typed'
<1>1. CASE FetchFails
  <2>1. UNCHANGED <<acquisitionVars, refreshVars, crashes, now>> /\ op' = Idle
    BY <1>1 DEF FetchFails
  <2>2. PublicTyped' /\ runs' \in [Scope -> Seq(Run)] /\ UNCHANGED runs
    BY <2>1 DEF PublicTyped, Typed, TypeOK, refreshVars
  <2> QED
    BY <2>1, <2>2, OverTyped, RefreshTyped
<1>2. CASE RecoverBundle
  <2>1. UNCHANGED <<acquisitionVars, refreshVars, crashes, now>>
    BY <1>2 DEF RecoverBundle
  <2>2. PICK b \in bundles : op' = [Idle EXCEPT !.step = "bundle", !.history = b.of]
    BY <1>2 DEF RecoverBundle
  <2>3. b.of \in History
    BY DEF Typed, TypeOK, Bundle
  <2>4. /\ op' \in Operation /\ op'.step = "bundle" /\ op'.history \in History
        /\ op'.answer = None /\ op'.scope = None
    BY <2>2, <2>3, IdleTyped DEF Operation, Steps
  <2>5. Equipped' /\ Placed'
    BY <2>4 DEF Equipped, Placed, AttemptSteps, OpenSteps
  <2>6. PublicTyped' /\ runs' \in [Scope -> Seq(Run)] /\ Journals'
    BY <2>1 DEF PublicTyped, Typed, TypeOK, refreshVars, Journals, IsOpen, Last
  <2> QED
    BY <2>1, <2>4, <2>5, <2>6, RefreshTyped
<1>3. CASE TearFreshnessFile
  <2>1. /\ UNCHANGED <<acquisitionVars, runs, part, observations, comparisons, summaries,
                       bundles, now>>
        /\ damaged' = TRUE /\ op' = Idle /\ crashes' \in 0 .. MaxCrashes
    BY <1>3, AcquisitionConstants DEF TearFreshnessFile, Typed, TypeOK
  <2>2. op' \in Operation /\ Equipped' /\ Journals' /\ Placed'
    BY <2>1, OverTyped
  <2> QED
    BY <2>1, <2>2 DEF Typed, TypeOK, Operation, acquisitionVars
<1>4. CASE Tick
  <2>1. UNCHANGED <<acquisitionVars, refreshVars, op, crashes>> /\ now' \in 0 .. MaxNow
    BY <1>4, RefreshConstants DEF Tick, Typed, TypeOK
  <2>2. Missing(op.todo)' = Missing(op.todo)
    BY <2>1 DEF Missing, acquisitionVars
  <2>3. Equipped' /\ Journals' /\ Placed'
    BY <2>1, <2>2 DEF Typed, Equipped, Journals, Placed, IsOpen, Last, StandsAt, HistoryOf,
                      Observed, refreshVars
  <2>4. TypeOK'
    BY <2>1 DEF Typed, TypeOK, acquisitionVars, refreshVars
  <2> QED
    BY <2>3, <2>4 DEF Typed
<1> QED
  BY <1>1, <1>2, <1>3, <1>4

-----------------------------------------------------------------------------
\* Nothing is acquired or refreshed at first.
THEOREM InitTyped == RefreshInit => Typed
<1> SUFFICES ASSUME RefreshInit PROVE Typed
  OBVIOUS
<1>1. TypeOK
  <2>1. op \in Operation /\ crashes \in 0 .. MaxCrashes /\ now \in 0 .. MaxNow
    BY IdleTyped, AcquisitionConstants, RefreshConstants DEF RefreshInit, AcquisitionInit
  <2>2. runs \in [Scope -> Seq(Run)] /\ records \in [Source -> Content \cup {None}]
    BY DEF RefreshInit, AcquisitionInit
  <2> QED
    BY <2>1, <2>2 DEF RefreshInit, AcquisitionInit, TypeOK, Operation
<1>2. Equipped /\ Placed
  BY IdleTyped DEF RefreshInit, AcquisitionInit, Equipped, Placed, AttemptSteps, OpenSteps
<1>3. Journals
  BY RefreshConstants DEF RefreshInit, Journals, IsOpen
<1> QED
  BY <1>1, <1>2, <1>3 DEF Typed

\* Every step keeps the shapes, the order of the journals, and the operation's place in
\* its own.
THEOREM NextTyped == Typed /\ [Next]_vars => Typed'
<1> SUFFICES ASSUME Typed, [Next]_vars PROVE Typed'
  OBVIOUS
<1>1. CASE Acquire /\ UNCHANGED <<refreshVars, now>>
  BY <1>1, BeginAcquireTyped, AttemptTyped DEF Acquire
<1>2. ASSUME NEW s \in Scope, NEW time \in 0 .. now, BeginRefresh(s, time) PROVE Typed'
  BY <1>2, BeginRefreshTyped
<1>3. CASE WriteReceipt
  <2>1. /\ op.step = "fetch"
        /\ UNCHANGED <<part, observations, comparisons, summaries, bundles, Rest>>
        /\ \E a \in Answers :
             /\ Received(a)
             /\ Journal([Last(op.scope)
                           EXCEPT !.fetches = Append(@, [answer |-> a, at |-> op.time])])
             /\ op' = [op EXCEPT !.answer = None,
                                 !.step = IF a.status = "observed" THEN "retain" ELSE "prepare"]
    BY <1>3 DEF WriteReceipt
  <2> QED
    BY <2>1, WriteReceiptTyped
<1>4. CASE RefreshStep
  BY <1>3, <1>4, WriteRunTyped, StageBodyTyped, RetainBodyTyped, WritePrepareTyped,
     PublishTyped, WriteStepTyped, PreflightTyped, WriteBundleTyped, WriteDoneTyped
     DEF RefreshStep
<1>5. CASE FetchFails \/ RecoverBundle \/ TearFreshnessFile \/ Tick
  BY <1>5, OtherTyped
<1>6. CASE UNCHANGED vars
  <2>1. UNCHANGED <<acquisitionVars, refreshVars, op, crashes, now>>
    BY <1>6 DEF vars
  <2>2. Missing(op.todo)' = Missing(op.todo)
    BY <2>1 DEF Missing, acquisitionVars
  <2>3. Equipped' /\ Journals' /\ Placed'
    BY <2>1, <2>2 DEF Typed, Equipped, Journals, Placed, IsOpen, Last, StandsAt, HistoryOf,
                      Observed, refreshVars
  <2>4. TypeOK'
    BY <2>1 DEF Typed, TypeOK, acquisitionVars, refreshVars
  <2> QED
    BY <2>3, <2>4 DEF Typed
<1> QED
  BY <1>1, <1>2, <1>4, <1>5, <1>6 DEF Next

THEOREM TypesHold == Spec => []Typed
  BY InitTyped, NextTyped, PTL DEF Spec

\* The files of both components, the operation and the clock keep their shapes.
THEOREM TypeCorrect == Spec => []TypeOK
<1>1. Typed => TypeOK
  BY DEF Typed
<1> QED
  BY <1>1, TypesHold, PTL

-----------------------------------------------------------------------------
(* What each step does to the runs. *)

\* Steps that are not of a run in progress: they leave the journals, the body and what is
\* public alone, and have no run, or the place in it that they had.
Quiet ==
    /\ UNCHANGED <<runs, part, observations, comparisons>>
    /\ artifacts \subseteq artifacts'
    /\ UNCHANGED op \/ op'.step \notin OpenSteps

LEMMA QuietSteps ==
    ASSUME Typed, Typed',
           \/ Acquire /\ UNCHANGED <<refreshVars, now>>
           \/ FetchFails \/ RecoverBundle \/ TearFreshnessFile \/ Tick
           \/ Preflight \/ WriteBundle
           \/ UNCHANGED vars
    PROVE  Quiet
<1>1. CASE Acquire /\ UNCHANGED <<refreshVars, now>>
  <2>1. artifacts \subseteq artifacts'
    BY <1>1 DEF Acquire, BeginAcquire, RecoverAttempt, WritePending, AcquireFails,
                AcquisitionStep, WriteIntent, StagePart, PublishPart, WriteRecord,
                WriteTerminal, TearAcquisitionFile, Crash, acquisitionVars
  <2>2. op'.step \notin OpenSteps
    <3>1. op \in Operation
      BY DEF Typed, TypeOK, Operation
    <3>2. CASE op' = Idle
      BY <3>2, IdleTyped DEF OpenSteps
    <3>3. ASSUME NEW todo \in SUBSET Source, BeginAcquire(todo) PROVE op'.step \notin OpenSteps
      BY <3>3, IdleTyped DEF BeginAcquire, Operation, OpenSteps
    <3>4. ASSUME NEW a \in Attempt, RecoverAttempt(a) PROVE op'.step \notin OpenSteps
      <4>1. PICK step \in {"publish", "record"} : op' = [Idle EXCEPT !.attempt = a, !.step = step]
        BY <3>4 DEF RecoverAttempt
      <4> QED
        BY <4>1, IdleTyped DEF Operation, OpenSteps
    <3>5. CASE WritePending \/ AcquisitionStep
      BY <3>1, <3>2, <3>5 DEF WritePending, AcquisitionStep, WriteIntent, StagePart,
                              PublishPart, WriteRecord, WriteTerminal, Operation, OpenSteps
    <3>6. CASE AcquireFails \/ TearAcquisitionFile \/ Crash
      BY <3>2, <3>6 DEF AcquireFails, TearAcquisitionFile, Crash
    <3>7. Acquire
      BY <1>1
    <3> QED
      BY <3>3, <3>4, <3>5, <3>6, <3>7 DEF Acquire
  <2> QED
    BY <1>1, <2>1, <2>2 DEF Quiet, refreshVars
<1>2. CASE FetchFails \/ TearFreshnessFile
  BY <1>2, IdleTyped DEF FetchFails, TearFreshnessFile, Quiet, OpenSteps, acquisitionVars,
                         refreshVars
<1>3. CASE RecoverBundle
  <2>1. op'.step = "bundle"
    <3>1. PICK b \in bundles : op' = [Idle EXCEPT !.step = "bundle", !.history = b.of]
      BY <1>3 DEF RecoverBundle
    <3> QED
      BY <3>1, IdleTyped DEF Operation
  <2> QED
    BY <1>3, <2>1 DEF RecoverBundle, Quiet, OpenSteps, acquisitionVars, refreshVars
<1>4. CASE Preflight
  <2>1. op'.step \in {"none", "bundle"}
    BY <1>4, IdleTyped DEF Preflight, Typed, TypeOK
  <2> QED
    BY <1>4, <2>1 DEF Preflight, Quiet, OpenSteps, acquisitionVars, refreshVars
<1>5. CASE WriteBundle
  BY <1>5 DEF WriteBundle, Quiet, Rest, acquisitionVars
<1>6. CASE Tick \/ UNCHANGED vars
  BY <1>6 DEF Tick, Quiet, vars, acquisitionVars, refreshVars
<1> QED
  BY <1>1, <1>2, <1>3, <1>4, <1>5, <1>6

\* A refresh that begins has no run yet, or goes on with the open one.
LEMMA BeginsQuietly ==
    ASSUME Typed, NEW s \in Scope, NEW time \in 0 .. now, BeginRefresh(s, time)
    PROVE  /\ UNCHANGED <<runs, part, observations, comparisons, artifacts, summaries, bundles>>
           /\ op'.answer = None
           /\ \/ op'.step = "run"
              \/ /\ IsOpen(s) /\ op'.scope = s /\ op'.time = time
                 /\ op'.step = NextStep(Last(s)) /\ Last(op.scope)' = Last(s)
                 /\ Current(Last(s), time)
                 /\ op'.step \in OpenSteps \ {"compare", "step"}
                 /\ op'.step = "prepare" =>
                       ~ Observed(Last(s).fetches[Len(Last(s).fetches)])
<1>1. UNCHANGED <<runs, part, observations, comparisons, artifacts, summaries, bundles>>
  BY DEF BeginRefresh, acquisitionVars, refreshVars
<1>2. CASE IsOpen(s)
  <2>1. /\ op' = [Idle EXCEPT !.scope = s, !.time = time, !.step = NextStep(Last(s))]
        /\ Current(Last(s), time)
    BY <1>2 DEF BeginRefresh
  <2>2. /\ op'.scope = s /\ op'.time = time /\ op'.step = NextStep(Last(s)) /\ op'.answer = None
    BY <2>1, IdleTyped DEF Operation
  <2>3. Last(op.scope)' = Last(s)
    BY <1>1, <2>2 DEF Last
  <2> QED
    BY <1>1, <1>2, <2>1, <2>2, <2>3, OpenRun, NextStepTyped
<1>3. CASE ~ IsOpen(s)
  <2>1. op' = [Idle EXCEPT !.scope = s, !.time = time, !.step = "run"]
    BY <1>3 DEF BeginRefresh
  <2> QED
    BY <1>1, <2>1, IdleTyped DEF Operation
<1> QED
  BY <1>2, <1>3

\* Only the last run of the open scope is not done.
LEMMA OthersAreDone ==
    ASSUME Typed, NEW s \in Scope, NEW i \in DOMAIN runs[s], ~ runs[s][i].done
    PROVE  IsOpen(s) /\ i = Len(runs[s]) /\ runs[s][i] = Last(s)
<1>1. runs[s] \in Seq(Run)
  BY DEF Typed, TypeOK
<1>2. i = Len(runs[s])
  BY DEF Typed, Journals
<1> QED
  BY <1>1, <1>2 DEF IsOpen, Last

\* A run that is there is in its journal's order, with bodies that are observed.
LEMMA RunTyped ==
    ASSUME Typed, NEW s \in Scope, NEW i \in DOMAIN runs[s]
    PROVE  /\ runs[s][i] \in Run /\ InOrder(runs[s][i])
           /\ runs[s][i].fetches \in Seq(Fetch) /\ Len(runs[s][i].fetches) \in Nat
           /\ runs[s][i].prepares \in 0 .. Sources /\ runs[s][i].steps \in 0 .. Sources
           /\ \A k \in DOMAIN runs[s][i].fetches :
                 /\ runs[s][i].fetches[k] \in Fetch
                 /\ Observed(runs[s][i].fetches[k]) =>
                       ContentOf(runs[s][i].fetches[k]) \in Content
<1>1. runs[s] \in Seq(Run) /\ runs[s][i] \in Run
  BY DEF Typed, TypeOK
<1>2. InOrder(runs[s][i])
  BY DEF Typed, Journals
<1>3. /\ runs[s][i].fetches \in Seq(Fetch) /\ Len(runs[s][i].fetches) \in Nat
      /\ runs[s][i].prepares \in 0 .. Sources /\ runs[s][i].steps \in 0 .. Sources
  BY <1>1 DEF Run
<1>4. ASSUME NEW k \in DOMAIN runs[s][i].fetches,
             Observed(runs[s][i].fetches[k])
      PROVE  ContentOf(runs[s][i].fetches[k]) \in Content
  <2>1. runs[s][i].fetches[k].answer \in Answers
    BY <1>2 DEF InOrder
  <2> QED
    BY <1>4, <2>1, RefreshConstants DEF Observed, ContentOf, Answer
<1> QED
  BY <1>1, <1>2, <1>3, <1>4

-----------------------------------------------------------------------------
(* Acquisition. *)

\* A refresh has nothing to do with attempts, and only adds artifacts.
LEMMA RefreshElsewhere ==
    ASSUME Typed, [Next]_vars, ~ (Acquire /\ UNCHANGED <<refreshVars, now>>)
    PROVE  /\ UNCHANGED <<records, terminals>> /\ artifacts \subseteq artifacts'
           /\ UNCHANGED op \/ op'.step \notin AttemptSteps
<1>1. op \in Operation
  BY DEF Typed, TypeOK, Operation
<1>2. ASSUME op' = Idle PROVE op'.step \notin AttemptSteps
  BY <1>2, IdleTyped DEF AttemptSteps
<1>3. ASSUME NEW step \in Steps \ AttemptSteps, Goes(step) PROVE op'.step \notin AttemptSteps
  BY <1>1, <1>3, GoesTyped
<1>4. CASE \E s \in Scope : \E time \in 0 .. now : BeginRefresh(s, time)
  <2>1. op'.step \in OpenSteps \cup {"run"}
    BY <1>4, BeginsQuietly
  <2> QED
    BY <1>4, <2>1 DEF BeginRefresh, acquisitionVars, OpenSteps, AttemptSteps
<1>5. CASE FetchFails \/ RecoverBundle \/ TearFreshnessFile \/ Tick \/ UNCHANGED vars
  <2>1. UNCHANGED acquisitionVars
    BY <1>5 DEF FetchFails, RecoverBundle, TearFreshnessFile, Tick, vars
  <2>2. UNCHANGED op \/ op' = Idle \/ RecoverBundle
    BY <1>5 DEF FetchFails, TearFreshnessFile, Tick, vars
  <2>3. ASSUME RecoverBundle PROVE op'.step \notin AttemptSteps
    <3>1. PICK b \in bundles : op' = [Idle EXCEPT !.step = "bundle", !.history = b.of]
      BY <2>3 DEF RecoverBundle
    <3> QED
      BY <3>1, IdleTyped DEF Operation, AttemptSteps
  <2> QED
    BY <1>2, <2>1, <2>2, <2>3 DEF acquisitionVars
<1>6. CASE RetainBody
  <2>1. op' = Idle \/ Goes("prepare")
    BY <1>6 DEF RetainBody
  <2>2. UNCHANGED <<records, terminals>> /\ artifacts \subseteq artifacts'
    BY <1>6 DEF RetainBody
  <2> QED
    BY <1>2, <1>3, <2>1, <2>2 DEF Steps, AttemptSteps
<1>7. CASE RefreshStep /\ ~ RetainBody
  <2>1. UNCHANGED acquisitionVars
    BY <1>7 DEF RefreshStep, WriteRun, StageBody, WriteReceipt, WritePrepare,
                PublishObservation, PublishComparison, WriteStep, Preflight, WriteBundle,
                WriteDone, Rest
  <2>2. op'.step \notin AttemptSteps \/ UNCHANGED op
    <3>1. CASE WriteRun \/ WritePrepare \/ PublishObservation \/ PublishComparison
      <4>1. op' = Idle \/ \E step \in {"fetch", "observe", "compare", "step"} : Goes(step)
        BY <3>1 DEF WriteRun, WritePrepare, PublishObservation, PublishComparison
      <4> QED
        BY <1>2, <1>3, <4>1 DEF Steps, AttemptSteps
    <3>2. CASE StageBody
      BY <3>2, StageBodyTyped DEF AttemptSteps
    <3>3. CASE WriteReceipt
      BY <1>1, <3>3 DEF WriteReceipt, Operation, AttemptSteps
    <3>4. CASE WriteStep
      BY <3>4, WriteStepTyped DEF AttemptSteps
    <3>5. CASE Preflight
      BY <1>1, <1>2, <3>5 DEF Preflight, Operation, AttemptSteps
    <3>6. CASE WriteBundle \/ WriteDone
      BY <1>2, <3>6 DEF WriteBundle, WriteDone
    <3> QED
      BY <1>7, <3>1, <3>2, <3>3, <3>4, <3>5, <3>6 DEF RefreshStep
  <2> QED
    BY <2>1, <2>2 DEF acquisitionVars
<1> QED
  BY <1>4, <1>5, <1>6, <1>7 DEF Next

\* A record comes behind its artifact, and a terminal behind its record.
LEMMA NextAcquired ==
    ASSUME Typed, Acquired, [Next]_vars
    PROVE  Acquired'
<1>1. op.step \in AttemptSteps => op.attempt.source \in Source /\ op.attempt.content \in Content
  BY DEF Typed, Equipped, Attempt
<1>2. /\ records \in [Source -> Content \cup {None}] /\ op \in Operation
      /\ terminals \subseteq Attempt
  BY DEF Typed, TypeOK, Operation
<1>3. CASE ~ (Acquire /\ UNCHANGED <<refreshVars, now>>)
  BY <1>3, RefreshElsewhere DEF Acquired, RecordHasItsArtifact, AttemptSteps
<1>4. ASSUME op'.step \notin {"record", "terminal"}, UNCHANGED <<records, terminals>>,
             artifacts \subseteq artifacts'
      PROVE  Acquired'
  BY <1>4 DEF Acquired, RecordHasItsArtifact
<1>5. ASSUME NEW todo \in SUBSET Source, BeginAcquire(todo) PROVE Acquired'
  <2>1. op'.step = "pending"
    BY <1>5, IdleTyped DEF BeginAcquire, Operation
  <2> QED
    BY <1>4, <1>5, <2>1 DEF BeginAcquire, acquisitionVars
<1>6. ASSUME NEW a \in Attempt, RecoverAttempt(a) PROVE Acquired'
  <2>1. UNCHANGED <<records, terminals, artifacts>>
    BY <1>6 DEF RecoverAttempt, acquisitionVars
  <2>2. CASE a \in parts
    <3>1. op' = [Idle EXCEPT !.attempt = a, !.step = "publish"]
      BY <1>6, <2>2 DEF RecoverAttempt
    <3>2. op'.step = "publish"
      BY <3>1, IdleTyped DEF Operation
    <3> QED
      BY <1>4, <2>1, <3>2
  <2>3. CASE a \notin parts
    <3>1. op' = [Idle EXCEPT !.attempt = a, !.step = "record"] /\ a.content \in artifacts
      BY <1>6, <2>3 DEF RecoverAttempt, Resumable
    <3>2. op'.step = "record" /\ op'.attempt = a
      BY <3>1, IdleTyped DEF Operation
    <3> QED
      BY <2>1, <3>1, <3>2 DEF Acquired, RecordHasItsArtifact
  <2> QED
    BY <2>2, <2>3
<1>7. CASE WritePending \/ AcquireFails \/ WriteIntent \/ StagePart \/ Crash
  BY <1>2, <1>4, <1>7, IdleTyped DEF WritePending, AcquireFails, WriteIntent, StagePart, Crash,
                                     acquisitionVars, Operation
<1>8. CASE PublishPart
  <2>1. op'.step = "record" /\ op'.attempt = op.attempt
    BY <1>2, <1>8 DEF PublishPart, Operation
  <2> QED
    BY <1>8, <2>1 DEF PublishPart, Acquired, RecordHasItsArtifact
<1>9. CASE WriteRecord
  <2>1. /\ op.attempt.content \in artifacts /\ op.attempt.source \in Source
        /\ op.attempt.content \in Content
    BY <1>1, <1>9 DEF WriteRecord, Acquired, AttemptSteps
  <2>2. CASE records[op.attempt.source] = None
    <3>1. records' = [records EXCEPT ![op.attempt.source] = op.attempt.content]
      BY <1>9, <2>2 DEF WriteRecord
    <3>2. op'.step = "terminal" /\ op'.attempt = op.attempt
      BY <1>2, <1>9, <2>2 DEF WriteRecord, Operation
    <3>3. \A a \in terminals : a.source # op.attempt.source
      BY <1>2, <2>2, AcquisitionConstants DEF Acquired, RecordHasItsArtifact, Attempt
    <3>4. UNCHANGED <<artifacts, terminals>>
      BY <1>9 DEF WriteRecord
    <3> QED
      BY <1>2, <2>1, <3>1, <3>2, <3>3, <3>4 DEF Acquired, RecordHasItsArtifact, Attempt
  <2>3. CASE records[op.attempt.source] # None
    <3>1. UNCHANGED <<records, artifacts, terminals>>
      BY <1>9, <2>3 DEF WriteRecord
    <3>2. \/ op'.step = "none"
          \/ /\ op'.step = "terminal" /\ op'.attempt = op.attempt
             /\ records[op.attempt.source] = op.attempt.content
      BY <1>2, <1>9, <2>3, IdleTyped DEF WriteRecord, Operation
    <3> QED
      BY <3>1, <3>2 DEF Acquired, RecordHasItsArtifact
  <2> QED
    BY <2>2, <2>3
<1>10. CASE WriteTerminal
  <2>1. op'.step \in {"none", "pending"}
    BY <1>2, <1>10, IdleTyped DEF WriteTerminal, Operation
  <2>2. records[op.attempt.source] = op.attempt.content
    BY <1>10 DEF WriteTerminal, Acquired
  <2> QED
    BY <1>10, <2>1, <2>2 DEF WriteTerminal, Acquired, RecordHasItsArtifact
<1>11. CASE TearAcquisitionFile
  <2>1. op'.step = "none" /\ UNCHANGED artifacts
    BY <1>11, IdleTyped DEF TearAcquisitionFile
  <2>2. CASE op.step = "stage" /\ UNCHANGED <<records, terminals>>
    BY <1>4, <2>1, <2>2
  <2>3. CASE /\ op.step = "record" /\ records[op.attempt.source] = None /\ UNCHANGED terminals
             /\ records' = [records EXCEPT ![op.attempt.source] = op.attempt.content]
    <3>1. op.attempt.content \in artifacts /\ op.attempt.source \in Source
      BY <1>1, <2>3 DEF Acquired, AttemptSteps
    <3>2. \A a \in terminals : a.source # op.attempt.source
      BY <1>1, <1>2, <2>3, AcquisitionConstants DEF Acquired, RecordHasItsArtifact, Attempt,
                                                    AttemptSteps
    <3> QED
      BY <1>2, <2>1, <2>3, <3>1, <3>2 DEF Acquired, RecordHasItsArtifact, Attempt
  <2>4. CASE /\ op.step = "terminal" /\ UNCHANGED records
             /\ terminals' = terminals \cup {op.attempt}
    BY <2>1, <2>4 DEF Acquired, RecordHasItsArtifact
  <2> QED
    BY <1>11, <2>2, <2>3, <2>4 DEF TearAcquisitionFile
<1> QED
  BY <1>3, <1>5, <1>6, <1>7, <1>8, <1>9, <1>10, <1>11 DEF Acquire, AcquisitionStep

-----------------------------------------------------------------------------
(* Changes of the journals. *)

\* A receipt that a refresh writes, with its names.
LEMMA ReceiptWritten ==
    ASSUME Typed, WriteReceipt
    PROVE  \E a \in Answers, fetch \in Fetch, new \in Run :
             /\ Received(a) /\ fetch = [answer |-> a, at |-> op.time]
             /\ Typed' /\ Last(op.scope)' = new /\ Journal(new) /\ InOrder(new)
             /\ new.fetches = Append(Last(op.scope).fetches, fetch)
             /\ new.prepares = Last(op.scope).prepares /\ new.steps = Last(op.scope).steps
             /\ ~ new.done
             /\ op'.scope = op.scope /\ op'.time = op.time /\ op'.answer = None
             /\ op'.step = IF a.status = "observed" THEN "retain" ELSE "prepare"
<1>1. PICK a \in Answers :
         /\ Received(a)
         /\ Journal([Last(op.scope) EXCEPT !.fetches = Append(@, [answer |-> a, at |-> op.time])])
         /\ op' = [op EXCEPT !.answer = None,
                             !.step = IF a.status = "observed" THEN "retain" ELSE "prepare"]
  BY DEF WriteReceipt
<1>2. /\ op.step = "fetch"
      /\ UNCHANGED <<part, observations, comparisons, summaries, bundles, Rest>>
  BY DEF WriteReceipt
<1> QED
  BY <1>1, <1>2, WriteReceiptTyped

\* A run goes on from another: receipts are added, and none once all its steps are there.
Extends(old, new) ==
    /\ \A k \in DOMAIN old.fetches : k \in DOMAIN new.fetches /\ new.fetches[k] = old.fetches[k]
    /\ old.steps = Sources => new.fetches = old.fetches /\ new.steps = Sources

LEMMA JournalGrows ==
    ASSUME Typed, op.scope \in Scope, IsOpen(op.scope), NEW run \in Run, InOrder(run),
           Journal(run), Extends(Last(op.scope), run)
    PROVE  \A s \in Scope : \A i \in DOMAIN runs[s] :
               i \in DOMAIN runs'[s] /\ Extends(runs[s][i], runs'[s][i])
<1> SUFFICES ASSUME NEW s \in Scope, NEW i \in DOMAIN runs[s]
             PROVE  i \in DOMAIN runs'[s] /\ Extends(runs[s][i], runs'[s][i])
  OBVIOUS
<1>1. PICK w \in Scope : w = op.scope
  OBVIOUS
<1>2. /\ DOMAIN runs'[s] = DOMAIN runs[s] /\ runs'[w][Len(runs[w])] = run
      /\ s # w \/ i # Len(runs[w]) => runs'[s][i] = runs[s][i]
  BY <1>1, JournalTyped
<1>3. CASE s = w /\ i = Len(runs[w])
  BY <1>1, <1>2, <1>3 DEF Last
<1>4. CASE ~ (s = w /\ i = Len(runs[w]))
  BY <1>2, <1>4 DEF Extends
<1> QED
  BY <1>3, <1>4

\* Whatever happens, a run stays and only goes on.
LEMMA RunsGrow ==
    ASSUME Typed, [Next]_vars
    PROVE  \A s \in Scope : \A i \in DOMAIN runs[s] :
               i \in DOMAIN runs'[s] /\ Extends(runs[s][i], runs'[s][i])
<1> DEFINE Grown == \A s \in Scope : \A i \in DOMAIN runs[s] :
                        i \in DOMAIN runs'[s] /\ Extends(runs[s][i], runs'[s][i])
<1> SUFFICES Grown
  OBVIOUS
<1>1. Typed'
  BY NextTyped
<1>2. ASSUME UNCHANGED runs PROVE Grown
  BY <1>2 DEF Extends
<1>3. CASE WriteRun
  <2>1. /\ op.scope \in Scope /\ runs[op.scope] \in Seq(Run)
        /\ runs' = [runs EXCEPT ![op.scope] = Append(runs[op.scope], NewRun)]
    BY <1>3, WriteRunTyped
  <2>2. runs \in [Scope -> Seq(Run)]
    BY DEF Typed, TypeOK
  <2>3. NewRun \in Run
    BY AcquisitionConstants DEF NewRun, Run
  <2> HIDE DEF Grown
  <2>4. ASSUME NEW s \in Scope, NEW i \in DOMAIN runs[s]
        PROVE  i \in DOMAIN runs'[s] /\ runs'[s][i] = runs[s][i]
    <3>1. CASE s = op.scope
      <4>1. runs'[s] = Append(runs[s], NewRun)
        BY <2>1, <2>2, <3>1
      <4> QED
        BY <2>1, <2>3, <2>4, <3>1, <4>1
    <3>2. CASE s # op.scope
      BY <2>1, <2>2, <3>2
    <3> QED
      BY <3>1, <3>2
  <2> QED
    BY <2>4 DEF Extends, Grown
<1>4. CASE WriteReceipt
  <2>1. PICK a \in Answers, fetch \in Fetch, new \in Run :
           /\ Journal(new) /\ InOrder(new) /\ new.steps = Last(op.scope).steps
           /\ new.fetches = Append(Last(op.scope).fetches, fetch)
    BY <1>4, ReceiptWritten
  <2>2. /\ op.scope \in Scope /\ IsOpen(op.scope) /\ Last(op.scope).fetches \in Seq(Fetch)
        /\ StandsAt("fetch", Last(op.scope)) /\ Last(op.scope).steps \in 0 .. Sources
    BY <1>4, Context DEF WriteReceipt, OpenSteps
  <2>3. Last(op.scope).steps # Sources
    BY <2>2, AcquisitionConstants DEF StandsAt
  <2>4. Extends(Last(op.scope), new)
    BY <2>1, <2>2, <2>3 DEF Extends
  <2> QED
    BY <2>1, <2>2, <2>4, JournalGrows
<1>5. CASE WritePrepare
  <2> DEFINE new == [Last(op.scope) EXCEPT !.prepares = Last(op.scope).prepares + 1]
  <2>1. \/ /\ Journal(new) /\ new \in Run /\ InOrder(new)
           /\ new.fetches = Last(op.scope).fetches /\ new.steps = Last(op.scope).steps
        \/ UNCHANGED runs
    BY <1>5, WritePrepareTyped
  <2>2. op.scope \in Scope /\ IsOpen(op.scope)
    BY <1>5, Context DEF WritePrepare, OpenSteps
  <2> HIDE DEF new, Grown
  <2>3. CASE UNCHANGED runs
    BY <1>2, <2>3
  <2>4. CASE ~ UNCHANGED runs
    <3>1. Extends(Last(op.scope), new)
      BY <2>1, <2>4 DEF Extends
    <3> QED
      BY <2>1, <2>2, <2>4, <3>1, JournalGrows DEF Grown
  <2> QED
    BY <2>3, <2>4
<1>6. CASE WriteStep
  <2> DEFINE new == [Last(op.scope) EXCEPT !.steps = Last(op.scope).steps + 1]
  <2>1. /\ Journal(new) /\ new \in Run /\ InOrder(new)
        /\ new.fetches = Last(op.scope).fetches /\ new.steps = Last(op.scope).steps + 1
    BY <1>6, WriteStepTyped
  <2>2. op.scope \in Scope /\ IsOpen(op.scope) /\ Last(op.scope).steps \in 0 .. Sources
    BY <1>6, Context DEF WriteStep, OpenSteps
  <2>3. new.steps \in 0 .. Sources
    BY <2>1 DEF Run
  <2> HIDE DEF new, Grown
  <2>4. Extends(Last(op.scope), new)
    BY <2>1, <2>2, <2>3, AcquisitionConstants DEF Extends
  <2> QED
    BY <2>1, <2>2, <2>4, JournalGrows DEF Grown
<1>7. CASE WriteDone
  <2> DEFINE new == [Last(op.scope) EXCEPT !.done = TRUE]
  <2>1. \/ /\ Journal(new) /\ new \in Run /\ InOrder(new) /\ op.scope \in Scope
           /\ IsOpen(op.scope)
           /\ new.fetches = Last(op.scope).fetches /\ new.steps = Last(op.scope).steps
        \/ UNCHANGED runs
    BY <1>7, WriteDoneTyped
  <2> HIDE DEF new, Grown
  <2>2. CASE UNCHANGED runs
    BY <1>2, <2>2
  <2>3. CASE ~ UNCHANGED runs
    <3>1. Extends(Last(op.scope), new)
      BY <2>1, <2>3 DEF Extends
    <3> QED
      BY <2>1, <2>3, <3>1, JournalGrows DEF Grown
  <2> QED
    BY <2>2, <2>3
<1>8. CASE ~ (WriteRun \/ WriteReceipt \/ WritePrepare \/ WriteStep \/ WriteDone)
  <2>1. UNCHANGED runs
    BY <1>8 DEF Next, Acquire, BeginRefresh, RefreshStep, StageBody, RetainBody,
                PublishObservation, PublishComparison, Preflight, WriteBundle, FetchFails,
                RecoverBundle, TearFreshnessFile, Tick, refreshVars, vars
  <2> QED
    BY <1>2, <2>1
<1> QED
  BY <1>3, <1>4, <1>5, <1>6, <1>7, <1>8

-----------------------------------------------------------------------------
(* Evidence. *)

\* The retention of the runs after a change of the open one.
LEMMA RunsStayRetained ==
    ASSUME Typed, Kept, op.step \in OpenSteps, NEW run \in Run, InOrder(run), Journal(run),
           artifacts \subseteq artifacts', UNCHANGED part, RunRetained(run)'
    PROVE  \A s \in Scope : \A i \in DOMAIN runs'[s] : RunRetained(runs[s][i])'
<1> SUFFICES ASSUME NEW s \in Scope, NEW i \in DOMAIN runs'[s]
             PROVE  RunRetained(runs[s][i])'
  OBVIOUS
<1>1. PICK w \in Scope : w = op.scope /\ IsOpen(w)
  BY Context
<1>2. /\ DOMAIN runs'[s] = DOMAIN runs[s] /\ runs'[w][Len(runs[w])] = run
      /\ s # w \/ i # Len(runs[w]) => runs'[s][i] = runs[s][i]
  BY <1>1, JournalTyped
<1>3. CASE s = w /\ i = Len(runs[w])
  BY <1>2, <1>3 DEF RunRetained
<1>4. CASE ~ (s = w /\ i = Len(runs[w]))
  BY <1>2, <1>4 DEF Kept, RunRetained
<1> QED
  BY <1>3, <1>4

\* What the operation's run retains.
LEMMA OpenRunRetained ==
    ASSUME Typed, Kept, op.step \in OpenSteps
    PROVE  RunRetained(Last(op.scope))
<1>1. Len(runs[op.scope]) \in DOMAIN runs[op.scope] /\ op.scope \in Scope
  BY Context, OpenRun
<1> QED
  BY <1>1 DEF Kept, Last

LEMMA ReceiptKept ==
    ASSUME Typed, Typed', Kept, WriteReceipt
    PROVE  Kept'
<1>1. PICK a \in Answers, fetch \in Fetch, new \in Run :
         /\ Received(a) /\ fetch = [answer |-> a, at |-> op.time]
         /\ Last(op.scope)' = new /\ Journal(new) /\ InOrder(new)
         /\ new.fetches = Append(Last(op.scope).fetches, fetch)
         /\ new.prepares = Last(op.scope).prepares /\ op'.answer = None
         /\ op'.step = IF a.status = "observed" THEN "retain" ELSE "prepare"
  BY ReceiptWritten
<1>2. op.step = "fetch" /\ op.step \in OpenSteps /\ UNCHANGED <<part, artifacts>>
  BY DEF WriteReceipt, OpenSteps, Rest, acquisitionVars
<1>3. PICK old \in Run : old = Last(op.scope)
  BY <1>2, Context
<1>4. /\ old.fetches \in Seq(Fetch) /\ Len(old.fetches) = old.prepares /\ old.prepares \in Nat
      /\ RunRetained(old)
  <2>1. /\ InOrder(old) /\ StandsAt("fetch", old) /\ old.fetches \in Seq(Fetch)
        /\ old.prepares \in 0 .. Sources /\ old.steps \in 0 .. Sources
        /\ Len(old.fetches) \in Nat
    BY <1>2, <1>3, Context
  <2> QED
    BY <1>2, <1>3, <2>1, OpenRunRetained, AcquisitionConstants DEF InOrder, StandsAt
<1>5. a.status = "observed" => part = a.content \/ a.content \in artifacts
  BY <1>1, NoneIsNoValue, RefreshConstants DEF Received, Kept
<1>6. /\ Len(new.fetches) = old.prepares + 1 /\ new.fetches[Len(new.fetches)] = fetch
      /\ \A k \in DOMAIN new.fetches :
            \/ k \in DOMAIN old.fetches /\ new.fetches[k] = old.fetches[k]
            \/ k = old.prepares + 1 /\ new.fetches[k] = fetch
  BY <1>1, <1>3, <1>4
<1>7. RunRetained(new)'
  <2> SUFFICES ASSUME NEW k \in DOMAIN new.fetches, Observed(new.fetches[k])
               PROVE  \/ ContentOf(new.fetches[k]) \in artifacts
                      \/ k > new.prepares /\ part = ContentOf(new.fetches[k])
    BY <1>2 DEF RunRetained, Observed, ContentOf
  <2>1. CASE k \in DOMAIN old.fetches /\ new.fetches[k] = old.fetches[k]
    BY <1>1, <1>3, <1>4, <2>1 DEF RunRetained
  <2>2. CASE k = old.prepares + 1 /\ new.fetches[k] = fetch
    BY <1>1, <1>3, <1>4, <1>5, <2>2 DEF Observed, ContentOf
  <2> QED
    BY <1>6, <2>1, <2>2
<1>8. \A s \in Scope : \A i \in DOMAIN runs'[s] : RunRetained(runs[s][i])'
  BY <1>1, <1>2, <1>7, RunsStayRetained
<1>9. op'.step = "prepare" => ~ Observed(Last(op.scope)'.fetches[Len(Last(op.scope)'.fetches)])
  BY <1>1, <1>6 DEF Observed
<1> QED
  BY <1>1, <1>8, <1>9 DEF Kept, Observed

\* The body becomes an artifact; only the receipt that waits relied on its part.
LEMMA RetainBodyKept ==
    ASSUME Typed, Typed', Kept, RetainBody
    PROVE  Kept'
<1>1. op.step = "retain" /\ op.step \in OpenSteps
  BY DEF RetainBody, OpenSteps
<1>2. PICK w \in Scope, old \in Run : w = op.scope /\ old = Last(w) /\ IsOpen(w)
  BY <1>1, Context
<1>3. PICK c : c = old.fetches[Len(old.fetches)].answer.content
  OBVIOUS
<1>4. /\ UNCHANGED runs
      /\ \/ /\ artifacts' = artifacts \cup {c} /\ part' = None /\ Goes("prepare")
            /\ Last(op.scope)' = Last(op.scope)
         \/ op' = Idle /\ UNCHANGED <<artifacts, part>>
  BY <1>2, <1>3, RetainBodyTyped
<1>5. CASE op' = Idle /\ UNCHANGED <<artifacts, part>>
  BY <1>4, <1>5, IdleTyped DEF Kept, RunRetained
<1>6. CASE /\ artifacts' = artifacts \cup {c} /\ part' = None /\ Goes("prepare")
           /\ Last(op.scope)' = Last(op.scope)
  <2>1. op.answer = None /\ op'.answer = None /\ op'.step = "prepare"
    <3>1. op.answer = None
      BY <1>1 DEF Typed, Equipped
    <3>2. op'.answer = op.answer /\ op'.step = "prepare"
      BY <1>6, GoesTyped DEF Steps
    <3> QED
      BY <3>1, <3>2
  <2>2. ASSUME NEW s \in Scope, NEW i \in DOMAIN runs[s], NEW k \in DOMAIN runs[s][i].fetches,
               Observed(runs[s][i].fetches[k])
        PROVE  ContentOf(runs[s][i].fetches[k]) \in artifacts'
    <3>1. CASE ContentOf(runs[s][i].fetches[k]) \in artifacts
      BY <1>6, <3>1
    <3>2. CASE k > runs[s][i].prepares
      <4>1. /\ InOrder(runs[s][i]) /\ Len(runs[s][i].fetches) \in Nat
            /\ runs[s][i].fetches \in Seq(Fetch)
            /\ runs[s][i].prepares \in 0 .. Sources /\ runs[s][i].steps \in 0 .. Sources
        BY RunTyped
      <4>2. /\ ~ runs[s][i].done /\ k = Len(runs[s][i].fetches)
        BY <3>2, <4>1, AcquisitionConstants DEF InOrder
      <4>3. IsOpen(s) /\ runs[s][i] = Last(s)
        BY <4>2, OthersAreDone
      <4>4. s = w
        BY <1>2, <4>3 DEF Typed, Journals
      <4> QED
        BY <1>2, <1>3, <1>6, <4>2, <4>3, <4>4 DEF ContentOf
    <3> QED
      BY <2>2, <3>1, <3>2 DEF Kept, RunRetained
  <2>3. \A s \in Scope : \A i \in DOMAIN runs'[s] : RunRetained(runs[s][i])'
    BY <1>4, <2>2 DEF RunRetained, Observed, ContentOf
  <2>4. ContentOf(Last(op.scope).fetches[Len(Last(op.scope).fetches)]) \in artifacts'
    BY <1>2, <1>3, <1>6 DEF ContentOf
  <2> QED
    BY <1>6, <2>1, <2>3, <2>4 DEF Kept, ContentOf
<1> QED
  BY <1>4, <1>5, <1>6

\* What is prepared is retained already.
LEMMA WritePrepareKept ==
    ASSUME Typed, Typed', Kept, WritePrepare
    PROVE  Kept'
<1>1. op.step = "prepare" /\ op.step \in OpenSteps /\ UNCHANGED <<part, artifacts>>
  BY DEF WritePrepare, OpenSteps, Rest, acquisitionVars
<1>2. PICK old \in Run : old = Last(op.scope)
  BY <1>1, Context
<1>3. /\ InOrder(old) /\ Len(old.fetches) = old.prepares + 1 /\ old.fetches \in Seq(Fetch)
      /\ old.prepares \in 0 .. Sources
  BY <1>1, <1>2, Context DEF StandsAt
<1>4. PICK new : new = [old EXCEPT !.prepares = old.prepares + 1]
  OBVIOUS
<1>5. \/ /\ Journal(new) /\ Goes("observe") /\ new \in Run /\ InOrder(new)
         /\ op'.step = "observe" /\ new.fetches = old.fetches
         /\ new.prepares = old.prepares + 1
      \/ op' = Idle /\ UNCHANGED runs
  BY <1>2, <1>4, WritePrepareTyped
<1>6. CASE op' = Idle /\ UNCHANGED runs
  BY <1>1, <1>6, IdleTyped DEF Kept, RunRetained
<1>7. CASE ~ (op' = Idle /\ UNCHANGED runs)
  <2>1. ASSUME NEW k \in DOMAIN old.fetches, Observed(old.fetches[k])
        PROVE  ContentOf(old.fetches[k]) \in artifacts
    <3>1. CASE k = Len(old.fetches)
      BY <1>1, <1>2, <2>1, <3>1 DEF Kept
    <3>2. CASE k # Len(old.fetches)
      <4>1. ~ (k > old.prepares)
        BY <1>3, <3>2, AcquisitionConstants
      <4> QED
        BY <1>1, <1>2, <2>1, <4>1, OpenRunRetained DEF RunRetained
    <3> QED
      BY <3>1, <3>2
  <2>2. RunRetained(new)'
    BY <1>1, <1>5, <1>7, <2>1 DEF RunRetained
  <2>3. \A s \in Scope : \A i \in DOMAIN runs'[s] : RunRetained(runs[s][i])'
    BY <1>1, <1>5, <1>7, <2>2, RunsStayRetained
  <2>4. op'.answer = None
    BY <1>5, <1>7 DEF Typed, Equipped
  <2> QED
    BY <1>5, <1>7, <2>3, <2>4 DEF Kept
<1> QED
  BY <1>6, <1>7

\* Evidence is kept by each step.
LEMMA NextKept ==
    ASSUME Typed, Typed', Kept, [Next]_vars
    PROVE  Kept'
<1>1. ASSUME UNCHANGED <<runs, part>>, artifacts \subseteq artifacts'
      PROVE  \A s \in Scope : \A i \in DOMAIN runs'[s] : RunRetained(runs[s][i])'
  BY <1>1 DEF Kept, RunRetained
<1>2. ASSUME Quiet PROVE Kept'
  <2>1. CASE UNCHANGED op
    <3>1. Last(op.scope)' = Last(op.scope)
      BY <1>2, <2>1 DEF Quiet, Last
    <3> QED
      BY <1>1, <1>2, <2>1, <3>1 DEF Quiet, Kept
  <2>2. CASE op'.step \notin OpenSteps
    <3>1. op'.answer = None
      BY <2>2 DEF Typed, Equipped, OpenSteps
    <3> QED
      BY <1>1, <1>2, <2>2, <3>1 DEF Quiet, Kept, OpenSteps
  <2> QED
    BY <1>2, <2>1, <2>2 DEF Quiet
<1>3. ASSUME NEW s \in Scope, NEW time \in 0 .. now, BeginRefresh(s, time) PROVE Kept'
  <2>1. op'.step = "prepare" =>
           ~ Observed(Last(op.scope)'.fetches[Len(Last(op.scope)'.fetches)])
    BY <1>3, BeginsQuietly
  <2>2. UNCHANGED <<runs, part, artifacts>> /\ op'.answer = None
    BY <1>3, BeginsQuietly
  <2> QED
    BY <1>1, <2>1, <2>2 DEF Kept, Observed
<1>4. CASE WriteRun
  <2>1. /\ op.scope \in Scope /\ op'.answer = None /\ op'.step = "fetch"
        /\ runs[op.scope] \in Seq(Run)
        /\ runs' = [runs EXCEPT ![op.scope] = Append(runs[op.scope], NewRun)]
    BY <1>4, WriteRunTyped DEF Typed, Equipped, WriteRun
  <2>2. UNCHANGED <<part, artifacts>> /\ runs \in [Scope -> Seq(Run)]
    BY <1>4 DEF WriteRun, Rest, acquisitionVars, Typed, TypeOK
  <2>3. RunRetained(NewRun)'
    BY DEF RunRetained, NewRun
  <2>4. ASSUME NEW s \in Scope, NEW i \in DOMAIN runs'[s] PROVE RunRetained(runs[s][i])'
    <3>1. \/ runs'[s][i] = NewRun
          \/ i \in DOMAIN runs[s] /\ runs'[s][i] = runs[s][i]
      BY <2>1, <2>2, <2>4
    <3>2. CASE runs'[s][i] = NewRun
      BY <2>3, <3>2 DEF RunRetained
    <3>3. CASE i \in DOMAIN runs[s] /\ runs'[s][i] = runs[s][i]
      BY <2>2, <3>3 DEF Kept, RunRetained
    <3> QED
      BY <3>1, <3>2, <3>3
  <2> QED
    BY <2>1, <2>4 DEF Kept
<1>5. CASE StageBody
  <2>1. /\ op'.step = "fetch" /\ op'.answer.status = "observed" /\ part' = op'.answer.content
        /\ UNCHANGED runs
    BY <1>5, StageBodyTyped
  <2>2. part = None /\ UNCHANGED artifacts
    BY <1>5 DEF StageBody, Rest, acquisitionVars
  <2>3. ASSUME NEW s \in Scope, NEW i \in DOMAIN runs[s], NEW k \in DOMAIN runs[s][i].fetches,
               Observed(runs[s][i].fetches[k])
        PROVE  ContentOf(runs[s][i].fetches[k]) \in artifacts
    <3>1. ContentOf(runs[s][i].fetches[k]) \in Content
      BY <2>3, RunTyped
    <3> QED
      BY <2>2, <2>3, <3>1, AcquisitionConstants DEF Kept, RunRetained
  <2> QED
    BY <2>1, <2>2, <2>3 DEF Kept, RunRetained
<1>6. CASE PublishObservation \/ PublishComparison
  <2>1. UNCHANGED <<runs, part, artifacts>>
    BY <1>6 DEF PublishObservation, PublishComparison, Rest, acquisitionVars
  <2>2. op'.step \in {"compare", "step"}
    BY <1>6, GoesTyped DEF PublishObservation, PublishComparison, Steps
  <2>3. op'.answer = None
    BY <2>2 DEF Typed, Equipped
  <2> QED
    BY <1>1, <2>1, <2>2, <2>3 DEF Kept
<1>7. CASE WriteStep
  <2>1. PICK new : new = [Last(op.scope) EXCEPT !.steps = Last(op.scope).steps + 1]
    OBVIOUS
  <2>2. /\ Journal(new) /\ new \in Run /\ InOrder(new)
        /\ new.fetches = Last(op.scope).fetches /\ new.prepares = Last(op.scope).prepares
        /\ op'.step \in {"fetch", "preflight"}
    BY <1>7, <2>1, WriteStepTyped
  <2>3. UNCHANGED <<part, artifacts, crashes>> /\ op.step \in OpenSteps
    BY <1>7 DEF WriteStep, Rest, acquisitionVars, OpenSteps
  <2>4. RunRetained(new)'
    BY <2>2, <2>3, OpenRunRetained DEF RunRetained
  <2>5. \A s \in Scope : \A i \in DOMAIN runs'[s] : RunRetained(runs[s][i])'
    BY <2>2, <2>3, <2>4, RunsStayRetained
  <2>6. op'.answer = None
    <3>1. op.answer = None
      BY <1>7 DEF Typed, Equipped, WriteStep
    <3>2. Goes(op'.step)
      BY <1>7, WriteStepTyped
    <3> QED
      BY <2>2, <3>1, <3>2, GoesTyped DEF Steps
  <2> QED
    BY <2>2, <2>5, <2>6 DEF Kept
<1>8. CASE WriteDone
  <2>1. PICK new : new = [Last(op.scope) EXCEPT !.done = TRUE]
    OBVIOUS
  <2>2. /\ op' = Idle
        /\ \/ UNCHANGED runs
           \/ /\ op.scope \in Scope /\ IsOpen(op.scope)
              /\ Journal(new) /\ new \in Run /\ InOrder(new)
              /\ new.fetches = Last(op.scope).fetches /\ new.prepares = Last(op.scope).prepares
    BY <1>8, <2>1, WriteDoneTyped
  <2>3. UNCHANGED <<part, artifacts>>
    BY <1>8 DEF WriteDone, Rest, acquisitionVars
  <2>4. ASSUME NEW s \in Scope, NEW i \in DOMAIN runs'[s] PROVE RunRetained(runs[s][i])'
    <3>1. CASE UNCHANGED runs
      BY <1>1, <2>3, <2>4, <3>1
    <3>2. CASE ~ UNCHANGED runs
      <4>1. PICK w \in Scope : w = op.scope
        BY <2>2, <3>2
      <4>2. /\ DOMAIN runs'[s] = DOMAIN runs[s] /\ runs'[w][Len(runs[w])] = new
            /\ s # w \/ i # Len(runs[w]) => runs'[s][i] = runs[s][i]
        BY <2>2, <2>4, <3>2, <4>1, JournalTyped
      <4>3. CASE s = w /\ i = Len(runs[w])
        <5>1. RunRetained(Last(w))
          <6>1. i \in DOMAIN runs[s]
            BY <2>4, <4>2
          <6> QED
            BY <4>3, <6>1 DEF Kept, Last
        <5> QED
          BY <2>2, <2>3, <3>2, <4>1, <4>2, <4>3, <5>1 DEF RunRetained
      <4>4. CASE ~ (s = w /\ i = Len(runs[w]))
        BY <2>3, <2>4, <4>2, <4>4 DEF Kept, RunRetained
      <4> QED
        BY <4>3, <4>4
    <3> QED
      BY <3>1, <3>2
  <2> QED
    BY <2>2, <2>4, IdleTyped DEF Kept
<1>9. CASE WriteReceipt \/ RetainBody \/ WritePrepare
  BY <1>9, ReceiptKept, RetainBodyKept, WritePrepareKept
<1> QED
  BY <1>2, <1>3, <1>4, <1>5, <1>6, <1>7, <1>8, <1>9, QuietSteps DEF Next, RefreshStep

-----------------------------------------------------------------------------
(* The runs after a step. *)

\* A new run is behind the others.
LEMMA WriteRunCases ==
    ASSUME Typed, WriteRun, NEW s \in Scope, NEW i \in DOMAIN runs'[s]
    PROVE  \/ runs'[s][i] = NewRun
           \/ i \in DOMAIN runs[s] /\ runs'[s][i] = runs[s][i]
<1>1. /\ op.scope \in Scope /\ runs[op.scope] \in Seq(Run)
      /\ runs' = [runs EXCEPT ![op.scope] = Append(runs[op.scope], NewRun)]
  BY WriteRunTyped
<1>2. runs \in [Scope -> Seq(Run)]
  BY DEF Typed, TypeOK
<1> QED
  BY <1>1, <1>2

\* A change of the open run leaves the others.
LEMMA JournalCases ==
    ASSUME Typed, op.scope \in Scope, IsOpen(op.scope), NEW run \in Run, InOrder(run),
           Journal(run), NEW s \in Scope, NEW i \in DOMAIN runs'[s]
    PROVE  /\ i \in DOMAIN runs[s]
           /\ \/ runs'[s][i] = run /\ s = op.scope /\ runs[s][i] = Last(op.scope)
              \/ runs'[s][i] = runs[s][i]
<1>1. PICK w \in Scope : w = op.scope
  OBVIOUS
<1>2. /\ DOMAIN runs'[s] = DOMAIN runs[s] /\ runs'[w][Len(runs[w])] = run
      /\ s # w \/ i # Len(runs[w]) => runs'[s][i] = runs[s][i]
  BY <1>1, JournalTyped
<1> QED
  BY <1>1, <1>2 DEF Last

\* The operation's run.
LEMMA LastIsRun ==
    ASSUME Typed, op.step \in OpenSteps
    PROVE  /\ op.scope \in Scope /\ Len(runs[op.scope]) \in DOMAIN runs[op.scope]
           /\ Last(op.scope) = runs[op.scope][Len(runs[op.scope])]
<1>1. Len(runs[op.scope]) \in DOMAIN runs[op.scope] /\ op.scope \in Scope
  BY Context, OpenRun
<1> QED
  BY <1>1 DEF Last

-----------------------------------------------------------------------------
(* Coherence. *)

\* What is current at one time is coherent.
LEMMA CurrentIsCoherent ==
    ASSUME NEW run \in Run, NEW time \in Int, Current(run, time)
    PROVE  RunCoherent(run)
<1> SUFFICES ASSUME NEW i \in DOMAIN run.fetches, NEW j \in DOMAIN run.fetches
             PROVE  run.fetches[i].at - run.fetches[j].at <= MaxAge
  BY DEF RunCoherent
<1>1. run.fetches \in Seq(Fetch)
  BY DEF Run
<1>2. run.fetches[i].at \in Int /\ run.fetches[j].at \in Int
  <2>1. run.fetches[i] \in Fetch /\ run.fetches[j] \in Fetch
    BY <1>1
  <2> QED
    BY <2>1, RefreshConstants DEF Fetch
<1>3. run.fetches[i].at <= time /\ time - run.fetches[j].at <= MaxAge
  BY DEF Current
<1> QED
  BY <1>2, <1>3, RefreshConstants

\* A receipt has the clock of its refresh, for which the earlier ones are current.
LEMMA ReceiptCoherent ==
    ASSUME Typed, Typed', Coherent, WriteReceipt
    PROVE  Coherent'
<1>1. PICK a \in Answers, fetch \in Fetch, new \in Run :
         /\ fetch = [answer |-> a, at |-> op.time]
         /\ Last(op.scope)' = new /\ Journal(new) /\ InOrder(new)
         /\ new.fetches = Append(Last(op.scope).fetches, fetch)
         /\ op'.scope = op.scope /\ op'.time = op.time
  BY ReceiptWritten
<1>2. op.step \in OpenSteps
  BY DEF WriteReceipt, OpenSteps
<1>3. PICK old \in Run, time \in 0 .. MaxNow : old = Last(op.scope) /\ time = op.time
  BY <1>2, Context DEF Operation
<1>4. old.fetches \in Seq(Fetch) /\ Current(old, time)
  BY <1>2, <1>3 DEF Run, Coherent
<1>5. \A k \in DOMAIN new.fetches :
         \/ k \in DOMAIN old.fetches /\ new.fetches[k] = old.fetches[k]
         \/ new.fetches[k] = fetch
  BY <1>1, <1>3, <1>4
<1>6. Current(new, time)
  <2>1. fetch.at = time /\ time \in Int
    BY <1>1, <1>3
  <2> QED
    BY <1>4, <1>5, <2>1, RefreshConstants DEF Current
<1>7. RunCoherent(new)
  BY <1>3, <1>6, CurrentIsCoherent
<1>8. ASSUME NEW s \in Scope, NEW i \in DOMAIN runs'[s] PROVE RunCoherent(runs'[s][i])
  <2>1. /\ i \in DOMAIN runs[s]
        /\ runs'[s][i] = new \/ runs'[s][i] = runs[s][i]
    BY <1>1, <1>2, <1>8, Context, JournalCases
  <2> QED
    BY <1>7, <2>1 DEF Coherent
<1>9. Current(Last(op.scope)', op'.time)
  BY <1>1, <1>3, <1>6
<1> QED
  BY <1>8, <1>9 DEF Coherent, RunCoherent, Current

LEMMA NextCoherent ==
    ASSUME Typed, Typed', Coherent, [Next]_vars
    PROVE  Coherent'
<1>1. ASSUME UNCHANGED runs
      PROVE  \A s \in Scope : \A i \in DOMAIN runs'[s] : RunCoherent(runs'[s][i])
  BY <1>1 DEF Coherent
<1>2. ASSUME \A s \in Scope : \A i \in DOMAIN runs'[s] : RunCoherent(runs'[s][i]),
             \/ op'.step \notin OpenSteps
             \/ Current(Last(op.scope)', op'.time)
      PROVE  Coherent'
  BY <1>2 DEF Coherent, RunCoherent, Current
<1>3. ASSUME op.step \in OpenSteps, op'.time = op.time,
             Last(op.scope)'.fetches = Last(op.scope).fetches
      PROVE  Current(Last(op.scope)', op'.time)
  BY <1>3 DEF Coherent, Current
<1>4. ASSUME op.scope \in Scope, IsOpen(op.scope), NEW run \in Run, InOrder(run), Journal(run),
             run.fetches = Last(op.scope).fetches
      PROVE  \A s \in Scope : \A i \in DOMAIN runs'[s] : RunCoherent(runs'[s][i])
  <2> SUFFICES ASSUME NEW s \in Scope, NEW i \in DOMAIN runs'[s] PROVE RunCoherent(runs'[s][i])
    OBVIOUS
  <2>1. /\ i \in DOMAIN runs[s]
        /\ \/ runs'[s][i] = run /\ runs[s][i] = Last(op.scope)
           \/ runs'[s][i] = runs[s][i]
    BY <1>4, JournalCases
  <2>2. RunCoherent(runs[s][i])
    BY <2>1 DEF Coherent
  <2> QED
    BY <1>4, <2>1, <2>2 DEF RunCoherent
<1>5. ASSUME Quiet PROVE Coherent'
  <2>1. UNCHANGED runs /\ (UNCHANGED op \/ op'.step \notin OpenSteps)
    BY <1>5 DEF Quiet
  <2>2. CASE UNCHANGED op
    BY <2>1, <2>2 DEF Coherent, RunCoherent, Current, Last
  <2>3. CASE op'.step \notin OpenSteps
    BY <1>1, <1>2, <2>1, <2>3
  <2> QED
    BY <2>1, <2>2, <2>3
<1>6. ASSUME NEW s \in Scope, NEW time \in 0 .. now, BeginRefresh(s, time) PROVE Coherent'
  <2>1. UNCHANGED runs
    BY <1>6, BeginsQuietly
  <2>2. op'.step \notin OpenSteps \/ Current(Last(op.scope)', op'.time)
    BY <1>6, BeginsQuietly DEF OpenSteps
  <2> QED
    BY <1>1, <1>2, <2>1, <2>2
<1>7. CASE WriteRun
  <2>1. Last(op.scope)' = NewRun
    BY <1>7, WriteRunTyped
  <2>2. \A time : Current(NewRun, time) /\ RunCoherent(NewRun)
    BY DEF Current, RunCoherent, NewRun
  <2>3. Current(Last(op.scope)', op'.time)
    BY <2>1, <2>2
  <2>4. \A s \in Scope : \A i \in DOMAIN runs'[s] : RunCoherent(runs'[s][i])
    BY <1>7, <2>2, WriteRunCases DEF Coherent
  <2> QED
    BY <1>2, <2>3, <2>4
<1>8. CASE StageBody
  <2>1. UNCHANGED runs /\ op'.scope = op.scope /\ op'.time = op.time /\ op.step \in OpenSteps
    BY <1>8, StageBodyTyped DEF StageBody, OpenSteps
  <2>2. Last(op.scope)' = Last(op.scope)
    BY <2>1 DEF Last
  <2> QED
    BY <1>1, <1>2, <1>3, <2>1, <2>2
<1>9. CASE RetainBody
  <2>1. UNCHANGED runs /\ op.step \in OpenSteps
    BY <1>9 DEF RetainBody, OpenSteps
  <2>2. op' = Idle \/ (Last(op.scope)' = Last(op.scope) /\ Goes("prepare"))
    BY <1>9, RetainBodyTyped
  <2>3. op'.step \notin OpenSteps \/ (Last(op.scope)' = Last(op.scope) /\ op'.time = op.time)
    BY <2>2, GoesTyped, IdleTyped DEF OpenSteps, Steps
  <2> QED
    BY <1>1, <1>2, <1>3, <2>1, <2>3
<1>10. CASE WritePrepare
  <2>1. PICK new : new = [Last(op.scope) EXCEPT !.prepares = Last(op.scope).prepares + 1]
    OBVIOUS
  <2>2. \/ /\ Journal(new) /\ Goes("observe") /\ new \in Run /\ InOrder(new)
           /\ Last(op.scope)' = new /\ new.fetches = Last(op.scope).fetches
        \/ op' = Idle /\ UNCHANGED runs
    BY <1>10, <2>1, WritePrepareTyped
  <2>3. op.step \in OpenSteps /\ op.scope \in Scope /\ IsOpen(op.scope)
    BY <1>10, Context DEF WritePrepare, OpenSteps
  <2>4. CASE op' = Idle /\ UNCHANGED runs
    BY <1>1, <1>2, <2>4, IdleTyped DEF OpenSteps
  <2>5. CASE Journal(new) /\ Goes("observe") /\ new \in Run /\ InOrder(new)
             /\ Last(op.scope)' = new /\ new.fetches = Last(op.scope).fetches
    <3>1. op'.time = op.time
      BY <2>5, GoesTyped DEF Steps
    <3> QED
      BY <1>2, <1>3, <1>4, <2>3, <2>5, <3>1
  <2> QED
    BY <2>2, <2>4, <2>5
<1>11. CASE PublishObservation \/ PublishComparison
  <2>1. Last(op.scope)' = Last(op.scope)
    BY <1>11, PublishTyped
  <2>2. UNCHANGED runs /\ op'.time = op.time /\ op.step \in OpenSteps
    BY <1>11, GoesTyped DEF PublishObservation, PublishComparison, Steps, OpenSteps
  <2> QED
    BY <1>1, <1>2, <1>3, <2>1, <2>2
<1>12. CASE WriteStep
  <2>1. PICK new : new = [Last(op.scope) EXCEPT !.steps = Last(op.scope).steps + 1]
    OBVIOUS
  <2>2. /\ Journal(new) /\ Goes(NextStep(new)) /\ NextStep(new) \in {"fetch", "preflight"}
        /\ new \in Run /\ InOrder(new)
        /\ Last(op.scope)' = new /\ new.fetches = Last(op.scope).fetches
    BY <1>12, <2>1, WriteStepTyped
  <2>3. op.step \in OpenSteps /\ op.scope \in Scope /\ IsOpen(op.scope)
    BY <1>12, Context DEF WriteStep, OpenSteps
  <2>4. op'.time = op.time
    BY <2>2, GoesTyped DEF Steps
  <2> QED
    BY <1>2, <1>3, <1>4, <2>2, <2>3, <2>4
<1>13. CASE WriteDone
  <2>1. PICK new : new = [Last(op.scope) EXCEPT !.done = TRUE]
    OBVIOUS
  <2>2. /\ op' = Idle
        /\ \/ UNCHANGED runs
           \/ /\ op.scope \in Scope /\ IsOpen(op.scope)
              /\ Journal(new) /\ new \in Run /\ InOrder(new)
              /\ new.fetches = Last(op.scope).fetches
    BY <1>13, <2>1, WriteDoneTyped
  <2> QED
    BY <1>1, <1>2, <1>4, <2>2, IdleTyped DEF OpenSteps
<1> QED
  BY <1>5, <1>6, <1>7, <1>8, <1>9, <1>10, <1>11, <1>12, <1>13, ReceiptCoherent, QuietSteps
     DEF Next, RefreshStep

-----------------------------------------------------------------------------
(* What is public. *)

\* What is of a run stays of it.
LEMMA OfARunStays ==
    ASSUME Typed, [Next]_vars
    PROVE  /\ \A o : InRun(o) => InRun(o)'
           /\ \A h : OfRun(h) => OfRun(h)'
<1>1. ASSUME NEW o, InRun(o) PROVE InRun(o)'
  <2>1. PICK s \in Scope : \E i \in DOMAIN runs[s] :
           /\ s = o.scope /\ o.source \in DOMAIN runs[s][i].fetches
           /\ runs[s][i].fetches[o.source] = o.fetch
    BY <1>1 DEF InRun
  <2>2. PICK i \in DOMAIN runs[s] :
           /\ s = o.scope /\ o.source \in DOMAIN runs[s][i].fetches
           /\ runs[s][i].fetches[o.source] = o.fetch
    BY <2>1
  <2>3. i \in DOMAIN runs'[s] /\ Extends(runs[s][i], runs'[s][i])
    BY RunsGrow
  <2> QED
    BY <2>2, <2>3 DEF InRun, Extends
<1>2. ASSUME NEW h, OfRun(h) PROVE OfRun(h)'
  <2>1. PICK s \in Scope : \E i \in DOMAIN runs[s] :
           s = h.scope /\ runs[s][i].fetches = h.fetches /\ runs[s][i].steps = Sources
    BY <1>2 DEF OfRun
  <2>2. PICK i \in DOMAIN runs[s] :
           s = h.scope /\ runs[s][i].fetches = h.fetches /\ runs[s][i].steps = Sources
    BY <2>1
  <2>3. i \in DOMAIN runs'[s] /\ Extends(runs[s][i], runs'[s][i])
    BY RunsGrow
  <2> QED
    BY <2>2, <2>3 DEF OfRun, Extends
<1> QED
  BY <1>1, <1>2

\* What is prepared is in the journal.
LEMMA PreparedInRun ==
    ASSUME Typed, op.step \in {"observe", "compare", "step"}
    PROVE  InRun(Prepared)
<1>1. op.step \in OpenSteps
  BY DEF OpenSteps
<1>2. /\ op.scope \in Scope /\ Len(runs[op.scope]) \in DOMAIN runs[op.scope]
      /\ Last(op.scope) = runs[op.scope][Len(runs[op.scope])]
  BY <1>1, LastIsRun
<1>3. Last(op.scope).prepares \in DOMAIN Last(op.scope).fetches
  BY PreparedTyped
<1> QED
  BY <1>2, <1>3 DEF InRun, Prepared

\* Publication adds what is prepared, first the observation and then the comparison.
LEMMA PublishPublic ==
    ASSUME Typed, Typed', Public, [Next]_vars, PublishObservation \/ PublishComparison
    PROVE  Public'
<1>1. Prepared' = Prepared /\ UNCHANGED runs
  BY PublishTyped DEF PublishObservation, PublishComparison
<1>2. op'.step = IF PublishObservation THEN "compare" ELSE "step"
  BY GoesTyped DEF PublishObservation, PublishComparison, Steps
<1>3. /\ observations \subseteq observations' /\ comparisons \subseteq comparisons'
      /\ observations' \cup comparisons' = observations \cup comparisons \cup {Prepared}
  BY DEF PublishObservation, PublishComparison
<1>4. op.step \in {"observe", "compare"}
  BY DEF PublishObservation, PublishComparison
<1>5. \A o \in observations' \cup comparisons' : InRun(o)'
  <2>1. \A o \in observations' \cup comparisons' : InRun(o)
    BY <1>3, <1>4, PreparedInRun DEF Public
  <2> QED
    BY <2>1, OfARunStays
<1>6. \A s \in Scope : \A i \in DOMAIN runs'[s] : RunPublic(s, runs[s][i])'
  BY <1>1, <1>3 DEF Public, RunPublic
<1>7. Prepared \in observations' /\ (op'.step = "step" => Prepared \in comparisons')
  BY <1>2 DEF PublishObservation, PublishComparison, Public
<1> QED
  BY <1>1, <1>5, <1>6, <1>7 DEF Public

LEMMA NextPublic ==
    ASSUME Typed, Typed', Public, [Next]_vars
    PROVE  Public'
<1>1. ASSUME UNCHANGED <<observations, comparisons>>,
             op'.step \notin {"compare", "step"},
             \A s \in Scope : \A i \in DOMAIN runs'[s] : RunPublic(s, runs'[s][i])
      PROVE  Public'
  <2>1. \A o \in observations' \cup comparisons' : InRun(o)'
    BY <1>1, OfARunStays DEF Public
  <2> QED
    BY <1>1, <2>1 DEF Public, RunPublic
<1>2. ASSUME UNCHANGED <<runs, observations, comparisons>>, op'.step \notin {"compare", "step"}
      PROVE  Public'
  BY <1>1, <1>2 DEF Public
<1>3. ASSUME op.scope \in Scope, IsOpen(op.scope), NEW run \in Run, InOrder(run), Journal(run),
             \A k \in 1 .. run.steps :
                [scope |-> op.scope, source |-> k, fetch |-> run.fetches[k]]
                    \in observations \cap comparisons
      PROVE  \A s \in Scope : \A i \in DOMAIN runs'[s] : RunPublic(s, runs'[s][i])
  <2> SUFFICES ASSUME NEW s \in Scope, NEW i \in DOMAIN runs'[s] PROVE RunPublic(s, runs'[s][i])
    OBVIOUS
  <2>1. /\ i \in DOMAIN runs[s]
        /\ \/ runs'[s][i] = run /\ s = op.scope
           \/ runs'[s][i] = runs[s][i]
    BY <1>3, JournalCases
  <2> QED
    BY <1>3, <2>1 DEF Public, RunPublic
<1>4. ASSUME op.scope \in Scope, IsOpen(op.scope), NEW run \in Run, InOrder(run), Journal(run),
             run.steps = Last(op.scope).steps,
             \A k \in 1 .. run.steps : run.fetches[k] = Last(op.scope).fetches[k]
      PROVE  \A s \in Scope : \A i \in DOMAIN runs'[s] : RunPublic(s, runs'[s][i])
  <2>1. Len(runs[op.scope]) \in DOMAIN runs[op.scope]
    BY <1>4, OpenRun
  <2>2. RunPublic(op.scope, Last(op.scope))
    BY <1>4, <2>1 DEF Public, Last
  <2> QED
    BY <1>3, <1>4, <2>2 DEF RunPublic
<1>5. ASSUME Quiet PROVE Public'
  <2>1. CASE UNCHANGED op
    <3>1. Prepared' = Prepared
      BY <1>5, <2>1 DEF Quiet, Prepared, Last
    <3>2. \A o \in observations' \cup comparisons' : InRun(o)'
      BY <1>5, OfARunStays DEF Public, Quiet
    <3> QED
      BY <1>5, <2>1, <3>1, <3>2 DEF Quiet, Public, RunPublic
  <2>2. CASE op'.step \notin OpenSteps
    BY <1>2, <1>5, <2>2 DEF Quiet, OpenSteps
  <2> QED
    BY <1>5, <2>1, <2>2 DEF Quiet
<1>6. ASSUME NEW s \in Scope, NEW time \in 0 .. now, BeginRefresh(s, time) PROVE Public'
  <2>1. UNCHANGED <<runs, observations, comparisons>> /\ op'.step \notin {"compare", "step"}
    BY <1>6, BeginsQuietly DEF OpenSteps
  <2> QED
    BY <1>2, <2>1
<1>7. CASE WriteRun
  <2>1. UNCHANGED <<observations, comparisons>> /\ op'.step = "fetch"
    BY <1>7, WriteRunTyped DEF WriteRun
  <2>2. \A s : RunPublic(s, NewRun)
    BY DEF RunPublic, NewRun
  <2>3. \A s \in Scope : \A i \in DOMAIN runs'[s] : RunPublic(s, runs'[s][i])
    BY <1>7, <2>2, WriteRunCases DEF Public
  <2> QED
    BY <1>1, <2>1, <2>3
<1>8. CASE StageBody \/ RetainBody
  <2>1. UNCHANGED <<runs, observations, comparisons>>
    BY <1>8 DEF StageBody, RetainBody
  <2>2. op'.step \in {"fetch", "prepare", "none"}
    BY <1>8, StageBodyTyped, RetainBodyTyped, GoesTyped, IdleTyped DEF Steps
  <2> QED
    BY <1>2, <2>1, <2>2
<1>9. CASE WriteReceipt
  <2>1. PICK a \in Answers, fetch \in Fetch, new \in Run :
           /\ Journal(new) /\ InOrder(new)
           /\ new.fetches = Append(Last(op.scope).fetches, fetch)
           /\ new.steps = Last(op.scope).steps
           /\ op'.step = IF a.status = "observed" THEN "retain" ELSE "prepare"
    BY <1>9, ReceiptWritten
  <2>2. /\ op.scope \in Scope /\ IsOpen(op.scope) /\ Last(op.scope).fetches \in Seq(Fetch)
        /\ Len(Last(op.scope).fetches) = Last(op.scope).steps
        /\ UNCHANGED <<observations, comparisons>>
    BY <1>9, Context DEF WriteReceipt, OpenSteps, StandsAt
  <2>3. \A k \in 1 .. new.steps : new.fetches[k] = Last(op.scope).fetches[k]
    BY <2>1, <2>2
  <2>4. \A s \in Scope : \A i \in DOMAIN runs'[s] : RunPublic(s, runs'[s][i])
    BY <1>4, <2>1, <2>2, <2>3
  <2> QED
    BY <1>1, <2>1, <2>2, <2>4
<1>10. CASE WritePrepare
  <2>1. PICK new : new = [Last(op.scope) EXCEPT !.prepares = Last(op.scope).prepares + 1]
    OBVIOUS
  <2>2. \/ /\ Journal(new) /\ op'.step = "observe" /\ new \in Run /\ InOrder(new)
           /\ new.steps = Last(op.scope).steps /\ new.fetches = Last(op.scope).fetches
        \/ op' = Idle /\ UNCHANGED runs
    BY <1>10, <2>1, WritePrepareTyped
  <2>3. /\ op.scope \in Scope /\ IsOpen(op.scope) /\ UNCHANGED <<observations, comparisons>>
    BY <1>10, Context DEF WritePrepare, OpenSteps
  <2> QED
    BY <1>1, <1>2, <1>4, <2>2, <2>3, IdleTyped
<1>11. CASE WriteStep
  <2>1. PICK new : new = [Last(op.scope) EXCEPT !.steps = Last(op.scope).steps + 1]
    OBVIOUS
  <2>2. PICK old \in Run : old = Last(op.scope)
    BY <1>11, Context DEF WriteStep, OpenSteps
  <2>3. /\ Journal(new) /\ op'.step \in {"fetch", "preflight"} /\ new \in Run /\ InOrder(new)
        /\ new.fetches = old.fetches /\ new.steps = old.steps + 1 /\ new.steps = old.prepares
    BY <1>11, <2>1, <2>2, WriteStepTyped
  <2>4. /\ op.scope \in Scope /\ IsOpen(op.scope) /\ op.step = "step" /\ op.step \in OpenSteps
        /\ UNCHANGED <<observations, comparisons>>
    BY <1>11, Context DEF WriteStep, OpenSteps
  <2>5. RunPublic(op.scope, old)
    BY <2>2, <2>4, LastIsRun DEF Public
  <2>6. [scope |-> op.scope, source |-> old.prepares, fetch |-> old.fetches[old.prepares]]
            \in observations \cap comparisons
    BY <2>2, <2>4 DEF Public, Prepared
  <2>7. ASSUME NEW k \in 1 .. new.steps
        PROVE  [scope |-> op.scope, source |-> k, fetch |-> new.fetches[k]]
                   \in observations \cap comparisons
    <3>1. old.steps \in Int /\ (k \in 1 .. old.steps \/ k = old.prepares)
      BY <2>3, AcquisitionConstants DEF Run
    <3> QED
      BY <2>3, <2>5, <2>6, <3>1 DEF RunPublic
  <2>8. \A s \in Scope : \A i \in DOMAIN runs'[s] : RunPublic(s, runs'[s][i])
    BY <1>3, <2>3, <2>4, <2>7
  <2> QED
    BY <1>1, <2>3, <2>4, <2>8
<1>12. CASE WriteDone
  <2>1. PICK new : new = [Last(op.scope) EXCEPT !.done = TRUE]
    OBVIOUS
  <2>2. /\ op' = Idle
        /\ \/ UNCHANGED runs
           \/ /\ op.scope \in Scope /\ IsOpen(op.scope)
              /\ Journal(new) /\ new \in Run /\ InOrder(new)
              /\ new.fetches = Last(op.scope).fetches /\ new.steps = Last(op.scope).steps
    BY <1>12, <2>1, WriteDoneTyped
  <2>3. UNCHANGED <<observations, comparisons>>
    BY <1>12 DEF WriteDone
  <2> QED
    BY <1>1, <1>2, <1>4, <2>2, <2>3, IdleTyped
<1> QED
  BY <1>5, <1>6, <1>7, <1>8, <1>9, <1>10, <1>11, <1>12, PublishPublic, QuietSteps
     DEF Next, RefreshStep

-----------------------------------------------------------------------------
(* Bundles. *)

\* A bundle that is finished is at its last write.
LEMMA FinishedIsReached ==
    ASSUME Typed, Bundled, NEW h \in History, [of |-> h, at |-> Complete] \in bundles
    PROVE  Reached(h) = Complete
<1>1. Reached(h) # 0
  BY ReachedTyped
<1>2. [of |-> h, at |-> Reached(h)] \in bundles
  BY <1>1, ReachedTyped
<1>3. [of |-> h, at |-> Complete] = [of |-> h, at |-> Reached(h)]
  BY <1>2 DEF Bundled
<1> QED
  BY <1>3

\* One write more: the bundle stays the only one of its history, the summary comes with
\* the fifth, and a finished bundle has no more of them.
LEMMA WriteBundleBundled ==
    ASSUME Typed, Typed', Bundled, [Next]_vars, WriteBundle
    PROVE  Bundled'
<1>1. PICK h \in History : h = op.history
  BY WriteBundleTyped
<1>2. PICK n \in 1 .. Complete : n = Reached(h) + 1
  BY <1>1, WriteBundleTyped
<1>3. /\ bundles' = {b \in bundles : b.of # h} \cup {[of |-> h, at |-> n]}
      /\ summaries' = IF n = 5 THEN summaries \cup {h} ELSE summaries
      /\ UNCHANGED <<op, runs>>
  BY <1>1, <1>2, WriteBundleTyped
<1>4. op.step = "bundle" /\ OfRun(h)
  BY <1>1 DEF WriteBundle, Bundled
<1>5. Reached(h) \in Nat
  <2>1. Reached(h) \in 0 .. Complete
    BY ReachedTyped
  <2> QED
    BY <2>1 DEF Complete
<1>6. \A g \in summaries' : OfRun(g)'
  BY <1>3, <1>4, OfARunStays DEF Bundled
<1>7. n >= 5 => h \in summaries'
  <2>1. CASE n = 5
    BY <1>3, <2>1
  <2>2. CASE n > 5
    <3>1. [of |-> h, at |-> Reached(h)] \in bundles /\ Reached(h) >= 5
      BY <1>2, <1>5, <2>2, ReachedTyped
    <3> QED
      BY <1>3, <3>1 DEF Bundled
  <2> QED
    BY <1>2, <2>1, <2>2 DEF Complete
<1>8. ASSUME NEW b \in bundles' PROVE OfRun(b.of)' /\ (b.at >= 5 => b.of \in summaries')
  <2>1. CASE b \in bundles
    BY <1>3, <2>1, OfARunStays DEF Bundled
  <2>2. CASE b = [of |-> h, at |-> n]
    BY <1>4, <1>7, <2>2, OfARunStays
  <2> QED
    BY <1>3, <1>8, <2>1, <2>2
<1>9. \A b, d \in bundles' : b.of = d.of => b = d
  BY <1>3 DEF Bundled
<1>10. ASSUME NEW s \in Scope, NEW i \in DOMAIN runs'[s] PROVE RunDone(s, runs[s][i])'
  <2>1. i \in DOMAIN runs[s] /\ runs'[s][i] = runs[s][i]
    BY <1>3, <1>10
  <2> SUFFICES ASSUME runs[s][i].done
               PROVE  LET g == [scope |-> s, fetches |-> runs[s][i].fetches]
                      IN  g \in summaries' /\ [of |-> g, at |-> Complete] \in bundles'
    BY <2>1 DEF RunDone
  <2>2. PICK g : g = [scope |-> s, fetches |-> runs[s][i].fetches]
    OBVIOUS
  <2>3. g \in summaries /\ [of |-> g, at |-> Complete] \in bundles
    BY <2>1, <2>2 DEF Bundled, RunDone
  <2>4. g # h
    <3> SUFFICES ASSUME g = h PROVE FALSE
      OBVIOUS
    <3>1. Reached(h) = Complete
      BY <2>3, FinishedIsReached
    <3> QED
      BY <1>2, <3>1 DEF Complete
  <2> QED
    BY <1>3, <2>2, <2>3, <2>4
<1>11. OfRun(op.history)'
  BY <1>1, <1>3, <1>4, OfARunStays DEF OfRun
<1> QED
  BY <1>6, <1>8, <1>9, <1>10, <1>11 DEF Bundled

\* Whoever goes on to a bundle begins it, recovers it, or was at it.
LEMMA BundleBegun ==
    ASSUME Typed, Typed', Bundled, [Next]_vars, op'.step = "bundle"
    PROVE  OfRun(op'.history)
<1>1. op \in Operation
  BY DEF Typed, TypeOK, Operation
<1>2. CASE UNCHANGED op
  BY <1>2 DEF Bundled
<1>3. CASE Preflight
  <2>1. op' = Idle \/ op' = [op EXCEPT !.step = "bundle", !.history = HistoryOf(op.scope)]
    BY <1>3 DEF Preflight
  <2>2. op'.history = HistoryOf(op.scope)
    BY <1>1, <2>1, IdleTyped DEF Operation
  <2>3. op.step = "preflight" /\ op.step \in OpenSteps
    BY <1>3 DEF Preflight, OpenSteps
  <2>4. Last(op.scope).steps = Sources
    BY <2>3, Context DEF StandsAt
  <2> QED
    BY <2>2, <2>3, <2>4, LastIsRun DEF OfRun, HistoryOf
<1>4. CASE RecoverBundle
  <2>1. PICK b \in bundles : op' = [Idle EXCEPT !.step = "bundle", !.history = b.of]
    BY <1>4 DEF RecoverBundle
  <2>2. op'.history = b.of
    BY <2>1, IdleTyped DEF Operation
  <2> QED
    BY <2>2 DEF Bundled
<1>5. CASE ~ (UNCHANGED op \/ Preflight \/ RecoverBundle)
  <2>1. op' # Idle /\ ~ Goes("fetch") /\ ~ Goes("prepare") /\ ~ Goes("observe")
        /\ ~ Goes("compare") /\ ~ Goes("step")
    BY IdleTyped, GoesTyped DEF Steps
  <2>2. ~ (Acquire /\ UNCHANGED <<refreshVars, now>>)
    <3>1. ~ (WritePending \/ AcquisitionStep)
      BY <1>1, <2>1 DEF WritePending, AcquisitionStep, WriteIntent, StagePart, PublishPart,
                        WriteRecord, WriteTerminal, Operation
    <3>2. ~ (AcquireFails \/ TearAcquisitionFile \/ Crash)
      BY <2>1 DEF AcquireFails, TearAcquisitionFile, Crash
    <3>3. ~ \E todo \in SUBSET Source : BeginAcquire(todo)
      BY IdleTyped DEF BeginAcquire, Operation
    <3>4. ~ \E a \in Attempt : RecoverAttempt(a)
      <4> SUFFICES ASSUME NEW a \in Attempt, RecoverAttempt(a) PROVE FALSE
        OBVIOUS
      <4>1. PICK step \in {"publish", "record"} : op' = [Idle EXCEPT !.attempt = a, !.step = step]
        BY DEF RecoverAttempt
      <4> QED
        BY <4>1, IdleTyped DEF Operation
    <3> QED
      BY <3>1, <3>2, <3>3, <3>4 DEF Acquire
  <2>3. ~ \E s \in Scope : \E time \in 0 .. now : BeginRefresh(s, time)
    BY BeginsQuietly DEF OpenSteps
  <2>4. ~ (StageBody \/ WriteReceipt \/ WriteStep)
    BY StageBodyTyped, ReceiptWritten, WriteStepTyped
  <2>5. ~ (WriteRun \/ RetainBody \/ WritePrepare \/ PublishObservation \/ PublishComparison)
    BY <2>1 DEF WriteRun, RetainBody, WritePrepare, PublishObservation, PublishComparison
  <2>6. ~ (WriteBundle \/ WriteDone \/ FetchFails \/ TearFreshnessFile \/ Tick)
    BY <1>5, <2>1 DEF WriteBundle, WriteDone, FetchFails, TearFreshnessFile, Tick
  <2>7. ~ UNCHANGED vars
    BY <1>5 DEF vars
  <2> QED
    BY <1>5, <2>2, <2>3, <2>4, <2>5, <2>6, <2>7 DEF Next, RefreshStep
<1> QED
  BY <1>2, <1>3, <1>4, <1>5

\* The run that is done has its summary and a finished bundle.
LEMMA WriteDoneRuns ==
    ASSUME Typed, Bundled, WriteDone, NEW s \in Scope, NEW i \in DOMAIN runs'[s]
    PROVE  RunDone(s, runs'[s][i])
<1>1. PICK new : new = [Last(op.scope) EXCEPT !.done = TRUE]
  OBVIOUS
<1>2. \/ UNCHANGED runs
      \/ /\ op.scope \in Scope /\ IsOpen(op.scope) /\ op.history = HistoryOf(op.scope)
         /\ Journal(new) /\ new \in Run /\ InOrder(new)
         /\ new.fetches = Last(op.scope).fetches
  BY <1>1, WriteDoneTyped
<1>3. CASE UNCHANGED runs
  BY <1>3 DEF Bundled
<1>4. CASE ~ UNCHANGED runs
  <2>1. /\ i \in DOMAIN runs[s]
        /\ \/ runs'[s][i] = new /\ s = op.scope
           \/ runs'[s][i] = runs[s][i]
    BY <1>2, <1>4, JournalCases
  <2>2. CASE runs'[s][i] = new /\ s = op.scope
    <3>1. op.history = [scope |-> s, fetches |-> new.fetches]
      BY <1>2, <1>4, <2>2 DEF HistoryOf
    <3>2. op.history \in History /\ Reached(op.history) = Complete
      BY DEF WriteDone, Typed, Equipped
    <3>3. [of |-> op.history, at |-> Complete] \in bundles
      BY <3>2, ReachedTyped DEF Complete
    <3>4. op.history \in summaries
      <4>1. PICK b \in bundles : b.of = op.history /\ b.at = Complete
        BY <3>3
      <4> QED
        BY <4>1 DEF Bundled, Complete
    <3> QED
      BY <2>2, <3>1, <3>3, <3>4 DEF RunDone
  <2>3. CASE runs'[s][i] = runs[s][i]
    BY <2>1, <2>3 DEF Bundled
  <2> QED
    BY <2>1, <2>2, <2>3
<1> QED
  BY <1>3, <1>4

LEMMA NextBundled ==
    ASSUME Typed, Typed', Bundled, [Next]_vars
    PROVE  Bundled'
<1>1. op'.step = "bundle" => OfRun(op.history)'
  <2> SUFFICES ASSUME op'.step = "bundle" PROVE OfRun(op.history)'
    OBVIOUS
  <2>1. PICK h : h = op'.history
    OBVIOUS
  <2>2. OfRun(h)'
    BY <2>1, BundleBegun, OfARunStays
  <2> QED
    BY <2>1, <2>2 DEF OfRun
<1>2. ASSUME UNCHANGED <<summaries, bundles>>,
             \A s \in Scope : \A i \in DOMAIN runs'[s] : RunDone(s, runs'[s][i])
      PROVE  Bundled'
  <2>1. \A h \in summaries' : OfRun(h)'
    BY <1>2, OfARunStays DEF Bundled
  <2>2. \A b \in bundles' : OfRun(b.of)' /\ (b.at >= 5 => b.of \in summaries')
    BY <1>2, OfARunStays DEF Bundled
  <2> QED
    BY <1>1, <1>2, <2>1, <2>2 DEF Bundled, RunDone
<1>3. ASSUME UNCHANGED <<runs, summaries, bundles>> PROVE Bundled'
  BY <1>2, <1>3 DEF Bundled
<1>4. ASSUME op.scope \in Scope, IsOpen(op.scope), NEW run \in Run, InOrder(run), Journal(run),
             ~ run.done
      PROVE  \A s \in Scope : \A i \in DOMAIN runs'[s] : RunDone(s, runs'[s][i])
  <2> SUFFICES ASSUME NEW s \in Scope, NEW i \in DOMAIN runs'[s] PROVE RunDone(s, runs'[s][i])
    OBVIOUS
  <2>1. i \in DOMAIN runs[s] /\ (runs'[s][i] = run \/ runs'[s][i] = runs[s][i])
    BY <1>4, JournalCases
  <2> QED
    BY <1>4, <2>1 DEF Bundled, RunDone
<1>5. CASE WriteRun
  <2>1. \A s : RunDone(s, NewRun)
    BY DEF RunDone, NewRun
  <2>2. \A s \in Scope : \A i \in DOMAIN runs'[s] : RunDone(s, runs'[s][i])
    BY <1>5, <2>1, WriteRunCases DEF Bundled
  <2> QED
    BY <1>2, <1>5, <2>2 DEF WriteRun
<1>6. CASE WriteReceipt
  <2>1. PICK a \in Answers, fetch \in Fetch, new \in Run :
           Journal(new) /\ InOrder(new) /\ ~ new.done
    BY <1>6, ReceiptWritten
  <2>2. op.scope \in Scope /\ IsOpen(op.scope) /\ UNCHANGED <<summaries, bundles>>
    BY <1>6, Context DEF WriteReceipt, OpenSteps
  <2> QED
    BY <1>2, <1>4, <2>1, <2>2
<1>7. CASE WritePrepare
  <2>1. PICK new : new = [Last(op.scope) EXCEPT !.prepares = Last(op.scope).prepares + 1]
    OBVIOUS
  <2>2. \/ Journal(new) /\ new \in Run /\ InOrder(new) /\ ~ new.done
        \/ UNCHANGED runs
    BY <1>7, <2>1, WritePrepareTyped
  <2>3. op.scope \in Scope /\ IsOpen(op.scope) /\ UNCHANGED <<summaries, bundles>>
    BY <1>7, Context DEF WritePrepare, OpenSteps
  <2> QED
    BY <1>2, <1>3, <1>4, <2>2, <2>3
<1>8. CASE WriteStep
  <2>1. PICK new : new = [Last(op.scope) EXCEPT !.steps = Last(op.scope).steps + 1]
    OBVIOUS
  <2>2. Journal(new) /\ new \in Run /\ InOrder(new) /\ ~ new.done
    BY <1>8, <2>1, WriteStepTyped
  <2>3. op.scope \in Scope /\ IsOpen(op.scope) /\ UNCHANGED <<summaries, bundles>>
    BY <1>8, Context DEF WriteStep, OpenSteps
  <2> QED
    BY <1>2, <1>4, <2>2, <2>3
<1>9. CASE WriteDone
  BY <1>2, <1>9, WriteDoneRuns DEF WriteDone
<1>10. CASE WriteBundle
  BY <1>10, WriteBundleBundled
<1>11. CASE ~ (WriteRun \/ WriteReceipt \/ WritePrepare \/ WriteStep \/ WriteDone \/ WriteBundle)
  <2>1. UNCHANGED <<runs, summaries, bundles>>
    BY <1>11 DEF Next, Acquire, BeginRefresh, RefreshStep, StageBody, RetainBody,
                 PublishObservation, PublishComparison, Preflight, FetchFails, RecoverBundle,
                 TearFreshnessFile, Tick, refreshVars, vars
  <2> QED
    BY <1>3, <2>1
<1> QED
  BY <1>5, <1>6, <1>7, <1>8, <1>9, <1>10, <1>11

-----------------------------------------------------------------------------
(* The invariant, and what follows from it. *)

\* At first there is no record, no run and nothing that is public.
THEOREM InitIInv == RefreshInit => IInv
<1> SUFFICES ASSUME RefreshInit PROVE IInv
  OBVIOUS
<1>1. Typed
  BY InitTyped
<1>2. /\ records = [s \in Source |-> None] /\ runs = [s \in Scope |-> <<>>] /\ op = Idle
      /\ terminals = {} /\ observations = {} /\ comparisons = {} /\ summaries = {}
      /\ bundles = {}
  BY DEF RefreshInit, AcquisitionInit
<1>3. op.step = "none" /\ op.answer = None
  BY <1>2, IdleTyped
<1>4. \A s \in Scope : DOMAIN runs[s] = {}
  BY <1>2
<1>5. Acquired
  BY <1>2, <1>3 DEF Acquired, RecordHasItsArtifact
<1>6. Kept /\ Coherent /\ Public /\ Bundled
  BY <1>2, <1>3, <1>4 DEF Kept, Coherent, Public, Bundled, OpenSteps
<1> QED
  BY <1>1, <1>5, <1>6 DEF IInv

\* Every step of an acquisition, of a refresh and of a recovery keeps the invariant.
THEOREM NextIInv == IInv /\ [Next]_vars => IInv'
<1> SUFFICES ASSUME IInv, [Next]_vars PROVE IInv'
  OBVIOUS
<1>1. Typed'
  BY NextTyped DEF IInv
<1>2. Acquired' /\ Kept' /\ Coherent' /\ Public' /\ Bundled'
  BY <1>1, NextAcquired, NextKept, NextCoherent, NextPublic, NextBundled DEF IInv
<1> QED
  BY <1>1, <1>2 DEF IInv

THEOREM Invariance == Spec => []IInv
  BY InitIInv, NextIInv, PTL DEF Spec

\* A record of a source has its artifact, and the terminal of an attempt its record.
THEOREM RecordsBacked == Spec => []RecordHasItsArtifact
<1>1. IInv => RecordHasItsArtifact
  BY DEF IInv, Acquired
<1> QED
  BY <1>1, Invariance, PTL

\* The runs that the properties speak of are those of the journals.
LEMMA AllRunsAre ==
    ASSUME Typed
    PROVE  /\ \A r \in AllRuns : r[1] \in Scope /\ r[2] \in DOMAIN runs[r[1]]
           /\ \A s \in Scope : \A i \in DOMAIN runs[s] :
                 <<s, i>> \in AllRuns /\ RunAt(<<s, i>>) = runs[s][i]
<1>1. \A r \in AllRuns : r[1] \in Scope /\ r[2] \in DOMAIN runs[r[1]]
  BY DEF AllRuns
<1>2. ASSUME NEW s \in Scope, NEW i \in DOMAIN runs[s]
      PROVE  <<s, i>> \in AllRuns /\ RunAt(<<s, i>>) = runs[s][i]
  <2>1. runs[s] \in Seq(Run) /\ Len(runs[s]) <= MaxRuns
    BY DEF Typed, TypeOK, Journals
  <2>2. i \in 1 .. MaxRuns
    BY <2>1, RefreshConstants
  <2> QED
    BY <2>2 DEF AllRuns, RunAt
<1> QED
  BY <1>1, <1>2

\* The body of an answer is staged or retained while only the receipt is there, and
\* retained from then on.
THEOREM EvidenceRetained == Spec => []EvidenceIsRetained
<1>1. ASSUME IInv PROVE EvidenceIsRetained
  <2>1. Typed
    BY <1>1 DEF IInv
  <2>2. ASSUME NEW r \in AllRuns, NEW i \in DOMAIN RunAt(r).fetches,
               Observed(RunAt(r).fetches[i])
        PROVE  \/ ContentOf(RunAt(r).fetches[i]) \in artifacts
               \/ i > RunAt(r).prepares /\ part = ContentOf(RunAt(r).fetches[i])
    <3>1. r[1] \in Scope /\ r[2] \in DOMAIN runs[r[1]]
      BY <2>1, AllRunsAre
    <3> QED
      BY <1>1, <2>2, <3>1 DEF IInv, Kept, RunRetained, RunAt
  <2>3. ASSUME NEW h \in summaries, NEW i \in DOMAIN h.fetches, Observed(h.fetches[i])
        PROVE  ContentOf(h.fetches[i]) \in artifacts
    <3>1. PICK s \in Scope : \E k \in DOMAIN runs[s] :
             s = h.scope /\ runs[s][k].fetches = h.fetches /\ runs[s][k].steps = Sources
      BY <1>1 DEF IInv, Bundled, OfRun
    <3>2. PICK k \in DOMAIN runs[s] : runs[s][k].fetches = h.fetches /\ runs[s][k].steps = Sources
      BY <3>1
    <3>3. /\ InOrder(runs[s][k]) /\ runs[s][k].fetches \in Seq(Fetch)
          /\ runs[s][k].prepares \in 0 .. Sources /\ Len(runs[s][k].fetches) \in Nat
      BY <2>1, RunTyped
    <3>4. i \in 1 .. Len(runs[s][k].fetches)
      BY <3>2, <3>3
    <3>5. ~ (i > runs[s][k].prepares)
      BY <3>2, <3>3, <3>4, AcquisitionConstants DEF InOrder
    <3> QED
      BY <1>1, <2>3, <3>2, <3>5 DEF IInv, Kept, RunRetained
  <2> QED
    BY <2>2, <2>3 DEF EvidenceIsRetained
<1> QED
  BY <1>1, Invariance, PTL

\* What is public is what a journal says, and the other way round.
THEOREM JournalsBacked == Spec => []JournalIsBacked
<1>1. ASSUME IInv PROVE JournalIsBacked
  <2>1. Typed
    BY <1>1 DEF IInv
  <2>2. ASSUME NEW r \in AllRuns
        PROVE  LET h == [scope |-> r[1], fetches |-> RunAt(r).fetches]
               IN  /\ PublicOf(r) \subseteq observations \cap comparisons
                   /\ RunAt(r).done => /\ RunAt(r).steps = Sources
                                       /\ h \in summaries
                                       /\ [of |-> h, at |-> Complete] \in bundles
    <3>1. r[1] \in Scope /\ r[2] \in DOMAIN runs[r[1]] /\ RunAt(r) = runs[r[1]][r[2]]
      BY <2>1, AllRunsAre DEF RunAt
    <3>2. InOrder(RunAt(r))
      BY <2>1, <3>1, RunTyped
    <3>3. RunPublic(r[1], RunAt(r)) /\ RunDone(r[1], RunAt(r))
      BY <1>1, <3>1 DEF IInv, Public, Bundled
    <3> QED
      BY <3>2, <3>3 DEF RunPublic, RunDone, PublicOf, InOrder
  <2>3. ASSUME NEW o \in observations \cup comparisons
        PROVE  \E r \in AllRuns : r[1] = o.scope /\ o.source \in DOMAIN RunAt(r).fetches
                                  /\ RunAt(r).fetches[o.source] = o.fetch
    <3>1. PICK s \in Scope : \E i \in DOMAIN runs[s] :
             /\ s = o.scope /\ o.source \in DOMAIN runs[s][i].fetches
             /\ runs[s][i].fetches[o.source] = o.fetch
      BY <1>1 DEF IInv, Public, InRun
    <3>2. PICK i \in DOMAIN runs[s] :
             /\ s = o.scope /\ o.source \in DOMAIN runs[s][i].fetches
             /\ runs[s][i].fetches[o.source] = o.fetch
      BY <3>1
    <3>3. <<s, i>> \in AllRuns /\ RunAt(<<s, i>>) = runs[s][i] /\ <<s, i>>[1] = s
      BY <2>1, AllRunsAre
    <3> QED
      BY <3>2, <3>3
  <2>4. ASSUME NEW h \in summaries
        PROVE  \E r \in AllRuns : r[1] = h.scope /\ RunAt(r).fetches = h.fetches
                                  /\ RunAt(r).steps = Sources
    <3>1. PICK s \in Scope : \E i \in DOMAIN runs[s] :
             s = h.scope /\ runs[s][i].fetches = h.fetches /\ runs[s][i].steps = Sources
      BY <1>1 DEF IInv, Bundled, OfRun
    <3>2. PICK i \in DOMAIN runs[s] :
             s = h.scope /\ runs[s][i].fetches = h.fetches /\ runs[s][i].steps = Sources
      BY <3>1
    <3>3. <<s, i>> \in AllRuns /\ RunAt(<<s, i>>) = runs[s][i] /\ <<s, i>>[1] = s
      BY <2>1, AllRunsAre
    <3> QED
      BY <3>2, <3>3
  <2> QED
    BY <2>2, <2>3, <2>4 DEF JournalIsBacked
<1> QED
  BY <1>1, Invariance, PTL

\* At most one run is open, whatever scopes and however often it died.
THEOREM OneRunOpen == Spec => []OneOpenRun
<1>1. ASSUME Typed PROVE OneOpenRun
  <2> DEFINE Open == {r \in AllRuns : ~ RunAt(r).done}
  <2>1. ASSUME NEW r \in Open, NEW q \in Open PROVE r = q
    <3>1. /\ r \in Scope \X (1 .. MaxRuns) /\ q \in Scope \X (1 .. MaxRuns)
          /\ r = <<r[1], r[2]>> /\ q = <<q[1], q[2]>>
      BY DEF AllRuns
    <3>2. /\ r[1] \in Scope /\ r[2] \in DOMAIN runs[r[1]] /\ ~ runs[r[1]][r[2]].done
          /\ q[1] \in Scope /\ q[2] \in DOMAIN runs[q[1]] /\ ~ runs[q[1]][q[2]].done
      BY <1>1, AllRunsAre DEF RunAt
    <3>3. /\ IsOpen(r[1]) /\ r[2] = Len(runs[r[1]])
          /\ IsOpen(q[1]) /\ q[2] = Len(runs[q[1]])
      BY <1>1, <3>2, OthersAreDone
    <3>4. r[1] = q[1]
      BY <1>1, <3>2, <3>3 DEF Typed, Journals
    <3> QED
      BY <3>1, <3>3, <3>4
  <2>2. Cardinality(Open) <= 1
    <3>1. CASE Open = {}
      BY <3>1, FS_EmptySet
    <3>2. CASE Open # {}
      <4>1. PICK r : Open = {r}
        BY <2>1, <3>2
      <4>2. Cardinality({r}) = 1
        BY FS_Singleton
      <4> QED
        BY <4>1, <4>2
    <3> QED
      BY <3>1, <3>2
  <2> QED
    BY <2>2 DEF OneOpenRun
<1> QED
  BY <1>1, TypesHold, PTL

\* A summary puts together observations that were once current together.
THEOREM SummariesCoherent == Spec => []SummaryIsCoherent
<1>1. ASSUME IInv PROVE SummaryIsCoherent
  <2> SUFFICES ASSUME NEW h \in summaries, NEW i \in DOMAIN h.fetches, NEW j \in DOMAIN h.fetches
               PROVE  h.fetches[i].at - h.fetches[j].at <= MaxAge
    BY DEF SummaryIsCoherent
  <2>1. PICK s \in Scope : \E k \in DOMAIN runs[s] : runs[s][k].fetches = h.fetches
    BY <1>1 DEF IInv, Bundled, OfRun
  <2>2. PICK k \in DOMAIN runs[s] : runs[s][k].fetches = h.fetches
    BY <2>1
  <2> QED
    BY <1>1, <2>2 DEF IInv, Coherent, RunCoherent
<1> QED
  BY <1>1, Invariance, PTL

=============================================================================
