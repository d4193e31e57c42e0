--------------------------- MODULE PromotionProofs ---------------------------
(***************************************************************************)
(* What Promotion promises for any number of candidates, authorizations,   *)
(* files, crashes and recoveries.  Everything rests on one inductive       *)
(* invariant, IInv, in three layers: the state is typed and the operation  *)
(* in progress is bound to its authorization (Typed); every durable write  *)
(* leaves the evidence the later ones rely on (Backed); each generation    *)
(* was derived from exactly the generations before it (Lineage).           *)
(***************************************************************************)
EXTENDS Promotion, TLAPS

-----------------------------------------------------------------------------
(* Types. *)

\* The operation in progress works for a proposal; a prepare has its file, an
\* apply or rollback an authorization that binds the proposal.
OperationBinds ==
    /\ op.step # "idle" => op.prop \in Proposal
    /\ op.step = "propose" => op.file \in File
    /\ op.step \in ExecuteSteps => op.auth \in Auth /\ issued[op.auth] = op.prop

\* The type invariant, with what makes it inductive.
Typed == TypeOK /\ OperationBinds

\* A fresh checkout is typed.
THEOREM InitTyped == Init => Typed
  <1> SUFFICES ASSUME Init PROVE Typed
    OBVIOUS
  <1>1. op \in Operation /\ op.step = "idle"
    BY DEF Init, Idle, Operation
  <1>2. staging \in [Auth -> Stage]
    BY DEF Init, NoStage, Stage
  <1>3. /\ reviews \in [Candidate -> Seq(Decisions)] /\ gens \in Seq(Generation)
        /\ audit \in Seq(AuditEvent) /\ recovery \in [Auth -> Seq(Phases)]
    BY DEF Init
  <1>4. sourceHead \in SourceHead /\ now \in Nat /\ genDir \in BOOLEAN
    BY ConstantsAssumption DEF Init
  <1>5. /\ proposals \in [File -> Proposal \cup {None}]
        /\ rollbacks \in SUBSET Proposal
        /\ issued \in [Auth -> Proposal \cup {None}]
        /\ issuedAt \in [Auth -> Nat]
        /\ consumed \in [Auth -> ConsumptionStates]
        /\ retained \in SUBSET Auth /\ transactions \in [Auth -> Nat \cup {None}]
    BY DEF Init, ConsumptionStates
  <1> QED
    BY <1>1, <1>2, <1>3, <1>4, <1>5 DEF Typed, TypeOK, OperationBinds, ExecuteSteps

\* What appending to a sequence does.
LEMMA Appending ==
    ASSUME NEW S, NEW s \in Seq(S), NEW e \in S
    PROVE  /\ Append(s, e) \in Seq(S)
           /\ Len(s) \in Nat /\ DOMAIN s = 1 .. Len(s)
           /\ Len(Append(s, e)) = Len(s) + 1 /\ DOMAIN Append(s, e) = 1 .. Len(s) + 1
           /\ \A i \in DOMAIN s : Append(s, e)[i] = s[i]
           /\ Append(s, e)[Len(s) + 1] = e
  OBVIOUS

\* An event made of typed parts may be appended to the audit log.
LEMMA EventTyped ==
    ASSUME TypeOK, NEW t \in EventTypes, NEW p \in Proposal, NEW a \in Auth \cup {None}
    PROVE  Append(audit, Event(t, p, a)) \in Seq(AuditEvent)
  BY DEF TypeOK, Event, AuditEvent

\* Recording a phase keeps the recovery log typed.
LEMMA PhaseTyped ==
    ASSUME TypeOK, NEW a \in Auth, NEW phase \in Phases
    PROVE  WithPhase(a, phase) \in [Auth -> Seq(Phases)]
  BY DEF TypeOK, WithPhase

\* Going on with an operation changes its step and nothing else of it.
LEMMA GotoTyped ==
    ASSUME op \in Operation, NEW step \in Steps, Goto(step)
    PROVE  op' \in Operation /\ op'.step = step /\ op'.prop = op.prop
           /\ op'.auth = op.auth /\ op'.seen = op.seen /\ op'.created = op.created
  BY DEF Operation, Goto

\* No operation is an operation.
LEMMA IdleTyped == Idle \in Operation /\ Idle.step = "idle"
  BY DEF Idle, Operation

\* An admitted operation begins at "retain", for its proposal and authorization.
LEMMA BeginTyped ==
    ASSUME Typed, NEW p \in Proposal, NEW a \in Auth, Begin(p, a)
    PROVE  op' \in Operation /\ op'.step = "retain" /\ op'.prop = p /\ op'.auth = a
  <1> DEFINE o == [step |-> "retain", prop |-> p, file |-> None, auth |-> a,
                   created |-> 0, seen |-> Published(p)]
  <1>1. op' = o
    BY DEF Begin, Idle
  <1>2. o.seen \in BOOLEAN
    BY DEF Published
  <1> QED
    BY <1>1, <1>2 DEF Operation, Steps, ExecuteSteps

\* What apply_promotion and rollback_promotion do before their first write
\* keeps the state typed.
LEMMA AdmissionTyped ==
    ASSUME Typed, NEW p \in Proposal, NEW a \in Auth, Apply(p, a) \/ Rollback(p, a)
    PROVE  Typed'
  <1>1. CASE UNCHANGED op
    <2>1. \/ audit' = audit
          \/ audit' = Append(audit, Event("apply_rejected", p, None))
          \/ audit' = Append(audit, Event("rollback_rejected", p, None))
      BY <1>1 DEF Apply, Rollback
    <2>2. audit \in Seq(AuditEvent)
      BY DEF Typed, TypeOK
    <2>3. audit' \in Seq(AuditEvent)
      BY <2>1, <2>2, EventTyped DEF EventTypes, Typed
    <2> QED
      BY <1>1, <2>3 DEF Apply, Rollback, Typed, TypeOK, OperationBinds, env, inputs, brain, evidence
  <1>2. CASE Begin(p, a) /\ UNCHANGED audit /\ Authorized(p, a)
    BY <1>2, BeginTyped DEF Apply, Rollback, Typed, TypeOK, OperationBinds, env, inputs, brain,
       evidence, Authorized, ExecuteSteps
  <1> QED
    BY <1>1, <1>2 DEF Apply, Rollback, ApplyAdmitted, RollbackAdmitted

\* Every step keeps the state typed and the operation bound.
THEOREM StepTyped == Typed /\ [Next]_vars => Typed'
  <1> SUFFICES ASSUME Typed, [Next]_vars PROVE Typed'
    OBVIOUS
  <1> USE DEF Typed, TypeOK, OperationBinds, env, inputs, brain, evidence
  <1>0. CASE UNCHANGED vars
    BY <1>0 DEF vars
  <1>1. CASE Tick
    BY <1>1 DEF Tick
  <1>2. ASSUME NEW h \in SourceHead, Checkout(h) PROVE Typed'
    BY <1>2 DEF Checkout
  <1>3. ASSUME NEW c \in Candidate, NEW d \in Decisions, AppendReview(c, d) PROVE Typed'
    BY <1>3 DEF AppendReview
  <1>4. ASSUME NEW a \in Auth, NEW p \in Proposal \cup {None}, Authorize(a, p) PROVE Typed'
    BY <1>4 DEF Authorize, Idle, ExecuteSteps
  <1>5. ASSUME NEW c \in Candidate, NEW f \in File, PreparePromotion(c, f) PROVE Typed'
    <2> DEFINE p == [op |-> "apply", prior |-> BrainInventory, prepared |-> now,
                     source |-> sourceHead,
                     pid |-> [cand |-> c, head |-> ReviewHead(c), inv |-> BrainInventory]]
    <2>1. p \in Proposal
      BY DEF Proposal, PromotionId, Inventory, BrainInventory, ReviewHead
    <2>2. audit' \in Seq(AuditEvent)
      BY <1>5, <2>1, EventTyped DEF PreparePromotion, EventTypes
    <2>3. op' \in Operation /\ op'.step = "propose" /\ op'.prop = p /\ op'.file = f
      <3>1. op' = [Idle EXCEPT !.step = "propose", !.prop = p, !.file = f]
        BY <1>5 DEF PreparePromotion
      <3> HIDE DEF p
      <3> QED
        BY <2>1, <3>1 DEF Operation, Idle, Steps, PrepareSteps
    <2> QED
      BY <1>5, <2>1, <2>2, <2>3 DEF PreparePromotion, ExecuteSteps
  <1>6. CASE WriteProposal
    <2>1. op.prop \in Proposal /\ op.file \in File
      BY <1>6 DEF WriteProposal
    <2>2. audit' \in Seq(AuditEvent)
      <3>1. audit' = audit \/ audit' = Append(audit, Event("prepare_rejected", op.prop, None))
        BY <1>6 DEF WriteProposal
      <3>2. Append(audit, Event("prepare_rejected", op.prop, None)) \in Seq(AuditEvent)
        BY <2>1, EventTyped DEF EventTypes
      <3> QED
        BY <3>1, <3>2
    <2>3. op' = Idle \/ Goto("prepared")
      BY <1>6 DEF WriteProposal, Goto
    <2>4. /\ op' \in Operation /\ op'.step \in {"idle", "prepared"}
          /\ op'.step = "prepared" => op'.prop = op.prop
      <3>1. CASE op' = Idle
        BY <3>1, IdleTyped
      <3>2. CASE Goto("prepared")
        BY <3>2, GotoTyped DEF Steps, PrepareSteps
      <3> QED
        BY <2>3, <3>1, <3>2
    <2>5. proposals' \in [File -> Proposal \cup {None}]
      BY <1>6, <2>1 DEF WriteProposal
    <2> QED
      BY <1>6, <2>1, <2>2, <2>4, <2>5 DEF WriteProposal, ExecuteSteps
  <1>7. CASE AuditPrepared
    <2>1. op.prop \in Proposal
      BY <1>7 DEF AuditPrepared
    <2>2. audit' \in Seq(AuditEvent)
      BY <1>7, <2>1, EventTyped DEF AuditPrepared, EventTypes
    <2> QED
      BY <1>7, <2>2 DEF AuditPrepared, Idle, Operation, ExecuteSteps
  <1>8. ASSUME NEW p \in Proposal, NEW a \in Auth, PrepareRollback(p, a) PROVE Typed'
    <2> DEFINE r == [op |-> "rollback", pid |-> p.pid, prior |-> BrainInventory,
                     prepared |-> now, source |-> p.source]
    <2>1. r \in Proposal
      BY DEF Proposal, Inventory, BrainInventory
    <2>2. op' \in Operation /\ op'.step = "rollback_prepared" /\ op'.prop = r
      BY <1>8, <2>1 DEF PrepareRollback, Operation, Idle, Steps, PrepareSteps
    <2> QED
      BY <1>8, <2>1, <2>2 DEF PrepareRollback, ExecuteSteps
  <1>9. ASSUME NEW f \in File, NEW a \in Auth, ApplyPromotion(f, a) PROVE Typed'
    BY <1>9, AdmissionTyped DEF ApplyPromotion
  <1>10. ASSUME NEW a \in Auth, RollbackPromotion(a) PROVE Typed'
    BY <1>10, AdmissionTyped DEF RollbackPromotion
  <1>11. CASE RetainAuthorization
    BY <1>11, GotoTyped DEF RetainAuthorization, Steps, ExecuteSteps
  <1>12. CASE ReserveAuthorization
    <2>1. op' = Idle \/ Goto("intent")
      BY <1>12 DEF ReserveAuthorization
    <2>2. consumed' \in [Auth -> ConsumptionStates]
      BY <1>12 DEF ReserveAuthorization, ConsumptionStates
    <2> QED
      BY <1>12, <2>1, <2>2, GotoTyped, IdleTyped DEF ReserveAuthorization, Steps, ExecuteSteps
  <1>13. CASE RecordIntent
    <2>1. op.auth \in Auth /\ recovery' \in [Auth -> Seq(Phases)]
      BY <1>13, PhaseTyped DEF RecordIntent, ExecuteSteps, Phases
    <2>2. \/ op' = Idle
          \/ \E step \in {"stage", "staged"} : op' = [op EXCEPT !.step = step, !.created = now]
      BY <1>13 DEF RecordIntent
    <2>3. /\ op' \in Operation
          /\ op'.step \in {"idle", "stage", "staged"}
          /\ op'.step # "idle" => op'.auth = op.auth /\ op'.prop = op.prop
      <3>1. CASE op' = Idle
        BY <3>1, IdleTyped
      <3>2. ASSUME NEW step \in {"stage", "staged"},
                   op' = [op EXCEPT !.step = step, !.created = now]
            PROVE  op' \in Operation /\ op'.step = step /\ op'.auth = op.auth /\ op'.prop = op.prop
        BY <3>2 DEF Operation, Steps, ExecuteSteps
      <3> QED
        BY <2>2, <3>1, <3>2
    <2> QED
      BY <1>13, <2>1, <2>3 DEF RecordIntent, ExecuteSteps
  <1>14. CASE StageEntry
    <2>1. staging' \in [Auth -> Stage]
      <3>1. op.auth \in Auth /\ op.created \in Nat
        BY <1>14 DEF StageEntry, ExecuteSteps, Operation
      <3>2. [state |-> "partial", created |-> op.created] \in Stage
        BY <3>1 DEF Stage
      <3> QED
        BY <1>14, <3>1, <3>2 DEF StageEntry
    <2> QED
      BY <1>14, <2>1, GotoTyped DEF StageEntry, Steps, ExecuteSteps
  <1>15. CASE StageManifest
    <2>1. staging' \in [Auth -> Stage]
      <3>1. op.auth \in Auth /\ [staging[op.auth] EXCEPT !.state = "ready"] \in Stage
        BY <1>15 DEF StageManifest, ExecuteSteps, Stage
      <3> QED
        BY <1>15, <3>1 DEF StageManifest
    <2> QED
      BY <1>15, <2>1, GotoTyped DEF StageManifest, Steps, ExecuteSteps
  <1>16. CASE RecordStaged
    <2>1. recovery' \in [Auth -> Seq(Phases)]
      BY <1>16, PhaseTyped DEF RecordStaged, ExecuteSteps, Phases
    <2>2. Goto("mkdir") \/ Goto("publish")
      BY <1>16 DEF RecordStaged
    <2> QED
      BY <1>16, <2>1, <2>2, GotoTyped DEF RecordStaged, Steps, ExecuteSteps
  <1>17. CASE MakeGenerations
    BY <1>17, GotoTyped DEF MakeGenerations, Steps, ExecuteSteps
  <1>18. CASE PublishGeneration
    <2>1. op.auth \in Auth /\ op.prop \in Proposal /\ op.created \in Nat
      BY <1>18 DEF PublishGeneration, ExecuteSteps, Operation
    <2>2. gens' \in Seq(Generation)
      <3> DEFINE g == [prop |-> op.prop, auth |-> op.auth, created |-> op.created]
      <3>1. g \in Generation
        BY <2>1 DEF Generation
      <3>2. gens' = gens \/ gens' = Append(gens, g)
        BY <1>18 DEF PublishGeneration
      <3>3. Append(gens, g) \in Seq(Generation)
        BY <3>1
      <3> HIDE DEF g
      <3> QED
        BY <3>2, <3>3
    <2>3. staging' \in [Auth -> Stage]
      <3>1. staging' = staging \/ staging' = [staging EXCEPT ![op.auth] = NoStage]
        BY <1>18 DEF PublishGeneration
      <3>2. NoStage \in Stage
        BY DEF NoStage, Stage
      <3> QED
        BY <2>1, <3>1, <3>2
    <2>4. op' = Idle \/ Goto("published")
      BY <1>18 DEF PublishGeneration
    <2> QED
      BY <1>18, <2>1, <2>2, <2>3, <2>4, GotoTyped, IdleTyped DEF PublishGeneration, Steps, ExecuteSteps
  <1>19. CASE RecordPublished
    <2>1. op' = Idle \/ Goto("committed") \/ Goto("started")
      BY <1>19 DEF RecordPublished
    <2>2. recovery' \in [Auth -> Seq(Phases)]
      BY <1>19, PhaseTyped DEF RecordPublished, ExecuteSteps, Phases
    <2> QED
      BY <1>19, <2>1, <2>2, GotoTyped, IdleTyped DEF RecordPublished, Steps, ExecuteSteps
  <1>20. ASSUME NEW t \in {"rollback_started", "apply_committed", "rollback_committed"},
                NEW step \in {"committed", "consume"},
                op.step \in {"started", "committed"}, AuditOnce(t, step)
         PROVE  Typed'
    <2>1. op.prop \in Proposal /\ op.auth \in Auth
      BY <1>20 DEF ExecuteSteps
    <2>2. audit' = audit \/ audit' = Append(audit, Event(t, op.prop, op.auth))
      BY <1>20 DEF AuditOnce
    <2>3. audit' \in Seq(AuditEvent)
      <3>1. t \in EventTypes /\ op.auth \in Auth \cup {None}
        BY <2>1 DEF EventTypes
      <3>2. Append(audit, Event(t, op.prop, op.auth)) \in Seq(AuditEvent)
        BY <2>1, <3>1, EventTyped
      <3> QED
        BY <2>2, <3>2
    <2>4. op' = Idle \/ Goto(step)
      BY <1>20 DEF AuditOnce
    <2> QED
      BY <1>20, <2>1, <2>3, <2>4, GotoTyped, IdleTyped DEF AuditOnce, Steps, ExecuteSteps
  <1>21. CASE CommitConsumption
    BY <1>21, GotoTyped DEF CommitConsumption, Steps, ExecuteSteps, ConsumptionStates
  <1>22. CASE WriteTransaction
    <2>1. op.auth \in Auth /\ op.created \in Nat
      BY <1>22 DEF WriteTransaction, ExecuteSteps, Operation
    <2>2. transactions' \in [Auth -> Nat \cup {None}]
      BY <1>22, <2>1 DEF WriteTransaction
    <2> QED
      BY <1>22, <2>2, GotoTyped DEF WriteTransaction, Steps, ExecuteSteps
  <1>23. CASE RecordTerminal
    BY <1>23, PhaseTyped DEF RecordTerminal, Idle, Operation, ExecuteSteps, Phases
  <1>24. CASE Crash
    BY <1>24 DEF Crash, Idle, Operation, ExecuteSteps
  <1>25. ASSUME NEW a \in Auth, RecoverIntent(a) \/ RecoverTerminal(a) PROVE Typed'
    BY <1>25, PhaseTyped DEF RecoverIntent, RecoverTerminal, Phases, ExecuteSteps
  <1>26. ASSUME NEW a \in Auth, RecoverResume(a) PROVE Typed'
    <2>1. \E p \in Proposal : Apply(p, a) \/ Rollback(p, a)
      BY <1>26 DEF RecoverResume, Apply
    <2> QED
      BY <2>1, AdmissionTyped
  <1> QED
    BY <1>0, <1>1, <1>2, <1>3, <1>4, <1>5, <1>6, <1>7, <1>8, <1>9, <1>10, <1>11, <1>12, <1>13,
       <1>14, <1>15, <1>16, <1>17, <1>18, <1>19, <1>20, <1>21, <1>22, <1>23, <1>24, <1>25, <1>26
       DEF Next, Execute, Recover, AuditRollbackStarted, AuditCommitted

-----------------------------------------------------------------------------
(* What the steps of an operation leave behind them. *)

AfterIntent == ExecuteSteps \ {"retain", "reserve", "intent"}
AfterStaged == AfterIntent \ {"stage", "manifest", "staged"}

\* The evidence the operation in progress has written so far, by its next step.
StepsLeaveEvidence ==
    /\ op.step \in ExecuteSteps \ {"retain"} => op.auth \in retained
    /\ op.step \in ExecuteSteps \ {"retain", "reserve"} => consumed[op.auth] # "none"
    /\ op.step \in AfterIntent => HasPhase(op.auth, "authorized")
    /\ op.step \in AfterStaged => HasPhase(op.auth, "staged")
    /\ op.step = "terminal" => op.auth \in Transacted

\* An identity and a nonce are consumed by one authorization.
OneHolder ==
    \A a, b \in Auth :
        /\ consumed[a] # "none" /\ consumed[b] # "none"
        /\ AuthId[a] = AuthId[b] \/ Nonce[a] = Nonce[b]
        => a = b

\* A terminal phase is recorded after the transaction file, never before.
TerminalIsTransacted == \A a \in Auth : HasPhase(a, "terminal") => a \in Transacted

\* A published generation has the reservation, the retained authorization and
\* the recovery phases that were written before it.
GenerationsAreBacked ==
    \A i \in DOMAIN gens :
        LET a == gens[i].auth
        IN  /\ issued[a] = gens[i].prop
            /\ consumed[a] # "none" /\ a \in retained
            /\ HasPhase(a, "authorized") /\ HasPhase(a, "staged")

Backed == StepsLeaveEvidence /\ OneHolder /\ TerminalIsTransacted /\ GenerationsAreBacked

\* The parts of a generation are typed.
LEMMA GenerationTyped ==
    ASSUME TypeOK, NEW i \in DOMAIN gens
    PROVE  /\ gens[i] \in Generation /\ gens[i].auth \in Auth /\ gens[i].prop \in Proposal
           /\ i \in 1 .. Len(gens)
  <1>1. gens[i] \in Generation /\ i \in 1 .. Len(gens)
    BY DEF TypeOK
  <1> QED
    BY <1>1 DEF Generation

\* Recording a phase adds that phase to that transaction, and loses none.
LEMMA PhasesGrow ==
    ASSUME TypeOK, NEW a \in Auth, NEW phase \in Phases, recovery' = WithPhase(a, phase)
    PROVE  /\ HasPhase(a, phase)'
           /\ \A b \in Auth, q \in Phases : HasPhase(b, q) => HasPhase(b, q)'
           /\ \A b \in Auth, q \in Phases : HasPhase(b, q)' => HasPhase(b, q) \/ (b = a /\ q = phase)
  <1>1. CASE HasPhase(a, phase)
    BY <1>1 DEF WithPhase, HasPhase
  <1>2. CASE ~HasPhase(a, phase)
    <2>1. recovery' = [recovery EXCEPT ![a] = Append(recovery[a], phase)]
      BY <1>2 DEF WithPhase
    <2>2. /\ recovery'[a] = Append(recovery[a], phase)
          /\ recovery[a] \in Seq(Phases)
          /\ \A b \in Auth : b # a => recovery'[b] = recovery[b]
      BY <2>1 DEF TypeOK
    <2>3. /\ Len(recovery'[a]) = Len(recovery[a]) + 1
          /\ recovery'[a][Len(recovery[a]) + 1] = phase
          /\ \A i \in DOMAIN recovery[a] : recovery'[a][i] = recovery[a][i]
          /\ DOMAIN recovery'[a] = 1 .. Len(recovery[a]) + 1
          /\ DOMAIN recovery[a] = 1 .. Len(recovery[a])
          /\ Len(recovery[a]) \in Nat
      BY <2>2, Appending
    <2>4. HasPhase(a, phase)'
      <3>1. Len(recovery[a]) + 1 \in DOMAIN recovery'[a]
        BY <2>3
      <3> QED
        BY <2>3, <3>1 DEF HasPhase
    <2>5. ASSUME NEW b \in Auth, NEW q \in Phases, HasPhase(b, q) PROVE HasPhase(b, q)'
      <3>1. CASE b # a
        BY <2>2, <2>5, <3>1 DEF HasPhase
      <3>2. CASE b = a
        <4>1. PICK i \in DOMAIN recovery[a] : recovery[a][i] = q
          BY <2>5, <3>2 DEF HasPhase
        <4>2. i \in DOMAIN recovery'[a] /\ recovery'[a][i] = q
          BY <2>3, <4>1
        <4> QED
          BY <3>2, <4>2 DEF HasPhase
      <3> QED
        BY <3>1, <3>2
    <2>6. ASSUME NEW b \in Auth, NEW q \in Phases, HasPhase(b, q)', ~(b = a /\ q = phase)
          PROVE  HasPhase(b, q)
      <3>1. CASE b # a
        BY <2>2, <2>6, <3>1 DEF HasPhase
      <3>2. CASE b = a
        <4>1. PICK i \in DOMAIN recovery'[a] : recovery'[a][i] = q
          BY <2>6, <3>2 DEF HasPhase
        <4>2. i \in DOMAIN recovery[a]
          BY <2>3, <2>6, <3>2, <4>1
        <4> QED
          BY <2>3, <3>2, <4>1, <4>2 DEF HasPhase
      <3> QED
        BY <3>1, <3>2
    <2> QED
      BY <2>4, <2>5, <2>6
  <1> QED
    BY <1>1, <1>2

\* Evidence only grows: nothing of GenerationsAreBacked is lost while the brain
\* and the authorizations stay as they are.
LEMMA EvidenceStays ==
    ASSUME Typed, GenerationsAreBacked, UNCHANGED <<gens, issued>>,
           retained \subseteq retained',
           \A a \in Auth : consumed[a] # "none" => consumed'[a] # "none",
           \A b \in Auth, q \in Phases : HasPhase(b, q) => HasPhase(b, q)'
    PROVE  GenerationsAreBacked'
  <1> SUFFICES ASSUME NEW i \in DOMAIN gens
               PROVE  /\ issued[gens[i].auth] = gens[i].prop
                      /\ consumed'[gens[i].auth] # "none" /\ gens[i].auth \in retained'
                      /\ HasPhase(gens[i].auth, "authorized")' /\ HasPhase(gens[i].auth, "staged")'
    BY DEF GenerationsAreBacked
  <1>1. gens[i].auth \in Auth
    BY GenerationTyped DEF Typed
  <1>2. PICK a \in Auth : a = gens[i].auth
    BY <1>1
  <1>3. /\ issued[a] = gens[i].prop /\ consumed[a] # "none" /\ a \in retained
        /\ HasPhase(a, "authorized") /\ HasPhase(a, "staged")
    BY <1>2 DEF GenerationsAreBacked
  <1>4. HasPhase(a, "authorized")' /\ HasPhase(a, "staged")'
    BY <1>3 DEF Phases
  <1>5. gens'[i].auth = a
    BY <1>2
  <1> QED
    BY <1>2, <1>3, <1>4, <1>5 DEF HasPhase

\* A step that writes none of the evidence, and does not go on with an
\* operation, keeps the evidence.
LEMMA QuietBacked ==
    ASSUME Typed, Backed,
           UNCHANGED <<gens, issued, consumed, retained, recovery, transactions>>,
           op' = op \/ op'.step \in PrepareSteps \cup {"idle", "retain"}
    PROVE  Backed'
  <1>1. OneHolder' /\ TerminalIsTransacted' /\ GenerationsAreBacked'
    BY DEF Transacted, Backed, OneHolder, TerminalIsTransacted, GenerationsAreBacked, HasPhase
  <1>2. StepsLeaveEvidence'
    <2>1. CASE op' = op
      BY <2>1 DEF Transacted, Backed, StepsLeaveEvidence, HasPhase
    <2>2. CASE op'.step \in PrepareSteps \cup {"idle", "retain"}
      BY <2>2 DEF StepsLeaveEvidence, AfterIntent, AfterStaged, PrepareSteps, ExecuteSteps
    <2> QED
      BY <2>1, <2>2
  <1> QED
    BY <1>1, <1>2 DEF Backed

\* A step of an operation that writes none of the evidence keeps it.
LEMMA OnwardBacked ==
    ASSUME Typed, Backed, NEW step \in Steps, Goto(step),
           UNCHANGED <<gens, issued, consumed, retained, recovery, transactions>>,
           op.step \in ExecuteSteps \ {"retain", "reserve"},
           step \in AfterIntent => op.step \in AfterIntent,
           step \in AfterStaged => op.step \in AfterStaged,
           step # "terminal"
    PROVE  Backed'
  <1>1. OneHolder' /\ TerminalIsTransacted' /\ GenerationsAreBacked'
    BY DEF Transacted, Backed, OneHolder, TerminalIsTransacted, GenerationsAreBacked, HasPhase
  <1>2. op'.step = step /\ op'.auth = op.auth
    BY GotoTyped DEF Typed, TypeOK
  <1>3. StepsLeaveEvidence'
    BY <1>2 DEF Backed, StepsLeaveEvidence, HasPhase
  <1> QED
    BY <1>1, <1>3 DEF Backed

\* A step that records a recovery phase and nothing else keeps the evidence.
LEMMA RecordBacked ==
    ASSUME Typed, Backed, NEW a \in Auth, NEW phase \in Phases,
           recovery' = WithPhase(a, phase),
           phase = "terminal" => a \in Transacted,
           UNCHANGED <<gens, issued, consumed, retained, transactions>>
    PROVE  /\ OneHolder' /\ TerminalIsTransacted' /\ GenerationsAreBacked'
           /\ op' = op => StepsLeaveEvidence'
  <1>1. /\ HasPhase(a, phase)'
        /\ \A b \in Auth, q \in Phases : HasPhase(b, q) => HasPhase(b, q)'
        /\ \A b \in Auth, q \in Phases : HasPhase(b, q)' => HasPhase(b, q) \/ (b = a /\ q = phase)
    BY PhasesGrow DEF Typed
  <1>2. OneHolder'
    BY DEF Backed, OneHolder
  <1>3. TerminalIsTransacted'
    BY <1>1 DEF Transacted, Backed, TerminalIsTransacted, Phases
  <1>4. GenerationsAreBacked'
    BY <1>1, EvidenceStays DEF Backed
  <1>5. ASSUME op' = op PROVE StepsLeaveEvidence'
    <2>1. op.step \in ExecuteSteps => op.auth \in Auth
      BY DEF Typed, OperationBinds
    <2>2. op.step \in AfterIntent => HasPhase(op.auth, "authorized")'
      <3> SUFFICES ASSUME op.step \in AfterIntent PROVE HasPhase(op.auth, "authorized")'
        OBVIOUS
      <3>1. PICK b \in Auth : b = op.auth
        BY <2>1 DEF AfterIntent
      <3>2. HasPhase(b, "authorized")'
        BY <1>1, <3>1 DEF Backed, StepsLeaveEvidence, Phases
      <3> QED
        BY <1>5, <3>1, <3>2 DEF HasPhase
    <2>3. op.step \in AfterStaged => HasPhase(op.auth, "staged")'
      <3> SUFFICES ASSUME op.step \in AfterStaged PROVE HasPhase(op.auth, "staged")'
        OBVIOUS
      <3>1. PICK b \in Auth : b = op.auth
        BY <2>1 DEF AfterIntent, AfterStaged
      <3>2. HasPhase(b, "staged")'
        BY <1>1, <3>1 DEF Backed, StepsLeaveEvidence, Phases
      <3> QED
        BY <1>5, <3>1, <3>2 DEF HasPhase
    <2> QED
      BY <1>5, <2>2, <2>3 DEF Transacted, Backed, StepsLeaveEvidence
  <1> QED
    BY <1>2, <1>3, <1>4, <1>5

\* Admission writes no evidence: it begins at "retain", or refuses.
LEMMA AdmissionIsQuiet ==
    ASSUME Typed, NEW p \in Proposal, NEW a \in Auth, Apply(p, a) \/ Rollback(p, a)
    PROVE  /\ op' = op \/ op'.step = "retain"
           /\ UNCHANGED <<env, brain, proposals, rollbacks, inputs, evidence>>
  BY BeginTyped DEF Apply, Rollback

\* A step of an operation that records a phase and goes on keeps the evidence.
LEMMA RecordOnward ==
    ASSUME Typed, Backed, NEW step \in AfterIntent \ {"terminal"}, NEW phase \in Phases \ {"terminal"},
           op.step \in ExecuteSteps \ {"retain", "reserve"},
           recovery' = WithPhase(op.auth, phase),
           op' = Idle \/ (op'.step = step /\ op'.auth = op.auth),
           op.step \in AfterIntent \/ phase = "authorized",
           step \in AfterStaged => op.step \in AfterStaged \/ phase = "staged",
           UNCHANGED <<gens, issued, consumed, retained, transactions>>
    PROVE  Backed'
  <1>1. PICK a \in Auth : a = op.auth
    BY DEF Typed, OperationBinds
  <1>2. OneHolder' /\ TerminalIsTransacted' /\ GenerationsAreBacked'
    BY <1>1, RecordBacked
  <1>3. /\ HasPhase(a, phase)'
        /\ \A q \in Phases : HasPhase(a, q) => HasPhase(a, q)'
    BY <1>1, PhasesGrow DEF Typed
  <1>4. /\ a \in retained' /\ consumed'[a] # "none"
        /\ HasPhase(a, "authorized")'
        /\ step \in AfterStaged => HasPhase(a, "staged")'
    BY <1>1, <1>3 DEF Backed, StepsLeaveEvidence, Phases
  <1>5. StepsLeaveEvidence'
    <2>1. CASE op' = Idle
      BY <2>1 DEF Idle, StepsLeaveEvidence, AfterIntent, AfterStaged, ExecuteSteps
    <2>2. CASE op'.step = step /\ op'.auth = a
      BY <1>4, <2>2 DEF StepsLeaveEvidence, HasPhase
    <2> QED
      BY <1>1, <2>1, <2>2
  <1> QED
    BY <1>2, <1>5 DEF Backed

\* Every step leaves the evidence that the later steps and recovery rely on.
THEOREM StepBacked == Typed /\ Backed /\ [Next]_vars => Backed'
  <1> SUFFICES ASSUME Typed, Backed, [Next]_vars PROVE Backed'
    OBVIOUS
  <1> USE DEF env, inputs, brain, evidence
  <1>1. CASE UNCHANGED vars \/ Tick
    BY <1>1, QuietBacked DEF vars, Tick
  <1>2. ASSUME NEW h \in SourceHead, Checkout(h) PROVE Backed'
    BY <1>2, QuietBacked DEF Checkout
  <1>3. ASSUME NEW c \in Candidate, NEW d \in Decisions, AppendReview(c, d) PROVE Backed'
    BY <1>3, QuietBacked DEF AppendReview
  <1>4. ASSUME NEW a \in Auth, NEW p \in Proposal \cup {None}, Authorize(a, p) PROVE Backed'
    <2>1. GenerationsAreBacked'
      <3> SUFFICES ASSUME NEW i \in DOMAIN gens PROVE issued'[gens[i].auth] = gens[i].prop
        BY <1>4 DEF Authorize, Backed, GenerationsAreBacked, HasPhase
      <3>1. gens[i].auth \in Auth /\ gens[i].prop # None
        BY GenerationTyped, NoneIsNoValue DEF Typed
      <3>2. gens[i].auth # a
        BY <1>4, <3>1 DEF Authorize, Backed, GenerationsAreBacked
      <3> QED
        BY <1>4, <3>1, <3>2 DEF Authorize, Backed, GenerationsAreBacked, Typed, TypeOK
    <2>2. OneHolder' /\ TerminalIsTransacted' /\ StepsLeaveEvidence'
      BY <1>4 DEF Transacted, Authorize, Backed, OneHolder, TerminalIsTransacted, StepsLeaveEvidence, HasPhase
    <2> QED
      BY <2>1, <2>2 DEF Backed
  <1>5. ASSUME NEW c \in Candidate, NEW f \in File, PreparePromotion(c, f) PROVE Backed'
    <2>1. op'.step = "propose"
      BY <1>5 DEF PreparePromotion, Idle
    <2> QED
      BY <1>5, <2>1, QuietBacked DEF PreparePromotion, PrepareSteps
  <1>6. CASE WriteProposal
    <2>1. op'.step \in {"idle", "prepared"}
      BY <1>6, IdleTyped DEF WriteProposal, Typed, TypeOK, Operation
    <2> QED
      BY <1>6, <2>1, QuietBacked DEF WriteProposal, PrepareSteps
  <1>7. CASE AuditPrepared \/ Crash
    BY <1>7, QuietBacked, IdleTyped DEF AuditPrepared, Crash
  <1>8. ASSUME NEW p \in Proposal, NEW a \in Auth, PrepareRollback(p, a) PROVE Backed'
    <2>1. op'.step = "rollback_prepared"
      BY <1>8 DEF PrepareRollback, Idle
    <2> QED
      BY <1>8, <2>1, QuietBacked DEF PrepareRollback, PrepareSteps
  <1>9. ASSUME NEW p \in Proposal, NEW a \in Auth, Apply(p, a) \/ Rollback(p, a) PROVE Backed'
    BY <1>9, AdmissionIsQuiet, QuietBacked
  <1>10. CASE RetainAuthorization
    <2>1. op'.step = "reserve" /\ op'.auth = op.auth
      BY <1>10, GotoTyped DEF RetainAuthorization, Steps, ExecuteSteps, Typed, TypeOK
    <2>2. GenerationsAreBacked'
      BY <1>10, EvidenceStays DEF RetainAuthorization, Backed, HasPhase
    <2>3. StepsLeaveEvidence'
      BY <1>10, <2>1 DEF RetainAuthorization, StepsLeaveEvidence, AfterIntent, AfterStaged
    <2> QED
      BY <1>10, <2>2, <2>3 DEF Transacted, RetainAuthorization, Backed, OneHolder, TerminalIsTransacted, HasPhase
  <1>11. CASE ReserveAuthorization
    <2>1. op.auth \in Auth
      BY <1>11 DEF ReserveAuthorization, Typed, OperationBinds, ExecuteSteps
    <2>2. CASE consumed[op.auth] # "none" \/ Rivals(op.auth) # {}
      <3>1. op' = Idle \/ (op'.step = "intent" /\ op'.auth = op.auth /\ consumed[op.auth] # "none")
        BY <1>11, <2>2, GotoTyped DEF ReserveAuthorization, Steps, ExecuteSteps, Typed, TypeOK
      <3>2. UNCHANGED <<gens, issued, consumed, retained, recovery, transactions>>
        BY <1>11, <2>2 DEF ReserveAuthorization
      <3>3. OneHolder' /\ TerminalIsTransacted' /\ GenerationsAreBacked'
        BY <3>2 DEF Transacted, Backed, OneHolder, TerminalIsTransacted, GenerationsAreBacked, HasPhase
      <3>4. StepsLeaveEvidence'
        BY <1>11, <3>1, <3>2 DEF ReserveAuthorization, Idle, Backed, StepsLeaveEvidence, AfterIntent,
           AfterStaged, ExecuteSteps
      <3> QED
        BY <3>3, <3>4 DEF Backed
    <2>3. CASE consumed[op.auth] = "none" /\ Rivals(op.auth) = {}
      <3>1. /\ consumed' = [consumed EXCEPT ![op.auth] = "reserved"]
            /\ UNCHANGED <<gens, issued, retained, recovery, transactions>>
        BY <1>11, <2>3 DEF ReserveAuthorization
      <3>2. op'.step = "intent" /\ op'.auth = op.auth
        BY <1>11, <2>3, GotoTyped DEF ReserveAuthorization, Steps, ExecuteSteps, Typed, TypeOK
      <3>3. /\ consumed'[op.auth] = "reserved"
            /\ \A b \in Auth : b # op.auth => consumed'[b] = consumed[b]
        BY <2>1, <3>1 DEF Typed, TypeOK
      <3>4. OneHolder'
        BY <2>1, <2>3, <3>3 DEF Backed, OneHolder, Rivals
      <3>5. GenerationsAreBacked'
        BY <2>1, <3>1, <3>3, EvidenceStays DEF Backed, HasPhase
      <3>6. StepsLeaveEvidence'
        BY <1>11, <3>1, <3>2, <3>3 DEF ReserveAuthorization, Backed, StepsLeaveEvidence, AfterIntent,
           AfterStaged, ExecuteSteps
      <3> QED
        BY <3>1, <3>4, <3>5, <3>6 DEF Transacted, Backed, TerminalIsTransacted, HasPhase
    <2> QED
      BY <2>2, <2>3
  <1>12. CASE RecordIntent
    <2>1. \E step \in {"stage", "staged"} : op' = Idle \/ (op'.step = step /\ op'.auth = op.auth)
      BY <1>12 DEF RecordIntent, Typed, TypeOK, Operation
    <2> QED
      BY <1>12, <2>1, RecordOnward DEF RecordIntent, Phases, AfterIntent, AfterStaged, ExecuteSteps
  <1>13. CASE StageEntry
    BY <1>13, OnwardBacked DEF StageEntry, Steps, ExecuteSteps, AfterIntent, AfterStaged
  <1>14. CASE StageManifest
    BY <1>14, OnwardBacked DEF StageManifest, Steps, ExecuteSteps, AfterIntent, AfterStaged
  <1>15. CASE RecordStaged
    <2>1. \E step \in {"mkdir", "publish"} : op'.step = step /\ op'.auth = op.auth
      BY <1>15, GotoTyped DEF RecordStaged, Steps, ExecuteSteps, Typed, TypeOK
    <2> QED
      BY <1>15, <2>1, RecordOnward DEF RecordStaged, Phases, AfterIntent, AfterStaged, ExecuteSteps
  <1>16. CASE MakeGenerations
    BY <1>16, OnwardBacked DEF MakeGenerations, Steps, ExecuteSteps, AfterIntent, AfterStaged
  <1>17. CASE PublishGeneration
    <2>1. op.auth \in Auth /\ issued[op.auth] = op.prop
      BY <1>17 DEF PublishGeneration, Typed, OperationBinds, ExecuteSteps
    <2>2. op' = Idle \/ (op'.step = "published" /\ op'.auth = op.auth)
      BY <1>17, GotoTyped DEF PublishGeneration, Steps, ExecuteSteps, Typed, TypeOK
    <2>3. UNCHANGED <<issued, consumed, retained, recovery, transactions>>
      BY <1>17 DEF PublishGeneration
    <2>4. StepsLeaveEvidence'
      BY <1>17, <2>2, <2>3 DEF PublishGeneration, Idle, Backed, StepsLeaveEvidence, AfterIntent,
         AfterStaged, ExecuteSteps, HasPhase
    <2>5. GenerationsAreBacked'
      <3>1. CASE gens' = gens
        BY <2>3, <3>1 DEF Backed, GenerationsAreBacked, HasPhase
      <3>2. CASE gens' = Append(gens, [prop |-> op.prop, auth |-> op.auth, created |-> op.created])
        <4>1. /\ consumed[op.auth] # "none" /\ op.auth \in retained
              /\ HasPhase(op.auth, "authorized") /\ HasPhase(op.auth, "staged")
          BY <1>17 DEF PublishGeneration, Backed, StepsLeaveEvidence, AfterIntent, AfterStaged,
             ExecuteSteps
        <4> SUFFICES ASSUME NEW i \in DOMAIN gens'
                     PROVE  /\ issued[gens'[i].auth] = gens'[i].prop
                            /\ consumed[gens'[i].auth] # "none" /\ gens'[i].auth \in retained
                            /\ HasPhase(gens'[i].auth, "authorized")
                            /\ HasPhase(gens'[i].auth, "staged")
          BY <2>3 DEF GenerationsAreBacked, HasPhase
        <4>2. CASE i \in DOMAIN gens
          <5>1. gens'[i] = gens[i]
            BY <3>2, <4>2 DEF Typed, TypeOK
          <5> QED
            BY <4>2, <5>1 DEF Backed, GenerationsAreBacked
        <4>3. CASE i \notin DOMAIN gens
          <5>1. gens \in Seq(Generation)
            BY DEF Typed, TypeOK
          <5>2. gens'[i] = [prop |-> op.prop, auth |-> op.auth, created |-> op.created]
            BY <3>2, <4>3, <5>1
          <5> QED
            BY <2>1, <4>1, <5>2
        <4> QED
          BY <4>2, <4>3
      <3> QED
        BY <1>17, <3>1, <3>2 DEF PublishGeneration
    <2> QED
      BY <2>3, <2>4, <2>5 DEF Transacted, Backed, OneHolder, TerminalIsTransacted, HasPhase
  <1>18. CASE RecordPublished
    <2>1. CASE op' = Idle /\ UNCHANGED recovery
      BY <1>18, <2>1, QuietBacked, IdleTyped DEF RecordPublished
    <2>2. CASE /\ recovery' = WithPhase(op.auth, "generation_published")
               /\ Goto(IF op.prop.op = "apply" THEN "committed" ELSE "started")
      <3>1. \E step \in {"committed", "started"} : op'.step = step /\ op'.auth = op.auth
        BY <2>2, GotoTyped DEF Steps, ExecuteSteps, Typed, TypeOK
      <3> QED
        BY <1>18, <2>2, <3>1, RecordOnward DEF RecordPublished, Phases, AfterIntent, AfterStaged, ExecuteSteps
    <2> QED
      BY <1>18, <2>1, <2>2 DEF RecordPublished
  <1>19. ASSUME NEW t, NEW step \in {"committed", "consume"},
                op.step \in {"started", "committed"}, AuditOnce(t, step)
         PROVE  Backed'
    <2>1. op' = Idle \/ Goto(step)
      BY <1>19 DEF AuditOnce
    <2>2. CASE op' = Idle
      BY <1>19, <2>2, QuietBacked, IdleTyped DEF AuditOnce
    <2>3. CASE Goto(step)
      BY <1>19, <2>3, OnwardBacked DEF AuditOnce, Steps, ExecuteSteps, AfterIntent, AfterStaged
    <2> QED
      BY <2>1, <2>2, <2>3
  <1>20. CASE CommitConsumption
    <2>1. op'.step = "transaction" /\ op'.auth = op.auth
      BY <1>20, GotoTyped DEF CommitConsumption, Steps, ExecuteSteps, Typed, TypeOK
    <2>2. \A b \in Auth : consumed'[b] # "none" <=> consumed[b] # "none"
      BY <1>20 DEF CommitConsumption, Typed, TypeOK, Backed, StepsLeaveEvidence, ExecuteSteps
    <2>3. GenerationsAreBacked'
      BY <1>20, <2>2, EvidenceStays DEF CommitConsumption, Backed, HasPhase
    <2>4. op.auth \in Auth
      BY <1>20 DEF CommitConsumption, Typed, OperationBinds, ExecuteSteps
    <2>5. StepsLeaveEvidence'
      BY <1>20, <2>1, <2>2, <2>4 DEF CommitConsumption, Backed, StepsLeaveEvidence, AfterIntent,
         AfterStaged, ExecuteSteps, HasPhase
    <2> QED
      BY <1>20, <2>2, <2>3, <2>5 DEF Transacted, CommitConsumption, Backed, OneHolder, TerminalIsTransacted, HasPhase
  <1>21. CASE WriteTransaction
    <2>1. op'.step = "terminal" /\ op'.auth = op.auth
      BY <1>21, GotoTyped DEF WriteTransaction, Steps, ExecuteSteps, Typed, TypeOK
    <2>2. /\ op.auth \in Auth /\ op.created # None
          /\ transactions' = [transactions EXCEPT ![op.auth] = op.created]
          /\ DOMAIN transactions = Auth
      BY <1>21, NoneIsNoValue DEF WriteTransaction, Typed, TypeOK, Operation, OperationBinds, ExecuteSteps
    <2>3. Transacted' = Transacted \cup {op.auth}
      BY <2>2 DEF Transacted
    <2>4. StepsLeaveEvidence'
      BY <1>21, <2>1, <2>3 DEF WriteTransaction, Backed, StepsLeaveEvidence, AfterIntent,
         AfterStaged, ExecuteSteps, HasPhase
    <2> QED
      BY <1>21, <2>3, <2>4 DEF WriteTransaction, Backed, OneHolder, TerminalIsTransacted, GenerationsAreBacked, HasPhase
  <1>22. CASE RecordTerminal
    <2>1. op.auth \in Transacted /\ op.auth \in Auth
      BY <1>22 DEF RecordTerminal, Backed, StepsLeaveEvidence, Typed, OperationBinds, ExecuteSteps
    <2>2. OneHolder' /\ TerminalIsTransacted' /\ GenerationsAreBacked'
      BY <1>22, <2>1, RecordBacked DEF RecordTerminal, Phases
    <2>3. StepsLeaveEvidence'
      BY <1>22 DEF RecordTerminal, Idle, StepsLeaveEvidence, AfterIntent, AfterStaged, ExecuteSteps
    <2> QED
      BY <2>2, <2>3 DEF Backed
  <1>23. ASSUME NEW a \in Auth, RecoverIntent(a) \/ RecoverTerminal(a) PROVE Backed'
    BY <1>23, RecordBacked DEF RecoverIntent, RecoverTerminal, Phases, Backed
  <1>24. ASSUME NEW a \in Auth, RecoverResume(a) PROVE Backed'
    <2>1. \E p \in Proposal : Apply(p, a) \/ Rollback(p, a)
      BY <1>24 DEF RecoverResume, Apply, Typed, TypeOK
    <2> QED
      BY <1>9, <2>1
  <1>25. ASSUME NEW a \in Auth, NEW f \in File, ApplyPromotion(f, a) PROVE Backed'
    BY <1>9, <1>25 DEF ApplyPromotion, Typed, TypeOK
  <1>26. ASSUME NEW a \in Auth, RollbackPromotion(a) PROVE Backed'
    BY <1>9, <1>26 DEF RollbackPromotion, Typed, TypeOK
  <1>27. ASSUME NEW f \in File, NEW a \in Auth, proposals[f] # None, PrepareRollback(proposals[f], a)
         PROVE  Backed'
    BY <1>8, <1>27 DEF Typed, TypeOK
  <1>28. ASSUME NEW a \in Auth, \/ \E f \in File : Authorize(a, proposals[f])
                                \/ \E r \in rollbacks : Authorize(a, r)
         PROVE  Backed'
    BY <1>4, <1>28 DEF Typed, TypeOK
  <1> QED
    BY <1>1, <1>2, <1>3, <1>4, <1>5, <1>6, <1>7, <1>8, <1>10, <1>11, <1>12, <1>13, <1>14, <1>15,
       <1>16, <1>17, <1>18, <1>19, <1>20, <1>21, <1>22, <1>23, <1>24, <1>25, <1>26, <1>27, <1>28
       DEF Next, Execute, Recover, AuditRollbackStarted, AuditCommitted

-----------------------------------------------------------------------------
(* A brain is a lineage. *)

BeforePublished == {"retain", "reserve", "intent", "stage", "manifest", "staged",
                    "mkdir", "publish"}

\* Proposal files hold applies, and a rollback in progress is a retained one.
ProposalsKeepTheirKind ==
    /\ \A f \in File : proposals[f] # None => proposals[f].op = "apply"
    /\ op.step = "propose" => op.prop.op = "apply"
    /\ op.step \in ExecuteSteps /\ op.prop.op = "rollback" => op.prop \in rollbacks

\* A rollback proposal undoes the apply that was the latest generation.
RollbacksUndo ==
    \A r \in rollbacks :
        /\ r.op = "rollback"
        /\ r.prior.len \in DOMAIN gens
        /\ gens[r.prior.len].prop.op = "apply"
        /\ gens[r.prior.len].prop.pid = r.pid

\* A generation is the next of those before it; so is the one being made.
Succession ==
    /\ \A i \in DOMAIN gens :
          /\ gens[i].prop.prior.len = i - 1
          /\ gens[i].prop.op = "rollback" => gens[i].prop \in rollbacks
    /\ op.step \in BeforePublished /\ ~op.seen => op.prop.prior.len = Len(gens)

Lineage == ProposalsKeepTheirKind /\ RollbacksUndo /\ Succession

\* A step that leaves the brain and the proposals, and at most goes on with the
\* operation in progress, or ends it, keeps the lineage.
LEMMA QuietLineage ==
    ASSUME Typed, Lineage, UNCHANGED <<gens, rollbacks, proposals>>,
           \/ op' = op
           \/ op'.step \in {"idle", "prepared", "rollback_prepared"}
           \/ /\ op.step \in ExecuteSteps /\ op'.step \in ExecuteSteps
              /\ op'.prop = op.prop /\ op'.seen = op.seen
              /\ op'.step \in BeforePublished => op.step \in BeforePublished
    PROVE  Lineage'
  <1>1. RollbacksUndo'
    BY DEF Lineage, RollbacksUndo
  <1>2. CASE op' = op
    BY <1>1, <1>2 DEF Lineage, ProposalsKeepTheirKind, Succession
  <1>3. CASE op'.step \in {"idle", "prepared", "rollback_prepared"}
    BY <1>1, <1>3 DEF Lineage, ProposalsKeepTheirKind, Succession, ExecuteSteps, BeforePublished
  <1>4. CASE /\ op.step \in ExecuteSteps /\ op'.step \in ExecuteSteps
             /\ op'.prop = op.prop /\ op'.seen = op.seen
             /\ op'.step \in BeforePublished => op.step \in BeforePublished
    BY <1>1, <1>4 DEF Lineage, ProposalsKeepTheirKind, Succession, ExecuteSteps
  <1> QED
    BY <1>2, <1>3, <1>4

\* An admitted operation is derived from the brain as it is, unless it finds its
\* generation published already.
LEMMA AdmissionLineage ==
    ASSUME Typed, Lineage, NEW p \in Proposal, NEW a \in Auth,
           (Apply(p, a) /\ p.op = "apply") \/ (Rollback(p, a) /\ p \in rollbacks)
    PROVE  Lineage'
  <1>1. UNCHANGED <<gens, rollbacks, proposals>>
    BY DEF Apply, Rollback, brain
  <1>2. CASE op' = op
    BY <1>1, <1>2, QuietLineage
  <1>3. CASE Begin(p, a) /\ (Published(p) \/ BrainInventory = p.prior)
    <2>1. op'.step = "retain" /\ op'.prop = p /\ op'.seen = Published(p)
      BY <1>3 DEF Begin, Idle
    <2>2. op'.step \in BeforePublished /\ ~op'.seen => op'.prop.prior.len = Len(gens')
      BY <1>1, <1>3, <2>1 DEF BrainInventory
    <2> QED
      BY <1>1, <2>1, <2>2 DEF Lineage, ProposalsKeepTheirKind, RollbacksUndo, Succession
  <1> QED
    BY <1>2, <1>3 DEF Apply, Rollback, ApplyAdmitted, RollbackAdmitted

\* Every step keeps the lineage: the admission checks and the lock together.
THEOREM StepLineage == Typed /\ Backed /\ Lineage /\ [Next]_vars => Lineage'
  <1> SUFFICES ASSUME Typed, Backed, Lineage, [Next]_vars PROVE Lineage'
    OBVIOUS
  <1> USE DEF env, inputs, brain, evidence
  <1>1. CASE UNCHANGED vars \/ Tick
    BY <1>1, QuietLineage DEF vars, Tick
  <1>2. ASSUME NEW h \in SourceHead, Checkout(h) PROVE Lineage'
    BY <1>2, QuietLineage DEF Checkout
  <1>3. ASSUME NEW c \in Candidate, NEW d \in Decisions, AppendReview(c, d) PROVE Lineage'
    BY <1>3, QuietLineage DEF AppendReview
  <1>4. ASSUME NEW a \in Auth, NEW p, Authorize(a, p) PROVE Lineage'
    BY <1>4, QuietLineage DEF Authorize
  <1>5. ASSUME NEW c \in Candidate, NEW f \in File, PreparePromotion(c, f) PROVE Lineage'
    <2>1. op'.step = "propose" /\ op'.prop.op = "apply"
      BY <1>5 DEF PreparePromotion, Idle
    <2> QED
      BY <1>5, <2>1 DEF PreparePromotion, Lineage, ProposalsKeepTheirKind, RollbacksUndo, Succession,
         ExecuteSteps, BeforePublished
  <1>6. CASE WriteProposal
    <2>1. op'.step \in {"idle", "prepared"} /\ UNCHANGED <<gens, rollbacks>>
      BY <1>6, IdleTyped DEF WriteProposal, Typed, TypeOK, Operation
    <2>2. \A f \in File : proposals'[f] = proposals[f] \/ proposals'[f] = op.prop
      BY <1>6 DEF WriteProposal, Typed, TypeOK
    <2>3. op.prop.op = "apply"
      BY <1>6 DEF WriteProposal, Lineage, ProposalsKeepTheirKind
    <2> QED
      BY <2>1, <2>2, <2>3 DEF Lineage, ProposalsKeepTheirKind, RollbacksUndo, Succession,
         ExecuteSteps, BeforePublished
  <1>7. CASE AuditPrepared \/ Crash
    BY <1>7, QuietLineage, IdleTyped DEF AuditPrepared, Crash
  <1>8. ASSUME NEW f \in File, NEW a \in Auth, proposals[f] # None, PrepareRollback(proposals[f], a)
        PROVE  Lineage'
    <2> DEFINE p == proposals[f]
               r == [op |-> "rollback", pid |-> p.pid, prior |-> BrainInventory,
                     prepared |-> now, source |-> p.source]
               n == Len(gens)
    <2>1. /\ rollbacks' = rollbacks \cup {r} /\ op'.step = "rollback_prepared"
          /\ UNCHANGED <<gens, proposals>>
      BY <1>8 DEF PrepareRollback, Idle
    <2>2. n = p.prior.len + 1 /\ n \in DOMAIN gens /\ gens[n].auth = a /\ issued[a] = p
      BY <1>8 DEF PrepareRollback, InspectedCommitted, Published, Typed, TypeOK, Proposal, Inventory
    <2>3. gens[n].prop = p /\ p.op = "apply"
      BY <1>8, <2>2 DEF Backed, GenerationsAreBacked, Lineage, ProposalsKeepTheirKind
    <2>4. r.prior.len = n /\ r.op = "rollback" /\ r.pid = p.pid
      BY DEF BrainInventory
    <2>5. RollbacksUndo'
      BY <2>1, <2>2, <2>3, <2>4 DEF Lineage, RollbacksUndo
    <2> QED
      BY <2>1, <2>5 DEF Lineage, ProposalsKeepTheirKind, Succession, ExecuteSteps, BeforePublished
  <1>9. ASSUME NEW f \in File, NEW a \in Auth, proposals[f] # None, Apply(proposals[f], a)
        PROVE  Lineage'
    BY <1>9, AdmissionLineage DEF Typed, TypeOK, Lineage, ProposalsKeepTheirKind
  <1>10. ASSUME NEW r \in rollbacks, NEW a \in Auth, Rollback(r, a) PROVE Lineage'
    BY <1>10, AdmissionLineage DEF Typed, TypeOK
  <1>11. CASE RetainAuthorization
    BY <1>11, QuietLineage, GotoTyped DEF RetainAuthorization, Typed, TypeOK, Steps, ExecuteSteps, BeforePublished
  <1>12. CASE ReserveAuthorization
    <2>1. op' = Idle \/ Goto("intent")
      BY <1>12 DEF ReserveAuthorization
    <2> QED
      BY <1>12, <2>1, QuietLineage, GotoTyped, IdleTyped DEF ReserveAuthorization, Typed, TypeOK, Steps,
         ExecuteSteps, BeforePublished
  <1>13. CASE RecordIntent
    <2>1. \/ op' = Idle
          \/ op'.step \in {"stage", "staged"} /\ op'.prop = op.prop /\ op'.seen = op.seen
      BY <1>13 DEF RecordIntent, Typed, TypeOK, Operation
    <2> QED
      BY <1>13, <2>1, QuietLineage, IdleTyped DEF RecordIntent, ExecuteSteps, BeforePublished
  <1>14. CASE StageEntry
    BY <1>14, QuietLineage, GotoTyped DEF StageEntry, Typed, TypeOK, Steps, ExecuteSteps, BeforePublished
  <1>15. CASE StageManifest
    BY <1>15, QuietLineage, GotoTyped DEF StageManifest, Typed, TypeOK, Steps, ExecuteSteps, BeforePublished
  <1>16. CASE RecordStaged
    <2>1. Goto("mkdir") \/ Goto("publish")
      BY <1>16 DEF RecordStaged
    <2> QED
      BY <1>16, <2>1, QuietLineage, GotoTyped DEF RecordStaged, Typed, TypeOK, Steps, ExecuteSteps, BeforePublished
  <1>17. CASE MakeGenerations
    BY <1>17, QuietLineage, GotoTyped DEF MakeGenerations, Typed, TypeOK, Steps, ExecuteSteps, BeforePublished
  <1>18. CASE PublishGeneration
    <2>1. CASE gens' = gens
      <3>1. op' = Idle \/ Goto("published")
        BY <1>18 DEF PublishGeneration
      <3> QED
        BY <1>18, <2>1, <3>1, QuietLineage, GotoTyped, IdleTyped DEF PublishGeneration, Typed, TypeOK, Steps,
           ExecuteSteps, BeforePublished
    <2>2. CASE /\ gens' = Append(gens, [prop |-> op.prop, auth |-> op.auth, created |-> op.created])
               /\ ~op.seen /\ Goto("published")
      <3>1. /\ op.prop.prior.len = Len(gens)
            /\ op.prop.op = "rollback" => op.prop \in rollbacks
        BY <1>18, <2>2 DEF PublishGeneration, Lineage, ProposalsKeepTheirKind, Succession, ExecuteSteps,
           BeforePublished
      <3>2. /\ Len(gens) \in Nat
            /\ DOMAIN gens = 1 .. Len(gens) /\ DOMAIN gens' = 1 .. Len(gens) + 1
            /\ \A i \in DOMAIN gens : gens'[i] = gens[i]
            /\ gens'[Len(gens) + 1].prop = op.prop
        BY <2>2 DEF Typed, TypeOK
      <3>3. op'.step = "published" /\ op'.prop = op.prop
        BY <2>2, GotoTyped DEF Typed, TypeOK, Steps, ExecuteSteps
      <3>4. UNCHANGED <<rollbacks, proposals>>
        BY <1>18 DEF PublishGeneration
      <3>5. RollbacksUndo'
        BY <3>2, <3>4 DEF Lineage, RollbacksUndo
      <3>6. ProposalsKeepTheirKind'
        BY <3>1, <3>3, <3>4 DEF Lineage, ProposalsKeepTheirKind
      <3>7. ASSUME NEW i \in DOMAIN gens'
            PROVE  /\ gens'[i].prop.prior.len = i - 1
                   /\ gens'[i].prop.op = "rollback" => gens'[i].prop \in rollbacks
        <4>1. CASE i \in DOMAIN gens
          BY <3>2, <4>1 DEF Lineage, Succession
        <4>2. CASE i = Len(gens) + 1
          BY <3>1, <3>2, <4>2
        <4> QED
          BY <3>2, <4>1, <4>2
      <3> QED
        BY <3>3, <3>4, <3>5, <3>6, <3>7 DEF Lineage, Succession, BeforePublished
    <2> QED
      BY <1>18, <2>1, <2>2 DEF PublishGeneration
  <1>19. CASE RecordPublished
    <2>1. op' = Idle \/ Goto("committed") \/ Goto("started")
      BY <1>19 DEF RecordPublished
    <2> QED
      BY <1>19, <2>1, QuietLineage, GotoTyped, IdleTyped DEF RecordPublished, Typed, TypeOK, Steps,
         ExecuteSteps, BeforePublished
  <1>20. ASSUME NEW t, NEW step \in {"committed", "consume"},
                op.step \in {"started", "committed"}, AuditOnce(t, step)
         PROVE  Lineage'
    <2>1. op' = Idle \/ Goto(step)
      BY <1>20 DEF AuditOnce
    <2> QED
      BY <1>20, <2>1, QuietLineage, GotoTyped, IdleTyped DEF AuditOnce, Typed, TypeOK, Steps,
         ExecuteSteps, BeforePublished
  <1>21. CASE CommitConsumption
    BY <1>21, QuietLineage, GotoTyped DEF CommitConsumption, Typed, TypeOK, Steps, ExecuteSteps, BeforePublished
  <1>22. CASE WriteTransaction
    BY <1>22, QuietLineage, GotoTyped DEF WriteTransaction, Typed, TypeOK, Steps, ExecuteSteps, BeforePublished
  <1>23. CASE RecordTerminal
    BY <1>23, QuietLineage, IdleTyped DEF RecordTerminal
  <1>24. ASSUME NEW a \in Auth, RecoverIntent(a) \/ RecoverTerminal(a) PROVE Lineage'
    BY <1>24, QuietLineage DEF RecoverIntent, RecoverTerminal
  <1>25. ASSUME NEW a \in Auth, RecoverResume(a) PROVE Lineage'
    <2>1. CASE \E f \in File : proposals[f] # None /\ Apply(proposals[f], a)
      BY <1>9, <2>1
    <2>2. CASE \E r \in rollbacks : Rollback(r, a)
      BY <1>10, <2>2
    <2> QED
      BY <1>25, <2>1, <2>2 DEF RecoverResume
  <1>26. ASSUME NEW a \in Auth, NEW f \in File, ApplyPromotion(f, a) PROVE Lineage'
    BY <1>9, <1>26 DEF ApplyPromotion
  <1>27. ASSUME NEW a \in Auth, RollbackPromotion(a) PROVE Lineage'
    BY <1>10, <1>27 DEF RollbackPromotion
  <1> QED
    BY <1>1, <1>2, <1>3, <1>4, <1>5, <1>6, <1>7, <1>8, <1>11, <1>12, <1>13, <1>14, <1>15,
       <1>16, <1>17, <1>18, <1>19, <1>20, <1>21, <1>22, <1>23, <1>24, <1>25, <1>26, <1>27
       DEF Next, Execute, Recover, AuditRollbackStarted, AuditCommitted

-----------------------------------------------------------------------------
(* The theorems. *)

\* The inductive invariant.
IInv == Typed /\ Backed /\ Lineage

\* A fresh checkout satisfies the inductive invariant.
THEOREM InitInductive == Init => IInv
  <1> SUFFICES ASSUME Init PROVE IInv
    OBVIOUS
  <1>1. Typed
    BY InitTyped
  <1>2. Backed
    BY DEF Init, Backed, StepsLeaveEvidence, OneHolder, TerminalIsTransacted, GenerationsAreBacked,
       HasPhase, Idle, AfterIntent, AfterStaged, ExecuteSteps
  <1>3. Lineage
    BY DEF Init, Lineage, ProposalsKeepTheirKind, RollbacksUndo, Succession, Idle, ExecuteSteps,
       BeforePublished
  <1> QED
    BY <1>1, <1>2, <1>3 DEF IInv

\* Every step preserves the inductive invariant.
THEOREM StepInductive == IInv /\ [Next]_vars => IInv'
  BY StepTyped, StepBacked, StepLineage DEF IInv

\* The inductive invariant holds throughout every behaviour.
THEOREM Inductive == Spec => []IInv
  BY InitInductive, StepInductive, PTL DEF Spec

\* The files of a promotion root have the shape their schemas give them, after
\* any interleaving of operations, crashes and recoveries.
THEOREM TypeCorrect == Spec => []TypeOK
  <1>1. IInv => TypeOK
    BY DEF IInv, Typed
  <1> QED
    BY <1>1, Inductive, PTL

\* The generations on disk form a lineage: each names exactly the generations
\* before it, and a rollback restores what was before the apply it follows.
THEOREM BrainIsALineage == Spec => []BrainLineage
  <1>1. IInv => BrainLineage
    <2> SUFFICES ASSUME IInv, NEW i \in DOMAIN gens
                 PROVE  /\ gens[i].prop.prior.len = i - 1
                        /\ gens[i].prop.op = "rollback" =>
                              /\ i > 1
                              /\ gens[i - 1].prop.op = "apply"
                              /\ gens[i - 1].prop.pid = gens[i].prop.pid
      BY DEF BrainLineage
    <2>1. gens[i].prop.prior.len = i - 1
      BY DEF IInv, Lineage, Succession
    <2>2. ASSUME gens[i].prop.op = "rollback"
          PROVE  i - 1 \in DOMAIN gens /\ gens[i - 1].prop.op = "apply"
                 /\ gens[i - 1].prop.pid = gens[i].prop.pid
      BY <2>1, <2>2 DEF IInv, Lineage, Succession, RollbacksUndo
    <2>3. DOMAIN gens = 1 .. Len(gens) /\ Len(gens) \in Nat
      BY DEF IInv, Typed, TypeOK
    <2> QED
      BY <2>1, <2>2, <2>3
  <1> QED
    BY <1>1, Inductive, PTL

\* One authorization, by identity or by nonce, publishes at most one generation.
THEOREM AuthorizationsAreUsedOnce == Spec => []OneGenerationPerAuthorization
  <1>1. IInv => OneGenerationPerAuthorization
    <2> SUFFICES ASSUME IInv, NEW i \in DOMAIN gens, NEW j \in DOMAIN gens,
                        \/ AuthId[gens[i].auth] = AuthId[gens[j].auth]
                        \/ Nonce[gens[i].auth] = Nonce[gens[j].auth]
                 PROVE  i = j
      BY DEF OneGenerationPerAuthorization
    <2>1. /\ gens[i].auth \in Auth /\ gens[j].auth \in Auth
          /\ i \in 1 .. Len(gens) /\ j \in 1 .. Len(gens) /\ Len(gens) \in Nat
      BY GenerationTyped DEF IInv, Typed, TypeOK
    <2>2. gens[i].auth = gens[j].auth
      BY <2>1 DEF IInv, Backed, OneHolder, GenerationsAreBacked
    <2>3. gens[i].prop = gens[j].prop
      BY <2>2 DEF IInv, Backed, GenerationsAreBacked
    <2>4. gens[i].prop.prior.len = i - 1 /\ gens[j].prop.prior.len = j - 1
      BY DEF IInv, Lineage, Succession
    <2> QED
      BY <2>1, <2>3, <2>4
  <1> QED
    BY <1>1, Inductive, PTL

\* A published generation has its reservation, its retained authorization and
\* its recorded phases, and a transaction that is on disk or pending.
THEOREM GenerationsAreAccountedFor == Spec => []PublishedIsAccountedFor
  <1>1. IInv => PublishedIsAccountedFor
    <2> SUFFICES ASSUME IInv, NEW i \in DOMAIN gens, gens[i].auth \notin Transacted
                 PROVE  gens[i].auth \in Pending
      BY DEF IInv, Backed, GenerationsAreBacked, PublishedIsAccountedFor
    <2>1. PICK a \in Auth : a = gens[i].auth
      BY GenerationTyped DEF IInv, Typed
    <2>2. recovery[a] \in Seq(Phases) /\ recovery[a] # <<>>
      BY <2>1 DEF IInv, Backed, GenerationsAreBacked, HasPhase, Typed, TypeOK
    <2>3. Len(recovery[a]) \in DOMAIN recovery[a]
      BY <2>2
    <2>4. ~HasPhase(a, "terminal")
      BY <2>1 DEF IInv, Backed, TerminalIsTransacted
    <2> QED
      BY <2>1, <2>2, <2>3, <2>4 DEF HasPhase, Pending
  <1> QED
    BY <1>1, Inductive, PTL
=============================================================================
