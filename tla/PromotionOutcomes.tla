-------------------------- MODULE PromotionOutcomes --------------------------
(***************************************************************************)
(* What the outcome of a promotion is worth, for any number of candidates, *)
(* authorizations, files, crashes and recoveries: only what its review     *)
(* supports is published (Admitted), nothing enters the brain twice        *)
(* (NoEntryTwice), and what the audit log and the transactions say has     *)
(* happened (Witnessed).  The layers stand on IInv of PromotionProofs, and *)
(* that promotion implements CanonicalBrain stands on them.                *)
(***************************************************************************)
EXTENDS PromotionProofs

-----------------------------------------------------------------------------
(* A step is one of three kinds. *)

\* It is not one of an operation past its admission: the brain, the
\* consumption and the transactions stay, other records only grow.
Outside ==
    /\ UNCHANGED <<gens, consumed, transactions>>
    /\ op'.step \notin ExecuteSteps \/ UNCHANGED <<op, reviews, sourceHead>>
    /\ \A a \in Auth : issued[a] # None => issued'[a] = issued[a]
    /\ \A a \in Auth, q \in Phases : HasPhase(a, q) => HasPhase(a, q)'
    /\ \/ audit' = audit
       \/ \E t \in EventTypes \ Terminal, p \in Proposal : audit' = Append(audit, Event(t, p, None))

\* It admits p under authorization a.
Admission(p, a) ==
    /\ Begin(p, a)
    /\ Authorized(p, a)
    /\ p.op = "apply" => ApplyAdmitted(p, a)
    /\ UNCHANGED <<gens, consumed, transactions, issued, recovery, audit, reviews, sourceHead>>

\* What apply_promotion and rollback_promotion do before their first write is
\* an admission, or the audit of a refusal.
LEMMA AdmissionKinds ==
    ASSUME Typed, NEW p \in Proposal, NEW a \in Auth,
           Apply(p, a) \/ (Rollback(p, a) /\ p.op = "rollback")
    PROVE  Outside \/ Admission(p, a)
  <1> USE DEF env, inputs, brain, evidence
  <1>1. CASE UNCHANGED op
    <2>1. \/ audit' = audit
          \/ audit' = Append(audit, Event("apply_rejected", p, None))
          \/ audit' = Append(audit, Event("rollback_rejected", p, None))
      BY <1>1 DEF Apply, Rollback
    <2>2. {"apply_rejected", "rollback_rejected"} \subseteq EventTypes \ Terminal
      BY DEF EventTypes, Terminal
    <2> QED
      BY <1>1, <2>1, <2>2 DEF Apply, Rollback, Outside, HasPhase
  <1>2. CASE Begin(p, a) /\ ApplyAdmitted(p, a) /\ Apply(p, a) /\ UNCHANGED audit
    BY <1>2 DEF Apply, ApplyAdmitted, Admission
  <1>3. CASE Begin(p, a) /\ RollbackAdmitted(p, a) /\ Rollback(p, a) /\ p.op = "rollback" /\ UNCHANGED audit
    BY <1>3 DEF Rollback, RollbackAdmitted, Admission
  <1> QED
    BY <1>1, <1>2, <1>3 DEF Apply, Rollback

\* Every step is outside, an admission, or a write of an admitted operation.
LEMMA StepKinds ==
    ASSUME Typed, Lineage, [Next]_vars
    PROVE  Outside \/ Execute \/ \E p \in Proposal, a \in Auth : Admission(p, a)
  <1> USE DEF env, inputs, brain, evidence
  <1>1. CASE UNCHANGED vars \/ Tick
    BY <1>1 DEF vars, Tick, Outside, HasPhase
  <1>2. ASSUME op = Idle, UNCHANGED <<gens, consumed, transactions, issued, recovery, audit, op>>
        PROVE  Outside
    BY <1>2 DEF Outside, HasPhase, Idle, ExecuteSteps
  <1>3. ASSUME NEW a \in Auth, NEW p, Authorize(a, p) PROVE Outside
    BY <1>3 DEF Authorize, Outside, HasPhase, Typed, TypeOK
  <1>4. ASSUME NEW c \in Candidate, NEW f \in File, PreparePromotion(c, f) PROVE Outside
    <2> DEFINE p == [op |-> "apply", prior |-> BrainInventory, prepared |-> now,
                     source |-> sourceHead,
                     pid |-> [cand |-> c, head |-> ReviewHead(c), inv |-> BrainInventory]]
    <2>1. op'.step = "propose" /\ audit' = Append(audit, Event("prepare_started", p, None))
      BY <1>4 DEF PreparePromotion, Idle
    <2>2. p \in Proposal
      BY DEF Typed, TypeOK, Proposal, PromotionId, Inventory, BrainInventory, ReviewHead
    <2>3. "prepare_started" \in EventTypes \ Terminal /\ "propose" \notin ExecuteSteps
      BY DEF EventTypes, Terminal, ExecuteSteps
    <2> QED
      BY <1>4, <2>1, <2>2, <2>3 DEF PreparePromotion, Outside, HasPhase
  <1>5. CASE WriteProposal
    <2>1. op'.step \in {"idle", "prepared"}
      BY <1>5, IdleTyped DEF WriteProposal, Typed, TypeOK, Operation
    <2>2. audit' = audit \/ audit' = Append(audit, Event("prepare_rejected", op.prop, None))
      BY <1>5 DEF WriteProposal
    <2>3. op.prop \in Proposal
      BY <1>5 DEF WriteProposal, Typed, OperationBinds
    <2>4. "prepare_rejected" \in EventTypes \ Terminal /\ op'.step \notin ExecuteSteps
      BY <2>1 DEF EventTypes, Terminal, ExecuteSteps
    <2> QED
      BY <1>5, <2>2, <2>3, <2>4 DEF WriteProposal, Outside, HasPhase
  <1>6. CASE AuditPrepared
    <2>1. \E t \in {"prepare_succeeded", "rollback_prepared"} :
             audit' = audit \/ audit' = Append(audit, Event(t, op.prop, None))
      BY <1>6 DEF AuditPrepared
    <2>2. op.prop \in Proposal
      BY <1>6 DEF AuditPrepared, Typed, OperationBinds
    <2>3. /\ {"prepare_succeeded", "rollback_prepared"} \subseteq EventTypes \ Terminal
          /\ op'.step \notin ExecuteSteps
      BY <1>6, IdleTyped DEF AuditPrepared, EventTypes, Terminal, ExecuteSteps
    <2> QED
      BY <1>6, <2>1, <2>2, <2>3 DEF AuditPrepared, Outside, HasPhase
  <1>7. ASSUME NEW f \in File, NEW a \in Auth, PrepareRollback(proposals[f], a) PROVE Outside
    BY <1>7 DEF PrepareRollback, Outside, HasPhase, Idle, ExecuteSteps
  <1>8. CASE Crash
    BY <1>8, IdleTyped DEF Crash, Outside, HasPhase, ExecuteSteps
  <1>9. ASSUME NEW a \in Auth, RecoverIntent(a) \/ RecoverTerminal(a) PROVE Outside
    <2>1. \A b \in Auth, q \in Phases : HasPhase(b, q) => HasPhase(b, q)'
      BY <1>9, PhasesGrow DEF RecoverIntent, RecoverTerminal, Phases, Typed
    <2> QED
      BY <1>9, <2>1, IdleTyped DEF RecoverIntent, RecoverTerminal, Outside, ExecuteSteps
  <1>10. ASSUME NEW f \in File, NEW a \in Auth, proposals[f] # None, Apply(proposals[f], a)
         PROVE  Outside \/ \E p \in Proposal : Admission(p, a)
    BY <1>10, AdmissionKinds DEF Typed, TypeOK
  <1>11. ASSUME NEW r \in rollbacks, NEW a \in Auth, Rollback(r, a)
         PROVE  Outside \/ \E p \in Proposal : Admission(p, a)
    <2>1. r \in Proposal /\ r.op = "rollback"
      BY DEF Typed, TypeOK, Lineage, RollbacksUndo
    <2> QED
      BY <1>11, <2>1, AdmissionKinds
  <1>12. ASSUME NEW a \in Auth, RecoverResume(a)
         PROVE  Outside \/ \E p \in Proposal : Admission(p, a)
    <2>1. CASE \E f \in File : proposals[f] # None /\ Apply(proposals[f], a)
      BY <1>10, <2>1
    <2>2. CASE \E r \in rollbacks : Rollback(r, a)
      BY <1>11, <2>2
    <2> QED
      BY <1>12, <2>1, <2>2 DEF RecoverResume
  <1>13. ASSUME NEW h \in SourceHead, Checkout(h) PROVE Outside
    BY <1>2, <1>13 DEF Checkout
  <1>14. ASSUME NEW c \in Candidate, NEW d \in Decisions, AppendReview(c, d) PROVE Outside
    BY <1>2, <1>14 DEF AppendReview
  <1> QED
    BY <1>1, <1>3, <1>4, <1>5, <1>6, <1>7, <1>8, <1>9, <1>10, <1>11, <1>12, <1>13, <1>14
       DEF Next, Recover, ApplyPromotion, RollbackPromotion

\* A write of an operation keeps what the operation was admitted for, leads
\* forward, and changes the brain only as the rename.
LEMMA ExecuteGoesOn ==
    ASSUME Typed, Execute
    PROVE  /\ op.step \in ExecuteSteps
           /\ UNCHANGED <<reviews, sourceHead, issued>>
           /\ \/ op'.step = "idle"
              \/ /\ op'.step \in ExecuteSteps
                 /\ op'.prop = op.prop /\ op'.auth = op.auth /\ op'.seen = op.seen
                 /\ op'.step \in BeforePublished => op.step \in BeforePublished \ {"publish"}
           /\ PublishGeneration \/ gens' = gens
  <1> USE DEF env, inputs, brain, evidence
  <1>1. ASSUME NEW step \in ExecuteSteps, Goto(step)
        PROVE  /\ op'.step = step
               /\ op'.prop = op.prop /\ op'.auth = op.auth /\ op'.seen = op.seen
    BY <1>1, GotoTyped DEF Steps, Typed, TypeOK
  <1>2. CASE RetainAuthorization
    BY <1>1, <1>2 DEF RetainAuthorization, ExecuteSteps, BeforePublished
  <1>3. CASE ReserveAuthorization
    BY <1>1, <1>3, IdleTyped DEF ReserveAuthorization, ExecuteSteps, BeforePublished
  <1>4. CASE RecordIntent
    <2>1. \/ op' = Idle
          \/ /\ op'.step \in {"stage", "staged"} /\ op'.prop = op.prop /\ op'.seen = op.seen
             /\ op'.auth = op.auth
      BY <1>4 DEF RecordIntent, Typed, TypeOK, Operation
    <2> QED
      BY <1>4, <2>1, IdleTyped DEF RecordIntent, ExecuteSteps, BeforePublished
  <1>5. CASE StageEntry \/ StageManifest
    BY <1>1, <1>5 DEF StageEntry, StageManifest, ExecuteSteps, BeforePublished
  <1>6. CASE RecordStaged
    BY <1>1, <1>6 DEF RecordStaged, ExecuteSteps, BeforePublished
  <1>7. CASE MakeGenerations
    BY <1>1, <1>7 DEF MakeGenerations, ExecuteSteps, BeforePublished
  <1>8. CASE PublishGeneration
    BY <1>1, <1>8, IdleTyped DEF PublishGeneration, ExecuteSteps, BeforePublished
  <1>9. CASE RecordPublished
    BY <1>1, <1>9, IdleTyped DEF RecordPublished, ExecuteSteps, BeforePublished
  <1>10. ASSUME NEW t, NEW step \in {"committed", "consume"},
                op.step \in {"started", "committed"}, AuditOnce(t, step)
         PROVE  /\ UNCHANGED <<gens, reviews, sourceHead, issued>>
                /\ \/ op'.step = "idle"
                   \/ /\ op'.step = step
                      /\ op'.prop = op.prop /\ op'.auth = op.auth /\ op'.seen = op.seen
    BY <1>1, <1>10, IdleTyped DEF AuditOnce, ExecuteSteps
  <1>11. CASE AuditRollbackStarted \/ AuditCommitted
    BY <1>10, <1>11 DEF AuditRollbackStarted, AuditCommitted, ExecuteSteps, BeforePublished
  <1>12. CASE CommitConsumption \/ WriteTransaction
    BY <1>1, <1>12 DEF CommitConsumption, WriteTransaction, ExecuteSteps, BeforePublished
  <1>13. CASE RecordTerminal
    BY <1>13, IdleTyped DEF RecordTerminal, ExecuteSteps, BeforePublished
  <1> QED
    BY <1>2, <1>3, <1>4, <1>5, <1>6, <1>7, <1>8, <1>9, <1>11, <1>12, <1>13 DEF Execute

-----------------------------------------------------------------------------
(* What is published was admitted, and is new. *)

\* Until its generation is there, what the operation in progress was admitted
\* for holds: the lock keeps the review and the brain as they were checked.
Admitted ==
    op.step \in BeforePublished /\ ~op.seen =>
        /\ op.prop.source = sourceHead
        /\ op.prop.op = "apply" =>
              /\ Accepted(op.prop.pid.cand)
              /\ ReviewHead(op.prop.pid.cand) = op.prop.pid.head
              /\ ~Collides(op.prop.pid.cand)

\* Every step keeps what the operation was admitted for.
THEOREM StepAdmitted == Typed /\ Lineage /\ Admitted /\ [Next]_vars => Admitted'
  <1> SUFFICES ASSUME Typed, Lineage, Admitted, [Next]_vars PROVE Admitted'
    OBVIOUS
  <1>1. CASE Outside
    BY <1>1 DEF Outside, Admitted, Accepted, ReviewHead, Collides, EverAdded, BeforePublished, ExecuteSteps
  <1>2. CASE Execute
    <2> SUFFICES ASSUME op'.step \in BeforePublished PROVE Admitted'
      BY DEF Admitted
    <2>1. /\ op.step \in BeforePublished \ {"publish"} /\ UNCHANGED <<reviews, sourceHead>>
          /\ op'.prop = op.prop /\ op'.seen = op.seen
          /\ PublishGeneration \/ gens' = gens
      BY <1>2, ExecuteGoesOn DEF BeforePublished
    <2>2. gens' = gens
      BY <2>1 DEF PublishGeneration
    <2> QED
      BY <2>1, <2>2 DEF Admitted, Accepted, ReviewHead, Collides, EverAdded
  <1>3. ASSUME NEW p \in Proposal, NEW a \in Auth, Admission(p, a) PROVE Admitted'
    <2>1. op'.prop = p /\ op'.seen = Published(p)
      BY <1>3 DEF Admission, Begin, Idle
    <2> QED
      BY <1>3, <2>1 DEF Admission, Authorized, ApplyAdmitted, Admitted, Accepted, ReviewHead,
         Collides, EverAdded
  <1> QED
    BY <1>1, <1>2, <1>3, StepKinds

\* A published generation is the one the operation in progress appends.
LEMMA Appended ==
    ASSUME Typed, [Next]_vars, Lineage, gens' # gens
    PROVE  /\ op.step = "publish" /\ ~op.seen
           /\ gens' = Append(gens, [prop |-> op.prop, auth |-> op.auth, created |-> op.created])
           /\ Len(gens) \in Nat /\ DOMAIN gens = 1 .. Len(gens)
           /\ DOMAIN gens' = 1 .. Len(gens) + 1
           /\ \A i \in DOMAIN gens : gens'[i] = gens[i]
           /\ gens'[Len(gens) + 1].prop = op.prop
           /\ gens'[Len(gens) + 1].auth = op.auth
  <1>1. PublishGeneration
    BY StepKinds, ExecuteGoesOn DEF Outside, Admission
  <1>2. /\ op.step = "publish" /\ ~op.seen
        /\ gens' = Append(gens, [prop |-> op.prop, auth |-> op.auth, created |-> op.created])
    BY <1>1 DEF PublishGeneration
  <1> QED
    BY <1>2 DEF Typed, TypeOK

\* Every step keeps entries distinct: an apply was admitted without collision.
THEOREM StepAddsNew == Typed /\ Lineage /\ Admitted /\ NoEntryTwice /\ [Next]_vars => NoEntryTwice'
  <1> SUFFICES ASSUME Typed, Lineage, Admitted, NoEntryTwice, [Next]_vars PROVE NoEntryTwice'
    OBVIOUS
  <1>1. CASE gens' = gens
    BY <1>1 DEF NoEntryTwice
  <1>2. CASE gens' # gens
    <2> DEFINE n == Len(gens) + 1
               key(g) == SemanticKey[g.prop.pid.cand]
    <2>1. /\ op.step = "publish" /\ ~op.seen
          /\ n - 1 \in Nat /\ DOMAIN gens = 1 .. n - 1 /\ DOMAIN gens' = 1 .. n
          /\ \A i \in DOMAIN gens : gens'[i] = gens[i]
          /\ gens'[n].prop = op.prop
      BY <1>2, Appended
    <2>2. ASSUME NEW i \in DOMAIN gens, gens[i].prop.op = "apply", op.prop.op = "apply"
          PROVE  key(gens[i]) # key(gens'[n])
      <3>1. gens[i].prop.pid.cand \in EverAdded
        BY <2>2 DEF EverAdded
      <3>2. ~Collides(op.prop.pid.cand)
        BY <2>1, <2>2 DEF Admitted, BeforePublished
      <3> QED
        BY <2>1, <3>1, <3>2 DEF Collides
    <2> SUFFICES ASSUME NEW i \in DOMAIN gens', NEW j \in DOMAIN gens',
                        gens'[i].prop.op = "apply", gens'[j].prop.op = "apply",
                        key(gens'[i]) = key(gens'[j])
                 PROVE  i = j
      BY DEF NoEntryTwice
    <2>3. CASE i = n \/ j = n
      BY <2>1, <2>2, <2>3
    <2>4. CASE i # n /\ j # n
      <3>1. i \in DOMAIN gens /\ j \in DOMAIN gens
        BY <2>1, <2>4
      <3> QED
        BY <2>1, <3>1 DEF NoEntryTwice
    <2> QED
      BY <2>3, <2>4
  <1> QED
    BY <1>1, <1>2

-----------------------------------------------------------------------------
(* What the records say has happened. *)

CommittedType(p) == IF p.op = "apply" THEN "apply_committed" ELSE "rollback_committed"

AfterPublished == {"committed", "started", "consume", "transaction", "terminal"}
AfterCommitted == {"consume", "transaction", "terminal"}

\* What the operation in progress has brought about so far, by its next step.
StepsLeaveOutcome ==
    /\ op.step \in BeforePublished /\ op.seen => Published(op.prop)
    /\ op.step \in AfterPublished \cup {"published"} => Published(op.prop)
    /\ op.step \in AfterPublished =>
          /\ HasPhase(op.auth, "generation_published")
          /\ op.prop.op = "apply" => PublishedMatches
    /\ op.step \in AfterCommitted => Audited(CommittedType(op.prop), op.auth)
    /\ op.step \in {"transaction", "terminal"} => consumed[op.auth] = "committed"

\* What a transaction stands for.
Evidence(a) ==
    /\ consumed[a] = "committed"
    /\ HasPhase(a, "generation_published")
    /\ Published(issued[a])
    /\ issued[a].op = "apply" => NamesItsGeneration(a)
    /\ Audited(CommittedType(issued[a]), a)

\* A transaction on disk is of an authorization that was issued.
TransactionsAreIssued == \A a \in Transacted : issued[a] # None

\* The log and the transactions are true, and so is what the operation in
\* progress will put into them.
Witnessed == StepsLeaveOutcome /\ TransactionsAreIssued /\ TransactionIsBackedByEvidence /\ CommittedEventsAreTrue

\* A generation that is there stays the generation of its proposal.
LEMMA PublishedStays ==
    ASSUME Typed, NEW p \in Proposal, Published(p),
           Len(gens') \in Nat, Len(gens) <= Len(gens'), \A i \in DOMAIN gens : gens'[i] = gens[i]
    PROVE  Published(p)' /\ p.prior.len + 1 \in DOMAIN gens
  <1>1. p.prior.len \in Nat
    BY DEF Proposal, Inventory
  <1>2. p.prior.len + 1 \in DOMAIN gens /\ p.prior.len < Len(gens')
    BY <1>1 DEF Published, Typed, TypeOK
  <1> QED
    BY <1>2 DEF Published

\* An event that is in the log stays there when the log grows.
LEMMA AuditedStays ==
    ASSUME Typed, audit' = audit \/ \E e \in AuditEvent : audit' = Append(audit, e),
           NEW t, NEW a, Audited(t, a)
    PROVE  Audited(t, a)'
  <1>1. /\ DOMAIN audit \subseteq DOMAIN audit'
        /\ \A i \in DOMAIN audit : audit'[i] = audit[i]
    <2>1. audit \in Seq(AuditEvent)
      BY DEF Typed, TypeOK
    <2> QED
      BY <2>1, Appending
  <1> QED
    BY <1>1 DEF Audited

\* The log stays true when it grows by an event that commits nothing.
LEMMA UncommittedEvent ==
    ASSUME Typed, CommittedEventsAreTrue,
           Len(gens) <= Len(gens'), gens' \in Seq(Generation), \A i \in DOMAIN gens : gens'[i] = gens[i],
           audit' = audit \/ \E e \in AuditEvent : audit' = Append(audit, e) /\ e.type \notin Terminal
    PROVE  CommittedEventsAreTrue'
  <1>0. /\ audit \in Seq(AuditEvent) /\ DOMAIN audit = 1 .. Len(audit) /\ Len(audit) \in Nat
        /\ DOMAIN gens \subseteq DOMAIN gens'
    BY DEF Typed, TypeOK
  <1>1. /\ DOMAIN audit' \subseteq 1 .. Len(audit) + 1
        /\ \A i \in DOMAIN audit : audit'[i] = audit[i]
        /\ Len(audit) + 1 \in DOMAIN audit' => audit'[Len(audit) + 1].type \notin Terminal
    <2>1. CASE audit' = audit
      BY <1>0, <2>1
    <2>2. ASSUME NEW e \in AuditEvent, audit' = Append(audit, e), e.type \notin Terminal
          PROVE  <1>1!:
      <3>1. /\ DOMAIN audit' = 1 .. Len(audit) + 1 /\ audit'[Len(audit) + 1] = e
            /\ \A i \in DOMAIN audit : audit'[i] = audit[i]
        <4>1. /\ DOMAIN Append(audit, e) = 1 .. Len(audit) + 1 /\ Append(audit, e)[Len(audit) + 1] = e
              /\ \A i \in DOMAIN audit : Append(audit, e)[i] = audit[i]
          BY <1>0, Appending
        <4> QED
          BY <2>2, <4>1, Zenon
      <3> QED
        BY <2>2, <3>1
    <2> QED
      BY <2>1, <2>2
  <1>2. ASSUME NEW i \in DOMAIN audit', audit'[i].type \in Terminal PROVE i \in DOMAIN audit
    BY <1>0, <1>1, <1>2
  <1>3. ASSUME NEW i \in DOMAIN audit', audit'[i].type = "apply_committed"
        PROVE  \E k \in DOMAIN gens' : gens'[k].auth = audit'[i].txn /\ gens'[k].prop = audit'[i].prop
    <2>1. i \in DOMAIN audit
      BY <1>2, <1>3 DEF Terminal
    <2>2. PICK k \in DOMAIN gens : gens[k].auth = audit[i].txn /\ gens[k].prop = audit[i].prop
      BY <1>1, <1>3, <2>1 DEF CommittedEventsAreTrue
    <2> QED
      BY <1>0, <1>1, <2>1, <2>2
  <1>4. ASSUME NEW i \in DOMAIN audit', NEW j \in DOMAIN audit', audit'[i].type \in Terminal,
               audit'[j].type = audit'[i].type, audit'[j].txn = audit'[i].txn
        PROVE  i = j
    <2>1. i \in DOMAIN audit /\ j \in DOMAIN audit
      BY <1>2, <1>4
    <2> QED
      BY <1>1, <1>4, <2>1 DEF CommittedEventsAreTrue
  <1> QED
    BY <1>3, <1>4 DEF CommittedEventsAreTrue, Terminal

\* A transaction on disk keeps its evidence while records only grow.
LEMMA TransactionStays ==
    ASSUME Typed, TransactionIsBackedByEvidence, NEW a \in Transacted, NEW p \in Proposal,
           issued[a] = p, issued'[a] = p,
           transactions'[a] = transactions[a], consumed[a] = "committed" => consumed'[a] = "committed",
           HasPhase(a, "generation_published") => HasPhase(a, "generation_published")',
           Len(gens') \in Nat, Len(gens) <= Len(gens'), \A i \in DOMAIN gens : gens'[i] = gens[i],
           \A t \in Terminal : Audited(t, a) => Audited(t, a)'
    PROVE  Evidence(a)'
  <1>2. /\ consumed[a] = "committed" /\ HasPhase(a, "generation_published") /\ Published(p)
        /\ p.op = "apply" => NamesItsGeneration(a)
        /\ Audited(CommittedType(p), a)
    BY DEF TransactionIsBackedByEvidence, CommittedType
  <1>3. Published(p)' /\ p.prior.len + 1 \in DOMAIN gens
    BY <1>2, PublishedStays
  <1>4. NamesItsGeneration(a) => NamesItsGeneration(a)'
    BY <1>3 DEF NamesItsGeneration
  <1>5. Audited(CommittedType(p), a)'
    BY <1>2 DEF CommittedType, Terminal
  <1> QED
    BY <1>2, <1>3, <1>4, <1>5 DEF Evidence, CommittedType

\* Transactions keep their evidence while records only grow.
LEMMA RecordsGrow ==
    ASSUME Typed, Witnessed, transactions' = transactions,
           \A a \in Auth : issued[a] # None => issued'[a] = issued[a],
           \A a \in Auth : consumed[a] = "committed" => consumed'[a] = "committed",
           \A a \in Auth, q \in Phases : HasPhase(a, q) => HasPhase(a, q)',
           Len(gens') \in Nat, Len(gens) <= Len(gens'), \A i \in DOMAIN gens : gens'[i] = gens[i],
           audit' = audit \/ \E e \in AuditEvent : audit' = Append(audit, e)
    PROVE  TransactionsAreIssued' /\ TransactionIsBackedByEvidence'
  <1>1. ASSUME NEW a \in Transacted
        PROVE  a \in Auth /\ issued[a] \in Proposal /\ issued'[a] = issued[a] /\ issued[a] # None
    BY DEF Transacted, Typed, TypeOK, Witnessed, TransactionsAreIssued
  <1>2. ASSUME NEW a \in Transacted PROVE Evidence(a)'
    <2>1. "generation_published" \in Phases
      BY DEF Phases
    <2>2. \A t \in Terminal : Audited(t, a) => Audited(t, a)'
      BY AuditedStays
    <2>3. PICK p \in Proposal : issued[a] = p /\ issued'[a] = p
      BY <1>1
    <2> QED
      BY <1>1, <2>1, <2>2, <2>3, TransactionStays DEF Witnessed
  <1>3. Transacted' = Transacted
    BY DEF Transacted
  <1>4. TransactionIsBackedByEvidence'
    BY <1>2, <1>3 DEF TransactionIsBackedByEvidence, Evidence, CommittedType
  <1> QED
    BY <1>1, <1>3, <1>4, NoneIsNoValue DEF TransactionsAreIssued

\* The event of an operation, at the step that audits it, is an event.
LEMMA CommitEventTyped ==
    ASSUME Typed, op.step \in ExecuteSteps, NEW t \in EventTypes
    PROVE  /\ op.prop \in Proposal /\ op.auth \in Auth
           /\ Event(t, op.prop, op.auth) \in AuditEvent
           /\ Event(t, op.prop, op.auth).type = t
           /\ Event(t, op.prop, op.auth).txn = op.auth
           /\ Event(t, op.prop, op.auth).prop = op.prop
  <1>1. op.prop \in Proposal /\ op.auth \in Auth
    BY DEF Typed, OperationBinds, ExecuteSteps
  <1> QED
    BY <1>1 DEF Event, AuditEvent

\* The committed event of the operation in progress, written when it is not in
\* the log, keeps the log true: the operation has published.
LEMMA CommittedEvent ==
    ASSUME Typed, Witnessed, op.step = "committed",
           ~Audited(CommittedType(op.prop), op.auth),
           audit' = Append(audit, Event(CommittedType(op.prop), op.prop, op.auth)), gens' = gens,
           op'.prop = op.prop, op'.auth = op.auth
    PROVE  CommittedEventsAreTrue' /\ Audited(CommittedType(op.prop), op.auth)'
  <1> DEFINE t == CommittedType(op.prop)
             e == Event(t, op.prop, op.auth)
             n == Len(audit) + 1
  <1>1. t \in Terminal /\ t \in EventTypes
    BY DEF CommittedType, Terminal, EventTypes
  <1>2. e \in AuditEvent /\ e.type = t /\ e.txn = op.auth /\ e.prop = op.prop /\ op.prop \in Proposal
    BY <1>1, CommitEventTyped DEF ExecuteSteps
  <1>3. audit \in Seq(AuditEvent)
    BY DEF Typed, TypeOK
  <1> HIDE DEF t, e
  <1>4. audit' = Append(audit, e)
    BY DEF e, t
  <1>5. /\ n - 1 \in Nat /\ DOMAIN audit = 1 .. n - 1 /\ DOMAIN Append(audit, e) = 1 .. n
        /\ \A i \in DOMAIN audit : Append(audit, e)[i] = audit[i]
        /\ Append(audit, e)[n] = e
    BY <1>2, <1>3, Appending
  <1>6. /\ DOMAIN audit' = 1 .. n /\ \A i \in DOMAIN audit : audit'[i] = audit[i]
        /\ audit'[n] = e
    BY <1>4, <1>5, Zenon
  <1>7. Audited(CommittedType(op.prop), op.auth)'
    BY <1>2, <1>5, <1>6 DEF Audited, t, CommittedType
  <1>8. ASSUME NEW i \in DOMAIN audit', audit'[i].type = "apply_committed"
        PROVE  \E k \in DOMAIN gens : gens[k].auth = audit'[i].txn /\ gens[k].prop = audit'[i].prop
    <2>1. CASE i \in DOMAIN audit
      BY <1>6, <1>8, <2>1 DEF Witnessed, CommittedEventsAreTrue
    <2>2. CASE i = n
      <3>1. op.prop.op = "apply"
        BY <1>2, <1>6, <1>8, <2>2 DEF CommittedType, t
      <3>2. PublishedMatches /\ Published(op.prop)
        BY <3>1 DEF Witnessed, StepsLeaveOutcome, AfterPublished
      <3>3. op.prop.prior.len + 1 \in DOMAIN gens
        BY <1>2, <3>2 DEF Published, Proposal, Inventory, Typed, TypeOK
      <3> QED
        BY <1>2, <1>6, <2>2, <3>2, <3>3 DEF PublishedMatches
    <2> QED
      BY <1>5, <1>6, <2>1, <2>2
  <1>9. ASSUME NEW i \in DOMAIN audit', NEW j \in DOMAIN audit', audit'[i].type \in Terminal,
               audit'[j].type = audit'[i].type, audit'[j].txn = audit'[i].txn
        PROVE  i = j
    <2>1. \A k \in DOMAIN audit : ~(audit[k].type = t /\ audit[k].txn = op.auth)
      BY DEF Audited, t
    <2>2. CASE i = n \/ j = n
      BY <1>2, <1>5, <1>6, <1>9, <2>1, <2>2
    <2>3. CASE i \in DOMAIN audit /\ j \in DOMAIN audit
      BY <1>6, <1>9, <2>3 DEF Witnessed, CommittedEventsAreTrue
    <2> QED
      BY <1>5, <1>6, <2>2, <2>3
  <1> QED
    BY <1>7, <1>8, <1>9 DEF CommittedEventsAreTrue, Terminal

\* A step of an operation that writes no transaction and appends no committed
\* event keeps the log and the transactions true.
LEMMA OnwardWitnessed ==
    ASSUME Typed, Typed', Witnessed, Execute, UNCHANGED transactions,
           \A a \in Auth : consumed[a] = "committed" => consumed'[a] = "committed",
           \A a \in Auth, q \in Phases : HasPhase(a, q) => HasPhase(a, q)',
           Len(gens) <= Len(gens'), \A i \in DOMAIN gens : gens'[i] = gens[i],
           audit' = audit \/ \E e \in AuditEvent : audit' = Append(audit, e) /\ e.type \notin Terminal,
           StepsLeaveOutcome'
    PROVE  Witnessed'
  <1>1. gens' \in Seq(Generation) /\ Len(gens') \in Nat
    BY DEF Typed, TypeOK
  <1>2. \A a \in Auth : issued[a] # None => issued'[a] = issued[a]
    BY ExecuteGoesOn
  <1>4. CommittedEventsAreTrue'
    BY <1>1, UncommittedEvent DEF Witnessed
  <1>5. TransactionsAreIssued' /\ TransactionIsBackedByEvidence'
    BY <1>1, <1>2, RecordsGrow
  <1> QED
    BY <1>4, <1>5 DEF Witnessed

\* Every step keeps the log and the transactions true.
THEOREM StepWitnessed == Typed /\ Backed /\ Lineage /\ Witnessed /\ [Next]_vars => Witnessed'
  <1> SUFFICES ASSUME Typed, Backed, Lineage, Witnessed, [Next]_vars PROVE Witnessed'
    OBVIOUS
  <1>0. Typed' /\ gens \in Seq(Generation) /\ Len(gens) \in Nat /\ gens' \in Seq(Generation)
    BY StepTyped DEF Typed, TypeOK
  <1>1. CASE Outside
    <2>1. audit' = audit \/ \E e \in AuditEvent : audit' = Append(audit, e) /\ e.type \notin Terminal
      <3>1. \A t \in EventTypes, p \in Proposal :
               Event(t, p, None) \in AuditEvent /\ Event(t, p, None).type = t
        BY DEF Event, AuditEvent
      <3> QED
        BY <1>1, <3>1 DEF Outside
    <2>2. /\ gens' = gens /\ consumed' = consumed /\ transactions' = transactions
          /\ \A a \in Auth : issued[a] # None => issued'[a] = issued[a]
          /\ \A a \in Auth, q \in Phases : HasPhase(a, q) => HasPhase(a, q)'
      BY <1>1 DEF Outside
    <2>3. CommittedEventsAreTrue'
      BY <1>0, <2>1, <2>2, UncommittedEvent DEF Witnessed
    <2>4. TransactionsAreIssued' /\ TransactionIsBackedByEvidence'
      BY <1>0, <2>1, <2>2, RecordsGrow
    <2>5. StepsLeaveOutcome'
      <3>1. CASE op'.step \notin ExecuteSteps
        BY <3>1 DEF StepsLeaveOutcome, BeforePublished, AfterPublished, AfterCommitted, ExecuteSteps
      <3>2. CASE op' = op /\ op.step \in ExecuteSteps
        <4>1. op.auth \in Auth /\ op'.auth = op.auth /\ op'.prop = op.prop
          BY <3>2 DEF Typed, OperationBinds
        <4>2. PICK a \in Auth, t \in Terminal : a = op.auth /\ t = CommittedType(op.prop)
          BY <4>1 DEF CommittedType, Terminal
        <4>3. /\ HasPhase(a, "generation_published") => HasPhase(a, "generation_published")'
              /\ Audited(t, a) => Audited(t, a)'
          BY <2>1, <2>2, AuditedStays DEF Phases
        <4> QED
          BY <2>2, <3>2, <4>1, <4>2, <4>3 DEF Witnessed, StepsLeaveOutcome, Published, PublishedMatches, HasPhase,
             Audited, CommittedType
      <3> QED
        BY <1>1, <3>1, <3>2 DEF Outside
    <2> QED
      BY <2>3, <2>4, <2>5 DEF Witnessed
  <1>2. ASSUME NEW p \in Proposal, NEW a \in Auth, Admission(p, a) PROVE Witnessed'
    <2>1. op'.step = "retain" /\ op'.prop = p /\ op'.seen = Published(p)
      BY <1>2 DEF Admission, Begin, Idle
    <2>2. StepsLeaveOutcome'
      BY <1>2, <2>1 DEF Admission, StepsLeaveOutcome, Published, BeforePublished, AfterPublished, AfterCommitted
    <2>3. TransactionsAreIssued' /\ TransactionIsBackedByEvidence'
      BY <1>0, <1>2, RecordsGrow DEF Admission, HasPhase
    <2>4. CommittedEventsAreTrue'
      BY <1>0, <1>2, UncommittedEvent DEF Admission, Witnessed
    <2> QED
      BY <2>2, <2>3, <2>4 DEF Witnessed
  <1>3. ASSUME Execute, UNCHANGED <<gens, audit, transactions>>,
               op'.step \in BeforePublished \cup {"idle"},
               \A a \in Auth : consumed[a] = "committed" => consumed'[a] = "committed",
               \A a \in Auth, q \in Phases : HasPhase(a, q) => HasPhase(a, q)'
        PROVE  Witnessed'
    <2>1. op'.step = "idle" \/ (op.step \in BeforePublished /\ op'.prop = op.prop /\ op'.seen = op.seen)
      BY <1>3, ExecuteGoesOn DEF BeforePublished
    <2>2. StepsLeaveOutcome'
      BY <1>3, <2>1 DEF Witnessed, StepsLeaveOutcome, Published, BeforePublished, AfterPublished, AfterCommitted
    <2> QED
      BY <1>0, <1>3, <2>2, OnwardWitnessed
  <1> USE DEF env, inputs, brain, evidence
  <1>4. ASSUME NEW phase \in Phases, op.step \in ExecuteSteps, recovery' = WithPhase(op.auth, phase)
        PROVE  /\ \A a \in Auth : a = op.auth => HasPhase(a, phase)'
               /\ \A a \in Auth, q \in Phases : HasPhase(a, q) => HasPhase(a, q)'
    BY <1>4, PhasesGrow DEF Typed, OperationBinds
  <1>5. ASSUME NEW step \in ExecuteSteps, Goto(step)
        PROVE  /\ op'.step = step /\ op'.prop = op.prop /\ op'.auth = op.auth /\ op'.seen = op.seen
               /\ op'.created = op.created
    BY <1>5, GotoTyped DEF Steps, Typed, TypeOK
  <1>6. CASE RetainAuthorization
    BY <1>3, <1>5, <1>6 DEF RetainAuthorization, Execute, ExecuteSteps, BeforePublished, HasPhase
  <1>7. CASE ReserveAuthorization
    <2>1. \A a \in Auth : consumed[a] = "committed" => consumed'[a] = "committed"
      BY <1>7 DEF ReserveAuthorization, Typed, TypeOK
    <2>2. op'.step \in {"intent", "idle"}
      BY <1>5, <1>7, IdleTyped DEF ReserveAuthorization, ExecuteSteps
    <2> QED
      BY <1>3, <1>7, <2>1, <2>2 DEF ReserveAuthorization, Execute, BeforePublished, HasPhase
  <1>8. CASE RecordIntent
    <2>1. op'.step \in {"idle", "stage", "staged"}
      BY <1>8, IdleTyped DEF RecordIntent, Typed, TypeOK, Operation
    <2> QED
      BY <1>3, <1>4, <1>8, <2>1 DEF RecordIntent, Execute, BeforePublished, ExecuteSteps, Phases
  <1>9. CASE StageEntry \/ StageManifest
    BY <1>3, <1>5, <1>9 DEF StageEntry, StageManifest, Execute, ExecuteSteps, BeforePublished, HasPhase
  <1>10. CASE RecordStaged
    BY <1>3, <1>4, <1>5, <1>10 DEF RecordStaged, Execute, ExecuteSteps, BeforePublished, Phases
  <1>11. CASE MakeGenerations
    BY <1>3, <1>5, <1>11 DEF MakeGenerations, Execute, ExecuteSteps, BeforePublished, HasPhase
  <1>12. CASE PublishGeneration
    <2>1. CASE gens' = gens /\ op' = Idle
      BY <1>3, <1>12, <2>1, IdleTyped DEF PublishGeneration, Execute, HasPhase
    <2>2. CASE gens' = gens /\ op.seen /\ Goto("published")
      <3>1. op'.step = "published" /\ op'.prop = op.prop
        BY <1>5, <2>2 DEF ExecuteSteps
      <3>2. StepsLeaveOutcome'
        BY <1>12, <2>2, <3>1 DEF PublishGeneration, Witnessed, StepsLeaveOutcome, Published, BeforePublished,
           AfterPublished, AfterCommitted
      <3> QED
        BY <1>0, <1>12, <2>2, <3>2, OnwardWitnessed DEF PublishGeneration, Execute, HasPhase
    <2>3. CASE gens' # gens /\ Goto("published")
      <3>1. op'.step = "published" /\ op'.prop = op.prop /\ op.prop.prior.len = Len(gens)
        BY <1>5, <1>12, <2>3 DEF PublishGeneration, ExecuteSteps, Lineage, Succession, BeforePublished
      <3>2. /\ DOMAIN gens' = 1 .. Len(gens) + 1 /\ \A i \in DOMAIN gens : gens'[i] = gens[i]
            /\ gens'[Len(gens) + 1].prop = op.prop
        BY <2>3, Appended
      <3>3. Len(gens') = Len(gens) + 1
        BY <1>0, <3>2
      <3>4. Published(op.prop)'
        BY <1>0, <3>1, <3>2, <3>3 DEF Published, SameGeneration
      <3>5. StepsLeaveOutcome'
        BY <3>1, <3>4 DEF StepsLeaveOutcome, BeforePublished, AfterPublished, AfterCommitted
      <3> QED
        BY <1>0, <1>12, <3>2, <3>3, <3>5, OnwardWitnessed DEF PublishGeneration, Execute, HasPhase
    <2> QED
      BY <1>12, <2>1, <2>2, <2>3 DEF PublishGeneration
  <1>13. CASE RecordPublished
    <2>1. CASE op' = Idle /\ UNCHANGED recovery
      BY <1>3, <1>13, <2>1, IdleTyped DEF RecordPublished, Execute, HasPhase
    <2>2. CASE /\ op.prop.op = "apply" => PublishedMatches
               /\ recovery' = WithPhase(op.auth, "generation_published")
               /\ Goto(IF op.prop.op = "apply" THEN "committed" ELSE "started")
      <3>1. /\ op'.step \in {"committed", "started"} /\ op'.prop = op.prop /\ op'.auth = op.auth
            /\ op'.created = op.created
        BY <1>5, <2>2 DEF ExecuteSteps
      <3>2. /\ \A a \in Auth : a = op.auth => HasPhase(a, "generation_published")'
            /\ \A a \in Auth, q \in Phases : HasPhase(a, q) => HasPhase(a, q)'
        BY <1>4, <1>13, <2>2 DEF RecordPublished, Phases, ExecuteSteps
      <3>3. op.auth \in Auth
        BY <1>13 DEF RecordPublished, Typed, OperationBinds, ExecuteSteps
      <3>4. StepsLeaveOutcome'
        BY <1>13, <2>2, <3>1, <3>2, <3>3 DEF RecordPublished, Witnessed, StepsLeaveOutcome, Published, PublishedMatches,
           HasPhase, BeforePublished, AfterPublished, AfterCommitted
      <3> QED
        BY <1>0, <1>13, <3>2, <3>4, OnwardWitnessed DEF RecordPublished, Execute
    <2> QED
      BY <1>13, <2>1, <2>2 DEF RecordPublished
  <1>14. CASE AuditRollbackStarted
    <2> DEFINE e == Event("rollback_started", op.prop, op.auth)
    <2>1. e \in AuditEvent /\ e.type \notin Terminal
      BY <1>14, CommitEventTyped DEF AuditRollbackStarted, ExecuteSteps, EventTypes, Terminal
    <2> HIDE DEF e
    <2>2. CASE op' = Idle /\ UNCHANGED audit
      BY <1>3, <1>14, <2>2, IdleTyped DEF AuditRollbackStarted, AuditOnce, Execute, HasPhase
    <2>3. CASE (audit' = audit \/ audit' = Append(audit, e)) /\ Goto("committed")
      <3>1. /\ op'.step = "committed" /\ op'.prop = op.prop /\ op'.auth = op.auth /\ op'.created = op.created
            /\ op.step = "started"
        BY <1>5, <1>14, <2>3 DEF ExecuteSteps, AuditRollbackStarted
      <3>2. StepsLeaveOutcome'
        BY <1>14, <3>1 DEF AuditRollbackStarted, AuditOnce, Witnessed, StepsLeaveOutcome, Published,
           PublishedMatches, HasPhase, BeforePublished, AfterPublished, AfterCommitted
      <3> QED
        BY <1>0, <1>14, <2>1, <2>3, <3>2, OnwardWitnessed DEF AuditRollbackStarted, AuditOnce, Execute, HasPhase
    <2> QED
      BY <1>14, <2>2, <2>3 DEF AuditRollbackStarted, AuditOnce, e
  <1>15. CASE AuditCommitted
    <2>1. op.step = "committed" /\ AuditOnce(CommittedType(op.prop), "consume")
      BY <1>15 DEF AuditCommitted, CommittedType
    <2>2. CASE op' = Idle /\ UNCHANGED audit
      BY <1>3, <1>15, <2>1, <2>2, IdleTyped DEF AuditOnce, Execute, HasPhase
    <2>3. ASSUME Goto("consume"), Audited(CommittedType(op.prop), op.auth)',
                 op'.prop = op.prop, op'.auth = op.auth
          PROVE  StepsLeaveOutcome'
      <3>1. op'.step = "consume" /\ op'.created = op.created
        BY <1>5, <2>3 DEF ExecuteSteps
      <3> QED
        BY <2>1, <2>3, <3>1 DEF AuditOnce, Witnessed, StepsLeaveOutcome, Published,
           PublishedMatches, HasPhase, BeforePublished, AfterPublished, AfterCommitted
    <2>4. CASE Goto("consume") /\ audit' = audit /\ Audited(CommittedType(op.prop), op.auth)
      <3>1. op'.prop = op.prop /\ op'.auth = op.auth
        BY <1>5, <2>4 DEF ExecuteSteps
      <3>2. StepsLeaveOutcome'
        BY <2>3, <2>4, <3>1 DEF Audited, CommittedType
      <3> QED
        BY <1>0, <1>15, <2>1, <2>4, <3>2, OnwardWitnessed DEF AuditOnce, Execute, HasPhase
    <2>5. CASE /\ Goto("consume") /\ ~Audited(CommittedType(op.prop), op.auth)
               /\ audit' = Append(audit, Event(CommittedType(op.prop), op.prop, op.auth))
      <3>1. op'.prop = op.prop /\ op'.auth = op.auth
        BY <1>5, <2>5 DEF ExecuteSteps
      <3>2. gens' = gens /\ transactions' = transactions /\ consumed' = consumed /\ recovery' = recovery
            /\ issued' = issued
        BY <2>1 DEF AuditOnce
      <3>3. CommittedEventsAreTrue' /\ Audited(CommittedType(op.prop), op.auth)'
        BY <2>1, <2>5, <3>1, <3>2, CommittedEvent
      <3>4. StepsLeaveOutcome'
        BY <2>3, <2>5, <3>1, <3>3
      <3>5. Event(CommittedType(op.prop), op.prop, op.auth) \in AuditEvent
        BY <2>1, CommitEventTyped DEF ExecuteSteps, CommittedType, EventTypes
      <3>6. TransactionsAreIssued' /\ TransactionIsBackedByEvidence'
        BY <1>0, <2>5, <3>2, <3>5, RecordsGrow DEF HasPhase
      <3> QED
        BY <3>3, <3>4, <3>6 DEF Witnessed
    <2> QED
      BY <2>1, <2>2, <2>4, <2>5 DEF AuditOnce
  <1>16. CASE CommitConsumption
    <2>1. /\ op'.step = "transaction" /\ op'.prop = op.prop /\ op'.auth = op.auth /\ op'.created = op.created
          /\ op.step = "consume" /\ op.auth \in Auth
      BY <1>5, <1>16, ExecuteGoesOn DEF CommitConsumption, ExecuteSteps, Typed, OperationBinds
    <2>2. consumed' = [consumed EXCEPT ![op.auth] = "committed"] /\ consumed \in [Auth -> ConsumptionStates]
      BY <1>16 DEF CommitConsumption, Typed, TypeOK
    <2>3. consumed'[op.auth] = "committed" /\ \A a \in Auth : consumed[a] = "committed" => consumed'[a] = "committed"
      BY <2>1, <2>2
    <2>4. StepsLeaveOutcome'
      BY <1>16, <2>1, <2>3 DEF CommitConsumption, Witnessed, StepsLeaveOutcome, Published, PublishedMatches,
         HasPhase, Audited, CommittedType, BeforePublished, AfterPublished, AfterCommitted
    <2> QED
      BY <1>0, <1>16, <2>3, <2>4, OnwardWitnessed DEF CommitConsumption, Execute, HasPhase
  <1>17. CASE WriteTransaction
    <2>1. /\ op'.step = "terminal" /\ op'.prop = op.prop /\ op'.auth = op.auth /\ op'.created = op.created
          /\ op.step = "transaction" /\ op.auth \in Auth /\ op.prop \in Proposal
          /\ issued[op.auth] = op.prop /\ op.created # None
      BY <1>5, <1>17, NoneIsNoValue DEF WriteTransaction, ExecuteSteps, Typed, TypeOK, Operation, OperationBinds
    <2>2. /\ transactions' = [transactions EXCEPT ![op.auth] = op.created] /\ DOMAIN transactions = Auth
          /\ UNCHANGED <<gens, consumed, issued, audit, recovery>>
      BY <1>17 DEF WriteTransaction, Typed, TypeOK
    <2>3. StepsLeaveOutcome'
      BY <2>1, <2>2 DEF Witnessed, StepsLeaveOutcome, Published, PublishedMatches,
         HasPhase, Audited, CommittedType, BeforePublished, AfterPublished, AfterCommitted
    <2>4. CommittedEventsAreTrue'
      BY <2>2 DEF Witnessed, CommittedEventsAreTrue
    <2>5. Transacted' = Transacted \cup {op.auth}
      BY <2>1, <2>2 DEF Transacted
    <2>6. TransactionsAreIssued'
      BY <2>1, <2>2, <2>5, NoneIsNoValue DEF Witnessed, TransactionsAreIssued
    <2>7. ASSUME NEW a \in Auth, a = op.auth PROVE Evidence(a)'
      <3>1. /\ consumed[op.auth] = "committed" /\ HasPhase(op.auth, "generation_published")
            /\ Published(op.prop) /\ Audited(CommittedType(op.prop), op.auth)
            /\ op.prop.op = "apply" => PublishedMatches
        BY <2>1 DEF Witnessed, StepsLeaveOutcome, AfterPublished, AfterCommitted
      <3>2. transactions'[a] = op.created /\ issued[a] = op.prop
        BY <2>1, <2>2, <2>7
      <3> QED
        BY <2>1, <2>2, <2>7, <3>1, <3>2 DEF Evidence, NamesItsGeneration, PublishedMatches, HasPhase, Published, Audited, CommittedType
    <2>8. ASSUME NEW a \in Transacted, a # op.auth PROVE Evidence(a)'
      <3>1. a \in Auth /\ transactions'[a] = transactions[a] /\ issued[a] \in Proposal
        BY <2>2, <2>8 DEF Transacted, Typed, TypeOK, Witnessed, TransactionsAreIssued
      <3> QED
        BY <1>0, <2>2, <3>1, TransactionStays DEF Witnessed, HasPhase, Audited
    <2>9. TransactionIsBackedByEvidence'
      <3>1. \A a \in Transacted' : Evidence(a)'
        BY <2>1, <2>5, <2>7, <2>8
      <3> QED
        BY <3>1 DEF TransactionIsBackedByEvidence, Evidence, CommittedType
    <2> QED
      BY <2>3, <2>4, <2>6, <2>9 DEF Witnessed
  <1>18. CASE RecordTerminal
    BY <1>3, <1>4, <1>18, IdleTyped DEF RecordTerminal, Execute, ExecuteSteps, Phases
  <1> QED
    BY <1>1, <1>2, <1>6, <1>7, <1>8, <1>9, <1>10, <1>11, <1>12, <1>13, <1>14, <1>15, <1>16, <1>17, <1>18,
       StepKinds DEF Execute

-----------------------------------------------------------------------------
(* The theorems. *)

\* The inductive invariant, with what it says of outcomes.
OInv == IInv /\ Admitted /\ NoEntryTwice /\ Witnessed

\* A fresh checkout satisfies it.
THEOREM InitOutcomes == Init => OInv
  <1> SUFFICES ASSUME Init PROVE OInv
    OBVIOUS
  <1>1. IInv
    BY InitInductive
  <1>2. gens = <<>> /\ audit = <<>> /\ op.step = "idle" /\ Transacted = {}
    BY DEF Init, Idle, Transacted
  <1> QED
    BY <1>1, <1>2 DEF OInv, Admitted, NoEntryTwice, Witnessed, StepsLeaveOutcome, TransactionsAreIssued,
       TransactionIsBackedByEvidence, CommittedEventsAreTrue, BeforePublished, AfterPublished, AfterCommitted

\* Every step preserves it.
THEOREM StepOutcomes == OInv /\ [Next]_vars => OInv'
  BY StepInductive, StepAdmitted, StepAddsNew, StepWitnessed DEF OInv, IInv

\* It holds throughout every behaviour.
THEOREM Outcomes == Spec => []OInv
  BY InitOutcomes, StepOutcomes, PTL DEF Spec

\* No entry and no semantic key is promoted twice, rolled back or not.
THEOREM EntriesAreNew == Spec => []NoEntryTwice
  <1>1. OInv => NoEntryTwice
    BY DEF OInv
  <1> QED
    BY <1>1, Outcomes, PTL

\* A transaction file is true: its consumption, its audit event and its
\* generation are there.
THEOREM TransactionsAreTrue == Spec => []TransactionIsBackedByEvidence
  <1>1. OInv => TransactionIsBackedByEvidence
    BY DEF OInv, Witnessed
  <1> QED
    BY <1>1, Outcomes, PTL

\* The audit log commits what was published, and commits it once.
THEOREM CommitsAreTrue == Spec => []CommittedEventsAreTrue
  <1>1. OInv => CommittedEventsAreTrue
    BY DEF OInv, Witnessed
  <1> QED
    BY <1>1, Outcomes, PTL

\* Whatever is published, the review and the source head it was prepared for
\* still stand, be it published at once or by a recovery long after a crash.
THEOREM ReviewsAreHonoured == Spec => PublishesOnlyWhatIsAccepted
  <1> DEFINE Honoured ==
        \A i \in DOMAIN gens' \ DOMAIN gens :
          LET p == gens'[i].prop
          IN  /\ p.source = sourceHead
              /\ p.op = "apply" => Accepted(p.pid.cand) /\ ReviewHead(p.pid.cand) = p.pid.head
  <1>1. OInv /\ [Next]_vars => Honoured
    <2> SUFFICES ASSUME OInv, [Next]_vars, NEW i \in DOMAIN gens' \ DOMAIN gens
                 PROVE  LET p == gens'[i].prop
                        IN  /\ p.source = sourceHead
                            /\ p.op = "apply" => Accepted(p.pid.cand) /\ ReviewHead(p.pid.cand) = p.pid.head
      OBVIOUS
    <2>1. /\ op.step = "publish" /\ ~op.seen
          /\ Len(gens) \in Nat /\ DOMAIN gens = 1 .. Len(gens) /\ DOMAIN gens' = 1 .. Len(gens) + 1
          /\ gens'[Len(gens) + 1].prop = op.prop
      BY Appended DEF OInv, IInv
    <2>2. gens'[i].prop = op.prop
      BY <2>1
    <2> QED
      BY <2>1, <2>2 DEF OInv, Admitted, BeforePublished
  <1>2. OInv /\ [Next]_vars => [Honoured]_vars
    BY <1>1
  <1> QED
    BY <1>2, Outcomes, PTL DEF Spec, PublishesOnlyWhatIsAccepted

-----------------------------------------------------------------------------
(* The refinement.  A rename of a staged apply is an addition, one of a    *)
(* staged rollback a withdrawal of the last addition, and every other      *)
(* step, crash and recovery changes nothing a reader of canonical          *)
(* knowledge could see.                                                    *)

(* What a reader sees, as a function of the generations. *)

Applies(g) == g.prop.op = "apply"
Undoes(g, h) == g.prop.op = "rollback" /\ g.prop.pid = h.prop.pid
Entry(g) == g.prop.pid.cand

\* Visible, for any sequence of generations.
VisibleIn(g, k) ==
    {c \in Candidate : \E i \in 1 .. k : /\ Applies(g[i]) /\ Entry(g[i]) = c
                                        /\ \A j \in i + 1 .. k : ~Undoes(g[j], g[i])}

\* It is what Visible is of the generations on disk.
LEMMA VisibleOnDisk == \A k : Visible(k) = VisibleIn(gens, k)
  BY DEF Visible, VisibleIn, Applies, Undoes, Entry

\* The entry of a generation is a candidate.
LEMMA EntryTyped ==
    ASSUME NEW h \in Generation
    PROVE  Entry(h) \in Candidate
  BY DEF Generation, Proposal, PromotionId, Entry

\* Later generations do not change what earlier ones showed.
LEMMA VisibleIsHistory ==
    ASSUME NEW g, NEW h, NEW k \in Nat, \A i \in 1 .. k : h[i] = g[i]
    PROVE  VisibleIn(h, k) = VisibleIn(g, k)
  BY DEF VisibleIn

\* An apply adds its entry.
LEMMA ApplyAdds ==
    ASSUME NEW g, NEW n \in Nat, g[n + 1] \in Generation, Applies(g[n + 1])
    PROVE  VisibleIn(g, n + 1) = VisibleIn(g, n) \cup {Entry(g[n + 1])}
  <1> DEFINE Shown(i, k) == Applies(g[i]) /\ \A j \in i + 1 .. k : ~Undoes(g[j], g[i])
  <1>1. \A i \in 1 .. n : Shown(i, n + 1) <=> Shown(i, n)
    BY DEF Applies, Undoes
  <1>2. Shown(n + 1, n + 1)
    OBVIOUS
  <1>3. VisibleIn(g, n) = {c \in Candidate : \E i \in 1 .. n : Shown(i, n) /\ Entry(g[i]) = c}
    BY DEF VisibleIn
  <1>4. VisibleIn(g, n + 1) = {c \in Candidate : \E i \in 1 .. n + 1 : Shown(i, n + 1) /\ Entry(g[i]) = c}
    BY DEF VisibleIn
  <1> HIDE DEF Shown
  <1> QED
    BY <1>1, <1>2, <1>3, <1>4, EntryTyped

\* A rollback shows again what was visible before the apply it follows, as long
\* as no other apply had the same entry; what it withdraws was not there before.
LEMMA RollbackWithdraws ==
    ASSUME NEW g, NEW n \in Nat \ {0},
           Applies(g[n]), Undoes(g[n + 1], g[n]),
           \A i \in 1 .. n - 1 : Applies(g[i]) => Entry(g[i]) # Entry(g[n])
    PROVE  /\ VisibleIn(g, n + 1) = VisibleIn(g, n - 1)
           /\ Entry(g[n]) \notin VisibleIn(g, n - 1)
  <1> DEFINE Shown(i, k) == Applies(g[i]) /\ \A j \in i + 1 .. k : ~Undoes(g[j], g[i])
  <1>1. \A i \in 1 .. n - 1 : Applies(g[i]) => ~Undoes(g[n], g[i]) /\ ~Undoes(g[n + 1], g[i])
    BY DEF Applies, Undoes, Entry
  <1>2. \A i \in 1 .. n - 1 : Shown(i, n + 1) <=> Shown(i, n - 1)
    BY <1>1
  <1>3. ~Shown(n, n + 1) /\ ~Shown(n + 1, n + 1)
    BY DEF Applies, Undoes
  <1>4. VisibleIn(g, n - 1) = {c \in Candidate : \E i \in 1 .. n - 1 : Shown(i, n - 1) /\ Entry(g[i]) = c}
    BY DEF VisibleIn
  <1>5. VisibleIn(g, n + 1) = {c \in Candidate : \E i \in 1 .. n + 1 : Shown(i, n + 1) /\ Entry(g[i]) = c}
    BY DEF VisibleIn
  <1>6. \A i \in 1 .. n - 1 : Shown(i, n - 1) => Applies(g[i])
    OBVIOUS
  <1> HIDE DEF Shown
  <1>7. \A i \in 1 .. n + 1 : i \in 1 .. n - 1 \/ i = n \/ i = n + 1
    OBVIOUS
  <1>8. ASSUME NEW c
        PROVE  (\E i \in 1 .. n + 1 : Shown(i, n + 1) /\ Entry(g[i]) = c)
                  <=> (\E i \in 1 .. n - 1 : Shown(i, n - 1) /\ Entry(g[i]) = c)
    <2>1. 1 .. n - 1 \subseteq 1 .. n + 1
      OBVIOUS
    <2> QED
      BY <1>2, <1>3, <1>7, <2>1
  <1>9. VisibleIn(g, n + 1) = VisibleIn(g, n - 1)
    BY <1>4, <1>5, <1>8
  <1>10. Entry(g[n]) \notin VisibleIn(g, n - 1)
    BY <1>4, <1>6
  <1> QED
    BY <1>9, <1>10

-----------------------------------------------------------------------------
(* The refinement. *)

\* The versions of CanonicalBrain, one more than there are generations.
Versions == [k \in 1 .. Len(gens) + 1 |-> Visible(k - 1)]

\* The actions of CanonicalBrain, of Versions.
LEMMA BrainActions ==
    /\ \A c : Brain!Add(c) <=>
          /\ \A d \in UNION {Versions[k] : k \in DOMAIN Versions} : SemanticKey[d] # SemanticKey[c]
          /\ Versions' = Append(Versions, Versions[Len(Versions)] \cup {c})
    /\ Brain!Withdraw <=>
          /\ Len(Versions) > 1
          /\ Versions[Len(Versions) - 1] \subseteq Versions[Len(Versions)]
          /\ Versions[Len(Versions) - 1] # Versions[Len(Versions)]
          /\ Versions' = Append(Versions, Versions[Len(Versions) - 1])
  BY DEF Brain!Add, Brain!Ever, Brain!Current, Brain!Withdraw, Versions

\* An empty brain shows nothing.
THEOREM InitRefines == Init => Brain!Init
  <1> SUFFICES ASSUME Init PROVE Brain!Init
    OBVIOUS
  <1>1. gens = <<>> /\ Len(gens) + 1 = 1
    BY DEF Init
  <1>2. Visible(0) = {}
    BY DEF Visible
  <1>3. Versions = <<{}>>
    <2>1. \A k \in 1 .. 1 : Visible(k - 1) = {}
      BY <1>2
    <2>2. Versions = [k \in 1 .. 1 |-> {}]
      BY <1>1, <2>1 DEF Versions
    <2> QED
      BY <2>2
  <1> QED
    BY <1>3 DEF Brain!Init, Versions

\* A rename appends the version that the new generation shows.
LEMMA VersionsGrow ==
    ASSUME OInv, [Next]_vars, gens' # gens
    PROVE  /\ Versions' = Append(Versions, VisibleIn(gens', Len(gens) + 1))
           /\ Len(Versions) = Len(gens) + 1
           /\ \A k \in DOMAIN Versions : Versions[k] = VisibleIn(gens', k - 1)
  <1> DEFINE n == Len(gens)
  <1>1. /\ n \in Nat /\ DOMAIN gens = 1 .. n /\ DOMAIN gens' = 1 .. n + 1
        /\ \A i \in DOMAIN gens : gens'[i] = gens[i]
    BY Appended DEF OInv, IInv
  <1>2. Len(gens') = n + 1
    BY <1>1, StepOutcomes DEF OInv, IInv, Typed, TypeOK
  <1>3. \A k \in 1 .. n + 1 : Visible(k - 1) = VisibleIn(gens', k - 1)
    <2> SUFFICES ASSUME NEW k \in 1 .. n + 1 PROVE Visible(k - 1) = VisibleIn(gens', k - 1)
      OBVIOUS
    <2>1. k - 1 \in Nat /\ \A i \in 1 .. k - 1 : gens'[i] = gens[i]
      BY <1>1
    <2> QED
      BY <2>1, VisibleIsHistory, VisibleOnDisk
  <1>4. \A k : Visible(k)' = VisibleIn(gens', k)
    BY DEF Visible, VisibleIn, Applies, Undoes, Entry
  <1>5. Versions' = [k \in 1 .. n + 2 |-> VisibleIn(gens', k - 1)]
    BY <1>1, <1>2, <1>4 DEF Versions
  <1>6. Versions = [k \in 1 .. n + 1 |-> VisibleIn(gens', k - 1)]
    BY <1>3 DEF Versions
  <1> QED
    BY <1>1, <1>5, <1>6

\* A step that changes the brain adds a new entry or withdraws the last one.
THEOREM StepRefines == OInv /\ [Next]_vars => [Brain!Next]_Versions
  <1> SUFFICES ASSUME OInv, [Next]_vars PROVE [Brain!Next]_Versions
    OBVIOUS
  <1>1. CASE gens' = gens
    <2>1. \A k : Visible(k)' = Visible(k)
      BY <1>1 DEF Visible
    <2> QED
      BY <1>1, <2>1 DEF Versions
  <1>2. CASE gens' # gens
    <2> DEFINE n == Len(gens)
               new == gens'[n + 1]
    <2>1. /\ op.step = "publish" /\ ~op.seen
          /\ n \in Nat /\ DOMAIN gens = 1 .. n /\ DOMAIN gens' = 1 .. n + 1
          /\ \A i \in DOMAIN gens : gens'[i] = gens[i]
          /\ new.prop = op.prop
      BY <1>2, Appended DEF OInv, IInv
    <2>2. /\ Versions' = Append(Versions, VisibleIn(gens', n + 1))
          /\ Len(Versions) = n + 1 /\ DOMAIN Versions = 1 .. n + 1
          /\ \A k \in 1 .. n + 1 : Versions[k] = VisibleIn(gens', k - 1)
      BY <1>2, <2>1, VersionsGrow DEF Versions
    <2>3. \A i \in 1 .. n + 1 : gens'[i] \in Generation
      BY <2>1, StepOutcomes DEF OInv, IInv, Typed, TypeOK
    <2>4. CASE op.prop.op = "apply"
      <3>1. ~Collides(Entry(new)) /\ Applies(new) /\ Entry(new) \in Candidate
        BY <2>1, <2>3, <2>4, EntryTyped DEF OInv, Admitted, BeforePublished, Entry, Applies
      <3>2. VisibleIn(gens', n + 1) = VisibleIn(gens', n) \cup {Entry(new)}
        <4>1. n + 1 \in 1 .. n + 1 /\ gens'[n + 1] \in Generation /\ Applies(gens'[n + 1])
          BY <2>1, <2>3, <3>1
        <4> QED
          BY <2>1, <4>1, ApplyAdds
      <3>3. ASSUME NEW k \in 1 .. n + 1, NEW d \in Versions[k]
            PROVE  SemanticKey[d] # SemanticKey[Entry(new)]
        <4>1. d \in VisibleIn(gens', k - 1)
          BY <2>2
        <4>2. PICK i \in 1 .. k - 1 : Applies(gens'[i]) /\ Entry(gens'[i]) = d
          BY <4>1 DEF VisibleIn
        <4>3. i \in DOMAIN gens /\ gens'[i] = gens[i]
          BY <2>1
        <4>4. d \in EverAdded
          BY <4>2, <4>3 DEF EverAdded, Applies, Entry
        <4> QED
          BY <3>1, <4>4 DEF Collides
      <3>4. Versions[n + 1] = VisibleIn(gens', n)
        BY <2>1, <2>2
      <3>5. Brain!Add(Entry(new))
        BY <2>2, <3>2, <3>3, <3>4, BrainActions
      <3> QED
        BY <3>1, <3>5 DEF Brain!Next
    <2>5. CASE op.prop.op = "rollback"
      <3>1. op.prop.prior.len = n /\ op.prop \in rollbacks
        BY <2>1, <2>5 DEF OInv, IInv, Lineage, ProposalsKeepTheirKind, Succession, BeforePublished, ExecuteSteps
      <3>2. /\ n \in DOMAIN gens /\ gens[n].prop.op = "apply" /\ gens[n].prop.pid = op.prop.pid
        BY <3>1 DEF OInv, IInv, Lineage, RollbacksUndo
      <3>3. Applies(gens'[n]) /\ Undoes(new, gens'[n]) /\ n \in Nat \ {0}
        BY <2>1, <2>5, <3>2 DEF Applies, Undoes
      <3>4. \A i \in 1 .. n - 1 : Applies(gens'[i]) => Entry(gens'[i]) # Entry(gens'[n])
        <4>1. \A i \in 1 .. n : i \in DOMAIN gens /\ gens'[i] = gens[i]
          BY <2>1
        <4> n \in Nat
          BY <2>1
        <4>2. \A i \in 1 .. n - 1 : i \in 1 .. n /\ i # n
          OBVIOUS
        <4>3. n \in 1 .. n
          BY <2>1, <3>2
        <4> QED
          BY <3>2, <4>1, <4>2, <4>3 DEF OInv, NoEntryTwice, Applies, Entry
      <3>5. /\ VisibleIn(gens', n + 1) = VisibleIn(gens', n - 1)
            /\ Entry(gens'[n]) \notin VisibleIn(gens', n - 1)
        BY <3>3, <3>4, RollbackWithdraws
      <3>6. VisibleIn(gens', n) = VisibleIn(gens', n - 1) \cup {Entry(gens'[n])}
        <4>1. n - 1 \in Nat /\ (n - 1) + 1 = n /\ n \in 1 .. n + 1
          BY <3>3
        <4> QED
          BY <2>3, <3>3, <4>1, ApplyAdds
      <3>7. Versions[n] = VisibleIn(gens', n - 1) /\ Versions[n + 1] = VisibleIn(gens', n)
        BY <2>2, <3>3
      <3>8. Brain!Withdraw
        BY <2>2, <3>3, <3>5, <3>6, <3>7, BrainActions
      <3> QED
        BY <3>8 DEF Brain!Next
    <2>6. op.prop \in Proposal
      BY <2>1 DEF OInv, IInv, Typed, OperationBinds
    <2> QED
      BY <2>4, <2>5, <2>6 DEF Proposal
  <1> QED
    BY <1>1, <1>2

\* Promotion, with all its machinery and whatever interrupts it, is a history of
\* additions and withdrawals.
THEOREM PromotionImplementsBrain == Spec => ImplementsCanonicalBrain
  <1>1. OInv /\ [Next]_vars => [Brain!Next]_Versions
    BY StepRefines
  <1> QED
    BY <1>1, InitRefines, Outcomes, PTL DEF Spec, ImplementsCanonicalBrain, Brain!Spec, Versions
=============================================================================
