------------------------------ MODULE Promotion ------------------------------
(***************************************************************************)
(* Governed candidate promotion (src/src/ao_lore/promotion.py): prepare,   *)
(* apply, rollback and recover over the durable directories below          *)
(* .ao-lore/promotions and brain/generations.                              *)
(*                                                                         *)
(* Every operation holds one global file lock from its first read to its   *)
(* last write, so at most one operation is in progress; `op' is that       *)
(* operation.  One action is one durable write of it, so that a crash can  *)
(* fall between any two writes.  A crash loses the operation and the lock, *)
(* never a file.  A file is written at once: torn files are not modelled.  *)
(*                                                                         *)
(* Digests are modelled by what they bind: a digest of a value is the      *)
(* value.  brain/generations only ever grows, so the digest of the brain   *)
(* inventory is the pair (does brain/generations exist, how many           *)
(* generations are in it).                                                 *)
(***************************************************************************)
EXTENDS Integers, Sequences, FiniteSets

CONSTANTS
    Candidate,      \* candidate knowledge packages
    SemanticKey,    \* [Candidate -> key]: what two equal payloads share
    Auth,           \* authorization files an operator may write
    AuthId, Nonce,  \* [Auth -> identity], [Auth -> nonce]
    File,           \* names of proposal files below proposals/
    SourceHead,     \* git heads of the source tree
    FirstHead,      \* the head at the start
    ProposalLife,   \* seconds a proposal lives (five minutes in the code)
    AuthLife,       \* seconds an authorization lives
    MaxAudit,       \* MAX_AUDIT_EVENTS
    MaxReviews,     \* bound: review events of all candidates
    MaxNow,         \* bound: clock ticks
    CrashPoints,    \* bound: <<operation, step>> before which a process may die
    None            \* no value

VARIABLES
    now,            \* the system clock, in seconds
    sourceHead,     \* git rev-parse HEAD
    reviews,        \* [Candidate -> Seq(decision)]: reviews/ of a candidate
    genDir,         \* does brain/generations exist
    gens,           \* brain/generations, in sequence order
    proposals,      \* [File -> proposal or None]: proposals/
    rollbacks,      \* rollback-proposals/
    issued,         \* [Auth -> the proposal it binds or None]
    issuedAt,       \* [Auth -> Nat]: issued_at
    audit,          \* audit/, in sequence order
    consumed,       \* [Auth -> state]: consumed/
    retained,       \* retained/
    recovery,       \* [Auth -> Seq(phase)]: recovery/, by transaction
    staging,        \* [Auth -> staged directory]: staging/, by transaction
    transactions,   \* [Auth -> created_at of the manifest it names or None]:
                    \* transactions/, one per authorization
    op              \* the operation that holds promotion.lock

env == <<now, sourceHead, reviews>>
inputs == <<issued, issuedAt>>
brain == <<genDir, gens>>
evidence == <<consumed, retained, recovery, staging, transactions>>
vars == <<now, sourceHead, reviews, genDir, gens, proposals, rollbacks, issued,
          issuedAt, audit, consumed, retained, recovery, staging, transactions, op>>

ASSUME ConstantsAssumption ==
    /\ FirstHead \in SourceHead
    /\ ProposalLife \in Nat \ {0} /\ AuthLife \in Nat \ {0}
    /\ MaxAudit \in Nat /\ MaxReviews \in Nat /\ MaxNow \in Nat

-----------------------------------------------------------------------------
(* Values. *)

Decisions == {"accept", "reject"}
Inventory == [dir : BOOLEAN, len : Nat]
PromotionId == [cand : Candidate, head : Nat, inv : Inventory]

\* A promotion proposal (op "apply") or a rollback proposal (op "rollback").
\* `prior' is the brain inventory it was derived from.
Proposal == [op : {"apply", "rollback"}, pid : PromotionId, prior : Inventory,
             prepared : Nat, source : SourceHead]

ASSUME NoneIsNoValue ==
    None \notin Auth /\ None \notin File /\ None \notin Proposal /\ None \notin Nat

\* A generation directory: what its manifest binds, and its created_at.
Generation == [prop : Proposal, auth : Auth, created : Nat]

EventTypes == {"prepare_started", "prepare_succeeded", "prepare_rejected",
               "apply_committed", "apply_rejected", "rollback_prepared",
               "rollback_started", "rollback_committed", "rollback_rejected"}
AuditEvent == [type : EventTypes, prop : Proposal, txn : Auth \cup {None}]

Phases == {"authorized", "staged", "generation_published", "terminal"}
ConsumptionStates == {"none", "reserved", "committed"}
Stage == [state : {"none", "partial", "ready"}, created : Nat]
NoStage == [state |-> "none", created |-> 0]

PrepareSteps == {"propose", "prepared", "rollback_prepared"}
ExecuteSteps == {"retain", "reserve", "intent", "stage", "manifest", "staged",
                 "mkdir", "publish", "published", "started", "committed",
                 "consume", "transaction", "terminal"}
Steps == PrepareSteps \cup ExecuteSteps

\* The operation in progress: the step it is about to take, the proposal it
\* works for, the output file of a prepare, the authorization of an apply or
\* rollback, the created_at of its manifest, and published_already.
Operation == [step : Steps \cup {"idle"}, prop : Proposal \cup {None},
              file : File \cup {None}, auth : Auth \cup {None},
              created : Nat, seen : BOOLEAN]
Idle == [step |-> "idle", prop |-> None, file |-> None, auth |-> None,
         created |-> 0, seen |-> FALSE]

TypeOK ==
    /\ now \in Nat
    /\ sourceHead \in SourceHead
    /\ reviews \in [Candidate -> Seq(Decisions)]
    /\ genDir \in BOOLEAN
    /\ gens \in Seq(Generation)
    /\ proposals \in [File -> Proposal \cup {None}]
    /\ rollbacks \in SUBSET Proposal
    /\ issued \in [Auth -> Proposal \cup {None}]
    /\ issuedAt \in [Auth -> Nat]
    /\ audit \in Seq(AuditEvent)
    /\ consumed \in [Auth -> ConsumptionStates]
    /\ retained \in SUBSET Auth
    /\ recovery \in [Auth -> Seq(Phases)]
    /\ staging \in [Auth -> Stage]
    /\ transactions \in [Auth -> Nat \cup {None}]
    /\ op \in Operation

-----------------------------------------------------------------------------
(* What the code derives from the files. *)

BrainInventory == [dir |-> genDir, len |-> Len(gens)]

ReviewHead(c) == Len(reviews[c])
ReviewEvents == UNION {{c} \X DOMAIN reviews[c] : c \in Candidate}
Accepted(c) == reviews[c] # <<>> /\ reviews[c][Len(reviews[c])] = "accept"

\* Candidates whose entry any generation ever added, rolled back or not.
EverAdded == {gens[i].prop.pid.cand :
                i \in {j \in DOMAIN gens : gens[j].prop.op = "apply"}}

\* Fault: a candidate is compared with the others, never with itself.
CollidesWithOthers(c) ==
    \E d \in EverAdded : d # c /\ SemanticKey[d] = SemanticKey[c]

Collides(c) == \E d \in EverAdded : d = c \/ SemanticKey[d] = SemanticKey[c]

\* Two proposals for one generation name: the identity is derived from the
\* sequence, the canonical entry and the prior generation, not from the time.
SameGeneration(p, q) ==
    /\ p.op = q.op
    /\ p.prior.len = q.prior.len
    /\ p.pid.cand = q.pid.cand
    /\ p.pid.head = q.pid.head

Published(p) ==
    /\ p.prior.len < Len(gens)
    /\ SameGeneration(gens[p.prior.len + 1].prop, p)

\* The events that may follow the last event of the same promotion.
AllowedAfter(type) ==
    CASE type = "none"               -> {"prepare_started"}
      [] type = "prepare_started"    -> {"prepare_succeeded", "prepare_rejected"}
      [] type = "prepare_succeeded"  -> {"prepare_started", "apply_committed",
                                         "apply_rejected", "rollback_prepared"}
      [] type = "prepare_rejected"   -> {"prepare_started"}
      [] type = "apply_rejected"     -> {"prepare_started", "apply_rejected"}
      [] type = "apply_committed"    -> {"rollback_prepared"}
      [] type = "rollback_prepared"  -> {"rollback_started", "rollback_rejected"}
      [] type = "rollback_started"   -> {"rollback_committed", "rollback_rejected"}
      [] type = "rollback_rejected"  -> {"rollback_started", "rollback_rejected"}
      [] type = "rollback_committed" -> {}

SamePromotion(i, j) == audit[i].prop.pid = audit[j].prop.pid
Terminal == {"apply_committed", "rollback_committed"}

PrecedingType(i) ==
    LET before == {j \in 1 .. i - 1 : SamePromotion(i, j)}
    IN  IF before = {} THEN "none"
        ELSE audit[CHOOSE j \in before : \A k \in before : k <= j].type

\* validate_audit_chain accepts the chain on disk.
ChainValid ==
    \A i \in DOMAIN audit :
        /\ audit[i].type \in AllowedAfter(PrecedingType(i))
        /\ audit[i].type \in Terminal =>
              \A j \in 1 .. i - 1 : SamePromotion(i, j) => audit[j].type # audit[i].type

\* _audit validates the chain it finds, not the event it adds.
AuditWritable == ChainValid /\ Len(audit) < MaxAudit
Event(type, p, a) == [type |-> type, prop |-> p, txn |-> a]
Audited(type, a) == \E i \in DOMAIN audit : audit[i].type = type /\ audit[i].txn = a

\* Fault: the nonce is not looked at.
RivalsByIdOnly(a) == {b \in Auth : consumed[b] # "none" /\ AuthId[b] = AuthId[a]}
\* Consumption records that share the identity or the nonce of a.
Rivals(a) == {b \in Auth : /\ consumed[b] # "none"
                           /\ AuthId[b] = AuthId[a] \/ Nonce[b] = Nonce[a]}

\* The authorizations whose operation is on record as complete.
Transacted == {a \in Auth : transactions[a] # None}

HasPhase(a, phase) == \E i \in DOMAIN recovery[a] : recovery[a][i] = phase
WithPhase(a, phase) ==
    IF HasPhase(a, phase) THEN recovery
    ELSE [recovery EXCEPT ![a] = Append(@, phase)]

-----------------------------------------------------------------------------
(* Init: a fresh checkout.  brain/ holds no generations directory. *)

Init ==
    /\ now = 0
    /\ sourceHead = FirstHead
    /\ reviews = [c \in Candidate |-> <<>>]
    /\ genDir = FALSE
    /\ gens = <<>>
    /\ proposals = [f \in File |-> None]
    /\ rollbacks = {}
    /\ issued = [a \in Auth |-> None]
    /\ issuedAt = [a \in Auth |-> 0]
    /\ audit = <<>>
    /\ consumed = [a \in Auth |-> "none"]
    /\ retained = {}
    /\ recovery = [a \in Auth |-> <<>>]
    /\ staging = [a \in Auth |-> NoStage]
    /\ transactions = [a \in Auth |-> None]
    /\ op = Idle

-----------------------------------------------------------------------------
(* The environment: the clock, the checkout, reviewers and operators.  An  *)
(* authorization is read when an operation starts, so writing one while    *)
(* the lock is held changes nothing that writing it before or after does   *)
(* not; the same holds for the checkout.                                   *)

Tick ==
    /\ now < MaxNow
    /\ now' = now + 1
    /\ UNCHANGED <<sourceHead, reviews, brain, proposals, rollbacks, inputs,
                   audit, evidence, op>>

\* promotion.lock does not keep git from moving.  An operation reads the head
\* once, at its checks: a checkout during the rest of it is one that follows it.
Checkout(h) ==
    /\ op = Idle
    /\ h # sourceHead
    /\ sourceHead' = h
    /\ UNCHANGED <<now, reviews, brain, proposals, rollbacks, inputs, audit,
                   evidence, op>>

\* Fault: the review does not wait for promotion.lock.
AppendReviewWithoutLock(c, d) ==
    /\ Cardinality(ReviewEvents) < MaxReviews
    /\ reviews' = [reviews EXCEPT ![c] = Append(@, d)]
    /\ UNCHANGED <<now, sourceHead, brain, proposals, rollbacks, inputs, audit,
                   evidence, op>>

\* append_review takes promotion.lock before the candidate's own lock.
AppendReview(c, d) ==
    /\ op = Idle
    /\ Cardinality(ReviewEvents) < MaxReviews
    /\ reviews' = [reviews EXCEPT ![c] = Append(@, d)]
    /\ UNCHANGED <<now, sourceHead, brain, proposals, rollbacks, inputs, audit,
                   evidence, op>>

\* An operator writes an authorization file that binds an existing proposal.
Authorize(a, p) ==
    /\ op = Idle
    /\ issued[a] = None
    /\ p # None
    /\ issued' = [issued EXCEPT ![a] = p]
    /\ issuedAt' = [issuedAt EXCEPT ![a] = now]
    /\ UNCHANGED <<env, brain, proposals, rollbacks, audit, evidence, op>>

-----------------------------------------------------------------------------
(* prepare_promotion: audit, write the proposal to the caller's exclusive  *)
(* output file, audit.  A refused candidate or a collision raises before   *)
(* anything is written.                                                    *)

PreparePromotion(c, f) ==
    LET p == [op |-> "apply", prior |-> BrainInventory, prepared |-> now,
              source |-> sourceHead,
              pid |-> [cand |-> c, head |-> ReviewHead(c), inv |-> BrainInventory]]
    IN  /\ op = Idle
        /\ Accepted(c)
        /\ ~Collides(c)
        /\ AuditWritable
        /\ audit' = Append(audit, Event("prepare_started", p, None))
        /\ op' = [Idle EXCEPT !.step = "propose", !.prop = p, !.file = f]
        /\ UNCHANGED <<env, brain, proposals, rollbacks, inputs, evidence>>

WriteProposal ==
    /\ op.step = "propose"
    /\ \/ /\ proposals[op.file] = None
          /\ proposals' = [proposals EXCEPT ![op.file] = op.prop]
          /\ op' = [op EXCEPT !.step = "prepared"]
          /\ UNCHANGED audit
       \/ /\ proposals[op.file] # None
          /\ audit' = IF AuditWritable
                      THEN Append(audit, Event("prepare_rejected", op.prop, None))
                      ELSE audit
          /\ op' = Idle
          /\ UNCHANGED proposals
    /\ UNCHANGED <<env, brain, rollbacks, inputs, evidence>>

\* Fault: the event type is spelt from the operation and "succeeded".
AuditPreparedBySuffix ==
    /\ op.step \in {"prepared", "rollback_prepared"}
    /\ LET type == IF op.step = "prepared" THEN "prepare_succeeded" ELSE "rollback_succeeded"
       IN  audit' = IF AuditWritable THEN Append(audit, Event(type, op.prop, None))
                    ELSE audit
    /\ op' = Idle
    /\ UNCHANGED <<env, brain, proposals, rollbacks, inputs, evidence>>

\* The last event of a prepare or of a rollback preparation.
AuditPrepared ==
    /\ op.step \in {"prepared", "rollback_prepared"}
    /\ LET type == IF op.step = "prepared" THEN "prepare_succeeded" ELSE "rollback_prepared"
       IN  audit' = IF AuditWritable THEN Append(audit, Event(type, op.prop, None))
                    ELSE audit
    /\ op' = Idle
    /\ UNCHANGED <<env, brain, proposals, rollbacks, inputs, evidence>>

\* inspect_promotion reports a committed apply of p under authorization a.
InspectedCommitted(p, a) ==
    /\ ChainValid
    /\ \E f \in File : proposals[f] = p
    /\ \A f \in File : proposals[f] # None /\ proposals[f].pid = p.pid => proposals[f] = p
    /\ \E i \in DOMAIN audit : audit[i] = Event("prepare_succeeded", p, None)
    /\ {b \in Transacted : issued[b].pid = p.pid} = {a}
    /\ issued[a] = p
    /\ consumed[a] = "committed"
    /\ Published(p) /\ gens[p.prior.len + 1].auth = a
    /\ Audited("apply_committed", a)

\* build_rollback_proposal: only for the promotion whose generation is the
\* latest.  An equal proposal that is already retained is returned as it is,
\* a different one under the same name is a conflict; neither writes.
PrepareRollback(p, a) ==
    LET r == [op |-> "rollback", pid |-> p.pid, prior |-> BrainInventory,
              prepared |-> now, source |-> p.source]
    IN  /\ op = Idle
        /\ InspectedCommitted(p, a)
        /\ Len(gens) = p.prior.len + 1
        /\ ~ \E q \in rollbacks : q.pid = r.pid /\ q.prior.len = r.prior.len
        /\ rollbacks' = rollbacks \cup {r}
        /\ op' = [Idle EXCEPT !.step = "rollback_prepared", !.prop = r]
        /\ UNCHANGED <<env, brain, proposals, inputs, audit, evidence>>

-----------------------------------------------------------------------------
(* apply_promotion and rollback_promotion: the checks under the lock.      *)

\* validate_authorization, with allow_exact_reserved.
Authorized(p, a) ==
    /\ issued[a] = p
    /\ issuedAt[a] <= now /\ now < issuedAt[a] + AuthLife
    /\ sourceHead = p.source
    /\ Rivals(a) \subseteq {a}
    /\ BrainInventory = p.prior \/ consumed[a] # "none"

\* The transaction is complete: a retry returns the recorded result.
Completed(p, a) == a \in Transacted /\ issued[a] = p

Unexpired(p) == now < p.prepared + ProposalLife

\* Fault: the binding of the authorization is taken for the check of the brain.
ApplyAdmittedWithoutBrainCheck(p, a) ==
    /\ Authorized(p, a)
    /\ Accepted(p.pid.cand) /\ ReviewHead(p.pid.cand) = p.pid.head
    /\ Published(p) \/ ~Collides(p.pid.cand)

ApplyAdmitted(p, a) ==
    /\ Authorized(p, a)
    /\ Accepted(p.pid.cand) /\ ReviewHead(p.pid.cand) = p.pid.head
    /\ Published(p) \/ (BrainInventory = p.prior /\ ~Collides(p.pid.cand))

Begin(p, a) == op' = [Idle EXCEPT !.step = "retain", !.prop = p, !.auth = a,
                                  !.seen = Published(p)]

\* apply_promotion up to the first durable write: it begins, or it audits
\* the refusal.  A completed transaction, an expired proposal and a chain
\* that cannot be written raise or return with nothing written.
Apply(p, a) ==
    /\ op = Idle
    /\ issued[a] # None
    /\ ~Completed(p, a)
    /\ Unexpired(p)
    /\ \/ /\ ApplyAdmitted(p, a)
          /\ Begin(p, a)
          /\ UNCHANGED audit
       \/ /\ ~ApplyAdmitted(p, a)
          /\ AuditWritable
          /\ audit' = Append(audit, Event("apply_rejected", p, None))
          /\ UNCHANGED op
    /\ UNCHANGED <<env, brain, proposals, rollbacks, inputs, evidence>>

ApplyPromotion(f, a) == proposals[f] # None /\ Apply(proposals[f], a)

RollbackAdmitted(r, a) ==
    /\ Authorized(r, a)
    /\ Published(r) \/ BrainInventory = r.prior

AlreadyRolledBack(r, a) ==
    \E i \in DOMAIN audit : /\ audit[i].type = "rollback_committed"
                            /\ audit[i].prop.pid = r.pid
                            /\ audit[i].txn # a

\* rollback_promotion up to the first durable write.  Unlike apply it looks
\* at neither the candidate nor the expiry of the proposal, and it reads the
\* whole audit chain before it reserves.
Rollback(r, a) ==
    /\ op = Idle
    /\ issued[a] # None
    /\ {q \in rollbacks : q.pid = r.pid} = {r}
    /\ ~Completed(r, a)
    /\ \/ /\ RollbackAdmitted(r, a)
          /\ ChainValid
          /\ ~AlreadyRolledBack(r, a)
          /\ Begin(r, a)
          /\ UNCHANGED audit
       \/ /\ ~RollbackAdmitted(r, a)
          /\ AuditWritable
          /\ audit' = Append(audit, Event("rollback_rejected", r, None))
          /\ UNCHANGED op
    /\ UNCHANGED <<env, brain, proposals, rollbacks, inputs, evidence>>

RollbackPromotion(a) == \E r \in rollbacks : Rollback(r, a)

-----------------------------------------------------------------------------
(* The durable writes of an admitted apply or rollback, in their order.    *)
(* `op' = Idle' in the middle of them is a raise: the lock is released and *)
(* what was written stays.                                                 *)

Goto(step) == op' = [op EXCEPT !.step = step]

RetainAuthorization ==
    /\ op.step = "retain"
    /\ retained' = retained \cup {op.auth}
    /\ Goto("reserve")
    /\ UNCHANGED <<env, brain, proposals, rollbacks, inputs, audit, consumed,
                   recovery, staging, transactions>>

\* _reserve_unlocked: one reservation per identity and per nonce, for ever.  It
\* looks again for rivals; the lock has been held since Authorized looked.
ReserveAuthorization ==
    /\ op.step = "reserve"
    /\ \/ /\ consumed[op.auth] # "none"
          /\ Goto("intent")
          /\ UNCHANGED consumed
       \/ /\ consumed[op.auth] = "none"
          /\ Rivals(op.auth) = {}
          /\ consumed' = [consumed EXCEPT ![op.auth] = "reserved"]
          /\ Goto("intent")
       \/ /\ consumed[op.auth] = "none"
          /\ Rivals(op.auth) # {}
          /\ op' = Idle
          /\ UNCHANGED consumed
    /\ UNCHANGED <<env, brain, proposals, rollbacks, inputs, audit, retained,
                   recovery, staging, transactions>>

\* The "authorized" recovery event; then the manifest is built in memory with
\* created_at read from the clock, and compared with a stage left behind.
RecordIntent ==
    /\ op.step = "intent"
    /\ recovery' = WithPhase(op.auth, "authorized")
    /\ LET stage == staging[op.auth]
           next == CASE op.seen -> "staged"
                     [] ~op.seen /\ stage.state = "none" -> "stage"
                     [] ~op.seen /\ stage.state = "ready" /\ stage.created = now -> "staged"
                     [] OTHER -> "conflict"
       IN  op' = IF next = "conflict" THEN Idle
                 ELSE [op EXCEPT !.step = next, !.created = now]
    /\ UNCHANGED <<env, brain, proposals, rollbacks, inputs, audit, consumed,
                   retained, staging, transactions>>

\* The stage directory, and for an apply the canonical entry in it.
StageEntry ==
    /\ op.step = "stage"
    /\ staging' = [staging EXCEPT ![op.auth] = [state |-> "partial", created |-> op.created]]
    /\ Goto("manifest")
    /\ UNCHANGED <<env, brain, proposals, rollbacks, inputs, audit, consumed,
                   retained, recovery, transactions>>

StageManifest ==
    /\ op.step = "manifest"
    /\ staging' = [staging EXCEPT ![op.auth].state = "ready"]
    /\ Goto("staged")
    /\ UNCHANGED <<env, brain, proposals, rollbacks, inputs, audit, consumed,
                   retained, recovery, transactions>>

RecordStaged ==
    /\ op.step = "staged"
    /\ recovery' = WithPhase(op.auth, "staged")
    /\ Goto(IF op.prop.op = "apply" THEN "mkdir" ELSE "publish")
    /\ UNCHANGED <<env, brain, proposals, rollbacks, inputs, audit, consumed,
                   retained, staging, transactions>>

\* generations.mkdir(exist_ok=True): the first apply changes the inventory.
MakeGenerations ==
    /\ op.step = "mkdir"
    /\ genDir' = TRUE
    /\ Goto("publish")
    /\ UNCHANGED <<env, gens, proposals, rollbacks, inputs, audit, evidence>>

\* renameat2(RENAME_NOREPLACE) of the stage to its generation name; a name that
\* is taken raises.
PublishGeneration ==
    /\ op.step = "publish"
    /\ \/ /\ op.seen
          /\ Goto("published")
          /\ UNCHANGED <<gens, staging>>
       \/ /\ ~op.seen /\ ~Published(op.prop)
          /\ gens' = Append(gens, [prop |-> op.prop, auth |-> op.auth, created |-> op.created])
          /\ staging' = [staging EXCEPT ![op.auth] = NoStage]
          /\ Goto("published")
       \/ /\ ~op.seen /\ Published(op.prop)
          /\ op' = Idle
          /\ UNCHANGED <<gens, staging>>
    /\ UNCHANGED <<env, genDir, proposals, rollbacks, inputs, audit, consumed,
                   retained, recovery, transactions>>

\* What is published must be what this transaction would have written, its
\* created_at included.  A rollback does not compare.
PublishedMatches ==
    gens[op.prop.prior.len + 1] = [prop |-> op.prop, auth |-> op.auth, created |-> op.created]

\* Fault: a resumed rollback is compared with what it published, as an apply is.
RecordPublishedIfItMatches ==
    /\ op.step = "published"
    /\ recovery' = IF PublishedMatches THEN WithPhase(op.auth, "generation_published")
                   ELSE recovery
    /\ IF ~PublishedMatches THEN op' = Idle
       ELSE Goto(IF op.prop.op = "apply" THEN "committed" ELSE "started")
    /\ UNCHANGED <<env, brain, proposals, rollbacks, inputs, audit, consumed,
                   retained, staging, transactions>>

RecordPublished ==
    /\ op.step = "published"
    /\ \/ /\ op.prop.op = "apply" => PublishedMatches
          /\ recovery' = WithPhase(op.auth, "generation_published")
          /\ Goto(IF op.prop.op = "apply" THEN "committed" ELSE "started")
       \/ /\ op.prop.op = "apply" /\ ~PublishedMatches
          /\ op' = Idle
          /\ UNCHANGED recovery
    /\ UNCHANGED <<env, brain, proposals, rollbacks, inputs, audit, consumed,
                   retained, staging, transactions>>

\* Fault: the event is written again by every resumption.
AuditEachTime(type, next) ==
    /\ IF AuditWritable
       THEN audit' = Append(audit, Event(type, op.prop, op.auth)) /\ Goto(next)
       ELSE audit' = audit /\ op' = Idle
    /\ UNCHANGED <<env, brain, proposals, rollbacks, inputs, evidence>>

\* One "<operation>_started" or "<operation>_committed" event of this
\* transaction, unless the chain holds it already.
AuditOnce(type, next) ==
    /\ \/ /\ ChainValid /\ Audited(type, op.auth)
          /\ Goto(next)
          /\ UNCHANGED audit
       \/ /\ ~Audited(type, op.auth) /\ AuditWritable
          /\ audit' = Append(audit, Event(type, op.prop, op.auth))
          /\ Goto(next)
       \/ /\ ~ChainValid \/ (~Audited(type, op.auth) /\ ~AuditWritable)
          /\ op' = Idle
          /\ UNCHANGED audit
    /\ UNCHANGED <<env, brain, proposals, rollbacks, inputs, evidence>>

AuditRollbackStarted == op.step = "started" /\ AuditOnce("rollback_started", "committed")

AuditCommitted ==
    /\ op.step = "committed"
    /\ AuditOnce(IF op.prop.op = "apply" THEN "apply_committed" ELSE "rollback_committed",
                 "consume")

\* Fault: the transaction is written before the consumption is committed.
TransactionBeforeConsumption ==
    /\ op.step = "consume"
    /\ transactions' = [transactions EXCEPT ![op.auth] = op.created]
    /\ consumed' = consumed
    /\ Goto("transaction")
    /\ UNCHANGED <<env, brain, proposals, rollbacks, inputs, audit, retained,
                   recovery, staging>>

CommitConsumption ==
    /\ op.step = "consume"
    /\ consumed' = [consumed EXCEPT ![op.auth] = "committed"]
    /\ Goto("transaction")
    /\ UNCHANGED <<env, brain, proposals, rollbacks, inputs, audit, retained,
                   recovery, staging, transactions>>

\* The transaction is not on disk: a completed one was returned by a retry, or
\* by recovery, before this operation began.
WriteTransaction ==
    /\ op.step = "transaction"
    /\ transactions' = [transactions EXCEPT ![op.auth] = op.created]
    /\ Goto("terminal")
    /\ UNCHANGED <<env, brain, proposals, rollbacks, inputs, audit, consumed,
                   retained, recovery, staging>>

RecordTerminal ==
    /\ op.step = "terminal"
    /\ recovery' = WithPhase(op.auth, "terminal")
    /\ op' = Idle
    /\ UNCHANGED <<env, brain, proposals, rollbacks, inputs, audit, consumed,
                   retained, staging, transactions>>

Execute ==
    \/ RetainAuthorization \/ ReserveAuthorization \/ RecordIntent
    \/ StageEntry \/ StageManifest \/ RecordStaged
    \/ MakeGenerations \/ PublishGeneration \/ RecordPublished
    \/ AuditRollbackStarted \/ AuditCommitted
    \/ CommitConsumption \/ WriteTransaction \/ RecordTerminal

\* The process dies: its flock goes with it, the files stay.
Crash ==
    /\ op # Idle
    /\ <<op.prop.op, op.step>> \in CrashPoints
    /\ op' = Idle
    /\ UNCHANGED <<env, brain, proposals, rollbacks, inputs, audit, evidence>>

-----------------------------------------------------------------------------
(* recover_promotions: represent a reservation that has no recovery event, *)
(* then classify the transactions whose last event is not terminal.        *)

Unrepresented == {a \in Auth : consumed[a] # "none" /\ recovery[a] = <<>>}
Pending == {a \in Auth : recovery[a] # <<>> /\ recovery[a][Len(recovery[a])] # "terminal"}

RecoverIntent(a) ==
    /\ op = Idle
    /\ Unrepresented = {a}
    /\ recovery' = WithPhase(a, "authorized")
    /\ UNCHANGED <<env, brain, proposals, rollbacks, inputs, audit, consumed,
                   retained, staging, transactions, op>>

\* Fault: a published generation is taken for a complete transaction.
RecoverTerminalWhenPublished(a) ==
    /\ op = Idle
    /\ Unrepresented = {} /\ Pending = {a}
    /\ HasPhase(a, "generation_published")
    /\ recovery' = WithPhase(a, "terminal")
    /\ UNCHANGED <<env, brain, proposals, rollbacks, inputs, audit, consumed,
                   retained, staging, transactions, op>>

\* The transaction file exists: only the terminal event is missing.
RecoverTerminal(a) ==
    /\ op = Idle
    /\ Unrepresented = {} /\ Pending = {a}
    /\ a \in Transacted
    /\ recovery' = WithPhase(a, "terminal")
    /\ UNCHANGED <<env, brain, proposals, rollbacks, inputs, audit, consumed,
                   retained, staging, transactions, op>>

\* A stage that is on disk must hold a manifest of this transaction.
StageIsOwned(a) == staging[a].state # "partial"

\* Otherwise the evidence must be exact, and the operation runs again with
\* the retained authorization.
RecoverResume(a) ==
    /\ Unrepresented = {} /\ Pending = {a}
    /\ a \notin Transacted
    /\ a \in retained
    /\ StageIsOwned(a)
    /\ \/ /\ issued[a].op = "apply"
          /\ \E f \in File :
                /\ {g \in File : proposals[g] # None /\ proposals[g].pid = issued[a].pid} = {f}
                /\ Apply(proposals[f], a)
       \/ /\ issued[a].op = "rollback"
          /\ \E r \in rollbacks : r.pid = issued[a].pid /\ Rollback(r, a)

Recover(a) == RecoverIntent(a) \/ RecoverTerminal(a) \/ RecoverResume(a)

-----------------------------------------------------------------------------
Next ==
    \/ Tick
    \/ \E h \in SourceHead : Checkout(h)
    \/ \E c \in Candidate, d \in Decisions : AppendReview(c, d)
    \/ \E a \in Auth : \/ \E f \in File : Authorize(a, proposals[f])
                       \/ \E r \in rollbacks : Authorize(a, r)
    \/ \E c \in Candidate, f \in File : PreparePromotion(c, f)
    \/ WriteProposal
    \/ AuditPrepared
    \/ \E f \in File, a \in Auth : proposals[f] # None /\ PrepareRollback(proposals[f], a)
    \/ \E f \in File, a \in Auth : ApplyPromotion(f, a)
    \/ \E a \in Auth : RollbackPromotion(a)
    \/ Execute
    \/ \E a \in Auth : Recover(a)
    \/ Crash

Spec == Init /\ [][Next]_vars

\* What inspect_promotion advises while a reservation is open: the next command is
\* "promotion recover" (it fails where the committed event is there without its
\* transaction), and nobody starts anything else.
ReservationOpen == op = Idle /\ Unrepresented \cup Pending # {}
AdvisedNext ==
    \/ Tick
    \/ \E h \in SourceHead : Checkout(h)
    \/ \E c \in Candidate, d \in Decisions : AppendReview(c, d)
    \/ \E a \in Auth : \/ \E f \in File : Authorize(a, proposals[f])
                       \/ \E r \in rollbacks : Authorize(a, r)
    \/ /\ ~ ReservationOpen
       /\ \/ \E c \in Candidate, f \in File : PreparePromotion(c, f)
          \/ \E f \in File, a \in Auth : proposals[f] # None /\ PrepareRollback(proposals[f], a)
          \/ \E f \in File, a \in Auth : ApplyPromotion(f, a)
          \/ \E a \in Auth : RollbackPromotion(a)
    \/ WriteProposal \/ AuditPrepared \/ Execute
    \/ \E a \in Auth : Recover(a)
    \/ Crash

\* Operators rerun recovery as long as it has something to do, a process that is
\* not killed goes on, and from some time on none is killed: an operation that ends
\* and writes nothing has raised.  Time need not pass.
Fairness ==
    LET Proceed == WriteProposal \/ AuditPrepared \/ Execute
    IN  /\ WF_vars(Proceed)
        /\ WF_vars(\E a \in Auth : Recover(a))
        /\ <>[][Crash => Proceed]_vars

AdvisedSpec == Init /\ [][AdvisedNext]_vars /\ Fairness

-----------------------------------------------------------------------------
(* Safety. *)

\* One authorization identity, and one nonce, is behind at most one published
\* generation, whatever crashes, retries and recoveries happen.
OneGenerationPerAuthorization ==
    \A i, j \in DOMAIN gens :
        \/ AuthId[gens[i].auth] = AuthId[gens[j].auth]
        \/ Nonce[gens[i].auth] = Nonce[gens[j].auth]
        => i = j

\* A published generation can always be accounted for: its authorization was
\* reserved and retained and its stage recorded before, and its transaction is
\* either on disk or still open in the recovery log.
PublishedIsAccountedFor ==
    \A i \in DOMAIN gens :
        LET a == gens[i].auth
        IN  /\ issued[a] = gens[i].prop
            /\ consumed[a] # "none" /\ a \in retained
            /\ HasPhase(a, "authorized") /\ HasPhase(a, "staged")
            /\ a \in Transacted \/ a \in Pending

\* The brain is a lineage: a generation was derived from exactly the
\* generations before it, and a rollback undoes the apply just before it, so
\* that no promotion is rolled back twice or after another was applied.
BrainLineage ==
    \A i \in DOMAIN gens :
        /\ gens[i].prop.prior.len = i - 1
        /\ gens[i].prop.op = "rollback" =>
              /\ i > 1
              /\ gens[i - 1].prop.op = "apply"
              /\ gens[i - 1].prop.pid = gens[i].prop.pid

\* No entry and no semantic key enters the brain twice, not even after a
\* rollback withdrew it.
NoEntryTwice ==
    \A i, j \in DOMAIN gens :
        /\ gens[i].prop.op = "apply" /\ gens[j].prop.op = "apply"
        /\ SemanticKey[gens[i].prop.pid.cand] = SemanticKey[gens[j].prop.pid.cand]
        => i = j

NamesItsGeneration(a) ==
    gens[issued[a].prior.len + 1] =
        [prop |-> issued[a], auth |-> a, created |-> transactions[a]]

\* A transaction file is written last: the committed consumption, the audit
\* event and the recovery phases it stands for exist, and the transaction of an
\* apply names the very manifest that its authorization published.
TransactionIsBackedByEvidence ==
    \A a \in Transacted :
        /\ consumed[a] = "committed"
        /\ HasPhase(a, "generation_published")
        /\ Published(issued[a])
        /\ IF issued[a].op = "apply"
           THEN /\ NamesItsGeneration(a)
                /\ Audited("apply_committed", a)
           ELSE Audited("rollback_committed", a)

\* An apply_committed event names an authorization that published the
\* generation of its proposal, and however often a transaction is resumed it is
\* committed once in the log.
CommittedEventsAreTrue ==
    \A i \in DOMAIN audit :
        /\ audit[i].type = "apply_committed" =>
              \E k \in DOMAIN gens : /\ gens[k].auth = audit[i].txn
                                     /\ gens[k].prop = audit[i].prop
        /\ audit[i].type \in Terminal =>
              \A j \in DOMAIN audit :
                  audit[j].type = audit[i].type /\ audit[j].txn = audit[i].txn => i = j

\* The transaction of a rollback, too, names the manifest that is published.
RollbackNamesItsGeneration ==
    \A a \in Transacted : issued[a].op = "rollback" => NamesItsGeneration(a)

\* Knowledge becomes canonical only while its candidate's last review is the
\* acceptance the proposal bound, and any generation only by an operation that
\* found the source head of its proposal: no review gets between check and
\* rename, and a recovery resumes nothing that a review or a checkout since the
\* crash has outdated.
PublishesOnlyWhatIsAccepted ==
    [][\A i \in DOMAIN gens' \ DOMAIN gens :
          LET p == gens'[i].prop
          IN  /\ p.source = sourceHead
              /\ p.op = "apply" => Accepted(p.pid.cand) /\ ReviewHead(p.pid.cand) = p.pid.head]_vars

\* The entries a reader sees after k generations: applied and not undone.
Visible(k) ==
    {c \in Candidate :
        \E i \in 1 .. k :
            /\ gens[i].prop.op = "apply" /\ gens[i].prop.pid.cand = c
            /\ \A j \in i + 1 .. k :
                  ~ (gens[j].prop.op = "rollback" /\ gens[j].prop.pid = gens[i].prop.pid)}

Brain == INSTANCE CanonicalBrain
            WITH versions <- [k \in 1 .. Len(gens) + 1 |-> Visible(k - 1)]

\* Whatever crashes, races and resumptions happen below, the generations on
\* disk are a history of additions and of withdrawals of the last addition.
ImplementsCanonicalBrain == Brain!Spec

\* A committed promotion can be inspected: the audit chain on disk is one that
\* validate_audit_chain accepts.
CommittedIsInspectable ==
    \A a \in Transacted : op = Idle => ChainValid

-----------------------------------------------------------------------------
(* Liveness. *)

NothingRefused ==
    \A i \in DOMAIN audit :
        audit[i].type \notin {"prepare_rejected", "apply_rejected", "rollback_rejected"}

IsApply(a) == issued[a] # None /\ issued[a].op = "apply"

Outdated(a) ==
    \/ issued[a] # None /\ issued[a].source # sourceHead
    \/ IsApply(a) /\ issued[a].pid.head # ReviewHead(issued[a].pid.cand)

Expired(a) ==
    \/ issued[a] # None /\ now >= issuedAt[a] + AuthLife
    \/ IsApply(a) /\ ~Unexpired(issued[a])

\* A stage, or the generation of an apply, that bears an earlier second than the
\* one a resumption would write into its manifest.
Late(a) ==
    /\ op = Idle
    /\ \/ staging[a].state = "ready" /\ staging[a].created # now
       \/ /\ IsApply(a) /\ a \notin Transacted
          /\ Published(issued[a])
          /\ gens[issued[a].prior.len + 1].created # now

\* A stage that was begun and has no manifest.
HalfStaged(a) == op = Idle /\ staging[a].state = "partial"

\* The apply made brain/generations and published nothing: the inventory is no
\* longer the one its proposal binds.
Unbound(a) ==
    /\ op = Idle
    /\ IsApply(a) /\ ~Published(issued[a])
    /\ genDir # issued[a].prior.dir

\* A reservation whose audit has room for the two events it may still need, and no
\* refusal in it (CommittedIsInspectable says what one does there).
Resumable(a) == consumed[a] = "reserved" /\ Len(audit) + 2 <= MaxAudit /\ NothingRefused

\* A reservation is never left half done: wherever its process died, and in
\* whatever second it is resumed, recovery completes the operation it stands for,
\* down to its transaction and terminal event.  Excused is an authorization or
\* proposal that expires, one that a checkout or a review has outdated, and the
\* three states that recover_promotions leaves to an operator for ever.
ReservationResolves ==
    \A a \in Auth :
        Resumable(a) ~> \/ HasPhase(a, "terminal")
                        \/ Outdated(a) \/ Expired(a)
                        \/ Late(a) \/ HalfStaged(a) \/ Unbound(a)
=============================================================================
