# AO Lore: models, checks and proofs

AO Lore is a local-first store of document knowledge. Documents are turned into
*candidates*; reviewers accept or reject them; a governed *promotion* makes an
accepted candidate *canonical* by adding a generation to `brain/`. This
directory holds TLA+ modules of that system, the TLC configurations that check
them, and theorems about them that TLAPS proves. Paths below are those of the
repository, with `src/` in front.

Run a check with, say, `tlc -workers 2 -config MCPromotion_safety.cfg MCPromotion`
and the proofs with `tlapm` on `PromotionProofs.tla`, `PromotionOutcomes.tla`,
`WorkspaceProofs.tla`, `EvidenceProofs.tla`, `BatchProofs.tla`, `SelectionProofs.tla`,
`CampaignProofs.tla` and `SourceViewerProofs.tla`.

## Inventory

| part | state it keeps | operations | hard behaviour | modelled |
|---|---|---|---|---|
| promotion (`promotion.py`) | `brain/generations`, and below `.ao-lore/promotions`: proposals, rollback proposals, audit chain, consumed and retained authorizations, recovery log, staging, transactions, one lock file | prepare, apply, prepare rollback, roll back, recover, inspect | a crash between any two of fourteen durable writes; resumption by another process at another time; one-use authorizations; a source head and reviews that move | yes |
| candidate store (`candidates.py`) | per candidate: package, provenance, review chain, `.review.lock` | publish, append review, inspect | two writers of one candidate, stale lock file and torn event after a crash | persistence, verification and reviews; not the listing and the sealed store |
| canonical reader (`knowledge.py`) | none: replays the generations | snapshot, answer, list | reads while a promotion publishes; a lock file that is not there yet | replay, as refinement mapping |
| document ingestion (`ingestion.py`, parsers, `docx_ooxml.py`, distillation, scoring) | none | bytes to candidate | bounds of parsers; a source that changes between two readings | persistence and reconciliation; parsing is a function |
| batch ingestion (`batch_ingestion.py`) | manifest, checkpoint, final readback, lock | run, resume | crash between candidate and checkpoint; batches that share documents; reviews in between | yes |
| workspace registry (`workspace_registry.py`) | registry generations, intents, completions, staging | publish, recover, select | crash in intent, stage, rename, completion, clean-up | yes |
| workspace documents (`workspace_documents.py`) | document generations, recovery runs, staging | publish, recover, load | two publications, one inside the other; readers without a lock | yes |
| workspace runtime (`workspace_runtime.py`) | sealed contexts | open, refresh, replay, recover | contexts that outlive what they seal | no: delegates to the parts around it |
| evidence acquisition (`evidence_acquisition.py`) | pending records, intents, staging, artifacts, records | acquire, recover | network answers, orphaned records | yes |
| evidence freshness (`evidence_freshness.py`) | bundles, refresh journal, observations, summaries | persist, refresh, recover | a journal resumed step by step, with a bundle published inside it | refresh and recovery; not the stand-alone bundle |
| evidence selection (`evidence_selection.py`, `evidence_candidate.py`) | per workspace: proposals, authorizations, reservations, consumptions, transactions, audits, completions; an index of the first two; a candidate | prepare, authorize, apply, inspect, recover | authorizations used once, retried after a crash by the clock of the retry; a recovery without a lock; reviews between publication and transaction | yes, for one workspace |
| evidence graph, queries | immutable snapshots | derive, query | derivations only | no |
| source viewer (`source_viewer/`) | sessions, handles, grant | login, resolve, open, log out | threads, expiry during rendering | the threaded server |
| navigation, synthesis, model roles, evaluation, benchmarks, character recognition | none | pure functions | budgets | no |
| acceptance campaigns (`private_document_uat.py`, `private_*_uat.py` and their workers) | a private corpus with its recovery bundle; per run: intent, evidence, cleanup ledger, quarantine, staged copies, sealed cache, terminal evidence | prepare and clean a corpus, run | a worker killed on purpose; a run without a lock, lost at any write and taken up by the next; removal that must be exact | the PDF campaign over the representative corpus |
| sanitized lifecycle, release gates, command line | reports | drive the above in one sequence | none of their own | no |

Components meet in few places: every writer of canonical state and every review takes
the one lock file `promotion.lock`; the reader shares it; promotion reads the candidate
store; workspace documents publish into the workspace registry while they hold its lock;
a selection reads what the registry names and publishes a candidate; refresh drives
acquisition and freshness; a campaign's worker ingests a batch, and its run removes that
batch and its candidates again.

What makes each part correct: promotion, that nothing becomes canonical without a
current acceptance and an unspent authorization, that it happens once, and that the
evidence on disk says so; the candidate store, that a review chain only grows and a
candidate never changes; the reader, that it answers from one state of the brain; the
publication stores (registry, documents, acquisition, freshness), that after a crash
their recovery reaches the state the completed publication would have reached, or leaves
it untouched; batches, that every document gets one terminal item; selections, that a
candidate made from evidence can be traced to one authorization and is committed at
last; campaigns, that they remove all they made and nothing else, before they publish
their evidence or after they were lost; the viewer, that nothing is served after the
session, the handle or the grant ended.

## Modules

Seven groups, each with a module `MC...` that gives its constants values and each
checked alone, because the parts share no more than the component table says:

| group | modules | checked as |
|---|---|---|
| promotion | `Promotion`, its abstract specification `CanonicalBrain`, theorems in `PromotionProofs` and `PromotionOutcomes` | `MCPromotion` |
| workspaces | `WorkspaceRegistry`, extended by `WorkspaceDocuments`, theorems in `WorkspaceProofs` | `MCWorkspace` |
| evidence | `EvidenceAcquisition`, extended by `EvidenceRefresh`, theorems in `EvidenceProofs` | `MCEvidence` |
| batches | `CandidateStore`, extended by `BatchIngestion`, theorems in `BatchProofs` | `MCBatch` |
| selection | `CandidateStore`, extended by `EvidenceSelection`, theorems in `SelectionProofs` | `MCSelection` |
| campaigns | `PrivateCorpus`, extended by `PrivateCampaign`, theorems in `CampaignProofs` | `MCCampaign` |
| viewer | `SourceViewer`, theorems in `SourceViewerProofs` | `MCViewer` |

In all but the viewer, one action is one durable write in the order of the code, so
that a crash may fall between any two; the readings and checks that precede a
write belong to its action when a lock keeps what was read from changing, and are
actions of their own when nothing does. An operator named after a fault (its
comment begins with "Fault:") is no part of any specification; it is the form a
definition would have after a plausible mistake, and shows that a property notices.

### Promotion

`Promotion.tla` models `promotion.py`. Every operation holds `promotion.lock`
from its first read to its last write, so there is at most one in progress: the
variable `op` (its step, its proposal, its authorization). **One action is one
durable write**, in the order of the code, so that `Crash` may fall between any
two of them; a raise in the middle is `op' = Idle` with all files kept. Reads and
checks that precede the first write belong to the action that begins the
operation.

| model | code |
|---|---|
| `reviews`, `AppendReview` | the review chain of a candidate; `append_review` under the global lock |
| `genDir`, `gens` | `brain/generations` |
| `proposals`, `rollbacks` | `proposals/`, `rollback-proposals/` |
| `issued`, `issuedAt`, `Authorize` | an authorization file and what it binds |
| `audit`, `ChainValid`, `AuditWritable` | `audit/`, `validate_audit_chain`, `_audit` |
| `consumed`, `retained` | `consumed/`, `retained/` |
| `recovery`, `staging`, `transactions` | `recovery/`, `staging/`, `transactions/`, by transaction |
| `PreparePromotion`, `WriteProposal`, `AuditPrepared` | `prepare_promotion` |
| `PrepareRollback` | `build_rollback_proposal`, with the inspection it requires |
| `Apply`, `Rollback` | the checks of `apply_promotion`, `rollback_promotion`, and their audited refusals |
| `RetainAuthorization` ... `RecordTerminal` | their fourteen writes |
| `RecoverIntent`, `RecoverTerminal`, `RecoverResume` | `recover_promotions` |

Abstractions. A digest is the value it binds. The brain inventory digest is the
pair (does `brain/generations` exist, how many generations), which is exact
because generations are only ever appended. A generation name is determined by
the length of the brain, the candidate and its review head (`SameGeneration`),
not by the time, as in the code. A transaction is known by its authorization,
since an authorization binds one proposal; `transactions[a]` is the `created_at`
of the manifest it names. Expiry is a number of seconds after issue. A recovery
that represents a reservation (`RecoverIntent`) and then resumes it is two
steps: between them other operations could run in the model, as they can in the
code when the recovery is killed there. The two public functions
`reserve_authorization` and `commit_authorization_consumption` do under the lock
what `ReserveAuthorization` and `CommitConsumption` do; nothing in the package
calls them.

`CanonicalBrain.tla` is the abstract specification: a history of versions, each
the set of entries a reader sees; an entry is added once, and only the last
addition may be withdrawn. `Promotion` maps to it by `versions[k + 1] = Visible(k)`,
which is the replay `knowledge.py` does over the first k generations.

`MCPromotion.tla` gives the constants of the instances. `PromotionProofs.tla` and,
on top of it, `PromotionOutcomes.tla` hold the theorems.

### Workspaces

`WorkspaceRegistry.tla` models the registry of `workspace_registry.py` and
`WorkspaceDocuments.tla`, which extends it, the document stores of
`workspace_documents.py`. Both kinds of publication, and both recoveries, hold
`registry.lock` from their first read to their last write: `op` is the one in
progress. A publication of documents runs a registry publication inside its own,
so `op` carries the run of each store.

| model | code |
|---|---|
| `layout`, `CreateLayout` | the registry's directories, made in two steps |
| `gens`, `Latest`, `Selectable` | `generations/`, `load_latest_registry`, `select_registry_generation` |
| `runs`, by how far they are (`RunStates`) | intent, stage, completion of a publication |
| `BeginPublish`, `WriteIntent`, `ReturnUnpublished`, `MakeStage` ... `UnlinkIntent` | the publication by definitions or by exact generation |
| `BeginRecover`, `Recoverable`, `TakeUp` | `recover_workspace_registry` |
| `docLayout`, `docGens`, `docRuns` | per workspace: `documents/`, its generations, `recovery/` and `staging/` |
| `BeginDocuments` ... `WriteDocCompletion` | `publish_workspace_documents` |
| `Compact`, `ForgetIntent`, `RemoveRunDirectory` | the compaction of finished runs |
| `RecoverDocuments`, `ResumeStep` | the resumption of a run |
| `ListRegistry`, `CheckRegistry`, `CheckDocuments`, `ReadGenerations` | the load of a workspace's documents, which takes no lock, read by read |
| `TearRegistryFile`, `TearDocumentFile` | a process dies inside a write: the file is there and is not whole |

A definition is its version, whether it is active and which document generation
it names; a document generation its content, the registry generation it was
derived from and whether its manifest is in it. An operator may publish
definitions he derived from any generation he has ever read.

### Evidence

`EvidenceAcquisition.tla` models `evidence_acquisition.py` and
`EvidenceRefresh.tla`, which extends it, the refresh of `evidence_freshness.py`.
Both hold the evidence lock.

| model | code |
|---|---|
| `records`, `artifacts` | what is acquired: a record per source, artifacts by content |
| `pending`, `intents`, `parts`, `terminals` | the files of an attempt, which is named by its source and its content |
| `BeginAcquire`, `WritePending` ... `WriteTerminal`, `AcquireFails` | `acquire_official_evidence`, source by source |
| `Resumable`, `RecoverAttempt` | `recover_official_evidence` |
| `runs`, `part` | the journal of a policy's refreshes: receipts, prepares and steps; a body that is staged |
| `BeginRefresh`, `NextStep` | the scan of the journal, and where a run goes on |
| `StageBody`, `WriteReceipt`, `RetainBody`, `WritePrepare`, `PublishObservation`, `PublishComparison`, `WriteStep` | one source of a refresh |
| `Preflight`, `WriteBundle`, `WriteDone` | the bundle of a finished run: intent, stage, publication, terminal, clean-up |
| `RecoverBundle` | `recover_freshness_transactions` |
| `Blocked` | inventories refuse everything: a torn file, a bundle without intent, too many public files |

A source's answer is what it says and what it contains; redirects, hosts, media
types and the budget of bytes are an answer or a failure. A torn pending record
or a torn intent leaves what the pending record alone leaves: an attempt of that
name is refused for ever. A torn body is as good as a body without a receipt. A torn
file in a bundle's stage is counted as damage to the store, which is more
than the code refuses. A recovery takes up one attempt at a time; attempts
are independent of each other there.

### Batches

`CandidateStore.tla` models what others may do to a candidate: `append_review`
with its local `.review.lock` and its event written in place (a reader between
`CreateEvent` and `WriteEvent` meets a file that is not whole). `BatchIngestion.tla`
extends it with `ingest_batch` of `batch_ingestion.py` and the part of `ingestion.py` and
`candidates.py` it calls. A batch directory is locked, a candidate is not,
so every access to a candidate is an action.

| model | code |
|---|---|
| `candidates`, `reviews`, `torn`, `locks` | the package with its provenance, the review chain, an event that is not whole, `.review.lock` |
| `checkpoints`, `finals` | `checkpoint.json`, `final-readback.json` |
| `Open`, `Verified` | initialisation, or `_verify_candidates` |
| `ReadSource`, `Propose` | the two readings of a source, and the provenance proposed for it |
| `Persist`, `Rename`, `Reconciles` | `persist_candidate` and `_reconcile_existing` |
| `Reopen` | the readback of the persisted candidate |
| `CheckItem`, `AppendItem`, `CheckAll`, `WriteFinal` | verification and then writing of an item, and of the final readback |
| `spoiled`, `Spoil` | a source that no longer is what the manifest binds |

Parsing, the quality gates and distillation are a function from a document to a
candidate and a *trace* (the part of its provenance that a reconciliation
compares); every reason to refuse a document is `spoiled`. A provenance is a
trace and the time at which it was made. Which error the file system gives to the
loser of a rename decides how it goes on, so both ways are in the model; a
conflict it finds there stops its run instead of rejecting the document, because
the code looks at the chain of the exception.

### Selection

`EvidenceSelection.tla` extends `CandidateStore` with `evidence_selection.py`: a proposal
is put into the selection directory of its workspace and authorized there; its application
publishes a candidate between five records. One action is one durable write
of one of three processes: who authorizes, who applies under the lock of the
candidates, and who recovers the workspace under none.

| model | code |
|---|---|
| `prepared` | what a proposal binds: the registry generation and the time |
| `files`, by kind and by what they are about | the seven subdirectories of the selection, and the index |
| `work` | the next write of each process |
| `Adds`; `WriteFile`, `CreateFile`, `FillFile`, `MeetFile` | `_write_json_fd`: a name is created and then written; a name that is there must say the same |
| `Prepare`, `Authorize` | `prepare_evidence_selection` and `persist_prepared_selection`, `authorize_evidence_selection` |
| `Bound`, `Fresh`, `FirstStep`, `Apply` | what `apply_evidence_selection` checks under its locks before it writes |
| `PersistCandidate`, `Reopen` | the candidate, and its readback with the listing of its directory |
| `Recoverable`, `NoTerminals` | `inspect_evidence_selection` and the other checks of a recovery |
| `RecoverSuffix`, `RecoverAuthorized` | `_recover_committed_suffix`, and the application a recovery makes |

A body is the time recorded in it, the only part in which two writers of one name can
differ. Two processes can write the terminal records at the same time, so these are
created and filled in two steps; the other files take one, and a death inside it leaves
them torn. Reading merges into one step what a process reads before its first write:
files only come, so what it finds was there together at the last of its readings. An
authorization is issued in the second of its check. The registry stands also for the
evidence it names. The clock, the registry and the source head are counted from the
first proposal. What could go wrong between two workspaces is the lock of the
candidates, which is taken here, and nothing else.

### Campaigns

`PrivateCorpus.tla` models the intake and the cleanup of a corpus in
`private_pdf_uat.py`, which hold the private lock: `job` is the one in progress.
`PrivateCampaign.tla` extends it with a run: `run_private_document_uat` of
`private_document_uat.py` with the dependencies `private_pdf_uat.py` gives it and
the worker of `private_pdf_uat_worker.py`. A run holds no lock after it has loaded its corpus,
so the corpus may be cleaned and prepared again under it.

| model | code |
|---|---|
| `corpus`, `stage`, `quarantine`, `bundle`, `marker` and the drafts of the last two | the directories of a corpus and of its cleanup, and the reclamation marker |
| `BeginIntake` ... `PublishCorpus`, `DiscardStage`, `IntakeFails` | `prepare_representative_pdf_corpus` |
| `BeginClean`, `ResumeClean`, `CreateBundle` ... `UnlinkMarker`; `ReclaimDraft`, `ReclaimMarkerDraft` | `cleanup_private_pdf_uat`, which goes on from what it finds |
| `intent`, `journal`, `evidence`, `bound`, `retained` | `preparation-intent.json`, a run's directory with its conversion journal, `prepared-run-evidence.json` and the corpus it binds, the terminal evidence |
| `plan`, `ledger`, `box` | the targets of a cleanup, `cleanup-recovery.json`, the quarantine directory |
| `place`, `content` | where a target is (its name, the quarantine, nowhere), and what is left in it |
| `BeginRun`, `EndScan`, `past`, `earlier` | the scan of the runs there have been, in the order of their random names |
| `UndoPreparation`; `PersistIntent` ... `UnlinkIntent`, `PrepareFails` | `_default_prepare_uat_run` |
| `Launch`, `Interrupt`, `LoadFinal`, `Verify`, `RunFails` | `run_private_document_uat` |
| `InitializeBatch`, `Convert`, `RecordItem`, `PersistReadback`, `AtBarrier` | the worker, with the batch it ingests |
| `PlanCleanup`, `MarkCleanup` | `_default_cleanup_uat_staging`, `_cleanup_partial_uat_state`, `_prepare_orphan_uat_cleanup`; `_ensure_uat_cleanup_recovery` |
| `Reclaim`, `ReclaimRefused` | `_resume_uat_cleanup_value` |

The files of a target stand as one and so do the directories in it, since the ledger
treats each like the next one; the checks of digests and identities are `Live` and
`RunIsCurrent`. The documents of a batch are taken in any order. A document whose
candidate was there leaves an item without a candidate of its own. A document that is
rejected, which leaves an item and no candidate at all, is not represented: it adds
nothing to what a cleanup has to account for. Operators begin one run at a time. A batch
has no temporary files here, because whoever opens it next removes them (that is in
`BatchIngestion`); the temporary files that a run itself leaves are `spilled`. The third
launch of a worker, which converts nothing, and the calibration change no state that is
modelled.

### Viewer

`SourceViewer.tla` models the threaded server of `source_viewer/server.py`. Here
one action is what a request does while it holds the server's lock, or one call
it makes outside of it; `Script` lists them for each route in the order of the
code (`check` is `authenticate`, and again `_session_live`; `authorize`
asks the store). A launch code starts at most one session, so there is at most
one. The approval is in force until it ends, for whatever reason; reading and
rendering may fail. A connection that gets no slot is dropped and changes
nothing. A session that ends between the check and `issue` is an internal error in the
code, and a refusal in the model. `ShownWhileApproved` is about what is rendered
or projected, which the code checks again before it shows it; it does not check
again after reading an original.

## Runs

| run | question | result |
|---|---|---|
| `safety` | three candidates, two with one payload; two proposal files; three authorizations, two sharing a nonce; two reviews; clock 0..1 with lives of one second, so that proposals and authorizations expire; death after the reservation, in the middle of the stage, between `generations.mkdir` and the rename, after the audit of an apply, and in a rollback | holds, 0.48 million states |
| `recovery` | operators follow what inspection advises; two authorizations, two reviews, a source head that moves between operations, a clock 0..1 that moves or not between a death and its recovery; death at any write after the reservation, any number of times but not for ever | holds, 0.44 million states |
| `audit` | is a committed promotion inspectable | violated: finding 1 |
| `rollback` | does a rollback's transaction name the published manifest | violated: finding 2 |
| `workspace` | two workspaces registered, edited from old readings and given documents; one process dies between or inside any two writes; a reader without a lock | holds, 0.36 million states |
| `workspace_isolation` | the same without crashes: can the documents be loaded that the registry names | violated: finding 3 |
| `evidence` | two sources acquired, then refreshed under a policy up to twice, with a death between or inside any two writes and one tick of the clock | holds, 0.1 million states |
| `batch` | two batches that share a source, one of them under two contexts; a review, a changed source, two deaths and a tick, at any point | holds, 0.13 million states |
| `selection` | one proposal, authorized up to twice; an application and a recovery beside each other, a review, a registry generation or a commit; a death between or inside any two writes; a clock of three seconds, with lives of two | holds, 0.64 million states |
| `viewer` | two slots, one session of two seconds, handles of one; login, resolution, opening and logout beside each other; the approval ends at any point | holds, 0.13 million states |
| `campaign` | a corpus of two documents, prepared, ingested by up to two runs and cleaned; candidates of others; one death of a run or of a job on the corpus, at any write | holds, 1.3 million states |
| `campaign_loss` | one document, one death: does repeating a lost run recover it | violated: finding 4 |

Promotion. `safety` checks `OneGenerationPerAuthorization` (one identity or nonce, one
generation), `PublishedIsAccountedFor` (a generation is never orphaned),
`TransactionIsBackedByEvidence` (the transaction is the last word, and true) and
`CommittedEventsAreTrue` (the audit log does not commit what was not published, nor
twice), `BrainLineage`, `NoEntryTwice` and the refinement `ImplementsCanonicalBrain`. In
`recovery` both operations may be killed at every write after the reservation and
resumed in the same second or the next one. It checks `ReservationResolves`, which is
liveness: recovery, repeated, completes the reservation, except in three states from
which it never does. These are a stage, or the generation of an apply, of an earlier
second (`Late`), a stage without its manifest (`HalfStaged`), and a `brain/generations`
made by an apply that has published nothing (`Unbound`: its brain binding never matches
again). An authorization or a proposal that expires (`Expired`) or that a checkout or a
review has overtaken (`Outdated`) is excused too. TLC finds a counterexample when any
one of the excuses is taken away (`Expired` with a clock of one second more, and one
review). `Late` is worth a reader's attention: an apply that died behind its stage can
be recovered within the second of its death and never after it, while inspection goes on
to advise `promotion recover` or fails. The tests of the recovery
(`test_every_nonterminal_apply_boundary_resumes_or_completes`) inject a fixed clock.
`recovery` checks also `PublishesOnlyWhatIsAccepted`, an action property: no review gets
between check and rename, and recovery resumes nothing that a review or a checkout since
the crash has outdated. It is checked here under the advised use only, and proved
without that restriction (`ReviewsAreHonoured`). Nothing keeps git from moving under a
running operation; the property speaks of the head the operation read at its checks, so
the model lets the checkout move only between operations.

Workspaces. `OneOpenRun`: recovery, which refuses to choose between two runs,
never has to. `NoLostUpdate`: an operator who publishes what he derived long ago
takes back neither documents nor a version. `StoresAgree`: what the registry
names is there, and what it never named is the last generation, of a run that
is still open. `NothingPublishedTwice`: a publication that died and is both recovered and
retried is appended once. `LoadIsConsistent`: a reader returns what the registry it
has read names. `OpenRunsEnd`: recovery ends every document run that no
torn file has damaged and that no registry publication has overtaken.
`NamedIsWhole` is stated and not run: a process that dies after it has created the stage
directory of documents and before their manifest leaves a directory that
its resumption publishes as it is.

Evidence. `RecordHasItsArtifact`, however many attempts for one source died;
`EvidenceIsRetained`: an observed body is not lost between its receipt
and its retention, nor ever from under a summary; `JournalIsBacked`: what is public is
what a journal says, and the reverse; `OneOpenRun`; `SummaryIsCoherent`: a summary puts
together observations that were current together, although a run
is resumed by a process whose clock was read before it waited for the lock;
`RefreshEnds`: the next refreshes end a run that died, unless it is `Stranded`.

Batches. `ItemsAreTrue` and `CreatedOnce` say what an item means whatever other batches
and reviewers do meanwhile: that its candidate is there with that provenance
(`FoundIsThere`), or its document was rejected for its source or a conflicting
provenance and never for a lost race, a review in progress or an earlier crash
(`RejectedForCause`); and that one item at most created a candidate. `BatchEnds`: a
batch that is run again ends, unless it is `Stranded`. A reviewed candidate strands it:
the verification of the checkpoint compares the review status too, so that a batch one
of whose candidates was reviewed can neither be resumed nor, once it is finished, be run
again, although `workflows/process-ingested-document.md` says of a rerun that it
"returns the same result".

Selection. `SelectionIsBacked`: through crashes, retries and a recovery beside an
application every record is there only behind its cause, whole, and the times recorded
are in order (`RecordsAreInOrder`, `RecordsAreInTime`); a candidate has what its
proposal binds and a reservation behind it (`CandidateIsAuthorized`), so that it can be
traced even when its application died and never came back. `SelectionEnds`: an issued
authorization is committed at last, wherever its applications and recoveries died,
unless it is `Overtaken` (no longer current, its candidate reviewed or being reviewed,
not the only one) or one of three things was left: a torn file, a reservation or
consumption of an earlier second (`Late`), an audit without a completion (`Halfway`).
`Late` is worth a reader's attention here as well: a retry in a later second than the
death conflicts with the reservation for ever, although the candidate may be public by
then. The test of this recovery retries under a fixed clock.

Campaigns. `CorpusIsKept`: however often its cleanup dies, every entry of a corpus is
in exactly one place, and none outside the bundle when that may be destroyed.
`EverythingIsClaimed`: whatever a run has made is under a record by which a
later run finds it, while records replace one another. `LedgerIsTrue`: a
resumed cleanup can tell what it removed from what somebody else removed.
`CleanupIsExact`: candidates of others stay, through failures and recoveries, and a
run that retains its evidence has ingested its whole batch and left nothing.
`LostRunIsRecovered` is the property of `campaign_loss`; it holds if cleaned runs leave no
names behind.

Viewer. `HandlesEndWithSession`, even if a handle is issued while another thread
logs out; `ShownWhileApproved`: nothing is shown that was read after the approval
or the session had ended, however long it took to render; `RequestsEnd`: every
request gives its slot back.

### Bounds

Promotion: the audit log is bounded to 6 events, against 100,000 in the code: six are a
promotion and its rollback from the first event to the last; `safety` stops at four, so
that refusals exhaust the log, and leaves the end of a rollback to `recovery`. In
`recovery` the clock is 0..1 and lives are of two seconds, so that a recovery may be
late and nothing expires; that is in `safety`. Three authorizations are the least with
two rivals and a bystander; two candidates of one payload and a third are the least for
a collision and a non-collision; one file suffices where proposals do not compete.
Reviews are bounded in all (`MaxReviews`): two acceptances, or one and a rejection in
the middle of an operation. `safety` uses the symmetry of the files, of the
authorizations with one nonce and of the candidates with one payload; all its properties
are safety properties that do not tell them apart.

Workspaces: operators begin publications of definitions while there are fewer than three
registry generations (`MaxSequence`), enough for two registrations and an edit;
documents go on to five (`MaxGenerations`, 128 in the code), where the limit of the code
is met. One finished run is kept (`MaxTerminal`), so that the second publication for a
workspace compacts. One death may fall into each window between two writes, or into any
write, and what follows it is not cut short. Evidence: two sources, two contents and
room for two artifacts, so that after both are there an acquisition finds no room; three
public files, so that a second run meets the limit; an age of 0 and a clock of 0..1, so
that a resumed run may be too old. The run has one scope: a second one multiplies the
states and is kept out by `BeginRefresh` while a run is open. Batches: two documents of
one candidate under two contexts are the least for a batch that conflicts with itself, a
second batch with one of them the least for a race; two deaths strand a reviewer and a
batch. Selection: one proposal with two authorizations is the least for a recovery that
cannot choose and for an application that finds the candidate of another; one death, one
review and one move of the registry or of the head may each fall anywhere; three seconds
with lives of two are the least in which a retry is late and nothing has expired.
Campaigns: two documents are the least for an interruption between two, and for a
candidate of the run beside one of somebody else; two runs the least for a recovery by
the next one; one corpus may be published (`MaxCorpora`) and cleaned under a run; a
second death, during the recovery from the first, is left to the theorems. `campaign`
uses the symmetry of the documents. Viewer: two threads are the least for a request
beside another one, one handle and one failed login are the limits; the launch code and
a handle end before the session.

Deadlock is not checked: a brain with nothing left to promote stops, and so do a
registry, an evidence store, a batch, a selection, a campaign and a session that reach their bounds.

### Fairness

It is assumed only by the liveness properties. Everywhere a process that is not
killed goes on (weak fairness of its steps), and deaths end: their number is bounded, or
(`recovery`) from some time on nobody is killed.

- `recovery`: operators rerun `promotion recover` while it has something to do
  (weak fairness), which is the next command `inspect_promotion` gives for an open
  reservation; nobody is assumed to begin, to authorize or to wait for the clock.
  `AdvisedNext` states the advised use: while a reservation is open, nothing but
  recovery starts. Without it two open reservations stop recovery for good
  (`ambiguous_pending_recovery`), which is the documented behaviour. `Resumable` asks for
  room for two audit events and for no refusal in the chain, after which no
  committed event can be added (finding 1).
- `workspace`, `evidence`: an operator who is told that a recovery is pending runs it
  and waits in `flock` until he has the lock, however often others take it before him
  (strong fairness of the recovery, or of the next refresh); for a
  refresh, a source that is asked again and again answers at last. A call that a
  recovery refuses is not assumed to succeed: `Damaged`, `Overtaken` and `Stranded`
  name the states in which the code leaves the matter to an operator.
- `batch`: a batch without its final readback is run again (strong fairness of
  `Open`, because a review in progress makes a run fail). Excused (`Stranded`):
  a candidate that was reviewed after its item, and an event left torn by a
  reviewer who died.
- `selection`: an application goes on, and an operator asks for the recovery of the
  workspace again and again (weak fairness of both). Nobody is assumed to repeat an
  application, so that what only that would end is excused (`Halfway`).
- `campaign_loss`: a run, its worker and the jobs on a corpus go on until they die, and the
  operator repeats the run whenever it can begin (strong fairness of `BeginRun`).
  The property speaks of a run that was lost after the last death, with nothing it made
  damaged, and only as long as its corpus stays.
- `viewer`: threads go on: sockets and the renderer have timeouts, and no thread
  waits for anything while it holds the lock.

## Findings

1. `audit`: a refused apply that later succeeds poisons the audit chain.
   `apply_rejected` may be followed by `apply_started`, which nothing writes, but
   not by `apply_committed`; `_audit` validates the chain before it adds to it.
   From then on every operation that reads the chain fails.
2. `rollback`: a resumed operation rebuilds its manifest at the current second. A
   rollback records the digest of the rebuilt one without comparing it with the
   published one, so that a late recovery reports success and leaves a
   promotion that inspection rejects. An apply does compare them, so that its recovery
   succeeds only within the second of the death (`Late`, above).
3. `workspace_isolation`: documents are bound to the registry generation after
   the one they were derived from. Any later one, such as the registration of
   another workspace, makes the documents of an active workspace
   unloadable, and a pending recovery of theirs impossible, although the registry
   goes on naming them.
4. `campaign_loss`: a lost run may never be recovered. The scan that begins every
   run demands of each run cleaned before that nothing has the name of one of its
   targets; but every run stages under `sources/.private-pdf-uat`, and runs over one
   corpus create the same candidates. If a cleaned run sorts before a lost one, the scan
   stops at the first and never comes to the second.

The first two were reproduced by running the code with the clock or the source head the
counterexample gives, the fourth with two runs whose names sort as it says; and both
kinds of `Late`, by recovering from each failpoint of the tests one second later.
Promotion has two more windows in which recovery is known to stop, a stage without a
manifest (`staging_ownership_uncertain`) and a `brain/generations` directory made by a
first promotion that died before its rename; both are in the runs, and excused as
`HalfStaged` and `Unbound`. Of campaigns, three windows are in the model and end with an
operator: a cleanup that died among the directories of a target opens the removed ones
again and fails (`ReclaimRefused`, reproduced as well); one that died between its
evidence and its ledger counts as completed and is not (`BeginRun`); and a run lost
before its worker opened the batch has no checkpoint to plan its cleanup from
(`PlanIsExact`).

## Proofs

### Promotion

For any sets of candidates, authorizations and files, any lives, any crash
points and any bound:

| theorem | statement | module |
|---|---|---|
| `TypeCorrect` | `Spec => []TypeOK` | `PromotionProofs` |
| `AuthorizationsAreUsedOnce` | `Spec => []OneGenerationPerAuthorization` | |
| `GenerationsAreAccountedFor` | `Spec => []PublishedIsAccountedFor` | |
| `BrainIsALineage` | `Spec => []BrainLineage` | |
| `EntriesAreNew` | `Spec => []NoEntryTwice` | `PromotionOutcomes` |
| `TransactionsAreTrue` | `Spec => []TransactionIsBackedByEvidence` | |
| `CommitsAreTrue` | `Spec => []CommittedEventsAreTrue` | |
| `ReviewsAreHonoured` | `Spec => PublishesOnlyWhatIsAccepted` | |
| `PromotionImplementsBrain` | `Spec => ImplementsCanonicalBrain` | |

Of the properties only `NoEntryTwice` is inductive relative to the rest; the
others are strengthened. The first four follow from `IInv == Typed /\ Backed /\
Lineage`:

- `Typed`: the type invariant, and that an operation in progress is bound to a
  proposal and an authorization as far as its step needs them.
- `Backed`: what each step leaves behind it. `StepsLeaveEvidence` says which
  records exist once the operation is past a step; `OneHolder`, that of the
  authorizations sharing an identity or a nonce at most one is reserved;
  `TerminalIsTransacted`, that a terminal event follows a transaction;
  `GenerationsAreBacked`, that each generation has its records.
- `Lineage`: `ProposalsKeepTheirKind` (which proposals can be in which place),
  `RollbacksUndo` (a rollback proposal is of the promotion that ended the brain
  it was derived from) and `Succession` (a generation is derived from the ones before it,
  and an operation that has not published yet still sees the brain it was
  admitted for).

The proof has one step per action. Most actions only extend records, which
`QuietBacked`, `OnwardBacked`, `RecordBacked` and `QuietLineage` settle at once;
the work is in the reservation (`OneHolder` from `Rivals`), the rename
(`GenerationsAreBacked`, `Succession`) and the recovery. The assumptions are the
two on the constants, `ConstantsAssumption` and `NoneIsNoValue`.

The theorems on outcomes rest on `OInv == IInv /\ Admitted /\ NoEntryTwice /\
Witnessed`:

- `Admitted`: until its generation is there, what an operation was admitted for
  still holds: the last review is the acceptance it bound, nothing collides, the
  source head is its own. This is what holding `promotion.lock` buys.
- `Witnessed`: `StepsLeaveOutcome` says what an operation has brought about by
  each step (the generation published, the phase recorded, the published manifest
  compared, the event audited, the consumption committed), so that a transaction
  is true when it is written and an event when it is appended; both stay true
  since records only grow (`RecordsGrow`, `UncommittedEvent`).

`StepKinds` divides the steps into those outside an admitted operation
(`Outside`), the admissions, and the fourteen writes; only the last need a case
each. The refinement maps the first k generations to the set `Visible(k)`.
`ApplyAdds` and `RollbackWithdraws` say what one more generation shows, for any
sequence of generations, without induction over it: a rollback shows again what
was visible before the apply it follows because that apply's entry is in no
other generation (`NoEntryTwice`).

### Viewer

For any number of slots, handles and failed logins, any lives and any clock:

| theorem | statement | module |
|---|---|---|
| `TypeCorrect` | `Spec => []TypeOK` | `SourceViewerProofs` |
| `HandlesEnd` | `Spec => []HandlesEndWithSession` | |
| `Shown` | `Spec => []ShownWhileApproved` | |

`HandlesEndWithSession` is inductive together with `SessionIsLaunched`: a login
gives the session a deadline, and meets no handle because a launch code is used once.
`ShownWhileApproved` says something of the last moment only; the invariant
`Watched` says of each request on its way what will refuse it. `ScriptsRecheck`:
behind the reading of a page or a text the script has a check and an
authorization, and before it a check. A reading that comes too late
leaves both in what is still to be done (`WillBeRefused`), and what has ended does not
come back (`EndsStay`): an approval by assumption, a session because it was there, as the
check before the reading has seen, and the launch code is therefore used. The
assumptions are `ViewerConstants` and `NoneIsNoValue`. Nothing is assumed of the
order of the threads, and `MaxIssued` and `MaxNow` may be any numbers.

### Workspaces

For any number of workspaces, operators, contents, generations and deaths, and with
files torn at any write:

| theorem | statement | module |
|---|---|---|
| `TypeCorrect` | `Spec => []TypeOK` | `WorkspaceProofs` |
| `RunsAreOne` | `Spec => []OneOpenRun` | |
| `NothingIsLost` | `Spec => []NoLostUpdate` | |
| `NothingIsOrphaned` | `Spec => []StoresAgree` | |
| `PublishedOnce` | `Spec => []NothingPublishedTwice` | |
| `LoadsAreConsistent` | `Spec => []LoadIsConsistent` | |

All follow from `Invariance`, which is `Spec => []IInv` with `IInv == Typed /\
Grounded /\ Ordered /\ NothingPublishedTwice /\ LoadIsConsistent /\ Unread`:

- `Typed` is inductive by itself: the shapes of the state, what the operation that
  holds the lock works on, and that the registry has one open run at most
  (`OneRun`), because a publication begins only when it finds none.
- `Grounded`: what the other files of a run promise. A registry run that has not
  published is `Fitting`: its generation is the next one, and names no documents
  that are not there. A document run is `Based` on a registry generation and
  `Follows` the documents named in it; until it has published, its documents are the
  next ones and differ from the last (`Fresh`); and once it is completed the
  registry names them. `OpGrounded` says the same of the operation in progress, step
  by step, and `DocInRegistry` that the publication it runs inside its own is of the
  definitions its document run has in its intent. Without these, `StoresAgree` is
  not inductive: a compaction could forget a run whose documents the registry never
  named.
- `Ordered` strengthens `NoLostUpdate`: of any two generations since a workspace was
  registered, the versions and the documents only grow, and one version has one
  definition (`Grown`). The last part carries the proof: `Advances` compares what an
  operator proposes with the last generation only, and a definition he derived from
  a much older one (`Derived`) is either not new enough, or one version after a
  definition of the last one's version, which is then the last one itself
  (`FittingGrows`, `OrderStays`).
- `Unread`: a reader has no documents before it has come to them.

The proof has one lemma per write of the registry, of the documents and of a
recovery, and the reader and the torn files aside, since they disturb nothing else.
`OldestExists` shows that the run which a compaction chooses exists, by
well-foundedness. The assumptions are `RegistryConstants`, `MaxTerminalIsNat`,
`AbsentIsNoDefinition` and `NoneIsNoRun`; the bounds on generations limit nothing in
the argument.

### Batches

For any batches, documents, provenances, reviews, deaths and changed sources:

| theorem | statement | module |
|---|---|---|
| `TypeCorrect` | `Spec => []TypeOK` | `BatchProofs` |
| `ItemsTrue` | `Spec => []ItemsAreTrue` | |
| `CreatedOnceHolds` | `Spec => []CreatedOnce` | |

Both properties speak of checkpoints and final readbacks; `IInv == Typed /\ Grounded
/\ OneClaim` speaks also of the runs that have not written yet. `Grounded` says of a
run at each of its steps what it has found (`RunGrounded`): that the provenance it
persists is the one its document asks for, that the candidate it reopens is there,
and that the item it appends is true. A batch has no lock on a candidate, so this
must outlast whatever others do: it does because a candidate is published once and
for ever, reviews are only appended and a source that has changed stays changed
(`Grows`). `OneClaim` counts as creators the items and also the run that has renamed
a candidate into place and has no item for it yet (`Claims`); only the rename makes
a claim, and only where there was no candidate (`OnlyRenameClaims`). If that run
dies, the claim is gone, and the next one says `unchanged`. The assumptions are
`StoreConstants`, `BatchConstants` and `NoneIsNoValue`.

### Selection

For any proposals and authorizations, any lives, and any number of reviews, deaths
and moves of the registry and of the head:

| theorem | statement | module |
|---|---|---|
| `TypeCorrect` | `Spec => []TypeOK` | `SelectionProofs` |
| `Backed` | `Spec => []SelectionIsBacked` | |

`IInv == Typed /\ Grounded /\ CandidateIsAuthorized /\ Timed`. `Grounded` gives each
file its cause, and each process the cause of the file it is about to write
(`Caused`), so that the chain from the authorization to the completion cannot break
between a reading and a write, with the lock or without. `Timed` says that no record
is of the future and none older than its cause, whichever process wrote either: a
record is written at the present second when its cause is there, and of what is on
disk only the terminal records are filled later, which no order of times rests on.
Both are kept because every step only adds files and fills them (`Grows`,
`FilesGrow`). The assumptions are `StoreConstants`, `SelectionConstants` and
`NoneIsNoValue`.

### Evidence

For any sources, contents, answers and policies over them, and any number of runs and
of deaths:

| theorem | statement | module |
|---|---|---|
| `TypeCorrect` | `Spec => []TypeOK` | `EvidenceProofs` |
| `RecordsBacked` | `Spec => []RecordHasItsArtifact` | |
| `EvidenceRetained` | `Spec => []EvidenceIsRetained` | |
| `JournalsBacked` | `Spec => []JournalIsBacked` | |
| `OneRunOpen` | `Spec => []OneOpenRun` | |
| `SummariesCoherent` | `Spec => []SummaryIsCoherent` | |

`IInv == Typed /\ Acquired /\ Kept /\ Coherent /\ Public /\ Bundled`:

- `Typed` says besides the types where an operation stands in its journal: that a
  journal closes its sources in order (`InOrder`), that only the last run of one scope
  can be open (`Journals`), and that the next write finds the journal as it takes it
  to be (`StandsAt`), also when another process resumes it. `OneRunOpen` follows from
  it alone.
- `Acquired`: whoever is about to write a record has its artifact, and whoever is
  about to write a terminal has its record.
- `Kept`: there is one `part`, so that only the last receipt of the open run can rely on
  it; `RetainBody` clears it when that body is an artifact, and nothing is
  prepared before.
- `Coherent`: an operation in a run found all its receipts current at the clock that
  it has read, and what it fetches has that clock. What is current at one time is
  coherent (`CurrentIsCoherent`); a run may be resumed at an earlier clock than the one
  it was left at only if it has no later receipt.
- `Public` and `Bundled`: observations, histories and bundles are of a run, and stay
  so because a run only goes on, and no receipt is added to one with all its
  steps (`RunsGrow`). A history has one bundle, which is why a finished one is not begun
  again under a run that is done (`FinishedIsReached`).

The assumptions are `AcquisitionConstants`, `RefreshConstants` and `NoneIsNoValue`; the
bounds on runs, deaths and the clock limit nothing in the argument. The run `evidence`
has one scope, the theorems any number of them.

### Campaigns

For any documents, and any number of corpora, of runs and of deaths:

| theorem | statement | module |
|---|---|---|
| `TypeCorrect` | `Spec => []TypeOK` | `CampaignProofs` |
| `CorpusKept` | `Spec => []CorpusIsKept` | |
| `EverythingClaimed` | `Spec => []EverythingIsClaimed` | |
| `LedgerTrue` | `Spec => []LedgerIsTrue` | |
| `CleanupExact` | `Spec => []CleanupIsExact` | |

`IInv == TypeOK /\ CorpusInv /\ RunInv`, and since a run holds no lock on its corpus
the last two know nothing of each other:

- `CorpusInv` adds to `CorpusIsKept` what a prepare or a cleanup has found out
  before its next write (`JobIsPlaced`), which holds for the next one because the disk
  tells it the same; and that a corpus is published or in the quarantine, not both.
- `Claimed`, `Planned`, `Made` and `Worked` say of a run what its intent, its evidence
  and its plan promise as far as it has come. The intent of a run is written where
  nothing of an earlier one is left, and goes when the evidence is there; nothing is
  claimed by both but in between, and that the batch is there shows a resumed
  operator that the intent has gone. `EverythingIsClaimed` follows.
- `Exactly`: what a run has created is apart from what was there before. The worker may
  store a candidate and die before it records it; such a candidate is under no claim
  of the checkpoint, and a run that ends itself does not come past it, since
  `QueueIsExact` stands before the plan.
- `Kept` and `Noted` say of the ledger, which is there from the mark to the next
  preparation, how far each target has come (`TargetIs`), and that one target at a time
  is on its way, in a box that is bound and goes when none is left (`Ordered`). So an
  announced part can be only of that target (`OneOnItsWay`), and a step on it
  changes nothing that is said of the others (`MovesStays`).

The assumptions are `CorpusConstants`, `RunsConstant`, `NamesDiffer` (a candidate has not
the name of a batch or a directory) and `NoneIsNoFile`, `NoneIsNoValue`. TLC has
checked each part of the invariant on the instance of `campaign` before it was proved.

Every safety property a passing run checks is the statement of a theorem. Only
model-checked are the liveness properties, which hold under fairness and are out
of the prover's reach: there is no rule for `WF_` and `ENABLED` in it.

## Not modelled

- Promotion: torn files (a final name that is not whole fails closed on every later
  read), the formats and strict validation of the records, path and symbolic link
  checks, and the contents of manifests beyond what they bind. Inspection stands in the
  model only as the guard of a rollback preparation; it and the canonical reader only
  read, without a lock or beside a promotion.
- Candidates: the listing of the queue, which a staging directory left by a process that died
  stops for good, and the sealed store of rehearsals, a second
  implementation of the same operations on held descriptors.
- Selection: several workspaces in one instance, and what the inspection answers beyond what a
  recovery does with it.
- Freshness: `persist_freshness_transaction`, which publishes a bundle outside of
  a refresh with the same writes.
- Parsing (`parsing.py`, `docx_ooxml.py`, `docling_pdf.py`, character
  recognition), distillation, scoring, navigation, evidence graphs, queries,
  evaluation and benchmarks: functions of bytes or of snapshots that keep no
  state; what could be wrong in them are data, and a model that keeps
  control and abstracts data has little left to say.
- Campaigns: those for documents and character recognition have state machines of
  the same kind and of their own: preparations that are undone and cleanups with a ledger
  (`private_docx_uat.py`, `private_ocr_uat.py`), and the qualification, corpus and
  cleanup of the documents (`private_docx_domain.py`). The intake of the seed corpus differs from
  that of the representative one by its source; calibration, the sandbox and the
  copy of the model cache are a step each. Most of the length of these files, the
  largest of the repository, is the validation of closed formats.
- The sanitized lifecycle and the release gates: drivers that run the operations above in one
  sequence and check reports, or export a fixed tree.
- The viewer's stores, renderer and provisioning, which read or write new
  files only.

So the lines the modules stand for are a small part of all lines, and most
of the lines in which processes, crashes and time meet.

## Plan

1. Inspection and the canonical reader as processes that read file by file,
   without the lock or with a shared one, beside `Promotion`: what they report is
   true of one state.
2. An abstract specification of the workspace stores, a register of definitions
   with the documents each of them names, and the proof that a publication, its crash and
   its recovery implement it.
3. The stand-alone bundle of `evidence_freshness.py`, and a second scope.
4. The campaigns over documents: what their preparation, their cleanup and the
   qualification of their corpus do otherwise than those of the PDF campaign.
