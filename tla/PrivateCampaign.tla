--------------------------- MODULE PrivateCampaign ---------------------------
(***************************************************************************)
(* An acceptance campaign over a private corpus: run_private_document_uat  *)
(* with the dependencies of private_pdf_uat.py and the worker of           *)
(* private_pdf_uat_worker.py.  A run stages copies of the corpus, seals a  *)
(* model cache, has a worker ingest the batch with one interruption,       *)
(* removes everything it made, and only then publishes its readback.  It   *)
(* holds no lock, so that the corpus may be cleaned and prepared again     *)
(* under it.  What a removal has still to do is in a ledger beside the     *)
(* run; a run that was lost is taken up by the next one.  One action is    *)
(* one durable write, and a process may die between any two.               *)
(*                                                                         *)
(* What a run makes are targets: the candidates it created, its batch, its *)
(* staging and control directories and its sealed cache.  The files of a   *)
(* target stand as one, and so do the directories in it.                   *)
(***************************************************************************)
EXTENDS PrivateCorpus

CONSTANTS MaxRuns       \* bound: runs ever begun

ASSUME RunsConstant == MaxRuns \in Nat

Own == {"batch", "staging", "control", "cache"}
Target == Document \cup Own
Part(t) == IF t \in Own \ {"cache"} THEN {"file"} ELSE {"file", "directory"}

VARIABLES
    at,             \* what the operator's run does next
    after,          \* where it goes once its cleanup is done
    final,          \* it has read the final readback of its batch
    opened,         \* the target whose directories it has made writable
    worker,         \* its worker, with the item it has not recorded yet
    intent,         \* preparation-intent.json
    journal,        \* the run's directory, and the conversion journal in it
    evidence,       \* prepared-run-evidence.json: of an open run, or with its cleanup
    bound,          \* the corpus it binds
    plan,           \* the targets of the cleanup
    ledger,         \* cleanup-recovery.json
    box,            \* the quarantine directory of the cleanup
    retained,       \* the terminal evidence of the run
    place, content, \* where a target is, and what is left in it
    items, created, \* the documents in the checkpoint, and those said to be created
    readback,       \* the final readback of the batch
    begun,          \* runs ever begun
    before,         \* the candidates that were there when the run was launched
    spilled,        \* where a process has left a temporary file as it died
    past, earlier   \* what earlier runs have removed, and the runs whose name sorts first

memory == <<at, after, final, opened, worker>>
claims == <<intent, journal, evidence, bound, plan, ledger, box, retained>>
made == <<place, content>>
progress == <<items, created, readback>>
history == <<begun, before, spilled, past, earlier>>
others == <<corpusVars, deaths>>
vars == <<others, memory, claims, made, progress, history>>

Phase == {"planned", "quarantined", "reclaiming", "completed"}
Preparing == {"staging", "control", "fill", "manifest", "state", "journal", "seal",
              "evidence", "unlink"}
Running == {"launch", "wait", "resume", "verify"}

\* The names that one run shares with another.
Shared == Document \cup {"control"}
Parts == {"file", "directory"}

Worker == [resumed : BOOLEAN, item : Document \cup {None}, new : BOOLEAN]
Ledger == [bound : BOOLEAN, container : Phase, phase : [Target -> Phase],
           reclaimed : [Target -> SUBSET Parts], pending : Parts \cup {"none", "target"}]

\* No value is none of them, and a candidate has not the name of another target.
ASSUME NoneIsNoValue == None \notin Target \cup Worker \cup Ledger
ASSUME NamesDiffer == Document \cap Own = {}

TypeOK ==
    /\ CorpusTypeOK
    /\ at \in {"idle", "prepare", "undo", "intent", "plan", "mark", "reclaim", "report"}
                  \cup Preparing \cup Running
    /\ after \in {"prepare", "report", "idle"}
    /\ final \in BOOLEAN /\ opened \in Target \cup {None}
    /\ worker \in Worker \cup {None}
    /\ intent \in BOOLEAN /\ journal \in {"none", "directory", "journal"}
    /\ evidence \in {"none", "open", "cleanup"} /\ bound \in 0..published
    /\ plan \subseteq Target
    /\ ledger \in Ledger \cup {None} /\ box \in BOOLEAN /\ retained \in BOOLEAN
    /\ place \in [Target -> {"absent", "live", "held"}]
    /\ content \in [Target -> SUBSET Parts] /\ \A t \in Target : content[t] \subseteq Part(t)
    /\ created \subseteq items /\ items \subseteq Document /\ readback \in BOOLEAN
    /\ begun \in 0..MaxRuns /\ before \subseteq Document
    /\ spilled \subseteq {"root", "staging", "control", "run"}
    /\ past \subseteq SUBSET Shared /\ earlier \subseteq past

\* Candidates of other ingestions may be there.
Init ==
    /\ CorpusInit
    /\ at = "idle" /\ after = "idle" /\ final = FALSE /\ opened = None /\ worker = None
    /\ intent = FALSE /\ journal = "none" /\ evidence = "none" /\ bound = 0 /\ plan = {}
    /\ ledger = None /\ box = FALSE /\ retained = FALSE
    /\ before \in SUBSET Document
    /\ place = [t \in Target |-> IF t \in before THEN "live" ELSE "absent"]
    /\ content = [t \in Target |-> IF t \in before THEN Part(t) ELSE {}]
    /\ items = {} /\ created = {} /\ readback = FALSE
    /\ begun = 0 /\ spilled = {} /\ past = {} /\ earlier = {}

Live(t) == place[t] = "live" /\ content[t] = Part(t)
Candidates == {d \in Document : place[d] = "live"}

\* A target comes to its place with what is in it, or goes.
Appears(t, parts) ==
    place' = [place EXCEPT ![t] = "live"] /\ content' = [content EXCEPT ![t] = parts]
Vanish(targets) ==
    /\ place' = [t \in Target |-> IF t \in targets THEN "absent" ELSE place[t]]
    /\ content' = [t \in Target |-> IF t \in targets THEN {} ELSE content[t]]

Goes(step) == at' = step /\ UNCHANGED <<after, final, opened, worker>>
\* A process that ends, well or not, leaves nothing in memory.
Ends == at' = "idle" /\ after' = "idle" /\ final' = FALSE /\ opened' = None /\ worker' = None

-----------------------------------------------------------------------------
(* A run begins with a scan of the runs there have been, in the order of   *)
(* their names.                                                            *)

\* A run whose ledger is gone counts as cleaned if nothing has one of the
\* names of its targets.  A temporary file in the directory of the runs is
\* taken for a run, and sorts first.
Gone(names) == \A t \in names : place[t] # "live"
EarlierRunsAreClean == "root" \notin spilled /\ \A names \in earlier : Gone(names)
LaterRunsAreClean == \A names \in past \ earlier : Gone(names)

\* The corpus is the one the run has prepared or found, under the lock.
CorpusIsReady ==
    /\ job = "idle" /\ corpus # 0 /\ ~kept /\ stage = None /\ draft = None
    /\ bundle = None /\ markerDraft = "none" /\ ~marker

\* The last run is taken up where it was left: its ledger is resumed, or its
\* cleanup planned.  A cleanup without a ledger must have been completed.
BeginRun ==
    /\ at = "idle" /\ CorpusIsReady /\ EarlierRunsAreClean
    /\ \/ ledger # None /\ at' = "reclaim"
       \/ ledger = None /\ evidence = "open" /\ at' = "plan"
       \/ ledger = None /\ evidence = "none" /\ at' = "prepare"
       \/ ledger = None /\ evidence = "cleanup" /\ Gone(plan) /\ ~box /\ at' = "prepare"
    /\ after' = "prepare" /\ UNCHANGED <<final, opened, worker>>
    /\ UNCHANGED <<others, claims, made, progress, history>>

EndScan ==
    /\ at = "prepare"
    /\ IF LaterRunsAreClean /\ corpus # 0 THEN Goes(IF intent THEN "undo" ELSE "intent") ELSE Ends
    /\ UNCHANGED <<others, claims, made, progress, history>>

-----------------------------------------------------------------------------
(* The intent of a preparation that was interrupted is undone, as far as   *)
(* nothing but what it wrote is there.                                     *)

UndoTarget(t) ==
    /\ place[t] = "live"
    /\ IF t \in spilled THEN Ends /\ UNCHANGED made
       ELSE /\ IF content[t] # {} THEN Appears(t, {}) ELSE Vanish({t})
            /\ Goes("undo")
    /\ UNCHANGED <<journal, intent>>

UndoRunDirectory ==
    /\ journal # "none"
    /\ IF place["cache"] = "live" \/ "run" \in spilled THEN Ends /\ UNCHANGED journal
       ELSE /\ journal' = IF journal = "journal" THEN "directory" ELSE "none"
            /\ Goes("undo")
    /\ UNCHANGED <<made, intent>>

UndoPreparation ==
    /\ at = "undo"
    /\ \/ UndoTarget("staging")
       \/ place["staging"] # "live" /\ UndoTarget("control")
       \/ /\ \A t \in {"staging", "control"} : place[t] # "live"
          /\ UndoRunDirectory
       \/ /\ \A t \in {"staging", "control"} : place[t] # "live"
          /\ journal = "none" /\ intent' = FALSE /\ Goes("intent")
          /\ UNCHANGED <<made, journal>>
    /\ UNCHANGED <<others, evidence, bound, plan, ledger, box, retained, progress, history>>

-----------------------------------------------------------------------------
(* Preparation.                                                            *)

\* A new run has a name of its own, before or after those of the others.
PersistIntent ==
    /\ at = "intent" /\ begun < MaxRuns
    /\ begun' = begun + 1 /\ intent' = TRUE /\ Goes("staging")
    /\ past' = past \cup (IF evidence = "cleanup" THEN {plan \cap Shared} ELSE {})
    /\ earlier' \in SUBSET past'
    /\ journal' = "none" /\ evidence' = "none" /\ bound' = 0 /\ plan' = {} /\ retained' = FALSE
    /\ items' = {} /\ created' = {} /\ readback' = FALSE
    /\ UNCHANGED <<others, ledger, box, made, before, spilled>>

Stage ==
    /\ \/ at = "staging" /\ Appears("staging", {}) /\ Goes("control")
       \/ at = "control" /\ Appears("control", {}) /\ Goes("fill")
       \/ at = "fill" /\ Appears("staging", Part("staging")) /\ Goes("manifest")
       \/ at = "manifest" /\ Appears("control", Part("control")) /\ Goes("state")
       \/ at = "seal" /\ Appears("cache", Part("cache")) /\ Goes("evidence")
    /\ UNCHANGED <<others, claims, progress, history>>

OpenJournal ==
    /\ \/ at = "state" /\ journal' = "directory" /\ Goes("journal")
       \/ at = "journal" /\ journal' = "journal" /\ Goes("seal")
    /\ UNCHANGED <<others, intent, evidence, bound, plan, ledger, box, retained>>
    /\ UNCHANGED <<made, progress, history>>

\* Fault: the evidence binds the corpus the next preparation would publish.
BindNextCorpus ==
    /\ at = "evidence" /\ corpus # 0
    /\ evidence' = "open" /\ bound' = corpus + 1 /\ Goes("unlink")
    /\ UNCHANGED <<others, intent, journal, plan, ledger, box, retained, made, progress, history>>

\* The run is claimed by its evidence before its intent goes.
PersistEvidence ==
    /\ at = "evidence" /\ corpus # 0
    /\ evidence' = "open" /\ bound' = corpus /\ Goes("unlink")
    /\ UNCHANGED <<others, intent, journal, plan, ledger, box, retained, made, progress, history>>

UnlinkIntent ==
    /\ at = "unlink" /\ intent' = FALSE /\ Goes("launch")
    /\ UNCHANGED <<others, journal, evidence, bound, plan, ledger, box, retained>>
    /\ UNCHANGED <<made, progress, history>>

\* A preparation that fails removes what it has staged, and leaves its intent,
\* its directory, and its evidence if that was written.
PrepareFails ==
    /\ at \in Preparing
    /\ Vanish({"staging", "control", "cache"}) /\ Ends
    /\ UNCHANGED <<others, claims, progress, history>>

-----------------------------------------------------------------------------
(* The worker and its operator.                                            *)

NewWorker(resumed) == worker' = [resumed |-> resumed, item |-> None, new |-> FALSE]
AtBarrier == ~worker.resumed /\ items # {} /\ items # Document

InitializeBatch ==
    /\ worker # None /\ place["batch"] # "live" /\ Appears("batch", Part("batch"))
    /\ UNCHANGED <<others, memory, claims, progress, history>>

\* The candidate of a document is stored unless it is there already.
Convert ==
    /\ worker # None /\ worker.item = None /\ Live("batch") /\ ~AtBarrier
    /\ \E d \in Document \ items :
        /\ worker' = [worker EXCEPT !.item = d, !.new = place[d] # "live"]
        /\ IF place[d] = "live" THEN UNCHANGED made ELSE Appears(d, Part(d))
    /\ UNCHANGED <<others, at, after, final, opened, claims, progress, history>>

\* Fault: an item is said to be created whoever stored its candidate.
ClaimEveryItem ==
    /\ worker # None /\ worker.item # None
    /\ items' = items \cup {worker.item} /\ created' = created \cup {worker.item}
    /\ worker' = [worker EXCEPT !.item = None, !.new = FALSE]
    /\ UNCHANGED <<others, at, after, final, opened, claims, made, readback, history>>

\* A document that is rejected leaves an item without a candidate of its own, as
\* one whose candidate was there.
RecordItem ==
    /\ worker # None /\ worker.item # None
    /\ items' = items \cup {worker.item}
    /\ created' = IF worker.new THEN created \cup {worker.item} ELSE created
    /\ worker' = [worker EXCEPT !.item = None, !.new = FALSE]
    /\ UNCHANGED <<others, at, after, final, opened, claims, made, readback, history>>

PersistReadback ==
    /\ worker # None /\ worker.item = None /\ items = Document /\ ~readback
    /\ readback' = TRUE
    /\ UNCHANGED <<others, memory, claims, made, items, created, history>>

\* Before each launch the run must be as it was prepared.
RunIsCurrent == corpus = bound /\ \A t \in Own \ {"batch"} : Live(t)

Launch ==
    /\ \/ at = "launch" /\ before' = Candidates /\ NewWorker(FALSE)
       \/ at = "resume" /\ UNCHANGED before /\ NewWorker(TRUE)
    /\ RunIsCurrent /\ at' = "wait"
    /\ UNCHANGED <<others, after, final, opened, claims, made, progress>>
    /\ UNCHANGED <<begun, spilled, past, earlier>>

\* The worker is interrupted where it waits for it, before its second document.
Interrupt ==
    /\ at = "wait" /\ worker # None /\ worker.item = None /\ AtBarrier
    /\ worker' = None /\ at' = "resume"
    /\ UNCHANGED <<others, after, final, opened, claims, made, progress, history>>

LoadFinal ==
    /\ at = "wait" /\ worker # None /\ worker.resumed /\ readback
    /\ worker' = None /\ final' = TRUE /\ at' = "verify"
    /\ UNCHANGED <<others, after, opened, claims, made, progress, history>>

\* What is new among the candidates is what the batch says it created.
QueueIsExact == before \subseteq Candidates /\ Candidates \ before = created

Verify ==
    /\ at = "verify" /\ RunIsCurrent /\ QueueIsExact
    /\ at' = "plan" /\ after' = "report" /\ UNCHANGED <<final, opened, worker>>
    /\ UNCHANGED <<others, claims, made, progress, history>>

\* A run that fails kills its worker, wherever that is, and cleans up.
RunFails ==
    /\ at \in Running
    /\ worker' = None /\ at' = "plan" /\ after' = "idle" /\ UNCHANGED <<final, opened>>
    /\ before' = IF at = "launch" THEN Candidates ELSE before
    /\ UNCHANGED <<others, claims, made, progress, begun, spilled, past, earlier>>

-----------------------------------------------------------------------------
(* Cleanup: the targets go into the evidence, then into the ledger, and    *)
(* one by one into the box and away.                                       *)

\* Fault: a lost run is taken to have lost its control directory.
RemovesAllButControl == created \cup {t \in Own : t = "control" => after # "prepare"}

Removes == created \cup {t \in Own : t = "control" /\ after = "prepare" => place[t] = "live"}

\* A run that ends itself knows its candidates from the queue, and the readback
\* if it has read it; one that was lost is known by its evidence alone.
PlanIsExact ==
    /\ IF after = "prepare" THEN corpus = bound /\ Live("batch") /\ journal = "journal"
       ELSE corpus # 0 /\ QueueIsExact /\ (IF final THEN items = Document ELSE ~readback)
    /\ \A t \in Removes \ {"batch"} : Live(t)

\* The batch of a run that ends before its worker has begun is made for it.
PlanCleanup ==
    /\ at = "plan" /\ PlanIsExact
    /\ plan' = Removes /\ evidence' = "cleanup" /\ Goes("mark")
    /\ IF place["batch"] = "live" THEN UNCHANGED made ELSE Appears("batch", Part("batch"))
    /\ UNCHANGED <<others, intent, journal, bound, ledger, box, retained, progress, history>>

\* A cleanup that cannot be planned leaves the run as it is.
PlanRefused ==
    /\ at = "plan" /\ ~PlanIsExact /\ Ends
    /\ UNCHANGED <<others, claims, made, progress, history>>

MarkCleanup ==
    /\ at = "mark" /\ Goes("reclaim")
    /\ ledger' = [bound |-> FALSE, container |-> "planned", pending |-> "none",
                  phase |-> [t \in Target |-> IF t \in plan THEN "planned" ELSE "completed"],
                  reclaimed |-> [t \in Target |-> {}]]
    /\ UNCHANGED <<others, intent, journal, evidence, bound, plan, box, retained>>
    /\ UNCHANGED <<made, progress, history>>

\* The ledger is written by every step but those that touch what it speaks of.
Notes(l) == ledger' = l /\ UNCHANGED <<made, box, opened>>

\* Nothing was moved before the box was bound: a plan whose box is not there is
\* checked again and the box made.
PrepareBox ==
    \/ /\ ~ledger.bound /\ ~box /\ \A t \in plan : Live(t)
       /\ box' = TRUE /\ UNCHANGED <<made, ledger, opened>>
    \/ ~ledger.bound /\ box /\ Notes([ledger EXCEPT !.bound = TRUE])

Rank(t) == CASE t = "batch" -> 1 [] t = "staging" -> 2 [] t = "control" -> 3
             [] t = "cache" -> 4 [] OTHER -> 0
Todo == {t \in plan : ledger.phase[t] # "completed"}
Current(t) == t \in Todo /\ \A u \in Todo \ {t} : Rank(t) <= Rank(u) /\ place[u] = "live"

Quarantine(t) ==
    \/ /\ place[t] = "live" /\ ledger.phase[t] = "planned"
       /\ place' = [place EXCEPT ![t] = "held"] /\ UNCHANGED <<content, ledger, box, opened>>
    \/ /\ place[t] = "held" /\ ledger.phase[t] = "planned"
       /\ Notes([ledger EXCEPT !.phase[t] = "quarantined"])
    \/ /\ place[t] = "held" /\ ledger.phase[t] = "quarantined"
       /\ Notes([ledger EXCEPT !.phase[t] = "reclaiming"])

\* Every directory of the target is opened again by whoever takes it up.
DirectoriesAreThere(t) == Part(t) \cap {"directory"} \subseteq content[t]
OpenDirectories(t) ==
    /\ place[t] = "held" /\ ledger.phase[t] = "reclaiming" /\ opened # t
    /\ DirectoriesAreThere(t)
    /\ opened' = t /\ UNCHANGED <<made, ledger, box>>

\* Fault: a part is removed before it is announced.
RemoveUnannounced(t, p) ==
    /\ opened = t /\ p \in Part(t) \ ledger.reclaimed[t]
    /\ p = "directory" => "file" \in ledger.reclaimed[t]
    /\ \/ /\ p \in content[t] /\ content' = [content EXCEPT ![t] = @ \ {p}]
          /\ UNCHANGED <<place, ledger, box, opened>>
       \/ p \notin content[t] /\ Notes([ledger EXCEPT !.reclaimed[t] = @ \cup {p}])

\* Each part is announced, removed and ticked off, the files first.
ReclaimPart(t, p) ==
    /\ opened = t /\ p \in Part(t) \ ledger.reclaimed[t]
    /\ p = "directory" => "file" \in ledger.reclaimed[t]
    /\ \/ p \in content[t] /\ ledger.pending = "none" /\ Notes([ledger EXCEPT !.pending = p])
       \/ /\ p \in content[t] /\ ledger.pending = p
          /\ content' = [content EXCEPT ![t] = @ \ {p}]
          /\ UNCHANGED <<place, ledger, box, opened>>
       \/ /\ p \notin content[t] /\ ledger.pending = p
          /\ Notes([ledger EXCEPT !.pending = "none", !.reclaimed[t] = @ \cup {p}])

ReclaimTarget(t) ==
    \/ /\ opened = t /\ ledger.reclaimed[t] = Part(t) /\ ledger.pending = "none"
       /\ Notes([ledger EXCEPT !.pending = "target"])
    \/ /\ opened = t /\ place[t] = "held" /\ ledger.pending = "target"
       /\ Vanish({t}) /\ opened' = None /\ UNCHANGED <<ledger, box>>
    \/ /\ place[t] = "absent" /\ ledger.phase[t] = "reclaiming" /\ ledger.pending = "target"
       /\ Notes([ledger EXCEPT !.phase[t] = "completed", !.pending = "none"])

RemoveBox ==
    /\ Todo = {}
    /\ \/ ledger.container = "planned" /\ Notes([ledger EXCEPT !.container = "reclaiming"])
       \/ ledger.container = "reclaiming" /\ box /\ box' = FALSE /\ UNCHANGED <<made, ledger, opened>>
       \/ ledger.container = "reclaiming" /\ ~box /\ Notes([ledger EXCEPT !.container = "completed"])

Reclaim ==
    /\ at = "reclaim"
    /\ \/ PrepareBox \/ RemoveBox
       \/ /\ ledger.bound
          /\ \E t \in Target :
              /\ Current(t)
              /\ \/ Quarantine(t) \/ OpenDirectories(t) \/ ReclaimTarget(t)
                 \/ \E p \in Part(t) : ReclaimPart(t, p)
    /\ UNCHANGED <<others, at, after, final, worker>>
    /\ UNCHANGED <<intent, journal, evidence, bound, plan, retained, progress, history>>

\* A directory that has been removed cannot be opened again.
ReclaimRefused ==
    /\ at = "reclaim"
    /\ \E t \in Target :
        /\ Current(t) /\ opened # t /\ ~DirectoriesAreThere(t)
        /\ place[t] = "held" /\ ledger.phase[t] = "reclaiming"
    /\ Ends /\ UNCHANGED <<others, claims, made, progress, history>>

\* The ledger of a run that was lost goes; that of a run that ends stays for
\* the next one.
EndCleanup ==
    /\ at = "reclaim" /\ ledger.container = "completed"
    /\ CASE after = "prepare" -> Goes("prepare") /\ ledger' = None
         [] after = "report" -> Goes("report") /\ UNCHANGED ledger
         [] after = "idle" -> Ends /\ UNCHANGED ledger
    /\ UNCHANGED <<others, intent, journal, evidence, bound, plan, box, retained>>
    /\ UNCHANGED <<made, progress, history>>

RetainReadback ==
    /\ at = "report" /\ retained' = TRUE /\ Ends
    /\ UNCHANGED <<others, intent, journal, evidence, bound, plan, ledger, box>>
    /\ UNCHANGED <<made, progress, history>>

-----------------------------------------------------------------------------
\* A file that a process writes beside its name may be left there when it dies.
Spills ==
    (IF at \in {"undo", "intent"} \cup (Preparing \ {"evidence", "unlink"}) THEN {"root"} ELSE {})
    \cup (CASE at = "fill" -> {"staging"} [] at = "manifest" -> {"control"}
            [] at \in {"journal", "evidence"} -> {"run"} [] OTHER -> {})

\* The worker goes with its operator.
CampaignDies ==
    /\ at # "idle" /\ deaths < MaxDeaths
    /\ deaths' = deaths + 1 /\ Ends
    /\ \E s \in {{}} \cup {{x} : x \in Spills} : spilled' = spilled \cup s
    /\ UNCHANGED <<corpusVars, claims, made, progress, begun, before, past, earlier>>

WorkerStep ==
    \/ InitializeBatch \/ Convert \/ RecordItem \/ PersistReadback

RunStep ==
    \/ EndScan \/ UndoPreparation \/ PersistIntent \/ Stage \/ OpenJournal \/ PersistEvidence
    \/ UnlinkIntent \/ Launch \/ Interrupt \/ LoadFinal \/ Verify \/ PlanCleanup \/ PlanRefused
    \/ MarkCleanup \/ Reclaim \/ ReclaimRefused \/ EndCleanup \/ RetainReadback

CampaignNext == BeginRun \/ RunStep \/ WorkerStep \/ PrepareFails \/ RunFails \/ CampaignDies

Next == CampaignNext \/ (CorpusNext /\ UNCHANGED <<memory, claims, made, progress, history>>)
Spec == Init /\ [][Next]_vars

\* A process goes on until it dies; the operator repeats a run as often as the
\* corpus lets it begin.
Fairness ==
    /\ WF_vars(RunStep) /\ WF_vars(WorkerStep) /\ WF_vars(RunFails /\ ~RunIsCurrent)
    /\ WF_vars(PrepareFails /\ corpus = 0)
    /\ WF_vars(CorpusStep /\ UNCHANGED <<deaths, memory, claims, made, progress, history>>)
    /\ SF_vars(BeginRun)
FairSpec == Spec /\ Fairness

-----------------------------------------------------------------------------
(* Properties.                                                             *)

\* Whatever a run has made is under a record by which a later run can find it,
\* at each moment of its preparation, its work and its cleanup: the intent until
\* the evidence is there, the open evidence, or the targets of its cleanup
\* (_default_prepare_uat_run, _ensure_uat_cleanup_recovery).
EverythingIsClaimed ==
    \A t \in Own \cup created :
        place[t] # "absent" => intent \/ evidence = "open" \/ (evidence = "cleanup" /\ t \in plan)

\* A resumed cleanup can tell what it removed from what somebody else did: a part
\* that is gone is ticked off in the ledger or announced there, a target that is
\* gone is completed or announced, and what is ticked off is gone
\* (_resume_uat_cleanup_value).
LedgerIsTrue ==
    ledger # None =>
        \A t \in plan :
            /\ ledger.reclaimed[t] \cap content[t] = {}
            /\ \A p \in Part(t) \ content[t] :
                \/ p \in ledger.reclaimed[t]
                \/ Current(t) /\ ledger.pending = p
            /\ ledger.phase[t] \in {"planned", "quarantined"} => content[t] = Part(t)
            /\ place[t] = "absent" =>
                \/ ledger.phase[t] = "completed"
                \/ Current(t) /\ ledger.pending = "target"
            /\ place[t] = "held" => box /\ ledger.bound

\* A campaign removes all that it made and nothing else: the candidates that were
\* there before it stay, through its failures and its recoveries; and once its
\* readback is retained its batch was ingested whole and none of its targets is
\* there (_default_cleanup_uat_staging, _persist_retained_private_uat_readback).
CleanupIsExact ==
    /\ before \subseteq Candidates
    /\ retained =>
        /\ items = Document /\ readback /\ ~box
        /\ \A t \in Own \cup created : place[t] = "absent"
        /\ Candidates = before

\* A process that was lost is recovered by the next run: a run that was lost
\* with its evidence, its batch and its targets whole, and its corpus as it was, is
\* cleaned if the run is repeated while the corpus stays (process-ingested-document.md,
\* "If the process is lost, repeat run to complete digest-bound recovery").
LostRunIsRecovered ==
    (/\ at = "idle" /\ evidence = "open" /\ ~intent /\ spilled = {} /\ deaths = MaxDeaths
     /\ CorpusIsReady /\ corpus = bound
     /\ \A t \in Own \cup created : Live(t))
        ~> (corpus # bound \/ \A t \in Own \cup created : place[t] = "absent")
=============================================================================
