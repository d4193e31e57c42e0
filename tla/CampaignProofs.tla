----------------------------- MODULE CampaignProofs -----------------------------
(***************************************************************************)
(* The safety of an acceptance campaign and of its corpus (PrivateCampaign,*)
(* PrivateCorpus), for any documents, and any number of corpora, of runs   *)
(* and of deaths.                                                          *)
(***************************************************************************)
EXTENDS PrivateCampaign, TLAPS

-----------------------------------------------------------------------------
(* The corpus. *)

\* What a prepare or a cleanup has found out before its next write, and that a corpus is
\* published or in the quarantine.
JobIsPlaced ==
    /\ quarantine # None => corpus = 0
    /\ job \in {"intake", "make"} => published < MaxCorpora
    /\ job \in {"intake", "make", "discard"} => bundle = None /\ ~ marker
    /\ job = "make" => stage # None /\ corpus = 0
    /\ job = "discard" => stage # None
    /\ job = "bundle" => bundle = None /\ ~ marker /\ corpus # 0
    /\ job = "move" => Exact(bundle) /\ ~ marker
    /\ job = "destroy" => marker

CorpusInv == CorpusTypeOK /\ JobIsPlaced /\ CorpusIsKept

-----------------------------------------------------------------------------
(* The run. *)

\* A run is claimed by its intent, then by its evidence, and at last by its cleanup.
Claimed ==
    /\ at \in Preparing \cup {"undo"} => intent
    /\ at \in (Preparing \ {"unlink"}) \cup {"undo"} => evidence = "none"
    /\ at \in Running \cup {"unlink", "plan"} => evidence = "open"
    /\ at \in Running \/ (at = "plan" /\ after # "prepare") => ~ intent
    /\ at \in {"mark", "reclaim", "report"} => evidence = "cleanup"
    /\ at \in {"prepare", "intent"} => evidence # "open"
    /\ at = "intent" => ~ intent
    /\ evidence = "cleanup" => ~ intent

\* What a cleanup removes: what the run has created, and its own targets that are there.
Planned ==
    /\ evidence = "cleanup" =>
          /\ created \subseteq plan /\ plan \subseteq created \cup Own /\ "batch" \in plan
          /\ \A t \in Own \ plan : place[t] = "absent"
    /\ evidence = "cleanup" /\ at \in {"prepare", "intent"} =>
          \A t \in plan : place[t] = "absent"
    /\ at = "mark" => \A t \in plan : Live(t)

\* What is there of a run, by how far it has come.
Made ==
    /\ \A t \in Target : place[t] = "absent" => content[t] = {}
    /\ \A t \in Target \ {"staging", "control"} : place[t] = "live" => content[t] = Part(t)
    /\ \A t \in Target : place[t] = "held" => ledger # None /\ t \in plan
    /\ intent => place["batch"] = "absent"
    /\ evidence = "none" /\ ~ intent => \A t \in Own : place[t] = "absent"
    /\ place["cache"] # "absent" \/ at = "seal" => journal = "journal"
    /\ at \in {"staging", "control", "fill", "manifest", "state", "journal"} =>
          place["cache"] = "absent"

\* The worker and what it has recorded.
Worked ==
    /\ worker # None => at = "wait"
    /\ worker # None => (worker.new => worker.item \notin before)
    /\ intent \/ evidence = "none" \/ at = "launch" => items = {}
    /\ readback => items = Document
    /\ at = "verify" \/ after = "report" => readback
    /\ after = "report" => at \in {"plan", "mark", "reclaim", "report"}
    /\ at = "report" => after = "report"

\* The candidates that were there stay, and nothing but what the run has created comes to
\* them.
Exactly ==
    /\ before \subseteq Candidates
    /\ created \cap before = {}
    /\ retained \/ (after = "report" /\ at # "plan") => Candidates \subseteq before \cup created
    /\ retained => readback /\ evidence = "cleanup" /\ \A t \in plan : place[t] = "absent"

-----------------------------------------------------------------------------
(* The ledger. *)

\* A ledger is there while a cleanup is in progress, and after it for the next run.
Kept ==
    /\ ledger # None => evidence = "cleanup" /\ at \in {"idle", "reclaim", "report"}
    /\ at \in {"reclaim", "report"} => ledger # None
    /\ ledger = None => ~ box
    /\ opened # None => at = "reclaim"

\* How far the ledger says that a target of the plan has come.
TargetIs(t) ==
    /\ ledger.phase[t] = "planned" =>
          place[t] \in {"live", "held"} /\ content[t] = Part(t) /\ ledger.reclaimed[t] = {}
    /\ ledger.phase[t] = "quarantined" =>
          place[t] = "held" /\ content[t] = Part(t) /\ ledger.reclaimed[t] = {}
    /\ ledger.phase[t] = "reclaiming" =>
          /\ place[t] \in {"held", "absent"}
          /\ ledger.reclaimed[t] \cap content[t] = {}
          /\ ledger.reclaimed[t] \subseteq Part(t)
          /\ Part(t) \ content[t] \subseteq ledger.reclaimed[t] \cup {ledger.pending}
          /\ ledger.pending = "target" => ledger.reclaimed[t] = Part(t)
          /\ place[t] = "absent" => ledger.pending = "target"
    /\ ledger.phase[t] = "completed" =>
          place[t] = "absent" /\ ledger.reclaimed[t] = Part(t)

\* One target after the other leaves its place, into a box that is bound, and the box goes
\* when none is left.
Ordered ==
    /\ \A t \in Todo : place[t] # "live" => Current(t)
    /\ ledger.pending # "none" => \E t \in Todo : ledger.phase[t] = "reclaiming"
    /\ opened # None => opened \in Todo /\ ledger.phase[opened] = "reclaiming"
                        /\ place[opened] = "held"
    /\ ~ ledger.bound => \A t \in plan : place[t] = "live"
    /\ ledger.container # "planned" => Todo = {}
    /\ ledger.container \in {"planned", "quarantined"} /\ ledger.bound => box
    /\ ledger.container = "completed" => ~ box
    /\ retained \/ at = "report" => ledger.container = "completed"

Noted == ledger # None => Ordered /\ \A t \in plan : TargetIs(t)

RunInv == Claimed /\ Planned /\ Made /\ Worked /\ Exactly /\ Kept /\ Noted

IInv == TypeOK /\ CorpusInv /\ RunInv

-----------------------------------------------------------------------------
(* The corpus keeps its invariant. *)

\* There is no corpus at first.
LEMMA CorpusInitial == CorpusInit => CorpusInv
<1> SUFFICES ASSUME CorpusInit PROVE CorpusInv
  OBVIOUS
<1>1. 0 \in 0 .. MaxCorpora /\ 0 \in 0 .. MaxDeaths /\ 0 \in 0 .. 0
  BY CorpusConstants
<1>2. CorpusTypeOK
  BY <1>1 DEF CorpusInit, CorpusTypeOK, Whole
<1> QED
  BY <1>2 DEF CorpusInit, CorpusInv, JobIsPlaced, CorpusIsKept

\* Corpora are numbered as they are published.
LEMMA PublishedGrows ==
    ASSUME CorpusTypeOK, CorpusNext PROVE published <= published'
<1>1. published \in Nat
  BY CorpusConstants DEF CorpusTypeOK
<1> QED
  BY <1>1, CorpusConstants DEF CorpusNext, CorpusStep, BeginIntake, BeginClean, IntakeFails,
     DiscardStage, BeginStage, FillStage, PublishCorpus, ReclaimDraft, ReclaimMarkerDraft,
     ResumeClean, CreateBundle, QuarantineCorpus, MoveEntry, RemoveQuarantine, PublishMarker,
     DestroyBundle, UnlinkMarker, CorpusJobDies, store

\* An entry of an old stage goes.
LEMMA DiscardStageStays == ASSUME CorpusInv, DiscardStage, UNCHANGED deaths PROVE CorpusInv'
<1> USE DEF CorpusInv
<1>1. stage' \in Staged \cup {None}
  <2> SUFFICES ASSUME stage' # None PROVE stage' \in Staged
    OBVIOUS
  <2>1. stage \in Staged
    BY DEF DiscardStage, CorpusTypeOK
  <2>2. \/ \E d \in Document : stage' = [stage EXCEPT !.files = @ \ {d}]
        \/ stage' = [stage EXCEPT !.input = FALSE]
        \/ stage' = [stage EXCEPT !.files = {}]
    BY DEF DiscardStage, DiscardStep
  <2> QED
    BY <2>1, <2>2 DEF Staged
<1>2. /\ job' \in {"idle", "intake", "discard"} /\ (job' # "idle" => job' = job)
      /\ job' = "discard" => stage' # None
  BY DEF DiscardStage
<1>3. CorpusTypeOK'
  BY <1>1, <1>2 DEF CorpusTypeOK, DiscardStage
<1>4. JobIsPlaced'
  BY <1>2 DEF JobIsPlaced, DiscardStage
<1> QED
  BY <1>3, <1>4 DEF CorpusIsKept, DiscardStage

\* A stage is begun, or the corpus is there already.
LEMMA BeginStageStays == ASSUME CorpusInv, BeginStage, UNCHANGED deaths PROVE CorpusInv'
<1> USE DEF CorpusInv
<1>1. [input |-> FALSE, files |-> {}, temp |-> "none"] \in Staged
  BY DEF Staged
<1>2. /\ job = "intake" /\ stage' \in Staged \cup {None}
      /\ job' = "idle" \/ (job' = "make" /\ corpus = 0 /\ stage' # None)
  BY <1>1, NoneIsNoFile DEF BeginStage
<1>3. CorpusTypeOK'
  BY <1>2 DEF CorpusTypeOK, BeginStage
<1>4. JobIsPlaced'
  BY <1>2 DEF JobIsPlaced, BeginStage
<1> QED
  BY <1>3, <1>4 DEF CorpusIsKept, BeginStage

\* A file of the stage is written, linked or cleared of its temporary name.
LEMMA FillStageStays == ASSUME CorpusInv, FillStage, UNCHANGED deaths PROVE CorpusInv'
<1> USE DEF CorpusInv
<1>1. stage \in Staged
  BY DEF FillStage, CorpusTypeOK, JobIsPlaced
<1>2. stage' \in Staged
  <2>1. ASSUME NEW e \in Entry, PersistEntry(e) PROVE stage' \in Staged
    <3>1. CASE stage' = [stage EXCEPT !.temp = "written"]
      BY <1>1, <3>1 DEF Staged
    <3>2. CASE stage' = [stage EXCEPT !.temp = "linked", !.files = @ \cup {e}]
      BY <1>1, <3>2 DEF Staged
    <3> QED
      BY <2>1, <3>1, <3>2 DEF PersistEntry
  <2>2. CASE stage' = [stage EXCEPT !.input = TRUE]
    BY <1>1, <2>2 DEF Staged
  <2>3. CASE stage' = [stage EXCEPT !.temp = "none"]
    BY <1>1, <2>3 DEF Staged
  <2> QED
    BY <2>1, <2>2, <2>3 DEF FillStage
<1>3. CorpusTypeOK'
  BY <1>2 DEF CorpusTypeOK, FillStage
<1>4. JobIsPlaced'
  BY <1>2, NoneIsNoFile DEF JobIsPlaced, FillStage
<1> QED
  BY <1>3, <1>4 DEF CorpusIsKept, FillStage

\* The stage becomes the corpus: no bundle and no quarantine is there.
LEMMA PublishCorpusStays == ASSUME CorpusInv, PublishCorpus, UNCHANGED deaths PROVE CorpusInv'
<1> USE CorpusConstants DEF CorpusInv
<1>1. published \in Nat /\ published < MaxCorpora
  BY DEF PublishCorpus, JobIsPlaced, CorpusTypeOK
<1>2. CorpusTypeOK'
  BY <1>1 DEF CorpusTypeOK, PublishCorpus
<1>4. JobIsPlaced'
  BY DEF JobIsPlaced, CorpusIsKept, PublishCorpus
<1> QED
  BY <1>2, <1>4 DEF CorpusIsKept, PublishCorpus, JobIsPlaced

\* A prepare fails.
LEMMA IntakeFailsStays == ASSUME CorpusInv, IntakeFails, UNCHANGED deaths PROVE CorpusInv'
<1> USE DEF CorpusInv
<1>1. stage \in Staged
  BY DEF IntakeFails, CorpusTypeOK, JobIsPlaced
<1>2. /\ stage' \in Staged \cup {None} /\ kept' \in BOOLEAN
      /\ job' = "idle" \/ (job' = "discard" /\ stage' \in Staged)
  BY <1>1 DEF IntakeFails, Staged, CorpusTypeOK
<1>3. CorpusTypeOK'
  BY <1>2 DEF CorpusTypeOK, IntakeFails
<1>4. JobIsPlaced'
  BY <1>2, NoneIsNoFile DEF JobIsPlaced, IntakeFails
<1> QED
  BY <1>3, <1>4 DEF CorpusIsKept, IntakeFails

\* A draft of a bundle goes.
LEMMA ReclaimDraftStays == ASSUME CorpusInv, ReclaimDraft, UNCHANGED deaths PROVE CorpusInv'
<1> USE DEF CorpusInv
<1>1. draft' \in Draft \cup {None}
  <2>1. draft \in Draft
    BY DEF ReclaimDraft, CorpusTypeOK
  <2> QED
    BY <2>1 DEF ReclaimDraft, Draft, Whole
<1>3. CorpusTypeOK'
  BY <1>1 DEF CorpusTypeOK, ReclaimDraft
<1>4. JobIsPlaced'
  BY DEF JobIsPlaced, ReclaimDraft
<1> QED
  BY <1>3, <1>4 DEF CorpusIsKept, ReclaimDraft

\* The bundle is made while the corpus is whole.
LEMMA CreateBundleStays == ASSUME CorpusInv, CreateBundle, UNCHANGED deaths PROVE CorpusInv'
<1> USE DEF CorpusInv
<1>1. job = "bundle" /\ bundle = None /\ ~ marker /\ corpus # 0 /\ quarantine = None
  BY DEF CreateBundle, JobIsPlaced, CorpusIsKept
<1>2. draft' \in Draft \cup {None}
  <2>1. CASE draft = None
    <3>1. draft' = [files |-> FALSE, schema |-> "none"]
      BY <2>1 DEF CreateBundle
    <3> QED
      BY <3>1 DEF Draft, Whole
  <2>2. CASE draft # None
    <3>1. draft \in Draft
      BY <2>2 DEF CorpusTypeOK
    <3>2. CASE draft' = [draft EXCEPT !.files = TRUE]
      BY <3>1, <3>2 DEF Draft
    <3>3. CASE draft' = [draft EXCEPT !.schema = IF @ = "none" THEN "torn" ELSE "whole"]
      BY <3>1, <3>3 DEF Draft, Whole
    <3>4. CASE draft' = None
      BY <3>4
    <3> QED
      BY <2>2, <3>2, <3>3, <3>4 DEF CreateBundle
  <2> QED
    BY <2>1, <2>2
<1>3. CASE UNCHANGED <<job, bundle>>
  <2>1. CorpusTypeOK'
    BY <1>2, <1>3 DEF CorpusTypeOK, CreateBundle
  <2>2. JobIsPlaced'
    BY <1>1, <1>3 DEF JobIsPlaced, CreateBundle
  <2> QED
    BY <1>1, <1>3, <2>1, <2>2 DEF CorpusIsKept, CreateBundle
<1>4. CASE job' = "move" /\ bundle' = [held |-> TRUE, files |-> {}, schema |-> TRUE]
  <2>1. bundle' \in Bundle /\ bundle' # None
    <3>1. bundle' \in Bundle
      BY <1>4 DEF Bundle
    <3> QED
      BY <3>1, NoneIsNoFile
  <2>2. CorpusTypeOK'
    BY <1>2, <1>4, <2>1 DEF CorpusTypeOK, CreateBundle
  <2>3. JobIsPlaced'
    BY <1>1, <1>4, <2>1 DEF JobIsPlaced, CreateBundle, Exact
  <2> QED
    BY <1>1, <1>4, <2>2, <2>3 DEF CorpusIsKept, CreateBundle
<1> QED
  BY <1>3, <1>4 DEF CreateBundle

\* A cleanup goes on where the disk says.
LEMMA ResumeCleanStays == ASSUME CorpusInv, ResumeClean, UNCHANGED deaths PROVE CorpusInv'
<1> USE DEF CorpusInv, store
<1>1. \/ job' = "destroy" /\ marker
      \/ job' = "move" /\ ~ marker /\ Exact(bundle)
      \/ job' = "bundle" /\ ~ marker /\ bundle = None /\ corpus # 0
  BY DEF ResumeClean
<1>2. UNCHANGED <<corpus, published, stage, kept, quarantine, draft, bundle, markerDraft, marker>>
  BY DEF ResumeClean
<1>3. CorpusTypeOK'
  BY <1>1, <1>2 DEF CorpusTypeOK
<1>4. JobIsPlaced'
  BY <1>1, <1>2 DEF JobIsPlaced, Exact
<1> QED
  BY <1>2, <1>3, <1>4 DEF CorpusIsKept

\* A draft of a marker goes.
LEMMA ReclaimMarkerDraftStays ==
    ASSUME CorpusInv, ReclaimMarkerDraft, UNCHANGED deaths PROVE CorpusInv'
<1> USE DEF CorpusInv
<1>3. CorpusTypeOK'
  BY DEF CorpusTypeOK, ReclaimMarkerDraft, Whole
<1>4. JobIsPlaced'
  BY DEF JobIsPlaced, ReclaimMarkerDraft
<1> QED
  BY <1>3, <1>4 DEF CorpusIsKept, ReclaimMarkerDraft

\* The corpus goes into the quarantine, with all its entries.
LEMMA QuarantineCorpusStays ==
    ASSUME CorpusInv, QuarantineCorpus, UNCHANGED deaths PROVE CorpusInv'
<1> USE DEF CorpusInv
<1>1. quarantine' \in Directory /\ quarantine' # None /\ quarantine'.files = Entry
  <2>1. quarantine' \in Directory /\ quarantine'.files = Entry
    BY DEF QuarantineCorpus, Directory
  <2> QED
    BY <2>1, NoneIsNoFile
<1>2. bundle # None /\ ~ marker
  BY DEF JobIsPlaced, QuarantineCorpus, Exact
<1>3. CorpusTypeOK'
  BY <1>1 DEF CorpusTypeOK, QuarantineCorpus
<1>4. JobIsPlaced'
  BY DEF JobIsPlaced, QuarantineCorpus
<1> QED
  BY <1>1, <1>2, <1>3, <1>4 DEF CorpusIsKept, QuarantineCorpus

\* An entry leaves the quarantine and is in the bundle.
LEMMA MoveEntryStays == ASSUME CorpusInv, MoveEntry, UNCHANGED deaths PROVE CorpusInv'
<1> USE DEF CorpusInv
<1>1. bundle \in Bundle /\ quarantine \in Directory /\ Exact(bundle) /\ ~ marker
  BY DEF MoveEntry, CorpusTypeOK, JobIsPlaced, Exact
<1>2. PICK e \in quarantine.files :
         /\ quarantine' = [quarantine EXCEPT !.files = @ \ {e}]
         /\ bundle' = [bundle EXCEPT !.files = @ \cup {e}]
  BY DEF MoveEntry
<1>3. e \in Entry
  BY <1>1 DEF Directory
<1>4. quarantine' \in Directory /\ quarantine'.files = quarantine.files \ {e}
  BY <1>1, <1>2 DEF Directory
<1>5. bundle' \in Bundle /\ bundle'.files = bundle.files \cup {e} /\ Exact(bundle')
  <2>1. /\ bundle' \in Bundle /\ bundle'.files = bundle.files \cup {e}
        /\ bundle'.schema = bundle.schema /\ bundle'.held = bundle.held
    BY <1>1, <1>2, <1>3 DEF Bundle
  <2> QED
    BY <1>1, <2>1, NoneIsNoFile DEF Exact
<1>6. quarantine' # None /\ bundle' # None /\ quarantine # None /\ bundle # None
  BY <1>1, <1>4, <1>5, NoneIsNoFile
<1>7. UNCHANGED <<job, corpus, published, stage, kept, draft, markerDraft, marker>>
  BY DEF MoveEntry
<1>8. CorpusTypeOK'
  BY <1>4, <1>5, <1>7 DEF CorpusTypeOK
<1>9. JobIsPlaced'
  BY <1>5, <1>7 DEF JobIsPlaced, MoveEntry
<1>10. corpus' = 0
  BY <1>6, <1>7 DEF JobIsPlaced
<1>11. CorpusIsKept'
  BY <1>1, <1>4, <1>5, <1>6, <1>7, <1>10 DEF CorpusIsKept
<1> QED
  BY <1>8, <1>9, <1>11

\* The empty quarantine goes.
LEMMA RemoveQuarantineStays ==
    ASSUME CorpusInv, RemoveQuarantine, UNCHANGED deaths PROVE CorpusInv'
<1> USE DEF CorpusInv
<1>1. /\ quarantine \in Directory /\ quarantine # None /\ bundle # None /\ ~ marker
      /\ quarantine.files = {}
  BY DEF RemoveQuarantine, CorpusTypeOK, JobIsPlaced, Exact
<1>2. quarantine' \in Directory \cup {None} /\ (quarantine' # None => quarantine'.files = {})
  BY <1>1 DEF RemoveQuarantine, Directory
<1>3. UNCHANGED <<job, corpus, published, stage, kept, draft, bundle, markerDraft, marker>>
  BY DEF RemoveQuarantine
<1>4. CorpusTypeOK'
  BY <1>2, <1>3 DEF CorpusTypeOK
<1>5. JobIsPlaced'
  BY <1>1, <1>3 DEF JobIsPlaced, Exact
<1>6. CorpusIsKept'
  BY <1>1, <1>2, <1>3 DEF CorpusIsKept
<1> QED
  BY <1>4, <1>5, <1>6

\* The marker is written when nothing is left outside the bundle.
LEMMA PublishMarkerStays == ASSUME CorpusInv, PublishMarker, UNCHANGED deaths PROVE CorpusInv'
<1> USE DEF CorpusInv
<1>1. /\ markerDraft' \in Whole /\ marker' \in BOOLEAN
      /\ UNCHANGED <<job, marker>> \/ (job' = "destroy" /\ marker')
  BY DEF PublishMarker, Whole, CorpusTypeOK
<1>2. UNCHANGED <<corpus, published, stage, kept, quarantine, draft, bundle>>
  BY DEF PublishMarker
<1>3. CorpusTypeOK'
  BY <1>1, <1>2 DEF CorpusTypeOK
<1>4. JobIsPlaced'
  BY <1>1, <1>2 DEF JobIsPlaced, PublishMarker
<1> QED
  BY <1>1, <1>2, <1>3, <1>4 DEF CorpusIsKept, PublishMarker

\* Under the marker the bundle goes.
LEMMA DestroyBundleStays == ASSUME CorpusInv, DestroyBundle, UNCHANGED deaths PROVE CorpusInv'
<1> USE DEF CorpusInv
<1>1. bundle \in Bundle /\ bundle # None /\ marker /\ job = "destroy"
  BY DEF DestroyBundle, CorpusTypeOK, JobIsPlaced
<1>2. bundle' \in Bundle \cup {None}
  <2> SUFFICES ASSUME bundle' # None PROVE bundle' \in Bundle
    OBVIOUS
  <2>1. \/ \E e \in bundle.files : bundle' = [bundle EXCEPT !.files = @ \ {e}]
        \/ bundle' = [bundle EXCEPT !.schema = FALSE]
        \/ bundle' = [bundle EXCEPT !.held = FALSE]
    BY DEF DestroyBundle, DestroyStep
  <2> QED
    BY <1>1, <2>1 DEF Bundle
<1>3. UNCHANGED <<job, corpus, published, stage, kept, quarantine, draft, markerDraft, marker>>
  BY DEF DestroyBundle
<1>4. CorpusTypeOK'
  BY <1>2, <1>3 DEF CorpusTypeOK
<1>5. JobIsPlaced'
  BY <1>1, <1>3 DEF JobIsPlaced
<1> QED
  BY <1>1, <1>3, <1>4, <1>5 DEF CorpusIsKept

\* The marker goes last.
LEMMA UnlinkMarkerStays == ASSUME CorpusInv, UnlinkMarker, UNCHANGED deaths PROVE CorpusInv'
<1> USE DEF CorpusInv
<1>1. CorpusTypeOK'
  BY DEF CorpusTypeOK, UnlinkMarker
<1>2. JobIsPlaced'
  BY DEF JobIsPlaced, UnlinkMarker
<1> QED
  BY <1>1, <1>2 DEF CorpusIsKept, UnlinkMarker

\* A prepare or a cleanup begins.
LEMMA CorpusBegins ==
    ASSUME CorpusInv, BeginIntake \/ BeginClean, UNCHANGED deaths PROVE CorpusInv'
<1> USE DEF CorpusInv, store
<1>1. \/ job' = "intake" /\ published < MaxCorpora /\ bundle = None /\ ~ marker
      \/ job' = "clean"
  BY DEF BeginIntake, BeginClean
<1>2. UNCHANGED <<corpus, published, stage, kept, quarantine, draft, bundle, markerDraft, marker>>
  BY DEF BeginIntake, BeginClean
<1>3. CorpusTypeOK'
  BY <1>1, <1>2 DEF CorpusTypeOK
<1>4. JobIsPlaced'
  BY <1>1, <1>2 DEF JobIsPlaced
<1> QED
  BY <1>2, <1>3, <1>4 DEF CorpusIsKept

\* A prepare or a cleanup dies.
LEMMA CorpusDies == ASSUME CorpusInv, CorpusJobDies PROVE CorpusInv'
<1> USE CorpusConstants DEF CorpusInv, store
<1>1. UNCHANGED <<corpus, published, stage, kept, quarantine, draft, bundle, markerDraft, marker>>
  BY DEF CorpusJobDies
<1>2. job' = "idle" /\ deaths' \in 0 .. MaxDeaths
  BY DEF CorpusJobDies, CorpusTypeOK
<1>3. CorpusTypeOK'
  BY <1>1, <1>2 DEF CorpusTypeOK
<1>4. JobIsPlaced'
  BY <1>1, <1>2 DEF JobIsPlaced
<1> QED
  BY <1>1, <1>3, <1>4 DEF CorpusIsKept

\* Every write of a prepare and of a cleanup.
LEMMA CorpusStays == ASSUME CorpusInv, CorpusNext PROVE CorpusInv'
BY DiscardStageStays, BeginStageStays, FillStageStays, PublishCorpusStays, IntakeFailsStays,
   ReclaimDraftStays, CreateBundleStays, ResumeCleanStays, ReclaimMarkerDraftStays,
   QuarantineCorpusStays, MoveEntryStays, RemoveQuarantineStays, PublishMarkerStays,
   DestroyBundleStays, UnlinkMarkerStays, CorpusBegins, CorpusDies DEF CorpusNext, CorpusStep

-----------------------------------------------------------------------------
(* What the actions of a run do to targets and to the ledger. *)

\* Where the targets are.
Placed ==
    /\ place \in [Target -> {"absent", "live", "held"}]
    /\ content \in [Target -> SUBSET Parts]
    /\ \A t \in Target : content[t] \subseteq Part(t)

\* A target has files, and directories if it is not one itself.
LEMMA PartIsParts == \A t \in Target : Part(t) \subseteq Parts
BY DEF Part, Parts

\* The targets by name, none of them a candidate.
LEMMA OwnAreTargets ==
    /\ "batch" \in Target /\ "staging" \in Target /\ "control" \in Target /\ "cache" \in Target
    /\ Document \subseteq Target
    /\ \A d \in Document : d \notin Own
BY NamesDiffer DEF Target, Own

\* A target comes to its place, and no other moves.
LEMMA AppearsOne ==
    ASSUME Placed, NEW t \in Target, NEW parts \in SUBSET Part(t), Appears(t, parts)
    PROVE  /\ Placed'
           /\ place'[t] = "live" /\ content'[t] = parts
           /\ \A u \in Target \ {t} : place'[u] = place[u] /\ content'[u] = content[u]
<1>1. parts \in SUBSET Parts
  BY PartIsParts
<1>2. /\ place'[t] = "live" /\ content'[t] = parts
      /\ \A u \in Target \ {t} : place'[u] = place[u] /\ content'[u] = content[u]
  BY DEF Placed, Appears
<1>3. place' \in [Target -> {"absent", "live", "held"}] /\ content' \in [Target -> SUBSET Parts]
  BY <1>1 DEF Placed, Appears
<1> QED
  BY <1>2, <1>3 DEF Placed

\* Targets go with what is in them, and no other moves.
LEMMA VanishSome ==
    ASSUME Placed, NEW targets, Vanish(targets)
    PROVE  /\ Placed'
           /\ \A u \in Target :
                 IF u \in targets THEN place'[u] = "absent" /\ content'[u] = {}
                 ELSE place'[u] = place[u] /\ content'[u] = content[u]
BY DEF Placed, Vanish

\* Without a ledger nothing of it is to be kept.
LEMMA WithoutLedger ==
    ASSUME ledger' = None, ~ box', opened' = None, at' \notin {"reclaim", "report"}
    PROVE  Kept' /\ Noted'
BY DEF Kept, Noted

\* A ledger is only there while it is followed, and between two runs.
LEMMA NoLedger ==
    ASSUME Kept, at \notin {"idle", "reclaim", "report"}
    PROVE  ledger = None /\ ~ box /\ opened = None
BY DEF Kept

\* Where no target moves, the ledger stays true.
LEMMA NotedStays ==
    ASSUME Noted, UNCHANGED <<ledger, plan, place, content, box>>, opened' \in {opened, None},
           (retained' \/ at' = "report") /\ ledger # None => ledger.container = "completed"
    PROVE  Noted'
BY DEF Noted, Ordered, TargetIs, Todo, Current

\* A cleanup whose box is gone has removed its targets.
LEMMA CompletedCleanup ==
    ASSUME TypeOK, Noted, ledger # None, ledger.container = "completed"
    PROVE  ~ box /\ \A t \in plan : place[t] = "absent"
BY DEF Noted, Ordered, TargetIs, Todo, TypeOK

\* The corpus as it was has the type it had.
LEMMA CorpusTypesStay == ASSUME CorpusTypeOK, UNCHANGED others PROVE CorpusTypeOK'
BY DEF CorpusTypeOK, others, corpusVars, store

\* Where the targets are is part of the type.
LEMMA PlacedType == ASSUME TypeOK PROVE Placed
BY DEF TypeOK, Placed

-----------------------------------------------------------------------------
(* A run, from its scan to its evidence. *)

\* A run is begun, and takes up what the last one has left.
LEMMA BeginRunStays == ASSUME TypeOK, RunInv, BeginRun PROVE TypeOK' /\ RunInv'
<1> USE DEF RunInv
<1>1. UNCHANGED <<final, opened, worker, others, claims, made, progress, history>>
  BY DEF BeginRun
<1>2. /\ at = "idle" /\ after' = "prepare"
      /\ \/ at' = "reclaim" /\ ledger # None /\ evidence = "cleanup"
         \/ at' = "plan" /\ ledger = None /\ evidence = "open"
         \/ /\ at' = "prepare" /\ ledger = None /\ evidence # "open"
            /\ evidence = "cleanup" => \A t \in plan : place[t] # "live"
  BY DEF BeginRun, Gone, Kept
<1> USE DEF others, corpusVars, store, claims, made, progress, history
<1>3. TypeOK'
  BY <1>1, <1>2, CorpusTypesStay DEF TypeOK
<1>4. Claimed'
  BY <1>1, <1>2 DEF Claimed, Preparing, Running
<1>5. Planned'
  <2>1. ASSUME at' = "prepare", evidence = "cleanup", NEW t \in plan PROVE place[t] = "absent"
    <3>1. t \in Target /\ place[t] # "live" /\ place[t] \in {"absent", "live", "held"}
      BY <1>2, <2>1 DEF TypeOK
    <3> QED
      BY <1>2, <2>1, <3>1 DEF Made
  <2> QED
    BY <1>1, <1>2, <2>1 DEF Planned
<1>6. Made'
  BY <1>1, <1>2 DEF Made
<1>7. Worked'
  BY <1>1, <1>2 DEF Worked
<1>8. Exactly'
  BY <1>1, <1>2 DEF Exactly, Candidates
<1>9. Kept'
  BY <1>1, <1>2 DEF Kept
<1>10. Noted'
  BY <1>1, <1>2, NotedStays DEF Noted, Ordered
<1> QED
  BY <1>3, <1>4, <1>5, <1>6, <1>7, <1>8, <1>9, <1>10

\* The scan of the earlier runs ends.
LEMMA EndScanStays == ASSUME TypeOK, RunInv, EndScan PROVE TypeOK' /\ RunInv'
<1> USE DEF RunInv
<1>1. at = "prepare" /\ UNCHANGED <<others, claims, made, progress, history>>
  BY DEF EndScan
<1>2. \/ /\ at' \in {"undo", "intent"} /\ (at' = "undo" <=> intent)
         /\ UNCHANGED <<after, final, opened, worker>>
      \/ at' = "idle" /\ after' = "idle" /\ final' = FALSE /\ opened' = None /\ worker' = None
  BY DEF EndScan, Goes, Ends
<1>3. ledger = None /\ ~ box /\ opened = None
  BY <1>1, NoLedger
<1> USE DEF others, corpusVars, store, claims, made, progress, history
<1>4. TypeOK'
  <2>1. CorpusTypeOK'
    BY <1>1, CorpusTypesStay DEF TypeOK
  <2>2. UNCHANGED <<published, intent, journal, evidence, bound, plan, ledger, box, retained>>
    BY <1>1
  <2>3. /\ UNCHANGED <<place, content, items, created, readback>>
        /\ UNCHANGED <<begun, before, spilled, past, earlier>>
    BY <1>1
  <2>4. /\ at' \in {"idle", "undo", "intent"} /\ after' \in {"prepare", "report", "idle"}
        /\ final' \in BOOLEAN /\ opened' \in Target \cup {None} /\ worker' \in Worker \cup {None}
    BY <1>2 DEF TypeOK
  <2> QED
    BY <2>1, <2>2, <2>3, <2>4 DEF TypeOK
<1>5. Claimed'
  BY <1>1, <1>2 DEF Claimed, Preparing, Running, TypeOK
<1>6. Planned'
  BY <1>1, <1>2 DEF Planned
<1>7. Made'
  BY <1>1, <1>2 DEF Made
<1>8. Worked'
  BY <1>1, <1>2 DEF Worked
<1>9. Exactly'
  BY <1>1, <1>2 DEF Exactly, Candidates, Worked
<1>10. Kept' /\ Noted'
  BY <1>1, <1>2, <1>3, WithoutLedger
<1> QED
  BY <1>4, <1>5, <1>6, <1>7, <1>8, <1>9, <1>10

\* What an interrupted preparation has left goes, step by step.
LEMMA UndoPreparationStays == ASSUME TypeOK, RunInv, UndoPreparation PROVE TypeOK' /\ RunInv'
<1> USE DEF RunInv
<1>1. /\ at = "undo"
      /\ UNCHANGED <<others, evidence, bound, plan, ledger, box, retained, progress, history>>
  BY DEF UndoPreparation
<1>2. intent /\ evidence = "none" /\ ledger = None /\ ~ box /\ opened = None
  BY <1>1, NoLedger DEF Claimed, Preparing
<1>3. \A t \in Target : place[t] # "live" => place[t] = "absent"
  BY <1>2 DEF Made, TypeOK
<1>4. \/ at' = "undo" /\ UNCHANGED <<after, final, opened, worker, intent>>
      \/ at' = "intent" /\ intent' = FALSE /\ UNCHANGED <<after, final, opened, worker>>
      \/ /\ at' = "idle" /\ after' = "idle" /\ final' = FALSE /\ opened' = None /\ worker' = None
         /\ UNCHANGED intent
  BY DEF UndoPreparation, UndoTarget, UndoRunDirectory, Goes, Ends
<1>5. /\ Placed' /\ journal' \in {"none", "directory", "journal"}
      /\ \A t \in Target : t \notin {"staging", "control"} =>
            place'[t] = place[t] /\ content'[t] = content[t]
      /\ \A t \in {"staging", "control"} :
            place'[t] \in {"live", "absent"} /\ (place'[t] = "absent" => content'[t] = {})
      /\ place'["cache"] # "absent" => journal' = "journal"
      /\ ~ intent' => \A t \in Own : place'[t] = "absent"
  <2> USE OwnAreTargets, PlacedType
  <2>1. CASE \E t \in {"staging", "control"} : UndoTarget(t)
    <3>1. PICK t \in {"staging", "control"} : UndoTarget(t)
      BY <2>1
    <3>2. UNCHANGED <<journal, intent>> /\ place[t] = "live"
      BY <3>1 DEF UndoTarget
    <3>3. CASE UNCHANGED made
      BY <1>2, <1>3, <3>2, <3>3 DEF Made, made, Placed, TypeOK
    <3>4. CASE Appears(t, {})
      BY <1>2, <1>3, <3>2, <3>4, AppearsOne DEF Made, TypeOK
    <3>5. CASE Vanish({t})
      BY <1>2, <1>3, <3>2, <3>5, VanishSome DEF Made, TypeOK
    <3> QED
      BY <3>1, <3>3, <3>4, <3>5 DEF UndoTarget
  <2>2. CASE UndoRunDirectory
    <3>1. UNCHANGED made /\ UNCHANGED intent
      BY <2>2 DEF UndoRunDirectory
    <3>2. UNCHANGED journal \/ (place["cache"] # "live" /\ journal' \in {"none", "directory"})
      BY <2>2 DEF UndoRunDirectory
    <3> QED
      BY <1>2, <1>3, <3>1, <3>2 DEF Made, made, Placed, TypeOK
  <2>3. CASE /\ \A t \in {"staging", "control"} : place[t] # "live"
             /\ journal = "none" /\ intent' = FALSE /\ UNCHANGED <<made, journal>>
    BY <1>2, <1>3, <2>3 DEF Made, made, Placed, TypeOK, Own
  <2> QED
    BY <2>1, <2>2, <2>3 DEF UndoPreparation
<1> USE DEF others, corpusVars, store, made, progress, history
<1>6. TypeOK'
  BY <1>1, <1>2, <1>4, <1>5, CorpusTypesStay DEF TypeOK, Placed
<1>7. Claimed'
  BY <1>1, <1>2, <1>4 DEF Claimed, Preparing, Running
<1>8. Planned'
  BY <1>1, <1>2, <1>4 DEF Planned
<1>9. Made'
  BY <1>1, <1>2, <1>4, <1>5, OwnAreTargets DEF Made, Own
<1>10. Worked'
  BY <1>1, <1>2, <1>4 DEF Worked
<1>11. Exactly'
  BY <1>1, <1>2, <1>4, <1>5, OwnAreTargets DEF Exactly, Candidates, Worked, Own
<1>12. Kept' /\ Noted'
  BY <1>1, <1>2, <1>4, WithoutLedger
<1> QED
  BY <1>6, <1>7, <1>8, <1>9, <1>10, <1>11, <1>12

\* The intent of a new run is written: nothing of an earlier one is there.
LEMMA PersistIntentStays == ASSUME TypeOK, RunInv, PersistIntent PROVE TypeOK' /\ RunInv'
<1> USE DEF RunInv
<1>1. /\ at = "intent" /\ at' = "staging" /\ UNCHANGED <<after, final, opened, worker>>
      /\ UNCHANGED <<others, ledger, box, made, before, spilled>>
      /\ intent' = TRUE /\ journal' = "none" /\ evidence' = "none" /\ bound' = 0 /\ plan' = {}
      /\ retained' = FALSE /\ items' = {} /\ created' = {} /\ readback' = FALSE
  BY DEF PersistIntent, Goes
<1>2. ledger = None /\ ~ box /\ opened = None
  BY <1>1, NoLedger
<1>3. \A t \in Own : place[t] = "absent"
  BY <1>1 DEF Claimed, Planned, Made, TypeOK
<1>4. begun' \in 0 .. MaxRuns /\ past' \subseteq SUBSET Shared /\ earlier' \subseteq past'
  <2>1. begun' \in 0 .. MaxRuns
    BY RunsConstant DEF PersistIntent, TypeOK
  <2>2. past' \subseteq SUBSET Shared
    BY DEF PersistIntent, TypeOK
  <2> QED
    BY <2>1, <2>2 DEF PersistIntent
<1> USE DEF others, corpusVars, store, made
<1>5. TypeOK'
  <2>1. published \in Nat
    BY CorpusConstants DEF TypeOK, CorpusTypeOK
  <2>2. bound' \in 0 .. published'
    BY <1>1, <2>1
  <2>3. CorpusTypeOK'
    BY <1>1, CorpusTypesStay DEF TypeOK
  <2> QED
    BY <1>1, <1>4, <2>2, <2>3 DEF TypeOK, Preparing
<1>6. Claimed'
  BY <1>1 DEF Claimed, Preparing, Running
<1>7. Planned'
  BY <1>1 DEF Planned
<1>8. Made'
  BY <1>1, <1>2, <1>3 DEF Made, Own
<1>9. Worked'
  BY <1>1 DEF Worked
<1>10. Exactly'
  BY <1>1 DEF Exactly, Candidates, Worked
<1>11. Kept' /\ Noted'
  BY <1>1, <1>2, WithoutLedger
<1> QED
  BY <1>5, <1>6, <1>7, <1>8, <1>9, <1>10, <1>11

\* A directory or a file of the run is staged, or its cache sealed.
LEMMA StageStays == ASSUME TypeOK, RunInv, Stage PROVE TypeOK' /\ RunInv'
<1> USE DEF RunInv
<1>1. /\ UNCHANGED <<others, claims, progress, history, after, final, opened, worker>>
      /\ at \in Preparing \ {"evidence", "unlink"} /\ at' \in Preparing \ {"unlink"}
      /\ at' \in {"staging", "control", "fill", "manifest", "state", "journal"} =>
            at \in {"staging", "control", "fill", "manifest", "state", "journal"}
      /\ at' # "seal"
  BY DEF Stage, Goes, Preparing
<1>2. ledger = None /\ ~ box /\ opened = None
  BY <1>1, NoLedger DEF Preparing
<1>3. PICK t \in {"staging", "control", "cache"} : \E parts \in SUBSET Part(t) :
        Appears(t, parts) /\ (t = "cache" => at = "seal" /\ parts = Part(t) /\ at' = "evidence")
  BY DEF Stage, Goes
<1>4. /\ Placed'
      /\ place'[t] = "live"
      /\ t = "cache" => at = "seal" /\ content'[t] = Part(t) /\ at' = "evidence"
      /\ \A u \in Target \ {t} : place'[u] = place[u] /\ content'[u] = content[u]
  BY <1>3, AppearsOne, OwnAreTargets, PlacedType
<1>5. intent /\ evidence = "none" /\ worker = None /\ after # "report"
  BY <1>1 DEF Claimed, Worked, Preparing
<1> USE DEF others, corpusVars, store, claims, progress, history
<1>6. TypeOK'
  BY <1>1, <1>4, CorpusTypesStay DEF TypeOK, Placed
<1>7. Claimed'
  BY <1>1, <1>5 DEF Claimed, Preparing, Running
<1>8. Planned'
  BY <1>1, <1>5 DEF Planned, Preparing
<1>9. Made'
  BY <1>1, <1>2, <1>3, <1>4, <1>5, OwnAreTargets DEF Made, Own
<1>10. Worked'
  BY <1>1, <1>5 DEF Worked, Preparing
<1>11. Exactly'
  BY <1>1, <1>3, <1>4, <1>5, OwnAreTargets DEF Exactly, Candidates, Own
<1>12. Kept' /\ Noted'
  BY <1>1, <1>2, WithoutLedger DEF Preparing
<1> QED
  BY <1>6, <1>7, <1>8, <1>9, <1>10, <1>11, <1>12

\* The directory of the run and its journal are made.
LEMMA OpenJournalStays == ASSUME TypeOK, RunInv, OpenJournal PROVE TypeOK' /\ RunInv'
<1> USE DEF RunInv
<1>1. /\ UNCHANGED <<others, intent, evidence, bound, plan, ledger, box, retained>>
      /\ UNCHANGED <<made, progress, history, after, final, opened, worker>>
      /\ \/ at = "state" /\ at' = "journal" /\ journal' = "directory"
         \/ at = "journal" /\ at' = "seal" /\ journal' = "journal"
  BY DEF OpenJournal, Goes
<1>2. ledger = None /\ ~ box /\ opened = None
  BY <1>1, NoLedger
<1>3. intent /\ evidence = "none"
  BY <1>1 DEF Claimed, Preparing
<1> USE DEF others, corpusVars, store, made, progress, history
<1>4. TypeOK'
  BY <1>1, CorpusTypesStay DEF TypeOK, Preparing
<1>5. Claimed'
  BY <1>1, <1>3 DEF Claimed, Preparing, Running
<1>6. Planned'
  BY <1>1, <1>3 DEF Planned
<1>7. Made'
  BY <1>1 DEF Made
<1>8. Worked'
  BY <1>1 DEF Worked
<1>9. Exactly'
  BY <1>1 DEF Exactly, Candidates, Worked
<1>10. Kept' /\ Noted'
  BY <1>1, <1>2, WithoutLedger
<1> QED
  BY <1>4, <1>5, <1>6, <1>7, <1>8, <1>9, <1>10

\* The evidence of the run is written under its intent.
LEMMA PersistEvidenceStays == ASSUME TypeOK, RunInv, PersistEvidence PROVE TypeOK' /\ RunInv'
<1> USE DEF RunInv
<1>1. /\ at = "evidence" /\ at' = "unlink" /\ evidence' = "open" /\ bound' = corpus
      /\ UNCHANGED <<others, intent, journal, plan, ledger, box, retained>>
      /\ UNCHANGED <<made, progress, history, after, final, opened, worker>>
  BY DEF PersistEvidence, Goes
<1>2. ledger = None /\ ~ box /\ opened = None
  BY <1>1, NoLedger
<1>3. intent /\ evidence = "none"
  BY <1>1 DEF Claimed, Preparing
<1> USE DEF others, corpusVars, store, made, progress, history
<1>4. TypeOK'
  <2>1. bound' \in 0 .. published'
    BY <1>1 DEF TypeOK, CorpusTypeOK
  <2> QED
    BY <1>1, <2>1, CorpusTypesStay DEF TypeOK, Preparing
<1>5. Claimed'
  BY <1>1, <1>3 DEF Claimed, Preparing, Running
<1>6. Planned'
  BY <1>1 DEF Planned
<1>7. Made'
  BY <1>1 DEF Made
<1>8. Worked'
  BY <1>1, <1>3 DEF Worked
<1>9. Exactly'
  BY <1>1, <1>3 DEF Exactly, Candidates, Worked
<1>10. Kept' /\ Noted'
  BY <1>1, <1>2, WithoutLedger
<1> QED
  BY <1>4, <1>5, <1>6, <1>7, <1>8, <1>9, <1>10

\* The intent goes under the evidence.
LEMMA UnlinkIntentStays == ASSUME TypeOK, RunInv, UnlinkIntent PROVE TypeOK' /\ RunInv'
<1> USE DEF RunInv
<1>1. /\ at = "unlink" /\ at' = "launch" /\ intent' = FALSE
      /\ UNCHANGED <<others, journal, evidence, bound, plan, ledger, box, retained>>
      /\ UNCHANGED <<made, progress, history, after, final, opened, worker>>
  BY DEF UnlinkIntent, Goes
<1>2. ledger = None /\ ~ box /\ opened = None
  BY <1>1, NoLedger
<1>3. intent /\ evidence = "open"
  BY <1>1 DEF Claimed, Preparing
<1> USE DEF others, corpusVars, store, made, progress, history
<1>4. TypeOK'
  <2>1. at' \in Running /\ intent' \in BOOLEAN
    BY <1>1 DEF Running
  <2> QED
    BY <1>1, <2>1, CorpusTypesStay DEF TypeOK
<1>5. Claimed'
  BY <1>1, <1>3 DEF Claimed, Preparing, Running
<1>6. Planned'
  BY <1>1, <1>3 DEF Planned
<1>7. Made'
  BY <1>1, <1>3 DEF Made
<1>8. Worked'
  BY <1>1, <1>3 DEF Worked
<1>9. Exactly'
  BY <1>1, <1>3 DEF Exactly, Candidates, Worked
<1>10. Kept' /\ Noted'
  BY <1>1, <1>2, WithoutLedger
<1> QED
  BY <1>4, <1>5, <1>6, <1>7, <1>8, <1>9, <1>10

\* A preparation that fails removes what it has staged.
LEMMA PrepareFailsStays == ASSUME TypeOK, RunInv, PrepareFails PROVE TypeOK' /\ RunInv'
<1> USE DEF RunInv
<1>1. /\ at \in Preparing /\ UNCHANGED <<others, claims, progress, history>>
      /\ at' = "idle" /\ after' = "idle" /\ final' = FALSE /\ opened' = None /\ worker' = None
  BY DEF PrepareFails, Ends
<1>2. ledger = None /\ ~ box /\ intent
  BY <1>1, NoLedger DEF Claimed, Preparing
<1>3. /\ Placed'
      /\ \A u \in Target :
            IF u \in {"staging", "control", "cache"} THEN place'[u] = "absent" /\ content'[u] = {}
            ELSE place'[u] = place[u] /\ content'[u] = content[u]
  BY VanishSome, PlacedType DEF PrepareFails
<1>4. evidence # "cleanup"
  BY <1>2 DEF Claimed
<1> USE DEF others, corpusVars, store, claims, progress, history
<1>5. TypeOK'
  BY <1>1, <1>3, CorpusTypesStay DEF TypeOK, Placed
<1>6. Claimed'
  BY <1>1 DEF Claimed, Preparing, Running
<1>7. Planned'
  BY <1>1, <1>4 DEF Planned
<1>8. Made'
  BY <1>1, <1>2, <1>3, OwnAreTargets DEF Made, Own
<1>9. Worked'
  BY <1>1 DEF Worked
<1>10. Exactly'
  BY <1>1, <1>3, <1>4, OwnAreTargets DEF Exactly, Candidates, Own
<1>11. Kept' /\ Noted'
  BY <1>1, <1>2, WithoutLedger
<1> QED
  BY <1>5, <1>6, <1>7, <1>8, <1>9, <1>10, <1>11

-----------------------------------------------------------------------------
(* Its worker. *)

\* What holds while a worker is at work.
LEMMA WorkersTime ==
    ASSUME RunInv, worker # None
    PROVE  /\ at = "wait" /\ evidence = "open" /\ ~ intent /\ after # "report"
           /\ ledger = None /\ ~ box /\ opened = None /\ ~ retained
<1>1. at = "wait"
  BY DEF RunInv, Worked
<1>2. evidence = "open" /\ ~ intent
  BY <1>1 DEF RunInv, Claimed, Running
<1> QED
  BY <1>1, <1>2, NoLedger DEF RunInv, Worked, Exactly

\* The worker opens its batch.
LEMMA InitializeBatchStays == ASSUME TypeOK, RunInv, InitializeBatch PROVE TypeOK' /\ RunInv'
<1> USE DEF RunInv
<1>1. /\ worker # None /\ UNCHANGED <<others, memory, claims, progress, history>>
  BY DEF InitializeBatch
<1>2. /\ at = "wait" /\ evidence = "open" /\ ~ intent /\ after # "report"
      /\ ledger = None /\ ~ box /\ opened = None /\ ~ retained
  BY <1>1, WorkersTime
<1>3. /\ Placed' /\ place'["batch"] = "live" /\ content'["batch"] = Part("batch")
      /\ \A u \in Target \ {"batch"} : place'[u] = place[u] /\ content'[u] = content[u]
  BY AppearsOne, OwnAreTargets, PlacedType DEF InitializeBatch
<1> USE DEF others, corpusVars, store, memory, claims, progress, history
<1>5. TypeOK'
  BY <1>1, <1>3, CorpusTypesStay DEF TypeOK, Placed
<1>6. Claimed'
  BY <1>1 DEF Claimed
<1>7. Planned'
  BY <1>1, <1>2 DEF Planned
<1>8. Made'
  BY <1>1, <1>2, <1>3, OwnAreTargets DEF Made, Own
<1>9. Worked'
  BY <1>1 DEF Worked
<1>10. Exactly'
  BY <1>1, <1>2, <1>3, OwnAreTargets DEF Exactly, Candidates, Own
<1>11. Kept' /\ Noted'
  BY <1>1, <1>2, WithoutLedger
<1> QED
  BY <1>5, <1>6, <1>7, <1>8, <1>9, <1>10, <1>11

\* A candidate that is stored anew was not there before the run.
LEMMA ConvertStays == ASSUME TypeOK, RunInv, Convert PROVE TypeOK' /\ RunInv'
<1> USE DEF RunInv
<1>1. /\ worker # None
      /\ UNCHANGED <<others, at, after, final, opened, claims, progress, history>>
  BY DEF Convert
<1>2. /\ at = "wait" /\ evidence = "open" /\ ~ intent /\ after # "report"
      /\ ledger = None /\ ~ box /\ opened = None /\ ~ retained
  BY <1>1, WorkersTime
<1>3. PICK d \in Document \ items :
        /\ worker' = [worker EXCEPT !.item = d, !.new = place[d] # "live"]
        /\ IF place[d] = "live" THEN UNCHANGED made ELSE Appears(d, Part(d))
  BY DEF Convert
<1>4. /\ Placed' /\ place'[d] = "live"
      /\ place[d] # "live" => content'[d] = Part(d)
      /\ place[d] = "live" => UNCHANGED made
      /\ \A u \in Target \ {d} : place'[u] = place[u] /\ content'[u] = content[u]
  <2>1. CASE place[d] = "live"
    BY <1>3, <2>1, PlacedType DEF made, Placed
  <2>2. CASE place[d] # "live"
    BY <1>3, <2>2, AppearsOne, OwnAreTargets, PlacedType
  <2> QED
    BY <2>1, <2>2
<1>5. worker' \in Worker /\ worker'.item = d /\ worker'.new = (place[d] # "live")
  <2>1. worker \in Worker
    BY <1>1 DEF TypeOK
  <2> QED
    BY <1>3, <2>1 DEF Worker
<1> USE DEF others, corpusVars, store, claims, progress, history, made
<1>6. TypeOK'
  BY <1>1, <1>4, <1>5, CorpusTypesStay DEF TypeOK, Placed
<1>7. Claimed'
  BY <1>1 DEF Claimed
<1>8. Planned'
  BY <1>1, <1>2 DEF Planned
<1>9. Made'
  BY <1>1, <1>2, <1>3, <1>4, OwnAreTargets DEF Made, Own
<1>10. Worked'
  <2>1. worker'.new => worker'.item \notin before'
    BY <1>1, <1>5 DEF Exactly, Candidates
  <2> QED
    BY <1>1, <1>2, <2>1 DEF Worked
<1>11. Exactly'
  <2>1. Candidates \subseteq Candidates'
    BY <1>4, OwnAreTargets DEF Candidates
  <2> QED
    BY <1>1, <1>2, <2>1 DEF Exactly
<1>12. Kept' /\ Noted'
  BY <1>1, <1>2, WithoutLedger
<1> QED
  BY <1>6, <1>7, <1>8, <1>9, <1>10, <1>11, <1>12

\* The worker records its item.
LEMMA RecordItemStays == ASSUME TypeOK, RunInv, RecordItem PROVE TypeOK' /\ RunInv'
<1> USE DEF RunInv
<1>1. /\ worker # None /\ worker.item # None /\ items' = items \cup {worker.item}
      /\ created' = IF worker.new THEN created \cup {worker.item} ELSE created
      /\ worker' = [worker EXCEPT !.item = None, !.new = FALSE]
      /\ UNCHANGED <<others, at, after, final, opened, claims, made, readback, history>>
  BY DEF RecordItem
<1>2. /\ at = "wait" /\ evidence = "open" /\ ~ intent /\ after # "report"
      /\ ledger = None /\ ~ box /\ opened = None /\ ~ retained
  BY <1>1, WorkersTime
<1>3. worker \in Worker
  BY <1>1 DEF TypeOK
<1>4. /\ worker' \in Worker /\ ~ worker'.new /\ worker.item \in Document
      /\ worker.new => worker.item \notin before
  BY <1>1, <1>3 DEF Worker, Worked
<1> USE DEF others, corpusVars, store, claims, history, made
<1>5. created' \subseteq items' /\ items' \subseteq Document /\ created' \cap before = {}
  BY <1>1, <1>4 DEF TypeOK, Exactly
<1>6. TypeOK'
  BY <1>1, <1>4, <1>5, CorpusTypesStay DEF TypeOK
<1>7. Claimed'
  BY <1>1 DEF Claimed
<1>8. Planned'
  BY <1>1, <1>2 DEF Planned
<1>9. Made'
  BY <1>1, <1>2 DEF Made
<1>10. Worked'
  BY <1>1, <1>2, <1>4, <1>5 DEF Worked
<1>11. Exactly'
  BY <1>1, <1>2, <1>5 DEF Exactly, Candidates
<1>12. Kept' /\ Noted'
  BY <1>1, <1>2, WithoutLedger
<1> QED
  BY <1>6, <1>7, <1>8, <1>9, <1>10, <1>11, <1>12

\* The readback is written when every document has its item.
LEMMA PersistReadbackStays == ASSUME TypeOK, RunInv, PersistReadback PROVE TypeOK' /\ RunInv'
<1> USE DEF RunInv
<1>1. /\ worker # None /\ items = Document /\ readback' = TRUE
      /\ UNCHANGED <<others, memory, claims, made, items, created, history>>
  BY DEF PersistReadback
<1>2. /\ at = "wait" /\ evidence = "open" /\ ~ intent /\ after # "report"
      /\ ledger = None /\ ~ box /\ opened = None /\ ~ retained
  BY <1>1, WorkersTime
<1> USE DEF others, corpusVars, store, memory, claims, history, made
<1>3. TypeOK'
  BY <1>1, CorpusTypesStay DEF TypeOK
<1>4. Claimed'
  BY <1>1 DEF Claimed
<1>5. Planned'
  BY <1>1, <1>2 DEF Planned
<1>6. Made'
  BY <1>1 DEF Made
<1>7. Worked'
  BY <1>1, <1>2 DEF Worked
<1>8. Exactly'
  BY <1>1, <1>2 DEF Exactly, Candidates
<1>9. Kept' /\ Noted'
  BY <1>1, <1>2, WithoutLedger
<1> QED
  BY <1>3, <1>4, <1>5, <1>6, <1>7, <1>8, <1>9

\* A worker is launched: the first one notes the candidates that are there.
LEMMA LaunchStays == ASSUME TypeOK, RunInv, Launch PROVE TypeOK' /\ RunInv'
<1> USE DEF RunInv
<1>1. /\ at \in {"launch", "resume"} /\ at' = "wait"
      /\ UNCHANGED <<others, after, final, opened, claims, made, progress>>
      /\ UNCHANGED <<begun, spilled, past, earlier>>
      /\ worker' = [resumed |-> at = "resume", item |-> None, new |-> FALSE]
      /\ before' = IF at = "launch" THEN Candidates ELSE before
  BY DEF Launch, NewWorker
<1>2. ledger = None /\ ~ box /\ opened = None
  BY <1>1, NoLedger
<1>3. evidence = "open" /\ ~ intent /\ after # "report"
  BY <1>1 DEF Claimed, Worked, Running
<1>4. worker' \in Worker /\ ~ worker'.new
  BY <1>1 DEF Worker
<1>5. before' \subseteq Candidates /\ before' \subseteq Document /\ created \cap before' = {}
  <2>1. CASE at = "launch"
    <3>1. created = {}
      BY <2>1 DEF Worked, TypeOK
    <3> QED
      BY <1>1, <2>1, <3>1 DEF Candidates
  <2>2. CASE at # "launch"
    BY <1>1, <2>2 DEF Exactly, TypeOK
  <2> QED
    BY <2>1, <2>2
<1> USE DEF others, corpusVars, store, claims, made, progress
<1>6. TypeOK'
  <2>1. at' \in Running /\ worker' \in Worker \cup {None} /\ before' \subseteq Document
    BY <1>1, <1>4, <1>5 DEF Running
  <2> QED
    BY <1>1, <2>1, CorpusTypesStay DEF TypeOK
<1>7. Claimed'
  BY <1>1, <1>3 DEF Claimed, Preparing, Running
<1>8. Planned'
  BY <1>1, <1>3 DEF Planned
<1>9. Made'
  BY <1>1 DEF Made
<1>10. Worked'
  BY <1>1, <1>3, <1>4 DEF Worked
<1>11. Exactly'
  BY <1>1, <1>3, <1>5 DEF Exactly, Candidates
<1>12. Kept' /\ Noted'
  BY <1>1, <1>2, WithoutLedger
<1> QED
  BY <1>6, <1>7, <1>8, <1>9, <1>10, <1>11, <1>12

\* The worker is interrupted, or has ended.
LEMMA WorkerEndsStays ==
    ASSUME TypeOK, RunInv, Interrupt \/ LoadFinal PROVE TypeOK' /\ RunInv'
<1> USE DEF RunInv
<1>1. /\ at = "wait" /\ worker # None /\ worker' = None /\ final' \in BOOLEAN
      /\ at' = "resume" \/ (at' = "verify" /\ readback)
      /\ UNCHANGED <<others, after, opened, claims, made, progress, history>>
  BY DEF Interrupt, LoadFinal, TypeOK
<1>2. /\ evidence = "open" /\ ~ intent /\ after # "report"
      /\ ledger = None /\ ~ box /\ opened = None /\ ~ retained
  BY <1>1, WorkersTime
<1> USE DEF others, corpusVars, store, claims, made, progress, history
<1>3. TypeOK'
  <2>1. at' \in Running
    BY <1>1 DEF Running
  <2> QED
    BY <1>1, <2>1, CorpusTypesStay DEF TypeOK
<1>4. Claimed'
  BY <1>1, <1>2 DEF Claimed, Preparing, Running
<1>5. Planned'
  BY <1>1, <1>2 DEF Planned
<1>6. Made'
  BY <1>1 DEF Made
<1>7. Worked'
  BY <1>1, <1>2 DEF Worked
<1>8. Exactly'
  BY <1>1, <1>2 DEF Exactly, Candidates
<1>9. Kept' /\ Noted'
  BY <1>1, <1>2, WithoutLedger
<1> QED
  BY <1>3, <1>4, <1>5, <1>6, <1>7, <1>8, <1>9

\* The run is verified.
LEMMA VerifyStays == ASSUME TypeOK, RunInv, Verify PROVE TypeOK' /\ RunInv'
<1> USE DEF RunInv
<1>1. /\ at = "verify" /\ at' = "plan" /\ after' = "report"
      /\ UNCHANGED <<final, opened, worker, others, claims, made, progress, history>>
  BY DEF Verify
<1>2. /\ ledger = None /\ ~ box /\ opened = None /\ evidence = "open" /\ ~ intent
      /\ worker = None /\ readback /\ ~ retained
  BY <1>1, NoLedger DEF Claimed, Worked, Exactly, Running
<1> USE DEF others, corpusVars, store, claims, made, progress, history
<1>3. TypeOK'
  BY <1>1, CorpusTypesStay DEF TypeOK
<1>4. Claimed'
  BY <1>1, <1>2 DEF Claimed, Preparing, Running
<1>5. Planned'
  BY <1>1, <1>2 DEF Planned
<1>6. Made'
  BY <1>1 DEF Made
<1>7. Worked'
  BY <1>1, <1>2 DEF Worked
<1>8. Exactly'
  BY <1>1, <1>2 DEF Exactly, Candidates
<1>9. Kept' /\ Noted'
  BY <1>1, <1>2, WithoutLedger
<1> QED
  BY <1>3, <1>4, <1>5, <1>6, <1>7, <1>8, <1>9

\* The run fails.
LEMMA RunFailsStays == ASSUME TypeOK, RunInv, RunFails PROVE TypeOK' /\ RunInv'
<1> USE DEF RunInv
<1>1. /\ at \in Running /\ worker' = None /\ at' = "plan" /\ after' = "idle"
      /\ UNCHANGED <<final, opened, others, claims, made, progress, begun, spilled, past, earlier>>
      /\ before' = IF at = "launch" THEN Candidates ELSE before
  BY DEF RunFails
<1>2. ledger = None /\ ~ box /\ opened = None
  BY <1>1, NoLedger DEF Running
<1>3. evidence = "open" /\ ~ intent /\ ~ retained
  BY <1>1 DEF Claimed, Exactly
<1>4. before' \subseteq Candidates /\ before' \subseteq Document /\ created \cap before' = {}
  <2>1. CASE at = "launch"
    <3>1. created = {}
      BY <2>1 DEF Worked, TypeOK
    <3> QED
      BY <1>1, <2>1, <3>1 DEF Candidates
  <2>2. CASE at # "launch"
    BY <1>1, <2>2 DEF Exactly, TypeOK
  <2> QED
    BY <2>1, <2>2
<1> USE DEF others, corpusVars, store, claims, made, progress
<1>6. TypeOK'
  BY <1>1, <1>4, CorpusTypesStay DEF TypeOK
<1>7. Claimed'
  BY <1>1, <1>3 DEF Claimed, Preparing, Running
<1>8. Planned'
  BY <1>1, <1>3 DEF Planned
<1>9. Made'
  BY <1>1 DEF Made
<1>10. Worked'
  BY <1>1, <1>3 DEF Worked
<1>11. Exactly'
  BY <1>1, <1>3, <1>4 DEF Exactly, Candidates
<1>12. Kept' /\ Noted'
  BY <1>1, <1>2, WithoutLedger
<1> QED
  BY <1>6, <1>7, <1>8, <1>9, <1>10, <1>11, <1>12

-----------------------------------------------------------------------------
(* Its cleanup. *)

\* The targets of the cleanup are written into the evidence: all that is there.
LEMMA PlanCleanupStays == ASSUME TypeOK, RunInv, PlanCleanup PROVE TypeOK' /\ RunInv'
<1> USE DEF RunInv
<1>1. /\ at = "plan" /\ at' = "mark" /\ plan' = Removes /\ evidence' = "cleanup" /\ PlanIsExact
      /\ UNCHANGED <<others, intent, journal, bound, ledger, box, retained, progress, history>>
      /\ UNCHANGED <<after, final, opened, worker>>
  BY DEF PlanCleanup, Goes
<1>2. /\ ledger = None /\ ~ box /\ opened = None /\ worker = None /\ evidence = "open"
      /\ ~ retained
  BY <1>1, NoLedger DEF Claimed, Worked, Exactly
<1>3. ~ intent
  <2>1. CASE after = "prepare"
    BY <1>1, <2>1 DEF PlanIsExact, Live, Made
  <2>2. CASE after # "prepare"
    BY <1>1, <2>2 DEF Claimed
  <2> QED
    BY <2>1, <2>2
<1>4. /\ Placed' /\ place'["batch"] = "live" /\ content'["batch"] = Part("batch")
      /\ \A u \in Target \ {"batch"} : place'[u] = place[u] /\ content'[u] = content[u]
  <2>1. CASE place["batch"] = "live"
    <3>1. UNCHANGED made
      BY <2>1 DEF PlanCleanup
    <3> QED
      BY <2>1, <3>1, OwnAreTargets, PlacedType DEF made, Placed, Made
  <2>2. CASE place["batch"] # "live"
    <3>1. Appears("batch", Part("batch"))
      BY <2>2 DEF PlanCleanup
    <3> QED
      BY <3>1, AppearsOne, OwnAreTargets, PlacedType
  <2> QED
    BY <2>1, <2>2
<1>5. /\ plan' \subseteq created \cup Own /\ created \subseteq plan' /\ "batch" \in plan'
      /\ \A t \in Own \ plan' : t = "control" /\ place[t] # "live"
  BY <1>1 DEF Removes, Own
<1>6. \A t \in plan' \ {"batch"} : Live(t)
  BY <1>1 DEF PlanIsExact
<1>7. created \subseteq Document
  BY DEF TypeOK
<1>8. after = "report" => Candidates \subseteq before \cup created
  BY <1>1 DEF PlanIsExact, QueueIsExact
<1> USE DEF others, corpusVars, store, progress, history
<1>9. TypeOK'
  <2>1. plan' \subseteq Target
    BY <1>5, <1>7 DEF Target
  <2> QED
    BY <1>1, <1>4, <2>1, CorpusTypesStay DEF TypeOK, Placed
<1>10. Claimed'
  BY <1>1, <1>3 DEF Claimed, Preparing, Running
<1>11. Planned'
  <2>1. \A t \in Own \ plan' : place'[t] = "absent"
    BY <1>2, <1>4, <1>5, OwnAreTargets DEF Made, TypeOK
  <2>2. \A t \in plan' : place'[t] = "live" /\ content'[t] = Part(t)
    BY <1>4, <1>5, <1>6, <1>7, OwnAreTargets DEF Live, Target
  <2> QED
    BY <1>1, <1>5, <2>1, <2>2 DEF Planned, Live
<1>12. Made'
  BY <1>1, <1>2, <1>3, <1>4, OwnAreTargets DEF Made, Own
<1>13. Worked'
  BY <1>1, <1>2, <1>3 DEF Worked
<1>14. Exactly'
  <2>1. Candidates' = Candidates
    BY <1>4, OwnAreTargets DEF Candidates, Own
  <2> QED
    BY <1>1, <1>2, <1>8, <2>1 DEF Exactly
<1>15. Kept' /\ Noted'
  BY <1>1, <1>2, WithoutLedger
<1> QED
  BY <1>9, <1>10, <1>11, <1>12, <1>13, <1>14, <1>15

\* A cleanup that cannot be planned.
LEMMA PlanRefusedStays == ASSUME TypeOK, RunInv, PlanRefused PROVE TypeOK' /\ RunInv'
<1> USE DEF RunInv
<1>1. /\ at = "plan" /\ UNCHANGED <<others, claims, made, progress, history>>
      /\ at' = "idle" /\ after' = "idle" /\ final' = FALSE /\ opened' = None /\ worker' = None
  BY DEF PlanRefused, Ends
<1>2. ledger = None /\ ~ box /\ opened = None
  BY <1>1, NoLedger
<1> USE DEF others, corpusVars, store, claims, made, progress, history
<1>3. TypeOK'
  BY <1>1, CorpusTypesStay DEF TypeOK
<1>4. Claimed'
  BY <1>1 DEF Claimed, Preparing, Running
<1>5. Planned'
  BY <1>1 DEF Planned
<1>6. Made'
  BY <1>1 DEF Made
<1>7. Worked'
  BY <1>1 DEF Worked
<1>8. Exactly'
  BY <1>1 DEF Exactly, Candidates
<1>9. Kept' /\ Noted'
  BY <1>1, <1>2, WithoutLedger
<1> QED
  BY <1>3, <1>4, <1>5, <1>6, <1>7, <1>8, <1>9

\* The ledger is begun with every target in its place.
LEMMA MarkCleanupStays == ASSUME TypeOK, RunInv, MarkCleanup PROVE TypeOK' /\ RunInv'
<1> USE DEF RunInv
<1>1. /\ at = "mark" /\ at' = "reclaim" /\ UNCHANGED <<after, final, opened, worker>>
      /\ UNCHANGED <<others, intent, journal, evidence, bound, plan, box, retained>>
      /\ UNCHANGED <<made, progress, history>>
  BY DEF MarkCleanup, Goes
<1>2. /\ ledger = None /\ ~ box /\ opened = None /\ worker = None /\ evidence = "cleanup"
  BY <1>1, NoLedger DEF Claimed, Worked
<1>3. plan \subseteq Target /\ "batch" \in plan /\ \A t \in plan : Live(t)
  BY <1>1, <1>2 DEF Planned, TypeOK
<1>4. ~ retained
  BY <1>3 DEF Exactly, Live
<1>5. /\ ledger' \in Ledger /\ ~ ledger'.bound /\ ledger'.container = "planned"
      /\ ledger'.pending = "none"
      /\ \A t \in plan : ledger'.phase[t] = "planned" /\ ledger'.reclaimed[t] = {}
  BY <1>3 DEF MarkCleanup, Ledger, Phase
<1>6. ledger' # None
  BY <1>5, NoneIsNoValue
<1> USE DEF others, corpusVars, store, made, progress, history
<1>7. TypeOK'
  BY <1>1, <1>5, CorpusTypesStay DEF TypeOK
<1>8. Claimed'
  BY <1>1, <1>2 DEF Claimed, Preparing, Running
<1>9. Planned'
  BY <1>1, <1>2 DEF Planned
<1>10. Made'
  BY <1>1, <1>2, <1>3 DEF Made
<1>11. Worked'
  BY <1>1, <1>2 DEF Worked
<1>12. Exactly'
  BY <1>1, <1>2, <1>4 DEF Exactly, Candidates
<1>13. Kept'
  BY <1>1, <1>2, <1>6 DEF Kept
<1>14. Noted'
  <2>1. \A t \in plan' : TargetIs(t)'
    BY <1>1, <1>3, <1>5 DEF TargetIs, Live
  <2>2. Ordered'
    BY <1>1, <1>2, <1>3, <1>4, <1>5 DEF Ordered, Todo, Live
  <2> QED
    BY <2>1, <2>2 DEF Noted
<1> QED
  BY <1>7, <1>8, <1>9, <1>10, <1>11, <1>12, <1>13, <1>14

\* A removal that cannot go on.
LEMMA ReclaimRefusedStays == ASSUME TypeOK, RunInv, ReclaimRefused PROVE TypeOK' /\ RunInv'
<1> USE DEF RunInv
<1>1. /\ at = "reclaim" /\ UNCHANGED <<others, claims, made, progress, history>>
      /\ at' = "idle" /\ after' = "idle" /\ final' = FALSE /\ opened' = None /\ worker' = None
  BY DEF ReclaimRefused, Ends
<1> USE DEF others, corpusVars, store, claims, made, progress, history
<1>3. TypeOK'
  BY <1>1, CorpusTypesStay DEF TypeOK
<1>4. Claimed'
  BY <1>1 DEF Claimed, Preparing, Running
<1>5. Planned'
  BY <1>1 DEF Planned
<1>6. Made'
  BY <1>1 DEF Made
<1>7. Worked'
  BY <1>1 DEF Worked
<1>8. Exactly'
  BY <1>1 DEF Exactly, Candidates
<1>9. Kept'
  BY <1>1 DEF Kept
<1>10. Noted'
  BY <1>1, NotedStays DEF Noted, Ordered
<1> QED
  BY <1>3, <1>4, <1>5, <1>6, <1>7, <1>8, <1>9, <1>10

\* A cleanup ends: nothing of its plan is there.
LEMMA EndCleanupStays == ASSUME TypeOK, RunInv, EndCleanup PROVE TypeOK' /\ RunInv'
<1> USE DEF RunInv
<1>1. /\ at = "reclaim" /\ ledger.container = "completed"
      /\ UNCHANGED <<others, intent, journal, evidence, bound, plan, box, retained>>
      /\ UNCHANGED <<made, progress, history>>
  BY DEF EndCleanup
<1>2. \/ /\ at' = "prepare" /\ ledger' = None /\ after = "prepare"
         /\ UNCHANGED <<after, final, opened, worker>>
      \/ /\ at' = "report" /\ ledger' = ledger /\ after = "report"
         /\ UNCHANGED <<after, final, opened, worker>>
      \/ /\ at' = "idle" /\ after' = "idle" /\ final' = FALSE /\ opened' = None /\ worker' = None
         /\ ledger' = ledger
  BY DEF EndCleanup, Goes, Ends, TypeOK
<1>3. ledger # None /\ evidence = "cleanup" /\ worker = None /\ ~ intent
  BY <1>1 DEF Kept, Claimed, Worked
<1>4. ~ box /\ \A t \in plan : place[t] = "absent"
  BY <1>1, <1>3, CompletedCleanup
<1>5. opened = None
  BY <1>1, <1>3, <1>4 DEF Noted, Ordered, Todo
<1> USE DEF others, corpusVars, store, made, progress, history
<1>6. TypeOK'
  <2>1. /\ at' \in {"idle", "prepare", "report"} /\ after' \in {"prepare", "report", "idle"}
        /\ final' \in BOOLEAN /\ opened' = None /\ worker' = None
        /\ ledger' \in Ledger \cup {None}
    BY <1>2, <1>3, <1>5 DEF TypeOK
  <2> QED
    BY <1>1, <2>1, CorpusTypesStay DEF TypeOK
<1>7. Claimed'
  BY <1>1, <1>2, <1>3 DEF Claimed, Preparing, Running
<1>8. Planned'
  BY <1>1, <1>2, <1>3, <1>4 DEF Planned
<1>9. Made'
  BY <1>1, <1>2, <1>3, <1>4 DEF Made
<1>10. Worked'
  BY <1>1, <1>2, <1>3 DEF Worked
<1>11. Exactly'
  BY <1>1, <1>2, <1>3 DEF Exactly, Candidates
<1>12. Kept'
  BY <1>1, <1>2, <1>3, <1>4, <1>5 DEF Kept
<1>13. Noted'
  <2>1. CASE ledger' = None
    BY <2>1 DEF Noted
  <2>2. CASE ledger' = ledger
    BY <1>1, <1>2, <2>2, NotedStays
  <2> QED
    BY <1>2, <2>1, <2>2
<1> QED
  BY <1>6, <1>7, <1>8, <1>9, <1>10, <1>11, <1>12, <1>13

\* The readback is retained.
LEMMA RetainReadbackStays == ASSUME TypeOK, RunInv, RetainReadback PROVE TypeOK' /\ RunInv'
<1> USE DEF RunInv
<1>1. /\ at = "report" /\ retained' = TRUE
      /\ UNCHANGED <<others, intent, journal, evidence, bound, plan, ledger, box>>
      /\ UNCHANGED <<made, progress, history>>
      /\ at' = "idle" /\ after' = "idle" /\ final' = FALSE /\ opened' = None /\ worker' = None
  BY DEF RetainReadback, Ends
<1>2. ledger # None /\ evidence = "cleanup" /\ after = "report"
  BY <1>1 DEF Kept, Claimed, Worked
<1>3. ledger.container = "completed"
  BY <1>1, <1>2 DEF Noted, Ordered
<1>4. readback /\ Candidates \subseteq before \cup created
  BY <1>1, <1>2 DEF Worked, Exactly
<1>5. \A t \in plan : place[t] = "absent"
  BY <1>2, <1>3, CompletedCleanup
<1> USE DEF others, corpusVars, store, made, progress, history
<1>6. TypeOK'
  BY <1>1, CorpusTypesStay DEF TypeOK
<1>7. Claimed'
  BY <1>1 DEF Claimed, Preparing, Running
<1>8. Planned'
  BY <1>1 DEF Planned
<1>9. Made'
  BY <1>1 DEF Made
<1>10. Worked'
  BY <1>1 DEF Worked
<1>11. Exactly'
  BY <1>1, <1>2, <1>4, <1>5 DEF Exactly, Candidates
<1>12. Kept'
  BY <1>1 DEF Kept
<1>13. Noted'
  BY <1>1, <1>3, NotedStays
<1> QED
  BY <1>6, <1>7, <1>8, <1>9, <1>10, <1>11, <1>12, <1>13

\* An operator dies with his worker.
LEMMA CampaignDiesStays ==
    ASSUME TypeOK, CorpusInv, RunInv, CampaignDies PROVE TypeOK' /\ CorpusInv' /\ RunInv'
<1> USE DEF RunInv
<1>1. /\ UNCHANGED <<corpusVars, claims, made, progress, begun, before, past, earlier>>
      /\ at' = "idle" /\ after' = "idle" /\ final' = FALSE /\ opened' = None /\ worker' = None
  BY DEF CampaignDies, Ends
<1>2. deaths' \in 0 .. MaxDeaths
  BY CorpusConstants DEF CampaignDies, TypeOK, CorpusTypeOK
<1>3. spilled' \subseteq {"root", "staging", "control", "run"}
  BY DEF CampaignDies, TypeOK, Spills
<1> USE DEF corpusVars, store, claims, made, progress
<1>4. CorpusInv'
  <2>1. CorpusTypeOK'
    BY <1>1, <1>2 DEF CorpusInv, CorpusTypeOK
  <2> QED
    BY <1>1, <2>1 DEF CorpusInv, JobIsPlaced, CorpusIsKept, Exact
<1>5. TypeOK'
  BY <1>1, <1>3, <1>4 DEF TypeOK, CorpusInv
<1>6. Claimed'
  BY <1>1 DEF Claimed, Preparing, Running
<1>7. Planned'
  BY <1>1 DEF Planned
<1>8. Made'
  BY <1>1 DEF Made
<1>9. Worked'
  BY <1>1 DEF Worked
<1>10. Exactly'
  BY <1>1 DEF Exactly, Candidates
<1>11. Kept'
  BY <1>1 DEF Kept
<1>12. Noted'
  BY <1>1, NotedStays DEF Noted, Ordered
<1> QED
  BY <1>4, <1>5, <1>6, <1>7, <1>8, <1>9, <1>10, <1>11, <1>12

-----------------------------------------------------------------------------
(* The removal, target by target. *)

\* What no step of a removal touches.
Within ==
    /\ UNCHANGED <<others, at, after, final, worker>>
    /\ UNCHANGED <<intent, journal, evidence, bound, plan, retained, progress, history>>

\* What a step of a removal may do to its target: it is out of its place, the ledger is
\* true of it, and all other targets are as they were.
Moves(t) ==
    /\ Placed' /\ place'[t] # "live"
    /\ place[t] = "absent" => place'[t] = "absent"
    /\ place'[t] = "absent" => content'[t] = {}
    /\ ledger' \in Ledger /\ TargetIs(t)'
    /\ ledger'.bound = ledger.bound /\ ledger'.container = ledger.container /\ box' = box
    /\ ledger'.pending # "none" => ledger'.phase[t] = "reclaiming"
    /\ \/ opened' = None
       \/ opened' = t /\ ledger'.phase[t] = "reclaiming" /\ place'[t] = "held"
    /\ \A u \in Target \ {t} :
          /\ place'[u] = place[u] /\ content'[u] = content[u]
          /\ ledger'.phase[u] = ledger.phase[u] /\ ledger'.reclaimed[u] = ledger.reclaimed[u]

\* While a target is on its way no other has left its place or is open, and nothing else
\* is announced.
LEMMA OneOnItsWay ==
    ASSUME TypeOK, RunInv, at = "reclaim", NEW t \in Target, Current(t)
    PROVE  /\ ledger \in Ledger /\ ledger # None /\ TargetIs(t) /\ t \in plan
           /\ ledger.phase[t] # "completed"
           /\ ledger.container = "planned" /\ ~ retained
           /\ opened = None \/ (opened = t /\ ledger.phase[t] = "reclaiming" /\ place[t] = "held")
           /\ ledger.pending # "none" => ledger.phase[t] = "reclaiming"
           /\ \A u \in plan \ {t} : ledger.phase[u] # "reclaiming"
<1>1. ledger \in Ledger /\ ledger # None
  BY DEF TypeOK, RunInv, Kept
<1>2. Ordered /\ \A u \in plan : TargetIs(u)
  BY <1>1 DEF RunInv, Noted
<1>3. t \in Todo /\ t \in plan /\ \A u \in Todo \ {t} : place[u] = "live"
  BY DEF Current, Todo
<1>4. \A u \in plan \ {t} : ledger.phase[u] # "reclaiming"
  <2> SUFFICES ASSUME NEW u \in plan \ {t}, ledger.phase[u] = "reclaiming" PROVE FALSE
    OBVIOUS
  <2>1. place[u] # "live"
    BY <1>2 DEF TargetIs
  <2> QED
    BY <1>3, <2>1 DEF Todo
<1>5. ledger.container = "planned" /\ ~ retained
  BY <1>2, <1>3 DEF Ordered
<1>6. opened = None \/ (opened = t /\ ledger.phase[t] = "reclaiming" /\ place[t] = "held")
  BY <1>2, <1>3 DEF Ordered
<1>7. ledger.pending # "none" => ledger.phase[t] = "reclaiming"
  BY <1>2, <1>3, <1>4 DEF Ordered, Todo
<1> QED
  BY <1>1, <1>2, <1>3, <1>4, <1>5, <1>6, <1>7 DEF Todo

\* A step on the target whose turn it is keeps the invariant.
LEMMA MovesStays ==
    ASSUME TypeOK, RunInv, at = "reclaim", ledger.bound, Within,
           NEW t \in Target, Current(t), Moves(t)
    PROVE  TypeOK' /\ RunInv'
<1> USE DEF RunInv
<1>1. /\ UNCHANGED <<others, at, after, final, worker>>
      /\ UNCHANGED <<intent, journal, evidence, bound, plan, retained, progress, history>>
  BY DEF Within
<1>2. /\ ledger \in Ledger /\ ledger # None /\ t \in plan /\ ~ retained
      /\ ledger.container = "planned" /\ \A u \in plan \ {t} : ledger.phase[u] # "reclaiming"
  BY OneOnItsWay
<1>3. ledger' \in Ledger /\ ledger' # None
  BY NoneIsNoValue DEF Moves
<1>4. evidence = "cleanup" /\ ~ intent /\ worker = None
  BY DEF Claimed, Worked
<1>5. plan \subseteq created \cup Own /\ plan \subseteq Target
  BY <1>4 DEF Planned, TypeOK
<1>6. t \notin before
  BY <1>2, <1>5, OwnAreTargets DEF Exactly, TypeOK
<1> USE DEF others, corpusVars, store, progress, history
<1>7. TypeOK'
  <2>1. opened' \in Target \cup {None} /\ ledger' \in Ledger \cup {None} /\ box' \in BOOLEAN
    BY <1>3 DEF Moves, TypeOK
  <2> QED
    BY <1>1, <2>1, CorpusTypesStay DEF TypeOK, Moves, Placed
<1>8. Claimed'
  BY <1>1, <1>4 DEF Claimed, Preparing, Running
<1>9. Planned'
  BY <1>1, <1>2, <1>4, OwnAreTargets DEF Planned, Moves, Target
<1>10. Made'
  BY <1>1, <1>2, <1>3, <1>4, OwnAreTargets DEF Made, Moves, Own
<1>11. Worked'
  BY <1>1, <1>4 DEF Worked
<1>12. Exactly'
  <2>1. before \subseteq Candidates'
    BY <1>6, OwnAreTargets DEF Exactly, Candidates, Moves
  <2>2. Candidates' \subseteq Candidates
    BY OwnAreTargets DEF Candidates, Moves
  <2> QED
    BY <1>1, <1>2, <2>1, <2>2 DEF Exactly
<1>13. Kept'
  BY <1>1, <1>3, <1>4 DEF Kept
<1>14. \A u \in plan : TargetIs(u)'
  <2> SUFFICES ASSUME NEW u \in plan, u # t PROVE TargetIs(u)'
    BY DEF Moves
  <2>1. /\ TargetIs(u) /\ ledger.phase[u] # "reclaiming" /\ u \in Target
        /\ ledger.phase[u] \in Phase
    BY <1>2, <1>5 DEF Noted, Ledger
  <2> QED
    BY <1>1, <2>1 DEF TargetIs, Moves, Phase
<1>15. Todo' \subseteq Todo /\ (Todo' \ {t} = Todo \ {t}) /\ Todo \subseteq Target
  BY <1>1, <1>5 DEF Todo, Moves, Current
<1>16. Ordered'
  <2>1. ASSUME NEW u \in Todo', place'[u] # "live" PROVE Current(u)'
    <3>1. u = t
      BY <1>15, <2>1 DEF Current, Moves
    <3>2. \A v \in Todo' \ {t} : Rank(t) <= Rank(v) /\ place'[v] = "live"
      BY <1>15 DEF Current, Moves
    <3> QED
      BY <2>1, <3>1, <3>2 DEF Current
  <2>2. ledger'.phase[t] = "reclaiming" => t \in Todo'
    BY <1>1, <1>2 DEF Todo
  <2>3. Ordered
    BY <1>2 DEF Noted
  <2> QED
    BY <1>1, <1>2, <2>1, <2>2, <2>3 DEF Ordered, Moves
<1>17. Noted'
  BY <1>1, <1>14, <1>16 DEF Noted
<1> QED
  BY <1>7, <1>8, <1>9, <1>10, <1>11, <1>12, <1>13, <1>17

\* A target goes into the box.
LEMMA QuarantineMoves ==
    ASSUME TypeOK, RunInv, at = "reclaim", NEW t \in Target, Current(t), Quarantine(t)
    PROVE  Moves(t)
<1>1. /\ ledger \in Ledger /\ TargetIs(t) /\ t \in plan
      /\ opened = None \/ (opened = t /\ ledger.phase[t] = "reclaiming" /\ place[t] = "held")
      /\ ledger.pending # "none" => ledger.phase[t] = "reclaiming"
  BY OneOnItsWay
<1>2. Placed
  BY PlacedType
<1>3. CASE /\ place[t] = "live" /\ ledger.phase[t] = "planned"
           /\ place' = [place EXCEPT ![t] = "held"]
           /\ UNCHANGED <<content, ledger, box, opened>>
  <2>1. Placed' /\ place'[t] = "held" /\ \A u \in Target \ {t} : place'[u] = place[u]
    BY <1>2, <1>3 DEF Placed
  <2>2. TargetIs(t)'
    BY <1>1, <1>3, <2>1 DEF TargetIs
  <2> QED
    BY <1>1, <1>3, <2>1, <2>2 DEF Moves
<1>4. CASE /\ place[t] = "held" /\ ledger.phase[t] = "planned"
           /\ Notes([ledger EXCEPT !.phase[t] = "quarantined"])
  <2>1. /\ ledger' \in Ledger /\ ledger'.phase[t] = "quarantined"
        /\ ledger'.bound = ledger.bound /\ ledger'.container = ledger.container
        /\ ledger'.pending = ledger.pending /\ ledger'.reclaimed = ledger.reclaimed
        /\ \A u \in Target \ {t} : ledger'.phase[u] = ledger.phase[u]
    BY <1>1, <1>4 DEF Ledger, Notes, Phase
  <2>2. UNCHANGED <<place, content, box, opened>>
    BY <1>4 DEF Notes, made
  <2>3. TargetIs(t)'
    BY <1>1, <1>4, <2>1, <2>2 DEF TargetIs
  <2> QED
    BY <1>1, <1>2, <1>4, <2>1, <2>2, <2>3 DEF Moves, Placed
<1>5. CASE /\ place[t] = "held" /\ ledger.phase[t] = "quarantined"
           /\ Notes([ledger EXCEPT !.phase[t] = "reclaiming"])
  <2>1. /\ ledger' \in Ledger /\ ledger'.phase[t] = "reclaiming"
        /\ ledger'.bound = ledger.bound /\ ledger'.container = ledger.container
        /\ ledger'.pending = ledger.pending /\ ledger'.reclaimed = ledger.reclaimed
        /\ \A u \in Target \ {t} : ledger'.phase[u] = ledger.phase[u]
    BY <1>1, <1>5 DEF Ledger, Notes, Phase
  <2>2. UNCHANGED <<place, content, box, opened>>
    BY <1>5 DEF Notes, made
  <2>3. TargetIs(t)'
    BY <1>1, <1>5, <2>1, <2>2 DEF TargetIs
  <2> QED
    BY <1>1, <1>2, <1>5, <2>1, <2>2, <2>3 DEF Moves, Placed
<1> QED
  BY <1>3, <1>4, <1>5 DEF Quarantine

\* A part of the target is announced, removed or ticked off.
LEMMA ReclaimPartMoves ==
    ASSUME TypeOK, RunInv, at = "reclaim", NEW t \in Target, Current(t),
           NEW p \in Part(t), ReclaimPart(t, p)
    PROVE  Moves(t)
<1>1. /\ ledger \in Ledger /\ TargetIs(t) /\ t \in plan /\ opened = t
      /\ ledger.phase[t] = "reclaiming" /\ place[t] = "held"
  BY OneOnItsWay, NoneIsNoValue DEF ReclaimPart
<1>2. Placed /\ p \in Parts /\ p \in {"file", "directory"}
  BY PlacedType, PartIsParts DEF Parts
<1>3. CASE p \in content[t] /\ ledger.pending = "none" /\ Notes([ledger EXCEPT !.pending = p])
  <2>1. /\ ledger' \in Ledger /\ ledger'.phase = ledger.phase
        /\ ledger'.bound = ledger.bound /\ ledger'.container = ledger.container
        /\ ledger'.pending = p /\ ledger'.reclaimed = ledger.reclaimed
    BY <1>1, <1>2, <1>3 DEF Ledger, Notes
  <2>2. UNCHANGED <<place, content, box, opened>>
    BY <1>3 DEF Notes, made
  <2>3. Part(t) \ content[t] \subseteq ledger.reclaimed[t]
    BY <1>1, <1>3 DEF TargetIs, Part
  <2>4. TargetIs(t)'
    BY <1>1, <1>2, <2>1, <2>2, <2>3 DEF TargetIs
  <2> QED
    BY <1>1, <1>2, <2>1, <2>2, <2>4 DEF Moves, Placed
<1>4. CASE /\ p \in content[t] /\ ledger.pending = p
           /\ content' = [content EXCEPT ![t] = @ \ {p}]
           /\ UNCHANGED <<place, ledger, box, opened>>
  <2>1. /\ Placed' /\ content'[t] = content[t] \ {p}
        /\ \A u \in Target \ {t} : content'[u] = content[u]
    BY <1>2, <1>4 DEF Placed
  <2>2. TargetIs(t)'
    BY <1>1, <1>2, <1>4, <2>1 DEF TargetIs
  <2> QED
    BY <1>1, <1>4, <2>1, <2>2 DEF Moves
<1>5. CASE /\ p \notin content[t] /\ ledger.pending = p
           /\ Notes([ledger EXCEPT !.pending = "none", !.reclaimed[t] = @ \cup {p}])
  <2>1. /\ ledger' \in Ledger /\ ledger'.phase = ledger.phase
        /\ ledger'.bound = ledger.bound /\ ledger'.container = ledger.container
        /\ ledger'.pending = "none" /\ ledger'.reclaimed[t] = ledger.reclaimed[t] \cup {p}
        /\ \A u \in Target \ {t} : ledger'.reclaimed[u] = ledger.reclaimed[u]
    BY <1>1, <1>2, <1>5 DEF Ledger, Notes
  <2>2. UNCHANGED <<place, content, box, opened>>
    BY <1>5 DEF Notes, made
  <2>3. TargetIs(t)'
    BY <1>1, <1>2, <1>5, <2>1, <2>2 DEF TargetIs
  <2> QED
    BY <1>1, <1>2, <2>1, <2>2, <2>3 DEF Moves, Placed
<1> QED
  BY <1>3, <1>4, <1>5 DEF ReclaimPart

\* The target is announced, removed and completed.
LEMMA ReclaimTargetMoves ==
    ASSUME TypeOK, RunInv, at = "reclaim", NEW t \in Target, Current(t), ReclaimTarget(t)
    PROVE  Moves(t)
<1>1. /\ ledger \in Ledger /\ TargetIs(t) /\ t \in plan
      /\ opened = None \/ (opened = t /\ ledger.phase[t] = "reclaiming" /\ place[t] = "held")
      /\ ledger.pending # "none" => ledger.phase[t] = "reclaiming"
  BY OneOnItsWay
<1>2. Placed
  BY PlacedType
<1>3. CASE /\ opened = t /\ ledger.reclaimed[t] = Part(t) /\ ledger.pending = "none"
           /\ Notes([ledger EXCEPT !.pending = "target"])
  <2>1. /\ ledger' \in Ledger /\ ledger'.phase = ledger.phase
        /\ ledger'.bound = ledger.bound /\ ledger'.container = ledger.container
        /\ ledger'.pending = "target" /\ ledger'.reclaimed = ledger.reclaimed
    BY <1>1, <1>3 DEF Ledger, Notes
  <2>2. UNCHANGED <<place, content, box, opened>>
    BY <1>3 DEF Notes, made
  <2>3. place[t] = "held" /\ ledger.phase[t] = "reclaiming" /\ opened = t
    BY <1>1, <1>3, NoneIsNoValue
  <2>4. TargetIs(t)'
    BY <1>1, <1>3, <2>1, <2>2, <2>3 DEF TargetIs
  <2> QED
    BY <1>2, <2>1, <2>2, <2>3, <2>4 DEF Moves, Placed
<1>4. CASE /\ opened = t /\ place[t] = "held" /\ ledger.pending = "target"
           /\ Vanish({t}) /\ opened' = None /\ UNCHANGED <<ledger, box>>
  <2>1. /\ Placed' /\ place'[t] = "absent" /\ content'[t] = {}
        /\ \A u \in Target \ {t} : place'[u] = place[u] /\ content'[u] = content[u]
    BY <1>2, <1>4, VanishSome
  <2>2. ledger.phase[t] = "reclaiming"
    BY <1>1, <1>4
  <2>3. TargetIs(t)'
    BY <1>1, <1>4, <2>1, <2>2 DEF TargetIs
  <2> QED
    BY <1>1, <1>4, <2>1, <2>2, <2>3 DEF Moves
<1>5. CASE /\ place[t] = "absent" /\ ledger.phase[t] = "reclaiming" /\ ledger.pending = "target"
           /\ Notes([ledger EXCEPT !.phase[t] = "completed", !.pending = "none"])
  <2>1. /\ ledger' \in Ledger /\ ledger'.phase[t] = "completed"
        /\ ledger'.bound = ledger.bound /\ ledger'.container = ledger.container
        /\ ledger'.pending = "none" /\ ledger'.reclaimed = ledger.reclaimed
        /\ \A u \in Target \ {t} : ledger'.phase[u] = ledger.phase[u]
    BY <1>1, <1>5 DEF Ledger, Notes, Phase
  <2>2. UNCHANGED <<place, content, box, opened>>
    BY <1>5 DEF Notes, made
  <2>3. TargetIs(t)'
    BY <1>1, <1>5, <2>1, <2>2 DEF TargetIs
  <2>4. content[t] = {} /\ opened = None
    BY <1>1, <1>5 DEF RunInv, Made
  <2> QED
    BY <1>2, <1>5, <2>1, <2>2, <2>3, <2>4 DEF Moves, Placed
<1> QED
  BY <1>3, <1>4, <1>5 DEF ReclaimTarget

\* The directories of the target are opened.
LEMMA OpenDirectoriesMoves ==
    ASSUME TypeOK, RunInv, at = "reclaim", NEW t \in Target, Current(t), OpenDirectories(t)
    PROVE  Moves(t)
<1>1. /\ ledger \in Ledger /\ TargetIs(t) /\ t \in plan
      /\ ledger.pending # "none" => ledger.phase[t] = "reclaiming"
  BY OneOnItsWay
<1>2. /\ place[t] = "held" /\ ledger.phase[t] = "reclaiming" /\ opened' = t
      /\ UNCHANGED <<place, content, ledger, box>>
  BY DEF OpenDirectories, made
<1>3. TargetIs(t)'
  BY <1>1, <1>2 DEF TargetIs
<1> QED
  BY <1>1, <1>2, <1>3, PlacedType DEF Moves, Placed

\* The box is made and bound before the first target, and removed after the last.
LEMMA BoxStays ==
    ASSUME TypeOK, RunInv, at = "reclaim", Within, PrepareBox \/ RemoveBox
    PROVE  TypeOK' /\ RunInv'
<1> USE DEF RunInv
<1>1. /\ UNCHANGED <<others, at, after, final, worker>>
      /\ UNCHANGED <<intent, journal, evidence, bound, plan, retained, progress, history>>
  BY DEF Within
<1>2. UNCHANGED <<place, content, opened>>
  BY DEF PrepareBox, RemoveBox, Notes, made
<1>3. /\ ledger \in Ledger /\ ledger # None /\ evidence = "cleanup" /\ ~ intent
      /\ worker = None /\ "batch" \in plan
  BY DEF Kept, Claimed, Worked, TypeOK, Planned
<1>4. Ordered /\ \A t \in plan : TargetIs(t)
  BY <1>3 DEF Noted
<1>5. ~ ledger.bound => ledger.container = "planned"
  <2> SUFFICES ASSUME ~ ledger.bound PROVE "batch" \in Todo
    BY <1>4 DEF Ordered
  <2>1. place["batch"] = "live"
    BY <1>3, <1>4 DEF Ordered
  <2> QED
    BY <1>3, <1>4, <2>1 DEF Todo, TargetIs
<1>6. /\ ledger' \in Ledger /\ box' \in BOOLEAN
      /\ ledger'.phase = ledger.phase /\ ledger'.reclaimed = ledger.reclaimed
      /\ ledger'.pending = ledger.pending
  BY <1>3 DEF PrepareBox, RemoveBox, Notes, Ledger, Phase, TypeOK
<1>7. \/ /\ ledger'.bound = ledger.bound /\ ledger'.container = ledger.container
         /\ ~ ledger.bound /\ box'
      \/ ledger'.bound /\ ledger'.container = ledger.container /\ ~ ledger.bound /\ box /\ box'
      \/ /\ Todo = {} /\ ledger'.bound = ledger.bound /\ ~ retained
         /\ \/ ledger'.container = "reclaiming"
            \/ ledger'.container = "completed" /\ ~ box'
  BY <1>3, <1>4 DEF PrepareBox, RemoveBox, Notes, Ledger, Ordered
<1>8. ledger' # None
  BY <1>6, NoneIsNoValue
<1> USE DEF others, corpusVars, store, progress, history
<1>9. TypeOK'
  BY <1>1, <1>2, <1>6, CorpusTypesStay DEF TypeOK
<1>10. Claimed'
  BY <1>1, <1>3 DEF Claimed, Preparing, Running
<1>11. Planned'
  BY <1>1, <1>2, <1>3 DEF Planned
<1>12. Made'
  BY <1>1, <1>2, <1>3, <1>8 DEF Made
<1>13. Worked'
  BY <1>1, <1>3 DEF Worked
<1>14. Exactly'
  BY <1>1, <1>2 DEF Exactly, Candidates
<1>15. Kept'
  BY <1>1, <1>3, <1>8 DEF Kept
<1>16. \A t \in plan : TargetIs(t)'
  BY <1>2, <1>4, <1>6 DEF TargetIs
<1>17. Todo' = Todo
  BY <1>1, <1>6 DEF Todo
<1>18. \A t \in Todo : Current(t) => Current(t)'
  BY <1>2, <1>17 DEF Current
<1>19. Ordered'
  BY <1>1, <1>2, <1>4, <1>5, <1>6, <1>7, <1>17, <1>18 DEF Ordered
<1>20. Noted'
  BY <1>1, <1>16, <1>19 DEF Noted
<1> QED
  BY <1>9, <1>10, <1>11, <1>12, <1>13, <1>14, <1>15, <1>20

\* Each step of the removal.
LEMMA ReclaimStays == ASSUME TypeOK, RunInv, Reclaim PROVE TypeOK' /\ RunInv'
<1>1. at = "reclaim" /\ Within
  BY DEF Reclaim, Within
<1>2. CASE PrepareBox \/ RemoveBox
  BY <1>1, <1>2, BoxStays
<1>3. ASSUME ledger.bound, NEW t \in Target, Current(t),
             \/ Quarantine(t) \/ OpenDirectories(t) \/ ReclaimTarget(t)
             \/ \E p \in Part(t) : ReclaimPart(t, p)
      PROVE  TypeOK' /\ RunInv'
  <2>1. Moves(t)
    BY <1>1, <1>3, QuarantineMoves, OpenDirectoriesMoves, ReclaimTargetMoves, ReclaimPartMoves
  <2> QED
    BY <1>1, <1>3, <2>1, MovesStays
<1> QED
  BY <1>2, <1>3 DEF Reclaim

-----------------------------------------------------------------------------
(* The run and its corpus together. *)

\* A step of the corpus leaves the run alone, and one of the run the corpus, but for a
\* death.
LEMMA CorpusStepStays ==
    ASSUME IInv, CorpusNext, UNCHANGED <<memory, claims, made, progress, history>> PROVE IInv'
<1> USE DEF memory, claims, made, progress, history
<1>1. CorpusInv' /\ published <= published'
  BY CorpusStays, PublishedGrows DEF IInv, CorpusInv
<1>2. bound \in 0 .. published'
  <2>1. bound \in 0 .. published /\ published \in Nat /\ published' \in Nat
    BY <1>1, CorpusConstants DEF IInv, TypeOK, CorpusInv, CorpusTypeOK
  <2> QED
    BY <1>1, <2>1
<1>3. TypeOK'
  BY <1>1, <1>2 DEF IInv, TypeOK, CorpusInv
<1>4. Claimed' /\ Planned' /\ Made' /\ Worked' /\ Exactly' /\ Kept'
  BY DEF IInv, RunInv, Claimed, Planned, Live, Made, Worked, Exactly, Candidates, Kept
<1>5. Noted'
  BY NotedStays DEF IInv, RunInv, Noted, Ordered
<1> QED
  BY <1>1, <1>3, <1>4, <1>5 DEF IInv, RunInv

\* The corpus as it was keeps its invariant.
LEMMA CorpusInvStays == ASSUME CorpusInv, UNCHANGED others PROVE CorpusInv'
<1> USE DEF others, corpusVars, store
<1>1. CorpusTypeOK'
  BY CorpusTypesStay DEF CorpusInv
<1>2. JobIsPlaced' /\ CorpusIsKept'
  BY DEF CorpusInv, JobIsPlaced, CorpusIsKept, Exact
<1> QED
  BY <1>1, <1>2 DEF CorpusInv

\* A step of the run leaves the corpus alone, unless it is a death.
LEMMA OthersStay == ASSUME CampaignNext, ~ CampaignDies PROVE UNCHANGED others
BY DEF CampaignNext, RunStep, WorkerStep, BeginRun, EndScan, UndoPreparation, PersistIntent,
   Stage, OpenJournal, PersistEvidence, UnlinkIntent, PrepareFails, InitializeBatch, Convert,
   RecordItem, PersistReadback, Launch, Interrupt, LoadFinal, Verify, RunFails, PlanCleanup,
   PlanRefused, MarkCleanup, Reclaim, ReclaimRefused, EndCleanup, RetainReadback

\* Every step of a run keeps its invariant.
LEMMA CampaignStays == ASSUME TypeOK, RunInv, CampaignNext, ~ CampaignDies PROVE TypeOK' /\ RunInv'
BY BeginRunStays, EndScanStays, UndoPreparationStays, PersistIntentStays, StageStays,
   OpenJournalStays, PersistEvidenceStays, UnlinkIntentStays, PrepareFailsStays,
   InitializeBatchStays, ConvertStays, RecordItemStays, PersistReadbackStays, LaunchStays,
   WorkerEndsStays, VerifyStays, RunFailsStays, PlanCleanupStays, PlanRefusedStays,
   MarkCleanupStays, ReclaimStays, ReclaimRefusedStays, EndCleanupStays, RetainReadbackStays
   DEF CampaignNext, RunStep, WorkerStep

\* And so does a step of somebody else.
LEMMA StutterStays == ASSUME IInv, UNCHANGED vars PROVE IInv'
<1> USE DEF vars, memory, claims, made, progress, history
<1>1. CorpusInv'
  BY CorpusInvStays DEF IInv
<1>2. TypeOK'
  BY CorpusTypesStay DEF IInv, TypeOK, others, corpusVars, store
<1>3. Claimed' /\ Planned' /\ Made' /\ Worked' /\ Exactly' /\ Kept'
  BY DEF IInv, RunInv, Claimed, Planned, Live, Made, Worked, Exactly, Candidates, Kept
<1>4. Noted'
  BY NotedStays DEF IInv, RunInv, Noted, Ordered
<1> QED
  BY <1>1, <1>2, <1>3, <1>4 DEF IInv, RunInv

\* The campaign begins in the invariant.
THEOREM InitIInv == Init => IInv
<1> SUFFICES ASSUME Init PROVE IInv
  OBVIOUS
<1>1. CorpusInv
  BY CorpusInitial DEF Init
<1>2. TypeOK
  <2>1. CorpusTypeOK /\ bound \in 0 .. published /\ begun \in 0 .. MaxRuns
    BY <1>1, RunsConstant DEF Init, CorpusInit, CorpusInv
  <2>2. Placed
    BY PartIsParts DEF Placed, Init
  <2> QED
    BY <2>1, <2>2 DEF Init, TypeOK, Placed
<1>3. RunInv
  <2>1. Claimed /\ Planned /\ Worked /\ Kept /\ Noted
    BY DEF Init, Claimed, Planned, Worked, Kept, Noted, Preparing, Running
  <2>2. Made
    BY OwnAreTargets DEF Init, Made, Own
  <2>3. Exactly
    BY OwnAreTargets DEF Init, Exactly, Candidates
  <2> QED
    BY <2>1, <2>2, <2>3 DEF RunInv
<1> QED
  BY <1>1, <1>2, <1>3 DEF IInv

\* Every step of the campaign keeps the invariant.
THEOREM NextIInv == IInv /\ [Next]_vars => IInv'
<1> SUFFICES ASSUME IInv, [Next]_vars PROVE IInv'
  OBVIOUS
<1>1. CASE CampaignDies
  BY <1>1, CampaignDiesStays DEF IInv
<1>2. CASE CampaignNext /\ ~ CampaignDies
  <2>1. TypeOK' /\ RunInv'
    BY <1>2, CampaignStays DEF IInv
  <2>2. CorpusInv'
    BY <1>2, OthersStay, CorpusInvStays DEF IInv
  <2> QED
    BY <2>1, <2>2 DEF IInv
<1>3. CASE CorpusNext /\ UNCHANGED <<memory, claims, made, progress, history>>
  BY <1>3, CorpusStepStays
<1>4. CASE UNCHANGED vars
  BY <1>4, StutterStays
<1> QED
  BY <1>1, <1>2, <1>3, <1>4 DEF Next

\* The invariant holds always.
THEOREM Invariance == Spec => []IInv
<1> QED
  BY InitIInv, NextIInv, PTL DEF Spec

-----------------------------------------------------------------------------
(* What the invariant says of the properties. *)

\* The state has its type.
THEOREM TypeCorrect == Spec => []TypeOK
<1>1. IInv => TypeOK
  BY DEF IInv
<1> QED
  BY Invariance, <1>1, PTL

\* A corpus survives its cleanup until the marker says that all of it is in the bundle
\* (cleanup_private_pdf_uat).
THEOREM CorpusKept == Spec => []CorpusIsKept
<1>1. IInv => CorpusIsKept
  BY DEF IInv, CorpusInv
<1> QED
  BY Invariance, <1>1, PTL

\* Whatever a run has made is under a record by which a later run can find it
\* (_default_prepare_uat_run, _ensure_uat_cleanup_recovery).
THEOREM EverythingClaimed == Spec => []EverythingIsClaimed
<1>1. IInv => EverythingIsClaimed
  <2> SUFFICES ASSUME IInv, NEW t \in Own \cup created, place[t] # "absent",
                      ~ intent, evidence # "open"
               PROVE  evidence = "cleanup" /\ t \in plan
    BY DEF EverythingIsClaimed
  <2>1. evidence # "none"
    <3> SUFFICES ASSUME evidence = "none" PROVE FALSE
      OBVIOUS
    <3>1. created = {}
      BY DEF IInv, RunInv, Worked, TypeOK
    <3> QED
      BY <3>1 DEF IInv, RunInv, Made
  <2>2. evidence = "cleanup"
    BY <2>1 DEF IInv, TypeOK
  <2> QED
    BY <2>2 DEF IInv, RunInv, Planned
<1> QED
  BY Invariance, <1>1, PTL

\* What the ledger says of a target is true at each moment of its removal
\* (_resume_uat_cleanup_value).
THEOREM LedgerTrue == Spec => []LedgerIsTrue
<1>1. IInv => LedgerIsTrue
  <2> SUFFICES ASSUME IInv, ledger # None, NEW t \in plan
               PROVE  /\ ledger.reclaimed[t] \cap content[t] = {}
                      /\ \A p \in Part(t) \ content[t] :
                          \/ p \in ledger.reclaimed[t]
                          \/ Current(t) /\ ledger.pending = p
                      /\ ledger.phase[t] \in {"planned", "quarantined"} => content[t] = Part(t)
                      /\ place[t] = "absent" =>
                          \/ ledger.phase[t] = "completed"
                          \/ Current(t) /\ ledger.pending = "target"
                      /\ place[t] = "held" => box /\ ledger.bound
    BY DEF LedgerIsTrue
  <2>1. ledger \in Ledger /\ t \in Target
    BY DEF IInv, TypeOK
  <2>2. ledger.phase[t] \in Phase
    BY <2>1 DEF Ledger
  <2>3. TargetIs(t) /\ Ordered
    BY DEF IInv, RunInv, Noted
  <2>4. ledger.phase[t] # "completed" /\ place[t] # "live" => Current(t)
    BY <2>3 DEF Ordered, Todo
  <2>5. CASE ledger.phase[t] \in {"planned", "quarantined"}
    <3>1. /\ content[t] = Part(t) /\ ledger.reclaimed[t] = {}
          /\ place[t] # "absent" /\ ledger.phase[t] # "completed"
      BY <2>3, <2>5 DEF TargetIs
    <3>2. place[t] = "held" => box /\ ledger.bound
      BY <2>3, <3>1 DEF Ordered, Todo
    <3> QED
      BY <3>1, <3>2
  <2>6. CASE ledger.phase[t] = "reclaiming"
    <3>1. Current(t)
      BY <2>3, <2>4, <2>6 DEF TargetIs
    <3>2. place[t] = "held" => box /\ ledger.bound
      BY <2>3, <2>6 DEF Ordered, Todo
    <3> QED
      BY <2>3, <2>6, <3>1, <3>2 DEF TargetIs
  <2>7. CASE ledger.phase[t] = "completed"
    <3>1. place[t] = "absent" /\ ledger.reclaimed[t] = Part(t)
      BY <2>3, <2>7 DEF TargetIs
    <3>2. content[t] = {}
      BY <2>1, <3>1 DEF IInv, RunInv, Made
    <3> QED
      BY <2>7, <3>1, <3>2
  <2> QED
    BY <2>2, <2>5, <2>6, <2>7 DEF Phase
<1> QED
  BY Invariance, <1>1, PTL

\* A campaign removes all that it made and nothing else, and retains its readback only then
\* (_default_cleanup_uat_staging, _persist_retained_private_uat_readback).
THEOREM CleanupExact == Spec => []CleanupIsExact
<1>1. IInv => CleanupIsExact
  <2> SUFFICES ASSUME IInv PROVE CleanupIsExact
    OBVIOUS
  <2>1. before \subseteq Candidates
    BY DEF IInv, RunInv, Exactly
  <2>2. ASSUME retained
        PROVE  /\ items = Document /\ readback /\ ~ box
               /\ \A t \in Own \cup created : place[t] = "absent"
               /\ Candidates = before
    <3>1. /\ readback /\ evidence = "cleanup" /\ \A t \in plan : place[t] = "absent"
          /\ Candidates \subseteq before \cup created
      BY <2>2 DEF IInv, RunInv, Exactly
    <3>2. items = Document
      BY <3>1 DEF IInv, RunInv, Worked
    <3>3. \A t \in Own \cup created : place[t] = "absent"
      BY <3>1 DEF IInv, RunInv, Planned
    <3>4. ~ box
      BY <2>2 DEF IInv, RunInv, Kept, Noted, Ordered
    <3>5. Candidates = before
      BY <2>1, <3>1, <3>3 DEF Candidates
    <3> QED
      BY <3>1, <3>2, <3>3, <3>4, <3>5
  <2> QED
    BY <2>1, <2>2 DEF CleanupIsExact
<1> QED
  BY Invariance, <1>1, PTL
=============================================================================
