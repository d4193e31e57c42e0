---------------------------- MODULE PrivateCorpus ----------------------------
(***************************************************************************)
(* The private corpus of an acceptance campaign (private_pdf_uat.py):      *)
(* prepare_representative_pdf_corpus publishes a reviewed set of documents *)
(* and cleanup_private_pdf_uat removes it.  Both hold the private lock     *)
(* from their first look at the directory to their last write: job is the  *)
(* one in progress.  A cleanup moves the documents one by one into a       *)
(* recovery bundle, and destroys the bundle only under a marker; what it   *)
(* does next is told by what is on disk, by a resumed cleanup as by the    *)
(* first.  One action is one durable write, and a process may die between  *)
(* any two.                                                                *)
(***************************************************************************)
EXTENDS Naturals, FiniteSets

CONSTANTS
    Document,       \* the documents of the reviewed corpus
    None,           \* no value
    MaxCorpora,     \* bound: corpora ever published
    MaxDeaths       \* bound: processes that die

Entry == Document \cup {"manifest"}

ASSUME CorpusConstants ==
    /\ IsFiniteSet(Document) /\ Document # {} /\ "manifest" \notin Document
    /\ MaxCorpora \in Nat /\ MaxDeaths \in Nat

VARIABLES
    job,            \* the prepare or cleanup in progress, by what it does now
    corpus,         \* the identity of the published corpus, 0 if there is none
    published,      \* corpora ever published
    stage,          \* the unpublished corpus of a prepare
    kept,           \* a stage that an interrupted prepare could not discard
    quarantine,     \* the corpus a cleanup empties
    draft,          \* a recovery bundle before its publication
    bundle,         \* the recovery bundle
    markerDraft,    \* how much of a marker is staged
    marker,         \* the reclamation marker
    deaths          \* processes that died, of this module and those that extend it

store == <<corpus, published, stage, kept, quarantine, draft, bundle, markerDraft, marker>>
corpusVars == <<job, store>>

Whole == {"none", "torn", "whole"}
Directory == [input : BOOLEAN, files : SUBSET Entry]
Staged == [input : BOOLEAN, files : SUBSET Entry, temp : {"none", "written", "linked"}]
Draft == [files : BOOLEAN, schema : Whole]
Bundle == [held : BOOLEAN, files : SUBSET Entry, schema : BOOLEAN]

\* No value is none of them.
ASSUME NoneIsNoFile == None \notin Directory \cup Staged \cup Draft \cup Bundle

CorpusTypeOK ==
    /\ job \in {"idle", "intake", "make", "discard", "clean", "bundle", "move", "destroy"}
    /\ published \in 0..MaxCorpora /\ corpus \in 0..published
    /\ stage \in Staged \cup {None}
    /\ kept \in BOOLEAN
    /\ quarantine \in Directory \cup {None}
    /\ draft \in Draft \cup {None}
    /\ bundle \in Bundle \cup {None}
    /\ markerDraft \in Whole /\ marker \in BOOLEAN
    /\ deaths \in 0..MaxDeaths

CorpusInit ==
    /\ job = "idle" /\ corpus = 0 /\ published = 0 /\ stage = None /\ kept = FALSE
    /\ quarantine = None /\ draft = None /\ bundle = None
    /\ markerDraft = "none" /\ marker = FALSE /\ deaths = 0

-----------------------------------------------------------------------------
(* Preparation.                                                            *)

\* Anything a cleanup has left unresolved refuses a preparation before it
\* writes, and so does a stage with a temporary file in it.
BeginIntake ==
    /\ job = "idle" /\ ~kept /\ markerDraft = "none" /\ ~marker
    /\ bundle = None /\ quarantine = None
    /\ corpus = 0 \/ draft # None \/ stage # None
    /\ stage # None => stage.temp = "none"
    /\ published < MaxCorpora
    /\ job' = "intake" /\ UNCHANGED store

\* The stage of an earlier prepare is removed entry by entry: the documents,
\* their directory, the manifest and the stage.
DiscardStep(s) ==
    IF s.files \cap Document # {} THEN {[s EXCEPT !.files = @ \ {d}] : d \in s.files \cap Document}
    ELSE IF s.input THEN {[s EXCEPT !.input = FALSE]}
    ELSE IF s.files # {} THEN {[s EXCEPT !.files = {}]}
    ELSE {None}

DiscardStage ==
    /\ job \in {"intake", "discard"} /\ draft = None /\ stage # None
    /\ stage' \in DiscardStep(stage)
    /\ job' = IF job = "discard" /\ stage' = None THEN "idle" ELSE job
    /\ UNCHANGED <<corpus, published, kept, quarantine, draft, bundle, markerDraft, marker>>

\* The corpus that is there is the one that was asked for, or a new stage is
\* begun.
BeginStage ==
    /\ job = "intake" /\ draft = None /\ stage = None
    /\ IF corpus # 0 THEN job' = "idle" /\ UNCHANGED stage
       ELSE job' = "make" /\ stage' = [input |-> FALSE, files |-> {}, temp |-> "none"]
    /\ UNCHANGED <<corpus, published, kept, quarantine, draft, bundle, markerDraft, marker>>

\* A file is written under a temporary name, linked to its own, and the
\* temporary name removed; the manifest comes last.
PersistEntry(e) ==
    /\ stage.input /\ e \notin stage.files
    /\ e = "manifest" => Document \subseteq stage.files
    /\ CASE stage.temp = "none" -> stage' = [stage EXCEPT !.temp = "written"]
         [] stage.temp = "written" -> stage' = [stage EXCEPT !.temp = "linked", !.files = @ \cup {e}]
         [] OTHER -> FALSE

FillStage ==
    /\ job = "make"
    /\ \/ ~stage.input /\ stage' = [stage EXCEPT !.input = TRUE]
       \/ \E e \in Entry : PersistEntry(e)
       \/ stage.temp = "linked" /\ stage' = [stage EXCEPT !.temp = "none"]
    /\ UNCHANGED <<job, corpus, published, kept, quarantine, draft, bundle, markerDraft, marker>>

PublishCorpus ==
    /\ job = "make" /\ stage.files = Entry /\ stage.temp = "none"
    /\ published' = published + 1 /\ corpus' = published + 1 /\ stage' = None
    /\ job' = "idle"
    /\ UNCHANGED <<kept, quarantine, draft, bundle, markerDraft, marker>>

\* A prepare that fails discards its stage.  A file that was linked and not yet
\* verified is renamed aside instead of unlinked, so that the stage cannot be
\* discarded: it is set aside, and stops every later prepare and cleanup.
IntakeFails ==
    /\ job = "make"
    /\ IF stage.temp = "linked"
       THEN kept' = TRUE /\ stage' = None /\ job' = "idle"
       ELSE kept' = kept /\ stage' = [stage EXCEPT !.temp = "none"] /\ job' = "discard"
    /\ UNCHANGED <<corpus, published, quarantine, draft, bundle, markerDraft, marker>>

-----------------------------------------------------------------------------
(* Cleanup.                                                                *)

BeginClean ==
    /\ job = "idle" /\ ~kept
    /\ corpus # 0 \/ draft # None \/ markerDraft # "none" \/ marker \/ bundle # None
    /\ job' = "clean" /\ UNCHANGED store

\* A draft of a bundle is removed while the corpus is whole, whatever prefix
\* of its schema was written.
ReclaimDraft ==
    /\ job \in {"intake", "clean"} /\ draft # None /\ corpus # 0
    /\ draft' = IF draft.schema # "none" THEN [draft EXCEPT !.schema = "none"]
                ELSE IF draft.files THEN [draft EXCEPT !.files = FALSE]
                ELSE None
    /\ UNCHANGED <<job, corpus, published, stage, kept, quarantine, bundle, markerDraft, marker>>

\* A draft of a marker is removed while its bundle is exact.
Exact(b) == b # None /\ b.schema /\ b.held
ReclaimMarkerDraft ==
    /\ job = "clean" /\ draft = None /\ markerDraft # "none" /\ ~marker /\ Exact(bundle)
    /\ markerDraft' = "none"
    /\ UNCHANGED <<job, corpus, published, stage, kept, quarantine, draft, bundle, marker>>

\* Where a cleanup goes on: under a marker it destroys, with a bundle it moves,
\* and with a corpus alone it makes the bundle.
ResumeClean ==
    /\ job = "clean" /\ draft = None /\ markerDraft = "none"
    /\ \/ marker /\ quarantine = None /\ corpus = 0 /\ job' = "destroy"
       \/ ~marker /\ Exact(bundle) /\ job' = "move"
       \/ ~marker /\ bundle = None /\ corpus # 0 /\ job' = "bundle"
    /\ UNCHANGED store

\* The draft, its directory, the schema in two writes, and the rename.
CreateBundle ==
    /\ job = "bundle"
    /\ IF draft = None THEN draft' = [files |-> FALSE, schema |-> "none"] /\ UNCHANGED <<job, bundle>>
       ELSE IF ~draft.files THEN draft' = [draft EXCEPT !.files = TRUE] /\ UNCHANGED <<job, bundle>>
       ELSE IF draft.schema # "whole"
       THEN /\ draft' = [draft EXCEPT !.schema = IF @ = "none" THEN "torn" ELSE "whole"]
            /\ UNCHANGED <<job, bundle>>
       ELSE /\ draft' = None /\ bundle' = [held |-> TRUE, files |-> {}, schema |-> TRUE]
            /\ job' = "move"
    /\ UNCHANGED <<corpus, published, stage, kept, quarantine, markerDraft, marker>>

QuarantineCorpus ==
    /\ job = "move" /\ quarantine = None /\ corpus # 0
    /\ quarantine' = [input |-> TRUE, files |-> Entry] /\ corpus' = 0
    /\ UNCHANGED <<job, published, stage, kept, draft, bundle, markerDraft, marker>>

\* An entry goes from the quarantine into the bundle; the manifest goes last.
MoveEntry ==
    /\ job = "move" /\ quarantine # None
    /\ \E e \in quarantine.files :
        /\ e = "manifest" => quarantine.files = {e}
        /\ quarantine' = [quarantine EXCEPT !.files = @ \ {e}]
        /\ bundle' = [bundle EXCEPT !.files = @ \cup {e}]
    /\ UNCHANGED <<job, corpus, published, stage, kept, draft, markerDraft, marker>>

\* The bundle is complete: the empty quarantine goes, its directory first.
RemoveQuarantine ==
    /\ job = "move" /\ quarantine # None /\ bundle.files = Entry /\ quarantine.files = {}
    /\ quarantine' = IF quarantine.input THEN [quarantine EXCEPT !.input = FALSE] ELSE None
    /\ UNCHANGED <<job, corpus, published, stage, kept, draft, bundle, markerDraft, marker>>

\* Fault: the bundle is destroyed without a marker.
DestroyUnmarked ==
    /\ job = "move" /\ quarantine = None /\ corpus = 0 /\ bundle.files = Entry
    /\ job' = "destroy"
    /\ UNCHANGED <<corpus, published, stage, kept, quarantine, draft, bundle, markerDraft, marker>>

\* The marker is written in two writes beside its name and renamed.
PublishMarker ==
    /\ job = "move" /\ quarantine = None /\ corpus = 0 /\ bundle.files = Entry
    /\ IF markerDraft # "whole"
       THEN /\ markerDraft' = IF markerDraft = "none" THEN "torn" ELSE "whole"
            /\ UNCHANGED <<job, marker>>
       ELSE markerDraft' = "none" /\ marker' = TRUE /\ job' = "destroy"
    /\ UNCHANGED <<corpus, published, stage, kept, quarantine, draft, bundle>>

\* Under the marker the entries of the bundle go, then its schema, its
\* directories, and the marker.
DestroyStep(b) ==
    IF b.files # {} THEN {[b EXCEPT !.files = @ \ {e}] : e \in b.files}
    ELSE IF b.schema THEN {[b EXCEPT !.schema = FALSE]}
    ELSE IF b.held THEN {[b EXCEPT !.held = FALSE]}
    ELSE {None}

DestroyBundle ==
    /\ job = "destroy" /\ bundle # None
    /\ bundle' \in DestroyStep(bundle)
    /\ UNCHANGED <<job, corpus, published, stage, kept, quarantine, draft, markerDraft, marker>>

UnlinkMarker ==
    /\ job = "destroy" /\ bundle = None
    /\ marker' = FALSE /\ job' = "idle"
    /\ UNCHANGED <<corpus, published, stage, kept, quarantine, draft, bundle, markerDraft>>

-----------------------------------------------------------------------------
\* The lock goes with the process; what it has written stays.
CorpusJobDies ==
    /\ job # "idle" /\ deaths < MaxDeaths
    /\ job' = "idle" /\ deaths' = deaths + 1
    /\ UNCHANGED store

CorpusStep ==
    \/ DiscardStage \/ BeginStage \/ FillStage \/ PublishCorpus
    \/ ReclaimDraft \/ ReclaimMarkerDraft \/ ResumeClean \/ CreateBundle
    \/ QuarantineCorpus \/ MoveEntry \/ RemoveQuarantine \/ PublishMarker
    \/ DestroyBundle \/ UnlinkMarker

CorpusNext ==
    \/ (BeginIntake \/ BeginClean \/ CorpusStep \/ IntakeFails) /\ UNCHANGED deaths
    \/ CorpusJobDies

CorpusSpec == CorpusInit /\ [][CorpusNext]_<<corpusVars, deaths>>

-----------------------------------------------------------------------------
(* Properties.                                                             *)

\* A reviewed corpus survives its cleanup until the marker says that all of it
\* is in the bundle: each of its entries is in one place, however often the
\* cleanup was killed and resumed, and nothing of the corpus is left outside
\* the bundle once it may be destroyed (cleanup_private_pdf_uat).
CorpusIsKept ==
    /\ bundle # None /\ ~marker =>
        \A e \in Entry :
            LET outside == corpus # 0 \/ (quarantine # None /\ e \in quarantine.files)
            IN  (e \in bundle.files) # outside
    /\ bundle = None => quarantine = None
    /\ marker => corpus = 0 /\ quarantine = None

=============================================================================
