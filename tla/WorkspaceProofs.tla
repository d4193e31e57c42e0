---------------------------- MODULE WorkspaceProofs ----------------------------
(***************************************************************************)
(* The safety of WorkspaceDocuments, for any number of workspaces, of      *)
(* generations and of crashes.                                             *)
(*                                                                         *)
(* Typed is inductive by itself: the shapes of the state, what the         *)
(* operation that holds the lock works on, and that the registry has one   *)
(* open run at most.  Grounded adds what an open run and the operation     *)
(* know of the two stores until they have published, and Ordered what the  *)
(* operators' stale editions can do to a definition.                       *)
(***************************************************************************)
EXTENDS WorkspaceDocuments, TLAPS, FiniteSetTheorems

-----------------------------------------------------------------------------
(* Types, and what the operation in progress works on. *)

\* The writes of a registry run, and the run states before its generation is there.
RunSteps == {"stage", "manifest", "definitions", "rename", "completion", "unlink"}
Unpublished == {"intent_torn", "intent", "stage_dir", "stage_torn", "manifest", "staged"}

\* The document steps that have their run on disk.
OwnSteps == {"doc_intent", "doc_stage", "doc_manifest", "doc_rename", "complete", "forget",
             "remove"}

Reader == [at : ReaderStates, ws : Workspace \cup {None}, seq : Nat, doc : Nat]

Shapes ==
    /\ layout \in {"absent", "partial", "ready"}
    /\ gens \in Seq(Definitions)
    /\ runs \in SUBSET Run
    /\ op \in Operation
    /\ crashes \in 0 .. MaxCrashes
    /\ docLayout \in [Workspace -> {"absent", "partial", "ready"}]
    /\ docGens \in [Workspace -> Seq(DocGeneration)]
    /\ docRuns \in [Workspace -> SUBSET DocRun]
    /\ reader \in Reader

\* The operation has what its next write needs.
Equipped ==
    /\ op.step = "layout" => layout # "ready"
    /\ op.step \in RunSteps => op.run \in runs
    /\ op.step \in DocSteps => op.kind = "documents"
    /\ op.kind = "documents" => op.ws \in Workspace /\ op.doc \in DocRun
    /\ op.kind = "documents" /\ op.step \in OwnSteps \cup RegistrySteps
          => op.doc \in docRuns[op.ws]

\* One registry run at most is open, none before the layout is complete.
OneRun ==
    /\ \A r, q \in runs : r = q
    /\ layout # "ready" => runs = {} /\ gens = <<>>

\* A reader holds on to a registry generation in which its workspace is active.
ReaderFound ==
    reader.at # "none" =>
        /\ reader.ws \in Workspace /\ reader.seq \in DOMAIN gens
        /\ gens[reader.seq][reader.ws] # Absent

Typed == Shapes /\ Equipped /\ OneRun /\ ReaderFound

-----------------------------------------------------------------------------
(* What the runs and the operation know of the stores. *)

\* Some registry generation names this document generation.
Named(w, s) == \E n \in DOMAIN gens : gens[n][w] # Absent /\ gens[n][w].docs = s

\* A definition somebody may propose: none, a new one, an old one, an old one
\* under the next version, or the last one with its next documents.
Derived(w, d) ==
    \/ d = Absent
    \/ d.version = 1 /\ d.docs = 0
    \/ \E n \in DOMAIN gens :
          /\ gens[n][w] # Absent
          /\ \/ d = gens[n][w]
             \/ d.version = gens[n][w].version + 1 /\ d.docs = gens[n][w].docs
             \/ d.version = gens[n][w].version + 1 /\ d.docs > gens[n][w].docs /\ n = Len(gens)

\* A registry generation that is to be published next.
Fitting(g) ==
    /\ Advances(g)
    /\ \A w \in Workspace :
          Derived(w, g.defs[w]) /\ (g.defs[w] # Absent => g.defs[w].docs <= Len(docGens[w]))

\* A document run names its documents in the successor of the registry
\* generation it was derived from, in which the documents before it are named.
Based(w, r) ==
    LET b == r.gen.base IN
    /\ b \in DOMAIN gens /\ gens[b][w] # Absent
    /\ r.reg.seq = b + 1
    /\ r.reg.defs = [gens[b] EXCEPT ![w].version = @ + 1, ![w].docs = r.seq]
Follows(w, r) == gens[r.gen.base][w].docs + 1 = r.seq

\* Its documents are to become the next generation, and are not those of the last.
Fresh(w, r) ==
    LET n == Len(docGens[w])
    IN  r.seq = n + 1 /\ (n # 0 => r.gen.content # docGens[w][n].content)

RunGrounded(r) == r.at \in Unpublished => Fitting(r.gen)

DocGrounded(w, r) ==
    /\ Based(w, r) /\ Follows(w, r)
    /\ r.at \in {"intent_torn", "intent", "stage_dir", "stage_torn", "staged"} => Fresh(w, r)
    /\ r.at \in {"published", "completion_torn", "completed"} => r.seq \in DOMAIN docGens[w]
    /\ r.at = "completed" => Named(w, r.seq)

RunsGrounded ==
    /\ \A r \in runs : RunGrounded(r)
    /\ \A w \in Workspace : \A r \in docRuns[w] : DocGrounded(w, r)

\* One document run at most is open in each workspace, none before the layout.
OneDocRun ==
    \A w \in Workspace :
        /\ \A r, q \in docRuns[w] : r.at # "completed" /\ q.at # "completed" => r = q
        /\ docLayout[w] # "ready" => docRuns[w] = {} /\ docGens[w] = <<>>

\* What the operation found out, and has brought about, before its next write.
PublishGrounded ==
    /\ op.kind = "publish" => \E n \in 0 .. Len(gens) : op.defs \in Edits(Basis(n))
    /\ op.step = "propose" => op.kind \in {"publish", "documents"}
RunAt ==
    op.step \in {"stage", "manifest", "definitions", "rename"} => op.run.at \in Unpublished

DocAt ==
    LET w == op.ws  d == op.doc IN
    /\ op.step = "doc_layout" =>
          docLayout[w] # "ready" /\ d.at = "dir" /\ d.seq = 1 /\ Based(w, d)
          /\ d.gen.base = Len(gens)
    /\ op.step = "doc_dir" =>
          d.at = "dir" /\ Based(w, d) /\ Follows(w, d) /\ Fresh(w, d) /\ docLayout[w] = "ready"
    /\ op.step = "doc_intent" => d.at = "dir" /\ Fresh(w, d)
    /\ op.step \in {"doc_stage", "doc_manifest", "doc_rename"} =>
          d.at \in {"intent", "stage_dir", "stage_torn", "staged"}
    /\ op.step \in {"doc_dir", "compact"} => \A q \in docRuns[w] : q.at = "completed"
    /\ op.step \in {"complete", "forget"} => d.at = "published" /\ Named(w, d.seq)
    /\ op.step = "remove" => d.at = "dir" /\ Named(w, d.seq)

\* Within the registry: it publishes what its document run has in its intent.
DocInRegistry ==
    op.kind = "documents" =>
        /\ op.step \in RegistrySteps => op.doc.at = "published"
        /\ op.step = "propose" => op.defs = op.doc.reg.defs /\ op.seq = op.doc.reg.seq
        /\ op.step \in {"stage", "manifest", "definitions", "rename"}
              => op.run.gen.defs = op.doc.reg.defs
        /\ op.step \in {"completion", "unlink"} => Named(op.ws, op.doc.seq)

OpGrounded == PublishGrounded /\ RunAt /\ DocAt /\ DocInRegistry
Grounded == RunsGrounded /\ OneDocRun /\ OpGrounded /\ NamedIsPublished /\ AheadIsOpen

\* While a workspace stays registered, its versions and its documents only grow,
\* and one version has one definition.
Grown(d, e) ==
    d.version <= e.version /\ d.docs <= e.docs /\ (d.version = e.version => d = e)
Ordered ==
    \A w \in Workspace : \A i, k, l \in DOMAIN gens :
        FirstOf(w, i) /\ Kept(w, i, l) /\ i <= k /\ k <= l => Grown(gens[k][w], gens[l][w])

\* A reader that has not come to the documents has none yet.
Unread == reader.at \in {"listed", "selected", "checked"} => reader.doc = 0

IInv == Typed /\ Grounded /\ Ordered /\ NothingPublishedTwice /\ LoadIsConsistent /\ Unread

-----------------------------------------------------------------------------
(* The operators keep their types. *)

\* The last definitions, and those of any generation, are definitions.
LEMMA BasisTyped ==
    ASSUME gens \in Seq(Definitions)
    PROVE  /\ Nothing \in Definitions /\ Latest \in Definitions
           /\ \A n \in 0 .. Len(gens) : Basis(n) \in Definitions
BY DEF Nothing, Latest, Basis, Definitions

\* What an operator asks for is a set of definitions.
LEMMA EditsTyped ==
    ASSUME NEW defs \in Definitions, NEW d \in Edits(defs)
    PROVE  d \in Definitions
<1>1. \A w \in Workspace : defs[w] \in Definition \cup {Absent}
  BY DEF Definitions
<1>2. ASSUME NEW w \in Workspace,
             d = [defs EXCEPT ![w] = [version |-> 1, active |-> TRUE, docs |-> 0]]
      PROVE  d \in Definitions
  BY <1>2 DEF Definitions, Definition
<1>3. ASSUME NEW w \in Workspace, d = [defs EXCEPT ![w] = Absent]
      PROVE  d \in Definitions
  BY <1>3 DEF Definitions
<1>4. ASSUME NEW w \in Workspace, defs[w] # Absent,
             d = [defs EXCEPT ![w] = [version |-> @.version + 1, active |-> ~ @.active,
                                      docs |-> @.docs]]
      PROVE  d \in Definitions
  <2>1. defs[w] \in Definition
    BY <1>1, <1>4
  <2>2. [version |-> defs[w].version + 1, active |-> ~ defs[w].active, docs |-> defs[w].docs]
           \in Definition
    BY <2>1 DEF Definition
  <2> QED
    BY <1>4, <2>2 DEF Definitions
<1> QED
  BY <1>2, <1>3, <1>4 DEF Edits

\* No operation in progress is an operation.
LEMMA IdleTyped == Idle \in Operation /\ Idle.step = "none" /\ Idle.kind = "idle"
BY DEF Idle, Operation, Kinds, Nothing, Definitions

\* An operation that takes up open runs, none of them torn, works on one of them,
\* turns to its own proposal, or is over.
LEMMA TakenUp ==
    ASSUME NEW o \in Operation, NEW open \in SUBSET Run, \A r \in open : r.at \notin Torn
    PROVE  /\ TakeUp(o, open) \in Operation
           /\ \/ TakeUp(o, open) = Idle
              \/ /\ TakeUp(o, open).step \in RunSteps \cup {"propose"}
                 /\ TakeUp(o, open).step \in RunSteps => TakeUp(o, open).run \in open
                 /\ TakeUp(o, open).step \in RunSteps \ {"completion", "unlink"}
                       => TakeUp(o, open).run.at \in Unpublished
                 /\ TakeUp(o, open).step = "propose" => o.kind = "publish"
                 /\ TakeUp(o, open).kind = o.kind /\ TakeUp(o, open).own = o.own
                 /\ TakeUp(o, open).seq = o.seq /\ TakeUp(o, open).defs = o.defs
                 /\ TakeUp(o, open).ws = o.ws /\ TakeUp(o, open).doc = o.doc
<1>1. CASE open # {}
  <2> DEFINE r == CHOOSE r \in open : TRUE
  <2>1. r \in open /\ r \in Run
    BY <1>1
  <2>2. r.at \in RunStates \ Torn
    BY <2>1 DEF Run
  <2>3. /\ NextStep(r.at) \in RunSteps
        /\ NextStep(r.at) \notin {"completion", "unlink"} => r.at \in Unpublished
    BY <2>2 DEF RunStates, Torn, NextStep, RunSteps, Unpublished
  <2>4. TakeUp(o, open) = [o EXCEPT !.step = NextStep(r.at), !.run = r]
    BY <1>1 DEF TakeUp
  <2> HIDE DEF r
  <2>5. RunSteps \subseteq RegistrySteps
    BY DEF RunSteps, RegistrySteps
  <2> QED
    BY <2>1, <2>3, <2>4, <2>5 DEF Operation, RunSteps
<1>2. CASE open = {} /\ o.kind = "publish"
  <2>1. TakeUp(o, open) = [o EXCEPT !.step = "propose", !.run = None]
    BY <1>2 DEF TakeUp
  <2> QED
    BY <1>2, <2>1 DEF Operation, RunSteps, RegistrySteps
<1>3. CASE open = {} /\ o.kind # "publish"
  BY <1>3, IdleTyped DEF TakeUp
<1> QED
  BY <1>1, <1>2, <1>3

\* A reader's generation stays where it is when generations are appended.
LEMMA ReaderStays ==
    ASSUME Typed, reader' = reader, gens' = gens \/ \E d : gens' = Append(gens, d)
    PROVE  ReaderFound' /\ (reader \in Reader)'
<1>1. DOMAIN gens \subseteq DOMAIN gens' /\ \A n \in DOMAIN gens : gens'[n] = gens[n]
  BY DEF Typed, Shapes
<1> QED
  BY <1>1 DEF Typed, Shapes, ReaderFound

-----------------------------------------------------------------------------
(* Each operation of the registry keeps the types. *)

\* The beginning of a publication or of a recovery.
LEMMA BeginTyped ==
    ASSUME Typed, NEW kind \in {"publish", "recover"}, NEW seq \in Nat,
           NEW defs \in Definitions, Begin(kind, seq, defs), UNCHANGED <<docVars, reader>>
    PROVE  Typed'
<1> DEFINE o == [Idle EXCEPT !.kind = kind, !.seq = seq, !.defs = defs]
<1>1. /\ o \in Operation /\ o.kind = kind /\ o.ws = None /\ o.doc = None
      /\ o.defs = defs /\ o.seq = seq
  BY DEF Idle, Operation, Kinds, Nothing, Definitions
<1>2. op' = IF layout = "ready" THEN TakeUp(o, runs) ELSE [o EXCEPT !.step = "layout"]
  BY DEF Begin
<1> HIDE DEF o
<1>3. runs \in SUBSET Run /\ \A r \in runs : r.at \notin Torn
  BY DEF Typed, Shapes, Begin, Recoverable
<1>4. CASE layout = "ready"
  <2>1. op' = TakeUp(o, runs)
    BY <1>2, <1>4
  <2>2. /\ op' \in Operation
        /\ \/ op' = Idle
           \/ /\ op'.step \in RunSteps \cup {"propose"} /\ op'.kind = kind
              /\ op'.step \in RunSteps => op'.run \in runs
    BY <1>1, <1>3, <2>1, TakenUp
  <2>3. Equipped'
    BY <1>4, <2>2, IdleTyped DEF Equipped, RunSteps, DocSteps, Begin
  <2> QED
    BY <2>2, <2>3, ReaderStays DEF Typed, Shapes, OneRun, Begin, docVars
<1>5. CASE layout # "ready"
  <2>1. op' = [o EXCEPT !.step = "layout"]
    BY <1>2, <1>5
  <2>2. op' \in Operation /\ op'.step = "layout" /\ op'.kind = kind
    BY <1>1, <2>1 DEF Operation, RegistrySteps
  <2>3. Equipped'
    BY <1>5, <2>2 DEF Equipped, RunSteps, DocSteps, Begin
  <2> QED
    BY <2>2, <2>3, ReaderStays DEF Typed, Shapes, OneRun, Begin, docVars
<1> QED
  BY <1>4, <1>5

\* An operation that goes to a step for which it has what it needs.
LEMMA GoesTyped ==
    ASSUME Typed, op' \in Operation, Equipped', OneRun',
           layout' \in {"absent", "partial", "ready"}, runs' \in SUBSET Run,
           crashes' \in 0 .. MaxCrashes, gens' \in Seq(Definitions),
           gens' = gens \/ \E d : gens' = Append(gens, d), UNCHANGED <<docVars, reader>>
    PROVE  Typed'
BY ReaderStays DEF Typed, Shapes, docVars

\* The layout is made, after which there is nothing to take up.
LEMMA CreateLayoutTyped ==
    ASSUME Typed, CreateLayout, UNCHANGED <<docVars, reader>>
    PROVE  Typed'
<1>1. op \in Operation /\ runs = {} /\ gens = <<>> /\ layout # "ready"
  BY DEF Typed, Shapes, Equipped, OneRun, CreateLayout
<1>2. CASE layout = "absent"
  <2>1. Equipped' /\ OneRun'
    BY <1>1, <1>2 DEF Typed, Equipped, OneRun, CreateLayout, docVars
  <2> QED
    BY <1>1, <1>2, <2>1, GoesTyped DEF Typed, Shapes, CreateLayout
<1>3. CASE layout # "absent"
  <2>1. op' = TakeUp(op, runs) /\ layout' = "ready"
    BY <1>3 DEF CreateLayout
  <2>2. /\ op' \in Operation
        /\ \/ op' = Idle
           \/ /\ op'.step \in RunSteps \cup {"propose"} /\ op'.kind = op.kind
              /\ op'.step \in RunSteps => op'.run \in runs
              /\ op'.ws = op.ws /\ op'.doc = op.doc
    BY <1>1, <2>1, TakenUp
  <2>3. Equipped'
    BY <1>1, <2>1, <2>2, IdleTyped
       DEF Typed, Equipped, CreateLayout, RunSteps, RegistrySteps, DocSteps, OwnSteps, docVars
  <2>4. OneRun'
    BY <1>1, <2>1 DEF OneRun, CreateLayout
  <2> QED
    BY <1>1, <2>1, <2>2, <2>3, <2>4, GoesTyped DEF Typed, Shapes, CreateLayout
<1> QED
  BY <1>2, <1>3

\* An intent: there is no other run, and its generation is well formed.
LEMMA ProposalTyped ==
    ASSUME Typed, op.step = "propose", MayPublish
    PROVE  Proposal \in Generation /\ runs = {} /\ layout = "ready"
<1>1. op \in Operation
  BY DEF Typed, Shapes
<1>2. Len(gens) \in Nat
  BY DEF Typed, Shapes
<1> QED
  BY <1>1, <1>2 DEF Operation, Proposal, Generation, MayPublish, Loadable

\* The intent of a proposal becomes the only run.
LEMMA WriteIntentTyped ==
    ASSUME Typed, WriteIntent, UNCHANGED <<docVars, reader>>
    PROVE  Typed'
<1> DEFINE r == [gen |-> Proposal, at |-> "intent"]
<1>1. op \in Operation /\ op.step = "propose"
  BY DEF Typed, Shapes, WriteIntent
<1>2. Proposal \in Generation /\ runs = {} /\ layout = "ready"
  BY <1>1, ProposalTyped DEF WriteIntent
<1>3. r \in Run
  BY <1>2 DEF Run, RunStates
<1>4. runs' = {r} /\ op' = [op EXCEPT !.step = "stage", !.run = r, !.own = TRUE]
  BY <1>2 DEF WriteIntent
<1> HIDE DEF r
<1>5. /\ op' \in Operation /\ op'.step = "stage" /\ op'.run = r /\ op'.kind = op.kind
      /\ op'.ws = op.ws /\ op'.doc = op.doc
  BY <1>1, <1>3, <1>4 DEF Operation, RegistrySteps
<1>6. Equipped'
  BY <1>1, <1>2, <1>4, <1>5
     DEF Typed, Equipped, RunSteps, RegistrySteps, DocSteps, OwnSteps, WriteIntent, docVars
<1>7. OneRun'
  BY <1>2, <1>4 DEF OneRun, WriteIntent
<1> QED
  BY <1>3, <1>4, <1>5, <1>6, <1>7, GoesTyped DEF Typed, Shapes, WriteIntent

\* Without a publication the operation ends, or goes on with its documents.
LEMMA ReturnUnpublishedTyped ==
    ASSUME Typed, ReturnUnpublished, UNCHANGED <<docVars, reader>>
    PROVE  Typed'
<1>1. op \in Operation /\ op.step = "propose"
  BY DEF Typed, Shapes, ReturnUnpublished
<1>2. \/ op' = Idle
      \/ op' = [op EXCEPT !.step = "complete"] /\ op.kind = "documents"
  BY DEF ReturnUnpublished
<1>3. op' \in Operation
  BY <1>1, <1>2, IdleTyped DEF Operation, DocSteps
<1>4. Equipped'
  BY <1>1, <1>2, IdleTyped
     DEF Typed, Equipped, Operation, RunSteps, RegistrySteps, DocSteps, OwnSteps,
         ReturnUnpublished, docVars
<1>5. OneRun'
  BY DEF Typed, OneRun, ReturnUnpublished
<1> QED
  BY <1>3, <1>4, <1>5, GoesTyped DEF Typed, Shapes, ReturnUnpublished

\* A run moves on: it is still the only one, and the one that is worked on.
LEMMA MoveOnTyped ==
    ASSUME Typed, NEW at \in RunStates, NEW step \in RunSteps, op.step \in RunSteps,
           MoveOn(at, step), UNCHANGED <<layout, docVars, crashes, reader>>,
           gens' = gens \/ gens' = Append(gens, op.run.gen.defs)
    PROVE  /\ Typed'
           /\ op.run \in Run /\ runs = {op.run} /\ op'.run = [op.run EXCEPT !.at = at]
           /\ op' = [op EXCEPT !.step = step, !.run = op'.run] /\ runs' = {op'.run}
<1> DEFINE r == [op.run EXCEPT !.at = at]
<1>1. op \in Operation /\ op.run \in runs /\ runs \in SUBSET Run
  BY DEF Typed, Shapes, Equipped
<1>2. runs = {op.run} /\ layout = "ready"
  BY <1>1 DEF Typed, Shapes, OneRun
<1>3. op.run \in Run /\ r \in Run /\ op.run.gen.defs \in Definitions
  BY <1>1 DEF Run, Generation
<1>4. runs' = {r} /\ op' = [op EXCEPT !.step = step, !.run = r]
  BY <1>2 DEF MoveOn
<1> HIDE DEF r
<1>5. /\ op' \in Operation /\ op'.step = step /\ op'.run = r /\ op'.kind = op.kind
      /\ op'.ws = op.ws /\ op'.doc = op.doc
  BY <1>1, <1>3, <1>4 DEF Operation, RunSteps, RegistrySteps
<1>6. gens' \in Seq(Definitions) /\ (gens' = gens \/ \E d : gens' = Append(gens, d))
  <2>1. gens \in Seq(Definitions)
    BY DEF Typed, Shapes
  <2>2. Append(gens, op.run.gen.defs) \in Seq(Definitions)
    BY <1>3, <2>1
  <2> QED
    BY <2>1, <2>2
<1>7. Equipped'
  BY <1>1, <1>2, <1>4, <1>5
     DEF Typed, Equipped, RunSteps, RegistrySteps, DocSteps, OwnSteps, docVars
<1>8. OneRun'
  BY <1>2, <1>4 DEF OneRun
<1>9. Typed'
  BY <1>3, <1>4, <1>5, <1>6, <1>7, <1>8, GoesTyped DEF Typed, Shapes
<1> QED
  BY <1>2, <1>3, <1>4, <1>5, <1>9 DEF r

\* The intent goes, and with it the run: there is nothing else to take up.
LEMMA UnlinkIntentTyped ==
    ASSUME Typed, UnlinkIntent, UNCHANGED <<docVars, reader>>
    PROVE  /\ Typed'
           /\ op.run \in Run /\ runs = {op.run} /\ runs' = {}
           /\ \/ op' = Idle
              \/ op' = [op EXCEPT !.step = "propose", !.run = None] /\ op.kind = "publish"
              \/ /\ op' = [op EXCEPT !.step = "complete", !.run = None, !.own = FALSE]
                 /\ op.kind = "documents"
<1>1. op \in Operation /\ op.run \in runs /\ op.step = "unlink" /\ runs \in SUBSET Run
  BY DEF Typed, Shapes, Equipped, UnlinkIntent, RunSteps
<1>2. runs = {op.run} /\ layout = "ready" /\ runs' = {}
  BY <1>1 DEF Typed, OneRun, UnlinkIntent
<1>3. \/ op' = Idle
      \/ op' = [op EXCEPT !.step = "propose", !.run = None] /\ op.kind = "publish"
      \/ /\ op' = [op EXCEPT !.step = "complete", !.run = None, !.own = FALSE]
         /\ op.kind = "documents"
  BY <1>2 DEF UnlinkIntent, TakeUp
<1>4. op' \in Operation
  BY <1>1, <1>3, IdleTyped DEF Operation, DocSteps, RegistrySteps
<1>5. Equipped'
  BY <1>1, <1>3, IdleTyped
     DEF Typed, Equipped, Operation, RunSteps, RegistrySteps, DocSteps, OwnSteps, docVars
<1>6. OneRun'
  BY <1>2 DEF OneRun, UnlinkIntent
<1>7. Typed'
  BY <1>2, <1>4, <1>5, <1>6, GoesTyped DEF Typed, Shapes, UnlinkIntent
<1> QED
  BY <1>1, <1>2, <1>3, <1>7

\* A process that dies, or tears the registry file it was writing.
LEMMA CrashTyped ==
    ASSUME Typed, Crash, UNCHANGED <<docVars, reader>>
    PROVE  Typed'
<1>1. Equipped' /\ OneRun'
  BY IdleTyped DEF Typed, Equipped, OneRun, Crash, RunSteps, RegistrySteps, DocSteps
<1>2. crashes' \in 0 .. MaxCrashes
  BY RegistryConstants DEF Typed, Shapes, Crash
<1> QED
  BY <1>1, <1>2, IdleTyped, GoesTyped DEF Typed, Shapes, Crash

\* A torn intent, or a torn file of the run that is worked on, is the only run.
LEMMA TearRegistryFileTyped ==
    ASSUME Typed, TearRegistryFile, UNCHANGED <<docVars, reader>>
    PROVE  /\ Typed'
           /\ \/ /\ op.step = "propose" /\ MayPublish /\ runs = {}
                 /\ runs' = {[gen |-> Proposal, at |-> "intent_torn"]}
              \/ /\ op.step \in {"manifest", "definitions", "completion"}
                 /\ runs = {op.run}
                 /\ runs' = {[op.run EXCEPT !.at = IF op.step = "completion"
                                                   THEN "completion_torn" ELSE "stage_torn"]}
<1>1. Equipped' /\ op' \in Operation
  BY IdleTyped DEF Typed, Equipped, TearRegistryFile, RunSteps, RegistrySteps, DocSteps
<1>2. crashes' \in 0 .. MaxCrashes
  BY RegistryConstants DEF Typed, Shapes, TearRegistryFile
<1>3. CASE op.step = "propose"
  <2> DEFINE r == [gen |-> Proposal, at |-> "intent_torn"]
  <2>1. MayPublish /\ runs = {} /\ runs' = {r} /\ layout = "ready" /\ Proposal \in Generation
    BY <1>3, ProposalTyped DEF TearRegistryFile
  <2>2. r \in Run
    BY <2>1 DEF Run, RunStates
  <2> HIDE DEF r
  <2>3. OneRun'
    BY <2>1 DEF OneRun, TearRegistryFile
  <2>4. Typed'
    BY <1>1, <1>2, <2>1, <2>2, <2>3, GoesTyped DEF Typed, Shapes, TearRegistryFile
  <2> QED
    BY <1>3, <2>1, <2>4 DEF r
<1>4. CASE op.step # "propose"
  <2> DEFINE r == [op.run EXCEPT !.at = IF op.step = "completion"
                                        THEN "completion_torn" ELSE "stage_torn"]
  <2>1. /\ op.step \in {"manifest", "definitions", "completion"}
        /\ runs' = (runs \ {op.run}) \cup {r}
    BY <1>4 DEF TearRegistryFile
  <2>2. op.run \in runs /\ op.run \in Run
    BY <2>1 DEF Typed, Shapes, Equipped, RunSteps
  <2>3. r \in Run
    BY <2>2 DEF Run, RunStates
  <2> HIDE DEF r
  <2>4. runs = {op.run} /\ layout = "ready"
    BY <2>2 DEF Typed, Shapes, OneRun
  <2>5. runs' = {r}
    BY <2>1, <2>4
  <2>6. OneRun'
    BY <2>4, <2>5 DEF OneRun, TearRegistryFile
  <2>7. Typed'
    BY <1>1, <1>2, <2>3, <2>5, <2>6, GoesTyped DEF Typed, Shapes, TearRegistryFile
  <2> QED
    BY <2>1, <2>4, <2>5, <2>7 DEF r
<1> QED
  BY <1>3, <1>4

\* Publications and recoveries of the registry keep the types.
LEMMA RegistryTyped ==
    ASSUME Typed, RegistryNext, UNCHANGED <<docVars, reader>>
    PROVE  Typed'
<1>1. ASSUME BeginPublish PROVE Typed'
  <2>1. PICK n \in 0 .. Len(gens) : \E defs \in Edits(Basis(n)) :
              Begin("publish", 0, defs) \/ Begin("publish", n + 1, defs)
    BY <1>1 DEF BeginPublish
  <2>2. PICK defs \in Edits(Basis(n)) :
              Begin("publish", 0, defs) \/ Begin("publish", n + 1, defs)
    BY <2>1
  <2>3. defs \in Definitions /\ n \in Nat
    BY <2>2, BasisTyped, EditsTyped DEF Typed, Shapes
  <2> QED
    BY <2>2, <2>3, BeginTyped
<1>2. ASSUME BeginRecover PROVE Typed'
  BY <1>2, BeginTyped, BasisTyped DEF BeginRecover, Typed, Shapes
<1>3. ASSUME MakeStage \/ StageManifest \/ StageDefinitions \/ RenameStage \/ WriteCompletion
      PROVE  Typed'
  <2>1. op.step \in RunSteps
    BY <1>3
       DEF MakeStage, StageManifest, StageDefinitions, RenameStage, WriteCompletion, RunSteps
  <2>2. PICK at \in RunStates, step \in RunSteps : MoveOn(at, step)
    BY <1>3 DEF MakeStage, StageManifest, StageDefinitions, RenameStage, WriteCompletion,
                RunSteps, RunStates
  <2> QED
    BY <1>3, <2>1, <2>2, MoveOnTyped
       DEF MakeStage, StageManifest, StageDefinitions, RenameStage, WriteCompletion
<1> QED
  BY <1>1, <1>2, <1>3, CreateLayoutTyped, WriteIntentTyped, ReturnUnpublishedTyped,
     UnlinkIntentTyped, CrashTyped, TearRegistryFileTyped
     DEF RegistryNext, RegistryStep

-----------------------------------------------------------------------------
(* Each operation of the documents keeps the types. *)

\* The registry is left alone, and so is the reader.
LEMMA DocGoesTyped ==
    ASSUME Typed, op' \in Operation, Equipped', UNCHANGED <<layout, gens, runs, reader>>,
           crashes' \in 0 .. MaxCrashes,
           docLayout' \in [Workspace -> {"absent", "partial", "ready"}],
           docGens' \in [Workspace -> Seq(DocGeneration)],
           docRuns' \in [Workspace -> SUBSET DocRun]
    PROVE  Typed'
BY ReaderStays DEF Typed, Shapes, OneRun

\* A selected workspace has a definition in the last generation.
LEMMA SelectedTyped ==
    ASSUME Typed, NEW w \in Workspace, Selected(w)
    PROVE  /\ Latest \in Definitions /\ Latest = gens[Len(gens)] /\ Latest[w] \in Definition
           /\ Latest[w] # Absent /\ Len(gens) \in DOMAIN gens /\ Len(gens) \in Nat \ {0}
           /\ Naming(w) \in Definitions /\ runs = {} /\ layout = "ready"
<1>1. gens \in Seq(Definitions) /\ gens # <<>>
  BY DEF Typed, Shapes, Selected
<1>2. Latest = gens[Len(gens)] /\ Latest \in Definitions /\ Latest[w] # Absent
  BY <1>1 DEF Selected, Selectable, Latest
<1>3. Latest[w] \in Definition
  BY <1>2 DEF Definitions
<1>4. Len(docGens[w]) \in Nat
  BY DEF Typed, Shapes
<1> DEFINE d == [version |-> Latest[w].version + 1, active |-> Latest[w].active,
                docs |-> Len(docGens[w]) + 1]
<1>5. d \in Definition
  BY <1>3, <1>4 DEF Definition
<1>6. Naming(w) = [Latest EXCEPT ![w] = d]
  BY <1>2, <1>3 DEF Naming, Definitions, Definition
<1> HIDE DEF d
<1> QED
  BY <1>1, <1>2, <1>3, <1>5, <1>6 DEF Selected, Loadable, Definitions

\* The run that BeginDocuments puts together.
NewRun(w, c) ==
    [seq |-> Len(docGens[w]) + 1, at |-> "dir",
     gen |-> [content |-> c, base |-> Len(gens), whole |-> TRUE],
     reg |-> [seq |-> Len(gens) + 1, defs |-> Naming(w)]]

\* A documents operation begins with a run of its own, not yet on disk.
LEMMA BeginDocumentsTyped ==
    ASSUME Typed, NEW w \in Workspace, BeginDocuments(w), reader' = reader
    PROVE  /\ Typed'
           /\ \E c \in Content :
                 /\ Len(docGens[w]) # 0 => c # docGens[w][Len(docGens[w])].content
                 /\ NewRun(w, c) \in DocRun
                 /\ op' = [Idle EXCEPT !.kind = "documents", !.ws = w, !.doc = NewRun(w, c),
                              !.step = IF docLayout[w] = "absent" THEN "doc_layout"
                                       ELSE "doc_dir"]
<1>1. PICK c \in Content :
         /\ Len(docGens[w]) # 0 => c # docGens[w][Len(docGens[w])].content
         /\ op' = [Idle EXCEPT !.kind = "documents", !.ws = w, !.doc = NewRun(w, c),
                      !.step = IF docLayout[w] = "absent" THEN "doc_layout" ELSE "doc_dir"]
  BY DEF BeginDocuments, NewRun
<1>2. /\ Len(gens) \in Nat \ {0} /\ Naming(w) \in Definitions /\ layout = "ready"
      /\ Len(docGens[w]) \in Nat
  BY SelectedTyped DEF BeginDocuments, Typed, Shapes
<1>3. NewRun(w, c) \in DocRun
  BY <1>2 DEF NewRun, DocRun, DocGeneration, Generation, DocStates
<1>4. /\ op' \in Operation /\ op'.step \in {"doc_layout", "doc_dir"} /\ op'.ws = w
      /\ op'.doc \in DocRun /\ op'.kind = "documents"
  BY <1>1, <1>3, IdleTyped DEF Idle, Operation, Kinds, DocSteps
<1>5. Equipped'
  BY <1>4 DEF Equipped, RunSteps, RegistrySteps, DocSteps, OwnSteps
<1>6. Typed'
  BY <1>4, <1>5, DocGoesTyped DEF Typed, Shapes, BeginDocuments, docVars
<1> QED
  BY <1>1, <1>3, <1>6

\* The layout of the documents is made.
LEMMA CreateDocLayoutTyped ==
    ASSUME Typed, CreateDocLayout, reader' = reader
    PROVE  Typed'
<1>1. op \in Operation /\ op.step = "doc_layout" /\ op.kind = "documents" /\ op.ws \in Workspace
  BY DEF Typed, Shapes, Equipped, CreateDocLayout, DocSteps
<1>2. op' = op \/ op' = [op EXCEPT !.step = "doc_dir"] \/ op' = Idle
  BY DEF CreateDocLayout
<1>3. op' \in Operation
  BY <1>1, <1>2, IdleTyped DEF Operation, DocSteps
<1>4. Equipped'
  BY <1>1, <1>2, IdleTyped
     DEF Typed, Equipped, Operation, RunSteps, RegistrySteps, DocSteps, OwnSteps, CreateDocLayout
<1>5. docLayout' \in [Workspace -> {"absent", "partial", "ready"}]
  BY DEF Typed, Shapes, CreateDocLayout
<1> QED
  BY <1>3, <1>4, <1>5, DocGoesTyped DEF Typed, Shapes, CreateDocLayout

\* A document run moves on by one write.
LEMMA DocMoveOnTyped ==
    ASSUME Typed, NEW at \in DocStates, NEW step \in DocSteps, op.step \in DocSteps,
           DocMoveOn(at, step),
           UNCHANGED <<layout, gens, runs, crashes, docLayout, docGens, reader>>
    PROVE  /\ Typed'
           /\ op \in Operation /\ op.ws \in Workspace /\ op.doc \in DocRun
           /\ op'.doc = [op.doc EXCEPT !.at = at] /\ op'.doc \in DocRun
           /\ op' = [op EXCEPT !.step = step, !.doc = op'.doc]
           /\ docRuns' = [docRuns EXCEPT ![op.ws] = (@ \ {op.doc}) \cup {op'.doc}]
<1> DEFINE r == [op.doc EXCEPT !.at = at]
<1>1. op \in Operation /\ op.kind = "documents" /\ op.ws \in Workspace /\ op.doc \in DocRun
  BY DEF Typed, Shapes, Equipped
<1>2. r \in DocRun
  BY <1>1 DEF DocRun
<1>3. /\ docRuns' = [docRuns EXCEPT ![op.ws] = (@ \ {op.doc}) \cup {r}]
      /\ op' = [op EXCEPT !.step = step, !.doc = r]
  BY DEF DocMoveOn
<1> HIDE DEF r
<1>4. /\ op' \in Operation /\ op'.step = step /\ op'.doc = r /\ op'.kind = "documents"
      /\ op'.ws = op.ws
  BY <1>1, <1>2, <1>3 DEF Operation
<1>5. docRuns' \in [Workspace -> SUBSET DocRun] /\ r \in docRuns'[op.ws]
  BY <1>1, <1>2, <1>3 DEF Typed, Shapes
<1>6. Equipped'
  BY <1>1, <1>2, <1>4, <1>5 DEF Equipped, RunSteps, DocSteps
<1>7. Typed'
  BY <1>4, <1>5, <1>6, DocGoesTyped DEF Typed, Shapes
<1> QED
  BY <1>1, <1>2, <1>3, <1>4, <1>7 DEF r

\* The stage becomes a generation, and the registry is to name it.
LEMMA RenameDocStageTyped ==
    ASSUME Typed, RenameDocStage, reader' = reader
    PROVE  /\ Typed'
           /\ op \in Operation /\ op.ws \in Workspace /\ op.doc \in DocRun
           /\ op'.doc = [op.doc EXCEPT !.at = "published"] /\ op'.doc \in DocRun
           /\ op' = [op EXCEPT !.step = "propose", !.doc = op'.doc,
                               !.seq = op.doc.reg.seq, !.defs = op.doc.reg.defs]
           /\ docRuns' = [docRuns EXCEPT ![op.ws] = (@ \ {op.doc}) \cup {op'.doc}]
<1> DEFINE r == [op.doc EXCEPT !.at = "published"]
           g == [op.doc.gen EXCEPT !.whole = op.doc.at = "staged"]
<1>1. op \in Operation /\ op.kind = "documents" /\ op.ws \in Workspace /\ op.doc \in DocRun
  BY DEF Typed, Shapes, Equipped, RenameDocStage, DocSteps
<1>2. /\ r \in DocRun /\ r.reg = op.doc.reg
      /\ op.doc.reg.seq \in Nat /\ op.doc.reg.defs \in Definitions
  BY <1>1 DEF DocRun, DocStates, Generation
<1>3. g \in DocGeneration
  BY <1>1 DEF DocRun, DocGeneration
<1>4. /\ docRuns' = [docRuns EXCEPT ![op.ws] = (@ \ {op.doc}) \cup {r}]
      /\ op' = [op EXCEPT !.step = "propose", !.doc = r,
                          !.seq = op.doc.reg.seq, !.defs = op.doc.reg.defs]
      /\ docGens' = [docGens EXCEPT ![op.ws] = Append(@, g)]
  BY <1>2 DEF RenameDocStage
<1> HIDE DEF r, g
<1>5. /\ op' \in Operation /\ op'.step = "propose" /\ op'.doc = r /\ op'.kind = "documents"
      /\ op'.ws = op.ws
  BY <1>1, <1>2, <1>4 DEF Operation, RegistrySteps
<1>6. docRuns' \in [Workspace -> SUBSET DocRun] /\ r \in docRuns'[op.ws]
  BY <1>1, <1>2, <1>4 DEF Typed, Shapes
<1>7. docGens' \in [Workspace -> Seq(DocGeneration)]
  <2>1. docGens[op.ws] \in Seq(DocGeneration)
    BY <1>1 DEF Typed, Shapes
  <2>2. Append(docGens[op.ws], g) \in Seq(DocGeneration)
    BY <1>3, <2>1
  <2> QED
    BY <1>1, <1>4, <2>2 DEF Typed, Shapes
<1>8. Equipped'
  BY <1>1, <1>2, <1>5, <1>6 DEF Equipped, RunSteps, DocSteps
<1>9. Typed'
  BY <1>5, <1>6, <1>7, <1>8, DocGoesTyped DEF Typed, Shapes, RenameDocStage
<1> QED
  BY <1>1, <1>2, <1>4, <1>5, <1>9 DEF r

\* A set of completed runs that is larger than the limit has an oldest run.
LEMMA OldestExists ==
    ASSUME Typed, NEW w \in Workspace, Cardinality(Terminal(w)) > MaxTerminal
    PROVE  \E r \in Terminal(w) : \A q \in Terminal(w) : r.seq <= q.seq
<1> DEFINE T == {r.seq : r \in Terminal(w)}
<1>1. Terminal(w) \subseteq docRuns[w] /\ docRuns[w] \subseteq DocRun
  BY DEF Typed, Shapes, Terminal
<1>2. Terminal(w) # {}
  BY FS_EmptySet, MaxTerminalIsNat
<1>3. T # {} /\ T \subseteq Nat
  BY <1>1, <1>2 DEF DocRun
<1> HIDE DEF T
<1>4. PICK n \in T : \A m \in T : ~ (<<m, n>> \in OpToRel(<, Nat))
  BY <1>3, NatLessThanWellFounded, WFMin
<1>5. \A m \in T : n <= m
  <2> SUFFICES ASSUME NEW m \in T, m < n PROVE FALSE
    BY <1>3
  <2>1. <<m, n>> \in Nat \X Nat /\ <<m, n>>[1] < <<m, n>>[2]
    BY <1>3
  <2>2. <<m, n>> \in OpToRel(<, Nat)
    BY <2>1 DEF OpToRel
  <2> QED
    BY <1>4, <2>2
<1> QED
  BY <1>5 DEF T

\* Compaction ends, or takes up a completed run.
LEMMA CompactTyped ==
    ASSUME Typed, Compact, reader' = reader
    PROVE  /\ Typed'
           /\ op \in Operation /\ op.ws \in Workspace
           /\ \/ op' = Idle /\ docRuns' = docRuns
              \/ \E old \in docRuns[op.ws] :
                    /\ old.at = "completed" /\ old \in DocRun
                    /\ op'.doc = [old EXCEPT !.at = "published"] /\ op'.doc \in DocRun
                    /\ op' = [op EXCEPT !.step = "forget", !.doc = op'.doc]
                    /\ docRuns' = [docRuns EXCEPT ![op.ws] = (@ \ {old}) \cup {op'.doc}]
<1> DEFINE w == op.ws
           old == CHOOSE r \in Terminal(w) : \A q \in Terminal(w) : r.seq <= q.seq
           r == [old EXCEPT !.at = "published"]
<1>1. op \in Operation /\ op.kind = "documents" /\ w \in Workspace
  BY DEF Typed, Shapes, Equipped, Compact, DocSteps
<1>2. CASE op' = Idle /\ docRuns' = docRuns
  <2>1. Equipped'
    BY <1>2, IdleTyped DEF Equipped, RunSteps, RegistrySteps, DocSteps
  <2> QED
    BY <1>1, <1>2, <2>1, IdleTyped, DocGoesTyped DEF Typed, Shapes, Compact
<1>3. CASE ~ (op' = Idle /\ docRuns' = docRuns)
  <2>1. /\ Cardinality(Terminal(w)) > MaxTerminal
        /\ docRuns' = [docRuns EXCEPT ![w] = (@ \ {old}) \cup {r}]
        /\ op' = [op EXCEPT !.step = "forget", !.doc = r]
    BY <1>3 DEF Compact
  <2>2. \E q \in Terminal(w) : \A p \in Terminal(w) : q.seq <= p.seq
    BY <1>1, <2>1, OldestExists
  <2>3. old \in Terminal(w)
    BY <2>2
  <2> HIDE DEF old
  <2>4. old \in docRuns[w] /\ old.at = "completed" /\ old \in DocRun
    BY <1>1, <2>3 DEF Terminal, Typed, Shapes
  <2>5. r \in DocRun /\ r = [old EXCEPT !.at = "published"]
    BY <2>4 DEF DocRun, DocStates
  <2> HIDE DEF r
  <2>6. /\ op' \in Operation /\ op'.step = "forget" /\ op'.doc = r /\ op'.kind = "documents"
        /\ op'.ws = w
    BY <1>1, <2>1, <2>5 DEF Operation, DocSteps
  <2>7. docRuns' \in [Workspace -> SUBSET DocRun] /\ r \in docRuns'[w]
    BY <1>1, <2>1, <2>5 DEF Typed, Shapes
  <2>8. Equipped'
    BY <1>1, <2>5, <2>6, <2>7 DEF Equipped, RunSteps, DocSteps
  <2>9. Typed'
    BY <2>6, <2>7, <2>8, DocGoesTyped DEF Typed, Shapes, Compact
  <2> QED
    BY <1>1, <2>1, <2>4, <2>5, <2>6, <2>9
<1> QED
  BY <1>2, <1>3

\* The directory of a compacted run goes.
LEMMA RemoveRunDirectoryTyped ==
    ASSUME Typed, RemoveRunDirectory, reader' = reader
    PROVE  Typed'
<1>1. /\ op \in Operation /\ op.kind = "documents" /\ op.ws \in Workspace /\ op.doc \in DocRun
      /\ op' = [op EXCEPT !.step = "compact"]
  BY DEF Typed, Shapes, Equipped, RemoveRunDirectory, DocSteps
<1>2. /\ op' \in Operation /\ op'.step = "compact" /\ op'.doc = op.doc /\ op'.ws = op.ws
      /\ op'.kind = "documents"
  BY <1>1 DEF Operation, DocSteps
<1>3. docRuns' \in [Workspace -> SUBSET DocRun]
  BY <1>1 DEF Typed, Shapes, RemoveRunDirectory
<1>4. Equipped'
  BY <1>1, <1>2 DEF Equipped, RunSteps, RegistrySteps, DocSteps, OwnSteps
<1> QED
  BY <1>2, <1>3, <1>4, DocGoesTyped DEF Typed, Shapes, RemoveRunDirectory

\* A recovery takes up a run that is there.
LEMMA RecoverDocumentsTyped ==
    ASSUME Typed, NEW w \in Workspace, RecoverDocuments(w), reader' = reader
    PROVE  /\ Typed'
           /\ \E r \in Active(w) :
                 /\ r \in docRuns[w] /\ r \in DocRun
                 /\ op' = [Idle EXCEPT !.kind = "documents", !.ws = w, !.doc = r,
                                       !.step = ResumeStep(r.at),
                                       !.seq = r.reg.seq, !.defs = r.reg.defs]
<1> DEFINE r == CHOOSE r \in Active(w) : TRUE
<1>1. Active(w) # {}
  <2>1. Cardinality(Active(w)) = 1
    BY DEF RecoverDocuments
  <2> QED
    BY <2>1, FS_EmptySet
<1>2. r \in Active(w) /\ r \in docRuns[w] /\ r \in DocRun
  BY <1>1 DEF Active, Typed, Shapes
<1>3. op' = [Idle EXCEPT !.kind = "documents", !.ws = w, !.doc = r, !.step = ResumeStep(r.at),
                         !.seq = r.reg.seq, !.defs = r.reg.defs]
  BY DEF RecoverDocuments
<1> HIDE DEF r
<1>4. ResumeStep(r.at) \in {"doc_stage", "propose", "doc_rename"}
  BY <1>2 DEF ResumeStep, DocRun, DocStates
<1>5. r.reg.seq \in Nat /\ r.reg.defs \in Definitions
  BY <1>2 DEF DocRun, Generation
<1>6. /\ op' \in Operation /\ op'.step \in {"doc_stage", "propose", "doc_rename"}
      /\ op'.ws = w /\ op'.doc = r /\ op'.kind = "documents"
  BY <1>2, <1>3, <1>4, <1>5, IdleTyped DEF Idle, Operation, Kinds, DocSteps, RegistrySteps
<1>7. Equipped'
  BY <1>2, <1>6
     DEF Equipped, RunSteps, RegistrySteps, DocSteps, OwnSteps, RecoverDocuments, docVars
<1>8. Typed'
  BY <1>6, <1>7, DocGoesTyped DEF Typed, Shapes, RecoverDocuments, docVars
<1> QED
  BY <1>2, <1>3, <1>8

\* A torn document file belongs to the run that was worked on.
LEMMA TearDocumentFileTyped ==
    ASSUME Typed, TearDocumentFile, reader' = reader
    PROVE  /\ Typed'
           /\ op \in Operation /\ op.ws \in Workspace /\ op.doc \in DocRun
           /\ \E torn \in {"intent_torn", "stage_torn", "completion_torn"} :
                 /\ torn = CASE op.step = "doc_intent"   -> "intent_torn"
                             [] op.step = "doc_manifest" -> "stage_torn"
                             [] op.step = "complete"     -> "completion_torn"
                 /\ [op.doc EXCEPT !.at = torn] \in DocRun
                 /\ docRuns' = [docRuns EXCEPT ![op.ws] =
                                   (@ \ {op.doc}) \cup {[op.doc EXCEPT !.at = torn]}]
<1> DEFINE torn == CASE op.step = "doc_intent"   -> "intent_torn"
                     [] op.step = "doc_manifest" -> "stage_torn"
                     [] op.step = "complete"     -> "completion_torn"
           r == [op.doc EXCEPT !.at = torn]
<1>1. op \in Operation /\ op.kind = "documents" /\ op.ws \in Workspace /\ op.doc \in DocRun
  BY DEF Typed, Shapes, Equipped, TearDocumentFile, DocSteps
<1>2. torn \in {"intent_torn", "stage_torn", "completion_torn"}
  BY DEF TearDocumentFile
<1>3. docRuns' = [docRuns EXCEPT ![op.ws] = (@ \ {op.doc}) \cup {r}]
  BY DEF TearDocumentFile
<1> HIDE DEF torn
<1>4. r \in DocRun
  BY <1>1, <1>2 DEF DocRun, DocStates
<1> HIDE DEF r
<1>5. docRuns' \in [Workspace -> SUBSET DocRun]
  BY <1>1, <1>3, <1>4 DEF Typed, Shapes
<1>6. Equipped' /\ op' \in Operation
  BY IdleTyped DEF TearDocumentFile, Equipped, RunSteps, RegistrySteps, DocSteps
<1>7. crashes' \in 0 .. MaxCrashes
  BY RegistryConstants DEF Typed, Shapes, TearDocumentFile
<1>8. Typed'
  BY <1>5, <1>6, <1>7, DocGoesTyped DEF Typed, Shapes, TearDocumentFile
<1> QED
  BY <1>1, <1>2, <1>3, <1>4, <1>8 DEF r, torn

\* Publications, recoveries and compactions of documents keep the types.
LEMMA DocumentsTyped ==
    ASSUME Typed, reader' = reader,
           \/ \E w \in Workspace : BeginDocuments(w) \/ RecoverDocuments(w)
           \/ DocStep \/ TearDocumentFile
    PROVE  Typed'
<1>1. ASSUME MakeRunDirectory \/ WriteDocIntent \/ MakeDocStage \/ WriteDocManifest
             \/ WriteDocCompletion \/ ForgetIntent
      PROVE  Typed'
  <2>1. op.step \in DocSteps
    BY <1>1 DEF MakeRunDirectory, WriteDocIntent, MakeDocStage, WriteDocManifest,
                WriteDocCompletion, ForgetIntent, DocSteps
  <2>2. PICK at \in DocStates, step \in DocSteps : DocMoveOn(at, step)
    BY <1>1 DEF MakeRunDirectory, WriteDocIntent, MakeDocStage, WriteDocManifest,
                WriteDocCompletion, ForgetIntent, DocSteps, DocStates
  <2> QED
    BY <1>1, <2>1, <2>2, DocMoveOnTyped
       DEF MakeRunDirectory, WriteDocIntent, MakeDocStage, WriteDocManifest,
           WriteDocCompletion, ForgetIntent
<1> QED
  BY <1>1, BeginDocumentsTyped, RecoverDocumentsTyped, CreateDocLayoutTyped,
     RenameDocStageTyped, CompactTyped, RemoveRunDirectoryTyped, TearDocumentFileTyped
     DEF DocStep

\* A reader reads, and changes nothing.
LEMMA ReadTyped ==
    ASSUME Typed, Read, UNCHANGED <<registryVars, docVars>>
    PROVE  Typed'
<1>1. /\ gens \in Seq(Definitions) /\ docGens \in [Workspace -> Seq(DocGeneration)]
      /\ docLayout \in [Workspace -> {"absent", "partial", "ready"}]
  BY DEF Typed, Shapes
<1>2. NoReader \in Reader /\ NoReader.at = "none"
  BY DEF NoReader, Reader, ReaderStates
<1>3. reader' \in Reader /\ ReaderFound'
  <2>1. CASE \E w \in Workspace : ListRegistry(w)
    <3>1. PICK w \in Workspace : ListRegistry(w)
      BY <2>1
    <3>2. reader' = [at |-> "listed", ws |-> w, seq |-> Len(gens), doc |-> 0]
      BY <3>1 DEF ListRegistry
    <3>3. Len(gens) \in DOMAIN gens /\ gens[Len(gens)][w] # Absent /\ gens' = gens
      BY <1>1, <3>1 DEF ListRegistry, Latest, Selectable, registryVars
    <3> QED
      BY <1>1, <3>2, <3>3 DEF Reader, ReaderStates, ReaderFound
  <2>2. CASE CheckRegistry \/ CheckDocuments \/ ReadGenerations
    <3>1. reader.at # "none" /\ reader \in Reader
      BY <2>2 DEF CheckRegistry, CheckDocuments, ReadGenerations, Typed, Shapes
    <3>2. reader.ws \in Workspace
      BY <3>1 DEF Typed, ReaderFound
    <3>3. \/ reader' = NoReader
          \/ \E at \in ReaderStates : reader' = [reader EXCEPT !.at = at]
          \/ reader' = [reader EXCEPT !.at = "returned", !.doc = Len(docGens[reader.ws])]
      <4>1. CASE CheckRegistry
        BY <4>1 DEF CheckRegistry, ReaderStates
      <4>2. CASE CheckDocuments
        BY <1>1, <3>2, <4>2 DEF CheckDocuments, ReaderStates
      <4>3. CASE ReadGenerations
        BY <4>3 DEF ReadGenerations
      <4> QED
        BY <2>2, <4>1, <4>2, <4>3
    <3>4. Len(docGens[reader.ws]) \in Nat
      BY <1>1, <3>2
    <3> QED
      BY <1>2, <3>1, <3>3, <3>4 DEF Reader, ReaderStates, ReaderFound, Typed, registryVars
  <2> QED
    BY <2>1, <2>2 DEF Read
<1> QED
  BY <1>3 DEF Typed, Shapes, Equipped, OneRun, registryVars, docVars

-----------------------------------------------------------------------------
(* The types hold. *)

\* Nothing is there at the start.
THEOREM InitTyped == DocInit => Typed
<1> SUFFICES ASSUME DocInit PROVE Typed
  OBVIOUS
<1>1. 0 \in 0 .. MaxCrashes /\ <<>> \in Seq(Definitions) /\ <<>> \in Seq(DocGeneration)
  BY RegistryConstants
<1>2. NoReader \in Reader /\ NoReader.at = "none"
  BY DEF NoReader, Reader, ReaderStates
<1> QED
  BY <1>1, <1>2, IdleTyped
     DEF DocInit, Init, Typed, Shapes, Equipped, OneRun, ReaderFound,
         RunSteps, RegistrySteps, DocSteps

\* Every step, of an operator, of a dying process or of a reader, keeps them.
THEOREM NextTyped == Typed /\ [Next]_vars => Typed'
<1> SUFFICES ASSUME Typed, [Next]_vars PROVE Typed'
  OBVIOUS
<1>1. CASE UNCHANGED vars
  BY <1>1 DEF Typed, Shapes, Equipped, OneRun, ReaderFound, vars, registryVars, docVars
<1> QED
  BY <1>1, RegistryTyped, DocumentsTyped, ReadTyped DEF Next

\* What the operation works on is there, whatever has died.
THEOREM TypesHold == Spec => []Typed
BY InitTyped, NextTyped, PTL DEF Spec

\* The stores, the operation that holds the lock and the readers have the shapes
\* described, and what the operation works on is there, whatever has died.
THEOREM TypeCorrect == Spec => []TypeOK
<1>1. Typed => TypeOK
  BY NoneIsNoRun, RegistryConstants
     DEF Typed, Shapes, Equipped, Reader, TypeOK, OperationOwnsItsRun, RunSteps,
         RegistrySteps, DocSteps, OwnSteps
<1> QED
  BY <1>1, TypesHold, PTL

-----------------------------------------------------------------------------
(* What stays as long as no generation is appended. *)

\* Nobody's knowledge of the stores changes when neither store has grown.
LEMMA KnowledgeStays ==
    ASSUME gens' = gens, docGens' = docGens
    PROVE  /\ \A w \in Workspace : \A r :
                 /\ Based(w, r) => Based(w, r)'
                 /\ Follows(w, r) => Follows(w, r)'
                 /\ Fresh(w, r) => Fresh(w, r)'
                 /\ DocGrounded(w, r) => DocGrounded(w, r)'
           /\ \A w \in Workspace : \A s : Named(w, s) => Named(w, s)'
           /\ \A g : Fitting(g) => Fitting(g)'
           /\ \A r : RunGrounded(r) => RunGrounded(r)'
<1>1. ASSUME NEW w \in Workspace, NEW r
      PROVE  /\ Based(w, r) => Based(w, r)'
             /\ Follows(w, r) => Follows(w, r)'
             /\ Fresh(w, r) => Fresh(w, r)'
  BY DEF Based, Follows, Fresh
<1>2. ASSUME NEW w \in Workspace, NEW s PROVE Named(w, s) => Named(w, s)'
  BY DEF Named
<1>3. ASSUME NEW w \in Workspace, NEW r PROVE DocGrounded(w, r) => DocGrounded(w, r)'
  BY DEF DocGrounded, Based, Follows, Fresh, Named
<1>4. ASSUME NEW g PROVE Fitting(g) => Fitting(g)'
  BY DEF Fitting, Advances, Latest, Derived
<1>5. ASSUME NEW r PROVE RunGrounded(r) => RunGrounded(r)'
  BY <1>4 DEF RunGrounded
<1> QED
  BY <1>1, <1>2, <1>3, <1>4, <1>5

\* Neither does what is true of the stores themselves.
LEMMA StoresStay ==
    ASSUME IInv, gens' = gens, docGens' = docGens
    PROVE  /\ NamedIsPublished' /\ Ordered' /\ NothingPublishedTwice'
           /\ reader' = reader => LoadIsConsistent' /\ Unread'
<1>1. NamedIsPublished'
  BY DEF IInv, Grounded, NamedIsPublished
<1>2. Ordered'
  BY DEF IInv, Ordered, FirstOf, Kept, Grown
<1>3. NothingPublishedTwice'
  BY DEF IInv, NothingPublishedTwice
<1>4. reader' = reader => LoadIsConsistent' /\ Unread'
  BY DEF IInv, LoadIsConsistent, Unread
<1> QED
  BY <1>1, <1>2, <1>3, <1>4

\* No operation in progress knows nothing.
LEMMA IdleGrounded ==
    ASSUME op' = Idle
    PROVE  OpGrounded'
BY IdleTyped DEF OpGrounded, PublishGrounded, RunAt, DocAt, DocInRegistry, RegistrySteps

\* A step of the registry that appends nothing leaves the documents alone.
LEMMA RegistryQuiet ==
    ASSUME IInv, Typed', UNCHANGED <<gens, docVars, reader>>, OpGrounded',
           \A r \in runs' : r \in runs \/ RunGrounded(r)
    PROVE  IInv'
<1>1. gens' = gens /\ docGens' = docGens /\ docRuns' = docRuns /\ docLayout' = docLayout
  BY DEF docVars
<1>2. RunsGrounded'
  BY <1>1, KnowledgeStays DEF IInv, Grounded, RunsGrounded
<1>3. OneDocRun'
  BY <1>1 DEF IInv, Grounded, OneDocRun
<1>4. AheadIsOpen'
  BY <1>1 DEF IInv, Grounded, AheadIsOpen
<1> QED
  BY <1>1, <1>2, <1>3, <1>4, StoresStay DEF IInv, Grounded

\* What an operator asks for is derived from what was there, and names nothing
\* that is not there.
LEMMA EditsDerived ==
    ASSUME Typed, NamedIsPublished, NEW n \in 0 .. Len(gens), NEW d \in Edits(Basis(n)),
           NEW w \in Workspace
    PROVE  Derived(w, d[w]) /\ (d[w] # Absent => d[w].docs <= Len(docGens[w]))
<1> DEFINE e == Basis(n)[w]
<1>1. /\ gens \in Seq(Definitions) /\ docGens \in [Workspace -> Seq(DocGeneration)]
      /\ Basis(n) \in Definitions
  BY BasisTyped DEF Typed, Shapes
<1>2. Len(docGens[w]) \in Nat
  BY <1>1
<1>3. \/ e = Absent
      \/ n \in DOMAIN gens /\ e = gens[n][w] /\ e \in Definition /\ e # Absent
  BY <1>1 DEF Basis, Nothing, Definitions
<1>4. e # Absent => e.docs <= Len(docGens[w])
  BY <1>3 DEF NamedIsPublished
<1>5. \/ d[w] = e
      \/ d[w] = Absent
      \/ d[w] = [version |-> 1, active |-> TRUE, docs |-> 0]
      \/ /\ e # Absent
         /\ d[w] = [version |-> e.version + 1, active |-> ~ e.active, docs |-> e.docs]
  BY <1>1 DEF Edits, Definitions
<1> HIDE DEF e
<1>6. CASE d[w] = e
  BY <1>3, <1>4, <1>6 DEF Derived
<1>7. CASE d[w] = Absent
  BY <1>7 DEF Derived
<1>8. CASE d[w] = [version |-> 1, active |-> TRUE, docs |-> 0]
  BY <1>2, <1>8 DEF Derived
<1>9. CASE /\ e # Absent
           /\ d[w] = [version |-> e.version + 1, active |-> ~ e.active, docs |-> e.docs]
  <2>1. d[w].version = e.version + 1 /\ d[w].docs = e.docs
    BY <1>9
  <2> QED
    BY <1>3, <1>4, <1>9, <2>1 DEF Derived
<1> QED
  BY <1>5, <1>6, <1>7, <1>8, <1>9

\* The registry generation of a document run: the one it was derived from, with
\* the next version and the documents of the run.
LEMMA NamingOf ==
    ASSUME Typed, NEW w \in Workspace, NEW r \in DocRun, Based(w, r)
    PROVE  LET b == r.gen.base IN
           /\ b \in DOMAIN gens /\ gens[b][w] \in Definition /\ gens[b][w] # Absent
           /\ \A v \in Workspace : v # w => r.reg.defs[v] = gens[b][v]
           /\ r.reg.defs[w] # Absent /\ r.reg.defs[w] \in Definition
           /\ r.reg.defs[w].version = gens[b][w].version + 1
           /\ r.reg.defs[w].docs = r.seq
<1> DEFINE b == r.gen.base
<1>1. /\ b \in DOMAIN gens /\ gens[b][w] # Absent
      /\ r.reg.defs = [gens[b] EXCEPT ![w].version = @ + 1, ![w].docs = r.seq]
  BY DEF Based
<1>2. gens[b] \in Definitions /\ r.seq \in Nat
  BY <1>1 DEF Typed, Shapes, DocRun
<1>3. gens[b][w] \in Definition
  BY <1>1, <1>2 DEF Definitions
<1> HIDE DEF b
<1>4. /\ \A v \in Workspace : v # w => r.reg.defs[v] = gens[b][v]
      /\ r.reg.defs[w].version = gens[b][w].version + 1
      /\ r.reg.defs[w].docs = r.seq /\ r.reg.defs[w] \in Definition
  BY <1>1, <1>2, <1>3 DEF Definitions, Definition
<1> QED
  BY <1>1, <1>3, <1>4, AbsentIsNoDefinition DEF b

\* What is proposed and may be published fits: it advances the registry, and
\* names nothing that is not there.
LEMMA ProposalFits ==
    ASSUME IInv, op.step = "propose", MayPublish
    PROVE  Fitting(Proposal) /\ Proposal.defs = op.defs
<1>1. Advances(Proposal) /\ Proposal.defs = op.defs
  BY DEF MayPublish, Proposal
<1>2. op.kind \in {"publish", "documents"} /\ Typed /\ NamedIsPublished
  BY DEF IInv, Grounded, OpGrounded, PublishGrounded
<1>3. CASE op.kind = "publish"
  <2>1. PICK n \in 0 .. Len(gens) : op.defs \in Edits(Basis(n))
    BY <1>3 DEF IInv, Grounded, OpGrounded, PublishGrounded
  <2> QED
    BY <1>1, <1>2, <2>1, EditsDerived DEF Fitting
<1>4. CASE op.kind = "documents"
  <2> DEFINE w == op.ws
             r == op.doc
             b == r.gen.base
  <2>1. w \in Workspace /\ r \in DocRun /\ r \in docRuns[w]
    BY <1>2, <1>4 DEF Typed, Equipped, RegistrySteps
  <2>2. r.at = "published" /\ op.defs = r.reg.defs /\ op.seq = r.reg.seq
    BY <1>4 DEF IInv, Grounded, OpGrounded, DocInRegistry, RegistrySteps
  <2>3. DocGrounded(w, r)
    BY <2>1 DEF IInv, Grounded, RunsGrounded
  <2>4. Based(w, r) /\ Follows(w, r) /\ r.seq \in DOMAIN docGens[w]
    BY <2>2, <2>3 DEF DocGrounded
  <2>5. r.reg.seq \in Nat \ {0} /\ r.seq \in Nat \ {0} /\ b \in Nat
    BY <2>1 DEF DocRun, Generation, DocGeneration
  <2>6. b = Len(gens)
    <3>1. Proposal.seq = r.reg.seq /\ r.reg.seq = b + 1
      BY <2>2, <2>4, <2>5 DEF Proposal, Based
    <3>2. Proposal.seq = Len(gens) + 1 /\ Len(gens) \in Nat
      BY <1>1, <1>2 DEF Advances, Typed, Shapes
    <3> QED
      BY <2>5, <3>1, <3>2
  <2>7. /\ b \in DOMAIN gens /\ gens[b][w] \in Definition /\ gens[b][w] # Absent
        /\ \A v \in Workspace : v # w => r.reg.defs[v] = gens[b][v]
        /\ r.reg.defs[w] # Absent
        /\ r.reg.defs[w].version = gens[b][w].version + 1
        /\ r.reg.defs[w].docs = r.seq
    BY <1>2, <2>1, <2>4, NamingOf
  <2>8. gens[b][w].docs + 1 = r.seq /\ gens[b][w].docs \in Nat
    BY <2>4, <2>7 DEF Follows, Definition
  <2>9. r.seq <= Len(docGens[w])
    BY <1>2, <2>1, <2>4 DEF Typed, Shapes
  <2> HIDE DEF w, r, b
  <2>10. ASSUME NEW v \in Workspace
         PROVE  /\ Derived(v, r.reg.defs[v])
                /\ r.reg.defs[v] # Absent => r.reg.defs[v].docs <= Len(docGens[v])
    <3>1. CASE v = w
      BY <2>5, <2>6, <2>7, <2>8, <2>9, <3>1 DEF Derived
    <3>2. CASE v # w
      BY <1>2, <2>7, <3>2 DEF Derived, NamedIsPublished
    <3> QED
      BY <3>1, <3>2
  <2> QED
    BY <1>1, <2>2, <2>10 DEF Fitting, r
<1> QED
  BY <1>2, <1>3, <1>4

\* What was asked for of a generation can still be asked for, also when another
\* one is appended.
LEMMA EditsStay ==
    ASSUME Typed, gens' = gens \/ \E g \in Definitions : gens' = Append(gens, g),
           NEW n \in 0 .. Len(gens), NEW d, d \in Edits(Basis(n))
    PROVE  d \in Edits(Basis(n))' /\ n \in 0 .. Len(gens')
<1>1. gens \in Seq(Definitions)
  BY DEF Typed, Shapes
<1>2. Basis(n)' = Basis(n) /\ n \in 0 .. Len(gens')
  BY <1>1 DEF Basis
<1>3. Edits(Basis(n))' = Edits(Basis(n))
  BY <1>2 DEF Edits
<1> QED
  BY <1>2, <1>3

\* So what a publication in progress asks for stays grounded.
LEMMA PublishStays ==
    ASSUME Typed, PublishGrounded,
           gens' = gens \/ \E g \in Definitions : gens' = Append(gens, g),
           op'.kind = op.kind, op'.defs = op.defs,
           op'.step = "propose" => op'.kind \in {"publish", "documents"}
    PROVE  PublishGrounded'
<1>1. CASE op.kind = "publish"
  <2>1. PICK n \in 0 .. Len(gens) : op.defs \in Edits(Basis(n))
    BY <1>1 DEF PublishGrounded
  <2>2. op.defs \in Edits(Basis(n))' /\ n \in 0 .. Len(gens')
    BY <2>1, EditsStay
  <2> QED
    BY <2>2 DEF PublishGrounded
<1>2. CASE op.kind # "publish"
  BY <1>2 DEF PublishGrounded
<1> QED
  BY <1>1, <1>2

\* Nobody works meanwhile.
LEMMA OperationStays ==
    ASSUME IInv, op' = op, gens' = gens, docGens' = docGens, docRuns' = docRuns,
           docLayout' = docLayout
    PROVE  OpGrounded'
<1>1. Typed /\ PublishGrounded /\ RunAt /\ DocAt /\ DocInRegistry
  BY DEF IInv, Grounded, OpGrounded
<1>2. PublishGrounded'
  BY <1>1, PublishStays DEF PublishGrounded
<1>3. RunAt'
  BY <1>1 DEF RunAt
<1>4. DocAt'
  BY <1>1 DEF DocAt, Based, Follows, Fresh, Named
<1>5. DocInRegistry'
  BY <1>1 DEF DocInRegistry, Named
<1> QED
  BY <1>2, <1>3, <1>4, <1>5 DEF OpGrounded

-----------------------------------------------------------------------------
(* Each operation of the registry keeps the invariant. *)

\* The beginning of a publication or of a recovery.
LEMMA BeginKeeps ==
    ASSUME IInv, Typed', NEW kind \in {"publish", "recover"}, NEW seq \in Nat,
           NEW n \in 0 .. Len(gens), NEW defs \in Definitions,
           kind = "publish" => defs \in Edits(Basis(n)),
           Begin(kind, seq, defs), UNCHANGED <<docVars, reader>>
    PROVE  IInv'
<1> DEFINE o == [Idle EXCEPT !.kind = kind, !.seq = seq, !.defs = defs]
<1>1. o \in Operation /\ o.kind = kind /\ o.defs = defs
  BY DEF Idle, Operation, Kinds, Nothing, Definitions
<1>2. op' = IF layout = "ready" THEN TakeUp(o, runs) ELSE [o EXCEPT !.step = "layout"]
  BY DEF Begin
<1> HIDE DEF o
<1>3. /\ runs \in SUBSET Run /\ \A r \in runs : r.at \notin Torn
      /\ UNCHANGED <<layout, gens, runs>> /\ Typed
  BY DEF IInv, Typed, Shapes, Begin, Recoverable
<1>4. \/ op' = Idle
      \/ /\ op'.step \in RunSteps \cup {"propose", "layout"} /\ op'.kind = kind
         /\ op'.defs = defs
         /\ op'.step \in RunSteps \ {"completion", "unlink"} => op'.run.at \in Unpublished
         /\ op'.step = "propose" => kind = "publish"
  <2>1. CASE layout = "ready"
    BY <1>1, <1>2, <1>3, <2>1, TakenUp
  <2>2. CASE layout # "ready"
    BY <1>1, <1>2, <2>2 DEF Operation, RunSteps
  <2> QED
    BY <2>1, <2>2
<1>5. OpGrounded'
  <2>1. CASE op' = Idle
    BY <2>1, IdleGrounded
  <2>2. CASE op' # Idle
    <3>1. PublishGrounded'
      BY <1>3, <1>4, <2>2, EditsStay DEF PublishGrounded
    <3>2. RunAt' /\ DocAt' /\ DocInRegistry'
      BY <1>4, <2>2 DEF RunAt, DocAt, DocInRegistry, RunSteps
    <3> QED
      BY <3>1, <3>2 DEF OpGrounded
  <2> QED
    BY <2>1, <2>2
<1> QED
  BY <1>3, <1>5, RegistryQuiet

\* The layout is made while nothing is published.
LEMMA CreateLayoutKeeps ==
    ASSUME IInv, Typed', CreateLayout, UNCHANGED <<docVars, reader>>
    PROVE  IInv'
<1>1. op \in Operation /\ runs = {} /\ op.step = "layout" /\ gens' = gens /\ runs' = runs
      /\ Typed
  BY DEF IInv, Typed, Shapes, Equipped, OneRun, CreateLayout
<1>2. \/ op' = op \/ op' = Idle
      \/ op' = [op EXCEPT !.step = "propose", !.run = None] /\ op.kind = "publish"
  BY <1>1 DEF CreateLayout, TakeUp
<1>3. PublishGrounded
  BY DEF IInv, Grounded, OpGrounded
<1>4. OpGrounded'
  <2>1. CASE op' = Idle
    BY <2>1, IdleGrounded
  <2>2. CASE op' = op
    <3>1. PublishGrounded'
      BY <1>1, <1>3, <2>2, PublishStays
    <3>2. RunAt' /\ DocAt' /\ DocInRegistry'
      BY <1>1, <2>2
         DEF IInv, Grounded, OpGrounded, RunAt, DocAt, DocInRegistry, RegistrySteps
    <3> QED
      BY <3>1, <3>2 DEF OpGrounded
  <2>3. CASE op' = [op EXCEPT !.step = "propose", !.run = None] /\ op.kind = "publish"
    <3>1. op'.step = "propose" /\ op'.kind = "publish" /\ op'.defs = op.defs
      BY <1>1, <2>3 DEF Operation
    <3>2. PublishGrounded'
      BY <1>1, <1>3, <2>3, <3>1, PublishStays
    <3> QED
      BY <3>1, <3>2 DEF OpGrounded, RunAt, DocAt, DocInRegistry
  <2> QED
    BY <1>2, <2>1, <2>2, <2>3
<1> QED
  BY <1>1, <1>4, RegistryQuiet

\* The intent of a proposal fits.
LEMMA WriteIntentKeeps ==
    ASSUME IInv, Typed', WriteIntent, UNCHANGED <<docVars, reader>>
    PROVE  IInv'
<1> DEFINE r == [gen |-> Proposal, at |-> "intent"]
<1>1. op.step = "propose" /\ MayPublish /\ op \in Operation /\ gens' = gens
      /\ Typed
  BY DEF WriteIntent, IInv, Typed, Shapes
<1>2. Fitting(Proposal) /\ Proposal.defs = op.defs
  BY <1>1, ProposalFits
<1>3. runs' = runs \cup {r} /\ op' = [op EXCEPT !.step = "stage", !.run = r, !.own = TRUE]
  BY DEF WriteIntent
<1>4. RunGrounded(r) /\ r.at \in Unpublished /\ r.gen.defs = op.defs
  BY <1>2 DEF RunGrounded, Unpublished
<1> HIDE DEF r
<1>5. /\ op'.step = "stage" /\ op'.run = r /\ op'.kind = op.kind /\ op'.doc = op.doc
      /\ op'.defs = op.defs
  BY <1>1, <1>3 DEF Operation
<1>6. PublishGrounded /\ DocInRegistry
  BY DEF IInv, Grounded, OpGrounded
<1>7. OpGrounded'
  <2>1. PublishGrounded'
    BY <1>1, <1>5, <1>6, PublishStays
  <2>2. RunAt' /\ DocAt'
    BY <1>4, <1>5 DEF RunAt, DocAt
  <2>3. DocInRegistry'
    BY <1>1, <1>4, <1>5, <1>6 DEF DocInRegistry, RegistrySteps
  <2> QED
    BY <2>1, <2>2, <2>3 DEF OpGrounded
<1> QED
  BY <1>3, <1>4, <1>7, RegistryQuiet DEF WriteIntent

\* What a documents operation finds published already names its documents.
LEMMA ReturnUnpublishedKeeps ==
    ASSUME IInv, Typed', ReturnUnpublished, UNCHANGED <<docVars, reader>>
    PROVE  IInv'
<1>1. op.step = "propose" /\ op \in Operation /\ Typed /\ gens' = gens /\ runs' = runs
  BY DEF ReturnUnpublished, IInv, Typed, Shapes
<1>2. OpGrounded'
  <2>1. CASE op' = Idle
    BY <2>1, IdleGrounded
  <2>2. CASE op' # Idle
    <3> DEFINE w == op.ws
               r == op.doc
    <3>1. op' = [op EXCEPT !.step = "complete"] /\ op.kind = "documents" /\ AlreadyPublished
      BY <2>2 DEF ReturnUnpublished
    <3>2. w \in Workspace /\ r \in DocRun /\ r \in docRuns[w]
      BY <1>1, <3>1 DEF Typed, Equipped, RegistrySteps
    <3>3. r.at = "published" /\ op.defs = r.reg.defs
      BY <1>1, <3>1 DEF IInv, Grounded, OpGrounded, DocInRegistry, RegistrySteps
    <3>4. Based(w, r)
      BY <3>2 DEF IInv, Grounded, RunsGrounded, DocGrounded
    <3>5. r.reg.defs[w] # Absent /\ r.reg.defs[w].docs = r.seq
      BY <1>1, <3>2, <3>4, NamingOf
    <3>6. gens # <<>> /\ gens[Len(gens)] = r.reg.defs /\ Len(gens) \in DOMAIN gens
      BY <1>1, <3>1, <3>3 DEF AlreadyPublished, Latest, Typed, Shapes
    <3>7. Named(w, r.seq)
      BY <3>5, <3>6 DEF Named
    <3>8. /\ op'.step = "complete" /\ op'.kind = "documents" /\ op'.ws = w /\ op'.doc = r
      BY <1>1, <3>1 DEF Operation
    <3>9. DocAt'
      <4>1. (op.ws)' = w /\ (op.doc)' = r
        BY <3>8
      <4> HIDE DEF w, r
      <4> QED
        BY <1>1, <3>3, <3>7, <3>8, <4>1 DEF DocAt, Named
    <3> QED
      BY <3>8, <3>9
         DEF OpGrounded, PublishGrounded, RunAt, DocInRegistry, RegistrySteps
  <2> QED
    BY <2>1, <2>2
<1> QED
  BY <1>1, <1>2, RegistryQuiet DEF ReturnUnpublished

\* The writes of a run, its rename apart.
LEMMA MoveOnKeeps ==
    ASSUME IInv, UNCHANGED <<docVars, reader>>,
           MakeStage \/ StageManifest \/ StageDefinitions \/ WriteCompletion
    PROVE  IInv'
<1>1. /\ op.step \in RunSteps /\ Typed /\ UNCHANGED <<layout, gens, crashes>>
      /\ PublishGrounded /\ RunAt /\ DocInRegistry
  BY DEF IInv, Grounded, OpGrounded, MakeStage, StageManifest, StageDefinitions,
         WriteCompletion, RunSteps
<1>2. PICK at \in RunStates, step \in RunSteps :
         /\ MoveOn(at, step)
         /\ \/ /\ op.step \in {"stage", "manifest", "definitions"}
               /\ at \in Unpublished /\ step \in {"manifest", "definitions", "rename"}
            \/ op.step = "completion" /\ at = "completed" /\ step = "unlink"
  BY DEF MakeStage, StageManifest, StageDefinitions, WriteCompletion, RunStates, RunSteps,
         Unpublished
<1>3. /\ Typed'
      /\ op.run \in Run /\ runs = {op.run} /\ op'.run = [op.run EXCEPT !.at = at]
      /\ op' = [op EXCEPT !.step = step, !.run = op'.run] /\ runs' = {op'.run}
  BY <1>1, <1>2, MoveOnTyped
<1>4. op \in Operation
  BY <1>1 DEF Typed, Shapes
<1>5. /\ op'.step = step /\ op'.kind = op.kind /\ op'.doc = op.doc /\ op'.defs = op.defs
      /\ op'.ws = op.ws
  BY <1>3, <1>4 DEF Operation
<1>6. op'.run.at = at /\ op'.run.gen = op.run.gen
  BY <1>3 DEF Run
<1>7. RunGrounded(op'.run)
  BY <1>1, <1>2, <1>3, <1>6
     DEF IInv, Grounded, RunsGrounded, RunGrounded, RunAt, Unpublished
<1>8. OpGrounded'
  <2>1. PublishGrounded'
    BY <1>1, <1>2, <1>5, PublishStays
  <2>2. RunAt' /\ DocAt'
    BY <1>2, <1>5, <1>6 DEF RunAt, DocAt
  <2>3. DocInRegistry'
    BY <1>1, <1>2, <1>5, <1>6 DEF DocInRegistry, RegistrySteps, Named
  <2> QED
    BY <2>1, <2>2, <2>3 DEF OpGrounded
<1> QED
  BY <1>1, <1>3, <1>7, <1>8, RegistryQuiet

\* The registry run is over, and its documents, if it has any, are named.
LEMMA UnlinkIntentKeeps ==
    ASSUME IInv, UnlinkIntent, UNCHANGED <<docVars, reader>>
    PROVE  IInv'
<1>1. /\ op.step = "unlink" /\ Typed /\ gens' = gens /\ op \in Operation
      /\ PublishGrounded /\ DocInRegistry
  BY DEF IInv, Grounded, OpGrounded, UnlinkIntent, Typed, Shapes
<1>2. /\ Typed' /\ runs' = {}
      /\ \/ op' = Idle
         \/ op' = [op EXCEPT !.step = "propose", !.run = None] /\ op.kind = "publish"
         \/ /\ op' = [op EXCEPT !.step = "complete", !.run = None, !.own = FALSE]
            /\ op.kind = "documents"
  BY <1>1, UnlinkIntentTyped
<1>3. OpGrounded'
  <2>1. CASE op' = Idle
    BY <2>1, IdleGrounded
  <2>2. CASE op' = [op EXCEPT !.step = "propose", !.run = None] /\ op.kind = "publish"
    <3>1. op'.step = "propose" /\ op'.kind = "publish" /\ op'.defs = op.defs
      BY <1>1, <2>2 DEF Operation
    <3>2. PublishGrounded'
      BY <1>1, <2>2, <3>1, PublishStays
    <3> QED
      BY <3>1, <3>2 DEF OpGrounded, RunAt, DocAt, DocInRegistry
  <2>3. CASE /\ op' = [op EXCEPT !.step = "complete", !.run = None, !.own = FALSE]
             /\ op.kind = "documents"
    <3>1. /\ op'.step = "complete" /\ op'.kind = "documents" /\ op'.ws = op.ws
          /\ op'.doc = op.doc
      BY <1>1, <2>3 DEF Operation
    <3>2. op.doc.at = "published" /\ Named(op.ws, op.doc.seq)
      BY <1>1, <2>3 DEF DocInRegistry, RegistrySteps
    <3>3. DocAt'
      BY <1>1, <3>1, <3>2 DEF DocAt, Named
    <3> QED
      BY <3>1, <3>3 DEF OpGrounded, PublishGrounded, RunAt, DocInRegistry, RegistrySteps
  <2> QED
    BY <1>2, <2>1, <2>2, <2>3
<1> QED
  BY <1>1, <1>2, <1>3, RegistryQuiet

\* A process that dies leaves what is on disk as grounded as it was.
LEMMA CrashKeeps ==
    ASSUME IInv, Typed', Crash, UNCHANGED <<docVars, reader>>
    PROVE  IInv'
BY IdleGrounded, RegistryQuiet DEF Crash

\* A torn intent was fit to be published, and so was a torn stage.
LEMMA TearRegistryFileKeeps ==
    ASSUME IInv, TearRegistryFile, UNCHANGED <<docVars, reader>>
    PROVE  IInv'
<1>1. op' = Idle /\ gens' = gens /\ Typed /\ RunAt
  BY DEF TearRegistryFile, IInv, Grounded, OpGrounded
<1>2. /\ Typed'
      /\ \/ /\ op.step = "propose" /\ MayPublish /\ runs = {}
            /\ runs' = {[gen |-> Proposal, at |-> "intent_torn"]}
         \/ /\ op.step \in {"manifest", "definitions", "completion"}
            /\ runs = {op.run}
            /\ runs' = {[op.run EXCEPT !.at = IF op.step = "completion"
                                              THEN "completion_torn" ELSE "stage_torn"]}
  BY <1>1, TearRegistryFileTyped
<1>3. \A r \in runs' : RunGrounded(r)
  <2>1. CASE op.step = "propose"
    BY <1>2, <2>1, ProposalFits DEF RunGrounded
  <2>2. CASE op.step # "propose"
    <3> DEFINE r == [op.run EXCEPT !.at = IF op.step = "completion"
                                          THEN "completion_torn" ELSE "stage_torn"]
    <3>1. runs = {op.run} /\ runs' = {r} /\ op.step \in {"manifest", "definitions", "completion"}
      BY <1>2, <2>2
    <3>2. op.run \in Run /\ RunGrounded(op.run)
      BY <1>1, <3>1 DEF Typed, Shapes, IInv, Grounded, RunsGrounded
    <3>3. /\ r.gen = op.run.gen
          /\ r.at = IF op.step = "completion" THEN "completion_torn" ELSE "stage_torn"
      BY <3>2 DEF Run
    <3> HIDE DEF r
    <3>4. RunGrounded(r)
      BY <1>1, <3>1, <3>2, <3>3 DEF RunGrounded, RunAt, Unpublished
    <3> QED
      BY <3>1, <3>4
  <2> QED
    BY <2>1, <2>2
<1> QED
  BY <1>1, <1>2, <1>3, IdleGrounded, RegistryQuiet

-----------------------------------------------------------------------------
(* A registry generation is appended. *)

\* Versions and documents grow transitively.
LEMMA GrownIsOrder ==
    ASSUME NEW d \in Definition
    PROVE  /\ Grown(d, d)
           /\ \A c, e \in Definition : Grown(c, d) /\ Grown(d, e) => Grown(c, e)
BY DEF Grown, Definition

\* A definition that fits grows out of the last one, when its workspace has been
\* registered without a break: what an operator read long ago either has an old
\* version or is what the last one is.
LEMMA FittingGrows ==
    ASSUME Typed, Ordered, NEW g \in Generation, Fitting(g), NEW w \in Workspace,
           NEW i \in DOMAIN gens, FirstOf(w, i), Kept(w, i, Len(gens)), g.defs[w] # Absent
    PROVE  Grown(gens[Len(gens)][w], g.defs[w])
<1> DEFINE n == Len(gens)
           last == gens[n][w]
           d == g.defs[w]
<1>1. /\ gens \in Seq(Definitions) /\ n \in Nat /\ DOMAIN gens = 1 .. n /\ n \in DOMAIN gens
      /\ i <= n
  BY DEF Typed, Shapes
<1>2. \A m \in DOMAIN gens : gens[m][w] # Absent => gens[m][w] \in Definition
  BY <1>1 DEF Definitions
<1>3. last # Absent /\ last \in Definition
  BY <1>1, <1>2 DEF Kept
<1>4. d # Absent /\ d \in Definition
  BY DEF Generation, Definitions
<1>5. d.version > last.version \/ d = last
  <2>1. Latest = gens[n]
    BY <1>1 DEF Latest
  <2> QED
    BY <1>3, <2>1 DEF Fitting, Advances
<1>6. CASE d = last
  BY <1>3, <1>6, GrownIsOrder
<1>7. CASE d.version > last.version
  <2>1. \/ d.version = 1 /\ d.docs = 0
        \/ \E m \in DOMAIN gens :
              /\ gens[m][w] # Absent
              /\ \/ d = gens[m][w]
                 \/ d.version = gens[m][w].version + 1 /\ d.docs = gens[m][w].docs
                 \/ d.version = gens[m][w].version + 1 /\ d.docs > gens[m][w].docs /\ m = n
    BY <1>4 DEF Fitting, Derived
  <2>2. CASE d.version = 1
    BY <1>3, <1>7, <2>2 DEF Definition
  <2>3. ASSUME NEW m \in DOMAIN gens, gens[m][w] # Absent,
               \/ d = gens[m][w]
               \/ d.version = gens[m][w].version + 1 /\ d.docs = gens[m][w].docs
               \/ d.version = gens[m][w].version + 1 /\ d.docs > gens[m][w].docs /\ m = n
        PROVE  last.docs <= d.docs
    <3>1. i <= m /\ m <= n
      BY <1>1, <2>3 DEF FirstOf
    <3>2. Grown(gens[m][w], last)
      BY <1>1, <3>1 DEF Ordered
    <3>3. gens[m][w] \in Definition
      BY <1>2, <2>3
    <3> HIDE DEF last, d
    <3>4. CASE d = gens[m][w]
      BY <1>3, <1>7, <3>2, <3>3, <3>4 DEF Grown, Definition
    <3>5. CASE d.version = gens[m][w].version + 1 /\ d.docs = gens[m][w].docs
      <4>1. gens[m][w].version = last.version
        BY <1>3, <1>7, <3>2, <3>3, <3>5 DEF Grown, Definition
      <4>2. gens[m][w] = last
        BY <3>2, <4>1 DEF Grown
      <4> QED
        BY <1>3, <3>5, <4>2 DEF Definition
    <3>6. CASE d.docs > gens[m][w].docs /\ m = n
      BY <1>3, <1>4, <3>6 DEF last, Definition
    <3> QED
      BY <2>3, <3>4, <3>5, <3>6 DEF d
  <2>4. last.docs <= d.docs
    BY <1>3, <1>7, <2>1, <2>2, <2>3 DEF Definition
  <2> HIDE DEF last, d
  <2>5. Grown(last, d)
    BY <1>3, <1>4, <1>7, <2>4 DEF Grown, Definition
  <2> QED
    BY <2>5 DEF last, d
<1> QED
  BY <1>5, <1>6, <1>7

\* So the order of the definitions is kept by every generation that fits.
LEMMA OrderStays ==
    ASSUME Typed, Ordered, NEW g \in Generation, Fitting(g), gens' = Append(gens, g.defs)
    PROVE  Ordered'
<1> DEFINE n == Len(gens)
<1>1. /\ gens \in Seq(Definitions) /\ n \in Nat /\ g.defs \in Definitions
      /\ DOMAIN gens = 1 .. n
  BY DEF Typed, Shapes, Generation
<1>2. /\ DOMAIN gens' = 1 .. n + 1 /\ gens'[n + 1] = g.defs
      /\ \A m \in 1 .. n : gens'[m] = gens[m]
  BY <1>1
<1> SUFFICES ASSUME NEW w \in Workspace, NEW i \in 1 .. n + 1, NEW k \in 1 .. n + 1,
                    NEW l \in 1 .. n + 1, FirstOf(w, i)', Kept(w, i, l)', i <= k, k <= l
             PROVE  Grown(gens'[k][w], gens'[l][w])
  BY <1>2 DEF Ordered, Grown
<1>3. \A m \in 1 .. n + 1 : gens'[m][w] # Absent => gens'[m][w] \in Definition
  <2>1. \A m \in 1 .. n + 1 : gens'[m] \in Definitions
    BY <1>1, <1>2
  <2> QED
    BY <2>1 DEF Definitions
<1>4. FirstOf(w, i)
  BY <1>1, <1>2 DEF FirstOf
<1>5. gens'[k][w] # Absent /\ gens'[l][w] # Absent
  BY <1>1 DEF Kept
<1>6. CASE l <= n
  <2>1. i \in DOMAIN gens /\ k \in DOMAIN gens /\ l \in DOMAIN gens /\ Kept(w, i, l)
    BY <1>1, <1>2, <1>6 DEF Kept
  <2> QED
    BY <1>1, <1>2, <1>4, <1>6, <2>1 DEF Ordered
<1>7. CASE l = n + 1 /\ k = n + 1
  BY <1>3, <1>5, <1>7, GrownIsOrder
<1>8. CASE l = n + 1 /\ k <= n
  <2>1. i \in DOMAIN gens /\ k \in DOMAIN gens /\ n \in DOMAIN gens /\ i <= n
    BY <1>1, <1>8
  <2>2. Kept(w, i, n)
    BY <1>1, <1>2, <1>8, <2>1 DEF Kept
  <2>3. Grown(gens[k][w], gens[n][w])
    BY <1>1, <1>4, <1>8, <2>1, <2>2 DEF Ordered
  <2>4. Grown(gens[n][w], g.defs[w])
    BY <1>2, <1>4, <1>5, <1>8, <2>1, <2>2, FittingGrows
  <2>5. gens[n][w] # Absent /\ gens[n][w] \in Definition /\ gens[k][w] = gens'[k][w]
    BY <1>1, <1>2, <1>3, <1>8, <2>1, <2>2 DEF Kept
  <2> QED
    BY <1>2, <1>3, <1>5, <1>8, <2>3, <2>4, <2>5, GrownIsOrder
<1> QED
  BY <1>1, <1>6, <1>7, <1>8

\* What the document runs know stays true when the registry grows.
LEMMA KnowledgeGrows ==
    ASSUME Typed, NEW g \in Definitions, gens' = Append(gens, g), docGens' = docGens,
           NEW w \in Workspace
    PROVE  /\ \A s : Named(w, s) => Named(w, s)'
           /\ \A r : DocGrounded(w, r) => DocGrounded(w, r)'
<1>1. /\ gens \in Seq(Definitions) /\ DOMAIN gens \subseteq DOMAIN gens'
      /\ \A n \in DOMAIN gens : gens'[n] = gens[n]
  BY DEF Typed, Shapes
<1>2. ASSUME NEW s, Named(w, s) PROVE Named(w, s)'
  BY <1>1, <1>2 DEF Named
<1>3. ASSUME NEW r, DocGrounded(w, r) PROVE DocGrounded(w, r)'
  <2>1. Based(w, r)' /\ Follows(w, r)'
    BY <1>1, <1>3 DEF DocGrounded, Based, Follows
  <2>2. Fresh(w, r)' <=> Fresh(w, r)
    BY DEF Fresh
  <2> QED
    BY <1>2, <1>3, <2>1, <2>2 DEF DocGrounded
<1> QED
  BY <1>2, <1>3

\* The stage of the registry becomes a generation.
LEMMA RenameStageKeeps ==
    ASSUME IInv, RenameStage, UNCHANGED <<docVars, reader>>
    PROVE  IInv'
<1> DEFINE g == op.run.gen
<1>1. /\ op.step = "rename" /\ op.step \in RunSteps /\ Typed /\ op \in Operation
      /\ UNCHANGED <<layout, crashes>> /\ gens' = Append(gens, g.defs)
      /\ docGens' = docGens /\ docRuns' = docRuns /\ docLayout' = docLayout
      /\ MoveOn("published", "completion")
      /\ PublishGrounded /\ RunAt /\ DocInRegistry /\ NamedIsPublished /\ AheadIsOpen
  BY DEF IInv, Grounded, OpGrounded, RenameStage, RunSteps, Typed, Shapes, docVars
<1>2. /\ Typed' /\ op.run \in Run /\ runs = {op.run}
      /\ op'.run = [op.run EXCEPT !.at = "published"] /\ runs' = {op'.run}
      /\ op' = [op EXCEPT !.step = "completion", !.run = op'.run]
  BY <1>1, MoveOnTyped DEF RunStates, RunSteps
<1>3. Fitting(g) /\ g \in Generation /\ g.defs \in Definitions
  BY <1>1, <1>2 DEF IInv, Grounded, RunsGrounded, RunGrounded, RunAt, Run, Generation
<1>4. /\ op'.step = "completion" /\ op'.kind = op.kind /\ op'.doc = op.doc /\ op'.ws = op.ws
      /\ op'.defs = op.defs /\ op'.run.at = "published"
  BY <1>1, <1>2 DEF Operation, Run
<1> HIDE DEF g
<1>5. /\ gens \in Seq(Definitions) /\ DOMAIN gens' = DOMAIN gens \cup {Len(gens) + 1}
      /\ \A n \in DOMAIN gens : gens'[n] = gens[n]
      /\ gens'[Len(gens) + 1] = g.defs
  BY <1>1, <1>3 DEF Typed, Shapes
<1>6. RunsGrounded'
  <2>1. \A r \in runs' : RunGrounded(r)'
    BY <1>2, <1>4 DEF RunGrounded, Unpublished
  <2>2. \A w \in Workspace : \A r \in docRuns[w] : DocGrounded(w, r)'
    BY <1>1, <1>3, KnowledgeGrows DEF IInv, Grounded, RunsGrounded
  <2> QED
    BY <1>1, <2>1, <2>2 DEF RunsGrounded
<1>7. OneDocRun'
  BY <1>1 DEF IInv, Grounded, OneDocRun
<1>8. OpGrounded'
  <2>1. PublishGrounded'
    BY <1>1, <1>3, <1>4, PublishStays
  <2>2. RunAt' /\ DocAt'
    BY <1>4 DEF RunAt, DocAt
  <2>3. ASSUME op.kind = "documents" PROVE Named(op.ws, op.doc.seq)'
    <3> DEFINE w == op.ws
               r == op.doc
    <3>1. w \in Workspace /\ r \in DocRun /\ r \in docRuns[w]
      BY <1>1, <2>3 DEF Typed, Equipped, RegistrySteps
    <3>2. Based(w, r)
      BY <3>1 DEF IInv, Grounded, RunsGrounded, DocGrounded
    <3>3. r.reg.defs[w] # Absent /\ r.reg.defs[w].docs = r.seq
      BY <1>1, <3>1, <3>2, NamingOf
    <3>4. g.defs = r.reg.defs
      BY <1>1, <2>3 DEF DocInRegistry, g
    <3>5. gens'[Len(gens) + 1][w] # Absent /\ gens'[Len(gens) + 1][w].docs = r.seq
      BY <1>5, <3>3, <3>4
    <3>6. (op.ws)' = w /\ (op.doc)' = r
      BY <1>4
    <3> HIDE DEF w, r
    <3> QED
      BY <1>5, <3>5, <3>6 DEF Named
  <2>4. DocInRegistry'
    BY <1>1, <1>4, <2>3 DEF DocInRegistry, RegistrySteps
  <2> QED
    BY <2>1, <2>2, <2>4 DEF OpGrounded
<1>9. NamedIsPublished'
  BY <1>1, <1>3, <1>5 DEF NamedIsPublished, Fitting
<1>10. AheadIsOpen'
  BY <1>1, <1>5 DEF AheadIsOpen
<1>11. Ordered'
  BY <1>1, <1>3, OrderStays DEF IInv
<1>12. NothingPublishedTwice' /\ Unread'
  BY <1>1 DEF IInv, NothingPublishedTwice, Unread
<1>13. LoadIsConsistent'
  BY <1>1, <1>5 DEF IInv, LoadIsConsistent, Typed, ReaderFound
<1> QED
  BY <1>2, <1>6, <1>7, <1>8, <1>9, <1>10, <1>11, <1>12, <1>13 DEF IInv, Grounded

-----------------------------------------------------------------------------
(* Each operation of the documents keeps the invariant. *)

\* Within its own steps, a documents operation answers only to DocAt.
LEMMA DocStepGrounded ==
    ASSUME op'.kind = "documents", op'.step \in DocSteps, DocAt'
    PROVE  OpGrounded'
BY DEF OpGrounded, PublishGrounded, RunAt, DocInRegistry, DocSteps, RegistrySteps

\* One run a of a workspace, if it is there, gives way to b, all others being
\* completed.
LEMMA DocsMove ==
    ASSUME IInv, Typed', OpGrounded', UNCHANGED <<gens, runs, docLayout, docGens, reader>>,
           NEW w \in Workspace, docLayout[w] = "ready", NEW a, NEW b,
           docRuns' = [docRuns EXCEPT ![w] = (@ \ {a}) \cup {b}],
           \A q \in docRuns[w] : q # a => q.at = "completed",
           DocGrounded(w, b),
           \/ a \in docRuns[w] => a.at = "completed"
           \/ Named(w, a.seq)
           \/ b.seq = a.seq /\ b.at # "completed"
    PROVE  IInv'
<1>1. /\ docRuns \in [Workspace -> SUBSET DocRun]
      /\ docRuns'[w] = (docRuns[w] \ {a}) \cup {b}
      /\ \A v \in Workspace : v # w => docRuns'[v] = docRuns[v]
  BY DEF IInv, Typed, Shapes
<1>2. RunsGrounded'
  <2>1. \A r \in runs' : RunGrounded(r)'
    BY KnowledgeStays DEF IInv, Grounded, RunsGrounded
  <2>2. \A v \in Workspace : \A r \in docRuns'[v] : DocGrounded(v, r)
    BY <1>1 DEF IInv, Grounded, RunsGrounded
  <2>3. \A v \in Workspace : \A r \in docRuns'[v] : DocGrounded(v, r)'
    BY <2>2, KnowledgeStays
  <2> QED
    BY <2>1, <2>3 DEF RunsGrounded
<1>3. OneDocRun'
  BY <1>1 DEF IInv, Grounded, OneDocRun
<1>4. AheadIsOpen'
  <2> SUFFICES ASSUME NEW v \in Workspace, NEW i \in DOMAIN docGens[v], ~ Named(v, i)
               PROVE  i = Len(docGens[v]) /\ \E r \in docRuns'[v] : r.seq = i /\ r.at # "completed"
    BY DEF AheadIsOpen, Named
  <2>1. i = Len(docGens[v])
    BY DEF IInv, Grounded, AheadIsOpen, Named
  <2>2. PICK r \in docRuns[v] : r.seq = i /\ r.at # "completed"
    BY DEF IInv, Grounded, AheadIsOpen, Named
  <2>3. CASE v # w
    BY <1>1, <2>1, <2>2, <2>3
  <2>4. CASE v = w
    <3>1. r = a /\ b.seq = a.seq /\ b.at # "completed"
      BY <2>2, <2>4
    <3> QED
      BY <1>1, <2>1, <2>2, <2>4, <3>1
  <2> QED
    BY <2>3, <2>4
<1> QED
  BY <1>2, <1>3, <1>4, StoresStay DEF IInv, Grounded

\* What the operation in progress knows when its run is on disk: the run is well
\* grounded, and every other run of the workspace is completed.
LEMMA OwnRun ==
    ASSUME IInv, op.kind = "documents", op.step \in OwnSteps \cup RegistrySteps,
           op.doc.at # "completed"
    PROVE  /\ op.ws \in Workspace /\ op.doc \in DocRun /\ op.doc \in docRuns[op.ws]
           /\ docLayout[op.ws] = "ready" /\ DocGrounded(op.ws, op.doc)
           /\ \A q \in docRuns[op.ws] : q # op.doc => q.at = "completed"
BY DEF IInv, Typed, Equipped, Grounded, RunsGrounded, OneDocRun

\* The writes that lead up to the stage, each leaving the run fresh.
LEMMA StageDocKeeps ==
    ASSUME IInv, reader' = reader,
           MakeRunDirectory \/ WriteDocIntent \/ MakeDocStage \/ WriteDocManifest
    PROVE  IInv'
<1> DEFINE w == op.ws
           a == op.doc
<1>1. /\ op.step \in {"doc_dir", "doc_intent", "doc_stage", "doc_manifest"}
      /\ op.step \in DocSteps /\ Typed /\ DocAt
      /\ UNCHANGED <<layout, gens, runs, crashes, docLayout, docGens>>
  BY DEF MakeRunDirectory, WriteDocIntent, MakeDocStage, WriteDocManifest, DocSteps,
         IInv, Grounded, OpGrounded
<1>2. PICK at \in DocStates, step \in DocSteps :
         /\ DocMoveOn(at, step)
         /\ \/ op.step = "doc_dir" /\ at = "dir" /\ step = "doc_intent"
            \/ op.step = "doc_intent" /\ at = "intent" /\ step = "doc_stage"
            \/ op.step = "doc_stage" /\ at = "stage_dir" /\ step = "doc_manifest"
            \/ op.step = "doc_manifest" /\ at = "staged" /\ step = "doc_rename"
  BY DEF MakeRunDirectory, WriteDocIntent, MakeDocStage, WriteDocManifest, DocSteps, DocStates
<1>3. /\ Typed' /\ op \in Operation /\ w \in Workspace /\ a \in DocRun
      /\ op'.doc = [a EXCEPT !.at = at] /\ op'.doc \in DocRun
      /\ op' = [op EXCEPT !.step = step, !.doc = op'.doc]
      /\ docRuns' = [docRuns EXCEPT ![w] = (@ \ {a}) \cup {op'.doc}]
      /\ op.kind = "documents"
  BY <1>1, <1>2, DocMoveOnTyped DEF Typed, Equipped
<1> DEFINE b == op'.doc
<1>4. b.at = at /\ b.seq = a.seq /\ b.gen = a.gen /\ b.reg = a.reg
  BY <1>3 DEF DocRun
<1>5. op'.step = step /\ op'.kind = "documents" /\ op'.ws = w
  BY <1>3 DEF Operation
<1>6. /\ docLayout[w] = "ready" /\ Based(w, a) /\ Follows(w, a) /\ Fresh(w, a)
      /\ \A q \in docRuns[w] : q # a => q.at = "completed"
      /\ a.at # "completed"
  <2>1. CASE op.step = "doc_dir"
    BY <1>1, <2>1 DEF DocAt
  <2>2. CASE op.step # "doc_dir"
    <3>1. a.at # "completed" /\ op.step \in OwnSteps
      BY <1>1, <2>2 DEF DocAt, OwnSteps
    <3>2. /\ docLayout[w] = "ready" /\ DocGrounded(w, a)
          /\ \A q \in docRuns[w] : q # a => q.at = "completed"
      BY <1>3, <3>1, OwnRun
    <3>3. Fresh(w, a)
      BY <1>1, <2>2, <3>2 DEF DocAt, DocGrounded
    <3> QED
      BY <3>1, <3>2, <3>3 DEF DocGrounded
  <2> QED
    BY <2>1, <2>2
<1>7. Based(w, b) /\ Follows(w, b) /\ Fresh(w, b)
  BY <1>4, <1>6 DEF Based, Follows, Fresh
<1>8. DocGrounded(w, b) /\ b.at # "completed"
  BY <1>2, <1>4, <1>7 DEF DocGrounded
<1>9. OpGrounded'
  <2>1. (op.ws)' = w
    BY <1>5
  <2>2. DocAt'
    BY <1>1, <1>2, <1>4, <1>5, <1>7 DEF DocAt, Fresh
  <2> QED
    BY <1>5, <2>2, DocStepGrounded
<1>10. docRuns' = [docRuns EXCEPT ![w] = (@ \ {a}) \cup {b}] /\ Typed' /\ w \in Workspace
  BY <1>3
<1> HIDE DEF w, a, b
<1> QED
  BY <1>1, <1>4, <1>6, <1>8, <1>9, <1>10, DocsMove

\* The completion of a run whose documents are named, and its removal later on.
LEMMA FinishDocKeeps ==
    ASSUME IInv, reader' = reader, WriteDocCompletion \/ ForgetIntent
    PROVE  IInv'
<1> DEFINE w == op.ws
           a == op.doc
<1>1. /\ op.step \in {"complete", "forget"}
      /\ op.step \in DocSteps /\ op.step \in OwnSteps /\ Typed /\ DocAt
      /\ UNCHANGED <<layout, gens, runs, crashes, docLayout, docGens>>
  BY DEF WriteDocCompletion, ForgetIntent, DocSteps, OwnSteps, IInv, Grounded, OpGrounded
<1>2. PICK at \in DocStates, step \in DocSteps :
         /\ DocMoveOn(at, step)
         /\ \/ op.step = "complete" /\ at = "completed" /\ step = "compact"
            \/ op.step = "forget" /\ at = "dir" /\ step = "remove"
  BY DEF WriteDocCompletion, ForgetIntent, DocSteps, DocStates
<1>3. /\ Typed' /\ op \in Operation /\ w \in Workspace /\ a \in DocRun
      /\ op'.doc = [a EXCEPT !.at = at] /\ op'.doc \in DocRun
      /\ op' = [op EXCEPT !.step = step, !.doc = op'.doc]
      /\ docRuns' = [docRuns EXCEPT ![w] = (@ \ {a}) \cup {op'.doc}]
      /\ op.kind = "documents"
  BY <1>1, <1>2, DocMoveOnTyped DEF Typed, Equipped
<1> DEFINE b == op'.doc
<1>4. b.at = at /\ b.seq = a.seq /\ b.gen = a.gen /\ b.reg = a.reg
  BY <1>3 DEF DocRun
<1>5. op'.step = step /\ op'.kind = "documents" /\ op'.ws = w
  BY <1>3 DEF Operation
<1>6. a.at = "published" /\ Named(w, a.seq)
  BY <1>1 DEF DocAt
<1>7. /\ docLayout[w] = "ready" /\ DocGrounded(w, a)
      /\ \A q \in docRuns[w] : q # a => q.at = "completed"
  BY <1>1, <1>3, <1>6, OwnRun
<1>8. DocGrounded(w, b)
  BY <1>2, <1>4, <1>6, <1>7 DEF DocGrounded, Based, Follows
<1>9. OpGrounded'
  <2>1. docRuns'[w] = (docRuns[w] \ {a}) \cup {b}
    BY <1>1, <1>3 DEF Typed, Shapes
  <2>2. DocAt'
    BY <1>1, <1>2, <1>4, <1>5, <1>6, <1>7, <2>1 DEF DocAt, Named
  <2> QED
    BY <1>5, <2>2, DocStepGrounded
<1> HIDE DEF w, a, b
<1> QED
  BY <1>1, <1>3, <1>6, <1>7, <1>8, <1>9, DocsMove DEF b

\* A completed run gives up its completion.
LEMMA CompactKeeps ==
    ASSUME IInv, Compact, reader' = reader
    PROVE  IInv'
<1> DEFINE w == op.ws
<1>1. /\ op.step = "compact" /\ op.step \in DocSteps /\ Typed /\ DocAt
      /\ UNCHANGED <<layout, gens, runs, crashes, docLayout, docGens>>
      /\ op.kind = "documents"
  BY DEF Compact, DocSteps, IInv, Grounded, OpGrounded, Typed, Equipped
<1>2. /\ Typed' /\ op \in Operation /\ w \in Workspace
      /\ \/ op' = Idle /\ docRuns' = docRuns
         \/ \E old \in docRuns[w] :
               /\ old.at = "completed" /\ old \in DocRun
               /\ op'.doc = [old EXCEPT !.at = "published"] /\ op'.doc \in DocRun
               /\ op' = [op EXCEPT !.step = "forget", !.doc = op'.doc]
               /\ docRuns' = [docRuns EXCEPT ![w] = (@ \ {old}) \cup {op'.doc}]
  BY <1>1, CompactTyped
<1>3. CASE op' = Idle /\ docRuns' = docRuns
  BY <1>1, <1>2, <1>3, IdleGrounded, RegistryQuiet DEF docVars
<1>4. ASSUME NEW old \in docRuns[w], old.at = "completed", old \in DocRun,
             op'.doc = [old EXCEPT !.at = "published"], op'.doc \in DocRun,
             op' = [op EXCEPT !.step = "forget", !.doc = op'.doc],
             docRuns' = [docRuns EXCEPT ![w] = (@ \ {old}) \cup {op'.doc}]
      PROVE  IInv'
  <2> DEFINE b == op'.doc
  <2>1. b.at = "published" /\ b.seq = old.seq /\ b.gen = old.gen /\ b.reg = old.reg
    BY <1>4 DEF DocRun
  <2>2. op'.step = "forget" /\ op'.kind = "documents" /\ op'.ws = w
    BY <1>1, <1>2, <1>4 DEF Operation
  <2>3. \A q \in docRuns[w] : q.at = "completed"
    BY <1>1 DEF DocAt
  <2>4. DocGrounded(w, old) /\ docLayout[w] = "ready"
    BY <1>2, <1>4 DEF IInv, Grounded, RunsGrounded, OneDocRun
  <2>5. DocGrounded(w, b) /\ Named(w, b.seq)
    BY <1>4, <2>1, <2>4 DEF DocGrounded, Based, Follows
  <2>6. DocAt'
    BY <1>1, <2>1, <2>2, <2>5 DEF DocAt, Named
  <2>7. OpGrounded'
    BY <2>2, <2>6, DocStepGrounded DEF DocSteps
  <2> HIDE DEF w, b
  <2> QED
    BY <1>1, <1>2, <1>4, <2>3, <2>4, <2>5, <2>7, DocsMove DEF b
<1> QED
  BY <1>2, <1>3, <1>4

\* The directory of a run whose documents are named goes.
LEMMA RemoveRunDirectoryKeeps ==
    ASSUME IInv, Typed', RemoveRunDirectory, reader' = reader
    PROVE  IInv'
<1> DEFINE w == op.ws
           a == op.doc
<1>1. /\ op.step = "remove" /\ op.step \in OwnSteps /\ Typed /\ DocAt /\ op \in Operation
      /\ UNCHANGED <<layout, gens, runs, crashes, docLayout, docGens>>
      /\ op' = [op EXCEPT !.step = "compact"] /\ op.kind = "documents"
      /\ docRuns' = [docRuns EXCEPT ![w] = @ \ {a}]
  BY DEF RemoveRunDirectory, DocSteps, OwnSteps, IInv, Grounded, OpGrounded, Typed, Equipped,
         Shapes
<1>2. a.at = "dir" /\ Named(w, a.seq)
  BY <1>1 DEF DocAt
<1>3. w \in Workspace /\ \A q \in docRuns[w] : q # a => q.at = "completed"
  BY <1>1, <1>2, OwnRun
<1>4. /\ docRuns'[w] = docRuns[w] \ {a}
      /\ \A v \in Workspace : docRuns'[v] \subseteq docRuns[v]
      /\ \A v \in Workspace : v # w => docRuns'[v] = docRuns[v]
  BY <1>1, <1>3 DEF Typed, Shapes
<1>5. op'.step = "compact" /\ op'.kind = "documents" /\ op'.ws = w
  BY <1>1 DEF Operation
<1>6. OpGrounded'
  <2>1. DocAt'
    BY <1>3, <1>4, <1>5 DEF DocAt
  <2> QED
    BY <1>5, <2>1, DocStepGrounded DEF DocSteps
<1> HIDE DEF w, a
<1>7. RunsGrounded'
  BY <1>1, <1>4, KnowledgeStays DEF IInv, Grounded, RunsGrounded
<1>8. OneDocRun'
  BY <1>1, <1>4 DEF IInv, Grounded, OneDocRun
<1>9. AheadIsOpen'
  <2> SUFFICES ASSUME NEW v \in Workspace, NEW i \in DOMAIN docGens[v], ~ Named(v, i)
               PROVE  i = Len(docGens[v]) /\ \E r \in docRuns'[v] : r.seq = i /\ r.at # "completed"
    BY <1>1 DEF AheadIsOpen, Named
  <2>1. i = Len(docGens[v])
    BY DEF IInv, Grounded, AheadIsOpen, Named
  <2>2. PICK r \in docRuns[v] : r.seq = i /\ r.at # "completed"
    BY DEF IInv, Grounded, AheadIsOpen, Named
  <2> QED
    BY <1>2, <1>3, <1>4, <2>1, <2>2
<1> QED
  BY <1>1, <1>6, <1>7, <1>8, <1>9, StoresStay DEF IInv, Grounded

\* A torn file leaves its run where it was, or where it was going.
LEMMA TearDocumentFileKeeps ==
    ASSUME IInv, TearDocumentFile, reader' = reader
    PROVE  IInv'
<1> DEFINE w == op.ws
           a == op.doc
<1>1. /\ op.step \in {"doc_intent", "doc_manifest", "complete"} /\ op.step \in OwnSteps
      /\ Typed /\ DocAt /\ op.kind = "documents" /\ op' = Idle
      /\ UNCHANGED <<layout, gens, runs, docLayout, docGens>>
  BY DEF TearDocumentFile, DocSteps, OwnSteps, IInv, Grounded, OpGrounded, Typed, Equipped
<1>2. /\ Typed' /\ w \in Workspace /\ a \in DocRun
      /\ \E torn \in {"intent_torn", "stage_torn", "completion_torn"} :
            /\ torn = CASE op.step = "doc_intent"   -> "intent_torn"
                        [] op.step = "doc_manifest" -> "stage_torn"
                        [] op.step = "complete"     -> "completion_torn"
            /\ [a EXCEPT !.at = torn] \in DocRun
            /\ docRuns' = [docRuns EXCEPT ![w] = (@ \ {a}) \cup {[a EXCEPT !.at = torn]}]
  BY <1>1, TearDocumentFileTyped
<1>3. PICK torn \in {"intent_torn", "stage_torn", "completion_torn"} :
         /\ \/ op.step = "doc_intent" /\ torn = "intent_torn"
            \/ op.step = "doc_manifest" /\ torn = "stage_torn"
            \/ op.step = "complete" /\ torn = "completion_torn"
         /\ docRuns' = [docRuns EXCEPT ![w] = (@ \ {a}) \cup {[a EXCEPT !.at = torn]}]
  BY <1>1, <1>2
<1> DEFINE b == [a EXCEPT !.at = torn]
<1>4. b.at = torn /\ b.seq = a.seq /\ b.gen = a.gen /\ b.reg = a.reg
  BY <1>2 DEF DocRun
<1>5. a.at # "completed"
  BY <1>1 DEF DocAt
<1>6. /\ docLayout[w] = "ready" /\ DocGrounded(w, a)
      /\ \A q \in docRuns[w] : q # a => q.at = "completed"
  BY <1>1, <1>5, OwnRun
<1>7. op.step \in {"doc_intent", "doc_manifest"} => Fresh(w, a)
  BY <1>1, <1>6 DEF DocAt, DocGrounded
<1>8. op.step = "complete" => a.at = "published"
  BY <1>1 DEF DocAt
<1>9. DocGrounded(w, b) /\ b.at # "completed"
  <2>1. Based(w, b) /\ Follows(w, b)
    BY <1>4, <1>6 DEF DocGrounded, Based, Follows
  <2>2. op.step \in {"doc_intent", "doc_manifest"} => Fresh(w, b)
    BY <1>4, <1>7 DEF Fresh
  <2>3. op.step = "complete" => b.seq \in DOMAIN docGens[w]
    BY <1>4, <1>6, <1>8 DEF DocGrounded
  <2> QED
    BY <1>3, <1>4, <2>1, <2>2, <2>3 DEF DocGrounded
<1>10. docRuns' = [docRuns EXCEPT ![w] = (@ \ {a}) \cup {b}] /\ OpGrounded'
  BY <1>1, <1>3, IdleGrounded
<1> HIDE DEF w, a, b
<1> QED
  BY <1>1, <1>2, <1>4, <1>6, <1>9, <1>10, DocsMove

\* When a document generation is appended, the run that published it is well
\* grounded, and so are the others, which are completed.
LEMMA KnowledgeAtRename ==
    ASSUME Typed, gens' = gens, NEW w \in Workspace, NEW g,
           docGens' = [docGens EXCEPT ![w] = Append(@, g)],
           NEW b, Based(w, b), Follows(w, b), b.at = "published",
           b.seq = Len(docGens[w]) + 1,
           \A r \in docRuns'[w] : r = b \/ (r.at = "completed" /\ DocGrounded(w, r)),
           \A v \in Workspace : v # w => \A r \in docRuns'[v] : DocGrounded(v, r)
    PROVE  \A v \in Workspace : \A r \in docRuns'[v] : DocGrounded(v, r)'
<1>1. /\ docGens[w] \in Seq(DocGeneration) /\ docGens'[w] = Append(docGens[w], g)
      /\ \A v \in Workspace : v # w => docGens'[v] = docGens[v]
  BY DEF Typed, Shapes
<1>2. /\ DOMAIN docGens'[w] = DOMAIN docGens[w] \cup {Len(docGens[w]) + 1}
      /\ Len(docGens[w]) \in Nat
  BY <1>1
<1>3. ASSUME NEW r \in docRuns'[w] PROVE DocGrounded(w, r)'
  <2>1. CASE r = b
    <3>1. Based(w, r)' /\ Follows(w, r)'
      BY <2>1 DEF Based, Follows
    <3> QED
      BY <1>2, <2>1, <3>1 DEF DocGrounded
  <2>2. CASE r # b
    <3>1. r.at = "completed" /\ DocGrounded(w, r)
      BY <2>2
    <3>2. Based(w, r)' /\ Follows(w, r)' /\ Named(w, r.seq)'
      BY <3>1 DEF DocGrounded, Based, Follows, Named
    <3> QED
      BY <1>2, <3>1, <3>2 DEF DocGrounded
  <2> QED
    BY <2>1, <2>2
<1>4. ASSUME NEW v \in Workspace, v # w, NEW r \in docRuns'[v] PROVE DocGrounded(v, r)'
  <2>1. DocGrounded(v, r) /\ docGens'[v] = docGens[v]
    BY <1>1, <1>4
  <2>2. Based(v, r)' /\ Follows(v, r)'
    BY <2>1 DEF DocGrounded, Based, Follows
  <2>3. (Named(v, r.seq) => Named(v, r.seq)') /\ (Fresh(v, r) => Fresh(v, r)')
    BY <2>1 DEF Named, Fresh
  <2> QED
    BY <2>1, <2>2, <2>3 DEF DocGrounded
<1> QED
  BY <1>3, <1>4

\* A document generation is appended: the last one was named by then, and has
\* other documents.
LEMMA RenameDocStageKeeps ==
    ASSUME IInv, RenameDocStage, reader' = reader
    PROVE  IInv'
<1> DEFINE w == op.ws
           a == op.doc
           n == Len(docGens[w])
           g == [a.gen EXCEPT !.whole = a.at = "staged"]
           b == op'.doc
<1>1. /\ op.step = "doc_rename" /\ op.step \in OwnSteps /\ Typed /\ DocAt
      /\ op.kind = "documents" /\ UNCHANGED <<layout, gens, runs, crashes, docLayout>>
      /\ docGens' = [docGens EXCEPT ![w] = Append(@, g)]
  BY DEF RenameDocStage, DocSteps, OwnSteps, IInv, Grounded, OpGrounded, Typed, Equipped
<1>2. /\ Typed' /\ op \in Operation /\ w \in Workspace /\ a \in DocRun
      /\ b = [a EXCEPT !.at = "published"] /\ b \in DocRun
      /\ op' = [op EXCEPT !.step = "propose", !.doc = b, !.seq = a.reg.seq, !.defs = a.reg.defs]
      /\ docRuns' = [docRuns EXCEPT ![w] = (@ \ {a}) \cup {b}]
  BY <1>1, RenameDocStageTyped
<1>3. b.at = "published" /\ b.seq = a.seq /\ b.gen = a.gen /\ b.reg = a.reg
  BY <1>2 DEF DocRun
<1>4. /\ op'.step = "propose" /\ op'.kind = "documents" /\ op'.ws = w /\ op'.doc = b
      /\ op'.seq = b.reg.seq /\ op'.defs = b.reg.defs
  BY <1>1, <1>2, <1>3 DEF Operation
<1>5. a.at \in {"intent", "stage_dir", "stage_torn", "staged"}
  BY <1>1 DEF DocAt
<1>6. /\ docLayout[w] = "ready" /\ DocGrounded(w, a)
      /\ \A q \in docRuns[w] : q # a => q.at = "completed"
  BY <1>1, <1>5, OwnRun
<1>7. Based(w, a) /\ Follows(w, a) /\ Fresh(w, a)
  BY <1>5, <1>6 DEF DocGrounded
<1>8. a.seq = n + 1 /\ (n # 0 => a.gen.content # docGens[w][n].content)
  BY <1>7 DEF Fresh
<1>9. g.content = a.gen.content
  BY <1>2 DEF DocRun, DocGeneration
<1> HIDE DEF g
<1>10. /\ docGens[w] \in Seq(DocGeneration) /\ n \in Nat /\ docGens'[w] = Append(docGens[w], g)
       /\ \A v \in Workspace : v # w => docGens'[v] = docGens[v]
       /\ \A v \in Workspace : docGens[v] \in Seq(DocGeneration) /\ Len(docGens[v]) \in Nat
  BY <1>1, <1>2 DEF Typed, Shapes
<1>11. /\ DOMAIN docGens'[w] = 1 .. n + 1 /\ docGens'[w][n + 1] = g /\ Len(docGens'[w]) = n + 1
       /\ \A i \in 1 .. n : docGens'[w][i] = docGens[w][i]
       /\ DOMAIN docGens[w] = 1 .. n
  BY <1>10
<1>12. /\ docRuns'[w] = (docRuns[w] \ {a}) \cup {b}
       /\ \A v \in Workspace : v # w => docRuns'[v] = docRuns[v]
  BY <1>1, <1>2 DEF Typed, Shapes
<1>13. OpGrounded'
  BY <1>3, <1>4
     DEF OpGrounded, PublishGrounded, RunAt, DocAt, DocInRegistry
<1> HIDE DEF w, a, n, b
<1>14. \A v \in Workspace : Len(docGens[v]) <= Len(docGens'[v]) /\ Len(docGens'[v]) \in Nat
  BY <1>10, <1>11
<1>15. NamedIsPublished'
  <2> SUFFICES ASSUME NEW v \in Workspace, NEW i \in DOMAIN gens, gens[i][v] # Absent
               PROVE  gens[i][v].docs <= Len(docGens'[v])
    BY <1>1 DEF NamedIsPublished
  <2>1. gens[i] \in Definitions
    BY <1>1 DEF Typed, Shapes
  <2>2. gens[i][v].docs \in Nat
    BY <2>1 DEF Definitions, Definition
  <2>3. gens[i][v].docs <= Len(docGens[v])
    BY DEF IInv, Grounded, NamedIsPublished
  <2> QED
    BY <1>10, <1>14, <2>2, <2>3
<1>16. RunsGrounded'
  <2>1. ASSUME NEW r \in runs, r.at \in Unpublished PROVE Fitting(r.gen)'
    <3>1. Fitting(r.gen) /\ r.gen.defs \in Definitions
      BY <1>1, <2>1
         DEF Typed, Shapes, Run, Generation, IInv, Grounded, RunsGrounded, RunGrounded
    <3>2. \A v \in Workspace : r.gen.defs[v] # Absent => r.gen.defs[v].docs \in Nat
      BY <3>1 DEF Definitions, Definition
    <3>3. \A v \in Workspace :
             r.gen.defs[v] # Absent => r.gen.defs[v].docs <= Len(docGens'[v])
      BY <1>10, <1>14, <3>1, <3>2 DEF Fitting
    <3>4. Advances(r.gen)' /\ \A v \in Workspace : Derived(v, r.gen.defs[v])'
      BY <1>1, <3>1 DEF Fitting, Advances, Latest, Derived
    <3> QED
      BY <3>3, <3>4 DEF Fitting
  <2>2. Based(w, b) /\ Follows(w, b) /\ b.at = "published" /\ b.seq = Len(docGens[w]) + 1
    BY <1>3, <1>7, <1>8 DEF Based, Follows, n
  <2>3. \A r \in docRuns'[w] : r = b \/ (r.at = "completed" /\ DocGrounded(w, r))
    BY <1>2, <1>6, <1>12 DEF IInv, Grounded, RunsGrounded
  <2>4. \A v \in Workspace : v # w => \A r \in docRuns'[v] : DocGrounded(v, r)
    BY <1>12 DEF IInv, Grounded, RunsGrounded
  <2>5. \A v \in Workspace : \A r \in docRuns'[v] : DocGrounded(v, r)'
    BY <1>1, <1>2, <2>2, <2>3, <2>4, KnowledgeAtRename
  <2> QED
    BY <1>1, <2>1, <2>5 DEF RunsGrounded, RunGrounded
<1>17. OneDocRun'
  BY <1>1, <1>6, <1>10, <1>12 DEF IInv, Grounded, OneDocRun
<1>18. AheadIsOpen'
  <2> SUFFICES ASSUME NEW v \in Workspace, NEW i \in DOMAIN docGens'[v], ~ Named(v, i)
               PROVE  /\ i = Len(docGens'[v])
                      /\ \E r \in docRuns'[v] : r.seq = i /\ r.at # "completed"
    BY <1>1 DEF AheadIsOpen, Named
  <2>1. CASE v # w
    BY <1>10, <1>12, <2>1 DEF IInv, Grounded, AheadIsOpen, Named
  <2>2. CASE v = w /\ i = n + 1
    BY <1>3, <1>8, <1>11, <1>12, <2>2
  <2>3. CASE v = w /\ i # n + 1
    <3>1. i \in DOMAIN docGens[w] /\ i \in 1 .. n
      BY <1>10, <1>11, <2>3
    <3>2. PICK r \in docRuns[w] : r.seq = i /\ r.at # "completed"
      BY <2>3, <3>1 DEF IInv, Grounded, AheadIsOpen, Named
    <3>3. r = a
      BY <1>6, <3>2
    <3> QED
      BY <1>8, <1>10, <3>1, <3>2, <3>3
  <2> QED
    BY <2>1, <2>2, <2>3
<1>19. NothingPublishedTwice'
  <2> SUFFICES ASSUME NEW v \in Workspace, NEW i \in DOMAIN docGens'[v], i > 1
               PROVE  docGens'[v][i].content # docGens'[v][i - 1].content
    BY DEF NothingPublishedTwice
  <2>1. CASE v # w
    BY <1>10, <2>1 DEF IInv, NothingPublishedTwice
  <2>2. CASE v = w /\ i = n + 1
    BY <1>8, <1>9, <1>10, <1>11, <2>2
  <2>3. CASE v = w /\ i # n + 1
    <3>1. i \in 1 .. n /\ i - 1 \in 1 .. n
      BY <1>10, <1>11, <2>3
    <3>2. docGens[w][i].content # docGens[w][i - 1].content
      BY <1>11, <2>3, <3>1 DEF IInv, NothingPublishedTwice
    <3> QED
      BY <1>11, <2>3, <3>1, <3>2
  <2> QED
    BY <2>1, <2>2, <2>3
<1>20. Ordered'
  BY <1>1 DEF IInv, Ordered, FirstOf, Kept, Grown
<1>21. LoadIsConsistent' /\ Unread'
  BY <1>1 DEF IInv, LoadIsConsistent, Unread
<1> QED
  BY <1>2, <1>13, <1>15, <1>16, <1>17, <1>18, <1>19, <1>20, <1>21 DEF IInv, Grounded

\* An operation that begins, or resumes a run, and has written nothing yet.
LEMMA DocsBegin ==
    ASSUME IInv, Typed', UNCHANGED <<gens, runs, docVars, reader>>, OpGrounded'
    PROVE  IInv'
BY RegistryQuiet

\* What a documents operation finds out at its beginning.
LEMMA BeginDocumentsKeeps ==
    ASSUME IInv, NEW w \in Workspace, BeginDocuments(w), reader' = reader
    PROVE  IInv'
<1>1. UNCHANGED <<layout, gens, runs, crashes, docVars>> /\ Selected(w) /\ Typed
  BY DEF BeginDocuments, IInv
<1>2. /\ Typed'
      /\ \E c \in Content :
            /\ Len(docGens[w]) # 0 => c # docGens[w][Len(docGens[w])].content
            /\ NewRun(w, c) \in DocRun
            /\ op' = [Idle EXCEPT !.kind = "documents", !.ws = w, !.doc = NewRun(w, c),
                         !.step = IF docLayout[w] = "absent" THEN "doc_layout" ELSE "doc_dir"]
  BY <1>1, BeginDocumentsTyped
<1>3. PICK c \in Content :
            /\ Len(docGens[w]) # 0 => c # docGens[w][Len(docGens[w])].content
            /\ NewRun(w, c) \in DocRun
            /\ op' = [Idle EXCEPT !.kind = "documents", !.ws = w, !.doc = NewRun(w, c),
                         !.step = IF docLayout[w] = "absent" THEN "doc_layout" ELSE "doc_dir"]
  BY <1>2
<1> DEFINE r == NewRun(w, c)
           n == Len(docGens[w])
<1>4. /\ op'.kind = "documents" /\ op'.ws = w /\ op'.doc = r
      /\ op'.step = IF docLayout[w] = "absent" THEN "doc_layout" ELSE "doc_dir"
  BY <1>3, IdleTyped DEF Operation
<1>5. /\ r.seq = n + 1 /\ r.at = "dir" /\ r.gen.content = c /\ r.gen.base = Len(gens)
      /\ r.reg.seq = Len(gens) + 1 /\ r.reg.defs = Naming(w)
  BY DEF NewRun
<1>6. /\ Latest = gens[Len(gens)] /\ Latest[w] # Absent /\ Len(gens) \in DOMAIN gens
  BY <1>1, SelectedTyped
<1> HIDE DEF r
<1>7. Based(w, r)
  BY <1>5, <1>6 DEF Based, Naming
<1>8. Fresh(w, r)
  BY <1>3, <1>5 DEF Fresh
<1>9. docLayout[w] = "absent" => docGens[w] = <<>>
  BY DEF IInv, Grounded, OneDocRun
<1>10. docLayout[w] # "absent" =>
          /\ docLayout[w] = "ready" /\ Follows(w, r)
          /\ \A q \in docRuns[w] : q.at = "completed"
  <2> SUFFICES ASSUME docLayout[w] # "absent"
               PROVE  /\ docLayout[w] = "ready" /\ Follows(w, r)
                      /\ \A q \in docRuns[w] : q.at = "completed"
    OBVIOUS
  <2>1. docLayout[w] = "ready" /\ InventoryValid(w) /\ Active(w) = {} /\ Bound(w, Len(gens))
    BY DEF BeginDocuments
  <2>2. Follows(w, r)
    BY <1>5, <2>1 DEF Follows, Bound
  <2>3. \A q \in docRuns[w] : q.at \in DocStates
    BY <1>1 DEF Typed, Shapes, DocRun
  <2> QED
    BY <2>1, <2>2, <2>3 DEF InventoryValid, Active, ActiveStates, DocStates
<1>11. DocAt'
  <2>1. gens' = gens /\ docGens' = docGens /\ docRuns' = docRuns /\ docLayout' = docLayout
    BY <1>1 DEF docVars
  <2> QED
    BY <1>4, <1>5, <1>7, <1>8, <1>9, <1>10, <2>1 DEF DocAt, Based, Follows, Fresh
<1>12. OpGrounded'
  BY <1>4, <1>11, DocStepGrounded DEF DocSteps
<1> QED
  BY <1>1, <1>2, <1>12, DocsBegin

\* Only when the layout is complete does the operation look whether the
\* definition names documents that are not there.
LEMMA CreateDocLayoutKeeps ==
    ASSUME IInv, Typed', CreateDocLayout, reader' = reader
    PROVE  IInv'
<1> DEFINE w == op.ws
           r == op.doc
<1>1. /\ op.step = "doc_layout" /\ op.kind = "documents" /\ w \in Workspace /\ Typed /\ DocAt
      /\ op \in Operation
      /\ UNCHANGED <<layout, gens, runs, crashes, docGens, docRuns>>
  BY DEF CreateDocLayout, DocSteps, IInv, Grounded, OpGrounded, Typed, Equipped, Shapes
<1>2. /\ docLayout[w] # "ready" /\ r.at = "dir" /\ r.seq = 1 /\ Based(w, r)
      /\ r.gen.base = Len(gens)
  BY <1>1 DEF DocAt
<1>3. docRuns[w] = {} /\ docGens[w] = <<>>
  BY <1>1, <1>2 DEF IInv, Grounded, OneDocRun
<1>4. /\ docLayout'[w] = IF docLayout[w] = "absent" THEN "partial" ELSE "ready"
      /\ \A v \in Workspace : v # w => docLayout'[v] = docLayout[v]
  BY <1>1 DEF CreateDocLayout, Typed, Shapes
<1>5. OneDocRun'
  BY <1>1, <1>3, <1>4 DEF IInv, Grounded, OneDocRun
<1>6. OpGrounded'
  <2>1. CASE docLayout[w] = "absent"
    <3>1. op' = op
      BY <2>1 DEF CreateDocLayout
    <3>2. (op.ws)' = w /\ (op.doc)' = r /\ op'.step = "doc_layout" /\ op'.kind = "documents"
      BY <1>1, <3>1
    <3> HIDE DEF w, r
    <3>3. DocAt'
      BY <1>1, <1>2, <1>4, <2>1, <3>2 DEF DocAt, Based
    <3> QED
      BY <3>2, <3>3, DocStepGrounded DEF DocSteps
  <2>2. CASE docLayout[w] # "absent" /\ Bound(w, Len(gens))
    <3>1. op' = [op EXCEPT !.step = "doc_dir"]
      BY <2>2 DEF CreateDocLayout
    <3>2. (op.ws)' = w /\ (op.doc)' = r /\ op'.step = "doc_dir" /\ op'.kind = "documents"
      BY <1>1, <3>1 DEF Operation
    <3>3. Follows(w, r) /\ Fresh(w, r)
      BY <1>2, <1>3, <2>2 DEF Follows, Fresh, Bound
    <3> HIDE DEF w, r
    <3>4. DocAt'
      BY <1>1, <1>2, <1>3, <1>4, <2>2, <3>2, <3>3 DEF DocAt, Based, Follows, Fresh
    <3> QED
      BY <3>2, <3>4, DocStepGrounded DEF DocSteps
  <2>3. CASE docLayout[w] # "absent" /\ ~ Bound(w, Len(gens))
    <3>1. op' = Idle
      BY <2>3 DEF CreateDocLayout
    <3> QED
      BY <3>1, IdleGrounded
  <2> QED
    BY <2>1, <2>2, <2>3
<1>7. RunsGrounded'
  BY <1>1, KnowledgeStays DEF IInv, Grounded, RunsGrounded
<1>8. AheadIsOpen'
  BY <1>1 DEF IInv, Grounded, AheadIsOpen
<1> QED
  BY <1>1, <1>5, <1>6, <1>7, <1>8, StoresStay DEF IInv, Grounded

\* A recovery takes up the only open run where its files say.
LEMMA RecoverDocumentsKeeps ==
    ASSUME IInv, NEW w \in Workspace, RecoverDocuments(w), reader' = reader
    PROVE  IInv'
<1>1. UNCHANGED <<layout, gens, runs, crashes, docVars>> /\ Typed
  BY DEF RecoverDocuments, IInv
<1>2. /\ Typed'
      /\ \E r \in Active(w) :
            /\ r \in docRuns[w] /\ r \in DocRun
            /\ op' = [Idle EXCEPT !.kind = "documents", !.ws = w, !.doc = r,
                                  !.step = ResumeStep(r.at),
                                  !.seq = r.reg.seq, !.defs = r.reg.defs]
  BY <1>1, RecoverDocumentsTyped
<1>3. PICK r \in Active(w) :
            /\ r \in docRuns[w] /\ r \in DocRun
            /\ op' = [Idle EXCEPT !.kind = "documents", !.ws = w, !.doc = r,
                                  !.step = ResumeStep(r.at),
                                  !.seq = r.reg.seq, !.defs = r.reg.defs]
  BY <1>2
<1>4. /\ op'.kind = "documents" /\ op'.ws = w /\ op'.doc = r /\ op'.step = ResumeStep(r.at)
      /\ op'.seq = r.reg.seq /\ op'.defs = r.reg.defs
  BY <1>3, IdleTyped DEF Operation
<1>5. \/ r.at = "intent" /\ op'.step = "doc_stage"
      \/ r.at \in {"stage_dir", "stage_torn", "staged"} /\ op'.step = "doc_rename"
      \/ r.at = "published" /\ op'.step = "propose"
  BY <1>3, <1>4 DEF Active, ActiveStates, ResumeStep
<1>6. OpGrounded'
  BY <1>4, <1>5 DEF OpGrounded, PublishGrounded, RunAt, DocAt, DocInRegistry, RegistrySteps
<1> QED
  BY <1>1, <1>2, <1>6, DocsBegin

-----------------------------------------------------------------------------
(* Readers. *)

\* A reader returns what it found named, and what it read before still stands.
LEMMA ReadKeeps ==
    ASSUME IInv, Read, UNCHANGED <<registryVars, docVars>>
    PROVE  IInv'
<1>1. Typed /\ Typed'
  BY ReadTyped DEF IInv
<1>2. /\ gens' = gens /\ docGens' = docGens /\ docRuns' = docRuns /\ docLayout' = docLayout
      /\ runs' = runs /\ op' = op /\ layout' = layout
  BY DEF registryVars, docVars
<1>3. reader \in Reader /\ (reader.at # "none" => reader.ws \in Workspace)
  BY <1>1 DEF Typed, Shapes, ReaderFound
<1>4. LoadIsConsistent' /\ Unread'
  <2>1. CASE \E w \in Workspace : ListRegistry(w)
    BY <1>2, <2>1 DEF ListRegistry, LoadIsConsistent, Unread
  <2>2. CASE CheckRegistry
    BY <1>2, <1>3, <2>2 DEF CheckRegistry, NoReader, Reader, LoadIsConsistent, Unread, IInv
  <2>3. CASE CheckDocuments
    <3>1. reader.at = "selected" /\ reader.doc = 0 /\ reader.ws \in Workspace
      BY <1>3, <2>3 DEF CheckDocuments, IInv, Unread
    <3>2. docLayout[reader.ws] \in {"absent", "partial", "ready"}
      BY <1>1, <3>1 DEF Typed, Shapes
    <3>3. \/ reader' = NoReader
          \/ reader' = [reader EXCEPT !.at = "returned"] /\ gens[reader.seq][reader.ws].docs = 0
          \/ reader' = [reader EXCEPT !.at = "checked"]
      BY <2>3, <3>2 DEF CheckDocuments
    <3> QED
      BY <1>2, <1>3, <3>1, <3>3 DEF NoReader, Reader, LoadIsConsistent, Unread
  <2>4. CASE ReadGenerations
    <3>1. \/ reader' = NoReader
          \/ /\ reader' = [reader EXCEPT !.at = "returned", !.doc = Len(docGens[reader.ws])]
             /\ gens[reader.seq][reader.ws].docs = Len(docGens[reader.ws])
      BY <2>4 DEF ReadGenerations, Bound
    <3>2. CASE reader' = NoReader
      BY <3>2 DEF NoReader, LoadIsConsistent, Unread
    <3>3. CASE reader' # NoReader
      <4>1. /\ reader'.at = "returned" /\ reader'.seq = reader.seq /\ reader'.ws = reader.ws
            /\ reader'.doc = Len(docGens[reader.ws])
        BY <1>3, <3>1, <3>3 DEF Reader
      <4> QED
        BY <1>2, <3>1, <3>3, <4>1 DEF LoadIsConsistent, Unread
    <3> QED
      BY <3>2, <3>3
  <2> QED
    BY <2>1, <2>2, <2>3, <2>4 DEF Read
<1>5. OpGrounded'
  BY <1>2, OperationStays
<1>6. RunsGrounded'
  BY <1>2, KnowledgeStays DEF IInv, Grounded, RunsGrounded
<1>7. OneDocRun' /\ AheadIsOpen'
  BY <1>2 DEF IInv, Grounded, OneDocRun, AheadIsOpen
<1> QED
  BY <1>1, <1>2, <1>4, <1>5, <1>6, <1>7, StoresStay DEF IInv, Grounded

-----------------------------------------------------------------------------
(* The theorems. *)

\* Nothing is published and nobody works at the start.
THEOREM InitIInv == DocInit => IInv
<1> SUFFICES ASSUME DocInit PROVE IInv
  OBVIOUS
<1>1. /\ gens = <<>> /\ runs = {} /\ op = Idle /\ reader.at = "none"
      /\ \A w \in Workspace : docRuns[w] = {} /\ docGens[w] = <<>>
  BY DEF DocInit, Init, NoReader
<1>2. OpGrounded
  BY <1>1, IdleTyped
     DEF OpGrounded, PublishGrounded, RunAt, DocAt, DocInRegistry, RegistrySteps
<1>3. RunsGrounded /\ OneDocRun /\ NamedIsPublished /\ AheadIsOpen
  BY <1>1 DEF RunsGrounded, OneDocRun, NamedIsPublished, AheadIsOpen
<1>4. Ordered /\ NothingPublishedTwice /\ LoadIsConsistent /\ Unread
  BY <1>1 DEF Ordered, NothingPublishedTwice, LoadIsConsistent, Unread
<1> QED
  BY <1>2, <1>3, <1>4, InitTyped DEF IInv, Grounded

\* Every step keeps the invariant.
THEOREM NextIInv == IInv /\ [Next]_vars => IInv'
<1> SUFFICES ASSUME IInv, [Next]_vars PROVE IInv'
  OBVIOUS
<1>1. Typed /\ Typed'
  BY NextTyped DEF IInv
<1>2. CASE UNCHANGED vars
  <2>1. /\ gens' = gens /\ docVars' = docVars /\ reader' = reader /\ runs' = runs /\ op' = op
        /\ docGens' = docGens /\ docRuns' = docRuns /\ docLayout' = docLayout
    BY <1>2 DEF vars, registryVars, docVars
  <2>2. OpGrounded'
    BY <2>1, OperationStays
  <2> QED
    BY <1>1, <2>1, <2>2, RegistryQuiet
<1>3. CASE RegistryNext /\ UNCHANGED <<docVars, reader>>
  <2>1. ASSUME BeginPublish PROVE IInv'
    <3>1. PICK n \in 0 .. Len(gens) : \E defs \in Edits(Basis(n)) :
                Begin("publish", 0, defs) \/ Begin("publish", n + 1, defs)
      BY <2>1 DEF BeginPublish
    <3>2. PICK defs \in Edits(Basis(n)) :
                Begin("publish", 0, defs) \/ Begin("publish", n + 1, defs)
      BY <3>1
    <3>3. defs \in Definitions /\ n \in Nat /\ n + 1 \in Nat /\ 0 \in Nat
      BY <1>1, <3>2, BasisTyped, EditsTyped DEF Typed, Shapes
    <3> QED
      BY <1>1, <1>3, <3>2, <3>3, BeginKeeps
  <2>2. ASSUME BeginRecover PROVE IInv'
    <3>1. Begin("recover", 0, Nothing) /\ Nothing \in Definitions /\ 0 \in 0 .. Len(gens)
      BY <1>1, <2>2, BasisTyped DEF BeginRecover, Typed, Shapes
    <3> QED
      BY <1>1, <1>3, <3>1, BeginKeeps
  <2> QED
    BY <1>1, <1>3, <2>1, <2>2, CreateLayoutKeeps, WriteIntentKeeps, ReturnUnpublishedKeeps,
       MoveOnKeeps, RenameStageKeeps, UnlinkIntentKeeps, CrashKeeps, TearRegistryFileKeeps
       DEF RegistryNext, RegistryStep
<1>4. CASE (\E w \in Workspace : BeginDocuments(w) \/ RecoverDocuments(w)) /\ UNCHANGED reader
  BY <1>4, BeginDocumentsKeeps, RecoverDocumentsKeeps
<1>5. CASE (DocStep \/ TearDocumentFile) /\ UNCHANGED reader
  BY <1>1, <1>5, CreateDocLayoutKeeps, StageDocKeeps, RenameDocStageKeeps, FinishDocKeeps,
     CompactKeeps, RemoveRunDirectoryKeeps, TearDocumentFileKeeps
     DEF DocStep
<1>6. CASE Read /\ UNCHANGED <<registryVars, docVars>>
  BY <1>6, ReadKeeps
<1> QED
  BY <1>2, <1>3, <1>4, <1>5, <1>6 DEF Next

\* However publications of the registry and of documents, recoveries, compactions
\* and deaths follow each other, the invariant holds.
THEOREM Invariance == Spec => []IInv
BY InitIInv, NextIInv, PTL DEF Spec

\* Recovery never has to choose between two open runs.
THEOREM RunsAreOne == Spec => []OneOpenRun
<1>1. ASSUME NEW S, \A r, q \in S : r = q PROVE Cardinality(S) <= 1
  <2>1. CASE S = {}
    BY <2>1, FS_EmptySet
  <2>2. CASE S # {}
    <3>1. PICK r \in S : TRUE
      BY <2>2
    <3>2. S = {r}
      BY <1>1, <3>1
    <3> QED
      BY <3>2, FS_Singleton
  <2> QED
    BY <2>1, <2>2
<1>2. IInv => OneOpenRun
  <2> SUFFICES ASSUME IInv PROVE OneOpenRun
    OBVIOUS
  <2>1. Cardinality(runs) <= 1
    BY <1>1 DEF IInv, Typed, OneRun
  <2>2. ASSUME NEW w \in Workspace
        PROVE  Cardinality({r \in docRuns[w] : r.at # "completed"}) <= 1
    <3> DEFINE S == {r \in docRuns[w] : r.at # "completed"}
    <3>1. \A r, q \in S : r = q
      BY DEF IInv, Grounded, OneDocRun
    <3> HIDE DEF S
    <3>2. Cardinality(S) <= 1
      BY <1>1, <3>1
    <3> QED
      BY <3>2 DEF S
  <2> QED
    BY <2>1, <2>2 DEF OneOpenRun
<1> QED
  BY <1>2, Invariance, PTL

\* An operator who publishes definitions read long ago never takes documents back.
THEOREM NothingIsLost == Spec => []NoLostUpdate
<1>1. IInv => NoLostUpdate
  <2> SUFFICES ASSUME IInv, NEW w \in Workspace, NEW i \in DOMAIN gens, NEW j \in DOMAIN gens,
                      i < j, Kept(w, i, j), FirstOf(w, i), NEW k \in i .. j - 1
               PROVE  /\ gens[k][w].docs <= gens[k + 1][w].docs
                      /\ gens[k][w].version <= gens[k + 1][w].version
    BY DEF NoLostUpdate
  <2>1. DOMAIN gens = 1 .. Len(gens) /\ Len(gens) \in Nat
    BY DEF IInv, Typed, Shapes
  <2>2. /\ k \in DOMAIN gens /\ k + 1 \in DOMAIN gens /\ i <= k /\ k <= k + 1
        /\ k + 1 <= j
    BY <2>1
  <2>3. Kept(w, i, k + 1)
    BY <2>1, <2>2 DEF Kept
  <2> QED
    BY <2>2, <2>3 DEF IInv, Ordered, Grown
<1> QED
  BY <1>1, Invariance, PTL

\* The registry names only documents that are there, and a generation that it does
\* not name belongs to a run that can still be recovered.
THEOREM NothingIsOrphaned == Spec => []StoresAgree
<1>1. IInv => StoresAgree
  BY DEF IInv, Grounded, StoresAgree
<1> QED
  BY <1>1, Invariance, PTL

\* A publication that died, was recovered and is retried is appended once.
THEOREM PublishedOnce == Spec => []NothingPublishedTwice
<1>1. IInv => NothingPublishedTwice
  BY DEF IInv
<1> QED
  BY <1>1, Invariance, PTL

\* A reader, which takes no lock, returns the documents that the registry it has
\* read names.
THEOREM LoadsAreConsistent == Spec => []LoadIsConsistent
<1>1. IInv => LoadIsConsistent
  BY DEF IInv
<1> QED
  BY <1>1, Invariance, PTL
=============================================================================
