-------------------------- MODULE WorkspaceDocuments --------------------------
(***************************************************************************)
(* The document stores of the workspaces, and their composition with the   *)
(* registry (src/src/ao_lore/workspace_documents.py).  A publication holds *)
(* registry.lock, appends a generation to the documents of one workspace,  *)
(* and then publishes, as one registry publication inside its own, the     *)
(* registry generation that names it.                                      *)
(*                                                                         *)
(* Again one action is one durable write.  Readers take no lock.           *)
(***************************************************************************)
EXTENDS WorkspaceRegistry

CONSTANTS
    Content,        \* what the documents of a workspace can be
    MaxTerminal     \* _MAX_TERMINAL_RUNS

VARIABLES
    docLayout,      \* [Workspace -> "absent", "partial", "ready"]: documents/
    docGens,        \* [Workspace -> Seq(document generation)]: generations/
    docRuns,        \* [Workspace -> set of runs]: recovery/ and staging/
    reader          \* a reader between two of its reads

docVars == <<docLayout, docGens, docRuns>>
vars == <<registryVars, docVars, reader>>

ASSUME MaxTerminalIsNat == MaxTerminal \in Nat

-----------------------------------------------------------------------------
(* Values. *)

\* A generation directory: its documents, the registry generation it was derived
\* from, and whether its manifest is in it.
DocGeneration == [content : Content, base : Nat, whole : BOOLEAN]

\* "dir": the run's directory without an intent, at its beginning or its end.
\* A completed run looks like a published one once its completion is unlinked.
DocStates == {"dir", "intent_torn", "intent", "stage_dir", "stage_torn", "staged",
              "published", "completion_torn", "completed"}
DocRun == [seq : Nat \ {0}, gen : DocGeneration, reg : Generation, at : DocStates]
ASSUME NoneIsNoRun == None \notin DocRun
ActiveStates == {"intent", "stage_dir", "stage_torn", "staged", "published"}

DocSteps == {"doc_layout", "doc_dir", "doc_intent", "doc_stage", "doc_manifest", "doc_rename",
             "complete", "compact", "forget", "remove"}
Operation ==
    [kind : Kinds, step : {"none"} \cup RegistrySteps \cup DocSteps,
     seq : Nat, defs : Definitions, run : Run \cup {None}, own : BOOLEAN,
     ws : Workspace \cup {None}, doc : DocRun \cup {None}]

ReaderStates == {"none", "listed", "selected", "checked", "returned"}
NoReader == [at |-> "none", ws |-> None, seq |-> 0, doc |-> 0]

-----------------------------------------------------------------------------
(* What the code derives from the files. *)

\* _load_generations: a chain of whole generations, within its budget.
DocsLoadable(w) ==
    /\ Len(docGens[w]) <= MaxGenerations
    /\ \A i \in DOMAIN docGens[w] : docGens[w][i].whole

\* Fault: the reader does not compare the binding again.
BoundAtAll(w, seq) == gens[seq][w].docs # 0 \/ docGens[w] = <<>>

\* _ensure_current_registry_binding: the definition names the last generation,
\* and the registry is the successor of the one it was derived from.
Bound(w, seq) ==
    LET n == Len(docGens[w])
    IN  /\ gens[seq][w].docs = n
        /\ n # 0 => seq = docGens[w][n].base + 1

\* Every run has an intent, and a completion that is whole if it has one.
InventoryValid(w) ==
    \A r \in docRuns[w] : r.at \notin {"dir", "intent_torn", "completion_torn"}

\* Fault: a run is over once its generation is published.
ActiveUntilPublished(w) == {r \in docRuns[w] : r.at \in ActiveStates \ {"published"}}

Active(w) == {r \in docRuns[w] : r.at \in ActiveStates}
Terminal(w) == {r \in docRuns[w] : r.at = "completed"}
TerminalWhole(w) == \A r \in Terminal(w) : docGens[w][r.seq].whole

\* _registry_selection.
Selected(w) == Loadable /\ gens # <<>> /\ Selectable(Latest, w)

\* The registry generation that names the next documents of w.
Naming(w) == [Latest EXCEPT ![w].version = @ + 1, ![w].docs = Len(docGens[w]) + 1]

-----------------------------------------------------------------------------
(* Publication. *)

DocInit ==
    /\ Init
    /\ docLayout = [w \in Workspace |-> "absent"]
    /\ docGens = [w \in Workspace |-> <<>>]
    /\ docRuns = [w \in Workspace |-> {}]
    /\ reader = NoReader

\* publish_workspace_documents up to its first write.  Documents that are those
\* of the last generation are answered without one ("unchanged"), and so is a
\* caller that names a registry other than the current one (refused).
BeginDocuments(w) ==
    /\ op = Idle /\ Len(gens) < MaxSequence
    /\ Selected(w)
    /\ \/ docLayout[w] = "absent"
       \/ /\ docLayout[w] = "ready"
          /\ InventoryValid(w) /\ Active(w) = {} /\ DocsLoadable(w) /\ Bound(w, Len(gens))
    /\ \E c \in Content :
          LET n == Len(docGens[w])
              run == [seq |-> n + 1, at |-> "dir",
                      gen |-> [content |-> c, base |-> Len(gens), whole |-> TRUE],
                      reg |-> [seq |-> Len(gens) + 1, defs |-> Naming(w)]]
          IN  /\ n # 0 => c # docGens[w][n].content
              /\ op' = [Idle EXCEPT !.kind = "documents", !.ws = w, !.doc = run,
                           !.step = IF docLayout[w] = "absent" THEN "doc_layout" ELSE "doc_dir"]
    /\ UNCHANGED <<layout, gens, runs, crashes, docVars>>

\* _prepare_documents: the directory, then its four entries.  A definition that
\* names documents which are not there is refused only after that.
CreateDocLayout ==
    /\ op.step = "doc_layout"
    /\ LET w == op.ws IN
       /\ docLayout' = [docLayout EXCEPT ![w] = IF @ = "absent" THEN "partial" ELSE "ready"]
       /\ op' = IF docLayout[w] = "absent" THEN op
                ELSE IF Bound(w, Len(gens)) THEN [op EXCEPT !.step = "doc_dir"] ELSE Idle
    /\ UNCHANGED <<layout, gens, runs, crashes, docGens, docRuns>>

\* The run of the operation moves on by one write.
DocMoveOn(at, step) ==
    LET w == op.ws
        r == [op.doc EXCEPT !.at = at]
    IN  /\ docRuns' = [docRuns EXCEPT ![w] = (@ \ {op.doc}) \cup {r}]
        /\ op' = [op EXCEPT !.step = step, !.doc = r]

MakeRunDirectory ==
    op.step = "doc_dir" /\ DocMoveOn("dir", "doc_intent")
    /\ UNCHANGED <<layout, gens, runs, crashes, docLayout, docGens>>
WriteDocIntent ==
    op.step = "doc_intent" /\ DocMoveOn("intent", "doc_stage")
    /\ UNCHANGED <<layout, gens, runs, crashes, docLayout, docGens>>
MakeDocStage ==
    op.step = "doc_stage" /\ DocMoveOn("stage_dir", "doc_manifest")
    /\ UNCHANGED <<layout, gens, runs, crashes, docLayout, docGens>>
WriteDocManifest ==
    op.step = "doc_manifest" /\ DocMoveOn("staged", "doc_rename")
    /\ UNCHANGED <<layout, gens, runs, crashes, docLayout, docGens>>

\* The stage becomes the generation, whatever is in it; then the registry
\* generation of the intent is to be published.
RenameDocStage ==
    /\ op.step = "doc_rename"
    /\ docGens' = [docGens EXCEPT ![op.ws] =
                      Append(@, [op.doc.gen EXCEPT !.whole = op.doc.at = "staged"])]
    /\ LET r == [op.doc EXCEPT !.at = "published"]
       IN  /\ docRuns' = [docRuns EXCEPT ![op.ws] = (@ \ {op.doc}) \cup {r}]
           /\ op' = [op EXCEPT !.step = "propose", !.doc = r,
                               !.seq = r.reg.seq, !.defs = r.reg.defs]
    /\ UNCHANGED <<layout, gens, runs, crashes, docLayout>>

WriteDocCompletion ==
    op.step = "complete" /\ DocMoveOn("completed", "compact")
    /\ UNCHANGED <<layout, gens, runs, crashes, docLayout, docGens>>

\* _compact_terminal_recovery: the oldest completed runs beyond the limit go, each
\* in three steps; a run that does not hold up ends the operation.
Compact ==
    /\ op.step = "compact"
    /\ LET w == op.ws
           old == CHOOSE r \in Terminal(w) : \A q \in Terminal(w) : r.seq <= q.seq
       IN  IF /\ Cardinality(Terminal(w)) > MaxTerminal
              /\ InventoryValid(w) /\ docGens[w][old.seq].whole
           THEN LET r == [old EXCEPT !.at = "published"] IN
                /\ docRuns' = [docRuns EXCEPT ![w] = (@ \ {old}) \cup {r}]
                /\ op' = [op EXCEPT !.step = "forget", !.doc = r]
           ELSE op' = Idle /\ UNCHANGED docRuns
    /\ UNCHANGED <<layout, gens, runs, crashes, docLayout, docGens>>
ForgetIntent ==
    op.step = "forget" /\ DocMoveOn("dir", "remove")
    /\ UNCHANGED <<layout, gens, runs, crashes, docLayout, docGens>>
RemoveRunDirectory ==
    /\ op.step = "remove"
    /\ docRuns' = [docRuns EXCEPT ![op.ws] = @ \ {op.doc}]
    /\ op' = [op EXCEPT !.step = "compact"]
    /\ UNCHANGED <<layout, gens, runs, crashes, docLayout, docGens>>

\* Fault: whether the target is among the generations is not looked at.
ResumeWithoutTarget(at) == IF at \in {"intent", "published"} THEN "doc_stage" ELSE "doc_rename"

\* A resumed run goes on where its files say.  A stage directory that is there is
\* not written to again.
ResumeStep(at) ==
    CASE at = "intent"    -> "doc_stage"
      [] at = "published" -> "propose"
      [] OTHER            -> "doc_rename"

\* recover_workspace_documents, when a run is open.
RecoverDocuments(w) ==
    /\ op = Idle
    /\ Selected(w)
    /\ docLayout[w] = "ready" /\ InventoryValid(w) /\ TerminalWhole(w)
    /\ Len(docGens[w]) <= MaxGenerations
    /\ Cardinality(Active(w)) = 1
    /\ LET r == CHOOSE r \in Active(w) : TRUE
       IN  /\ r.at = "published" => docGens[w][r.seq].whole
           /\ op' = [Idle EXCEPT !.kind = "documents", !.ws = w, !.doc = r,
                                 !.step = ResumeStep(r.at),
                                 !.seq = r.reg.seq, !.defs = r.reg.defs]
    /\ UNCHANGED <<layout, gens, runs, crashes, docVars>>

\* The process dies inside a write.
TearDocumentFile ==
    /\ crashes < MaxCrashes
    /\ op.step \in {"doc_intent", "doc_manifest", "complete"}
    /\ LET torn == CASE op.step = "doc_intent"   -> "intent_torn"
                     [] op.step = "doc_manifest" -> "stage_torn"
                     [] op.step = "complete"     -> "completion_torn"
       IN  docRuns' = [docRuns EXCEPT ![op.ws] =
                          (@ \ {op.doc}) \cup {[op.doc EXCEPT !.at = torn]}]
    /\ op' = Idle /\ crashes' = crashes + 1
    /\ UNCHANGED <<layout, gens, runs, docLayout, docGens>>

-----------------------------------------------------------------------------
(* Readers: load_workspace_documents, one read at a time and without a lock. *)

ListRegistry(w) ==
    /\ reader.at \in {"none", "returned"}
    /\ layout = "ready" /\ gens # <<>> /\ Len(gens) <= MaxGenerations
    /\ Selectable(Latest, w)
    /\ reader' = [at |-> "listed", ws |-> w, seq |-> Len(gens), doc |-> 0]

CheckRegistry ==
    /\ reader.at = "listed"
    /\ reader' = IF runs = {} THEN [reader EXCEPT !.at = "selected"] ELSE NoReader

CheckDocuments ==
    /\ reader.at = "selected"
    /\ LET w == reader.ws IN
       reader' = CASE docLayout[w] = "absent" ->
                         IF gens[reader.seq][w].docs = 0
                         THEN [reader EXCEPT !.at = "returned"] ELSE NoReader
                   [] docLayout[w] = "partial" -> NoReader
                   [] docLayout[w] = "ready" ->
                         IF InventoryValid(w) /\ Active(w) = {} /\ TerminalWhole(w)
                         THEN [reader EXCEPT !.at = "checked"] ELSE NoReader

ReadGenerations ==
    /\ reader.at = "checked"
    /\ LET w == reader.ws IN
       reader' = IF DocsLoadable(w) /\ Bound(w, reader.seq)
                 THEN [reader EXCEPT !.at = "returned", !.doc = Len(docGens[w])]
                 ELSE NoReader

Read == (\E w \in Workspace : ListRegistry(w)) \/ CheckRegistry \/ CheckDocuments
        \/ ReadGenerations

-----------------------------------------------------------------------------
DocStep ==
    \/ CreateDocLayout \/ MakeRunDirectory \/ WriteDocIntent \/ MakeDocStage
    \/ WriteDocManifest \/ RenameDocStage \/ WriteDocCompletion \/ Compact
    \/ ForgetIntent \/ RemoveRunDirectory

Next ==
    \/ RegistryNext /\ UNCHANGED <<docVars, reader>>
    \/ (\E w \in Workspace : BeginDocuments(w) \/ RecoverDocuments(w)) /\ UNCHANGED reader
    \/ (DocStep \/ TearDocumentFile) /\ UNCHANGED reader
    \/ Read /\ UNCHANGED <<registryVars, docVars>>

Spec == DocInit /\ [][Next]_vars

\* A process that is not killed goes on.  Operators who are told that a recovery is
\* pending run it, and wait in flock for registry.lock until they have it, however
\* often others take it before them.
Fairness ==
    /\ WF_vars((RegistryStep /\ UNCHANGED <<docVars, reader>>) \/ (DocStep /\ UNCHANGED reader))
    /\ SF_vars(BeginRecover /\ UNCHANGED <<docVars, reader>>)
    /\ \A w \in Workspace : SF_vars(RecoverDocuments(w) /\ UNCHANGED reader)
FairSpec == Spec /\ Fairness

-----------------------------------------------------------------------------
(* Properties. *)

\* What the operation in progress works on is there.
OperationOwnsItsRun ==
    /\ op.step \in RegistrySteps \ {"layout", "propose"} => op.run \in runs
    /\ op.step \in DocSteps => op.ws # None /\ op.doc # None
    /\ op.step \in DocSteps \ {"doc_layout", "doc_dir", "compact"} => op.doc \in docRuns[op.ws]

\* The stores and the operation in progress have the shapes described above.
TypeOK ==
    /\ OperationOwnsItsRun
    /\ layout \in {"absent", "partial", "ready"}
    /\ gens \in Seq(Definitions)
    /\ runs \subseteq Run
    /\ op \in Operation
    /\ crashes \in 0 .. MaxCrashes
    /\ docLayout \in [Workspace -> {"absent", "partial", "ready"}]
    /\ docGens \in [Workspace -> Seq(DocGeneration)]
    /\ docRuns \in [Workspace -> SUBSET DocRun]
    /\ reader \in [at : ReaderStates, ws : Workspace \cup {None}, seq : Nat, doc : Nat]

\* At most one registry run and, per workspace, one document run is not over,
\* however publications, recoveries and compactions died: recovery, which refuses
\* to choose between two, never has to.
OneOpenRun ==
    /\ Cardinality(runs) <= 1
    /\ \A w \in Workspace : Cardinality({r \in docRuns[w] : r.at # "completed"}) <= 1

\* Registered without a break since generation i.
Kept(w, i, j) == \A k \in i .. j : gens[k][w] # Absent
FirstOf(w, i) == \A k \in 1 .. i - 1 : gens[k][w] = Absent

\* No lost update: an operator who publishes definitions read long ago never
\* takes documents back, nor a version.
NoLostUpdate ==
    \A w \in Workspace : \A i, j \in DOMAIN gens :
        i < j /\ Kept(w, i, j) /\ FirstOf(w, i) =>
            \A k \in i .. j - 1 : /\ gens[k][w].docs <= gens[k + 1][w].docs
                                  /\ gens[k][w].version <= gens[k + 1][w].version

\* What the registry names is there, and a generation it never named is the last
\* one, of a run that is still open: nothing is orphaned between the two stores.
NamedIsPublished ==
    \A w \in Workspace : \A i \in DOMAIN gens :
        gens[i][w] # Absent => gens[i][w].docs <= Len(docGens[w])
AheadIsOpen ==
    \A w \in Workspace : \A i \in DOMAIN docGens[w] :
        \/ \E n \in DOMAIN gens : gens[n][w] # Absent /\ gens[n][w].docs = i
        \/ i = Len(docGens[w]) /\ \E r \in docRuns[w] : r.seq = i /\ r.at # "completed"
StoresAgree == NamedIsPublished /\ AheadIsOpen

\* A publication that died, was recovered and is retried is not appended twice.
NothingPublishedTwice ==
    \A w \in Workspace : \A i \in DOMAIN docGens[w] :
        i > 1 => docGens[w][i].content # docGens[w][i - 1].content

\* A reader returns the documents that the registry it has read names.
LoadIsConsistent ==
    reader.at = "returned" => gens[reader.seq][reader.ws].docs = reader.doc

\* A generation that the registry names can be read.
NamedIsWhole ==
    \A w \in Workspace : \A i \in DOMAIN gens :
        gens[i][w] # Absent /\ gens[i][w].docs # 0 => docGens[w][gens[i][w].docs].whole

\* In peace each active workspace's named documents can be loaded.
NamedIsLoadable ==
    op = Idle /\ Loadable /\ gens # <<>> =>
        \A w \in Workspace :
            Selectable(Latest, w) /\ Active(w) = {} /\ Latest[w].docs # 0
                => DocsLoadable(w) /\ Bound(w, Len(gens))

\* A run that cannot end: a file of it or of the generation it published is torn,
\* or the registry has gone past the generation the run was to publish.
Damaged(w) ==
    \/ \E r \in runs : r.at \in Torn
    \/ \E r \in docRuns[w] : r.at \in {"dir", "intent_torn", "completion_torn"}
    \/ \E i \in DOMAIN docGens[w] : ~ docGens[w][i].whole
Overtaken(r) == Len(gens) >= r.reg.seq /\ ~ (Len(gens) = r.reg.seq /\ Latest = r.reg.defs)

\* Recovery ends every document run that is not damaged and that no other
\* publication has overtaken, whatever died on the way.
OpenRunsEnd ==
    \A w \in Workspace :
        Active(w) # {} ~>
            Active(w) = {} \/ Damaged(w) \/ \E r \in Active(w) : Overtaken(r)
=============================================================================
