--------------------------- MODULE WorkspaceRegistry ---------------------------
(***************************************************************************)
(* The registry of workspaces (src/src/ao_lore/workspace_registry.py): an  *)
(* append-only chain of generations, each the complete set of workspace    *)
(* definitions, published under registry.lock by intent, stage, rename,    *)
(* completion and clean-up.                                                *)
(*                                                                         *)
(* One action is one durable write, so that the process may die between    *)
(* any two of them, or inside one and leave a torn file.  `op' is the      *)
(* operation that holds the lock.                                          *)
(*                                                                         *)
(* Generations are only ever appended and each one binds its predecessor,  *)
(* so a registry digest is the sequence number of the generation.          *)
(***************************************************************************)
EXTENDS Integers, Sequences, FiniteSets

CONSTANTS
    Workspace,
    MaxGenerations, \* _MAX_GENERATIONS, of the registry and of documents
    MaxSequence,    \* bound: nobody begins a publication beyond this many
    MaxCrashes,     \* bound: crashes in a behaviour
    Absent,         \* a workspace without a definition
    None            \* no value

VARIABLES
    layout,         \* registry/ and its entries: "absent", "partial", "ready"
    gens,           \* generations/, in sequence order: the definitions of each
    runs,           \* recovery/ and staging/: the runs whose intent file exists
    op,             \* the operation that holds the lock
    crashes         \* how often a process died

registryVars == <<layout, gens, runs, op, crashes>>

ASSUME RegistryConstants ==
    /\ MaxGenerations \in Nat \ {0} /\ MaxSequence \in Nat /\ MaxCrashes \in Nat
    /\ None \notin Workspace

-----------------------------------------------------------------------------
(* Values. *)

\* What the registry decides on: the version, whether the workspace may be
\* selected, and which of its document generations is named (0: none).
Definition == [version : Nat \ {0}, active : BOOLEAN, docs : Nat]
ASSUME AbsentIsNoDefinition == Absent \notin Definition

Definitions == [Workspace -> Definition \cup {Absent}]
Generation == [seq : Nat \ {0}, defs : Definitions]
Nothing == [w \in Workspace |-> Absent]

\* How far the files of a run got.  A completed run whose intent file is gone
\* leaves only its completion, which binds a generation that is there.
RunStates == {"intent_torn", "intent", "stage_dir", "stage_torn", "manifest", "staged",
              "published", "completion_torn", "completed"}
Torn == {"intent_torn", "stage_torn", "completion_torn"}
Run == [gen : Generation, at : RunStates]

Kinds == {"idle", "publish", "recover", "documents"}
RegistrySteps == {"layout", "propose", "stage", "manifest", "definitions", "rename",
                  "completion", "unlink"}

\* The operation in progress: its next write, the definitions or the exact
\* generation (seq # 0) it is to publish, the run it is working on and whether
\* that is its own.  A documents operation adds its workspace and document run.
Idle == [kind |-> "idle", step |-> "none", seq |-> 0, defs |-> Nothing,
         run |-> None, own |-> FALSE, ws |-> None, doc |-> None]

-----------------------------------------------------------------------------
(* What the code derives from the files. *)

Latest == IF gens = <<>> THEN Nothing ELSE gens[Len(gens)]

\* load_workspace_registry: a chain within its budget, and no open run.
Loadable == /\ layout = "ready"
            /\ Len(gens) <= MaxGenerations
            /\ runs = {}

\* select_workspace.
Selectable(defs, w) == defs[w] # Absent /\ defs[w].active

\* Fault: only the sequence is compared, not the versions.
AdvancesInSequence(g) == g.seq = Len(gens) + 1

\* _assert_generation_advances.
Advances(g) ==
    /\ g.seq = Len(gens) + 1
    /\ \A w \in Workspace :
          g.defs[w] # Absent /\ Latest[w] # Absent =>
              g.defs[w].version > Latest[w].version \/ g.defs[w] = Latest[w]

\* The next write that a run in this state is waiting for.
NextStep(at) ==
    CASE at = "intent"    -> "stage"
      [] at = "stage_dir" -> "manifest"
      [] at = "manifest"  -> "definitions"
      [] at = "staged"    -> "rename"
      [] at = "published" -> "completion"
      [] at = "completed" -> "unlink"

\* Fault: a run whose stage is complete is not resumed.
RecoverableUnlessStaged ==
    \A r \in runs : r.at \notin Torn \cup {"staged"} /\ Len(gens) <= MaxGenerations

\* _recover_locked reports "investigate" for a run with a torn file, and for any
\* run once there are more generations than it lists.
Recoverable ==
    \A r \in runs : r.at \notin Torn /\ Len(gens) <= MaxGenerations

\* The operation takes up an open run; without one it turns to its own purpose.
\* (Runs have random names: which one comes first is not determined.)
TakeUp(o, open) ==
    IF open # {}
    THEN LET r == CHOOSE r \in open : TRUE
         IN  [o EXCEPT !.step = NextStep(r.at), !.run = r]
    ELSE IF o.kind = "publish" THEN [o EXCEPT !.step = "propose", !.run = None]
    ELSE Idle

-----------------------------------------------------------------------------
(* Publication. *)

Init ==
    /\ layout = "absent" /\ gens = <<>> /\ runs = {} /\ op = Idle /\ crashes = 0

\* What an operator asks for: the definitions of a generation read earlier, with
\* one workspace added, dropped, or switched on or off under the next version.
Edits(defs) ==
    {[defs EXCEPT ![w] = [version |-> 1, active |-> TRUE, docs |-> 0]] :
        w \in {v \in Workspace : defs[v] = Absent}}
    \cup {[defs EXCEPT ![w] = Absent] : w \in {v \in Workspace : defs[v] # Absent}}
    \cup {[defs EXCEPT ![w] = [version |-> @.version + 1, active |-> ~ @.active,
                               docs |-> @.docs]] :
        w \in {v \in Workspace : defs[v] # Absent}}
Basis(n) == IF n = 0 THEN Nothing ELSE gens[n]

\* The lock is taken, open runs are resumed first (_recover_locked).
Begin(kind, seq, defs) ==
    /\ op = Idle
    /\ Recoverable
    /\ LET o == [Idle EXCEPT !.kind = kind, !.seq = seq, !.defs = defs]
       IN  op' = IF layout = "ready" THEN TakeUp(o, runs) ELSE [o EXCEPT !.step = "layout"]
    /\ UNCHANGED <<layout, gens, runs, crashes>>

\* publish_workspace_registry_generation, publish_exact_...: neither accepts a
\* registry whose layout is partial.
BeginPublish ==
    /\ layout # "partial"
    /\ Len(gens) < MaxSequence
    /\ \E n \in 0 .. Len(gens) : \E defs \in Edits(Basis(n)) :
          Begin("publish", 0, defs) \/ Begin("publish", n + 1, defs)

\* recover_workspace_registry, which has something to do.
BeginRecover ==
    /\ layout # "ready" \/ runs # {}
    /\ Begin("recover", 0, Nothing)

\* _locked_storage makes the directories and the lock file.
CreateLayout ==
    /\ op.step = "layout"
    /\ layout' = IF layout = "absent" THEN "partial" ELSE "ready"
    /\ op' = IF layout = "absent" THEN op ELSE TakeUp(op, runs)
    /\ UNCHANGED <<gens, runs, crashes>>

Proposal == [seq |-> IF op.seq = 0 THEN Len(gens) + 1 ELSE op.seq, defs |-> op.defs]

\* An exact retry: the last generation is what is asked for.
AlreadyPublished ==
    gens # <<>> /\ Latest = op.defs /\ op.seq \in {0, Len(gens)}
MayPublish == Loadable /\ ~ AlreadyPublished /\ Advances(Proposal)

WriteIntent ==
    /\ op.step = "propose" /\ MayPublish
    /\ LET r == [gen |-> Proposal, at |-> "intent"]
       IN  /\ runs' = runs \cup {r}
           /\ op' = [op EXCEPT !.step = "stage", !.run = r, !.own = TRUE]
    /\ UNCHANGED <<layout, gens, crashes>>

\* Fault: every refusal goes on as if documents were being published.
ReturnUnpublishedToDocuments ==
    /\ op.step = "propose" /\ ~ MayPublish
    /\ op' = [op EXCEPT !.step = "complete"]
    /\ UNCHANGED <<layout, gens, runs, crashes>>

\* Fault: the refusal of the registry does not end the documents operation.
ReturnUnpublishedAnyhow ==
    /\ op.step = "propose" /\ ~ MayPublish
    /\ op' = IF op.kind = "documents" THEN [op EXCEPT !.step = "complete"] ELSE Idle
    /\ UNCHANGED <<layout, gens, runs, crashes>>

\* An exact retry, after which a documents operation goes on, or a refusal.
ReturnUnpublished ==
    /\ op.step = "propose" /\ ~ MayPublish
    /\ op' = IF op.kind = "documents" /\ Loadable /\ AlreadyPublished
             THEN [op EXCEPT !.step = "complete"] ELSE Idle
    /\ UNCHANGED <<layout, gens, runs, crashes>>

\* A run moves on by one write.
MoveOn(at, step) ==
    LET r == [op.run EXCEPT !.at = at]
    IN  /\ runs' = (runs \ {op.run}) \cup {r}
        /\ op' = [op EXCEPT !.step = step, !.run = r]

\* _stage_generation.
MakeStage ==
    op.step = "stage" /\ MoveOn("stage_dir", "manifest") /\ UNCHANGED <<layout, gens, crashes>>
StageManifest ==
    op.step = "manifest" /\ MoveOn("manifest", "definitions")
    /\ UNCHANGED <<layout, gens, crashes>>
StageDefinitions ==
    op.step = "definitions" /\ MoveOn("staged", "rename") /\ UNCHANGED <<layout, gens, crashes>>

\* Room for one more generation is not asked for.
RenameStage ==
    /\ op.step = "rename"
    /\ gens' = Append(gens, op.run.gen.defs)
    /\ MoveOn("published", "completion")
    /\ UNCHANGED <<layout, crashes>>

WriteCompletion ==
    op.step = "completion" /\ MoveOn("completed", "unlink") /\ UNCHANGED <<layout, gens, crashes>>

\* The intent file goes; then the operation is over, or turns from the run it
\* recovered to its own proposal, or to the documents it publishes.
UnlinkIntent ==
    /\ op.step = "unlink"
    /\ runs' = runs \ {op.run}
    /\ op' = IF ~ op.own THEN TakeUp(op, runs')
             ELSE IF op.kind = "documents"
             THEN [op EXCEPT !.step = "complete", !.run = None, !.own = FALSE]
             ELSE Idle
    /\ UNCHANGED <<layout, gens, crashes>>

Crash ==
    /\ op # Idle /\ crashes < MaxCrashes
    /\ crashes' = crashes + 1
    /\ op' = Idle
    /\ UNCHANGED <<layout, gens, runs>>

\* The process dies inside a write: the file is there, its bytes are not.
TearRegistryFile ==
    /\ op # Idle /\ crashes < MaxCrashes
    /\ crashes' = crashes + 1
    /\ \/ /\ op.step = "propose" /\ MayPublish
          /\ runs' = runs \cup {[gen |-> Proposal, at |-> "intent_torn"]}
       \/ /\ op.step \in {"manifest", "definitions", "completion"}
          /\ runs' = (runs \ {op.run}) \cup
                {[op.run EXCEPT !.at = IF op.step = "completion" THEN "completion_torn"
                                       ELSE "stage_torn"]}
    /\ op' = Idle
    /\ UNCHANGED <<layout, gens>>

RegistryStep ==
    \/ CreateLayout \/ WriteIntent \/ ReturnUnpublished \/ MakeStage \/ StageManifest
    \/ StageDefinitions \/ RenameStage \/ WriteCompletion \/ UnlinkIntent

RegistryNext == BeginPublish \/ BeginRecover \/ RegistryStep \/ Crash \/ TearRegistryFile
=============================================================================
