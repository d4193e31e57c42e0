-------------------------- MODULE EvidenceAcquisition --------------------------
(***************************************************************************)
(* Acquisition of official evidence and its recovery                       *)
(* (src/src/ao_lore/evidence_acquisition.py).  A source is fetched once:   *)
(* the record of it is held as pending, an intent names the attempt, the   *)
(* body is staged, published as an artifact under its digest, and then the *)
(* record and the terminal are written.                                    *)
(*                                                                         *)
(* Everything happens under acquisition.lock; one action is one durable    *)
(* write, so that the process may die between any two.  A digest is the    *)
(* content it is of, and an attempt is a source and a content, as its name *)
(* in the code is.                                                         *)
(***************************************************************************)
EXTENDS Integers, Sequences, FiniteSets

CONSTANTS
    Sources,        \* how many sources there are; a source is its number
    Content,        \* what an answer may hold
    MaxArtifacts,   \* AcquisitionLimits.max_retained_files
    MaxCrashes,     \* bound: crashes in a behaviour
    None            \* no value

VARIABLES
    records,        \* records/: the content of the record of a source
    artifacts,      \* artifacts/sha256/
    pending,        \* pending/: attempts whose record waits
    intents,        \* recovery/: attempts with an intent
    parts,          \* staging/: attempts with a staged body
    terminals,      \* recovery/: completed attempts
    torn,           \* files that a process died in
    op,             \* the operation that holds the lock
    crashes         \* how often a process died

acquisitionVars == <<records, artifacts, pending, intents, parts, terminals, torn>>

ASSUME AcquisitionConstants ==
    /\ Sources \in Nat \ {0} /\ MaxArtifacts \in Nat /\ MaxCrashes \in Nat
    /\ None \notin Content

-----------------------------------------------------------------------------
(* Values. *)

Source == 1 .. Sources
Attempt == [source : Source, content : Content]
TornFile == [file : {"part", "record", "terminal"}, of : Attempt]

\* An operation that acquires sources, recovers an attempt, or refreshes under a
\* policy (the last four fields, EvidenceRefresh).
Idle == [step |-> "none", todo |-> {}, attempt |-> None,
         scope |-> None, time |-> 0, answer |-> None, history |-> None]

\* The files that a process left torn.
TornOf(file, a) == [file |-> file, of |-> a]
WholeRecord(s) ==
    records[s] # None /\ TornOf("record", [source |-> s, content |-> records[s]]) \notin torn

\* The sources of a call that have no record yet, and the one it comes to first.
Missing(todo) == {s \in todo : records[s] = None}
First(S) == CHOOSE s \in S : \A u \in S : s <= u

-----------------------------------------------------------------------------
(* acquire_official_evidence *)

AcquisitionInit ==
    /\ records = [s \in Source |-> None]
    /\ artifacts = {} /\ pending = {} /\ intents = {} /\ parts = {} /\ terminals = {}
    /\ torn = {}
    /\ op = Idle /\ crashes = 0

\* A record that is there is returned, or ends the call if it cannot be read.
BeginAcquire(todo) ==
    /\ op = Idle
    /\ Missing(todo) # {}
    /\ \A s \in todo : s < First(Missing(todo)) => WholeRecord(s)
    /\ op' = [Idle EXCEPT !.step = "pending", !.todo = todo]
    /\ UNCHANGED <<acquisitionVars, crashes>>

\* Room for one more artifact, whether or not the content is one already.
Room == Cardinality(artifacts) < MaxArtifacts

\* The source answers and its record is written, under the name of the attempt:
\* an attempt that left one before it had an intent is refused for ever.
WritePending ==
    /\ op.step = "pending"
    /\ Room
    /\ \E c \in Content :
          LET a == [source |-> First(Missing(op.todo)), content |-> c]
          IN  /\ a \notin pending
              /\ pending' = pending \cup {a}
              /\ op' = [op EXCEPT !.step = "intent", !.attempt = a]
    /\ UNCHANGED <<records, artifacts, intents, parts, terminals, torn, crashes>>

\* The source is unavailable, the attempt is not new, or there is no room.
AcquireFails ==
    /\ op.step = "pending"
    /\ op' = Idle
    /\ UNCHANGED <<acquisitionVars, crashes>>

WriteIntent ==
    /\ op.step = "intent"
    /\ intents' = intents \cup {op.attempt}
    /\ op' = [op EXCEPT !.step = "stage"]
    /\ UNCHANGED <<records, artifacts, pending, parts, terminals, torn, crashes>>

StagePart ==
    /\ op.step = "stage"
    /\ parts' = parts \cup {op.attempt}
    /\ op' = [op EXCEPT !.step = "publish"]
    /\ UNCHANGED <<records, artifacts, pending, intents, terminals, torn, crashes>>

\* The part becomes the artifact, or is unlinked because the artifact is there.
PublishPart ==
    /\ op.step = "publish"
    /\ artifacts' = artifacts \cup {op.attempt.content}
    /\ parts' = parts \ {op.attempt}
    /\ op' = [op EXCEPT !.step = "record"]
    /\ UNCHANGED <<records, pending, intents, terminals, torn, crashes>>

\* Fault: the record replaces the one that is there.
WriteRecordOver ==
    /\ op.step = "record"
    /\ records' = [records EXCEPT ![op.attempt.source] = op.attempt.content]
    /\ op' = [op EXCEPT !.step = "terminal"]
    /\ UNCHANGED <<artifacts, pending, intents, parts, terminals, torn, crashes>>

\* _publish_or_verify_record: a record of another attempt is a conflict.
WriteRecord ==
    /\ op.step = "record"
    /\ LET s == op.attempt.source IN
       IF records[s] = None
       THEN /\ records' = [records EXCEPT ![s] = op.attempt.content]
            /\ op' = [op EXCEPT !.step = "terminal"]
       ELSE /\ UNCHANGED records
            /\ op' = IF WholeRecord(s) /\ records[s] = op.attempt.content
                     THEN [op EXCEPT !.step = "terminal"] ELSE Idle
    /\ UNCHANGED <<artifacts, pending, intents, parts, terminals, torn, crashes>>

\* _publish_or_verify_terminal; then the next source of the call.
WriteTerminal ==
    /\ op.step = "terminal"
    /\ terminals' = terminals \cup {op.attempt}
    /\ op' = IF Missing(op.todo) = {} THEN Idle
             ELSE [op EXCEPT !.step = "pending", !.attempt = None]
    /\ UNCHANGED <<records, artifacts, pending, intents, parts, torn, crashes>>

-----------------------------------------------------------------------------
(* recover_official_evidence *)

\* An attempt that recovery can take further.  A staged body whose artifact is
\* there is ambiguous, and an attempt with neither is incomplete.
Resumable(a) ==
    /\ a \in intents \ terminals
    /\ IF a \in parts
       THEN a.content \notin artifacts /\ TornOf("part", a) \notin torn
       ELSE /\ a.content \in artifacts
            /\ records[a.source] \in {None, a.content}
            /\ TornOf("record", a) \notin torn

\* One attempt of a recovery; the others are independent of it.  A torn terminal
\* stops recovery as a whole.
RecoverAttempt(a) ==
    /\ op = Idle
    /\ \A t \in torn : t.file # "terminal"
    /\ Resumable(a)
    /\ op' = [Idle EXCEPT !.attempt = a,
                          !.step = IF a \in parts THEN "publish" ELSE "record"]
    /\ UNCHANGED <<acquisitionVars, crashes>>

-----------------------------------------------------------------------------
\* A process dies inside a write.  A torn pending record, or a torn intent, is as
\* good as the pending record alone.
TearAcquisitionFile ==
    /\ crashes < MaxCrashes
    /\ LET a == op.attempt IN
       \/ /\ op.step = "stage"
          /\ parts' = parts \cup {a} /\ torn' = torn \cup {TornOf("part", a)}
          /\ UNCHANGED <<records, terminals>>
       \/ /\ op.step = "record" /\ records[a.source] = None
          /\ records' = [records EXCEPT ![a.source] = a.content]
          /\ torn' = torn \cup {TornOf("record", a)}
          /\ UNCHANGED <<parts, terminals>>
       \/ /\ op.step = "terminal"
          /\ terminals' = terminals \cup {a} /\ torn' = torn \cup {TornOf("terminal", a)}
          /\ UNCHANGED <<records, parts>>
    /\ op' = Idle /\ crashes' = crashes + 1
    /\ UNCHANGED <<artifacts, pending, intents>>

Crash ==
    /\ op # Idle /\ crashes < MaxCrashes
    /\ op' = Idle /\ crashes' = crashes + 1
    /\ UNCHANGED acquisitionVars

AcquisitionStep ==
    WriteIntent \/ StagePart \/ PublishPart \/ WriteRecord \/ WriteTerminal

-----------------------------------------------------------------------------
(* Properties. *)

\* A record of a source always has its artifact, and the terminal of an attempt
\* says that the record of its source is the one the attempt was for.
RecordHasItsArtifact ==
    /\ \A s \in Source : records[s] # None => records[s] \in artifacts
    /\ \A a \in terminals : records[a.source] = a.content
=============================================================================
