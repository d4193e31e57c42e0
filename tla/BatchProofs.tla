------------------------------ MODULE BatchProofs ------------------------------
(***************************************************************************)
(* What BatchIngestion promises for any batches, manifests and candidates, *)
(* and any number of reviews, deaths and changed sources.                  *)
(***************************************************************************)
EXTENDS BatchIngestion, TLAPS

-----------------------------------------------------------------------------
(* Types. *)

Work == [step : Steps, provenance : Provenance \cup {None}, item : Item \cup {None}]

\* A reviewer at work knows its candidate and its decision; a run has a checkpoint,
\* and a document to work on until its checkpoint is complete.
AtDocument == {"read", "propose", "persist", "rename", "reopen", "check", "append"}
Bearings ==
    /\ review.step # "none" => review.candidate \in Candidate /\ review.decision \in Decision
    /\ \A b \in Batch :
          /\ checkpoints[b] # None => Len(checkpoints[b]) <= Len(Documents[b])
          /\ work[b].step # "none" => checkpoints[b] # None
          /\ work[b].step \in AtDocument => Len(checkpoints[b]) < Len(Documents[b])
Typed == TypeOK /\ Bearings

\* The document a run is at is one.
LEMMA DocTyped ==
  ASSUME Typed, NEW b \in Batch, work[b].step \in AtDocument
  PROVE  /\ checkpoints[b] \in Seq(Item)
         /\ Len(checkpoints[b]) + 1 \in DOMAIN Documents[b]
         /\ Doc(b) \in Document /\ Doc(b).candidate \in Candidate /\ Doc(b).trace \in Trace
  <1>1. checkpoints[b] \in Seq(Item) /\ Len(checkpoints[b]) < Len(Documents[b])
    BY DEF Typed, TypeOK, Bearings, AtDocument
  <1>2. Documents[b] \in Seq(Document)
    BY BatchConstants
  <1>3. Len(checkpoints[b]) + 1 \in DOMAIN Documents[b]
    BY <1>1, <1>2
  <1>4. Documents[b][Len(checkpoints[b]) + 1] \in Document
    BY <1>2, <1>3
  <1>5. Doc(b) \in Document
    BY <1>4 DEF Doc
  <1> QED BY <1>1, <1>3, <1>5 DEF Document

\* The status of a candidate is one.
LEMMA StatusTyped ==
  ASSUME Typed, NEW c \in Candidate
  PROVE  Status(c) \in Statuses
  BY DEF Typed, TypeOK, Status, StatusAfter, Statuses

\* What a run at its step must know.
Equipped(b) ==
    /\ work[b].step \in {"persist", "rename"} => work[b].provenance # None
    /\ work[b].step \in {"reopen", "check", "append"} => work[b].item # None
    /\ work[b].step # "none" => checkpoints[b] # None
    /\ work[b].step \in AtDocument => Len(checkpoints[b]) < Len(Documents[b])

\* A run that goes on has another step and what it had.
LEMMA GoesTyped ==
  ASSUME Typed, NEW b \in Batch, NEW step \in Steps, Goes(b, step)
  PROVE  /\ work' \in [Batch -> Work] /\ \A d \in Batch \ {b} : work'[d] = work[d]
         /\ work'[b].step = step /\ work'[b].provenance = work[b].provenance
         /\ work'[b].item = work[b].item
  BY DEF Typed, TypeOK, Goes, Work

\* A run that ends a step has an item, or nothing.
LEMMA EndsTyped ==
  ASSUME Typed, NEW b \in Batch, NEW step \in Steps, NEW item \in Item, Ends(b, step, item)
  PROVE  /\ work' \in [Batch -> Work] /\ \A d \in Batch \ {b} : work'[d] = work[d]
         /\ work'[b].step = step /\ work'[b].item = item
  <1>1. [NoWork EXCEPT !.step = step, !.item = item] \in Work
    BY DEF NoWork, Work
  <1> QED BY <1>1 DEF Typed, TypeOK, Ends, Work, NoWork

\* A run that is over has nothing.
LEMMA AbortsTyped ==
  ASSUME Typed, NEW b \in Batch, Aborts(b)
  PROVE  /\ work' \in [Batch -> Work] /\ \A d \in Batch \ {b} : work'[d] = work[d]
         /\ work'[b] = NoWork /\ work'[b].step = "none"
  <1>1. NoWork \in Work
    BY DEF NoWork, Work, Steps
  <1> QED BY <1>1 DEF Typed, TypeOK, Aborts, NoWork, Work

\* The items that a run makes.
LEMMA ItemsTyped ==
  /\ Rejected \in Item
  /\ \A status \in {"created", "unchanged"} : [Rejected EXCEPT !.status = status] \in Item
  /\ \A item \in Item, p \in Provenance, r \in Statuses :
        [item EXCEPT !.provenance = p, !.review = r] \in Item
  BY DEF Rejected, Item

\* A step that changes one run and nothing else.
LEMMA OnlyWorkTyped ==
  ASSUME Typed, NEW b \in Batch, OnlyWork, work' \in [Batch -> Work],
         \A d \in Batch \ {b} : work'[d] = work[d], Equipped(b)'
  PROVE  Typed'
  <1>1. UNCHANGED <<candidates, reviews, torn, locks, review, checkpoints, finals, spoiled, now,
                    crashes>>
    BY DEF OnlyWork, storeVars
  <1>2. \A d \in Batch : Equipped(d)'
    BY <1>1 DEF Equipped, Typed, TypeOK, Bearings
  <1>3. TypeOK'
    BY <1>1, <1>2 DEF Typed, TypeOK, Work, Equipped
  <1>4. Bearings'
    BY <1>1, <1>2 DEF Typed, Bearings, Equipped
  <1> QED BY <1>3, <1>4 DEF Typed

\* The steps of a reviewer keep the types.
LEMMA StoreTyped ==
  ASSUME Typed, StoreNext, UNCHANGED batchVars
  PROVE  Typed'
  <1>1. UNCHANGED <<candidates, checkpoints, finals, work, spoiled, now>>
    BY DEF StoreNext, BeginReview, ReviewStep, CreateEvent, WriteEvent, UnlinkReviewLock,
           CrashReview, batchVars
  <1> DEFINE Reviewing ==
        /\ reviews \in [Candidate -> Seq(Decision)]
        /\ torn \subseteq Candidate /\ locks \subseteq Candidate
        /\ review \in [step : {"none", "create", "write", "unlock"},
                       candidate : Candidate \cup {None}, decision : Decision \cup {None}]
        /\ crashes \in 0 .. MaxCrashes
        /\ review.step # "none" => review.candidate \in Candidate /\ review.decision \in Decision
  <1>2. Reviewing
    BY DEF Typed, TypeOK, Bearings
  <1> SUFFICES Reviewing'
    BY <1>1 DEF Typed, TypeOK, Bearings
  <1>3. ASSUME NEW c \in Candidate, NEW d \in Decision, BeginReview(c, d) PROVE Reviewing'
    BY <1>2, <1>3 DEF BeginReview
  <1>4. CASE CreateEvent
    BY <1>2, <1>4 DEF CreateEvent
  <1>5. CASE WriteEvent
    <2>1. review.candidate \in Candidate /\ review.decision \in Decision
      BY <1>2, <1>5 DEF WriteEvent
    <2>2. Append(reviews[review.candidate], review.decision) \in Seq(Decision)
      BY <1>2, <2>1
    <2> QED BY <1>2, <1>5, <2>1, <2>2 DEF WriteEvent
  <1>6. CASE UnlinkReviewLock
    BY <1>2, <1>6 DEF UnlinkReviewLock, NoReview
  <1>7. CASE CrashReview
    BY <1>2, <1>7, StoreConstants DEF CrashReview, NoReview
  <1> QED BY <1>3, <1>4, <1>5, <1>6, <1>7 DEF StoreNext, ReviewStep

\* The stores are empty, and nobody is at work.
THEOREM InitTyped == Init => Typed
  <1> SUFFICES ASSUME Init PROVE Typed
    OBVIOUS
  <1>1. NoWork \in Work /\ NoWork.step = "none"
    BY DEF NoWork, Work, Steps
  <1>2. /\ work \in [Batch -> Work]
        /\ \A b \in Batch : work[b].step = "none" /\ checkpoints[b] = None
    BY <1>1 DEF Init
  <1>3. /\ checkpoints \in [Batch -> Seq(Item) \cup {None}]
        /\ finals \in [Batch -> Seq(Item) \cup {None}]
    BY DEF Init
  <1>4. /\ review \in [step : {"none", "create", "write", "unlock"},
                       candidate : Candidate \cup {None}, decision : Decision \cup {None}]
        /\ review.step = "none"
    BY DEF Init, StoreInit, NoReview
  <1>5. /\ candidates \in [Candidate -> Provenance \cup {None}]
        /\ reviews \in [Candidate -> Seq(Decision)]
        /\ torn \subseteq Candidate /\ locks \subseteq Candidate /\ spoiled \subseteq Candidate
        /\ now \in 0 .. MaxNow /\ crashes \in 0 .. MaxCrashes
    BY StoreConstants DEF Init, StoreInit
  <1>6. TypeOK
    BY <1>2, <1>3, <1>4, <1>5 DEF TypeOK, Work
  <1>7. Bearings
    BY <1>2, <1>4 DEF Bearings, AtDocument
  <1> QED BY <1>6, <1>7 DEF Typed

\* A step of a batch keeps the types.
LEMMA BatchTyped ==
  ASSUME Typed, NEW b \in Batch, Open(b) \/ BatchStep(b) \/ CrashBatch(b)
  PROVE  Typed'
  <1>1. CASE Open(b)
    <2> DEFINE items == IF checkpoints[b] = None THEN <<>> ELSE checkpoints[b]
    <2>0. Documents[b] \in Seq(Document) /\ Len(Documents[b]) \in Nat /\ <<>> \in Seq(Item)
      BY BatchConstants
    <2>1. items \in Seq(Item) /\ items # None /\ Len(items) <= Len(Documents[b])
      <3>1. None \notin Seq(Item)
        BY NoneIsNoValue
      <3>2. CASE checkpoints[b] = None
        <4>1. items = <<>> /\ Len(<<>>) = 0 /\ <<>> # None
          BY <2>0, <3>1, <3>2
        <4>2. 0 <= Len(Documents[b])
          BY <2>0
        <4> QED BY <2>0, <4>1, <4>2
      <3>3. CASE checkpoints[b] # None
        BY <3>3 DEF Typed, TypeOK, Bearings
      <3> QED BY <3>2, <3>3
    <2>2. checkpoints' = [checkpoints EXCEPT ![b] = items] /\ Goes(b, Onward(items, b))
      BY <1>1 DEF Open
    <2>3. Onward(items, b) \in {"verify", "read"}
      BY DEF Onward
    <2>4. /\ Onward(items, b) \in Steps
          /\ Onward(items, b) \in AtDocument => Len(items) < Len(Documents[b])
      BY <2>1, <2>3, BatchConstants DEF Onward, Steps, AtDocument
    <2> HIDE DEF items
    <2>5. /\ work' \in [Batch -> Work] /\ \A d \in Batch \ {b} : work'[d] = work[d]
          /\ work'[b].step = Onward(items, b)
      BY <2>2, <2>4, GoesTyped
    <2>6. /\ checkpoints' \in [Batch -> Seq(Item) \cup {None}] /\ checkpoints'[b] = items
          /\ \A d \in Batch \ {b} : checkpoints'[d] = checkpoints[d]
      BY <2>1, <2>2 DEF Typed, TypeOK
    <2>7. UNCHANGED <<candidates, reviews, torn, locks, review, finals, spoiled, now, crashes>>
      BY <1>1 DEF Open, storeVars
    <2>8. \A d \in Batch : Equipped(d)'
      BY <2>1, <2>3, <2>4, <2>5, <2>6 DEF Equipped, Typed, TypeOK, Bearings
    <2>9. TypeOK'
      BY <2>5, <2>6, <2>7, <2>8 DEF Typed, TypeOK, Work, Equipped
    <2>10. Bearings'
      BY <2>1, <2>6, <2>7, <2>8 DEF Typed, Bearings, Equipped
    <2> QED BY <2>9, <2>10 DEF Typed
  <1>2. SUFFICES ASSUME work[b] # NoWork, BatchStep(b) \/ CrashBatch(b) PROVE Typed'
    <2>1. BatchStep(b) => work[b].step # "none"
      BY DEF BatchStep, ReadSource, Propose, Persist, Rename, Reopen, CheckItem, AppendItem,
             CheckAll, WriteFinal
    <2> QED BY <1>1, <2>1 DEF NoWork, CrashBatch
  <1>3. Equipped(b)
    BY DEF Equipped, Typed, TypeOK, Bearings
  <1>4. ASSUME OnlyWork, work' \in [Batch -> Work], \A d \in Batch \ {b} : work'[d] = work[d],
               work'[b].step \in {"persist", "rename"} => work'[b].provenance # None,
               work'[b].step \in {"reopen", "check", "append"} => work'[b].item # None,
               work[b].step \in AtDocument \/ work'[b].step \notin AtDocument,
               work[b].step # "none"
        PROVE  Typed'
    <2>1. Equipped(b)'
      BY <1>3, <1>4 DEF Equipped, OnlyWork
    <2> QED BY <1>4, <2>1, OnlyWorkTyped
  <1>5. ASSUME OnlyWork, Aborts(b) PROVE Typed'
    <2>1. /\ work' \in [Batch -> Work] /\ \A d \in Batch \ {b} : work'[d] = work[d]
          /\ work'[b].step = "none"
      BY <1>5, AbortsTyped
    <2>2. Equipped(b)'
      BY <2>1 DEF Equipped, AtDocument
    <2> QED BY <1>5, <2>1, <2>2, OnlyWorkTyped
  <1>6. ASSUME OnlyWork, work[b].step \in AtDocument, NEW item \in Item,
               Ends(b, "check", item) \/ Ends(b, "reopen", item)
        PROVE  Typed'
    <2>1. /\ work' \in [Batch -> Work] /\ \A d \in Batch \ {b} : work'[d] = work[d]
          /\ work'[b].step \in {"check", "reopen"} /\ work'[b].item = item
      BY <1>6, EndsTyped DEF Steps
    <2>2. item # None /\ work[b].step # "none"
      BY <1>6, NoneIsNoValue DEF AtDocument
    <2> QED BY <1>4, <1>6, <2>1, <2>2
  <1>7. CASE ReadSource(b)
    <2>1. OnlyWork /\ work[b].step = "read" /\ (Goes(b, "propose") \/ Ends(b, "check", Rejected))
      BY <1>7 DEF ReadSource, Rejects
    <2>2. CASE Goes(b, "propose")
      <3>1. /\ work' \in [Batch -> Work] /\ \A d \in Batch \ {b} : work'[d] = work[d]
            /\ work'[b].step = "propose"
        BY <2>2, GoesTyped DEF Steps
      <3> QED BY <1>4, <2>1, <3>1 DEF AtDocument
    <2> QED BY <1>6, <2>1, <2>2, ItemsTyped DEF AtDocument
  <1>8. CASE Propose(b)
    <2>1. OnlyWork /\ work[b].step = "propose" /\ work[b].step \in AtDocument
      BY <1>8 DEF Propose, AtDocument
    <2>2. Doc(b).candidate \in Candidate /\ Doc(b).trace \in Trace
      BY <2>1, DocTyped
    <2>3. ASSUME NEW p \in Provenance,
                 work' = [work EXCEPT ![b].provenance = p, ![b].step = "persist"]
          PROVE  Typed'
      <3>1. /\ work' \in [Batch -> Work] /\ \A d \in Batch \ {b} : work'[d] = work[d]
            /\ work'[b].step = "persist" /\ work'[b].provenance = p
        BY <2>3 DEF Typed, TypeOK, Work, Steps
      <3>2. p # None
        BY NoneIsNoValue
      <3> QED BY <1>4, <2>1, <3>1, <3>2
    <2>4. [trace |-> Doc(b).trace, at |-> now] \in Provenance
      BY <2>2 DEF Provenance, Typed, TypeOK
    <2>5. candidates[Doc(b).candidate] \in Provenance \cup {None}
      BY <2>2 DEF Typed, TypeOK
    <2>6. \/ Rejects(b) \/ Aborts(b)
          \/ \E p \in Provenance :
                work' = [work EXCEPT ![b].provenance = p, ![b].step = "persist"]
      BY <1>8, <2>4, <2>5 DEF Propose, Reconciles
    <2> QED BY <1>5, <1>6, <2>1, <2>3, <2>6, ItemsTyped DEF Rejects
  <1>9. CASE Persist(b)
    <2>1. OnlyWork /\ work[b].step = "persist" /\ work[b].step \in AtDocument
      BY <1>9 DEF Persist, AtDocument
    <2>2. \/ Goes(b, "rename") \/ Rejects(b) \/ Aborts(b) \/ Finds(b, "unchanged")
      BY <1>9 DEF Persist, Reconciles
    <2>3. CASE Goes(b, "rename")
      <3>1. /\ work' \in [Batch -> Work] /\ \A d \in Batch \ {b} : work'[d] = work[d]
            /\ work'[b].step = "rename" /\ work'[b].provenance = work[b].provenance
        BY <2>3, GoesTyped DEF Steps
      <3> QED BY <1>3, <1>4, <2>1, <3>1 DEF Equipped
    <2> QED BY <1>5, <1>6, <2>1, <2>2, <2>3, ItemsTyped DEF Rejects, Finds
  <1>10. CASE Rename(b)
    <2> DEFINE c == Doc(b).candidate
    <2>1. /\ work[b].step = "rename" /\ work[b].step \in AtDocument
          /\ UNCHANGED <<reviews, torn, locks, review, checkpoints, finals, spoiled, now, crashes>>
      BY <1>10 DEF Rename, AtDocument
    <2>2. CASE UNCHANGED candidates
      <3>1. OnlyWork
        BY <2>1, <2>2 DEF OnlyWork, storeVars
      <3>2. Finds(b, "created") \/ Finds(b, "unchanged") \/ Aborts(b)
        BY <1>10 DEF Rename
      <3> QED BY <1>5, <1>6, <2>1, <3>1, <3>2, ItemsTyped DEF Finds
    <2>3. CASE candidates' = [candidates EXCEPT ![c] = work[b].provenance] /\ Finds(b, "created")
      <3>1. candidates' \in [Candidate -> Provenance \cup {None}]
        BY <2>3 DEF Typed, TypeOK
      <3>2. /\ work' \in [Batch -> Work] /\ \A d \in Batch \ {b} : work'[d] = work[d]
            /\ work'[b].step = "reopen" /\ work'[b].item \in Item
        BY <2>3, EndsTyped, ItemsTyped DEF Finds, Steps
      <3>3. work'[b].item # None
        BY <3>2, NoneIsNoValue
      <3>4. \A d \in Batch : Equipped(d)'
        BY <1>3, <2>1, <3>2, <3>3 DEF Equipped, Typed, TypeOK, Bearings
      <3>5. TypeOK'
        BY <2>1, <3>1, <3>2, <3>4 DEF Typed, TypeOK, Work, Equipped
      <3>6. Bearings'
        BY <2>1, <3>4 DEF Typed, Bearings, Equipped
      <3> QED BY <3>5, <3>6 DEF Typed
    <2> QED BY <1>10, <2>2, <2>3 DEF Rename
  <1>11. CASE Reopen(b)
    <2>1. OnlyWork /\ work[b].step = "reopen" /\ work[b].step \in AtDocument
      BY <1>11 DEF Reopen, AtDocument
    <2>2. work[b].item \in Item
      BY <1>3, <2>1 DEF Equipped, Typed, TypeOK
    <2>3. Doc(b).candidate \in Candidate /\ Status(Doc(b).candidate) \in Statuses
      BY <2>1, DocTyped, StatusTyped
    <2>4. Verifiable(Doc(b).candidate) => candidates[Doc(b).candidate] \in Provenance
      BY <2>3 DEF Verifiable, Typed, TypeOK
    <2> QED BY <1>5, <1>6, <1>11, <2>1, <2>2, <2>3, <2>4, ItemsTyped DEF Reopen
  <1>12. CASE CheckItem(b) \/ CheckAll(b)
    <2>1. /\ OnlyWork
          /\ \/ work[b].step = "check" /\ Goes(b, "append")
             \/ work[b].step = "verify" /\ Goes(b, "finish")
             \/ Aborts(b)
      BY <1>12 DEF CheckItem, CheckAll
    <2>2. CASE work[b].step = "check" /\ Goes(b, "append")
      <3>1. /\ work' \in [Batch -> Work] /\ \A d \in Batch \ {b} : work'[d] = work[d]
            /\ work'[b].step = "append" /\ work'[b].item = work[b].item
        BY <2>2, GoesTyped DEF Steps
      <3> QED BY <1>3, <1>4, <2>1, <2>2, <3>1 DEF Equipped, AtDocument
    <2>3. CASE work[b].step = "verify" /\ Goes(b, "finish")
      <3>1. /\ work' \in [Batch -> Work] /\ \A d \in Batch \ {b} : work'[d] = work[d]
            /\ work'[b].step = "finish"
        BY <2>3, GoesTyped DEF Steps
      <3> QED BY <1>4, <2>1, <2>3, <3>1 DEF AtDocument
    <2> QED BY <1>5, <2>1, <2>2, <2>3
  <1>13. CASE AppendItem(b)
    <2> DEFINE items == Append(checkpoints[b], work[b].item)
    <2>1. /\ work[b].step = "append" /\ work[b].item \in Item
          /\ checkpoints[b] \in Seq(Item) /\ Len(checkpoints[b]) < Len(Documents[b])
      BY <1>3, <1>13 DEF AppendItem, Equipped, AtDocument, Typed, TypeOK
    <2>2. items \in Seq(Item) /\ Len(items) = Len(checkpoints[b]) + 1 /\ items # None
      BY <2>1, NoneIsNoValue
    <2>3. /\ checkpoints' = [checkpoints EXCEPT ![b] = items]
          /\ work' = [work EXCEPT ![b] = [NoWork EXCEPT !.step = Onward(items, b)]]
          /\ UNCHANGED <<candidates, reviews, torn, locks, review, finals, spoiled, now, crashes>>
      BY <1>13 DEF AppendItem, storeVars
    <2>4. Documents[b] \in Seq(Document) /\ Len(Documents[b]) \in Nat
      BY BatchConstants
    <2>5. /\ Onward(items, b) \in {"verify", "read"} /\ Onward(items, b) \in Steps
          /\ Onward(items, b) = "read" => Len(items) < Len(Documents[b])
      BY <2>1, <2>2, <2>4 DEF Onward, Steps
    <2> HIDE DEF items
    <2>6. [NoWork EXCEPT !.step = Onward(items, b)] \in Work
      BY <2>5 DEF NoWork, Work
    <2>7. /\ work' \in [Batch -> Work] /\ \A d \in Batch \ {b} : work'[d] = work[d]
          /\ work'[b].step = Onward(items, b)
      BY <2>3, <2>6 DEF Typed, TypeOK, Work, NoWork
    <2>8. /\ checkpoints' \in [Batch -> Seq(Item) \cup {None}] /\ checkpoints'[b] = items
          /\ \A d \in Batch \ {b} : checkpoints'[d] = checkpoints[d]
      BY <2>2, <2>3 DEF Typed, TypeOK
    <2>9. \A d \in Batch : Equipped(d)'
      BY <2>2, <2>5, <2>7, <2>8 DEF Equipped, Typed, TypeOK, Bearings, AtDocument
    <2>10. TypeOK'
      BY <2>3, <2>7, <2>8, <2>9 DEF Typed, TypeOK, Work, Equipped
    <2>11. Len(items) <= Len(Documents[b])
      BY <2>1, <2>2, <2>4
    <2>12. Bearings'
      BY <2>3, <2>8, <2>9, <2>11 DEF Typed, Bearings, Equipped
    <2> QED BY <2>10, <2>12 DEF Typed
  <1>14. CASE WriteFinal(b) \/ CrashBatch(b)
    <2>1. /\ UNCHANGED <<storeVars, checkpoints, spoiled, now>> /\ Aborts(b)
          /\ crashes' \in 0 .. MaxCrashes
      BY <1>14, StoreConstants DEF WriteFinal, CrashBatch, Typed, TypeOK
    <2>2. finals' \in [Batch -> Seq(Item) \cup {None}]
      BY <1>14 DEF WriteFinal, CrashBatch, Typed, TypeOK
    <2>3. /\ work' \in [Batch -> Work] /\ \A d \in Batch \ {b} : work'[d] = work[d]
          /\ work'[b].step = "none"
      BY <2>1, AbortsTyped
    <2>4. \A d \in Batch : Equipped(d)'
      BY <2>1, <2>3 DEF Equipped, Typed, TypeOK, Bearings, AtDocument
    <2>5. TypeOK'
      BY <2>1, <2>2, <2>3, <2>4 DEF Typed, TypeOK, Work, Equipped, storeVars
    <2>6. Bearings'
      BY <2>1, <2>4 DEF Typed, Bearings, Equipped, storeVars
    <2> QED BY <2>5, <2>6 DEF Typed
  <1> QED BY <1>2, <1>7, <1>8, <1>9, <1>10, <1>11, <1>12, <1>13, <1>14 DEF BatchStep

\* Every step keeps the types.
THEOREM NextTyped == Typed /\ [Next]_vars => Typed'
  <1> SUFFICES ASSUME Typed, [Next]_vars PROVE Typed'
    OBVIOUS
  <1>1. CASE StoreNext /\ UNCHANGED batchVars
    BY <1>1, StoreTyped
  <1>2. ASSUME NEW c \in Candidate, Spoil(c) PROVE Typed'
    BY <1>2 DEF Spoil, storeVars, Typed, TypeOK, Bearings
  <1>3. CASE Tick
    BY <1>3, StoreConstants DEF Tick, storeVars, batchVars, Typed, TypeOK, Bearings
  <1>4. CASE UNCHANGED vars
    BY <1>4 DEF vars, storeVars, batchVars, Typed, TypeOK, Bearings
  <1> QED BY <1>1, <1>2, <1>3, <1>4, BatchTyped DEF Next

\* So the types always hold.
THEOREM TypesHold == Spec => []Typed
  BY InitTyped, NextTyped, PTL DEF Spec

\* The stores and the runs keep their shapes, and a run knows what its next step needs.
THEOREM TypeCorrect == Spec => []TypeOK
  <1>1. Typed => TypeOK
    BY DEF Typed
  <1> QED BY <1>1, TypesHold, PTL

-----------------------------------------------------------------------------
(* Items are true. *)

\* An item says of its document what is there; what has been found stays.
ItemTrue(d, item) ==
    IF item.status = "rejected" THEN RejectedForCause(<<d, item>>)
    ELSE candidates[d.candidate] # None /\ FoundIsThere(<<d, item>>)

\* The items of a checkpoint are true, and what a run has found by each of its steps: the
\* provenance it persists is the one its document asks for, a candidate that it reopens has
\* it, and the item it appends is true.
CheckpointGrounded(b) ==
    checkpoints[b] # None =>
        \A i \in DOMAIN checkpoints[b] : ItemTrue(Documents[b][i], checkpoints[b][i])
RunGrounded(b) ==
    LET w == work[b]
        c == Doc(b).candidate
    IN  /\ w.step \in {"persist", "rename"} => w.provenance.trace = Doc(b).trace
        /\ w.step = "reopen" => /\ w.item.status # "rejected" /\ candidates[c] # None
                                /\ candidates[c].trace = Doc(b).trace
        /\ w.step \in {"check", "append"} => ItemTrue(Doc(b), w.item)
Grounded == \A b \in Batch : CheckpointGrounded(b) /\ RunGrounded(b)

\* Who says that it created the candidate of a document: an item, or a run that is
\* about to make one.
Claims(b, i) ==
    \/ checkpoints[b] # None /\ i \in DOMAIN checkpoints[b] /\ checkpoints[b][i].status = "created"
    \/ /\ work[b].step \in {"reopen", "check", "append"} /\ i = Len(checkpoints[b]) + 1
       /\ work[b].item.status = "created"
OneClaim ==
    \A b, d \in Batch : \A i \in DOMAIN Documents[b], j \in DOMAIN Documents[d] :
        /\ Claims(b, i) /\ Claims(d, j)
        /\ Documents[b][i].candidate = Documents[d][j].candidate
        => b = d /\ i = j

IInv == Typed /\ Grounded /\ OneClaim

\* What an item relies on: candidates stay, reviews and changed sources only grow.
Grows ==
    /\ \A c \in Candidate :
          /\ candidates[c] # None => candidates'[c] = candidates[c]
          /\ Len(reviews[c]) <= Len(reviews'[c])
          /\ \A n \in 1 .. Len(reviews[c]) : reviews'[c][n] = reviews[c][n]
    /\ spoiled \subseteq spoiled'

\* A reviewer only appends events.
LEMMA StoreGrows ==
  ASSUME Typed, StoreNext
  PROVE  \A c \in Candidate :
            /\ Len(reviews[c]) <= Len(reviews'[c])
            /\ \A n \in 1 .. Len(reviews[c]) : reviews'[c][n] = reviews[c][n]
  <1>1. CASE UNCHANGED reviews
    BY <1>1 DEF Typed, TypeOK
  <1>2. CASE WriteEvent
    <2> SUFFICES ASSUME NEW c \in Candidate
                 PROVE  /\ Len(reviews[c]) <= Len(reviews'[c])
                        /\ \A n \in 1 .. Len(reviews[c]) : reviews'[c][n] = reviews[c][n]
      OBVIOUS
    <2>1. /\ reviews[c] \in Seq(Decision) /\ review.decision \in Decision
          /\ reviews'[c] = reviews[c] \/ reviews'[c] = Append(reviews[c], review.decision)
      BY <1>2 DEF WriteEvent, Typed, TypeOK, Bearings
    <2> QED BY <2>1
  <1> QED BY <1>1, <1>2 DEF StoreNext, BeginReview, ReviewStep, CreateEvent, UnlinkReviewLock,
                            CrashReview

\* Every step adds to the stores, and takes nothing away.
LEMMA NextGrows ==
  ASSUME Typed, [Next]_vars
  PROVE  Grows
  <1>1. CASE UNCHANGED <<candidates, reviews>> /\ spoiled \subseteq spoiled'
    BY <1>1 DEF Grows, Typed, TypeOK
  <1>2. CASE StoreNext /\ UNCHANGED batchVars
    <2>1. UNCHANGED <<candidates, spoiled>>
      BY <1>2 DEF batchVars, StoreNext, BeginReview, ReviewStep, CreateEvent, WriteEvent,
                  UnlinkReviewLock, CrashReview
    <2> QED BY <1>2, <2>1, StoreGrows DEF Grows
  <1>3. ASSUME NEW b \in Batch, Rename(b) PROVE Grows
    <2>1. UNCHANGED <<reviews, spoiled>>
      BY <1>3 DEF Rename
    <2>2. \A c \in Candidate : candidates[c] # None => candidates'[c] = candidates[c]
      BY <1>3 DEF Rename, Typed, TypeOK
    <2> QED BY <2>1, <2>2 DEF Grows, Typed, TypeOK
  <1>4. ASSUME NEW b \in Batch, Open(b) \/ BatchStep(b) \/ CrashBatch(b), ~ Rename(b)
        PROVE  UNCHANGED <<candidates, reviews, spoiled>>
    BY <1>4 DEF Open, BatchStep, CrashBatch, ReadSource, Propose, Persist, Reopen, CheckItem,
                AppendItem, CheckAll, WriteFinal, OnlyWork, storeVars
  <1>5. ASSUME Tick \/ UNCHANGED vars \/ \E c \in Candidate : Spoil(c)
        PROVE  UNCHANGED <<candidates, reviews>> /\ spoiled \subseteq spoiled'
    BY <1>5 DEF Tick, Spoil, vars, storeVars, batchVars
  <1> QED BY <1>1, <1>2, <1>3, <1>4, <1>5 DEF Next

\* So an item that is true stays true.
LEMMA ItemStaysTrue ==
  ASSUME Typed, Grows, NEW d \in Document, NEW item \in Item, ItemTrue(d, item)
  PROVE  ItemTrue(d, item)'
  <1> DEFINE c == d.candidate
  <1>1. c \in Candidate
    BY DEF Document
  <1>2. CASE item.status = "rejected"
    BY <1>1, <1>2 DEF ItemTrue, RejectedForCause, Grows
  <1>3. CASE item.status # "rejected"
    <2>1. /\ candidates[c] # None /\ candidates'[c] = candidates[c]
          /\ candidates[c] = item.provenance /\ candidates[c].trace = d.trace
      BY <1>1, <1>3 DEF ItemTrue, FoundIsThere, Grows
    <2>2. PICK n \in 0 .. Len(reviews[c]) : item.review = StatusAfter(c, n)
      BY <1>3 DEF ItemTrue, FoundIsThere
    <2>3. Len(reviews[c]) \in Nat /\ Len(reviews'[c]) \in Int
      BY <1>1 DEF Typed, TypeOK, Grows
    <2>4. n \in 0 .. Len(reviews'[c]) /\ item.review = StatusAfter(c, n)'
      BY <1>1, <2>2, <2>3 DEF Grows, StatusAfter
    <2> QED BY <1>3, <2>1, <2>4 DEF ItemTrue, FoundIsThere
  <1> QED BY <1>2, <1>3

\* What anybody does leaves the items of a checkpoint that stays as it is.
LEMMA CheckpointStaysGrounded ==
  ASSUME Typed, Grounded, Grows, NEW b \in Batch, checkpoints'[b] = checkpoints[b]
  PROVE  CheckpointGrounded(b)'
  <1> SUFFICES ASSUME checkpoints[b] # None, NEW i \in DOMAIN checkpoints[b]
               PROVE  ItemTrue(Documents[b][i], checkpoints[b][i])'
    BY DEF CheckpointGrounded
  <1> DEFINE d == Documents[b][i]
             item == checkpoints[b][i]
  <1>1. /\ checkpoints[b] \in Seq(Item) /\ Len(checkpoints[b]) <= Len(Documents[b])
        /\ Documents[b] \in Seq(Document)
    BY BatchConstants DEF Typed, TypeOK, Bearings
  <1>2. d \in Document /\ item \in Item /\ item' = item
    BY <1>1
  <1>3. ItemTrue(d, item)
    BY DEF Grounded, CheckpointGrounded
  <1> HIDE DEF item
  <1>4. \A x \in Item : ItemTrue(d, x) => ItemTrue(d, x)'
    BY <1>2, ItemStaysTrue
  <1>5. ItemTrue(d, item)'
    BY <1>2, <1>3, <1>4 DEF ItemTrue, RejectedForCause, FoundIsThere, StatusAfter
  <1> QED BY <1>5 DEF item

\* And what the item of a run says of the document it is at.
LEMMA RunItemStaysTrue ==
  ASSUME Typed, Grows, NEW b \in Batch, work[b].step \in AtDocument, UNCHANGED Doc(b),
         work'[b].item = work[b].item, work[b].item \in Item, ItemTrue(Doc(b), work[b].item)
  PROVE  ItemTrue(Doc(b), work[b].item)'
  <1> DEFINE d == Doc(b)
             item == work[b].item
  <1>1. d \in Document /\ d' = d /\ item \in Item /\ item' = item /\ ItemTrue(d, item)
    BY DocTyped
  <1> HIDE DEF d, item
  <1>2. \A e \in Document, x \in Item : ItemTrue(e, x) => ItemTrue(e, x)'
    BY ItemStaysTrue
  <1>3. ItemTrue(d, item)'
    BY <1>1, <1>2 DEF ItemTrue, RejectedForCause, FoundIsThere, StatusAfter
  <1> QED BY <1>3 DEF d, item

\* So what others do leaves what a run has found.
LEMMA RunStaysGrounded ==
  ASSUME Typed, Grounded, Grows, NEW b \in Batch, work'[b] = work[b],
         checkpoints'[b] = checkpoints[b]
  PROVE  RunGrounded(b)'
  <1>1. UNCHANGED Doc(b)
    BY DEF Doc
  <1>2. RunGrounded(b)
    BY DEF Grounded
  <1>3. CASE work[b].step \in {"check", "append"}
    <2>1. work[b].step \in AtDocument /\ work[b].item \in Item
      BY <1>3 DEF Typed, TypeOK, AtDocument
    <2>2. ItemTrue(Doc(b), work[b].item)'
      BY <1>1, <1>2, <1>3, <2>1, RunItemStaysTrue DEF RunGrounded
    <2> QED BY <1>3, <2>2 DEF RunGrounded
  <1>4. CASE work[b].step = "reopen"
    <2>1. Doc(b).candidate \in Candidate
      BY <1>4, DocTyped DEF AtDocument
    <2> QED BY <1>1, <1>2, <1>4, <2>1 DEF RunGrounded, Grows
  <1> QED BY <1>1, <1>2, <1>3, <1>4 DEF RunGrounded

\* A step of a batch leaves the other batches their runs and their checkpoints.
LEMMA BatchIsLocal ==
  ASSUME Typed, NEW b \in Batch, Open(b) \/ BatchStep(b) \/ CrashBatch(b), NEW d \in Batch \ {b}
  PROVE  work'[d] = work[d] /\ checkpoints'[d] = checkpoints[d]
  <1>1. work \in [Batch -> Work] /\ checkpoints \in [Batch -> Seq(Item) \cup {None}]
    BY DEF Typed, TypeOK, Work
  <1>2. CASE Open(b)
    BY <1>1, <1>2 DEF Open, Goes
  <1>3. CASE AppendItem(b)
    BY <1>1, <1>3 DEF AppendItem
  <1>4. CASE WriteFinal(b) \/ CrashBatch(b)
    BY <1>1, <1>4 DEF WriteFinal, CrashBatch, Aborts
  <1>5. CASE Rename(b)
    BY <1>1, <1>5 DEF Rename, Finds, Ends, Aborts
  <1>6. CASE ReadSource(b) \/ Propose(b)
    BY <1>1, <1>6 DEF ReadSource, Propose, Reconciles, Rejects, Ends, Aborts, Goes, OnlyWork
  <1>7. CASE Persist(b) \/ Reopen(b)
    BY <1>1, <1>7 DEF Persist, Reopen, Reconciles, Finds, Rejects, Ends, Aborts, Goes, OnlyWork
  <1>8. CASE CheckItem(b) \/ CheckAll(b)
    BY <1>1, <1>8 DEF CheckItem, CheckAll, Aborts, Goes, OnlyWork
  <1> QED BY <1>2, <1>3, <1>4, <1>5, <1>6, <1>7, <1>8 DEF BatchStep

\* A document that is rejected for its source, or for a provenance that conflicts, is
\* rejected for cause.
LEMMA RejectionIsGrounded ==
  ASSUME Typed, Grows, NEW b \in Batch, work[b].step \in AtDocument, UNCHANGED Doc(b), Rejects(b),
         \/ Doc(b).candidate \in spoiled
         \/ /\ candidates[Doc(b).candidate] # None
            /\ candidates[Doc(b).candidate].trace # Doc(b).trace
  PROVE  RunGrounded(b)'
  <1>1. work'[b].step = "check" /\ work'[b].item = Rejected
    BY EndsTyped, ItemsTyped DEF Rejects, Steps
  <1>2. Doc(b).candidate \in Candidate
    BY DocTyped
  <1>3. RejectedForCause(<<Doc(b), Rejected>>)'
    BY <1>2 DEF RejectedForCause, Grows, Rejected
  <1>4. ItemTrue(Doc(b), work[b].item)'
    BY <1>1, <1>3 DEF ItemTrue, Rejected, RejectedForCause
  <1> QED BY <1>1, <1>4 DEF RunGrounded

\* What is found is there, with the provenance the document asks for.
LEMMA FindingIsGrounded ==
  ASSUME Typed, NEW b \in Batch, NEW status \in {"created", "unchanged"}, Finds(b, status),
         UNCHANGED Doc(b), candidates'[Doc(b).candidate] # None,
         candidates'[Doc(b).candidate].trace = Doc(b).trace
  PROVE  RunGrounded(b)'
  <1>1. work'[b].step = "reopen" /\ work'[b].item = [Rejected EXCEPT !.status = status]
    BY EndsTyped, ItemsTyped DEF Finds, Steps
  <1>2. [Rejected EXCEPT !.status = status].status # "rejected"
    BY DEF Rejected
  <1> QED BY <1>1, <1>2 DEF RunGrounded

\* Each step of a batch grounds what it finds.
LEMMA StepIsGrounded ==
  ASSUME Typed, Typed', Grounded, Grows, NEW b \in Batch, Open(b) \/ BatchStep(b) \/ CrashBatch(b)
  PROVE  RunGrounded(b)'
  <1> DEFINE c == Doc(b).candidate
             Idle(step) == step \in {"none", "read", "propose", "verify", "finish"}
  <1>1. RunGrounded(b)
    BY DEF Grounded
  <1>2. ASSUME Idle(work'[b].step) PROVE RunGrounded(b)'
    BY <1>2 DEF RunGrounded
  <1>3. ASSUME Aborts(b) PROVE RunGrounded(b)'
    BY <1>2, <1>3, AbortsTyped
  <1>4. CASE Open(b)
    <2>1. PICK items \in Seq(Item) \cup {<<>>} \cup {None} : Goes(b, Onward(items, b))
      BY <1>4 DEF Open, Typed, TypeOK
    <2>2. Onward(items, b) \in {"verify", "read"}
      BY DEF Onward
    <2> QED BY <1>2, <2>1, <2>2, GoesTyped DEF Steps
  <1>5. ASSUME UNCHANGED checkpoints PROVE UNCHANGED Doc(b)
    BY <1>5 DEF Doc
  <1>6. CASE ReadSource(b)
    <2>1. work[b].step \in AtDocument /\ UNCHANGED Doc(b)
      BY <1>5, <1>6 DEF ReadSource, OnlyWork, AtDocument
    <2>2. (c \in spoiled /\ Rejects(b)) \/ Goes(b, "propose")
      BY <1>6 DEF ReadSource
    <2> QED BY <1>2, <2>1, <2>2, GoesTyped, RejectionIsGrounded DEF Steps
  <1>7. CASE Propose(b)
    <2>1. work[b].step \in AtDocument /\ UNCHANGED Doc(b)
      BY <1>5, <1>7 DEF Propose, OnlyWork, AtDocument
    <2>2. ASSUME NEW p, p.trace = Doc(b).trace,
                 work' = [work EXCEPT ![b].provenance = p, ![b].step = "persist"]
          PROVE  RunGrounded(b)'
      <3>1. work'[b].step = "persist" /\ work'[b].provenance = p
        BY <2>2 DEF Typed, TypeOK
      <3> QED BY <2>1, <2>2, <3>1 DEF RunGrounded
    <2>3. CASE c \in spoiled
      BY <1>3, <1>7, <2>1, <2>3, RejectionIsGrounded DEF Propose
    <2>4. CASE c \notin spoiled /\ candidates[c] = None
      BY <1>7, <2>2, <2>4 DEF Propose
    <2>5. CASE c \notin spoiled /\ candidates[c] # None
      BY <1>3, <1>7, <2>1, <2>2, <2>5, RejectionIsGrounded DEF Propose, Reconciles
    <2> QED BY <2>3, <2>4, <2>5
  <1>8. CASE Persist(b)
    <2>1. work[b].step = "persist" /\ work[b].step \in AtDocument /\ UNCHANGED Doc(b)
      BY <1>5, <1>8 DEF Persist, OnlyWork, AtDocument
    <2>2. c \in Candidate /\ UNCHANGED candidates /\ work[b].provenance.trace = Doc(b).trace
      BY <1>1, <1>8, <2>1, DocTyped DEF RunGrounded, Persist, OnlyWork, storeVars
    <2>3. CASE candidates[c] = None
      <3>1. work'[b].step = "rename" /\ work'[b].provenance = work[b].provenance
        BY <1>8, <2>3, GoesTyped DEF Persist, Steps
      <3> QED BY <2>1, <2>2, <3>1 DEF RunGrounded
    <2>4. CASE candidates[c] # None
      <3>1. CASE Finds(b, "unchanged") /\ candidates[c].trace = Doc(b).trace
        BY <2>1, <2>2, <2>4, <3>1, FindingIsGrounded
      <3>2. CASE Aborts(b)
        BY <1>3, <3>2
      <3>3. CASE Rejects(b) /\ candidates[c].trace # Doc(b).trace
        BY <2>1, <2>4, <3>3, RejectionIsGrounded
      <3> QED BY <1>8, <2>2, <2>4, <3>1, <3>2, <3>3 DEF Persist, Reconciles
    <2> QED BY <2>3, <2>4
  <1>9. CASE Rename(b)
    <2>1. work[b].step = "rename" /\ work[b].step \in AtDocument /\ UNCHANGED Doc(b)
      BY <1>5, <1>9 DEF Rename, AtDocument
    <2>2. /\ c \in Candidate /\ work[b].provenance.trace = Doc(b).trace
          /\ work[b].provenance # None
      BY <1>1, <2>1, DocTyped DEF RunGrounded, Typed, TypeOK
    <2>3. CASE candidates[c] = None
      <3>1. Finds(b, "created") /\ candidates'[c] = work[b].provenance
        BY <1>9, <2>2, <2>3 DEF Rename, Typed, TypeOK
      <3> QED BY <2>1, <2>2, <3>1, FindingIsGrounded
    <2>4. CASE candidates[c] # None
      <3>1. \/ Aborts(b)
            \/ /\ Finds(b, "unchanged") /\ candidates'[c] = candidates[c]
               /\ candidates[c].trace = Doc(b).trace
        BY <1>9, <2>2, <2>4 DEF Rename
      <3> QED BY <1>3, <2>1, <2>4, <3>1, FindingIsGrounded
    <2> QED BY <2>3, <2>4
  <1>10. CASE Reopen(b)
    <2>1. /\ work[b].step = "reopen" /\ work[b].step \in AtDocument /\ UNCHANGED Doc(b)
          /\ UNCHANGED <<candidates, reviews>>
      BY <1>5, <1>10 DEF Reopen, OnlyWork, AtDocument, storeVars
    <2>2. /\ c \in Candidate /\ Status(c) \in Statuses /\ work[b].item \in Item
          /\ candidates[c] # None => candidates[c] \in Provenance
      BY <2>1, DocTyped, StatusTyped DEF Typed, TypeOK
    <2> DEFINE item == [work[b].item EXCEPT !.provenance = candidates[c], !.review = Status(c)]
    <2>3. CASE Verifiable(c)
      <3>0. work[b].item.status # "rejected" /\ candidates[c].trace = Doc(b).trace
        BY <1>1, <2>1 DEF RunGrounded
      <3>1. /\ item \in Item /\ item.status # "rejected" /\ candidates[c].trace = Doc(b).trace
            /\ item.provenance = candidates[c] /\ item.review = Status(c)
        BY <2>2, <2>3, <3>0 DEF Verifiable, Item
      <3>2. work'[b].step = "check" /\ work'[b].item = item
        BY <1>10, <2>3, <3>1, EndsTyped DEF Reopen, Steps
      <3>3. Len(reviews[c]) \in 0 .. Len(reviews[c])
        BY <2>2 DEF Typed, TypeOK
      <3>4. FoundIsThere(<<Doc(b), item>>)
        BY <3>1, <3>3 DEF FoundIsThere, Status
      <3> HIDE DEF item
      <3>5. ItemTrue(Doc(b), work[b].item)'
        BY <2>1, <2>3, <3>1, <3>2, <3>4 DEF ItemTrue, FoundIsThere, StatusAfter, Verifiable
      <3> QED BY <3>2, <3>5 DEF RunGrounded
    <2>4. CASE ~ Verifiable(c)
      BY <1>3, <1>10, <2>4 DEF Reopen
    <2> QED BY <2>3, <2>4
  <1>11. CASE CheckItem(b)
    <2>1. work[b].step = "check" /\ work[b].step \in AtDocument /\ UNCHANGED Doc(b)
      BY <1>5, <1>11 DEF CheckItem, OnlyWork, AtDocument
    <2>2. CASE Goes(b, "append")
      <3>1. work'[b].step = "append" /\ work'[b].item = work[b].item
        BY <2>2, GoesTyped DEF Steps
      <3>2. work[b].item \in Item
        BY <2>1 DEF Typed, TypeOK
      <3>3. ItemTrue(Doc(b), work[b].item)'
        BY <1>1, <2>1, <3>1, <3>2, RunItemStaysTrue DEF RunGrounded
      <3> QED BY <3>1, <3>3 DEF RunGrounded
    <2> QED BY <1>3, <1>11, <2>2 DEF CheckItem
  <1>12. CASE AppendItem(b)
    <2>1. PICK items : work' = [work EXCEPT ![b] = [NoWork EXCEPT !.step = Onward(items, b)]]
      BY <1>12 DEF AppendItem
    <2>2. Onward(items, b) \in {"verify", "read"} /\ work'[b].step = Onward(items, b)
      BY <2>1 DEF Onward, NoWork, Typed, TypeOK
    <2> QED BY <1>2, <2>2
  <1>13. CASE CheckAll(b)
    BY <1>2, <1>3, <1>13, GoesTyped DEF CheckAll, Steps
  <1>14. CASE WriteFinal(b) \/ CrashBatch(b)
    BY <1>3, <1>14 DEF WriteFinal, CrashBatch
  <1> QED BY <1>4, <1>6, <1>7, <1>8, <1>9, <1>10, <1>11, <1>12, <1>13, <1>14 DEF BatchStep

\* A checkpoint begins empty, and grows by the item that its run has made.
LEMMA CheckpointIsGrounded ==
  ASSUME Typed, Grounded, Grows, NEW b \in Batch, Open(b) \/ BatchStep(b) \/ CrashBatch(b)
  PROVE  CheckpointGrounded(b)'
  <1>1. CASE checkpoints'[b] = checkpoints[b]
    BY <1>1, CheckpointStaysGrounded
  <1>2. CASE Open(b)
    <2>1. checkpoints'[b] = checkpoints[b] \/ checkpoints'[b] = <<>>
      BY <1>2 DEF Open, Typed, TypeOK
    <2> QED BY <1>1, <2>1 DEF CheckpointGrounded
  <1>3. CASE AppendItem(b)
    <2> DEFINE old == checkpoints[b]
               item == work[b].item
    <2>1. /\ work[b].step = "append" /\ work[b].step \in AtDocument
          /\ UNCHANGED <<candidates, reviews, spoiled>>
      BY <1>3 DEF AppendItem, AtDocument, storeVars
    <2>2. old \in Seq(Item) /\ item \in Item /\ old # None
      BY <2>1, DocTyped, NoneIsNoValue DEF Typed, TypeOK
    <2>3. checkpoints'[b] = Append(old, item)
      BY <1>3 DEF AppendItem, Typed, TypeOK
    <2>4. ItemTrue(Documents[b][Len(old) + 1], item)
      BY <2>1 DEF Grounded, RunGrounded, Doc
    <2>5. \A i \in DOMAIN old : ItemTrue(Documents[b][i], old[i])
      BY <2>2 DEF Grounded, CheckpointGrounded
    <2> HIDE DEF old, item
    <2>6. ASSUME NEW i \in DOMAIN checkpoints'[b]
          PROVE  ItemTrue(Documents[b][i], checkpoints'[b][i])
      <3>1. \/ i \in DOMAIN old /\ checkpoints'[b][i] = old[i]
            \/ i = Len(old) + 1 /\ checkpoints'[b][i] = item
        BY <2>2, <2>3, <2>6
      <3> QED BY <2>4, <2>5, <3>1
    <2>7. \A i \in DOMAIN checkpoints'[b] : ItemTrue(Documents[b][i], checkpoints[b][i])'
      BY <2>1, <2>6 DEF ItemTrue, RejectedForCause, FoundIsThere, StatusAfter
    <2> QED BY <2>7 DEF CheckpointGrounded
  <1>4. ASSUME ~ Open(b), ~ AppendItem(b) PROVE UNCHANGED checkpoints
    BY <1>4 DEF BatchStep, CrashBatch, ReadSource, Propose, Persist, Rename, Reopen, CheckItem,
                CheckAll, WriteFinal, OnlyWork
  <1> QED BY <1>1, <1>2, <1>3, <1>4

\* Every step keeps the items and the runs grounded.
LEMMA NextGrounded ==
  ASSUME Typed, Typed', Grounded, [Next]_vars
  PROVE  Grounded'
  <1> SUFFICES ASSUME NEW d \in Batch PROVE CheckpointGrounded(d)' /\ RunGrounded(d)'
    BY DEF Grounded
  <1>1. Grows
    BY NextGrows
  <1>2. ASSUME work'[d] = work[d], checkpoints'[d] = checkpoints[d]
        PROVE  CheckpointGrounded(d)' /\ RunGrounded(d)'
    BY <1>1, <1>2, CheckpointStaysGrounded, RunStaysGrounded
  <1>3. ASSUME NEW b \in Batch, Open(b) \/ BatchStep(b) \/ CrashBatch(b)
        PROVE  CheckpointGrounded(d)' /\ RunGrounded(d)'
    <2>1. CASE d = b
      BY <1>1, <1>3, <2>1, CheckpointIsGrounded, StepIsGrounded
    <2>2. CASE d # b
      BY <1>2, <1>3, <2>2, BatchIsLocal
    <2> QED BY <2>1, <2>2
  <1>4. ASSUME ~ \E b \in Batch : Open(b) \/ BatchStep(b) \/ CrashBatch(b)
        PROVE  UNCHANGED <<work, checkpoints>>
    BY <1>4 DEF Next, Spoil, Tick, batchVars, vars
  <1> QED BY <1>2, <1>3, <1>4

-----------------------------------------------------------------------------
(* Created once. *)

\* What somebody says to have created is there.
LEMMA ClaimedIsThere ==
  ASSUME Typed, Grounded, NEW b \in Batch, NEW i \in DOMAIN Documents[b], Claims(b, i)
  PROVE  candidates[Documents[b][i].candidate] # None
  <1>1. CASE checkpoints[b] # None /\ i \in DOMAIN checkpoints[b]
             /\ checkpoints[b][i].status = "created"
    <2>1. ItemTrue(Documents[b][i], checkpoints[b][i])
      BY <1>1 DEF Grounded, CheckpointGrounded
    <2> QED BY <1>1, <2>1 DEF ItemTrue
  <1>2. CASE /\ work[b].step \in {"reopen", "check", "append"} /\ i = Len(checkpoints[b]) + 1
             /\ work[b].item.status = "created"
    BY <1>2 DEF Grounded, RunGrounded, ItemTrue, Doc
  <1> QED BY <1>1, <1>2 DEF Claims

\* A step of a run makes no claim but the one of the rename that finds nothing there.
LEMMA OnlyRenameClaims ==
  ASSUME Typed, NEW b \in Batch, Open(b) \/ BatchStep(b) \/ CrashBatch(b),
         NEW i \in DOMAIN Documents[b], Claims(b, i)'
  PROVE  \/ Claims(b, i)
         \/ i = Len(checkpoints[b]) + 1 /\ candidates[Documents[b][i].candidate] = None
  <1> DEFINE Stays == UNCHANGED checkpoints
             Working(step) == step \in {"reopen", "check", "append"}
  <1>1. ASSUME Stays, Working(work'[b].step) => work'[b].item.status # "created"
        PROVE  Claims(b, i)
    BY <1>1 DEF Claims
  <1>2. ASSUME Stays, Working(work[b].step), work'[b].item.status = work[b].item.status
        PROVE  Claims(b, i)
    BY <1>2 DEF Claims
  <1>3. ASSUME Stays, Aborts(b) PROVE Claims(b, i)
    BY <1>1, <1>3, AbortsTyped
  <1>4. ASSUME Stays, Rejects(b) \/ Finds(b, "unchanged") PROVE Claims(b, i)
    <2>1. work'[b].item \in {Rejected, [Rejected EXCEPT !.status = "unchanged"]}
      BY <1>4, EndsTyped, ItemsTyped DEF Rejects, Finds, Steps
    <2> QED BY <1>1, <1>4, <2>1 DEF Rejected
  <1>5. ASSUME Stays, NEW step \in {"propose", "rename", "finish"}, Goes(b, step)
        PROVE  Claims(b, i)
    <2>1. work'[b].step = step
      BY <1>5, GoesTyped DEF Steps
    <2> QED BY <1>1, <1>5, <2>1
  <1>6. CASE Open(b)
    <2>1. PICK items \in Seq(Item) \cup {None} :
             /\ items = IF checkpoints[b] = None THEN <<>> ELSE checkpoints[b]
             /\ checkpoints'[b] = items /\ Goes(b, Onward(items, b))
      <3>1. <<>> \in Seq(Item)
        OBVIOUS
      <3> QED BY <1>6, <3>1 DEF Open, Typed, TypeOK
    <2>2. Onward(items, b) \in {"verify", "read"}
      BY DEF Onward
    <2>3. work'[b].step \in {"verify", "read"}
      BY <2>1, <2>2, GoesTyped DEF Steps
    <2>4. CASE checkpoints[b] = None
      <3>1. DOMAIN items = {}
        BY <2>1, <2>4
      <3> QED BY <2>1, <2>3, <3>1 DEF Claims
    <2>5. CASE checkpoints[b] # None
      BY <2>1, <2>3, <2>5 DEF Claims
    <2> QED BY <2>4, <2>5
  <1>7. CASE ReadSource(b)
    BY <1>4, <1>5, <1>7 DEF ReadSource, OnlyWork
  <1>8. CASE Propose(b)
    <2>1. \/ Rejects(b) \/ Aborts(b)
          \/ \E p : work' = [work EXCEPT ![b].provenance = p, ![b].step = "persist"]
      BY <1>8 DEF Propose, Reconciles
    <2>2. ASSUME NEW p, work' = [work EXCEPT ![b].provenance = p, ![b].step = "persist"]
          PROVE  work'[b].step = "persist"
      BY <2>2 DEF Typed, TypeOK
    <2> QED BY <1>1, <1>3, <1>4, <1>8, <2>1, <2>2 DEF Propose, OnlyWork
  <1>9. CASE Persist(b)
    BY <1>3, <1>4, <1>5, <1>9 DEF Persist, Reconciles, OnlyWork
  <1>10. CASE Rename(b)
    <2>1. CASE candidates[Doc(b).candidate] = None
      <3>1. i = Len(checkpoints[b]) + 1 \/ Claims(b, i)
        BY <1>10 DEF Rename, Claims
      <3> QED BY <2>1, <3>1 DEF Doc
    <2>2. CASE candidates[Doc(b).candidate] # None
      BY <1>3, <1>4, <1>10, <2>2 DEF Rename
    <2> QED BY <2>1, <2>2
  <1>11. CASE Reopen(b)
    <2> DEFINE item == [work[b].item EXCEPT !.provenance = candidates[Doc(b).candidate],
                                            !.review = Status(Doc(b).candidate)]
    <2>1. work[b].item \in Item /\ Working(work[b].step) /\ Stays
      BY <1>11 DEF Reopen, OnlyWork, Typed, TypeOK
    <2>2. CASE Verifiable(Doc(b).candidate)
      <3>1. item.status = work[b].item.status
        BY <2>1 DEF Item
      <3>2. work'[b].item = item
        BY <1>11, <2>2 DEF Reopen, Ends, NoWork, Typed, TypeOK
      <3> QED BY <1>2, <2>1, <3>1, <3>2
    <2> QED BY <1>3, <1>11, <2>1, <2>2 DEF Reopen
  <1>12. CASE CheckItem(b)
    <2>1. Goes(b, "append") => work'[b].item = work[b].item
      BY GoesTyped DEF Steps
    <2> QED BY <1>2, <1>3, <1>12, <2>1 DEF CheckItem, OnlyWork
  <1>13. CASE AppendItem(b)
    <2>1. work[b].step = "append" /\ checkpoints[b] \in Seq(Item) /\ checkpoints[b] # None
      BY <1>13, DocTyped, NoneIsNoValue DEF AppendItem, AtDocument
    <2>2. PICK items : /\ items = Append(checkpoints[b], work[b].item) /\ checkpoints'[b] = items
                       /\ work'[b].step = Onward(items, b)
      BY <1>13 DEF AppendItem, NoWork, Typed, TypeOK
    <2>3. Onward(items, b) \in {"verify", "read"}
      BY DEF Onward
    <2>4. i \in DOMAIN items /\ items[i].status = "created"
      BY <2>2, <2>3 DEF Claims
    <2>5. \/ i \in DOMAIN checkpoints[b] /\ items[i] = checkpoints[b][i]
          \/ i = Len(checkpoints[b]) + 1 /\ items[i] = work[b].item
      BY <2>1, <2>2, <2>4 DEF Typed, TypeOK
    <2> QED BY <2>1, <2>4, <2>5 DEF Claims
  <1>14. CASE CheckAll(b)
    BY <1>3, <1>5, <1>14 DEF CheckAll, OnlyWork
  <1>15. CASE WriteFinal(b) \/ CrashBatch(b)
    BY <1>3, <1>15 DEF WriteFinal, CrashBatch
  <1> QED BY <1>6, <1>7, <1>8, <1>9, <1>10, <1>11, <1>12, <1>13, <1>14, <1>15 DEF BatchStep

\* So no step makes a second claim to a candidate.
LEMMA NextOneClaim ==
  ASSUME IInv, [Next]_vars
  PROVE  OneClaim'
  <1> USE DEF IInv
  <1>1. CASE UNCHANGED <<work, checkpoints>>
    BY <1>1 DEF OneClaim, Claims
  <1>2. ASSUME NEW b \in Batch, Open(b) \/ BatchStep(b) \/ CrashBatch(b) PROVE OneClaim'
    <2> DEFINE New(d, i) == /\ d = b /\ i = Len(checkpoints[b]) + 1
                            /\ candidates[Documents[d][i].candidate] = None
    <2>1. ASSUME NEW d \in Batch, NEW i \in DOMAIN Documents[d], Claims(d, i)'
          PROVE  Claims(d, i) \/ New(d, i)
      <3>1. CASE d = b
        BY <1>2, <2>1, <3>1, OnlyRenameClaims
      <3>2. CASE d # b
        BY <1>2, <2>1, <3>2, BatchIsLocal DEF Claims
      <3> QED BY <3>1, <3>2
    <2>2. ASSUME NEW d \in Batch, NEW i \in DOMAIN Documents[d], Claims(d, i)
          PROVE  candidates[Documents[d][i].candidate] # None
      BY <2>2, ClaimedIsThere
    <2>3. ASSUME NEW d \in Batch, NEW e \in Batch,
                 NEW i \in DOMAIN Documents[d], NEW j \in DOMAIN Documents[e],
                 Claims(d, i)', Claims(e, j)',
                 Documents[d][i].candidate = Documents[e][j].candidate
          PROVE  d = e /\ i = j
      <3>1. (Claims(d, i) \/ New(d, i)) /\ (Claims(e, j) \/ New(e, j))
        BY <2>1, <2>3
      <3>2. CASE Claims(d, i) /\ Claims(e, j)
        BY <2>3, <3>2 DEF OneClaim
      <3> QED BY <2>2, <2>3, <3>1, <3>2
    <2> QED BY <2>3 DEF OneClaim
  <1>3. ASSUME ~ \E b \in Batch : Open(b) \/ BatchStep(b) \/ CrashBatch(b)
        PROVE  UNCHANGED <<work, checkpoints>>
    BY <1>3 DEF Next, Spoil, Tick, batchVars, vars
  <1> QED BY <1>1, <1>2, <1>3

-----------------------------------------------------------------------------
(* The inductive invariant. *)

\* No batch has an item or a run yet.
THEOREM InitIInv == Init => IInv
  <1> SUFFICES ASSUME Init PROVE IInv
    OBVIOUS
  <1>1. Typed
    BY InitTyped
  <1>2. \A b \in Batch : checkpoints[b] = None /\ work[b].step = "none"
    BY DEF Init, NoWork
  <1>3. Grounded
    BY <1>2 DEF Grounded, CheckpointGrounded, RunGrounded
  <1>4. OneClaim
    BY <1>2 DEF OneClaim, Claims
  <1> QED BY <1>1, <1>3, <1>4 DEF IInv

\* Every step keeps the types, the items true, and one claim to a candidate.
THEOREM NextIInv == IInv /\ [Next]_vars => IInv'
  BY NextTyped, NextGrounded, NextOneClaim DEF IInv

\* So all of it always holds.
THEOREM Invariance == Spec => []IInv
  BY InitIInv, NextIInv, PTL DEF Spec

\* What an item of a checkpoint says is true, whatever other batches and reviewers do.
THEOREM ItemsTrue == Spec => []ItemsAreTrue
  <1>1. IInv => ItemsAreTrue
    <2> SUFFICES ASSUME IInv, NEW x \in Items
                 PROVE  IF x[2].status = "rejected" THEN RejectedForCause(x) ELSE FoundIsThere(x)
      BY DEF ItemsAreTrue
    <2>1. PICK b \in Batch :
             /\ checkpoints[b] # None
             /\ \E i \in DOMAIN checkpoints[b] :
                   x = <<Documents[b][i], checkpoints[b][i], b, i>>
      BY DEF Items
    <2>2. \A i \in DOMAIN checkpoints[b] : ItemTrue(Documents[b][i], checkpoints[b][i])
      BY <2>1 DEF IInv, Grounded, CheckpointGrounded
    <2> QED BY <2>1, <2>2 DEF ItemTrue, RejectedForCause, FoundIsThere
  <1> QED BY <1>1, Invariance, PTL

\* Two items never both say that they created one candidate.
THEOREM CreatedOnceHolds == Spec => []CreatedOnce
  <1>1. IInv => CreatedOnce
    <2> SUFFICES ASSUME IInv, NEW x \in Items, NEW y \in Items,
                        x[2].status = "created", y[2].status = "created",
                        x[1].candidate = y[1].candidate
                 PROVE  x = y
      BY DEF CreatedOnce
    <2>1. ASSUME NEW z \in Items, z[2].status = "created"
          PROVE  \E b \in Batch : \E i \in DOMAIN Documents[b] :
                    Claims(b, i) /\ z = <<Documents[b][i], checkpoints[b][i], b, i>>
      <3>1. PICK b \in Batch :
               /\ checkpoints[b] # None
               /\ \E i \in DOMAIN checkpoints[b] :
                     z = <<Documents[b][i], checkpoints[b][i], b, i>>
        BY <2>1 DEF Items
      <3>2. /\ checkpoints[b] \in Seq(Item) /\ Len(checkpoints[b]) <= Len(Documents[b])
            /\ Documents[b] \in Seq(Document)
        BY <3>1, BatchConstants DEF IInv, Typed, TypeOK, Bearings
      <3>3. \A i \in DOMAIN checkpoints[b] : i \in DOMAIN Documents[b]
        BY <3>2
      <3> QED BY <2>1, <3>1, <3>3 DEF Claims
    <2>2. PICK b \in Batch : \E i \in DOMAIN Documents[b] :
             Claims(b, i) /\ x = <<Documents[b][i], checkpoints[b][i], b, i>>
      BY <2>1
    <2>3. PICK d \in Batch : \E j \in DOMAIN Documents[d] :
             Claims(d, j) /\ y = <<Documents[d][j], checkpoints[d][j], d, j>>
      BY <2>1
    <2> QED BY <2>2, <2>3 DEF IInv, OneClaim
  <1> QED BY <1>1, Invariance, PTL
=============================================================================
