------------------------ MODULE DiagnosticQueueProofs ------------------------
(***************************************************************************)
(* DiagnosticManager implements DiagnosticQueue under the mapping that     *)
(* takes the queue to be the documents in the pipeline (InPipeline), for   *)
(* every value of the constants that satisfies ConstAssumption.           *)
(*                                                                         *)
(* The steps that publish must be Complete or Late steps of the queue, so  *)
(* what they publish must not be newer than the text: the registered       *)
(* computation read the current text (RegisteredIsCurrent), and the        *)
(* unregistered ones read a text no newer than the current one             *)
(* (OrphansBehind), which keeps freshPub behind the text (FreshBounded).   *)
(***************************************************************************)
EXTENDS DiagnosticManagerProofs

\* Published fresh versions never run ahead of the text.
FreshBounded == \A d \in Docs : freshPub[d] <= version[d]

\* An unregistered computation read a text no newer than the current one.
OrphansBehind == \A o \in DOMAIN orphans : o.ver <= version[o.doc]

RInv == Inv /\ FreshBounded /\ OrphansBehind

\* The refinement mapping: the queue of DiagnosticQueue.
Queued == {d \in Docs : InPipeline(d)}

-----------------------------------------------------------------------------
(* The versions bound.                                                     *)

\* Detaching registered computations only adds current readers, and edits
\* only move the text forward.
LEMMA DetachedBehind ==
    ASSUME Inv, OrphansBehind, NEW S, S \subseteq Docs, NEW c,
           version' \in [Docs -> Versions],
           \A d \in Docs : version[d] <= version'[d]
    PROVE  \A o \in DOMAIN Detached(S, c) : o.ver <= version'[o.doc]
<1>0. TypeRest
  BY TypeSplit DEF Inv
<1>1. DOMAIN Detached(S, c) =
        DOMAIN orphans \cup
        {[phase |-> inFlight[d].phase, doc |-> d, ver |-> inFlight[d].ver,
          cfg |-> inFlight[d].cfg, cancelled |-> c] :
           d \in {e \in S : inFlight[e] # NoReq}}
  BY DEF Detached, PutAll
<1>2. ASSUME NEW o \in DOMAIN orphans PROVE o.ver <= version'[o.doc]
  <2>1. o \in OrphanRecs
    BY <1>0 DEF TypeRest, IsOrphanBag
  <2>. QED BY <1>0, <2>1 DEF OrphansBehind, OrphanRecs, TypeRest, Versions
<1>3. ASSUME NEW d \in S, inFlight[d] # NoReq
      PROVE  inFlight[d].ver <= version'[d]
  BY <1>0, <1>3 DEF Inv, RegisteredIsCurrent, TypeRest, Versions
<1>. QED BY <1>1, <1>2, <1>3

\* Handing a computation on to its next phase keeps what it read.
LEMMA TakeBehind ==
    ASSUME OrphansBehind, NEW o \in DOMAIN orphans, o \in OrphanRecs,
           UNCHANGED version,
           \/ orphans' = Take(orphans, o)
           \/ orphans' = PutAll(Take(orphans, o), {[o EXCEPT !.phase = "validate"]})
    PROVE  OrphansBehind'
<1>1. DOMAIN Take(orphans, o) \subseteq DOMAIN orphans
  BY DEF Take
<1>2. \A x \in DOMAIN orphans' :
         x \in DOMAIN orphans \/ x = [o EXCEPT !.phase = "validate"]
  BY <1>1 DEF PutAll
<1>3. /\ [o EXCEPT !.phase = "validate"].ver = o.ver
      /\ [o EXCEPT !.phase = "validate"].doc = o.doc
  BY DEF OrphanRecs
<1>4. ASSUME NEW x \in DOMAIN orphans' PROVE x.ver <= version'[x.doc]
  <2>1. CASE x \in DOMAIN orphans
    BY <2>1 DEF OrphansBehind
  <2>2. CASE x = [o EXCEPT !.phase = "validate"]
    BY <2>2, <1>3 DEF OrphansBehind
  <2>. QED BY <1>2, <2>1, <2>2
<1>. QED BY <1>4 DEF OrphansBehind

LEMMA NextBehind ==
    ASSUME Inv, Inv', FreshBounded, OrphansBehind, [Next]_vars
    PROVE  FreshBounded' /\ OrphansBehind'
<1>0. TypeRest /\ version' \in [Docs -> Versions] /\ freshPub' \in [Docs -> Versions]
  BY TypeSplit DEF Inv, TypeOK
<1>1. CASE \E d \in Docs : ChangeDocument(d)
  <2>1. PICK d \in Docs : ChangeDocument(d)
    BY <1>1
  <2>2. \A e \in Docs : version[e] <= version'[e]
    BY <1>0, <2>1 DEF ChangeDocument, TypeRest, Versions
  <2>3. orphans' = Detached({d}, TRUE)
    BY <2>1 DEF ChangeDocument, TriggerDiagnostics, Detach
  <2>4. \A o \in DOMAIN Detached({d}, TRUE) : o.ver <= version'[o.doc]
    BY <1>0, <2>2, DetachedBehind
  <2>5. UNCHANGED freshPub
    BY <2>1 DEF ChangeDocument
  <2>6. OrphansBehind'
    BY <2>3, <2>4 DEF OrphansBehind
  <2>7. FreshBounded'
    BY <1>0, <2>2, <2>5 DEF FreshBounded, TypeRest, Versions
  <2>. QED BY <2>6, <2>7
<1>2. CASE \E d \in Docs : CloseDocument(d)
  <2>1. PICK d \in Docs : CloseDocument(d)
    BY <1>2
  <2>2. orphans' = Detached({d}, TRUE) /\ UNCHANGED <<version, freshPub>>
    BY <2>1 DEF CloseDocument, Detach
  <2>5. \A e \in Docs : version[e] <= version'[e]
    BY <1>0, <2>2 DEF TypeRest, Versions
  <2>6. \A o \in DOMAIN Detached({d}, TRUE) : o.ver <= version'[o.doc]
    BY <1>0, <2>5, DetachedBehind
  <2>. QED BY <2>2, <2>6 DEF FreshBounded, OrphansBehind
<1>3. CASE ChangeConfiguration
  <2>1. orphans' = Detached(Docs, FALSE) /\ UNCHANGED <<version, freshPub>>
    BY <1>3 DEF ChangeConfiguration, Detach
  <2>5. \A e \in Docs : version[e] <= version'[e]
    BY <1>0, <2>1 DEF TypeRest, Versions
  <2>6. \A o \in DOMAIN Detached(Docs, FALSE) : o.ver <= version'[o.doc]
    BY <1>0, <2>5, DetachedBehind
  <2>. QED BY <2>1, <2>6 DEF FreshBounded, OrphansBehind
<1>4. CASE RebuildResume
  <2>1. orphans' = Detached(Docs, TRUE) /\ UNCHANGED <<version, freshPub>>
    BY <1>4 DEF RebuildResume, TriggerDiagnostics, Detach
  <2>5. \A e \in Docs : version[e] <= version'[e]
    BY <1>0, <2>1 DEF TypeRest, Versions
  <2>6. \A o \in DOMAIN Detached(Docs, TRUE) : o.ver <= version'[o.doc]
    BY <1>0, <2>5, DetachedBehind
  <2>. QED BY <2>1, <2>6 DEF FreshBounded, OrphansBehind
<1>5. CASE DelayerFire \/ \E d \in Docs : LinksComputed(d)
  BY <1>5 DEF DelayerFire, LinksComputed, FreshBounded, OrphansBehind
<1>6. CASE \E d \in Docs : StartRequest(d)
  <2>1. PICK d \in Docs : StartRequest(d)
    BY <1>6
  <2>2. orphans' = Detached({d}, TRUE) /\ UNCHANGED version
    BY <2>1 DEF StartRequest
  <2>3. OrphansBehind'
    <3>0. \A e \in Docs : version[e] <= version'[e]
      BY <1>0, <2>2 DEF TypeRest, Versions
    <3>1. \A o \in DOMAIN Detached({d}, TRUE) : o.ver <= version'[o.doc]
      BY <1>0, <3>0, DetachedBehind
    <3>. QED BY <2>2, <3>1 DEF OrphansBehind
  <2>4. CASE config \in EnabledConfigs
    <3>1. UNCHANGED freshPub
      BY <2>1, <2>4 DEF StartRequest
    <3>. QED BY <2>2, <2>3, <3>1 DEF FreshBounded
  <2>5. CASE config \notin EnabledConfigs
    <3>1. Publish(d, version[d], FALSE, EmptyDiags)
      BY <2>1, <2>5 DEF StartRequest
    <3>2. /\ \A e \in Docs \ {d} : freshPub'[e] = freshPub[e]
          /\ freshPub'[d] \in {freshPub[d], version[d]}
      BY <1>0, <3>1, PublishFresh DEF TypeRest
    <3>. QED BY <1>0, <2>2, <2>3, <3>2 DEF FreshBounded, TypeRest, Versions
  <2>. QED BY <2>4, <2>5
<1>7. CASE \E d \in Docs : ValidationComputed(d)
  <2>1. PICK d \in Docs : ValidationComputed(d)
    BY <1>7
  <2>2. inFlight[d] \in RegRecs /\ inFlight[d].ver = version[d]
    BY <1>0, <2>1 DEF Inv, RegisteredIsCurrent, ValidationComputed, TypeRest
  <2>3. Publish(d, inFlight[d].ver, FALSE,
                Diags(inFlight[d].ver, inFlight[d].cfg, TRUE))
    BY <2>1 DEF ValidationComputed
  <2>4. /\ \A e \in Docs \ {d} : freshPub'[e] = freshPub[e]
        /\ freshPub'[d] \in {freshPub[d], version[d]}
    BY <1>0, <2>2, <2>3, PublishFresh DEF TypeRest, RegRecs
  <2>5. UNCHANGED <<version, orphans>>
    BY <2>1 DEF ValidationComputed
  <2>. QED BY <1>0, <2>4, <2>5 DEF FreshBounded, OrphansBehind, TypeRest, Versions
<1>8. CASE \E o \in OrphanRecs : OrphanLinksComputed(o)
  <2>1. PICK o \in OrphanRecs : OrphanLinksComputed(o)
    BY <1>8
  <2>2. o \in DOMAIN orphans /\ UNCHANGED version
    BY <2>1 DEF OrphanLinksComputed
  <2>3. OrphansBehind'
    <3>1. \/ orphans' = Take(orphans, o)
          \/ orphans' = PutAll(Take(orphans, o), {[o EXCEPT !.phase = "validate"]})
      BY <2>1, Zenon DEF OrphanLinksComputed
    <3>. QED BY <2>2, <3>1, TakeBehind
  <2>4. FreshBounded'
    <3>1. CASE o.cancelled
      <4>1. Publish(o.doc, o.ver, TRUE, EmptyDiags)
        BY <2>1, <3>1 DEF OrphanLinksComputed
      <4>2. freshPub' = freshPub
        BY <4>1 DEF Publish
      <4>. QED BY <2>2, <4>2 DEF FreshBounded
    <3>2. CASE ~o.cancelled
      BY <2>1, <2>2, <3>2, Zenon DEF OrphanLinksComputed, FreshBounded
    <3>. QED BY <3>1, <3>2
  <2>. QED BY <2>3, <2>4
<1>9. CASE \E o \in OrphanRecs : OrphanValidationComputed(o)
  <2>1. PICK o \in OrphanRecs : OrphanValidationComputed(o)
    BY <1>9
  <2>2. o \in DOMAIN orphans /\ orphans' = Take(orphans, o) /\ UNCHANGED version
    BY <2>1 DEF OrphanValidationComputed
  <2>3. OrphansBehind'
    BY <2>2, TakeBehind
  <2>4. o.ver <= version[o.doc] /\ o.doc \in Docs /\ o.ver \in Versions
        /\ o.cancelled \in BOOLEAN
    BY <2>2 DEF OrphansBehind, OrphanRecs
  <2>5. PICK complete \in BOOLEAN :
          Publish(o.doc, o.ver, o.cancelled, Diags(o.ver, o.cfg, complete))
    BY <2>1 DEF OrphanValidationComputed
  <2>6. /\ \A e \in Docs \ {o.doc} : freshPub'[e] = freshPub[e]
        /\ freshPub'[o.doc] \in {freshPub[o.doc], o.ver}
    BY <1>0, <2>4, <2>5, PublishFresh DEF TypeRest
  <2>. QED BY <1>0, <2>2, <2>3, <2>4, <2>6 DEF FreshBounded, TypeRest, Versions
<1>10. CASE UNCHANGED vars
  BY <1>10 DEF vars, FreshBounded, OrphansBehind
<1>. QED BY <1>1, <1>2, <1>3, <1>4, <1>5, <1>6, <1>7, <1>8, <1>9, <1>10
         DEF Next, Environment, System

-----------------------------------------------------------------------------
(* Every step of the manager is a step of the queue or leaves the queue's  *)
(* variables alone.                                                        *)

\* A step that keeps every document's place in the pipeline and publishes
\* nothing fresh is a stutter of the queue.
LEMMA QueueStutter ==
    ASSUME \A e \in Docs : InPipeline(e)' <=> InPipeline(e),
           UNCHANGED <<version, textOpen, freshPub>>
    PROVE  UNCHANGED Queue!qvars
<1>1. Queued' = Queued
  BY DEF Queued
<1>. QED BY <1>1 DEF Queue!qvars, Queued

\* Where only d may leave the pipeline, the queue keeps its other members.
LEMMA QueueMaybeDrop ==
    ASSUME NEW d \in Docs, InPipeline(d)' => InPipeline(d),
           \A e \in Docs \ {d} : InPipeline(e)' <=> InPipeline(e)
    PROVE  Queued' \in {Queued, Queued \ {d}}
<1>1. CASE InPipeline(d)'
  <2>1. Queued' = Queued
    BY <1>1 DEF Queued
  <2>. QED BY <2>1
<1>2. CASE ~InPipeline(d)'
  <2>1. Queued' = Queued \ {d}
    BY <1>2 DEF Queued
  <2>. QED BY <2>1
<1>. QED BY <1>1, <1>2

\* The registered computation of d, or a disabled validation, publishes the
\* current text of d: a Complete step.
LEMMA QueueComplete ==
    ASSUME TypeRest, FreshBounded, NEW d \in Docs, InPipeline(d), NEW r,
           Publish(d, version[d], FALSE, r),
           \A e \in Docs \ {d} : InPipeline(e)' <=> InPipeline(e),
           UNCHANGED <<version, textOpen>>
    PROVE  Queue!Complete(d)
<1>1. freshPub' = [freshPub EXCEPT ![d] = version[d]]
  <2>1. CASE version[d] <= freshPub[d]
    <3>1. freshPub[d] = version[d]
      BY <2>1 DEF FreshBounded, TypeRest, Versions
    <3>2. freshPub' = freshPub
      BY <2>1 DEF Publish
    <3>. QED BY <3>1, <3>2 DEF TypeRest
  <2>2. CASE ~(version[d] <= freshPub[d])
    BY <2>2 DEF Publish
  <2>. QED BY <2>1, <2>2
<1>2. Queued' \in {Queued, Queued \ {d}}
  BY QueueMaybeDrop
<1>3. d \in Queued
  BY DEF Queued
<1>. QED BY <1>1, <1>2, <1>3 DEF Queue!Complete, Queued

LEMMA ChangeDocumentRefines ==
    ASSUME Inv, NEW d \in Docs, ChangeDocument(d)
    PROVE  Queue!Edit(d)
<1>1. \A e \in Docs : inFlight'[e] = IF e \in {d} THEN NoReq ELSE inFlight[e]
  <2>1. Detach({d}, TRUE)
    BY DEF ChangeDocument, TriggerDiagnostics
  <2>. QED BY <2>1, DetachInFlight DEF Inv
<1>2. \A e \in Docs : InPipeline(e)' <=> InPipeline(e) \/ e = d
  BY <1>1 DEF ChangeDocument, TriggerDiagnostics, InPipeline
<1>3. Queued' = Queued \cup {d}
  BY <1>2 DEF Queued
<1>. QED BY <1>3 DEF ChangeDocument, Queue!Edit, Queued

LEMMA CloseDocumentRefines ==
    ASSUME Inv, NEW d \in Docs, CloseDocument(d)
    PROVE  Queue!Close(d)
<1>1. \A e \in Docs : inFlight'[e] = IF e \in {d} THEN NoReq ELSE inFlight[e]
  <2>1. Detach({d}, TRUE)
    BY DEF CloseDocument
  <2>. QED BY <2>1, DetachInFlight DEF Inv
<1>2. /\ InPipeline(d)' => InPipeline(d)
      /\ \A e \in Docs \ {d} : InPipeline(e)' <=> InPipeline(e)
  BY <1>1 DEF CloseDocument, InPipeline
<1>3. Queued' \in {Queued, Queued \ {d}}
  BY <1>2, QueueMaybeDrop
<1>. QED BY <1>3 DEF CloseDocument, Queue!Close, Queued

LEMMA ChangeConfigurationRefines ==
    ASSUME Inv, ChangeConfiguration
    PROVE  Queue!Requeue
<1>1. Queued' = Docs
  BY DEF ChangeConfiguration, Inv, TypeOK, Queued, InPipeline
<1>. QED BY <1>1 DEF ChangeConfiguration, Queue!Requeue, Queued

LEMMA RebuildResumeRefines ==
    ASSUME Inv, RebuildResume
    PROVE  UNCHANGED Queue!qvars
<1>1. \A e \in Docs : InPipeline(e)' /\ InPipeline(e)
  BY DEF RebuildResume, TriggerDiagnostics, InPipeline
<1>. QED BY <1>1, QueueStutter DEF RebuildResume

LEMMA DelayerFireRefines ==
    ASSUME Inv, DelayerFire
    PROVE  UNCHANGED Queue!qvars
<1>1. \A e \in Docs : InPipeline(e)' <=> InPipeline(e)
  BY DEF DelayerFire, Inv, TypeOK, InPipeline
<1>. QED BY <1>1, QueueStutter DEF DelayerFire

LEMMA StartRequestRefines ==
    ASSUME RInv, NEW d \in Docs, StartRequest(d)
    PROVE  [Queue!Next]_Queue!qvars
<1>0. TypeRest /\ FreshBounded
  BY TypeSplit DEF RInv, Inv
<1>1. /\ UNCHANGED <<version, textOpen, pending, rebuilding>>
      /\ \A e \in Docs \ {d} : resolving'[e] = resolving[e]
      /\ \A e \in Docs \ {d} : inFlight'[e] = inFlight[e]
      /\ InPipeline(d)
  BY <1>0 DEF StartRequest, TypeRest, InPipeline
<1>2. \A e \in Docs \ {d} : InPipeline(e)' <=> InPipeline(e)
  BY <1>1 DEF InPipeline
<1>3. CASE config \in EnabledConfigs
  <2>1. [phase |-> "links", ver |-> version[d], cfg |-> config] \in RegRecs
    BY <1>0 DEF TypeRest, RegRecs, Phases
  <2>2. inFlight'[d] = [phase |-> "links", ver |-> version[d], cfg |-> config]
        /\ freshPub' = freshPub
    BY <1>0, <1>3 DEF StartRequest, TypeRest
  <2>3. inFlight'[d] # NoReq
    BY <2>1, <2>2, ConstAssumption DEF ConstAssumption
  <2>4. \A e \in Docs : InPipeline(e)' <=> InPipeline(e)
    BY <1>1, <1>2, <2>3 DEF InPipeline
  <2>. QED BY <1>1, <2>2, <2>4, QueueStutter
<1>4. CASE config \notin EnabledConfigs
  <2>1. Publish(d, version[d], FALSE, EmptyDiags)
    BY <1>4 DEF StartRequest
  <2>2. Queue!Complete(d)
    BY <1>0, <1>1, <1>2, <2>1, QueueComplete
  <2>. QED BY <2>2 DEF Queue!Next
<1>. QED BY <1>3, <1>4

LEMMA LinksComputedRefines ==
    ASSUME Inv, NEW d \in Docs, LinksComputed(d)
    PROVE  UNCHANGED Queue!qvars
<1>0. TypeRest
  BY TypeSplit DEF Inv
<1>1. \A e \in Docs : inFlight'[e] # NoReq <=> inFlight[e] # NoReq
  <2>1. inFlight[d] \in RegRecs
    BY <1>0 DEF TypeRest, LinksComputed
  <2>2. inFlight'[d] \in RegRecs
    BY <2>1 DEF RegRecs, Phases, LinksComputed
  <2>3. \A e \in Docs \ {d} : inFlight'[e] = inFlight[e]
    BY <1>0 DEF TypeRest, LinksComputed
  <2>. QED BY <1>0, <2>1, <2>2, <2>3, ConstAssumption DEF ConstAssumption
<1>2. \A e \in Docs : InPipeline(e)' <=> InPipeline(e)
  BY <1>1 DEF LinksComputed, InPipeline
<1>. QED BY <1>2, QueueStutter DEF LinksComputed

LEMMA ValidationComputedRefines ==
    ASSUME RInv, NEW d \in Docs, ValidationComputed(d)
    PROVE  Queue!Complete(d)
<1>0. TypeRest /\ FreshBounded
  BY TypeSplit DEF RInv, Inv
<1>1. inFlight[d] \in RegRecs /\ inFlight[d].ver = version[d]
  BY <1>0 DEF RInv, Inv, RegisteredIsCurrent, ValidationComputed, TypeRest
<1>2. Publish(d, version[d], FALSE,
              Diags(inFlight[d].ver, inFlight[d].cfg, TRUE))
  BY <1>1 DEF ValidationComputed
<1>3. /\ UNCHANGED <<version, textOpen, pending, resolving, rebuilding>>
      /\ \A e \in Docs \ {d} : inFlight'[e] = inFlight[e]
      /\ InPipeline(d)
  BY <1>0 DEF ValidationComputed, TypeRest, InPipeline
<1>4. \A e \in Docs \ {d} : InPipeline(e)' <=> InPipeline(e)
  BY <1>3 DEF InPipeline
<1>. QED BY <1>0, <1>2, <1>3, <1>4, QueueComplete

LEMMA OrphanRefines ==
    ASSUME RInv, NEW o \in OrphanRecs,
           OrphanLinksComputed(o) \/ OrphanValidationComputed(o)
    PROVE  [Queue!Next]_Queue!qvars
<1>0. TypeRest /\ FreshBounded /\ OrphansBehind
  BY TypeSplit DEF RInv, Inv
<1>1. /\ UNCHANGED <<version, textOpen, pending, resolving, inFlight, rebuilding>>
      /\ o \in DOMAIN orphans
  BY DEF OrphanLinksComputed, OrphanValidationComputed
<1>2. \A e \in Docs : InPipeline(e)' <=> InPipeline(e)
  BY <1>1 DEF InPipeline
<1>3. o.doc \in Docs /\ o.ver \in Versions /\ o.cancelled \in BOOLEAN
      /\ o.ver <= version[o.doc]
  BY <1>0, <1>1 DEF OrphanRecs, OrphansBehind
<1>4. CASE OrphanLinksComputed(o)
  <2>1. freshPub' = freshPub
    <3>1. CASE o.cancelled
      BY <1>4, <3>1 DEF OrphanLinksComputed, Publish
    <3>2. CASE ~o.cancelled
      BY <1>4, <3>2, Zenon DEF OrphanLinksComputed
    <3>. QED BY <3>1, <3>2
  <2>. QED BY <1>1, <1>2, <2>1, QueueStutter
<1>5. CASE OrphanValidationComputed(o)
  <2>1. PICK complete \in BOOLEAN :
          Publish(o.doc, o.ver, o.cancelled, Diags(o.ver, o.cfg, complete))
    BY <1>5 DEF OrphanValidationComputed
  <2>2. CASE o.cancelled \/ o.ver <= freshPub[o.doc]
    <3>1. freshPub' = freshPub
      BY <2>1, <2>2 DEF Publish
    <3>. QED BY <1>1, <1>2, <3>1, QueueStutter
  <2>3. CASE ~(o.cancelled \/ o.ver <= freshPub[o.doc])
    <3>1. freshPub' = [freshPub EXCEPT ![o.doc] = o.ver]
      BY <2>1, <2>3 DEF Publish
    <3>2. freshPub[o.doc] < o.ver
      BY <1>0, <1>3, <2>3 DEF TypeRest, Versions
    <3>3. Queued' = Queued
      BY <1>2 DEF Queued
    <3>4. Queue!Late(o.doc, o.ver)
      BY <1>1, <1>3, <3>1, <3>2, <3>3 DEF Queue!Late, Queued
    <3>. QED BY <1>3, <3>4 DEF Queue!Next, Versions
  <2>. QED BY <2>2, <2>3
<1>. QED BY <1>4, <1>5

LEMMA NextRefines ==
    ASSUME RInv, [Next]_vars
    PROVE  [Queue!Next]_Queue!qvars
<1>1. CASE \E d \in Docs : ChangeDocument(d) \/ CloseDocument(d)
  BY <1>1, ChangeDocumentRefines, CloseDocumentRefines DEF RInv, Queue!Next
<1>2. CASE ChangeConfiguration
  BY <1>2, ChangeConfigurationRefines DEF RInv, Queue!Next
<1>3. CASE RebuildResume \/ DelayerFire
  BY <1>3, RebuildResumeRefines, DelayerFireRefines DEF RInv
<1>4. CASE \E d \in Docs : StartRequest(d) \/ LinksComputed(d)
  BY <1>4, StartRequestRefines, LinksComputedRefines DEF RInv
<1>5. CASE \E d \in Docs : ValidationComputed(d)
  BY <1>5, ValidationComputedRefines DEF Queue!Next
<1>6. CASE \E o \in OrphanRecs : OrphanLinksComputed(o) \/ OrphanValidationComputed(o)
  BY <1>6, OrphanRefines
<1>7. CASE UNCHANGED vars
  <2>1. \A e \in Docs : InPipeline(e)' <=> InPipeline(e)
    BY <1>7 DEF vars, InPipeline
  <2>. QED BY <1>7, <2>1, QueueStutter DEF vars
<1>. QED BY <1>1, <1>2, <1>3, <1>4, <1>5, <1>6, <1>7 DEF Next, Environment, System

LEMMA InitRefines ==
    ASSUME Init
    PROVE  RInv /\ Queue!Init
<1>1. Inv
  BY InitInv
<1>2. FreshBounded /\ OrphansBehind
  BY DEF Init, FreshBounded, OrphansBehind, EmptyBag
<1>3. Queued = Docs
  BY DEF Init, Queued, InPipeline
<1>. QED BY <1>1, <1>2, <1>3 DEF RInv, Init, Queue!Init, Queued

LEMMA NextRInv ==
    ASSUME RInv, [Next]_vars
    PROVE  RInv'
<1>1. Inv'
  BY NextInv DEF RInv
<1>2. FreshBounded' /\ OrphansBehind'
  BY <1>1, NextBehind DEF RInv
<1>. QED BY <1>1, <1>2 DEF RInv

\* The diagnostics manager implements the queue: its edits, closes and
\* configuration changes queue and dequeue documents as DiagnosticQueue
\* says, every publication by the registered computation (or by
\* StartRequest when validation is disabled) is the publication of the
\* current text of a queued document, and what superseded computations
\* still publish is an older text that moves nothing in and out of the
\* queue; every other continuation leaves the queue alone.
THEOREM QueueRefinement == Spec => QueueSpec
<1>1. Init => RInv /\ Queue!Init
  BY InitRefines
<1>2. RInv /\ [Next]_vars => RInv'
  BY NextRInv
<1>3. RInv /\ [Next]_vars => [Queue!Next]_Queue!qvars
  BY NextRefines
<1>. QED BY <1>1, <1>2, <1>3, PTL DEF Spec, QueueSpec, Queue!Spec

=============================================================================
