------------------------ MODULE DiagnosticManagerProofs ------------------------
(***************************************************************************)
(* Proofs about DiagnosticManager, for every value of the constants that   *)
(* satisfies ConstAssumption.                                              *)
(***************************************************************************)
EXTENDS DiagnosticManager, TLAPS

\* orphans is a bag of computations.
IsOrphanBag(B) == DOMAIN B \subseteq OrphanRecs /\ B \in [DOMAIN B -> Nat \ {0}]

\* Adding distinct computations to a bag of computations gives a bag of
\* computations.
LEMMA PutAllBag ==
    ASSUME NEW B, IsOrphanBag(B), NEW S, S \subseteq OrphanRecs
    PROVE  IsOrphanBag(PutAll(B, S))
BY DEF IsOrphanBag, PutAll

\* Removing one copy of a member keeps it a bag of computations.
LEMMA TakeBag ==
    ASSUME NEW B, IsOrphanBag(B), NEW o
    PROVE  IsOrphanBag(Take(B, o))
BY DEF IsOrphanBag, Take

\* The computations detached from their documents are computations.
LEMMA DetachedBag ==
    ASSUME TypeOK, NEW S, S \subseteq Docs, NEW c \in BOOLEAN
    PROVE  IsOrphanBag(Detached(S, c))
<1>1. IsOrphanBag(orphans)
  BY DEF TypeOK, IsOrphanBag
<1>2. {[phase |-> inFlight[d].phase, doc |-> d, ver |-> inFlight[d].ver,
        cfg |-> inFlight[d].cfg, cancelled |-> c] :
          d \in {e \in S : inFlight[e] # NoReq}} \subseteq OrphanRecs
  BY DEF TypeOK, RegRecs, OrphanRecs
<1>. QED
  BY <1>1, <1>2, PutAllBag DEF Detached

-----------------------------------------------------------------------------
(* The inductive invariant: the type, the currency of the registered       *)
(* computations and the Delayer being armed for pending work are each      *)
(* preserved by every step, given the others.                              *)

Inv == TypeOK /\ RegisteredIsCurrent /\ PendingScheduled

\* TypeOK without its Boolean conjunct, which Zenon handles better than SMT.
TypeRest ==
    /\ version \in [Docs -> Versions]
    /\ config \in Configs
    /\ textOpen \in SUBSET Docs
    /\ pending \in SUBSET Docs
    /\ resolving \in [Docs -> Nat]
    /\ inFlight \in [Docs -> RegRecs \cup {NoReq}]
    /\ IsOrphanBag(orphans)
    /\ rebuilding \in Nat
    /\ collection \in [Docs -> Entries]
    /\ cfgChanges \in 0..MaxConfigChanges
    /\ freshPub \in [Docs -> Versions]

LEMMA TypeSplit == TypeOK <=> TypeRest /\ timer \in BOOLEAN
BY Zenon DEF TypeOK, TypeRest, IsOrphanBag

USE ConstAssumption DEF ConstAssumption

LEMMA InitInv == Init => Inv
<1>. SUFFICES ASSUME Init PROVE Inv
  OBVIOUS
<1>1. IsOrphanBag(orphans)
  BY DEF Init, EmptyBag, IsOrphanBag
<1>2. collection \in [Docs -> Entries]
  BY DEF Init, Entries, NoEntry
<1>3. inFlight \in [Docs -> RegRecs \cup {NoReq}]
  BY DEF Init
<1>4. version \in [Docs -> Versions] /\ freshPub \in [Docs -> Versions]
  BY DEF Init, Versions
<1>5. /\ textOpen \in SUBSET Docs /\ pending \in SUBSET Docs
      /\ resolving \in [Docs -> Nat] /\ rebuilding \in Nat
      /\ cfgChanges \in 0..MaxConfigChanges /\ config \in Configs
  BY DEF Init
<1>7. timer \in BOOLEAN
  BY Zenon DEF Init
<1>6. TypeOK
  BY <1>1, <1>2, <1>3, <1>4, <1>5, <1>7 DEF TypeOK, IsOrphanBag
<1>. QED
  BY <1>6 DEF Init, Inv, RegisteredIsCurrent, PendingScheduled

\* The type of a successor state, from its Boolean part and the rest.
LEMMA TypeFromParts ==
    ASSUME TypeRest', timer' \in BOOLEAN
    PROVE  TypeOK'
BY Zenon DEF TypeOK, TypeRest, IsOrphanBag

\* Detaching leaves every other document's registration as it was and
\* unregisters those of S.
LEMMA DetachInFlight ==
    ASSUME TypeOK, NEW S, S \subseteq Docs, NEW c \in BOOLEAN, Detach(S, c)
    PROVE  /\ IsOrphanBag(orphans')
           /\ inFlight' \in [Docs -> RegRecs \cup {NoReq}]
           /\ \A d \in Docs : inFlight'[d] = IF d \in S THEN NoReq ELSE inFlight[d]
<1>1. IsOrphanBag(orphans')
  BY DetachedBag DEF Detach
<1>2. inFlight' = [d \in Docs |-> IF d \in S THEN NoReq ELSE inFlight[d]]
  BY DEF Detach
<1>. QED BY <1>1, <1>2 DEF TypeOK

LEMMA ChangeDocumentInv ==
    ASSUME Inv, NEW d \in Docs, ChangeDocument(d)
    PROVE  Inv'
<1>0. TypeRest
  BY TypeSplit DEF Inv
<1>1. /\ IsOrphanBag(orphans')
      /\ inFlight' \in [Docs -> RegRecs \cup {NoReq}]
      /\ \A e \in Docs : inFlight'[e] = IF e = d THEN NoReq ELSE inFlight[e]
  <2>1. Detach({d}, TRUE)
    BY DEF ChangeDocument, TriggerDiagnostics
  <2>2. /\ IsOrphanBag(orphans')
        /\ inFlight' \in [Docs -> RegRecs \cup {NoReq}]
        /\ \A e \in Docs : inFlight'[e] = IF e \in {d} THEN NoReq ELSE inFlight[e]
    BY <2>1, DetachInFlight DEF Inv
  <2>. QED BY <2>2
<1>2. TypeRest'
  BY <1>0, <1>1 DEF TypeRest, ChangeDocument, TriggerDiagnostics, Versions
<1>3. timer' \in BOOLEAN
  BY Zenon DEF ChangeDocument, TriggerDiagnostics
<1>4. RegisteredIsCurrent'
  BY <1>1 DEF Inv, RegisteredIsCurrent, ChangeDocument
<1>5. PendingScheduled'
  BY Zenon DEF ChangeDocument, TriggerDiagnostics, PendingScheduled
<1>. QED BY <1>2, <1>3, <1>4, <1>5, TypeFromParts DEF Inv

LEMMA CloseDocumentInv ==
    ASSUME Inv, NEW d \in Docs, CloseDocument(d)
    PROVE  Inv'
<1>0. TypeRest
  BY TypeSplit DEF Inv
<1>1. /\ IsOrphanBag(orphans')
      /\ inFlight' \in [Docs -> RegRecs \cup {NoReq}]
      /\ \A e \in Docs : inFlight'[e] = IF e = d THEN NoReq ELSE inFlight[e]
  <2>1. Detach({d}, TRUE)
    BY DEF CloseDocument
  <2>2. /\ IsOrphanBag(orphans')
        /\ inFlight' \in [Docs -> RegRecs \cup {NoReq}]
        /\ \A e \in Docs : inFlight'[e] = IF e \in {d} THEN NoReq ELSE inFlight[e]
    BY <2>1, DetachInFlight DEF Inv
  <2>. QED BY <2>2
<1>2. TypeRest'
  BY <1>0, <1>1 DEF TypeRest, CloseDocument, Entries, NoEntry
<1>3. timer' \in BOOLEAN
  BY Zenon DEF Inv, TypeOK, CloseDocument
<1>4. RegisteredIsCurrent'
  BY <1>1 DEF Inv, RegisteredIsCurrent, CloseDocument
<1>5. PendingScheduled'
  BY Zenon DEF Inv, CloseDocument, PendingScheduled
<1>. QED BY <1>2, <1>3, <1>4, <1>5, TypeFromParts DEF Inv

LEMMA ChangeConfigurationInv ==
    ASSUME Inv, ChangeConfiguration
    PROVE  Inv'
<1>0. TypeRest
  BY TypeSplit DEF Inv
<1>1. /\ IsOrphanBag(orphans')
      /\ inFlight' \in [Docs -> RegRecs \cup {NoReq}]
      /\ \A e \in Docs : inFlight'[e] = NoReq
  BY DetachInFlight DEF ChangeConfiguration, Inv
<1>2. TypeRest'
  BY <1>0, <1>1 DEF TypeRest, ChangeConfiguration, Entries, NoEntry
<1>3. timer' \in BOOLEAN
  BY Zenon DEF Inv, TypeOK, ChangeConfiguration
<1>4. RegisteredIsCurrent'
  BY <1>1 DEF RegisteredIsCurrent
<1>5. PendingScheduled'
  BY Zenon DEF ChangeConfiguration, PendingScheduled
<1>. QED BY <1>2, <1>3, <1>4, <1>5, TypeFromParts DEF Inv

LEMMA RebuildResumeInv ==
    ASSUME Inv, RebuildResume
    PROVE  Inv'
<1>0. TypeRest
  BY TypeSplit DEF Inv
<1>1. /\ IsOrphanBag(orphans')
      /\ inFlight' \in [Docs -> RegRecs \cup {NoReq}]
      /\ \A e \in Docs : inFlight'[e] = NoReq
  <2>1. Detach(Docs, TRUE)
    BY DEF RebuildResume, TriggerDiagnostics
  <2>. QED BY <2>1, DetachInFlight DEF Inv
<1>2. TypeRest'
  BY <1>0, <1>1 DEF TypeRest, RebuildResume, TriggerDiagnostics
<1>3. timer' \in BOOLEAN
  BY Zenon DEF RebuildResume, TriggerDiagnostics
<1>4. RegisteredIsCurrent'
  BY <1>1 DEF RegisteredIsCurrent
<1>5. PendingScheduled'
  BY Zenon DEF RebuildResume, TriggerDiagnostics, PendingScheduled
<1>. QED BY <1>2, <1>3, <1>4, <1>5, TypeFromParts DEF Inv

LEMMA DelayerFireInv ==
    ASSUME Inv, DelayerFire
    PROVE  Inv'
<1>0. TypeRest
  BY TypeSplit DEF Inv
<1>1. TypeRest'
  BY <1>0 DEF TypeRest, DelayerFire
<1>2. timer' \in BOOLEAN
  BY Zenon DEF DelayerFire
<1>3. RegisteredIsCurrent'
  BY DEF Inv, RegisteredIsCurrent, DelayerFire
<1>4. PendingScheduled'
  BY Zenon DEF DelayerFire, PendingScheduled
<1>. QED BY <1>1, <1>2, <1>3, <1>4, TypeFromParts DEF Inv

LEMMA StartRequestInv ==
    ASSUME Inv, NEW d \in Docs, StartRequest(d)
    PROVE  Inv'
<1>0. TypeRest
  BY TypeSplit DEF Inv
<1>1. IsOrphanBag(orphans')
  BY DetachedBag DEF StartRequest, Inv
<1>2. [phase |-> "links", ver |-> version[d], cfg |-> config] \in RegRecs
  BY <1>0 DEF TypeRest, RegRecs, Phases
<1>3. /\ resolving' \in [Docs -> Nat]
      /\ UNCHANGED <<version, config, textOpen, pending, timer, rebuilding, cfgChanges>>
  BY <1>0 DEF TypeRest, StartRequest
<1>4. TypeRest' /\ RegisteredIsCurrent'
  <2>1. CASE config \in EnabledConfigs
    <3>1. /\ inFlight' = [inFlight EXCEPT ![d] =
                            [phase |-> "links", ver |-> version[d], cfg |-> config]]
          /\ UNCHANGED <<collection, freshPub>>
      BY <2>1 DEF StartRequest
    <3>2. TypeRest'
      BY <1>0, <1>1, <1>2, <1>3, <3>1 DEF TypeRest
    <3>3. RegisteredIsCurrent'
      BY <1>3, <3>1 DEF Inv, RegisteredIsCurrent
    <3>. QED BY <3>2, <3>3
  <2>2. CASE config \notin EnabledConfigs
    <3>1. /\ inFlight' = [inFlight EXCEPT ![d] = NoReq]
          /\ Publish(d, version[d], FALSE, EmptyDiags)
      BY <2>2 DEF StartRequest
    <3>2. collection' \in [Docs -> Entries] /\ freshPub' \in [Docs -> Versions]
      BY <1>0, <3>1 DEF TypeRest, Publish, ReporterSet, Entries, EmptyDiags
    <3>3. TypeRest'
      BY <1>0, <1>1, <1>3, <3>1, <3>2 DEF TypeRest
    <3>4. RegisteredIsCurrent'
      BY <1>3, <3>1 DEF Inv, RegisteredIsCurrent
    <3>. QED BY <3>3, <3>4
  <2>. QED BY <2>1, <2>2
<1>6. timer' \in BOOLEAN
  BY Zenon DEF Inv, TypeOK, StartRequest
<1>7. PendingScheduled'
  BY Zenon DEF Inv, StartRequest, PendingScheduled
<1>. QED BY <1>4, <1>6, <1>7, TypeFromParts DEF Inv

LEMMA LinksComputedInv ==
    ASSUME Inv, NEW d \in Docs, LinksComputed(d)
    PROVE  Inv'
<1>0. TypeRest
  BY TypeSplit DEF Inv
<1>1. TypeRest'
  BY <1>0 DEF TypeRest, LinksComputed, RegRecs, Phases
<1>2. timer' \in BOOLEAN
  BY Zenon DEF Inv, TypeOK, LinksComputed
<1>3. RegisteredIsCurrent'
  BY <1>0 DEF Inv, RegisteredIsCurrent, LinksComputed, TypeRest
<1>4. PendingScheduled'
  BY Zenon DEF Inv, LinksComputed, PendingScheduled
<1>. QED BY <1>1, <1>2, <1>3, <1>4, TypeFromParts DEF Inv

LEMMA ValidationComputedInv ==
    ASSUME Inv, NEW d \in Docs, ValidationComputed(d)
    PROVE  Inv'
<1>0. TypeRest
  BY TypeSplit DEF Inv
<1>1. inFlight[d] \in RegRecs
  BY <1>0 DEF TypeRest, ValidationComputed
<1>2. TypeRest'
  BY <1>0, <1>1 DEF TypeRest, ValidationComputed, Publish, ReporterSet, RegRecs,
                    Entries, Diags, EmptyDiags
<1>3. timer' \in BOOLEAN
  BY Zenon DEF Inv, TypeOK, ValidationComputed
<1>4. RegisteredIsCurrent'
  BY DEF Inv, RegisteredIsCurrent, ValidationComputed, Publish
<1>5. PendingScheduled'
  BY Zenon DEF Inv, ValidationComputed, PendingScheduled
<1>. QED BY <1>2, <1>3, <1>4, <1>5, TypeFromParts DEF Inv

LEMMA OrphanLinksComputedInv ==
    ASSUME Inv, NEW o \in OrphanRecs, OrphanLinksComputed(o)
    PROVE  Inv'
<1>0. TypeRest
  BY TypeSplit DEF Inv
<1>1. IsOrphanBag(orphans')
  <2>1. CASE o.cancelled
    BY <1>0, <2>1, TakeBag DEF OrphanLinksComputed, TypeRest
  <2>2. CASE ~o.cancelled
    <3>1. [o EXCEPT !.phase = "validate"] \in OrphanRecs
      BY DEF OrphanRecs, Phases
    <3>. QED BY <1>0, <2>2, <3>1, TakeBag, PutAllBag DEF OrphanLinksComputed, TypeRest
  <2>. QED BY <2>1, <2>2
<1>2. TypeRest'
  BY <1>0, <1>1 DEF TypeRest, OrphanLinksComputed, Publish, ReporterSet,
                    Entries, EmptyDiags, OrphanRecs
<1>3. timer' \in BOOLEAN
  BY Zenon DEF Inv, TypeOK, OrphanLinksComputed
<1>4. RegisteredIsCurrent'
  BY DEF Inv, RegisteredIsCurrent, OrphanLinksComputed
<1>5. PendingScheduled'
  BY Zenon DEF Inv, OrphanLinksComputed, PendingScheduled
<1>. QED BY <1>2, <1>3, <1>4, <1>5, TypeFromParts DEF Inv

LEMMA OrphanValidationComputedInv ==
    ASSUME Inv, NEW o \in OrphanRecs, OrphanValidationComputed(o)
    PROVE  Inv'
<1>0. TypeRest
  BY TypeSplit DEF Inv
<1>1. IsOrphanBag(orphans')
  BY <1>0, TakeBag DEF TypeRest, OrphanValidationComputed
<1>2. PICK complete \in BOOLEAN :
          Publish(o.doc, o.ver, o.cancelled, Diags(o.ver, o.cfg, complete))
  BY DEF OrphanValidationComputed
<1>3. collection' \in [Docs -> Entries] /\ freshPub' \in [Docs -> Versions]
  BY <1>0, <1>2 DEF TypeRest, Publish, ReporterSet, Entries, Diags, EmptyDiags,
                    OrphanRecs
<1>4. TypeRest'
  BY <1>0, <1>1, <1>3 DEF TypeRest, OrphanValidationComputed
<1>5. timer' \in BOOLEAN
  BY Zenon DEF Inv, TypeOK, OrphanValidationComputed
<1>6. RegisteredIsCurrent'
  BY DEF Inv, RegisteredIsCurrent, OrphanValidationComputed
<1>7. PendingScheduled'
  BY Zenon DEF Inv, OrphanValidationComputed, PendingScheduled
<1>. QED BY <1>4, <1>5, <1>6, <1>7, TypeFromParts DEF Inv

LEMMA NextInv == Inv /\ [Next]_vars => Inv'
<1>. SUFFICES ASSUME Inv, [Next]_vars PROVE Inv'
  OBVIOUS
<1>1. CASE \E d \in Docs : ChangeDocument(d) \/ CloseDocument(d)
  BY <1>1, ChangeDocumentInv, CloseDocumentInv
<1>2. CASE ChangeConfiguration
  BY <1>2, ChangeConfigurationInv
<1>3. CASE RebuildResume
  BY <1>3, RebuildResumeInv
<1>4. CASE DelayerFire
  BY <1>4, DelayerFireInv
<1>5. CASE \E d \in Docs : StartRequest(d) \/ LinksComputed(d) \/ ValidationComputed(d)
  BY <1>5, StartRequestInv, LinksComputedInv, ValidationComputedInv
<1>6. CASE \E o \in OrphanRecs : OrphanLinksComputed(o) \/ OrphanValidationComputed(o)
  BY <1>6, OrphanLinksComputedInv, OrphanValidationComputedInv
<1>7. CASE UNCHANGED vars
  BY <1>7 DEF vars, Inv, TypeOK, RegisteredIsCurrent, PendingScheduled
<1>. QED BY <1>1, <1>2, <1>3, <1>4, <1>5, <1>6, <1>7 DEF Next, Environment, System

-----------------------------------------------------------------------------
(* No edit is dropped.  UnpublishedEditInPipeline is inductive relative to *)
(* Inv: the registered computation of a document read its current text    *)
(* (RegisteredIsCurrent), so when it publishes, the document's newest      *)
(* version is published.                                                   *)

\* What a publication does to freshPub: it never decreases, moves only for
\* the published document, and an uncancelled one reaches its version.
LEMMA PublishFresh ==
    ASSUME NEW d \in Docs, NEW v \in Versions, NEW c \in BOOLEAN, NEW r,
           freshPub \in [Docs -> Versions], Publish(d, v, c, r)
    PROVE  /\ freshPub' \in [Docs -> Versions]
           /\ \A e \in Docs \ {d} : freshPub'[e] = freshPub[e]
           /\ freshPub'[d] >= freshPub[d]
           /\ ~c => freshPub'[d] >= v
           /\ freshPub'[d] \in {freshPub[d], v}
BY DEF Publish, Versions

\* A step keeps UnpublishedEditInPipeline when it opens no document, does
\* not take any document but d out of the pipeline, and keeps d in it or
\* publishes its current text.
LEMMA PipelineFrame ==
    ASSUME UnpublishedEditInPipeline, NEW d \in Docs,
           textOpen' \subseteq textOpen,
           \A e \in textOpen' \ {d} :
               freshPub'[e] < version'[e] => freshPub[e] < version[e],
           \A e \in textOpen' \ {d} : InPipeline(e) => InPipeline(e)',
           d \in textOpen' /\ freshPub'[d] < version'[d] => InPipeline(d)'
    PROVE  UnpublishedEditInPipeline'
BY Zenon DEF UnpublishedEditInPipeline

LEMMA ChangeDocumentPipeline ==
    ASSUME Inv, UnpublishedEditInPipeline, NEW d \in Docs, ChangeDocument(d)
    PROVE  UnpublishedEditInPipeline'
<1>1. \A e \in Docs : inFlight'[e] = IF e \in {d} THEN NoReq ELSE inFlight[e]
  BY DetachInFlight DEF Inv, ChangeDocument, TriggerDiagnostics
<1>2. d \in pending' /\ pending \subseteq pending'
  BY DEF ChangeDocument, TriggerDiagnostics
<1>. QED BY <1>1, <1>2 DEF Inv, TypeOK, ChangeDocument, UnpublishedEditInPipeline,
                          InPipeline

LEMMA CloseDocumentPipeline ==
    ASSUME Inv, UnpublishedEditInPipeline, NEW d \in Docs, CloseDocument(d)
    PROVE  UnpublishedEditInPipeline'
<1>1. \A e \in Docs : inFlight'[e] = IF e \in {d} THEN NoReq ELSE inFlight[e]
  <2>1. Detach({d}, TRUE)
    BY DEF CloseDocument
  <2>. QED BY <2>1, DetachInFlight DEF Inv
<1>. QED BY <1>1 DEF Inv, TypeOK, CloseDocument, UnpublishedEditInPipeline,
                   InPipeline

LEMMA ChangeConfigurationPipeline ==
    ASSUME Inv, ChangeConfiguration
    PROVE  UnpublishedEditInPipeline'
BY DEF Inv, TypeOK, ChangeConfiguration, UnpublishedEditInPipeline, InPipeline

LEMMA RebuildResumePipeline ==
    ASSUME Inv, RebuildResume
    PROVE  UnpublishedEditInPipeline'
BY DEF Inv, TypeOK, RebuildResume, TriggerDiagnostics, UnpublishedEditInPipeline,
       InPipeline

LEMMA DelayerFirePipeline ==
    ASSUME Inv, UnpublishedEditInPipeline, DelayerFire
    PROVE  UnpublishedEditInPipeline'
BY DEF Inv, TypeOK, DelayerFire, UnpublishedEditInPipeline, InPipeline

LEMMA StartRequestPipeline ==
    ASSUME Inv, UnpublishedEditInPipeline, NEW d \in Docs, StartRequest(d)
    PROVE  UnpublishedEditInPipeline'
<1>0. TypeRest
  BY TypeSplit DEF Inv
<1>1. /\ UNCHANGED <<version, textOpen, pending, rebuilding>>
      /\ \A e \in Docs \ {d} : resolving'[e] = resolving[e]
  BY <1>0 DEF StartRequest, TypeRest
<1>2. CASE config \in EnabledConfigs
  <2>1. [phase |-> "links", ver |-> version[d], cfg |-> config] \in RegRecs
    BY <1>0 DEF TypeRest, RegRecs, Phases
  <2>2. /\ inFlight'[d] # NoReq
        /\ \A e \in Docs \ {d} : inFlight'[e] = inFlight[e]
        /\ freshPub' = freshPub
    BY <1>0, <1>2, <2>1 DEF StartRequest, TypeRest
  <2>. QED BY <1>0, <1>1, <2>2, PipelineFrame DEF InPipeline, TypeRest
<1>3. CASE config \notin EnabledConfigs
  <2>1. Publish(d, version[d], FALSE, EmptyDiags)
    BY <1>3 DEF StartRequest
  <2>2. /\ freshPub' \in [Docs -> Versions]
        /\ \A e \in Docs \ {d} : freshPub'[e] = freshPub[e]
        /\ freshPub'[d] >= version[d]
    BY <1>0, <2>1, PublishFresh DEF TypeRest
  <2>3. \A e \in Docs \ {d} : inFlight'[e] = inFlight[e]
    BY <1>0, <1>3 DEF StartRequest, TypeRest
  <2>4. ~(freshPub'[d] < version'[d])
    BY <1>0, <1>1, <2>2 DEF TypeRest, Versions
  <2>. QED BY <1>0, <1>1, <2>2, <2>3, <2>4, PipelineFrame DEF InPipeline, TypeRest
<1>. QED BY <1>2, <1>3

LEMMA LinksComputedPipeline ==
    ASSUME Inv, UnpublishedEditInPipeline, NEW d \in Docs, LinksComputed(d)
    PROVE  UnpublishedEditInPipeline'
<1>1. \A e \in Docs : inFlight'[e] # NoReq <=> inFlight[e] # NoReq
  <2>1. inFlight[d] \in RegRecs
    BY DEF Inv, TypeOK, LinksComputed
  <2>2. [inFlight[d] EXCEPT !.phase = "validate"] \in RegRecs
    BY <2>1 DEF RegRecs, Phases
  <2>. QED BY <2>2 DEF Inv, TypeOK, LinksComputed
<1>. QED BY <1>1 DEF LinksComputed, UnpublishedEditInPipeline, InPipeline

LEMMA ValidationComputedPipeline ==
    ASSUME Inv, UnpublishedEditInPipeline, NEW d \in Docs, ValidationComputed(d)
    PROVE  UnpublishedEditInPipeline'
<1>0. TypeRest
  BY TypeSplit DEF Inv
<1>1. inFlight[d] \in RegRecs /\ inFlight[d].ver = version[d]
  BY <1>0 DEF Inv, RegisteredIsCurrent, ValidationComputed, TypeRest
<1>2. /\ freshPub' \in [Docs -> Versions]
      /\ \A e \in Docs \ {d} : freshPub'[e] = freshPub[e]
      /\ freshPub'[d] >= version[d]
  <2>1. Publish(d, inFlight[d].ver, FALSE,
                Diags(inFlight[d].ver, inFlight[d].cfg, TRUE))
    BY DEF ValidationComputed
  <2>. QED BY <1>0, <1>1, <2>1, PublishFresh DEF TypeRest, RegRecs
<1>3. /\ \A e \in Docs \ {d} : inFlight'[e] = inFlight[e]
      /\ UNCHANGED <<version, textOpen, pending, resolving, rebuilding>>
  BY <1>0 DEF ValidationComputed, TypeRest
<1>4. ~(freshPub'[d] < version'[d])
  BY <1>0, <1>2, <1>3 DEF TypeRest, Versions
<1>. QED BY <1>0, <1>2, <1>3, <1>4, PipelineFrame DEF InPipeline, TypeRest

\* The computations no longer registered only ever publish: freshPub grows
\* and nothing else the property reads moves.
LEMMA OrphanPipeline ==
    ASSUME Inv, UnpublishedEditInPipeline, NEW o \in OrphanRecs,
           OrphanLinksComputed(o) \/ OrphanValidationComputed(o)
    PROVE  UnpublishedEditInPipeline'
<1>0. TypeRest
  BY TypeSplit DEF Inv
<1>1. UNCHANGED <<version, textOpen, pending, resolving, inFlight, rebuilding>>
  BY DEF OrphanLinksComputed, OrphanValidationComputed
<1>2. o.doc \in Docs /\ o.ver \in Versions /\ o.cancelled \in BOOLEAN
  BY DEF OrphanRecs
<1>3. /\ freshPub' \in [Docs -> Versions]
      /\ \A e \in Docs \ {o.doc} : freshPub'[e] = freshPub[e]
      /\ freshPub'[o.doc] >= freshPub[o.doc]
  <2>1. CASE OrphanLinksComputed(o) /\ o.cancelled
    <3>1. Publish(o.doc, o.ver, TRUE, EmptyDiags)
      BY <2>1 DEF OrphanLinksComputed
    <3>. QED BY <1>0, <1>2, <3>1, PublishFresh DEF TypeRest
  <2>2. CASE OrphanLinksComputed(o) /\ ~o.cancelled
    <3>1. freshPub' = freshPub
      BY <2>2, Zenon DEF OrphanLinksComputed
    <3>2. freshPub \in [Docs -> Versions] /\ freshPub[o.doc] \in Nat
      BY <1>0, <1>2 DEF TypeRest, Versions
    <3>. QED BY <3>1, <3>2
  <2>3. CASE OrphanValidationComputed(o)
    <3>1. PICK complete \in BOOLEAN :
            Publish(o.doc, o.ver, o.cancelled, Diags(o.ver, o.cfg, complete))
      BY <2>3 DEF OrphanValidationComputed
    <3>. QED BY <1>0, <1>2, <3>1, PublishFresh DEF TypeRest
  <2>. QED BY <2>1, <2>2, <2>3
<1>4. o.doc \in textOpen' /\ freshPub'[o.doc] < version'[o.doc]
        => InPipeline(o.doc)'
  <2>1. freshPub'[o.doc] < version'[o.doc] => freshPub[o.doc] < version[o.doc]
    BY <1>0, <1>1, <1>2, <1>3 DEF TypeRest, Versions
  <2>. QED BY <1>1, <2>1 DEF UnpublishedEditInPipeline, InPipeline
<1>. QED BY <1>0, <1>1, <1>2, <1>3, <1>4, PipelineFrame DEF InPipeline, TypeRest

LEMMA NextPipeline ==
    Inv /\ UnpublishedEditInPipeline /\ [Next]_vars => UnpublishedEditInPipeline'
<1>. SUFFICES ASSUME Inv, UnpublishedEditInPipeline, [Next]_vars
              PROVE  UnpublishedEditInPipeline'
  OBVIOUS
<1>1. CASE \E d \in Docs : ChangeDocument(d) \/ CloseDocument(d)
  BY <1>1, ChangeDocumentPipeline, CloseDocumentPipeline
<1>2. CASE ChangeConfiguration \/ RebuildResume \/ DelayerFire
  BY <1>2, ChangeConfigurationPipeline, RebuildResumePipeline, DelayerFirePipeline
<1>3. CASE \E d \in Docs : StartRequest(d) \/ LinksComputed(d) \/ ValidationComputed(d)
  BY <1>3, StartRequestPipeline, LinksComputedPipeline, ValidationComputedPipeline
<1>4. CASE \E o \in OrphanRecs : OrphanLinksComputed(o) \/ OrphanValidationComputed(o)
  BY <1>4, OrphanPipeline
<1>5. CASE UNCHANGED vars
  BY <1>5 DEF vars, UnpublishedEditInPipeline, InPipeline
<1>. QED BY <1>1, <1>2, <1>3, <1>4, <1>5 DEF Next, Environment, System

-----------------------------------------------------------------------------

\* Type correctness of every reachable state of the diagnostics pipeline.
THEOREM TypeCorrect == Spec => []TypeOK
BY InitInv, NextInv, PTL DEF Spec, Inv

\* The computation registered in inFlightRequests always works on the
\* document's current text under the current configuration: the cancel in
\* triggerDiagnostics and the clear in rebuild never let a stale one stay
\* registered.
THEOREM RegisteredCurrent == Spec => []RegisteredIsCurrent
BY InitInv, NextInv, PTL DEF Spec, Inv

\* No edit is dropped: an open document whose newest text has not been
\* published by an uncancelled computation is always pending, being
\* resolved, registered, or waiting for a suspended rebuild(), whatever
\* the interleaving of edits, closes, configuration changes and
\* continuations.
THEOREM NoDroppedEdit == Spec => []UnpublishedEditInPipeline
<1>1. Init => Inv /\ UnpublishedEditInPipeline
  BY InitInv DEF Init, UnpublishedEditInPipeline, InPipeline
<1>2. Inv /\ UnpublishedEditInPipeline /\ [Next]_vars
        => (Inv /\ UnpublishedEditInPipeline)'
  BY NextInv, NextPipeline
<1>. QED BY <1>1, <1>2, PTL DEF Spec

=============================================================================
