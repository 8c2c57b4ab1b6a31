----------------------- MODULE DiagnosticSystemProofs -----------------------
(***************************************************************************)
(* Proofs about the composition of DiagnosticManager and LinkWatcher, for  *)
(* every value of the constants that satisfies the assumptions: the        *)
(* manager's invariant survives the two steps the composition adds (the    *)
(* linked-file handler and dispose()); a linked-file notification is never *)
(* dropped before revalidation; and what the manager does to its           *)
(* LinkWatcher is a behaviour of LinkWatcher's own specification, so what  *)
(* LinkWatcherProofs proves of every behaviour of that specification (the  *)
(* watcher accounting, the LinkIndex refinement) holds of the watcher      *)
(* inside the composed system.                                             *)
(***************************************************************************)
EXTENDS DiagnosticSystem, DiagnosticManagerProofs

USE ConstAssumption, SystemAssumption DEF ConstAssumption, SystemAssumption

\* The links the compute callback hands over are link paths.
LEMMA WatchedLinksPaths ==
    ASSUME NEW d \in Docs, NEW v \in Versions, NEW c
    PROVE  WatchedLinks(d, v, c) \in SUBSET Paths
BY DEF WatchedLinks

\* triggerDiagnostics for a set of documents, as the linked-file handler
\* runs it, keeps the manager's invariant.
LEMMA TriggerInv ==
    ASSUME Inv, NEW S, S \subseteq Docs, TriggerDiagnostics(S),
           UNCHANGED <<version, config, textOpen, resolving, rebuilding,
                       collection, cfgChanges, freshPub>>
    PROVE  Inv'
<1>0. TypeRest
  BY TypeSplit DEF Inv
<1>1. /\ IsOrphanBag(orphans')
      /\ inFlight' \in [Docs -> RegRecs \cup {NoReq}]
      /\ \A e \in Docs : inFlight'[e] = IF e \in S THEN NoReq ELSE inFlight[e]
  BY DetachInFlight DEF TriggerDiagnostics, Inv
<1>2. TypeRest'
  BY <1>0, <1>1 DEF TypeRest, TriggerDiagnostics
<1>3. timer' \in BOOLEAN
  BY Zenon DEF TriggerDiagnostics
<1>4. RegisteredIsCurrent'
  BY <1>1 DEF Inv, RegisteredIsCurrent
<1>5. PendingScheduled'
  BY Zenon DEF TriggerDiagnostics, PendingScheduled
<1>. QED BY <1>2, <1>3, <1>4, <1>5, TypeFromParts DEF Inv

LEMMA FileEventInv ==
    ASSUME Inv, NEW c \in Paths, SysFileEvent(c)
    PROVE  Inv'
<1>1. CASE notified' \cap textOpen = {}
  <2>1. UNCHANGED vars
    BY <1>1 DEF SysFileEvent, LinkedToFileChanged
  <2>. QED BY <2>1 DEF vars, Inv, TypeOK, RegisteredIsCurrent, PendingScheduled
<1>2. CASE notified' \cap textOpen # {}
  <2>1. /\ TriggerDiagnostics(notified' \cap textOpen)
        /\ UNCHANGED <<version, config, textOpen, resolving, rebuilding,
                       collection, cfgChanges, freshPub>>
    BY <1>2 DEF SysFileEvent, LinkedToFileChanged
  <2>2. notified' \cap textOpen \subseteq Docs
    BY DEF Inv, TypeOK
  <2>. QED BY <2>1, <2>2, TriggerInv
<1>. QED BY <1>1, <1>2

LEMMA DisposeInv ==
    ASSUME Inv, SysDispose
    PROVE  Inv'
<1>0. TypeRest
  BY TypeSplit DEF Inv
<1>1. /\ IsOrphanBag(orphans')
      /\ inFlight' \in [Docs -> RegRecs \cup {NoReq}]
      /\ \A e \in Docs : inFlight'[e] = NoReq
  BY DetachInFlight DEF SysDispose, Inv
<1>2. TypeRest'
  BY <1>0, <1>1 DEF TypeRest, SysDispose
<1>3. timer' \in BOOLEAN
  BY Zenon DEF SysDispose
<1>4. RegisteredIsCurrent'
  BY <1>1 DEF RegisteredIsCurrent
<1>5. PendingScheduled'
  BY Zenon DEF SysDispose, PendingScheduled
<1>. QED BY <1>2, <1>3, <1>4, <1>5, TypeFromParts DEF Inv

\* Every step of the composition keeps the manager's invariant.
LEMMA SysNextInv == Inv /\ [SysNext]_sysVars => Inv'
<1>. SUFFICES ASSUME Inv, [SysNext]_sysVars PROVE Inv'
  OBVIOUS
<1>1. CASE \E d \in Docs : SysChangeDocument(d) \/ SysCloseDocument(d)
  BY <1>1, ChangeDocumentInv, CloseDocumentInv
     DEF SysChangeDocument, SysCloseDocument
<1>2. CASE SysChangeConfiguration
  BY <1>2, ChangeConfigurationInv DEF SysChangeConfiguration
<1>3. CASE \E c \in Paths : SysFileEvent(c)
  BY <1>3, FileEventInv
<1>4. CASE SysDispose
  BY <1>4, DisposeInv
<1>5. CASE SysRebuildResume \/ SysDelayerFire
  BY <1>5, RebuildResumeInv, DelayerFireInv DEF SysRebuildResume, SysDelayerFire
<1>6. CASE \E d \in Docs : \/ SysStartRequest(d)
                           \/ SysLinksComputed(d)
                           \/ SysValidationComputed(d)
  BY <1>6, StartRequestInv, LinksComputedInv, ValidationComputedInv
     DEF SysStartRequest, SysLinksComputed, SysValidationComputed
<1>7. CASE \E o \in OrphanRecs : SysOrphanLinksComputed(o) \/ SysOrphanValidationComputed(o)
  BY <1>7, OrphanLinksComputedInv, OrphanValidationComputedInv
     DEF SysOrphanLinksComputed, SysOrphanValidationComputed
<1>8. CASE UNCHANGED sysVars
  BY <1>8 DEF sysVars, vars, Inv, TypeOK, RegisteredIsCurrent, PendingScheduled
<1>. QED BY <1>1, <1>2, <1>3, <1>4, <1>5, <1>6, <1>7, <1>8
         DEF SysNext, SysEnvironment, SysSystem

-----------------------------------------------------------------------------
(* Every step of the composition is a step of LinkWatcher on the watcher's *)
(* variables, or leaves them alone.                                         *)

LEMMA SysNextWatcher == Inv /\ [SysNext]_sysVars => [LW!Next]_(LW!vars)
<1>. SUFFICES ASSUME Inv, [SysNext]_sysVars PROVE [LW!Next]_(LW!vars)
  OBVIOUS
<1>1. CASE \E d \in Docs : SysChangeDocument(d)
  BY <1>1 DEF SysChangeDocument, lwVars, LW!vars
<1>2. CASE \E d \in Docs : SysCloseDocument(d)
  BY <1>2 DEF SysCloseDocument, LW!Next
<1>3. CASE SysChangeConfiguration \/ SysRebuildResume \/ SysDelayerFire
  BY <1>3 DEF SysChangeConfiguration, SysRebuildResume, SysDelayerFire,
              lwVars, LW!vars
<1>4. CASE \E c \in Paths : SysFileEvent(c)
  BY <1>4 DEF SysFileEvent, LW!Next
<1>5. CASE SysDispose
  BY <1>5 DEF SysDispose, LW!Next
<1>6. CASE \E d \in Docs : SysStartRequest(d)
  <2>1. PICK d \in Docs : SysStartRequest(d)
    BY <1>6
  <2>2. CASE config \in EnabledConfigs
    BY <2>1, <2>2 DEF SysStartRequest, lwVars, LW!vars
  <2>3. CASE config \notin EnabledConfigs
    <3>1. LW!UpdateLinksForDocument(d, {})
      BY <2>1, <2>3 DEF SysStartRequest
    <3>. QED BY <3>1 DEF LW!Next
  <2>. QED BY <2>2, <2>3
<1>7. CASE \E d \in Docs : SysLinksComputed(d)
  BY <1>7 DEF SysLinksComputed, lwVars, LW!vars
<1>8. CASE \E d \in Docs : SysValidationComputed(d)
  <2>1. PICK d \in Docs : SysValidationComputed(d)
    BY <1>8
  <2>2. inFlight[d] \in RegRecs
    BY <2>1 DEF SysValidationComputed, ValidationComputed, Inv, TypeOK
  <2>3. WatchedLinks(d, inFlight[d].ver, inFlight[d].cfg) \in SUBSET Paths
    BY <2>2, WatchedLinksPaths DEF RegRecs
  <2>4. LW!UpdateLinksForDocument(d, WatchedLinks(d, inFlight[d].ver, inFlight[d].cfg))
    BY <2>1 DEF SysValidationComputed
  <2>. QED BY <2>3, <2>4 DEF LW!Next
<1>9. CASE \E o \in OrphanRecs : SysOrphanLinksComputed(o)
  <2>1. PICK o \in OrphanRecs : SysOrphanLinksComputed(o)
    BY <1>9
  <2>2. o.doc \in Docs /\ WatchedLinks(o.doc, o.ver, o.cfg) \in SUBSET Paths
    BY WatchedLinksPaths DEF OrphanRecs
  <2>3. CASE o.cancelled
    BY <2>1, <2>2, <2>3 DEF SysOrphanLinksComputed, LW!Next
  <2>4. CASE ~o.cancelled
    BY <2>1, <2>4 DEF SysOrphanLinksComputed, lwVars, LW!vars
  <2>. QED BY <2>3, <2>4
<1>10. CASE \E o \in OrphanRecs : SysOrphanValidationComputed(o)
  <2>1. PICK o \in OrphanRecs : SysOrphanValidationComputed(o)
    BY <1>10
  <2>2. o.doc \in Docs /\ WatchedLinks(o.doc, o.ver, o.cfg) \in SUBSET Paths
    BY WatchedLinksPaths DEF OrphanRecs
  <2>. QED BY <2>1, <2>2 DEF SysOrphanValidationComputed, LW!Next
<1>11. CASE UNCHANGED sysVars
  BY <1>11 DEF sysVars, lwVars, LW!vars
<1>. QED BY <1>1, <1>2, <1>3, <1>4, <1>5, <1>6, <1>7, <1>8, <1>9, <1>10, <1>11
         DEF SysNext, SysEnvironment, SysSystem

-----------------------------------------------------------------------------
(* A document told of a linked-file change stays in the pipeline until it *)
(* is revalidated.  RecheckInPipeline is inductive relative to Inv and the *)
(* type of the auxiliary recheck.                                          *)

RecheckType == recheck \in [Docs -> BOOLEAN]

\* A step keeps RecheckInPipeline when the manager stays undisposed, no
\* document is opened, and every open document outside S keeps its mark
\* and its place in the pipeline, while those of S that are marked are in it.
LEMMA RecheckFrame ==
    ASSUME RecheckInPipeline, ~mgrDisposed', ~mgrDisposed,
           textOpen' \subseteq textOpen, NEW S,
           \A e \in textOpen' \ S : recheck'[e] => recheck[e],
           \A e \in textOpen' \ S : InPipeline(e) => InPipeline(e)',
           \A e \in textOpen' \cap S : recheck'[e] => InPipeline(e)'
    PROVE  RecheckInPipeline'
BY Zenon DEF RecheckInPipeline

LEMMA RecheckTypeNext ==
    ASSUME RecheckType, [SysNext]_sysVars
    PROVE  RecheckType'
<1>1. CASE \E c \in Paths : SysFileEvent(c)
  BY <1>1, Zenon DEF SysFileEvent, RecheckType
<1>2. CASE \E d \in Docs : SysStartRequest(d) \/ SysValidationComputed(d)
  BY <1>2, Zenon DEF SysStartRequest, SysValidationComputed, RecheckType
<1>3. CASE ~(\E c \in Paths : SysFileEvent(c))
           /\ ~(\E d \in Docs : SysStartRequest(d) \/ SysValidationComputed(d))
  BY <1>3, Zenon DEF SysNext, SysEnvironment, SysSystem, sysVars, RecheckType,
     SysChangeDocument, SysCloseDocument, SysChangeConfiguration, SysDispose,
     SysRebuildResume, SysDelayerFire, SysLinksComputed, SysOrphanLinksComputed,
     SysOrphanValidationComputed
<1>. QED BY <1>1, <1>2, <1>3

\* The steps of the manager that neither trigger nor register: every
\* document keeps its mark and its place in the pipeline.
LEMMA RecheckQuiet ==
    ASSUME RecheckInPipeline, ~mgrDisposed', mgrDisposed' = mgrDisposed,
           UNCHANGED <<textOpen, recheck>>,
           \A e \in textOpen : InPipeline(e) => InPipeline(e)'
    PROVE  RecheckInPipeline'
BY Zenon DEF RecheckInPipeline

LEMMA SysChangeDocumentRecheck ==
    ASSUME Inv, RecheckInPipeline, NEW d \in Docs, SysChangeDocument(d)
    PROVE  RecheckInPipeline'
<1>1. \A e \in Docs : inFlight'[e] = IF e \in {d} THEN NoReq ELSE inFlight[e]
  <2>1. Detach({d}, TRUE)
    BY DEF SysChangeDocument, ChangeDocument, TriggerDiagnostics
  <2>. QED BY <2>1, DetachInFlight DEF Inv
<1>2. /\ pending' = pending \cup {d}
      /\ UNCHANGED <<textOpen, resolving, rebuilding, recheck, mgrDisposed>>
      /\ ~mgrDisposed
  BY DEF SysChangeDocument, ChangeDocument, TriggerDiagnostics
<1>. QED BY <1>1, <1>2 DEF Inv, TypeOK, RecheckInPipeline, InPipeline

LEMMA SysCloseDocumentRecheck ==
    ASSUME Inv, RecheckInPipeline, NEW d \in Docs, SysCloseDocument(d)
    PROVE  RecheckInPipeline'
<1>1. \A e \in Docs : inFlight'[e] = IF e \in {d} THEN NoReq ELSE inFlight[e]
  <2>1. Detach({d}, TRUE)
    BY DEF SysCloseDocument, CloseDocument
  <2>. QED BY <2>1, DetachInFlight DEF Inv
<1>2. /\ pending' = pending \ {d}
      /\ textOpen' = textOpen \ {d}
      /\ UNCHANGED <<resolving, rebuilding, recheck, mgrDisposed>>
      /\ ~mgrDisposed
  BY DEF SysCloseDocument, CloseDocument
<1>. QED BY <1>1, <1>2 DEF Inv, TypeOK, RecheckInPipeline, InPipeline

LEMMA SysFileEventRecheck ==
    ASSUME Inv, RecheckType, RecheckInPipeline, NEW c \in Paths,
           SysFileEvent(c), ~mgrDisposed'
    PROVE  RecheckInPipeline'
<1>. DEFINE N == notified' \cap textOpen
<1>1. /\ UNCHANGED <<textOpen, rebuilding, resolving, mgrDisposed>>
      /\ recheck' = [e \in Docs |-> recheck[e] \/ e \in N]
  BY DEF SysFileEvent, LinkedToFileChanged, vars
<1>2. \A e \in textOpen \ N : recheck'[e] => recheck[e]
  BY <1>1, Zenon DEF Inv, TypeOK
<1>3. CASE N = {}
  <2>1. UNCHANGED <<pending, inFlight>>
    BY <1>3 DEF SysFileEvent, LinkedToFileChanged, vars
  <2>. QED BY <1>1, <1>2, <1>3, <2>1, RecheckFrame DEF InPipeline
<1>4. CASE N # {}
  <2>1. TriggerDiagnostics(N)
    BY <1>4 DEF SysFileEvent, LinkedToFileChanged
  <2>2. N \subseteq Docs
    BY DEF Inv, TypeOK
  <2>3. \A e \in Docs : inFlight'[e] = IF e \in N THEN NoReq ELSE inFlight[e]
    BY <2>1, <2>2, DetachInFlight DEF Inv, TriggerDiagnostics
  <2>4. pending' = pending \cup N
    BY <2>1 DEF TriggerDiagnostics
  <2>5. \A e \in textOpen \ N : InPipeline(e) => InPipeline(e)'
    BY <1>1, <2>2, <2>3, <2>4 DEF InPipeline, Inv, TypeOK
  <2>6. \A e \in textOpen \cap N : InPipeline(e)'
    BY <2>4 DEF InPipeline
  <2>7. ~mgrDisposed /\ textOpen' = textOpen
    BY <1>1
  <2>. QED BY <1>2, <2>5, <2>6, <2>7, RecheckFrame
<1>. QED BY <1>3, <1>4

LEMMA SysStartRequestRecheck ==
    ASSUME Inv, RecheckType, RecheckInPipeline, NEW d \in Docs,
           SysStartRequest(d)
    PROVE  RecheckInPipeline'
<1>0. TypeRest
  BY TypeSplit DEF Inv
<1>1. /\ UNCHANGED <<textOpen, pending, rebuilding, mgrDisposed>>
      /\ \A e \in Docs \ {d} : resolving'[e] = resolving[e]
      /\ \A e \in Docs \ {d} : inFlight'[e] = inFlight[e]
  BY <1>0 DEF SysStartRequest, StartRequest, TypeRest
<1>2. CASE config \in EnabledConfigs
  <2>1. [phase |-> "links", ver |-> version[d], cfg |-> config] \in RegRecs
    BY <1>0 DEF TypeRest, RegRecs, Phases
  <2>2. inFlight'[d] # NoReq /\ recheck' = recheck
    BY <1>0, <1>2, <2>1 DEF SysStartRequest, StartRequest, TypeRest
  <2>. QED BY <1>0, <1>1, <2>2 DEF RecheckInPipeline, InPipeline, TypeRest
<1>3. CASE config \notin EnabledConfigs
  <2>1. recheck' = [recheck EXCEPT ![d] = FALSE]
    BY <1>3 DEF SysStartRequest
  <2>2. /\ \A e \in Docs \ {d} : recheck'[e] = recheck[e]
        /\ ~recheck'[d]
    BY <2>1, Zenon DEF RecheckType
  <2>. QED BY <1>0, <1>1, <2>2 DEF RecheckInPipeline, InPipeline, TypeRest
<1>. QED BY <1>2, <1>3

LEMMA SysValidationComputedRecheck ==
    ASSUME Inv, RecheckType, RecheckInPipeline, NEW d \in Docs,
           SysValidationComputed(d)
    PROVE  RecheckInPipeline'
<1>0. TypeRest
  BY TypeSplit DEF Inv
<1>1. /\ UNCHANGED <<textOpen, pending, rebuilding, resolving, mgrDisposed>>
      /\ \A e \in Docs \ {d} : inFlight'[e] = inFlight[e]
  BY <1>0 DEF SysValidationComputed, ValidationComputed, TypeRest
<1>2. /\ \A e \in Docs \ {d} : recheck'[e] = recheck[e]
      /\ ~recheck'[d]
  BY Zenon DEF SysValidationComputed, RecheckType
<1>. QED BY <1>0, <1>1, <1>2 DEF RecheckInPipeline, InPipeline, TypeRest

LEMMA SysNextRecheck ==
    ASSUME Inv, RecheckType, RecheckInPipeline, [SysNext]_sysVars
    PROVE  RecheckInPipeline'
<1>1. CASE mgrDisposed'
  BY <1>1 DEF RecheckInPipeline
<1>2. CASE ~mgrDisposed'
  <2>1. CASE \E d \in Docs : SysChangeDocument(d) \/ SysCloseDocument(d)
    BY <2>1, SysChangeDocumentRecheck, SysCloseDocumentRecheck
  <2>2. CASE SysChangeConfiguration
    <3>1. textOpen' = textOpen /\ \A e \in Docs : InPipeline(e)'
      BY <2>2 DEF SysChangeConfiguration, ChangeConfiguration, InPipeline, Inv,
                  TypeOK
    <3>. QED BY <3>1, Zenon DEF RecheckInPipeline, Inv, TypeOK
  <2>3. CASE \E c \in Paths : SysFileEvent(c)
    BY <1>2, <2>3, SysFileEventRecheck
  <2>4. CASE SysDispose
    BY <1>2, <2>4 DEF SysDispose
  <2>5. CASE SysRebuildResume
    <3>1. textOpen' = textOpen /\ \A e \in Docs : InPipeline(e)'
      BY <2>5 DEF SysRebuildResume, RebuildResume, TriggerDiagnostics, InPipeline
    <3>. QED BY <3>1, Zenon DEF RecheckInPipeline, Inv, TypeOK
  <2>6. CASE SysDelayerFire
    <3>1. /\ UNCHANGED <<textOpen, rebuilding, recheck, mgrDisposed, inFlight>>
          /\ \A e \in Docs : e \in pending \/ resolving[e] > 0 => resolving'[e] > 0
      BY <2>6 DEF SysDelayerFire, DelayerFire, Inv, TypeOK
    <3>2. \A e \in textOpen : InPipeline(e) => InPipeline(e)'
      BY <3>1 DEF InPipeline, Inv, TypeOK
    <3>. QED BY <1>2, <3>1, <3>2, RecheckQuiet
  <2>7. CASE \E d \in Docs : SysStartRequest(d) \/ SysValidationComputed(d)
    BY <2>7, SysStartRequestRecheck, SysValidationComputedRecheck
  <2>8. CASE \E d \in Docs : SysLinksComputed(d)
    <3>1. PICK d \in Docs : SysLinksComputed(d)
      BY <2>8
    <3>2. \A e \in Docs : inFlight[e] # NoReq => inFlight'[e] # NoReq
      <4>1. inFlight[d] \in RegRecs
        BY <3>1 DEF Inv, TypeOK, SysLinksComputed, LinksComputed
      <4>2. [inFlight[d] EXCEPT !.phase = "validate"] \in RegRecs
        BY <4>1 DEF RegRecs, Phases
      <4>. QED BY <3>1, <4>2 DEF Inv, TypeOK, SysLinksComputed, LinksComputed
    <3>3. /\ UNCHANGED <<textOpen, pending, resolving, rebuilding, recheck,
                         mgrDisposed>>
      BY <3>1 DEF SysLinksComputed, LinksComputed
    <3>4. \A e \in textOpen : InPipeline(e) => InPipeline(e)'
      BY <3>2, <3>3 DEF InPipeline, Inv, TypeOK
    <3>. QED BY <1>2, <3>3, <3>4, RecheckQuiet
  <2>9. CASE \E o \in OrphanRecs : SysOrphanLinksComputed(o) \/ SysOrphanValidationComputed(o)
    <3>1. UNCHANGED <<textOpen, pending, resolving, inFlight, rebuilding, recheck,
                      mgrDisposed>>
      BY <2>9 DEF SysOrphanLinksComputed, OrphanLinksComputed,
                  SysOrphanValidationComputed, OrphanValidationComputed
    <3>2. \A e \in textOpen : InPipeline(e) => InPipeline(e)'
      BY <3>1 DEF InPipeline
    <3>. QED BY <1>2, <3>1, <3>2, RecheckQuiet
  <2>10. CASE UNCHANGED sysVars
    BY <2>10 DEF sysVars, vars, RecheckInPipeline, InPipeline
  <2>. QED BY <2>1, <2>2, <2>3, <2>4, <2>5, <2>6, <2>7, <2>8, <2>9, <2>10
           DEF SysNext, SysEnvironment, SysSystem
<1>. QED BY <1>1, <1>2

-----------------------------------------------------------------------------

\* The computation registered for a document still belongs to its current
\* text and configuration when the linked-file handler triggers documents
\* (its cancel) and after dispose(), whose continuations keep running.
THEOREM SysRegisteredCurrent == SysSpec => []RegisteredIsCurrent
<1>1. SysInit => Inv
  BY InitInv DEF SysInit
<1>. QED BY <1>1, SysNextInv, PTL DEF SysSpec, Inv

\* What the diagnostics manager does to its LinkWatcher -- the compute
\* callbacks' updateLinksForDocument calls (cancelled, orphaned or late ones
\* included), deleteDocument on close, dispose() and the file events -- is
\* a behaviour of LinkWatcher's specification.
THEOREM WatcherImplemented == SysSpec => LW!Spec
<1>1. SysSpec => []Inv
  BY InitInv, SysNextInv, PTL DEF SysSpec, SysInit
<1>2. SysInit => LW!Init
  BY DEF SysInit
<1>. QED BY <1>1, <1>2, SysNextWatcher, PTL DEF SysSpec, LW!Spec

\* A document told that a file it links to was created or deleted is never
\* forgotten before it is revalidated: while the manager is not disposed,
\* it stays pending, resolving, registered or waiting for rebuild() --
\* the safety half of LinkedFileRevalidated, for any instance.
THEOREM RecheckNeverLost == SysSpec => []RecheckInPipeline
<1>1. SysInit => Inv /\ RecheckType /\ RecheckInPipeline
  <2>. SUFFICES ASSUME SysInit PROVE Inv /\ RecheckType /\ RecheckInPipeline
    OBVIOUS
  <2>1. Inv
    BY InitInv DEF SysInit
  <2>2. RecheckType
    BY Zenon DEF SysInit, RecheckType
  <2>3. RecheckInPipeline
    BY Zenon DEF SysInit, Init, RecheckInPipeline
  <2>. QED BY <2>1, <2>2, <2>3
<1>2. Inv /\ RecheckType /\ RecheckInPipeline /\ [SysNext]_sysVars
        => (Inv /\ RecheckType /\ RecheckInPipeline)'
  BY SysNextInv, RecheckTypeNext, SysNextRecheck
<1>. QED BY <1>1, <1>2, PTL DEF SysSpec

=============================================================================
