-------------------------- MODULE DiagnosticManager --------------------------
(***************************************************************************)
(* The markdown link-diagnostics pipeline of                               *)
(* extensions/markdown-language-features/src/languageFeatures/             *)
(* diagnostics.ts: class DiagnosticManager together with the parts of      *)
(* InflightDiagnosticRequests, DiagnosticComputer.getDiagnostics and       *)
(* DiagnosticCollectionReporter that it drives.                            *)
(*                                                                         *)
(* The extension host runs one JavaScript thread: a step of this module    *)
(* is the code between two awaits.  Host events (document change, close,   *)
(* configuration change) are environment actions; the continuations of    *)
(* awaits and the Delayer's timeout are system actions.                    *)
(*                                                                         *)
(* Data is abstracted: the diagnostics of a document are determined by the *)
(* version of its text and the configuration read when the computation     *)
(* started, so a published result is the record of those two values.      *)
(***************************************************************************)
EXTENDS Naturals, FiniteSets

CONSTANTS
    Docs,             \* markdown documents of the workspace
    Configs,          \* values of the markdown.experimental.validate settings
    EnabledConfigs,   \* the configurations with validate.enabled = true
    InitConfig,       \* the configuration at activation
    NoReq,            \* "no entry" in the inFlightRequests ResourceMap
    MaxVersion,       \* bound: number of edits per document
    MaxConfigChanges  \* bound: number of configuration change events

VARIABLES
    version,     \* version[d]: the text of document d (bumped by each edit)
    config,      \* the current validation configuration
    textOpen,    \* documents open in the editor (textDocuments / tabs)
    pending,     \* DiagnosticManager.pendingDiagnostics
    timer,       \* the Delayer has a timeout scheduled
    resolving,   \* resolving[d]: awaits of getMarkdownDocument(d) outstanding
    inFlight,    \* inFlight[d]: the computation registered for d, or NoReq
    orphans,     \* bag of computations still running but no longer registered
    rebuilding,  \* rebuild() calls suspended on getAllMarkdownDocuments()
    collection,  \* collection[d]: the entry of the host DiagnosticCollection
    cfgChanges,  \* configuration change events so far (bounded)
    freshPub     \* auxiliary: newest version published by an uncancelled computation

vars == <<version, config, textOpen, pending, timer, resolving, inFlight,
          orphans, rebuilding, collection, cfgChanges, freshPub>>

-----------------------------------------------------------------------------
(* Values.                                                                 *)

\* A computation is in phase "links" while awaiting linkComputer.getAllLinks
\* and in phase "validate" while awaiting the three validators.  The entry
\* registered in inFlightRequests for d is identified by its place,
\* inFlight[d]; `inFlightRequests.get(resource) === entry` in the finally
\* block is true exactly for the computation held there.
Phases == {"links", "validate"}
Versions == 0..MaxVersion
RegRecs == [phase : Phases, ver : Versions, cfg : Configs]
OrphanRecs == [phase : Phases, doc : Docs, ver : Versions, cfg : Configs,
               cancelled : BOOLEAN]

ASSUME ConstAssumption ==
    /\ Docs # {}
    /\ EnabledConfigs \subseteq Configs
    /\ InitConfig \in Configs
    /\ MaxVersion \in Nat /\ MaxConfigChanges \in Nat
    /\ NoReq \notin RegRecs

\* What the collection holds for a document: no entry, an empty list, or
\* the diagnostics of (ver, cfg), complete or cut short by cancellation.
NoEntry == [kind |-> "none"]
EmptyDiags == [kind |-> "empty"]
Diags(v, c, complete) == [kind |-> "diags", ver |-> v, cfg |-> c, complete |-> complete]
Entries == {NoEntry, EmptyDiags} \cup
           [kind : {"diags"}, ver : Versions, cfg : Configs, complete : BOOLEAN]

\* Bags as functions from their elements to multiplicities.
EmptyBag == [o \in {} |-> 0]
PutAll(B, S) == [o \in DOMAIN B \cup S |->
                   (IF o \in DOMAIN B THEN B[o] ELSE 0) + (IF o \in S THEN 1 ELSE 0)]
Take(B, o) == [x \in {y \in DOMAIN B : y # o \/ B[y] > 1} |->
                 IF x = o THEN B[x] - 1 ELSE B[x]]

-----------------------------------------------------------------------------
(* Helpers: the calls the handlers make.                                   *)

\* InflightDiagnosticRequests.cancel (cancelled = TRUE) or .clear
\* (cancelled = FALSE: the token source is disposed, not cancelled) for the
\* documents of S: the registered computations keep running, unregistered.
Detached(S, cancelled) ==
    PutAll(orphans,
           {[phase |-> inFlight[d].phase, doc |-> d, ver |-> inFlight[d].ver,
             cfg |-> inFlight[d].cfg, cancelled |-> cancelled] :
              d \in {e \in S : inFlight[e] # NoReq}})

Detach(S, cancelled) ==
    /\ orphans' = Detached(S, cancelled)
    /\ inFlight' = [d \in Docs |-> IF d \in S THEN NoReq ELSE inFlight[d]]

\* Mutant: triggerDiagnostics that forgets inFlightDiagnostics.cancel(uri).
TriggerDiagnosticsNoCancel(S) ==
    /\ UNCHANGED <<inFlight, orphans>>
    /\ pending' = pending \cup S
    /\ timer' = TRUE

\* triggerDiagnostics(uri) for every uri of S: cancel the in-flight request,
\* add to pendingDiagnostics and (re)arm the Delayer.
TriggerDiagnostics(S) ==
    /\ Detach(S, TRUE)
    /\ pending' = pending \cup S
    /\ timer' = TRUE

\* reporter.set(uri, diagnostics) of DiagnosticCollectionReporter: only a
\* document shown in a tab gets its diagnostics, any other an empty list.
ReporterSet(d, result) ==
    [collection EXCEPT ![d] = IF d \in textOpen THEN result ELSE EmptyDiags]

\* The compute callback publishes a result for d read from version v.
Publish(d, v, cancelled, result) ==
    /\ collection' = ReporterSet(d, result)
    /\ freshPub' = IF cancelled \/ v <= freshPub[d] THEN freshPub
                   ELSE [freshPub EXCEPT ![d] = v]

-----------------------------------------------------------------------------
(* Initial state: the constructor has run rebuild() up to its await.       *)

Init ==
    /\ version = [d \in Docs |-> 0]
    /\ config = InitConfig
    /\ textOpen \in SUBSET Docs
    /\ pending = {}
    /\ timer = FALSE
    /\ resolving = [d \in Docs |-> 0]
    /\ inFlight = [d \in Docs |-> NoReq]
    /\ orphans = EmptyBag
    /\ rebuilding = 1
    /\ collection = [d \in Docs |-> NoEntry]
    /\ cfgChanges = 0
    /\ freshPub = [d \in Docs |-> 0]

-----------------------------------------------------------------------------
(* Environment events and their handlers.                                  *)

\* onDidChangeMarkdownDocument: the text changed; trigger it.
ChangeDocument(d) ==
    /\ version[d] < MaxVersion
    /\ version' = [version EXCEPT ![d] = @ + 1]
    /\ TriggerDiagnostics({d})
    /\ UNCHANGED <<config, textOpen, resolving, rebuilding, collection,
                   cfgChanges, freshPub>>

\* onDidCloseTextDocument: forget the pending request, cancel the in-flight
\* one, drop the diagnostics (linkWatcher.deleteDocument: see DiagnosticSystem).
CloseDocument(d) ==
    /\ d \in textOpen
    /\ textOpen' = textOpen \ {d}
    /\ pending' = pending \ {d}
    /\ Detach({d}, TRUE)
    /\ collection' = [collection EXCEPT ![d] = NoEntry]
    /\ UNCHANGED <<version, config, timer, resolving, rebuilding, cfgChanges,
                   freshPub>>

\* configuration.onDidChange -> rebuild(), up to its await: clear the
\* reporter, pendingDiagnostics and inFlightRequests.  The event fires on a
\* change of any markdown.experimental.validate key, so the abstract value
\* read afterwards may be the same one.
ChangeConfiguration ==
    /\ cfgChanges < MaxConfigChanges
    /\ config' \in Configs
    /\ cfgChanges' = cfgChanges + 1
    /\ collection' = [d \in Docs |-> NoEntry]
    /\ pending' = {}
    /\ Detach(Docs, FALSE)
    /\ rebuilding' = rebuilding + 1
    /\ UNCHANGED <<version, textOpen, timer, resolving, freshPub>>

-----------------------------------------------------------------------------
(* Continuations run by the event loop.                                    *)

\* Mutant: rebuild() that never re-triggers the documents it cleared.
RebuildResumeNoTrigger ==
    /\ rebuilding > 0
    /\ rebuilding' = rebuilding - 1
    /\ UNCHANGED <<version, config, textOpen, resolving, collection,
                   cfgChanges, freshPub, pending, timer, inFlight, orphans>>

\* rebuild() resumes after getAllMarkdownDocuments(): trigger every document.
RebuildResume ==
    /\ rebuilding > 0
    /\ rebuilding' = rebuilding - 1
    /\ TriggerDiagnostics(Docs)
    /\ UNCHANGED <<version, config, textOpen, resolving, collection,
                   cfgChanges, freshPub>>

\* The Delayer's timeout fires and runs recomputePendingDiagnostics up to its
\* first await: snapshot and clear pendingDiagnostics, and start one
\* getMarkdownDocument per resource.
DelayerFire ==
    /\ timer
    /\ timer' = FALSE
    /\ pending' = {}
    /\ resolving' = [d \in Docs |-> IF d \in pending THEN resolving[d] + 1
                                                     ELSE resolving[d]]
    /\ UNCHANGED <<version, config, textOpen, inFlight, orphans, rebuilding,
                   collection, cfgChanges, freshPub>>

\* Mutant: a getMarkdownDocument continuation run with no await outstanding.
StartRequestUnguarded(d) ==
    /\ resolving' = [resolving EXCEPT ![d] = @ - 1]
    /\ orphans' = Detached({d}, TRUE)
    /\ IF config \in EnabledConfigs
       THEN /\ inFlight' = [inFlight EXCEPT ![d] =
                   [phase |-> "links", ver |-> version[d], cfg |-> config]]
            /\ UNCHANGED <<collection, freshPub>>
       ELSE /\ inFlight' = [inFlight EXCEPT ![d] = NoReq]
            /\ Publish(d, version[d], FALSE, EmptyDiags)
    /\ UNCHANGED <<version, config, textOpen, pending, timer, rebuilding,
                   cfgChanges>>

\* getMarkdownDocument(d) returned: inFlightDiagnostics.trigger cancels the
\* previous request, registers a new token source and runs the compute
\* callback.  recomputeDiagnosticState reads the configuration; when
\* validation is disabled it returns no diagnostics and no links without an
\* await, so the callback publishes and the finally block unregisters in
\* the same step.
StartRequest(d) ==
    /\ resolving[d] > 0
    /\ resolving' = [resolving EXCEPT ![d] = @ - 1]
    /\ orphans' = Detached({d}, TRUE)
    /\ IF config \in EnabledConfigs
       THEN /\ inFlight' = [inFlight EXCEPT ![d] =
                   [phase |-> "links", ver |-> version[d], cfg |-> config]]
            /\ UNCHANGED <<collection, freshPub>>
       ELSE /\ inFlight' = [inFlight EXCEPT ![d] = NoReq]
            /\ Publish(d, version[d], FALSE, EmptyDiags)
    /\ UNCHANGED <<version, config, textOpen, pending, timer, rebuilding,
                   cfgChanges>>

\* getAllLinks resolved for the registered computation of d: its token is
\* not cancelled, so it goes on to validate.
LinksComputed(d) ==
    /\ inFlight[d] # NoReq
    /\ inFlight[d].phase = "links"
    /\ inFlight' = [inFlight EXCEPT ![d].phase = "validate"]
    /\ UNCHANGED <<version, config, textOpen, pending, timer, resolving,
                   orphans, rebuilding, collection, cfgChanges, freshPub>>

\* The validators resolved for the registered computation of d: publish,
\* and the finally block finds its own entry and deletes it.
ValidationComputed(d) ==
    /\ inFlight[d] # NoReq
    /\ inFlight[d].phase = "validate"
    /\ Publish(d, inFlight[d].ver, FALSE,
               Diags(inFlight[d].ver, inFlight[d].cfg, TRUE))
    /\ inFlight' = [inFlight EXCEPT ![d] = NoReq]
    /\ UNCHANGED <<version, config, textOpen, pending, timer, resolving,
                   orphans, rebuilding, cfgChanges>>

\* getAllLinks resolved for an unregistered computation.  getDiagnostics
\* returns no diagnostics if the token is cancelled, and the callback
\* publishes that empty list anyway; an uncancelled one goes on.
OrphanLinksComputed(o) ==
    /\ o \in DOMAIN orphans
    /\ o.phase = "links"
    /\ IF o.cancelled
       THEN /\ orphans' = Take(orphans, o)
            /\ Publish(o.doc, o.ver, TRUE, EmptyDiags)
       ELSE /\ orphans' = PutAll(Take(orphans, o), {[o EXCEPT !.phase = "validate"]})
            /\ UNCHANGED <<collection, freshPub>>
    /\ UNCHANGED <<version, config, textOpen, pending, timer, resolving,
                   inFlight, rebuilding, cfgChanges>>

\* Mutant: the finally block of trigger deletes the entry of d without
\* checking that it is its own.
OrphanValidationComputedDeletesEntry(o) ==
    /\ o \in DOMAIN orphans
    /\ o.phase = "validate"
    /\ orphans' = Take(orphans, o)
    /\ \E complete \in IF o.cancelled THEN BOOLEAN ELSE {TRUE} :
          Publish(o.doc, o.ver, o.cancelled, Diags(o.ver, o.cfg, complete))
    /\ inFlight' = [inFlight EXCEPT ![o.doc] = NoReq]
    /\ UNCHANGED <<version, config, textOpen, pending, timer, resolving,
                   rebuilding, cfgChanges>>

\* The validators resolved for an unregistered computation.  A cancelled
\* token cuts the result short (each validator checks it after its own
\* await); the callback publishes what it got, and the finally block
\* leaves the map alone since the entry is not its own.
OrphanValidationComputed(o) ==
    /\ o \in DOMAIN orphans
    /\ o.phase = "validate"
    /\ orphans' = Take(orphans, o)
    /\ \E complete \in IF o.cancelled THEN BOOLEAN ELSE {TRUE} :
          Publish(o.doc, o.ver, o.cancelled, Diags(o.ver, o.cfg, complete))
    /\ UNCHANGED <<version, config, textOpen, pending, timer, resolving,
                   inFlight, rebuilding, cfgChanges>>

-----------------------------------------------------------------------------

Environment ==
    \/ \E d \in Docs : ChangeDocument(d) \/ CloseDocument(d)
    \/ ChangeConfiguration

System ==
    \/ RebuildResume
    \/ DelayerFire
    \/ \E d \in Docs : StartRequest(d) \/ LinksComputed(d) \/ ValidationComputed(d)
    \/ \E o \in OrphanRecs : OrphanLinksComputed(o) \/ OrphanValidationComputed(o)

Next == Environment \/ System

\* The event loop eventually runs every ready continuation and every
\* expired timeout, and the host's promises (getAllLinks,
\* getMarkdownDocument, getAllMarkdownDocuments) settle.  Nothing obliges
\* the user to edit, close or reconfigure.
Fairness ==
    /\ WF_vars(RebuildResume)
    /\ WF_vars(DelayerFire)
    /\ \A d \in Docs : /\ WF_vars(StartRequest(d))
                       /\ WF_vars(LinksComputed(d))
                       /\ WF_vars(ValidationComputed(d))
    /\ \A o \in OrphanRecs : /\ WF_vars(OrphanLinksComputed(o))
                             /\ WF_vars(OrphanValidationComputed(o))

Spec == Init /\ [][Next]_vars /\ Fairness

-----------------------------------------------------------------------------
(* Properties.                                                             *)

TypeOK ==
    /\ version \in [Docs -> Versions]
    /\ config \in Configs
    /\ textOpen \in SUBSET Docs
    /\ pending \in SUBSET Docs
    /\ timer \in BOOLEAN
    /\ resolving \in [Docs -> Nat]
    /\ inFlight \in [Docs -> RegRecs \cup {NoReq}]
    /\ DOMAIN orphans \subseteq OrphanRecs
    /\ orphans \in [DOMAIN orphans -> Nat \ {0}]
    /\ rebuilding \in Nat
    /\ collection \in [Docs -> Entries]
    /\ cfgChanges \in 0..MaxConfigChanges
    /\ freshPub \in [Docs -> Versions]

\* The computation registered for a document in inFlightRequests was started
\* from the document's current text under the current configuration: every
\* edit cancels the registered computation and every configuration change
\* clears the map, before anything else can observe it.
RegisteredIsCurrent ==
    \A d \in Docs : inFlight[d] # NoReq =>
        /\ inFlight[d].ver = version[d]
        /\ inFlight[d].cfg = config

\* The bookkeeping of the boolean Delayer: a document in pendingDiagnostics
\* has a timeout armed.  It holds by the shape of TriggerDiagnostics and
\* DelayerFire; it is a conjunct of the proofs' inductive invariant, not a
\* property of the runs.
PendingScheduled == pending # {} => timer

\* Document d is still in the pipeline that ends in a publication: waiting
\* in pendingDiagnostics, awaiting getMarkdownDocument, registered in
\* inFlightRequests, or about to be re-triggered by a suspended rebuild().
InPipeline(d) ==
    \/ d \in pending
    \/ resolving[d] > 0
    \/ inFlight[d] # NoReq
    \/ rebuilding > 0

\* No edit is dropped: as long as an open document's latest text has not
\* been published by an uncancelled computation, the document is on its
\* way to one.  Every handler that cancels or clears a computation
\* (triggerDiagnostics, the close handler, rebuild()) must put the document
\* back into pendingDiagnostics or leave rebuild() to do it.
UnpublishedEditInPipeline ==
    \A d \in textOpen : freshPub[d] < version[d] => InPipeline(d)

\* The manager implements DiagnosticQueue: the documents it still owes a
\* publication are those in its pipeline.  An edit or a configuration
\* change is the only way in; publishing the current text from the
\* registered computation, or closing, the only way out.
Queue == INSTANCE DiagnosticQueue WITH queued <- {d \in Docs : InPipeline(d)}

QueueSpec == Queue!Spec

\* Every edit of a document that stays open is eventually followed by the
\* publication of diagnostics by an uncancelled computation that read that
\* edit or a later one.
FreshResultPublished ==
    \A d \in Docs, v \in 1..MaxVersion :
        (version[d] = v) ~> (freshPub[d] >= v \/ d \notin textOpen)

\* What the user should see once the system is quiet: for a document open in
\* the editor, the diagnostics of its current text under the current
\* configuration (an empty list when validation is disabled).
Expected(d) ==
    IF config \in EnabledConfigs THEN Diags(version[d], config, TRUE) ELSE EmptyDiags

\* Eventually the diagnostics shown for every open document are, and stay,
\* those of its current text and configuration.
EventuallyConsistent ==
    <>[](\A d \in textOpen : collection[d] = Expected(d))

=============================================================================
