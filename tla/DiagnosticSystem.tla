-------------------------- MODULE DiagnosticSystem --------------------------
(***************************************************************************)
(* DiagnosticManager composed with its LinkWatcher (diagnostics.ts).       *)
(*                                                                         *)
(* The manager drives the watcher from three places: the compute callback  *)
(* of recomputePendingDiagnostics calls updateLinksForDocument before      *)
(* reporter.set, the close handler calls deleteDocument, and dispose()     *)
(* disposes it.  The watcher drives the manager back through               *)
(* onDidChangeLinkedToFile, whose handler re-triggers the open documents   *)
(* it names.  Each action below is one step of the manager (an action of   *)
(* DiagnosticManager) joined with what that same step does to the watcher  *)
(* (an action of LinkWatcher, or nothing).                                 *)
(*                                                                         *)
(* The links a computation hands over are those of the text it read:       *)
(* DocLinks[d][v] are the internal link paths of version v of d.  They are *)
(* handed over only when the configuration it read validates file links;   *)
(* otherwise the callback passes [].                                       *)
(***************************************************************************)
EXTENDS DiagnosticManager

CONSTANTS
    Paths,            \* link target paths
    Parent,           \* the directory of each path, or NoParent
    NoParent,
    NoDoc,
    FileLinkConfigs,  \* configurations with enabled and validateFileLinks set
    DocLinks,         \* DocLinks[d][v]: internal link paths of version v of d
    MaxFileEvents     \* bound on the file creations and deletions of a run

VARIABLES
    watched, docsOf, running, lwDisposed, exists, notified, lastCall,
    fileEvents,   \* file creations and deletions so far (bounded)
    mgrDisposed,  \* DiagnosticManager.dispose() has run
    closedQuiet,  \* auxiliary: closed documents not triggered since the close
    recheck       \* auxiliary: recheck[d] while d awaits revalidation after
                  \* a linked-file notification

LW == INSTANCE LinkWatcher WITH disposed <- lwDisposed

lwVars == <<watched, docsOf, running, lwDisposed, exists, notified, lastCall>>
sysVars == <<vars, lwVars, fileEvents, mgrDisposed, closedQuiet, recheck>>

ASSUME SystemAssumption ==
    /\ FileLinkConfigs \subseteq EnabledConfigs
    /\ DocLinks \in [Docs -> [Versions -> SUBSET Paths]]
    /\ MaxFileEvents \in Nat

\* The links argument of updateLinksForDocument in the compute callback:
\* `state.config.enabled && state.config.validateFileLinks ? state.links : []`.
WatchedLinks(d, v, c) == IF c \in FileLinkConfigs THEN DocLinks[d][v] ELSE {}

-----------------------------------------------------------------------------
(* Handlers of host events; they are unregistered by dispose().            *)

SysChangeDocument(d) ==
    /\ ~mgrDisposed
    /\ ChangeDocument(d)
    /\ closedQuiet' = closedQuiet \ {d}
    /\ UNCHANGED <<lwVars, fileEvents, mgrDisposed, recheck>>

\* onDidCloseTextDocument: ... this.linkWatcher.deleteDocument(uri) ...
SysCloseDocument(d) ==
    /\ ~mgrDisposed
    /\ CloseDocument(d)
    /\ LW!DeleteDocument(d)
    /\ closedQuiet' = closedQuiet \cup {d}
    /\ UNCHANGED <<fileEvents, mgrDisposed, recheck>>

SysChangeConfiguration ==
    /\ ~mgrDisposed
    /\ ChangeConfiguration
    /\ UNCHANGED <<lwVars, fileEvents, mgrDisposed, closedQuiet, recheck>>

\* Mutant: the onDidChangeLinkedToFile handler does not trigger.
LinkedToFileChangedNoTrigger(N) == UNCHANGED vars

\* The onDidChangeLinkedToFile handler: trigger every named document that
\* is an open (markdown) text document.
LinkedToFileChanged(N) ==
    IF N \cap textOpen = {}
    THEN UNCHANGED vars
    ELSE /\ TriggerDiagnostics(N \cap textOpen)
         /\ UNCHANGED <<version, config, textOpen, resolving, rebuilding,
                        collection, cfgChanges, freshPub>>

\* A linked file is created or deleted: the watchers report it and the
\* emitter's listener runs in the same task.
SysFileEvent(c) ==
    /\ fileEvents < MaxFileEvents
    /\ fileEvents' = fileEvents + 1
    /\ LW!FileEvent(c)
    /\ LinkedToFileChanged(notified')
    /\ recheck' = [d \in Docs |-> recheck[d] \/ d \in notified' \cap textOpen]
    /\ UNCHANGED <<mgrDisposed, closedQuiet>>

\* DiagnosticManager.dispose(): super.dispose() disposes what the manager
\* registered -- inFlightDiagnostics (clear(): the token sources are
\* disposed, not cancelled), the link watcher, the Delayer (its timeout is
\* cancelled) and the event listeners -- then pendingDiagnostics.clear().
SysDispose ==
    /\ ~mgrDisposed
    /\ mgrDisposed' = TRUE
    /\ Detach(Docs, FALSE)
    /\ LW!Dispose
    /\ timer' = FALSE
    /\ pending' = {}
    /\ UNCHANGED <<version, config, textOpen, resolving, rebuilding,
                   collection, cfgChanges, freshPub, fileEvents, closedQuiet,
                   recheck>>

-----------------------------------------------------------------------------
(* Continuations.  They run after dispose() as well: nothing stops them.   *)

SysRebuildResume ==
    /\ RebuildResume
    /\ closedQuiet' = {}
    /\ UNCHANGED <<lwVars, fileEvents, mgrDisposed, recheck>>

SysDelayerFire ==
    /\ DelayerFire
    /\ UNCHANGED <<lwVars, fileEvents, mgrDisposed, closedQuiet, recheck>>

\* With validation disabled the callback runs to its end at once:
\* updateLinksForDocument(uri, []) and reporter.set(uri, []).
SysStartRequest(d) ==
    /\ StartRequest(d)
    /\ IF config \in EnabledConfigs
       THEN UNCHANGED <<lwVars, recheck>>
       ELSE /\ LW!UpdateLinksForDocument(d, {})
            /\ recheck' = [recheck EXCEPT ![d] = FALSE]
    /\ UNCHANGED <<fileEvents, mgrDisposed, closedQuiet>>

SysLinksComputed(d) ==
    /\ LinksComputed(d)
    /\ UNCHANGED <<lwVars, fileEvents, mgrDisposed, closedQuiet, recheck>>

\* The registered computation finishes: updateLinksForDocument, then
\* reporter.set.
SysValidationComputed(d) ==
    /\ ValidationComputed(d)
    /\ LW!UpdateLinksForDocument(d, WatchedLinks(d, inFlight[d].ver, inFlight[d].cfg))
    /\ recheck' = [recheck EXCEPT ![d] = FALSE]
    /\ UNCHANGED <<fileEvents, mgrDisposed, closedQuiet>>

\* A cancelled computation gets back its links and no diagnostics from
\* getDiagnostics, and the callback hands both over.
SysOrphanLinksComputed(o) ==
    /\ OrphanLinksComputed(o)
    /\ IF o.cancelled
       THEN LW!UpdateLinksForDocument(o.doc, WatchedLinks(o.doc, o.ver, o.cfg))
       ELSE UNCHANGED lwVars
    /\ UNCHANGED <<fileEvents, mgrDisposed, closedQuiet, recheck>>

SysOrphanValidationComputed(o) ==
    /\ OrphanValidationComputed(o)
    /\ LW!UpdateLinksForDocument(o.doc, WatchedLinks(o.doc, o.ver, o.cfg))
    /\ UNCHANGED <<fileEvents, mgrDisposed, closedQuiet, recheck>>

-----------------------------------------------------------------------------

SysInit ==
    /\ Init
    /\ LW!Init
    /\ fileEvents = 0
    /\ mgrDisposed = FALSE
    /\ closedQuiet = {}
    /\ recheck = [d \in Docs |-> FALSE]

SysEnvironment ==
    \/ \E d \in Docs : SysChangeDocument(d) \/ SysCloseDocument(d)
    \/ SysChangeConfiguration
    \/ \E c \in Paths : SysFileEvent(c)
    \/ SysDispose

SysSystem ==
    \/ SysRebuildResume
    \/ SysDelayerFire
    \/ \E d \in Docs : \/ SysStartRequest(d)
                       \/ SysLinksComputed(d)
                       \/ SysValidationComputed(d)
    \/ \E o \in OrphanRecs : SysOrphanLinksComputed(o) \/ SysOrphanValidationComputed(o)

SysNext == SysEnvironment \/ SysSystem

\* The same scheduling guarantee as for the manager alone: the event loop
\* runs every ready continuation and expired timeout; host events and
\* dispose() are up to the user.
SysFairness ==
    /\ WF_sysVars(SysRebuildResume)
    /\ WF_sysVars(SysDelayerFire)
    /\ \A d \in Docs : /\ WF_sysVars(SysStartRequest(d))
                       /\ WF_sysVars(SysLinksComputed(d))
                       /\ WF_sysVars(SysValidationComputed(d))
    /\ \A o \in OrphanRecs : /\ WF_sysVars(SysOrphanLinksComputed(o))
                             /\ WF_sysVars(SysOrphanValidationComputed(o))

SysSpec == SysInit /\ [][SysNext]_sysVars /\ SysFairness

-----------------------------------------------------------------------------
(* Properties.                                                             *)

\* The purpose of the onDidChangeLinkedToFile handler: an open document
\* told that a file it links to appeared or disappeared is eventually
\* revalidated -- an uncancelled computation started after the notice
\* publishes for it -- unless it is closed or the manager is disposed.
LinkedFileRevalidated ==
    \A d \in Docs :
        recheck[d] ~> (~recheck[d] \/ d \notin textOpen \/ mgrDisposed)

\* The safety half of LinkedFileRevalidated: until the manager is disposed,
\* an open document told of a linked-file change and not yet revalidated is
\* always on its way to a computation -- the handler's triggerDiagnostics
\* put it into pendingDiagnostics, and no later cancel, clear or snapshot
\* takes it out of the pipeline without re-adding it.
RecheckInPipeline ==
    ~mgrDisposed => \A d \in textOpen : recheck[d] => InPipeline(d)

\* The close handler calls linkWatcher.deleteDocument(uri): a closed
\* document that nothing has triggered since has no links in the watcher,
\* so no file watcher is kept alive for it.
ClosedDocumentUnwatched ==
    \A d \in closedQuiet : LW!LinksOf[d] = {}

\* dispose() disposes the link watcher and with it every file-system
\* watcher: once the manager is disposed, no watcher runs.
NoWatcherAfterDispose ==
    mgrDisposed => \A p \in Paths : running[p] = 0

=============================================================================
