---------------------------- MODULE LinkWatcher ----------------------------
(***************************************************************************)
(* LinkWatcher of                                                          *)
(* extensions/markdown-language-features/src/languageFeatures/diagnostics.ts *)
(*                                                                         *)
(* The diagnostics manager tells it, per document, which paths the         *)
(* document links to (updateLinksForDocument, deleteDocument).  It keeps   *)
(* one entry per linked path: a file-system watcher and the documents that *)
(* link to the path.  A watcher is created with                            *)
(* RelativePattern(path, '*') and reports creations and deletions of the   *)
(* files matching that pattern, the direct children of path; the handler   *)
(* looks the changed file up among the entries and fires                   *)
(* onDidChangeLinkedToFile with the documents of its entry.                *)
(*                                                                         *)
(* Paths are model values and Parent gives each path its directory, which  *)
(* is all the '*' pattern depends on.  The callers are abstract: any       *)
(* document may be given any set of (already filtered) internal link       *)
(* paths at any time, also after dispose(), since the compute callbacks of *)
(* the diagnostics manager are not cancelled when it is disposed.          *)
(***************************************************************************)
EXTENDS Naturals, FiniteSets

CONSTANTS
    Docs,       \* markdown documents
    Paths,      \* link target paths
    Parent,     \* the directory of each path, or NoParent
    NoParent,
    NoDoc       \* no document: lastCall before the first call

VARIABLES
    watched,    \* the keys of _watchers
    docsOf,     \* docsOf[p]: entry.documents of the entry of p ({} if none)
    running,    \* running[p]: watchers started for p and not yet disposed
    disposed,   \* dispose() has run
    exists,     \* the files that exist on disk
    notified,   \* documents passed to onDidChangeLinkedToFile by this step
    lastCall    \* history: the arguments of the latest updateLinksForDocument

vars == <<watched, docsOf, running, disposed, exists, notified, lastCall>>

ASSUME LinkWatcherAssumption ==
    /\ NoParent \notin Paths
    /\ NoDoc \notin Docs
    /\ Parent \in [Paths -> Paths \cup {NoParent}]

-----------------------------------------------------------------------------
(* The three phases of updateLinksForDocument.  Each has a mutant defined  *)
(* just before it.                                                          *)

\* Mutant: the first loop forgets to remove the document from the entries.
RemoveDocumentNone(d) == docsOf

\* "First decrement watcher counter for previous document state".
RemoveDocument(d) == [p \in Paths |-> docsOf[p] \ {d}]

\* Mutant: a watcher is started for every linked path, entry or not.
StartedForAll(L) == L

\* The linked paths that have no entry yet get a new watcher.
StartedFor(L) == L \ watched

\* "Finally clean up watchers for links that are no longer referenced".
Emptied(D, kept) == {p \in kept : D[p] = {}}

\* updateLinksForDocument(document, links), L being the internal link
\* paths of links.
UpdateLinksForDocument(d, L) ==
    LET removed == RemoveDocument(d)
        started == StartedFor(L)
        added   == [p \in Paths |-> IF p \in L THEN removed[p] \cup {d}
                                               ELSE removed[p]]
        kept    == watched \cup L
        dropped == Emptied(added, kept)
    IN  /\ watched' = kept \ dropped
        /\ docsOf' = [p \in Paths |-> IF p \in dropped THEN {} ELSE added[p]]
        /\ running' = [p \in Paths |->
                         running[p] + (IF p \in started THEN 1 ELSE 0)
                                    - (IF p \in dropped THEN 1 ELSE 0)]
        /\ notified' = {}
        /\ lastCall' = [doc |-> d, links |-> L]
        /\ UNCHANGED <<disposed, exists>>

\* deleteDocument(resource): called when the document is closed.
DeleteDocument(d) == UpdateLinksForDocument(d, {})

\* A file c is created or deleted.  Every running watcher whose base is the
\* directory of c reports it; onLinkedResourceChanged(c) fires the
\* documents of the entry of c, if c has one.  After dispose() the emitter
\* is disposed and fires nothing.
FileEvent(c) ==
    /\ exists' = IF c \in exists THEN exists \ {c} ELSE exists \cup {c}
    /\ notified' = IF /\ ~disposed
                      /\ Parent[c] \in Paths
                      /\ running[Parent[c]] > 0
                      /\ c \in watched
                   THEN docsOf[c] ELSE {}
    /\ UNCHANGED <<watched, docsOf, running, disposed, lastCall>>

\* dispose(): dispose every entry's watcher and clear the map.
Dispose ==
    /\ ~disposed
    /\ disposed' = TRUE
    /\ running' = [p \in Paths |-> IF p \in watched THEN running[p] - 1
                                                   ELSE running[p]]
    /\ watched' = {}
    /\ docsOf' = [p \in Paths |-> {}]
    /\ notified' = {}
    /\ UNCHANGED <<exists, lastCall>>

Init ==
    /\ watched = {}
    /\ docsOf = [p \in Paths |-> {}]
    /\ running = [p \in Paths |-> 0]
    /\ disposed = FALSE
    /\ exists \in SUBSET Paths
    /\ notified = {}
    /\ lastCall = [doc |-> NoDoc, links |-> {}]

Next ==
    \/ \E d \in Docs, L \in SUBSET Paths : UpdateLinksForDocument(d, L)
    \/ \E d \in Docs : DeleteDocument(d)
    \/ \E c \in Paths : FileEvent(c)
    \/ Dispose

Spec == Init /\ [][Next]_vars

-----------------------------------------------------------------------------
(* Properties.                                                             *)

TypeOK ==
    /\ watched \subseteq Paths
    /\ docsOf \in [Paths -> SUBSET Docs]
    /\ running \in [Paths -> Nat]
    /\ disposed \in BOOLEAN
    /\ exists \subseteq Paths
    /\ notified \subseteq Docs
    /\ lastCall \in [doc : Docs \cup {NoDoc}, links : SUBSET Paths]

\* The watcher bookkeeping of updateLinksForDocument and dispose: exactly
\* one file-system watcher runs for each path in the map and none for any
\* other path, so no watcher is leaked and none is started twice; and an
\* entry is in the map exactly while some document links to its path.
WatcherAccounting ==
    \A p \in Paths :
        /\ running[p] = IF p \in watched THEN 1 ELSE 0
        /\ p \in watched <=> docsOf[p] # {}

\* The watcher implements LinkIndex: the links recorded for a document,
\* read off the entries, are the ones last given to updateLinksForDocument.
LinksOf == [d \in Docs |-> {p \in watched : d \in docsOf[p]}]

Abstract == INSTANCE LinkIndex WITH linksOf <- LinksOf, lastCall <- lastCall

AbstractSpec == Abstract!Spec

\* The doc comment of onDidChangeLinkedToFile: the event is "fired with a
\* list of document uri when one of the links in the document changes".
\* Whenever a file some document links to is created or deleted (before
\* dispose), every document linking to it is in the fired list.
LinkedFileEventNotifies ==
    [][\A c \in Paths :
          (~disposed /\ exists' # exists /\ c \in (exists \ exists') \cup (exists' \ exists))
            => docsOf[c] \subseteq notified']_vars

=============================================================================
