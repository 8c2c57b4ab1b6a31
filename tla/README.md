# Verification of the markdown link-validation scheduler and the merge editor's input lifecycle

This directory holds TLA+ models of the repository's code, the TLC
configurations that check them, and TLAPS proofs. The main subject is
`src/extensions/markdown-language-features/src/languageFeatures/diagnostics.ts`.
That file decides when markdown documents are validated and which
diagnostics the editor shows. The input lifecycle of the merge editor
(`src/unnamed/part_001`) is modelled too. The other sources
(`src/unnamed/part_000`, `src/build/lib/optimize.js`) are listed in the
inventory, and section 6 says why they are not modelled.

## 1. Inventory of the system

### diagnostics.ts (644 lines)

| Part | State | Operations | Interacts with |
|---|---|---|---|
| `VSCodeDiagnosticConfiguration` (58-92) | the workspace settings | `onDidChange` (fired for six setting keys), `getOptions` | `DiagnosticManager.rebuild` |
| `InflightDiagnosticRequests` (94-133) | `inFlightRequests`: uri → token source | `trigger` (cancel the old entry, register a new one, run compute, and in `finally` delete the entry only if it is still its own), `cancel` (cancel and delete), `clear` (dispose **without cancelling**, then empty the map) | the compute callback of `recomputePendingDiagnostics` |
| `LinkWatcher` (135-221) | `_watchers`: link path → (file watcher, documents that link to it) | `updateLinksForDocument`, `deleteDocument`, `onLinkedResourceChanged` → `onDidChangeLinkedToFile` | file-system watchers; `DiagnosticManager` re-triggers the linking documents |
| `DiagnosticReporter` / `DiagnosticCollectionReporter` (233-295) | `pending`: uri → recompute promise; the diagnostic collection | `clear`, `set` (an empty list for a document not shown in a tab), `delete`, `signalTriggered`, `waitAllPending` | `DiagnosticManager` |
| `DiagnosticManager` (297-410) | `pendingDiagnostics`, the `Delayer` (300 ms debounce), the in-flight requests, the link watcher, the reporter | handlers for: configuration change → `rebuild`; document create/change → `triggerDiagnostics`; text document close; linked file changed; table of contents changed. It also has `recomputePendingDiagnostics`, `recomputeDiagnosticState` and `triggerDiagnostics` | all of the above |
| `DiagnosticComputer` (449-575) | none (pure, async) | `getDiagnostics` (links first; on cancellation or when disabled, return no diagnostics), plus the fragment, reference and file link validators (each checks the token after its awaits) | the link computer and the workspace contents |
| `AddToIgnoreLinksQuickFixProvider` (577-622) | none | code actions that append a path to `ignoreLinks` | the configuration |

Concurrency is the JavaScript event loop. A handler or a continuation runs
to its next `await` without interruption. Host events (edits, closes,
configuration changes, file changes) and the settlement of awaited promises
interleave between those steps. The hard behaviours:

- several computations for the same document are alive at once;
- cancellation is cooperative;
- `clear()` orphans computations without cancelling them;
- the Delayer coalesces triggers;
- `rebuild` awaits before it re-triggers, so two rebuilds can overlap.

### part_001 (752 lines): the merge editor

Its state is three code editors, the `ReentrancyBarrier` that couples their
scroll handlers (150-183), the current model set by the async `setInput`
(271-324), and the grid layout toggled by `toggleLayout` (391-402). It also
has `synchronizeScrolling` (415-461), an arithmetic mapping between scroll
positions, and the gutter item views with their checkbox state (631-686).

### part_000 (133 lines) and optimize.js (230 lines)

`part_000` builds Electron launch arguments and looks up paths. `optimize.js`
plumbs gulp streams to bundle, concatenate and minify files. Neither has state
that evolves through interleaved steps. They are not modelled; see
PROJECT.json for the reasons.

## 2. What is modelled

### `DiagnosticManager.tla`

This module models `DiagnosticManager` together with
`InflightDiagnosticRequests`, the reporter's collection and the
cancellation-relevant control of `DiagnosticComputer`.

- `version[d]` counts the edits of document `d`. `config` is the current
  configuration, abstracted to a value that is in `EnabledConfigs` or not.
  `textOpen` is the set of documents shown in a tab.
- `pending` is `pendingDiagnostics`. `timer` is TRUE while the Delayer has a
  timeout armed. `resolving[d]` counts the `getMarkdownDocument` awaits
  outstanding for `d`.
- `inFlight[d]` is the computation registered in `inFlightRequests`: its
  phase (`links` before `getAllLinks` resolves, `validate` after), the
  version it read and its configuration. `NoReq` means there is none.
- `orphans` is a bag of the computations still running without an entry. An
  entry is removed by `cancel` (its token is cancelled) or by `clear` (its
  token is only disposed, so `cancelled` is FALSE). A bag rather than ids
  keeps the state space finite and small.
- `rebuilding` counts the `rebuild()` calls waiting on
  `getAllMarkdownDocuments`. `collection` is what the editor shows.
- `freshPub[d]` is a history variable: the newest version for which an
  uncancelled computation published.

Each action is one event-loop step of the code:

- `ChangeDocument`: the document-change handler (329-331).
- `CloseDocument`: the close handler (333-338).
- `ChangeConfiguration`: the configuration handler plus `rebuild` up to its
  await (321-323, 394-398). `onDidChange` fires on a change of any of the
  six `validate` keys (66-76). So the abstract configuration read afterwards
  may be the same value, and the action allows that.
- `RebuildResume`: the rest of `rebuild` (399-402).
- `DelayerFire`: the timeout, then `recomputePendingDiagnostics` up to its
  awaits (378-383).
- `StartRequest`: the `getMarkdownDocument` continuation. It is
  `inFlightDiagnostics.trigger` plus `recomputeDiagnosticState` (370-389).
  - When validation is disabled, the callback awaits
    `recomputeDiagnosticState`, which has already resolved (386). The model
    then publishes in the same step. Only microtasks can run in that gap,
    never a host event.
  - The only microtask that can touch the same document is an unregistered
    computation of it publishing. Its publication can already come before
    or after the whole step, so no order of publications is lost.
  - The `if (doc)` miss at 384 is left out. Every document of the model
    exists, and deleting files is not modelled.
- `LinksComputed`, `ValidationComputed`: the two awaits of `getDiagnostics`
  for the registered computation (457-471).
- `OrphanLinksComputed`, `OrphanValidationComputed`: the same awaits for an
  unregistered computation. A cancelled one returns an empty list, or an
  incomplete list from the validators' token checks (473-570). The callback
  publishes it either way.

`TriggerDiagnostics`, `Detach` and `ReporterSet` are the shared helpers
`triggerDiagnostics`, `cancel`/`clear` and `reporter.set`. PROJECT.json's
`map` gives the lines of each definition.

`MCDiagnosticManager.tla` instantiates the module for TLC. Documents and
configurations are model values. `cOn` and `cOn2` are two enabled
configurations that give different diagnostics, and `cOff` is a disabled
one. Documents are symmetric in the
safety run.

### `DiagnosticQueue.tla`: what the manager promises

This is an abstract specification with no code of its own. It states what the
scheduler owes the editor: a queue of documents that still owe a
publication. Its variables are `version`, `textOpen`, `queued` and
`freshPub`, and its steps are the following.

- `Edit(d)` queues `d`.
- `Requeue` queues every document (a configuration change).
- `Close(d)` may drop `d`.
- `Complete(d)` publishes the current text of a queued document, which may
  then leave the queue.
- `Late(d, v)` is a superseded computation publishing an older text `v`,
  newer than anything fresh so far. It neither queues nor dequeues.

`DiagnosticManager` maps onto it with
`queued <- {d \in Docs : InPipeline(d)}`. A document is in the pipeline when
it is in `pendingDiagnostics`, awaits `getMarkdownDocument`, has a registered
computation, or a `rebuild()` is suspended (which re-triggers every
document). The manager's `QueueSpec` is `Queue!Spec` under that mapping.

### `LinkWatcher.tla` and `LinkIndex.tla`

`LinkWatcher` models the class of the same name (135-221).

- `watched` is the set of keys of `_watchers`.
- `docsOf[p]` is `entry.documents` of the entry for path `p`.
- `running[p]` counts the file-system watchers started for `p` and not yet
  disposed.
- `exists` is the set of files on disk.
- `notified` is the list `onDidChangeLinkedToFile` fired in the last step.
- `lastCall` records the arguments of the latest `updateLinksForDocument`.

The actions:

- `UpdateLinksForDocument(d, L)`: the whole method. Its three loops are the
  operators `RemoveDocument`, `StartedFor` and `Emptied`.
- `DeleteDocument(d)`.
- `FileEvent(c)`: the creation or deletion of file `c`. It is reported by
  every watcher whose base is `Parent[c]`, because `RelativePattern(path,
  '*')` matches the direct children of `path`. It is then handled by
  `onLinkedResourceChanged(c)`.
- `Dispose`.

The callers are left free, so any document may be given any set of paths at
any time. `LinkIndex` is what the class promises: a document's links are
exactly the set last given for it, and `dispose` forgets them all.

`MCLinkWatcher.tla` uses two documents and the paths `dir`, `f` and `g`,
where `f` and `g` are in `dir`. That is the smallest layout in which a
watcher sees events of another linked path.

### `DiagnosticSystem.tla`: the manager and its link watcher together

`DiagnosticSystem` extends `DiagnosticManager` and instantiates
`LinkWatcher` (its `disposed` renamed `lwDisposed`). Each action is one step
of the manager joined with what that same step of the code does to the
watcher:

- `SysCloseDocument`: the close handler, including its
  `linkWatcher.deleteDocument` (333-338).
- `SysValidationComputed`, `SysOrphanLinksComputed`,
  `SysOrphanValidationComputed`: the end of the compute callback, which calls
  `updateLinksForDocument` with `WatchedLinks(d, v, c)`. That is the links of
  the version `v` the computation read, or none when its configuration does
  not validate file links (387). A cancelled computation hands over its
  links too.
- `SysStartRequest`: with validation disabled the callback runs to its end at
  once and hands over `[]`.
- `SysFileEvent(c)`: `LinkWatcher`'s `FileEvent`, followed in the same task
  by the `onDidChangeLinkedToFile` handler `LinkedToFileChanged` (340-347).
  The handler triggers the named documents that are open.
- `SysDispose`: `DiagnosticManager.dispose()` (365-368). `super.dispose()`
  disposes `inFlightDiagnostics` (a `clear()`, so the token sources are
  disposed, not cancelled), the link watcher, the Delayer and the listeners.
  Then `pendingDiagnostics.clear()` runs. Continuations that were pending keep
  running afterwards.
- The other `Sys*` actions are the manager's actions with the watcher left
  unchanged. Host events are guarded by `~mgrDisposed`, because `dispose()`
  unregisters their listeners.

Three auxiliary variables serve the properties:

- `recheck[d]`: `d` was named by a linked-file notification and no
  computation has published for it since.
- `closedQuiet`: the closed documents that nothing has triggered since the
  close. A later edit, or a rebuild (which validates every markdown file of
  the workspace), legitimately gives them links again.
- `fileEvents`: counts the file events. It is capped by `MaxFileEvents`.

`DocLinks[d][v]` is the set of internal link paths of version `v` of `d`.
`MCDiagnosticSystem.tla` uses one document whose version 0 links to `dir` and
to `f` in `dir`, and whose version 1 links to `f` only. A change to `f` is
therefore seen by `dir`'s watcher at version 0 and by nobody at version 1.
`cFiles` validates file links, `cOn` is enabled without file links, and
`cOff` is disabled.

### `MergeEditorInput.tla`: the merge editor's input lifecycle

This module models `setInput` (271-324), `clearInput` (334-341) and
`dispose` (208-212) of `MergeEditor`. `setInput` has two awaits:

- `SetInput`: up to `await super.setInput`. The `EditorPane` base class
  records the input.
- `SuperSetInputDone`: `_sessionDisposables.clear()` (the operator
  `ClearSession`), then up to `await input.resolve()`.
- `ResolveDone`: sets `this._model` and the three code editors' models, and
  adds the alignment autorun to `_sessionDisposables`. When the store has
  been disposed, `add` only warns, so the autorun stays alive and belongs to
  nobody.

The `token` parameter is never read, so every call runs to its end. Calls
are numbered in the order they start. A model is named by its input.
`live` holds the calls whose autorun (and so whose view zones) is alive, and
`store` holds those that the session store owns. `MCMergeEditorInput.tla`
uses two inputs, which are symmetric, and up to three calls.

## 3. Runs

| Run | cfg | Checks | Result |
|---|---|---|---|
| `safety` | `MCDiagnosticManager.cfg` | `TypeOK`, `RegisteredIsCurrent`, `UnpublishedEditInPipeline` | passes (about 2.2 M distinct states, 1.5 min) |
| `queue` | `MCDiagnosticManagerQueue.cfg` | `QueueSpec` | passes (about 1.5 M distinct states, 1.2 min) |
| `fresh` | `MCDiagnosticManagerLive.cfg` | `FreshResultPublished` | passes |
| `stale` | `MCDiagnosticManagerStale.cfg` | `EventuallyConsistent` | **violated**: a code bug, see below |
| `links` | `MCLinkWatcher.cfg` | `WatcherAccounting`, `AbstractSpec` | passes (1600 distinct states) |
| `notify` | `MCLinkWatcherNotify.cfg` | `LinkedFileEventNotifies` | **violated**: a code bug, see below |
| `relink` | `MCDiagnosticSystem.cfg` | `LinkedFileRevalidated`, `RecheckInPipeline` | passes (about 257 k distinct states, 1.2 min) |
| `closed_watch` | `MCDiagnosticSystemClose.cfg` | `ClosedDocumentUnwatched` | **violated**: finding 3 |
| `dispose_watch` | `MCDiagnosticSystemDispose.cfg` | `NoWatcherAfterDispose` | **violated**: finding 4 |
| `merge_session` | `MCMergeEditorInput.cfg` | `TypeOK` | passes (1534 distinct states) |
| `merge_stale` | `MCMergeEditorInputStale.cfg` | `ShowsCurrentInput` | **violated**: finding 5 |
| `merge_dispose` | `MCMergeEditorInputDispose.cfg` | `NoAutorunAfterDispose` | **violated**: finding 6 |

The properties:

- `RegisteredIsCurrent`: the computation registered for a document always
  read the document's current version under the current configuration. It
  needs the cancel in `triggerDiagnostics` (405) and the `clear` in
  `rebuild`. The model keys requests by document, so the `finally`
  own-entry check (108) cannot matter to this property. That check is
  caught by `UnpublishedEditInPipeline` instead.
- `UnpublishedEditInPipeline`: an open document whose newest text has not
  been published by an uncancelled computation is in the pipeline. Nothing
  in the code drops an edit between the Delayer, the `getMarkdownDocument`
  await, `inFlightRequests` and a suspended `rebuild()`. It catches two
  bugs. A `rebuild()` that resumed without re-triggering would break it,
  because it has already cleared the registered computations. A `finally`
  block without the own-entry check at 108 would break it too: a superseded
  computation would delete its successor's entry.
- `QueueSpec`: the manager implements `DiagnosticQueue`. Every publication
  of the registered computation, or of `StartRequest` under a disabled
  configuration, publishes the current text of a queued document. Every
  publication of a superseded computation publishes an older text, and no
  step takes a document out of the pipeline without publishing it or
  closing it. The queue's `Late` step allows a superseded computation to
  publish an older text. So this property says nothing about a stale result
  overwriting a fresh one (388); `EventuallyConsistent` is the property
  about that.
- `FreshResultPublished`: every edit of a document that stays open is
  eventually followed by an uncancelled publication of that version or a
  later one. This is checked under overlapping rebuilds and debounced
  triggers.
- `EventuallyConsistent`: the shown diagnostics eventually settle on those of
  the current text and configuration.

**Finding.** The compute callback (lines 385-389) calls `reporter.set`
without checking its token, and `clear()` (127-131) disposes token sources
without cancelling them. TLC's counterexample:

1. Validation starts under configuration `cOn`.
2. The configuration changes to `cOn2`, so `rebuild` clears the map and
   re-triggers.
3. The new computation publishes.
4. The old `cOn` computation, which was never cancelled, publishes after it.

The editor then shows diagnostics for the old configuration, and nothing
re-triggers. A cancelled computation does the same with an empty list.

The LinkWatcher properties:

- `WatcherAccounting`: exactly one watcher runs per entry and none for any
  other path, and an entry exists exactly while some document links to its
  path. This covers the decrement, create and clean-up order of
  `updateLinksForDocument`.
- `AbstractSpec`: `LinkWatcher` refines `LinkIndex` under
  `LinksOf == [d |-> {p \in watched : d \in docsOf[p]}]`.
- `LinkedFileEventNotifies`: the doc comment of `onDidChangeLinkedToFile`
  promises that creating or deleting a linked file notifies every document
  linking to it.

**Finding 2.** The watcher glob `RelativePattern(path, '*')` (line 206)
matches the children of the linked path, not the path itself. Creating or
deleting a linked file therefore notifies no one, unless its directory is
linked as well. TLC's counterexample: document `a` links to a path, that
path is created, and the fired list is empty. With several workers, the
path TLC reaches first may be `f` or `dir`.

The composition's properties:

- `LinkedFileRevalidated`: an open document named by a linked-file
  notification is eventually revalidated. That means an uncancelled
  computation publishes for it, unless it is closed or the manager is
  disposed first. This is the purpose of the handler at 340-347. It depends on
  the trigger re-arming the Delayer even while computations and a rebuild are
  in flight. It is checked under the fairness below, with edits, closes, one
  configuration change and dispose interleaved. If the handler does not
  trigger, the property fails.
- `RecheckInPipeline`: until `dispose()`, an open document named by a
  linked-file notification stays in the pipeline until a computation
  started after the notification publishes for it. This is the safety half
  of `LinkedFileRevalidated`, and it is proved. If the handler does not
  trigger, the property fails.
- `ClosedDocumentUnwatched`: a closed document that nothing has triggered
  since keeps no links in the watcher, as `deleteDocument` on close intends.
- `NoWatcherAfterDispose`: once the manager is disposed, no file-system
  watcher runs.

**Finding 3.** Document `d1` is validated under `cFiles`, and its
computation is in the `links` phase when the tab is closed. The close
handler cancels it and calls `deleteDocument`. `getAllLinks` then resolves,
and `getDiagnostics` returns the links with no diagnostics because the token
is cancelled. The callback passes those links to `updateLinksForDocument`
without looking at the token (387). `f`'s watcher is started again for a
closed document, and it stays until something triggers that document.

**Finding 4.** `dispose()` runs while a continuation is still outstanding:
the constructor's `rebuild()` suspended on `getAllMarkdownDocuments`, or a
`getMarkdownDocument` await. The continuation runs anyway.
- The resumed `rebuild()` triggers every document, and the Delayer starts
  new computations.
- A computation that was already resolving registers, and may be cancelled
  by that trigger.
In both cases a computation later hands its links to the disposed
`LinkWatcher` (387). The watcher starts a file-system watcher in its emptied
map, and nothing disposes it (183). Which of these paths TLC reports
depends on the search order.

The merge editor's properties:

- `TypeOK`: every `setInput` call in flight carries the merge editor input
  it was given, and every autorun belongs to a call made so far. A call that
  went on with `this.input` as it was before `super.setInput` would break
  it.
- `ShowsCurrentInput`: once no `setInput` call is waiting, the code editors
  show the model of the current input.
- `NoAutorunAfterDispose`: after `dispose`, once no call is waiting, no
  autorun is alive.

**Finding 5.** `setInput(i1)` is called and then `clearInput()`. The
pending call resolves and installs `i1`'s model in an editor that has no
input. Two overlapping `setInput` calls that resolve in the reverse order
leave the older model shown in the same way, and both autoruns then add view
zones. The cancellation token that `setInput` receives is never checked
(278).

**Finding 6.** `dispose()` lands while `setInput` awaits `resolve()`. The
rest of `setInput` adds its autorun to the disposed store, which neither keeps
nor disposes it (286).

**Bounds.**

- Safety: two documents, `MaxVersion = 1` edit each, one configuration change
  (`MaxConfigChanges = 1`) and three configurations. This is enough for:
  - an edit during a computation;
  - a configuration change during one;
  - a close during one;
  - the two documents interleaving through the shared Delayer;
  - both enabled-to-enabled and enabled-to-disabled changes.
- The `queue` run uses the safety run's two documents and one edit each,
  with one enabled and one disabled configuration. That covers both
  `StartRequest` paths and a configuration change while computations run.
  A second edit per document gives the same verdict but takes 18 minutes.
- Liveness and the violation use one document, two edits and one
  configuration change. A second edit makes overlapping computations for the
  same document possible.
- The composition uses one document, one edit, one configuration change and
  one file event, with the two-path layout described above. That is enough
  for a notification to land while a computation is registered, orphaned, or
  pending behind the Delayer or a rebuild. Two file events give the same
  verdicts but take almost five minutes.
- The merge editor uses two inputs and three `setInput` calls, enough for
  two overlapping calls plus a third after a `clearInput`.
- Counters are capped by the named constants `MaxVersion`,
  `MaxConfigChanges`, `MaxFileEvents` and `MaxCalls`.

**Fairness.** Weak fairness holds on every system action: `RebuildResume`,
`DelayerFire`, `StartRequest`, and the computation steps of registered and
orphan computations. The host settles every awaited promise and fires every
armed timer, and the event loop runs each queued continuation. There is no
fairness on user events. The composition carries the same fairness over to
its `Sys*` actions. File events and `dispose()` come from the environment
and get no fairness. `CHECK_DEADLOCK FALSE`: once nothing is pending, the
extension and the merge editor are idle and wait for the user, which is
correct behaviour. The caps on edits, file events and calls end every
run.

## 4. Proofs (checked by tlapm)

`DiagnosticManagerProofs.tla`:

- `TypeCorrect`: `Spec => []TypeOK`
- `RegisteredCurrent`: `Spec => []RegisteredIsCurrent`

These hold for every set of documents and configurations and every bound. The
only assumption is `ConstAssumption`: documents exist, the bounds are
naturals, and `NoReq` is not a record. The inductive invariant is
`Inv == TypeOK /\ RegisteredIsCurrent /\ PendingScheduled`.
`PendingScheduled` says that a pending document has the boolean Delayer
armed. It holds by the shape of `TriggerDiagnostics` and `DelayerFire`. It
is a conjunct of `Inv`, but no theorem or run claims it as a property.

`RegisteredIsCurrent` alone is not inductive. `StartRequest` must know that
`version` and `config` are well typed, and every step that changes `version`
or `config` must remove the registered entry of the affected documents. The
proof therefore carries the type invariant along. It also uses lemmas on the
bag operators:

- `PutAllBag` and `TakeBag` show that they keep a bag of orphan records;
- `DetachedBag` shows the same for `Detached`;
- `DetachInFlight` shows that `Detach` empties exactly the chosen slots.

There is one lemma per action, then `NextInv`, then the three theorems by PTL.

- `NoDroppedEdit`: `Spec => []UnpublishedEditInPipeline`. Together with
  `Inv` this invariant is inductive. The lemma `PublishFresh` bounds what a
  publication does to `freshPub`. `PipelineFrame` is the pure-logic frame:
  a step that keeps a document in the pipeline, or publishes its current
  text, preserves the invariant for it. Each action's lemma supplies the
  per-document facts. The cases that need care are the following.
  - `CloseDocument` cancels but does not publish, which is harmless only
    because the document is no longer open.
  - `RebuildResume` re-triggers everything, and so does
    `ChangeConfiguration`, whose `clear` removes registrations without
    cancelling them.

`DiagnosticQueueProofs.tla` proves `QueueRefinement`: `Spec => QueueSpec`.
The mapping sends each manager step to one queue step.

| Manager step | Queue step |
|---|---|
| `ChangeDocument` | `Edit` |
| `CloseDocument` | `Close` |
| `ChangeConfiguration` | `Requeue` |
| `ValidationComputed`, and `StartRequest` under a disabled configuration | `Complete` |
| an uncancelled orphan publishing a newer version | `Late` |
| everything else | a stutter |

`RebuildResume` and `DelayerFire` move documents between parts of the
pipeline without changing membership.

`Inv` is not enough for this refinement. `Complete` sets `freshPub[d]` to
the current version, while the code publishes `max(freshPub[d], version[d])`.
The two agree only because nothing published is ahead of the text
(`FreshBounded`). `Late` needs the version a superseded computation read to
be no newer than the current one (`OrphansBehind`). Neither is inductive
alone: an orphan is created by detaching a registered computation, which
is current by `RegisteredIsCurrent`. So the proof carries
`RInv == Inv /\ FreshBounded /\ OrphansBehind` (`NextBehind`). Both
conjuncts were checked by TLC on the safety instance before the proof was
written.

`LinkWatcherProofs.tla` proves three theorems for every set of documents and
paths:

- `TypeCorrect`.
- `AccountingHolds`: `Spec => []WatcherAccounting`. The invariant is
  inductive together with `TypeOK`. The lemma `UpdateEffect` gives the effect
  of `updateLinksForDocument` on one path in closed form, and each action's
  lemma rests on it.
- `Refinement`: `Spec => AbstractSpec`.
  - Initial states map to `LinkIndex`'s initial state.
  - An update is `SetLinks(d, L)`. This uses `WatcherAccounting` in both
    states, because an entry must exist exactly when some document links to
    it.
  - `dispose` is `ForgetAll`.
  - A file event is a stutter.

`DiagnosticSystemProofs.tla` proves two theorems for every instance of the
composition, from `ConstAssumption` and `SystemAssumption` (`FileLinkConfigs`
validate, and `DocLinks` gives link paths):

- `SysRegisteredCurrent`: `SysSpec => []RegisteredIsCurrent`. The
  manager's inductive invariant `Inv` is preserved by every composed step,
  `dispose()` and the continuations that run after it included. The lemmas of
  `DiagnosticManagerProofs` cover the manager's own actions. Two new lemmas
  cover the two new steps: `FileEventInv`, whose trigger of the notified open
  documents reuses `TriggerInv`, and `DisposeInv`.
- `RecheckNeverLost`: `SysSpec => []RecheckInPipeline`. It is inductive
  together with `Inv` and the typing of the history variable `recheck`.
  `RecheckQuiet` covers every step that neither notifies nor publishes: it
  keeps each open document in the pipeline. The file-event step triggers
  every document it marks. A validation that publishes clears the mark.
- `WatcherImplemented`: `SysSpec => LW!Spec`. Every composed step is a step
  of `LinkWatcher` on the watcher's variables, or leaves them alone
  (`SysNextWatcher`). The links handed over are link paths because the
  registered computation's version is well typed, which is why `Inv` is
  needed. What `LinkWatcherProofs` proves of every behaviour of
  `LinkWatcher`'s spec, namely `WatcherAccounting` and the `LinkIndex`
  refinement, therefore holds for the watcher inside the composed system.
  That last step is substitution into those theorems. It is argued here, not
  checked by tlapm, because tlapm 1.4.5 does not make the statement of a
  theorem imported through `INSTANCE ... WITH` available to its backends.

Left to TLC: the liveness properties `FreshResultPublished` and
`LinkedFileRevalidated`, because TLAPS handles neither fairness nor
ENABLED. The violation of
`EventuallyConsistent` is also only model-checked.

`MergeEditorInputProofs.tla` proves `TypeCorrect` (`Spec => []TypeOK`) for
any inputs and any bound on the `setInput` calls. `TypeOK` is inductive as
it stands. `AdvanceCall` states what a continuation does to the call
sequence: it keeps the calls well formed and their number.

## 5. Plan

1. **DiagnosticReporter pending promises** (233-258): the own-promise check
   of `signalTriggered`, and that `waitAllPending` covers the latest trigger.
2. **The composition's refinement of `DiagnosticQueue`**: `DiagnosticSystem`
   adds notification and `dispose()` steps. They would map to `Requeue`-like
   steps of a queue extended with a disposed flag.

## 6. Not modelled, and why

- **Opening a document, and `onDidCreateMarkdownDocument`** (325-327).
  `textOpen` starts as any set of documents and only shrinks.
  - `diagnostics.ts` has no handler for a tab being opened.
  - Whether the workspace contents fire a create or change event on open is
    decided outside the repository. Modelling a reopen without a trigger
    would invent a bug, and modelling one with a trigger would invent a
    guarantee.
  - The create handler is the same `triggerDiagnostics` as the change
    handler, without an edit.

- **The `onTocChanged` handler** (350-360). It awaits
  `MdReferencesComputer.getAllReferencesToFile`, which is not in the
  repository. The staleness of the references it reads is harmless to the
  manager: a file that gains a link after they were computed was edited, and
  that edit triggers it.
- **The merge editor's scroll synchronisation** (150-183, 415-461). What the
  three handlers do depends on `ReentrancyBarrier`, on `setScrollTop`
  delivering its event synchronously, and on `DocumentMapping` and the code
  editors' pixel geometry. None of them is in the repository. For a mapped
  range, the division at 457 is taken over a line range that
  `deltaStart(-1)` makes non-empty (136-139).
- **The merge editor's layout, toolbar and gutter views**: DOM work.
- **`AddToIgnoreLinksQuickFixProvider`**: a stateless provider and a settings
  write.
- **`part_000` (Electron launch configuration) and `optimize.js`**: pure
  argument construction and gulp stream plumbing, with no state that evolves
  through interleaved steps.
