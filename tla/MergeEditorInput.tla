-------------------------- MODULE MergeEditorInput --------------------------
(***************************************************************************)
(* The input lifecycle of MergeEditor (src/unnamed/part_001): setInput,    *)
(* clearInput and dispose.                                                 *)
(*                                                                         *)
(* setInput(input, options, context, token) awaits super.setInput (the     *)
(* EditorPane base class records the input and returns), clears the        *)
(* session disposables, awaits input.resolve(), then installs the model:   *)
(* this._model, the three code editors' models, and an alignment autorun   *)
(* added to _sessionDisposables whose disposal removes its view zones.     *)
(* The token is never consulted, so a call whose input was replaced while  *)
(* it awaited goes on to the end.  Each await ends a step; several calls   *)
(* may be in flight, the editor group invoking setInput again when another *)
(* editor input is opened in the pane.                                     *)
(*                                                                         *)
(* A model is named by its input.  Calls are numbered in the order they    *)
(* start; an autorun is named by the call that created it.                 *)
(***************************************************************************)
EXTENDS Naturals, Sequences

CONSTANTS
    Inputs,    \* merge editor inputs
    NoInput,   \* no input / no model
    MaxCalls   \* bound on the setInput calls of a run

VARIABLES
    input,     \* this.input of EditorPane
    model,     \* this._model
    shown,     \* the model of the three code editors (NoInput: setModel(null))
    calls,     \* calls[k]: the input of the k-th setInput call and where it waits
    live,      \* calls whose alignment autorun is alive (its view zones shown)
    store,     \* calls whose autorun _sessionDisposables holds
    disposed   \* dispose() has disposed _sessionDisposables

vars == <<input, model, shown, calls, live, store, disposed>>

ASSUME MergeEditorAssumption ==
    /\ NoInput \notin Inputs
    /\ MaxCalls \in Nat

CallIds == 1..Len(calls)

-----------------------------------------------------------------------------

\* _sessionDisposables.clear(): dispose every autorun it holds.
ClearSession == /\ live' = live \ store
                /\ store' = {}

\* Mutant: the call goes on with this.input as it was before super.setInput
\* replaced it, instead of its input parameter.
SetInputOldInput(i) ==
    /\ ~disposed
    /\ Len(calls) < MaxCalls
    /\ input' = i
    /\ calls' = Append(calls, [inp |-> input, pc |-> "super"])
    /\ UNCHANGED <<model, shown, live, store, disposed>>

\* setInput up to its first await: super.setInput records the input.
SetInput(i) ==
    /\ ~disposed
    /\ Len(calls) < MaxCalls
    /\ input' = i
    /\ calls' = Append(calls, [inp |-> i, pc |-> "super"])
    /\ UNCHANGED <<model, shown, live, store, disposed>>

\* super.setInput returned: clear the session, start input.resolve().
SuperSetInputDone(k) ==
    /\ calls[k].pc = "super"
    /\ ClearSession
    /\ calls' = [calls EXCEPT ![k].pc = "resolve"]
    /\ UNCHANGED <<input, model, shown, disposed>>

\* input.resolve() returned: install the model and its alignment autorun.
\* Adding to a disposed DisposableStore only warns: the autorun is kept
\* alive by nobody's store.
ResolveDone(k) ==
    /\ calls[k].pc = "resolve"
    /\ model' = calls[k].inp
    /\ shown' = calls[k].inp
    /\ live' = live \cup {k}
    /\ store' = IF disposed THEN store ELSE store \cup {k}
    /\ calls' = [calls EXCEPT ![k].pc = "done"]
    /\ UNCHANGED <<input, disposed>>

\* clearInput(): super.clearInput forgets the input, the session is
\* cleared and the three code editors get no model.
ClearInput ==
    /\ ~disposed
    /\ input' = NoInput
    /\ ClearSession
    /\ shown' = NoInput
    /\ UNCHANGED <<model, calls, disposed>>

\* dispose(): _sessionDisposables.dispose().
Dispose ==
    /\ ~disposed
    /\ disposed' = TRUE
    /\ ClearSession
    /\ UNCHANGED <<input, model, shown, calls>>

Init ==
    /\ input = NoInput
    /\ model = NoInput
    /\ shown = NoInput
    /\ calls = << >>
    /\ live = {}
    /\ store = {}
    /\ disposed = FALSE

Next ==
    \/ \E i \in Inputs : SetInput(i)
    \/ ClearInput
    \/ Dispose
    \/ \E k \in CallIds : SuperSetInputDone(k) \/ ResolveDone(k)

\* Every await resumes eventually: super.setInput returns at once and
\* input.resolve() settles.
Fairness == \A k \in 1..MaxCalls : /\ WF_vars(k \in CallIds /\ SuperSetInputDone(k))
                                  /\ WF_vars(k \in CallIds /\ ResolveDone(k))

Spec == Init /\ [][Next]_vars /\ Fairness

-----------------------------------------------------------------------------
(* Properties.                                                             *)

\* Every setInput call in flight works on a merge editor input, and the
\* autoruns are those of calls made so far.
TypeOK ==
    /\ input \in Inputs \cup {NoInput}
    /\ model \in Inputs \cup {NoInput}
    /\ shown \in Inputs \cup {NoInput}
    /\ calls \in Seq([inp : Inputs, pc : {"super", "resolve", "done"}])
    /\ live \subseteq CallIds
    /\ store \subseteq CallIds
    /\ disposed \in BOOLEAN

\* No setInput call is waiting.
Settled == \A k \in CallIds : calls[k].pc = "done"

\* The editor pane shows what it was last given: once no setInput call is
\* in flight, the code editors show the model of the current input (and
\* none when the input was cleared).
ShowsCurrentInput == Settled => shown = input

\* Disposing the merge editor ends every alignment autorun for good: once
\* it is disposed and no setInput call is in flight, none is alive.
NoAutorunAfterDispose == (disposed /\ Settled) => live = {}

=============================================================================
