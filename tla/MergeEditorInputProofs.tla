----------------------- MODULE MergeEditorInputProofs -----------------------
(***************************************************************************)
(* Proofs about the input lifecycle of MergeEditor, for every set of      *)
(* inputs and every bound on the setInput calls: the type invariant, which *)
(* is inductive as it stands, whatever the interleaving of setInput calls  *)
(* suspended at their awaits with clearInput and dispose().                *)
(***************************************************************************)
EXTENDS MergeEditorInput, TLAPS

USE MergeEditorAssumption DEF MergeEditorAssumption

Inv == TypeOK

Pcs == {"super", "resolve", "done"}
CallRecs == [inp : Inputs, pc : Pcs]

\* TypeOK without its Boolean conjunct, for the SMT backend.
TypeRest ==
    /\ input \in Inputs \cup {NoInput}
    /\ model \in Inputs \cup {NoInput}
    /\ shown \in Inputs \cup {NoInput}
    /\ calls \in Seq(CallRecs)
    /\ live \subseteq CallIds
    /\ store \subseteq CallIds

LEMMA TypeSplit == TypeOK <=> TypeRest /\ disposed \in BOOLEAN
BY Zenon DEF TypeOK, TypeRest, CallRecs, Pcs

LEMMA TypeSplitPrime == TypeOK' <=> TypeRest' /\ disposed' \in BOOLEAN
BY Zenon DEF TypeOK, TypeRest, CallRecs, Pcs

\* A continuation moves call k to a later place and keeps the calls well
\* formed and their number.
LEMMA AdvanceCall ==
    ASSUME NEW k \in CallIds, NEW q \in Pcs, calls \in Seq(CallRecs),
           calls' = [calls EXCEPT ![k].pc = q]
    PROVE  /\ calls' \in Seq(CallRecs)
           /\ Len(calls') = Len(calls)
           /\ calls'[k].inp = calls[k].inp
<1>1. calls[k] \in CallRecs
  BY DEF CallIds
<1>. QED BY <1>1 DEF CallIds, CallRecs

LEMMA InitInv == Init => Inv
<1>. SUFFICES ASSUME Init PROVE Inv
  OBVIOUS
<1>1. TypeRest
  BY DEF Init, TypeRest, CallIds, CallRecs
<1>2. disposed \in BOOLEAN
  BY Zenon DEF Init
<1>. QED BY <1>1, <1>2, TypeSplit DEF Inv

LEMMA SetInputInv ==
    ASSUME Inv, NEW i \in Inputs, SetInput(i)
    PROVE  Inv'
<1>1. TypeRest
  BY TypeSplit DEF Inv
<1>2. /\ calls' \in Seq(CallRecs)
      /\ Len(calls') = Len(calls) + 1
  BY <1>1 DEF SetInput, TypeRest, CallRecs, Pcs
<1>3. TypeRest'
  BY <1>1, <1>2 DEF SetInput, TypeRest, CallIds
<1>4. disposed' \in BOOLEAN
  BY Zenon DEF Inv, TypeOK, SetInput
<1>. QED BY <1>3, <1>4, TypeSplitPrime DEF Inv

LEMMA SuperSetInputDoneInv ==
    ASSUME Inv, NEW k \in CallIds, SuperSetInputDone(k)
    PROVE  Inv'
<1>1. TypeRest
  BY TypeSplit DEF Inv
<1>2. /\ calls' \in Seq(CallRecs)
      /\ Len(calls') = Len(calls)
  BY <1>1, AdvanceCall DEF SuperSetInputDone, TypeRest, Pcs
<1>3. TypeRest'
  BY <1>1, <1>2 DEF SuperSetInputDone, ClearSession, TypeRest, CallIds
<1>4. disposed' \in BOOLEAN
  BY Zenon DEF Inv, TypeOK, SuperSetInputDone
<1>. QED BY <1>3, <1>4, TypeSplitPrime DEF Inv

LEMMA ResolveDoneInv ==
    ASSUME Inv, NEW k \in CallIds, ResolveDone(k)
    PROVE  Inv'
<1>1. TypeRest
  BY TypeSplit DEF Inv
<1>2. /\ calls' \in Seq(CallRecs)
      /\ Len(calls') = Len(calls)
      /\ calls[k].inp \in Inputs
  <2>1. calls[k] \in CallRecs
    BY <1>1 DEF TypeRest, CallIds
  <2>2. /\ calls' \in Seq(CallRecs)
        /\ Len(calls') = Len(calls)
    BY <1>1, AdvanceCall DEF ResolveDone, TypeRest, Pcs
  <2>. QED BY <2>1, <2>2 DEF CallRecs
<1>3. TypeRest'
  BY <1>1, <1>2 DEF ResolveDone, TypeRest, CallIds
<1>4. disposed' \in BOOLEAN
  BY Zenon DEF Inv, TypeOK, ResolveDone
<1>. QED BY <1>3, <1>4, TypeSplitPrime DEF Inv

LEMMA ClearInputInv ==
    ASSUME Inv, ClearInput
    PROVE  Inv'
<1>1. TypeRest
  BY TypeSplit DEF Inv
<1>2. TypeRest'
  BY <1>1 DEF ClearInput, ClearSession, TypeRest, CallIds
<1>3. disposed' \in BOOLEAN
  BY Zenon DEF Inv, TypeOK, ClearInput
<1>. QED BY <1>2, <1>3, TypeSplitPrime DEF Inv

LEMMA DisposeInv ==
    ASSUME Inv, Dispose
    PROVE  Inv'
<1>1. TypeRest
  BY TypeSplit DEF Inv
<1>2. TypeRest'
  BY <1>1 DEF Dispose, ClearSession, TypeRest, CallIds
<1>3. disposed' \in BOOLEAN
  BY Zenon DEF Dispose
<1>. QED BY <1>2, <1>3, TypeSplitPrime DEF Inv

LEMMA NextInv == Inv /\ [Next]_vars => Inv'
<1>. SUFFICES ASSUME Inv, [Next]_vars PROVE Inv'
  OBVIOUS
<1>1. CASE \E i \in Inputs : SetInput(i)
  BY <1>1, SetInputInv
<1>2. CASE ClearInput
  BY <1>2, ClearInputInv
<1>3. CASE Dispose
  BY <1>3, DisposeInv
<1>4. CASE \E k \in CallIds : SuperSetInputDone(k) \/ ResolveDone(k)
  BY <1>4, SuperSetInputDoneInv, ResolveDoneInv
<1>5. CASE UNCHANGED vars
  BY <1>5 DEF vars, Inv, TypeOK, CallIds
<1>. QED BY <1>1, <1>2, <1>3, <1>4, <1>5 DEF Next

\* Every reachable state of the merge editor's input lifecycle is well
\* typed, for any inputs and any bound on the setInput calls: each call in
\* flight carries the merge editor input it was given, and every autorun
\* belongs to a call made so far.
THEOREM TypeCorrect == Spec => []TypeOK
BY InitInv, NextInv, PTL DEF Spec, Inv

=============================================================================
