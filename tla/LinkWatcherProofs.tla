------------------------- MODULE LinkWatcherProofs -------------------------
(***************************************************************************)
(* Proofs about LinkWatcher for every set of documents and paths: the     *)
(* type invariant, the watcher accounting, and that LinkWatcher           *)
(* implements LinkIndex under the mapping LinksOf.                        *)
(***************************************************************************)
EXTENDS LinkWatcher, TLAPS

USE LinkWatcherAssumption DEF LinkWatcherAssumption

Inv == TypeOK /\ WatcherAccounting

\* TypeOK without its Boolean conjunct, which the SMT backend handles
\* poorly next to arithmetic; Zenon proves that conjunct on its own.
TypeRest ==
    /\ watched \subseteq Paths
    /\ docsOf \in [Paths -> SUBSET Docs]
    /\ running \in [Paths -> Nat]
    /\ exists \subseteq Paths
    /\ notified \subseteq Docs
    /\ lastCall \in [doc : Docs \cup {NoDoc}, links : SUBSET Paths]

LEMMA TypeSplit == TypeOK <=> TypeRest /\ disposed \in BOOLEAN
BY Zenon DEF TypeOK, TypeRest

LEMMA TypeSplitPrime == TypeOK' <=> TypeRest' /\ disposed' \in BOOLEAN
BY Zenon DEF TypeOK, TypeRest

LEMMA InitInv == Init => Inv
<1> SUFFICES ASSUME Init PROVE Inv
  OBVIOUS
<1>1. TypeRest
  BY DEF Init, TypeRest
<1>2. disposed \in BOOLEAN
  BY Zenon DEF Init
<1>3. WatcherAccounting
  BY DEF Init, WatcherAccounting
<1>. QED
  BY <1>1, <1>2, <1>3, TypeSplit DEF Inv

\* What updateLinksForDocument(d, L) does to one path p, in closed form.
LEMMA UpdateEffect ==
  ASSUME TypeRest, NEW d \in Docs, NEW L \in SUBSET Paths,
         UpdateLinksForDocument(d, L), NEW p \in Paths
  PROVE  /\ docsOf'[p] = IF p \in L THEN docsOf[p] \cup {d}
                                    ELSE docsOf[p] \ {d}
         /\ p \in watched' <=> \/ p \in L
                               \/ p \in watched /\ docsOf[p] \ {d} # {}
         /\ running'[p] = running[p] + (IF p \in L \ watched THEN 1 ELSE 0)
                            - (IF p \in watched \ L /\ docsOf[p] \ {d} = {}
                               THEN 1 ELSE 0)
BY DEF TypeRest, UpdateLinksForDocument, RemoveDocument, StartedFor, Emptied

LEMMA UpdateInv ==
  ASSUME Inv, NEW d \in Docs, NEW L \in SUBSET Paths,
         UpdateLinksForDocument(d, L)
  PROVE  Inv'
<1>1. TypeRest /\ WatcherAccounting /\ disposed \in BOOLEAN
  BY TypeSplit DEF Inv
<1>2. /\ watched' \subseteq Paths
      /\ docsOf' \in [Paths -> SUBSET Docs]
      /\ running' = [p \in Paths |-> running'[p]]
      /\ notified' = {}
      /\ lastCall' = [doc |-> d, links |-> L]
      /\ UNCHANGED <<disposed, exists>>
  BY <1>1 DEF TypeRest, UpdateLinksForDocument, RemoveDocument, StartedFor,
              Emptied
<1>3. ASSUME NEW p \in Paths
      PROVE  /\ running'[p] = IF p \in watched' THEN 1 ELSE 0
             /\ p \in watched' <=> docsOf'[p] # {}
  <2>1. /\ running[p] = IF p \in watched THEN 1 ELSE 0
        /\ p \in watched <=> docsOf[p] # {}
    BY <1>1 DEF WatcherAccounting
  <2>2. /\ docsOf'[p] = IF p \in L THEN docsOf[p] \cup {d}
                                   ELSE docsOf[p] \ {d}
        /\ p \in watched' <=> \/ p \in L
                              \/ p \in watched /\ docsOf[p] \ {d} # {}
        /\ running'[p] = running[p] + (IF p \in L \ watched THEN 1 ELSE 0)
                           - (IF p \in watched \ L /\ docsOf[p] \ {d} = {}
                              THEN 1 ELSE 0)
    BY <1>1, UpdateEffect
  <2>. QED
    BY <1>1, <2>1, <2>2 DEF TypeRest
<1>4. TypeRest'
  <2>1. running' \in [Paths -> Nat]
    BY <1>2, <1>3
  <2>. QED
    BY <1>1, <1>2, <2>1 DEF TypeRest
<1>5. disposed' \in BOOLEAN
  BY <1>1, <1>2, Zenon
<1>6. WatcherAccounting'
  BY <1>3 DEF WatcherAccounting
<1>. QED
  BY <1>4, <1>5, <1>6, TypeSplitPrime DEF Inv

LEMMA FileEventInv ==
  ASSUME Inv, NEW c \in Paths, FileEvent(c)
  PROVE  Inv'
<1>1. TypeRest /\ WatcherAccounting /\ disposed \in BOOLEAN
  BY TypeSplit DEF Inv
<1>2. TypeRest'
  BY <1>1 DEF FileEvent, TypeRest
<1>3. disposed' \in BOOLEAN
  BY <1>1, Zenon DEF FileEvent
<1>4. WatcherAccounting'
  BY <1>1 DEF FileEvent, WatcherAccounting
<1>. QED
  BY <1>2, <1>3, <1>4, TypeSplitPrime DEF Inv

LEMMA DisposeInv ==
  ASSUME Inv, Dispose
  PROVE  Inv'
<1>1. TypeRest /\ WatcherAccounting
  BY TypeSplit DEF Inv
<1>2. TypeRest'
  BY <1>1 DEF Dispose, TypeRest, WatcherAccounting
<1>3. disposed' \in BOOLEAN
  BY Zenon DEF Dispose
<1>4. WatcherAccounting'
  BY <1>1 DEF Dispose, TypeRest, WatcherAccounting
<1>. QED
  BY <1>2, <1>3, <1>4, TypeSplitPrime DEF Inv

LEMMA NextInv == Inv /\ [Next]_vars => Inv'
<1> SUFFICES ASSUME Inv, [Next]_vars PROVE Inv'
  OBVIOUS
<1>1. CASE \E d \in Docs, L \in SUBSET Paths : UpdateLinksForDocument(d, L)
  BY <1>1, UpdateInv
<1>2. CASE \E d \in Docs : DeleteDocument(d)
  BY <1>2, UpdateInv DEF DeleteDocument
<1>3. CASE \E c \in Paths : FileEvent(c)
  BY <1>3, FileEventInv
<1>4. CASE Dispose
  BY <1>4, DisposeInv
<1>5. CASE UNCHANGED vars
  BY <1>5 DEF vars, Inv, TypeOK, WatcherAccounting
<1>. QED
  BY <1>1, <1>2, <1>3, <1>4, <1>5 DEF Next

\* Every reachable state of LinkWatcher is well typed.
THEOREM TypeCorrect == Spec => []TypeOK
BY InitInv, NextInv, PTL DEF Spec, Inv

\* updateLinksForDocument and dispose keep exactly one running file-system
\* watcher per map entry and none for any other path, and keep an entry
\* exactly while some document links to its path: no watcher leaks.
THEOREM AccountingHolds == Spec => []WatcherAccounting
BY InitInv, NextInv, PTL DEF Spec, Inv

-----------------------------------------------------------------------------
(* Refinement: every step of LinkWatcher is a step of LinkIndex under the  *)
(* mapping LinksOf, or leaves LinksOf and lastCall unchanged.              *)

LEMMA InitRefines == Init => Abstract!Init
BY DEF Init, Abstract!Init, LinksOf

LEMMA UpdateRefines ==
  ASSUME Inv, Inv', NEW d \in Docs, NEW L \in SUBSET Paths,
         UpdateLinksForDocument(d, L)
  PROVE  Abstract!SetLinks(d, L)
<1>1. TypeRest /\ WatcherAccounting /\ TypeRest' /\ WatcherAccounting'
  BY TypeSplit, TypeSplitPrime DEF Inv
<1>2. ASSUME NEW e \in Docs, NEW p \in Paths
      PROVE  (p \in watched' /\ e \in docsOf'[p]) <=>
               IF e = d THEN p \in L ELSE p \in watched /\ e \in docsOf[p]
  <2>1. /\ docsOf'[p] = IF p \in L THEN docsOf[p] \cup {d}
                                   ELSE docsOf[p] \ {d}
        /\ p \in watched' <=> \/ p \in L
                              \/ p \in watched /\ docsOf[p] \ {d} # {}
    BY <1>1, UpdateEffect
  <2>2. /\ p \in watched <=> docsOf[p] # {}
        /\ p \in watched' <=> docsOf'[p] # {}
    BY <1>1 DEF WatcherAccounting
  <2>. QED
    BY <2>1, <2>2
<1>3. LinksOf' = [LinksOf EXCEPT ![d] = L]
  <2>1. ASSUME NEW e \in Docs
        PROVE  {p \in watched' : e \in docsOf'[p]} =
                 IF e = d THEN L ELSE {p \in watched : e \in docsOf[p]}
    <3>1. watched' \subseteq Paths /\ watched \subseteq Paths
      BY <1>1 DEF TypeRest
    <3>2. \A p \in Paths : (p \in watched' /\ e \in docsOf'[p]) <=>
            IF e = d THEN p \in L ELSE p \in watched /\ e \in docsOf[p]
      BY <1>2
    <3>. QED BY <3>1, <3>2
  <2>. QED BY <2>1 DEF LinksOf
<1>4. lastCall' = [doc |-> d, links |-> L]
  BY DEF UpdateLinksForDocument
<1>. QED
  BY <1>3, <1>4 DEF Abstract!SetLinks

LEMMA NextRefines ==
  Inv /\ Inv' /\ [Next]_vars => [Abstract!Next]_<<LinksOf, lastCall>>
<1> SUFFICES ASSUME Inv, Inv', [Next]_vars
             PROVE  [Abstract!Next]_<<LinksOf, lastCall>>
  OBVIOUS
<1>1. CASE \E d \in Docs, L \in SUBSET Paths : UpdateLinksForDocument(d, L)
  BY <1>1, UpdateRefines DEF Abstract!Next
<1>2. CASE \E d \in Docs : DeleteDocument(d)
  <2>1. PICK d \in Docs : UpdateLinksForDocument(d, {})
    BY <1>2 DEF DeleteDocument
  <2>2. Abstract!SetLinks(d, {})
    BY <2>1, UpdateRefines
  <2>. QED
    BY <2>2 DEF Abstract!Next
<1>3. CASE \E c \in Paths : FileEvent(c)
  BY <1>3 DEF FileEvent, LinksOf
<1>4. CASE Dispose
  <2>1. LinksOf' = [e \in Docs |-> {}] /\ lastCall' = lastCall
    BY <1>4 DEF Dispose, LinksOf
  <2>. QED
    BY <2>1 DEF Abstract!Next, Abstract!ForgetAll
<1>5. CASE UNCHANGED vars
  BY <1>5 DEF vars, LinksOf
<1>. QED
  BY <1>1, <1>2, <1>3, <1>4, <1>5 DEF Next

\* LinkWatcher implements LinkIndex: whatever the interleaving of
\* updateLinksForDocument, deleteDocument, file events and dispose, the
\* links read off the watcher entries for each document are exactly those
\* last passed to updateLinksForDocument for it (until dispose).
THEOREM Refinement == Spec => AbstractSpec
<1>1. Spec => []Inv
  BY InitInv, NextInv, PTL DEF Spec
<1>2. Init => Abstract!Init
  BY InitRefines
<1>. QED
  BY <1>1, <1>2, NextRefines, PTL DEF Spec, AbstractSpec, Abstract!Spec


=============================================================================
