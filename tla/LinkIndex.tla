----------------------------- MODULE LinkIndex -----------------------------
(***************************************************************************)
(* What LinkWatcher (diagnostics.ts) promises its user, the diagnostics    *)
(* manager: for every document it remembers exactly the set of linked      *)
(* paths last given for it, until it is disposed and forgets them all.     *)
(* lastCall records the input of the latest call, so that a step that      *)
(* records other links than the ones given is not a step of this spec.     *)
(***************************************************************************)
CONSTANTS Docs, Paths, NoDoc

VARIABLES linksOf, lastCall

SetLinks(d, L) ==
    /\ linksOf' = [linksOf EXCEPT ![d] = L]
    /\ lastCall' = [doc |-> d, links |-> L]

ForgetAll ==
    /\ linksOf' = [d \in Docs |-> {}]
    /\ UNCHANGED lastCall

Init ==
    /\ linksOf = [d \in Docs |-> {}]
    /\ lastCall = [doc |-> NoDoc, links |-> {}]

Next == (\E d \in Docs, L \in SUBSET Paths : SetLinks(d, L)) \/ ForgetAll

Spec == Init /\ [][Next]_<<linksOf, lastCall>>

=============================================================================
