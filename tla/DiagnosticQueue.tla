--------------------------- MODULE DiagnosticQueue ---------------------------
(***************************************************************************)
(* What the diagnostics manager of diagnostics.ts promises the editor,     *)
(* stripped of its machinery (pendingDiagnostics, the Delayer, the awaits  *)
(* of getMarkdownDocument, inFlightRequests and rebuild()): a queue of     *)
(* documents that still owe a publication.                                 *)
(*                                                                         *)
(* An edit queues its document and a configuration change queues them     *)
(* all.  A document leaves the queue only when its current text is        *)
(* published by an uncancelled computation, or when it is closed.          *)
(* Computations that are no longer registered may publish an older text    *)
(* of their own at any time; they neither queue nor dequeue.               *)
(* freshPub[d] is the newest version published by an uncancelled          *)
(* computation.                                                            *)
(***************************************************************************)
EXTENDS Naturals

CONSTANTS
    Docs,
    MaxVersion

VARIABLES
    version,    \* version[d]: the text of document d
    textOpen,   \* documents open in the editor
    queued,     \* documents that owe a publication
    freshPub    \* freshPub[d]: newest version of d published uncancelled

qvars == <<version, textOpen, queued, freshPub>>

Init ==
    /\ version = [d \in Docs |-> 0]
    /\ textOpen \in SUBSET Docs
    /\ queued = Docs
    /\ freshPub = [d \in Docs |-> 0]

\* The text of d changes: d owes a publication.
Edit(d) ==
    /\ version[d] < MaxVersion
    /\ version' = [version EXCEPT ![d] = @ + 1]
    /\ queued' = queued \cup {d}
    /\ UNCHANGED <<textOpen, freshPub>>

\* d is closed; it may be dropped from the queue.
Close(d) ==
    /\ d \in textOpen
    /\ textOpen' = textOpen \ {d}
    /\ queued' \in {queued, queued \ {d}}
    /\ UNCHANGED <<version, freshPub>>

\* The configuration changes: every document owes a publication.
Requeue ==
    /\ queued' = Docs
    /\ UNCHANGED <<version, textOpen, freshPub>>

\* The current text of a queued document is published; it may leave the
\* queue.
Complete(d) ==
    /\ d \in queued
    /\ freshPub' = [freshPub EXCEPT ![d] = version[d]]
    /\ queued' \in {queued, queued \ {d}}
    /\ UNCHANGED <<version, textOpen>>

\* An unregistered computation publishes version v of d, which it read
\* earlier.
Late(d, v) ==
    /\ freshPub[d] < v
    /\ v <= version[d]
    /\ freshPub' = [freshPub EXCEPT ![d] = v]
    /\ UNCHANGED <<version, textOpen, queued>>

Next ==
    \/ \E d \in Docs : Edit(d) \/ Close(d) \/ Complete(d)
    \/ Requeue
    \/ \E d \in Docs, v \in 0..MaxVersion : Late(d, v)

Spec == Init /\ [][Next]_qvars

\* The queue's promise: an open document whose current text has not been
\* published is queued.
NoForgottenEdit ==
    \A d \in textOpen : freshPub[d] < version[d] => d \in queued

=============================================================================
