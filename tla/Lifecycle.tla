------------------------------ MODULE Lifecycle ------------------------------
(***************************************************************************)
(* What the operator promises of the life of the KedaController, without   *)
(* caches, queues, stages or errors: the resource is held before anything  *)
(* is installed for it; deletion is followed by a time in which an install *)
(* under way may still add operands; then a time in which they only go;    *)
(* and the resource is let go when none is left.                           *)
(***************************************************************************)
CONSTANT Guarded  \* the operands finalizeKedaController deletes

VARIABLES
    phase,     \* of the resource
    installed  \* the operands that exist

lifecycle == <<phase, installed>>

Phase == {"absent",    \* there is no KedaController
          "open",      \* there is one, without the operator's finalizer
          "held",      \* with the finalizer
          "ending",    \* deleted, the operator may not know yet
          "draining",  \* deleted, the operator only removes
          "released"}  \* deleted and let go, kept by a finalizer of someone else

Init == phase = "absent" /\ installed = {}

Create == phase = "absent" /\ phase' = "open" /\ UNCHANGED installed
Hold == phase = "open" /\ phase' = "held" /\ UNCHANGED installed

\* A resource that was never held goes without the operator's consent.
Abandon ==
    /\ phase = "open" /\ phase' \in {"absent", "released"}
    /\ UNCHANGED installed

Delete == phase = "held" /\ phase' = "ending" /\ UNCHANGED installed

\* Operands come and go while the resource is held, whatever the reason.
Operate ==
    /\ phase \in {"held", "ending"}
    /\ installed' \in SUBSET Guarded
    /\ UNCHANGED phase

\* The last install has ended.
Drain == phase = "ending" /\ phase' = "draining" /\ UNCHANGED installed

Remove ==
    /\ phase = "draining" /\ installed' \in SUBSET installed
    /\ UNCHANGED phase

Release ==
    /\ phase = "draining" /\ installed = {}
    /\ phase' \in {"absent", "released"}
    /\ UNCHANGED installed

Vanish == phase = "released" /\ phase' = "absent" /\ UNCHANGED installed

Next ==
    \/ Create \/ Hold \/ Abandon \/ Delete \/ Operate \/ Drain \/ Remove \/ Release \/ Vanish

Spec == Init /\ [][Next]_lifecycle
=============================================================================
