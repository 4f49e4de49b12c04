-------------------------- MODULE ResumableUpdate --------------------------
(***************************************************************************)
(* What an in-place update promises: it is a fixed sequence of steps, each *)
(* with its own cells of the memory, and after p completed steps the       *)
(* memory is Ideal[p], whatever interrupted it on the way.  A step in      *)
(* progress may leave its own cells in any state.  This is the table of    *)
(* steps in docs/index.rst, "An interrupted in-place update can be         *)
(* resumed", except that the last step is never stored: completing it      *)
(* completes the update and resets the step.                               *)
(***************************************************************************)
EXTENDS Integers

CONSTANTS
    Addr,    \* addresses of the memory
    Cell,    \* values of a cell
    Steps,   \* number of steps
    Target,  \* Target[k] is the set of addresses step k may change
    Ideal    \* Ideal[p] is the memory after p completed steps

VARIABLES mem, completed, updated

vars == <<mem, completed, updated>>

Init ==
    /\ mem = Ideal[0]
    /\ completed = 0
    /\ updated = FALSE

\* The next step changes cells of its own.
Work ==
    /\ ~updated /\ completed < Steps
    /\ mem' \in [Addr -> Cell]
    /\ \A a \in Addr \ Target[completed + 1] : mem'[a] = mem[a]
    /\ UNCHANGED <<completed, updated>>

\* The next step has done its work and is stored as completed.
Complete ==
    /\ ~updated /\ completed + 1 < Steps
    /\ mem = Ideal[completed + 1]
    /\ completed' = completed + 1
    /\ UNCHANGED <<mem, updated>>

\* The last step has done its work.
Finish ==
    /\ ~updated /\ completed + 1 >= Steps
    /\ mem = Ideal[Steps]
    /\ completed' = 0
    /\ updated' = TRUE
    /\ UNCHANGED mem

Next == Work \/ Complete \/ Finish

Spec == Init /\ [][Next]_vars
=============================================================================
