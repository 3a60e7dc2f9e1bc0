----------------------------- MODULE AtomicDisk -----------------------------
(***************************************************************************)
(* What the journal of the filesystem promises to the tools above it.      *)
(*                                                                         *)
(* A tool works on a private view of the disk.  Its writes change only the *)
(* view; the durable contents change in one step, when a whole transaction *)
(* is adopted, and a tool that stops early leaves no trace.                *)
(***************************************************************************)
CONSTANTS
    Block,     \* the home block numbers of the volume
    Content    \* what one block can hold

VARIABLES
    durable,   \* [Block -> Content]: what is there once recovery has run
    view       \* [Block -> Content]: what a running tool reads

vars == <<durable, view>>

Init ==
    /\ durable \in [Block -> Content]
    /\ view = durable

Write(b, d) ==
    /\ view' = [view EXCEPT ![b] = d]
    /\ UNCHANGED durable

Commit ==
    /\ durable' = view
    /\ UNCHANGED view

Discard ==
    /\ view' = durable
    /\ UNCHANGED durable

Next ==
    \/ \E b \in Block, d \in Content : Write(b, d)
    \/ Commit
    \/ Discard

Spec == Init /\ [][Next]_vars
=============================================================================
