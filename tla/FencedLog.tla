------------------------------ MODULE FencedLog ------------------------------
(***************************************************************************)
(* What a mission lease promises, without leases, clocks or heartbeats:    *)
(* the right to write the mission's state is granted in numbered epochs,   *)
(* and every write is made by the holder of the newest epoch granted so    *)
(* far.  A writer whose epoch has been superseded never writes again.      *)
(***************************************************************************)
EXTENDS Naturals, Sequences

CONSTANTS Writer,   \* whoever may be granted the right to write
          NoWriter  \* the holder before the first grant

VARIABLES epoch,    \* the number of grants so far
          holder,   \* who was granted the newest one
          log       \* the writes, in commit order: [epoch, run]

vars == <<epoch, holder, log>>

Init == /\ epoch = 0
        /\ holder = NoWriter
        /\ log = <<>>

Grant(w) == /\ epoch' = epoch + 1
            /\ holder' = w
            /\ UNCHANGED log

Write == /\ holder \in Writer
         /\ log' = Append(log, [epoch |-> epoch, run |-> holder])
         /\ UNCHANGED <<epoch, holder>>

Next == Write \/ \E w \in Writer : Grant(w)

Spec == Init /\ [][Next]_vars
=============================================================================
