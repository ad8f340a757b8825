------------------------------ MODULE PolicyStack ------------------------------
(***************************************************************************)
(* What policy promotion promises for one kind of policy: the versions in  *)
(* force form a stack.  An activation puts a version on top, a rollback    *)
(* takes the top off again and so restores what it had replaced.           *)
(***************************************************************************)
EXTENDS Integers, Sequences

CONSTANTS Versions, Bootstrap

VARIABLES
  active,  \* the version new runs are pinned to
  stack    \* the versions in force, the active one last

vars == <<active, stack>>

Init == active = Bootstrap /\ stack = <<Bootstrap>>

Activate(v) == active' = v /\ stack' = Append(stack, v)

Rollback == /\ Len(stack) > 1
            /\ stack' = SubSeq(stack, 1, Len(stack) - 1)
            /\ active' = stack[Len(stack) - 1]

Next == Rollback \/ \E v \in Versions : Activate(v)

Spec == Init /\ [][Next]_vars
=============================================================================
