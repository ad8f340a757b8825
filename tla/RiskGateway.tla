----------------------------- MODULE RiskGateway -----------------------------
(***************************************************************************)
(* The deterministic risk gateway of the paper portfolio:                  *)
(* RiskGateway.evaluate of application/portfolio/risk.py.                  *)
(*                                                                         *)
(* The code computes with Decimal weights of the NAV.  Here a weight is    *)
(* carried as the money it stands for at the decision's NAV, so a target   *)
(* and a limit compare as they do in the code, in whole units of money.    *)
(***************************************************************************)
EXTENDS Integers, Sequences, FiniteSetsExt

CONSTANTS
  WeightUnit,   \* the number of parts a weight of one has
  MaxPosition,  \* the policy's limits, in such parts
  MaxGross,
  MinReserve,
  MaxTurnover

ASSUME RiskPolicyAssumption ==
  /\ WeightUnit \in Nat \ {0}
  /\ {MaxPosition, MaxGross, MinReserve, MaxTurnover} \subseteq 0..WeightUnit
  /\ MaxPosition <= MaxGross

-----------------------------------------------------------------------------
Positive(x) == IF x > 0 THEN x ELSE 0
Distance(x, y) == IF x > y THEN x - y ELSE y - x
Share(weight, nav) == (weight * nav) \div WeightUnit

\* What the limits leave of a proposal p = [current, target, blocked], with
\* `room` left by the proposals before it.
Clipped(p, room, nav) ==
  IF p.target > p.current
    THEN Min({p.target, Share(MaxPosition, nav),
              p.current + Positive(Share(MaxGross, nav) - room.gross),
              p.current + Positive(room.cash - Share(MinReserve, nav)),
              p.current + room.turnover})
    ELSE Max({p.target, Positive(p.current - room.turnover)})

\* A refused proposal leaves the position as it is.
Refused(p, approved) == p.blocked \/ (approved = p.current /\ p.target # p.current)

\* The position approved for p, with `room` left by the proposals before it.
Decided(p, room, nav) ==
  IF Refused(p, Clipped(p, room, nav)) THEN p.current ELSE Clipped(p, room, nav)

\* What is left of the cash, the exposure and the turnover after p.
Remaining(p, room, nav) ==
  LET delta == Decided(p, room, nav) - p.current
  IN [cash |-> room.cash - delta, gross |-> room.gross + delta,
      turnover |-> Positive(room.turnover - Distance(delta, 0))]

\* The positions the gateway approves, one for each proposal, in the order of
\* the symbols.
Evaluate(proposals, start, nav) ==
  LET room[i \in 0..Len(proposals)] ==
        IF i = 0 THEN start ELSE Remaining(proposals[i], room[i - 1], nav)
  IN [i \in 1..Len(proposals) |-> Decided(proposals[i], room[i - 1], nav)]
=============================================================================
