--------------------------- MODULE MCPolicyPromotion ---------------------------
(* Weekly reviews and policy promotion, with interchangeable candidates.  The *)
(* price is below the reference of the first decision after one day and above *)
(* it after two; the second decision is a day after the first lesson.         *)
EXTENDS WeeklyReview, TLC

Symmetry == Permutations(Candidates)

Draft(version, base) == [version |-> version, base |-> base, lessons |-> Lessons]

\* Two that compete for the bootstrap version, and two that build on the first.
MCDrafts == {Draft("v2", "v1"), Draft("v3", "v1"), Draft("v3", "v2"), Draft("v1", "v2")}

MCMade == [d \in Decisions |-> IF d = "d1" THEN 0 ELSE 2]

MCOpinion == [d \in Decisions |-> "BULLISH"]

Bar(event, available, price) == [event |-> event, available |-> available, price |-> price]

\* The bar of day 1 is revised on day 2.
MCPrices == {Bar(0, 0, 10), Bar(1, 1, 8), Bar(1, 2, 7), Bar(2, 2, 12), Bar(3, 3, 9)}
=============================================================================
