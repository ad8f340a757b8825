------------------------------ MODULE AlertRules ------------------------------
(***************************************************************************)
(* The features of a window of minute bars, the multi-condition rule over  *)
(* them and the cooldown bucket of an alert (application/alerting/         *)
(* features.py, rules.py and dedup.py).                                    *)
(*                                                                         *)
(* Prices and volumes are integers and no quotient is formed: a ratio is   *)
(* compared with its threshold by cross-multiplication, and a z-score,     *)
(* which no scale changes, is compared by its square.                      *)
(***************************************************************************)
EXTENDS Integers, FiniteSets, SequencesExt


CONSTANTS
  Lookback,           \* bars before the one that is judged
  MinimumConditions,  \* conditions an alert needs
  Cooldown            \* minutes in which a rule alerts once

ASSUME RuleAssumption == /\ Lookback \in Nat /\ Lookback >= 2
                         /\ MinimumConditions \in 1..7
                         /\ Cooldown \in Nat \ {0}

-----------------------------------------------------------------------------
Magnitude(n) == IF n < 0 THEN -n ELSE n

Total(s) == FoldSeq(LAMBDA x, y : x + y, 0, s)

Squares(s) == [i \in DOMAIN s |-> s[i] * s[i]]

Product(s) == FoldSeq(LAMBDA x, y : x * y, 1, s)

\* |_zscore| >= 2; there is none with less than two values, and none of
\* interest when they are equal.
Outlies(value, history) ==
  LET n == Len(history)
      deviation == n * value - Total(history)
      variance == n * Total(Squares(history)) - Total(history) * Total(history)
  IN /\ n >= 2
     /\ variance # 0
     /\ deviation * deviation >= 4 * variance

Column(bars, field) == [i \in DOMAIN bars |-> bars[i][field]]

\* The returns between successive bars, all scaled by the product of the closes.
Returns(closes) ==
  [i \in 1..(Len(closes) - 1) |->
     (closes[i + 1] - closes[i]) * (Product(closes) \div closes[i])]

Prior(s) == SubSeq(s, 1, Len(s) - 1)

\* Last bar against the highs and lows of the others.
Breaks(window) ==
  LET close == Last(window).close
      prior == Prior(window)
  IN \/ \A i \in DOMAIN prior : close > prior[i].high
     \/ \A i \in DOMAIN prior : close < prior[i].low

\* FeatureCalculator.calculate and the checks of AlertRule.evaluate, for a full
\* window; gap is <<open, previous close>>, or <<>> when it is not known.
Conditions(window, gap) ==
  LET closes == Column(window, "close")
      volumes == Column(window, "volume")
      returns == Returns(closes)
      sizes == [i \in DOMAIN returns |-> Magnitude(returns[i])]
      Check(name, holds) == IF holds THEN {name} ELSE {}
  IN UNION {
       Check("FIVE_MINUTE_RETURN", 25 * Magnitude(Last(closes) - Head(closes)) >= Head(closes)),
       Check("RELATIVE_VOLUME", /\ Total(Prior(volumes)) # 0
                                /\ Last(volumes) * Lookback >= 3 * Total(Prior(volumes))),
       Check("RETURN_ZSCORE", Outlies(Last(returns), Prior(returns))),
       Check("VOLUME_ZSCORE", Outlies(Last(volumes), Prior(volumes))),
       Check("VOLATILITY_ZSCORE", Outlies(Last(sizes), Prior(sizes))),
       Check("GAP", gap # <<>> /\ 50 * Magnitude(gap[1] - gap[2]) >= gap[2]),
       Check("BREAKOUT", Breaks(window))}

Triggered(window, gap) == Cardinality(Conditions(window, gap)) >= MinimumConditions

Severity(window, gap) ==
  LET n == Cardinality(Conditions(window, gap))
  IN CASE n >= 5 -> "CRITICAL"
       [] n = 4 -> "HIGH"
       [] n = 3 -> "MEDIUM"
       [] OTHER -> "LOW"

\* AlertIdentity.for_trigger: the start of the bucket stands for the key and
\* for the UUIDv5 made of it.
Bucket(minute) == (minute \div Cooldown) * Cooldown
=============================================================================
