---------------------------- MODULE MCAlertPipeline ----------------------------
(* A minute of the day before, the opening minute, its revision, and two more *)
(* minutes of one bucket, both of which alert unless the revision is known:   *)
(* in order, with the revision between them, and with a repeated bar that the *)
(* opening minute is late for.                                                *)
EXTENDS AlertPipeline, TLC

MinuteBar(minute, price, volume) ==
  [minute |-> minute, open |-> price, high |-> price, low |-> price,
   close |-> price, volume |-> volume]

Opening == MinuteBar(1, 100, 10)
Revised == MinuteBar(1, 100, 100)
Second == MinuteBar(2, 110, 90)
Third == MinuteBar(3, 121, 400)

MCOld == {MinuteBar(0, 100, 10)}
MCFeeds == {<<Opening, Second, Third>>, <<Opening, Second, Revised>>, <<Second, Opening, Second>>}

Symmetry == Permutations(Consumers)
=============================================================================
