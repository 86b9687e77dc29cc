------------------------------- MODULE MCCron -------------------------------
(***************************************************************************)
(* A calendar in small: two minutes make an hour, two hours a day, one     *)
(* day a year with one month, and every second year, beginning with the    *)
(* first, has a second day.  The horizon is, as in the code, the length of *)
(* the longer year; a match on the second day has no successor within it.  *)
(***************************************************************************)
EXTENDS Cron

SmallDate(t) ==
    LET day == t \div 4
    IN  [minute |-> t % 2, hour |-> (t \div 2) % 2,
         dom    |-> IF day % 3 = 1 THEN 2 ELSE 1,
         month  |-> 1, dow |-> day % 2]

Always == [f \in Fields |-> AnyValue]

EveryHour    == [Always EXCEPT !["minute"] = EveryNth(2)]
SomeMornings == [Always EXCEPT !["minute"] = OneOf({1}), !["hour"] = OneOf({0}),
                               !["dow"] = OneOf({0})]
LeapDay      == [Always EXCEPT !["minute"] = OneOf({0}), !["hour"] = OneOf({0}),
                               !["dom"] = OneOf({2})]
NeverValid   == [Always EXCEPT !["month"] = EveryNth(0)]

TheExpressions == {EveryHour, SomeMornings, LeapDay, NeverValid}
=============================================================================
