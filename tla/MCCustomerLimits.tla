-------------------------- MODULE MCCustomerLimits --------------------------
(* CustomerLimits for TLC: two requests of one customer, of any of several  *)
(* tiers; a day is a tick, a month two.                                    *)
EXTENDS CustomerLimits, TLC

CONSTANTS r1, r2

TwoRequests == {r1, r2}
Interchangeable == Permutations(TwoRequests)

ShortDays ==
  [w \in SpendWindows \cup RequestWindows |->
     IF w = "month" THEN 2 ELSE 1]

LimitSpec(spend, requests, names, onLimit, downgradeModel) ==
  [spend |-> spend, requests |-> requests, named |-> names,
   onLimit |-> onLimit, downgradeModel |-> downgradeModel]

Nothing == [w \in {} |-> 0]
Only(key, limit) == [k \in {key} |-> limit]

Blocking == LimitSpec([day |-> 4, month |-> 6], Only("hour", 1),
                      Only("big", 1), "block", None)
Downgrading == LimitSpec([day |-> 3, request |-> 3], Only("minute", 1), Nothing,
                         "downgrade", "small")
Unlimited == LimitSpec(Nothing, Nothing, Only("chat", 1), "warn", None)

(* The customer asks for the big model; the small one answers after a      *)
(* downgrade or a failover.                                                *)
SomeEstimates == [big |-> {4}, small |-> {}]
SomeBills == [big |-> {5}, small |-> {1}]

AllSpecs == {Blocking, Downgrading, Unlimited}

=============================================================================
