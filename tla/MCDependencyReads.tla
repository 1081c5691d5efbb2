-------------------------- MODULE MCDependencyReads --------------------------
(* The instance of DependencyReads, and with it of Pools, that TLC checks.   *)
EXTENDS DependencyReads

CONSTANTS a1, a2, k, u

Arrival(a, s, src, p) == [app |-> a, scoped |-> s, src |-> src, prov |-> p]

MCArrivals ==
    [lambda |-> {Arrival(a1, TRUE, "envelope", None), Arrival(a2, TRUE, "envelope", None)},
     oneshot |-> {Arrival(a1, TRUE, "task", k), Arrival(a1, TRUE, "task", u),
                  Arrival(a1, FALSE, "none", None)},
     dev |-> {Arrival(a1, TRUE, "none", None), Arrival(a1, FALSE, "none", None),
              Arrival(a2, TRUE, "none", None)}]

MCRows == {[id |-> 1, tag |-> "x"], [id |-> 2, tag |-> "x"], [id |-> 3, tag |-> "y"]}

Columns(cols) == [op |-> "Columns", names |-> TRUE, cols |-> cols]
Where(col, values) == [op |-> "Where", names |-> TRUE, col |-> col, values |-> values]
LimitTo(n) == [op |-> "Limit", names |-> TRUE, n |-> n]

MCQueries ==
    { <<Columns({"id"})>>,
      <<Columns({"id"}), LimitTo(1), LimitTo(9)>>,
      <<Columns({"id", "tag"}), Where("tag", {"x"}), LimitTo(2)>>,
      <<Columns({"id"}), Where("id", {1, 2}), Where("id", {2, 3})>>,
      <<Columns({"id", "tag"}), Columns({"id"})>>,
      <<Where("tag", {"y"})>> }

MCManifests == {None, {"t1"}}

=============================================================================
