----------------------------- MODULE MCTenancies -----------------------------
(* Small instances of Tenancies: five days, weeks of two days and two       *)
(* buckets a day.                                                           *)
EXTENDS Tenancies, TLC

CONSTANTS ada, bob

Offer(kinds, ends, rules, windows) ==
    {t \in [kind : kinds, starts : 0 .. 2, ends : ends, rule : rules, window : windows] :
        t.ends = None \/ t.starts <= t.ends}

\* Days that begin before, on and beyond each other's horizon, and daily windows on
\* tenancies of any kind.
MCOffers ==
    {t \in Offer({"permanent"}, {None, 3}, {{}}, {None, <<0, 1>>})
            \cup Offer({"one_off"}, {None}, {{}}, {None})
            \cup Offer({"recurring"}, {None}, {{0}, {0, 1}}, {<<0, 1>>, <<1, 2>>}) :
        t.starts \in {0, 2}}
\* Of these, the ones that have no daily window.
MCWholeDays == {t \in MCOffers : t.window = None}
\* A window across midnight.
MCOvernight == Offer({"recurring"}, {None}, {{0}, {1}, {0, 1}}, {<<1, 0>>})
PlannerSymmetry == Permutations(Planners)
=============================================================================
