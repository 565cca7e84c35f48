------------------------- MODULE MCHistoricalEvidence -------------------------
(***************************************************************************)
(* Bars are made of five-day patterns: the first day is the reference, the *)
(* next two are cutoffs.  Between them the patterns reach every outcome of *)
(* a trade: a target and a stop, no entry at the open, a bar that reaches  *)
(* both prices, an exit in the entry's own bar, the end of the horizon,    *)
(* and no signal at all.                                                   *)
(***************************************************************************)
EXTENDS HistoricalEvidence

Quiet  == <<300, 300, 299, 300, 10>>
Rising == <<<<299, 300, 298, 299, 10>>, <<300, 301, 299, 301, 20>>, <<301, 303, 301, 302, 30>>,
            <<303, 306, 302, 304, 15>>, <<304, 305, 300, 301, 12>>>>
Gap    == <<<<299, 300, 298, 299, 10>>, <<300, 302, 299, 302, 40>>, <<306, 307, 304, 305, 30>>,
            <<305, 306, 303, 304, 10>>, <<304, 305, 303, 304, 10>>>>
Wild   == <<<<300, 300, 298, 299, 10>>, <<300, 302, 299, 302, 15>>, <<301, 307, 299, 302, 20>>,
            <<302, 303, 301, 302, 10>>, <<302, 303, 301, 302, 10>>>>
Late   == <<<<299, 300, 298, 299, 10>>, <<300, 301, 299, 301, 20>>, <<301, 302, 301, 301, 20>>,
            <<301, 303, 301, 302, 10>>, <<302, 303, 301, 302, 10>>>>
Flat   == [i \in 1..5 |-> Quiet]

Bar(day, b) == [day |-> day, open |-> b[1], high |-> b[2], low |-> b[3], close |-> b[4], volume |-> b[5]]
Days(first, patterns) == LET all == FlattenSeq(patterns) IN [i \in DOMAIN all |-> Bar(first + i - 1, all[i])]

Spec5(id, index) == [id |-> id, index |-> index, warmup |-> 1, scoring |-> 2, buffer |-> 2]

\* The declared order of the first bundle's windows is not their sequence.
MCBundles ==
    [b1 |-> [universe |-> "u", specs |-> <<Spec5("w2", 1), Spec5("w1", 0)>>,
             series |-> <<Days(1, <<Rising, Late>>), Days(1, <<Gap, Rising>>), Days(1, <<Wild, Flat>>)>>],
     b2 |-> [universe |-> "u",
             specs |-> [k \in 1..3 |-> Spec5(k, k - 1) @@ [role |-> Roles[k]]],
             series |-> (1 :> Days(4, <<Late, Wild, Flat>>)) @@ (3 :> Days(4, <<Wild, Rising, Gap>>))]]

\* m2 gives the instruments 2 and 3 each other's symbols, m3 knows symbol 3 by
\* another id.
MCMasters == [m1 |-> <<1, 2, 3>>, m2 |-> <<1, 3, 2>>, m3 |-> (1 :> 1) @@ (2 :> 2) @@ (4 :> 3)]

Member(i, from, to) == [instrument |-> i, from |-> from, to |-> to, status |-> "ACTIVE"]

\* In n1, instrument 2 joins during the first window and 3 leaves before the
\* second; under n2 nothing is a member in the first window.
MCManifests ==
    [n1 |-> [universe |-> "u",
             records |-> {Member(1, 0, Forever), Member(2, 4, Forever), Member(3, 0, 6),
                          [instrument |-> 3, from |-> 6, to |-> 9, status |-> "SUSPENDED"]}],
     n2 |-> [universe |-> "u", records |-> {Member(2, 6, Forever), Member(1, 6, 8)}]]

MCFrozen == [strategy |-> "s", ranking |-> "k", risk |-> "r", sizing |-> "z"]

\* A two for one split of symbol 1 on day 3 and a one for two of it on day 5.
Before(day, bar) ==
    LET times(n) == [bar EXCEPT !.open = n * @, !.high = n * @, !.low = n * @, !.close = n * @,
                                !.volume = @ \div n]
    IN  IF day \in {3, 4} THEN bar ELSE times(2)

RawSeries(patterns) == LET bars == Days(1, patterns) IN [i \in DOMAIN bars |-> Before(bars[i].day, bars[i])]

Split(i, day, new, old) ==
    [instrument |-> i, day |-> day, new |-> new, old |-> old,
     type |-> IF new > old THEN "SPLIT" ELSE "REVERSE_SPLIT"]

Splits == {Split(1, 3, 2, 1), Split(1, 5, 1, 2)}

Import(dataset, actions, path, adjusted_path, master) ==
    [kind |-> "import", dataset |-> dataset, version |-> 1, adjusted |-> 2, master |-> master,
     files |-> {[symbol |-> 1, bars |-> RawSeries(<<Rising>>)],
                [symbol |-> 3, bars |-> Days(1, <<IF dataset = "d" THEN Late ELSE Gap>>)]},
     actions |-> actions, path |-> path, adjusted_path |-> adjusted_path]

Answer(rows) == [answered |-> TRUE, rows |-> rows]
Row(bar)     == [complete |-> TRUE, bar |-> bar]
Hole         == [complete |-> FALSE, bar |-> Bar(0, Quiet)]

Survive(gov, base, bundle, master, manifest) ==
    [kind |-> "survivorship", gov |-> gov, stress |-> gov + 100, base |-> base, stress_base |-> base + 5,
     bundle |-> bundle, master |-> master, manifest |-> manifest]

MCCommands ==
    <<{Import("d", [dataset |-> "d", version |-> 1, actions |-> Splits], "f1", "f2", "m1"),
       [kind |-> "stress", gov |-> 1, dataset |-> "d", correct |-> 2, naive |-> 1,
        correct_path |-> "f2", naive_path |-> "f1", runs |-> <<11, 12>>],
       [kind |-> "robustness", gov |-> 1, base |-> 10, bundle |-> "b1"],
       Survive(1, 10, "b1", "m1", "n1"),
       [kind |-> "portfolio", gov |-> 1, policy |-> [capital |-> 110 * Million, concurrent |-> 3, utilization |-> 60]],
       [kind |-> "statistics", gov |-> 1]},
      {Import("e", [dataset |-> "e", version |-> 9, actions |-> Splits], "f1", "f3", "m1"),
       Import("h", [dataset |-> "h", version |-> 1, actions |-> {}], "f2", "f3", "m3"),
       [kind |-> "acquire", dataset |-> "g", version |-> 1, path |-> "f2",
        responses |-> [u \in {1, 2} |-> Answer(<<Hole>> \o [i \in 1..5 |-> Row(Bar(i, Rising[i]))])]],
       [kind |-> "backtest", gov |-> 11, path |-> "f2"],
       [kind |-> "validation", gov |-> 1, runs |-> <<11, 12, 13>>, bundle |-> "b2"],
       Survive(2, 20, "b2", "m2", "n2"),
       [kind |-> "portfolio", gov |-> 2, policy |-> [capital |-> 70 * Million + 1, concurrent |-> 1, utilization |-> 100]],
       [kind |-> "dependence", gov |-> 1, bundle |-> "b1"]}>>

Wanted(requested, as_of) == [policy |-> MCFrozen, requested |-> requested, as_of |-> as_of]

MCQueries ==
    {Wanted({1}, 10), Wanted({2}, 12), Wanted({1, 2}, 9), Wanted({1}, 18), Wanted({2}, 20), Wanted({3}, 20),
     Wanted({2}, 40), Wanted({}, 12),
     [policy |-> [MCFrozen EXCEPT !.strategy = "None"], requested |-> {2}, as_of |-> 10],
     [policy |-> [MCFrozen EXCEPT !.risk = "other"], requested |-> {2}, as_of |-> 10]}

MCTradeThresholds == <<2, 4, 8>>
MCWindowThresholds == <<2, 3, 4>>

==============================================================================
