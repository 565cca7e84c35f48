--------------------------- MODULE MCResearchSession ---------------------------
(* Two sessions over four days of two symbols.  Against a reference high of  *)
(* 300 a close of 302 is just good enough for the risk gate, 303 is not, and *)
(* 306 is beyond the target.                                                 *)
EXTENDS ResearchSession

Day(d, close, v) == [day |-> d, high |-> close, close |-> close, volume |-> v]
Path(c3, v3, c4, v4) == <<Day(1, 300, 2), Day(2, 300, 2), Day(3, c3, v3), Day(4, c4, v4)>>

Steady   == Path(300, 2, 300, 2)
Late     == Path(300, 2, 302, 5)     \* breaks out on the last day
Early    == Path(302, 5, 304, 9)     \* a day before, and again
Poor     == Path(300, 2, 303, 5)     \* reward below twice the risk
Far      == Path(306, 5, 299, 5)
Silent   == <<Day(1, 300, 0), Day(2, 300, 0), Day(3, 302, 5), Day(4, 300, 2)>>
Halted   == <<Day(1, 300, 2), Day(2, 300, 2), Day(4, 302, 5)>>
Young    == <<Day(3, 300, 2), Day(4, 302, 5)>>

MCMarkets == {<<Late, Early>>, <<Early, Early>>, <<Early, Halted>>, <<Poor, Late>>, <<Far, Early>>,
              <<Silent, Steady>>, <<Young, Late>>}

MCDigests == {<<1, 2, 4>>, <<2, 3, 4>>, <<3, 3, 4>>}

==============================================================================
