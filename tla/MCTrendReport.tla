--------------------------- MODULE MCTrendReport ---------------------------
EXTENDS TrendReport

\* The message types the trend decision makers create.
MCTrendTypes == {"MidtermTrend15daysUp", "MidtermTrend15daysDown",
                 "MidtermTrendImmediatelyUp", "MidtermTrendImmediatelyDown",
                 "ShorttermTrendImmediatelyUp", "ShorttermTrendImmediatelyDown",
                 "ShorttermRttTrendImmediatelyUp",
                 "ShorttermRttTrendImmediatelyDown"}

\* reportable_change_bounds: (0, 1000) for volume, (20, 10000) for RTT.
MCBounds == <<0, 1000>>
MCRttBounds == <<20, 10000>>

\* A day: a rising trend with a growth, a rising trend whose change is a
\* decline (not reportable), a falling trend with a decline, no trend, and
\* a day without traffic (which the detector sees as a decline).
MCDayData == {[dec |-> 1, chg |-> 50, zero |-> FALSE],
              [dec |-> 1, chg |-> -50, zero |-> FALSE],
              [dec |-> -1, chg |-> -50, zero |-> FALSE],
              [dec |-> 0, chg |-> 0, zero |-> FALSE],
              [dec |-> -1, chg |-> -50, zero |-> TRUE]}

MCNoManualDate == [t \in {} |-> 0]
====
