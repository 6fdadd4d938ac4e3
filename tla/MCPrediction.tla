---------------------------- MODULE MCPrediction ----------------------------
(***************************************************************************)
(* Instance of Prediction for TLC: six days from the 13th of a month, so   *)
(* that the 14th (ShortArmaDecisionMaker) and the 15th                     *)
(* (MidtermArmaDecisionMaker) are boundary days, and forecasts that round  *)
(* up, to zero, from a decline, to NaN, and over a flat history.           *)
(***************************************************************************)
EXTENDS Prediction

MCPredictionTypes == {"MidtermPrediction15daysUp", "MidtermPrediction15daysDown",
                      "ShorttermPrediction7daysUp", "ShorttermPrediction7daysDown"}

MCMonthDay == [d \in 1..6 |-> d + 12]

\* Rates in tenths of a percent: 2.5, -2.5 and 0.5.
MCDayData == {[rate |-> 25,  flat |-> FALSE],
              [rate |-> -25, flat |-> FALSE],
              [rate |-> 5,   flat |-> FALSE],
              [rate |-> NaN, flat |-> FALSE],
              [rate |-> 25,  flat |-> TRUE]}

MCNoManualDate == [t \in {} |-> 0]

====
