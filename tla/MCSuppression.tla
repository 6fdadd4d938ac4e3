--------------------------- MODULE MCSuppression ---------------------------
(* One appID, the two message types FluctuationDecisionMaker creates, and  *)
(* the flags main.py may pass.                                             *)
EXTENDS Suppression

MCTypes == {"High", "Stabilized"}
MCShortTypes == {"ShortHigh", "ShortStabilized"}
NoManualDate == [t \in {} |-> 0]
\* --manual_date {7233: {'MidtermFluctuationImmediatelyHigh': [day 5]}}
ManualHighDay5 == "High" :> 5
\* --unsuppress {'7233': {'MidtermFluctuationImmediatelyHigh': [day 2]}}
UnsuppressHighDay2 == {<<"High", 2>>}
NoUnsuppress == {}
\* The data may give every verdict, or never a low fluctuation.
MCAllVerdicts == {-1, 0, 1}
MCNoLowVerdicts == {0, 1}
=============================================================================
