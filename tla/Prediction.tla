----------------------------- MODULE Prediction -----------------------------
(***************************************************************************)
(* The trend-prediction branch of one appID's volume pipeline, across      *)
(* process restarts: MidtermArmaPredictor / ShorttermArmaPredictor feed    *)
(* MidtermArmaDecisionMaker / ShortArmaDecisionMaker, which create their   *)
(* messages through StateClient._CreateMessageConsiderState; the Notifier  *)
(* then calls save_dates(day).  A start replays the last InitialLoad days. *)
(*                                                                         *)
(* The ARMA fit is abstracted to what the branch looks at: per day, the    *)
(* forecast's rate of change (in tenths of a percent, or NaN) and whether  *)
(* the last five points of the smoothed history are all zero (flat).      *)
(* Both are functions of the day, chosen in Init.  A refit is not quite    *)
(* deterministic (add_whitenoise adds |N(0, 0.1)| to every point before    *)
(* the fit), so a replayed day's forecast may differ slightly from the     *)
(* first one; the model keeps one forecast per day and leaves that noise   *)
(* out.  Calendar days come from MonthDay, the day of the month of each    *)
(* model day.                                                              *)
(***************************************************************************)
EXTENDS StateClient

CONSTANTS MaxDay,       \* bound: the last day the clock reaches
          InitialLoad,  \* Scheduler initial_load, in days
          HistorySize,  \* model_configuration['history_size'] (deque maxlen)
          MaxCrashes,   \* bound: process crashes
          MaxLag,       \* bound: a stopped process restarts within MaxLag days
          Variants,     \* "mid" (AppPipelineVolume), "short" (...ShortTerm)
          MonthDay,     \* the calendar: model day -> time.day
          DayData,      \* the per-day forecast rates and flat flags
          NaN,
          None

ASSUME /\ InitialLoad \in Nat \ {0} /\ HistorySize \in Nat \ {0}
       /\ MaxDay \in Nat /\ MaxDay >= InitialLoad

Days == 1..MaxDay

VARIABLES today,    \* the current day of the clock
          next,     \* the day of the WorkUnit being processed
          phase,    \* "down", "decide" or "save"
          fed,      \* len(self.history), at most HistorySize
          trained,  \* ArmaPredictor._is_trained
          variant,
          latest,   \* StateClient._latest_dates
          order,
          stored,   \* the state persisted by the AID service
          data,     \* the forecast of each day
          sent,     \* history: the prediction messages created
          handled,  \* history: greatest day whose save_dates was persisted
          crashes

vars == <<today, next, phase, fed, trained, variant, latest, order, stored,
          data, sent, handled, crashes>>

-----------------------------------------------------------------------------
(* ArmaPredictor                                                           *)

AbsRate(r) == IF r < 0 THEN -r ELSE r

\* Variant: the model is fitted before the deque is full.
ArmaPredictorRunUnfilled(f, tr, dd) ==
    [fed     |-> IF f < HistorySize THEN f + 1 ELSE f,
     trained |-> tr \/ ~dd.flat,
     rate    |-> IF dd.rate = NaN THEN NaN ELSE AbsRate(dd.rate)]

\* _update_model and _run: the day's frame joins the deque (maxlen
\* history_size); once it is full a non-flat history is fitted and
\* _is_trained is set for good; a trained model answers _postprocess's
\* rate, abs() of _calculate_change_rate, and an untrained one None.
ArmaPredictorRun(f, tr, dd) ==
    LET f2  == IF f < HistorySize THEN f + 1 ELSE f
        tr2 == tr \/ (f2 = HistorySize /\ ~dd.flat)
    IN [fed     |-> f2,
        trained |-> tr2,
        rate    |-> IF ~tr2 THEN None
                    ELSE IF dd.rate = NaN THEN NaN ELSE AbsRate(dd.rate)]

-----------------------------------------------------------------------------
(* ArmaDecisionMaker and its two subclasses                                *)

\* MessageClient.messages[metric]['prediction'].
GrpcPrediction ==
    ("7_days_down"  :> "ShorttermPrediction7daysDown") @@
    ("7_days_up"    :> "ShorttermPrediction7daysUp") @@
    ("15_days_down" :> "MidtermPrediction15daysDown") @@
    ("15_days_up"   :> "MidtermPrediction15daysUp")

\* MidtermArmaDecisionMaker: boundary_check and the keys _send_message calls.
MidtermSend == [boundary |-> {1, 15}, up |-> "15_days_up", down |-> "15_days_down"]

\* ShortArmaDecisionMaker: boundary_check and the keys _send_message calls.
ShortSend == [boundary |-> {7, 14, 21, 28}, up |-> "7_days_up", down |-> "7_days_down"]

\* The PredictionDM of AppPipelineVolume and of AppPipelineVolumeShortTerm.
Subclass(var) == IF var = "mid" THEN MidtermSend ELSE ShortSend

\* boundary_check(time): time.day is one of the subclass's days.
BoundaryCheck(var, d) == MonthDay[d] \in Subclass(var).boundary

\* _prepare_percentage: Python's round() of the rate, given in tenths, to
\* the nearest integer, a half to the even one.
PreparePercentage(x) ==
    LET q == x \div 10
        r == x % 10
    IN IF r < 5 THEN q
       ELSE IF r > 5 THEN q + 1
       ELSE IF q % 2 = 0 THEN q ELSE q + 1

\* _run: _try_sending_grpc -> _prepare_message (boundary day, rate not
\* None, rate not NaN) -> _send_message (percentage 0 sends nothing, a
\* positive one the up message, a negative one the down message).  The
\* result is the message type asked for, or "none".
ArmaDecide(var, rate, d) ==
    IF ~BoundaryCheck(var, d) \/ rate \in {None, NaN} THEN "none"
    ELSE LET p == PreparePercentage(rate)
         IN IF p = 0 THEN "none"
            ELSE IF p > 0 THEN GrpcPrediction[Subclass(var).up]
            ELSE GrpcPrediction[Subclass(var).down]

-----------------------------------------------------------------------------
(* The process                                                             *)

Init ==
    /\ today = InitialLoad
    /\ next = 1
    /\ phase = "down"
    /\ fed = 0
    /\ trained = FALSE
    /\ variant \in Variants
    /\ latest = [k \in {} |-> EmptyDates]
    /\ order = <<>>
    /\ stored = NoApp
    /\ data \in [Days -> DayData]
    /\ sent = <<>>
    /\ handled = 0
    /\ crashes = 0

\* Variant: the initial run starts one interval late.
ReplayStartLate(t) == t - InitialLoad + 2

\* The first day of the Scheduler's initial run on a start at day t.
ReplayStart(t) == t - InitialLoad + 1

\* main.py: MessageClient(..., load_state=True) and a fresh pipeline
\* whose predictor has an empty deque, then Pipeline.start.
Start ==
    /\ phase = "down"
    /\ LET st == ManualUpdate(Load(GetState(stored, "ok")))
       IN /\ latest' = st.dates
          /\ order' = st.order
    /\ fed' = 0
    /\ trained' = FALSE
    /\ next' = ReplayStart(today)
    /\ phase' = "decide"
    /\ UNCHANGED <<today, variant, stored, data, sent, handled, crashes>>

\* The predictor's _run, then the decision maker's _run for the WorkUnit
\* of day next; a message goes through _CreateMessageConsiderState.
Decide ==
    LET p == ArmaPredictorRun(fed, trained, data[next])
        t == ArmaDecide(variant, p.rate, next)
        r == HandleSuppression(KeyDates(latest, "str"), t, next)
    IN /\ phase = "decide"
       /\ next <= today
       /\ IF t \in Types
          THEN /\ latest' = ("str" :> r.dates) @@ latest
               /\ order' = WithKey(order, "str")
               /\ sent' = IF r.send
                          THEN Append(sent, [type |-> t, day |-> next,
                                             pct |-> PreparePercentage(p.rate)])
                          ELSE sent
          ELSE UNCHANGED <<latest, order, sent>>
       /\ fed' = p.fed
       /\ trained' = p.trained
       /\ phase' = "save"
       /\ UNCHANGED <<today, next, variant, stored, data, handled, crashes>>

\* Notifier._save_state(day): save_dates raises the dates and SaveState
\* persists them.
SaveDates ==
    /\ phase = "save"
    /\ latest' = RaiseDates(latest, next)
    /\ stored' = SaveState(stored, Persist(latest', order), "ok")
    /\ handled' = IF next > handled THEN next ELSE handled
    /\ next' = next + 1
    /\ phase' = "decide"
    /\ UNCHANGED <<today, fed, trained, variant, order, data, sent, crashes>>

\* The process dies; its memory is gone, the persisted state stays.
Crash ==
    /\ phase # "down"
    /\ crashes < MaxCrashes
    /\ phase' = "down"
    /\ crashes' = crashes + 1
    /\ latest' = [k \in {} |-> EmptyDates]
    /\ order' = <<>>
    /\ fed' = 0
    /\ trained' = FALSE
    /\ UNCHANGED <<today, next, variant, stored, data, sent, handled>>

\* A day passes.  A running process has handled the previous days; a
\* stopped one is restarted within MaxLag days of the last persisted day.
Tick ==
    /\ today < MaxDay
    /\ phase # "down" => next > today
    /\ phase = "down" => today - handled < MaxLag
    /\ today' = today + 1
    /\ UNCHANGED <<next, phase, fed, trained, variant, latest, order, stored,
                   data, sent, handled, crashes>>

\* Every WorkUnit up to the last day is processed.
Idle ==
    /\ today = MaxDay /\ phase = "decide" /\ next > today
    /\ UNCHANGED vars

Next == Start \/ Decide \/ SaveDates \/ Crash \/ Tick \/ Idle

Spec == Init /\ [][Next]_vars

-----------------------------------------------------------------------------
PredictionTypes == {GrpcPrediction[k] : k \in DOMAIN GrpcPrediction}
DownTypes == {GrpcPrediction[Subclass(var).down] : var \in {"mid", "short"}}

TypeOK ==
    /\ today \in Days
    /\ next \in 1..MaxDay + 1
    /\ phase \in {"down", "decide", "save"}
    /\ fed \in 0..HistorySize /\ trained \in BOOLEAN
    /\ trained => fed = HistorySize
    /\ DOMAIN latest \subseteq Keys
    /\ \A i \in 1..Len(sent) : /\ sent[i].type \in PredictionTypes
                              /\ sent[i].day \in Days
                              /\ sent[i].pct \in Int \ {0}

\* The message the decision maker asks for on day d from a trained model.
Due(d) == ArmaDecide(variant, ArmaPredictorRun(HistorySize, TRUE, data[d]).rate, d)

\* A day that has been persisted got its prediction message, when there
\* was history enough for it and its forecast rounds to a non-zero
\* percentage on a boundary day: across restarts within MaxLag days of the
\* last persisted day, the Scheduler's initial run refills the predictor's
\* deque (history_size days) before it reaches a day not yet persisted
\* (ReplayStart, ArmaPredictorRun, save_dates, _handle_suppression).
PredictionNotLost ==
    \A d \in HistorySize..handled :
        ~data[d].flat /\ Due(d) \in Types =>
            \E i \in 1..Len(sent) : sent[i].day = d /\ sent[i].type = Due(d)

\* A prediction message announces a decline exactly when the model forecast
\* one, as test_armashorttermdecisionmaker expects of the decision maker
\* fed a negative rate (ArmaPredictor._postprocess, ArmaDecisionMaker
\* _handle_decision, _send_message).
PredictionMatchesForecast ==
    \A i \in 1..Len(sent) :
        sent[i].type \in DownTypes <=>
            (data[sent[i].day].rate \in Int /\ data[sent[i].day].rate < 0)

=============================================================================
