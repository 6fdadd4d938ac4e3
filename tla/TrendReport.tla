---------------------------- MODULE TrendReport ----------------------------
(***************************************************************************)
(* One appID's trend messages across process restarts.                    *)
(*                                                                         *)
(* Each day's WorkUnit reaches the trend branch of the appID's pipeline:   *)
(* TrendDetector._run gives the day's decision (0 until its sliding        *)
(* windows are filled, WarmUp days after a start) and the no-traffic flag, *)
(* then the trend decision maker's _run decides whether an immediate or a  *)
(* monthly message is created through StateClient's suppression, and the  *)
(* Notifier's _save_state persists the dates.  The decision maker is the   *)
(* mid-term one (DecisionMakerMidTerm, AppPipelineVolume) or the short-term *)
(* one (DecisionMakerShortTerm, AppPipelineVolumeShortTerm) or the RTT    *)
(* short-term one (DecisionMakerShortTermRtt, AppPipelineRTTShortTerm);    *)
(* its state, _current_trend_direction and _trends_list, is in memory only.*)
(*                                                                         *)
(* The data of a day is a record: the detector's decision once warmed up,  *)
(* the change get_change_metric computes from the two window averages (a *)
(* rounded percentage, or for RTT a difference), and whether the day had  *)
(* no traffic.                                                             *)
(***************************************************************************)
EXTENDS StateClient
LOCAL INSTANCE SequencesExt

\* The window bookkeeping behind TrendDetectorRun's WarmUp.
Det == INSTANCE Detectors

CONSTANTS MaxDay,        \* bound: the last day the clock reaches
          InitialLoad,   \* Scheduler initial_load, in days
          WarmUp,        \* days TrendDetector answers 0 while filling windows
          MaxCrashes,    \* bound: process crashes
          MaxLag,        \* bound: days between the last persisted day and a restart
          Variants,      \* the decision makers: "mid", "short", "rtt"
          ReportDays,    \* DecisionMakerMidTerm report_days (days of month)
          Bounds,        \* reportable_change_bounds of the volume makers
          RttBounds,     \* reportable_change_bounds of the RTT maker
          DayData        \* the possible data of one day

ASSUME /\ InitialLoad \in Nat \ {0} /\ WarmUp \in Nat /\ MaxLag \in Nat
       /\ MaxDay \in Nat /\ MaxDay >= InitialLoad
       /\ Variants \subseteq {"mid", "short", "rtt"} /\ Variants # {}
       /\ \A r \in DayData : r.dec \in {-1, 0, 1} /\ r.chg \in Int
                              /\ r.zero \in BOOLEAN

Days == 1..MaxDay

VARIABLES today,    \* the current day of the clock
          next,     \* the day of the WorkUnit being processed
          phase,    \* "down", "decide" (at the DM) or "save" (at the Notifier)
          fed,      \* data_index, or len(sliding_window) of ShortTrendDetector
          ntd,      \* TrendDetector._no_traffic_days, capped at NoTrafficLimit
          variant,  \* which decision maker the pipeline has
          cur,      \* _current_trend_direction
          trends,   \* _trends_list
          latest,   \* StateClient._latest_dates: key -> type -> day
          order,    \* the keys of _latest_dates in insertion order
          stored,   \* the state persisted by the AID service
          data,     \* the data of each day
          prev,     \* history: the last decision the immediate check saw
          sent,     \* history: messages created
          handled,  \* history: greatest day whose save_dates was persisted
          crashes

vars == <<today, next, phase, fed, ntd, variant, cur, trends, latest, order,
          stored, data, prev, sent, handled, crashes>>

-----------------------------------------------------------------------------
(* TrendDetector *)

\* _no_traffic_flag: the flag is raised from the third day in a row without
\* traffic; the counter is kept only up to that limit.
NoTrafficLimit == 3
NoTrafficDays(k, zero) ==
    IF zero THEN IF k < NoTrafficLimit THEN k + 1 ELSE k ELSE 0

-----------------------------------------------------------------------------
(* MessageClient: the keys of messages[metric]['trend'] and the type each   *)
(* Create method passes to _CreateMessageConsiderState.                     *)

CreateVolumeMidtermTrend ==
    ("15_days_up" :> "MidtermTrend15daysUp")
    @@ ("15_days_down" :> "MidtermTrend15daysDown")
    @@ ("Immediate_up" :> "MidtermTrendImmediatelyUp")
    @@ ("Immediate_down" :> "MidtermTrendImmediatelyDown")

CreateVolumeShorttermTrend ==
    ("Immediate_up_short" :> "ShorttermTrendImmediatelyUp")
    @@ ("Immediate_down_short" :> "ShorttermTrendImmediatelyDown")

CreateRttShorttermTrend ==
    ("Immediate_up_short" :> "ShorttermRttTrendImmediatelyUp")
    @@ ("Immediate_down_short" :> "ShorttermRttTrendImmediatelyDown")

\* messages[metric]['trend']: the RTT maker is built for rtt_average.
GrpcTrend(var) ==
    IF var = "rtt" THEN CreateRttShorttermTrend
    ELSE CreateVolumeMidtermTrend @@ CreateVolumeShorttermTrend

-----------------------------------------------------------------------------
(* TrendDetector._run: the decision is 0 and both averages are 0 (so the   *)
(* change is 0) until data_index has filled the windows; the no-traffic    *)
(* flag is computed on every value.                                        *)
TrendDetectorRun(f, k, raw) ==
    [dec  |-> IF f < WarmUp THEN 0 ELSE raw.dec,
     chg  |-> IF f < WarmUp THEN 0 ELSE raw.chg,
     ntd  |-> NoTrafficDays(k, raw.zero),
     data_index |-> IF f < WarmUp THEN f + 1 ELSE f]

(* ShortTrendDetector._run (the short-term and RTT pipelines): w is       *)
(* len(sliding_window), a deque of maxlen 2*half_size = WarmUp.  The      *)
(* populated test reads the length BEFORE the value is appended, so the    *)
(* first WarmUp values answer 0 with zero averages; the no-traffic flag    *)
(* is reported but does not stop _execute.                                 *)
ShortTrendDetectorRun(w, k, raw) ==
    LET populated == w >= WarmUp
    IN [dec  |-> IF populated THEN raw.dec ELSE 0,
        chg  |-> IF populated THEN raw.chg ELSE 0,
        ntd  |-> NoTrafficDays(k, raw.zero),
        data_index |-> IF w + 1 <= WarmUp THEN w + 1 ELSE WarmUp]

-----------------------------------------------------------------------------
(* The trend decision makers *)

\* _message_types of each decision maker: mtype -> direction -> key.
MessageTypes(var) ==
    IF var = "mid"
    THEN [immediate |-> (1 :> "Immediate_up") @@ (-1 :> "Immediate_down"),
          monthly   |-> (1 :> "15_days_up") @@ (-1 :> "15_days_down")]
    ELSE [immediate |-> (1 :> "Immediate_up_short")
                        @@ (-1 :> "Immediate_down_short")]

\* report_days: (1, 16) for the mid-term maker, (None,) for the short-term
\* ones.
ReportDaysOf(var) == IF var = "mid" THEN ReportDays ELSE {}

\* reportable_change_bounds: (0, 1000) by default, (20, 10000) for RTT.
BoundsOf(var) == IF var = "rtt" THEN RttBounds ELSE Bounds

\* _is_valid_change: bounds[0] < change * direction < bounds[1].
IsValidChange(change, direction, var) ==
    /\ BoundsOf(var)[1] < change * direction
    /\ change * direction < BoundsOf(var)[2]

\* int(x) of a Python float truncates toward zero.
TruncDiv(a, b) == IF a >= 0 THEN a \div b ELSE -((-a) \div b)

\* Variant: floor division (//) for the mean.
GetMonthlyTrendDirectionFloor(ts) ==
    IF Len(ts) > 0 THEN FoldSeq(+, 0, ts) \div Len(ts) ELSE 0

\* _get_monthly_trend_direction: int(mean) of the trends list, 0 if empty.
GetMonthlyTrendDirection(ts) ==
    IF Len(ts) > 0 THEN TruncDiv(FoldSeq(+, 0, ts), Len(ts)) ELSE 0

\* Variant: the decision is appended before the verdict is checked.
CheckForImmediateReportAppendFirst(c, ts, v, chg, d, var) ==
    IF v = 0 THEN [cur |-> 0, trends |-> Append(ts, v), report |-> 0]
    ELSE IF c # 0 THEN [cur |-> c, trends |-> Append(ts, v), report |-> 0]
    ELSE [cur |-> v, trends |-> Append(ts, v),
          report |-> IF IsValidChange(chg, v, var) /\ d \notin ReportDaysOf(var)
                     THEN v ELSE 0]

\* Variant: an already running trend absorbs only decisions of its own
\* direction; a reversal starts a new trend.
CheckForImmediateReportReversal(c, ts, v, chg, d, var) ==
    IF v = 0 THEN [cur |-> 0, trends |-> ts, report |-> 0]
    ELSE IF c = v THEN [cur |-> c, trends |-> Append(ts, v), report |-> 0]
    ELSE [cur |-> v, trends |-> Append(ts, v),
          report |-> IF IsValidChange(chg, v, var) /\ d \notin ReportDaysOf(var)
                     THEN v ELSE 0]

\* _check_for_immediate_report: no verdict ends the trend; otherwise the
\* decision is appended (the "mismatch" branch is unreachable, since
\* mismatch_present requires no verdict); a running trend absorbs it,
\* whichever its direction; a new trend is set before the change and the
\* report day are checked, and reported only if both allow it.
CheckForImmediateReport(c, ts, v, chg, d, var) ==
    IF v = 0 THEN [cur |-> 0, trends |-> ts, report |-> 0]
    ELSE IF c # 0 THEN [cur |-> c, trends |-> Append(ts, v), report |-> 0]
    ELSE [cur |-> v, trends |-> Append(ts, v),
          report |-> IF IsValidChange(chg, v, var) /\ d \notin ReportDaysOf(var)
                     THEN v ELSE 0]

\* _handle_immediate_check: nothing while the no-traffic flag is raised.
HandleImmediateCheck(noTraffic, c, ts, v, chg, d, var) ==
    IF noTraffic THEN [cur |-> c, trends |-> ts, report |-> 0]
    ELSE CheckForImmediateReport(c, ts, v, chg, d, var)

\* _check_for_monthly_report: the list is cleared whatever the outcome.
CheckForMonthlyReport(ts, chg, var) ==
    LET dir == GetMonthlyTrendDirection(ts)
    IN [trends |-> <<>>,
        report |-> IF dir # 0 /\ IsValidChange(chg, dir, var) THEN dir ELSE 0]

\* _handle_monthly_check: only on a report day.
HandleMonthlyCheck(ts, chg, d, var) ==
    IF d \notin ReportDaysOf(var) THEN [trends |-> ts, report |-> 0]
    ELSE CheckForMonthlyReport(ts, chg, var)

\* _send_message_aid_service_connection: the Create method of the key
\* _message_types[mtype][direction]; "none" when nothing is reported.
SendMessage(var, mtype, dir) ==
    IF dir = 0 THEN "none" ELSE GrpcTrend(var)[MessageTypes(var)[mtype][dir]]

\* DecisionMakerMidTerm._decide: the immediate check, then the monthly one.
DecideMidTerm(noTraffic, c, ts, v, chg, d) ==
    LET imm == HandleImmediateCheck(noTraffic, c, ts, v, chg, d, "mid")
        mon == HandleMonthlyCheck(imm.trends, chg, d, "mid")
    IN [cur |-> imm.cur, trends |-> mon.trends, before |-> imm.trends,
        msg |-> IF imm.report # 0
                THEN SendMessage("mid", "immediate", imm.report)
                ELSE SendMessage("mid", "monthly", mon.report)]

\* DecisionMakerShortTerm._decide, inherited by DecisionMakerShortTermRtt:
\* the immediate check only.
DecideShortTerm(noTraffic, c, ts, v, chg, d, var) ==
    LET imm == HandleImmediateCheck(noTraffic, c, ts, v, chg, d, var)
    IN [cur |-> imm.cur, trends |-> imm.trends, before |-> imm.trends,
        msg |-> SendMessage(var, "immediate", imm.report)]

-----------------------------------------------------------------------------
Init ==
    /\ today = InitialLoad
    /\ next = 1
    /\ phase = "down"
    /\ fed = 0
    /\ ntd = 0
    /\ variant \in Variants
    /\ cur = 0
    /\ trends = <<>>
    /\ latest = [k \in {} |-> EmptyDates]
    /\ order = <<>>
    /\ stored = NoApp
    /\ data \in [Days -> DayData]
    /\ prev = 0
    /\ sent = <<>>
    /\ handled = 0
    /\ crashes = 0

\* Variant: the initial run starts one interval late.
ReplayStartLate(t) == t - InitialLoad + 2

\* The first day of the Scheduler's initial run on a start at day t.
ReplayStart(t) == t - InitialLoad + 1

\* main.py: MessageClient(..., load_state=True), a fresh pipeline whose
\* detector and decision maker start empty (_init_trend_monitor_vars),
\* and Pipeline.start with its initial run.
Start ==
    /\ phase = "down"
    /\ LET st == ManualUpdate(Load(GetState(stored, "ok")))
       IN /\ latest' = st.dates
          /\ order' = st.order
    /\ cur' = 0
    /\ trends' = <<>>
    /\ fed' = 0
    /\ ntd' = 0
    /\ prev' = 0
    /\ next' = ReplayStart(today)
    /\ phase' = "decide"
    /\ UNCHANGED <<today, variant, stored, data, sent, handled, crashes>>

\* TrendDetector._run then the decision maker's _run for the WorkUnit of
\* day next; a message goes through _CreateMessageConsiderState.
Decide ==
    LET det  == IF variant = "mid" THEN TrendDetectorRun(fed, ntd, data[next])
                ELSE ShortTrendDetectorRun(fed, ntd, data[next])
        nt   == det.ntd >= NoTrafficLimit
        out  == IF variant = "mid"
                THEN DecideMidTerm(nt, cur, trends, det.dec, det.chg, next)
                ELSE DecideShortTerm(nt, cur, trends, det.dec, det.chg, next,
                                     variant)
        r    == HandleSuppression(KeyDates(latest, "str"), out.msg, next)
    IN /\ phase = "decide"
       /\ next <= today
       /\ IF out.msg \in Types
          THEN /\ latest' = ("str" :> r.dates) @@ latest
               /\ order' = WithKey(order, "str")
               /\ sent' = IF r.send
                          THEN Append(sent, [type |-> out.msg, day |-> next,
                                             prev |-> prev, list |-> out.before])
                          ELSE sent
          ELSE UNCHANGED <<latest, order, sent>>
       /\ cur' = out.cur
       /\ trends' = out.trends
       /\ prev' = IF nt THEN prev ELSE det.dec
       /\ ntd' = det.ntd
       /\ fed' = det.data_index
       /\ phase' = "save"
       /\ UNCHANGED <<today, next, variant, stored, data, handled, crashes>>

\* Notifier._save_state(day): save_dates raises the dates and SaveState
\* persists them (the AID service is available in this model).
SaveDates ==
    /\ phase = "save"
    /\ latest' = RaiseDates(latest, next)
    /\ stored' = SaveState(stored, Persist(latest', order), "ok")
    /\ handled' = IF next > handled THEN next ELSE handled
    /\ next' = next + 1
    /\ phase' = "decide"
    /\ UNCHANGED <<today, fed, ntd, variant, cur, trends, order, data, prev,
                   sent, crashes>>

\* The process dies; its memory is gone, the persisted state stays.
Crash ==
    /\ phase # "down"
    /\ crashes < MaxCrashes
    /\ phase' = "down"
    /\ crashes' = crashes + 1
    /\ latest' = [k \in {} |-> EmptyDates]
    /\ order' = <<>>
    /\ cur' = 0
    /\ trends' = <<>>
    /\ fed' = 0
    /\ ntd' = 0
    /\ prev' = 0
    /\ UNCHANGED <<today, next, variant, stored, data, sent, handled>>

\* A day passes.  A running process has handled the previous days (a
\* WorkUnit takes far less than a day); a stopped one is restarted within
\* MaxLag days of the last day it persisted.
Tick ==
    /\ today < MaxDay
    /\ phase # "down" => next > today
    /\ phase = "down" => today - handled < MaxLag
    /\ today' = today + 1
    /\ UNCHANGED <<next, phase, fed, ntd, variant, cur, trends, latest, order,
                   stored, data, prev, sent, handled, crashes>>

\* Every WorkUnit up to the last day is processed.
Idle ==
    /\ today = MaxDay /\ phase = "decide" /\ next > today
    /\ UNCHANGED vars

Next == Start \/ Decide \/ SaveDates \/ Crash \/ Tick \/ Idle

Spec == Init /\ [][Next]_vars

-----------------------------------------------------------------------------
AllVariants == {"mid", "short", "rtt"}
ImmediateTypes == {GrpcTrend(var)[MessageTypes(var).immediate[dir]] :
                      var \in AllVariants, dir \in {-1, 1}}
MonthlyTypes == {GrpcTrend("mid")[MessageTypes("mid").monthly[dir]] :
                    dir \in {-1, 1}}

\* The direction a trend message reports.
Direction(t) == IF \E var \in AllVariants, m \in {"immediate", "monthly"} :
                     m \in DOMAIN MessageTypes(var)
                     /\ GrpcTrend(var)[MessageTypes(var)[m][1]] = t
                THEN 1 ELSE -1

TypeOK ==
    /\ today \in Days
    /\ next \in 1..MaxDay + 1
    /\ phase \in {"down", "decide", "save"}
    /\ cur \in {-1, 0, 1} /\ prev \in {-1, 0, 1}
    /\ trends \in Seq({-1, 1})
    /\ ntd \in 0..NoTrafficLimit
    /\ DOMAIN latest \subseteq Keys
    /\ \A i \in 1..Len(sent) : sent[i].type \in ImmediateTypes \cup MonthlyTypes

\* An immediate trend message is created only on the first day of a trend,
\* in the direction of that day's decision: the decision the running
\* decision maker saw on its previous day with traffic was "no trend"
\* (_check_for_immediate_report sets _current_trend_direction before it
\* checks the change and the report day, and keeps it through a reversal).
ImmediateOnlyAtTrendStart ==
    \A i \in 1..Len(sent) :
        sent[i].type \in ImmediateTypes =>
            /\ sent[i].prev = 0
            /\ Direction(sent[i].type) = data[sent[i].day].dec

\* A monthly message reports a direction only if every decision collected
\* since the last report day has that direction: the int() of the mean of
\* a list of 1s and -1s is non-zero only for a unanimous list
\* (_get_monthly_trend_direction, _check_for_monthly_report).
MonthlyUnanimous ==
    \A i \in 1..Len(sent) :
        sent[i].type \in MonthlyTypes =>
            /\ Len(sent[i].list) > 0
            /\ \A j \in 1..Len(sent[i].list) :
                  sent[i].list[j] = Direction(sent[i].type)

\* One trend of the data is announced at most once, across restarts that
\* come within MaxLag days of the last persisted day: the replay of the
\* Scheduler's initial run rebuilds _current_trend_direction before it
\* reaches a day whose suppression date is not yet persisted.
TrendNotReannounced ==
    \A i, j \in 1..Len(sent) :
        /\ sent[i].type = sent[j].type
        /\ sent[i].type \in ImmediateTypes
        /\ sent[i].day < sent[j].day
        => \E k \in sent[i].day..sent[j].day :
              data[k].dec # Direction(sent[i].type)


\* Whenever the detector decides (fed = WarmUp), the t-test behind the
\* decision compares full windows of consecutive days: the last s days
\* against the 2*s days before the end of the large window, none repeated
\* or skipped (TrendDetector.__init__'s overlap indices, _populating_windows,
\* and the element _execute moves into the large window).
TrendWindowsConsecutive == fed = WarmUp => Det!TrendTestOnConsecutiveWindows

=============================================================================
