---------------------------- MODULE Suppression ----------------------------
(***************************************************************************)
(* One appID's fluctuation messages across process restarts.              *)
(*                                                                         *)
(* Each day's WorkUnit reaches FluctuationDecisionMaker._run, which may    *)
(* create a message through StateClient._CreateMessageConsiderState, and   *)
(* then the Notifier, whose _save_state calls save_dates(day).  The        *)
(* process may crash at any step.  main.py then builds a new MessageClient *)
(* with load_state=True and the same flags, and the Scheduler's initial    *)
(* run replays the last InitialLoad days.  The fluctuation model answers   *)
(* None until its memory is filled, WarmUp days after a start, and then    *)
(* the verdict of the day's data, signal[day].                             *)
(***************************************************************************)
EXTENDS StateClient

CONSTANTS MaxDay,          \* bound: the last day the clock reaches
          InitialLoad,     \* Scheduler initial_load, in days
          WarmUp,          \* days the fluctuation model answers None
          MaxCrashes,      \* bound: process crashes
          GetStateErrors,  \* GetState may fail at a start
          SaveStateErrors, \* SaveState may fail in save_dates
          CreateErrors,    \* _CreateMessage may fail
          DataVerdicts,    \* the verdicts the day's data can give
          FluctuationDM,   \* "mid" (AppPipelineVolume), "short" (...ShortTerm)
          None

Days == 1..MaxDay
Verdicts == {-1, 0, 1}

ASSUME /\ InitialLoad \in Nat \ {0} /\ WarmUp \in Nat
       /\ MaxDay \in Nat /\ MaxDay >= InitialLoad
       /\ DataVerdicts \subseteq Verdicts
       /\ FluctuationDM \in {"mid", "short"}

VARIABLES today,    \* the current day of the clock
          next,     \* the day of the WorkUnit being processed
          phase,    \* "down", "decide" (at the DM) or "save" (at the Notifier)
          fed,      \* days the model has seen since start, capped at WarmUp
          cs,       \* FluctuationDecisionMaker.current_state
          latest,   \* StateClient._latest_dates: key -> type -> day
          order,    \* the keys of _latest_dates in insertion order
          stored,   \* the state persisted by the AID service
          signal,   \* the verdict the data gives each day
          sent,     \* history: _CreateMessage calls, with the handled day
          handled,  \* history: greatest day whose save_dates was persisted
          crashes

vars == <<today, next, phase, fed, cs, latest, order, stored, signal, sent,
          handled, crashes>>

Init ==
    /\ today = InitialLoad
    /\ next = 1
    /\ phase = "down"
    /\ fed = 0
    /\ cs = None
    /\ latest = [k \in {} |-> EmptyDates]
    /\ order = <<>>
    /\ stored = NoApp
    /\ signal \in [Days -> DataVerdicts]
    /\ sent = <<>>
    /\ handled = 0
    /\ crashes = 0

\* Variant: the initial run replays one interval too many.
ReplayStartLong(t) == t - InitialLoad

\* The first day of the Scheduler's initial run on a start at day t.
ReplayStart(t) == t - InitialLoad + 1

\* MessageClient(..., flags, load_state=True) in main.py, a fresh
\* pipeline with fresh decision makers, and Pipeline.start.
Start ==
    /\ phase = "down"
    /\ \E res \in SendReliable(GetStateErrors) :
          LET st == ManualUpdate(Load(GetState(stored, res)))
          IN /\ latest' = st.dates
             /\ order' = st.order
    /\ cs' = None
    /\ fed' = 0
    /\ next' = ReplayStart(today)
    /\ phase' = "decide"
    /\ UNCHANGED <<today, stored, signal, sent, handled, crashes>>

\* The memory behind Verdict (MidTermFluctuationDetector._add_new_day).
Det == INSTANCE Detectors

\* MidTermFluctuationDetector._run: None until the memory is filled.
Verdict(d, n) == IF n < WarmUp THEN None ELSE signal[d]

\* FluctuationDecisionMaker._check_current_state.
CheckCurrentState(c, v) == IF c = None /\ v = 0 THEN 0 ELSE c

\* MessageClient.messages[metric]: the Create method of each verdict, under
\* 'fluctuation' and 'fluctuation_short_term'.
GrpcMessagesOf ==
    [fluctuation |-> (1 :> "High") @@ (0 :> "Stabilized") @@ (-1 :> "Low"),
     fluctuation_short_term |->
        (1 :> "ShortHigh") @@ (0 :> "ShortStabilized") @@ (-1 :> "ShortLow")]

\* _init_grpc_messages: FluctuationDecisionMaker takes the 'fluctuation'
\* entries, its subclass ShortTermFluctuationDecisionMaker the
\* 'fluctuation_short_term' ones.
GrpcMessages ==
    GrpcMessagesOf[IF FluctuationDM = "mid" THEN "fluctuation"
                   ELSE "fluctuation_short_term"]

\* CreateVolumeMidtermFluctuationImmediately*: High and Stabilized go
\* through _CreateMessageConsiderState, Low is a dummy.
CreatesMessage(m) == m \in {"High", "Stabilized"}

\* CreateVolumeShorttermFluctuationImmediately*: the same shape.
ShortCreatesMessage(m) == m \in {"ShortHigh", "ShortStabilized"}

\* FluctuationDecisionMaker._get_message: on a change of state the verdict's
\* grpc_messages entry is called; "none" when nothing reaches StateClient.
MessageType(c, v) ==
    IF v # c /\ v # None /\ (CreatesMessage(GrpcMessages[v]) \/
                              ShortCreatesMessage(GrpcMessages[v]))
    THEN GrpcMessages[v]
    ELSE "none"

\* FluctuationDecisionMaker._run for the WorkUnit of day next, with the
\* message it creates through _CreateMessageConsiderState (whose error it
\* drops), and _update_state (current_state := verdict, None included).
Decide ==
    LET v == Verdict(next, fed)
        t == MessageType(CheckCurrentState(cs, v), v)
        r == HandleSuppression(KeyDates(latest, "str"), t, next)
    IN /\ phase = "decide"
       /\ next <= today
       /\ IF t \in Types
          THEN /\ latest' = ("str" :> r.dates) @@ latest
               /\ order' = WithKey(order, "str")
               /\ \E res \in SendReliable(CreateErrors) :
                    sent' = CreateMessageConsiderState(r, sent,
                              [type |-> t, day |-> next, handled |-> handled], res)
          ELSE UNCHANGED <<latest, order, sent>>
       /\ cs' = v
       /\ fed' = IF fed < WarmUp THEN fed + 1 ELSE fed
       /\ phase' = "save"
       /\ UNCHANGED <<today, next, stored, signal, handled, crashes>>

\* Variant: the state is saved with the clock's day, not the WorkUnit's.
SaveDatesClock ==
    /\ phase = "save"
    /\ latest' = RaiseDates(latest, today)
    /\ \E res \in SendReliable(SaveStateErrors) :
          /\ stored' = SaveState(stored, Persist(latest', order), res)
          /\ handled' = IF res = "ok" /\ next > handled THEN next ELSE handled
    /\ next' = next + 1
    /\ phase' = "decide"
    /\ UNCHANGED <<today, fed, cs, order, signal, sent, crashes>>

\* Notifier._save_state(day): save_dates raises the dates and SaveState
\* persists them; an error of SaveState is returned and ignored.
SaveDates ==
    /\ phase = "save"
    /\ latest' = RaiseDates(latest, next)
    /\ \E res \in SendReliable(SaveStateErrors) :
          /\ stored' = SaveState(stored, Persist(latest', order), res)
          /\ handled' = IF res = "ok" /\ next > handled THEN next ELSE handled
    /\ next' = next + 1
    /\ phase' = "decide"
    /\ UNCHANGED <<today, fed, cs, order, signal, sent, crashes>>

\* The process dies; its memory is gone, the persisted state stays.
Crash ==
    /\ phase # "down"
    /\ crashes < MaxCrashes
    /\ phase' = "down"
    /\ crashes' = crashes + 1
    /\ latest' = [k \in {} |-> EmptyDates]
    /\ order' = <<>>
    /\ cs' = None
    /\ fed' = 0
    /\ UNCHANGED <<today, next, stored, signal, sent, handled>>

\* A day passes; the Scheduler's job sends its WorkUnit.
Tick ==
    /\ today < MaxDay
    /\ today' = today + 1
    /\ UNCHANGED <<next, phase, fed, cs, latest, order, stored, signal, sent,
                   handled, crashes>>

\* Every WorkUnit up to the last day is processed.
Idle ==
    /\ today = MaxDay /\ phase = "decide" /\ next > today
    /\ UNCHANGED vars

Next == Start \/ Decide \/ SaveDates \/ Crash \/ Tick \/ Idle

Spec == Init /\ [][Next]_vars

-----------------------------------------------------------------------------
DatesFn == UNION {[S -> Days] : S \in SUBSET Types}

TypeOK ==
    /\ today \in Days
    /\ next \in 1..MaxDay + 1
    /\ phase \in {"down", "decide", "save"}
    /\ cs \in Verdicts \cup {None}
    /\ DOMAIN latest \subseteq Keys
    /\ \A k \in DOMAIN latest : latest[k] \in DatesFn
    /\ stored \in DatesFn \cup {NoApp}
    /\ \A i \in 1..Len(sent) : sent[i].day \in Days /\ sent[i].created \in BOOLEAN

\* The messages AID-E created.
Created == {i \in 1..Len(sent) : sent[i].created}

\* The watermark promise of the Notification Sink (spec section 6): a
\* message for a (type, day) created again after a restart is for a day
\* whose save_dates had not yet been persisted, or one the operator
\* unsuppressed (StateClient._get_dates_from_state, _handle_suppression,
\* save_dates, Notifier._save_state).
NoRenotifyHandled ==
    \A i, j \in Created :
        (i < j /\ sent[i].type = sent[j].type /\ sent[i].day = sent[j].day)
        => \/ sent[j].day > sent[j].handled
           \/ <<sent[j].type, sent[j].day>> \in Unsuppress

\* A persisted date never moves back and a persisted type never loses its
\* date, across replays and restarts (save_dates only raises, Load keeps
\* what was persisted).
StoredNeverRegresses ==
    [][stored # NoApp =>
         /\ stored' # NoApp
         /\ \A t \in DOMAIN stored :
               t \in DOMAIN stored' /\ stored'[t] >= stored[t]]_stored

\* The message the decision maker asks for on a Decide step.
DMCall == MessageType(CheckCurrentState(cs, Verdict(next, fed)),
                      Verdict(next, fed))

\* An --unsuppress (type, day) the decision maker asks for reaches
\* _CreateMessage, whatever the suppression date (_check_unsuppress).
UnsuppressHonoured ==
    [][(phase = "decide" /\ phase' = "save" /\ <<DMCall, next>> \in Unsuppress)
         => Len(sent') = Len(sent) + 1]_vars

\* A message the decision maker asks for on a day whose save_dates has not
\* been persisted is never suppressed: across SaveState errors, crashes
\* and replays, no in-memory date of a type gets ahead of the days
\* persisted (_handle_suppression's date, save_dates' loop, Notifier's
\* _get_date, _get_dates_from_state).
NotSuppressedBeforePersisted ==
    [][(phase = "decide" /\ phase' = "save" /\ next > handled /\ DMCall \in Types)
         => Len(sent') = Len(sent) + 1]_vars

FluctuationMemoryNonZero == fed = WarmUp => Det!FilledMemoryHasNoZeroDay

=============================================================================
