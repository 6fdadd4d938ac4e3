---------------------------- MODULE StateClient ----------------------------
(***************************************************************************)
(* The suppression state of src/src/Grpc/StateClient.py, for one appID.    *)
(*                                                                         *)
(* _latest_dates is a defaultdict from an appID key to a dict from message *)
(* type to the latest date.  The same appID can sit under two keys: the    *)
(* string str(appID) that _handle_suppression uses and the state loaded    *)
(* from the AID service has, and the int that ast.literal_eval gives for   *)
(* the documented --manual_date {7233: ...} (main.py).  A key's dict is a  *)
(* partial function from Types to days; `order` is the keys in insertion   *)
(* order, which is the order json.dumps writes them in.                    *)
(*                                                                         *)
(* Days are integers; DEFAULT_DT (1971) is DefaultDate, before every day.  *)
(***************************************************************************)
EXTENDS Integers, Sequences, TLC

CONSTANTS Types,          \* the message types a decision maker creates
          NoApp,          \* persisted state without an entry for the appID
          ManualDate,     \* --manual_date for the appID: type -> day
          ManualKey,      \* "str" or "int": how the flag's appID parsed
          Unsuppress,     \* --unsuppress for the appID: set of <<type, day>>
          UnsuppressKey   \* "str" or "int": how that flag's appID parsed

Keys == {"str", "int"}
DefaultDate == 0
EmptyDates == [t \in {} |-> DefaultDate]

\* appid_state.get(type, self._default_date)
GetDate(f, t) == IF t \in DOMAIN f THEN f[t] ELSE DefaultDate

\* The dict of key k, created empty on first access (defaultdict(dict)).
KeyDates(lat, k) == IF k \in DOMAIN lat THEN lat[k] ELSE EmptyDates
WithKey(order, k) == IF \E i \in 1..Len(order) : order[i] = k
                     THEN order ELSE Append(order, k)

\* _check_unsuppress(str(appID), dt, type): the flag's dict is indexed by
\* the string key; an int key raises KeyError, which returns False.
CheckUnsuppress(t, d) == UnsuppressKey = "str" /\ <<t, d>> \in Unsuppress

\* Variant: a message dated on the latest date is let through (< for <=).
HandleSuppressionLt(f, t, d) ==
    LET td == GetDate(f, t)
    IN [dates |-> IF td = DefaultDate THEN (t :> d) @@ f ELSE f,
        send  |-> d >= td \/ CheckUnsuppress(t, d)]

\* _handle_suppression(dt, appID, type) on the str key's dict f: a type
\* without a date gets dt; a message not after the type's date is
\* suppressed unless unsuppressed.  A message sent after the date leaves
\* the date as it is (only save_dates raises it).
HandleSuppression(f, t, d) ==
    LET td == GetDate(f, t)
    IN [dates |-> IF td = DefaultDate THEN (t :> d) @@ f ELSE f,
        send  |-> d > td \/ CheckUnsuppress(t, d)]

\* Variant: save_dates overwrites every date, later or not.
RaiseDatesAlways(lat, d) == [k \in DOMAIN lat |-> [t \in DOMAIN lat[k] |-> d]]

\* The loop of save_dates(dt): every date of every key that is before dt
\* becomes dt; types without a date stay without one.
RaiseDates(lat, d) ==
    [k \in DOMAIN lat |->
        [t \in DOMAIN lat[k] |-> IF d > lat[k][t] THEN d ELSE lat[k][t]]]

\* SaveState(STATE_LATEST_DATE_TAG, {'state': _latest_dates}) through
\* dictToGrpcdata: json.dumps writes both keys as "7233", and the reader's
\* json.loads keeps the last one written, the key inserted last.
Persist(lat, order) == IF order = <<>> THEN NoApp ELSE lat[order[Len(order)]]

\* ConnectionClient.send(..., reliable=True) as AidServiceClient calls it
\* (max_retries = 0): UNAVAILABLE is retried, with a growing sleep, until
\* another answer comes, so a call ends with a response ("ok") or with an
\* error other than UNAVAILABLE, which is logged and returned.
SendReliable(errors) == IF errors THEN {"ok", "error"} ELSE {"ok"}

\* AidServiceClient.GetState(keyword): the dict last saved under the
\* keyword, or None on an error (`if e is not None or not res`).  For one
\* appID both read as NoApp when nothing was saved for it.
GetState(stored, res) == IF res = "ok" THEN stored ELSE NoApp

\* _get_dates_from_state: the appID's dates of the state GetState gave;
\* on None the previous-version tag is asked for, which this deployment
\* never saved, and the state is {} ("No usable state found").
Load(st) ==
    IF st # NoApp THEN [dates |-> ("str" :> st), order |-> <<"str">>]
    ELSE [dates |-> [k \in {} |-> EmptyDates], order |-> <<>>]

\* AidServiceClient.SaveState(keyword, state): the service holds the new
\* state when send returned no error; the error is returned, and
\* save_dates' caller, Notifier._save_state, drops it.
SaveState(stored, st, res) == IF res = "ok" THEN st ELSE stored

\* AidServiceClient._CreateMessage: one request per call, the history of
\* calls records whether AID-E created the message; an error is returned
\* to the decision maker, which drops it (no retry).
CreateMessage(calls, msg, res) == Append(calls, ("created" :> (res = "ok")) @@ msg)

\* _CreateMessageConsiderState: _CreateMessage is called only when
\* _handle_suppression let the message through.
CreateMessageConsiderState(r, calls, msg, res) ==
    IF r.send THEN CreateMessage(calls, msg, res) ELSE calls

\* _handle_manual_update: every manual type of the flag's key gets its
\* manual date; the key is created if absent.
ManualUpdate(st) ==
    IF DOMAIN ManualDate = {} THEN st
    ELSE LET old == KeyDates(st.dates, ManualKey)
             new == [t \in DOMAIN old \cup DOMAIN ManualDate |->
                        IF t \in DOMAIN ManualDate THEN ManualDate[t] ELSE old[t]]
         IN [dates |-> (ManualKey :> new) @@ st.dates,
             order |-> WithKey(st.order, ManualKey)]

=============================================================================
