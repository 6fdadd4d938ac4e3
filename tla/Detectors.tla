------------------------------ MODULE Detectors ------------------------------
(***************************************************************************)
(* The window bookkeeping of the detectors in src/src/models: the windows  *)
(* of TrendDetector, with the size the deployment gives it                 *)
(* (src/src/pipeline/configs.py), and the memory of                        *)
(* MidTermFluctuationDetector.  For TrendDetector a value of the series is *)
(* represented by its position n (1, 2, ...), so the windows hold          *)
(* positions and the question is which values the t-test compares; the    *)
(* statistics themselves are left out.                                     *)
(***************************************************************************)
EXTENDS Integers, Sequences

\* PipelineConfig: models[term][metric]['detection']['sliding_window_size']
\* of the deployed metrics (conferences_terminated, rtt_average).
DetectionWindow == [t \in {"midterm", "shortterm"} |->
                        IF t = "midterm" THEN 30 ELSE 7]

\* AppPipelineVolume and AppPipelineRTT take TrendDetector (the short-term
\* pipelines take ShortTrendDetector): the window sizes TrendDetector runs
\* with in the deployment.
DeployedTrendWindows == {DetectionWindow["midterm"]}

\* deque(maxlen=m).append(x).
DequeAppend(q, x, m) == IF Len(q) < m THEN Append(q, x) ELSE Append(Tail(q), x)

\* np.round(s / 2): numpy rounds a half to the even neighbour.
RoundHalf(s) ==
    LET k == s \div 2
    IN IF s % 2 = 0 \/ k % 2 = 0 THEN k ELSE k + 1

\* TrendDetector.__init__: data_index = 1, empty windows of maxlen s and
\* 2*s, and the overlap indices.
TrendDetectorInit(s) ==
    [data_index |-> 1, sliding_window |-> <<>>, sliding_window_large |-> <<>>,
     population_flag |-> FALSE,
     overlappingLowIndex |-> RoundHalf(s) + s,
     overlappingUpIndex |-> 2 * s + RoundHalf(s) - 1]

\* _populating_windows(v): indices below 2*s go to the large window, those
\* in [overlappingLowIndex, overlappingUpIndex] to the sliding one, and the
\* last of them sets population_flag.
PopulatingWindows(s, d, v) ==
    LET toLarge == d.data_index < 2 * s
        toSlide == d.overlappingLowIndex <= d.data_index
                   /\ d.data_index <= d.overlappingUpIndex
    IN [d EXCEPT
          !.sliding_window_large =
              IF toLarge THEN DequeAppend(@, v, 2 * s) ELSE @,
          !.sliding_window = IF toSlide THEN DequeAppend(@, v, s) ELSE @,
          !.population_flag = @ \/ (toSlide /\ d.data_index = d.overlappingUpIndex),
          !.data_index = @ + 1]

\* _execute(v) with the oldest value of the sliding window moved to the
\* large one.
ExecuteOldest(s, d, v) ==
    [d EXCEPT
       !.sliding_window_large =
           DequeAppend(@, d.sliding_window[1], 2 * s),
       !.sliding_window = DequeAppend(@, v, s),
       !.data_index = @ + 1]

\* _execute(v): sliding_window[int(s/2)] is appended to the large window,
\* v to the sliding one, and then the t-test compares the two.
Execute(s, d, v) ==
    [d EXCEPT
       !.sliding_window_large =
           DequeAppend(@, d.sliding_window[(s \div 2) + 1], 2 * s),
       !.sliding_window = DequeAppend(@, v, s),
       !.data_index = @ + 1]

\* _run(v): _execute once population_flag is set, _populating_windows before.
Run(s, d, v) ==
    IF d.population_flag THEN Execute(s, d, v) ELSE PopulatingWindows(s, d, v)

\* The detector d after _run on the values a..b, in order (split in halves,
\* each half evaluated before the next, so the recursion stays shallow).
RECURSIVE FeedRange(_, _, _, _)
FeedRange(s, d, a, b) ==
    IF a > b THEN d
    ELSE IF a = b THEN Run(s, d, a)
    ELSE LET m  == (a + b) \div 2
             d1 == FeedRange(s, d, a, m)
         IN IF d1.data_index > 0 THEN FeedRange(s, d1, m + 1, b) ELSE d1

\* A fresh detector after the values 1..n.
Feed(s, n) == FeedRange(s, TrendDetectorInit(s), 1, n)

-----------------------------------------------------------------------------
\* The tests checked: the first ExtraTests t-tests after population.
ExtraTests == 3

Consecutive(q) == \A i \in 1..Len(q) - 1 : q[i + 1] = q[i] + 1

\* Every t-test TrendDetector._execute runs in the deployment compares full
\* windows of consecutive values: the sliding window is the last s values
\* and the large window 2*s consecutive values before its end, with no
\* value repeated or skipped.  This depends on how np.round rounds
\* s/2 in __init__ and on which element _execute moves across.
TrendTestOnConsecutiveWindows ==
    \A s \in DeployedTrendWindows :
      LET up == TrendDetectorInit(s).overlappingUpIndex
      IN \A n \in up + 1 .. up + ExtraTests :
            LET d == Feed(s, n)
            IN /\ Feed(s, n - 1).population_flag
               /\ Len(d.sliding_window) = s
               /\ Len(d.sliding_window_large) = 2 * s
               /\ d.sliding_window[s] = n
               /\ Consecutive(d.sliding_window)
               /\ Consecutive(d.sliding_window_large)

-----------------------------------------------------------------------------
(* The memory of src/src/models/MidTermFluctuationDetector.py.  A day's    *)
(* value is "zero" (no traffic: isclose to 0) or "pos" (traffic); the     *)
(* mean of values is "pos" when one of them is, "zero" when all are, and  *)
(* "nan" for no value (np.mean of an empty slice).                         *)

MeanOf(q) ==
    IF Len(q) = 0 THEN "nan"
    ELSE IF \E i \in 1..Len(q) : q[i] = "pos" THEN "pos" ELSE "zero"

LastValues(q, n) == IF Len(q) <= n THEN q ELSE SubSeq(q, Len(q) - n + 1, Len(q))

\* __init__: memory = deque(maxlen=3 * window_size), _memory_filled_flag False.
MFInit == [memory |-> <<>>, memory_filled_flag |-> FALSE]

\* _validate_point: a "zero" day is replaced by the running mean of the last
\* window_size days (_get_running_mean_point), or "zero" if that is nan.
ValidatePoint(w, d, v) ==
    IF v = "zero"
    THEN LET m == MeanOf(LastValues(d.memory, w)) IN IF m = "nan" THEN "zero" ELSE m
    ELSE v

\* _remove_zeros_from_memory: every "zero" becomes the first non-zero value.
RemoveZerosFromMemory(q) == [i \in 1..Len(q) |-> IF q[i] = "zero" THEN "pos" ELSE q[i]]

\* _init_memory_fill_check without the zero removal.
InitMemoryFillCheckKeepZeros(w, q) ==
    IF Len(q) = 3 * w /\ \E i \in 1..Len(q) : q[i] = "pos"
    THEN [memory |-> q, memory_filled_flag |-> TRUE]
    ELSE [memory |-> q, memory_filled_flag |-> FALSE]

\* _init_memory_fill_check: once the memory is full and holds a non-zero
\* day, the flag is set and _run_memory_calculations first removes zeros.
InitMemoryFillCheck(w, q) ==
    IF Len(q) = 3 * w /\ \E i \in 1..Len(q) : q[i] = "pos"
    THEN [memory |-> RemoveZerosFromMemory(q), memory_filled_flag |-> TRUE]
    ELSE [memory |-> q, memory_filled_flag |-> FALSE]

\* _add_new_day(v): append the validated value, then the fill check while
\* the flag is unset (afterwards _run_single_new_point_calculations).
AddNewDay(w, d, v) ==
    LET q == DequeAppend(d.memory, ValidatePoint(w, d, v), 3 * w)
    IN IF d.memory_filled_flag THEN [d EXCEPT !.memory = q]
       ELSE InitMemoryFillCheck(w, q)

\* TRUE when, feeding days[k..] to d, no filled memory holds a "zero" day.
RECURSIVE FilledMemoryNonZero(_, _, _, _)
FilledMemoryNonZero(w, d, days, k) ==
    \/ k > Len(days)
    \/ LET e == AddNewDay(w, d, days[k])
       IN /\ e.memory_filled_flag => \A i \in 1..Len(e.memory) : e.memory[i] # "zero"
          /\ FilledMemoryNonZero(w, e, days, k + 1)

\* Window sizes enumerated: every series of 3*w + 2 days, zero or not.  The
\* deployed 7 and 14 give the same cases (zero days before, across and
\* after the fill) on longer series.
MFWindows == {2, 3}

\* Once MidTermFluctuationDetector's memory is filled, it never holds a
\* no-traffic (0) day, whatever days came before or after: so no running
\* mean of the memory is 0, and the std / mean of _get_metric_value and
\* running_fn_norm never divides by 0 (a nan there would read as the
\* normal state in _check_state).  This rests on _validate_point replacing
\* later 0 days and _init_memory_fill_check removing the earlier ones.
FilledMemoryHasNoZeroDay ==
    \A w \in MFWindows :
      \A days \in [1..3 * w + 2 -> {"zero", "pos"}] :
        FilledMemoryNonZero(w, MFInit, days, 1)
=============================================================================
