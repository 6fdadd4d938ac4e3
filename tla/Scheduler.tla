----------------------------- MODULE Scheduler -----------------------------
(***************************************************************************)
(* The Scheduler of src/src/pipeline/Scheduler.py: a Transmitter driven by *)
(* an APScheduler BackgroundScheduler interval job.                        *)
(*                                                                         *)
(* Time is counted in half days ("ticks"): tick 2d is 00:00 UTC of day d   *)
(* and tick 2d+1 is 12:00 UTC, the LAUNCH_HOUR.  Intervals of one day or   *)
(* more are modelled (the pipeline uses constants.DAY): for those,         *)
(* _truncate_interval_residue zeroes hour, minute, second and microsecond, *)
(* i.e. it truncates to the day.  A WorkUnit (DatePackage) is the record   *)
(* [start, end] of ticks; its payload is empty.                            *)
(***************************************************************************)
EXTENDS Integers, Sequences

CONSTANTS Interval,     \* trigger_interval in days (constants.DAY = 1)
          InitialLoad,  \* initial_load: intervals replayed on start
          MaxNow        \* bound: the last tick the clock reaches

ASSUME /\ Interval \in Nat \ {0}
       /\ InitialLoad \in Nat
       /\ MaxNow \in Nat

TicksPerDay == 2
LaunchTick == 1            \* LAUNCH_HOUR = 12 is tick 1 of a day
Period == Interval * TicksPerDay

VARIABLES now,        \* wall clock, in ticks
          startTime,  \* Scheduler._start_time
          nextRun,    \* the interval job's next_run_time
          sched,      \* "created", "running" or "shutdown"
          out         \* DatePackages transmitted on the output, in order

svars == <<now, startTime, nextRun, sched, out>>

\* Variant: the truncation of the hour is lost (a wrong truncation_dict).
TruncateNothing(t) == t

\* _truncate_interval_residue for an interval of a day or more.
Truncate(t) == t - (t % TicksPerDay)

\* _get_current_time.
CurrentTime == Truncate(now)

\* _set_launch_time: 12:00 today, or tomorrow if it is 12:00 or later.
LaunchTime(t) ==
    IF t % TicksPerDay >= LaunchTick
    THEN Truncate(t) + TicksPerDay + LaunchTick
    ELSE Truncate(t) + LaunchTick

\* The DatePackages _notify sends from cursor s up to current time c:
\* while s < c: send [s, s + interval), s := s + interval.
\* Variant: the loop also sends the range starting at the current time.
RECURSIVE CatchUpInclusive(_, _)
CatchUpInclusive(s, c) ==
    IF s <= c THEN <<[start |-> s, end |-> s + Period]>> \o CatchUpInclusive(s + Period, c)
    ELSE <<>>

RECURSIVE CatchUp(_, _)
CatchUp(s, c) ==
    IF s < c THEN <<[start |-> s, end |-> s + Period]>> \o CatchUp(s + Period, c)
    ELSE <<>>

\* Variant: _start_time is not advanced past what was sent.
CursorStays(s, c) == s

\* The cursor after _notify from s up to c.
RECURSIVE CursorAfter(_, _)
CursorAfter(s, c) == IF s < c THEN CursorAfter(s + Period, c) ELSE s

\* Scheduler.__init__: the interval job is added with next_run_time set by
\* _set_launch_time at construction; the clock may read either half-day.
Init ==
    /\ now \in 0..1
    /\ startTime = 0
    /\ nextRun = LaunchTime(now)
    /\ sched = "created"
    /\ out = <<>>

\* Scheduler.start: _set_initial_start_time, then _trigger_initial_run
\* (_notify), then the clock is started.
\* _set_initial_start_time: initial_load intervals before the current time.
InitialStartTime == CurrentTime - InitialLoad * Period

Start ==
    LET s0 == InitialStartTime
    IN /\ sched = "created"
       /\ out' = out \o CatchUp(s0, CurrentTime)
       /\ startTime' = CursorAfter(s0, CurrentTime)
       /\ sched' = "running"
       /\ UNCHANGED <<now, nextRun>>

\* The latest run time of the job that is due at tick t.
DueRun(t) == nextRun + ((t - nextRun) \div Period) * Period

\* The job fires: APScheduler wakes at or after next_run_time.  With
\* coalescing only the latest due run time counts; it runs (_notify) if the
\* wake-up is within misfire_grace_time (a minute) of it, which is possible
\* only in the tick the run time falls in.  The next run time is the first
\* one after now.
Fire ==
    /\ sched = "running"
    /\ now >= nextRun
    /\ DueRun(now) = now
    /\ out' = out \o CatchUp(startTime, CurrentTime)
    /\ startTime' = CursorAfter(startTime, CurrentTime)
    /\ nextRun' = DueRun(now) + Period
    /\ UNCHANGED <<now, sched>>

\* The job misfires: the wake-up is more than misfire_grace_time late, the
\* run is skipped and the job is rescheduled.
Misfire ==
    /\ sched = "running"
    /\ now >= nextRun
    /\ nextRun' = DueRun(now) + Period
    /\ UNCHANGED <<now, startTime, sched, out>>

\* Time passes.
Tick ==
    /\ now < MaxNow
    /\ now' = now + 1
    /\ UNCHANGED <<startTime, nextRun, sched, out>>

\* Scheduler.shutdown: the clock stops; no job runs afterwards.
Shutdown ==
    /\ sched = "running"
    /\ sched' = "shutdown"
    /\ UNCHANGED <<now, startTime, nextRun, out>>

\* The scheduler has been shut down and the clock has reached its bound.
Done ==
    /\ sched = "shutdown"
    /\ now = MaxNow
    /\ UNCHANGED svars

SNext == Start \/ Fire \/ Misfire \/ Tick \/ Shutdown \/ Done

SSpec == Init /\ [][SNext]_svars /\ WF_svars(Start) /\ WF_svars(Fire)

-----------------------------------------------------------------------------
WorkUnits == [start : Int, end : Int]

STypeOK ==
    /\ now \in 0..MaxNow
    /\ startTime \in Int
    /\ nextRun \in Int
    /\ sched \in {"created", "running", "shutdown"}
    /\ out \in Seq(WorkUnits)
    /\ \A i \in 1..Len(out) : out[i].start % TicksPerDay = 0  \* midnights

\* The DatePackages sent so far tile time without gap or overlap: each is
\* one interval long, each starts where the previous one ended, and the
\* cursor _start_time is the end of the last one (Scheduler._notify after
\* _set_initial_start_time, across the initial run, live runs and misfires).
ContiguousCoverage ==
    /\ \A i \in 1..Len(out) : out[i].end = out[i].start + Period
    /\ \A i \in 1..Len(out) - 1 : out[i + 1].start = out[i].end
    /\ out # <<>> => startTime = out[Len(out)].end

\* No DatePackage covers time that has not yet passed: every range sent
\* ends at or before the current truncated time (Scheduler._notify's loop
\* bound and _truncate_interval_residue).
NoFutureWorkUnit == \A i \in 1..Len(out) : out[i].end <= CurrentTime

=============================================================================
