----------------------------- MODULE Pipeline -----------------------------
(***************************************************************************)
(* The streaming engine of src/src/pipeline/Pipeline.py, wired as          *)
(* Pipeline._initialize_components wires it:                               *)
(*                                                                         *)
(*   Scheduler -> DateQueue -> DataFetcher (TermSplitter)                  *)
(*     -> MetricPipeline per metric_term (Splitter per appID)              *)
(*       -> AppPipeline per appID (Broadcaster -> model -> decision        *)
(*          maker per branch -> Joiner)                                    *)
(*     -> Joiner per metric_term over appIDs -> Joiner over metric_terms   *)
(*     -> Notifier (save_dates)                                            *)
(*                                                                         *)
(* Two threads run: the Scheduler's (main thread for the initial run,      *)
(* APScheduler's thread for live runs) and DateQueue's consumer thread.    *)
(* Everything downstream of the DateQueue runs synchronously on the        *)
(* consumer thread; the pending synchronous calls are kept in `calls`, a   *)
(* call stack whose head is the call being made, so one step is one        *)
(* handler (input method) of one component.                                *)
(*                                                                         *)
(* Data is abstracted to what the properties tell apart: a value that      *)
(* flows through the graph is the end tick of its DatePackage (the 'time'  *)
(* column DataFetcher puts in every dataframe, which the decision makers   *)
(* return as 'time_model'); records assembled by the joins are functions   *)
(* from input names to such values.                                        *)
(***************************************************************************)
EXTENDS Integers, Sequences, SequencesExt

CONSTANTS Interval, InitialLoad, MaxNow,  \* as in Scheduler
          MetricSeq,      \* env.supported_metric_names, in order
          TermSeq,        \* env.supported_terms, in order
          AppSeq,         \* env.app_ids, in order
          BranchesOf,     \* [metric, term] -> branch names, in link order
          None,           \* Python None: DateQueue's shutdown sentinel
          CrsErrors,      \* CrsClient.Aggregate may return None
          MaxUnavailable  \* bound: UNAVAILABLE answers in a row per call

Metrics == ToSet(MetricSeq)
Terms == ToSet(TermSeq)
Apps == ToSet(AppSeq)
MTs == Metrics \X Terms

VARIABLES now, startTime, nextRun, sched, emitted,  \* the Scheduler
          requests,   \* DateQueue._requests
          consumer,   \* DateQueue's thread: "idle", "fetching", "graph",
                      \* "exited" or "dead" (an exception ended it)
          job,        \* the DatePackage the consumer is working on
          fetchIdx,   \* DataFetcher._receive: index into AppSeq
          failed,     \* DataFetcher._receive: an Aggregate returned None
          retries,    \* ConnectionClient.send: UNAVAILABLE answers so far
          calls,      \* synchronous calls pending on the consumer thread
          buf,        \* every Joiner's _inputs (touches = lengths)
          notified,   \* records the Notifier received, in order
          saved,      \* the date the Notifier last passed to save_dates
          main        \* main thread: "constructed", "running", "stopping",
                      \* "stopped"

vars == <<now, startTime, nextRun, sched, emitted, requests, consumer, job,
          fetchIdx, failed, retries, calls, buf, notified, saved, main>>

Sched == INSTANCE Scheduler WITH out <- emitted

\* The connection level under every CrsClient.Aggregate call (FetchApp).
CC == INSTANCE ConnectionClient

\* The DatePackages a scheduler step transmitted to DateQueue.input.
NewUnits == SubSeq(emitted', Len(emitted) + 1, Len(emitted'))

-----------------------------------------------------------------------------
(* The joins.  A join is identified by its place in the graph.            *)

AppJoin(m, t, a) == <<"app", m, t, a>>     \* AppPipeline._exitpoint
MetricJoin(m, t) == <<"metric", m, t>>     \* MetricPipeline._exitpoint
TopJoin == <<"top">>                       \* Pipeline._metric_joiner

Joins == {AppJoin(k[1], k[2], a) : k \in MTs, a \in Apps}
         \cup {MetricJoin(k[1], k[2]) : k \in MTs} \cup {TopJoin}

\* The names each join registered with get_input at construction.
JoinInputs(j) ==
    CASE j[1] = "app"    -> ToSet(BranchesOf[j[2], j[3]])
      [] j[1] = "metric" -> Apps
      [] j[1] = "top"    -> MTs

\* A call on the consumer thread: kind of handler, the component's key,
\* the join input name (for joins) and the value.
Call(kind, key, name, val) == [kind |-> kind, key |-> key, name |-> name, val |-> val]

\* Where a join's output edge is connected.
Downstream(j, rec) ==
    CASE j[1] = "app"    -> Call("join", MetricJoin(j[2], j[3]), j[4], rec)
      [] j[1] = "metric" -> Call("join", TopJoin, <<j[2], j[3]>>, rec)
      [] j[1] = "top"    -> Call("notify", <<>>, <<>>, rec)

\* Joiner._insert's output for a complete round (see Joiner.tla).
JoinOutput(p) == IF \A n \in DOMAIN p : p[n] = None THEN None ELSE p

\* Notifier._get_date: the 'time_model' of the first branch of the first
\* appID of the first metric_term.
GetDate(rec) ==
    LET mt == <<Head(MetricSeq), Head(TermSeq)>>
    IN rec[mt][Head(AppSeq)][Head(BranchesOf[mt[1], mt[2]])]

-----------------------------------------------------------------------------
Init ==
    /\ Sched!Init
    /\ requests = <<>>
    /\ consumer = "idle"
    /\ job = None
    /\ fetchIdx = 1
    /\ failed = FALSE
    /\ retries = 0
    /\ calls = <<>>
    /\ buf = [j \in Joins |-> [n \in JoinInputs(j) |-> <<>>]]
    /\ notified = <<>>
    /\ saved = None
    /\ main = "constructed"

graphVars == <<consumer, job, fetchIdx, failed, retries, calls, buf, notified, saved>>

(* Main thread and Scheduler. *)

\* Pipeline.start: Scheduler.start, whose initial run transmits to
\* DateQueue.input (a blocking put on the unbounded queue).
PipelineStart ==
    /\ main = "constructed"
    /\ Sched!Start
    /\ requests' = requests \o NewUnits
    /\ main' = "running"
    /\ UNCHANGED graphVars

\* A live run of the Scheduler's interval job.
SchedulerFire ==
    /\ Sched!Fire
    /\ requests' = requests \o NewUnits
    /\ UNCHANGED <<graphVars, main>>

SchedulerMisfire ==
    /\ Sched!Misfire
    /\ UNCHANGED <<requests, graphVars, main>>

ClockTick ==
    /\ Sched!Tick
    /\ UNCHANGED <<requests, graphVars, main>>

\* Variant: Pipeline.stop with its two statements swapped, DateQueue first.
StopQueueFirst ==
    /\ main = "running"
    /\ requests' = Append(requests, None)
    /\ main' = "stopping"
    /\ UNCHANGED <<now, startTime, nextRun, sched, emitted, graphVars>>

\* Pipeline.stop, first statement: Scheduler.shutdown.
StopScheduler ==
    /\ main = "running"
    /\ Sched!Shutdown
    /\ main' = "stopping"
    /\ UNCHANGED <<requests, graphVars>>

\* Pipeline.stop, second statement: DateQueue.shutdown puts None.
StopQueue ==
    /\ main = "stopping"
    /\ requests' = Append(requests, None)
    /\ main' = "stopped"
    /\ UNCHANGED <<now, startTime, nextRun, sched, emitted, graphVars>>

(* DateQueue's consumer thread. *)

\* Variant: the queue hands out its newest entry (a LifoQueue).
DequeueNewest ==
    /\ consumer = "idle"
    /\ requests # <<>>
    /\ requests' = Front(requests)
    /\ IF Last(requests) = None
       THEN /\ consumer' = "exited"
            /\ UNCHANGED job
       ELSE /\ consumer' = "fetching"
            /\ job' = Last(requests)
    /\ fetchIdx' = 1
    /\ failed' = FALSE
    /\ retries' = 0
    /\ UNCHANGED <<now, startTime, nextRun, sched, emitted, calls, buf,
                   notified, saved, main>>

\* _listen_queue: a blocking get; None ends the loop, anything else is
\* transmitted to DataFetcher.input, which starts _receive.
Dequeue ==
    /\ consumer = "idle"
    /\ requests # <<>>
    /\ requests' = Tail(requests)
    /\ IF Head(requests) = None
       THEN /\ consumer' = "exited"
            /\ UNCHANGED job
       ELSE /\ consumer' = "fetching"
            /\ job' = Head(requests)
    /\ fetchIdx' = 1
    /\ failed' = FALSE
    /\ retries' = 0
    /\ UNCHANGED <<now, startTime, nextRun, sched, emitted, calls, buf,
                   notified, saved, main>>

\* One CrsClient.Aggregate call of _receive's loop over the appIDs.  The
\* reliable send retries forever on UNAVAILABLE (max_retries = 0); any
\* other RpcError makes Aggregate return None.
FetchApp ==
    /\ consumer = "fetching"
    /\ fetchIdx <= Len(AppSeq)
    /\ \/ /\ fetchIdx' = fetchIdx + 1              \* answered
          /\ retries' = 0
          /\ UNCHANGED failed
       \/ /\ retries < MaxUnavailable              \* UNAVAILABLE: sleep, retry
          /\ retries' = retries + 1
          /\ UNCHANGED <<fetchIdx, failed>>
       \/ /\ CrsErrors                             \* other error: None
          /\ fetchIdx' = fetchIdx + 1
          /\ failed' = TRUE
          /\ retries' = 0
    /\ UNCHANGED <<now, startTime, nextRun, sched, emitted, requests,
                   consumer, job, calls, buf, notified, saved, main>>

\* The end of _receive and TermSplitter.input: the result dict is built
\* (aggregated[appID][m] raises TypeError if an Aggregate returned None,
\* and nothing in the consumer thread catches it); otherwise each metric's
\* value goes to output metric_term for both terms, in order.
FetchDone ==
    /\ consumer = "fetching"
    /\ fetchIdx > Len(AppSeq)
    /\ IF failed
       THEN /\ consumer' = "dead"
            /\ UNCHANGED calls
       ELSE /\ consumer' = "graph"
            /\ calls' = FlattenSeq([i \in 1..Len(MetricSeq) |->
                           [k \in 1..Len(TermSeq) |->
                              Call("split", <<MetricSeq[i], TermSeq[k]>>, <<>>, job.end)]])
    /\ UNCHANGED <<now, startTime, nextRun, sched, emitted, requests, job,
                   fetchIdx, failed, retries, buf, notified, saved, main>>

(* The synchronous cascade: one step is one input handler, the one at the
   head of calls; the calls it makes replace it, in the order it makes them. *)

\* Calls that leave the stack as it is apart from the head.
Pop(new) == new \o Tail(calls)

cascadeFrame == <<now, startTime, nextRun, sched, emitted, requests, consumer,
                  job, fetchIdx, failed, retries, main>>

\* Variant: the last appID is not routed.
SplitterInputShort ==
    /\ calls # <<>>
    /\ Head(calls).kind = "split"
    /\ LET c == Head(calls)
       IN calls' = Pop([i \in 1..Len(AppSeq) - 1 |->
                          Call("bcast", <<c.key[1], c.key[2], AppSeq[i]>>, <<>>, c.val)])
    /\ UNCHANGED <<cascadeFrame, buf, notified, saved>>

\* MetricPipeline._entrypoint, a Splitter with the identity process: the
\* dict appID -> dataframe goes out on the output of each appID, in order.
SplitterInput ==
    /\ calls # <<>>
    /\ Head(calls).kind = "split"
    /\ LET c == Head(calls)
       IN calls' = Pop([i \in 1..Len(AppSeq) |->
                          Call("bcast", <<c.key[1], c.key[2], AppSeq[i]>>, <<>>, c.val)])
    /\ UNCHANGED <<cascadeFrame, buf, notified, saved>>

\* Variant: the last branch is not fed.
BroadcasterInputShort ==
    /\ calls # <<>>
    /\ Head(calls).kind = "bcast"
    /\ LET c == Head(calls)
           bs == BranchesOf[c.key[1], c.key[2]]
       IN calls' = Pop([i \in 1..Len(bs) - 1 |->
                          Call("model", c.key, bs[i], c.val)])
    /\ UNCHANGED <<cascadeFrame, buf, notified, saved>>

\* AppPipeline._entrypoint, a Broadcaster: the value goes out on every
\* output, in the order _link_components connected them.
BroadcasterInput ==
    /\ calls # <<>>
    /\ Head(calls).kind = "bcast"
    /\ LET c == Head(calls)
           bs == BranchesOf[c.key[1], c.key[2]]
       IN calls' = Pop([i \in 1..Len(bs) |->
                          Call("model", c.key, bs[i], c.val)])
    /\ UNCHANGED <<cascadeFrame, buf, notified, saved>>

\* A model (Transceiver): its output goes to the branch's decision maker.
ModelInput ==
    /\ calls # <<>>
    /\ Head(calls).kind = "model"
    /\ calls' = Pop(<<[Head(calls) EXCEPT !.kind = "decide"]>>)
    /\ UNCHANGED <<cascadeFrame, buf, notified, saved>>

\* A decision maker (Transceiver): its output, which carries the input's
\* time as 'time_model', goes to the branch's input of the AppPipeline's
\* Joiner.
DecisionInput ==
    /\ calls # <<>>
    /\ Head(calls).kind = "decide"
    /\ LET c == Head(calls)
       IN calls' = Pop(<<Call("join", AppJoin(c.key[1], c.key[2], c.key[3]),
                              c.name, c.val)>>)
    /\ UNCHANGED <<cascadeFrame, buf, notified, saved>>

\* Joiner._insert on one of the joins.  All inputs of every join are
\* registered at construction and before any value flows, so the touch
\* count of an input is the length of its buffer.
JoinerInsert ==
    /\ calls # <<>>
    /\ Head(calls).kind = "join"
    /\ LET c  == Head(calls)
           j  == c.key
           b1 == [buf[j] EXCEPT ![c.name] = Append(@, c.val)]
       IN IF \A n \in DOMAIN b1 : b1[n] # <<>>
          THEN /\ buf' = [buf EXCEPT ![j] = [n \in DOMAIN b1 |-> Tail(b1[n])]]
               /\ calls' = Pop(<<Downstream(j, JoinOutput([n \in DOMAIN b1 |-> Head(b1[n])]))>>)
          ELSE /\ buf' = [buf EXCEPT ![j] = b1]
               /\ calls' = Pop(<<>>)
    /\ UNCHANGED <<cascadeFrame, notified, saved>>

\* Notifier._run: _get_date, then _save_state (save_dates).
NotifierInput ==
    /\ calls # <<>>
    /\ Head(calls).kind = "notify"
    /\ notified' = Append(notified, Head(calls).val)
    /\ saved' = GetDate(Head(calls).val)
    /\ calls' = Pop(<<>>)
    /\ UNCHANGED <<cascadeFrame, buf>>

\* Variant: the loop goes on before the transmit has returned, as if the
\* output were asynchronous.
TaskDoneEarly ==
    /\ consumer = "graph"
    /\ consumer' = "idle"
    /\ job' = None
    /\ UNCHANGED <<now, startTime, nextRun, sched, emitted, requests,
                   fetchIdx, failed, retries, calls, buf, notified, saved, main>>

\* The transmit of _listen_queue has returned: task_done, and the loop
\* goes back to the blocking get.
TaskDone ==
    /\ consumer = "graph"
    /\ calls = <<>>
    /\ consumer' = "idle"
    /\ job' = None
    /\ UNCHANGED <<now, startTime, nextRun, sched, emitted, requests,
                   fetchIdx, failed, retries, calls, buf, notified, saved, main>>

\* The program has been stopped, the consumer thread has ended and the
\* clock has reached its bound.
Done ==
    /\ main = "stopped"
    /\ consumer \in {"exited", "dead"}
    /\ now = MaxNow
    /\ UNCHANGED vars

Consumer ==
    \/ Dequeue \/ FetchApp \/ FetchDone \/ SplitterInput \/ BroadcasterInput
    \/ ModelInput \/ DecisionInput \/ JoinerInsert \/ NotifierInput \/ TaskDone

Next ==
    \/ PipelineStart \/ SchedulerFire \/ SchedulerMisfire \/ ClockTick
    \/ StopScheduler \/ StopQueue \/ Consumer \/ Done

\* The consumer thread is scheduled whenever it can run; main.py calls
\* Pipeline.start right after construction.  Stopping is left to the user.
Spec == Init /\ [][Next]_vars /\ WF_vars(Consumer) /\ WF_vars(PipelineStart)

-----------------------------------------------------------------------------
Kinds == {"split", "bcast", "model", "decide", "join", "notify"}

TypeOK ==
    /\ main \in {"constructed", "running", "stopping", "stopped"}
    /\ consumer \in {"idle", "fetching", "graph", "exited", "dead"}
    /\ requests \in Seq(Sched!WorkUnits \cup {None})
    /\ job \in Sched!WorkUnits \cup {None}
    /\ fetchIdx \in 1..Len(AppSeq) + 1
    /\ failed \in BOOLEAN
    /\ retries \in 0..MaxUnavailable
    /\ \A i \in 1..Len(calls) : calls[i].kind \in Kinds
    /\ DOMAIN buf = Joins
    /\ \A j \in Joins : DOMAIN buf[j] = JoinInputs(j)
    /\ (consumer # "graph") => calls = <<>>

\* The leaves of a record the top join assembles, and whether it has every
\* metric_term, every appID and every branch.
Complete(rec) ==
    /\ DOMAIN rec = MTs
    /\ \A k \in MTs : /\ DOMAIN rec[k] = Apps
                     /\ \A a \in Apps : DOMAIN rec[k][a] = ToSet(BranchesOf[k])
Leaves(rec) ==
    UNION {{rec[k][a][b] : b \in ToSet(BranchesOf[k])} : k \in MTs, a \in Apps}

\* The i-th record the Notifier receives is assembled from the i-th
\* DatePackage the Scheduler sent, and from it alone: every branch of every
\* appID of every metric_term carries that package's end, and the date
\* saved is the end of the last one.  This is what the queue's FIFO order,
\* the depth-first synchronous cascade and the three levels of Joiners
\* have to preserve together.
NotifiedMatchesWorkUnits ==
    /\ Len(notified) <= Len(emitted)
    /\ \A i \in 1..Len(notified) :
          Complete(notified[i]) /\ Leaves(notified[i]) = {emitted[i].end}
    /\ notified # <<>> => saved = emitted[Len(notified)].end

\* Between two DatePackages no Joiner holds a value: every cascade fires
\* every join it feeds, so nothing is left to be paired with the next
\* package's values.
JoinsDrainedBetweenPackages ==
    consumer \in {"idle", "exited"} =>
        \A j \in Joins : \A n \in JoinInputs(j) : buf[j][n] = <<>>

\* When DateQueue's thread has taken the None that Pipeline.stop put, every
\* DatePackage the Scheduler ever sent has been notified (Pipeline.stop
\* shuts the Scheduler down before it puts None).
DrainedOnStop ==
    consumer = "exited" => Len(notified) = Len(emitted)

\* The pipeline's Scheduler tiles time with its DatePackages without gap or
\* overlap across Pipeline.start's initial run, live runs and misfires
\* (Scheduler._set_initial_start_time, _notify).
SchedContiguousCoverage == Sched!ContiguousCoverage

\* No DatePackage the pipeline's Scheduler sends covers time that has not
\* yet passed (Scheduler._notify's loop bound, _truncate_interval_residue).
SchedNoFutureWorkUnit == Sched!NoFutureWorkUnit

\* The connection loops under FetchApp do what ConnectionClient's docstrings
\* promise: getService stops after at most two iterations even when the
\* channel never becomes ready, and send retries UNAVAILABLE max_retries
\* times (forever for 0, as CrsClient sets it) with sleeps of 1, 2, 4, 8,
\* 16 and then 32 seconds (ConnectionClient.connection, getService, send).
SendCallMatchesReference == CC!CallMatchesReference

MaxUnits == InitialLoad + MaxNow \div Sched!Period + 1

\* Every DatePackage the Scheduler sends is eventually notified.
EveryWorkUnitNotified ==
    \A i \in 1..MaxUnits : (Len(emitted) >= i) ~> (Len(notified) >= i)

=============================================================================
