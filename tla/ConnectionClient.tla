-------------------------- MODULE ConnectionClient --------------------------
(***************************************************************************)
(* The connection level of src/src/Grpc/ConnectionClient.py, as the pure   *)
(* loops it runs for one call: getService (with the cached `connection`    *)
(* property) and send (the retry loop with its doubling sleep).  The       *)
(* outcomes the server produces are inputs: `readies` is the sequence of   *)
(* channel_ready_future results, `answers` the sequence of method          *)
(* outcomes, "ok", "unavailable" (StatusCode.UNAVAILABLE) or "error" (any  *)
(* other RpcError, or one without a code).  CrsClient and AidServiceClient *)
(* construct the client with max_retries = 0 and call send reliably; the   *)
(* operators take max_retries and reliable as parameters so the loop is    *)
(* checked for every setting its docstring describes.                      *)
(***************************************************************************)
EXTENDS Integers, Sequences

\* The `connection` property: the channel is stored in _connection BEFORE
\* channel_ready_future(...).result(timeout) is awaited, so a
\* FutureTimeoutError leaves a cached channel and the next access returns
\* it without waiting.
Connection(conn, ready) ==
    IF conn = "none"
    THEN [conn |-> "channel", raises |-> ~ready]
    ELSE [conn |-> conn, raises |-> FALSE]

\* getService: `while service is None`, retrying on FutureTimeoutError;
\* the result counts the iterations of the loop.
RECURSIVE GetServiceLoop(_, _, _)
GetServiceLoop(conn, readies, iters) ==
    LET c == Connection(conn, Head(readies))
    IN IF c.raises
       THEN GetServiceLoop(c.conn, Tail(readies), iters + 1)
       ELSE [conn |-> c.conn, iters |-> iters + 1]

GetService(readies) == GetServiceLoop("none", readies, 0)

\* A send loop whose delay doubles without the `delay < 30` cap.
RECURSIVE SendLoopUncapped(_, _, _, _, _)
SendLoopUncapped(answers, delay, retries, max_retries, reliable) ==
    LET r == retries + 1
        a == Head(answers)
    IN IF a = "ok" THEN [res |-> "ok", sleeps |-> <<>>, attempts |-> r]
       ELSE IF reliable /\ a = "unavailable"
       THEN IF max_retries > 0 /\ r > max_retries
            THEN [res |-> "too_many", sleeps |-> <<>>, attempts |-> r]
            ELSE LET rest == SendLoopUncapped(Tail(answers), delay + delay,
                                              r, max_retries, reliable)
                 IN [rest EXCEPT !.sleeps = <<delay>> \o @]
       ELSE [res |-> a, sleeps |-> <<>>, attempts |-> r]

\* send's `while True` loop from the attempt after `retries`: a response
\* returns (value, None); UNAVAILABLE on a reliable send sleeps `delay`
\* seconds, doubles it while it is below 30, and retries, unless
\* max_retries > 0 and this attempt exceeds it ("too many retries"); any
\* other error returns (None, err) at once.
RECURSIVE SendLoop(_, _, _, _, _)
SendLoop(answers, delay, retries, max_retries, reliable) ==
    LET r == retries + 1
        a == Head(answers)
    IN IF a = "ok" THEN [res |-> "ok", sleeps |-> <<>>, attempts |-> r]
       ELSE IF reliable /\ a = "unavailable"
       THEN IF max_retries > 0 /\ r > max_retries
            THEN [res |-> "too_many", sleeps |-> <<>>, attempts |-> r]
            ELSE LET rest == SendLoop(Tail(answers),
                                      IF delay < 30 THEN delay + delay
                                                    ELSE delay,
                                      r, max_retries, reliable)
                 IN [rest EXCEPT !.sleeps = <<delay>> \o @]
       ELSE [res |-> a, sleeps |-> <<>>, attempts |-> r]

\* send(method, request, name, reliable): delay = 1, retries = 0.
Send(answers, max_retries, reliable) == SendLoop(answers, 1, 0, max_retries, reliable)

-----------------------------------------------------------------------------
(* Reference definitions, from the docstrings: max_retries is "how often  *)
(* to retry if fails, 0 means retrying indefinitely", and the sleep before *)
(* retry i is 2^(i-1) seconds, which the `delay < 30` test caps at 32.     *)

\* The sleep before the i-th retry.
RefSleep(i) == IF 2 ^ (i - 1) < 32 THEN 2 ^ (i - 1) ELSE 32

\* The result of a call whose method answers UNAVAILABLE k times and then
\* `last`.
RefSend(k, last, max_retries, reliable) ==
    IF ~reliable
    THEN [res |-> IF k > 0 THEN "unavailable" ELSE last, attempts |-> 1,
          sleeps |-> <<>>]
    ELSE IF max_retries > 0 /\ k > max_retries
    THEN [res |-> "too_many", attempts |-> max_retries + 1,
          sleeps |-> [i \in 1..max_retries |-> RefSleep(i)]]
    ELSE [res |-> last, attempts |-> k + 1,
          sleeps |-> [i \in 1..k |-> RefSleep(i)]]

\* The inputs: k UNAVAILABLE answers, k <= MaxUnavail, then the last one.
Answers(k, last) == [i \in 1..k |-> "unavailable"] \o <<last>>

MaxUnavail == 7
MaxRetriesSet == 0..3

\* A call's getService never spins more than twice, whatever the channel
\* readiness outcomes: a timeout leaves the channel cached (conn set
\* before the wait), so the loop cannot wait forever on a dead server, and
\* send then reports the server's error.  Then send retries exactly
\* max_retries times (indefinitely for 0), sleeping 1, 2, 4, 8, 16 and then
\* 32 seconds each time, and returns the last answer.
CallMatchesReference ==
    /\ \A readies \in {<<TRUE>>, <<FALSE, TRUE>>, <<FALSE, FALSE>>,
                       <<FALSE, FALSE, FALSE>>} :
            GetService(readies).iters <= 2
    /\ \A k \in 0..MaxUnavail, last \in {"ok", "error"},
          mr \in MaxRetriesSet, rel \in BOOLEAN :
            Send(Answers(k, last), mr, rel) = RefSend(k, last, mr, rel)
=============================================================================
