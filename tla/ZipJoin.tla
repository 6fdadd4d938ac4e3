------------------------------ MODULE ZipJoin ------------------------------
(***************************************************************************)
(* What a fan-in join (src/src/components/joiner.py) promises, stated     *)
(* over whole streams instead of touch counters and buffers.               *)
(*                                                                         *)
(* Every registered input name n has a stream fed[n] of the values it was  *)
(* given, and joined the join when base[n] rounds had already been output. *)
(* Round r pairs, for every registered name n, the (r - base[n])-th value  *)
(* of n's stream.  A round is output as soon as every registered name has  *)
(* a value for it, and the output is None when every paired value is None. *)
(***************************************************************************)
EXTENDS Naturals, Sequences

CONSTANTS Names,    \* input names a join may be asked for
          Values,   \* opaque values carried on the inputs
          None      \* the empty sentinel (Python None)

VARIABLES fed,      \* fed[n]: every value given to input n, oldest first
          base,     \* base[n]: rounds output before n was registered
          out       \* the join's output stream

zvars == <<fed, base, out>>

\* The round that would be output next.
NextRound == Len(out) + 1

\* Every registered name has a value for round r.
RoundReady(f, b, r) == \A n \in DOMAIN b : Len(f[n]) >= r - b[n]

\* The record round r pairs up, and what the join emits for it.
RoundRecord(f, b, r) == [n \in DOMAIN b |-> f[n][r - b[n]]]

RoundOutput(f, b, r) ==
    IF \A n \in DOMAIN b : RoundRecord(f, b, r)[n] = None
    THEN None
    ELSE RoundRecord(f, b, r)

ZInit ==
    /\ fed = <<>>
    /\ base = <<>>
    /\ out = <<>>

\* A name joins: its first value will belong to the next round.
ZRegister(n) ==
    /\ n \notin DOMAIN base
    /\ base' = [m \in DOMAIN base \cup {n} |-> IF m = n THEN Len(out) ELSE base[m]]
    /\ fed' = [m \in DOMAIN fed \cup {n} |-> IF m = n THEN <<>> ELSE fed[m]]
    /\ UNCHANGED out

\* A value arrives on a registered input; the next round is output as soon
\* as it is complete.
ZReceive(n, v) ==
    /\ n \in DOMAIN base
    /\ fed' = [fed EXCEPT ![n] = Append(@, v)]
    /\ out' = IF RoundReady(fed', base, NextRound)
              THEN Append(out, RoundOutput(fed', base, NextRound))
              ELSE out
    /\ UNCHANGED base

ZNext ==
    \/ \E n \in Names : ZRegister(n)
    \/ \E n \in Names, v \in Values \cup {None} : ZReceive(n, v)

ZSpec == ZInit /\ [][ZNext]_zvars

=============================================================================
