------------------------------ MODULE Joiner ------------------------------
(***************************************************************************)
(* The fan-in join Joiner of src/src/components/joiner.py.                 *)
(*                                                                         *)
(* get_input(name) sets _touches[name] to 0 and hands out a callback;      *)
(* calling the callback runs _insert(name, value): it appends the value to *)
(* _inputs[name], adds one touch, and, when every name of _touches has a   *)
(* touch, pops the oldest value of every name of _inputs, takes one touch  *)
(* from each, and transmits either None (all popped values None) or the    *)
(* combined record.  The combiner (process) is opaque and modelled as the  *)
(* identity on the record.                                                 *)
(*                                                                         *)
(* fed and base are history variables: they record what was fed and when  *)
(* a name was first registered, and exist only for the refinement mapping  *)
(* to ZipJoin.                                                             *)
(***************************************************************************)
EXTENDS Naturals, Sequences

CONSTANTS Names,        \* input names callers ask for
          Values,       \* opaque values (dataframes, decision records)
          None,         \* the empty sentinel
          MaxFeeds,     \* bound: values fed to one input
          RegisterOnce  \* callers ask for each name at most once (the
                        \* pipeline builders do); FALSE lets a caller ask
                        \* for a name again

ASSUME MaxFeeds \in Nat /\ RegisterOnce \in BOOLEAN /\ None \notin Values

VARIABLES touches,  \* Joiner._touches: name -> count
          inputs,   \* Joiner._inputs: name -> list of buffered values
          out,      \* values transmitted on Joiner._output
          fed,      \* history: all values given to each input
          base      \* history: outputs before a name's first registration

vars == <<touches, inputs, out, fed, base>>

\* A partial function extended or overwritten at one point.
SetAt(f, k, v) == [m \in DOMAIN f \cup {k} |-> IF m = k THEN v ELSE f[m]]

Init ==
    /\ touches = <<>>
    /\ inputs = <<>>
    /\ out = <<>>
    /\ fed = <<>>
    /\ base = <<>>

\* get_input(name): the touch count of name is (re)set to 0; the buffered
\* values of name, if any, are left where they are.
GetInput(n) ==
    /\ RegisterOnce => n \notin DOMAIN touches
    /\ touches' = SetAt(touches, n, 0)
    /\ base' = IF n \in DOMAIN base THEN base ELSE SetAt(base, n, Len(out))
    /\ fed' = IF n \in DOMAIN fed THEN fed ELSE SetAt(fed, n, <<>>)
    /\ UNCHANGED <<inputs, out>>

\* The loop over _touches in _insert: every registered name has a touch.
AllTouched(t) == \A n \in DOMAIN t : t[n] >= 1

\* Variants: items.pop() takes the newest value; the whole list is taken.
PoppedNewest(in) == [n \in DOMAIN in |-> in[n][Len(in[n])]]
PoppedWhole(in) == [n \in DOMAIN in |-> in[n]]

\* The firing loop over _inputs: the oldest value of every name.
Popped(in) == [n \in DOMAIN in |-> Head(in[n])]

\* What _insert transmits for the popped values: None when forward_none
\* stayed True, otherwise process(inputs).
JoinOutput(p) == IF \A n \in DOMAIN p : p[n] = None THEN None ELSE p

\* _insert(name, value), through the callback get_input(name) returned.
Insert(n, v) ==
    LET in1 == SetAt(inputs, n,
                     Append(IF n \in DOMAIN inputs THEN inputs[n] ELSE <<>>, v))
        t1  == SetAt(touches, n, touches[n] + 1)
    IN
    /\ n \in DOMAIN touches
    /\ Len(fed[n]) < MaxFeeds
    /\ fed' = [fed EXCEPT ![n] = Append(@, v)]
    /\ IF AllTouched(t1)
       THEN /\ inputs' = [m \in DOMAIN in1 |-> Tail(in1[m])]
            /\ touches' = [m \in DOMAIN t1 |->
                              IF m \in DOMAIN in1 THEN t1[m] - 1 ELSE t1[m]]
            /\ out' = Append(out, JoinOutput(Popped(in1)))
       ELSE /\ inputs' = in1
            /\ touches' = t1
            /\ UNCHANGED out
    /\ UNCHANGED base

Next ==
    \/ \E n \in Names : GetInput(n)
    \/ \E n \in Names, v \in Values \cup {None} : Insert(n, v)

Spec == Init /\ [][Next]_vars

-----------------------------------------------------------------------------
\* The records a firing can assemble.
Records == UNION {[S -> Values \cup {None}] : S \in SUBSET Names}

TypeOK ==
    /\ DOMAIN touches \subseteq Names
    /\ \A n \in DOMAIN touches : touches[n] \in 0..MaxFeeds
    /\ DOMAIN inputs \subseteq DOMAIN touches
    /\ \A n \in DOMAIN inputs : inputs[n] \in Seq(Values \cup {None})
    /\ out \in Seq(Records \cup {None})

\* Refinement: the join's output stream is, round by round, the zip of its
\* input streams.  It fires exactly when every registered input has a value
\* for the next round, pairs values strictly first-in first-out, consumes
\* one value per input per firing, and forwards None only when every paired
\* value is None (Joiner._insert and Joiner.get_input).
Zip == INSTANCE ZipJoin
ZipJoinRefined == Zip!ZSpec

=============================================================================
