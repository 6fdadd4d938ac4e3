---------------------------- MODULE MCPipeline ----------------------------
(* The pipeline of EnvConfig: two metrics, both terms, two appIDs; the     *)
(* volume pipelines have three branches, the RTT pipelines two.            *)
EXTENDS Pipeline

CONSTANTS vol, rtt, mid, short, app1, app2, fluct, trend, pred

MCMetricSeq == <<vol, rtt>>
MCTermSeq == <<mid, short>>
MCAppSeq == <<app1, app2>>
MCBranchesOf ==
    [k \in {vol, rtt} \X {mid, short} |->
        IF k[1] = vol THEN <<fluct, trend, pred>> ELSE <<fluct, trend>>]
=============================================================================
