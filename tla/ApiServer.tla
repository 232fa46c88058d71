------------------------------- MODULE ApiServer -------------------------------
(***************************************************************************)
(* api/src/index.ts: the pipeline and the points of the traders it         *)
(* settles for, and the gateway.  The gateway hands no trade to the        *)
(* pipeline (findOrderById), so the trades of the pipeline come from other *)
(* callers of queueTrade, and part says which half of the server runs.     *)
(***************************************************************************)
EXTENDS SettlementPipeline, PointsEngine, WsGateway

\* Both sides of a trade are traders, and a trade has a volume.
ASSUME TradesAssumption ==
    \A t \in Trades : {t.makerTrader, t.takerTrader} \subseteq Traders /\ t.volume \in Nat

VARIABLE part
vars == <<part, pipelineVars, pointsVars, gatewayVars>>

Init ==
    /\ part \in {"gateway", "settlement"}
    /\ PipelineInit
    /\ PointsInit
    /\ part = "gateway" => ~durable
    /\ GatewayInit

\* A confirmed batch starts an award for both sides of every trade; nothing waits for them.
Confirm(f) ==
    /\ Confirmed(f)
    /\ calls' = calls \union UNION {{Award(t, t.makerTrader), Award(t, t.takerTrader)} :
                                       t \in TradesOf(f.items)}
    /\ UNCHANGED <<durable, store, history, referrals, today>>

\* What a process held in memory is gone with it; what the database has stays.
ServerRestart ==
    /\ Restart
    /\ calls' = {}
    /\ store' = IF durable THEN store ELSE <<>>
    /\ history' = IF durable THEN history ELSE [t \in Traders |-> 0]
    /\ referrals' = IF durable THEN referrals ELSE <<>>
    /\ UNCHANGED <<durable, today>>

Timer == FlushTimer /\ UNCHANGED pointsVars
BatchProceeds == \E f \in flights : Confirm(f) \/ (Flies(f) /\ UNCHANGED pointsVars)

Settlement ==
    \/ Timer
    \/ BatchProceeds
    \/ ServerRestart
    \/ \E t \in Trades : QueueTrade(t) /\ UNCHANGED pointsVars
    \/ \E success \in BOOLEAN : Mine(success) /\ UNCHANGED pointsVars
    \/ PointsStep /\ UNCHANGED pipelineVars

Next ==
    /\ UNCHANGED part
    /\ \/ part = "settlement" /\ Settlement /\ UNCHANGED gatewayVars
       \/ part = "gateway" /\ GatewayNext /\ UNCHANGED <<pipelineVars, pointsVars>>

Spec == Init /\ [][Next]_vars

\* The interval timer fires; a call to the node ends, if only by its time limit.
FairSpec == Spec /\ WF_vars(Timer /\ UNCHANGED <<part, gatewayVars>>)
                 /\ WF_vars(BatchProceeds /\ UNCHANGED <<part, gatewayVars>>)

\* The record of a trader never counts a trade that the chain did not execute, nor one twice,
\* through lost answers, batches sent again and awards that overwrite one another
\* (flushBatch, calculatePointsForTrade).
NeverOvercounted ==
    \A trader \in DOMAIN store :
        store[trader].trades <= Cardinality({t \in settled : trader \in {t.makerTrader, t.takerTrader}})

\* A trade that is queued leaves in the end, settled or not: no failure keeps it in the
\* pipeline for ever (retryWithBackoff, MAX_REQUEUE).
TradesLeave == \A t \in Trades : (t \in queued) ~> (t \in DOMAIN ended)
================================================================================
