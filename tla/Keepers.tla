-------------------------------- MODULE Keepers --------------------------------
(***************************************************************************)
(* The three keepers of the protocol.  They are processes of their own and *)
(* meet only in the contracts: the oracle keeper moves the prices that     *)
(* make positions liquidatable and funding payable, which the other two    *)
(* models take as inputs.  An instance follows one of them.                *)
(***************************************************************************)
EXTENDS LiquidationKeeper, OracleKeeper, FundingBot

CONSTANT Parts      \* the keepers that are followed: liquidations, prices, funding
VARIABLE part
allVars == <<keeperVars, oracleVars, fundingVars, part>>

Init == /\ part \in Parts
        /\ KeeperInit
        /\ OracleInit /\ (part # "prices" => active = {} /\ \A m \in FedMarkets : hermes[m] = Min(Prices))
        /\ FundingInit /\ (part # "funding" => listed = Funded /\ priced = Funded)

Next ==
    \/ part = "liquidations" /\ KeeperNext /\ UNCHANGED <<oracleVars, fundingVars, part>>
    \/ part = "prices" /\ OracleNext /\ UNCHANGED <<keeperVars, fundingVars, part>>
    \/ part = "funding" /\ FundingNext /\ UNCHANGED <<keeperVars, oracleVars, part>>

Spec == Init /\ [][Next]_allVars

\* The loops never stop: every wait has a time limit, every failure is caught, and what dies is
\* started again.  The chain executes what it does not lose, subscriptions and calls are answered.
FairSpec ==
    /\ Spec
    /\ WF_allVars(part = "liquidations" /\ (Sync \/ WatchEvents) /\ UNCHANGED <<oracleVars, fundingVars, part>>)
    /\ WF_allVars(part = "liquidations" /\ LoopStep /\ UNCHANGED <<oracleVars, fundingVars, part>>)
    /\ \A kind \in Kinds :
          WF_allVars(part = "liquidations" /\ Deliver(kind) /\ UNCHANGED <<oracleVars, fundingVars, part>>)
    /\ WF_allVars(part = "liquidations" /\ Execute /\ UNCHANGED <<oracleVars, fundingVars, part>>)
    /\ WF_allVars(part = "liquidations" /\ Answers /\ UNCHANGED <<oracleVars, fundingVars, part>>)
    /\ WF_allVars(part = "prices" /\ (PushCycle \/ PushTimesOut) /\ UNCHANGED <<keeperVars, fundingVars, part>>)
    /\ WF_allVars(part = "prices" /\ PushExecuted /\ UNCHANGED <<keeperVars, fundingVars, part>>)
    /\ WF_allVars(part = "funding" /\ BotStep /\ UNCHANGED <<keeperVars, oracleVars, part>>)
    /\ WF_allVars(part = "funding" /\ CallExecuted /\ UNCHANGED <<keeperVars, oracleVars, part>>)
================================================================================
