---------------------------- MODULE MCPerpEngine ----------------------------
(***************************************************************************)
(* Small instances of PerpEngine.  The engine is account 1, one account is  *)
(* insurance fund and fee recipient, one the funding pool, the others trade.*)
(* A unit of size is worth its price, BPS is 10, and the initial and        *)
(* maintenance margins are 5/10 and 4/10 of the notional.                   *)
(***************************************************************************)
EXTENDS PerpEngine

VARIABLE scene      \* which of the two instances below a behaviour belongs to

sceneVars == <<vars, scene>>

MCConfig ==
    [m \in 1..MarketCount |->
        [initialMarginBps |-> 5, maintenanceMarginBps |-> 4, maxPositionSize |-> 4,
         fundingIntervalSecs |-> 1]]

\* The traders have 8 units each, 1 in the insurance fund, 1 in the funding pool.
MCBalances == [a \in 1..N |-> CASE a = 1 -> 0 [] a \in {2, 3} -> 1 [] OTHER -> 8]
MCSizeDeltas == {2, -4}

MCCredits == [a \in 1..N |-> 0]

\* Every optional check is switched off: no caps, no exposure limit, no price impact.
Plain == [maxPriceAge |-> 1, maxExposureBps |-> 0, oiSkewCapBps |-> 10, reserveFactorBps |-> 0,
          oiCap |-> [m \in 1..MarketCount |-> 0],
          impactFactorBps |-> [m \in 1..MarketCount |-> 0],
          windowSecs |-> 1, thresholdBps |-> 5, cooldown |-> 1]

MCInitialParams == {Plain}
MCNoParams == <<>>
MCParamSets == [maxPriceAge |-> {0}, maxExposureBps |-> {5}, oiSkewCapBps |-> {5},
                reserveFactorBps |-> {5}]
MCMarketParamSets == [oiCap |-> {3}, impactFactorBps |-> {5}]

\* Breaker settings of the owner, and parameters with every check switched on.
MCBreakerParams == {[windowSecs |-> 0, thresholdBps |-> 10, cooldown |-> 0]}

\* A tier list that asks more of positions than the flat rates.
MCTiers == {<<[maxNotional |-> 2, initialMarginBps |-> 6, maintenanceMarginBps |-> 5],
              [maxNotional |-> 0, initialMarginBps |-> 10, maintenanceMarginBps |-> 8]>>}

\* Two traders with isolated margin in one market, with margin tiers, a moving index
\* price and no one but them touching the vault: four calls.
IsolatedScene ==
    /\ ~markets[2].exists
    /\ markets[1].exists => markets[1].active
    /\ \A a \in Traders : marginMode[a] = "ISOLATED"
    /\ tierHistory[2] = <<>>
    /\ params = Plain
    /\ SumTo(balances, N) = SumTo(InitialBalances, N)

\* One trader over two markets in both margin modes, with withdrawals from the vault and
\* each setter of the owner once; the engine is never paused, and the second market is
\* added second and never charges funding: three calls.
CrossScene ==
    /\ calls < MaxCalls /\ ~paused
    /\ markets[2].exists => markets[1].exists
    /\ markets[2].cumulativeFunding = 0
    /\ \A m \in Markets :
           /\ tierHistory[m] = <<>>
           /\ markets[m].indexPrice \in {0, 3}

SceneInit == Init /\ scene \in {"isolated", "cross"}

IsolatedNext == scene = "isolated" /\ Next /\ IsolatedScene'

CrossNext ==
    /\ scene = "cross"
    /\ \/ TraderStep(4)
       \/ \E keeper \in Keepers : KeeperStep(keeper)
       \/ \E m \in Markets : MarketStep(m)
       \/ params = Plain /\ OwnerStep
       \/ Tick
    /\ CrossScene'

SceneNext == (IsolatedNext \/ CrossNext) /\ UNCHANGED scene
SceneSpec == SceneInit /\ [][SceneNext]_sceneVars
=============================================================================
