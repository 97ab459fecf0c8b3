---------------------------- MODULE MCSideBySide ----------------------------
(* Six contracts and three clients of the analyser, none of which calls any of *)
(* the others, checked side by side: "system" says which of them a behaviour   *)
(* is about, and the rest stay as they were started.                           *)
EXTENDS Oracle, Bridge, Proxy, FlashLoan, GuardWrapper, CircuitBreaker,
        WatchMode, EditorSession, ScanRoute

VARIABLE system

contractVars == <<oracleVars, bridgeVars, proxyVars, flashVars, wrapperVars, breakerVars>>
clientVars == <<watchVars, editorVars, routeVars>>
allVars == <<system, contractVars, clientVars>>

SideInit ==
  /\ system \in {"oracle", "bridge", "proxy", "flashloan", "wrapper", "breaker",
                 "watch", "editor", "route"}
  /\ OracleInit /\ BridgeInit /\ ProxyInit /\ FlashInit /\ WrapperInit /\ BreakerInit
  /\ WatchInit /\ EditorInit /\ RouteInit
  /\ system # "editor" => settings.only /\ workspace.is = "soroban"
  /\ system # "proxy" => running = CHOOSE w \in Wasm : TRUE

StepOracle == system = "oracle" /\ OracleNext
  /\ UNCHANGED <<system, bridgeVars, proxyVars, flashVars, wrapperVars, breakerVars, clientVars>>
StepBridge == system = "bridge" /\ BridgeNext
  /\ UNCHANGED <<system, oracleVars, proxyVars, flashVars, wrapperVars, breakerVars, clientVars>>
StepProxy == system = "proxy" /\ ProxyNext
  /\ UNCHANGED <<system, oracleVars, bridgeVars, flashVars, wrapperVars, breakerVars, clientVars>>
StepFlash == system = "flashloan" /\ FlashNext
  /\ UNCHANGED <<system, oracleVars, bridgeVars, proxyVars, wrapperVars, breakerVars, clientVars>>
StepWrapper == system = "wrapper" /\ WrapperNext
  /\ UNCHANGED <<system, oracleVars, bridgeVars, proxyVars, flashVars, breakerVars, clientVars>>
StepBreaker == system = "breaker" /\ BreakerNext
  /\ UNCHANGED <<system, oracleVars, bridgeVars, proxyVars, flashVars, wrapperVars, clientVars>>
StepWatch == system = "watch" /\ WatchNext
  /\ UNCHANGED <<system, editorVars, routeVars, contractVars>>
StepEditor == system = "editor" /\ EditorNext
  /\ UNCHANGED <<system, watchVars, routeVars, contractVars>>
StepRoute == system = "route" /\ RouteNext
  /\ UNCHANGED <<system, watchVars, editorVars, contractVars>>

SideNext == \/ StepOracle \/ StepBridge \/ StepProxy \/ StepFlash \/ StepWrapper
            \/ StepBreaker \/ StepWatch \/ StepEditor \/ StepRoute

\* Only the watching process is promised to go on; see WatchSpec.
SideSpec == SideInit /\ [][SideNext]_allVars
            /\ WF_allVars(system = "watch" /\ WatchWork
                          /\ UNCHANGED <<system, contractVars, editorVars, routeVars>>)
=============================================================================
