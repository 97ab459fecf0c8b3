--------------------------- MODULE CircuitBreaker ---------------------------
(* src/my-contract: a library state with an emergency shutdown. Every          *)
(* operation takes the state and its caller; a refused one changes nothing.    *)
EXTENDS Naturals

CONSTANTS Caller,       \* the keys that call
          BreakerAdmin, \* ContractState::admin
          MaxBalance    \* u64::MAX, where checked_add refuses

ASSUME BreakerAssumption == MaxBalance \in Nat

VARIABLES shutdown, balance, data

breakerVars == <<shutdown, balance, data>>

\* ContractState::new
BreakerInit == shutdown = "Active" /\ balance = 0 /\ data = 0

RequireActive == shutdown = "Active"

Pause(caller) == caller = BreakerAdmin /\ RequireActive
                 /\ shutdown' = "Paused" /\ UNCHANGED <<balance, data>>
EmergencyShutdown(caller) == caller = BreakerAdmin
                 /\ shutdown' = "Emergency" /\ UNCHANGED <<balance, data>>
\* Unpausing from any state that is not active.
UnpauseAny(caller) == caller = BreakerAdmin /\ ~RequireActive
                 /\ shutdown' = "Active" /\ UNCHANGED <<balance, data>>
Unpause(caller) == caller = BreakerAdmin /\ shutdown = "Paused"
                 /\ shutdown' = "Active" /\ UNCHANGED <<balance, data>>

BreakerDeposit(n) == RequireActive /\ balance + n <= MaxBalance
              /\ balance' = balance + n /\ UNCHANGED <<shutdown, data>>
BreakerWithdraw(n) == RequireActive /\ n <= balance
              /\ balance' = balance - n /\ UNCHANGED <<shutdown, data>>
UpdateData(d) == RequireActive /\ data' = d /\ UNCHANGED <<shutdown, balance>>

BreakerNext ==
  \/ \E c \in Caller : Pause(c) \/ EmergencyShutdown(c) \/ Unpause(c)
  \/ \E n \in 1..MaxBalance : BreakerDeposit(n) \/ BreakerWithdraw(n)
  \/ \E d \in 0..2 : UpdateData(d)

BreakerSpec == BreakerInit /\ [][BreakerNext]_breakerVars

BreakerTypeOK == shutdown \in {"Active", "Paused", "Emergency"}
                 /\ balance \in 0..MaxBalance /\ data \in 0..2

(* While the contract is paused or shut down nothing it holds changes, and an  *)
(* emergency shutdown is final: no sequence of calls lifts it (require_active, *)
(* unpause, emergency_shutdown).                                               *)
ShutdownHolds ==
  [][/\ shutdown # "Active" => balance' = balance /\ data' = data
     /\ shutdown = "Emergency" => shutdown' = "Emergency"]_breakerVars
=============================================================================
