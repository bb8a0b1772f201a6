------------------------------ MODULE HubConfig ------------------------------
(***************************************************************************)
(* The administrative state of the hub contract: who is admin, the pause   *)
(* switch, the addresses it works with and its economic parameters, with   *)
(* the messages that change them.                                          *)
(***************************************************************************)
EXTENDS FixedPoint

CONSTANTS
  Accounts,         \* addresses that may be, or claim to be, the admin
  Senders,          \* accounts that send administrative messages in this run
  Tokens,           \* cw20 contracts that may be registered
  Collectors,       \* addresses that may collect the protocol fee
  RewardsContracts, \* rewards contracts named at instantiation or migration
  None,             \* an Option that is not set
  InitConfigs,      \* CONFIG at the start: instantiated, or already deployed
  InitParams,       \* PARAMETERS an InstantiateMsg may carry
  ParamMsgs,        \* UpdateParams messages: a value or None per parameter
  MaxUndelegationTime \* MAINNET_UNDELEGATION_TIME

VARIABLES
  admin,   \* ADMIN
  paused,  \* PAUSE
  config,  \* CONFIG
  params   \* PARAMETERS

configVars == <<admin, paused, config, params>>

ConfigType ==
  [token_contract_registered : BOOLEAN,
   token_contract : Tokens \cup {None},
   protocol_fee_collector : Collectors \cup {None},
   rewards_contract : RewardsContracts]

ParamFields ==
  {"epoch_period", "unbonding_period", "peg_recovery_fee", "er_threshold",
   "protocol_fee"}

(* CONFIG as instantiate stores it, and as the deployment's first          *)
(* UpdateConfig leaves it.                                                 *)
Instantiated(c) ==
  /\ ~c.token_contract_registered
  /\ c.token_contract = None
  /\ c.protocol_fee_collector = None
Deployed(c) == c.token_contract_registered /\ c.token_contract # None

ASSUME ConfigAssumption ==
  /\ Senders \subseteq Accounts
  /\ None \notin Nat
  /\ None \notin Tokens \cup Collectors
  /\ InitConfigs \subseteq {c \in ConfigType : Instantiated(c) \/ Deployed(c)}
  /\ InitParams \subseteq [ParamFields -> Nat]
  /\ ParamMsgs \subseteq [ParamFields -> Nat \cup {None}]
  /\ MaxUndelegationTime \in Nat

-----------------------------------------------------------------------------
(* Faulty variants of the definitions below, which the properties must     *)
(* tell from the real ones.                                                *)
PauseIgnored == TRUE
MigrateForgetting(rewards_contract) ==
  /\ config' = [token_contract_registered |-> FALSE,
                token_contract |-> config.token_contract,
                protocol_fee_collector |-> None,
                rewards_contract |-> rewards_contract]
  /\ UNCHANGED <<admin, paused, params>>
-----------------------------------------------------------------------------

(* is_contract_paused lets the message through.                            *)
NotPaused == ~paused

(* instantiate.  validate_params builds its errors without returning them, *)
(* so every InstantiateMsg is accepted.                                    *)
ConfigInit ==
  /\ admin \in Accounts
  /\ paused = FALSE
  /\ config \in InitConfigs
  /\ params \in InitParams

Pause(sender) ==
  /\ sender = admin
  /\ paused' = TRUE
  /\ UNCHANGED <<admin, config, params>>

Unpause(sender) ==
  /\ sender = admin
  /\ paused' = FALSE
  /\ UNCHANGED <<admin, config, params>>

UpdateAdmin(sender, account) ==
  /\ NotPaused
  /\ sender = admin
  /\ admin' = account
  /\ UNCHANGED <<paused, config, params>>

TokenUpdatable(token) == ~(token # None /\ config.token_contract_registered)

(* A registered token contract cannot be changed; the attempt fails the    *)
(* whole message, the collector included.                                  *)
UpdateConfig(sender, token, collector) ==
  /\ NotPaused
  /\ sender = admin
  /\ TokenUpdatable(token)
  /\ config' = [config EXCEPT
       !.token_contract = IF token # None THEN token ELSE @,
       !.token_contract_registered = @ \/ token # None,
       !.protocol_fee_collector = IF collector # None THEN collector ELSE @]
  /\ UNCHANGED <<admin, paused, params>>

UpdateParams(sender, msg) ==
  /\ NotPaused
  /\ sender = admin
  /\ params' = [f \in ParamFields |-> IF msg[f] # None THEN msg[f] ELSE params[f]]
  /\ UNCHANGED <<admin, paused, config>>

(* migrate, run by the chain on behalf of the contract's migration admin:  *)
(* the configuration is rewritten from its legacy fields.                  *)
Migrate(rewards_contract) ==
  /\ config' = [token_contract_registered |-> FALSE,
                token_contract |-> config.token_contract,
                protocol_fee_collector |-> config.protocol_fee_collector,
                rewards_contract |-> rewards_contract]
  /\ UNCHANGED <<admin, paused, params>>

ConfigNext ==
  \E sender \in Senders :
    \/ Pause(sender)
    \/ Unpause(sender)
    \/ \E account \in Accounts : UpdateAdmin(sender, account)
    \/ \E token \in Tokens \cup {None}, collector \in Collectors \cup {None} :
         UpdateConfig(sender, token, collector)
    \/ \E msg \in ParamMsgs : UpdateParams(sender, msg)

ConfigMigrate == \E rc \in RewardsContracts : Migrate(rc)

ConfigSpec == ConfigInit /\ [][ConfigNext \/ ConfigMigrate]_configVars

-----------------------------------------------------------------------------
ConfigTypeOK ==
  /\ admin \in Accounts
  /\ paused \in BOOLEAN
  /\ config \in ConfigType
  /\ params \in [ParamFields -> Nat]

(* A registered token contract is never replaced, as the error text of     *)
(* config.rs:58 says.                                                      *)
TokenKept ==
  [][config.token_contract_registered
       => config'.token_contract_registered
            /\ config'.token_contract = config.token_contract]_configVars

(* Once set, the token contract and the fee collector stay set through any *)
(* sequence of updates and migrations: bond, unbond and compounding, which *)
(* fail without them, are never cut off by an administrative message.      *)
NeverUnset ==
  [][/\ config.token_contract # None => config'.token_contract # None
     /\ config.protocol_fee_collector # None
          => config'.protocol_fee_collector # None]_configVars

(* The limits validate_params states.                                      *)
ParamsValid ==
  /\ params.epoch_period <= MaxUndelegationTime
  /\ params.er_threshold >= One
  /\ params.protocol_fee <= One
  /\ params.unbonding_period <= MaxUndelegationTime
=============================================================================
