SPECIFICATION ConfigSpec
CONSTANTS
  None = None
  rewards = rewards
  One = 100
  Frac = 10
  MaxUint = 100000
  Accounts = {a1, a2}
  Senders = {a1, a2}
  Tokens = {t1, t2}
  Collectors = {c1, c2}
  RewardsContracts = {rewards, r2}
  InitConfigs <- FreshConfig
  InitParams <- AdminParams
  ParamMsgs <- AdminMsgs
  MaxUndelegationTime = 2
INVARIANTS ParamsValid
