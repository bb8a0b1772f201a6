SPECIFICATION Spec
CONSTANTS
  None = None
  token = token
  collector = collector
  rewards = rewards
  alice = alice
  bob = bob
  One = 100
  Frac = 10
  MaxUint = 100000
  Accounts = {alice}
  Senders = {alice}
  Tokens = {token}
  Collectors = {collector}
  RewardsContracts = {rewards}
  InitConfigs <- DeployedConfig
  InitParams <- RateParams
  ParamMsgs = {}
  MaxUndelegationTime = 2
  Users = {alice}
  InitialBond = 5
  InitialSupply = 4
  StartTime = 3
  ChainUnbondingTime = 2
  BlockIntervals = {1}
  BondAmounts = {3}
  UnbondAmounts = {1, 3}
  RewardAmounts = {3}
  StakeSlashes = {2}
  UnbondingSlashes = {}
  Donations = {}
  MaxStake = 9
  MaxSupply = 8
  MaxBalance = 4
  MaxBatch = 1
  DefaultLimit = 2
  MaxLimit = 2
  MaxTime = 4
INVARIANTS TypeOK RateBacked StakeRecorded UndelegationCovered
PROPERTIES RateKept PegNotOvershot PausedFreezes
