SPECIFICATION Spec
CONSTANTS
  None = None
  token = token
  collector = collector
  rewards = rewards
  alice = alice
  bob = bob
  One = 100
  Frac = 10
  MaxUint = 100000
  Accounts = {alice}
  Senders = {}
  Tokens = {token}
  Collectors = {collector}
  RewardsContracts = {rewards}
  InitConfigs <- DeployedConfig
  InitParams <- LateParams
  ParamMsgs = {}
  MaxUndelegationTime = 2
  Users = {alice, bob}
  InitialBond = 10
  InitialSupply = 8
  StartTime = 3
  ChainUnbondingTime = 2
  BlockIntervals = {1}
  BondAmounts = {}
  UnbondAmounts = {2, 4}
  RewardAmounts = {}
  StakeSlashes = {}
  UnbondingSlashes = {}
  Donations = {}
  MaxStake = 10
  MaxSupply = 8
  MaxBalance = 4
  MaxBatch = 2
  DefaultLimit = 2
  MaxLimit = 2
  MaxTime = 10
PROPERTIES ArrivalsKept
