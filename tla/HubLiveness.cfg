SPECIFICATION FairSpec
CONSTANTS
  None = None
  token = token
  collector = collector
  rewards = rewards
  alice = alice
  bob = bob
  One = 100
  Frac = 10
  MaxUint = 100000
  Accounts = {alice}
  Senders = {}
  Tokens = {token}
  Collectors = {collector}
  RewardsContracts = {rewards}
  InitConfigs <- DeployedConfig
  InitParams <- BatchParams
  ParamMsgs = {}
  MaxUndelegationTime = 2
  Users = {alice, bob}
  InitialBond = 9
  InitialSupply = 9
  StartTime = 3
  ChainUnbondingTime = 2
  BlockIntervals = {1}
  BondAmounts = {}
  UnbondAmounts = {3}
  RewardAmounts = {4}
  StakeSlashes = {}
  UnbondingSlashes = {}
  Donations = {}
  MaxStake = 13
  MaxSupply = 8
  MaxBalance = 4
  MaxBatch = 2
  DefaultLimit = 2
  MaxLimit = 2
  MaxTime = 8
PROPERTIES EventuallyPaid
