SPECIFICATION CompoundingSpec
CONSTANTS
  None = None
  token = token
  collector = collector
  rewards = rewards
  rewards2 = rewards2
  alice = alice
  bob = bob
  v1 = v1
  v2 = v2
  One = 100
  Frac = 10
  MaxUint = 100000
  Accounts = {alice}
  Senders = {}
  Tokens = {token}
  Collectors = {collector}
  RewardsContracts = {rewards}
  InitConfigs <- DeployedConfig
  InitParams <- FeeParams
  ParamMsgs = {}
  MaxUndelegationTime = 2
  Users = {alice}
  InitialBond = 3
  InitialSupply = 3
  StartTime = 3
  ChainUnbondingTime = 2
  BlockIntervals = {1}
  BondAmounts = {2}
  UnbondAmounts = {3}
  RewardAmounts = {}
  StakeSlashes = {2}
  UnbondingSlashes = {}
  Donations = {}
  MaxStake = 5
  MaxSupply = 5
  MaxBalance = 4
  MaxBatch = 1
  DefaultLimit = 2
  MaxLimit = 2
  MaxTime = 4
  Validators = {v1, v2}
  ChainValidators = {v1, v2}
  FirstValidator = v1
  HubAddress = HubAddress
  StakeSenders = {alice}
  Strangers = {}
  Accruals = {2}
  MaxRewards = 2
INVARIANTS StakeSplit StakeWhitelisted PicksMeetClaim
PROPERTIES HubImplemented OutcomeForeseen
