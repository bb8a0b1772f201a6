SPECIFICATION CompoundingFairSpec
CONSTANTS
  None = None
  token = token
  collector = collector
  rewards = rewards
  rewards2 = rewards2
  alice = alice
  bob = bob
  v1 = v1
  v2 = v2
  One = 100
  Frac = 10
  MaxUint = 100000
  Accounts = {alice, bob}
  Senders = {alice}
  Tokens = {token}
  Collectors = {collector}
  RewardsContracts = {rewards, rewards2}
  InitConfigs <- CollectorMissing
  InitParams <- FeeParams
  ParamMsgs <- FeeMsgs
  MaxUndelegationTime = 2
  Users = {alice}
  InitialBond = 2
  InitialSupply = 2
  StartTime = 3
  ChainUnbondingTime = 2
  BlockIntervals = {1}
  BondAmounts = {1}
  UnbondAmounts = {}
  RewardAmounts = {}
  StakeSlashes = {}
  UnbondingSlashes = {}
  Donations = {1}
  MaxStake = 4
  MaxSupply = 3
  MaxBalance = 1
  MaxBatch = 1
  DefaultLimit = 2
  MaxLimit = 2
  MaxTime = 3
  Validators = {v1, v2}
  ChainValidators = {v1, v2}
  FirstValidator = v1
  HubAddress = HubAddress
  StakeSenders = {alice}
  Strangers = {bob}
  Accruals = {1}
  MaxRewards = 2
PROPERTIES HubImplemented OutcomeForeseen RewardsCompounded NeverUnset PausedFreezes
