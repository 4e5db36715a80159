CONSTANTS
  MaxByte = 255
  App <- MCApp
  Keys <- MCKeys
  Prefix <- MCPrefix
  Stores <- MCStores
  Programs <- MixedPrograms
  Built <- MCBuilt
  Kinds = {"PartialMap"}
  None = None
  Address = {1, 2, 3}
  Unit = 16
  MIN_FEE = 1
  NONCE_INCREASE_LIMIT = 2
  Genesis <- MCGenesis
  faucet <- MCfaucet
  FaucetAccount = 3
  Wallet = 1
  Calls <- MCCalls
  Others <- MCOthers
  mem_snapshots = 2
  MaxHeight = 3
  MaxTxs = 1
  MaxNonce = 1
  MaxCalls = 2
SPECIFICATION MCSpec
INVARIANTS MissingDataIsFetched
CHECK_DEADLOCK FALSE
