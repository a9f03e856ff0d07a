SPECIFICATION Spec
CONSTANTS
  tab = tab  script = script  other = other
  Wallets = {tab}
  Scripts = {script, other}
  MaxSessions = 4
  MaxVaults = 2
  MaxRestarts = 1
CHECK_DEADLOCK FALSE
SYMMETRY MCSymmetry
INVARIANTS
  WalletTypeOK
  OnlyProvenKeysOwnVaults
  HeldVaultHasHeldKeys
  EveryVaultIsItsOwners
