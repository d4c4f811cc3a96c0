\* ProtectSignatureKeysWithEEK failing half way, on the biometry key.
CONSTANTS
  E1 = E1  E2 = E2  P1 = P1  P2 = P2
  EEKs <- MCEEKsOne
  Passwords <- MCPasswordsOne
  SetupValid = TRUE
  MaxCounter = 2
  AppSavesEveryChange = TRUE
  InternalFailures = TRUE
  EEKHelperAtomic = FALSE
  NoKey = NoKey  BadSizeKey = BadSizeKey  NoPassword = NoPassword
  NoAD = NoAD  NoPD = NoPD  NoTicket = NoTicket
SPECIFICATION Spec
VIEW StateView
PROPERTY FailedCallLeavesSessionIntact
