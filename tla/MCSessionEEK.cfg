\* EEK layers of the stored keys against the usesExternalKey flag.
CONSTANTS
  E1 = E1  E2 = E2  P1 = P1  P2 = P2
  EEKs <- MCEEKsOne
  Passwords <- MCPasswordsOne
  SetupValid = TRUE
  MaxCounter = 2
  AppSavesEveryChange = TRUE
  InternalFailures = FALSE
  EEKHelperAtomic = TRUE
  NoKey = NoKey  BadSizeKey = BadSizeKey  NoPassword = NoPassword
  NoAD = NoAD  NoPD = NoPD  NoTicket = NoTicket
SPECIFICATION Spec
VIEW StateView
INVARIANT EEKProtectionConsistent
