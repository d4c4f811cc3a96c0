\* getActivationIdentifier() racing the other native methods of the object.
CONSTANTS
  E1 = E1  P1 = P1
  EEKs <- MCEEKs
  Passwords <- MCPasswords
  UnlockKeys <- MCUnlockKeys
  FactorInputs <- MCFactorInputs
  Requests <- MCRequests
  SetupValid = TRUE
  MaxCounter = 2
  AppSavesEveryChange = FALSE
  InternalFailures = FALSE
  EEKHelperAtomic = TRUE
  NoKey = NoKey  BadSizeKey = BadSizeKey  NoPassword = NoPassword
  NoAD = NoAD  NoPD = NoPD  NoTicket = NoTicket  NULL = NULL
SPECIFICATION RaceSpec
VIEW RaceView
INVARIANT JActivationIdentifierNullOrId
