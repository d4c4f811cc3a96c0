\* pa2SessionTests: testBeforeActivation and testActivation in its three
\* EEK modes, each through break_in_step 0..3.
CONSTANTS
  E1 = E1  E2 = E2  P1 = P1  P2 = P2
  EEKs <- MCEEKs
  Passwords <- MCPasswords
  Password <- P1
  NewPassword <- P2
  TestEEK <- E1
  OtherEEK <- E2
  NullRef = NullRef
  NoObject = NoObject
  SetupValid = TRUE
  MaxCounter = 12
  AppSavesEveryChange = FALSE
  InternalFailures = FALSE
  EEKHelperAtomic = TRUE
  NoKey = NoKey  BadSizeKey = BadSizeKey  NoPassword = NoPassword
  NoAD = NoAD  NoPD = NoPD  NoTicket = NoTicket
SPECIFICATION TestSpec
\* A test ends after its last call.
CHECK_DEADLOCK FALSE
INVARIANT TestsConform
