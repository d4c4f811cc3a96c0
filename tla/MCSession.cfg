\* Core run: a valid setup, a caller that stores the state after every change.
CONSTANTS
  E1 = E1  E2 = E2  P1 = P1  P2 = P2
  EEKs <- MCEEKs
  Passwords <- MCPasswords
  SetupValid = TRUE
  MaxCounter = 4
  AppSavesEveryChange = TRUE
  InternalFailures = TRUE
  EEKHelperAtomic = TRUE
  NoKey = NoKey  BadSizeKey = BadSizeKey  NoPassword = NoPassword
  NoAD = NoAD  NoPD = NoPD  NoTicket = NoTicket
SPECIFICATION Spec
VIEW StateView
SYMMETRY Symmetry
INVARIANT TypeOK
INVARIANT SessionDataConsistent
 
INVARIANT NoCounterReuse
PROPERTY FailedCallLeavesSessionIntact
PROPERTY LifecycleRefined
PROPERTY HeaderContract
