\* Threads sharing one PA2ECIESEncryptor, through both encryption paths.
CONSTANTS
  T1 = T1
  T2 = T2
  T3 = T3
  Threads <- MCThreads
  MaxEncryptions = 5
  None = None
SPECIFICATION Spec
SYMMETRY ThreadSymmetry
\* Every thread ends idle once the envelope keys of the bound are drawn.
CHECK_DEADLOCK FALSE
INVARIANT TypeOK
INVARIANT ResponseDecrypts
