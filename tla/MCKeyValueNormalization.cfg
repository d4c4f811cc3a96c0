\* prepareKeyValueMapForDataSigning over every map of four keys and three values.
CONSTANTS
  Keys <- MCKeys
  Values <- MCValues
SPECIFICATION Spec
\* The function returns after one call: a finished state has no successor.
CHECK_DEADLOCK FALSE
INVARIANT TypeOK
INVARIANT MatchesReference
INVARIANT NormalizationInjective
INVARIANT JNIArraysMatchReference
