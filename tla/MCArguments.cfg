CONSTANTS
  ValueFlags <- MCValueFlags
  PlainFlags <- MCPlainFlags
  Digits <- MCDigits
  Argvs <- MCArgvs
  Lookups <- MCLookups
  KubectlCalls <- MCKubectlCalls
  VersionPairs <- MCVersionPairs
SPECIFICATION Spec
INVARIANTS TypeOK Lossless RoundTrip BestMatch ContextIsKubectls HoopFileFirst NewerIsAnOrder SemverOrder
CHECK_DEADLOCK FALSE
