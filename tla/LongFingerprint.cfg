SPECIFICATION Spec
CONSTANTS
  n = 3
  FpLen = {17}
  Used <- Around
  Sample <- TwoFingerprints
INVARIANT TestBucket
