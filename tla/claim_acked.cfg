SPECIFICATION Spec
CONSTANTS
  FragmentsOf <- ThreeRequests
  Sigs = {s1, s2, s3, s4, s5}
  NoSig = NoSig
  MaxTries = 1
  MaxFaults = 3
INVARIANT
  AckedIsRun
