SPECIFICATION FairSpec
CONSTANTS
  Package <- MCPackage
  Corrupt <- MCCorrupt
  ReadSize = 6
  MaxPackages = 2
  Session = {s1, s2}
  OtherCaller = {"handler"}
INVARIANT TypeOK
PROPERTIES ImplementsPackageStream SentIsHandled CloseReturns SessionsAreTold
CHECK_DEADLOCK FALSE
