SPECIFICATION FairFetchSpec
CONSTANTS
  Fetchers = {f1, f2}
  Mirrors = 2
  Good = Good
  Bad = Bad
  NoFile = NoFile
INVARIANT ReturnedIsVerified
PROPERTY FetchEnds
