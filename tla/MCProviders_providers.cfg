SPECIFICATION FairSpec
CONSTANTS
  voyage = voyage
  cohere = cohere
  Name = {n1}
  Kind = {voyage, cohere}
  Other = Other
  Var = {v, w}
  Limit <- MCLimit
  Fallback = 4
  Sizes <- MCSizes
  Task = {t1, t2}
  NoName = NoName
  NoRow = NoRow
INVARIANTS
  ProvidersTypeOK
  BenchFits
PROPERTIES
  ImplementsDirectory
  StartsAgain
