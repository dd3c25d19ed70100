SPECIFICATION FairSpec
CONSTANTS
  Configs <- MCConfigs
  Oper = {o1, o2}
  Task = {t1}
  Secret = {s1, s2}
  Polls = 2
  MaxTroubles = 4
  Empty = Empty
  NoFile = NoFile
INVARIANTS
  ContainerTypeOK
  AdminLetIn
PROPERTIES
  CommandsEnd
  ServesAgain
