\* One plan per ranking for two siblings and a statement in another database.
SPECIFICATION Spec
CONSTANTS
  d1 = d1
  d2 = d2
  d3 = d3
  db1 = db1
  db2 = db2
  Engines = {"mysql", "postgresql"}
  Digests = {d1, d2, d3}
  Databases = {db1, db2}
  DatabaseOf <- MCDatabaseOf
  KeyOf <- MCKeyOf
  Quota = 1
  Home = Home
  NoDatabase = NoDatabase
  NoDigest = NoDigest
INVARIANTS ExplainedInItsDatabase EachTextAtMostTwice EveryStatementAnswered CleanSessions
PROPERTIES SingleDropAbsorbed PassEnds
CHECK_DEADLOCK FALSE
