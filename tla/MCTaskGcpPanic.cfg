SPECIFICATION FairSpec
CONSTANTS
  Tasks = {t1}
  TypeIDs = {4, 5}
  Runs = {r1}
  Agents <- CloudSQL
  CommandExits = {0, 6, 7}
PROPERTIES StartedIsReported
