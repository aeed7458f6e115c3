SPECIFICATION FairSpec
CONSTANTS
  Tasks = {t1}
  TypeIDs = {0, 1, 4, 5, 6, 7, 9}
  Runs = {r1, r2}
  Agents <- LocalAndManaged
  CommandExits = {0, 6, 7}
INVARIANTS SuccessIsEarned RolledBackIsFailure
PROPERTIES StartedIsReported
