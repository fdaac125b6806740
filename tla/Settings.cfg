SPECIFICATION SessionsSpec
CONSTANTS
  q1 = q1
  q2 = q2
  l1 = l1
  l2 = l2
  v1 = v1
  Posts = {q1, q2}
  Bodies <- SomeBodies
  Files <- SomeFiles
  MaxCrashes = 2
  Logins = {l1, l2}
  Visits = {v1}
  Names <- SomeNames
  Words <- SomeWords
  Changes = {q1}
  ChangeBodies <- AccountBodies
  ChangeFiles <- NoFile
  ChangeHabits = {TRUE}
  ChangeCrashes = 1
INVARIANTS
  SomebodyCanLogIn
  SettingsInv
  SessionsInv
SYMMETRY LoginSymmetry
CHECK_DEADLOCK FALSE
