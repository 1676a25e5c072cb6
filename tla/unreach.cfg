SPECIFICATION Spec
CONSTANTS
  main = main  topic = topic
  Commit = {1, 2, 3, 4}
  Parents <- Diamond
  Ref = {main, topic}
  Origin = {2}
  Retreats = TRUE
SYMMETRY Alike
INVARIANTS DeadIsDead FileIsSound
