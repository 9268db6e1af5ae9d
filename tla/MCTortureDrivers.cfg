SPECIFICATION Spec
CONSTANTS
  Readers = {3, 4}
  Updaters = {1, 2}
  Slots = 2
  MaxOps = 2
INVARIANTS NoFalseAlarm DrainedAtReturn NoRecordBeforeItsTime MazeIsTree AnswerRight NobodyWaitsInVain
PROPERTY TestEnds
