SPECIFICATION Spec
CONSTANTS
  MaxTurns = 3
  MaxCount = 2
  MinThinking = 2
  Model <- MCModel
  Writable <- MCWritable
  Openings <- MCOpenings
  Answers <- MCAnswers
INVARIANTS TypeOK SpeechKept SettingsKept TargetAccepts AnswerKept CostKept
  ConversationGoesOn
CHECK_DEADLOCK FALSE
