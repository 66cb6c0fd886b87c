SPECIFICATION Spec
CONSTANTS
  Scenes <- MCScenes
  NoScene = NoScene
  Answers <- MCAnswers
  PerUnit = 10
INVARIANTS TypeOK OrderWithinRisk ProtectiveStops PolicyAnswersForGovernor FailsClosed LiveNeedsMemory
