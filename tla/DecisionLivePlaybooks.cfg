SPECIFICATION Spec
CONSTANTS
  Scenes <- LiveScenes
  NoScene = NoScene
  Answers <- MCAnswers
  PerUnit = 10
INVARIANTS LivePlaybooksOnly
