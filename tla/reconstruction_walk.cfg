SPECIFICATION Spec
CONSTANTS
  Nodes <- MCNodes
  Answerable <- MCAnswerable
  Tokens <- MCTokens
  Graphs <- MCGraphs
  Selections <- MCSelections
  MaxSteps = 3
  MaxTokens = 2
  AnswerTokens = 3
INVARIANTS WalkIsBounded WalkIsConnected
CHECK_DEADLOCK FALSE
