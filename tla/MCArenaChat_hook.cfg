\* Two prompts, each answered, voted on, stopped or given up.
CONSTANTS
  MaxPrompts = 2
  MaxTokens = 2
SPECIFICATION Spec
INVARIANTS
  ViewIsTrue
  NextPromptContinues
CHECK_DEADLOCK FALSE
