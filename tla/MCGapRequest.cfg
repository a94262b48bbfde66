SPECIFICATION Spec
CONSTANTS
  Hold = 2
  Window = 2
  Levels = 3
  Garbage <- MCGarbage
INVARIANT OneStepPerPress
PROPERTIES ModeAsKept RequestRules
