CONSTANTS
    MaxLines = 3
    MaxEvents = 1
SPECIFICATION Spec
CONSTANTS SpuriousWakeup = FALSE
PROPERTY StdinResumes
INVARIANT PromptAfterResult
