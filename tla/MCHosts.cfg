SPECIFICATION HostsSpec
CONSTANTS
  Parts = {"v0_state", "v0_actions", "v1_interrupts", "v1_sequences", "v1_words", "v1_output", "v1_calls", "handles"}
  Handles = {h1, h2, h3}
  Tries = {1, 2, 3}
  Contents = {Empty, x}
  Empty = Empty
  None = None
  MaxGenerations = 2
INVARIANTS WordsAreUnderstood HostKeepsAccount ValidHandlesFindTheirState
PROPERTIES MemoryOutsideIsUntouched FreezeKeepsContents
CHECK_DEADLOCK FALSE
