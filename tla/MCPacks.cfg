SPECIFICATION Spec
CONSTANTS
  MqEscaped = {}
  Half = 8
INVARIANTS PacksExact ContextSound ComposeSound EntriesSound
