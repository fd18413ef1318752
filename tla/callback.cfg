\* One thread, and members of the open chat change; nothing else goes wrong.
SPECIFICATION FairSpec
CONSTANTS
  main = main  worker = worker  reader = reader
  Threads = {main}
  Reader = reader
  MaxCalls <- One
  MaxNotes = 1
  NoteKinds = {"members"}
  LongAnswers = FALSE
  ServerEnds = FALSE
PROPERTY MembersUpdated
CHECK_DEADLOCK FALSE
