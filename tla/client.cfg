\* Two threads, any notifications, long answers, a server that closes.
SPECIFICATION FairSpec
CONSTANTS
  main = main  worker = worker  reader = reader
  Threads = {main, worker}
  Reader = reader
  MaxCalls <- TwoAndOne
  MaxNotes = 1
  NoteKinds = {"message", "members"}
  LongAnswers = TRUE
  ServerEnds = TRUE
INVARIANTS TypeOK FreshAnswer
PROPERTIES OwnAnswer CallsReturn
CHECK_DEADLOCK FALSE
