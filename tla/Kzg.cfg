\* Three threads with three descriptors between them, so that loads that fail
\* and loads under way can use them up in every mixture.
CONSTANTS
  Threads = {t1, t2, t3}
  FileLimit = 3
  MaxCalls = 5
SPECIFICATION Spec
CHECK_DEADLOCK FALSE
INVARIANTS AnswersRight FilesAccounted
