\* Two pipelined responses read in one chunk: the second is left in
\* current_data and no later read event comes for it.
CONSTANTS
  Null = Null
  Versions <- MCVersions
  BootReplies <- MCBootReplies
  BodyReplies <- MCBodyReplies
  MaxRid = 4
  MaxAnswers = 5
SPECIFICATION FairSpec
PROPERTY AllAnswersHandled
CHECK_DEADLOCK FALSE
