\* The nexus login with every challenge table and reply of MCNexus: is
\* any %s ever given NULL?
CONSTANTS
  Null = Null
  ChallengeTables <- MCChallengeTables
  Replies <- MCReplies
SPECIFICATION Spec
INVARIANT NoNullFormatted
CHECK_DEADLOCK FALSE
