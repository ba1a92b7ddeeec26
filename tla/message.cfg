SPECIFICATION FairSpec
CONSTANTS
  Talks <- AllTalks
  Answers <- AllAnswers
  None = None
INVARIANTS TypeOK Delivered LoadedIsSent ReadsWithin OnlyLossConfuses
PROPERTIES ConversationEnds ExchangeOnly
\* A conversation that has ended takes no step.
CHECK_DEADLOCK FALSE
