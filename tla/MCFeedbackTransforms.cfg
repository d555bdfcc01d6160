SPECIFICATION Spec
CONSTANTS
  t1 = t1
  t2 = t2
  t3 = t3
  Text = {t1, t2, t3}
  IntMax = 3
  source_id = 1
  tenant_id = 2
  topic_id = 7
  Review <- MCReview
  Conversation <- MCConversation
  Post <- MCPost
  Malformed = Malformed
  Lacking = Lacking
  nullopt = nullopt
  null = null
  MaxItems = 3
INVARIANTS
  TypeOK
  DumpDeterminesSchemas
  DumpTellsWhatWasSent
  OnlyTheTopic
CHECK_DEADLOCK FALSE
