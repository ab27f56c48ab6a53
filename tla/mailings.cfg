SPECIFICATION FairSpec
CONSTANTS
  Recipients = {1, 2}
  Accounts = {1}
  loop = loop
  Manual = {m1}
  Threads = {1, 2}
  Null = Null
  MaxFaults = 1
INVARIANTS RecordsAreTrue NothingIsMailedTwice MailFollowsConsent
PROPERTIES BriefArrives
CHECK_DEADLOCK FALSE
