SPECIFICATION FairSpec
CONSTANTS
  LogonTimeout = 10
  SelectTime = 3
  MaxUnread = 1
INVARIANTS OneLogonPerConnection LogonGivenUp
PROPERTIES KeepsLoggingOn
CHECK_DEADLOCK FALSE
