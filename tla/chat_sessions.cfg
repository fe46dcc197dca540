\* Five chats of one session, enough to fill its window, and a completion.
SPECIFICATION Spec
CONSTANTS
  Requests <- MCRequests
  Rpc <- MCRpc
  SessionOf <- MCSessionOf
  PermsOf <- MCPermsOf
  CallersOf <- MCCallersOf
  MaxTurns = 2
INVARIANTS
  PromptUpToDate
  WholeExchanges
PROPERTIES
  ChatsAnswered
CHECK_DEADLOCK FALSE
