SPECIFICATION Spec
CONSTANTS
  KeyWords <- MCKeyWords
  Handlers <- MCHandlers
  Requests <- MCRequests
  Calls <- MCCalls
INVARIANT
  ReachesServer
