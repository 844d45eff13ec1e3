SPECIFICATION Spec
CONSTANTS
  KeyWords <- MCKeyWords
  Handlers <- MCHandlers
  Requests <- MCRequests
  Calls <- MCCalls
INVARIANTS
  TypeOK
  HandlerSeesConforming
  RefusalsHaveCause
  FailuresHaveCause
  CallersTold
  ErrorsAreNotHidden
PROPERTY
  CallsSettle
