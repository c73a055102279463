SPECIFICATION Spec
CONSTANTS
  t1 = t1
  t2 = t2
  Threads <- MCThreads
  NoThread = NoThread
  NCallers = 2
  AnswerSize = 2
  ValueSize = 2
  MaxFd = 4
  MaxCalls <- MCCalls
  MaxFaults = 1
  MaxConns = 3
  Early = FALSE
INVARIANTS TypeOK CounterSettles OwnConnection StdinUntouched WaitsEnd
PROPERTIES AnswerIsOwn CallsAdvance CallsReturn
\* Sessions open a bounded number of sockets.
CHECK_DEADLOCK FALSE
