SPECIFICATION Spec
CONSTANTS
  c1 = c1
  c2 = c2
  d1 = d1
  Conns <- MCOneConn
  Datagrams <- MCDatagrams
  MaxFd = 4
  MaxStarts = 2
PROPERTIES UdpLoopEnds ConnectionReleasesStop
\* A stopped proxy need not be started again.
CHECK_DEADLOCK FALSE
