SPECIFICATION FairSpec
CONSTANTS
  p1 = p1 p2 = p2 k1 = k1 k2 = k2
  m1 = m1 m2 = m2
  c1 = c1 c2 = c2 c3 = c3 c4 = c4
  Producers <- OneProducer
  Consumers <- OneConsumer
  Messages <- OneMessage
  Conns <- ThreeConns
  MaxSize = 1
  NoConn = NoConn NoMessage = NoMessage NoEntry = NoEntry
PROPERTY NothingHangs
