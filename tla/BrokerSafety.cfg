SPECIFICATION Spec
CONSTANTS
  p1 = p1 p2 = p2 k1 = k1 k2 = k2
  m1 = m1 m2 = m2
  c1 = c1 c2 = c2 c3 = c3 c4 = c4
  Producers <- OneProducer
  Consumers <- TwoConsumers
  Messages <- TwoMessages
  Conns <- FourConns
  MaxSize = 2
  NoConn = NoConn NoMessage = NoMessage NoEntry = NoEntry
SYMMETRY ConnSymmetry
INVARIANTS TypeOK OnePlace ConfirmedIsStored LostOnlyIfAbandoned InOrder BoundedOvershoot
PROPERTY ImplementsContract
