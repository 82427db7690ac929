SPECIFICATION FairSpec
CONSTANTS
  Deliveries = {d1, d2}
  Posts = {p1, p2, p3}
  Faults = {"invalid", "step", "expire"}
INVARIANT TypeOK
INVARIANT OneTaskPerDelivery
PROPERTY AnsweredIsHandled
CHECK_DEADLOCK FALSE
