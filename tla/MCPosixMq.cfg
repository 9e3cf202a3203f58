SPECIFICATION Spec
CONSTANTS
  a = a
  b = b
  c = c
  t1 = t1
  t2 = t2
  t3 = t3
  Tasks = {t1, t2, t3}
  Messages = {a, b, c}
  Prio <- MCPrio
  MaxMsg = 2
  StaticPrio <- MCStaticPrio
  None = None
INVARIANTS
  MqWaiters
  NotifyNotMissed
PROPERTIES
  ImplementsPrioQueue
CHECK_DEADLOCK FALSE
