SPECIFICATION Spec
CONSTANTS
  w1 = w1
  w2 = w2
  w3 = w3
  c1 = c1
  c2 = c2
  i1 = i1
  i2 = i2
  i3 = i3
  Workers <- ThreeWorkers
  Callers <- TwoCallers
  Items <- ThreeItems
  Owner = Owner
  NoItem = NoItem
  Nobody = Nobody
INVARIANTS
  DispatchHasItem
  NoIdleWorkerWhileBacklog
PROPERTIES
  ImplementsWorkQueue
  DestructorReturns
