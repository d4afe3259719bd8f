SPECIFICATION Spec
CONSTANTS
  Greenhouses = {"g"}
  Demands = {"a", "b"}
  Ceiling = 2
  Tick = Tick
  NoPlan = NoPlan
INVARIANT SingleFlight
