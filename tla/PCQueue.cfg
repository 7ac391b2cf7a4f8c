\* Two producers and two consumers on a ring of two slots.
SPECIFICATION QueueFairSpec
CONSTANTS
  p1 = p1
  p2 = p2
  k1 = k1
  k2 = k2
  a = a
  b = b
  Nothing = Nothing
  Producers <- TwoProducers
  Consumers <- TwoConsumers
  Values <- TwoValues
  Size = 2
  MaxProduced = 4
INVARIANTS SlotsAccountedFor
PROPERTIES ImplementsBuffer EverythingConsumed
