SPECIFICATION Spec
CONSTANTS
  Consumers = {c1}
  Producers = {p1, p2}
  Events = {e1}
  AllPublishers = AllPublishers
  AllEvents = AllEvents
  Sockets = {s1, s2}
  Instances = {i1, i2}
  EchoedName = EchoedName
  Null = Null
SYMMETRY Symmetry
INVARIANTS
  RegistryIsConsistent
  WantedIsRouted
