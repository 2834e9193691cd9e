SPECIFICATION Spec
CONSTANTS
  Consumers = {c1}
  Producers = {p1}
  Events = {e1}
  AllPublishers = AllPublishers
  AllEvents = AllEvents
  Sockets = {s1, s2, s3}
  Instances = {i1}
  EchoedName = EchoedName
  Null = Null
SYMMETRY Symmetry
INVARIANT
  SubscriptionsAreNeverEvicted
