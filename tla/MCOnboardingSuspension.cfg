SPECIFICATION Spec
CONSTANTS
  owner = owner
  grandee = grandee
  operator = operator
  bus1 = bus1
  noBus = noBus
  unknownBus = unknownBus
  h1 = h1
  h2 = h2
  Users = {owner}
  Reviewers = {grandee, operator}
  Buses = {bus1}
  NoBus = noBus
  UnknownBus = unknownBus
  Handlers = {h1}
  MaxEvents = 5
PROPERTY SuspensionLasts
