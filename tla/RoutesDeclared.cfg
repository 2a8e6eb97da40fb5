SPECIFICATION ConfigurationSpec
CONSTANTS
  e1 = e1
  d1 = d1
  h1 = h1
  t1 = t1
  r1 = r1
  m1 = m1
  o1 = o1
  pbx = pbx
  trunk = trunk
  org = org
  Thing <- Things
  Kind <- Kinds
  Shapes <- Configured
  Belongs <- Owned
  Worker = {pbx, trunk, org}
  Feed <- Feeds
  Attrs = {"auth"}
  MaxChange = 3
  MaxFailure = 1
CHECK_DEADLOCK FALSE
INVARIANT RoutesKeepGateways
