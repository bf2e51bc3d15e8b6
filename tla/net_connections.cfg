SPECIFICATION Spec
CONSTANTS
  Conns = {1, 2, 3}
  Nodes = {"n1", "n2", "n3"}
  Self = "self"
  Strangers = {"n2"}
  Firewalled = {"n2"}
  Seeds = {"n1"}
  Gossip = {"n3"}
  Callers = {"n1", "n2"}
  desired_number_of_connections = 1
  maximum_number_of_connections = 3
  MaxInbound = 1
  MaxChecks = 1
  MaxDisturbances = 2
  None = None
 
PROPERTIES Settles
CHECK_DEADLOCK FALSE
