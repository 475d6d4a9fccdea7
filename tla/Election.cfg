SPECIFICATION ElectionSpec
CONSTANTS
  Nodes = {1, 2}
  MaxSequence = 2
  MaxTerm = 2
INVARIANT AnnouncedLeads
CHECK_DEADLOCK FALSE
