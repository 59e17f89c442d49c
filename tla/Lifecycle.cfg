\* Default timeouts in seconds, two decisions and one admin request.
CONSTANTS
  Decision = {d1, d2}
  Admin = {a1}
  ProposalTimeout = 3
  ShutdownTimeout = 5
SPECIFICATION FairSpec
CHECK_DEADLOCK FALSE
  
PROPERTY SignalEndsProcess
