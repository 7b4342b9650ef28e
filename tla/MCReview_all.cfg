\* One incident in two versions, two use cases, one restart, one failure.
SPECIFICATION FairSpec
CONSTANTS
  i1 = i1
  w1 = w1
  w2 = w2
  Workers = {w1, w2}
  Incidents = {i1}
  NoIncident = NoIncident
  MaxVersion = 1
  MaxSwitches = 1
  MaxFaults = 1
INVARIANTS ApprovedImpliesRecorded RecordedOrMuted
PROPERTIES VerdictsStand RejectionSettles
