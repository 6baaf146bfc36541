\* The listener and its two children, as creatRtspListener makes them.
SPECIFICATION FairSpec
CONSTANTS
  rtp = rtp
  rtcp = rtcp
  Parent = Parent
  Children = {rtp, rtcp}
INVARIANTS TypeOK NobodyLeftTooSoon
PROPERTIES FamilyCloses
CHECK_DEADLOCK FALSE
