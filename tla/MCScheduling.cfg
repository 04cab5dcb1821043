SPECIFICATION Spec
CONSTANTS
  ann = ann
  bob = bob
  org = org
  desk = desk
  phone = phone
  NoEvent = NoEvent
  Organizer = org
  Devices = {desk, phone}
  Attendees = {ann, bob}
  Filing = {ann}
  Replies = {"ACCEPTED", "DECLINED"}
  Lists <- TwoLists
  MaxSeq = 1
  MaxRows = 2
INVARIANTS
  CopiesFollow
  AnswersAgree
PROPERTY
  OnlyOvertakenGoBack
CONSTRAINT SmallOverlaps
SYMMETRY SameDevices
CHECK_DEADLOCK FALSE
