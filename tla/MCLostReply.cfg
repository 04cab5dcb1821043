SPECIFICATION Spec
CONSTANTS
  ann = ann
  bob = bob
  org = org
  desk = desk
  phone = phone
  NoEvent = NoEvent
  Organizer = org
  Devices = {desk}
  Attendees = {ann, bob}
  Filing = {ann, bob}
  Replies = {"ACCEPTED"}
  Lists <- NonemptyLists
  MaxSeq = 1
  MaxRows = 1
PROPERTY MergeLeavesOthers
CHECK_DEADLOCK FALSE
