SPECIFICATION Spec
CONSTANTS
  Imap = {s1}
  Pop = {p1}
  Web = {w1}
  Boxes = {"INBOX"}
  Inbox = "INBOX"
  Flags = {"Seen", "Deleted"}
  Choices <- OneFlag
  MaxRows = 3
  Span = 1
INVARIANTS UidsFollowArrival DeletedWasMarked
PROPERTY OthersKeepFlags
CHECK_DEADLOCK FALSE
