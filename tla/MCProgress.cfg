SPECIFICATION Spec
CONSTANTS
  None = None
  letter = letter
PROPERTIES
  FloodDelivers
  MailArrives
  WaitingEnds
  
CHECK_DEADLOCK FALSE
