SPECIFICATION FairSpec
CONSTANTS
  usb0 = usb0
  usb1 = usb1
  Ports <- OnePort
  Users = {"user"}
  AutoConnect = "auto"
  QueueCap = 1
  MaxOpens = 2
  MaxDisconnects = 1
  BootLines = {}
  MaxEvents = 1
PROPERTIES DisconnectReturns ReadersEnd
CHECK_DEADLOCK FALSE
