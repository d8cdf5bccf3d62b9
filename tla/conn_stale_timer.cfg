SPECIFICATION Spec
CONSTANTS
  usb0 = usb0
  usb1 = usb1
  Ports <- OnePort
  Users = {"user"}
  AutoConnect = "auto"
  QueueCap = 1
  MaxOpens = 2
  MaxDisconnects = 1
  BootLines = {"ok", "start"}
  MaxEvents = 1
PROPERTY ReadyIsOwn
CHECK_DEADLOCK FALSE
