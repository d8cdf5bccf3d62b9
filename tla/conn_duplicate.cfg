SPECIFICATION Spec
CONSTANTS
  usb0 = usb0
  usb1 = usb1
  Ports <- TwoPorts
  Users = {"user"}
  AutoConnect = "auto"
  QueueCap = 1
  MaxOpens = 2
  MaxDisconnects = 1
  BootLines = {}
  MaxEvents = 0
SYMMETRY PortSymmetry
INVARIANT NoDuplicateConnect
CHECK_DEADLOCK FALSE
