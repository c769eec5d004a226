SPECIFICATION InputsSpec
CONSTANTS
  keyboard = keyboard
  keypad = keypad
  itf1 = itf1
  itf2 = itf2
  itf3 = itf3
  port1 = port1
  port2 = port2
  none = none
  A = A
  Devices <- MCDevices
  Interfaces <- MCInterfaces
  DeviceOf <- MCDeviceOf
  Ports <- MCPorts
  NoPort = none
  Usages <- MCUsages
  Plain <- MCPlain
  Listed <- MCListed
  Last = 1
  STACK_SIZE = 4
  Values = {0, 1, 2}
  PortNumbers = {0, 1}
  Offered <- Writing
  Literals = {1, 2}
  Shipped <- OnAnyHeight
  MaxLength = 3
  MaxSlots = 1
  None = None
SYMMETRY MCSymmetry
\* A program changed after its check may leave the stack, where its evaluation ends.
CHECK_DEADLOCK FALSE
INVARIANTS BitsAreNotShared BitTellsHeldInputs StuckOnlyByUnplugging
           StackStaysInBounds CheckIsExact PointersAreCurrent
