SPECIFICATION FairSpec
CONSTANTS
    usb_port_def <- Ports
    OtherPorts <- Others
    MaxListed = 3
INVARIANT OwnReader
INVARIANT WithinTable
INVARIANT InfoHandedOver
PROPERTY AllServed
CHECK_DEADLOCK FALSE
