SPECIFICATION Spec
CONSTANTS
    plc1 = plc1
    plc2 = plc2
    net1 = net1
    net2 = net2
    user = user
    router = router
    None = None
    Conn = {plc1, plc2}
    Thread = {user, router}
    Owner <- OneOwner
    NetId = {net1, net2}
    KnownNetId <- Known
    PlcNetId <- Found
    port1 = port1
    port2 = port2
    Port = {port1, port2}
    MaxFailed = 1
    MaxHandle = 2
    Linux = TRUE
    MayRefuse = {"lookup", "port_open", "route", "port_close", "handle", "access", "release"}
INVARIANTS
    TypeOK
    PortsAccounted
    RoutesMatch
    HandlesReturned
    UserHandlesStay
SYMMETRY Alike
CHECK_DEADLOCK FALSE
