SPECIFICATION Spec
CONSTANTS
    Tunnels = {t1, t2, t3}
    NoTunnel = NoTunnel
    AutoTunnels = {t1}
    EnabledTunnels = {t1, t2}
    Clients = {cli, web}
    Handlers = {web}
    NoClient = NoClient
    Procs = {p1, p2, p3}
    NoProc = NoProc
    Commands = {"start", "stop", "add", "remove", "start_all", "stop_all", "vm_start", "vm_stop"}
    Environment = {"exit"}
SYMMETRY Symmetry
INVARIANTS
    TypeOK
    Tracked
    LiveConfigured
PROPERTIES
    StopAllStops
    SkipsOnlyOwn
