SPECIFICATION FairSpec
CONSTANTS
    Tunnels = {t1}
    NoTunnel = NoTunnel
    AutoTunnels = {t1}
    EnabledTunnels = {t1}
    Clients = {cli, web}
    Handlers = {web}
    NoClient = NoClient
    Procs = {p1, p2}
    NoProc = NoProc
    Commands = {"start", "stop", "add", "vm_start", "vm_destroy"}
    Environment = {"overlap", "exit", "full", "kill"}
PROPERTIES
    EveryCommandReturns
