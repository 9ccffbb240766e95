\* One started tunnel, and a regular shutdown.
SPECIFICATION Spec
CONSTANTS
    Id = {t1}
    Request = {r1}
    Port = {1}
    Main = main
    Nobody = nobody
    MaxFaults = 0
    MaxCrashes = 0
    Submitted <- PanelForms
    PortList <- MCPortList
    Form <- MCForm
    Key <- MCKey
    TopPort <- MCTopPort
    MaxPorts = 2
INVARIANTS AutoStartSurvivesShutdown
