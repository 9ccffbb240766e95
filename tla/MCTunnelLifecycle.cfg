\* Two tunnels, two concurrent requests, one failed save and one crash.
SPECIFICATION FairSpec
CONSTANTS
    Id = {t1, t2}
    Request = {r1, r2}
    Port = {1}
    Main = main
    Nobody = nobody
    MaxFaults = 1
    MaxCrashes = 1
    Submitted <- PanelForms
    PortList <- MCPortList
    Form <- MCForm
    Key <- MCKey
    TopPort <- MCTopPort
    MaxPorts = 2
INVARIANTS StatusAgrees AnswersSurvive AutoStartRecorded PortsParsed SavedIsUsable
PROPERTY OperationsEnd
