SPECIFICATION Spec
CONSTANTS
    Profile = {p, q}
    None = None
    Os = {windows, linux}
    Machine = {m1, m2, m3}
    MaxVersion = 2
SYMMETRY Symmetry
INVARIANT TypeOK
INVARIANT OwnMachine
INVARIANT AgentMatchesMachine
PROPERTY HealthyMachineStays
