SPECIFICATION Spec
CONSTANTS
    Routes = {r1}
    Nil = Nil
    Services <- TwoServices
    Canaries <- PatientCanaries
    ProbeTimeout = 1
    MaxNow = 2
    MaxEdits = 0
    MaxCrashes = 0
PROPERTIES RollbackAsDocumented
