SPECIFICATION Spec
CONSTANTS
    worker = worker
    api = api
    Clients = {worker, api}
    Probers = {worker}
    Cooldown = 1
    ProbeCount = 3
    ProbeRequiredSuccesses = 2
    MaxTime = 6
    MaxProbes = 3
PROPERTIES
    OnlyOvertakenWritesDiverge
