SPECIFICATION Spec
CONSTANTS
    i1 = i1
    i2 = i2
    e1 = e1
    e2 = e2
    e3 = e3
    dev = dev
    prod = prod
    Instances = {i1, i2}
    Ids = {e1, e2, e3}
    Envs = {dev, prod}
    Origin <- MCOrigin
    EnvOf <- MCEnvOf
    Cap = 2
    MaxOutages = 0
    MaxSilences = 0
    MaxErrors = 0
PROPERTY EveryInstanceHears
CHECK_DEADLOCK FALSE
