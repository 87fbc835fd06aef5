SPECIFICATION Spec
CONSTANTS
    Workloads <- MCWorkloads
    Settings <- MCSettings
    Known <- MCKnown
    Estimates <- MCEstimates
    Uninitialised = {0, 7}
    TextOrder <- MCTextOrder
INVARIANT ResultNamesSubquery
