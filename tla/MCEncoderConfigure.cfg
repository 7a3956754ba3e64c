\* Five configurations, three port definitions, one restart.
CONSTANTS
    Configs <- SmallConfigs
    PortDefs <- SmallPortDefs
    MaxStarts = 2
SPECIFICATION Spec
INVARIANTS
    SuccessIsConfigured
    HeadersFit
\* The last start of the bound is the end.
CHECK_DEADLOCK FALSE
