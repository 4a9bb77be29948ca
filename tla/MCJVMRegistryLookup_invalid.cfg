\* Registry contents where a sub-key name may not parse as a version,
\* checked against the order spec 4.2 prescribes.
CONSTANTS
    NoInst = NoInst
    MinVersion <- NoVersion
    MaxVersion <- NoVersion
    ExitOf = 0
    CwdJava = NoInst
    PathJava = NoInst
    LauncherInitExit = 0
    HasJavaProps = TRUE
    Insts = {a}
    Keys <- KeysWithInvalid
    MaxJRE = 2
    MaxJDK = 2
SPECIFICATION Spec
INVARIANT RegistryOrder
CHECK_DEADLOCK FALSE
