\* Every registry content of at most 3 JRE and 2 JDK sub-keys whose names
\* all parse to valid versions.
CONSTANTS
    NoInst = NoInst
    MinVersion <- NoVersion
    MaxVersion <- NoVersion
    ExitOf = 0
    CwdJava = NoInst
    PathJava = NoInst
    LauncherInitExit = 0
    HasJavaProps = TRUE
    Insts = {a}
    Keys <- ValidKeys
    MaxJRE = 3
    MaxJDK = 2
SPECIFICATION Spec
INVARIANTS TypeOK RegistryOrder SearchFindsEachMatch
CHECK_DEADLOCK FALSE
