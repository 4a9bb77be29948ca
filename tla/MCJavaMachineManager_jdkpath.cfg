\* Default search order (jvmsearch empty) against the abstract launch order:
\* does run() honour the JDK_HOME token of its own default order?
CONSTANTS
    a = a  b = b  c = c
    NoInst = NoInst
    Insts <- MCInsts
    ProbeVals <- MCProbeVals
    ExitOf <- MCExitOf
    EnvInst <- MCEnvInst
    RegJRE <- MCRegJRE
    RegJDK <- MCRegJDK
    MinVersion <- MCMin16
    MaxVersion <- MCNoBound
    CwdJava = c
    PathJava = c
    Bundled = NoInst
    LauncherInitExit = 0
    JvmSearch <- MCSearchUnset
    SetterArgs <- MCSetterTrue
    JViewWorks = FALSE
    EntryPoints <- MCEntryRun
    DllAnswers <- MCDllAll
    HasJavaProps = TRUE
SPECIFICATION Spec
PROPERTY LaunchOrderRefined
CHECK_DEADLOCK FALSE
