\* Default search order: exepath may be the token that launches.
CONSTANTS
    a = a  b = b  c = c
    NoInst = NoInst
    Insts <- MCInsts
    ProbeVals <- MCProbeVals
    ExitOf <- MCExitOf
    EnvInst <- MCEnvInst
    RegJRE <- MCRegJRE
    RegJDK <- MCRegJDK
    MinVersion <- MCMin16
    MaxVersion <- MCNoBound
    CwdJava = c
    PathJava = c
    Bundled = NoInst
    LauncherInitExit = 0
    JvmSearch <- MCSearchUnset
    SetterArgs <- MCSetterTrue
    JViewWorks = FALSE
    EntryPoints <- MCEntryRun
    DllAnswers <- MCDllAll
    HasJavaProps = TRUE
SPECIFICATION Spec
INVARIANT ExitCodeFaithful
CHECK_DEADLOCK FALSE
