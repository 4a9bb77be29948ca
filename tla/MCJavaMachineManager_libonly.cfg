\* A registry JRE with RuntimeLib but no JavaHome, exe before DLL: is the
\* runtime runProc starts the one whose version was checked?
CONSTANTS
    a = a  b = b  c = c
    NoInst = NoInst
    Insts <- MCInsts
    ProbeVals <- MCProbeVals
    ExitOf <- MCExitOf
    EnvInst <- MCEnvInst
    RegJRE <- MCRegJRELibOnly
    RegJDK <- MCRegJDK
    MinVersion <- MCMin16
    MaxVersion <- MCNoBound
    CwdJava = c
    PathJava = c
    Bundled = NoInst
    LauncherInitExit = 0
    JvmSearch <- MCSearchUnset
    SetterArgs <- MCSetterTrue
    JViewWorks = FALSE
    EntryPoints <- MCEntryRun
    DllAnswers <- MCDllAll
    HasJavaProps = TRUE
SPECIFICATION Spec
INVARIANT RealGate
CHECK_DEADLOCK FALSE
