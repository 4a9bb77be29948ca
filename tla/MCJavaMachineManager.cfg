\* Default search order (jvmsearch empty), the bundled VM c, minversion
\* 1.6.0; main may prefer the DLL and may call run() or runDLLFromRegistry.
CONSTANTS
    a = a  b = b  c = c
    NoInst = NoInst
    Insts <- MCInsts
    ProbeVals <- MCProbeVals
    ExitOf <- MCExitOf
    EnvInst <- MCEnvInst
    RegJRE <- MCRegJRE
    RegJDK <- MCRegJDK
    MinVersion <- MCMin16
    MaxVersion <- MCNoBound
    CwdJava = c
    PathJava = c
    Bundled = c
    LauncherInitExit = 0
    JvmSearch <- MCSearchUnset
    SetterArgs <- MCSetterTrue
    JViewWorks = FALSE
    EntryPoints <- MCEntryBoth
    DllAnswers <- MCDllNoLoadless
    HasJavaProps = TRUE
SPECIFICATION Spec
INVARIANTS TypeOK RealGate
PROPERTY RunEnds
CHECK_DEADLOCK FALSE
