\* The bundled VM c with no known version, minversion 1.1, java properties
\* configured: does run() return, whatever the in-process runtime answers?
CONSTANTS
    a = a  b = b  c = c
    NoInst = NoInst
    Insts <- MCInsts
    ProbeVals <- MCProbeVals
    ExitOf <- MCExitOf
    EnvInst <- MCEnvInst
    RegJRE <- MCRegJRE
    RegJDK <- MCRegJDK
    MinVersion <- MCMin11
    MaxVersion <- MCNoBound
    CwdJava = c
    PathJava = c
    Bundled = c
    LauncherInitExit = 0
    JvmSearch <- MCSearchUnset
    SetterArgs <- MCSetterTrue
    JViewWorks = FALSE
    EntryPoints <- MCEntryRun
    DllAnswers <- MCDllAll
    HasJavaProps = TRUE
SPECIFICATION Spec
PROPERTY Termination
CHECK_DEADLOCK FALSE
