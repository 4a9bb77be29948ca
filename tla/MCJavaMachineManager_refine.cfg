\* Explicit jvmsearch "registry;javahome;jrepath;jview", the bundled VM c,
\* the DLL preferred, minversion 1.6.0, jview launches: the orchestration
\* against LaunchOrder, and the exit code of a process launch.
CONSTANTS
    a = a  b = b  c = c
    NoInst = NoInst
    Insts <- MCInsts
    ProbeVals <- MCProbeVals
    ExitOf <- MCExitOf
    EnvInst <- MCEnvInst
    RegJRE <- MCRegJRE
    RegJDK <- MCRegJDK
    MinVersion <- MCMin16
    MaxVersion <- MCNoBound
    CwdJava = c
    PathJava = c
    Bundled = c
    LauncherInitExit = 0
    JvmSearch <- MCSearchRegEnvJView
    SetterArgs <- MCSetterAll
    JViewWorks = TRUE
    EntryPoints <- MCEntryRun
    DllAnswers <- MCDllAll
    HasJavaProps = TRUE
SPECIFICATION Spec
INVARIANT ExitCodeFaithful
PROPERTY LaunchOrderRefined
CHECK_DEADLOCK FALSE
