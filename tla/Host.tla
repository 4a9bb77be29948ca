--------------------------------- MODULE Host ---------------------------------
(***************************************************************************)
(* The host the launcher runs on: installations, the JavaSoft registry     *)
(* keys, the environment variables, and what each installation answers.    *)
(* Shared by the detailed model (JavaMachineManager) and the abstract one  *)
(* (LaunchOrder).                                                          *)
(***************************************************************************)
EXTENDS JVMRegistryLookup

CONSTANTS
    Insts,        \* installations on the host
    ProbeVals,    \* versions "java -version" may report (NoVersion included)
    RegJRE,       \* sub-keys of ...\JavaSoft\Java Runtime Environment
    RegJDK,       \* sub-keys of ...\JavaSoft\Java Development Kit
    EnvInst,      \* EnvInst[v]: installation environment variable v names
    DllAnswers    \* what a jvm.dll may answer, a subset of DllStates

EnvVars   == {"JAVA_HOME", "JRE_HOME", "JDK_HOME"}
DllStates == {"none", "noload", "nocreate", "ok"}

(***************************************************************************)
(* A host state: what each installation answers (see SunJVMLauncher) and   *)
(* which environment variables are set.  A registry sub-key named after a *)
(* valid version belongs to an installation of that version.               *)
(***************************************************************************)
Hosts ==
    {h \in [probe : [Insts -> ProbeVals], spawn : [Insts -> BOOLEAN],
            dll : [Insts -> DllAnswers], env : [EnvVars -> BOOLEAN]] :
        \A e \in ToSet(RegJRE \o RegJDK) :
            IsValid(e.key) => h.probe[e.inst] \in {e.key, NoVersion}}

(***************************************************************************)
(* JVMEnvVarLookup::lookupJVM(name) (not among the sources; from spec      *)
(* 4.2): one launcher with the variable as JavaHome when it is set.        *)
(***************************************************************************)
EnvLookup(h, name) == IF h.env[name] THEN <<NewLauncher(EnvInst[name])>> ELSE <<>>
=============================================================================
