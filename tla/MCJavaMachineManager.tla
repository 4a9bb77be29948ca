------------------------ MODULE MCJavaMachineManager ------------------------
(***************************************************************************)
(* Model of a launch on a host with three installations a, b, c: a and b   *)
(* registered as JREs 1.4.0 and 1.8.0, c shipped as the bundled VM and     *)
(* found as "java.exe" in the current directory; JAVA_HOME, JRE_HOME and  *)
(* JDK_HOME, when set, name b, a and c.  What each installation answers    *)
(* (its "java -version", whether its java.exe starts, whether its jvm.dll *)
(* exists and loads) and which variables are set are chosen by Init.       *)
(***************************************************************************)
EXTENDS JavaMachineManager, TLC

CONSTANTS a, b, c

V14 == Ver(1, 4, 0)
V18 == Ver(1, 8, 0)

MCInsts     == {a, b, c}
MCProbeVals == {V14, V18, NoVersion}
MCExitOf    == [i \in MCInsts |-> CASE i = a -> 1 [] i = b -> 2 [] OTHER -> 3]
MCEnvInst   == [v \in EnvVars |-> CASE v = "JAVA_HOME" -> b [] v = "JRE_HOME" -> a [] OTHER -> c]

\* A JavaSoft sub-key naming installation i, with both RuntimeLib and JavaHome.
RegEntry(i, v) == [inst |-> i, key |-> v, hasLib |-> TRUE, hasHome |-> TRUE]
MCRegJRE == <<RegEntry(a, V14), RegEntry(b, V18)>>
MCRegJDK == <<>>

\* A JRE sub-key for b with a RuntimeLib value but no JavaHome value.
MCRegJRELibOnly == <<[RegEntry(b, V18) EXCEPT !.hasHome = FALSE]>>

\* Every jvm.dll answer, or all but "noload": for a version other than 1.1,
\* a library that does not load is the "false" outcome of one whose
\* JNI_CreateJavaVM fails.
MCDllAll == DllStates
MCDllNoLoadless == DllStates \ {"noload"}

MCMin16   == Ver(1, 6, 0)
MCMin11   == Ver(1, 1, 0)
MCNoBound == NoVersion

\* An empty "jvmsearch" property: run() falls back to its default order.
MCSearchUnset == <<>>

\* The values the wrapper's main may pass to setAcceptExe, setAcceptDLL and
\* setPreferDLL: any, or only TRUE (the defaults, or the DLL preferred).
MCSetterAll == BOOLEAN
MCSetterTrue == {TRUE}

\* The entry points main may call after the setters.
MCEntryRun  == {"run"}
MCEntryBoth == {"run", "runDLLFromRegistry"}

\* An explicit "jvmsearch" without jdkpath: the registry, the environment
\* VMs and the legacy jview token (the bare path has its own run).
MCSearchRegEnvJView == <<"registry", "javahome", "jrepath", "jview">>

Launcher == [home : Insts \cup {NoInst}, lib : Insts \cup {NoInst},
             ver : VersionSet({1}, {4, 8}, {0}), exit : Int]

TypeOK ==
    /\ host \in Hosts
    /\ pc \in {"construct", "configure", "token", "dllFirst", "exe", "dllLast", "return", "done", "crashed",
              "regDll", "regDllNext", "regDllLocal", "regDllNone"}
    /\ registryVms \in Seq(Launcher)
    /\ \A vm \in {javahomeVm, jrepathVm, jdkpathVm} : vm \in Seq(Launcher) /\ Len(vm) <= 1
    /\ {localVM, cur} \subseteq Launcher
    /\ tok \in 1..(Len(order) + 1)
    /\ result \in {"none", "true", "false"}
    /\ setups \in Nat
    /\ cfg \in BOOLEAN \X BOOLEAN \X BOOLEAN

(***************************************************************************)
(* Version gate on the runtime that really runs: when a registry, JAVA_HOME *)
(* or JRE_HOME or PATH candidate is launched, the version that             *)
(* installation's "java -version" reports lies within [minversion,         *)
(* maxversion].  The gate of runProc/run checks VmVersion, which comes    *)
(* from the registry sub-key or from a probe, while the process or DLL    *)
(* started is found separately (lookUpExecutable, the jvm.dll search).    *)
(***************************************************************************)
RealGate ==
    LET real == host.probe[launched.inst] IN
    launched.org \in {"registry", "jrehome", "path"} /\ IsValid(real)
        => /\ IsValid(MinVersion) => ~LexLess(real, MinVersion)
           /\ IsValid(MaxVersion) => ~LexLess(MaxVersion, real)

(***************************************************************************)
(* Exit code: when run() succeeded by starting a java.exe process, the     *)
(* exit code it reports is that process's (spec 4.5: "exit code captured  *)
(* from whichever mechanism launched").                                    *)
(***************************************************************************)
ExitCodeFaithful ==
    result = "true" /\ launched.mech = "exe" => exitCode = ExitOf[launched.inst]

(***************************************************************************)
(* Termination: run() returns, true or false, once every runtime it starts *)
(* returns (spec 5: no attempt is raced or retried); an in-process attempt *)
(* that fails is a candidate that did not work (spec 4.4), so the search   *)
(* goes on rather than ending inside SunJVMDLL.                            *)
(***************************************************************************)
Termination == <>(pc = "done")

(***************************************************************************)
(* The search ends: run() returns, or the launcher process dies inside     *)
(* SunJVMDLL::run.  It is never stuck between candidates.                  *)
(***************************************************************************)
RunEnds == <>(pc \in {"done", "crashed"})

(***************************************************************************)
(* JavaMachineManager implements LaunchOrder: run() ends with the first    *)
(* candidate of the spec's priority order that some allowed mechanism     *)
(* launches, and fails only when none does.  The abstract status is read  *)
(* from run()'s return value, the chosen attempt from the launch history; *)
(* that run() does return is Termination.                                 *)
(***************************************************************************)
Abstract == INSTANCE LaunchOrder WITH
    status <- CASE result = "true"  -> "launched"
                [] result = "false" -> "failed"
                [] OTHER            -> "searching",
    chosen <- launched

LaunchOrderRefined == Abstract!SafetySpec
=============================================================================
