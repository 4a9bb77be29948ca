---------------------------- MODULE SunJVMLauncher ----------------------------
(***************************************************************************)
(* One launch attempt of SunJVMLauncher (commonjava/SunJVMLauncher.cpp),   *)
(* with the parts of SunJVMExe and SunJVMDLL it drives.  Each attempt is   *)
(* a synchronous call, so it is an operator from the launcher object and   *)
(* the host to the call's result and the launcher object afterwards.       *)
(*                                                                         *)
(* The host h is what the file system and the runtimes answer:            *)
(*   h.probe[i] : the version "java -version" of installation i prints,    *)
(*                NoVersion if java.exe is missing or prints none,         *)
(*   h.spawn[i] : CreateProcess of i's java.exe/javaw.exe succeeds,        *)
(*   h.dll[i]   : "none" if no jvm.dll is found under i, else what it     *)
(*                answers SunJVMDLL ("noload", "nocreate" or "ok").        *)
(* A launcher object is [home, lib, ver, exit]: JavaHome, RuntimeLibPath,  *)
(* VmVersion and m_exitCode.                                               *)
(***************************************************************************)
EXTENDS SunJVMDLL

CONSTANTS
    NoInst,       \* the empty string as a JavaHome or RuntimeLibPath
    MinVersion,   \* Version(getProperty("minversion"))
    MaxVersion,   \* Version(getProperty("maxversion"))
    ExitOf,       \* ExitOf[i]: exit code of the application run by i's java.exe
    CwdJava,      \* installation whose java.exe is in the current directory, or NoInst
    PathJava,     \* installation whose java.exe CreateProcess finds for a bare
                  \* "java.exe" (application directory, current directory, system
                  \* directories, PATH), or NoInst
    LauncherInitExit  \* m_exitCode of a new SunJVMLauncher (set by its constructor,
                      \* which is in SunJVMLauncher.h, not among the sources)

\* A default-constructed SunJVMLauncher whose JavaHome is then set to home.
NewLauncher(home) == [home |-> home, lib |-> NoInst, ver |-> NoVersion, exit |-> LauncherInitExit]

(***************************************************************************)
(* SunJVMExe::lookUpExecutable: an empty JavaHome gives the bare name      *)
(* "java.exe", which CreateProcess resolves along its search path;         *)
(* otherwise the executable found under JavaHome.                          *)
(***************************************************************************)
ExeInst(home) == IF home = NoInst THEN PathJava ELSE home

(***************************************************************************)
(* SunJVMExe::guessVersion: NoVersion when FileUtils::fileExists rejects   *)
(* the executable (a bare "java.exe" is looked for in the current          *)
(* directory only), else the first version-shaped token that "<exe>        *)
(* -version", run through CreateProcess, prints.                           *)
(***************************************************************************)
GuessVersion(home, h) ==
    IF (home = NoInst /\ CwdJava = NoInst) \/ ExeInst(home) = NoInst THEN NoVersion
    ELSE h.probe[ExeInst(home)]

\* SunJVMExe::run: the version is valid here; CreateProcess of the executable.
ExeStarts(home, h) == ExeInst(home) # NoInst /\ h.spawn[ExeInst(home)]

(***************************************************************************)
(* SunJVMLauncher::runProc(resource, useConsole, origin).  An invalid      *)
(* VmVersion is replaced by the guessed one, kept in the object; an        *)
(* invalid version ends the attempt, bundled or not; the min/max gate is   *)
(* skipped for "bundled"; then setupVM and SunJVMExe::run, which waits for *)
(* the process and records its exit code.  "setup" tells whether setupVM   *)
(* ran (and so extracted the payload jars).                                *)
(***************************************************************************)
RunProc(l, origin, h) ==
    LET v     == IF IsValid(l.ver) THEN l.ver ELSE GuessVersion(l.home, h)
        setup == IsValid(v) /\ (origin = "bundled" \/ InBounds(v, MinVersion, MaxVersion))
        ok    == setup /\ ExeStarts(l.home, h)
    IN  [ok    |-> ok,
         setup |-> setup,
         inst  |-> ExeInst(l.home),
         l     |-> [l EXCEPT !.ver  = v,
                             !.exit = IF ok THEN ExitOf[ExeInst(l.home)] ELSE @]]

(***************************************************************************)
(* The jvm.dll SunJVMLauncher::run settles on: RuntimeLibPath if that file *)
(* exists; else, when JavaHome is set, the first of jre\bin\jvm.dll,       *)
(* jre\bin\server, jre\bin\client, bin\javai.dll, or the recursive search, *)
(* all under JavaHome.                                                     *)
(***************************************************************************)
DllOf(l, h) ==
    IF l.lib # NoInst /\ h.dll[l.lib] # "none" THEN l.lib
    ELSE IF l.home # NoInst /\ h.dll[l.home] # "none" THEN l.home
    ELSE NoInst

(***************************************************************************)
(* SunJVMLauncher::run(resource, origin, false).  Unless bundled, an       *)
(* invalid VmVersion is guessed and kept, a still invalid one or one out   *)
(* of [min, max] ends the attempt.  The jvm.dll is resolved (and kept as   *)
(* RuntimeLibPath); if it exists, a SunJVMDLL is built with DllVersion,    *)
(* setupVM runs, and SunJVMDLL::run's outcomes are the attempt's: "ok"     *)
(* when it surely returns true, "returns" when it may return, "crash"      *)
(* when the process may die in it.  m_exitCode is left as it was.          *)
(***************************************************************************)
RunDLL(l, origin, h) ==
    LET v     == IF origin # "bundled" /\ ~IsValid(l.ver)
                 THEN GuessVersion(l.home, h) ELSE l.ver
        gated == origin = "bundled" \/ (IsValid(v) /\ InBounds(v, MinVersion, MaxVersion))
        dll   == DllOf(l, h)
        setup == gated /\ dll # NoInst
        outs  == IF setup THEN DllRun(DllVersion(v, MinVersion), h.dll[dll]) ELSE {"false"}
    IN  [ok      |-> outs = {"true"},
         returns |-> outs \ {"crash"} # {},
         crash   |-> "crash" \in outs,
         setup   |-> setup,
         inst    |-> dll,
         l       |-> [l EXCEPT !.ver = v, !.lib = IF setup THEN dll ELSE @]]
=============================================================================
