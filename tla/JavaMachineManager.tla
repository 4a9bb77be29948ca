--------------------------- MODULE JavaMachineManager ---------------------------
(***************************************************************************)
(* JavaMachineManager (commonjava/JavaMachineManager.cpp): finds the JVMs  *)
(* once in its constructor, then run() tries the bundled VM and the search *)
(* order tokens, each candidate through internalRun's mechanism order,     *)
(* until one attempt succeeds.  The code is single-threaded and every      *)
(* attempt is a blocking call, so a state is a program point of run().    *)
(***************************************************************************)
EXTENDS Host, Integers, Sequences

CONSTANTS
    Bundled,      \* installation under getProperty("bundledvm"), or NoInst
    JvmSearch,    \* getProperty("jvmsearch") split at ";,", <<>> when empty
    JViewWorks,   \* m_jviewVm.runProc succeeds
    SetterArgs,   \* the values the wrapper's main passes to the setters
    EntryPoints   \* what main then calls: "run", "runDLLFromRegistry"

\* run(), line 75: the search order used when "jvmsearch" is empty.
DefaultOrder == <<"registry", "jdkpath", "jrepath", "javahome", "jview", "exepath">>

NoLaunch == [org |-> "none", mech |-> "none", inst |-> NoInst, ver |-> NoVersion]

VARIABLES
    host,            \* the host, fixed for the run
    pc,              \* program point of the constructor and run()
    registryVms,     \* m_registryVms
    javahomeVm,      \* m_javahomeVm
    jrepathVm,       \* m_jrepathVm
    jdkpathVm,       \* m_jdkpathVm
    localVM,         \* m_localVM
    localVMenabled,  \* m_localVMenabled
    acceptExe,       \* m_acceptExe
    acceptDLL,       \* m_acceptDLL
    preferDLL,       \* m_preferDLL
    order,           \* jvmorder
    tok,             \* index of the current token of jvmorder
    ri,              \* index of the current registry VM
    cur,             \* the launcher internalRun works on
    org,             \* the origin string internalRun passes on
    caller,          \* where internalRun was called from
    exitCode,        \* m_exitCode
    result,          \* value run() returned, "none" before
    launched,        \* history: the attempt that succeeded, NoLaunch before
    setups           \* history: number of setupVM calls (payload extractions)

cfg == <<acceptExe, acceptDLL, preferDLL>>

vars == <<host, pc, registryVms, javahomeVm, jrepathVm, jdkpathVm, localVM,
          localVMenabled, cfg, order, tok, ri, cur, org, caller, exitCode, result,
          launched, setups>>

Init ==
    /\ host \in Hosts
    /\ pc = "construct"
    /\ registryVms = <<>> /\ javahomeVm = <<>> /\ jrepathVm = <<>> /\ jdkpathVm = <<>>
    /\ localVM = NewLauncher(NoInst)
    /\ localVMenabled = FALSE
    /\ acceptExe = FALSE /\ acceptDLL = FALSE /\ preferDLL = FALSE
    /\ order = <<>> /\ tok = 1 /\ ri = 1
    /\ cur = NewLauncher(NoInst) /\ org = "none" /\ caller = "none"
    /\ exitCode = 0
    /\ result = "none"
    /\ launched = NoLaunch
    /\ setups = 0

(***************************************************************************)
(* JavaMachineManager::JavaMachineManager: registry and environment        *)
(* lookups, default flags, and the bundled VM when "bundledvm" is set.     *)
(***************************************************************************)
Construct ==
    /\ pc = "construct"
    /\ registryVms' = LookupJVM(RegJRE, RegJDK)
    /\ javahomeVm' = EnvLookup(host, "JAVA_HOME")
    /\ jrepathVm' = EnvLookup(host, "JRE_HOME")
    /\ jdkpathVm' = EnvLookup(host, "JDK_HOME")
    /\ exitCode' = 0
    /\ localVMenabled' = (Bundled # NoInst)
    /\ localVM' = IF Bundled # NoInst THEN NewLauncher(Bundled) ELSE localVM
    /\ acceptExe' = TRUE /\ acceptDLL' = TRUE /\ preferDLL' = FALSE
    /\ pc' = "configure"
    /\ UNCHANGED <<host, order, tok, ri, cur, org, caller, result, launched, setups>>

(***************************************************************************)
(* setAcceptExe, setAcceptDLL, setPreferDLL (lines 214-227), which the     *)
(* wrapper's main may call between the constructor and run().             *)
(***************************************************************************)
Configured ==
    /\ pc = "configure"
    /\ UNCHANGED <<host, pc, registryVms, javahomeVm, jrepathVm, jdkpathVm, localVM,
                   localVMenabled, order, tok, ri, cur, org, caller, exitCode,
                   result, launched, setups>>

SetAcceptExe(b) == Configured /\ acceptExe' = b /\ UNCHANGED <<acceptDLL, preferDLL>>
SetAcceptDLL(b) == Configured /\ acceptDLL' = b /\ UNCHANGED <<acceptExe, preferDLL>>
SetPreferDLL(b) == Configured /\ preferDLL' = b /\ UNCHANGED <<acceptExe, acceptDLL>>

\* Mutation of CallInternalRun: internalRun entered at its exe stage.
CallInternalRunAtExe(l, origin, from) ==
    /\ cur' = l /\ org' = origin /\ caller' = from
    /\ pc' = "exe"

\* internalRun(launcher, origin), called from the site named by from.
CallInternalRun(l, origin, from) ==
    /\ cur' = l /\ org' = origin /\ caller' = from
    /\ pc' = "dllFirst"

(***************************************************************************)
(* run(), lines 54-85: the bundled VM first, through internalRun; the      *)
(* search order read (default when empty) for the loop that follows.       *)
(***************************************************************************)
Run ==
    /\ pc = "configure"
    /\ "run" \in EntryPoints
    /\ order' = IF JvmSearch = <<>> THEN DefaultOrder ELSE JvmSearch
    /\ IF localVMenabled
       THEN CallInternalRun(localVM, "bundled", "bundled") /\ UNCHANGED tok
       ELSE pc' = "token" /\ tok' = 1 /\ UNCHANGED <<cur, org, caller>>
    /\ UNCHANGED <<host, registryVms, javahomeVm, jrepathVm, jdkpathVm, localVM,
                   localVMenabled, cfg, ri, exitCode, result, launched, setups>>

(***************************************************************************)
(* One attempt of internalRun through mechanism mech, with r the result of *)
(* RunDLL or RunProc.  Success returns true from internalRun and run();   *)
(* the exe mechanism copies launcher.getExitCode() into m_exitCode.        *)
(***************************************************************************)
\* Mutation of ExitCodeAfter: m_exitCode never copied from the launcher.
ExitCodeKept(r, mech) == exitCode

\* internalRun, lines 160-161: m_exitCode = launcher.getExitCode() after runProc.
ExitCodeAfter(r, mech) == IF mech = "exe" THEN r.l.exit ELSE exitCode

Attempt(r, mech, onFail) ==
    /\ cur' = r.l
    /\ setups' = setups + (IF r.setup THEN 1 ELSE 0)
    /\ \/ /\ r.ok
          /\ pc' = "done" /\ result' = "true"
          /\ launched' = [org |-> org, mech |-> mech, inst |-> r.inst, ver |-> r.l.ver]
          /\ exitCode' = ExitCodeAfter(r, mech)
       \/ /\ ~r.ok
          /\ pc' = onFail
          /\ UNCHANGED <<result, launched, exitCode>>
    /\ UNCHANGED <<host, registryVms, javahomeVm, jrepathVm, jdkpathVm, localVM,
                   localVMenabled, cfg, order, tok, ri, org, caller>>

(***************************************************************************)
(* An in-process attempt: the launcher process may die inside              *)
(* SunJVMDLL::run, and then neither internalRun nor run() returns.         *)
(***************************************************************************)
Crash(r) ==
    /\ pc' = "crashed"
    /\ cur' = r.l
    /\ setups' = setups + 1
    /\ UNCHANGED <<host, registryVms, javahomeVm, jrepathVm, jdkpathVm, localVM,
                   localVMenabled, cfg, order, tok, ri, org, caller, exitCode,
                   result, launched>>

DllAttempt(r, onFail) ==
    \/ r.crash /\ Crash(r)
    \/ r.returns /\ Attempt(r, "dll", onFail)

Skip(next) ==
    /\ pc' = next
    /\ UNCHANGED <<host, registryVms, javahomeVm, jrepathVm, jdkpathVm, localVM,
                   localVMenabled, cfg, order, tok, ri, cur, org, caller, exitCode,
                   result, launched, setups>>

\* internalRun, lines 151-155: the DLL first when it is accepted and preferred.
DllFirst ==
    /\ pc = "dllFirst"
    /\ \/ acceptDLL /\ preferDLL /\ DllAttempt(RunDLL(cur, org, host), "exe")
       \/ ~(acceptDLL /\ preferDLL) /\ Skip("exe")

\* internalRun, lines 157-164: a java.exe process when exe is accepted.
Exe ==
    /\ pc = "exe"
    /\ \/ acceptExe /\ Attempt(RunProc(cur, org, host), "exe", "dllLast")
       \/ ~acceptExe /\ Skip("dllLast")

\* internalRun, lines 166-172: the DLL last when accepted and not preferred.
DllLast ==
    /\ pc = "dllLast"
    /\ \/ acceptDLL /\ ~preferDLL /\ DllAttempt(RunDLL(cur, org, host), "return")
       \/ ~(acceptDLL /\ ~preferDLL) /\ Skip("return")

(***************************************************************************)
(* internalRun returned false: the launcher object, changed through its    *)
(* reference, is stored back, and the caller goes on with the next         *)
(* candidate: the first token after the bundled VM, the next registry VM,  *)
(* or the next token after an environment-variable VM.                     *)
(***************************************************************************)
\* Mutations of ResumeToken: an environment token is not left; the token
\* after the bundled VM is the second.
ResumeTokenStay(from) == IF from = "bundled" THEN 1 ELSE tok
ResumeTokenSkipFirst(from) == CASE from = "bundled" -> 2 [] from = "registry" -> tok [] OTHER -> tok + 1

\* Where the search order goes on once internalRun, called from from, failed.
ResumeToken(from) ==
    CASE from = "bundled"  -> 1
      [] from = "registry" -> tok
      [] OTHER             -> tok + 1

\* Mutation of WriteBack: the launcher pushed back onto the vector.
WriteBackAppend(vm, name) == IF caller = name THEN Append(vm, cur) ELSE vm

\* The environment-variable VM vector after its launcher was tried by reference.
WriteBack(vm, name) == IF caller = name THEN <<cur>> ELSE vm

Return ==
    /\ pc = "return"
    /\ pc' = "token"
    /\ localVM' = IF caller = "bundled" THEN cur ELSE localVM
    /\ registryVms' = IF caller = "registry" THEN [registryVms EXCEPT ![ri] = cur] ELSE registryVms
    /\ javahomeVm' = WriteBack(javahomeVm, "javahome")
    /\ jrepathVm' = WriteBack(jrepathVm, "jrepath")
    /\ tok' = ResumeToken(caller)
    /\ ri' = IF caller = "registry" THEN ri + 1 ELSE ri
    /\ UNCHANGED <<host, jdkpathVm, localVMenabled, cfg, order, cur, org, caller,
                   exitCode, result, launched, setups>>

Token == order[tok]

\* Leaves the current token for the next one.
NextToken ==
    /\ tok' = tok + 1 /\ ri' = 1
    /\ UNCHANGED <<host, pc, registryVms, javahomeVm, jrepathVm, jdkpathVm, localVM,
                   localVMenabled, cfg, order, cur, org, caller, exitCode, result,
                   launched, setups>>

\* Lines 89-109: "registry" tries each registry VM in turn.
RegistryToken ==
    /\ pc = "token" /\ tok <= Len(order) /\ Token = "registry"
    /\ \/ /\ ri <= Len(registryVms)
          /\ CallInternalRun(registryVms[ri], "registry", "registry")
          /\ UNCHANGED <<host, registryVms, javahomeVm, jrepathVm, jdkpathVm, localVM,
                         localVMenabled, cfg, order, tok, ri, exitCode, result,
                         launched, setups>>
       \/ ri > Len(registryVms) /\ NextToken

\* Lines 110-118: "jview" runs m_jviewVm when exe is accepted.
JViewToken ==
    /\ pc = "token" /\ tok <= Len(order) /\ Token = "jview" /\ acceptExe
    /\ \/ /\ JViewWorks
          /\ pc' = "done" /\ result' = "true"
          /\ launched' = [NoLaunch EXCEPT !.org = "jview", !.mech = "jview"]
          /\ UNCHANGED <<host, registryVms, javahomeVm, jrepathVm, jdkpathVm, localVM,
                         localVMenabled, cfg, order, tok, ri, cur, org, caller,
                         exitCode, setups>>
       \/ ~JViewWorks /\ NextToken

\* Lines 119-130: "javahome" and "jrepath" try their VM when the variable was set.
EnvToken(name, vm) ==
    /\ pc = "token" /\ tok <= Len(order) /\ Token = name /\ Len(vm) > 0
    /\ CallInternalRun(vm[1], "jrehome", name)
    /\ UNCHANGED <<host, registryVms, javahomeVm, jrepathVm, jdkpathVm, localVM,
                   localVMenabled, cfg, order, tok, ri, exitCode, result, launched, setups>>

(***************************************************************************)
(* Lines 131-141: "exepath" runs a new SunJVMLauncher, JavaHome empty,     *)
(* through runProc; on success m_exitCode is taken from m_localVM.         *)
(***************************************************************************)
ExePathToken ==
    /\ pc = "token" /\ tok <= Len(order) /\ Token = "exepath"
    /\ LET r == RunProc(NewLauncher(NoInst), "path", host) IN
       /\ setups' = setups + (IF r.setup THEN 1 ELSE 0)
       /\ \/ /\ r.ok
             /\ pc' = "done" /\ result' = "true"
             /\ launched' = [org |-> "path", mech |-> "exe", inst |-> r.inst, ver |-> r.l.ver]
             /\ exitCode' = localVM.exit
             /\ UNCHANGED <<tok, ri>>
          \/ /\ ~r.ok
             /\ tok' = tok + 1 /\ ri' = 1
             /\ UNCHANGED <<pc, result, launched, exitCode>>
    /\ UNCHANGED <<host, registryVms, javahomeVm, jrepathVm, jdkpathVm, localVM,
                   localVMenabled, cfg, order, cur, org, caller>>

\* Any other token (jdkpath among them), or a VM list that is empty.
OtherToken ==
    /\ pc = "token" /\ tok <= Len(order)
    /\ Token \notin {"registry", "exepath"}
    /\ ~(Token = "jview" /\ acceptExe)
    /\ ~(Token = "javahome" /\ Len(javahomeVm) > 0)
    /\ ~(Token = "jrepath" /\ Len(jrepathVm) > 0)
    /\ NextToken

\* Lines 144-145: every token tried, run() returns false.
Exhausted ==
    /\ pc = "token" /\ tok > Len(order)
    /\ pc' = "done" /\ result' = "false"
    /\ UNCHANGED <<host, registryVms, javahomeVm, jrepathVm, jdkpathVm, localVM,
                   localVMenabled, cfg, order, tok, ri, cur, org, caller, exitCode,
                   launched, setups>>

(***************************************************************************)
(* runDLLFromRegistry(justInstanciate), lines 177-207: each registry VM in *)
(* order through SunJVMLauncher::run (in-process, whatever m_acceptDLL     *)
(* says), its launcher changed in place; then the bundled VM, after them;  *)
(* NULL when none works.  justInstanciate only chooses between            *)
(* SunJVMDLL::instanciate and SunJVMDLL::run, whose outcomes agree.        *)
(***************************************************************************)
RunDLLFromRegistry ==
    /\ pc = "configure"
    /\ "runDLLFromRegistry" \in EntryPoints
    /\ pc' = "regDll" /\ ri' = 1 /\ org' = "registry"
    /\ UNCHANGED <<host, registryVms, javahomeVm, jrepathVm, jdkpathVm, localVM,
                   localVMenabled, cfg, order, tok, cur, caller, exitCode, result,
                   launched, setups>>

RegDllTry ==
    /\ pc = "regDll" /\ ri <= Len(registryVms)
    /\ DllAttempt(RunDLL(registryVms[ri], "registry", host), "regDllNext")

RegDllNext ==
    /\ pc = "regDllNext"
    /\ pc' = "regDll" /\ ri' = ri + 1
    /\ registryVms' = [registryVms EXCEPT ![ri] = cur]
    /\ UNCHANGED <<host, javahomeVm, jrepathVm, jdkpathVm, localVM, localVMenabled,
                   cfg, order, tok, cur, org, caller, exitCode, result, launched, setups>>

RegDllBundled ==
    /\ pc = "regDll" /\ ri > Len(registryVms) /\ localVMenabled
    /\ pc' = "regDllLocal" /\ org' = "bundled"
    /\ UNCHANGED <<host, registryVms, javahomeVm, jrepathVm, jdkpathVm, localVM,
                   localVMenabled, cfg, order, tok, ri, cur, caller, exitCode, result,
                   launched, setups>>

RegDllLocal ==
    /\ pc = "regDllLocal"
    /\ DllAttempt(RunDLL(localVM, "bundled", host), "regDllNone")

RegDllNone ==
    /\ \/ pc = "regDll" /\ ri > Len(registryVms) /\ ~localVMenabled
       \/ pc = "regDllNone"
    /\ pc' = "done" /\ result' = "false"
    /\ UNCHANGED <<host, registryVms, javahomeVm, jrepathVm, jdkpathVm, localVM,
                   localVMenabled, cfg, order, tok, ri, cur, org, caller, exitCode,
                   launched, setups>>

Next ==
    \/ Construct \/ Run \/ RunDLLFromRegistry
    \/ RegDllTry \/ RegDllNext \/ RegDllBundled \/ RegDllLocal \/ RegDllNone
    \/ \E b \in SetterArgs : SetAcceptExe(b) \/ SetAcceptDLL(b) \/ SetPreferDLL(b)
    \/ DllFirst \/ Exe \/ DllLast \/ Return
    \/ RegistryToken \/ JViewToken \/ ExePathToken \/ OtherToken \/ Exhausted
    \/ EnvToken("javahome", javahomeVm)
    \/ EnvToken("jrepath", jrepathVm)

(***************************************************************************)
(* The launcher is a single thread that always has its next step to take; *)
(* the wrapper's main calls the setters a finite number of times, then    *)
(* run() or runDLLFromRegistry().                                         *)
(***************************************************************************)
Spec == Init /\ [][Next]_vars /\ WF_vars(Next) /\ WF_vars(Run \/ RunDLLFromRegistry)
=============================================================================
