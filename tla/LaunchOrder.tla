------------------------------ MODULE LaunchOrder ------------------------------
(***************************************************************************)
(* What the launch orchestrator promises (spec 4.4 and 4.5), in one step:  *)
(* the candidates are laid out in priority order (the bundled VM, then    *)
(* each search-order token's candidates), each is tried through the        *)
(* mechanisms in preference order, and the run ends with the first         *)
(* candidate that works, or fails when none does.  One attempt of one      *)
(* mechanism is the SunJVMLauncher contract (RunProc, RunDLL).             *)
(***************************************************************************)
EXTENDS Host, Sequences, SequencesExt

CONSTANTS Bundled, JvmSearch, JViewWorks

VARIABLES
    host,       \* the host, fixed for the run
    status,     \* "searching", then "launched" or "failed"
    chosen,     \* the attempt that launched the application
    acceptExe,  \* the mechanisms allowed and preferred, which the caller
    acceptDLL,  \* sets before the search
    preferDLL


\* Spec 4.5: registry, JDK home, JRE home, JAVA home, bare path.
SpecDefaultOrder == <<"registry", "jdkpath", "jrepath", "javahome", "exepath">>

SearchOrder == IF JvmSearch = <<>> THEN SpecDefaultOrder ELSE JvmSearch

VmCand(l, origin) == [kind |-> "vm", l |-> l, org |-> origin]

\* The candidates one search-order token stands for on host h.
TokenCands(t, h) ==
    LET env(v) == [i \in 1..Len(EnvLookup(h, v)) |-> VmCand(EnvLookup(h, v)[i], "jrehome")]
        reg    == LookupJVM(RegJRE, RegJDK)
    IN  CASE t = "registry" -> [i \in 1..Len(reg) |-> VmCand(reg[i], "registry")]
          [] t = "jdkpath"  -> env("JDK_HOME")
          [] t = "jrepath"  -> env("JRE_HOME")
          [] t = "javahome" -> env("JAVA_HOME")
          [] t = "exepath"  -> <<[kind |-> "path", l |-> NewLauncher(NoInst), org |-> "path"]>>
          [] t = "jview" /\ acceptExe -> <<[kind |-> "jview", l |-> NewLauncher(NoInst), org |-> "jview"]>>
          [] OTHER -> <<>>

Candidates(h) ==
    (IF Bundled # NoInst THEN <<VmCand(NewLauncher(Bundled), "bundled")>> ELSE <<>>)
    \o FlattenSeq([k \in 1..Len(SearchOrder) |-> TokenCands(SearchOrder[k], h)])

NoChoice == [org |-> "none", mech |-> "none", inst |-> NoInst, ver |-> NoVersion]

Chose(cd, mech, r) == [ok |-> TRUE, c |-> [org |-> cd.org, mech |-> mech, inst |-> r.inst, ver |-> r.l.ver]]
Fail == [ok |-> FALSE, c |-> NoChoice]

(***************************************************************************)
(* Spec 4.4 mechanism order for one candidate: in-process first only if    *)
(* preferred and allowed, then out-of-process if allowed, then in-process  *)
(* if allowed and not yet tried; a version resolved by one attempt is the *)
(* candidate's version for the next.  The bare-path candidate is tried    *)
(* out-of-process only; the legacy jview one is opaque.                    *)
(***************************************************************************)
TryCand(cd, h) ==
    LET d1 == RunDLL(cd.l, cd.org, h)
        l1 == IF acceptDLL /\ preferDLL THEN d1.l ELSE cd.l
        e  == RunProc(l1, cd.org, h)
        l2 == IF acceptExe THEN e.l ELSE l1
        d2 == RunDLL(l2, cd.org, h)
    IN  CASE cd.kind = "jview" ->
                IF JViewWorks THEN [ok |-> TRUE, c |-> [NoChoice EXCEPT !.org = "jview", !.mech = "jview"]]
                ELSE Fail
          [] cd.kind = "path" ->
                IF e.ok THEN Chose(cd, "exe", e) ELSE Fail
          [] acceptDLL /\ preferDLL /\ d1.ok -> Chose(cd, "dll", d1)
          [] acceptExe /\ e.ok -> Chose(cd, "exe", e)
          [] acceptDLL /\ ~preferDLL /\ d2.ok -> Chose(cd, "dll", d2)
          [] OTHER -> Fail

\* The first candidate that works, as the attempt that launched it.
FirstWorking(h) ==
    LET cs   == Candidates(h)
        good == {k \in 1..Len(cs) : TryCand(cs[k], h).ok}
    IN  IF good = {} THEN Fail ELSE TryCand(cs[Min(good)], h)

vars == <<host, status, chosen, acceptExe, acceptDLL, preferDLL>>

Init ==
    /\ host \in Hosts
    /\ status = "searching"
    /\ chosen = NoChoice
    /\ acceptExe \in BOOLEAN /\ acceptDLL \in BOOLEAN /\ preferDLL \in BOOLEAN

\* The caller chooses the mechanisms before the search.
Configure ==
    /\ status = "searching"
    /\ acceptExe' \in BOOLEAN /\ acceptDLL' \in BOOLEAN /\ preferDLL' \in BOOLEAN
    /\ UNCHANGED <<host, status, chosen>>

Decide ==
    /\ status = "searching"
    /\ status' = IF FirstWorking(host).ok THEN "launched" ELSE "failed"
    /\ chosen' = FirstWorking(host).c
    /\ UNCHANGED <<host, acceptExe, acceptDLL, preferDLL>>

Next == Configure \/ Decide

SafetySpec == Init /\ [][Next]_vars

Spec == SafetySpec /\ WF_vars(Decide)
=============================================================================
