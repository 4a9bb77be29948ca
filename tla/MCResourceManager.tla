------------------------- MODULE MCResourceManager -------------------------
(***************************************************************************)
(* The configuration store of a launcher whose properties set "embedjar"  *)
(* to "false", a classpath with a relative and an absolute jar, a maximum *)
(* heap, a key k, and "currentdir" to one of ${EXECUTABLEPATH}\lib, %HOME%, *)
(* lib or nothing; main hands over up to three tokens, alone or in lists, *)
(* then setupVM runs.  The tokens cover the length test at its boundary:  *)
(* "-Dk=" (4 characters) and "-Dk" (3), and override embedjar, currentdir *)
(* and classpath.                                                          *)
(***************************************************************************)
EXTENDS ResourceManager, SunJVMExe

CONSTANTS NoValue

MCKeys == {"currentdir", "embedjar", "classpath", "maxheap", "initialheap",
           "vmparameter", "k"}

MCExePath == [abs |-> TRUE, segs |-> <<"C:", "app">>]
MCHome    == [abs |-> TRUE, segs |-> <<"C:", "home">>]
MCLib     == [abs |-> FALSE, segs |-> <<"lib">>]
MCHomeVar == [abs |-> FALSE, segs |-> <<"%HOME%">>]
MCAJar    == [abs |-> FALSE, segs |-> <<"a.jar">>]
MCBJar    == [abs |-> FALSE, segs |-> <<"b.jar">>]
MCXJar    == [abs |-> TRUE, segs |-> <<"C:", "x.jar">>]

\* The "currentdir" values the model knows, parsed: the text after the
\* placeholder is a relative path.
MCTpl(v) == CASE v = "${EXECUTABLEPATH}\\lib" -> [ph |-> TRUE, rest |-> MCLib]
              [] v = "%HOME%"                -> [ph |-> FALSE, rest |-> MCHomeVar]
              [] OTHER                       -> [ph |-> FALSE, rest |-> MCLib]

\* %HOME% replaced by its value; any other path is left as it is.
MCExpandEnv(p) == IF p = MCHomeVar THEN MCHome ELSE p

\* The classpath values, split at ";".
MCCpSplit(v) == CASE v = "a.jar;C:\\x.jar" -> <<MCAJar, MCXJar>>
                  [] v = "b.jar"            -> <<MCBJar>>
                  [] OTHER                  -> <<>>

MCParseInt(v) == IF v = "64" THEN 64 ELSE 0

Dirs == {"${EXECUTABLEPATH}\\lib", "%HOME%", "lib", ""}

MCConfs == {[k \in MCKeys |-> CASE k = "currentdir"  -> d
                                [] k = "embedjar"    -> "false"
                                [] k = "classpath"   -> "a.jar;C:\\x.jar"
                                [] k = "maxheap"     -> "64"
                                [] k = "k"           -> "w"
                                [] OTHER             -> NoValue] : d \in Dirs}
\* The configured arguments: one word, "cfk".
MCConfArgs   == <<[pre |-> "cf", key |-> "k", eq |-> FALSE, val |-> ""]>>
MCConfJProps == << <<"n", "x">>, <<"-ea", "">> >>

MCKeyLen == [k \in MCKeys |-> CASE k = "currentdir" -> 10 [] k = "embedjar" -> 8
                                [] k = "classpath" -> 9 [] OTHER -> 1]
MCValLen == [v \in {"", "v", "true", "%HOME%", "b.jar"} |->
                CASE v = "" -> 0 [] v = "v" -> 1 [] v = "true" -> 4 [] OTHER -> 6]

Tok(pre, key, eq, val) == [pre |-> pre, key |-> key, eq |-> eq, val |-> val]
TJ  == Tok("-J", "embedjar", TRUE, "true")   \* -Jembedjar=true
TJk == Tok("-J", "k", TRUE, "v")             \* -Jk=v
TD  == Tok("-D", "k", TRUE, "")              \* -Dk=
TDk == Tok("-D", "k", FALSE, "")             \* -Dk
TP  == Tok("ab", "k", TRUE, "v")             \* abk=v
TC  == Tok("-J", "currentdir", TRUE, "%HOME%")  \* -Jcurrentdir=%HOME%
TCp == Tok("-J", "classpath", TRUE, "b.jar")    \* -Jclasspath=b.jar

MCTokens   == {TJ, TJk, TD, TDk, TP, TC, TCp}
MCArgLists == {<<>>, <<TP>>, <<TD, TP>>, <<TJ, TDk>>}

PropVals == Dirs \cup {NoValue, "false", "true", "w", "v", "a.jar;C:\\x.jar", "b.jar", "64"}

TypeOK ==
    /\ res \in Resources
    /\ stage \in {"init", "ready", "setup"}
    /\ lastError \in {"none", "noProps", "noJar"}
    /\ props \in [MCKeys -> PropVals]
    /\ args \in Seq(MCTokens \cup Range(MCConfArgs))
    /\ jprops \in Seq({"n", "k", "-ea"} \X {"x", ""})
    /\ curdir \in {NoPath, ConcFile(MCExePath, MCLib), MCHome, MCLib}
    /\ jarH \in {"loaded", "uninit"} /\ jniH \in {"loaded", "null", "uninit"}
    /\ Len(given) <= MaxCalls /\ cleared \in BOOLEAN
    /\ vm \in [path : Seq({TempJar, TempJni, MCXJar} \cup
                          {ConcFile(b, MCAJar) : b \in {MCExePath, MCHome, ConcFile(MCExePath, MCLib)}} \cup
                          {ConcFile(b, MCBJar) : b \in {MCExePath, MCHome, ConcFile(MCExePath, MCLib)}}),
               props : Seq({"n", "k", "-ea"} \X {"x", ""}), args : Seq(MCTokens \cup Range(MCConfArgs)),
               maxHeap : {-1, 64}, initialHeap : {-1}, vmParameter : {""}]

\* Spec 4.3: the tokens -J<key>=<value> and -D<key>=<value> are diverted.
Diverted(t) == t.pre \in {"-J", "-D"} /\ t.eq

(***************************************************************************)
(* Argument diversion (spec 4.3 and its examples): the application         *)
(* arguments are the configured ones until setUserArguments runs, followed *)
(* by every token handed over since then that is not a -J or -D            *)
(* assignment, unchanged and in order.  The code decides by the token's   *)
(* length, its first "=" and its prefix (addUserArgument).                 *)
(***************************************************************************)
ArgumentsForwarded ==
    stage = "ready" =>
        args = (IF cleared \/ ~res.props THEN <<>> ELSE ConfArgs)
               \o SelectSeq(sinceSet, LAMBDA t : ~Diverted(t))

(***************************************************************************)
(* Overrides: after a -Jkey=value token the store returns value for key,   *)
(* unless a later -J token set the same key; every -Dkey=value token adds  *)
(* the property key=value after the configured java properties, in order, *)
(* including the ones of earlier setUserArguments lists.                  *)
(***************************************************************************)
LastJ(i) ==
    /\ given[i].pre = "-J" /\ Diverted(given[i])
    /\ \A j \in (i + 1)..Len(given) :
          ~(given[j].pre = "-J" /\ Diverted(given[j]) /\ given[j].key = given[i].key)

OverridesApplied ==
    /\ \A i \in 1..Len(given) : LastJ(i) => props[given[i].key] = given[i].val
    /\ stage = "ready" =>
          LET ds == SelectSeq(given, LAMBDA t : t.pre = "-D" /\ Diverted(t)) IN
          jprops = (IF res.props /\ res.jar THEN ConfJProps ELSE <<>>)
                   \o [i \in 1..Len(ds) |-> <<ds[i].key, ds[i].val>>]
(***************************************************************************)
(* The classpath base (spec 4.3): with the executable's directory C:\app,  *)
(* the base a "currentdir" template gives, ${EXECUTABLEPATH} and the       *)
(* environment variables substituted and a relative result resolved        *)
(* against C:\app.  No template, or a constructor that stopped before      *)
(* reading it, leaves C:\app.                                              *)
(***************************************************************************)
ConfBase ==
    IF ~(res.props /\ res.jar) THEN MCExePath
    ELSE CASE res.conf["currentdir"] = "%HOME%" -> MCHome
           [] res.conf["currentdir"] = ""       -> MCExePath
           [] OTHER -> [abs |-> TRUE, segs |-> <<"C:", "app", "lib">>]

(***************************************************************************)
(* Classpath normalization (spec 4.3 and its example): the last elements  *)
(* the in-process VM receives are the words of the "classpath" property    *)
(* as it is at launch, a -Jclasspath override included, in order, each     *)
(* absolute one unchanged and each relative one under the base of the      *)
(* configured template.  A -Jcurrentdir token does not move the base:      *)
(* getNormalizedClassPathVector reads m_currentDirectory, computed by the  *)
(* constructor, and not the property.                                      *)
(***************************************************************************)
ClasspathResolved ==
    stage = "setup" =>
        LET cps == MCCpSplit(GetProperty("classpath"))
            n   == Len(vm.path)
        IN /\ n >= Len(cps)
           /\ SubSeq(vm.path, n - Len(cps) + 1, n) =
                 [i \in 1..Len(cps) |->
                    IF cps[i].abs THEN cps[i]
                    ELSE [abs |-> TRUE, segs |-> ConfBase.segs \o cps[i].segs]]

(***************************************************************************)
(* The file system the out-of-process launcher sees: a JDK C:\jdk with its *)
(* executables in bin and archives at its top and in lib; a JRE C:\jre     *)
(* whose java.exe lies deeper, in deep\bin, with an archive above it; and  *)
(* a directory C:\bad holding no executable.                               *)
(***************************************************************************)
F(n)     == [name |-> n, dir |-> FALSE, sub |-> <<>>]
D(n, es) == [name |-> n, dir |-> TRUE, sub |-> es]
MCFS ==
    << D("C:", << D("jdk", << D("bin", <<F("java.exe"), F("javaw.exe")>>),
                              D("lib", <<F("tools.jar"), F("classes.zip")>>),
                              F("src.zip") >>),
                  D("jre", << F("x.zip"),
                              D("deep", << D("bin", <<F("java.exe")>>),
                                           D("lib", <<F("rt.jar")>>) >>) >>),
                  D("bad", <<F("a.jar")>>) >>) >>

At(segs) == [abs |-> TRUE, segs |-> <<"C:">> \o segs]
JreHomes == {NoPath, At(<<"jdk">>), At(<<"jre">>), At(<<"bad">>)}
Versions == {Ver(1, 1, 8), Ver(1, 6, 0)}
MCDashName(n) == n = "-ea"
MCVmParamWords(p) == <<p>>

\* The archives a 1.1 VM adds, read off the tree above: the .zip files then
\* the .jar files below the directory two levels above the console java.exe,
\* each kind in the order recursiveSearch visits them.
MCArchives(h) ==
    CASE h = At(<<"jdk">>) -> <<At(<<"jdk", "src.zip">>), At(<<"jdk", "lib", "classes.zip">>),
                               At(<<"jdk", "lib", "tools.jar">>)>>
      [] h = At(<<"jre">>) -> <<At(<<"jre", "deep", "lib", "rt.jar">>)>>
      [] OTHER             -> <<>>

(***************************************************************************)
(* The store reaches the java.exe command line (SunJVMExe::run after       *)
(* setupVM), for every JRE home, version and console choice: everything    *)
(* after the main class is exactly the application arguments at launch,    *)
(* and there is one "-classpath" argument before the main class, listing   *)
(* the VM's path elements followed, for a 1.1 VM only, by the archives of  *)
(* the JDK the console executable belongs to, and none when that list is   *)
(* empty.                                                                  *)
(***************************************************************************)
CommandCarriesStore ==
    stage = "setup" =>
        \A h \in JreHomes, ver \in Versions, con \in BOOLEAN :
            LET c    == ExeCommand(vm, ver, h, con, "Main")
                m    == CHOOSE i \in 1..Len(c) : c[i].k = "main"
                full == vm.path \o (IF VM11(ver) THEN MCArchives(h) ELSE <<>>)
            IN  /\ [i \in 1..(Len(c) - m) |-> c[m + i].x] = args
                /\ SelectSeq(SubSeq(c, 1, m - 1), LAMBDA t : t.k = "-classpath")
                      = (IF full = <<>> THEN <<>> ELSE <<[k |-> "-classpath", x |-> full]>>)
=============================================================================
