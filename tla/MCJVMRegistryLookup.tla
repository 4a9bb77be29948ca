------------------------- MODULE MCJVMRegistryLookup -------------------------
(***************************************************************************)
(* Checks the registry lookup over every registry content within bounds:   *)
(* the JavaSoft "Java Runtime Environment" and "Java Development Kit" keys *)
(* each hold a short list of version sub-keys, and the                     *)
(* JavaMachineManager constructor calls lookupJVM once on them.            *)
(***************************************************************************)
EXTENDS JVMRegistryLookup, FileUtils, FiniteSets

CONSTANTS
    Insts,      \* installations a sub-key may point to
    Keys,       \* versions a sub-key name may parse to
    MaxJRE,     \* most sub-keys under the JRE key
    MaxJDK      \* most sub-keys under the JDK key

\* One version sub-key; a sub-key with neither value is read and dropped.
Entries == [inst : Insts, key : Keys, hasLib : BOOLEAN, hasHome : BOOLEAN]

VARIABLES
    jre,          \* sub-keys of the JRE key, in RegEnumKey order
    jdk,          \* sub-keys of the JDK key, in RegEnumKey order
    registryVms   \* JavaMachineManager::m_registryVms, <<>> before lookup

vars == <<jre, jdk, registryVms>>

Init ==
    /\ jre \in SeqOf(Entries, MaxJRE)
    /\ jdk \in SeqOf(Entries, MaxJDK)
    /\ registryVms = <<>>

\* JavaMachineManager::JavaMachineManager, line 28: m_registryVms = lookupJVM().
LookupJVMStep ==
    /\ registryVms = <<>>
    /\ registryVms' = LookupJVM(jre, jdk)
    /\ UNCHANGED <<jre, jdk>>

Next == LookupJVMStep

Spec == Init /\ [][Next]_vars

TypeOK ==
    /\ jre \in Seq(Entries) /\ jdk \in Seq(Entries)
    /\ registryVms \in Seq([home : Insts \cup {NoInst}, lib : Insts \cup {NoInst},
                             ver : Keys, exit : {LauncherInitExit}])

(***************************************************************************)
(* Registry discovery order (spec 4.2): once looked up, the registry VMs   *)
(* are exactly the usable JRE and JDK sub-keys, every valid-version entry  *)
(* comes before every invalid one, and valid ones are in non-increasing    *)
(* version order, so the orchestrator tries the newest runtime first.      *)
(***************************************************************************)
RegistryOrder ==
    registryVms # <<>> =>
        /\ ToBag(registryVms) = ToBag(Lookup(jre) \o Lookup(jdk))
        /\ \A i, j \in 1..Len(registryVms) :
              i < j /\ IsValid(registryVms[j].ver) =>
                 /\ IsValid(registryVms[i].ver)
                 /\ ~LexLess(registryVms[i].ver, registryVms[j].ver)

(***************************************************************************)
(* FileUtils::recursiveSearch against a reference definition, over every  *)
(* directory tree of two levels whose directories hold at most two of the  *)
(* names x.jar, y.jar and lib, each a file or a directory, searched with  *)
(* the pattern "*.jar" (SunJVMExe::getClassPath's search of a 1.1 home).   *)
(***************************************************************************)
SearchNames   == {"x.jar", "y.jar", "lib"}
SearchPattern == {"x.jar", "y.jar"}

\* The listings of at most two entries with distinct names.
Listings(es) == {<<>>} \cup {<<e>> : e \in es}
                \cup {<<e, f>> \in es \X es : e.name # f.name}

LeafEntries == [name : SearchNames, dir : BOOLEAN, sub : {<<>>}]
TopEntries  == [name : SearchNames, dir : {FALSE}, sub : {<<>>}]
               \cup [name : SearchNames, dir : {TRUE}, sub : Listings(LeafEntries)]
Trees == Listings(TopEntries)

\* Reference: the paths, of at most two names, that name an entry of the
\* tree matching the pattern; each name but the last is a directory.
SubDir(d, n) == LET es == SelectSeq(d, LAMBDA e : e.name = n /\ e.dir)
                IN IF es = <<>> THEN <<>> ELSE es[1].sub
DirAt(root, q) == FoldLeft(SubDir, root, q)
Names(d) == {d[i].name : i \in 1..Len(d)}
Matches(root, pattern) ==
    {p \in SeqOf(SearchNames, 2) :
        /\ p # <<>> /\ Last(p) \in pattern
        /\ \A i \in 1..Len(p) : p[i] \in Names(DirAt(root, SubSeq(p, 1, i - 1)))}

(***************************************************************************)
(* The search finds everything (getClassPath puts every archive of the     *)
(* home on a 1.1 classpath, the DLL launcher takes the first jvm.dll       *)
(* found): the result lists every matching entry of the tree, at any       *)
(* depth, exactly once.  The search does not read the registry: the      *)
(* statement is evaluated once, in the initial state of an empty registry. *)
(***************************************************************************)
SearchFindsEachMatch ==
    jre = <<>> /\ jdk = <<>> /\ registryVms = <<>> =>
    \A t \in Trees :
        LET r == RecursiveSearch(<<>>, t, SearchPattern) IN
        /\ IsInjective(r)
        /\ Range(r) = Matches(t, SearchPattern)

\* Sub-key names that all parse: versions differing in the minor and the sub number.
ValidKeys == {Ver(1, 4, 0), Ver(1, 4, 2), Ver(1, 5, 0)}

\* The same plus a sub-key name that does not parse (e.g. "CurrentVersion"-like junk).
KeysWithInvalid == ValidKeys \cup {NoVersion}
=============================================================================
