------------------------------ MODULE SunJVMExe ------------------------------
(***************************************************************************)
(* The command line of the out-of-process launcher                        *)
(* (commonjava/SunJVMExe.cpp): what SunJVMExe::run hands to Process once   *)
(* setupVM has filled the JVMBase fields.  Whether the process starts and  *)
(* what it returns are in SunJVMLauncher (ExeStarts, RunProc).             *)
(*                                                                         *)
(* The command is a sequence of tokens [k, x]: the executable, a VM        *)
(* parameter word, a heap flag with its size, a property ("-D" with the    *)
(* <<name, value>> pair, or "opt" with a name that starts with "-"), the   *)
(* "-classpath" argument with its elements, the main class, and an         *)
(* application argument.  Quoting and joining with " " are left out: they  *)
(* do not change which tokens there are or their order.                    *)
(***************************************************************************)
EXTENDS Integers, JVMBase, FileUtils, Version

CONSTANTS
    FS,               \* the file system: a sequence of drive entries
    VmParamWords(_),  \* StringUtils::split(m_vmParameter, " ", " ", false)
    DashName(_),      \* the property name starts with "-"
    ZipPattern,       \* the names "*.zip" matches
    JarPattern        \* the names "*.jar" matches

\* The JDK 1.1 spellings of run, lines 64, 72 and 86.
VM11(ver) == ver.major = 1 /\ ver.minor = 1

(***************************************************************************)
(* lookUpExecutable(useconsole), lines 118-168: a bare java.exe (javaw.exe *)
(* without a console) when there is no JRE home; otherwise home\bin\java.exe*)
(* if it exists, else home\bin\jre.exe, else the first java.exe that       *)
(* recursiveSearch finds under the home, else the first jre.exe, else the  *)
(* empty path.                                                             *)
(***************************************************************************)
LookUpExecutable(jrehome, useconsole) ==
    LET names    == IF useconsole THEN <<"java.exe", "jre.exe">> ELSE <<"javaw.exe", "jrew.exe">>
        inBin(n) == ConcFile(jrehome, [abs |-> FALSE, segs |-> <<"bin", n>>])
        found(n) == RecursiveSearch(jrehome.segs, ListingAt(FS, jrehome), {n})
        asPath(s) == [abs |-> jrehome.abs, segs |-> s]
    IN  CASE jrehome = NoPath                 -> [abs |-> FALSE, segs |-> <<names[1]>>]
          [] FileExists(FS, inBin(names[1])) -> inBin(names[1])
          [] FileExists(FS, inBin(names[2])) -> inBin(names[2])
          [] found(names[1]) # <<>>          -> asPath(Head(found(names[1])))
          [] found(names[2]) # <<>>          -> asPath(Head(found(names[2])))
          [] OTHER                           -> NoPath

\* The files of "pattern" recursiveSearch finds under "home", as paths.
ArchivesUnder(home, pattern) ==
    LET rs == RecursiveSearch(home.segs, ListingAt(FS, home), pattern)
    IN  [i \in 1..Len(rs) |-> [abs |-> home.abs, segs |-> rs[i]]]

\* Mutation of GetClassPath: the "if (full)" dropped, the home's archives
\* added whatever the version.
GetClassPathAlwaysFull(v, full, jrehome) ==
    LET home == GetParent(GetParent(LookUpExecutable(jrehome, TRUE)))
    IN  v.path \o IF FileExists(FS, home)
                  THEN ArchivesUnder(home, ZipPattern) \o ArchivesUnder(home, JarPattern)
                  ELSE <<>>

(***************************************************************************)
(* getClassPath(full), lines 205-223: the path elements, then, when full,  *)
(* the "*.zip" and then the "*.jar" files under the grandparent of the     *)
(* console executable, if that exists.                                     *)
(***************************************************************************)
GetClassPath(v, full, jrehome) ==
    LET home == GetParent(GetParent(LookUpExecutable(jrehome, TRUE)))
    IN  v.path \o IF full /\ FileExists(FS, home)
                  THEN ArchivesUnder(home, ZipPattern) \o ArchivesUnder(home, JarPattern)
                  ELSE <<>>

(***************************************************************************)
(* SunJVMExe::run, lines 49-101, for a valid version: the executable, the   *)
(* VM parameter's words, -Xmx and -Xms (-mx and -ms for 1.1) when the size *)
(* is positive, the properties, "-classpath" when the class path is not    *)
(* empty (the full one for 1.1), the main class, and the arguments.        *)
(***************************************************************************)
ExeCommand(v, ver, jrehome, useconsole, main) ==
    LET tok(k, x) == [k |-> k, x |-> x]
        cp        == GetClassPath(v, VM11(ver), jrehome)
        heap(f11, f, n) == IF n > 0 THEN <<tok(IF VM11(ver) THEN f11 ELSE f, n)>> ELSE <<>>
        words     == IF v.vmParameter # "" THEN VmParamWords(v.vmParameter) ELSE <<>>
    IN  <<tok("exe", LookUpExecutable(jrehome, useconsole))>>
        \o [i \in 1..Len(words) |-> tok("word", words[i])]
        \o heap("-mx", "-Xmx", v.maxHeap)
        \o heap("-ms", "-Xms", v.initialHeap)
        \o [i \in 1..Len(v.props) |->
              IF DashName(v.props[i][1]) THEN tok("opt", v.props[i][1]) ELSE tok("-D", v.props[i])]
        \o (IF cp # <<>> THEN <<tok("-classpath", cp)>> ELSE <<>>)
        \o <<tok("main", main)>>
        \o [i \in 1..Len(v.args) |-> tok("arg", v.args[i])]
=============================================================================
