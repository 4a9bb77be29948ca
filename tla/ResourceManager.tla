--------------------------- MODULE ResourceManager ---------------------------
(***************************************************************************)
(* ResourceManager (commonjava/ResourceManager.cpp): the configuration     *)
(* store of the launcher, read from the executable's resources by the      *)
(* constructor, then changed by the command-line tokens the launcher's     *)
(* main hands to setUserArguments and addUserArgument.                     *)
(*                                                                         *)
(* Resources are three flags: the property, jar and jnismooth resources    *)
(* exist.  A token is a record: its two-character prefix, the key between  *)
(* the prefix and its first "=", whether it has an "=", and the value      *)
(* after it; its length is computed from the lengths of those parts.       *)
(* Paths are FileUtils' records.  setupVM (SunJVMLauncher.cpp) hands the   *)
(* store to the JVMBase object of the in-process launcher.                 *)
(***************************************************************************)
EXTENDS Integers, FileUtils, JVMBase

CONSTANTS
    Keys,        \* property keys the model tells apart
    NoVal,       \* getProperty of a key the store does not contain
    Confs,       \* the property resources, as functions from key to value
    ConfArgs,    \* the words StringUtils::split makes of the "arguments" value
    ConfJProps,  \* the javaproperty_name_i/value_i pairs, placeholders replaced
    Tpl(_),      \* Tpl(v): [ph, rest]: whether v holds ${EXECUTABLEPATH}, and
                 \* the path after it (or v as a path when it does not)
    ExePath,     \* FileUtils::getExecutablePath(), an absolute path
    ExpandEnv(_),\* StringUtils::replaceEnvironmentVariable on a path
    KeyLen,      \* KeyLen[k]: the length of key k
    ValLen,      \* ValLen[v]: the length of value v
    Tokens,      \* command-line tokens main may pass
    ArgLists,    \* token lists main may pass to setUserArguments
    MaxCalls,    \* bound on the tokens handed over after construction
    CpSplit(_),  \* StringUtils::split(v, ";"), each word as a path
    ParseInt(_), \* StringUtils::parseInt
    TempJar,     \* the name createTempFileName gives the payload jar
    TempJni      \* the name it gives the jnismooth jar

Resources == [props : BOOLEAN, jar : BOOLEAN, jni : BOOLEAN, conf : Confs]


VARIABLES
    res,       \* the resources the executable carries
    stage,     \* "init" before the constructor ran, then "ready"
    lastError, \* m_lastError
    props,     \* m_props
    args,      \* m_arguments
    jprops,    \* m_javaProperties, as <<name, value>> pairs
    curdir,    \* m_currentDirectory
    jarH,      \* m_jarHandler: "loaded" or "uninit"
    jniH,      \* m_jnismoothHandler: "loaded", "null" or "uninit"
    given,     \* ghost: every token handed over since construction
    sinceSet,  \* ghost: the tokens handed over since the last setUserArguments
    cleared,   \* ghost: setUserArguments has run
    vm         \* the JVMBase that setupVM fills

vars == <<res, stage, lastError, props, args, jprops, curdir, jarH, jniH,
          given, sinceSet, cleared, vm>>

Init ==
    /\ res \in Resources
    /\ stage = "init"
    /\ lastError = "none"
    /\ props = [k \in Keys |-> NoVal]
    /\ args = <<>>
    /\ jprops = <<>>
    /\ curdir = NoPath
    /\ jarH = "uninit"
    /\ jniH = "uninit"
    /\ given = <<>>
    /\ sinceSet = <<>>
    /\ cleared = FALSE
    /\ vm = JVMBaseInit

(***************************************************************************)
(* The constructor's "currentdir" step: an empty value (m_props.get of an  *)
(* absent key is empty too) gives "", one with                            *)
(* ${EXECUTABLEPATH} gives what follows the placeholder appended to the    *)
(* executable's directory, any other has its environment variables         *)
(* replaced.                                                               *)
(***************************************************************************)
CurrentDirectory(v) ==
    CASE v \in {NoVal, ""} -> NoPath
      [] Tpl(v).ph         -> ConcFile(ExePath, Tpl(v).rest)
      [] OTHER             -> ExpandEnv(Tpl(v).rest)

\* Constructor, lines 83-84: getResource (lines 349-359) is 0 when
\* FindResource finds no jnismooth resource.
JniHandle(r) == IF r.jni THEN "loaded" ELSE "null"

(***************************************************************************)
(* ResourceManager::ResourceManager.  A missing property resource or jar   *)
(* resource sets m_lastError and returns at once; the fields set later     *)
(* keep their default: empty containers and strings, and handles that are *)
(* never initialised.  getResource of a missing jnismooth resource is 0.   *)
(***************************************************************************)
Construct ==
    /\ stage = "init"
    /\ stage' = "ready"
    /\ \/ /\ ~res.props
          /\ lastError' = "noProps"
          /\ UNCHANGED <<props, args, jprops, curdir, jarH, jniH>>
       \/ /\ res.props
          /\ props' = res.conf
          /\ args' = ConfArgs
          /\ \/ /\ ~res.jar
                /\ lastError' = "noJar"
                /\ UNCHANGED <<jprops, curdir, jarH, jniH>>
             \/ /\ res.jar
                /\ jarH' = "loaded"
                /\ jniH' = JniHandle(res)
                /\ jprops' = ConfJProps
                /\ curdir' = CurrentDirectory(res.conf["currentdir"])
                /\ UNCHANGED lastError
    /\ UNCHANGED <<res, given, sinceSet, cleared, vm>>

\* The length of a token: prefix, key, and "=" with the value when present.
TokenSize(t) == 2 + KeyLen[t.key] + (IF t.eq THEN 1 + ValLen[t.val] ELSE 0)

\* ResourceManager::setProperty.
SetProperty(p, key, value) == [p EXCEPT ![key] = value]

(***************************************************************************)
(* ResourceManager::addUserArgument on the store, the properties and the   *)
(* arguments <<p, j, a>>: a token longer than 3 characters with an "=" and *)
(* prefix -J sets a property, with -D adds a java property; any other is   *)
(* appended to the arguments.                                              *)
(***************************************************************************)
\* Mutation of AddArgument: a token must be longer than 4 characters.
AddArgumentLong(s, t) ==
    LET opt == TokenSize(t) > 4 /\ t.eq IN
    CASE opt /\ t.pre = "-J" -> <<SetProperty(s[1], t.key, t.val), s[2], s[3]>>
      [] opt /\ t.pre = "-D" -> <<s[1], Append(s[2], <<t.key, t.val>>), s[3]>>
      [] OTHER               -> <<s[1], s[2], Append(s[3], t)>>

\* Mutation of AddArgument: the -J and -D branches exchanged.
AddArgumentSwapped(s, t) ==
    LET opt == TokenSize(t) > 3 /\ t.eq IN
    CASE opt /\ t.pre = "-D" -> <<SetProperty(s[1], t.key, t.val), s[2], s[3]>>
      [] opt /\ t.pre = "-J" -> <<s[1], Append(s[2], <<t.key, t.val>>), s[3]>>
      [] OTHER               -> <<s[1], s[2], Append(s[3], t)>>

AddArgument(s, t) ==
    LET opt == TokenSize(t) > 3 /\ t.eq IN
    CASE opt /\ t.pre = "-J" -> <<SetProperty(s[1], t.key, t.val), s[2], s[3]>>
      [] opt /\ t.pre = "-D" -> <<s[1], Append(s[2], <<t.key, t.val>>), s[3]>>
      [] OTHER               -> <<s[1], s[2], Append(s[3], t)>>

AddUserArgument(t) ==
    /\ stage = "ready"
    /\ Len(given) < MaxCalls
    /\ LET s == AddArgument(<<props, jprops, args>>, t) IN
       /\ props' = s[1]
       /\ jprops' = s[2]
       /\ args' = s[3]
    /\ given' = Append(given, t)
    /\ sinceSet' = Append(sinceSet, t)
    /\ UNCHANGED <<res, stage, lastError, curdir, jarH, jniH, cleared, vm>>

(***************************************************************************)
(* ResourceManager::setUserArguments: m_arguments cleared, then each token *)
(* handed to addUserArgument in order.                                     *)
(***************************************************************************)
SetUserArguments(l) ==
    /\ stage = "ready"
    /\ Len(given) + Len(l) <= MaxCalls
    /\ LET s == FoldLeft(AddArgument, <<props, jprops, <<>>>>, l) IN
       /\ props' = s[1]
       /\ jprops' = s[2]
       /\ args' = s[3]
    /\ given' = given \o l
    /\ sinceSet' = l
    /\ cleared' = TRUE
    /\ UNCHANGED <<res, stage, lastError, curdir, jarH, jniH, vm>>

\* getProperty(key), lines 185-188: m_props.get, "" for an absent key.
GetProperty(k) == IF props[k] = NoVal THEN "" ELSE props[k]

\* useEmbeddedJar, lines 265-271: the "embedjar" value is exactly "true".
UseEmbeddedJar == props["embedjar"] = "true"

(***************************************************************************)
(* saveJarInTempFile (lines 212-220) and saveJnismoothInTempFile (lines    *)
(* 362-377): "" when the jar is not embedded, or the jnismooth handle is   *)
(* 0; otherwise a new temporary name, returned whether or not saveTemp     *)
(* wrote the resource there.  After an early return of the constructor the *)
(* handles were never initialised: the jar case does not test its handle, *)
(* the jnismooth test reads an indeterminate value and goes either way.   *)
(***************************************************************************)
SaveJarInTempFile == IF UseEmbeddedJar THEN TempJar ELSE ""

SaveJnismoothInTempFile ==
    CASE jniH = "null"   -> {""}
      [] jniH = "loaded" -> {TempJni}
      [] OTHER           -> {"", TempJni}

(***************************************************************************)
(* getNormalizedClassPathVector, lines 228-252: the base is the            *)
(* executable's directory with m_currentDirectory, as the constructor      *)
(* computed it, appended (or m_currentDirectory itself when absolute);     *)
(* each word of the "classpath" property is appended to the base unless    *)
(* absolute.                                                               *)
(***************************************************************************)
\* Mutation of NormalizedClassPath: the commented-out alternative of line
\* 231, the "currentdir" property read again instead of m_currentDirectory.
NormalizedClassPathFromProperty ==
    LET cd   == CurrentDirectory(props["currentdir"])
        base == IF IsAbsolute(cd) THEN cd ELSE ConcFile(ExePath, cd)
        cps  == CpSplit(GetProperty("classpath"))
    IN [i \in 1..Len(cps) |-> ConcFile(base, cps[i])]

NormalizedClassPath ==
    LET base == IF IsAbsolute(curdir) THEN curdir ELSE ConcFile(ExePath, curdir)
        cps  == CpSplit(GetProperty("classpath"))
    IN [i \in 1..Len(cps) |-> ConcFile(base, cps[i])]

(***************************************************************************)
(* SunJVMLauncher::setupVM (SunJVMLauncher.cpp lines 171-217) on the new  *)
(* JVMBase: the java properties, the maximum and initial heap and the VM   *)
(* parameter when their property is not "", the payload jar when           *)
(* embedded, the jnismooth jar when extracted, the normalized classpath,   *)
(* and the arguments, in that order.  Nothing tests the constructor's      *)
(* m_lastError first.                                                      *)
(***************************************************************************)
SetupVM ==
    /\ stage = "ready"
    /\ stage' = "setup"
    /\ \E jni \in SaveJnismoothInTempFile :
        LET v1 == AddProperties(vm, jprops)
            v2 == IF GetProperty("maxheap") # ""
                  THEN SetMaxHeap(v1, ParseInt(GetProperty("maxheap"))) ELSE v1
            v3 == IF GetProperty("initialheap") # ""
                  THEN SetInitialHeap(v2, ParseInt(GetProperty("initialheap"))) ELSE v2
            v4 == IF GetProperty("vmparameter") # ""
                  THEN SetVmParameter(v3, GetProperty("vmparameter")) ELSE v3
            v5 == IF UseEmbeddedJar THEN AddPathElements(v4, <<SaveJarInTempFile>>) ELSE v4
            v6 == IF jni # "" THEN AddPathElements(v5, <<jni>>) ELSE v5
        IN vm' = AddArguments(AddPathElements(v6, NormalizedClassPath), args)
    /\ UNCHANGED <<res, lastError, props, args, jprops, curdir, jarH, jniH,
                   given, sinceSet, cleared>>

Next ==
    \/ Construct
    \/ \E t \in Tokens : AddUserArgument(t)
    \/ \E l \in ArgLists : SetUserArguments(l)
    \/ SetupVM

Spec == Init /\ [][Next]_vars
=============================================================================
