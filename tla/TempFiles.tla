------------------------------ MODULE TempFiles ------------------------------
(***************************************************************************)
(* Temporary files of launcher processes that run at the same time on one *)
(* host and share its %TEMP% directory (two launches of one application,  *)
(* or of two applications).  Each process makes up to Attempts launch      *)
(* attempts; an attempt whose candidate has no known version probes it     *)
(* (SunJVMExe::guessVersion), and one that passes the version gate runs    *)
(* setupVM, which extracts the embedded jar and the jnismooth jar          *)
(* (ResourceManager::saveJarInTempFile, saveJnismoothInTempFile) before    *)
(* the runtime reads its classpath.  Every name comes from                 *)
(* FileUtils::createTempFileName, which returns the first "temp<N><ext>"   *)
(* that does not exist, without creating it.                               *)
(*                                                                         *)
(* A file name is <<ext, N>>; a file's content is what was last written   *)
(* to it: "absent", "stale" (left by an earlier launch: nothing deletes    *)
(* these files before a reboot), "empty", a jar blob, or the text a        *)
(* "java -version" printed.  Text is kept as the model value of its        *)
(* writer's output.                                                        *)
(***************************************************************************)
EXTENDS Naturals, Sequences

CONSTANTS
    Procs,       \* launcher processes
    Attempts,    \* launch attempts a process makes at most
    MaxTemp,     \* temp<N> names considered per extension, N < MaxTemp
    EmbedJar,    \* useEmbeddedJar(): the "embedjar" property is "true"
    JarBlob,     \* the jar resource is present and not empty
    JniBlob,     \* the jnismooth resource is present
    Payload,     \* Payload[p]: the jar blob process p embeds
    Output,      \* Output[p]: what "java -version" prints for p's candidates
    Jni          \* the jnismooth jar blob

Exts  == {"tmp", "jar"}
Names == Exts \X (0..(MaxTemp - 1))
NoName == <<"none", 0>>

VARIABLES
    fs,       \* content of each temp name
    pc,       \* pc[p]: program point of process p
    cnt,      \* cnt[p]: counter of p's running createTempFileName
    ext,      \* ext[p]: extension that createTempFileName was asked for
    tmpName,  \* tmpName[p]: the name createTempFileName last returned to p
    probe,    \* probe[p]: the redirect file of p's "java -version"
    child,    \* child[p]: "none", "running" or "exited": the probing process
    readOut,  \* readOut[p]: what p's last guessVersion read, "none" before
    cp,       \* cp[p]: temp jars on the classpath of p's current attempt
    loaded,   \* loaded[p]: the jar contents p's runtime found, <<>> before
    att       \* att[p]: attempts p has begun

vars == <<fs, pc, cnt, ext, tmpName, probe, child, readOut, cp, loaded, att>>

Init ==
    /\ fs \in {f \in [Names -> {"absent", "stale"}] : \A n \in Names : n[2] > 0 => f[n] = "absent"}
    /\ pc = [p \in Procs |-> "attempt"]
    /\ cnt = [p \in Procs |-> 0]
    /\ ext = [p \in Procs |-> "tmp"]
    /\ tmpName = [p \in Procs |-> NoName]
    /\ probe = [p \in Procs |-> NoName]
    /\ child = [p \in Procs |-> "none"]
    /\ readOut = [p \in Procs |-> "none"]
    /\ cp = [p \in Procs |-> <<>>]
    /\ loaded = [p \in Procs |-> <<>>]
    /\ att = [p \in Procs |-> 1]

(***************************************************************************)
(* FileUtils::createTempFileName(ext): one pass of its do-while loop.  The *)
(* name temp<counter><ext> is built and the counter incremented; the loop  *)
(* ends on the first name GetFileAttributes does not find, which is        *)
(* returned, and p goes on at next.  Nothing reserves the name.            *)
(***************************************************************************)
\* Mutation of CreateTempFileName: the existence test dropped.
CreateTempFileNameNoCheck(p, next) ==
    /\ cnt' = [cnt EXCEPT ![p] = 0]
    /\ tmpName' = [tmpName EXCEPT ![p] = <<ext[p], cnt[p]>>]
    /\ pc' = [pc EXCEPT ![p] = next]
    /\ UNCHANGED <<fs, ext, probe, child, readOut, cp, loaded, att>>

CreateTempFileName(p, next) ==
    LET n == <<ext[p], cnt[p]>> IN
    /\ \/ /\ fs[n] = "absent"
          /\ cnt' = [cnt EXCEPT ![p] = 0]
          /\ tmpName' = [tmpName EXCEPT ![p] = n]
          /\ pc' = [pc EXCEPT ![p] = next]
       \/ /\ fs[n] # "absent"
          /\ cnt' = [cnt EXCEPT ![p] = @ + 1]
          /\ UNCHANGED <<tmpName, pc>>
    /\ UNCHANGED <<fs, ext, probe, child, readOut, cp, loaded, att>>

(***************************************************************************)
(* The attempt's version gate (SunJVMLauncher::runProc or ::run) passes    *)
(* or not; a passing one calls setupVM, whose first extraction is the      *)
(* embedded jar when useEmbeddedJar(), else the jnismooth jar when its     *)
(* resource exists.  A failing one ends the attempt.                       *)
(***************************************************************************)
SetupStart == IF EmbedJar THEN "jarName" ELSE IF JniBlob THEN "jniName" ELSE "launch"

\* Mutation of EndAttempt: the classpath of the attempt kept for the next one,
\* as a SunJVMExe reused across attempts instead of the local one of
\* runProc (SunJVMLauncher.cpp:160) would keep it.
EndAttemptKeepsClasspath(p) ==
    /\ pc' = [pc EXCEPT ![p] = IF att[p] < Attempts THEN "attempt" ELSE "exit"]
    /\ att' = [att EXCEPT ![p] = IF att[p] < Attempts THEN @ + 1 ELSE @]
    /\ UNCHANGED cp

EndAttempt(p) ==
    /\ pc' = [pc EXCEPT ![p] = IF att[p] < Attempts THEN "attempt" ELSE "exit"]
    /\ att' = [att EXCEPT ![p] = IF att[p] < Attempts THEN @ + 1 ELSE @]
    /\ cp' = [cp EXCEPT ![p] = <<>>]

Gate(p) ==
    \/ pc' = [pc EXCEPT ![p] = SetupStart] /\ ext' = [ext EXCEPT ![p] = "jar"]
                                           /\ UNCHANGED <<att, cp>>
    \/ EndAttempt(p) /\ UNCHANGED ext

\* An attempt on a candidate whose VmVersion is known goes to the gate; one
\* whose version is not starts guessVersion.
Attempt(p) ==
    /\ pc[p] = "attempt"
    /\ \/ /\ pc' = [pc EXCEPT ![p] = "probeName"]
          /\ ext' = [ext EXCEPT ![p] = "tmp"]
          /\ UNCHANGED <<att, cp>>
       \/ Gate(p)
    /\ UNCHANGED <<fs, cnt, tmpName, probe, child, readOut, loaded>>

\* SunJVMExe::guessVersion, line 181: createTempFileName(".tmp").
ProbeName(p) == pc[p] = "probeName" /\ CreateTempFileName(p, "probeSpawn")

(***************************************************************************)
(* guessVersion, lines 183-185: "<exe> -version" is started with its       *)
(* output redirected to the temp name, which the redirect creates empty    *)
(* (or truncates).                                                         *)
(***************************************************************************)
ProbeSpawn(p) ==
    /\ pc[p] = "probeSpawn"
    /\ probe' = [probe EXCEPT ![p] = tmpName[p]]
    /\ fs' = [fs EXCEPT ![tmpName[p]] = "empty"]
    /\ child' = [child EXCEPT ![p] = "running"]
    /\ pc' = [pc EXCEPT ![p] = "probeJoin"]
    /\ UNCHANGED <<cnt, ext, tmpName, readOut, cp, loaded, att>>

\* The probing java process prints its version into the redirect file and exits.
ChildWrite(p) ==
    /\ child[p] = "running"
    /\ fs' = [fs EXCEPT ![probe[p]] = Output[p]]
    /\ child' = [child EXCEPT ![p] = "exited"]
    /\ UNCHANGED <<pc, cnt, ext, tmpName, probe, readOut, cp, loaded, att>>

(***************************************************************************)
(* guessVersion, lines 186-201: proc.join(), then readFile of the temp     *)
(* name and the first version token of it; deleteOnReboot, which changes  *)
(* nothing before a reboot.  The guessed version then meets the gate.      *)
(***************************************************************************)
\* Mutation of ProbeJoin: the output read without proc.join().
ProbeJoinNoWait(p) ==
    /\ pc[p] = "probeJoin"
    /\ readOut' = [readOut EXCEPT ![p] = fs[probe[p]]]
    /\ child' = [child EXCEPT ![p] = IF child[p] = "exited" THEN "none" ELSE @]
    /\ Gate(p)
    /\ UNCHANGED <<fs, cnt, tmpName, probe, loaded>>

ProbeJoin(p) ==
    /\ pc[p] = "probeJoin"
    /\ child[p] = "exited"
    /\ readOut' = [readOut EXCEPT ![p] = fs[probe[p]]]
    /\ child' = [child EXCEPT ![p] = "none"]
    /\ Gate(p)
    /\ UNCHANGED <<fs, cnt, tmpName, probe, loaded>>

(***************************************************************************)
(* ResourceManager::saveJarInTempFile (lines 212-221) with saveTemp        *)
(* (lines 154-179): createTempFileName(".jar"), then, when the resource    *)
(* has data, CreateFile(CREATE_ALWAYS), WriteFile, CloseHandle and        *)
(* deleteOnReboot.  The name is returned, and setupVM (lines 190-194) puts *)
(* it on the classpath, whether or not saveTemp wrote it.                  *)
(***************************************************************************)
JarName(p) == pc[p] = "jarName" /\ CreateTempFileName(p, "jarSave")

JarSave(p) ==
    /\ pc[p] = "jarSave"
    /\ fs' = IF JarBlob THEN [fs EXCEPT ![tmpName[p]] = Payload[p]] ELSE fs
    /\ cp' = [cp EXCEPT ![p] = Append(@, tmpName[p])]
    /\ pc' = [pc EXCEPT ![p] = IF JniBlob THEN "jniName" ELSE "launch"]
    /\ UNCHANGED <<cnt, ext, tmpName, probe, child, readOut, loaded, att>>

(***************************************************************************)
(* ResourceManager::saveJnismoothInTempFile (lines 362-376), reached only  *)
(* when the jnismooth resource exists (setupVM, lines 196-198).            *)
(***************************************************************************)
JniName(p) == pc[p] = "jniName" /\ CreateTempFileName(p, "jniSave")

JniSave(p) ==
    /\ pc[p] = "jniSave"
    /\ fs' = [fs EXCEPT ![tmpName[p]] = Jni]
    /\ cp' = [cp EXCEPT ![p] = Append(@, tmpName[p])]
    /\ pc' = [pc EXCEPT ![p] = "launch"]
    /\ UNCHANGED <<cnt, ext, tmpName, probe, child, readOut, loaded, att>>

(***************************************************************************)
(* The runtime started by SunJVMExe::run or SunJVMDLL::run opens the jars  *)
(* of its classpath.  The launch succeeds, and run() returns; or it fails, *)
(* and the attempt ends.                                                   *)
(***************************************************************************)
Launch(p) ==
    /\ pc[p] = "launch"
    /\ loaded' = [loaded EXCEPT ![p] = [i \in 1..Len(cp[p]) |-> fs[cp[p][i]]]]
    /\ \/ pc' = [pc EXCEPT ![p] = "exit"] /\ UNCHANGED <<att, cp>>
       \/ EndAttempt(p)
    /\ UNCHANGED <<fs, cnt, ext, tmpName, probe, child, readOut>>

Next ==
    \E p \in Procs :
        \/ Attempt(p) \/ ProbeName(p) \/ ProbeSpawn(p) \/ ChildWrite(p) \/ ProbeJoin(p)
        \/ JarName(p) \/ JarSave(p) \/ JniName(p) \/ JniSave(p) \/ Launch(p)

\* The launchers and the probing processes interleave freely; only safety
\* is checked of them.
Spec == Init /\ [][Next]_vars
=============================================================================
