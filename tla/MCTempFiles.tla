---------------------------- MODULE MCTempFiles ----------------------------
(***************************************************************************)
(* Launcher processes p1, p2 on one host, two attempts each, two temp     *)
(* names per extension beyond the one an earlier launch may have left.    *)
(***************************************************************************)
EXTENDS TempFiles

CONSTANTS p1, p2, app, jni, out1, out2

\* One application launched twice: both processes embed the same jar.
MCPayload == [p \in {p1, p2} |-> app]

\* The candidates the two processes probe print different versions.
MCOutput == [p \in {p1, p2} |-> IF p = p1 THEN out1 ELSE out2]

Contents == {"absent", "stale", "empty", Jni} \cup {Payload[p] : p \in Procs}
                                              \cup {Output[p] : p \in Procs}

TypeOK ==
    /\ fs \in [Names -> Contents]
    /\ pc \in [Procs -> {"attempt", "probeName", "probeSpawn", "probeJoin", "jarName",
                         "jarSave", "jniName", "jniSave", "launch", "exit"}]
    /\ cnt \in [Procs -> 0..(MaxTemp - 1)]
    /\ att \in [Procs -> 1..Attempts]
    /\ \A p \in Procs : cp[p] \in Seq(Names) /\ Len(cp[p]) <= 2

(***************************************************************************)
(* The jars a runtime finds on its classpath are the ones its own launcher *)
(* extracted for it (spec 3: temporary files are uniquely named per        *)
(* invocation): the application's jar when it is embedded, then the        *)
(* jnismooth jar, and nothing else.  saveJarInTempFile and                 *)
(* saveJnismoothInTempFile name a file by createTempFileName, which does  *)
(* not create it, and save it with CREATE_ALWAYS.                          *)
(***************************************************************************)
OwnClasspath ==
    \A p \in Procs :
        loaded[p] # <<>> =>
            loaded[p] = (IF EmbedJar /\ JarBlob THEN <<Payload[p]>> ELSE <<>>)
                        \o (IF JniBlob THEN <<Jni>> ELSE <<>>)

(***************************************************************************)
(* The version guessVersion reads is the one its own "java -version"       *)
(* printed: the redirect file named by createTempFileName(".tmp") holds   *)
(* that process's output when it is read back after proc.join().           *)
(***************************************************************************)
ProbeOwnOutput ==
    \A p \in Procs : readOut[p] \in {"none", Output[p]}
=============================================================================
