------------------------------ MODULE SunJVMDLL ------------------------------
(***************************************************************************)
(* SunJVMDLL (commonjava/SunJVMDLL.cpp): the Java runtime loaded into the  *)
(* launcher's own process.  SunJVMLauncher::run builds one, hands it the   *)
(* configuration through setupVM, and calls run(mainclass, true) (or       *)
(* instanciate() alone); the object lives for that one call, so the model  *)
(* is the set of outcomes of the call rather than a variable.              *)
(*                                                                         *)
(* What the jvm.dll answers is one of:                                     *)
(*   "noload"   : LoadLibrary fails, or JNI_CreateJavaVM or                *)
(*                JNI_GetDefaultJavaVMInitArgs is not exported,            *)
(*   "nocreate" : JNI_CreateJavaVM returns non-zero,                       *)
(*   "ok"       : the VM is created.                                       *)
(* An outcome is "true" or "false" (the call returned it) or "crash" (the  *)
(* launcher process died inside the call).                                 *)
(***************************************************************************)
EXTENDS Version

CONSTANT
    HasJavaProps  \* m_properties is not empty: resource.getJavaProperties(),
                  \* the "javaproperty" entries and -D arguments, has one

\* SunJVMLauncher::run, lines 111-118: the version the SunJVMDLL is built
\* with: VmVersion, else minversion, else 1.2.0.
DllVersion(v, min) ==
    IF IsValid(v) THEN v ELSE IF IsValid(min) THEN min ELSE Ver(1, 2, 0)

\* instanciate, line 101: the JDK 1.1 invocation interface for a 1.1 version.
UsesVM11(v) == v.major = 1 /\ v.minor = 1

(***************************************************************************)
(* setupVM11DLL (lines 185-229) and setupVM12DLL (lines 119-183).  The     *)
(* 1.1 set-up writes each property into jpropstrv[i] of an empty vector    *)
(* (line 203): with a property there is no element to write, and the       *)
(* write goes through the vector's null storage.  Otherwise both build     *)
(* the options and return what JNI_CreateJavaVM answered.                  *)
(***************************************************************************)
SetupVM(v, answer) ==
    IF UsesVM11(v) /\ HasJavaProps THEN {"crash"}
    ELSE {IF answer = "ok" THEN "created" ELSE "notcreated"}

(***************************************************************************)
(* instanciate (lines 77-117).  The library and its two exports are        *)
(* checked first, with an early return.  After the set-up,                 *)
(* registerJniSmooth runs whatever the set-up returned (line 106): after   *)
(* a failed JNI_CreateJavaVM it calls FindClass on an environment that was *)
(* never created, which is undefined, so either the process dies or the    *)
(* call goes on to set JVM_CANT_USE_VM and return false.                   *)
(***************************************************************************)
RegisterJniSmooth(s) ==
    IF s = "notcreated" THEN {"crash", "false"}
    ELSE IF s = "created" THEN {"true"} ELSE {s}

Instanciate(v, answer) ==
    IF answer = "noload" THEN {"false"}
    ELSE UNION {RegisterJniSmooth(s) : s \in SetupVM(v, answer)}

(***************************************************************************)
(* run(mainclass, waitDeath), lines 43-67: instanciate when not started,   *)
(* then, when JVM_LOADED, main is invoked through JClassProxy and the VM   *)
(* destroyed; the call returns true whether or not main was found.         *)
(***************************************************************************)
DllRun(v, answer) == Instanciate(v, answer)
=============================================================================
