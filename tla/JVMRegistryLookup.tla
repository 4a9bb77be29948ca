--------------------------- MODULE JVMRegistryLookup ---------------------------
(***************************************************************************)
(* JVMRegistryLookup (commonjava/JVMRegistryLookup.cpp): the JVMs listed   *)
(* under HKLM\SOFTWARE\JavaSoft.  The lookup is a pure function of the     *)
(* registry content, so the module defines operators only.                 *)
(*                                                                         *)
(* A registry entry is one version sub-key, in RegEnumKey order:           *)
(*   inst    : the installation its values point to,                       *)
(*   key     : Version(versionname), the sub-key name parsed as a version, *)
(*   hasLib  : a non-empty RuntimeLib value was read,                      *)
(*   hasHome : a non-empty JavaHome value was read.                        *)
(* The launcher built from it is a SunJVMLauncher object (SunJVMLauncher  *)
(* module) with JavaHome, RuntimeLibPath and VmVersion set from it.        *)
(***************************************************************************)
EXTENDS SunJVMLauncher, Sequences, SequencesExt

(***************************************************************************)
(* JVMRegistryLookup::lookup: one SunJVMLauncher per sub-key that has a    *)
(* RuntimeLib or a JavaHome value, in enumeration order.                   *)
(***************************************************************************)
\* Mutation of EntryLauncher: setVmVersion of the sub-key's name left out.
EntryLauncherNoVersion(e) ==
    [NewLauncher(IF e.hasHome THEN e.inst ELSE NoInst) EXCEPT
        !.lib = IF e.hasLib THEN e.inst ELSE NoInst]

EntryLauncher(e) ==
    [NewLauncher(IF e.hasHome THEN e.inst ELSE NoInst) EXCEPT
        !.lib = IF e.hasLib THEN e.inst ELSE NoInst,
        !.ver = e.key]

Lookup(entries) ==
    LET kept == SelectSeq(entries, LAMBDA e : e.hasLib \/ e.hasHome)
    IN  [i \in 1..Len(kept) |-> EntryLauncher(kept[i])]

(***************************************************************************)
(* jvmsorter_dec: s1 goes before s2 when s2 < s1, with operator < of       *)
(* SunJVMLauncher comparing the VmVersion fields by Version's operator <.  *)
(***************************************************************************)
\* Mutation of JvmSorterDec: the arguments of < in the order they are given.
JvmSorterAsc(s1, s2) == VersionLess(s1.ver, s2.ver)

JvmSorterDec(s1, s2) == VersionLess(s2.ver, s1.ver)

(***************************************************************************)
(* std::sort as libstdc++ (the MinGW build of the launcher) runs it on     *)
(* fewer than 17 elements: __introsort_loop does nothing and               *)
(* __insertion_sort inserts each element in turn, comparing with          *)
(* jvmsorter_dec.  An element that goes before the first one is moved to   *)
(* the front at once; any other is walked left by                          *)
(* __unguarded_linear_insert while comp(val, prev) holds.                  *)
(* The comparator is not a strict weak order when a version is invalid,    *)
(* which is undefined behaviour; this is the outcome this build gives.     *)
(***************************************************************************)
RECURSIVE LinearInsert(_, _)
LinearInsert(s, val) ==
    IF s # <<>> /\ JvmSorterDec(val, Last(s))
    THEN Append(LinearInsert(Front(s), val), Last(s))
    ELSE Append(s, val)

InsertStep(s, val) ==
    IF JvmSorterDec(val, s[1]) THEN <<val>> \o s ELSE LinearInsert(s, val)

InsertionSort(s) ==
    IF s = <<>> THEN s
    ELSE FoldLeft(InsertStep, <<Head(s)>>, Tail(s))

(***************************************************************************)
(* JVMRegistryLookup::lookupJVM: the JRE entries, then the JDK entries,    *)
(* sorted with jvmsorter_dec.                                              *)
(***************************************************************************)
LookupJVM(jre, jdk) == InsertionSort(Lookup(jre) \o Lookup(jdk))
=============================================================================
