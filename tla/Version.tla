------------------------------- MODULE Version -------------------------------
(***************************************************************************)
(* The Version value of the JSmooth launcher (commonjava/Version.h).       *)
(*                                                                         *)
(* A Version is major.minor.sub plus a validity flag.  The text form and   *)
(* its parser are abstracted away: a Version is built directly from its    *)
(* three numbers, or is the invalid version whose numbers read as 0.       *)
(***************************************************************************)
EXTENDS Naturals

\* Version(major, minor, sub): a valid version value.
Ver(ma, mi, su) == [valid |-> TRUE, major |-> ma, minor |-> mi, sub |-> su]

\* Version(): the invalid version; getMajor() etc. return 0 on it.
NoVersion == [valid |-> FALSE, major |-> 0, minor |-> 0, sub |-> 0]

\* Versions over the given number ranges, valid and invalid.
VersionSet(Majors, Minors, Subs) ==
    {Ver(ma, mi, su) : ma \in Majors, mi \in Minors, su \in Subs} \cup {NoVersion}

IsValid(v) == v.valid

\* Lexicographic strict order on (major, minor, sub) of two versions.
LexLess(a, b) ==
    \/ a.major < b.major
    \/ a.major = b.major /\ a.minor < b.minor
    \/ a.major = b.major /\ a.minor = b.minor /\ a.sub < b.sub

(***************************************************************************)
(* operator < of Version: "Any comparison (< or <=) between an invalid     *)
(* Version object and another object (invalid or not) return true."        *)
(***************************************************************************)
VersionLess(v1, v2) == ~IsValid(v1) \/ ~IsValid(v2) \/ LexLess(v1, v2)

(***************************************************************************)
(* Version::AscendingSort: despite its name it orders by DEcreasing        *)
(* (major, minor, sub) and ignores validity.  Declared in the header but   *)
(* used by no caller; kept for comparison with the comparator the          *)
(* registry lookup really uses.                                            *)
(***************************************************************************)
AscendingSort(v1, v2) == LexLess(v2, v1)

\* Mutation of InBounds: the minversion test left out.
InBoundsNoMin(v, min, max) == ~(IsValid(max) /\ VersionLess(max, v))

(***************************************************************************)
(* Version gating of SunJVMLauncher::run and ::runProc: a valid bound      *)
(* rejects a version beyond it, an invalid bound imposes nothing.          *)
(***************************************************************************)
InBounds(v, min, max) ==
    /\ ~(IsValid(min) /\ VersionLess(v, min))
    /\ ~(IsValid(max) /\ VersionLess(max, v))
=============================================================================
