------------------------------ MODULE FileUtils ------------------------------
(***************************************************************************)
(* FileUtils (util-core/FileUtils.cpp): the path helpers of the launcher. *)
(*                                                                         *)
(* A path is a record [abs, segs]: what isAbsolute answers for it ("X:\"   *)
(* or "\\" at its start) and its segments; the "\" separators between      *)
(* segments are implied.  A directory, as FindFirstFile/FindNextFile       *)
(* enumerate it, is a sequence of entries [name, dir, sub]: the entry's    *)
(* name, whether it is a directory, and (for a directory) its own          *)
(* entries.  A search pattern is the set of names it matches.              *)
(***************************************************************************)
EXTENDS Naturals, Sequences, SequencesExt

NoPath == [abs |-> FALSE, segs |-> <<>>]

\* isAbsolute, lines 170-176.
IsAbsolute(p) == p.abs

\* Mutation of ConcFile: the isAbsolute test dropped, an absolute file
\* appended to the path as a relative one would be.
ConcFileAlwaysAppend(path, file) == [path EXCEPT !.segs = @ \o file.segs]

\* concFile, lines 145-158: an absolute file is returned as it is, a relative
\* one is appended to the path after a "\" when the path lacks one.
ConcFile(path, file) ==
    IF IsAbsolute(file) THEN file ELSE [path EXCEPT !.segs = @ \o file.segs]

(***************************************************************************)
(* recursiveSearch(pathdir, pattern), lines 57-93: first the entries of    *)
(* pathdir that FindFirstFile(pathdir\pattern) and FindNextFile return,    *)
(* then, for every sub-directory other than "." and ".." in the order      *)
(* the all-names FindFirstFile lists them, the results of the search in    *)
(* it, appended.  "." and ".." are not entries of the model's directories. *)
(* A result is the path of the match below the directory searched.         *)
(***************************************************************************)
\* Mutation of RecursiveSearch: the FindNextFile loop over the matches
\* dropped, only the first match of a directory kept.
RECURSIVE RecursiveSearchFirstMatch(_, _, _)
RecursiveSearchFirstMatch(path, dir, pattern) ==
    LET all  == SelectSeq(dir, LAMBDA e : e.name \in pattern)
        own  == IF all = <<>> THEN all ELSE <<all[1]>>
        subs == SelectSeq(dir, LAMBDA e : e.dir)
    IN  [i \in 1..Len(own) |-> Append(path, own[i].name)]
        \o FlattenSeq([i \in 1..Len(subs) |->
                         RecursiveSearchFirstMatch(Append(path, subs[i].name), subs[i].sub, pattern)])

RECURSIVE RecursiveSearch(_, _, _)
RecursiveSearch(path, dir, pattern) ==
    LET own  == SelectSeq(dir, LAMBDA e : e.name \in pattern)
        subs == SelectSeq(dir, LAMBDA e : e.dir)
    IN  [i \in 1..Len(own) |-> Append(path, own[i].name)]
        \o FlattenSeq([i \in 1..Len(subs) |->
                         RecursiveSearch(Append(path, subs[i].name), subs[i].sub, pattern)])

(***************************************************************************)
(* The file system is a sequence of root entries (the drives).  EntryAt is *)
(* the set holding the entry a path names, empty when there is none;      *)
(* relative paths name nothing (the current directory is not modelled).   *)
(***************************************************************************)
RECURSIVE EntryAt(_, _)
EntryAt(dir, segs) ==
    LET hit == SelectSeq(dir, LAMBDA e : e.name = Head(segs))
    IN  IF hit = <<>> THEN {}
        ELSE IF Len(segs) = 1 THEN {hit[1]} ELSE EntryAt(hit[1].sub, Tail(segs))

\* fileExists(filename) and fileExists(path, filename), lines 41-55: whether
\* GetFileAttributes finds the path (the quotes the code strips are not part
\* of the model's paths).
FileExists(fs, p) == p.abs /\ p.segs # <<>> /\ EntryAt(fs, p.segs) # {}

\* The entries FindFirstFile/FindNextFile list in a directory, none for a
\* path that does not exist or is a file.
ListingAt(fs, p) ==
    IF FileExists(fs, p) THEN (CHOOSE e \in EntryAt(fs, p.segs) : TRUE).sub ELSE <<>>

(***************************************************************************)
(* getParent, lines 125-135: a trailing "\" removed (the recursive call),  *)
(* then the path up to and including its last "\", or the path itself if   *)
(* it has none.  The model's paths carry no trailing "\": the parent of a  *)
(* path of one segment ("C:", "java.exe", or the empty path, where the     *)
(* code reads path[-1]) is the path itself.                                *)
(***************************************************************************)
GetParent(p) == IF Len(p.segs) > 1 THEN [p EXCEPT !.segs = Front(@)] ELSE p
=============================================================================
