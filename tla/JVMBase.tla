------------------------------- MODULE JVMBase -------------------------------
(***************************************************************************)
(* JVMBase (commonjava/JVMBase.cpp): the launch settings common to the     *)
(* in-process (SunJVMDLL) and out-of-process (SunJVMExe) launchers, which  *)
(* SunJVMLauncher::setupVM fills from the configuration store.  A JVMBase  *)
(* is a record of its fields; each setter is an operator from the record   *)
(* it is called on to the record it leaves.  setArguments has no caller.   *)
(***************************************************************************)
EXTENDS Integers, Sequences

\* The constructor, lines 23-28, with the vectors empty.
JVMBaseInit == [path |-> <<>>, props |-> <<>>, args |-> <<>>,
                maxHeap |-> -1, initialHeap |-> -1, vmParameter |-> ""]

\* addPathElement, lines 30-33, called on each element of es in turn.
AddPathElements(v, es) == [v EXCEPT !.path = @ \o es]

\* addProperty, lines 35-38, called on each property of ps in turn.
AddProperties(v, ps) == [v EXCEPT !.props = @ \o ps]

\* setMaxHeap, lines 40-43.
SetMaxHeap(v, size) == [v EXCEPT !.maxHeap = size]

\* setInitialHeap, lines 45-48.
SetInitialHeap(v, size) == [v EXCEPT !.initialHeap = size]

\* addArgument, lines 50-54, called on each argument of as in turn.
AddArguments(v, as) == [v EXCEPT !.args = @ \o as]

\* setVmParameter, lines 71-74.
SetVmParameter(v, p) == [v EXCEPT !.vmParameter = p]
=============================================================================
