--------------------------------- MODULE Sums ---------------------------------
(***************************************************************************)
(* The sum of the values of a function over a finite set: what summate()   *)
(* of packages/common/src/shared-utils.ts adds up, and the sums the        *)
(* services write out as loops.                                            *)
(***************************************************************************)
EXTENDS Integers, FiniteSetsExt

SumOf(f, S) == MapThenSumSet(LAMBDA x : f[x], S)

=============================================================================
