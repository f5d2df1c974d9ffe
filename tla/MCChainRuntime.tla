--------------------------- MODULE MCChainRuntime ---------------------------
(***************************************************************************)
(* Instances of ChainRuntime for TLC: the entry task t0 and two tasks.     *)
(* Field s belongs to the self channel of t1 and x leads from t2 to t1; t1 *)
(* syncs x with s, as loops of the applications do.                        *)
(***************************************************************************)
EXTENDS ChainRuntime

CONSTANTS t0, t1, t2, s, x, null

const_Writer == [f \in {s, x} |-> IF f = x THEN t2 ELSE t1]
const_SyncLists == [t \in {t0, t1, t2} |-> CASE t = t1 -> {<<x, s>>, <<s>>}
                                             [] OTHER -> {}]
=============================================================================
