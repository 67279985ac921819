---------------------------- MODULE MCMutations ----------------------------
(* An instance of Mutations for TLC: a batch may be sent whole or in part. *)
EXTENDS Mutations

CONSTANTS moved, commented

Created == {commented}
Sent == {<<moved>>, <<commented>>, <<moved, commented>>}
=============================================================================
