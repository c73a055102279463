---------------------------- MODULE MCProtectRpc ----------------------------
(***************************************************************************)
(* ProtectRpc with two sessions and a pool of two callers; one session     *)
(* opens a socket twice.  An answer has two units (its eight bytes are two *)
(* halves), so that a read takes it whole or cuts it in the middle.        *)
(***************************************************************************)
EXTENDS ProtectRpc

CONSTANTS t1, t2

MCThreads == {t1, t2}
MCCalls   == [t \in MCThreads |-> IF t = t1 THEN 2 ELSE 1]
=============================================================================
