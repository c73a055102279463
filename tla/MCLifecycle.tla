---------------------------- MODULE MCLifecycle ----------------------------
(***************************************************************************)
(* Lifecycle with a handful of descriptors, connections and datagrams.     *)
(***************************************************************************)
EXTENDS Lifecycle, TLC

CONSTANTS c1, c2, d1

MCConns     == {c1, c2}
MCOneConn   == {c1}
MCDatagrams == {d1}

\* Connections are interchangeable; used for safety only.
MCSymmetry == Permutations(MCConns)
=============================================================================
