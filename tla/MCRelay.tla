------------------------------ MODULE MCRelay ------------------------------
(***************************************************************************)
(* Relay on small instances: chunks of at most two bytes, a slack of two   *)
(* and one tag byte, socket buffers smaller than a frame.                  *)
(***************************************************************************)
EXTENDS Relay

MCUpload   == [s \in Socks |-> IF s = "Src" THEN 4 ELSE 0]
MCDownload == [s \in Socks |-> IF s = "Src" THEN 1 ELSE 2]
MCDuplex   == [s \in Socks |-> IF s = "Src" THEN 2 ELSE 1]
=============================================================================
