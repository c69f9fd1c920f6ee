------------------------------ MODULE MCPtyRead ------------------------------
(* PtyRead for TLC.  One byte is read at a time and the kernel holds one,  *)
(* so that four bytes are enough to go over every bound on the buffer.     *)
EXTENDS PtyRead, TLC
=============================================================================
