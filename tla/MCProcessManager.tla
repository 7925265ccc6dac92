-------------------------- MODULE MCProcessManager --------------------------
(* A command that writes single-byte characters to stdout and one byte of a *)
(* longer character to stderr.                                              *)
EXTENDS ProcessManager

MCWritten == [s \in Streams |-> IF s = "stdout" THEN 2 ELSE 1]
MCCharBytes == [s \in Streams |-> IF s = "stdout" THEN 1 ELSE 2]
=============================================================================
