---------------------------- MODULE MCSessionCli ----------------------------
(* Instances of SessionCli for TLC.                                         *)
EXTENDS SessionCli

CONSTANT r1

(* A start, then a resume that only replays.                                *)
MCReplay == <<r1, NoId>>
=============================================================================
