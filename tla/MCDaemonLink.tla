---------------------------- MODULE MCDaemonLink ----------------------------
(* DaemonLink for TLC: connections are interchangeable.                    *)
EXTENDS DaemonLink, TLC

Interchangeable == Permutations(Slots)
=============================================================================
