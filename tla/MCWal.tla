------------------------------- MODULE MCWal -------------------------------
(* Small instances of Wal for TLC. *)
EXTENDS Wal

\* Payloads of one, two and three cells: frames of three, four and five.
Lengths(r) == <<2, 1, 3, 1, 2>>[r]
=============================================================================
