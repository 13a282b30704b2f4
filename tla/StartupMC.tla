------------------------------ MODULE StartupMC ------------------------------
(* Startup with three transactions, the first two of them in one block.              *)
EXTENDS Startup

MCNumbers == 1 .. 3
MCBlockOf == <<1, 1, 3>>
=============================================================================
