------------------------------ MODULE MCLogger ------------------------------
(* An instance of Logger for TLC: levels below, at and above the default, and *)
(* lines that take up to three calls of write.                                *)
EXTENDS Logger
=============================================================================
