------------------------------ MODULE MCLibrary ------------------------------
(* Instances of Library for TLC. *)
EXTENDS Library, TLC

CONSTANTS ja, en, ko

ThreeSources == <<ko, ja, en>>
=============================================================================
