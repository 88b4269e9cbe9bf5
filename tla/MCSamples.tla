------------------------------ MODULE MCSamples ------------------------------
(***************************************************************************)
(* Samples has one constant, a number: nothing is to be defined for it.    *)
(***************************************************************************)
EXTENDS Samples
===============================================================================
