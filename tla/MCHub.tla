------------------------------- MODULE MCHub --------------------------------
(* Instances of Hub for TLC: two browsers, channels of one message.           *)
EXTENDS Hub

CONSTANTS c1, c2
=============================================================================
