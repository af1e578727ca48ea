------------------------------ MODULE MCRelay ------------------------------
(* Relay for TLC: one inbound connection, exchange after exchange; the     *)
(* number of exchanges is given by each configuration.                     *)
EXTENDS Relay
=============================================================================
