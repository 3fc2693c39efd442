----------------------------- MODULE MCRelayServer -----------------------------
(* A small instance of RelayServer for TLC. *)
EXTENDS RelayServer

CONSTANTS proxy

(* Behind a reverse proxy all connections come from one address. *)
OnePeer == [c \in Connections |-> proxy]
===============================================================================
