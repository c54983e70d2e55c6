----------------------------- MODULE MCTunnel -----------------------------
(* One command next to one page with two refreshes in progress at most. *)
EXTENDS TunnelSystem

CONSTANTS c1, r1, r2, si, so

MCCli == {c1}
MCChains == {r1, r2}
MCClients == {c1, r1, r2, si, so}
===========================================================================
