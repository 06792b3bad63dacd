------------------------------- MODULE MCDaemon -------------------------------
(* Two prompt clients and one that may be silent.                          *)
EXTENDS Daemon

CONSTANTS app, apctl, other

MCClients == {app, apctl, other}
MCPrompt  == {app, apctl}
===============================================================================
