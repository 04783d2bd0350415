----------------------------- MODULE MCMariaDB -----------------------------
(***************************************************************************)
(* The MariaDB proxy for TLC: the session, for which an exchange with the  *)
(* server has an outcome, and the packets of the exchanges.  They share no *)
(* state, so a behaviour is one of either.                                 *)
(***************************************************************************)
EXTENDS MCMariaDBSession, MariaDBWire

ProxyInit == Init /\ WireInit

ProxyNext ==
  \/ cmd = "none" /\ Next /\ UNCHANGED wireVars
  \/ last.cmd = "none" /\ WireNext /\ UNCHANGED vars

ProxySpec == ProxyInit /\ [][ProxyNext]_<<vars, wireVars>>
=============================================================================
