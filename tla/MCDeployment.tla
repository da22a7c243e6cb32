----------------------------- MODULE MCDeployment -----------------------------
(* A small instance of Deployment: the services that the script stops, in a   *)
(* deployment with a public ingress.                                          *)
EXTENDS Deployment

Ingresses == {"slack", "caddy"}
Workers == {"control", "agent"}
=============================================================================
