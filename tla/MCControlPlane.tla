--------------------------- MODULE MCControlPlane ---------------------------
(***************************************************************************)
(* Values for model-checking ControlPlane: one service stands for the      *)
(* three of docker-compose.yml, which are started and stopped alike.       *)
(***************************************************************************)
EXTENDS ControlPlane

OneService == <<"guacamole">>

=============================================================================
