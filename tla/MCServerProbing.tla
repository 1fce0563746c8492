-------------------------- MODULE MCServerProbing --------------------------
(* Three hosts of ServerProbing for TLC. *)
EXTENDS ServerProbing, TLC

CONSTANTS a, b, c

\* c is not on the network of a and b; a knows it from its configuration.
MCNets == (a :> <<{a, b}>>) @@ (b :> <<{a, b}>>) @@ (c :> <<{c}>>)
MCConfig == (a :> <<b, c>>) @@ (b :> <<>>) @@ (c :> <<>>)
=============================================================================
