--------------------------- MODULE MCColaOffline ---------------------------
(***************************************************************************)
(* Instance of ColaOffline for TLC: two scans of one pupil, two requests   *)
(* at the server, both loops over the store.                               *)
(***************************************************************************)
EXTENDS ColaOffline

CONSTANT hijo

HijoDeMC == [e \in Envios |-> hijo]
HijoDeRecargaMC == [r \in Recargas |-> hijo]
=============================================================================
