-------------------------------- MODULE Names --------------------------------
(***************************************************************************)
(* What the modules of what an application is given have in common: the    *)
(* clients it has, by name.                                                *)
(***************************************************************************)
CONSTANTS
  Clients, \* names of clients
  None     \* no client; and nothing, where an option may be left out

ASSUME NamesAssumption == None \notin Clients
=============================================================================
