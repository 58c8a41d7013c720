-------------------------- MODULE MCServerInstaller --------------------------
(***************************************************************************)
(* An instance of ServerInstaller: every choice of provider and key, a     *)
(* configuration given with --config, and a navigation rule named by an    *)
(* option or the wizard.                                                   *)
(***************************************************************************)
EXTENDS ServerInstaller

MCRequests ==
  [prov : Providers \cup {None}, nav : {None}, key : BOOLEAN, config : {FALSE}]
    \cup {[NoOptions EXCEPT !.prov = p, !.config = TRUE] : p \in Providers}
    \cup {[NoOptions EXCEPT !.nav = n] : n \in Ids}
===============================================================================
