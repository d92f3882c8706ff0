----------------------------- MODULE MCGodotVfs -----------------------------
(* GodotVfs for TLC; and Extensions, with two connections and two libraries.  One
   of the two is followed while the other has not begun: a file and a library
   do not depend on each other. *)
EXTENDS GodotVfs, Extensions

MCInit == Init /\ ExtensionsInit
MCNext ==
  \/ ExtensionsInit /\ Next /\ UNCHANGED extensionsVars
  \/ Init /\ ExtensionsNext /\ UNCHANGED vars

MCSpec == MCInit /\ [][MCNext]_<<vars, extensionsVars>> /\ WF_vars(Reading)
=============================================================================
