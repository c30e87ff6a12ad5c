---------------------------- MODULE MCPluginList ----------------------------
(* Two versions of a plugin, two builds of another, a third, and a file that *)
(* is none of them.                                                          *)
EXTENDS PluginList

CONSTANTS old, new, twin1, twin2, single, notes

MCPlugins == {old, new, twin1, twin2, single}
MCOthers == {notes}

MCInfo ==
  [f \in MCPlugins |->
     CASE f = old    -> [tag |-> 2, version |-> 1]
       [] f = new    -> [tag |-> 2, version |-> 3]
       [] f = twin1  -> [tag |-> 1, version |-> 2]
       [] f = twin2  -> [tag |-> 1, version |-> 2]
       [] f = single -> [tag |-> 3, version |-> 0]]
=============================================================================
