---------------------------- MODULE PluginTable -----------------------------
(***************************************************************************)
(* server/plugin.c: choosing a plugin from the list the server has loaded.  *)
(* A plugin is its identifier and its version, major and minor as one       *)
(* number; a list is the sequence of them along the "next" links.           *)
(***************************************************************************)
EXTENDS Integers, Sequences

\* Mutant: DT_FLG_EXACT_VERSION is ignored.
MatchesNewer(p, tag, ver, exact) == p.tag = tag /\ p.version >= ver

Matches(p, tag, ver, exact) ==
  /\ p.tag = tag
  /\ IF exact THEN p.version = ver ELSE p.version >= ver

HasPlugin(list, tag, ver, exact) ==
  \E i \in DOMAIN list : Matches(list[i], tag, ver, exact)

\* find_plugin(): the first entry of the list that serves.
FindPlugin(list, tag, ver, exact) ==
  list[CHOOSE i \in DOMAIN list :
         /\ Matches(list[i], tag, ver, exact)
         /\ \A j \in 1..(i - 1) : ~Matches(list[j], tag, ver, exact)]
=============================================================================
