----------------------------- MODULE PluginList -----------------------------
(***************************************************************************)
(* server/plugin.c and main() of server/demotool.c: the plugins' lifetime.  *)
(* The server loads every file of a directory, keeps those that are plugins *)
(* on a list linked through their headers, prunes the list when it is told   *)
(* to, serves from it, and unloads it at the end.  Printing is left out.     *)
(***************************************************************************)
EXTENDS PluginTable, FiniteSets, SequencesExt

CONSTANTS
  Plugins,   \* files of the directory that are plugins
  Others,    \* files that load, but hold no plugin
  Info       \* Info[f]: identifier (a number) and version of plugin f

Files == Plugins \cup Others

ASSUME PluginListAssumption ==
  /\ IsFiniteSet(Files)
  /\ Plugins \cap Others = {}
  /\ Info \in [Plugins -> [tag : Nat, version : Nat]]

VARIABLES
  mpc,      \* where main() is
  seen,     \* files ExNext() has returned
  segs,     \* files whose segments are in memory
  list,     \* plugin_list, along the "next" links
  num,      \* num_plugins
  table,    \* *pruned_plugin_list
  served    \* the list given to start_server()

listVars == <<mpc, seen, segs, list, num, table, served>>

\* No table: pruned_plugin_list is NULL.
NoTable == <<>>

Points == {"load", "loaded", "select", "serving", "release", "exited", "crashed"}

TypeOK ==
  /\ mpc \in Points
  /\ seen \subseteq Files
  /\ segs \subseteq Files
  /\ list \in Seq(Plugins)
  /\ num \in Int
  /\ table \in Seq(Plugins)
  /\ served \in Seq(Plugins)

Init ==
  /\ mpc = "load"
  /\ seen = {} /\ segs = {}
  /\ list = <<>> /\ num = 0
  /\ table = NoTable
  /\ served = <<>>

-----------------------------------------------------------------------------
(* load_plugins() *)

\* Mutant: the second plugin is not linked.
LoadFileUnlinked(f) ==
  /\ mpc = "load" /\ f \notin seen
  /\ seen' = seen \cup {f}
  /\ f \in Plugins
  /\ segs' = segs \cup {f}
  /\ list' = IF list = <<>> THEN <<f>> ELSE list
  /\ num' = num + 1
  /\ UNCHANGED <<mpc, table, served>>

\* ExNext() and LoadSeg(): the directory comes in any order.  A file that does
\* not load is passed over, one without the magic number is unloaded again.
LoadFile(f) ==
  /\ mpc = "load" /\ f \notin seen
  /\ seen' = seen \cup {f}
  /\ \/ UNCHANGED <<segs, list, num>>
     \/ /\ f \in Plugins
        /\ segs' = segs \cup {f}
        /\ list' = Append(list, f)
        /\ num' = num + 1
  /\ UNCHANGED <<mpc, table, served>>

\* The directory ends, or cannot be read any further (or at all, when nothing
\* has been counted yet): the count becomes negative.
LoadEnds ==
  /\ mpc = "load"
  /\ \/ seen = Files /\ UNCHANGED num
     \/ num' = -num
  /\ mpc' = "loaded"
  /\ UNCHANGED <<seen, segs, list, table, served>>

-----------------------------------------------------------------------------
(* prune_plugin_list() *)

Id(f) == Info[f].tag
Version(f) == Info[f].version

\* Mutant: the lowest version of each first.
NotAfterRising(f, g) == Id(f) < Id(g) \/ (Id(f) = Id(g) /\ Version(f) <= Version(g))

\* comp(): by identifier, the highest version of each first.
NotAfter(f, g) == Id(f) < Id(g) \/ (Id(f) = Id(g) /\ Version(f) >= Version(g))

\* qsort() may return files that compare equal in either order.
SortedLists(l) == {t \in SetToSeqs(ToSet(l)) : IsSorted(t, NotAfter)}

\* The loop after it: of the first n entries, those whose identifier is not the
\* one of the entry before.
Kept(t) ==
  LET kept[n \in 0..Len(t)] ==
        IF n = 0 THEN <<>>
        ELSE IF n > 1 /\ Id(t[n]) = Id(t[n - 1]) THEN kept[n - 1]
        ELSE Append(kept[n - 1], t[n])
  IN  kept

FirstOfEach(t) == Kept(t)[Len(t)]

Prune ==
  /\ mpc = "loaded" /\ num > 0
  /\ \/ \E t \in SortedLists(list) :
          /\ table' = FirstOfEach(t)
          /\ num' = Len(FirstOfEach(t))
     \/ UNCHANGED <<table, num>>          \* AllocVec() failed
  /\ mpc' = "select"
  /\ UNCHANGED <<seen, segs, list, served>>

-----------------------------------------------------------------------------
(* main() *)

\* Exit(20): nothing is unloaded.
NothingFound ==
  /\ mpc = "loaded" /\ num <= 0
  /\ mpc' = "exited"
  /\ UNCHANGED <<seen, segs, list, num, table, served>>

NoPruning ==
  /\ mpc = "loaded" /\ num > 0
  /\ mpc' = "select"
  /\ UNCHANGED <<seen, segs, list, num, table, served>>

\* The rest of the list from file f on.
ListFrom(f) == SubSeq(list, SelectInSeq(list, LAMBDA g : g = f), Len(list))

\* "plugins = *pruned_plugin_list ? *pruned_plugin_list : plugin_list": the
\* first entry of the table, as the head of a list whose links are those of
\* plugin_list.  Without a table a NULL pointer is read: location 0 of an Amiga
\* mostly holds 0, and what follows from anything else in it is the end.
Select ==
  /\ mpc = "select"
  /\ \/ /\ table # NoTable
        /\ served' = ListFrom(table[1])
        /\ mpc' = "serving"
     \/ /\ table = NoTable
        /\ served' = list
        /\ mpc' = "serving"
     \/ /\ table = NoTable
        /\ mpc' = "crashed"
        /\ UNCHANGED served
  /\ UNCHANGED <<seen, segs, list, num, table>>

\* start_server() returns, the table is freed.
ServerReturns ==
  /\ mpc = "serving"
  /\ mpc' = "release"
  /\ table' = NoTable
  /\ UNCHANGED <<seen, segs, list, num, served>>

\* Mutant: what was served is released, not what was loaded.
ReleaseServed ==
  /\ mpc = "release"
  /\ segs' = segs \ ToSet(served)
  /\ mpc' = "exited"
  /\ UNCHANGED <<seen, list, num, table, served>>

\* release_plugins(plugin_list)
Release ==
  /\ mpc = "release"
  /\ segs' = segs \ ToSet(list)
  /\ mpc' = "exited"
  /\ UNCHANGED <<seen, list, num, table, served>>

Next ==
  \/ \E f \in Files : LoadFile(f)
  \/ LoadEnds \/ Prune \/ NothingFound \/ NoPruning \/ Select
  \/ ServerReturns \/ Release

Spec == Init /\ [][Next]_listVars

-----------------------------------------------------------------------------
(* Properties *)

InfoOf(l) == [i \in DOMAIN l |-> Info[l[i]]]

\* Every segment in memory is on the list exactly once, so that the release
\* at the end finds it and unloads it once; the count main() decides by is the
\* list's length, or the length of the table after pruning.
ListAccounts ==
  /\ IsInjective(list)
  /\ mpc \in {"load", "loaded", "select", "serving", "release"} => segs = ToSet(list)
  /\ mpc \in {"select", "serving"} =>
       num = IF table = NoTable THEN Len(list) ELSE Len(table)

\* A server that has served leaves no plugin behind in memory, whichever list
\* it served from.
ReleasedAll == mpc = "exited" /\ num > 0 => segs = {}

\* The pruned table has one entry for each identifier that was loaded, and no
\* loaded plugin of that identifier has a higher version.
TableHasBest ==
  table # NoTable =>
    /\ \A f \in ToSet(list) :
         Cardinality({i \in DOMAIN table : Id(table[i]) = Id(f)}) = 1
    /\ \A f \in ToSet(table), g \in ToSet(list) :
         Id(f) = Id(g) => Version(f) >= Version(g)

\* Without pruning every plugin in memory can be had: by its exact version, and
\* for any lower minimum a plugin of the same identifier that is recent enough.
LoadedServes ==
  mpc = "serving" /\ table = NoTable =>
    \A f \in segs :
      LET offer == InfoOf(served)
      IN  /\ HasPlugin(offer, Id(f), Version(f), TRUE)
          /\ FindPlugin(offer, Id(f), Version(f), TRUE) = Info[f]
          /\ \A v \in 0..Version(f) :
               LET p == FindPlugin(offer, Id(f), v, FALSE)
               IN  p.tag = Id(f) /\ p.version >= v

\* With pruning the server offers what the table says: the highest version of
\* each plugin can be had.
PrunedServes ==
  mpc = "serving" /\ table # NoTable =>
    \A f \in ToSet(table) :
      HasPlugin(InfoOf(served), Id(f), Version(f), TRUE)
=============================================================================
