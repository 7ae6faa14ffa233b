--------------------------- MODULE MCPluginManager ---------------------------
(***************************************************************************)
(* Values for the constants of PluginManager: the three watchers of the    *)
(* client, on a machine whose pool of threads is too small for them and on *)
(* one where it is not.                                                    *)
(***************************************************************************)
EXTENDS PluginManager

MCWatchers    == {"watcher", "demo", "plugins"}
\* Only of the plugins' directory are the events modelled.
MCUnwatchable == {"plugins"}
MCNames       == {"p"}
MCCores       == {2, 3}
=============================================================================
