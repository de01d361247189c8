---------------------------- MODULE MCEngineScans -----------------------------
(* The sources and relations of MCEngineStartup. Every content of the databases *)
(* is started on; queries are run on one table of each source.                  *)
EXTENDS MCEngineStartup, EngineScans

OneTableEach == {<<{Relation(public, orders)}, {Relation(public, orders)}>>}

AnyQuery == Permutations(Queries)
===============================================================================
