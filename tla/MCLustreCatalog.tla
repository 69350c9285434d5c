-------------------------- MODULE MCLustreCatalog --------------------------
(* Instances of LustreCatalog.                                             *)
EXTENDS LustreCatalog

CONSTANTS a, b

MCRules == [n \in Names |-> IF n = a THEN "hot" ELSE None]
MCOsts(o) == IF o \in Dirs THEN {} ELSE {o % 2}

World(ops, max, names, crash, polls) ==
  [ops |-> ops, max |-> max, names |-> names, crashes |-> crash, poll |-> polls]
MCWorlds ==
  {World({"CREAT", "UNLNK", "RENME"}, 4, {a, b}, 1, FALSE),
   World({"CREAT", "RENME", "CLOSE"}, 4, {a, b}, 1, FALSE),
   World({"CREAT", "UNLNK", "HLINK"}, 4, {a, b}, 1, FALSE),
   World({"CREAT", "UNLNK", "MOVE"}, 4, {a, b}, 1, FALSE),
   World({"CREAT", "UNLNK", "TRUNC", "archive"}, 4, {a}, 1, TRUE),
   World({"CREAT", "remove", "archive", "CLOSE"}, 3, {a}, 1, TRUE),
   World({"MKDIR", "RENME"}, 5, {a, b}, 0, FALSE),
   World({"MKDIR", "RMDIR"}, 4, {a, b}, 1, FALSE)}
=============================================================================
