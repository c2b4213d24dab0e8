----------------------------- MODULE MCRestore -----------------------------
EXTENDS Restore, TLC

CONSTANTS db, old, dir, shop, files, archive, env, a, b

From(backend, name, kind, enabled) ==
  [backend |-> backend, name |-> name, kind |-> kind, enabled |-> enabled]
JobWith(sources, mode, identity, buckets) ==
  [sources |-> sources, mode |-> mode, identity |-> identity, buckets |-> buckets]

Shop    == From(db, shop, "postgres", TRUE)
Old     == From(old, archive, "postgres", TRUE)
Twin    == From(db, archive, "postgres", TRUE)  \* a name twice: it drops the dump of the first
Dir     == From(dir, files, "filesystem", TRUE)
DirOff  == From(dir, files, "filesystem", FALSE)
Env     == From(dir, env, "env", TRUE)

\* The postgres source of "shop" finds "shop.archive.dump" before "shop.dump".
MCShadows == [n \in Names |-> IF n = shop THEN {archive} ELSE {}]

MCSelections == {{}, {shop, files}}

Symmetry == Permutations(Parts)

MCJobs ==
  {JobWith(<<Shop, Old, DirOff, Env>>, "none", FALSE, <<b>>),
   JobWith(<<Shop, Dir>>, "age", TRUE, <<a, b>>),
   JobWith(<<Old, Twin>>, "none", FALSE, <<b>>)}
=============================================================================
