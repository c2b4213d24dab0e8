------------------------- MODULE MCPostgresRestore -------------------------
EXTENDS PostgresRestore, TLC

CONSTANTS t, v, e, u, p, k, x, y, z, s, r, w

MCObjects == {t, v, e, u, p, k, x, y, z, s, r, w}

MCKind == [o \in MCObjects |->
  CASE o \in {e, r} -> "other" [] o \in {k, z} -> "key" [] o = p -> "partitioned"
    [] OTHER -> "relation"]
MCSchema == [o \in MCObjects |->
  CASE o \in {x, y, z} -> "ext" [] o \in {r, w} -> "lib" [] OTHER -> "app"]
MCRef == [o \in MCObjects |-> IF o \in {k, z} THEN "app" ELSE "none"]
MCOn == [o \in MCObjects |->
  CASE o \in {v, y} -> {t} [] o = u -> {e} [] o = k -> {e, u, t} [] o = z -> {x, t}
    [] OTHER -> {}]
MCMine == [o \in MCObjects |-> o # s]

DumpOf(objects, creates, custom) ==
  [objects |-> objects, creates |-> creates, custom |-> custom]
MCDumps ==
  {DumpOf({t, v}, {}, TRUE), DumpOf({t, e, u, k}, {"app"}, TRUE), DumpOf({t, p}, {}, TRUE),
   DumpOf({t}, {"lib"}, TRUE), DumpOf({t, r}, {"lib"}, TRUE), DumpOf({t, v}, {}, FALSE)}
=============================================================================
