-------------------------- MODULE PostgresRestore --------------------------
(***************************************************************************)
(* The replay of a PostgreSQL dump (sources/postgres.py) over a database    *)
(* that moved on after the snapshot and may go on changing: the catalog     *)
(* query, the plan, the script, and the one transaction that drops and      *)
(* recreates, or the replay of a plain dump statement by statement. What    *)
(* the server does with DROP, CASCADE and COMMIT is external.               *)
(***************************************************************************)
EXTENDS Naturals, FiniteSets

CONSTANTS
  Objects,  \* what a database can hold
  Kind,     \* Kind[o]: "relation", "partitioned", "key" (foreign) or "other"
  Schema,   \* Schema[o]: where o lives
  Ref,      \* Ref[o]: the schema of the table a foreign key references
  On,       \* On[o]: the objects o depends on, directly or not
  Mine,     \* Mine[o]: whether the restoring role may drop o
  Dumps,    \* the dumps considered
  MaxDDL    \* statements of other sessions during the restore

Schemas == {Schema[o] : o \in Objects}
Dump    == [objects : SUBSET Objects, creates : SUBSET Schemas, custom : BOOLEAN]

ASSUME ObjectsAssumption ==
  /\ Kind \in [Objects -> {"relation", "partitioned", "key", "other"}]
  /\ Mine \in [Objects -> BOOLEAN]
  /\ On \in [Objects -> SUBSET Objects]
  /\ \A o \in Objects : \A q \in On[o] : On[q] \subseteq On[o]
  /\ MaxDDL \in Nat

\* A foreign key depends on its own table and on the one it references.
ASSUME KeysAssumption ==
  \A o \in Objects : Kind[o] = "key" =>
    \A s \in {Schema[o], Ref[o]} :
      \E t \in On[o] : Schema[t] = s /\ Kind[t] \in {"relation", "partitioned"}

ASSUME DumpsAssumption ==
  /\ Dumps \subseteq Dump
  /\ \A d \in Dumps : \A o \in d.objects : On[o] \subseteq d.objects

VARIABLES
  live,      \* the objects the target holds
  dump,      \* the dump to restore
  old,       \* whether the server is PostgreSQL 16 or older
  pc,        \* the next call
  seen,      \* what the catalog query listed
  plan,      \* the Replacement
  result,
  ddl,       \* statements of other sessions so far
  lost,      \* history: whether a call failed, or another session interfered
  restored,  \* history: the objects the replay created
  base       \* history: what the target would hold without the restore

vars == <<live, dump, old, pc, seen, plan, result, ddl, lost, restored, base>>

Pcs     == {"catalog", "list", "pg_restore", "generate", "apply", "version", "psql",
            "ended"}
NoPlan  == [relations |-> {}, others |-> {}, recreated |-> {}]
Closed(S) == \A o \in S : On[o] \subseteq S

-----------------------------------------------------------------------------
(* plan_replacement, of what the catalog listed and what the dump holds.    *)
IsRelation(o) == Kind[o] \in {"relation", "partitioned"}
Relations(S)  == {o \in S : IsRelation(o)}
Listed        == {o \in live : Kind[o] = "key" \/ Mine[o]}

RelationSchemas == {Schema[o] : o \in Relations(dump.objects)}
SnapshotSchemas == {Schema[o] : o \in Relations(seen)} \cap RelationSchemas
Partitioned == {o \in seen \cap dump.objects : Kind[o] = "partitioned"}
\* Mutant: keys that hold on to the dump from elsewhere are not looked for.
AbsentNoKeys ==
  {o \in seen \ dump.objects :
     \/ Schema[o] \in SnapshotSchemas
     \/ Kind[o] = "other" /\ Schema[o] \in dump.creates}

Absent ==
  {o \in seen \ dump.objects :
     \/ Schema[o] \in SnapshotSchemas
     \/ Kind[o] = "key" /\ Ref[o] \in SnapshotSchemas
     \/ Kind[o] = "other" /\ Schema[o] \in dump.creates}
\* Mutant: every relation of the database.
ReplacedAll == Relations(seen)

Replaced == {o \in Relations(seen) : Schema[o] \in SnapshotSchemas}
Plain    == Partitioned = {} /\ Absent = {}
\* Mutant: any database looks like the dumped one.
StrangerNever == FALSE

Stranger == Replaced # {} /\ Replaced \cap dump.objects = {}
Replacement ==
  [relations |-> Replaced, others |-> {o \in Absent : Kind[o] = "other"},
   recreated |-> dump.creates]

(* The server. DROP ... CASCADE takes along what depends on the object; the *)
(* clean phase of a dump drops its objects and the schemas it creates       *)
(* without CASCADE, and the primary key of a partition on its own.          *)
Drops(D) == {o \in live : o \in D \/ On[o] \cap D # {}}
Prelude(p) ==
  live \ Drops(p.relations \cup p.others \cup {o \in Objects : Schema[o] \in p.recreated})
CleanFails(S) ==
  \/ \E o \in S \ dump.objects : On[o] \cap dump.objects # {} \/ Schema[o] \in dump.creates
  \/ \E o \in S \cap dump.objects : Kind[o] = "partitioned" \/ ~Mine[o]

-----------------------------------------------------------------------------
Init ==
  /\ live \in {S \in SUBSET Objects : Closed(S)}
  /\ dump \in Dumps
  /\ old \in BOOLEAN
  /\ pc = IF dump.custom THEN "catalog" ELSE "version"
  /\ seen = {}
  /\ plan = NoPlan
  /\ result = "none"
  /\ ddl = 0
  /\ lost = FALSE
  /\ restored = {}
  /\ base = live

At(l)     == pc = l /\ UNCHANGED <<dump, old, ddl>>
Ends(res) == pc' = "ended" /\ result' = res
Target    == <<live, restored, base>>

CatalogQuery ==
  /\ At("catalog")
  /\ seen' = Listed
  /\ pc' = IF Listed # {} THEN "list" ELSE IF old THEN "generate" ELSE "pg_restore"
  /\ UNCHANGED <<plan, result, lost, Target>>

\* The catalog query, the listing of the dump or the script fails.
CallFails ==
  /\ pc \in {"catalog", "list", "generate"}
  /\ At(pc)
  /\ Ends("failed")
  /\ lost' = TRUE
  /\ UNCHANGED <<seen, plan, Target>>

KeepsPlain ==
  /\ At("list")
  /\ Plain
  /\ pc' = IF old THEN "generate" ELSE "pg_restore"
  /\ UNCHANGED <<seen, plan, result, lost, Target>>

Refuses ==
  /\ At("list")
  /\ ~Plain
  /\ Stranger
  /\ Ends("refused")
  /\ UNCHANGED <<seen, plan, lost, Target>>

Plans ==
  /\ At("list")
  /\ ~Plain
  /\ ~Stranger
  /\ plan' = Replacement
  /\ pc' = "generate"
  /\ UNCHANGED <<seen, result, lost, Target>>

\* The script is complete before any of it runs.
Generate ==
  /\ At("generate")
  /\ pc' = "apply"
  /\ UNCHANGED <<seen, plan, result, lost, Target>>

\* One transaction: the prelude, then the clean and create phases of the dump.
\* An old server rejects what pg_restore sets on connecting; the script does
\* without.
Commits(S) ==
  /\ live' = (S \ dump.objects) \cup dump.objects
  /\ restored' = dump.objects
  /\ UNCHANGED base

Transaction(S, rejected) ==
  /\ UNCHANGED <<seen, plan>>
  /\ \/ /\ ~rejected
        /\ ~CleanFails(S)
        /\ Commits(S)
        /\ Ends("ok")
        /\ UNCHANGED lost
     \/ /\ rejected \/ CleanFails(S)
        /\ Ends("failed")
        /\ UNCHANGED <<lost, Target>>
     \/ /\ Ends("failed")      \* the connection is lost, before or after COMMIT
        /\ lost' = TRUE
        /\ \/ UNCHANGED Target
           \/ ~rejected /\ ~CleanFails(S) /\ Commits(S)

PgRestore == At("pg_restore") /\ Transaction(live, old)
\* Mutant: drops and dump are two transactions.
ApplyInTwo ==
  /\ At("apply")
  /\ \/ Transaction(Prelude(plan), FALSE)
     \/ /\ live' = Prelude(plan)
        /\ Ends("failed")
        /\ lost' = TRUE
        /\ UNCHANGED <<seen, plan, restored, base>>

Apply     == At("apply") /\ Transaction(Prelude(plan), FALSE)

\* A plain dump: without its version an old server's header line stays in.
ServerVersion ==
  /\ At("version")
  /\ pc' = "psql"
  /\ lost' \in BOOLEAN
  /\ UNCHANGED <<seen, plan, result, Target>>

\* psql commits statement by statement and stops at the first error: an object
\* that is there already, or the header line.
Psql ==
  /\ At("psql")
  /\ \E made \in SUBSET (dump.objects \ live) :
       /\ Closed(live \cup made)
       /\ live' = live \cup made
       /\ restored' = made
       /\ \/ /\ made = dump.objects
             /\ ~(lost /\ old)
             /\ Ends("ok")
             /\ UNCHANGED lost
          \/ /\ (lost /\ old) => made = {}
             /\ Ends("failed")
             /\ lost' = (lost \/ dump.objects \cap live = {})
  /\ UNCHANGED <<seen, plan, base>>

\* Another session creates or drops an object between two calls.
OtherSession ==
  /\ pc # "ended"
  /\ ddl < MaxDDL
  /\ ddl' = ddl + 1
  /\ \E o \in Objects :
       \/ /\ o \notin live
          /\ On[o] \subseteq live
          /\ live' = live \cup {o}
       \/ /\ o \in live
          /\ live' = live \ Drops({o})
  /\ base' = live'
  /\ lost' = TRUE
  /\ UNCHANGED <<dump, old, pc, seen, plan, result, restored>>

\* The next restore, of any dump, over what this one left.
Again ==
  /\ pc = "ended"
  /\ dump' \in Dumps
  /\ pc' = IF dump'.custom THEN "catalog" ELSE "version"
  /\ seen' = {}
  /\ plan' = NoPlan
  /\ result' = "none"
  /\ ddl' = 0
  /\ lost' = FALSE
  /\ restored' = {}
  /\ base' = live
  /\ UNCHANGED <<live, old>>

Next ==
  \/ CatalogQuery \/ CallFails \/ KeepsPlain \/ Refuses \/ Plans \/ Generate
  \/ PgRestore \/ Apply \/ ServerVersion \/ Psql
  \/ OtherSession \/ Again

Spec == Init /\ [][Next]_vars

-----------------------------------------------------------------------------
TypeOK ==
  /\ live \subseteq Objects
  /\ dump \in Dumps
  /\ old \in BOOLEAN
  /\ pc \in Pcs
  /\ seen \subseteq Objects
  /\ plan \in [relations : SUBSET Objects, others : SUBSET Objects,
               recreated : SUBSET Schemas]
  /\ result \in {"none", "ok", "refused", "failed"}
  /\ ddl \in 0..MaxDDL
  /\ lost \in BOOLEAN
  /\ restored \subseteq Objects
  /\ base \subseteq Objects

\* A custom dump is restored in full or not at all: after a restore that failed
\* anywhere, or whose answer was lost, the target holds the whole dump or
\* exactly what it would hold without the restore. Concerns _restore_replacing.
AllOrNothing ==
  dump.custom =>
    \/ restored = {} /\ live = base
    \/ restored = dump.objects /\ restored \subseteq live

\* What the snapshot does not hold is left to itself: an object is only lost to
\* a restore when it, or something it depends on, lies in a schema the dump
\* creates or holds relations of. Concerns plan_replacement.
DumpSchemas == dump.creates \cup RelationSchemas
OthersKept ==
  \A o \in base \ live :
    \E q \in On[o] \cup {o} : Schema[q] \in DumpSchemas

\* A target whose relations in the snapshot's schemas are all unknown to the
\* dump is another application's: nothing is dropped or created there.
StrangerSpared ==
  LET own == {o \in Relations(seen) : \E q \in Relations(dump.objects) : Schema[q] = Schema[o]}
  IN  own # {} /\ own \cap dump.objects = {} => restored = {}

\* An application upgrade is undone: over what a newer version's migrations
\* made of the snapshot's schema, with no failure and no other session, the
\* restore succeeds and leaves nothing of the upgrade in those schemas. Not
\* among the migrations: a view or table elsewhere that uses the dump's objects,
\* and a table in a schema the dump creates without relations of its own.
Migrated(o) ==
  \/ Schema[o] \in RelationSchemas
  \/ Kind[o] = "key" /\ Ref[o] \in RelationSchemas
  \/ /\ On[o] \cap dump.objects = {}
     /\ Schema[o] \in dump.creates => Kind[o] = "other"
Upgraded ==
  /\ \A o \in base : Mine[o] /\ (o \in dump.objects \/ Migrated(o))
  /\ \A s \in RelationSchemas : \E o \in Relations(base \cap dump.objects) : Schema[o] = s
UpgradeIsUndone ==
  dump.custom /\ pc = "ended" /\ ~lost /\ Upgraded =>
    /\ result = "ok"
    /\ \A o \in live \ dump.objects : Schema[o] \notin RelationSchemas
=============================================================================
