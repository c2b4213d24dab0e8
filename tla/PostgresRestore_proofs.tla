----------------------- MODULE PostgresRestore_proofs -----------------------
(* What the replay of a dump may do to its target, for every set of objects, *)
(* their dependencies and every dump.                                        *)
EXTENDS PostgresRestore, TLAPS

(* The plan only names what lies in the schemas of the dump, and nothing has *)
(* touched the target while a custom restore still makes its plan.           *)
PlanInDump ==
  /\ plan.relations \subseteq Objects
  /\ plan.others \subseteq Objects
  /\ \A o \in plan.relations \cup plan.others : Schema[o] \in DumpSchemas
  /\ plan.recreated \subseteq DumpSchemas

Untouched == pc # "ended" => restored = {} /\ live = base

Custom ==
  /\ dump.custom => pc \notin {"version", "psql"}
  /\ ~dump.custom => pc \in {"version", "psql", "ended"} /\ seen = {}

Strange ==
  LET own == {o \in Relations(seen) : \E q \in Relations(dump.objects) : Schema[q] = Schema[o]}
  IN  own # {} /\ own \cap dump.objects = {}
NoStranger == pc \in {"pg_restore", "generate", "apply"} => ~Strange

IInv ==
  /\ TypeOK
  /\ PlanInDump
  /\ Untouched
  /\ Custom
  /\ NoStranger
  /\ AllOrNothing
  /\ OthersKept
  /\ StrangerSpared

LEMMA DumpFacts ==
  ASSUME NEW d \in Dumps
  PROVE  /\ d.objects \subseteq Objects
         /\ d.creates \subseteq Schemas
         /\ d.custom \in BOOLEAN
BY DumpsAssumption DEF Dump

LEMMA EmptyPlan ==
  /\ NoPlan \in [relations : SUBSET Objects, others : SUBSET Objects,
                 recreated : SUBSET Schemas]
  /\ NoPlan.relations = {} /\ NoPlan.others = {} /\ NoPlan.recreated = {}
BY DEF NoPlan

LEMMA Initially == Init => IInv
<1> SUFFICES ASSUME Init PROVE IInv
  OBVIOUS
<1> USE DEF Init
<1>1. TypeOK
  <2>1. live \subseteq Objects /\ base \subseteq Objects
    OBVIOUS
  <2>2. pc \in Pcs
    BY DEF Pcs
  <2>3. ddl \in 0..MaxDDL
    BY ObjectsAssumption
  <2> QED BY <2>1, <2>2, <2>3, EmptyPlan DEF TypeOK
<1>2. PlanInDump /\ Untouched /\ NoStranger
  BY EmptyPlan DEF PlanInDump, Untouched, NoStranger
<1>3. Custom
  BY DumpFacts DEF Custom
<1>4. AllOrNothing /\ OthersKept
  BY DEF AllOrNothing, OthersKept
<1>5. StrangerSpared
  BY DEF StrangerSpared, Relations
<1> QED BY <1>1, <1>2, <1>3, <1>4, <1>5 DEF IInv

(* What the plan drops depends on something in a schema of the dump.         *)
LEMMA PreludeSpares ==
  ASSUME TypeOK, PlanInDump, NEW o \in live, o \notin Prelude(plan)
  PROVE  \E q \in On[o] \cup {o} : Schema[q] \in DumpSchemas
<1> DEFINE D == plan.relations \cup plan.others \cup
                {q \in Objects : Schema[q] \in plan.recreated}
<1>1. o \in D \/ On[o] \cap D # {}
  BY DEF Prelude, Drops
<1>2. \A q \in D : Schema[q] \in DumpSchemas
  BY DEF PlanInDump
<1> QED BY <1>1, <1>2

(* The one transaction: all of the dump or nothing, and of the rest it loses *)
(* at most what was missing from S already.                                  *)
LEMMA OneTransaction ==
  ASSUME IInv, NEW S \in SUBSET Objects, NEW rejected \in BOOLEAN,
         dump.custom, pc \in {"pg_restore", "apply"},
         UNCHANGED <<dump, old, ddl>>, Transaction(S, rejected),
         \A o \in live \ S : \E q \in On[o] \cup {o} : Schema[q] \in DumpSchemas
  PROVE  IInv'
<1> USE DEF IInv, Transaction, Ends, Target
<1>0. dump \in Dumps /\ dump.objects \subseteq Objects
  BY DumpFacts DEF TypeOK
<1>1. UNCHANGED <<seen, plan, base>> /\ pc' = "ended"
  BY DEF Commits
<1>2. \/ live' = live /\ restored' = restored
      \/ live' = (S \ dump.objects) \cup dump.objects /\ restored' = dump.objects
  BY DEF Commits
<1>3. restored = {} /\ live = base
  BY DEF Untouched
<1>4. TypeOK'
  BY <1>0, <1>1, <1>2 DEF TypeOK, Pcs
<1>5. PlanInDump' /\ Untouched' /\ Custom' /\ NoStranger'
  BY <1>1 DEF PlanInDump, Untouched, Custom, NoStranger, DumpSchemas, RelationSchemas, Relations
<1>6. AllOrNothing'
  BY <1>1, <1>2, <1>3 DEF AllOrNothing
<1>7. OthersKept'
  BY <1>1, <1>2, <1>3 DEF OthersKept, DumpSchemas, RelationSchemas, Relations
<1>8. StrangerSpared'
  BY <1>1 DEF NoStranger, Strange, StrangerSpared, Relations
<1> QED BY <1>4, <1>5, <1>6, <1>7, <1>8

(* Steps that only plan: they leave target and dump alone.                   *)
LEMMA Planning ==
  ASSUME IInv, UNCHANGED <<dump, old, ddl, live, restored, base>>,
         pc # "ended", dump.custom, lost' \in BOOLEAN,
         result' \in {"none", "ok", "refused", "failed"},
         pc' \in Pcs \ {"version", "psql"}, seen' \subseteq Objects,
         plan' \in [relations : SUBSET Objects, others : SUBSET Objects,
                    recreated : SUBSET Schemas],
         PlanInDump', NoStranger'
  PROVE  IInv'
<1> USE DEF IInv
<1>1. restored = {} /\ live = base
  BY DEF Untouched
<1>2. TypeOK'
  BY DEF TypeOK
<1>3. Untouched' /\ Custom'
  BY <1>1 DEF Untouched, Custom
<1>4. AllOrNothing' /\ OthersKept' /\ StrangerSpared'
  BY <1>1 DEF AllOrNothing, OthersKept, StrangerSpared, DumpSchemas, RelationSchemas
<1> QED BY <1>2, <1>3, <1>4

LEMMA Next_IInv == IInv /\ [Next]_vars => IInv'
<1> SUFFICES ASSUME IInv, [Next]_vars PROVE IInv'
  OBVIOUS
<1> USE DEF IInv
<1>0. /\ dump \in Dumps
      /\ dump.objects \subseteq Objects /\ dump.creates \subseteq Schemas
      /\ dump.custom \in BOOLEAN
  BY DumpFacts DEF TypeOK
<1>1. CASE UNCHANGED vars
  BY <1>1 DEF vars, TypeOK, PlanInDump, Untouched, Custom, NoStranger, AllOrNothing,
              OthersKept, StrangerSpared, DumpSchemas, RelationSchemas, Relations, Strange
<1>2. CASE CatalogQuery
  <2> USE <1>2 DEF CatalogQuery, At, Target
  <2>1. dump.custom /\ pc # "ended"
    BY <1>0 DEF Custom
  <2>2. seen' \subseteq Objects /\ pc' \in Pcs \ {"version", "psql"}
    BY DEF Listed, TypeOK, Pcs
  <2>3. PlanInDump'
    BY DEF PlanInDump, DumpSchemas, RelationSchemas, Relations
  <2>4. NoStranger'
    <3>1. CASE seen' = {}
      BY <3>1 DEF NoStranger, Strange, Relations
    <3>2. CASE seen' # {}
      BY <3>2 DEF NoStranger
    <3> QED BY <3>1, <3>2
  <2> QED BY <2>1, <2>2, <2>3, <2>4, Planning DEF TypeOK
<1>3. CASE CallFails
  <2> USE <1>3 DEF CallFails, At, Target, Ends
  <2>1. dump.custom /\ pc # "ended"
    BY <1>0 DEF Custom
  <2>2. PlanInDump' /\ NoStranger'
    BY DEF PlanInDump, DumpSchemas, RelationSchemas, NoStranger, Relations
  <2>3. pc' \in Pcs \ {"version", "psql"}
    BY DEF Pcs
  <2> QED BY <2>1, <2>2, <2>3, Planning DEF TypeOK
<1>4. CASE KeepsPlain
  <2> USE <1>4 DEF KeepsPlain, At, Target
  <2>1. dump.custom /\ pc # "ended"
    BY <1>0 DEF Custom
  <2>2. PlanInDump'
    BY DEF PlanInDump, DumpSchemas, RelationSchemas, Relations
  <2>3. ~Strange
    <3> SUFFICES ASSUME NEW o \in Relations(seen) \ dump.objects,
                        \E q \in Relations(dump.objects) : Schema[q] = Schema[o]
                 PROVE  FALSE
      BY DEF Strange
    <3>1. o \in Absent
      BY DEF Absent, SnapshotSchemas, RelationSchemas, Relations
    <3> QED BY <3>1 DEF Plain
  <2>4. NoStranger'
    BY <2>3 DEF NoStranger, Strange, Relations
  <2>5. pc' \in Pcs \ {"version", "psql"}
    BY DEF Pcs
  <2> QED BY <2>1, <2>2, <2>4, <2>5, Planning DEF TypeOK
<1>5. CASE Refuses
  <2> USE <1>5 DEF Refuses, At, Target, Ends
  <2>1. dump.custom /\ pc # "ended"
    BY <1>0 DEF Custom
  <2>2. PlanInDump' /\ NoStranger'
    BY DEF PlanInDump, DumpSchemas, RelationSchemas, NoStranger, Relations
  <2>3. pc' \in Pcs \ {"version", "psql"}
    BY DEF Pcs
  <2> QED BY <2>1, <2>2, <2>3, Planning DEF TypeOK
<1>6. CASE Plans
  <2> USE <1>6 DEF Plans, At, Target
  <2>1. dump.custom /\ pc # "ended"
    BY <1>0 DEF Custom
  <2>2. /\ Replaced \subseteq Objects
        /\ {o \in Absent : Kind[o] = "other"} \subseteq Objects
    BY DEF Replaced, Absent, Relations, TypeOK
  <2>3. plan' \in [relations : SUBSET Objects, others : SUBSET Objects,
                   recreated : SUBSET Schemas]
    BY <2>2, <1>0 DEF Replacement
  <2>4. PlanInDump'
    <3>1. SnapshotSchemas \subseteq DumpSchemas
      BY DEF SnapshotSchemas, RelationSchemas, DumpSchemas
    <3>2. \A o \in Replaced : Schema[o] \in DumpSchemas
      BY <3>1 DEF Replaced
    <3>3. \A o \in Absent : Kind[o] = "other" => Schema[o] \in DumpSchemas
      BY <3>1 DEF Absent, DumpSchemas, RelationSchemas
    <3>4. dump.creates \subseteq DumpSchemas
      BY DEF DumpSchemas, RelationSchemas
    <3>5. DumpSchemas' = DumpSchemas
      BY DEF DumpSchemas, RelationSchemas, Relations
    <3> QED BY <2>2, <3>2, <3>3, <3>4, <3>5 DEF PlanInDump, Replacement
  <2>5. ~Strange
    BY DEF Stranger, Replaced, Strange, SnapshotSchemas, RelationSchemas, Relations
  <2>6. NoStranger'
    BY <2>5 DEF NoStranger, Strange, Relations
  <2>7. pc' \in Pcs \ {"version", "psql"}
    BY DEF Pcs
  <2> QED BY <2>1, <2>3, <2>4, <2>6, <2>7, Planning DEF TypeOK
<1>7. CASE Generate
  <2> USE <1>7 DEF Generate, At, Target
  <2>1. dump.custom /\ pc # "ended"
    BY <1>0 DEF Custom
  <2>2. PlanInDump' /\ NoStranger'
    BY DEF PlanInDump, DumpSchemas, RelationSchemas, NoStranger, Strange, Relations
  <2>3. pc' \in Pcs \ {"version", "psql"}
    BY DEF Pcs
  <2> QED BY <2>1, <2>2, <2>3, Planning DEF TypeOK
<1>8. CASE PgRestore
  <2> USE <1>8 DEF PgRestore, At
  <2>1. dump.custom
    BY <1>0 DEF Custom
  <2> QED BY <2>1, OneTransaction DEF TypeOK
<1>9. CASE Apply
  <2> USE <1>9 DEF Apply, At
  <2>1. dump.custom
    BY <1>0 DEF Custom
  <2>2. Prelude(plan) \in SUBSET Objects
    BY DEF Prelude, TypeOK
  <2>3. \A o \in live \ Prelude(plan) : \E q \in On[o] \cup {o} : Schema[q] \in DumpSchemas
    BY PreludeSpares
  <2> QED BY <2>1, <2>2, <2>3, OneTransaction
<1>10. CASE ServerVersion
  <2> USE <1>10 DEF ServerVersion, At, Target
  <2>1. TypeOK'
    BY DEF TypeOK, Pcs
  <2>2. PlanInDump' /\ Untouched' /\ Custom' /\ NoStranger'
    BY DEF PlanInDump, DumpSchemas, RelationSchemas, Relations, Untouched, Custom, NoStranger
  <2>3. AllOrNothing' /\ OthersKept' /\ StrangerSpared'
    BY DEF AllOrNothing, OthersKept, StrangerSpared, DumpSchemas, RelationSchemas, Relations
  <2> QED BY <2>1, <2>2, <2>3
<1>11. CASE Psql
  <2> USE <1>11 DEF Psql, At, Ends
  <2>1. PICK made \in SUBSET (dump.objects \ live) :
          /\ live' = live \cup made
          /\ restored' = made
          /\ lost' \in BOOLEAN
          /\ pc' = "ended" /\ result' \in {"ok", "failed"}
    BY DEF TypeOK
  <2>2. TypeOK'
    BY <2>1, <1>0 DEF TypeOK, Pcs
  <2>3. ~dump.custom /\ seen = {}
    BY <1>0 DEF Custom
  <2>4. PlanInDump' /\ Untouched' /\ Custom' /\ NoStranger'
    BY <2>1, <2>3 DEF PlanInDump, DumpSchemas, RelationSchemas, Relations, Untouched, Custom, NoStranger
  <2>5. AllOrNothing' /\ OthersKept' /\ StrangerSpared'
    BY <2>1, <2>3 DEF AllOrNothing, OthersKept, StrangerSpared, Untouched, Relations
  <2> QED BY <2>2, <2>4, <2>5
<1>12. CASE OtherSession
  <2> USE <1>12 DEF OtherSession
  <2>1. live' \subseteq Objects
    BY DEF TypeOK
  <2>2. TypeOK'
    BY <2>1, ObjectsAssumption DEF TypeOK
  <2>3. PlanInDump' /\ Untouched' /\ Custom' /\ NoStranger'
    BY DEF PlanInDump, DumpSchemas, RelationSchemas, Relations, Untouched, Custom, NoStranger, Strange
  <2>4. AllOrNothing' /\ OthersKept' /\ StrangerSpared'
    BY DEF AllOrNothing, OthersKept, StrangerSpared, Untouched, Relations
  <2> QED BY <2>2, <2>3, <2>4
<1>13. CASE Again
  <2> USE <1>13 DEF Again
  <2>1. dump' \in Dumps /\ dump'.custom \in BOOLEAN
    BY DumpFacts
  <2>2. TypeOK'
    <3>1. ddl' \in 0..MaxDDL
      BY ObjectsAssumption
    <3>2. plan' \in [relations : SUBSET Objects, others : SUBSET Objects,
                     recreated : SUBSET Schemas]
      BY EmptyPlan
    <3>3. pc' \in Pcs
      BY DEF Pcs
    <3> QED BY <2>1, <3>1, <3>2, <3>3 DEF TypeOK
  <2>3. PlanInDump' /\ Untouched' /\ Custom' /\ NoStranger'
    BY <2>1, EmptyPlan DEF PlanInDump, Untouched, Custom, NoStranger
  <2>4. AllOrNothing' /\ OthersKept' /\ StrangerSpared'
    BY DEF AllOrNothing, OthersKept, StrangerSpared, Relations
  <2> QED BY <2>2, <2>3, <2>4
<1> QED BY <1>1, <1>2, <1>3, <1>4, <1>5, <1>6, <1>7, <1>8, <1>9, <1>10, <1>11, <1>12, <1>13
        DEF Next

(* A custom dump is restored in full or not at all, whatever fails on the    *)
(* way and whatever other sessions do: _restore_replacing, _pg_restore.      *)
THEOREM Atomic == Spec => []AllOrNothing
<1>1. IInv => AllOrNothing
  BY DEF IInv
<1> QED BY Initially, Next_IInv, <1>1, PTL DEF Spec

(* A restore only takes away what lies in, or depends on, a schema of the    *)
(* dump: plan_replacement and replacement_prelude.                           *)
THEOREM SparesOthers == Spec => []OthersKept
<1>1. IInv => OthersKept
  BY DEF IInv
<1> QED BY Initially, Next_IInv, <1>1, PTL DEF Spec

(* A target that shares no relation with the dump is left as it is.          *)
THEOREM SparesStranger == Spec => []StrangerSpared
<1>1. IInv => StrangerSpared
  BY DEF IInv
<1> QED BY Initially, Next_IInv, <1>1, PTL DEF Spec

-----------------------------------------------------------------------------
(* The upgrade is undone. While nothing interferes the catalog query shows   *)
(* the target as it is, and the way taken fits it.                           *)
Known ==
  /\ pc \notin {"catalog", "ended"} => seen = base
  /\ pc \in {"catalog", "list"} => plan = NoPlan
  /\ pc = "pg_restore" => ~old /\ Plain
  /\ pc \in {"generate", "apply"} => (plan = NoPlan /\ Plain) \/ plan = Replacement
Undone ==
  /\ result = "ok"
  /\ \A o \in live \ dump.objects : Schema[o] \notin RelationSchemas
Undoing ==
  dump.custom /\ ~lost /\ Upgraded => Known /\ (pc = "ended" => Undone)

UInv == IInv /\ Closed(live) /\ Closed(base) /\ Undoing

LEMMA DropsClosed ==
  ASSUME live \subseteq Objects, Closed(live), NEW D \in SUBSET Objects
  PROVE  Closed(live \ Drops(D))
BY ObjectsAssumption DEF Closed, Drops

(* What the upgrade added and the plan keeps is in nobody's way.             *)
LEMMA NothingInTheWay ==
  ASSUME TypeOK, Closed(base), Upgraded, seen = base,
         NEW S \in SUBSET base,
         \/ Plain
         \/ \A o \in S : /\ o \notin Replaced /\ On[o] \cap Replaced = {}
                         /\ o \in Absent => Kind[o] # "other"
                         /\ Schema[o] \notin dump.creates
  PROVE  /\ ~CleanFails(S)
         /\ \A o \in S \ dump.objects : Schema[o] \notin RelationSchemas
<1>0. base \subseteq Objects /\ dump \in Dumps /\ dump.objects \subseteq Objects
  BY DumpFacts DEF TypeOK
<1>1. SnapshotSchemas = RelationSchemas
  BY DEF Upgraded, SnapshotSchemas, RelationSchemas, Relations
<1>2. \A o \in base \ dump.objects :
        \/ Schema[o] \in RelationSchemas
        \/ Kind[o] = "key" /\ Ref[o] \in RelationSchemas
        \/ Kind[o] = "other" /\ Schema[o] \in dump.creates
        => o \in Absent
  BY <1>1 DEF Absent
<1>3. ASSUME NEW o \in S \ dump.objects
      PROVE  /\ Schema[o] \notin RelationSchemas
             /\ On[o] \cap dump.objects = {}
             /\ Schema[o] \notin dump.creates
  <2>1. Migrated(o)
    BY DEF Upgraded
  <2>2. CASE Plain
    BY <1>2, <2>1, <2>2 DEF Plain, Migrated
  <2>3. CASE ~Plain
    <3>1. /\ o \notin Replaced /\ On[o] \cap Replaced = {}
          /\ o \in Absent => Kind[o] # "other"
          /\ Schema[o] \notin dump.creates
      BY <2>3
    <3>2. On[o] \subseteq base
      BY DEF Closed
    <3>3. ASSUME NEW s \in RelationSchemas, NEW t \in On[o], Schema[t] = s, IsRelation(t)
          PROVE  FALSE
      BY <1>1, <3>1, <3>2, <3>3 DEF Replaced, Relations
    <3>4. CASE Kind[o] = "key"
      <4>1. /\ Schema[o] \notin RelationSchemas
            /\ Ref[o] \notin RelationSchemas
        BY <1>0, <3>3, <3>4, KeysAssumption DEF IsRelation
      <4> QED BY <2>1, <3>1, <4>1 DEF Migrated
    <3>5. CASE Kind[o] # "key"
      <4>1. Schema[o] \notin RelationSchemas
        <5>1. CASE IsRelation(o)
          BY <1>1, <3>1, <5>1 DEF Replaced, Relations
        <5>2. CASE ~IsRelation(o)
          <6>1. Kind[o] = "other"
            BY <1>0, <3>5, <5>2, ObjectsAssumption DEF IsRelation
          <6> QED BY <1>2, <3>1, <6>1
        <5> QED BY <5>1, <5>2
      <4> QED BY <2>1, <3>1, <3>5, <4>1 DEF Migrated
    <3> QED BY <3>4, <3>5
  <2> QED BY <2>2, <2>3
<1>4. ASSUME NEW o \in S \cap dump.objects
      PROVE  Kind[o] # "partitioned" /\ Mine[o]
  <2>1. Mine[o]
    BY DEF Upgraded
  <2>2. CASE Plain
    BY <2>1, <2>2 DEF Plain, Partitioned
  <2>3. CASE ~Plain
    <3>1. Kind[o] = "partitioned" => o \in Replaced
      BY <1>1 DEF Replaced, RelationSchemas, Relations, IsRelation
    <3> QED BY <2>1, <2>3, <3>1
  <2> QED BY <2>2, <2>3
<1> QED BY <1>3, <1>4 DEF CleanFails

(* A transaction that runs into nothing ends well.                           *)
LEMMA TransactionUndoes ==
  ASSUME TypeOK, NEW S \in SUBSET Objects, Transaction(S, FALSE), ~lost', UNCHANGED dump,
         ~CleanFails(S), \A o \in S \ dump.objects : Schema[o] \notin RelationSchemas
  PROVE  Undone'
BY DEF Transaction, Commits, Ends, Undone, RelationSchemas, Relations

LEMMA UInitially == Init => UInv
<1> SUFFICES ASSUME Init PROVE UInv
  OBVIOUS
<1>1. IInv
  BY Initially
<1>2. Closed(live) /\ Closed(base)
  BY DEF Init
<1>3. Undoing
  BY <1>1 DEF Init, Undoing, Known, IInv, Custom
<1> QED BY <1>1, <1>2, <1>3 DEF UInv

LEMMA StillClosed == UInv /\ [Next]_vars => Closed(live') /\ Closed(base')
<1> SUFFICES ASSUME UInv, [Next]_vars PROVE Closed(live') /\ Closed(base')
  OBVIOUS
<1>0. live \subseteq Objects /\ Closed(live) /\ Closed(base) /\ Closed(dump.objects)
  BY DumpsAssumption DEF UInv, IInv, TypeOK, Closed
<1>1. ASSUME NEW S \in SUBSET live, NEW rejected, Closed(S), Transaction(S, rejected)
      PROVE  Closed(live') /\ Closed(base')
  <2>1. base' = base /\ (live' = live \/ live' = (S \ dump.objects) \cup dump.objects)
    BY <1>1 DEF Transaction, Commits, Target
  <2> QED BY <1>0, <1>1, <2>1 DEF Closed
<1>2. CASE PgRestore
  BY <1>0, <1>1, <1>2 DEF PgRestore
<1>3. CASE Apply
  <2>1. plan.relations \cup plan.others \cup {o \in Objects : Schema[o] \in plan.recreated}
          \in SUBSET Objects
    BY DEF UInv, IInv, PlanInDump
  <2>2. Closed(Prelude(plan)) /\ Prelude(plan) \subseteq live
    BY <1>0, <2>1, DropsClosed DEF Prelude
  <2> QED BY <1>1, <1>3, <2>2 DEF Apply
<1>4. CASE OtherSession
  <2>1. PICK o \in Objects :
          \/ On[o] \subseteq live /\ live' = live \cup {o}
          \/ live' = live \ Drops({o})
    BY <1>4 DEF OtherSession
  <2>2. Closed(live \ Drops({o}))
    BY <1>0, DropsClosed
  <2>3. Closed(live')
    BY <1>0, <2>1, <2>2 DEF Closed
  <2> QED BY <1>4, <2>3 DEF OtherSession
<1>5. CASE Psql
  BY <1>0, <1>5 DEF Psql
<1>6. CASE Again
  BY <1>0, <1>6 DEF Again
<1>7. CASE UNCHANGED <<live, base>>
  BY <1>0, <1>7
<1> QED BY <1>2, <1>3, <1>4, <1>5, <1>6, <1>7
        DEF Next, vars, CatalogQuery, CallFails, KeepsPlain, Refuses, Plans, Generate,
            ServerVersion, Target

LEMMA UNext == UInv /\ [Next]_vars => UInv'
<1> SUFFICES ASSUME UInv, [Next]_vars PROVE UInv'
  OBVIOUS
<1>0. IInv' /\ Closed(live') /\ Closed(base')
  BY Next_IInv, StillClosed DEF UInv
<1>1. SUFFICES ASSUME dump'.custom, ~lost', Upgraded' PROVE Known' /\ (pc' = "ended" => Undone')
  BY <1>0 DEF UInv, Undoing
<1>2. CASE Again
  BY <1>1, <1>2 DEF Again, Known
<1>3. ASSUME ~Again
      PROVE  /\ UNCHANGED <<dump, base, old>> /\ dump.custom /\ ~lost /\ Upgraded /\ Known
             /\ pc = "ended" => Undone
             /\ pc # "ended" => live = base
             /\ pc \notin {"version", "psql"}
  <2>1. pc \notin {"version", "psql"} /\ UNCHANGED <<dump, base, old>> /\ dump.custom /\ ~lost
    BY <1>1, <1>3 DEF UInv, IInv, Custom, Next, vars, CatalogQuery, CallFails, KeepsPlain,
       Refuses, Plans, Generate, PgRestore, Apply, Transaction, Commits, ServerVersion, Psql,
       OtherSession, At, Target
  <2>2. Upgraded
    BY <1>1, <2>1 DEF Upgraded, Migrated, RelationSchemas, Relations
  <2> QED BY <2>1, <2>2 DEF UInv, IInv, Undoing, Untouched
<1>4. CASE ~Again
  <2> USE <1>3, <1>4
  <2>0. TypeOK /\ Closed(base)
    BY DEF UInv, IInv
  <2>1. CASE UNCHANGED vars
    BY <2>1 DEF vars, Known, Undone, RelationSchemas, Relations, Plain, Partitioned, Absent,
                SnapshotSchemas, Replacement, Replaced
  <2>2. CASE CatalogQuery
    <3>1. Listed = base
      BY <2>0, <2>2 DEF CatalogQuery, At, Listed, Upgraded
    <3>2. seen' = base
      BY <2>2, <3>1 DEF CatalogQuery
    <3>3. CASE base # {}
      BY <2>2, <3>1, <3>2, <3>3 DEF CatalogQuery, At, Known
    <3>4. CASE base = {}
      <4>1. Plain'
        BY <3>2, <3>4 DEF Plain, Partitioned, Absent
      <4>2. plan = NoPlan
        BY <2>2 DEF CatalogQuery, At, Known
      <4> QED BY <2>2, <3>1, <3>2, <3>4, <4>1, <4>2 DEF CatalogQuery, Known, Target
    <3> QED BY <3>3, <3>4
  <2>3. CASE KeepsPlain
    <3>1. Plain'
      BY <2>3 DEF KeepsPlain, Plain, Partitioned, Absent, SnapshotSchemas, RelationSchemas,
                  Relations, Target
    <3> QED BY <2>3, <3>1 DEF KeepsPlain, At, Known
  <2>4. CASE Refuses
    <3>1. seen = base
      BY <2>4 DEF Refuses, At, Known
    <3>2. FALSE
      BY <2>4, <3>1 DEF Refuses, Stranger, Upgraded, Replaced, SnapshotSchemas, Relations
    <3> QED BY <3>2
  <2>5. CASE Plans
    <3>1. plan' = Replacement'
      BY <2>5 DEF Plans, Replacement, Replaced, Absent, SnapshotSchemas, RelationSchemas, Relations,
                  Target
    <3> QED BY <2>5, <3>1 DEF Plans, At, Known
  <2>6. CASE Generate
    BY <2>6 DEF Generate, At, Known, Plain, Partitioned, Absent, SnapshotSchemas, Relations,
                RelationSchemas, Replacement, Replaced, Target
  <2>7. CASE PgRestore
    <3>1. pc = "pg_restore" /\ Transaction(live, FALSE) /\ pc' = "ended"
      BY <2>0, <2>7 DEF PgRestore, At, Known, TypeOK, Transaction, Ends
    <3>2. Plain /\ seen = base /\ live = base /\ live \in SUBSET Objects
      BY <2>0, <3>1 DEF Known, TypeOK
    <3>3. ~CleanFails(live) /\ \A o \in live \ dump.objects : Schema[o] \notin RelationSchemas
      BY <2>0, <3>2, NothingInTheWay
    <3>4. Undone'
      BY <1>1, <2>0, <3>1, <3>2, <3>3, TransactionUndoes
    <3> QED BY <3>1, <3>4 DEF Known
  <2>8. CASE Apply
    <3>1. pc = "apply" /\ Transaction(Prelude(plan), FALSE) /\ pc' = "ended"
      BY <2>8 DEF Apply, At, Transaction, Ends
    <3>2. seen = base /\ live = base /\ Prelude(plan) \in SUBSET base /\ base \in SUBSET Objects
      BY <2>0, <3>1 DEF Known, TypeOK, Prelude
    <3>3. \/ Plain
          \/ \A o \in Prelude(plan) :
               /\ o \notin Replaced /\ On[o] \cap Replaced = {}
               /\ o \in Absent => Kind[o] # "other"
               /\ Schema[o] \notin dump.creates
      <4>1. CASE Plain
        BY <4>1
      <4>2. CASE plan = Replacement
        BY <3>2, <4>2 DEF Replacement, Prelude, Drops
      <4> QED BY <3>1, <4>1, <4>2 DEF Known
    <3>4. /\ ~CleanFails(Prelude(plan))
          /\ \A o \in Prelude(plan) \ dump.objects : Schema[o] \notin RelationSchemas
      BY <2>0, <3>2, <3>3, NothingInTheWay
    <3>5. Undone'
      BY <1>1, <2>0, <3>1, <3>2, <3>4, TransactionUndoes
    <3> QED BY <3>1, <3>5 DEF Known
  <2> QED BY <1>1, <2>1, <2>2, <2>3, <2>4, <2>5, <2>6, <2>7, <2>8
          DEF Next, CallFails, ServerVersion, Psql, OtherSession, At
<1> QED BY <1>2, <1>4

(* Over what an upgrade's migrations made of the snapshot's schema, with no  *)
(* failure and no other session, a custom dump is restored and nothing of    *)
(* the upgrade stays in its schemas: plan_replacement.                       *)
THEOREM UndoesUpgrade == Spec => []UpgradeIsUndone
<1>1. UInv => UpgradeIsUndone
  BY DEF UInv, Undoing, Undone, UpgradeIsUndone
<1> QED BY UInitially, UNext, <1>1, PTL DEF Spec
=============================================================================
