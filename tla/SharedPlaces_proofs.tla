-------------------------- MODULE SharedPlaces_proofs --------------------------
(***************************************************************************)
(* Jobs that share places spare each other's snapshots, for any number of  *)
(* jobs, places and configurations.                                        *)
(***************************************************************************)
EXTENDS SharedPlaces, SequenceTheorems, TLAPS

JobSeq(c) == c \in Seq(Job) /\ DistinctNames(c)

LEMMA JobsOf ==
  ASSUME NEW c \in Configs
  PROVE  /\ JobSeq(c) /\ Len(c) \in Nat /\ DOMAIN c = 1..Len(c)
         /\ \A i \in DOMAIN c : c[i] \in Job /\ c[i].name \in Names
                                /\ Slug[c[i].name] \in Slugs
  <1>1. JobSeq(c)
    BY SharedAssumption DEF JobSeq
  <1>2. Len(c) \in Nat /\ DOMAIN c = 1..Len(c) /\ \A i \in DOMAIN c : c[i] \in Job
    BY <1>1 DEF JobSeq
  <1>3. \A j \in Job : j.name \in Names
    BY DEF Job
  <1> QED
    BY <1>1, <1>2, <1>3, OwnershipAssumption

\* Two jobs never own the same snapshot of a place: the ids of one job name no
\* other, a marker names one job, and a plain id belongs to the first in line.
LEMMA OwnedByOne ==
  ASSUME NEW c \in Configs, NEW i \in DOMAIN c, NEW k \in DOMAIN c,
         NEW id, NEW d, NEW m, Owns(c, i, id, d, m), Owns(c, k, id, d, m)
  PROVE  i = k
  <1>1. /\ i \in 1..Len(c) /\ k \in 1..Len(c) /\ Len(c) \in Nat
        /\ c[i].name \in Names /\ c[k].name \in Names
        /\ Slug[c[i].name] # Plain /\ Slug[c[k].name] # Plain
    BY JobsOf, OwnershipAssumption
  <1>2. Slug[c[i].name] = Slug[c[k].name] => i = k
    BY JobsOf DEF JobSeq, DistinctNames
  <1>3. PlainAt(c, i, d) /\ PlainAt(c, k, d) => ~(i < k) /\ ~(k < i)
    BY <1>1 DEF PlainAt
  <1>4. c[i].name # Nobody /\ c[k].name # Nobody
    BY <1>1, OwnershipAssumption
  <1> QED
    BY <1>1, <1>2, <1>3, <1>4 DEF Owns

-----------------------------------------------------------------------------
(* Types *)

\* What the position of an actor says of its fields.
Position(a) ==
  /\ actor[a].pc = "idle" => actor[a].plan = {} /\ actor[a].plans = <<>>
  /\ actor[a].pc # "idle" => actor[a].job \in DOMAIN cfg
  /\ a # Command => actor[a].plans = <<>>
  /\ a = Command => actor[a].at = Local
  /\ a = Command /\ actor[a].pc # "idle" => actor[a].job + Len(actor[a].plans) = Len(cfg)

Positions == \A a \in Actors : Position(a)

Typed == TypeOK /\ Positions

LEMMA RestingType == Resting \in Actor
  BY DEF Resting, Actor, Places

LEMMA NewIdType ==
  ASSUME TypeOK, NEW i \in DOMAIN cfg
  PROVE  NewId(cfg, cfg[i], now) \in Id
  BY JobsOf DEF TypeOK, NewId, Id

LEMMA PrunableIsListed ==
  ASSUME NEW j, NEW ids
  PROVE  Prunable(j, ids) \subseteq ids
  BY DEF Prunable

LEMMA PlanType ==
  ASSUME TypeOK, NEW i
  PROVE  PlanOf(i) \in SUBSET Id
  <1>1. PlanOf(i) \subseteq held[Local]
    BY PrunableIsListed DEF PlanOf
  <1> QED
    BY <1>1 DEF TypeOK, Places

\* A step of one actor: what it becomes is all there is to look at.
LEMMA ActorStep ==
  ASSUME Typed, NEW a \in Actors, NEW r \in Actor, Becomes(a, r), UNCHANGED cfg,
         r.pc = "idle" => r.plan = {} /\ r.plans = <<>>,
         r.pc # "idle" => r.job \in DOMAIN cfg,
         a # Command => r.plans = <<>>,
         a = Command => r.at = Local,
         a = Command /\ r.pc # "idle" => r.job + Len(r.plans) = Len(cfg)
  PROVE  /\ actor' \in [Actors -> Actor]
         /\ actor'[a] = r
         /\ \A b \in Actors : b # a => actor'[b] = actor[b]
         /\ Positions'
  <1>1. /\ actor' \in [Actors -> Actor]
        /\ actor'[a] = r
        /\ \A b \in Actors : b # a => actor'[b] = actor[b]
    BY DEF Typed, TypeOK, Becomes
  <1>2. ASSUME NEW b \in Actors PROVE Position(b)'
    <2>1. CASE b = a
      BY <1>1, <2>1 DEF Position
    <2>2. CASE b # a
      <3>1. actor'[b] = actor[b] /\ Position(b)
        BY <1>1, <2>2 DEF Typed, Positions
      <3> QED
        BY <3>1 DEF Position
    <2> QED
      BY <2>1, <2>2
  <1> QED
    BY <1>1, <1>2 DEF Positions

LEMMA TypedInit == Init => Typed
  <1> SUFFICES ASSUME Init PROVE Typed
    OBVIOUS
  <1>1. TypeOK
    BY RestingType, SharedAssumption
    DEF Init, TypeOK, NoMarks, Resting, Places
  <1>2. Positions
    BY DEF Init, Positions, Position, Resting, Actors
  <1> QED
    BY <1>1, <1>2 DEF Typed

-----------------------------------------------------------------------------
(* Each action keeps the types *)

LEMMA BackUpTyped ==
  ASSUME Typed, NEW i \in DOMAIN cfg, BackUp(i)
  PROVE  Typed'
  <1> DEFINE j    == cfg[i]
             id   == NewId(cfg, j, now)
             pend == PendingOf(j) \cap held[Local]
  <1>1. cfg \in Configs /\ j \in Job /\ j.name \in Names /\ j.s3 \in SUBSET S3
    <2>1. j \in Job
      BY JobsOf DEF Typed, TypeOK
    <2> QED
      BY <2>1 DEF Job, Typed, TypeOK
  <1>2. id \in Id
    BY NewIdType DEF Typed
  <1> HIDE DEF j, id
  <1>3. /\ cfg' = cfg /\ now' = now /\ ran' = ran \cup {j.name}
        /\ writer' = [writer EXCEPT ![id] = IF @ = Nobody THEN j.name ELSE @]
    BY DEF BackUp, j, id
  <1>4. PICK up \in SUBSET j.s3 :
          LET copies == up \cup (IF j.local \/ up = {} THEN {Local} ELSE {})
              gone   == IF up # {} /\ ~KeepsLocal(j) THEN pend ELSE {}
          IN  /\ held' = [d \in Places |->
                            CASE d = Local -> (held[d] \ gone) \cup (IF d \in copies THEN {id} ELSE {})
                              [] d \in up  -> held[d] \cup pend \cup {id}
                              [] OTHER     -> held[d]]
              /\ marker' = IF up # {}
                           THEN [m \in Id |-> IF m \in PendingOf(j) THEN Nobody ELSE marker[m]]
                           ELSE IF j.s3 # {} THEN [marker EXCEPT ![id] = j.name]
                           ELSE marker
              /\ Becomes(j.name, ThinningRun(i, j.s3 \cup copies, Local \notin JobPlaces(j),
                   IF ~j.keep_local /\ j.local /\ up # {} THEN {id} ELSE {}))
    BY Zenon DEF BackUp, j, id
  <1>5. writer' \in [Id -> Names \cup {Nobody}] /\ writer'[id] # Nobody
        /\ \A m \in Id : writer[m] # Nobody => writer'[m] # Nobody
    BY <1>1, <1>2, <1>3, OwnershipAssumption DEF Typed, TypeOK
  <1>6. marker' \in [Id -> Names \cup {Nobody}]
    BY <1>1, <1>2, <1>4 DEF Typed, TypeOK
  <1>7. /\ held' \in [Places -> SUBSET Id]
        /\ \A d \in Places : \A m \in held'[d] : m = id \/ \E e \in Places : m \in held[e]
    <2>1. pend \subseteq held[Local] /\ Local \in Places
      BY DEF Places
    <2> HIDE DEF pend
    <2>2. ASSUME NEW d \in Places
          PROVE  held'[d] \subseteq held[d] \cup pend \cup {id}
      BY <1>4
    <2>3. held \in [Places -> SUBSET Id] /\ pend \subseteq Id
      BY <2>1 DEF Typed, TypeOK
    <2>4. DOMAIN held' = Places /\ held' = [d \in Places |-> held'[d]]
      BY <1>4
    <2>5. \A d \in Places : held'[d] \in SUBSET Id
      BY <2>2, <2>3, <1>2
    <2>6. held' \in [Places -> SUBSET Id]
      BY <2>4, <2>5
    <2> QED
      BY <2>1, <2>2, <2>6
  <1>8. \A d \in Places : \A m \in held'[d] : writer'[m] # Nobody
    BY <1>5, <1>7 DEF Typed, TypeOK
  <1>9. actor' \in [Actors -> Actor] /\ Positions'
    <2> DEFINE queue == j.s3 \cup (up \cup (IF j.local \/ up = {} THEN {Local} ELSE {}))
               only  == Local \notin JobPlaces(j)
               drop  == IF ~j.keep_local /\ j.local /\ up # {} THEN {id} ELSE {}
    <2>1. queue \in SUBSET Places
      BY <1>1 DEF Places
    <2>2. only \in BOOLEAN
      BY Zenon
    <2>3. drop \in SUBSET Id
      BY <1>2
    <2>4. Becomes(j.name, ThinningRun(i, queue, only, drop))
      BY <1>4
    <2> HIDE DEF queue, only, drop
    <2>5. PICK q \in SUBSET Places, o \in BOOLEAN, x \in SUBSET Id :
            Becomes(j.name, ThinningRun(i, q, o, x))
      BY <2>1, <2>2, <2>3, <2>4, Zenon
    <2>6. i \in Nat /\ j.name \in Actors /\ j.name # Command
      BY <1>1, JobsOf, SharedAssumption DEF Actors
    <2>7. PICK r : r = ThinningRun(i, q, o, x)
      OBVIOUS
    <2>8. r \in Actor /\ r.pc = "thin" /\ r.job = i /\ r.at = Local /\ r.plan = {}
          /\ r.plans = <<>>
      BY <2>6, <2>7 DEF ThinningRun, Actor, Places
    <2> QED
      BY <1>3, <2>5, <2>6, <2>7, <2>8, ActorStep
  <1>10. ran' \subseteq Names /\ now' \in 1..MaxTime /\ cfg' \in Configs
    BY <1>1, <1>3 DEF Typed, TypeOK
  <1>11. \A a \in Actors : actor'[a].pc # "idle" => actor'[a].job \in DOMAIN cfg'
    BY <1>9 DEF Positions, Position
  <1> QED
    BY <1>5, <1>6, <1>7, <1>8, <1>9, <1>10, <1>11 DEF Typed, TypeOK

-----------------------------------------------------------------------------
(* What is on a list *)

\* Snapshot id may be on the list of the i-th job at d: its id names the job, or
\* it is plain and no marker gives it to another.
Allowed(i, d, id) ==
  \/ Len(cfg) <= 1
  \/ id.slug = Slug[cfg[i].name]
  \/ id.slug = Plain /\ (d = Local => marker[id] \in {Nobody, cfg[i].name})

\* The same for everything an actor still has to delete.
Spares(a) ==
  /\ \A id \in actor[a].plan : Allowed(actor[a].job, actor[a].at, id)
  /\ \A n \in DOMAIN actor[a].plans : \A id \in actor[a].plans[n] :
       Allowed(actor[a].job + n, Local, id)

\* A marker and a writer agree with the job an id names.
Agree ==
  \A id \in Id : /\ marker[id] # Nobody => id.slug \in {Plain, Slug[marker[id]]}
                 /\ writer[id] # Nobody => id.slug \in {Plain, Slug[writer[id]]}

Sparing == Agree /\ \A a \in Actors : Spares(a)

LEMMA AllowedStays ==
  ASSUME UNCHANGED cfg, NEW i, NEW d, NEW id, Allowed(i, d, id),
         \/ marker'[id] \in {marker[id], Nobody}
         \/ Len(cfg) <= 1 \/ id.slug # Plain
  PROVE  Allowed(i, d, id)'
  BY DEF Allowed

\* The lists of an actor that does not move.
LEMMA SparesStay ==
  ASSUME Typed, UNCHANGED cfg, NEW a \in Actors, Spares(a), actor'[a] = actor[a],
         \A id \in Id : \/ marker'[id] \in {marker[id], Nobody}
                        \/ Len(cfg) <= 1 \/ id.slug # Plain
  PROVE  Spares(a)'
  <1>1. actor[a].plan \subseteq Id /\ actor[a].plans \in Seq(SUBSET Id)
    BY DEF Typed, TypeOK, Actor
  <1>2. \A n \in DOMAIN actor[a].plans : actor[a].plans[n] \subseteq Id
    BY <1>1
  <1>3. ASSUME NEW id \in actor[a].plan
        PROVE  Allowed(actor[a].job, actor[a].at, id)'
    <2>1. Allowed(actor[a].job, actor[a].at, id)
      BY DEF Spares
    <2>2. PICK i, d : i = actor[a].job /\ d = actor[a].at
      OBVIOUS
    <2>3. Allowed(i, d, id)'
      BY <1>1, <2>1, <2>2, AllowedStays
    <2> QED
      BY <2>2, <2>3 DEF Allowed
  <1>4. ASSUME NEW n \in DOMAIN actor[a].plans, NEW id \in actor[a].plans[n]
        PROVE  Allowed(actor[a].job + n, Local, id)'
    <2>1. Allowed(actor[a].job + n, Local, id)
      BY DEF Spares
    <2>2. PICK i : i = actor[a].job + n
      OBVIOUS
    <2>3. Allowed(i, Local, id)'
      BY <1>2, <2>1, <2>2, AllowedStays
    <2> QED
      BY <2>2, <2>3 DEF Allowed
  <1> QED
    BY <1>3, <1>4 DEF Spares, Allowed

\* What a job owns may be on its list, and so may what its markers name.
LEMMA OwnedIsAllowed ==
  ASSUME NEW i, NEW d, NEW id,
         Owns(cfg, i, id, d, IF d = Local THEN marker[id] ELSE Nobody)
  PROVE  Allowed(i, d, id)
  BY DEF Owns, Allowed

LEMMA PendingIsAllowed ==
  ASSUME Typed, Agree, NEW i \in DOMAIN cfg, NEW d, NEW id \in PendingOf(cfg[i])
  PROVE  Allowed(i, d, id)
  <1>1. id \in Id /\ marker[id] = cfg[i].name
    BY DEF PendingOf
  <1>2. cfg[i].name \in Names
    BY JobsOf DEF Typed, TypeOK
  <1>3. marker[id] # Nobody
    BY <1>1, <1>2, OwnershipAssumption
  <1> QED
    BY <1>1, <1>3 DEF Agree, Allowed

Inv == Typed /\ Sparing

\* One actor moves; snapshots and markers may go, none comes.
LEMMA Moves ==
  ASSUME Inv, UNCHANGED <<cfg, now, ran, writer>>,
         held' \in [Places -> SUBSET Id], \A d \in Places : held'[d] \subseteq held[d],
         marker' \in [Id -> Names \cup {Nobody}],
         \A id \in Id : marker'[id] \in {marker[id], Nobody},
         NEW a \in Actors, NEW r \in Actor, Becomes(a, r),
         r.pc = "idle" => r.plan = {} /\ r.plans = <<>>,
         r.pc # "idle" => r.job \in DOMAIN cfg,
         a # Command => r.plans = <<>>,
         a = Command => r.at = Local,
         a = Command /\ r.pc # "idle" => r.job + Len(r.plans) = Len(cfg),
         \A id \in r.plan : Allowed(r.job, r.at, id),
         \A n \in DOMAIN r.plans : \A id \in r.plans[n] : Allowed(r.job + n, Local, id)
  PROVE  Inv'
  <1>1. /\ actor' \in [Actors -> Actor]
        /\ actor'[a] = r
        /\ \A b \in Actors : b # a => actor'[b] = actor[b]
        /\ Positions'
    BY ActorStep DEF Inv
  <1>2. TypeOK'
    <2>1. \A d \in Places : \A id \in held'[d] : writer'[id] # Nobody
      BY DEF Inv, Typed, TypeOK
    <2>2. \A b \in Actors : actor'[b].pc # "idle" => actor'[b].job \in DOMAIN cfg'
      BY <1>1 DEF Positions, Position
    <2> QED
      BY <1>1, <2>1, <2>2 DEF Inv, Typed, TypeOK
  <1>3. Agree'
    BY DEF Inv, Sparing, Agree
  <1>4. \A b \in Actors : b # a => Spares(b)'
    BY <1>1, SparesStay DEF Inv, Sparing
  <1>5. Spares(a)'
    <2>1. r.plan \subseteq Id /\ r.plans \in Seq(SUBSET Id)
      BY DEF Actor
    <2>2. \A n \in DOMAIN r.plans : r.plans[n] \subseteq Id
      BY <2>1
    <2>3. PICK i, d : i = r.job /\ d = r.at
      OBVIOUS
    <2>4. \A id \in r.plan : Allowed(i, d, id)'
      BY <2>1, <2>3, AllowedStays
    <2>5. ASSUME NEW n \in DOMAIN r.plans, NEW id \in r.plans[n]
          PROVE  Allowed(r.job + n, Local, id)'
      <3>1. PICK k : k = r.job + n
        OBVIOUS
      <3>2. Allowed(k, Local, id)'
        BY <2>2, <3>1, AllowedStays
      <3> QED
        BY <3>1, <3>2 DEF Allowed
    <2> QED
      BY <1>1, <2>3, <2>4, <2>5 DEF Spares, Allowed
  <1> QED
    BY <1>1, <1>2, <1>3, <1>4, <1>5 DEF Inv, Typed, Sparing

-----------------------------------------------------------------------------
(* The actions that move one actor *)

LEMMA ThinHolds ==
  ASSUME Inv, NEW a \in Actors, NEW d \in Places, Thin(a, d)
  PROVE  Inv'
  <1>1. PICK r : r = actor[a]
    OBVIOUS
  <1>2. /\ a # Command /\ r.pc = "thin"
        /\ Becomes(a, [r EXCEPT !.pc = "remove", !.queue = @ \ {d}, !.at = d,
                                !.plan = Prunable(cfg[r.job], Candidates(r, d))])
        /\ UNCHANGED <<cfg, now, held, marker, ran, writer>>
    BY <1>1 DEF Thin
  <1>3. r \in Actor /\ r.job \in DOMAIN cfg /\ r.plans = <<>>
    BY <1>1, <1>2 DEF Inv, Typed, TypeOK, Positions, Position
  <1>4. PICK plan : plan = Prunable(cfg[r.job], Candidates(r, d))
    OBVIOUS
  <1>5. plan \subseteq Candidates(r, d) /\ Candidates(r, d) \subseteq held[d]
    BY <1>4, PrunableIsListed DEF Candidates
  <1>6. plan \in SUBSET Id
    BY <1>5 DEF Inv, Typed, TypeOK
  <1>7. \A id \in Candidates(r, d) : Allowed(r.job, d, id)
    BY <1>3, OwnedIsAllowed, PendingIsAllowed DEF Candidates, Inv, Sparing
  <1>8. PICK q : q = [r EXCEPT !.pc = "remove", !.queue = @ \ {d}, !.at = d, !.plan = plan]
    OBVIOUS
  <1>9. /\ q \in Actor /\ q.pc = "remove" /\ q.job = r.job /\ q.at = d
        /\ q.plan = plan /\ q.plans = <<>>
    BY <1>3, <1>6, <1>8 DEF Actor
  <1>10. Becomes(a, q)
    BY <1>2, <1>4, <1>8
  <1>11. \A id \in q.plan : Allowed(q.job, q.at, id)
    BY <1>5, <1>7, <1>9
  <1> QED
    BY <1>2, <1>3, <1>9, <1>10, <1>11, Moves DEF Inv, Typed, TypeOK

\* What Resting is, for the actions after which an actor rests.
LEMMA RestingIs ==
  /\ Resting \in Actor /\ Resting.pc = "idle" /\ Resting.at = Local
  /\ Resting.plan = {} /\ Resting.plans = <<>>
  BY RestingType DEF Resting

LEMMA RemoveHolds ==
  ASSUME Inv, NEW a \in Actors, NEW id \in Id, Remove(a, id)
  PROVE  Inv'
  <1>1. PICK r : r = actor[a]
    OBVIOUS
  <1>2. /\ r.pc = "remove"
        /\ held' = [held EXCEPT ![r.at] = @ \ {id}]
        /\ marker' = IF r.at = Local THEN [marker EXCEPT ![id] = Nobody] ELSE marker
        /\ Becomes(a, [r EXCEPT !.plan = @ \ {id}])
        /\ UNCHANGED <<cfg, now, ran, writer>>
    BY <1>1 DEF Remove
  <1>3. r \in Actor /\ Position(a) /\ Spares(a)
    BY <1>1 DEF Inv, Typed, TypeOK, Positions, Sparing
  <1>4. PICK q : q = [r EXCEPT !.plan = @ \ {id}]
    OBVIOUS
  <1>5. /\ q \in Actor /\ q.pc = "remove" /\ q.job = r.job /\ q.at = r.at
        /\ q.plan \subseteq r.plan /\ q.plans = r.plans
    BY <1>2, <1>3, <1>4 DEF Actor
  <1>6. held' \in [Places -> SUBSET Id] /\ \A d \in Places : held'[d] \subseteq held[d]
    BY <1>2 DEF Inv, Typed, TypeOK
  <1>7. /\ marker' \in [Id -> Names \cup {Nobody}]
        /\ \A m \in Id : marker'[m] \in {marker[m], Nobody}
    BY <1>2 DEF Inv, Typed, TypeOK
  <1>8. Becomes(a, q)
    BY <1>2, <1>4
  <1>9. /\ \A m \in q.plan : Allowed(q.job, q.at, m)
        /\ \A n \in DOMAIN q.plans : \A m \in q.plans[n] : Allowed(q.job + n, Local, m)
    BY <1>1, <1>3, <1>5 DEF Spares
  <1> QED
    BY <1>1, <1>2, <1>3, <1>5, <1>6, <1>7, <1>8, <1>9, Moves DEF Position

LEMMA ThinnedHolds ==
  ASSUME Inv, NEW a \in Actors, Thinned(a)
  PROVE  Inv'
  <1>1. PICK r : r = actor[a]
    OBVIOUS
  <1>2. /\ a # Command /\ r.pc = "remove" /\ r.plan = {}
        /\ Becomes(a, [r EXCEPT !.pc = "thin"])
        /\ UNCHANGED <<cfg, now, held, marker, ran, writer>>
    BY <1>1 DEF Thinned
  <1>3. r \in Actor /\ r.job \in DOMAIN cfg /\ r.plans = <<>>
    BY <1>1, <1>2 DEF Inv, Typed, TypeOK, Positions, Position
  <1>4. PICK q : q = [r EXCEPT !.pc = "thin"]
    OBVIOUS
  <1>5. q \in Actor /\ q.pc = "thin" /\ q.job = r.job /\ q.plan = {} /\ q.plans = <<>>
    BY <1>2, <1>3, <1>4 DEF Actor
  <1>6. Becomes(a, q)
    BY <1>2, <1>4
  <1> QED
    BY <1>2, <1>3, <1>5, <1>6, Moves DEF Inv, Typed, TypeOK

LEMMA FailsHolds ==
  ASSUME Inv, NEW a \in Actors, Fails(a)
  PROVE  Inv'
  <1>1. PICK r : r = actor[a]
    OBVIOUS
  <1>2. UNCHANGED <<cfg, now, held, marker, ran, writer>>
    BY DEF Fails
  <1>3. r \in Actor /\ Position(a) /\ Spares(a)
    BY <1>1 DEF Inv, Typed, TypeOK, Positions, Sparing
  <1>4. CASE r.pc = "thin" /\ \E d \in r.queue : Becomes(a, [r EXCEPT !.queue = @ \ {d}])
    <2>1. PICK d \in r.queue : Becomes(a, [r EXCEPT !.queue = @ \ {d}])
      BY <1>4
    <2>2. PICK q : q = [r EXCEPT !.queue = @ \ {d}]
      OBVIOUS
    <2>3. /\ q \in Actor /\ q.pc = "thin" /\ q.job = r.job /\ q.at = r.at
          /\ q.plan = r.plan /\ q.plans = r.plans
      BY <1>3, <1>4, <2>2 DEF Actor
    <2>4. Becomes(a, q)
      BY <2>1, <2>2
    <2>5. /\ \A m \in q.plan : Allowed(q.job, q.at, m)
          /\ \A n \in DOMAIN q.plans : \A m \in q.plans[n] : Allowed(q.job + n, Local, m)
      BY <1>1, <1>3, <2>3 DEF Spares
    <2> QED
      BY <1>1, <1>2, <1>3, <1>4, <2>3, <2>4, <2>5, Moves DEF Position, Inv, Typed, TypeOK
  <1>5. CASE a = Command /\ Becomes(a, Resting)
    BY <1>2, <1>5, RestingIs, Moves DEF Inv, Typed, TypeOK
  <1>6. CASE /\ a # Command /\ r.pc = "remove"
             /\ Becomes(a, [r EXCEPT !.pc = "thin", !.plan = {}])
    <2>1. PICK q : q = [r EXCEPT !.pc = "thin", !.plan = {}]
      OBVIOUS
    <2>2. r.job \in DOMAIN cfg /\ r.plans = <<>>
      BY <1>1, <1>3, <1>6 DEF Position
    <2>3. q \in Actor /\ q.pc = "thin" /\ q.job = r.job /\ q.plan = {} /\ q.plans = <<>>
      BY <1>3, <2>1, <2>2 DEF Actor
    <2>4. Becomes(a, q)
      BY <1>6, <2>1
    <2> QED
      BY <1>2, <1>6, <2>2, <2>3, <2>4, Moves DEF Inv, Typed, TypeOK
  <1> QED
    BY <1>1, <1>4, <1>5, <1>6 DEF Fails

LEMMA RunEndsHolds ==
  ASSUME Inv, NEW a \in Actors, RunEnds(a)
  PROVE  Inv'
  <1>1. /\ a # Command /\ Becomes(a, Resting)
        /\ held' = [held EXCEPT ![Local] = @ \ actor[a].drop]
        /\ UNCHANGED <<cfg, now, marker, ran, writer>>
    BY DEF RunEnds
  <1>2. held' \in [Places -> SUBSET Id] /\ \A d \in Places : held'[d] \subseteq held[d]
    BY <1>1 DEF Inv, Typed, TypeOK
  <1> QED
    BY <1>1, <1>2, RestingIs, Moves DEF Inv, Typed, TypeOK

LEMMA PruneEndsHolds ==
  ASSUME Inv, PruneEnds
  PROVE  Inv'
  BY RestingIs, Moves DEF PruneEnds, Inv, Typed, TypeOK, Actors

LEMMA PlanIsAllowed ==
  ASSUME NEW i, NEW id \in PlanOf(i)
  PROVE  Allowed(i, Local, id)
  <1>1. Owns(cfg, i, id, Local, marker[id])
    BY PrunableIsListed DEF PlanOf
  <1> QED
    BY <1>1, OwnedIsAllowed

LEMMA PruneCommandHolds ==
  ASSUME Inv, PruneCommand
  PROVE  Inv'
  <1>1. PICK n : n = Len(cfg)
    OBVIOUS
  <1>2. n \in Nat /\ n # 0 /\ 1 \in DOMAIN cfg
    BY <1>1, JobsOf DEF PruneCommand, Inv, Typed, TypeOK, JobSeq
  <1>3. PICK plans : plans = [i \in 1..(n - 1) |-> PlanOf(i + 1)]
    OBVIOUS
  <1>4. /\ plans \in Seq(SUBSET Id) /\ Len(plans) = n - 1
        /\ \A i \in DOMAIN plans : i \in 1..(n - 1) /\ plans[i] = PlanOf(i + 1)
    <2>1. \A i \in 1..(n - 1) : PlanOf(i + 1) \in SUBSET Id
      BY PlanType DEF Inv, Typed
    <2>2. n - 1 \in Nat
      BY <1>2
    <2>3. plans \in [1..(n - 1) -> SUBSET Id]
      BY <1>3, <2>1
    <2>4. plans \in Seq(SUBSET Id)
      BY <2>2, <2>3, SeqDef
    <2>5. DOMAIN plans = 1..(n - 1) /\ Len(plans) \in Nat /\ DOMAIN plans = 1..Len(plans)
      BY <2>3, <2>4, LenProperties
    <2> QED
      BY <1>3, <2>2, <2>4, <2>5
  <1>5. PlanOf(1) \in SUBSET Id
    BY PlanType DEF Inv, Typed
  <1>6. PICK first : first = PlanOf(1)
    OBVIOUS
  <1>7. PICK q : q = [Resting EXCEPT !.pc = "remove", !.job = 1, !.plan = first, !.plans = plans]
    OBVIOUS
  <1>8. /\ q \in Actor /\ q.pc = "remove" /\ q.job = 1 /\ q.at = Local
        /\ q.plan = first /\ q.plans = plans
    BY <1>4, <1>5, <1>6, <1>7, RestingIs DEF Actor
  <1>9. /\ Becomes(Command, q)
        /\ UNCHANGED <<cfg, now, held, marker, ran, writer>>
    BY <1>1, <1>3, <1>6, <1>7 DEF PruneCommand
  <1>10. \A id \in q.plan : Allowed(q.job, q.at, id)
    BY <1>6, <1>8, PlanIsAllowed
  <1>11. ASSUME NEW i \in DOMAIN q.plans, NEW id \in q.plans[i]
         PROVE  Allowed(q.job + i, Local, id)
    <2>1. i \in Int /\ id \in PlanOf(i + 1)
      BY <1>4, <1>8
    <2>2. Allowed(i + 1, Local, id)
      BY <2>1, PlanIsAllowed
    <2>3. q.job + i = i + 1
      BY <1>8, <2>1
    <2> QED
      BY <2>2, <2>3
  <1>12. Command \in Actors /\ q.job + Len(q.plans) = Len(cfg)
    BY <1>1, <1>2, <1>4, <1>8 DEF Actors
  <1> QED
    BY <1>2, <1>8, <1>9, <1>10, <1>11, <1>12, Moves DEF Inv, Typed, TypeOK

LEMMA PruneNextJobHolds ==
  ASSUME Inv, PruneNextJob
  PROVE  Inv'
  <1>1. PICK r : r = actor[Command]
    OBVIOUS
  <1>2. /\ r.pc = "remove" /\ r.plan = {} /\ r.plans # <<>>
        /\ Becomes(Command, [r EXCEPT !.job = @ + 1, !.plan = Head(r.plans),
                                      !.plans = Tail(r.plans)])
        /\ UNCHANGED <<cfg, now, held, marker, ran, writer>>
    BY <1>1 DEF PruneNextJob
  <1>3. Command \in Actors
    BY DEF Actors
  <1>4. r \in Actor /\ Position(Command) /\ Spares(Command)
    BY <1>1, <1>3 DEF Inv, Typed, TypeOK, Positions, Sparing
  <1>5. /\ r.job \in DOMAIN cfg /\ r.at = Local /\ r.job + Len(r.plans) = Len(cfg)
        /\ \A n \in DOMAIN r.plans : \A id \in r.plans[n] : Allowed(r.job + n, Local, id)
    BY <1>1, <1>2, <1>4 DEF Position, Spares
  <1>6. PICK plan, rest : plan = Head(r.plans) /\ rest = Tail(r.plans)
    OBVIOUS
  <1>7. r.plans \in Seq(SUBSET Id) /\ r.job \in Nat
    BY <1>4 DEF Actor
  <1>8. /\ plan \in SUBSET Id /\ rest \in Seq(SUBSET Id)
        /\ Len(rest) = Len(r.plans) - 1 /\ Len(r.plans) \in Nat
        /\ 1 \in DOMAIN r.plans /\ plan = r.plans[1]
        /\ \A n \in DOMAIN rest : n \in Nat /\ n + 1 \in DOMAIN r.plans /\ rest[n] = r.plans[n + 1]
    BY <1>2, <1>6, <1>7
  <1>9. PICK q : q = [r EXCEPT !.job = @ + 1, !.plan = plan, !.plans = rest]
    OBVIOUS
  <1>10. /\ q \in Actor /\ q.pc = "remove" /\ q.job = r.job + 1 /\ q.at = Local
         /\ q.plan = plan /\ q.plans = rest
    <2>1. /\ q.pc = "remove" /\ q.job = r.job + 1 /\ q.at = Local
          /\ q.plan = plan /\ q.plans = rest
          /\ q.queue = r.queue /\ q.only = r.only /\ q.drop = r.drop
      BY <1>2, <1>4, <1>5, <1>9 DEF Actor
    <2>2. r.job + 1 \in Nat
      BY <1>7
    <2>3. q \in Actor
      BY <1>2, <1>4, <1>8, <1>9, <2>2 DEF Actor
    <2> QED
      BY <2>1, <2>3
  <1>11. Becomes(Command, q)
    BY <1>2, <1>6, <1>9
  <1>12. \A id \in q.plan : Allowed(q.job, q.at, id)
    BY <1>5, <1>8, <1>10
  <1>13. ASSUME NEW n \in DOMAIN q.plans, NEW id \in q.plans[n]
         PROVE  Allowed(q.job + n, Local, id)
    <2>1. n \in Nat /\ n + 1 \in DOMAIN r.plans /\ id \in r.plans[n + 1]
      BY <1>8, <1>10
    <2>2. Allowed(r.job + (n + 1), Local, id)
      BY <1>5, <2>1
    <2>3. q.job + n = r.job + (n + 1)
      BY <1>7, <1>10, <2>1
    <2> QED
      BY <2>2, <2>3
  <1>14. q.job \in DOMAIN cfg /\ q.job + Len(q.plans) = Len(cfg)
    <2>1. DOMAIN cfg = 1..Len(cfg) /\ Len(cfg) \in Nat
      BY JobsOf DEF Inv, Typed, TypeOK
    <2>2. Len(r.plans) >= 1
      BY <1>7, <1>8
    <2> QED
      BY <1>5, <1>7, <1>8, <1>10, <2>1, <2>2
  <1> QED
    BY <1>2, <1>3, <1>10, <1>11, <1>12, <1>13, <1>14, Moves DEF Inv, Typed, TypeOK

-----------------------------------------------------------------------------
(* The other actions *)

LEMMA BackUpHolds ==
  ASSUME Inv, NEW i \in DOMAIN cfg, BackUp(i)
  PROVE  Inv'
  <1>1. Typed'
    BY BackUpTyped DEF Inv
  <1>2. PICK j : j = cfg[i]
    OBVIOUS
  <1>3. PICK id : id = NewId(cfg, j, now)
    OBVIOUS
  <1>4. /\ j.name \in Names /\ Slug[j.name] # Plain /\ j.name # Nobody
        /\ id \in Id /\ id.slug \in {Plain, Slug[j.name]}
        /\ Len(cfg) <= 1 \/ id.slug # Plain
    <2>1. cfg \in Configs
      BY DEF Inv, Typed, TypeOK
    <2>2. j.name \in Names /\ Slug[j.name] \in Slugs /\ Len(cfg) \in Nat
      BY <1>2, <2>1, JobsOf
    <2>3. id \in Id
      BY <1>2, <1>3, NewIdType DEF Inv, Typed
    <2>4. id.slug = IF Len(cfg) > 1 THEN Slug[j.name] ELSE Plain
      BY <1>3 DEF NewId
    <2> QED
      BY <2>2, <2>3, <2>4, OwnershipAssumption
  <1>5. /\ UNCHANGED cfg
        /\ writer' = [writer EXCEPT ![id] = IF @ = Nobody THEN j.name ELSE @]
        /\ \/ marker' = [m \in Id |-> IF m \in PendingOf(j) THEN Nobody ELSE marker[m]]
           \/ marker' = [marker EXCEPT ![id] = j.name]
           \/ marker' = marker
        /\ \E q, o, x : Becomes(j.name, ThinningRun(i, q, o, x))
    BY <1>2, <1>3 DEF BackUp
  <1>6. \A m \in Id : \/ marker'[m] \in {marker[m], Nobody}
                      \/ m = id /\ marker'[m] = j.name
    BY <1>5 DEF Inv, Typed, TypeOK
  <1>7. ASSUME NEW m \in Id
        PROVE  writer'[m] = writer[m] \/ (m = id /\ writer'[m] = j.name)
    <2>1. writer \in [Id -> Names \cup {Nobody}]
      BY DEF Inv, Typed, TypeOK
    <2>2. CASE m = id
      <3>1. writer'[id] = IF writer[id] = Nobody THEN j.name ELSE writer[id]
        BY <1>4, <1>5, <2>1
      <3> QED
        BY <2>2, <3>1
    <2>3. CASE m # id
      BY <1>5, <1>7, <2>1, <2>3
    <2> QED
      BY <2>2, <2>3
  <1>8. Agree'
    <2>1. ASSUME NEW m \in Id
          PROVE  /\ marker'[m] # Nobody => m.slug \in {Plain, Slug[marker'[m]]}
                 /\ writer'[m] # Nobody => m.slug \in {Plain, Slug[writer'[m]]}
      BY <1>4, <1>6, <1>7 DEF Inv, Sparing, Agree
    <2> QED
      BY <2>1 DEF Agree
  <1>9. PICK q, o, x : Becomes(j.name, ThinningRun(i, q, o, x))
    BY <1>5
  <1>10. j.name \in Actors
    BY <1>4 DEF Actors
  <1>11. actor'[j.name].plan = {} /\ actor'[j.name].plans = <<>>
    BY <1>9, <1>10 DEF Becomes, ThinningRun, Inv, Typed, TypeOK
  <1>12. Spares(j.name)'
    BY <1>11 DEF Spares
  <1>13. ASSUME NEW b \in Actors, b # j.name
         PROVE  Spares(b)'
    <2>1. actor'[b] = actor[b]
      BY <1>9, <1>10, <1>13 DEF Becomes, Inv, Typed, TypeOK
    <2> QED
      BY <1>4, <1>5, <1>6, <2>1, SparesStay DEF Inv, Sparing
  <1> QED
    BY <1>1, <1>8, <1>12, <1>13 DEF Inv, Sparing

LEMMA TickHolds ==
  ASSUME Inv, Tick \/ UNCHANGED vars
  PROVE  Inv'
  <1>1. /\ UNCHANGED <<cfg, held, marker, actor, writer>>
        /\ now' \in 1..MaxTime /\ ran' \subseteq Names
    BY SharedAssumption DEF Tick, vars, Inv, Typed, TypeOK
  <1>2. TypeOK'
    BY <1>1 DEF Inv, Typed, TypeOK
  <1>3. Positions'
    BY <1>1 DEF Inv, Typed, Positions, Position
  <1>4. Sparing'
    BY <1>1 DEF Inv, Sparing, Agree, Spares, Allowed
  <1> QED
    BY <1>2, <1>3, <1>4 DEF Inv, Typed

LEMMA ReconfigureHolds ==
  ASSUME Inv, Reconfigure
  PROVE  Inv'
  <1>1. /\ UNCHANGED <<held, marker, actor, writer>>
        /\ cfg' \in Configs /\ now' \in 1..MaxTime /\ ran' \subseteq Names
        /\ \A a \in Actors : actor[a].pc = "idle"
    BY SharedAssumption DEF Reconfigure, Inv, Typed, TypeOK
  <1>2. \A a \in Actors : actor[a].plan = {} /\ actor[a].plans = <<>>
    BY <1>1 DEF Inv, Typed, Positions, Position
  <1>3. TypeOK'
    BY <1>1 DEF Inv, Typed, TypeOK
  <1>4. Positions'
    BY <1>1, <1>2 DEF Inv, Typed, Positions, Position
  <1>5. Agree'
    BY <1>1 DEF Inv, Sparing, Agree
  <1>6. \A a \in Actors : Spares(a)'
    BY <1>1, <1>2 DEF Spares
  <1> QED
    BY <1>3, <1>4, <1>5, <1>6 DEF Inv, Typed, Sparing

LEMMA InvInit == Init => Inv
  <1> SUFFICES ASSUME Init PROVE Inv
    OBVIOUS
  <1>1. Agree
    BY DEF Init, Agree, NoMarks
  <1>2. \A a \in Actors : Spares(a)
    BY DEF Init, Spares, Resting
  <1> QED
    BY <1>1, <1>2, TypedInit DEF Inv, Sparing

LEMMA InvStep == Inv /\ [Next]_vars => Inv'
  <1> SUFFICES ASSUME Inv, [Next]_vars PROVE Inv'
    OBVIOUS
  <1>1. CASE Tick \/ UNCHANGED vars
    BY <1>1, TickHolds
  <1>2. CASE Reconfigure
    BY <1>2, ReconfigureHolds
  <1>3. CASE \E i \in DOMAIN cfg : BackUp(i)
    BY <1>3, BackUpHolds
  <1>4. CASE \E a \in Actors, d \in Places : Thin(a, d)
    BY <1>4, ThinHolds
  <1>5. CASE \E a \in Actors, id \in Id : Remove(a, id)
    BY <1>5, RemoveHolds
  <1>6. CASE \E a \in Actors : Thinned(a) \/ Fails(a) \/ RunEnds(a)
    BY <1>6, ThinnedHolds, FailsHolds, RunEndsHolds
  <1>7. CASE PruneCommand \/ PruneNextJob \/ PruneEnds
    BY <1>7, PruneCommandHolds, PruneNextJobHolds, PruneEndsHolds
  <1> QED
    BY <1>1, <1>2, <1>3, <1>4, <1>5, <1>6, <1>7 DEF Next

LEMMA AlwaysInv == Spec => []Inv
  BY InvInit, InvStep, PTL DEF Spec

-----------------------------------------------------------------------------
(***************************************************************************)
(* Every variable keeps its type: in particular prune never goes past the  *)
(* last job, and each snapshot anywhere was stored by a job.               *)
(***************************************************************************)
THEOREM Typing == Spec => []TypeOK
  <1>1. Inv => TypeOK
    BY DEF Inv, Typed
  <1> QED
    BY <1>1, AlwaysInv, PTL

(***************************************************************************)
(* No snapshot ever has two owners among the configured jobs.              *)
(***************************************************************************)
THEOREM SingleOwner == Spec => []OneOwner
  <1>1. Inv => OneOwner
    BY OwnedByOne DEF Inv, Typed, TypeOK, OneOwner
  <1> QED
    BY <1>1, AlwaysInv, PTL

(***************************************************************************)
(* No run and no prune has on its list a snapshot whose id, or whose       *)
(* marker, names another configured job.                                   *)
(***************************************************************************)
THEOREM OthersSpared == Spec => []PlansSpareOthers
  <1>1. ASSUME Inv, NEW a \in Actors, NEW id \in actor[a].plan, NEW i \in DOMAIN cfg,
               i # actor[a].job, writer[id] = cfg[i].name
        PROVE  id.slug = Plain /\ (actor[a].at = Local => marker[id] # cfg[i].name)
    <2>1. PICK k : k = actor[a].job
      OBVIOUS
    <2>2. cfg \in Configs /\ actor[a] \in Actor
      BY <1>1 DEF Inv, Typed, TypeOK
    <2>3. id \in Id
      BY <1>1, <2>2 DEF Actor
    <2>4. Allowed(k, actor[a].at, id)
      BY <1>1, <2>1 DEF Inv, Sparing, Spares
    <2>5. k \in DOMAIN cfg
      <3>1. actor[a].pc # "idle"
        BY <1>1 DEF Inv, Typed, Positions, Position
      <3> QED
        BY <1>1, <2>1, <3>1 DEF Inv, Typed, TypeOK
    <2>6. /\ Len(cfg) \in Nat /\ i \in 1..Len(cfg) /\ k \in 1..Len(cfg)
          /\ cfg[i].name \in Names /\ cfg[k].name \in Names
      BY <1>1, <2>2, <2>5, JobsOf
    <2>7. Slug[cfg[i].name] # Slug[cfg[k].name]
      BY <1>1, <2>1, <2>2, <2>5, JobsOf DEF JobSeq, DistinctNames
    <2>8. /\ cfg[i].name # Nobody /\ cfg[i].name # cfg[k].name
          /\ Slug[cfg[k].name] # Plain
      BY <2>6, <2>7, OwnershipAssumption
    <2>9. writer[id] # Nobody => id.slug \in {Plain, Slug[writer[id]]}
      BY <1>1, <2>3 DEF Inv, Sparing, Agree
    <2>10. id.slug \in {Plain, Slug[cfg[i].name]}
      BY <1>1, <2>8, <2>9
    <2>11. Len(cfg) > 1
      BY <1>1, <2>1, <2>6
    <2> QED
      BY <2>4, <2>6, <2>7, <2>8, <2>10, <2>11 DEF Allowed
  <1>2. Inv => PlansSpareOthers
    BY <1>1 DEF PlansSpareOthers
  <1> QED
    BY <1>2, AlwaysInv, PTL

-----------------------------------------------------------------------------
(* Who wrote what *)

\* No id is from the future, and an id of this second was written by the job of
\* the configuration whose run makes that id.
Dated ==
  \A id \in Id : writer[id] # Nobody =>
    /\ id.at <= now
    /\ id.at = now => \E i \in DOMAIN cfg :
                        id = NewId(cfg, cfg[i], now) /\ writer[id] = cfg[i].name

\* A marker names the writer.
Signed == \A id \in Id : marker[id] \in {Nobody, writer[id]}

Authored == Dated /\ Signed /\ OneWriter /\ ShippedToOwner

\* Jobs of one configuration make different ids.
LEMMA IdsDiffer ==
  ASSUME NEW c \in Configs, NEW i \in DOMAIN c, NEW k \in DOMAIN c, NEW t,
         NewId(c, c[i], t) = NewId(c, c[k], t)
  PROVE  i = k
  <1>1. i \in 1..Len(c) /\ k \in 1..Len(c) /\ Len(c) \in Nat
    BY JobsOf
  <1>2. CASE Len(c) > 1
    <2>1. Slug[c[i].name] = Slug[c[k].name]
      BY <1>2 DEF NewId
    <2> QED
      BY <2>1, JobsOf DEF JobSeq, DistinctNames
  <1>3. CASE ~(Len(c) > 1)
    BY <1>1, <1>3
  <1> QED
    BY <1>2, <1>3

\* The id of a run is that job's, whether the run is the first to store it or not.
LEMMA OwnId ==
  ASSUME Inv, Dated, NEW i \in DOMAIN cfg, BackUp(i)
  PROVE  LET id == NewId(cfg, cfg[i], now) IN
         /\ id \in Id /\ cfg[i].name \in Names
         /\ writer[id] \in {Nobody, cfg[i].name} /\ writer'[id] = cfg[i].name
         /\ \A m \in Id : m # id => writer'[m] = writer[m]
  <1>1. PICK id : id = NewId(cfg, cfg[i], now)
    OBVIOUS
  <1>2. id \in Id /\ cfg \in Configs /\ writer \in [Id -> Names \cup {Nobody}] /\ id.at = now
    BY <1>1, NewIdType DEF Inv, Typed, TypeOK, NewId
  <1>3. cfg[i].name \in Names
    BY <1>2, JobsOf
  <1>4. writer[id] \in {Nobody, cfg[i].name}
    <2>1. SUFFICES ASSUME writer[id] # Nobody PROVE writer[id] = cfg[i].name
      OBVIOUS
    <2>2. PICK k \in DOMAIN cfg : id = NewId(cfg, cfg[k], now) /\ writer[id] = cfg[k].name
      BY <1>2, <2>1 DEF Dated
    <2>3. PICK c, t : c = cfg /\ t = now
      OBVIOUS
    <2>4. NewId(c, c[i], t) = NewId(c, c[k], t)
      BY <1>1, <2>2, <2>3
    <2>5. k = i
      BY <1>2, <2>3, <2>4, IdsDiffer
    <2> QED
      BY <2>2, <2>5
  <1>5. writer' = [writer EXCEPT ![id] = IF @ = Nobody THEN cfg[i].name ELSE @]
    BY <1>1 DEF BackUp
  <1>6. writer'[id] = IF writer[id] = Nobody THEN cfg[i].name ELSE writer[id]
    BY <1>2, <1>5
  <1>7. \A m \in Id : m # id => writer'[m] = writer[m]
    BY <1>2, <1>5
  <1> QED
    BY <1>1, <1>2, <1>3, <1>4, <1>6, <1>7

\* What a run adds to a bucket, and what becomes of the markers.
LEMMA Lands ==
  ASSUME Typed, NEW i \in DOMAIN cfg, BackUp(i)
  PROVE  LET j  == cfg[i]
             id == NewId(cfg, j, now)
         IN  \E up \in SUBSET j.s3 :
               /\ \A d \in S3 : held'[d] \subseteq held[d] \cup
                    (IF d \in up THEN (PendingOf(j) \cap held[Local]) \cup {id} ELSE {})
               /\ \A m \in Id : \/ marker'[m] \in {Nobody, marker[m]}
                                \/ m = id /\ marker'[m] = j.name
  <1> DEFINE j    == cfg[i]
             id   == NewId(cfg, j, now)
             pend == PendingOf(j) \cap held[Local]
  <1>1. PICK up \in SUBSET j.s3 :
          LET copies == up \cup (IF j.local \/ up = {} THEN {Local} ELSE {})
              gone   == IF up # {} /\ ~KeepsLocal(j) THEN pend ELSE {}
          IN  /\ held' = [d \in Places |->
                            CASE d = Local -> (held[d] \ gone) \cup (IF d \in copies THEN {id} ELSE {})
                              [] d \in up  -> held[d] \cup pend \cup {id}
                              [] OTHER     -> held[d]]
              /\ marker' = IF up # {}
                           THEN [m \in Id |-> IF m \in PendingOf(j) THEN Nobody ELSE marker[m]]
                           ELSE IF j.s3 # {} THEN [marker EXCEPT ![id] = j.name]
                           ELSE marker
    BY Zenon DEF BackUp, j, id
  <1>2. marker \in [Id -> Names \cup {Nobody}]
    BY DEF Typed, TypeOK
  <1> HIDE DEF j, id, pend
  <1>3. ASSUME NEW d \in S3
        PROVE  held'[d] \subseteq held[d] \cup (IF d \in up THEN pend \cup {id} ELSE {})
    <2>1. d \in Places /\ d # Local
      BY OwnershipAssumption DEF Places
    <2> QED
      BY <1>1, <2>1
  <1>4. ASSUME NEW m \in Id
        PROVE  marker'[m] \in {Nobody, marker[m]} \/ (m = id /\ marker'[m] = j.name)
    BY <1>1, <1>2
  <1> QED
    BY <1>3, <1>4 DEF j, id, pend

LEMMA BackUpAuthored ==
  ASSUME Inv, Authored, NEW i \in DOMAIN cfg, BackUp(i)
  PROVE  Authored'
  <1>1. PICK j, id : j = cfg[i] /\ id = NewId(cfg, j, now)
    OBVIOUS
  <1>2. /\ id \in Id /\ j.name \in Names /\ id.at = now
        /\ writer[id] \in {Nobody, j.name} /\ writer'[id] = j.name
        /\ \A m \in Id : m # id => writer'[m] = writer[m]
        /\ cfg \in Configs
    BY <1>1, OwnId DEF Authored, NewId, Inv, Typed, TypeOK
  <1>3. /\ cfg' = cfg /\ now' = now /\ ran' = ran \cup {j.name} /\ now \in Nat
    BY <1>1 DEF BackUp, Inv, Typed, TypeOK
  <1>4. \A m \in Id : writer[m] # Nobody => writer'[m] = writer[m]
    BY <1>2
  <1>5. Dated'
    <2>1. ASSUME NEW m \in Id, writer'[m] # Nobody
          PROVE  /\ m.at <= now
                 /\ m.at = now => \E k \in DOMAIN cfg :
                      m = NewId(cfg, cfg[k], now) /\ writer'[m] = cfg[k].name
      <3>1. CASE m = id
        BY <1>1, <1>2, <1>3, <3>1
      <3>2. CASE m # id
        BY <1>2, <2>1, <3>2 DEF Authored, Dated
      <3> QED
        BY <3>1, <3>2
    <2> QED
      BY <1>3, <2>1 DEF Dated, NewId
  <1>6. OneWriter'
    <2>1. ASSUME NEW k \in DOMAIN cfg, cfg[k].name \in ran \cup {j.name}
          PROVE  writer'[NewId(cfg, cfg[k], now)] = cfg[k].name
      <3>1. CASE cfg[k].name = j.name
        <4>1. k = i
          BY <1>1, <1>2, <3>1, JobsOf DEF JobSeq, DistinctNames
        <4> QED
          BY <1>1, <1>2, <4>1
      <3>2. CASE cfg[k].name \in ran
        <4>1. NewId(cfg, cfg[k], now) \in Id
          BY NewIdType DEF Inv, Typed
        <4>2. writer[NewId(cfg, cfg[k], now)] = cfg[k].name
          BY <3>2 DEF Authored, OneWriter
        <4>3. cfg[k].name # Nobody
          BY <1>2, JobsOf, OwnershipAssumption
        <4> QED
          BY <1>4, <4>1, <4>2, <4>3
      <3> QED
        BY <2>1, <3>1, <3>2
    <2> QED
      BY <1>3, <2>1 DEF OneWriter, NewId
  <1>7. PICK up \in SUBSET j.s3 :
          /\ \A d \in S3 : held'[d] \subseteq held[d] \cup
               (IF d \in up THEN (PendingOf(j) \cap held[Local]) \cup {id} ELSE {})
          /\ \A m \in Id : \/ marker'[m] \in {Nobody, marker[m]}
                           \/ m = id /\ marker'[m] = j.name
    BY <1>1, Lands DEF Inv
  <1>8. Signed'
    <2>1. ASSUME NEW m \in Id
          PROVE  marker'[m] \in {Nobody, writer'[m]}
      <3>1. \/ marker'[m] \in {Nobody, marker[m]}
            \/ m = id /\ marker'[m] = j.name
        BY <1>7
      <3>2. marker[m] \in {Nobody, writer[m]}
        BY DEF Authored, Signed
      <3> QED
        BY <1>2, <3>1, <3>2
    <2> QED
      BY <2>1 DEF Signed
  <1>9. ShippedToOwner'
    <2>1. ASSUME NEW d \in S3, NEW m \in held'[d]
          PROVE  \E c \in Configs : \E k \in DOMAIN c : c[k].name = writer'[m] /\ d \in c[k].s3
      <3>1. d # Local /\ d \in Places /\ held[d] \subseteq Id /\ held[Local] \subseteq Id
        BY OwnershipAssumption DEF Places, Inv, Typed, TypeOK
      <3>2. \/ m \in held[d]
            \/ d \in up /\ (m = id \/ m \in PendingOf(j) \cap held[Local])
        BY <1>7, <2>1, <3>1
      <3>3. CASE m \in held[d]
        <4>1. m \in Id /\ writer[m] # Nobody
          BY <3>1, <3>3 DEF Inv, Typed, TypeOK
        <4>2. writer'[m] = writer[m]
          BY <1>4, <4>1
        <4> QED
          BY <3>3, <4>2 DEF Authored, ShippedToOwner
      <3>4. CASE d \in up /\ m = id
        BY <1>1, <1>2, <3>4
      <3>5. CASE d \in up /\ m \in PendingOf(j) \cap held[Local]
        <4>1. m \in Id /\ marker[m] = j.name /\ j.name # Nobody
          BY <1>2, <3>1, <3>5, OwnershipAssumption DEF PendingOf
        <4>2. writer[m] = j.name
          BY <4>1 DEF Authored, Signed
        <4>3. writer'[m] = j.name
          BY <1>4, <4>1, <4>2
        <4> QED
          BY <1>1, <1>2, <3>5, <4>3
      <3> QED
        BY <3>2, <3>3, <3>4, <3>5
    <2> QED
      BY <2>1 DEF ShippedToOwner
  <1> QED
    BY <1>5, <1>6, <1>8, <1>9 DEF Authored

\* In the next second nothing is written yet.
LEMMA TickAuthored ==
  ASSUME Inv, Authored, Tick \/ Reconfigure
  PROVE  Authored'
  <1>1. now \in Nat /\ now' = now + 1 /\ ran' = {} /\ UNCHANGED <<held, marker, writer>>
    BY DEF Tick, Reconfigure, Inv, Typed, TypeOK
  <1>2. Dated'
    <2>1. \A id \in Id : id.at \in Nat
      BY DEF Id
    <2> QED
      BY <1>1, <2>1 DEF Authored, Dated
  <1> QED
    BY <1>1, <1>2 DEF Authored, Signed, OneWriter, ShippedToOwner

\* Whatever else happens, snapshots and markers only go.
LEMMA OthersAuthored ==
  ASSUME Inv, Authored, UNCHANGED <<cfg, now, ran, writer>>,
         \A d \in Places : held'[d] \subseteq held[d],
         \A id \in Id : marker'[id] \in {marker[id], Nobody}
  PROVE  Authored'
  <1>1. Dated' /\ Signed' /\ OneWriter'
    BY DEF Authored, Dated, Signed, OneWriter, NewId
  <1>2. ShippedToOwner'
    BY DEF Authored, ShippedToOwner, Places
  <1> QED
    BY <1>1, <1>2 DEF Authored

LEMMA AuthoredInit == Init => Authored
  <1> SUFFICES ASSUME Init PROVE Authored
    OBVIOUS
  <1>1. Dated /\ Signed /\ OneWriter
    BY DEF Init, NoMarks, Dated, Signed, OneWriter
  <1>2. ShippedToOwner
    BY DEF Init, ShippedToOwner, Places
  <1> QED
    BY <1>1, <1>2 DEF Authored

LEMMA AuthoredStep == Inv /\ Authored /\ [Next]_vars => Authored'
  <1> SUFFICES ASSUME Inv, Authored, [Next]_vars PROVE Authored'
    OBVIOUS
  <1>1. CASE Tick \/ Reconfigure
    BY <1>1, TickAuthored
  <1>2. CASE \E i \in DOMAIN cfg : BackUp(i)
    BY <1>2, BackUpAuthored
  <1>3. CASE \E a \in Actors, id \in Id : Remove(a, id)
    <2>1. PICK a \in Actors, id \in Id : Remove(a, id)
      BY <1>3
    <2>2. PICK d : d = actor[a].at
      OBVIOUS
    <2>3. /\ held' = [held EXCEPT ![d] = @ \ {id}]
          /\ marker' = marker \/ marker' = [marker EXCEPT ![id] = Nobody]
          /\ UNCHANGED <<cfg, now, ran, writer>>
      BY <2>1, <2>2 DEF Remove
    <2> QED
      BY <2>3, OthersAuthored DEF Inv, Typed, TypeOK
  <1>4. CASE \E a \in Actors : RunEnds(a)
    BY <1>4, OthersAuthored DEF RunEnds, Inv, Typed, TypeOK
  <1>5. CASE \/ UNCHANGED vars \/ PruneCommand \/ PruneNextJob \/ PruneEnds
             \/ \E a \in Actors : Thinned(a) \/ Fails(a) \/ \E d \in Places : Thin(a, d)
    <2>1. UNCHANGED <<cfg, now, held, marker, ran, writer>>
      BY <1>5 DEF vars, PruneCommand, PruneNextJob, PruneEnds, Thinned, Fails, Thin
    <2> QED
      BY <2>1, OthersAuthored
  <1> QED
    BY <1>1, <1>2, <1>3, <1>4, <1>5 DEF Next

LEMMA AlwaysAuthored == Spec => []Authored
  BY AlwaysInv, AuthoredInit, AuthoredStep, PTL DEF Spec

(***************************************************************************)
(* The files under an id are one job's: whoever began a run in this second *)
(* is the writer of its id, however the jobs of the configuration overlap. *)
(***************************************************************************)
THEOREM WriterIsOne == Spec => []OneWriter
  <1>1. Authored => OneWriter
    BY DEF Authored
  <1> QED
    BY <1>1, AlwaysAuthored, PTL

(***************************************************************************)
(* What is in a bucket was written by a job that was configured with that  *)
(* bucket: a run ships no other job's pending snapshots, whatever          *)
(* configurations follow each other.                                       *)
(***************************************************************************)
THEOREM OwnersShip == Spec => []ShippedToOwner
  <1>1. Authored => ShippedToOwner
    BY DEF Authored
  <1> QED
    BY <1>1, AlwaysAuthored, PTL

-----------------------------------------------------------------------------
(* What is left of a job *)

\* A job with smart_last in every configuration.
Smart(n) ==
  \A c \in Configs : \A i \in DOMAIN c : c[i].name = n => c[i].retention.smart_last

HasAt(n, d) == \E id \in held[d] : writer[id] = n
Offsite(n)  == \E d \in S3 : HasAt(n, d)

\* Plain ids are those of a job that was alone, and one without a marker in the
\* data dir is there to stay or about to be dropped by the run that left it.
PlainOnes ==
  \A id \in Id : id.slug = Plain /\ writer[id] # Nobody =>
    /\ \E b \in Configs : Len(b) = 1 /\ b[1].name = writer[id]
    /\ id \in held[Local] /\ marker[id] = Nobody =>
         \/ Leaves(writer[id], Local)
         \/ Len(cfg) <= 1 /\ id \in actor[writer[id]].drop

\* What a run will drop is its own, and a bucket has a snapshot of its job.
DropsOwn(n) ==
  /\ actor[n].pc = "idle" => actor[n].drop = {}
  /\ actor[n].drop # {} /\ Smart(n) => Offsite(n)
  /\ \A id \in actor[n].drop : writer[id] = n

\* With id gone from d, job n has a newer snapshot there or, if d is the data
\* dir, one in a bucket.
Succeeded(n, d, id) ==
  \/ \E y \in held[d] : writer[y] = n /\ y.at > id.at
  \/ d = Local /\ Offsite(n)

\* What the i-th job may delete at d.
Outlived(i, d, id) ==
  /\ writer[id] = cfg[i].name
  /\ Smart(cfg[i].name) => Succeeded(cfg[i].name, d, id)

ListsOutlived(a) ==
  /\ \A id \in actor[a].plan : Outlived(actor[a].job, actor[a].at, id)
  /\ \A n \in DOMAIN actor[a].plans : \A id \in actor[a].plans[n] :
       Outlived(actor[a].job + n, Local, id)

Remains ==
  \A n \in Names :
    Smart(n) /\ (\E id \in Id : writer[id] = n) => \E d \in Places : HasAt(n, d)

Surviving ==
  /\ PlainOnes
  /\ \A n \in Names : DropsOwn(n)
  /\ \A a \in Actors : ListsOutlived(a)
  /\ Remains

\* Of a snapshot of a job with smart_last that goes, a step leaves a successor.
Lasting ==
  \A n \in Names : Smart(n) =>
    /\ Offsite(n) => Offsite(n)'
    /\ \A d \in Places : \A y \in held[d] :
         writer[y] = n /\ y \notin held'[d] => Succeeded(n, d, y)'

LEMMA OwnedIsMine ==
  ASSUME NothingTakenOver, Inv, Authored, PlainOnes, NEW i \in DOMAIN cfg,
         NEW d \in Places, NEW id \in held[d],
         Owns(cfg, i, id, d, IF d = Local THEN marker[id] ELSE Nobody)
  PROVE  writer[id] = cfg[i].name
  <1>1. /\ id \in Id /\ writer[id] \in Names /\ cfg \in Configs /\ writer[id] # Nobody
        /\ Len(cfg) \in Nat /\ i \in 1..Len(cfg) /\ cfg[i].name \in Names
        /\ Slug[cfg[i].name] # Plain /\ cfg[i].name # Nobody
    <2>1. id \in Id /\ writer[id] # Nobody /\ writer[id] \in Names \cup {Nobody} /\ cfg \in Configs
      BY DEF Inv, Typed, TypeOK
    <2> QED
      BY <2>1, JobsOf, OwnershipAssumption
  <1>2. CASE id.slug = Slug[cfg[i].name]
    <2>1. Slug[writer[id]] = Slug[cfg[i].name]
      BY <1>1, <1>2 DEF Inv, Sparing, Agree
    <2> QED
      BY <1>1, <2>1 DEF NothingTakenOver, SlugsDiffer
  <1>3. CASE id.slug = Plain /\ Len(cfg) <= 1
    <2>1. Len(cfg) = 1 /\ i = 1
      <3>1. PICK n : n = Len(cfg)
        OBVIOUS
      <3>2. n \in Nat /\ n <= 1 /\ i \in 1..n
        BY <1>1, <1>3, <3>1
      <3>3. n = 1 /\ i = 1
        BY <3>2
      <3> QED
        BY <3>1, <3>3
    <2>2. PICK b \in Configs : Len(b) = 1 /\ b[1].name = writer[id]
      BY <1>1, <1>3 DEF PlainOnes
    <2>3. cfg[1].name = b[1].name
      BY <1>1, <2>1, <2>2 DEF NothingTakenOver, PlainIdsStay
    <2> QED
      BY <2>1, <2>2, <2>3
  <1>4. CASE d = Local /\ marker[id] = cfg[i].name
    BY <1>1, <1>4 DEF Authored, Signed
  <1>5. CASE /\ id.slug = Plain /\ ~ (Len(cfg) <= 1) /\ PlainAt(cfg, i, d)
             /\ d = Local => marker[id] = Nobody
    <2>1. Leaves(writer[id], d)
      <3>1. CASE d \in S3
        BY <3>1 DEF Authored, ShippedToOwner, Leaves
      <3>2. CASE d = Local
        BY <1>1, <1>5, <3>2 DEF PlainOnes
      <3> QED
        BY <3>1, <3>2 DEF Places
    <2>2. PICK b \in Configs : Len(b) = 1 /\ b[1].name = writer[id]
      BY <1>1, <1>5 DEF PlainOnes
    <2>3. d \in JobPlaces(cfg[i])
      BY <1>5 DEF PlainAt
    <2>4. PICK k \in 1..i : cfg[k].name = writer[id] /\ d \in JobPlaces(cfg[k])
      BY <1>1, <2>1, <2>2, <2>3 DEF NothingTakenOver, PlainIdsStay
    <2>5. k \notin 1..(i - 1)
      BY <1>5, <2>4 DEF PlainAt
    <2>6. k = i
      BY <1>1, <2>5
    <2> QED
      BY <2>4, <2>6
  <1> QED
    BY <1>1, <1>2, <1>3, <1>4, <1>5 DEF Owns

\* smart_last: of what is selected from a list, the list has a newer one.
LEMMA SelectedHasNewer ==
  ASSUME NEW j, NEW ids, j.retention.smart_last, NEW id \in Prunable(j, ids)
  PROVE  \E y \in ids : y.at > id.at
  <1> DEFINE s == [id |-> id.at, when |-> id.at]
  <1>1. id \in ids /\ id.at \in SelectPrunable(Snaps(ids), j.retention, now)
    BY DEF Prunable
  <1>2. id.at \notin ProtectedLast(Snaps(ids))
    BY <1>1 DEF SelectPrunable
  <1>3. s \in Snaps(ids) /\ s.id = id.at
    BY <1>1 DEF Snaps
  <1>4. NewerThan(s, Snaps(ids)) # {}
    BY <1>2, <1>3 DEF ProtectedLast, Ids
  <1>5. PICK t \in Snaps(ids) : t.id > id.at
    BY <1>3, <1>4 DEF NewerThan
  <1> QED
    BY <1>5 DEF Snaps

LEMMA SelectedIsOutlived ==
  ASSUME NothingTakenOver, Inv, NEW i \in DOMAIN cfg, NEW d \in Places,
         NEW ids \in SUBSET held[d], \A y \in ids : writer[y] = cfg[i].name,
         NEW id \in Prunable(cfg[i], ids)
  PROVE  Outlived(i, d, id)
  <1>1. id \in ids /\ writer[id] = cfg[i].name /\ cfg \in Configs
    BY PrunableIsListed DEF Inv, Typed, TypeOK
  <1>2. ASSUME Smart(cfg[i].name) PROVE Succeeded(cfg[i].name, d, id)
    <2>1. cfg[i].retention.smart_last
      BY <1>1, <1>2 DEF Smart
    <2>2. PICK y \in ids : y.at > id.at
      BY <2>1, SelectedHasNewer
    <2> QED
      BY <2>2 DEF Succeeded
  <1> QED
    BY <1>1, <1>2 DEF Outlived

LEMMA PlanIsOutlived ==
  ASSUME NothingTakenOver, Inv, Authored, PlainOnes, NEW i \in DOMAIN cfg,
         NEW id \in PlanOf(i)
  PROVE  Outlived(i, Local, id)
  <1> DEFINE ids == {m \in held[Local] : Owns(cfg, i, m, Local, marker[m])}
  <1>1. \A m \in ids : writer[m] = cfg[i].name
    BY OwnedIsMine DEF Places
  <1>2. id \in Prunable(cfg[i], ids) /\ ids \in SUBSET held[Local] /\ Local \in Places
    BY DEF PlanOf, Places
  <1> HIDE DEF ids
  <1> QED
    BY <1>1, <1>2, SelectedIsOutlived

\* What a snapshot that was outlived becomes of in a lasting step.
LEMMA SucceededStays ==
  ASSUME Inv, Lasting, \A m \in Id : writer[m] # Nobody => writer'[m] = writer[m],
         held' \in [Places -> SUBSET Id],
         NEW n \in Names, Smart(n), NEW d \in Places, NEW id \in Id, Succeeded(n, d, id)
  PROVE  Succeeded(n, d, id)'
  <1>1. held[d] \subseteq Id /\ held'[d] \subseteq Id /\ n # Nobody
    BY OwnershipAssumption DEF Inv, Typed, TypeOK
  <1>2. CASE \E y \in held[d] : writer[y] = n /\ y.at > id.at
    <2>1. PICK y \in held[d] : writer[y] = n /\ y.at > id.at
      BY <1>2
    <2>2. CASE y \in held'[d]
      BY <1>1, <2>1, <2>2 DEF Succeeded
    <2>3. CASE y \notin held'[d]
      <3>1. Succeeded(n, d, y)'
        BY <2>1, <2>3 DEF Lasting
      <3>2. CASE d = Local /\ Offsite(n)'
        BY <3>2 DEF Succeeded
      <3>3. CASE \E z \in held'[d] : writer'[z] = n /\ z.at > y.at
        <4>1. PICK z \in held'[d] : writer'[z] = n /\ z.at > y.at
          BY <3>3
        <4>2. id.at \in Int /\ y.at \in Int /\ z.at \in Int
          BY <1>1 DEF Id
        <4>3. z.at > id.at
          BY <2>1, <4>1, <4>2
        <4> QED
          BY <4>1, <4>3 DEF Succeeded
      <3> QED
        BY <3>1, <3>2, <3>3 DEF Succeeded
    <2> QED
      BY <2>2, <2>3
  <1>3. CASE d = Local /\ Offsite(n)
    BY <1>3 DEF Lasting, Succeeded
  <1> QED
    BY <1>2, <1>3 DEF Succeeded

LEMMA OutlivedStays ==
  ASSUME Inv, Lasting, \A m \in Id : writer[m] # Nobody => writer'[m] = writer[m],
         held' \in [Places -> SUBSET Id], UNCHANGED cfg,
         NEW i \in DOMAIN cfg, NEW d \in Places, NEW id \in Id, Outlived(i, d, id)
  PROVE  Outlived(i, d, id)'
  <1>1. cfg[i].name \in Names /\ cfg[i].name # Nobody
    BY JobsOf, OwnershipAssumption DEF Inv, Typed, TypeOK
  <1>2. writer'[id] = cfg[i].name
    BY <1>1 DEF Outlived
  <1>3. PICK n : n = cfg[i].name
    OBVIOUS
  <1>4. Smart(n) => Succeeded(n, d, id)'
    BY <1>1, <1>3, SucceededStays DEF Outlived
  <1> QED
    BY <1>2, <1>3, <1>4 DEF Outlived, Smart

\* The lists of an actor that does not move.
LEMMA ListsStay ==
  ASSUME Inv, Lasting, \A m \in Id : writer[m] # Nobody => writer'[m] = writer[m],
         held' \in [Places -> SUBSET Id], UNCHANGED cfg,
         NEW a \in Actors, ListsOutlived(a), actor'[a] = actor[a]
  PROVE  ListsOutlived(a)'
  <1>1. PICK r : r = actor[a]
    OBVIOUS
  <1>2. /\ r.plan \subseteq Id /\ r.plans \in Seq(SUBSET Id) /\ r.at \in Places /\ r.job \in Nat
        /\ Position(a)
    BY <1>1 DEF Inv, Typed, Positions, TypeOK, Actor
  <1>3. \A n \in DOMAIN r.plans : r.plans[n] \subseteq Id /\ n \in Nat /\ n <= Len(r.plans) /\ n >= 1
    BY <1>2
  <1>4. Len(r.plans) \in Nat /\ Local \in Places /\ DOMAIN cfg = 1..Len(cfg) /\ Len(cfg) \in Nat
    BY <1>2, JobsOf DEF Places, Inv, Typed, TypeOK
  <1>5. ASSUME NEW id \in r.plan PROVE Outlived(r.job, r.at, id)'
    <2>1. r.job \in DOMAIN cfg
      BY <1>1, <1>2, <1>5 DEF Position
    <2>2. Outlived(r.job, r.at, id)
      BY <1>1 DEF ListsOutlived
    <2>3. PICK i, d : i = r.job /\ d = r.at
      OBVIOUS
    <2>4. Outlived(i, d, id)'
      BY <1>2, <2>1, <2>2, <2>3, OutlivedStays
    <2> QED
      BY <2>3, <2>4
  <1>6. ASSUME NEW n \in DOMAIN r.plans, NEW id \in r.plans[n]
        PROVE  Outlived(r.job + n, Local, id)'
    <2>1. a = Command /\ r.pc # "idle"
      <3>1. r.plans # <<>>
        BY <1>3, <1>4
      <3> QED
        BY <1>1, <1>2, <3>1 DEF Position
    <2>2. r.job \in DOMAIN cfg /\ r.job + Len(r.plans) = Len(cfg)
      BY <1>1, <1>2, <2>1 DEF Position
    <2>3. r.job + n \in DOMAIN cfg
      BY <1>2, <1>3, <1>4, <2>2
    <2>4. Outlived(r.job + n, Local, id)
      BY <1>1 DEF ListsOutlived
    <2>5. PICK i : i = r.job + n
      OBVIOUS
    <2>6. Outlived(i, Local, id)'
      BY <1>3, <1>4, <2>3, <2>4, <2>5, OutlivedStays
    <2> QED
      BY <2>5, <2>6
  <1> QED
    BY <1>1, <1>5, <1>6 DEF ListsOutlived

LEMMA RemainsStays ==
  ASSUME Inv, Lasting, Remains, held' \in [Places -> SUBSET Id],
         \A m \in Id : writer[m] # Nobody => writer'[m] = writer[m],
         NEW n \in Names, Smart(n), \E id \in Id : writer[id] = n
  PROVE  \E d \in Places : HasAt(n, d)'
  <1>1. PICK d \in Places : HasAt(n, d)
    BY DEF Remains
  <1>2. PICK y \in held[d] : writer[y] = n
    BY <1>1 DEF HasAt
  <1>3. y \in Id /\ n # Nobody
    BY OwnershipAssumption DEF Inv, Typed, TypeOK
  <1>4. CASE y \in held'[d]
    BY <1>2, <1>3, <1>4 DEF HasAt
  <1>5. CASE y \notin held'[d]
    <2>1. Succeeded(n, d, y)'
      BY <1>2, <1>5 DEF Lasting
    <2> QED
      BY <2>1 DEF Succeeded, HasAt, Offsite, Places
  <1> QED
    BY <1>4, <1>5

\* One actor moves; snapshots and markers may go, none comes, and no marker of a
\* snapshot that stays in the data dir.
LEMMA SurvivesMove ==
  ASSUME Inv, Surviving, Lasting, UNCHANGED <<cfg, writer>>,
         held' \in [Places -> SUBSET Id], \A d \in Places : held'[d] \subseteq held[d],
         \A id \in Id : marker'[id] = marker[id] \/ id \notin held'[Local],
         NEW a \in Actors, NEW r \in Actor, Becomes(a, r),
         a # Command => \/ r.drop = actor[a].drop
                        \/ r.drop = {} /\ actor[a].drop \cap held'[Local] = {},
         a # Command /\ r.pc = "idle" => r.drop = {},
         \A id \in r.plan : Outlived(r.job, r.at, id)',
         \A n \in DOMAIN r.plans : \A id \in r.plans[n] : Outlived(r.job + n, Local, id)'
  PROVE  Surviving'
  <1>1. /\ actor'[a] = r
        /\ \A b \in Actors : b # a => actor'[b] = actor[b]
        /\ Names \subseteq Actors /\ Command \notin Names
    BY SharedAssumption DEF Inv, Typed, TypeOK, Becomes, Actors
  <1>2. \A m \in Id : writer[m] # Nobody => writer'[m] = writer[m]
    OBVIOUS
  <1>3. ASSUME NEW n \in Names
        PROVE  \/ actor'[n].drop = actor[n].drop
               \/ actor'[n].drop = {} /\ actor[n].drop \cap held'[Local] = {}
    BY <1>1
  <1>4. PlainOnes'
    <2>1. ASSUME NEW id \in Id, id.slug = Plain, writer[id] # Nobody
          PROVE  /\ \E b \in Configs : Len(b) = 1 /\ b[1].name = writer[id]
                 /\ id \in held'[Local] /\ marker'[id] = Nobody =>
                      \/ Leaves(writer[id], Local)
                      \/ Len(cfg) <= 1 /\ id \in actor'[writer[id]].drop
      <3>1. \E b \in Configs : Len(b) = 1 /\ b[1].name = writer[id]
        BY <2>1 DEF Surviving, PlainOnes
      <3>2. ASSUME id \in held'[Local], marker'[id] = Nobody
            PROVE  \/ Leaves(writer[id], Local)
                   \/ Len(cfg) <= 1 /\ id \in actor'[writer[id]].drop
        <4>1. id \in held[Local] /\ marker[id] = Nobody
          BY <3>2 DEF Places
        <4>2. \/ Leaves(writer[id], Local)
              \/ Len(cfg) <= 1 /\ id \in actor[writer[id]].drop
          BY <2>1, <4>1 DEF Surviving, PlainOnes
        <4>3. writer[id] \in Names
          BY <2>1 DEF Inv, Typed, TypeOK
        <4> QED
          BY <1>3, <3>2, <4>2, <4>3
      <3> QED
        BY <3>1, <3>2
    <2> QED
      BY <2>1 DEF PlainOnes, Leaves
  <1>5. ASSUME NEW n \in Names PROVE DropsOwn(n)'
    <2>1. DropsOwn(n)
      BY DEF Surviving
    <2>2. actor'[n].pc = "idle" => actor'[n].drop = {}
      BY <1>1, <2>1 DEF DropsOwn
    <2>3. \A id \in actor'[n].drop : writer'[id] = n
      BY <1>3, <2>1 DEF DropsOwn
    <2>4. Smart(n) /\ actor'[n].drop # {} => Offsite(n)'
      BY <1>3, <2>1 DEF DropsOwn, Lasting
    <2> QED
      BY <2>2, <2>3, <2>4 DEF DropsOwn, Smart
  <1>6. ASSUME NEW b \in Actors PROVE ListsOutlived(b)'
    <2>1. CASE b = a
      BY <1>1, <2>1 DEF ListsOutlived, Outlived, Succeeded, Smart, Offsite, HasAt
    <2>2. CASE b # a
      BY <1>1, <1>2, <2>2, ListsStay DEF Surviving
    <2> QED
      BY <2>1, <2>2
  <1>7. Remains'
    <2>1. ASSUME NEW n \in Names, Smart(n), \E id \in Id : writer[id] = n
          PROVE  \E d \in Places : HasAt(n, d)'
      BY <1>2, <2>1, RemainsStays DEF Surviving
    <2> QED
      BY <2>1 DEF Remains, Smart
  <1> QED
    BY <1>4, <1>5, <1>6, <1>7 DEF Surviving

\* Nothing that is held, written or marked changes.
LEMMA SurvivesPlan ==
  ASSUME Inv, Surviving, UNCHANGED <<cfg, held, marker, writer>>,
         NEW a \in Actors, NEW r \in Actor, Becomes(a, r),
         a # Command => r.drop = actor[a].drop,
         a # Command /\ r.pc = "idle" => r.drop = {},
         \A id \in r.plan : Outlived(r.job, r.at, id),
         \A n \in DOMAIN r.plans : \A id \in r.plans[n] : Outlived(r.job + n, Local, id)
  PROVE  Surviving'
  <1>1. Lasting
    BY DEF Lasting, Offsite, HasAt
  <1>2. \A i, d, id : Outlived(i, d, id) => Outlived(i, d, id)'
    BY DEF Outlived, Smart, Succeeded, Offsite, HasAt
  <1>3. held' \in [Places -> SUBSET Id] /\ \A d \in Places : held'[d] \subseteq held[d]
    BY DEF Inv, Typed, TypeOK
  <1> QED
    BY <1>1, <1>2, <1>3, SurvivesMove

LEMMA ThinSurvives ==
  ASSUME NothingTakenOver, Inv, Authored, Surviving,
         NEW a \in Actors, NEW d \in Places, Thin(a, d)
  PROVE  Surviving'
  <1>1. PICK r : r = actor[a]
    OBVIOUS
  <1>2. /\ a # Command /\ r.pc = "thin"
        /\ Becomes(a, [r EXCEPT !.pc = "remove", !.queue = @ \ {d}, !.at = d,
                                !.plan = Prunable(cfg[r.job], Candidates(r, d))])
        /\ UNCHANGED <<cfg, now, held, marker, ran, writer>>
    BY <1>1 DEF Thin
  <1>3. r \in Actor /\ r.job \in DOMAIN cfg /\ r.plans = <<>>
    BY <1>1, <1>2 DEF Inv, Typed, TypeOK, Positions, Position
  <1>4. PICK ids : ids = Candidates(r, d)
    OBVIOUS
  <1>5. PICK plan : plan = Prunable(cfg[r.job], ids)
    OBVIOUS
  <1>6. ids \in SUBSET held[d] /\ plan \subseteq ids
    BY <1>4, <1>5, PrunableIsListed DEF Candidates
  <1>7. plan \in SUBSET Id
    BY <1>6 DEF Inv, Typed, TypeOK
  <1>8. \A id \in ids : writer[id] = cfg[r.job].name
    <2>1. CASE d = Local /\ r.only
      <3>1. \A id \in ids : id \in Id /\ marker[id] = cfg[r.job].name
        BY <1>4, <2>1 DEF Candidates, PendingOf
      <3>2. cfg[r.job].name # Nobody
        BY <1>3, JobsOf, OwnershipAssumption DEF Inv, Typed, TypeOK
      <3> QED
        BY <3>1, <3>2 DEF Authored, Signed
    <2>2. CASE ~ (d = Local /\ r.only)
      BY <1>3, <1>4, <2>2, OwnedIsMine DEF Candidates, Surviving
    <2> QED
      BY <2>1, <2>2
  <1>9. PICK q : q = [r EXCEPT !.pc = "remove", !.queue = @ \ {d}, !.at = d, !.plan = plan]
    OBVIOUS
  <1>10. /\ q \in Actor /\ q.pc = "remove" /\ q.job = r.job /\ q.at = d
         /\ q.plan = plan /\ q.plans = <<>> /\ q.drop = r.drop
    BY <1>3, <1>7, <1>9 DEF Actor
  <1>11. Becomes(a, q)
    BY <1>2, <1>4, <1>5, <1>9
  <1>12. \A id \in q.plan : Outlived(q.job, q.at, id)
    <2>1. PICK i : i = r.job
      OBVIOUS
    <2>2. \A id \in Prunable(cfg[i], ids) : Outlived(i, d, id)
      BY <1>3, <1>6, <1>8, <2>1, SelectedIsOutlived
    <2> QED
      BY <1>5, <1>10, <2>1, <2>2
  <1> QED
    BY <1>1, <1>2, <1>10, <1>11, <1>12, SurvivesPlan

LEMMA ThinnedSurvives ==
  ASSUME Inv, Surviving, NEW a \in Actors, Thinned(a)
  PROVE  Surviving'
  <1>1. PICK r : r = actor[a]
    OBVIOUS
  <1>2. /\ a # Command /\ r.pc = "remove" /\ r.plan = {}
        /\ Becomes(a, [r EXCEPT !.pc = "thin"])
        /\ UNCHANGED <<cfg, now, held, marker, ran, writer>>
    BY <1>1 DEF Thinned
  <1>3. r \in Actor /\ r.plans = <<>>
    BY <1>1, <1>2 DEF Inv, Typed, TypeOK, Positions, Position
  <1>4. PICK q : q = [r EXCEPT !.pc = "thin"]
    OBVIOUS
  <1>5. q \in Actor /\ q.pc = "thin" /\ q.plan = {} /\ q.plans = <<>> /\ q.drop = r.drop
    BY <1>2, <1>3, <1>4 DEF Actor
  <1>6. Becomes(a, q)
    BY <1>2, <1>4
  <1> QED
    BY <1>1, <1>2, <1>5, <1>6, SurvivesPlan

LEMMA FailsSurvives ==
  ASSUME Inv, Surviving, NEW a \in Actors, Fails(a)
  PROVE  Surviving'
  <1>1. PICK r : r = actor[a]
    OBVIOUS
  <1>2. UNCHANGED <<cfg, now, held, marker, ran, writer>>
    BY DEF Fails
  <1>3. r \in Actor /\ Position(a) /\ ListsOutlived(a)
    BY <1>1 DEF Inv, Typed, TypeOK, Positions, Surviving
  <1>4. CASE r.pc = "thin" /\ \E d \in r.queue : Becomes(a, [r EXCEPT !.queue = @ \ {d}])
    <2>1. PICK d \in r.queue : Becomes(a, [r EXCEPT !.queue = @ \ {d}])
      BY <1>4
    <2>2. PICK q : q = [r EXCEPT !.queue = @ \ {d}]
      OBVIOUS
    <2>3. /\ q \in Actor /\ q.pc = "thin" /\ q.job = r.job /\ q.at = r.at
          /\ q.plan = r.plan /\ q.plans = r.plans /\ q.drop = r.drop
      BY <1>3, <1>4, <2>2 DEF Actor
    <2>4. Becomes(a, q)
      BY <2>1, <2>2
    <2>5. /\ \A m \in q.plan : Outlived(q.job, q.at, m)
          /\ \A n \in DOMAIN q.plans : \A m \in q.plans[n] : Outlived(q.job + n, Local, m)
      BY <1>1, <1>3, <2>3 DEF ListsOutlived
    <2> QED
      BY <1>1, <1>2, <2>3, <2>4, <2>5, SurvivesPlan
  <1>5. CASE a = Command /\ Becomes(a, Resting)
    BY <1>2, <1>5, RestingIs, SurvivesPlan
  <1>6. CASE /\ a # Command /\ r.pc = "remove"
             /\ Becomes(a, [r EXCEPT !.pc = "thin", !.plan = {}])
    <2>1. PICK q : q = [r EXCEPT !.pc = "thin", !.plan = {}]
      OBVIOUS
    <2>2. r.plans = <<>>
      BY <1>1, <1>3, <1>6 DEF Position
    <2>3. q \in Actor /\ q.pc = "thin" /\ q.plan = {} /\ q.plans = <<>> /\ q.drop = r.drop
      BY <1>3, <2>1, <2>2 DEF Actor
    <2>4. Becomes(a, q)
      BY <1>6, <2>1
    <2> QED
      BY <1>1, <1>2, <1>6, <2>3, <2>4, SurvivesPlan
  <1> QED
    BY <1>1, <1>4, <1>5, <1>6 DEF Fails

\* What a run drops has a snapshot of its job in a bucket.
LEMMA RunEndsSurvives ==
  ASSUME Inv, Surviving, NEW a \in Actors, RunEnds(a)
  PROVE  Surviving'
  <1>1. /\ a # Command /\ a \in Names /\ Becomes(a, Resting)
        /\ held' = [held EXCEPT ![Local] = @ \ actor[a].drop]
        /\ UNCHANGED <<cfg, now, marker, ran, writer>>
    BY DEF RunEnds, Actors
  <1>2. /\ held' \in [Places -> SUBSET Id]
        /\ \A d \in Places : held'[d] \subseteq held[d]
        /\ held'[Local] = held[Local] \ actor[a].drop
        /\ \A d \in S3 : held'[d] = held[d]
    <2>1. held \in [Places -> SUBSET Id] /\ Local \in Places /\ Local \notin S3
      BY OwnershipAssumption DEF Inv, Typed, TypeOK, Places
    <2> QED
      BY <1>1, <2>1 DEF Places
  <1>3. \A n : Offsite(n) <=> Offsite(n)'
    BY <1>1, <1>2 DEF Offsite, HasAt
  <1>4. Lasting
    <2> SUFFICES ASSUME NEW n \in Names, Smart(n), NEW d \in Places, NEW y \in held[d],
                        writer[y] = n, y \notin held'[d]
                 PROVE  Succeeded(n, d, y)'
      BY <1>3 DEF Lasting
    <2>1. d = Local /\ y \in actor[a].drop
      BY <1>2 DEF Places
    <2>2. n = a /\ Offsite(n)
      BY <1>1, <2>1 DEF Surviving, DropsOwn
    <2> QED
      BY <1>3, <2>1, <2>2 DEF Succeeded
  <1>5. Resting.drop = {}
    BY DEF Resting
  <1>6. actor[a].drop \cap held'[Local] = {}
    BY <1>2
  <1>7. \A id \in Id : marker'[id] = marker[id]
    BY <1>1
  <1> QED
    BY <1>1, <1>2, <1>4, <1>5, <1>6, <1>7, RestingIs, SurvivesMove

\* A deletion leaves what outlived the snapshot.
LEMMA RemoveSurvives ==
  ASSUME Inv, Surviving, NEW a \in Actors, NEW id \in Id, Remove(a, id)
  PROVE  Surviving'
  <1>1. PICK r : r = actor[a]
    OBVIOUS
  <1>2. /\ r.pc = "remove" /\ id \in r.plan
        /\ held' = [held EXCEPT ![r.at] = @ \ {id}]
        /\ marker' = IF r.at = Local THEN [marker EXCEPT ![id] = Nobody] ELSE marker
        /\ Becomes(a, [r EXCEPT !.plan = @ \ {id}])
        /\ UNCHANGED <<cfg, now, ran, writer>>
    BY <1>1 DEF Remove
  <1>3. /\ r \in Actor /\ Position(a) /\ ListsOutlived(a) /\ r.at \in Places
        /\ r.job \in DOMAIN cfg /\ cfg \in Configs
    <2>1. r \in Actor /\ Position(a) /\ ListsOutlived(a) /\ cfg \in Configs
      BY <1>1 DEF Inv, Typed, TypeOK, Positions, Surviving
    <2> QED
      BY <1>1, <1>2, <2>1 DEF Actor, Position
  <1>4. PICK q : q = [r EXCEPT !.plan = @ \ {id}]
    OBVIOUS
  <1>5. /\ q \in Actor /\ q.pc = "remove" /\ q.job = r.job /\ q.at = r.at
        /\ q.plan \subseteq r.plan /\ q.plans = r.plans /\ q.drop = r.drop
    BY <1>2, <1>3, <1>4 DEF Actor
  <1>6. PICK w, n : w = r.at /\ n = cfg[r.job].name
    OBVIOUS
  <1>7. /\ held' \in [Places -> SUBSET Id] /\ \A d \in Places : held'[d] \subseteq held[d]
        /\ \A d \in Places : held'[d] = IF d = w THEN held[d] \ {id} ELSE held[d]
    BY <1>2, <1>3, <1>6 DEF Inv, Typed, TypeOK
  <1>8. \A m \in Id : marker'[m] = marker[m] \/ m \notin held'[Local]
    <2>1. CASE r.at = Local
      <3>1. marker' = [marker EXCEPT ![id] = Nobody]
        BY <1>2, <2>1
      <3>2. id \notin held'[Local]
        BY <1>3, <1>6, <1>7, <2>1
      <3> QED
        BY <3>1, <3>2 DEF Inv, Typed, TypeOK
    <2>2. CASE r.at # Local
      BY <1>2, <2>2
    <2> QED
      BY <2>1, <2>2
  <1>9. writer[id] = n /\ (Smart(n) => Succeeded(n, w, id)) /\ w \in Places
    BY <1>1, <1>2, <1>3, <1>6 DEF ListsOutlived, Outlived
  <1>10. Lasting
    <2>1. \A m, d : HasAt(m, d) /\ m # n /\ d \in Places => HasAt(m, d)'
      BY <1>2, <1>7, <1>9 DEF HasAt
    <2>2. ASSUME NEW y, NEW d \in Places, NEW k, y \in held[d], y.at > k, writer[y] = n,
                 y # id
          PROVE  y \in held'[d] /\ writer'[y] = n
      BY <1>2, <1>7, <2>2
    <2>3. id.at \in Int /\ \A y \in held[w] : y.at > id.at => y # id
      BY <1>9 DEF Id
    <2>4. ASSUME Smart(n), \E y \in held[w] : writer[y] = n /\ y.at > id.at
          PROVE  \E y \in held'[w] : writer'[y] = n /\ y.at > id.at
      BY <1>9, <2>2, <2>3, <2>4
    <2>5. ASSUME Smart(n), Offsite(n) PROVE Offsite(n)'
      <3>1. PICK d \in S3 : HasAt(n, d)
        BY <2>5 DEF Offsite
      <3>2. d \in Places /\ d # Local
        BY OwnershipAssumption DEF Places
      <3>3. CASE d = w
        <4>1. \E y \in held[w] : writer[y] = n /\ y.at > id.at
          BY <1>9, <2>5, <3>2, <3>3 DEF Succeeded
        <4> QED
          BY <2>4, <2>5, <3>3, <4>1 DEF Offsite, HasAt
      <3>4. CASE d # w
        BY <1>2, <1>7, <3>1, <3>2, <3>4 DEF Offsite, HasAt
      <3> QED
        BY <3>3, <3>4
    <2>6. ASSUME NEW m \in Names, Smart(m), Offsite(m) PROVE Offsite(m)'
      <3>1. CASE m = n
        BY <2>5, <2>6, <3>1
      <3>2. CASE m # n
        BY <2>1, <2>6, <3>2 DEF Offsite, Places
      <3> QED
        BY <3>1, <3>2
    <2>7. ASSUME NEW m \in Names, Smart(m), NEW d \in Places, NEW y \in held[d],
                 writer[y] = m, y \notin held'[d]
          PROVE  Succeeded(m, d, y)'
      <3>1. y = id /\ d = w /\ m = n
        BY <1>7, <1>9, <2>7
      <3>2. Succeeded(n, w, id)
        BY <1>9, <2>7, <3>1
      <3> QED
        BY <2>4, <2>5, <2>7, <3>1, <3>2 DEF Succeeded
    <2> QED
      BY <2>6, <2>7 DEF Lasting
  <1>11. \A m \in Id : writer[m] # Nobody => writer'[m] = writer[m]
    BY <1>2
  <1>12. ASSUME NEW m \in q.plan PROVE Outlived(q.job, q.at, m)'
    <2>1. Outlived(r.job, r.at, m) /\ m \in Id
      BY <1>1, <1>3, <1>5 DEF ListsOutlived, Actor
    <2>2. PICK i, d : i = r.job /\ d = r.at
      OBVIOUS
    <2>3. Outlived(i, d, m)'
      BY <1>2, <1>3, <1>7, <1>10, <1>11, <2>1, <2>2, OutlivedStays
    <2> QED
      BY <1>5, <2>2, <2>3
  <1>13. ASSUME NEW k \in DOMAIN q.plans, NEW m \in q.plans[k]
         PROVE  Outlived(q.job + k, Local, m)'
    <2>1. Outlived(r.job + k, Local, m)
      BY <1>1, <1>3, <1>5 DEF ListsOutlived
    <2>2. m \in Id /\ Local \in Places /\ r.job + k \in DOMAIN cfg
      <3>1. r.plans \in Seq(SUBSET Id) /\ k \in DOMAIN r.plans
        BY <1>3, <1>5 DEF Actor
      <3>2. k \in 1..Len(r.plans) /\ Len(r.plans) \in Nat /\ r.plans[k] \in SUBSET Id
        BY <3>1
      <3>3. a = Command
        BY <1>1, <1>3, <3>2 DEF Position
      <3>4. r.job + Len(r.plans) = Len(cfg) /\ DOMAIN cfg = 1..Len(cfg) /\ Len(cfg) \in Nat
        BY <1>1, <1>2, <1>3, <3>3, JobsOf DEF Position
      <3>5. r.job \in Nat
        BY <1>3 DEF Actor
      <3> QED
        BY <1>3, <1>5, <3>2, <3>4, <3>5 DEF Places
    <2>3. PICK i : i = r.job + k
      OBVIOUS
    <2>4. Outlived(i, Local, m)'
      BY <1>2, <1>7, <1>10, <1>11, <2>1, <2>2, <2>3, OutlivedStays
    <2> QED
      BY <1>5, <2>3, <2>4
  <1>14. Becomes(a, q)
    BY <1>2, <1>4
  <1> QED
    BY <1>1, <1>2, <1>5, <1>7, <1>8, <1>10, <1>12, <1>13, <1>14, SurvivesMove

LEMMA PruneCommandSurvives ==
  ASSUME NothingTakenOver, Inv, Authored, Surviving, PruneCommand
  PROVE  Surviving'
  <1>1. PICK n : n = Len(cfg)
    OBVIOUS
  <1>2. n \in Nat /\ n # 0 /\ 1 \in DOMAIN cfg /\ DOMAIN cfg = 1..n
    BY <1>1, JobsOf DEF PruneCommand, Inv, Typed, TypeOK, JobSeq
  <1>3. PICK first, plans : first = PlanOf(1) /\ plans = [i \in 1..(n - 1) |-> PlanOf(i + 1)]
    OBVIOUS
  <1>4. PICK q : q = [Resting EXCEPT !.pc = "remove", !.job = 1, !.plan = first, !.plans = plans]
    OBVIOUS
  <1>5. /\ q.pc = "remove" /\ q.job = 1 /\ q.at = Local /\ q.plan = first /\ q.plans = plans
    BY <1>4 DEF Resting
  <1>6. /\ Becomes(Command, q)
        /\ UNCHANGED <<cfg, now, held, marker, ran, writer>>
    BY <1>1, <1>3, <1>4 DEF PruneCommand
  <1>7. \A id \in q.plan : Outlived(q.job, q.at, id)
    BY <1>2, <1>3, <1>5, PlanIsOutlived DEF Surviving
  <1>8. ASSUME NEW i \in DOMAIN q.plans, NEW id \in q.plans[i]
        PROVE  Outlived(q.job + i, Local, id)
    <2>1. i \in 1..(n - 1) /\ id \in PlanOf(i + 1)
      BY <1>3, <1>5
    <2>2. PICK k : k = i + 1
      OBVIOUS
    <2>3. k \in DOMAIN cfg /\ q.job + i = k
      BY <1>2, <1>5, <2>1, <2>2
    <2>4. Outlived(k, Local, id)
      BY <2>1, <2>2, <2>3, PlanIsOutlived DEF Surviving
    <2> QED
      BY <2>3, <2>4
  <1>9. Command \in Actors /\ q \in Actor
    <2>1. plans \in Seq(SUBSET Id)
      <3>1. \A i \in 1..(n - 1) : PlanOf(i + 1) \in SUBSET Id
        BY PlanType DEF Inv, Typed
      <3>2. n - 1 \in Nat
        BY <1>2
      <3>3. plans \in [1..(n - 1) -> SUBSET Id]
        BY <1>3, <3>1
      <3> QED
        BY <3>2, <3>3, SeqDef
    <2>2. first \in SUBSET Id
      BY <1>3, PlanType DEF Inv, Typed
    <2> QED
      BY <1>4, <2>1, <2>2, RestingIs DEF Actor, Actors
  <1> QED
    BY <1>6, <1>7, <1>8, <1>9, SurvivesPlan

LEMMA PruneNextJobSurvives ==
  ASSUME Inv, Surviving, PruneNextJob
  PROVE  Surviving'
  <1>1. PICK r : r = actor[Command]
    OBVIOUS
  <1>2. /\ r.pc = "remove" /\ r.plan = {} /\ r.plans # <<>>
        /\ Becomes(Command, [r EXCEPT !.job = @ + 1, !.plan = Head(r.plans),
                                      !.plans = Tail(r.plans)])
        /\ UNCHANGED <<cfg, now, held, marker, ran, writer>>
    BY <1>1 DEF PruneNextJob
  <1>3. Command \in Actors
    BY DEF Actors
  <1>4. r \in Actor /\ Position(Command) /\ ListsOutlived(Command)
    BY <1>1, <1>3 DEF Inv, Typed, TypeOK, Positions, Surviving
  <1>5. /\ r.at = Local
        /\ \A n \in DOMAIN r.plans : \A id \in r.plans[n] : Outlived(r.job + n, Local, id)
    BY <1>1, <1>2, <1>4 DEF Position, ListsOutlived
  <1>6. PICK plan, rest : plan = Head(r.plans) /\ rest = Tail(r.plans)
    OBVIOUS
  <1>7. r.plans \in Seq(SUBSET Id) /\ r.job \in Nat
    BY <1>4 DEF Actor
  <1>8. /\ plan \in SUBSET Id /\ rest \in Seq(SUBSET Id)
        /\ 1 \in DOMAIN r.plans /\ plan = r.plans[1]
        /\ \A n \in DOMAIN rest : n \in Nat /\ n + 1 \in DOMAIN r.plans /\ rest[n] = r.plans[n + 1]
    BY <1>2, <1>6, <1>7
  <1>9. PICK q : q = [r EXCEPT !.job = @ + 1, !.plan = plan, !.plans = rest]
    OBVIOUS
  <1>10. /\ q.pc = "remove" /\ q.job = r.job + 1 /\ q.at = Local
         /\ q.plan = plan /\ q.plans = rest
         /\ q.queue = r.queue /\ q.only = r.only /\ q.drop = r.drop
    BY <1>2, <1>4, <1>5, <1>9 DEF Actor
  <1>11. Becomes(Command, q)
    BY <1>2, <1>6, <1>9
  <1>12. \A id \in q.plan : Outlived(q.job, q.at, id)
    BY <1>5, <1>8, <1>10
  <1>13. ASSUME NEW n \in DOMAIN q.plans, NEW id \in q.plans[n]
         PROVE  Outlived(q.job + n, Local, id)
    <2>1. n \in Nat /\ n + 1 \in DOMAIN r.plans /\ id \in r.plans[n + 1]
      BY <1>8, <1>10
    <2>2. Outlived(r.job + (n + 1), Local, id)
      BY <1>5, <2>1
    <2>3. q.job + n = r.job + (n + 1)
      <3>1. PICK k : k = r.job
        OBVIOUS
      <3>2. k \in Nat /\ q.job = k + 1
        BY <1>7, <1>10, <3>1
      <3>3. (k + 1) + n = k + (n + 1)
        BY <2>1, <3>2
      <3> QED
        BY <3>1, <3>2, <3>3
    <2> QED
      BY <2>2, <2>3
  <1>14. q \in Actor
    <2>1. r.job + 1 \in Nat
      BY <1>7
    <2> QED
      BY <1>2, <1>4, <1>8, <1>9, <2>1 DEF Actor
  <1> QED
    BY <1>2, <1>3, <1>11, <1>12, <1>13, <1>14, SurvivesPlan

LEMMA PruneEndsSurvives ==
  ASSUME Inv, Surviving, PruneEnds
  PROVE  Surviving'
  <1>1. Command \in Actors
    BY DEF Actors
  <1> QED
    BY <1>1, RestingIs, SurvivesPlan DEF PruneEnds

\* What the i-th job's run leaves in the buckets, in the data dir and of the
\* markers, when its snapshot id reaches the buckets up.
Landed(i, j, id, up) ==
  /\ \A d \in S3 : held[d] \subseteq held'[d] /\ (d \in up => id \in held'[d])
  /\ \A m \in held[Local] :
       m \notin held'[Local] => up # {} /\ m \in PendingOf(j)
  /\ \A m \in held'[Local] :
       \/ m \in held[Local] /\ (up # {} /\ m \in PendingOf(j) => KeepsLocal(j))
       \/ m = id /\ (j.local \/ up = {})
  /\ up = {} => id \in held'[Local]
  /\ up = {} /\ j.s3 # {} => marker'[id] = j.name
  /\ \A m \in Id : marker'[m] = Nobody =>
       marker[m] = Nobody \/ (up # {} /\ m \in PendingOf(j))
  /\ \E q, o : Becomes(j.name, ThinningRun(i, q, o,
       IF ~j.keep_local /\ j.local /\ up # {} THEN {id} ELSE {}))

LEMMA Leaving ==
  ASSUME Typed, NEW i \in DOMAIN cfg, BackUp(i),
         NEW j, NEW id, j = cfg[i], id = NewId(cfg, j, now)
  PROVE  \E up \in SUBSET j.s3 : Landed(i, j, id, up)
  <1> DEFINE pend == PendingOf(j) \cap held[Local]
  <1>1. id \in Id /\ j.name # Nobody
    BY NewIdType, JobsOf, OwnershipAssumption DEF Typed, TypeOK
  <1> DEFINE jj == cfg[i]
             ii == NewId(cfg, jj, now)
  <1>2. PICK up \in SUBSET jj.s3 :
          LET copies == up \cup (IF jj.local \/ up = {} THEN {Local} ELSE {})
              gone   == IF up # {} /\ ~KeepsLocal(jj) THEN (PendingOf(jj) \cap held[Local]) ELSE {}
          IN  /\ held' = [d \in Places |->
                            CASE d = Local -> (held[d] \ gone) \cup (IF d \in copies THEN {ii} ELSE {})
                              [] d \in up  -> held[d] \cup (PendingOf(jj) \cap held[Local]) \cup {ii}
                              [] OTHER     -> held[d]]
              /\ marker' = IF up # {}
                           THEN [m \in Id |-> IF m \in PendingOf(jj) THEN Nobody ELSE marker[m]]
                           ELSE IF jj.s3 # {} THEN [marker EXCEPT ![ii] = jj.name]
                           ELSE marker
              /\ Becomes(jj.name, ThinningRun(i, jj.s3 \cup copies, Local \notin JobPlaces(jj),
                   IF ~jj.keep_local /\ jj.local /\ up # {} THEN {ii} ELSE {}))
    BY Zenon DEF BackUp, jj, ii
  <1>a. jj = j /\ ii = id
    OBVIOUS
  <1>b. up \in SUBSET j.s3
    BY <1>2, <1>a
  <1>c. held' = [d \in Places |->
                   CASE d = Local -> (held[d] \ (IF up # {} /\ ~KeepsLocal(j) THEN pend ELSE {}))
                                       \cup (IF d \in up \cup (IF j.local \/ up = {} THEN {Local} ELSE {})
                                             THEN {id} ELSE {})
                     [] d \in up  -> held[d] \cup pend \cup {id}
                     [] OTHER     -> held[d]]
    BY <1>2, <1>a
  <1>d. marker' = IF up # {}
                  THEN [m \in Id |-> IF m \in PendingOf(j) THEN Nobody ELSE marker[m]]
                  ELSE IF j.s3 # {} THEN [marker EXCEPT ![id] = j.name]
                  ELSE marker
    BY <1>2, <1>a
  <1>e. \E q, o : Becomes(j.name, ThinningRun(i, q, o,
           IF ~j.keep_local /\ j.local /\ up # {} THEN {id} ELSE {}))
    BY <1>2, <1>a
  <1>3. Local \in Places /\ marker \in [Id -> Names \cup {Nobody}] /\ Local \notin up
    <2>1. j.s3 \in SUBSET S3
      BY JobsOf DEF Job, Typed, TypeOK
    <2> QED
      BY <2>1, OwnershipAssumption DEF Places, Typed, TypeOK
  <1>4. ASSUME NEW d \in S3
        PROVE  held[d] \subseteq held'[d] /\ (d \in up => id \in held'[d])
    <2>1. d \in Places /\ d # Local
      BY OwnershipAssumption DEF Places
    <2> QED
      BY <1>c, <2>1
  <1>5. held'[Local] = (held[Local] \ (IF up # {} /\ ~KeepsLocal(j) THEN pend ELSE {}))
                         \cup (IF j.local \/ up = {} THEN {id} ELSE {})
    <2>1. Local \in up \cup (IF j.local \/ up = {} THEN {Local} ELSE {}) <=> j.local \/ up = {}
      BY <1>3
    <2>2. held'[Local] =
            (held[Local] \ (IF up # {} /\ ~KeepsLocal(j) THEN pend ELSE {}))
              \cup (IF Local \in up \cup (IF j.local \/ up = {} THEN {Local} ELSE {})
                    THEN {id} ELSE {})
      BY <1>c, <1>3
    <2> QED
      BY <2>1, <2>2
  <1>6. ASSUME NEW m \in held[Local], m \notin held'[Local]
        PROVE  up # {} /\ m \in PendingOf(j)
    BY <1>5, <1>6
  <1>7. ASSUME NEW m \in held'[Local]
        PROVE  \/ m \in held[Local] /\ (up # {} /\ m \in PendingOf(j) => KeepsLocal(j))
               \/ m = id /\ (j.local \/ up = {})
    BY <1>5, <1>7
  <1>8. up = {} => id \in held'[Local]
    BY <1>5
  <1>9. up = {} /\ j.s3 # {} => marker'[id] = j.name
    BY <1>1, <1>d, <1>3
  <1>10. ASSUME NEW m \in Id, marker'[m] = Nobody
         PROVE  marker[m] = Nobody \/ (up # {} /\ m \in PendingOf(j))
    <2>1. CASE up # {}
      BY <1>d, <1>10, <2>1
    <2>2. CASE up = {}
      BY <1>1, <1>d, <1>3, <1>10, <2>2
    <2> QED
      BY <2>1, <2>2
  <1> QED
    BY <1>b, <1>4, <1>6, <1>7, <1>8, <1>9, <1>10, <1>e DEF Landed

LEMMA BackUpSurvives ==
  ASSUME NothingTakenOver, Inv, Authored, Surviving, NEW i \in DOMAIN cfg, BackUp(i)
  PROVE  Surviving'
  <1>1. PICK j, id : j = cfg[i] /\ id = NewId(cfg, j, now)
    OBVIOUS
  <1>2. /\ id \in Id /\ j.name \in Names /\ j.name # Nobody
        /\ writer[id] \in {Nobody, j.name} /\ writer'[id] = j.name
        /\ \A m \in Id : m # id => writer'[m] = writer[m]
        /\ cfg \in Configs /\ Len(cfg) \in Nat /\ i \in 1..Len(cfg)
    BY <1>1, OwnId, JobsOf, OwnershipAssumption DEF Authored, Inv, Typed, TypeOK
  <1>3. cfg' = cfg /\ actor[j.name].pc = "idle"
    BY <1>1 DEF BackUp
  <1>4. /\ \A m \in Id : writer[m] # Nobody => writer'[m] = writer[m]
        /\ held' \in [Places -> SUBSET Id]
    <2>1. TypeOK'
      BY BackUpTyped DEF Inv, Typed
    <2> QED
      BY <1>2, <2>1 DEF TypeOK
  <1>p. PICK up \in SUBSET j.s3 : Landed(i, j, id, up)
    <2>1. Typed /\ j = cfg[i] /\ id = NewId(cfg, j, now)
      BY <1>1 DEF Inv
    <2> QED
      BY <2>1, Leaving
  <1>5. /\ \A d \in S3 : held[d] \subseteq held'[d] /\ (d \in up => id \in held'[d])
        /\ \A m \in held[Local] :
             m \notin held'[Local] => up # {} /\ m \in PendingOf(j)
        /\ \A m \in held'[Local] :
             \/ m \in held[Local] /\ (up # {} /\ m \in PendingOf(j) => KeepsLocal(j))
             \/ m = id /\ (j.local \/ up = {})
        /\ up = {} => id \in held'[Local]
        /\ up = {} /\ j.s3 # {} => marker'[id] = j.name
        /\ \A m \in Id : marker'[m] = Nobody =>
             marker[m] = Nobody \/ (up # {} /\ m \in PendingOf(j))
        /\ \E q, o : Becomes(j.name, ThinningRun(i, q, o,
             IF ~j.keep_local /\ j.local /\ up # {} THEN {id} ELSE {}))
    BY <1>p DEF Landed
  <1>6. j.s3 \subseteq S3 /\ Local \in Places /\ \A d \in Places : held[d] \subseteq Id
    <2>1. j \in Job
      BY <1>1, <1>2, JobsOf
    <2> QED
      BY <2>1 DEF Job, Places, Inv, Typed, TypeOK
  <1>7. up # {} => Offsite(j.name)'
    BY <1>2, <1>5, <1>6 DEF Offsite, HasAt
  <1>8. PICK x : x = IF ~j.keep_local /\ j.local /\ up # {} THEN {id} ELSE {}
    OBVIOUS
  <1>9. /\ actor'[j.name].drop = x /\ actor'[j.name].pc = "thin"
        /\ actor'[j.name].plan = {} /\ actor'[j.name].plans = <<>>
        /\ \A b \in Actors : b # j.name => actor'[b] = actor[b]
    <2>1. PICK q, o : Becomes(j.name, ThinningRun(i, q, o, x))
      BY <1>5, <1>8
    <2> QED
      BY <1>2, <2>1 DEF Becomes, ThinningRun, Actors, Inv, Typed, TypeOK
  <1>10. \A m \in Id : m \in PendingOf(j) => writer[m] = j.name
    BY <1>2 DEF Authored, Signed, PendingOf
  <1>11. Lasting
    <2>1. ASSUME NEW n \in Names, Offsite(n) PROVE Offsite(n)'
      <3>1. PICK d \in S3 : \E y \in held[d] : writer[y] = n
        BY <2>1 DEF Offsite, HasAt
      <3>2. PICK y \in held[d] : writer[y] = n
        BY <3>1
      <3>3. y \in Id /\ n # Nobody
        BY <1>6, OwnershipAssumption DEF Places
      <3> QED
        BY <1>4, <1>5, <3>2, <3>3 DEF Offsite, HasAt
    <2>2. ASSUME NEW n \in Names, NEW d \in Places, NEW y \in held[d],
                 writer[y] = n, y \notin held'[d]
          PROVE  Succeeded(n, d, y)'
      <3>1. d = Local
        BY <1>5, <2>2 DEF Places
      <3>2. up # {} /\ y \in PendingOf(j) /\ y \in Id
        BY <1>5, <1>6, <2>2, <3>1
      <3>3. n = j.name
        BY <1>10, <2>2, <3>2
      <3> QED
        BY <1>7, <3>1, <3>2, <3>3 DEF Succeeded
    <2> QED
      BY <2>1, <2>2 DEF Lasting
  <1>12. PlainOnes'
    <2>1. ASSUME NEW m \in Id, m.slug = Plain, writer'[m] # Nobody
          PROVE  \E b \in Configs : Len(b) = 1 /\ b[1].name = writer'[m]
      <3>1. CASE writer[m] # Nobody
        BY <1>4, <2>1, <3>1 DEF Surviving, PlainOnes
      <3>2. CASE writer[m] = Nobody
        <4>1. m = id
          BY <1>2, <2>1, <3>2
        <4>2. ~ (Len(cfg) > 1)
          <5>1. Slug[j.name] # Plain
            BY <1>2, OwnershipAssumption
          <5> QED
            BY <1>1, <2>1, <4>1, <5>1 DEF NewId
        <4>3. Len(cfg) = 1 /\ i = 1
          <5>1. PICK n : n = Len(cfg)
            OBVIOUS
          <5>2. n \in Nat /\ ~ (n > 1) /\ i \in 1..n
            BY <1>2, <4>2, <5>1
          <5>3. n = 1 /\ i = 1
            BY <5>2
          <5> QED
            BY <5>1, <5>3
        <4> QED
          BY <1>1, <1>2, <4>1, <4>3
      <3> QED
        BY <3>1, <3>2
    <2>2. ASSUME NEW m \in Id, m.slug = Plain, writer'[m] # Nobody,
                 m \in held'[Local], marker'[m] = Nobody
          PROVE  \/ Leaves(writer'[m], Local)
                 \/ Len(cfg) <= 1 /\ m \in actor'[writer'[m]].drop
      <3>1. marker[m] = Nobody \/ (up # {} /\ m \in PendingOf(j))
        BY <1>5, <2>2
      <3>2. CASE m \in held[Local] /\ (up # {} /\ m \in PendingOf(j) => KeepsLocal(j))
        <4>1. writer[m] # Nobody /\ writer'[m] = writer[m] /\ writer[m] \in Names
          BY <1>4, <1>6, <3>2 DEF Inv, Typed, TypeOK
        <4>2. CASE marker[m] = Nobody
          <5>1. \/ Leaves(writer[m], Local)
                \/ Len(cfg) <= 1 /\ m \in actor[writer[m]].drop
            BY <2>2, <3>2, <4>1, <4>2 DEF Surviving, PlainOnes
          <5>2. m \in actor[writer[m]].drop => writer[m] # j.name
            BY <1>2, <1>3 DEF Surviving, DropsOwn
          <5> QED
            BY <1>9, <4>1, <5>1, <5>2 DEF Actors
        <4>3. CASE up # {} /\ m \in PendingOf(j)
          <5>1. writer[m] = j.name /\ KeepsLocal(j)
            BY <1>10, <3>2, <4>3
          <5> QED
            BY <1>1, <1>2, <4>1, <5>1 DEF Leaves
        <4> QED
          BY <3>1, <4>2, <4>3
      <3>3. CASE m = id /\ (j.local \/ up = {})
        <4>1. CASE up = {}
          <5>1. j.s3 = {}
            BY <1>2, <1>5, <2>2, <3>3, <4>1
          <5> QED
            BY <1>1, <1>2, <3>3, <5>1 DEF Leaves
        <4>2. CASE up # {} /\ j.keep_local
          BY <1>1, <1>2, <3>3, <4>2 DEF Leaves, KeepsLocal
        <4>3. CASE up # {} /\ ~ j.keep_local
          <5>1. m \in actor'[writer'[m]].drop
            BY <1>2, <1>8, <1>9, <3>3, <4>3
          <5>2. Len(cfg) <= 1
            <6>1. Slug[j.name] # Plain
              BY <1>2, OwnershipAssumption
            <6>2. ~ (Len(cfg) > 1)
              BY <1>1, <2>2, <3>3, <6>1 DEF NewId
            <6>3. PICK n : n = Len(cfg)
              OBVIOUS
            <6>4. n <= 1
              BY <1>2, <6>2, <6>3
            <6> QED
              BY <6>3, <6>4
          <5> QED
            BY <5>1, <5>2
        <4> QED
          BY <4>1, <4>2, <4>3
      <3> QED
        BY <1>5, <2>2, <3>2, <3>3
    <2> QED
      BY <1>3, <2>1, <2>2 DEF PlainOnes, Leaves
  <1>13. ASSUME NEW n \in Names PROVE DropsOwn(n)'
    <2>1. CASE n = j.name
      BY <1>2, <1>7, <1>8, <1>9, <2>1 DEF DropsOwn, Smart
    <2>2. CASE n # j.name
      <3>1. actor'[n] = actor[n] /\ DropsOwn(n) /\ n # Nobody
        BY <1>9, <2>2, OwnershipAssumption DEF Actors, Surviving
      <3>2. actor[n].drop \subseteq Id
        BY DEF Inv, Typed, TypeOK, Actor, Actors
      <3>3. \A m \in actor'[n].drop : writer'[m] = n
        BY <1>4, <3>1, <3>2 DEF DropsOwn
      <3>4. actor'[n].drop # {} /\ Smart(n) => Offsite(n)'
        BY <1>11, <3>1 DEF DropsOwn, Lasting
      <3> QED
        BY <3>1, <3>3, <3>4 DEF DropsOwn, Smart
    <2> QED
      BY <2>1, <2>2
  <1>14. ASSUME NEW b \in Actors PROVE ListsOutlived(b)'
    <2>1. CASE b = j.name
      BY <1>9, <2>1 DEF ListsOutlived
    <2>2. CASE b # j.name
      BY <1>3, <1>4, <1>9, <1>11, <2>2, ListsStay DEF Surviving
    <2> QED
      BY <2>1, <2>2
  <1>15. Remains'
    <2>1. ASSUME NEW n \in Names, Smart(n), NEW m \in Id, writer'[m] = n
          PROVE  \E d \in Places : HasAt(n, d)'
      <3>1. CASE n = j.name
        <4>1. up = {} => HasAt(n, Local)'
          BY <1>2, <1>5, <3>1 DEF HasAt
        <4> QED
          BY <1>6, <1>7, <3>1, <4>1 DEF Offsite, Places
      <3>2. CASE n # j.name
        <4>1. writer[m] = n
          BY <1>2, <2>1, <3>2
        <4> QED
          BY <1>4, <1>11, <2>1, <4>1, RemainsStays DEF Surviving
      <3> QED
        BY <3>1, <3>2
    <2> QED
      BY <2>1 DEF Remains, Smart
  <1> QED
    BY <1>12, <1>13, <1>14, <1>15 DEF Surviving

LEMMA SurvivingInit == Init => Surviving
  <1> SUFFICES ASSUME Init PROVE Surviving
    OBVIOUS
  <1>1. \A id \in Id : writer[id] = Nobody
    BY DEF Init, NoMarks
  <1>2. PlainOnes
    BY <1>1 DEF PlainOnes
  <1>3. \A n \in Names : DropsOwn(n)
    BY DEF Init, DropsOwn, Resting, Actors
  <1>4. \A a \in Actors : ListsOutlived(a)
    BY DEF Init, ListsOutlived, Resting
  <1>5. Remains
    BY <1>1, OwnershipAssumption DEF Remains
  <1> QED
    BY <1>2, <1>3, <1>4, <1>5 DEF Surviving

\* The daemon starts again with nothing under way.
LEMMA ReconfigureSurvives ==
  ASSUME Inv, Surviving, Reconfigure
  PROVE  Surviving'
  <1>1. /\ UNCHANGED <<held, marker, actor, writer>>
        /\ \A a \in Actors : actor[a].pc = "idle"
    BY DEF Reconfigure
  <1>2. \A a \in Actors : actor[a].plan = {} /\ actor[a].plans = <<>>
    BY <1>1 DEF Inv, Typed, Positions, Position
  <1>3. \A n \in Names : actor[n].drop = {}
    BY <1>1 DEF Surviving, DropsOwn, Actors
  <1>4. \A id \in Id : writer[id] # Nobody => writer[id] \in Names
    BY DEF Inv, Typed, TypeOK
  <1>5. PlainOnes'
    BY <1>1, <1>3, <1>4 DEF Surviving, PlainOnes, Leaves
  <1>6. \A n \in Names : DropsOwn(n)'
    BY <1>1, <1>3 DEF DropsOwn
  <1>7. \A a \in Actors : ListsOutlived(a)'
    BY <1>1, <1>2 DEF ListsOutlived
  <1>8. Remains'
    BY <1>1 DEF Surviving, Remains, HasAt, Smart
  <1> QED
    BY <1>5, <1>6, <1>7, <1>8 DEF Surviving

LEMMA TickSurvives ==
  ASSUME Surviving, UNCHANGED <<cfg, held, marker, actor, writer>>
  PROVE  Surviving'
  <1>1. PlainOnes' /\ Remains'
    BY DEF Surviving, PlainOnes, Leaves, Remains, HasAt, Smart
  <1>2. \A n \in Names : DropsOwn(n)'
    BY DEF Surviving, DropsOwn, Offsite, HasAt, Smart
  <1>3. \A a \in Actors : ListsOutlived(a)'
    BY DEF Surviving, ListsOutlived, Outlived, Succeeded, Offsite, HasAt, Smart
  <1> QED
    BY <1>1, <1>2, <1>3 DEF Surviving

LEMMA SurvivingStep ==
  ASSUME NothingTakenOver, Inv, Authored, Surviving, [Next]_vars
  PROVE  Surviving'
  <1>1. CASE Tick \/ UNCHANGED vars
    BY <1>1, TickSurvives DEF Tick, vars
  <1>2. CASE Reconfigure
    BY <1>2, ReconfigureSurvives
  <1>3. CASE \E i \in DOMAIN cfg : BackUp(i)
    BY <1>3, BackUpSurvives
  <1>4. CASE \E a \in Actors, d \in Places : Thin(a, d)
    BY <1>4, ThinSurvives
  <1>5. CASE \E a \in Actors, id \in Id : Remove(a, id)
    BY <1>5, RemoveSurvives
  <1>6. CASE \E a \in Actors : Thinned(a) \/ Fails(a) \/ RunEnds(a)
    BY <1>6, ThinnedSurvives, FailsSurvives, RunEndsSurvives
  <1>7. CASE PruneCommand \/ PruneNextJob \/ PruneEnds
    BY <1>7, PruneCommandSurvives, PruneNextJobSurvives, PruneEndsSurvives
  <1> QED
    BY <1>1, <1>2, <1>3, <1>4, <1>5, <1>6, <1>7 DEF Next

(***************************************************************************)
(* A configured job with smart_last that ever stored a snapshot has one,   *)
(* whatever runs, prunes, failures and restarts of any number of jobs      *)
(* interleave, while no job takes over another's snapshots: the slugs of   *)
(* all jobs differ, none has its smart_last switched, and the one whose    *)
(* ids are plain stays the first where it leaves them.                     *)
(***************************************************************************)
THEOREM BackupRemains ==
  ASSUME NothingTakenOver
  PROVE  Spec => []JobKeepsBackup
  <1>1. Init => Surviving
    BY SurvivingInit
  <1>2. Inv /\ Authored /\ Surviving /\ [Next]_vars => Surviving'
    BY SurvivingStep
  <1>3. Inv /\ Surviving => JobKeepsBackup
    <2> SUFFICES ASSUME Inv, Surviving, NEW i \in DOMAIN cfg,
                        cfg[i].retention.smart_last, NEW id \in Id,
                        writer[id] = cfg[i].name
                 PROVE  \E d \in Places : \E m \in held[d] : writer[m] = cfg[i].name
      BY DEF JobKeepsBackup
    <2>1. cfg \in Configs /\ cfg[i].name \in Names
      BY JobsOf DEF Inv, Typed, TypeOK
    <2>2. Smart(cfg[i].name)
      BY <2>1 DEF Smart, NothingTakenOver, SteadySmart
    <2> QED
      BY <2>1, <2>2 DEF Surviving, Remains, HasAt
  <1> QED
    BY <1>1, <1>2, <1>3, AlwaysInv, AlwaysAuthored, PTL DEF Spec
=============================================================================
