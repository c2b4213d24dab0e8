--------------------------- MODULE Daemon_proofs ---------------------------
(* What every run of the daemon and of `create` leaves behind, and what      *)
(* their ends tell, for every list of jobs, levels and channels.             *)
EXTENDS Daemon, TLAPS

(* Fields of a run after the assignments its steps make.                     *)

LEMMA SetPc ==
  ASSUME NEW r \in Run, NEW x \in Calls, NEW q, q = [r EXCEPT !.pc = x]
  PROVE  /\ q \in Run /\ q.pc = x
         /\ q.made = r.made /\ q.status = r.status /\ q.aborted = r.aborted
         /\ q.raised = r.raised /\ q.lost = r.lost /\ q.stuck = r.stuck /\ q.killed = r.killed
         /\ q.recorded = r.recorded /\ q.sent = r.sent /\ q.reached = r.reached
BY DEF Run

LEMMA SetKilled ==
  ASSUME NEW q, q = [NoRun EXCEPT !.pc = "ended", !.killed = TRUE]
  PROVE  /\ q \in Run /\ q.pc = "ended" /\ q.killed
         /\ ~q.made /\ ~q.aborted /\ ~q.raised /\ q.sent = 0
BY DEF NoRun, Run, Calls, Statuses

LEMMA AfterIs ==
  ASSUME NEW r \in Run
  PROVE  /\ r.aborted =>
              /\ r.pc = "record" => After(r) = "alert"
              /\ r.pc = "alert"  => After(r) = "rmtree"
              /\ r.pc = "rmtree" => After(r) = "rmdir"
              /\ r.pc = "rmdir"  => After(r) = "ended"
         /\ ~r.aborted =>
              /\ r.pc = "rmtree" => After(r) = "rmdir"
              /\ r.pc = "rmdir"  => After(r) = "record"
              /\ r.pc = "record" => After(r) = "alert"
              /\ r.pc = "alert"  => After(r) = "post_backup"
              /\ r.pc = "post_backup" => After(r) = "ended"
BY DEF After

LEMMA NewRun ==
  /\ NoRun \in Run /\ NoRun.pc = "none" /\ ~NoRun.made /\ ~NoRun.aborted /\ ~NoRun.raised
  /\ ~NoRun.killed /\ NoRun.sent = 0
BY DEF NoRun, Run, Calls, Statuses

-----------------------------------------------------------------------------
(* How far run r of entry e is, as far as D, the work dirs there are.        *)
Early == {"none", "mkdir", "mkdir_parent", "mkdir_again"}
ByItself(r) == r.pc = "ended" /\ r.made /\ ~r.killed
WantedBy(e, r) == Admits(Level[JobOf(e)], r.status)

SentOK(e, r) ==
  /\ r.sent <= Len(Channels[JobOf(e)])
  /\ \A i \in 1..r.sent :
       Delivery[Channels[JobOf(e)][i]] = "works" => Channels[JobOf(e)][i] \in r.reached
BeforeOutcome(r) ==
  /\ r.pc \in Early => ~r.made
  /\ r.pc \notin Early \cup {"ended"} => r.made
  /\ r.pc \in Early \cup {"pre_backup", "snapshot"} => ~r.aborted /\ ~r.raised
  /\ r.pc = "post_backup" => ~r.aborted
RecordDone(r) ==
  \/ r.pc \in {"alert", "post_backup"}
  \/ r.aborted /\ r.pc \in {"rmtree", "rmdir"}
  \/ ByItself(r)
  => r.recorded = r.status \/ r.lost
AlertDone(e, r) ==
  \/ r.pc = "post_backup"
  \/ r.aborted /\ r.pc \in {"rmtree", "rmdir"}
  \/ ByItself(r)
  => (WantedBy(e, r) => r.sent = Len(Channels[JobOf(e)]))
DirGone(e, r, D) ==
  /\ r.pc \in Early => e \notin D
  /\ \/ r.pc \in {"rmdir", "post_backup", "ended"}
     \/ ~r.aborted /\ r.pc \in {"record", "alert"}
     => (e \in D => r.stuck)

RunOK(e, r, D) ==
  /\ SentOK(e, r)
  /\ BeforeOutcome(r)
  /\ RecordDone(r)
  /\ AlertDone(e, r)
  /\ DirGone(e, r, D)

RunsOK == \A e \in Entries : RunOK(e, run[e], dirs)

LEMMA ChannelFacts ==
  ASSUME NEW e \in Entries
  PROVE  /\ JobOf(e) \in Jobs
         /\ Channels[JobOf(e)] \in Seq(Names)
         /\ Len(Channels[JobOf(e)]) \in Nat
         /\ DOMAIN Channels[JobOf(e)] = 1..Len(Channels[JobOf(e)])
<1>1. JobOf(e) \in Jobs
  BY DEF Entries, Daemons, JobOf
<1> QED BY <1>1, ConfigAssumption

(* A step of a run only changes that run, its work dir and the parent, and   *)
(* takes the run one call further.                                           *)
LEMMA RunMoves ==
  ASSUME TypeOK, RunsOK, NEW e \in Entries, RunStep(e) \/ RunFault(e)
  PROVE  \E q \in Run :
           /\ run' = [run EXCEPT ![e] = q]
           /\ RunOK(e, q, dirs')
           /\ q.killed = run[e].killed /\ q.pc # "none"
           /\ Active(e)
           /\ dirs' \ {e} = dirs \ {e} /\ dirs' \subseteq Entries
           /\ dotWork' \in BOOLEAN
           /\ faults' \in 0..MaxFaults
           /\ UNCHANGED <<daemon, waits, now, code, left, runs>>
<1>r. PICK r : r = run[e]
  OBVIOUS
<1> USE <1>r
<1> DEFINE Moved(q) == /\ run' = [run EXCEPT ![e] = q]
                       /\ RunOK(e, q, dirs')
                       /\ q.killed = run[e].killed /\ q.pc # "none"
           Rest == /\ Active(e)
                   /\ dirs' \ {e} = dirs \ {e} /\ dirs' \subseteq Entries
                   /\ dotWork' \in BOOLEAN
                   /\ faults' \in 0..MaxFaults
                   /\ UNCHANGED <<daemon, waits, now, code, left, runs>>
<1>0. r \in Run /\ RunOK(e, r, dirs)
  BY DEF TypeOK, RunsOK
<1>f. faults \in 0..MaxFaults /\ MaxFaults \in Nat
  BY ConfigAssumption DEF TypeOK
<1>c. /\ \A x \in {"pre_backup", "mkdir_parent", "mkdir_again", "snapshot", "rmtree", "rmdir",
                   "record", "alert", "post_backup", "ended"} : x \in Calls
      /\ "error" \in Statuses
  BY DEF Calls, Statuses
<1> SUFFICES \E q \in Run : Moved(q) /\ Rest
  OBVIOUS
<1> USE DEF NoFault, Processes, Work, Become, Goes, At, Active
<1>1. CASE MakeWorkDir(e)
  <2>1. PICK q : q = [r EXCEPT !.pc = "pre_backup", !.made = TRUE]
    OBVIOUS
  <2>2. /\ q \in Run
        /\ q.pc = "pre_backup" /\ q.made
        /\ q.status = r.status /\ q.aborted = r.aborted /\ q.raised = r.raised
        /\ q.lost = r.lost /\ q.stuck = r.stuck /\ q.killed = r.killed /\ q.recorded = r.recorded
        /\ q.sent = r.sent /\ q.reached = r.reached
    BY <1>0, <1>c, <2>1 DEF Run
  <2>3. RunOK(e, q, dirs')
    BY <1>0, <1>1, <2>2
       DEF MakeWorkDir, RunOK, SentOK, BeforeOutcome, RecordDone, AlertDone, DirGone,
           ByItself, Early
  <2>4. run' = [run EXCEPT ![e] = q]
    BY <1>1, <2>1 DEF MakeWorkDir
  <2>5. Rest
    BY <1>1, <1>f DEF MakeWorkDir, TypeOK
  <2> QED BY <2>2, <2>3, <2>4, <2>5
<1>2. CASE MakeParent(e)
  <2>1. PICK q : q = [r EXCEPT !.pc = "mkdir_parent"]
    OBVIOUS
  <2>2. /\ q \in Run
        /\ q.pc = "mkdir_parent"
        /\ q.made = r.made /\ q.status = r.status /\ q.aborted = r.aborted
        /\ q.raised = r.raised /\ q.lost = r.lost /\ q.stuck = r.stuck /\ q.killed = r.killed
        /\ q.recorded = r.recorded /\ q.sent = r.sent /\ q.reached = r.reached
    BY <1>0, <1>c, <2>1 DEF Run
  <2>3. RunOK(e, q, dirs')
    BY <1>0, <1>2, <2>2
       DEF MakeParent, RunOK, SentOK, BeforeOutcome, RecordDone, AlertDone, DirGone,
           ByItself, Early
  <2>4. run' = [run EXCEPT ![e] = q]
    BY <1>2, <2>1 DEF MakeParent
  <2>5. Rest
    BY <1>2, <1>f DEF MakeParent, TypeOK
  <2> QED BY <2>2, <2>3, <2>4, <2>5
<1>3. CASE ParentMade(e)
  <2>1. PICK q : q = [r EXCEPT !.pc = "mkdir_again"]
    OBVIOUS
  <2>2. /\ q \in Run
        /\ q.pc = "mkdir_again"
        /\ q.made = r.made /\ q.status = r.status /\ q.aborted = r.aborted
        /\ q.raised = r.raised /\ q.lost = r.lost /\ q.stuck = r.stuck /\ q.killed = r.killed
        /\ q.recorded = r.recorded /\ q.sent = r.sent /\ q.reached = r.reached
    BY <1>0, <1>c, <2>1 DEF Run
  <2>3. RunOK(e, q, dirs')
    BY <1>0, <1>3, <2>2
       DEF ParentMade, RunOK, SentOK, BeforeOutcome, RecordDone, AlertDone, DirGone,
           ByItself, Early
  <2>4. run' = [run EXCEPT ![e] = q]
    BY <1>3, <2>1 DEF ParentMade
  <2>5. Rest
    BY <1>3, <1>f DEF ParentMade, TypeOK
  <2> QED BY <2>2, <2>3, <2>4, <2>5
<1>4. CASE ParentGone(e) \/ MkdirFails(e)
  <2>1. PICK q : q = [r EXCEPT !.pc = "ended", !.raised = TRUE]
    OBVIOUS
  <2>2. /\ q \in Run
        /\ q.pc = "ended" /\ q.raised
        /\ q.made = r.made /\ q.status = r.status /\ q.aborted = r.aborted
        /\ q.lost = r.lost /\ q.stuck = r.stuck /\ q.killed = r.killed /\ q.recorded = r.recorded
        /\ q.sent = r.sent /\ q.reached = r.reached
    BY <1>0, <1>c, <2>1 DEF Run
  <2>3. RunOK(e, q, dirs')
    BY <1>0, <1>4, <2>2
       DEF ParentGone, MkdirFails, RunOK, SentOK, BeforeOutcome, RecordDone, AlertDone, DirGone,
           ByItself, Early
  <2>4. run' = [run EXCEPT ![e] = q]
    BY <1>4, <2>1 DEF ParentGone, MkdirFails, Raises
  <2>5. Rest
    BY <1>4, <1>f DEF ParentGone, MkdirFails, Fault, TypeOK
  <2> QED BY <2>2, <2>3, <2>4, <2>5
<1>5. CASE PreBackup(e)
  <2>1. PICK q : q = [r EXCEPT !.pc = "snapshot"]
    OBVIOUS
  <2>2. /\ q \in Run
        /\ q.pc = "snapshot"
        /\ q.made = r.made /\ q.status = r.status /\ q.aborted = r.aborted
        /\ q.raised = r.raised /\ q.lost = r.lost /\ q.stuck = r.stuck /\ q.killed = r.killed
        /\ q.recorded = r.recorded /\ q.sent = r.sent /\ q.reached = r.reached
    BY <1>0, <1>c, <2>1 DEF Run
  <2>3. RunOK(e, q, dirs')
    BY <1>0, <1>5, <2>2
       DEF PreBackup, RunOK, SentOK, BeforeOutcome, RecordDone, AlertDone, DirGone,
           ByItself, Early
  <2>4. run' = [run EXCEPT ![e] = q]
    BY <1>5, <2>1 DEF PreBackup
  <2>5. Rest
    BY <1>5, <1>f DEF PreBackup, TypeOK
  <2> QED BY <2>2, <2>3, <2>4, <2>5
<1>6. CASE Snapshot(e)
  <2>0. PICK st \in Statuses :
          run' = [run EXCEPT ![e] = [r EXCEPT !.pc = "rmtree", !.status = st]]
    BY <1>6 DEF Snapshot
  <2>1. PICK q : q = [r EXCEPT !.pc = "rmtree", !.status = st]
    OBVIOUS
  <2>2. /\ q \in Run
        /\ q.pc = "rmtree" /\ q.status = st
        /\ q.made = r.made /\ q.aborted = r.aborted /\ q.raised = r.raised
        /\ q.lost = r.lost /\ q.stuck = r.stuck /\ q.killed = r.killed /\ q.recorded = r.recorded
        /\ q.sent = r.sent /\ q.reached = r.reached
    BY <1>0, <1>c, <2>1 DEF Run
  <2>3. RunOK(e, q, dirs')
    BY <1>0, <1>6, <2>2
       DEF Snapshot, RunOK, SentOK, BeforeOutcome, RecordDone, AlertDone, DirGone,
           ByItself, Early
  <2>4. run' = [run EXCEPT ![e] = q]
    BY <1>6, <2>1, <2>0 DEF Snapshot
  <2>5. Rest
    BY <1>6, <1>f DEF Snapshot, TypeOK
  <2> QED BY <2>2, <2>3, <2>4, <2>5
<1>7. CASE Aborts(e)
  <2>1. PICK q : q = [r EXCEPT !.pc = "record", !.status = "error", !.aborted = TRUE,
                               !.raised = TRUE]
    OBVIOUS
  <2>2. /\ q \in Run
        /\ q.pc = "record" /\ q.status = "error" /\ q.aborted /\ q.raised
        /\ q.made = r.made /\ q.lost = r.lost /\ q.stuck = r.stuck /\ q.killed = r.killed
        /\ q.recorded = r.recorded /\ q.sent = r.sent /\ q.reached = r.reached
    BY <1>0, <1>c, <2>1 DEF Run
  <2>3. RunOK(e, q, dirs')
    BY <1>0, <1>7, <2>2
       DEF Aborts, RunOK, SentOK, BeforeOutcome, RecordDone, AlertDone, DirGone,
           ByItself, Early
  <2>4. run' = [run EXCEPT ![e] = q]
    BY <1>7, <2>1 DEF Aborts
  <2>5. Rest
    BY <1>7, <1>f DEF Aborts, Fault, TypeOK
  <2> QED BY <2>2, <2>3, <2>4, <2>5
<1>8. CASE RemoveWorkDir(e) \/ RemoveParent(e) \/ Alerted(e) \/ PostBackup(e)
  <2>1. PICK q : q = [r EXCEPT !.pc = After(r)]
    OBVIOUS
  <2>2. r.pc \in {"rmtree", "rmdir", "alert", "post_backup"} /\ (r.pc = "post_backup" => ~r.aborted)
    BY <1>0, <1>8 DEF RemoveWorkDir, RemoveParent, Alerted, PostBackup, RunOK, BeforeOutcome
  <2>3. After(r) \in Calls
    BY <1>0, <1>c, <2>2, AfterIs DEF Run
  <2>4. q \in Run
    BY <1>0, <2>1, <2>3, SetPc
  <2>5. SentOK(e, q) /\ BeforeOutcome(q) /\ RecordDone(q)
    BY <1>0, <2>1, <2>2, <2>3, AfterIs, SetPc
       DEF RunOK, SentOK, BeforeOutcome, RecordDone, ByItself, Early, Run
  <2>6. AlertDone(e, q)
    <3>1. CASE Alerted(e)
      BY <1>0, <2>1, <2>2, <2>3, <3>1, AfterIs, SetPc DEF Alerted, AlertDone, Wanted, WantedBy
    <3>2. CASE r.pc # "alert"
      BY <1>0, <2>1, <2>2, <2>3, <3>2, AfterIs, SetPc
         DEF RunOK, AlertDone, WantedBy, ByItself, Run
    <3> QED BY <1>8, <3>1, <3>2 DEF RemoveWorkDir, RemoveParent, PostBackup
  <2>7. DirGone(e, q, dirs')
    <3>1. CASE RemoveWorkDir(e)
      BY <3>1 DEF RemoveWorkDir, DirGone
    <3>2. CASE r.pc # "rmtree" /\ dirs' = dirs
      BY <1>0, <2>1, <2>2, <2>3, <3>2, AfterIs, SetPc DEF RunOK, DirGone, Run, Early
    <3> QED BY <1>8, <3>1, <3>2 DEF RemoveParent, Alerted, PostBackup
  <2>8. run' = [run EXCEPT ![e] = q] /\ q.killed = r.killed /\ q.pc # "none"
    <3>1. run' = [run EXCEPT ![e] = q]
      BY <1>8, <2>1 DEF RemoveWorkDir, RemoveParent, Alerted, PostBackup, Done
    <3>2. After(r) # "none"
      BY <1>0, <2>2, AfterIs DEF Run
    <3> QED BY <1>0, <2>1, <2>3, <3>1, <3>2, SetPc
  <2>9. Rest
    BY <1>8, <1>f DEF RemoveWorkDir, RemoveParent, Alerted, PostBackup, TypeOK
  <2> QED BY <2>4, <2>5, <2>6, <2>7, <2>8, <2>9 DEF RunOK
<1>9. CASE Record(e) \/ RecordFails(e)
  <2>1. PICK m : \/ Record(e) /\ m = [r EXCEPT !.recorded = r.status]
                 \/ RecordFails(e) /\ m = [r EXCEPT !.lost = TRUE]
    BY <1>9
  <2>2. /\ m \in Run /\ m.pc = "record" /\ (m.recorded = m.status \/ m.lost)
        /\ m.made = r.made /\ m.status = r.status /\ m.aborted = r.aborted
        /\ m.raised = r.raised /\ m.killed = r.killed /\ m.stuck = r.stuck
        /\ m.sent = r.sent /\ m.reached = r.reached
    BY <1>0, <2>1 DEF Run, Record, RecordFails
  <2>3. After(r) = "alert"
    BY <1>0, <1>9, AfterIs DEF Run, Record, RecordFails
  <2>4. PICK q : q = [m EXCEPT !.pc = "alert"]
    OBVIOUS
  <2>5. q \in Run /\ RunOK(e, q, dirs')
    BY <1>0, <1>9, <1>c, <2>2, <2>4, SetPc
       DEF Record, RecordFails, RunOK, SentOK, BeforeOutcome, RecordDone, AlertDone, DirGone,
           ByItself, Early
  <2>6. run' = [run EXCEPT ![e] = q] /\ q.killed = r.killed /\ q.pc # "none"
    <3>1. run' = [run EXCEPT ![e] = q]
      BY <2>1, <2>3, <2>4 DEF Record, RecordFails, Done
    <3> QED BY <1>c, <2>2, <2>4, <3>1, SetPc
  <2>7. Rest
    BY <1>9, <1>f DEF Record, RecordFails, Fault, TypeOK
  <2> QED BY <2>5, <2>6, <2>7
<1>10. CASE PostBackupRaises(e)
  <2>1. PICK m : m = [r EXCEPT !.raised = TRUE]
    OBVIOUS
  <2>2. /\ m \in Run /\ m.pc = "post_backup" /\ r.pc = "post_backup"
        /\ m.made = r.made /\ m.status = r.status /\ m.aborted = r.aborted
        /\ m.lost = r.lost /\ m.stuck = r.stuck /\ m.killed = r.killed /\ m.recorded = r.recorded
        /\ m.sent = r.sent /\ m.reached = r.reached
    BY <1>0, <1>10, <2>1 DEF Run, PostBackupRaises
  <2>3. ~r.aborted /\ After(r) = "ended"
    BY <1>0, <2>2, AfterIs DEF RunOK, BeforeOutcome
  <2>4. PICK q : q = [m EXCEPT !.pc = "ended"]
    OBVIOUS
  <2>5. q \in Run /\ RunOK(e, q, dirs')
    BY <1>0, <1>10, <1>c, <2>2, <2>3, <2>4, SetPc
       DEF PostBackupRaises, RunOK, SentOK, BeforeOutcome, RecordDone, AlertDone, DirGone,
           ByItself, Early, WantedBy
  <2>6. run' = [run EXCEPT ![e] = q] /\ q.killed = r.killed /\ q.pc # "none"
    BY <1>10, <1>c, <2>1, <2>2, <2>3, <2>4, SetPc DEF PostBackupRaises, Done
  <2>7. Rest
    BY <1>10, <1>f DEF PostBackupRaises, Fault, TypeOK
  <2> QED BY <2>5, <2>6, <2>7
<1>12. CASE RemovalFails(e)
  <2>1. PICK m : m = [r EXCEPT !.stuck = TRUE]
    OBVIOUS
  <2>2. /\ m \in Run /\ m.pc = "rmtree" /\ r.pc = "rmtree" /\ m.stuck
        /\ m.made = r.made /\ m.status = r.status /\ m.aborted = r.aborted
        /\ m.raised = r.raised /\ m.lost = r.lost /\ m.killed = r.killed
        /\ m.recorded = r.recorded /\ m.sent = r.sent /\ m.reached = r.reached
    BY <1>0, <1>12, <2>1 DEF Run, RemovalFails
  <2>3. After(r) = "rmdir"
    BY <1>0, <2>2, AfterIs DEF Run
  <2>4. PICK q : q = [m EXCEPT !.pc = "rmdir"]
    OBVIOUS
  <2>5. q \in Run /\ RunOK(e, q, dirs')
    BY <1>0, <1>12, <1>c, <2>2, <2>4, SetPc
       DEF RemovalFails, RunOK, SentOK, BeforeOutcome, RecordDone, AlertDone, DirGone,
           ByItself, Early, WantedBy
  <2>6. run' = [run EXCEPT ![e] = q] /\ q.killed = r.killed /\ q.pc # "none"
    BY <1>12, <1>c, <2>1, <2>2, <2>3, <2>4, SetPc DEF RemovalFails, Done
  <2>7. Rest
    BY <1>12, <1>f DEF RemovalFails, Fault, TypeOK
  <2> QED BY <2>5, <2>6, <2>7
<1>11. CASE Deliver(e)
  <2> DEFINE c == Channels[JobOf(e)][r.sent + 1]
  <2>1. PICK R : /\ R = r.reached \cup (IF Delivery[c] = "works" THEN {c} ELSE {})
                 /\ run' = [run EXCEPT ![e] = [r EXCEPT !.sent = r.sent + 1, !.reached = R]]
    BY <1>11 DEF Deliver
  <2>2. r.sent \in Nat /\ r.sent < Len(Channels[JobOf(e)]) /\ r.pc = "alert" /\ r.reached \subseteq Names
    BY <1>0, <1>11 DEF Deliver, Run
  <2>3. c \in Names
    BY <2>2, ChannelFacts
  <2>4. PICK q : q = [r EXCEPT !.sent = r.sent + 1, !.reached = R]
    OBVIOUS
  <2>5. r.sent + 1 \in Nat /\ R \in SUBSET Names /\ r.reached \subseteq R
    BY <2>1, <2>2, <2>3
  <2>6. /\ q \in Run
        /\ q.pc = r.pc /\ q.sent = r.sent + 1 /\ q.reached = R
        /\ q.made = r.made /\ q.status = r.status /\ q.aborted = r.aborted
        /\ q.raised = r.raised /\ q.lost = r.lost /\ q.stuck = r.stuck /\ q.killed = r.killed
        /\ q.recorded = r.recorded
    BY <1>0, <2>4, <2>5 DEF Run
  <2>7. SentOK(e, q)
    <3>1. q.sent <= Len(Channels[JobOf(e)])
      BY <2>2, <2>6, ChannelFacts
    <3>2. ASSUME NEW i \in 1..q.sent, Delivery[Channels[JobOf(e)][i]] = "works"
          PROVE  Channels[JobOf(e)][i] \in q.reached
      <4>1. CASE i = r.sent + 1
        BY <2>1, <2>6, <3>2, <4>1
      <4>2. CASE i # r.sent + 1
        <5>1. i \in 1..r.sent
          BY <2>2, <2>6, <4>2
        <5> QED BY <1>0, <2>5, <2>6, <3>2, <5>1 DEF RunOK, SentOK
      <4> QED BY <4>1, <4>2
    <3> QED BY <3>1, <3>2 DEF SentOK
  <2>8. BeforeOutcome(q) /\ RecordDone(q) /\ AlertDone(e, q) /\ DirGone(e, q, dirs')
    BY <1>0, <1>11, <2>2, <2>6
       DEF Deliver, RunOK, BeforeOutcome, RecordDone, AlertDone, DirGone, ByItself, Early
  <2>9. run' = [run EXCEPT ![e] = q] /\ q.killed = r.killed /\ q.pc # "none"
    BY <2>1, <2>2, <2>4, <2>6
  <2>10. Rest
    BY <1>11, <1>f DEF Deliver, TypeOK
  <2> QED BY <2>6, <2>7, <2>8, <2>9, <2>10 DEF RunOK
<1> QED BY <1>1, <1>2, <1>3, <1>4, <1>5, <1>6, <1>7, <1>8, <1>9, <1>10, <1>11, <1>12
       DEF RunStep, RunFault
-----------------------------------------------------------------------------
(* The other steps: a run begins, or a kill cuts the runs of a process.      *)
LEMMA OneRun ==
  ASSUME TypeOK, RunsOK, NEW e \in Entries, NEW q \in Run,
         run' = [run EXCEPT ![e] = q], RunOK(e, q, dirs'), dirs' \ {e} = dirs \ {e}
  PROVE  /\ run' \in [Entries -> Run] /\ RunsOK'
         /\ run'[e] = q
         /\ \A x \in Entries \ {e} : run'[x] = run[x]
<1>1. run' \in [Entries -> Run] /\ run'[e] = q /\ \A x \in Entries \ {e} : run'[x] = run[x]
  BY DEF TypeOK
<1>2. ASSUME NEW x \in Entries PROVE RunOK(x, run'[x], dirs')
  <2>1. CASE x # e
    BY <1>1, <2>1 DEF RunsOK, RunOK, DirGone
  <2> QED BY <1>1, <2>1
<1> QED BY <1>1, <1>2 DEF RunsOK

LEMMA Begins ==
  ASSUME TypeOK, RunsOK, NEW e \in Entries, ~Active(e), Begin(e)
  PROVE  /\ run' \in [Entries -> Run] /\ RunsOK'
         /\ run'[e].pc = "mkdir" /\ ~run'[e].killed /\ ~run'[e].raised
         /\ \A x \in Entries \ {e} : run'[x] = run[x]
         /\ dirs' \subseteq Entries /\ left' \in BOOLEAN
         /\ UNCHANGED <<dotWork, faults>>
<1>r. PICK r : r = NoRun
  OBVIOUS
<1>1. PICK q : q = [r EXCEPT !.pc = "mkdir"]
  OBVIOUS
<1>2. /\ r \in Run /\ ~r.made /\ ~r.aborted /\ ~r.raised /\ ~r.killed /\ r.sent = 0
      /\ "mkdir" \in Calls
  BY <1>r, NewRun DEF Calls
<1>3. /\ q \in Run /\ q.pc = "mkdir" /\ ~q.made /\ ~q.aborted /\ ~q.raised /\ ~q.killed
      /\ q.sent = 0
  BY <1>1, <1>2, SetPc
<1>4. /\ run' = [run EXCEPT ![e] = q] /\ dirs' = dirs \ {e} /\ left' \in BOOLEAN
      /\ UNCHANGED <<dotWork, faults>>
  BY <1>r, <1>1 DEF Begin, Become, NoFault
<1>5. e \notin dirs' /\ dirs' \subseteq Entries /\ dirs' \ {e} = dirs \ {e}
  BY <1>4 DEF TypeOK
<1>6. RunOK(e, q, dirs')
  <2>1. SentOK(e, q)
    BY <1>3, ChannelFacts DEF SentOK
  <2> QED BY <1>3, <1>4, <1>5, <2>1
         DEF RunOK, BeforeOutcome, RecordDone, AlertDone, DirGone, ByItself, Early
<1> QED BY <1>3, <1>4, <1>5, <1>6, OneRun

LEMMA Cuts ==
  ASSUME TypeOK, RunsOK, NEW E \in SUBSET Entries, Cut(E)
  PROVE  /\ run' \in [Entries -> Run] /\ RunsOK'
         /\ \A x \in E : ~Active(x)'
         /\ \A x \in Entries : ~Active(x) => run'[x] = run[x]
         /\ \A x \in Entries \ E : run'[x] = run[x]
         /\ \A x \in E : run'[x].raised => run'[x] = run[x]
         /\ dirs' \subseteq Entries /\ left' \in BOOLEAN
         /\ UNCHANGED <<dotWork, runs>>
<1>1. /\ run' = [e \in Entries |->
                   IF e \in E /\ Active(e)
                   THEN [NoRun EXCEPT !.pc = "ended", !.killed = TRUE] ELSE run[e]]
      /\ left' = (left \/ dirs \cap E # {})
      /\ dirs' = dirs \ E
      /\ UNCHANGED <<dotWork, runs>>
  BY DEF Cut
<1>2. ASSUME NEW x \in Entries
      PROVE  /\ run'[x] \in Run /\ RunOK(x, run'[x], dirs')
             /\ x \in E => ~Active(x)'
             /\ ~Active(x) \/ x \notin E => run'[x] = run[x]
             /\ run'[x].raised => run'[x] = run[x]
  <2>r. PICK r : r = run[x]
    OBVIOUS
  <2>0. r \in Run /\ RunOK(x, r, dirs)
    BY <2>r DEF TypeOK, RunsOK
  <2>1. CASE x \in E /\ Active(x)
    <3>1. PICK q : q = [NoRun EXCEPT !.pc = "ended", !.killed = TRUE]
      OBVIOUS
    <3>2. /\ q \in Run /\ q.pc = "ended" /\ q.killed
          /\ ~q.made /\ ~q.aborted /\ ~q.raised /\ q.sent = 0
      BY <3>1, SetKilled
    <3>3. run'[x] = q
      BY <1>1, <2>r, <2>1, <3>1
    <3>4. RunOK(x, q, dirs')
      BY <1>1, <2>1, <3>2, ChannelFacts
         DEF RunOK, SentOK, BeforeOutcome, RecordDone, AlertDone, DirGone, ByItself, Early
    <3> QED BY <2>1, <3>2, <3>3, <3>4 DEF Active
  <2>2. CASE ~(x \in E /\ Active(x))
    <3>1. run'[x] = r
      BY <1>1, <2>r, <2>2
    <3>2. RunOK(x, r, dirs')
      BY <1>1, <2>0 DEF RunOK, DirGone
    <3> QED BY <2>0, <2>2, <2>r, <3>1, <3>2 DEF Active
  <2> QED BY <2>1, <2>2
<1>3. run' \in [Entries -> Run]
  <2>1. run' = [x \in Entries |-> run'[x]]
    BY <1>1
  <2> QED BY <1>2, <2>1
<1> QED BY <1>1, <1>2, <1>3 DEF RunsOK, TypeOK
LEMMA OneFault ==
  ASSUME TypeOK, Fault
  PROVE  faults' \in 0..MaxFaults
<1>1. faults \in 0..MaxFaults /\ MaxFaults \in Nat
  BY ConfigAssumption DEF TypeOK
<1>2. faults < MaxFaults /\ faults' = faults + 1
  BY DEF Fault
<1> QED BY <1>1, <1>2

-----------------------------------------------------------------------------
(* What the processes are while runs go on. A stopping daemon joins every    *)
(* thread that still works: none began since it looked. The runs of `create` *)
(* are those of its jobs before the current one, all ended well, the current *)
(* one, and none behind it: ExitCodeTells needs the whole of it.             *)
DrainInv ==
  \A e \in Daemons :
    /\ Active(e) => daemon \in {"running", "draining", "raising"}
    /\ Active(e) /\ daemon # "running" => e \in waits
    /\ run[e].killed => daemon \in {"broken_off", "killed"}

EndedWell(i) == Ended(NowEntry(i)) /\ ~run[NowEntry(i)].raised

NowInv ==
  /\ now > 0 => /\ code = "none"
                /\ ~run[NowEntry(now)].killed
                /\ \A i \in 1..now - 1 : EndedWell(i)
  /\ now = 0 => \A i \in 1..Len(JobList) : ~Active(NowEntry(i))
  /\ code = "none" => \A i \in now + 1..Len(JobList) : run[NowEntry(i)] = NoRun
  /\ ExitCodeTells

IInv == TypeOK /\ RunsOK /\ DrainInv /\ NowInv

LEMMA JobFacts ==
  /\ Len(JobList) \in Nat /\ DOMAIN JobList = 1..Len(JobList)
  /\ \A i \in 1..Len(JobList) : NowEntry(i) \in Entries \ Daemons
  /\ \A i, k \in 1..Len(JobList) : NowEntry(i) = NowEntry(k) => i = k
  /\ \A j \in Jobs : \E i \in 1..Len(JobList) : <<"now", j>> = NowEntry(i)
  /\ \A j \in Jobs : <<"now", j>> \in Entries \ Daemons
  /\ Daemons \subseteq Entries
<1>1. Len(JobList) \in Nat /\ DOMAIN JobList = 1..Len(JobList)
  BY ConfigAssumption
<1>2. \A j \in Jobs : <<"now", j>> \in Entries \ Daemons
  BY DEF Entries, Daemons
<1>3. \A i \in 1..Len(JobList) : JobList[i] \in Jobs
  BY <1>1 DEF Jobs
<1>4. \A i, k \in 1..Len(JobList) : NowEntry(i) = NowEntry(k) => i = k
  BY <1>1, ConfigAssumption DEF NowEntry
<1>5. \A j \in Jobs : \E i \in 1..Len(JobList) : <<"now", j>> = NowEntry(i)
  BY <1>1 DEF Jobs, NowEntry
<1> QED BY <1>1, <1>2, <1>3, <1>4, <1>5 DEF NowEntry, Entries

LEMMA Initially == Init => IInv
<1> SUFFICES ASSUME Init PROVE IInv
  OBVIOUS
<1>1. TypeOK
  <2>1. run \in [Entries -> Run]
    BY NewRun DEF Init
  <2>2. 0 \in 0..Len(JobList) /\ 0 \in 0..MaxRuns /\ 0 \in 0..MaxFaults
    BY JobFacts, ConfigAssumption
  <2> QED BY <2>1, <2>2 DEF Init, TypeOK
<1>2. RunsOK
  <2>1. ASSUME NEW e \in Entries PROVE RunOK(e, NoRun, dirs)
    BY NewRun, ChannelFacts
       DEF Init, RunOK, SentOK, BeforeOutcome, RecordDone, AlertDone, DirGone, ByItself, Early
  <2> QED BY <2>1 DEF Init, RunsOK
<1>3. DrainInv
  BY NewRun, JobFacts DEF Init, DrainInv, Active
<1>4. NowInv
  BY NewRun, JobFacts DEF Init, NowInv, ExitCodeTells, Active
<1> QED BY <1>1, <1>2, <1>3, <1>4 DEF IInv

(* A step that leaves the ended runs of `create` as they are, its current    *)
(* one not killed, and those behind it not begun.                            *)
LEMMA KeepsNow ==
  ASSUME TypeOK, NowInv, UNCHANGED <<now, code>>,
         \A i \in 1..Len(JobList) :
           /\ ~Active(NowEntry(i)) => run'[NowEntry(i)] = run[NowEntry(i)]
           /\ now = i => run'[NowEntry(i)].killed = run[NowEntry(i)].killed
  PROVE  NowInv'
<1>0. now \in 0..Len(JobList) /\ Len(JobList) \in Nat
  BY JobFacts DEF TypeOK
<1>1. (now > 0 => /\ code = "none"
                  /\ ~run[NowEntry(now)].killed
                  /\ \A i \in 1..now - 1 : EndedWell(i))'
  <2> SUFFICES ASSUME now > 0
               PROVE  /\ code = "none"
                      /\ ~run'[NowEntry(now)].killed
                      /\ \A i \in 1..now - 1 : EndedWell(i)'
    BY DEF NowEntry
  <2>1. code = "none" /\ ~run'[NowEntry(now)].killed
    BY <1>0 DEF NowInv
  <2>2. ASSUME NEW i \in 1..now - 1 PROVE EndedWell(i)'
    <3>1. i \in 1..Len(JobList) /\ EndedWell(i)
      BY <1>0 DEF NowInv
    <3> QED BY <3>1 DEF EndedWell, Ended, Active, NowEntry
  <2> QED BY <2>1, <2>2
<1>2. (code = "none" => \A i \in now + 1..Len(JobList) : run[NowEntry(i)] = NoRun)'
  <2> SUFFICES ASSUME code = "none", NEW i \in now + 1..Len(JobList)
               PROVE  run'[NowEntry(i)] = NoRun
    BY DEF NowEntry
  <2>1. i \in 1..Len(JobList) /\ run[NowEntry(i)] = NoRun
    BY <1>0 DEF NowInv
  <2> QED BY <2>1, NewRun DEF Active
<1>3. ASSUME NEW j \in Jobs, run[<<"now", j>>].pc = "ended"
      PROVE  run'[<<"now", j>>] = run[<<"now", j>>]
  BY <1>3, JobFacts DEF Active
<1>4. (now = 0 => \A i \in 1..Len(JobList) : ~Active(NowEntry(i)))'
  <2> SUFFICES ASSUME now = 0, NEW i \in 1..Len(JobList) PROVE Active(NowEntry(i))' = FALSE
    BY DEF Active
  <2>1. ~Active(NowEntry(i)) /\ run'[NowEntry(i)] = run[NowEntry(i)]
    BY DEF NowInv
  <2> QED BY <2>1 DEF Active, NowEntry
<1>5. ASSUME NEW i \in 1..Len(JobList), NEW k \in 1..Len(JobList), i < k, run'[NowEntry(i)].raised
      PROVE  run'[NowEntry(k)] = NoRun
  <2>1. CASE now = 0
    BY <1>5, <2>1, JobFacts DEF NowInv, ExitCodeTells
  <2>2. CASE now > 0
    <3>1. i >= now
      BY <1>0, <1>5, <2>2 DEF NowInv, EndedWell, Ended, Active
    <3>2. code = "none" /\ run[NowEntry(k)] = NoRun
      BY <1>0, <1>5, <2>2, <3>1 DEF NowInv
    <3> QED BY <3>2, NewRun DEF Active
  <2> QED BY <1>0, <2>1, <2>2
<1>6. ExitCodeTells'
  BY <1>3, <1>5, JobFacts DEF NowInv, ExitCodeTells, Ended, NowEntry
<1> QED BY <1>1, <1>2, <1>4, <1>6 DEF NowInv

(* A step of the daemon's own: `create` and its runs are not concerned.      *)
LEMMA NotNow ==
  ASSUME TypeOK, NowInv, UNCHANGED <<now, code>>,
         \A x \in Entries \ Daemons : run'[x] = run[x]
  PROVE  NowInv'
BY KeepsNow, JobFacts

LEMMA RunStepInv ==
  ASSUME IInv, NEW e \in Entries, RunStep(e) \/ RunFault(e)
  PROVE  IInv'
<1> USE DEF IInv
<1>1. PICK q \in Run :
        /\ run' = [run EXCEPT ![e] = q]
        /\ RunOK(e, q, dirs')
        /\ q.killed = run[e].killed /\ q.pc # "none"
        /\ Active(e)
        /\ dirs' \ {e} = dirs \ {e} /\ dirs' \subseteq Entries
        /\ dotWork' \in BOOLEAN
        /\ faults' \in 0..MaxFaults
        /\ UNCHANGED <<daemon, waits, now, code, left, runs>>
  BY RunMoves
<1>2. /\ run' \in [Entries -> Run] /\ RunsOK'
      /\ run'[e] = q
      /\ \A x \in Entries \ {e} : run'[x] = run[x]
  BY <1>1, OneRun
<1>3. TypeOK'
  BY <1>1, <1>2 DEF TypeOK
<1>4. DrainInv'
  BY <1>1, <1>2, JobFacts DEF DrainInv, Active
<1>5. NowInv'
  BY <1>1, <1>2, KeepsNow, JobFacts
<1> QED BY <1>2, <1>3, <1>4, <1>5

LEMMA DaemonInv ==
  ASSUME IInv, \/ \E e \in Daemons : Fire(e)
               \/ Start \/ Signal \/ Exit \/ SignalBreaksOff \/ KillDaemon \/ Restart
  PROVE  IInv'
<1> USE DEF IInv
<1>m. MaxRuns \in Nat /\ runs \in 0..MaxRuns
  BY ConfigAssumption DEF TypeOK
<1>1. ASSUME NEW e \in Daemons, Fire(e) PROVE IInv'
  <2>1. e \in Entries /\ ~Active(e) /\ Begin(e) /\ daemon = "running"
        /\ UNCHANGED <<daemon, waits, now, code>>
    BY <1>1, JobFacts DEF Fire
  <2>2. /\ run' \in [Entries -> Run] /\ RunsOK'
        /\ run'[e].pc = "mkdir" /\ ~run'[e].killed
        /\ \A x \in Entries \ {e} : run'[x] = run[x]
        /\ dirs' \subseteq Entries /\ left' \in BOOLEAN
        /\ UNCHANGED <<dotWork, faults>>
    BY <2>1, Begins
  <2>3. runs' \in 0..MaxRuns
    BY <1>1, <1>m DEF Fire, Bounded
  <2>4. TypeOK'
    BY <2>1, <2>2, <2>3 DEF TypeOK
  <2>5. DrainInv'
    BY <2>1, <2>2, JobFacts DEF DrainInv, Active
  <2>6. NowInv'
    BY <2>1, <2>2, NotNow
  <2> QED BY <2>2, <2>4, <2>5, <2>6
<1>2. CASE Start \/ Signal \/ Exit
  <2>1. UNCHANGED <<now, code, run, dotWork, dirs, left, runs, faults>>
    BY <1>2 DEF Start, Signal, Exit
  <2>2. TypeOK'
    BY <1>2, <2>1 DEF TypeOK, Start, Signal, Exit, Working
  <2>3. RunsOK'
    BY <2>1 DEF RunsOK
  <2>4. DrainInv'
    <3>1. CASE Start \/ Exit
      BY <2>1, <3>1 DEF DrainInv, Active, Start, Exit
    <3>2. CASE Signal
      BY <2>1, <3>2 DEF DrainInv, Active, Working, Signal
    <3> QED BY <1>2, <3>1, <3>2
  <2>5. NowInv'
    BY <2>1, NotNow
  <2> QED BY <2>2, <2>3, <2>4, <2>5
<1>3. CASE KillDaemon \/ SignalBreaksOff
  <2>1. /\ run' \in [Entries -> Run] /\ RunsOK'
        /\ \A x \in Daemons : ~Active(x)'
        /\ \A x \in Entries \ Daemons : run'[x] = run[x]
        /\ dirs' \subseteq Entries /\ left' \in BOOLEAN
        /\ UNCHANGED <<dotWork, runs>>
    BY <1>3, Cuts, JobFacts DEF KillDaemon, SignalBreaksOff
  <2>2. /\ daemon' \in {"broken_off", "killed"} /\ waits' = {} /\ UNCHANGED <<now, code>>
        /\ faults' \in 0..MaxFaults
    BY <1>3, OneFault DEF KillDaemon, SignalBreaksOff, NoFault, TypeOK
  <2>3. TypeOK'
    BY <2>1, <2>2 DEF TypeOK
  <2>4. DrainInv'
    BY <2>1, <2>2 DEF DrainInv
  <2>5. NowInv'
    BY <2>1, <2>2, NotNow
  <2> QED BY <2>1, <2>3, <2>4, <2>5
<1>4. CASE Restart
  <2>1. /\ daemon \in {"exited", "broken_off", "killed"} /\ daemon' = "starting"
        /\ run' = [e \in Entries |-> IF e \in Daemons THEN NoRun ELSE run[e]]
        /\ dirs' = dirs \ Daemons /\ left' \in BOOLEAN
        /\ UNCHANGED <<waits, now, code, dotWork, runs, faults>>
    BY <1>4 DEF Restart, TypeOK
  <2>2. TypeOK'
    <3>1. run' \in [Entries -> Run]
      BY <2>1, NewRun DEF TypeOK
    <3> QED BY <2>1, <3>1 DEF TypeOK
  <2>3. RunsOK'
    <3>1. ASSUME NEW e \in Entries PROVE RunOK(e, run'[e], dirs')
      <4>1. CASE e \in Daemons
        <5>1. run'[e] = NoRun /\ e \notin dirs'
          BY <2>1, <4>1
        <5>2. RunOK(e, NoRun, dirs')
          BY <5>1, NewRun, ChannelFacts
             DEF RunOK, SentOK, BeforeOutcome, RecordDone, AlertDone, DirGone, ByItself, Early
        <5> QED BY <5>1, <5>2
      <4>2. CASE e \notin Daemons
        BY <2>1, <4>2 DEF RunsOK, RunOK, DirGone
      <4> QED BY <4>1, <4>2
    <3> QED BY <2>1, <3>1 DEF RunsOK
  <2>4. DrainInv'
    <3>1. \A e \in Daemons : run'[e] = NoRun
      BY <2>1, JobFacts
    <3> QED BY <3>1, NewRun DEF DrainInv, Active
  <2>5. NowInv'
    BY <2>1, NotNow
  <2> QED BY <2>2, <2>3, <2>4, <2>5
<1> QED BY <1>1, <1>2, <1>3, <1>4

LEMMA CreateInv ==
  ASSUME IInv, Create \/ NextJob
  PROVE  IInv'
<1> USE DEF IInv
<1>1. PICK k \in 1..Len(JobList) :
        /\ k = now + 1 /\ now' = k /\ code = "none" /\ Begin(NowEntry(k))
        /\ \A i \in 1..now : EndedWell(i)
        /\ runs' \in 0..MaxRuns
        /\ UNCHANGED <<daemon, waits, code>>
  <2>1. MaxRuns \in Nat /\ runs \in 0..MaxRuns /\ now \in 0..Len(JobList) /\ Len(JobList) \in Nat
    BY ConfigAssumption, JobFacts DEF TypeOK
  <2>2. CASE Create
    <3>1. now = 0 /\ code = "none" /\ now' = 1 /\ Begin(NowEntry(1)) /\ JobList # <<>>
          /\ runs' \in 0..MaxRuns /\ UNCHANGED <<daemon, waits, code>>
      BY <2>1, <2>2 DEF Create, Bounded
    <3>2. 1 \in 1..Len(JobList)
      BY <2>1, <3>1, ConfigAssumption
    <3> QED BY <3>1, <3>2
  <2>3. CASE NextJob
    <3>1. /\ now + 1 \in 1..Len(JobList) /\ now > 0 /\ now \in 1..Len(JobList)
          /\ now' = now + 1 /\ Begin(NowEntry(now + 1))
          /\ run[NowEntry(now)].pc = "ended" /\ ~run[NowEntry(now)].raised
          /\ UNCHANGED <<daemon, waits, code, runs>>
      BY <2>1, <2>3 DEF NextJob
    <3>2. code = "none" /\ \A i \in 1..now : EndedWell(i)
      BY <2>1, <3>1 DEF NowInv, EndedWell, Ended
    <3> QED BY <2>1, <3>1, <3>2
  <2> QED BY <2>2, <2>3
<1>0. now \in 0..Len(JobList) /\ Len(JobList) \in Nat
  BY JobFacts DEF TypeOK
<1>2. NowEntry(k) \in Entries \ Daemons /\ ~Active(NowEntry(k))
  BY <1>0, <1>1, JobFacts, NewRun DEF NowInv, Active
<1>3. /\ run' \in [Entries -> Run] /\ RunsOK'
      /\ run'[NowEntry(k)].pc = "mkdir" /\ ~run'[NowEntry(k)].killed
      /\ ~run'[NowEntry(k)].raised
      /\ \A x \in Entries \ {NowEntry(k)} : run'[x] = run[x]
      /\ dirs' \subseteq Entries /\ left' \in BOOLEAN
      /\ UNCHANGED <<dotWork, faults>>
  BY <1>1, <1>2, Begins
<1>4. TypeOK'
  BY <1>0, <1>1, <1>3 DEF TypeOK
<1>5. DrainInv'
  BY <1>1, <1>2, <1>3, JobFacts DEF DrainInv, Active
<1>6. \A i \in 1..Len(JobList) : i # k => run'[NowEntry(i)] = run[NowEntry(i)]
  BY <1>3, JobFacts
<1>7. NowInv'
  <2>1. \A i \in 1..k - 1 : EndedWell(i)'
    BY <1>0, <1>1, <1>6 DEF EndedWell, Ended, NowEntry
  <2>2. \A i \in k + 1..Len(JobList) : run'[NowEntry(i)] = NoRun
    BY <1>0, <1>1, <1>6 DEF NowInv
  <2>3. code' = "none" /\ now' = k /\ ~run'[NowEntry(k)].killed
    BY <1>1, <1>3
  <2>4. ExitCodeTells'
    <3>1. ASSUME NEW i \in 1..Len(JobList) PROVE ~run'[NowEntry(i)].raised
      <4>1. CASE i < k
        BY <1>0, <1>1, <1>6, <4>1 DEF EndedWell
      <4>2. CASE i = k
        BY <1>3, <4>2
      <4>3. CASE i > k
        BY <1>0, <2>2, <4>3, NewRun
      <4> QED BY <1>0, <4>1, <4>2, <4>3
    <3> QED BY <2>3, <3>1, JobFacts DEF ExitCodeTells, NowEntry
  <2>5. (NowEntry(now))' = NowEntry(k) /\ \A i : (NowEntry(i))' = NowEntry(i)
    BY <2>3 DEF NowEntry
  <2> QED BY <1>0, <2>1, <2>2, <2>3, <2>4, <2>5 DEF NowInv
<1> QED BY <1>3, <1>4, <1>5, <1>7

LEMMA CreateEndsInv ==
  ASSUME IInv, CreateEnds
  PROVE  IInv'
<1> USE DEF IInv
<1>1. /\ now # 0 /\ now' = 0
      /\ run[NowEntry(now)].pc = "ended"
      /\ now = Len(JobList) \/ run[NowEntry(now)].raised
      /\ UNCHANGED <<daemon, waits, run, dotWork, dirs, left, runs, faults>>
  BY DEF CreateEnds
<1>2. PICK bad \in BOOLEAN :
        bad <=> (run[NowEntry(now)].raised \/ \E i \in 1..now : run[NowEntry(i)].status = "error")
  OBVIOUS
<1>3. code' = IF bad THEN "1" ELSE "0"
  BY <1>2 DEF CreateEnds
<1>4. now \in 1..Len(JobList) /\ Len(JobList) \in Nat
  <2>1. now \in 0..Len(JobList)
    BY DEF TypeOK
  <2>2. Len(JobList) \in Nat
    BY JobFacts
  <2>3. now # 0
    BY <1>1
  <2> QED BY <2>1, <2>2, <2>3
<1>5. \A i \in 1..now : Ended(NowEntry(i)) /\ (i # now => ~run[NowEntry(i)].raised)
  BY <1>1, <1>4 DEF NowInv, EndedWell, Ended
<1>6. TypeOK' /\ RunsOK' /\ DrainInv'
  <2>1. TypeOK'
    BY <1>1, <1>3, <1>4 DEF TypeOK
  <2> QED BY <1>1, <2>1 DEF RunsOK, DrainInv, Active
<1>7. ExitCodeTells'
  <2>1. ASSUME ~bad, NEW j \in Jobs
        PROVE  /\ Ended(<<"now", j>>)' /\ ~run'[<<"now", j>>].raised
               /\ run'[<<"now", j>>].status # "error"
    <3>1. PICK i \in 1..Len(JobList) : <<"now", j>> = NowEntry(i)
      BY JobFacts
    <3>2. i \in 1..now
      BY <1>1, <1>2, <1>4, <2>1
    <3> QED BY <1>1, <1>2, <1>5, <2>1, <3>1, <3>2 DEF Ended
  <2>2. ASSUME bad
        PROVE  \E j \in Jobs : /\ run'[<<"now", j>>].pc = "ended"
                              /\ \/ run'[<<"now", j>>].raised
                                 \/ run'[<<"now", j>>].status = "error"
    <3>1. PICK i \in 1..now : run[NowEntry(i)].raised \/ run[NowEntry(i)].status = "error"
      BY <1>2, <1>4, <2>2
    <3>2. JobList[i] \in Jobs /\ NowEntry(i) = <<"now", JobList[i]>>
      BY <1>4, JobFacts DEF Jobs, NowEntry
    <3> QED BY <1>1, <1>5, <3>1, <3>2 DEF Ended
  <2>3. \A i, k \in DOMAIN JobList :
          i < k /\ run'[NowEntry(i)].raised => run'[NowEntry(k)] = NoRun
    BY <1>1 DEF NowInv, ExitCodeTells
  <2> QED BY <1>3, <2>1, <2>2, <2>3 DEF ExitCodeTells, NowEntry
<1>8. ASSUME NEW i \in 1..Len(JobList) PROVE run'[NowEntry(i)].pc \in {"none", "ended"}
  <2>1. CASE i \in 1..now
    BY <1>1, <1>5, <2>1 DEF Ended
  <2>2. CASE i \notin 1..now
    <3>1. i \in now + 1..Len(JobList) /\ code = "none"
      BY <1>4, <2>2 DEF NowInv
    <3> QED BY <1>1, <3>1, NewRun DEF NowInv
  <2> QED BY <2>1, <2>2
<1>9. NowInv'
  BY <1>1, <1>3, <1>7, <1>8 DEF NowInv, Active, NowEntry
<1> QED BY <1>6, <1>9

LEMMA KillCreateInv ==
  ASSUME IInv, KillCreate
  PROVE  IInv'
<1> USE DEF IInv
<1>1. /\ Cut(Entries \ Daemons) /\ now' = 0 /\ code' = "killed"
      /\ faults' \in 0..MaxFaults /\ UNCHANGED <<daemon, waits>>
  BY OneFault DEF KillCreate
<1>2. /\ run' \in [Entries -> Run] /\ RunsOK'
      /\ \A x \in Daemons : run'[x] = run[x]
      /\ \A x \in Entries \ Daemons :
           /\ ~Active(x)'
           /\ ~Active(x) \/ run'[x].raised => run'[x] = run[x]
      /\ dirs' \subseteq Entries /\ left' \in BOOLEAN
      /\ UNCHANGED <<dotWork, runs>>
  <2>1. Entries \ Daemons \in SUBSET Entries
    OBVIOUS
  <2> QED BY <1>1, <2>1, Cuts, JobFacts
<1>3. TypeOK'
  BY <1>1, <1>2, JobFacts DEF TypeOK
<1>4. DrainInv'
  BY <1>1, <1>2 DEF DrainInv, Active
<1>5. ASSUME NEW i \in 1..Len(JobList), NEW k \in 1..Len(JobList), i < k, run'[NowEntry(i)].raised
      PROVE  run'[NowEntry(k)] = NoRun
  <2>1. run[NowEntry(i)].raised /\ run[NowEntry(k)] = NoRun
    BY <1>2, <1>5, JobFacts DEF NowInv, ExitCodeTells
  <2> QED BY <1>2, <2>1, JobFacts, NewRun DEF Active
<1>6. NowInv'
  <2>1. ExitCodeTells'
    BY <1>1, <1>5, JobFacts DEF ExitCodeTells, NowEntry
  <2>2. \A i \in 1..Len(JobList) : (~Active(NowEntry(i)))'
    BY <1>2, JobFacts DEF NowEntry, Active
  <2> QED BY <1>1, <2>1, <2>2 DEF NowInv
<1> QED BY <1>2, <1>3, <1>4, <1>6

LEMMA Next_IInv == IInv /\ [Next]_vars => IInv'
<1> SUFFICES ASSUME IInv, [Next]_vars PROVE IInv'
  OBVIOUS
<1>1. CASE UNCHANGED vars
  BY <1>1 DEF vars, IInv, TypeOK, RunsOK, DrainInv, NowInv, Active, EndedWell, Ended, NowEntry,
              ExitCodeTells
<1>2. CASE \E e \in Entries : RunStep(e) \/ RunFault(e)
  BY <1>2, RunStepInv
<1>3. CASE \/ \E e \in Daemons : Fire(e)
           \/ Start \/ Signal \/ Exit \/ SignalBreaksOff \/ KillDaemon \/ Restart
  BY <1>3, DaemonInv
<1>4. CASE Create \/ NextJob
  BY <1>4, CreateInv
<1>5. CASE CreateEnds \/ KillCreate
  BY <1>5, CreateEndsInv, KillCreateInv
<1> QED BY <1>1, <1>2, <1>3, <1>4, <1>5 DEF Next

THEOREM Inductive == Spec => []IInv
<1> QED BY Initially, Next_IInv, PTL DEF Spec

-----------------------------------------------------------------------------
(* No run that made its work dir and ended by itself did so unnoticed, and   *)
(* it left that dir only where its removal failed: whatever raised, whichever *)
(* channels broke.                                                           *)
THEOREM EveryEndReports == Spec => []EndedRunsReport
<1>1. IInv => EndedRunsReport
  <2> SUFFICES ASSUME IInv, NEW e \in Entries, Ended(e), run[e].made
               PROVE  Reported(e) /\ (e \in dirs => run[e].stuck)
    BY DEF EndedRunsReport
  <2>1. RunOK(e, run[e], dirs) /\ ByItself(run[e])
    BY DEF IInv, RunsOK, Ended, ByItself
  <2>2. (e \in dirs => run[e].stuck) /\ (run[e].recorded = run[e].status \/ run[e].lost)
    BY <2>1 DEF RunOK, DirGone, RecordDone, ByItself
  <2>3. ASSUME NEW i \in DOMAIN Channels[JobOf(e)], Wanted(e),
               Delivery[Channels[JobOf(e)][i]] = "works"
        PROVE  Channels[JobOf(e)][i] \in run[e].reached
    <3>1. run[e].sent = Len(Channels[JobOf(e)])
      BY <2>1, <2>3 DEF RunOK, AlertDone, Wanted, WantedBy
    <3> QED BY <2>1, <2>3, <3>1, ChannelFacts DEF RunOK, SentOK
  <2> QED BY <2>2, <2>3 DEF Reported
<1> QED BY <1>1, Inductive, PTL

(* A daemon that exited after its first signal or a second one cut none of   *)
(* its runs short: no run begins behind the first, so those it looked for as *)
(* it began to join are all there are.                                       *)
THEOREM DrainsWhole == Spec => []DrainCutsNothing
<1>1. IInv => DrainCutsNothing
  BY DEF IInv, DrainInv, DrainCutsNothing
<1> QED BY <1>1, Inductive, PTL

(* The exit code of `create` tells whether every job ran and ended well, and *)
(* no job runs behind one that raised.                                       *)
THEOREM TellsTheEnd == Spec => []ExitCodeTells
<1>1. IInv => ExitCodeTells
  BY DEF IInv, NowInv
<1> QED BY <1>1, Inductive, PTL
=============================================================================
