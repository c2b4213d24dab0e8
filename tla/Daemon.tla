------------------------------- MODULE Daemon -------------------------------
(***************************************************************************)
(* The processes that execute runs: the scheduler daemon (cli.run_daemon,   *)
(* scheduler.py), `create` or --now beside it (cli.run_all_now), and what   *)
(* each run does around its snapshot (runner.run_job): its work dir in the  *)
(* common .work, its hooks, its record for the healthcheck and its alerts   *)
(* (notify/manager.py). How the snapshot is made and stored is one step     *)
(* here, see Snapshot and BackupRun. The runs have ids of their own.        *)
(* APScheduler and the interpreter's exit are external.                     *)
(***************************************************************************)
EXTENDS Naturals, Sequences, FiniteSets

CONSTANTS
  JobList,    \* the configured jobs, in order
  Startup,    \* those with schedule.on_startup
  Level,      \* Level[j]: notifications.level as configured
  Channels,   \* Channels[j]: the channel names of job j, in order
  Delivery,   \* Delivery[c]: "works", "breaks" (its deliveries raise) or "skipped"
              \* (unknown, or not configured)
  MaxRuns,    \* runs of the daemon and `create` commands considered
  MaxFaults   \* failures and kills considered

Jobs    == {JobList[i] : i \in DOMAIN JobList}
Daemons == {"job", "startup"} \X Jobs      \* the ids of the scheduler's entries
Entries == Daemons \cup ({"now"} \X Jobs)

Statuses == {"success", "warning", "error"}
Names    == DOMAIN Delivery

ASSUME ConfigAssumption ==
  /\ JobList \in Seq(STRING)
  /\ \A i, k \in DOMAIN JobList : JobList[i] = JobList[k] => i = k
  /\ Startup \subseteq Jobs
  /\ DOMAIN Level = Jobs
  /\ Channels \in [Jobs -> Seq(Names)]
  /\ \A c \in Names : Delivery[c] \in {"works", "breaks", "skipped"}
  /\ MaxRuns \in Nat
  /\ MaxFaults \in Nat

VARIABLES
  daemon,   \* "starting", "running", "draining" (after one signal), "raising" (after
            \* two), "exited", "broken_off" (by a third one) or "killed"
  waits,    \* the entries whose threads its main thread joins
  now,      \* the index of the job `create` runs, 0 before and after
  code,     \* its exit code, or "none"
  run,      \* run[e]: the run entry e executes or executed last
  dotWork,  \* whether <data_dir>/.work exists
  dirs,     \* the entries whose run has its directory there
  left,     \* whether earlier runs left theirs there
  runs,     \* runs of the daemon and `create` commands so far
  faults    \* how many faults there were

vars == <<daemon, waits, now, code, run, dotWork, dirs, left, runs, faults>>

NoRun ==
  [pc |-> "none", made |-> FALSE, status |-> "success", aborted |-> FALSE, raised |-> FALSE,
   lost |-> FALSE, stuck |-> FALSE, killed |-> FALSE, recorded |-> "none", sent |-> 0,
   reached |-> {}]

Init ==
  /\ daemon = "starting"
  /\ waits = {}
  /\ now = 0
  /\ code = "none"
  /\ run = [e \in Entries |-> NoRun]
  /\ dotWork = FALSE
  /\ dirs = {}
  /\ left = FALSE
  /\ runs = 0
  /\ faults = 0

JobOf(e)  == e[2]
Active(e) == run[e].pc \notin {"none", "ended"}
Fault     == faults < MaxFaults /\ faults' = faults + 1
NoFault   == UNCHANGED faults
Become(e, r) == run' = [run EXCEPT ![e] = r]
Processes == UNCHANGED <<daemon, waits, now, code, left, runs>>
Work      == UNCHANGED <<dotWork, dirs>>

-----------------------------------------------------------------------------
(* The work dir: staging.mkdir(parents=True) creates what is missing from   *)
(* the top, one directory per call, and tries each directory once more      *)
(* after its parent. All of it comes before the guarded part of the run.    *)
At(e, call)    == run[e].pc = call
Goes(e, call)  == Become(e, [run[e] EXCEPT !.pc = call])
Raises(e)      == Become(e, [run[e] EXCEPT !.pc = "ended", !.raised = TRUE])

MakeWorkDir(e) ==
  /\ At(e, "mkdir") \/ At(e, "mkdir_again")
  /\ dotWork
  /\ dirs' = dirs \cup {e}
  /\ Become(e, [run[e] EXCEPT !.pc = "pre_backup", !.made = TRUE])
  /\ Processes
  /\ NoFault
  /\ UNCHANGED dotWork

MakeParent(e) ==
  /\ At(e, "mkdir")
  /\ ~dotWork
  /\ Goes(e, "mkdir_parent")
  /\ Processes
  /\ NoFault
  /\ Work

ParentMade(e) ==
  /\ At(e, "mkdir_parent")
  /\ dotWork' = TRUE
  /\ Goes(e, "mkdir_again")
  /\ Processes
  /\ NoFault
  /\ UNCHANGED dirs

\* Another run that ended took the empty parent away again.
ParentGone(e) ==
  /\ At(e, "mkdir_again")
  /\ ~dotWork
  /\ Raises(e)
  /\ Processes
  /\ NoFault
  /\ Work

MkdirFails(e) ==
  /\ run[e].pc \in {"mkdir", "mkdir_parent", "mkdir_again"}
  /\ Raises(e)
  /\ Fault
  /\ Processes
  /\ Work

-----------------------------------------------------------------------------
(* The guarded part, and what follows it: a run that comes through cleans   *)
(* up, records, alerts and runs its last hooks; one that raised records and *)
(* alerts first, then cleans up and raises on.                              *)
\* Mutant: an aborted run sends no alert.
AfterQuietly(r) ==
  IF r.aborted
  THEN [record |-> "rmtree", rmtree |-> "rmdir", rmdir |-> "ended"][r.pc]
  ELSE [rmtree |-> "rmdir", rmdir |-> "record", record |-> "alert", alert |-> "post_backup",
        post_backup |-> "ended"][r.pc]

After(r) ==
  IF r.aborted
  THEN [record |-> "alert", alert |-> "rmtree", rmtree |-> "rmdir", rmdir |-> "ended"][r.pc]
  ELSE [rmtree |-> "rmdir", rmdir |-> "record", record |-> "alert", alert |-> "post_backup",
        post_backup |-> "ended"][r.pc]
Done(e, r) == Become(e, [r EXCEPT !.pc = After(run[e])])

PreBackup(e) ==
  /\ At(e, "pre_backup")
  /\ Goes(e, "snapshot")
  /\ Processes
  /\ NoFault
  /\ Work

Snapshot(e) ==
  /\ At(e, "snapshot")
  /\ \E s \in Statuses : Become(e, [run[e] EXCEPT !.pc = "rmtree", !.status = s])
  /\ Processes
  /\ NoFault
  /\ Work

Aborts(e) ==
  /\ run[e].pc \in {"pre_backup", "snapshot"}
  /\ Become(e, [run[e] EXCEPT !.pc = "record", !.status = "error", !.aborted = TRUE,
                              !.raised = TRUE])
  /\ Fault
  /\ Processes
  /\ Work

RemoveWorkDir(e) ==
  /\ At(e, "rmtree")
  /\ dirs' = dirs \ {e}
  /\ Done(e, run[e])
  /\ Processes
  /\ NoFault
  /\ UNCHANGED dotWork

\* rmtree ignores its errors: the run goes on over what it could not delete.
RemovalFails(e) ==
  /\ At(e, "rmtree")
  /\ Done(e, [run[e] EXCEPT !.stuck = TRUE])
  /\ Fault
  /\ Processes
  /\ Work

\* Mutant: the run waits until .work is empty.
RemoveParentWaits(e) ==
  /\ At(e, "rmdir")
  /\ dirs = {} /\ ~left
  /\ dotWork' = FALSE
  /\ Done(e, run[e])
  /\ Processes
  /\ NoFault
  /\ UNCHANGED dirs

RemoveParent(e) ==
  /\ At(e, "rmdir")
  /\ dotWork' = (dotWork /\ (dirs # {} \/ left))
  /\ Done(e, run[e])
  /\ Processes
  /\ NoFault
  /\ UNCHANGED dirs

Record(e) ==
  /\ At(e, "record")
  /\ Done(e, [run[e] EXCEPT !.recorded = run[e].status])
  /\ Processes
  /\ NoFault
  /\ Work

RecordFails(e) ==
  /\ At(e, "record")
  /\ Done(e, [run[e] EXCEPT !.lost = TRUE])
  /\ Fault
  /\ Processes
  /\ Work

\* An unknown level counts as "warnings".
Admits(level, status) ==
  status \in (IF level = "errors" THEN {"error"}
              ELSE IF level = "all" THEN Statuses ELSE {"warning", "error"})
Wanted(e) == Admits(Level[JobOf(e)], run[e].status)

\* Each channel on its own: a name that is unknown or not configured is
\* skipped, a delivery that raises is logged.
Deliver(e) ==
  /\ At(e, "alert")
  /\ Wanted(e)
  /\ run[e].sent < Len(Channels[JobOf(e)])
  /\ LET c == Channels[JobOf(e)][run[e].sent + 1] IN
     Become(e, [run[e] EXCEPT !.sent = run[e].sent + 1,
                              !.reached = run[e].reached \cup
                                            (IF Delivery[c] = "works" THEN {c} ELSE {})])
  /\ Processes
  /\ NoFault
  /\ Work

Alerted(e) ==
  /\ At(e, "alert")
  /\ Wanted(e) => run[e].sent = Len(Channels[JobOf(e)])
  /\ Done(e, run[e])
  /\ Processes
  /\ NoFault
  /\ Work

PostBackup(e) ==
  /\ At(e, "post_backup")
  /\ Done(e, run[e])
  /\ Processes
  /\ NoFault
  /\ Work

PostBackupRaises(e) ==
  /\ At(e, "post_backup")
  /\ Done(e, [run[e] EXCEPT !.raised = TRUE])
  /\ Fault
  /\ Processes
  /\ Work

RunStep(e) ==
  \/ MakeWorkDir(e) \/ MakeParent(e) \/ ParentMade(e) \/ ParentGone(e)
  \/ PreBackup(e) \/ Snapshot(e)
  \/ RemoveWorkDir(e) \/ RemoveParent(e) \/ Record(e)
  \/ Deliver(e) \/ Alerted(e) \/ PostBackup(e)

RunFault(e) ==
  MkdirFails(e) \/ Aborts(e) \/ RemovalFails(e) \/ RecordFails(e) \/ PostBackupRaises(e)

-----------------------------------------------------------------------------
(* The daemon: one thread per due entry, at most one run per entry; what a  *)
(* run raises is logged. A signal stops the scheduler, which then joins the *)
(* threads. One that comes before the scheduler runs, or again while it     *)
(* joins, raises in the main thread, and the exiting interpreter joins the  *)
(* threads once more; a third one breaks that off, and the threads end with *)
(* the process.                                                             *)
Bounded == runs < MaxRuns /\ runs' = runs + 1
Begin(e) ==
  /\ Become(e, [NoRun EXCEPT !.pc = "mkdir"])
  /\ left' = (left \/ e \in dirs)    \* an earlier run's, of another id
  /\ dirs' = dirs \ {e}
  /\ NoFault
  /\ UNCHANGED dotWork

Start ==
  /\ daemon = "starting"
  /\ daemon' = "running"
  /\ UNCHANGED <<waits, now, code, run, dotWork, dirs, left, runs, faults>>

Fire(e) ==
  /\ daemon = "running"
  /\ ~Active(e)
  /\ e[1] = "startup" => JobOf(e) \in Startup /\ run[e] = NoRun
  /\ Begin(e)
  /\ Bounded
  /\ UNCHANGED <<daemon, waits, now, code>>

Working == {e \in Daemons : Active(e)}

\* Mutant: shutdown(wait=False).
SignalWaitsForNone ==
  /\ \/ daemon = "starting" /\ daemon' = "exited"
     \/ daemon \in {"running", "draining"} /\ daemon' = "draining"
  /\ waits' = {}
  /\ UNCHANGED <<now, code, run, dotWork, dirs, left, runs, faults>>

Signal ==
  /\ \/ daemon = "starting" /\ daemon' = "exited" /\ waits' = {}
     \/ daemon = "running"  /\ daemon' = "draining" /\ waits' = Working
     \/ daemon = "draining" /\ daemon' = "raising" /\ waits' = Working
  /\ UNCHANGED <<now, code, run, dotWork, dirs, left, runs, faults>>

Exit ==
  /\ daemon \in {"draining", "raising"}
  /\ \A e \in waits : ~Active(e)
  /\ daemon' = "exited"
  /\ waits' = {}
  /\ UNCHANGED <<now, code, run, dotWork, dirs, left, runs, faults>>

\* The end of a process ends its threads; the work dirs stay. What a run cut off
\* had reported is not asked for.
Cut(E) ==
  /\ run' = [e \in Entries |->
               IF e \in E /\ Active(e)
               THEN [NoRun EXCEPT !.pc = "ended", !.killed = TRUE] ELSE run[e]]
  /\ left' = (left \/ dirs \cap E # {})
  /\ dirs' = dirs \ E
  /\ UNCHANGED <<dotWork, runs>>

SignalBreaksOff ==
  /\ daemon = "raising"
  /\ daemon' = "broken_off"
  /\ waits' = {}
  /\ Cut(Daemons)
  /\ NoFault
  /\ UNCHANGED <<now, code>>

KillDaemon ==
  /\ daemon \in {"running", "draining", "raising"}
  /\ daemon' = "killed"
  /\ waits' = {}
  /\ Cut(Daemons)
  /\ Fault
  /\ UNCHANGED <<now, code>>

Restart ==
  /\ daemon \in {"exited", "broken_off", "killed"}
  /\ runs < MaxRuns
  /\ daemon' = "starting"
  /\ run' = [e \in Entries |-> IF e \in Daemons THEN NoRun ELSE run[e]]
  /\ left' = (left \/ dirs \cap Daemons # {})
  /\ dirs' = dirs \ Daemons
  /\ UNCHANGED <<waits, now, code, dotWork, runs, faults>>

-----------------------------------------------------------------------------
(* `create` and --now: every job once, in order; what a run raises ends the *)
(* loop and the process.                                                    *)
NowEntry(i) == <<"now", JobList[i]>>

Create ==
  /\ now = 0
  /\ code = "none"
  /\ JobList # <<>>
  /\ now' = 1
  /\ Begin(NowEntry(1))
  /\ Bounded
  /\ UNCHANGED <<daemon, waits, code>>

\* Mutant: a run that raised does not end the loop.
NextJobBehindRaised ==
  /\ now \in 1..Len(JobList) - 1
  /\ run[NowEntry(now)].pc = "ended"
  /\ now' = now + 1
  /\ Begin(NowEntry(now + 1))
  /\ UNCHANGED <<daemon, waits, code, runs>>

NextJob ==
  /\ now \in 1..Len(JobList) - 1
  /\ run[NowEntry(now)].pc = "ended"
  /\ ~run[NowEntry(now)].raised
  /\ now' = now + 1
  /\ Begin(NowEntry(now + 1))
  /\ UNCHANGED <<daemon, waits, code, runs>>

CreateEnds ==
  /\ now # 0
  /\ run[NowEntry(now)].pc = "ended"
  /\ now = Len(JobList) \/ run[NowEntry(now)].raised
  /\ now' = 0
  /\ code' = IF run[NowEntry(now)].raised \/
                \E i \in 1..now : run[NowEntry(i)].status = "error"
             THEN "1" ELSE "0"
  /\ UNCHANGED <<daemon, waits, run, dotWork, dirs, left, runs, faults>>

KillCreate ==
  /\ now # 0
  /\ now' = 0
  /\ code' = "killed"
  /\ Cut(Entries \ Daemons)
  /\ Fault
  /\ UNCHANGED <<daemon, waits>>

Next ==
  \/ \E e \in Entries : RunStep(e) \/ RunFault(e)
  \/ \E e \in Daemons : Fire(e)
  \/ Start \/ Signal \/ Exit \/ SignalBreaksOff \/ KillDaemon \/ Restart
  \/ Create \/ NextJob \/ CreateEnds \/ KillCreate

\* Every call of a run ends: dumps, requests and deliveries have timeouts; that
\* age, gpg and the hooks end, which have none, is assumed.
Fairness ==
  /\ \A e \in Entries : WF_vars(RunStep(e))
  /\ WF_vars(Exit)
  /\ WF_vars(NextJob \/ CreateEnds)

Spec     == Init /\ [][Next]_vars
FairSpec == Spec /\ Fairness

-----------------------------------------------------------------------------
Calls == {"none", "mkdir", "mkdir_parent", "mkdir_again", "pre_backup", "snapshot", "rmtree",
          "rmdir", "record", "alert", "post_backup", "ended"}

Run ==
  [pc : Calls, made : BOOLEAN, status : Statuses, aborted : BOOLEAN, raised : BOOLEAN,
   lost : BOOLEAN, stuck : BOOLEAN, killed : BOOLEAN, recorded : Statuses \cup {"none"},
   sent : Nat, reached : SUBSET Names]

TypeOK ==
  /\ daemon \in {"starting", "running", "draining", "raising", "exited", "broken_off",
                "killed"}
  /\ waits \subseteq Daemons
  /\ now \in 0..Len(JobList)
  /\ code \in {"none", "0", "1", "killed"}
  /\ run \in [Entries -> Run]
  /\ dotWork \in BOOLEAN
  /\ dirs \subseteq Entries
  /\ left \in BOOLEAN
  /\ runs \in 0..MaxRuns
  /\ faults \in 0..MaxFaults

\* The run could make its work dir and came to its end in a live process.
Ended(e)    == run[e].pc = "ended" /\ ~run[e].killed
Reported(e) ==
  /\ run[e].recorded = run[e].status \/ run[e].lost
  /\ \A i \in DOMAIN Channels[JobOf(e)] :
       LET c == Channels[JobOf(e)][i] IN
       Wanted(e) /\ Delivery[c] = "works" => c \in run[e].reached

\* No run ends unnoticed, whatever raised in it and whichever channel is broken:
\* it left its outcome for the healthcheck, unless that write failed, reached
\* every working channel its level admits, and left no work dir behind, unless
\* the removal failed. The exception: a run that could not make its work dir.
EndedRunsReport ==
  \A e \in Entries : Ended(e) /\ run[e].made =>
    Reported(e) /\ (e \in dirs => run[e].stuck)

\* What deployment.md promises, without the exception: every run, an aborted one
\* included, writes its record.
EveryRunRecords ==
  \A e \in Entries : Ended(e) /\ ~run[e].lost => run[e].recorded # "none"

\* A drained daemon cut no run short: once it has exited, every run it began has
\* ended by itself, however they interleaved with its first signal and a second
\* one. The exception is a third one. Concerns install_signal_drain.
DrainCutsNothing ==
  daemon = "exited" => \A e \in Daemons : ~Active(e) /\ ~run[e].killed

\* Exit code 0 of `create` means that every job ran and none ended in error,
\* and 1 that a job did or raised; no job runs behind one that raised.
\* Concerns run_all_now, with post_backup hooks that raise after a good record.
ExitCodeTells ==
  LET Good(j) == Ended(<<"now", j>>) /\ ~run[<<"now", j>>].raised
                 /\ run[<<"now", j>>].status # "error" IN
  /\ code = "0" => \A j \in Jobs : Good(j)
  /\ code = "1" => \E j \in Jobs : run[<<"now", j>>].pc = "ended" /\ ~Good(j)
  /\ \A i, k \in DOMAIN JobList :
       i < k /\ run[NowEntry(i)].raised => run[NowEntry(k)] = NoRun

\* A daemon that is asked to stop exits, and `create` comes to its end, however
\* often runs raise: no run hangs the process and no raise loses the loop.
StopsWhenAsked ==
  /\ (daemon \in {"draining", "raising"}) ~> (daemon \in {"exited", "broken_off", "killed"})
  /\ (now # 0) ~> (now = 0)
=============================================================================
