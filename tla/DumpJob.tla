-------------------------------- MODULE DumpJob --------------------------------
(***************************************************************************)
(* The backup job: every run of RunAutoDumpJob, a process that cron starts *)
(* once a day, dumps the database to a local file, uploads it with SFTP    *)
(* and then removes the oldest remote backups.  Nothing keeps a run that   *)
(* hangs from overlapping with the next ones.                              *)
(*                                                                         *)
(* The file of run r is named r.  The modification time of a remote file   *)
(* is its place in the sequence remote.                                    *)
(***************************************************************************)
EXTENDS Integers, Sequences, FiniteSets, SequencesExt

CONSTANTS Runs,         \* runs of the job
          Keep,         \* keepLastN, 5 in the code
          MaxOverlap    \* bound: runs active at once

ASSUME RunsAssumption == IsFiniteSet(Runs)
ASSUME KeepAssumption == Keep \in Nat \ {0}
ASSUME MaxOverlapAssumption == MaxOverlap \in Nat

VARIABLES
    at,          \* at[r]: where run r stands
    remote,      \* the remote backups, by modification time
    complete,    \* files that were uploaded to their end
    toDelete,    \* toDelete[r]: backups r is about to remove, oldest first
    local,       \* dumps in /tmp
    \* history:
    created,     \* runs that created their remote file
    missed,      \* runs that failed to remove a file
    overtaken    \* files that were written after they were marked for removal

vars == <<at, remote, complete, toDelete, local, created, missed, overtaken>>

Ends == {"dump failed", "panicked", "warnings", "successful", "killed"}
Uploading == {"create", "write"}
Active == {"dump", "connect", "list", "remove"} \cup Uploading

Init ==
    /\ at = [r \in Runs |-> "new"]
    /\ remote = <<>>
    /\ complete = {}
    /\ toDelete = [r \in Runs |-> <<>>]
    /\ local = {}
    /\ created = {}
    /\ missed = {}
    /\ overtaken = {}

Goto(r, place) == at' = [at EXCEPT ![r] = place]
Position(f) == CHOOSE i \in DOMAIN remote : remote[i] = f
Without(f) == IF f \in ToSet(remote) THEN RemoveAt(remote, Position(f)) ELSE remote
Marked(f) == \E r \in Runs : at[r] = "remove" /\ f \in ToSet(toDelete[r])

-------------------------------------------------------------------------------
(* The dump.                                                                *)

Start(r) ==
    /\ at[r] = "new"
    /\ Cardinality({q \in Runs : at[q] \in Active}) < MaxOverlap
    /\ Goto(r, "dump")
    /\ local' = local \cup {r}
    /\ UNCHANGED <<remote, complete, toDelete, created, missed, overtaken>>

Dump(r) ==
    /\ at[r] = "dump"
    /\ Goto(r, "connect")
    /\ UNCHANGED <<remote, complete, toDelete, local, created, missed, overtaken>>

(* The file cannot be created, or pg_dump fails: the run ends before the    *)
(* removal of its file is deferred.                                         *)
DumpFails(r) ==
    /\ at[r] \in {"new", "dump"}
    /\ Goto(r, "dump failed")
    /\ UNCHANGED <<remote, complete, toDelete, local, created, missed, overtaken>>

Connect(r) ==
    /\ at[r] = "connect"
    /\ Goto(r, "create")
    /\ UNCHANGED <<remote, complete, toDelete, local, created, missed, overtaken>>

ConnectFailsEarly(r) ==                                            \* mutant
    /\ at[r] = "connect"
    /\ Goto(r, "panicked")
    /\ UNCHANGED <<remote, complete, toDelete, local, created, missed, overtaken>>

(* The error is logged and the missing client used: the run panics, and its *)
(* deferred calls run.                                                      *)
ConnectFails(r) ==
    /\ at[r] = "connect"
    /\ Goto(r, "panicked")
    /\ local' = local \ {r}
    /\ UNCHANGED <<remote, complete, toDelete, created, missed, overtaken>>

-------------------------------------------------------------------------------
(* uploadFile.                                                              *)

CreateRemote(r) ==
    /\ at[r] = "create"
    /\ remote' = Append(remote, r)
    /\ created' = created \cup {r}
    /\ Goto(r, "write")
    /\ UNCHANGED <<complete, toDelete, local, missed, overtaken>>

(* A write sets the modification time; a file that another run has removed  *)
(* does not come back.                                                      *)
Touch(r) ==
    /\ remote' = IF r \in ToSet(remote) THEN Append(Without(r), r) ELSE remote
    /\ overtaken' = IF Marked(r) THEN overtaken \cup {r} ELSE overtaken

WriteMore(r) ==
    /\ at[r] = "write"
    /\ Touch(r)
    /\ UNCHANGED <<at, complete, toDelete, local, created, missed>>

WriteRest(r) ==
    /\ at[r] = "write"
    /\ Touch(r)
    /\ complete' = complete \cup {r}
    /\ Goto(r, "list")
    /\ UNCHANGED <<toDelete, local, created, missed>>

(* The error is logged; the run goes on to the cleanup, and what was        *)
(* written stays.                                                           *)
UploadFails(r) ==
    /\ at[r] \in Uploading
    /\ Goto(r, "list")
    /\ UNCHANGED <<remote, complete, toDelete, local, created, missed, overtaken>>

-------------------------------------------------------------------------------
(* cleanOldBackups.                                                         *)

NewestOf(files) ==                                                 \* mutant
    IF Len(files) <= Keep THEN <<>> ELSE SubSeq(files, Keep + 1, Len(files))
OldestButOne(files) ==                                             \* mutant
    IF Len(files) <= Keep + 1 THEN <<>> ELSE SubSeq(files, 1, Len(files) - Keep - 1)
OldestAndOne(files) ==                                             \* mutant
    IF Len(files) <= Keep THEN <<>> ELSE SubSeq(files, 1, Len(files) - Keep + 1)
Oldest(files) ==
    IF Len(files) <= Keep THEN <<>> ELSE SubSeq(files, 1, Len(files) - Keep)

ListBackups(r) ==
    /\ at[r] = "list"
    /\ toDelete' = [toDelete EXCEPT ![r] = Oldest(remote)]
    /\ Goto(r, "remove")
    /\ UNCHANGED <<remote, complete, local, created, missed, overtaken>>

ListFails(r) ==
    /\ at[r] = "list"
    /\ Goto(r, "warnings")
    /\ local' = local \ {r}
    /\ UNCHANGED <<remote, complete, toDelete, created, missed, overtaken>>

(* A file that is gone already is not found: logged, like any failure. *)
RemoveOldest(r) ==
    /\ at[r] = "remove" /\ toDelete[r] # <<>>
    /\ remote' = Without(Head(toDelete[r]))
    /\ toDelete' = [toDelete EXCEPT ![r] = Tail(@)]
    /\ UNCHANGED <<at, complete, local, created, missed, overtaken>>

(* The failure is logged and the next file tried; the run still counts as   *)
(* successful.                                                              *)
RemoveFails(r) ==
    /\ at[r] = "remove" /\ toDelete[r] # <<>>
    /\ toDelete' = [toDelete EXCEPT ![r] = Tail(@)]
    /\ missed' = missed \cup {r}
    /\ UNCHANGED <<at, remote, complete, local, created, overtaken>>

Finish(r) ==
    /\ at[r] = "remove" /\ toDelete[r] = <<>>
    /\ Goto(r, "successful")
    /\ local' = local \ {r}
    /\ UNCHANGED <<remote, complete, toDelete, created, missed, overtaken>>

(* The process is killed, or the machine restarts. *)
Killed(r) ==
    /\ at[r] \in Active
    /\ Goto(r, "killed")
    /\ UNCHANGED <<remote, complete, toDelete, local, created, missed, overtaken>>

-------------------------------------------------------------------------------
Next ==
    \E r \in Runs :
        \/ Start(r) \/ Dump(r) \/ DumpFails(r) \/ Connect(r) \/ ConnectFails(r)
        \/ CreateRemote(r) \/ WriteMore(r) \/ WriteRest(r) \/ UploadFails(r)
        \/ ListBackups(r) \/ ListFails(r)
        \/ RemoveOldest(r) \/ RemoveFails(r) \/ Finish(r)
        \/ Killed(r)

Spec == Init /\ [][Next]_vars

-------------------------------------------------------------------------------
(* Correctness.                                                             *)

Partial == created \ complete
\* The runs whose cleanup counted: they removed all they meant to.
Clean == {r \in Runs : at[r] = "successful"} \ missed

(* The variables keep their types; a remote directory never holds two files *)
(* of a name, and a run never removes a file twice.                         *)
TypeOK ==
    /\ at \in [Runs -> {"new"} \cup Active \cup Ends]
    /\ remote \in Seq(Runs) /\ IsInjective(remote)
    /\ toDelete \in [Runs -> Seq(Runs)]
    /\ \A r \in Runs : IsInjective(toDelete[r])
    /\ complete \subseteq created
    /\ created \subseteq Runs /\ missed \subseteq Runs
    /\ local \subseteq Runs /\ overtaken \subseteq Runs

(* As long as fewer uploads broke off, or are still running, than backups   *)
(* are kept, a complete backup stays on the server (cleanOldBackups), also  *)
(* while several runs clean up at once with lists they read at different    *)
(* times.  Files written while they are about to be removed are excepted:   *)
(* of two overlapping runs each may then remove the backup of the other.    *)
CompleteSurvives ==
    complete # {} /\ Cardinality(Partial) < Keep /\ overtaken = {}
        => complete \cap ToSet(remote) # {}

(* Whatever the runs have read and when, a file is removed only while Keep  *)
(* newer ones are there (toDelete in cleanOldBackups), with the same        *)
(* exception.                                                               *)
KeepNewer ==
    [][\A f \in ToSet(remote) \ ToSet(remote') :
           overtaken = {} => Len(remote) - Position(f) >= Keep]_vars

(* The server does not fill up: what it holds beyond Keep files is owed to  *)
(* runs that created a file and whose cleanup is still to come or failed.   *)
FilesBounded ==
    Len(remote) <= Keep + Cardinality(created \ Clean)

(* /tmp does not fill up: a dump stays there only while its run is active,  *)
(* and after a run that was killed or whose dump failed (the deferred       *)
(* os.Remove of RunAutoDumpJob).                                            *)
LocalFreed ==
    \A r \in local : at[r] \in Active \cup {"dump failed", "killed"}

(* "keep last 5": once a complete backup was uploaded, one is there.  The   *)
(* code does not keep this: a broken upload counts as a backup.             *)
BackupSurvives ==
    complete # {} => complete \cap ToSet(remote) # {}
===============================================================================
