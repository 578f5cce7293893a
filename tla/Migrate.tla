------------------------------ MODULE Migrate ------------------------------
(***************************************************************************)
(* The migration job: runs of cmd/migrate against one database.  A run is  *)
(* a pod of the job (Kubernetes starts up to four) or of another release's *)
(* job, each with the files of its own image, under the context's sixty    *)
(* seconds.  The process and its PostgreSQL session are separate actors:   *)
(* the process can die or give up while its session still waits for the    *)
(* lock, holds it, or carries out a commit; and the session can be lost    *)
(* under a live process, whose next statement then fails.                  *)
(*                                                                         *)
(* A file is its position in the order Glob returns; its content is its    *)
(* checksum.                                                               *)
(***************************************************************************)
EXTENDS Naturals, Sequences

CONSTANTS Runs,     \* runs of the job
          N,        \* number of file names, in Glob's order
          Sums,     \* checksums of contents
          Images,   \* directories a run can ship: [Files -> Sums \cup {None}]
          Cut,      \* the runs that errors, their deadline or their death may cut
          None

Files == 1..N

ASSUME NAssumption == N \in Nat
ASSUME ImagesAssumption == Images \subseteq [Files -> Sums \cup {None}]
ASSUME CutAssumption == Cut \subseteq Runs
ASSUME NoneAssumption == None \notin Sums \cup Runs

VARIABLES
  dir,      \* per run: the files it ships
  client,   \* per run: where its process is
  at,       \* per run: the file it is at
  session,  \* per run: its PostgreSQL session
  tx,       \* per run: what its open transaction has done
  lock,     \* the session that holds advisory lock 710204
  table,    \* schema_migrations: the checksum recorded for each file
  applied   \* the contents committed to the schema, in order

vars == <<dir, client, at, session, tx, lock, table, applied>>

Statements == {"reading", "begun", "executed", "inserted", "committing"}
Ended      == {"done", "refused", "exited"}

TypeOK ==
  /\ dir \in [Runs -> [Files -> Sums \cup {None}]]
  /\ client \in [Runs -> {"new", "locking"} \cup Statements \cup Ended]
  /\ at \in [Runs -> Files \cup {0}]
  /\ session \in [Runs -> {"none", "waiting", "idle", "commit"}]
  /\ tx \in [Runs -> SUBSET {"sql", "row"}]
  /\ lock \in Runs \cup {None}
  /\ table \in [Files -> Sums \cup {None}]
  /\ applied \in Seq([file : Files, sum : Sums, by : Runs])

Init ==
  /\ dir \in [Runs -> Images]
  /\ client = [r \in Runs |-> "new"]
  /\ at = [r \in Runs |-> 0]
  /\ session = [r \in Runs |-> "none"]
  /\ tx = [r \in Runs |-> {}]
  /\ lock = None
  /\ table = [f \in Files |-> None]
  /\ applied = <<>>

-----------------------------------------------------------------------------
(* The process. *)

Ships(r, f) == dir[r][f] # None
\* f is the file after the one the run is at.
Following(r, f) == /\ f > at[r] /\ Ships(r, f)
                   /\ \A g \in Files : g > at[r] /\ g < f => ~Ships(r, g)

Goes(r, to) == client' = [client EXCEPT ![r] = to]

\* A statement is answered only on a session that is there and not busy.
Statement(r, from) == client[r] = from /\ session[r] = "idle"

\* Connect, and ask for the lock.
Connect(r) ==
  /\ client[r] = "new"
  /\ Goes(r, "locking")
  /\ session' = [session EXCEPT ![r] = "waiting"]
  /\ UNCHANGED <<dir, at, tx, lock, table, applied>>

\* No file matches.
NoFiles(r) ==
  /\ Statement(r, "locking")
  /\ \A f \in Files : ~Ships(r, f)
  /\ Goes(r, "exited")
  /\ UNCHANGED <<dir, at, session, tx, lock, table, applied>>

\* The lock is granted: make sure of the table, list the files.
Start(r) ==
  /\ Statement(r, "locking")
  /\ \E f \in Files : Ships(r, f)
  /\ Goes(r, "reading")
  /\ UNCHANGED <<dir, at, session, tx, lock, table, applied>>

\* Mutation: Any recorded file is skipped, whatever its checksum.
SkipUnchecked(r) ==
  /\ Statement(r, "reading")
  /\ \E f \in Files :
       /\ Following(r, f)
       /\ table[f] # None
       /\ at' = [at EXCEPT ![r] = f]
  /\ UNCHANGED <<dir, client, session, tx, lock, table, applied>>

\* The file is recorded with this checksum.
Skip(r) ==
  /\ Statement(r, "reading")
  /\ \E f \in Files :
       /\ Following(r, f)
       /\ table[f] = dir[r][f]
       /\ at' = [at EXCEPT ![r] = f]
  /\ UNCHANGED <<dir, client, session, tx, lock, table, applied>>

\* The file is recorded with another checksum.
Refuse(r) ==
  /\ Statement(r, "reading")
  /\ \E f \in Files : Following(r, f) /\ table[f] \notin {None, dir[r][f]}
  /\ Goes(r, "refused")
  /\ UNCHANGED <<dir, at, session, tx, lock, table, applied>>

\* The file is not recorded: begin its transaction.
Begin(r) ==
  /\ Statement(r, "reading")
  /\ \E f \in Files :
       /\ Following(r, f)
       /\ table[f] = None
       /\ at' = [at EXCEPT ![r] = f]
  /\ Goes(r, "begun")
  /\ UNCHANGED <<dir, session, tx, lock, table, applied>>

Exec(r) ==
  /\ Statement(r, "begun")
  /\ Goes(r, "executed")
  /\ tx' = [tx EXCEPT ![r] = @ \cup {"sql"}]
  /\ UNCHANGED <<dir, at, session, lock, table, applied>>

\* Mutation: The row is inserted by the connection, outside the transaction.
InsertOutside(r) ==
  /\ Statement(r, "executed")
  /\ Goes(r, "inserted")
  /\ table' = [table EXCEPT ![at[r]] = dir[r][at[r]]]
  /\ UNCHANGED <<dir, at, session, tx, lock, applied>>

Insert(r) ==
  /\ Statement(r, "executed")
  /\ Goes(r, "inserted")
  /\ tx' = [tx EXCEPT ![r] = @ \cup {"row"}]
  /\ UNCHANGED <<dir, at, session, lock, table, applied>>

Commit(r) ==
  /\ Statement(r, "inserted")
  /\ Goes(r, "committing")
  /\ session' = [session EXCEPT ![r] = "commit"]
  /\ UNCHANGED <<dir, at, tx, lock, table, applied>>

\* Mutation: Commit's answer is not waited for.
CommittedUnchecked(r) ==
  /\ client[r] = "committing"
  /\ Goes(r, "reading")
  /\ UNCHANGED <<dir, at, session, tx, lock, table, applied>>

Committed(r) ==
  /\ Statement(r, "committing")
  /\ Goes(r, "reading")
  /\ UNCHANGED <<dir, at, session, tx, lock, table, applied>>

\* No file is left.
Finish(r) ==
  /\ client[r] = "reading"
  /\ \A f \in Files : f > at[r] => ~Ships(r, f)
  /\ Goes(r, "done")
  /\ UNCHANGED <<dir, at, session, tx, lock, table, applied>>

\* Any error, the end of the sixty seconds, or the death of the process.
Exit(r) ==
  /\ r \in Cut
  /\ client[r] \in {"locking"} \cup Statements
  /\ Goes(r, "exited")
  /\ UNCHANGED <<dir, at, session, tx, lock, table, applied>>

-----------------------------------------------------------------------------
(* PostgreSQL. *)

\* Mutation: pg_advisory_lock is not taken.
GrantToAll(r) ==
  /\ session[r] = "waiting"
  /\ lock' = r
  /\ session' = [session EXCEPT ![r] = "idle"]
  /\ UNCHANGED <<dir, client, at, tx, table, applied>>

\* A session gets the lock, whether or not its process is still there.
Grant(r) ==
  /\ session[r] = "waiting"
  /\ lock = None
  /\ lock' = r
  /\ session' = [session EXCEPT ![r] = "idle"]
  /\ UNCHANGED <<dir, client, at, tx, table, applied>>

\* A commit that has reached the server takes effect.
Commits(r) ==
  /\ session[r] = "commit"
  /\ session' = [session EXCEPT ![r] = "idle"]
  /\ tx' = [tx EXCEPT ![r] = {}]
  /\ table' = IF "row" \in tx[r] THEN [table EXCEPT ![at[r]] = dir[r][at[r]]] ELSE table
  /\ applied' = IF "sql" \in tx[r]
                THEN Append(applied, [file |-> at[r], sum |-> dir[r][at[r]], by |-> r])
                ELSE applied
  /\ UNCHANGED <<dir, client, at, lock>>

\* Mutation: The lock outlives its session.
SessionKeepsLock(r) ==
  /\ session[r] \in {"waiting", "idle"}
  /\ r \in Cut \/ client[r] \in Ended
  /\ session' = [session EXCEPT ![r] = "none"]
  /\ tx' = [tx EXCEPT ![r] = {}]
  /\ UNCHANGED <<dir, client, at, lock, table, applied>>

\* The session ends, with its process or alone: rolled back, lock released.
SessionEnds(r) ==
  /\ session[r] \in {"waiting", "idle"}
  /\ r \in Cut \/ client[r] \in Ended
  /\ session' = [session EXCEPT ![r] = "none"]
  /\ tx' = [tx EXCEPT ![r] = {}]
  /\ lock' = IF lock = r THEN None ELSE lock
  /\ UNCHANGED <<dir, client, at, table, applied>>

Process(r) == \/ Connect(r) \/ NoFiles(r) \/ Start(r) \/ Skip(r) \/ Refuse(r)
              \/ Begin(r) \/ Exec(r) \/ Insert(r) \/ Commit(r) \/ Committed(r) \/ Finish(r)

Next == \E r \in Runs : \/ Process(r) \/ Exit(r)
                        \/ Grant(r) \/ Commits(r) \/ SessionEnds(r)

Spec == Init /\ [][Next]_vars

\* A process goes on, or its deadline ends it; the server carries out what it
\* has accepted, and ends the session of a process that is gone.
Fairness ==
  \A r \in Runs : /\ WF_vars(Process(r) \/ Exit(r))
                  /\ WF_vars(Grant(r)) /\ WF_vars(Commits(r))
                  /\ WF_vars(client[r] \in Ended /\ SessionEnds(r))

FairSpec == Spec /\ Fairness

-----------------------------------------------------------------------------
(* Properties. *)

\* Two runs never change the schema at the same time, also when one of them
\* is a session whose process has died or given up: the lock lives as long
\* as the transaction.
Exclusive == \A r, q \in Runs : tx[r] # {} /\ tx[q] # {} => r = q

\* "applies ... SQL files atomically": a file is applied at most once, and it
\* is recorded if and only if it is applied, with the content applied,
\* wherever a run was cut off.
AppliedOnceAndRecorded ==
  /\ \A i, j \in DOMAIN applied : applied[i].file = applied[j].file => i = j
  /\ \A f \in Files : table[f] # None <=> \E i \in DOMAIN applied : applied[i].file = f
  /\ \A i \in DOMAIN applied : table[applied[i].file] = applied[i].sum

\* "ordered" and "rejects changed migration checksums": when a run applies a
\* file, every earlier file it ships is in the schema, with the content this
\* run ships.
OnTopOfItsOwn ==
  \A i \in DOMAIN applied : \A f \in Files :
    f < applied[i].file /\ Ships(applied[i].by, f)
      => \E j \in 1..(i - 1) : applied[j].file = f /\ applied[j].sum = dir[applied[i].by][f]

\* A run that reports success leaves exactly its files' contents applied,
\* whichever runs applied them: deployments wait for it.
DoneIsMigrated ==
  \A r \in Runs : client[r] = "done" =>
    \A f \in Files : Ships(r, f) => table[f] = dir[r][f]

\* A run that nothing cuts completes, or refuses a changed file: it is not
\* kept waiting by the sessions of runs that were cut, and it makes up for
\* what they left undone.
UncutRunCompletes ==
  \A r \in Runs \ Cut :
    client[r] = "locking" ~> \/ client[r] \in {"done", "refused"}
                            \/ \A f \in Files : ~Ships(r, f)
=============================================================================
