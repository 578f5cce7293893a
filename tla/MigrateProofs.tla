--------------------------- MODULE MigrateProofs ---------------------------
(***************************************************************************)
(* Migrate is right for any number of runs, files and contents: what the   *)
(* advisory lock excludes, and what a run finds when it applies a file.    *)
(***************************************************************************)
EXTENDS Migrate, TLAPS

\* A session past its wait is the one that holds the lock.
LockIsSessions ==
  \A r \in Runs : /\ session[r] \in {"idle", "commit"} <=> lock = r
                  /\ session[r] = "waiting" => client[r] \in {"locking"} \cup Ended
                  /\ session[r] = "commit" => client[r] \in {"committing", "exited"}
                  /\ client[r] = "new" => session[r] = "none"

InFile == {"begun", "executed", "inserted", "committing"}

\* What a transaction holds at each point of the loop.
TransactionOfClient ==
  \A r \in Runs :
    /\ tx[r] # {} => lock = r
    /\ lock = r /\ client[r] \in {"locking", "reading", "begun"} => tx[r] = {}
    /\ lock = r /\ client[r] = "executed" => tx[r] = {"sql"}
    /\ lock = r /\ client[r] = "inserted" => tx[r] = {"sql", "row"}
    /\ session[r] = "commit" => tx[r] = {"sql", "row"}
    /\ session[r] = "idle" /\ client[r] = "committing" => tx[r] = {}

\* Where a run is: what it has passed is recorded as it ships it; what it is
\* about to apply is not recorded.
Position ==
  \A r \in Runs :
    /\ client[r] \in {"new", "locking"} => at[r] = 0
    /\ client[r] \in InFile \/ tx[r] # {} => at[r] # 0
    /\ at[r] # 0 => Ships(r, at[r])
    /\ \A f \in Files : f < at[r] /\ Ships(r, f) => table[f] = dir[r][f]
    /\ lock = r /\ (tx[r] # {} \/ client[r] = "begun") => table[at[r]] = None
    /\ client[r] \in {"reading", "done"} /\ at[r] # 0 => table[at[r]] = dir[r][at[r]]
    /\ client[r] = "committing" /\ session[r] = "idle" => table[at[r]] = dir[r][at[r]]

Inv == /\ TypeOK
       /\ LockIsSessions
       /\ TransactionOfClient
       /\ Position
       /\ AppliedOnceAndRecorded
       /\ OnTopOfItsOwn
       /\ DoneIsMigrated

-----------------------------------------------------------------------------
USE NAssumption, ImagesAssumption, NoneAssumption DEF Files

LEMMA InitInv == Init => Inv
<1> SUFFICES ASSUME Init PROVE Inv
  OBVIOUS
<1> USE DEF Init
<1>1. TypeOK
  BY DEF TypeOK
<1>2. LockIsSessions
  BY DEF LockIsSessions
<1>3. TransactionOfClient
  BY DEF TransactionOfClient
<1>4. Position
  <2> SUFFICES ASSUME NEW r \in Runs
               PROVE  /\ at[r] = 0 /\ tx[r] = {} /\ client[r] = "new"
                      /\ \A f \in Files : ~(f < at[r])
    BY DEF Position, InFile
  <2> QED
    OBVIOUS
<1>5. AppliedOnceAndRecorded /\ OnTopOfItsOwn
  BY DEF AppliedOnceAndRecorded, OnTopOfItsOwn
<1>6. DoneIsMigrated
  BY DEF DoneIsMigrated
<1> QED
  BY <1>1, <1>2, <1>3, <1>4, <1>5, <1>6 DEF Inv

\* Every step but a commit leaves the record alone.
RecordUnchanged == UNCHANGED <<dir, table, applied>>

LEMMA RecordKept ==
  ASSUME Inv, RecordUnchanged
  PROVE  AppliedOnceAndRecorded' /\ OnTopOfItsOwn'
BY DEF Inv, RecordUnchanged, AppliedOnceAndRecorded, OnTopOfItsOwn, Ships

\* A process's step, seen by the other runs: nothing.
LEMMA ProcessStep ==
  ASSUME Inv, NEW r \in Runs, Process(r) \/ Exit(r)
  PROVE  /\ TypeOK' /\ LockIsSessions' /\ TransactionOfClient'
         /\ RecordUnchanged
<1> USE DEF Inv, TypeOK, LockIsSessions, TransactionOfClient, RecordUnchanged,
            Statement, Goes, Statements, Ended
<1>1. CASE Connect(r)
  BY <1>1 DEF Connect
<1>2. CASE NoFiles(r)
  BY <1>2 DEF NoFiles
<1>3. CASE Start(r)
  BY <1>3 DEF Start
<1>4. CASE Skip(r)
  BY <1>4 DEF Skip
<1>5. CASE Refuse(r)
  BY <1>5 DEF Refuse
<1>6. CASE Begin(r)
  BY <1>6 DEF Begin
<1>7. CASE Exec(r)
  BY <1>7 DEF Exec
<1>8. CASE Insert(r)
  BY <1>8 DEF Insert
<1>9. CASE Commit(r)
  BY <1>9 DEF Commit
<1>10. CASE Committed(r)
  BY <1>10 DEF Committed
<1>11. CASE Finish(r)
  BY <1>11 DEF Finish
<1>12. CASE Exit(r)
  BY <1>12 DEF Exit
<1> QED
  BY <1>1, <1>2, <1>3, <1>4, <1>5, <1>6, <1>7, <1>8, <1>9, <1>10, <1>11, <1>12
  DEF Process

LEMMA ProcessPosition ==
  ASSUME Inv, NEW r \in Runs, Process(r) \/ Exit(r)
  PROVE  Position' /\ DoneIsMigrated'
<1> USE DEF Inv, TypeOK, LockIsSessions, TransactionOfClient, Position, InFile,
            DoneIsMigrated, Ships, Statement, Goes, Statements, Ended
<1>1. CASE Connect(r)
  BY <1>1 DEF Connect
<1>2. CASE NoFiles(r)
  BY <1>2 DEF NoFiles
<1>3. CASE Start(r)
  BY <1>3 DEF Start
<1>4. CASE Skip(r)
  <2> PICK f \in Files : Following(r, f) /\ table[f] = dir[r][f] /\ at' = [at EXCEPT ![r] = f]
    BY <1>4 DEF Skip
  <2> QED
    BY <1>4 DEF Skip, Following
<1>5. CASE Refuse(r)
  BY <1>5 DEF Refuse
<1>6. CASE Begin(r)
  <2> PICK f \in Files : Following(r, f) /\ table[f] = None /\ at' = [at EXCEPT ![r] = f]
    BY <1>6 DEF Begin
  <2> QED
    BY <1>6 DEF Begin, Following
<1>7. CASE Exec(r)
  BY <1>7 DEF Exec
<1>8. CASE Insert(r)
  <2>1. lock = r /\ tx[r] # {} /\ at[r] # 0 /\ table[at[r]] = None
    BY <1>8, ZenonT(30) DEF Insert
  <2> QED
    <3>1. /\ client' = [client EXCEPT ![r] = "inserted"]
          /\ \A q \in Runs : q # r => tx'[q] = tx[q]
          /\ UNCHANGED <<dir, at, session, lock, table>>
      BY <1>8 DEF Insert
    <3> QED
      BY <2>1, <3>1
<1>9. CASE Commit(r)
  BY <1>9 DEF Commit
<1>10. CASE Committed(r)
  BY <1>10 DEF Committed
<1>11. CASE Finish(r)
  <2>1. \A f \in Files : Ships(r, f) => table[f] = dir[r][f]
    <3> SUFFICES ASSUME NEW f \in Files, Ships(r, f) PROVE table[f] = dir[r][f]
      OBVIOUS
    <3>1. f < at[r] \/ f = at[r]
      BY <1>11 DEF Finish
    <3> QED
      BY <1>11, <3>1 DEF Finish
  <2> QED
    BY <1>11, <2>1 DEF Finish
<1>12. CASE Exit(r)
  BY <1>12 DEF Exit
<1> QED
  BY <1>1, <1>2, <1>3, <1>4, <1>5, <1>6, <1>7, <1>8, <1>9, <1>10, <1>11, <1>12
  DEF Process

\* The lock passes to a session, or goes back with a session's transaction.
LEMMA SessionStep ==
  ASSUME Inv, NEW r \in Runs, Grant(r) \/ SessionEnds(r)
  PROVE  Inv'
<1> USE DEF Inv, TypeOK, LockIsSessions, TransactionOfClient, Position, InFile, Ended,
            Statements, DoneIsMigrated, RecordUnchanged, Ships
<1>1. CASE Grant(r)
  <2>0. /\ tx[r] = {} /\ client[r] \in {"locking", "done", "refused", "exited"}
        /\ \A q \in Runs : tx[q] = {} /\ session[q] \notin {"idle", "commit"}
    BY <1>1 DEF Grant
  <2>1. TypeOK' /\ LockIsSessions' /\ RecordUnchanged
    BY <1>1 DEF Grant
  <2>2. TransactionOfClient'
    BY <1>1, <2>0 DEF Grant
  <2>3. Position' /\ DoneIsMigrated'
    BY <1>1, <2>0 DEF Grant
  <2> QED
    BY <2>1, <2>2, <2>3, RecordKept
<1>2. CASE SessionEnds(r)
  <2>1. TypeOK' /\ LockIsSessions' /\ RecordUnchanged
    BY <1>2 DEF SessionEnds
  <2>2. TransactionOfClient'
    BY <1>2 DEF SessionEnds
  <2>3. Position' /\ DoneIsMigrated'
    BY <1>2 DEF SessionEnds
  <2> QED
    BY <2>1, <2>2, <2>3, RecordKept
<1> QED
  BY <1>1, <1>2

\* A commit, of a process that waits for it or has gone.
LEMMA CommitStep ==
  ASSUME Inv, NEW r \in Runs, Commits(r)
  PROVE  Inv'
<1> DEFINE f == at[r]
           e == [file |-> f, sum |-> dir[r][f], by |-> r]
<1>0. TypeOK /\ LockIsSessions /\ TransactionOfClient /\ Position
      /\ AppliedOnceAndRecorded /\ OnTopOfItsOwn /\ DoneIsMigrated
  BY DEF Inv
<1>1. /\ f \in Files /\ dir[r][f] # None /\ table[f] = None
      /\ dir[r][f] \in Sums /\ lock = r /\ tx[r] = {"sql", "row"}
      /\ session[r] = "commit" /\ client[r] \in {"committing", "exited"}
  BY <1>0 DEF TypeOK, Commits, LockIsSessions, TransactionOfClient, Position, Ships
<1>2. /\ table' = [table EXCEPT ![f] = dir[r][f]]
      /\ applied' = Append(applied, e)
      /\ session' = [session EXCEPT ![r] = "idle"]
      /\ tx' = [tx EXCEPT ![r] = {}]
      /\ dir' = dir /\ client' = client /\ at' = at /\ lock' = lock
  BY <1>1 DEF Commits
<1>3. /\ Len(applied') = Len(applied) + 1
      /\ \A i \in 1..Len(applied) : applied'[i] = applied[i]
      /\ applied'[Len(applied) + 1] = e
      /\ DOMAIN applied = 1..Len(applied) /\ DOMAIN applied' = 1..(Len(applied) + 1)
      /\ Len(applied) \in Nat
      /\ \A i \in 1..Len(applied) : applied[i] \in [file : Files, sum : Sums, by : Runs]
  <2> DEFINE T == [file : Files, sum : Sums, by : Runs]
  <2>1. applied \in Seq(T)
    BY <1>0 DEF TypeOK
  <2>2. e \in T /\ applied' = Append(applied, e)
    BY <1>1, <1>2
  <2> HIDE DEF e, T
  <2>3. /\ Len(applied') = Len(applied) + 1
        /\ \A i \in 1..Len(applied) : applied'[i] = applied[i]
        /\ applied'[Len(applied) + 1] = e
        /\ Len(applied) \in Nat /\ applied' \in Seq(T)
        /\ \A i \in 1..Len(applied) : applied[i] \in T
    BY <2>1, <2>2
  <2> QED
    BY <2>1, <2>3 DEF T
<1>4. TypeOK'
  BY <1>0, <1>1, <1>2 DEF TypeOK
<1>a. /\ table[f] = None /\ table'[f] = dir[r][f]
      /\ \A g \in Files : g # f => table'[g] = table[g]
      /\ \A g \in Files : table[g] # None => table'[g] = table[g]
  BY <1>0, <1>1, <1>2 DEF TypeOK
<1>5. LockIsSessions' /\ TransactionOfClient'
  BY <1>0, <1>1, <1>2 DEF TypeOK, LockIsSessions, TransactionOfClient
<1>6. Position'
  <2> SUFFICES ASSUME NEW q \in Runs
      PROVE  /\ client[q] \in {"new", "locking"} => at[q] = 0
             /\ client[q] \in InFile \/ tx'[q] # {} => at[q] # 0
             /\ at[q] # 0 => Ships(q, at[q])
             /\ \A g \in Files : g < at[q] /\ Ships(q, g) => table'[g] = dir[q][g]
             /\ lock = q /\ (tx'[q] # {} \/ client[q] = "begun") => table'[at[q]] = None
             /\ client[q] \in {"reading", "done"} /\ at[q] # 0 => table'[at[q]] = dir[q][at[q]]
             /\ client[q] = "committing" /\ session'[q] = "idle" => table'[at[q]] = dir[q][at[q]]
    BY <1>2 DEF Position, Ships
  <2>1. CASE q = r
    BY <2>1, <1>0, <1>1, <1>2, <1>a DEF TypeOK, Position, Ships, InFile, DoneIsMigrated
  <2>2. CASE q # r
    BY <2>2, <1>0, <1>1, <1>2, <1>a DEF TypeOK, Position, Ships, InFile, LockIsSessions
  <2> QED
    BY <2>1, <2>2
<1>b. DoneIsMigrated'
  BY <1>0, <1>2, <1>a DEF TypeOK, DoneIsMigrated, Ships
<1>7. \A i \in 1..Len(applied) : applied[i].file # f
  BY <1>0, <1>1, <1>3 DEF AppliedOnceAndRecorded
<1>8. AppliedOnceAndRecorded'
  <2>1. \A i, j \in DOMAIN applied' : applied'[i].file = applied'[j].file => i = j
    BY <1>0, <1>3, <1>7 DEF AppliedOnceAndRecorded
  <2>2. \A g \in Files : table'[g] # None <=> \E i \in DOMAIN applied' : applied'[i].file = g
    <3> SUFFICES ASSUME NEW g \in Files
                 PROVE  table'[g] # None <=> \E i \in DOMAIN applied' : applied'[i].file = g
      OBVIOUS
    <3>1. CASE g = f
      BY <3>1, <1>1, <1>3, <1>a
    <3>2. CASE g # f
      BY <3>2, <1>0, <1>3, <1>a, SMTT(30) DEF AppliedOnceAndRecorded
    <3> QED
      BY <3>1, <3>2
  <2>3. ASSUME NEW i \in 1..(Len(applied) + 1)
        PROVE  table'[applied'[i].file] = applied'[i].sum
    <3>1. CASE i \in 1..Len(applied)
      BY <3>1, <1>0, <1>3, <1>7, <1>a, SMTT(30) DEF AppliedOnceAndRecorded
    <3>2. CASE i = Len(applied) + 1
      BY <3>2, <1>3, <1>a
    <3> QED
      BY <3>1, <3>2, <1>3
  <2> QED
    BY <1>3, <2>1, <2>2, <2>3 DEF AppliedOnceAndRecorded
<1>9. OnTopOfItsOwn'
  <2> SUFFICES ASSUME NEW i \in 1..(Len(applied) + 1), NEW g \in Files,
                      g < applied'[i].file, dir[applied'[i].by][g] # None
               PROVE  \E j \in 1..(i - 1) : /\ applied'[j].file = g
                                            /\ applied'[j].sum = dir[applied'[i].by][g]
    BY <1>2, <1>3, SMTT(30) DEF OnTopOfItsOwn, Ships
  <2>1. CASE i \in 1..Len(applied)
    <3>0. i \in DOMAIN applied /\ applied'[i] = applied[i]
      BY <2>1, <1>3
    <3>1. PICK j \in 1..(i - 1) : /\ applied[j].file = g
                                  /\ applied[j].sum = dir[applied[i].by][g]
      BY <3>0, <1>0 DEF OnTopOfItsOwn, Ships
    <3>2. j \in 1..Len(applied) /\ applied'[j] = applied[j] /\ applied'[i] = applied[i]
      BY <2>1, <1>3
    <3> QED
      BY <3>1, <3>2
  <2>2. CASE i = Len(applied) + 1
    <3>1. table[g] = dir[r][g] /\ table[g] # None
      BY <2>2, <1>0, <1>1, <1>3 DEF Position, Ships
    <3>2. PICK j \in 1..Len(applied) : applied[j].file = g
      BY <3>1, <1>0, <1>3 DEF AppliedOnceAndRecorded
    <3>3. applied'[j].file = g /\ applied'[j].sum = dir[r][g]
      BY <3>1, <3>2, <1>0, <1>3 DEF AppliedOnceAndRecorded
    <3>4. j \in 1..(i - 1) /\ applied'[i].by = r
      BY <2>2, <3>2, <1>3
    <3> QED
      BY <3>3, <3>4
  <2> QED
    BY <2>1, <2>2, <1>3
<1> QED
  BY <1>4, <1>5, <1>6, <1>8, <1>9, <1>b DEF Inv

LEMMA NextInv == Inv /\ [Next]_vars => Inv'
<1> SUFFICES ASSUME Inv, [Next]_vars PROVE Inv'
  OBVIOUS
<1>1. CASE UNCHANGED vars
  BY <1>1 DEF vars, Inv, TypeOK, LockIsSessions, TransactionOfClient, Position, Ships,
              AppliedOnceAndRecorded, OnTopOfItsOwn, DoneIsMigrated
<1>2. ASSUME NEW r \in Runs, Process(r) \/ Exit(r) PROVE Inv'
  BY <1>2, ProcessStep, ProcessPosition, RecordKept DEF Inv
<1>3. ASSUME NEW r \in Runs, Grant(r) \/ SessionEnds(r) PROVE Inv'
  BY <1>3, SessionStep
<1>4. ASSUME NEW r \in Runs, Commits(r) PROVE Inv'
  BY <1>4, CommitStep
<1> QED
  BY <1>1, <1>2, <1>3, <1>4 DEF Next

THEOREM Invariance == Spec => []Inv
BY InitInv, NextInv, PTL DEF Spec

\* Every variable stays in its range.
THEOREM TypeCorrect == Spec => []TypeOK
BY Invariance, PTL DEF Inv

\* The advisory lock of line 23 lives as long as the transaction it protects:
\* no two sessions change the schema at once, one of them left by a dead run or not.
THEOREM OneAtATime == Spec => []Exclusive
<1>1. Inv => Exclusive
  BY NoneAssumption DEF Inv, TransactionOfClient, Exclusive
<1> QED
  BY <1>1, Invariance, PTL

\* The transaction of lines 53-66: a file is applied at most once, and recorded
\* if and only if it is applied, wherever the runs were cut.
THEOREM OnceAndRecorded == Spec => []AppliedOnceAndRecorded
BY Invariance, PTL DEF Inv

\* The order and the checksums of lines 37-52: a run applies a file on top of
\* the earlier files it ships, in the contents it ships.
THEOREM InOrder == Spec => []OnTopOfItsOwn
BY Invariance, PTL DEF Inv

\* A run that reports success leaves the contents of all its files applied.
THEOREM SuccessIsMigrated == Spec => []DoneIsMigrated
BY Invariance, PTL DEF Inv
=============================================================================
