-------------------------- MODULE ScanJobs_proofs --------------------------
(* Theorems about ScanJobs, for every set of jobs, columns and regexes, and *)
(* every choice of faults.                                                  *)
EXTENDS ScanJobs, FiniteSetTheorems, TLAPS

USE ScanAssumption

LEMMA CountIsNat == Cardinality(Columns) \in Nat
  BY FS_CardinalityType

LEMMA NewTaskInTask == NewTask \in Task
  BY DEF NewTask, Task, Final

\* Taking a column off the list moves it from one count to the other.
LEMMA OneColumnLess ==
  ASSUME NEW todo \in SUBSET Columns, NEW c \in todo
  PROVE  /\ Cardinality(todo) \in Nat /\ Cardinality(todo \ {c}) \in Nat
         /\ Cardinality(todo \ {c}) = Cardinality(todo) - 1
  <1>1. IsFiniteSet(todo)
    BY FS_Subset
  <1> QED BY <1>1, FS_RemoveElement, FS_CardinalityType

\* The initial state satisfies the inductive invariant.
LEMMA InitInvariant == Init => IInv
  <1> SUFFICES ASSUME Init PROVE IInv
    OBVIOUS
  <1>1. TypeOK
    <2>1. label \in [Keys -> LabelRow \cup {None}]
      <3>1. [status |-> "pending", by |-> "qwen3", sure |-> FALSE] \in LabelRow
        BY DEF LabelRow
      <3> QED BY <3>1 DEF Init
    <2> QED BY <2>1, NewTaskInTask DEF Init, TypeOK
  <1>2. NotStarted /\ AtColumn /\ LateOnce /\ ScansEnd /\ OutcomeSeen /\ Counted /\ ProgressTruthful
    BY DEF Init, NotStarted, AtColumn, LateOnce, ScansEnd, OutcomeSeen, Counted,
           ProgressTruthful, Before, InLoop, NewTask
  <1>3. OnlyAdminActivates
    BY DEF Init, OnlyAdminActivates
  <1> QED BY <1>1, <1>2, <1>3 DEF IInv

---------------------------------------------------------------------------
\* What the steps write into the local variables of a task keeps their types.
LEMMA NextColumnTask ==
  ASSUME NEW t \in Task
  PROVE  [t EXCEPT !.col = None, !.answer = None, !.regex = None] \in Task
  BY DEF Task

LEMMA AtColumnTask ==
  ASSUME NEW t \in Task, NEW c \in t.todo
  PROVE  [t EXCEPT !.col = c, !.todo = @ \ {c}, !.scanned = @ + 1] \in Task
  <1>1. c \in Columns /\ t.todo \ {c} \in SUBSET Columns /\ t.scanned + 1 \in Nat
    BY DEF Task
  <1> QED BY <1>1 DEF Task

LEMMA AnsweredTask ==
  ASSUME NEW t \in Task, NEW a, a \in {"active", "pending", None}, NEW r \in Regexes \cup {None}
  PROVE  [t EXCEPT !.answer = a, !.regex = r] \in Task
  BY DEF Task

LEMMA FoundTask ==
  ASSUME NEW t \in Task
  PROVE  [t EXCEPT !.found = @ + 1] \in Task
  BY DEF Task

LEMMA ListedTask ==
  ASSUME NEW t \in Task
  PROVE  [t EXCEPT !.todo = Columns] \in Task
  BY DEF Task

LEMMA SeenTask ==
  ASSUME NEW t \in Task, NEW s, s \in Final \cup {"running"}
  PROVE  [t EXCEPT !.seen = s] \in Task
  BY DEF Task

\* Updating a row that may be gone, and a task, keeps them in their types.
LEMMA WrittenInRange ==
  ASSUME TypeOK, NEW j \in Jobs, NEW row, job[j] # None => row \in JobRow,
         Written(j, row)
  PROVE  job' \in [Jobs -> JobRow \cup {None}]
  BY DEF Written, TypeOK

LEMMA NextColumnInRange ==
  ASSUME TypeOK, NEW j \in Jobs, NextColumn(j)
  PROVE  task' \in [Jobs -> Task] /\ pc' = [pc EXCEPT ![j] = "check"]
  <1>1. [task[j] EXCEPT !.col = None, !.answer = None, !.regex = None] \in Task
    <2>1. task[j] \in Task
      BY DEF TypeOK
    <2> QED BY <2>1, NextColumnTask
  <1> QED BY <1>1 DEF NextColumn, Goto, TypeOK

LEMMA LeaveInRange ==
  ASSUME TypeOK, NEW j \in Jobs, NEW where, Leave(j, where)
  PROVE  task' \in [Jobs -> Task] /\ pc' = [pc EXCEPT ![j] = where]
  BY NewTaskInTask DEF Leave, Goto, TypeOK

\* Every step of a task keeps the variables in their types.
LEMMA TaskTypeStep ==
  ASSUME IInv, NEW j \in Jobs, TaskStep(j)
  PROVE  TypeOK'
  <1>t. TypeOK
    BY DEF IInv
  <1>k. task[j] \in Task
    BY <1>t DEF TypeOK
  <1> USE DEF TypeOK
  <1>r. \A x, y \in Nat : job[j] # None =>
          /\ [job[j] EXCEPT !.scanned = x] \in JobRow
          /\ [job[j] EXCEPT !.scanned = x, !.found = y] \in JobRow
    BY <1>t DEF JobRow
  <1>s. task[j].scanned \in Nat /\ task[j].found \in Nat
    BY <1>t DEF Task
  <1>1. CASE CreateJob(j)
    <2>1. [status |-> "running", total |-> 0, scanned |-> 0, found |-> 0] \in JobRow
      BY DEF JobRow
    <2> QED BY <1>t, <1>1, <2>1 DEF CreateJob, Goto
  <1>2. CASE StartFails(j) \/ Launch(j)
    BY <1>t, <1>2 DEF StartFails, Launch, Goto
  <1>3. CASE List(j)
    <2>1. [task[j] EXCEPT !.todo = Columns] \in Task
      BY ONLY <1>k, ListedTask
    <2>2. job[j] # None => [job[j] EXCEPT !.total = Cardinality(Columns)] \in JobRow
      BY <1>t, CountIsNat DEF JobRow
    <2>3. job' \in [Jobs -> JobRow \cup {None}]
      BY <1>t, <1>3, <2>2, WrittenInRange DEF List
    <2> QED BY <1>t, <1>3, <2>1, <2>3 DEF List, Goto
  <1>4. CASE Check(j)
    <2>1. CASE Leave(j, "after")
      <3>1. UNCHANGED <<job, label, pattern, source, admin, late>>
        BY <1>4 DEF Check
      <3> QED BY <1>t, <2>1, <3>1, LeaveInRange
    <2>2. CASE ~Leave(j, "after")
      <3>1. PICK c \in task[j].todo :
              task' = [task EXCEPT ![j].col = c, ![j].todo = @ \ {c}, ![j].scanned = @ + 1]
        BY <1>4, <2>2 DEF Check
      <3>2. [task[j] EXCEPT !.col = c, !.todo = @ \ {c}, !.scanned = @ + 1] \in Task
        BY ONLY <1>k, c \in task[j].todo, AtColumnTask
      <3>3. task' \in [Jobs -> Task]
        BY <1>t, <3>1, <3>2
      <3> QED BY <1>t, <1>4, <2>2, <3>3 DEF Check, Goto
    <2> QED BY <2>1, <2>2
  <1>5. CASE Exists(j)
    <2>1. CASE NextColumn(j)
      <3>1. job' \in [Jobs -> JobRow \cup {None}]
        BY <1>t, <1>5, <1>r, <1>s, WrittenInRange DEF Exists
      <3> QED BY <1>t, <1>5, <2>1, <3>1, NextColumnInRange DEF Exists
    <2>2. CASE ~NextColumn(j)
      BY <1>t, <1>5, <2>2 DEF Exists, Goto
    <2> QED BY <2>1, <2>2
  <1>6. CASE NoSample(j)
    <2>1. job' \in [Jobs -> JobRow \cup {None}]
      BY <1>t, <1>6, <1>r, <1>s, WrittenInRange DEF NoSample
    <2> QED BY <1>t, <1>6, <2>1, NextColumnInRange DEF NoSample
  <1>7. CASE Classify(j)
    <2>1. PICK answer \in {"active", "pending", None}, regex \in Regexes \cup {None} :
            task' = [task EXCEPT ![j].answer = answer, ![j].regex = regex]
      BY <1>7 DEF Classify
    <2>2. [task[j] EXCEPT !.answer = answer, !.regex = regex] \in Task
      <3>1. answer \in {"active", "pending", None} /\ regex \in Regexes \cup {None}
        BY <2>1
      <3> QED BY ONLY <1>k, <3>1, AnsweredTask
    <2> QED BY <1>t, <1>7, <2>1, <2>2 DEF Classify, Goto
  <1>8. CASE Upsert(j)
    <2>1. [task[j] EXCEPT !.found = @ + 1] \in Task
      BY ONLY <1>k, FoundTask
    <2>2. task' \in [Jobs -> Task]
      BY <1>t, <1>8, <2>1 DEF Upsert
    <2>3. task[j].answer # None =>
            [status |-> task[j].answer, by |-> "qwen3", sure |-> task[j].answer = "active"] \in LabelRow
      BY <1>t DEF Task, LabelRow
    <2>4. label' \in [Keys -> LabelRow \cup {None}]
      BY <1>t, <1>8, <2>3 DEF Upsert
    <2>5. late' \in [Jobs -> Nat]
      BY <1>t, <1>8 DEF Upsert
    <2>6. pc' \in [Jobs -> {"none", "created", "list", "check", "exists", "sample", "upsert",
                        "pattern", "insert", "progress", "failing", "after", "stamp", "over", "cut"}]
      BY <1>t, <1>8 DEF Upsert, Goto
    <2> QED BY <1>t, <1>8, <2>2, <2>4, <2>5, <2>6 DEF Upsert
  <1>9. CASE SelectPattern(j)
    BY <1>t, <1>9 DEF SelectPattern, Goto
  <1>10. CASE InsertPattern(j)
    <2>1. CASE Leave(j, "failing") /\ UNCHANGED pattern
      BY <1>t, <1>10, <2>1, LeaveInRange DEF InsertPattern
    <2>2. CASE ~(Leave(j, "failing") /\ UNCHANGED pattern)
      <3>1. task[j].col \in Columns /\ task[j].regex \in Regexes
        BY <1>10 DEF IInv, AtColumn, InsertPattern, InLoop
      <3>2. <<Key(j), task[j].regex>> \in Keys \X Regexes
        BY <3>1 DEF Key
      <3>3. pattern' \subseteq Keys \X Regexes
        BY <1>t, <1>10, <2>2, <3>2 DEF InsertPattern
      <3> QED BY <1>t, <1>10, <2>2, <3>3 DEF InsertPattern, Goto
    <2> QED BY <2>1, <2>2
  <1>11. CASE Progress(j)
    <2>1. job' \in [Jobs -> JobRow \cup {None}]
      BY <1>t, <1>11, <1>r, <1>s, WrittenInRange DEF Progress
    <2> QED BY <1>t, <1>11, <2>1, NextColumnInRange DEF Progress
  <1>12. CASE FinishDone(j)
    <2>1. job[j] # None => [job[j] EXCEPT !.status = "done"] \in JobRow
      BY <1>t DEF JobRow, Final
    <2>2. job' \in [Jobs -> JobRow \cup {None}]
      BY <1>t, <1>12, <2>1, WrittenInRange DEF FinishDone
    <2> QED BY <1>t, <1>12, <2>2, LeaveInRange DEF FinishDone
  <1>13. CASE Raise(j)
    BY <1>t, <1>13, LeaveInRange DEF Raise
  <1>14. CASE FinishFailed(j)
    <2>1. job[j] # None => [job[j] EXCEPT !.status = "failed"] \in JobRow
      BY <1>t DEF JobRow, Final
    <2>2. job' \in [Jobs -> JobRow \cup {None}]
      BY <1>t, <1>14, <2>1, WrittenInRange DEF FinishFailed
    <2> QED BY <1>t, <1>14, <2>2 DEF FinishFailed, Goto
  <1>15. CASE TaskDies(j)
    BY <1>t, <1>15, LeaveInRange DEF TaskDies
  <1>16. CASE ReadStatus(j)
    <2>1. job[j] # None => [task[j] EXCEPT !.seen = job[j].status] \in Task
      <3>1. job[j] # None => job[j].status \in Final \cup {"running"}
        BY <1>t DEF JobRow
      <3> QED BY ONLY <1>k, <3>1, SeenTask
    <2> QED BY <1>t, <1>16, <2>1 DEF ReadStatus, Goto
  <1>17. CASE SetLastScan(j)
    <2>1. source' \in Final \cup {"none", None}
      BY <1>t, <1>17 DEF SetLastScan, IInv, OutcomeSeen
    <2> QED BY <1>t, <1>17, <2>1, LeaveInRange DEF SetLastScan
  <1> QED
    BY <1>1, <1>2, <1>3, <1>4, <1>5, <1>6, <1>7, <1>8, <1>9, <1>10, <1>11, <1>12,
       <1>13, <1>14, <1>15, <1>16, <1>17 DEF TaskStep

\* Every step keeps the variables in their types.
LEMMA TypeStep == IInv /\ [Next]_vars => TypeOK'
  <1> SUFFICES ASSUME IInv, [Next]_vars PROVE TypeOK'
    OBVIOUS
  <1>t. TypeOK
    BY DEF IInv
  <1>1. ASSUME NEW j \in Jobs, TaskStep(j) PROVE TypeOK'
    BY <1>1, TaskTypeStep
  <1>2. ASSUME NEW j \in Jobs, Cancel(j) PROVE TypeOK'
    <2>1. [job[j] EXCEPT !.status = "cancelled"] \in JobRow
      BY <1>t, <1>2 DEF TypeOK, Cancel, JobRow, Final
    <2> QED BY <1>t, <1>2, <2>1 DEF TypeOK, Cancel
  <1>3. ASSUME NEW k \in Keys, Approve(k) \/ Relabel(k) \/ Remove(k) PROVE TypeOK'
    <2>1. label[k] # None => /\ [label[k] EXCEPT !.status = "active", !.by = "admin"] \in LabelRow
                             /\ [label[k] EXCEPT !.by = "admin"] \in LabelRow
      BY <1>t DEF TypeOK, LabelRow
    <2>2. label' \in [Keys -> LabelRow \cup {None}]
      BY <1>t, <1>3, <2>1 DEF TypeOK, Approve, Relabel, Remove
    <2>3. admin' \in 0..MaxAdmin
      BY <1>t, <1>3 DEF TypeOK, Approve, Relabel, Remove, AdminActs
    <2> QED BY <1>t, <1>3, <2>2, <2>3 DEF TypeOK, Approve, Relabel, Remove
  <1>4. CASE DeletePattern
    <2>1. admin' \in 0..MaxAdmin
      BY <1>t, <1>4 DEF TypeOK, DeletePattern, AdminActs
    <2> QED BY <1>t, <1>4, <2>1 DEF TypeOK, DeletePattern
  <1>5. CASE DeleteSource
    BY <1>t, <1>5 DEF TypeOK, DeleteSource
  <1>6. CASE Restart
    BY <1>t, <1>6, NewTaskInTask DEF TypeOK, Restart
  <1>7. CASE UNCHANGED vars
    BY <1>t, <1>7 DEF TypeOK, vars
  <1> QED BY <1>1, <1>2, <1>3, <1>4, <1>5, <1>6, <1>7 DEF Next

---------------------------------------------------------------------------
(* The rows of a job change only by its own task, by a cancellation and by  *)
(* the deletion of the source.                                              *)

\* What one step of a task does to everything that concerns another job.
LEMMA OthersUntouched ==
  ASSUME IInv, NEW j \in Jobs, TaskStep(j), NEW i \in Jobs, i # j
  PROVE  /\ pc'[i] = pc[i] /\ task'[i] = task[i]
         /\ job'[i] = job[i] /\ late'[i] = late[i]
  <1>t. TypeOK
    BY DEF IInv
  <1>1. CASE CreateJob(j) \/ StartFails(j) \/ Launch(j) \/ List(j)
    BY <1>t, <1>1 DEF TypeOK, CreateJob, StartFails, Launch, List, Written, Goto
  <1>2. CASE Check(j) \/ Exists(j) \/ NoSample(j)
    BY <1>t, <1>2 DEF TypeOK, Check, Exists, NoSample, Written, Goto, Leave, NextColumn
  <1>3. CASE Classify(j) \/ Upsert(j)
    BY <1>t, <1>3 DEF TypeOK, Classify, Upsert, Goto
  <1>4. CASE SelectPattern(j) \/ InsertPattern(j) \/ Progress(j)
    BY <1>t, <1>4 DEF TypeOK, SelectPattern, InsertPattern, Progress, Written, Goto, Leave, NextColumn
  <1>5. CASE FinishDone(j) \/ Raise(j) \/ FinishFailed(j) \/ TaskDies(j)
    BY <1>t, <1>5 DEF TypeOK, FinishDone, Raise, FinishFailed, TaskDies, Written, Goto, Leave
  <1>6. CASE ReadStatus(j) \/ SetLastScan(j)
    BY <1>t, <1>6 DEF TypeOK, ReadStatus, SetLastScan, Goto, Leave
  <1> QED BY <1>1, <1>2, <1>3, <1>4, <1>5, <1>6 DEF TaskStep

\* What the task of job j may do to its own row and place.
JobSafe(j) ==
    /\ pc[j] = "none" => job[j] = None /\ late[j] = 0
    /\ pc[j] \in InLoop \ {"check"} => task[j].col \in Columns
    /\ pc[j] \in {"pattern", "insert"} => task[j].regex \in Regexes
    /\ late[j] # 0 =>
        /\ late[j] = 1
        /\ \/ job[j] = None
           \/ pc[j] \in Behind
           \/ pc[j] \in InLoop \ {"exists", "sample", "upsert"} /\ job[j].status = "cancelled"
    /\ pc[j] \in {"after", "stamp", "over"} /\ job[j] # None => job[j].status \in Final
    /\ pc[j] = "stamp" => task[j].seen \in Final

LEMMA JobSafeIff ==
  /\ (\A j \in Jobs : JobSafe(j)) <=> NotStarted /\ AtColumn /\ LateOnce /\ ScansEnd /\ OutcomeSeen
  /\ (\A j \in Jobs : JobSafe(j)') <=> (NotStarted /\ AtColumn /\ LateOnce /\ ScansEnd /\ OutcomeSeen)'
  BY DEF JobSafe, NotStarted, AtColumn, LateOnce, ScansEnd, OutcomeSeen

\* A task keeps its own job safe.
LEMMA OwnStepSafe ==
  ASSUME IInv, NEW j \in Jobs, TaskStep(j)
  PROVE  JobSafe(j)'
  <1>t. TypeOK /\ JobSafe(j)
    BY JobSafeIff DEF IInv
  <1>r. job[j] \in JobRow \cup {None} /\ task[j] \in Task /\ late[j] \in Nat
    BY <1>t DEF TypeOK
  <1> USE DEF TypeOK, JobSafe, InLoop, Behind
  <1>1. CASE CreateJob(j) \/ StartFails(j) \/ Launch(j)
    BY <1>t, <1>1 DEF CreateJob, StartFails, Launch, Goto
  <1>2. CASE List(j)
    BY <1>t, <1>r, <1>2 DEF List, Written, Goto
  <1>3. CASE Check(j)
    <2>1. CASE Leave(j, "after") /\ job[j] # None /\ job[j].status = "cancelled"
      BY <1>t, <1>3, <2>1 DEF Check, Leave, Goto, Final
    <2>2. CASE ~(job[j] # None /\ job[j].status = "cancelled")
      <3>1. PICK c \in task[j].todo :
              task' = [task EXCEPT ![j].col = c, ![j].todo = @ \ {c}, ![j].scanned = @ + 1]
        BY <1>3, <2>2 DEF Check
      <3>2. c \in Columns
        BY <1>r, <3>1 DEF Task
      <3>3. task'[j].col = c
        BY <1>t, <1>r, <3>1 DEF Task
      <3> QED BY <1>t, <1>3, <2>2, <3>2, <3>3 DEF Check, Goto
    <2> QED BY <1>3, <2>1, <2>2 DEF Check
  <1>4. CASE Exists(j)
    <2>1. CASE pc'[j] = "check"
      BY <1>t, <1>r, <1>4, <2>1 DEF Exists, Written, Goto, NextColumn
    <2>2. CASE pc'[j] # "check"
      BY <1>t, <1>4, <2>2 DEF Exists, Goto, NextColumn
    <2> QED BY <2>1, <2>2
  <1>5. CASE NoSample(j)
    BY <1>t, <1>r, <1>5 DEF NoSample, Written, Goto, NextColumn
  <1>6. CASE Classify(j)
    BY <1>t, <1>r, <1>6 DEF Classify, Goto, Task
  <1>7. CASE Upsert(j)
    <2>1. late'[j] \in {0, 1} /\ (late'[j] # 0 => late[j] = 0 \/ job[j] = None)
          /\ (late'[j] # 0 => job[j] = None \/ job[j].status = "cancelled")
      BY <1>t, <1>r, <1>7 DEF Upsert
    <2>2. task'[j].col = task[j].col /\ task'[j].regex = task[j].regex
      BY <1>t, <1>r, <1>7 DEF Upsert, Task
    <2>3. pc'[j] \in {"progress", "pattern"} /\ (pc'[j] = "pattern" => task[j].regex # None)
      BY <1>t, <1>7 DEF Upsert, Goto
    <2>4. task[j].regex \in Regexes \cup {None}
      BY <1>r DEF Task
    <2> QED BY <1>t, <1>7, <2>1, <2>2, <2>3, <2>4 DEF Upsert
  <1>8. CASE SelectPattern(j)
    BY <1>t, <1>8 DEF SelectPattern, Goto
  <1>9. CASE InsertPattern(j)
    BY <1>t, <1>9 DEF InsertPattern, Leave, Goto
  <1>10. CASE Progress(j)
    BY <1>t, <1>r, <1>10 DEF Progress, Written, Goto, NextColumn
  <1>11. CASE FinishDone(j)
    BY <1>t, <1>r, <1>11 DEF FinishDone, Written, Goto, Leave, Final, JobRow
  <1>12. CASE Raise(j)
    BY <1>t, <1>12 DEF Raise, Goto, Leave
  <1>13. CASE FinishFailed(j)
    BY <1>t, <1>r, <1>13 DEF FinishFailed, Written, Goto, Final, JobRow
  <1>14. CASE TaskDies(j)
    BY <1>t, <1>14 DEF TaskDies, Goto, Leave
  <1>15. CASE ReadStatus(j)
    BY <1>t, <1>r, <1>15 DEF ReadStatus, Goto, Task
  <1>16. CASE SetLastScan(j)
    BY <1>t, <1>16 DEF SetLastScan, Goto, Leave
  <1> QED
    BY <1>1, <1>2, <1>3, <1>4, <1>5, <1>6, <1>7, <1>8, <1>9, <1>10, <1>11, <1>12,
       <1>13, <1>14, <1>15, <1>16 DEF TaskStep

\* Every step keeps every job safe.
LEMMA SafeStep ==
  IInv /\ [Next]_vars => (NotStarted /\ AtColumn /\ LateOnce /\ ScansEnd /\ OutcomeSeen)'
  <1> SUFFICES ASSUME IInv, [Next]_vars, NEW i \in Jobs PROVE JobSafe(i)'
    BY JobSafeIff
  <1>t. TypeOK /\ JobSafe(i)
    BY JobSafeIff DEF IInv
  <1> USE DEF TypeOK, JobSafe
  <1>1. ASSUME NEW j \in Jobs, TaskStep(j) PROVE JobSafe(i)'
    <2>1. CASE i = j
      BY <1>1, <2>1, OwnStepSafe
    <2>2. CASE i # j
      <3>1. pc'[i] = pc[i] /\ task'[i] = task[i] /\ job'[i] = job[i] /\ late'[i] = late[i]
        BY <1>1, <2>2, OthersUntouched
      <3> QED BY <1>t, <3>1
    <2> QED BY <2>1, <2>2
  <1>2. ASSUME NEW j \in Jobs, Cancel(j) PROVE JobSafe(i)'
    BY <1>t, <1>2 DEF Cancel, Final, JobRow
  <1>3. ASSUME NEW k \in Keys, Approve(k) \/ Relabel(k) \/ Remove(k) PROVE JobSafe(i)'
    BY <1>t, <1>3 DEF Approve, Relabel, Remove
  <1>4. CASE DeletePattern
    BY <1>t, <1>4 DEF DeletePattern
  <1>5. CASE DeleteSource
    BY <1>t, <1>5 DEF DeleteSource
  <1>6. CASE Restart
    BY <1>t, <1>6 DEF Restart, InLoop, Behind
  <1>7. CASE UNCHANGED vars
    BY <1>t, <1>7 DEF vars
  <1> QED BY <1>1, <1>2, <1>3, <1>4, <1>5, <1>6, <1>7 DEF Next

\* A label row is written by a scan, which activates what it is sure of, or by
\* the administrator, under that name.
LEMMA LabelStep == IInv /\ [Next]_vars => OnlyAdminActivates'
  <1> SUFFICES ASSUME IInv, [Next]_vars PROVE OnlyAdminActivates'
    OBVIOUS
  <1>t. TypeOK /\ OnlyAdminActivates
    BY DEF IInv
  <1>1. CASE UNCHANGED label
    BY <1>t, <1>1 DEF OnlyAdminActivates
  <1>2. ASSUME NEW j \in Jobs, Upsert(j) PROVE OnlyAdminActivates'
    <2>1. CASE task[j].answer = None
      BY <1>1, <1>2, <2>1 DEF Upsert
    <2>2. CASE task[j].answer # None
      <3>1. label' = [label EXCEPT ![Key(j)] =
               [status |-> task[j].answer, by |-> "qwen3", sure |-> task[j].answer = "active"]]
        BY <1>2, <2>2 DEF Upsert
      <3> SUFFICES ASSUME NEW k \in Keys, label'[k] # None, label'[k].status = "active", ~label'[k].sure
                   PROVE  label'[k].by = "admin"
        BY DEF OnlyAdminActivates
      <3>2. CASE k = Key(j)
        <4>1. label'[k] = [status |-> task[j].answer, by |-> "qwen3", sure |-> task[j].answer = "active"]
          BY <1>t, <3>1, <3>2 DEF TypeOK
        <4>2. CASE task[j].answer = "active"
          <5>1. label'[k] = [status |-> task[j].answer, by |-> "qwen3", sure |-> TRUE]
            BY <4>1, <4>2, Zenon
          <5> QED BY <5>1
        <4>3. CASE task[j].answer # "active"
          BY <4>1, <4>3
        <4> QED BY <4>2, <4>3
      <3>3. CASE k # Key(j)
        BY <1>t, <3>1, <3>3 DEF TypeOK, OnlyAdminActivates
      <3> QED BY <3>2, <3>3
    <2> QED BY <2>1, <2>2
  <1>3. ASSUME NEW k \in Keys, Approve(k) \/ Relabel(k) \/ Remove(k) PROVE OnlyAdminActivates'
    <2>1. label[k] \in LabelRow \cup {None}
      BY <1>t DEF TypeOK
    <2>2. \A other \in Keys : other # k => label'[other] = label[other]
      BY <1>t, <1>3 DEF TypeOK, Approve, Relabel, Remove
    <2>3. label'[k] = None \/ label'[k].by = "admin"
      BY <1>t, <2>1, <1>3 DEF TypeOK, LabelRow, Approve, Relabel, Remove
    <2> QED BY <1>t, <2>2, <2>3 DEF OnlyAdminActivates
  <1>4. ASSUME NEW j \in Jobs, TaskStep(j) \/ Cancel(j), ~Upsert(j) PROVE UNCHANGED label
    BY <1>4 DEF TaskStep, Cancel, CreateJob, StartFails, Launch, List, Check, Exists, NoSample,
                Classify, SelectPattern, InsertPattern, Progress, FinishDone, Raise,
                FinishFailed, TaskDies, ReadStatus, SetLastScan
  <1>5. CASE DeletePattern \/ DeleteSource \/ Restart \/ UNCHANGED vars
    BY <1>1, <1>5 DEF DeletePattern, DeleteSource, Restart, vars
  <1> QED BY <1>1, <1>2, <1>3, <1>4, <1>5 DEF Next

---------------------------------------------------------------------------
\* The counts of one job, and what its row shows.
JobCounted(j) ==
    /\ pc[j] \in {"none"} \cup Before =>
          /\ task[j].scanned = 0 /\ task[j].found = 0
          /\ job[j] # None => job[j].scanned = 0 /\ job[j].found = 0
    /\ pc[j] \in InLoop =>
          /\ task[j].scanned + Cardinality(task[j].todo) = Cardinality(Columns)
          /\ task[j].found <= task[j].scanned
          /\ pc[j] \in {"exists", "sample", "upsert"} => task[j].found < task[j].scanned
          /\ job[j] # None =>
                /\ job[j].total = Cardinality(Columns)
                /\ job[j].scanned <= task[j].scanned
                /\ pc[j] = "check" => job[j].scanned = task[j].scanned
    /\ pc[j] \in Before \cup InLoop /\ job[j] # None =>
          job[j].status \in {"running", "cancelled"}
    /\ job[j] # None =>
        /\ job[j].found <= job[j].scanned
        /\ job[j].scanned <= job[j].total
        /\ job[j].status = "done" => job[j].scanned = job[j].total /\ job[j].total = Cardinality(Columns)

LEMMA JobCountedIff ==
  /\ (\A j \in Jobs : JobCounted(j)) <=> Counted /\ ProgressTruthful
  /\ (\A j \in Jobs : JobCounted(j)') <=> (Counted /\ ProgressTruthful)'
  BY DEF JobCounted, Counted, ProgressTruthful

\* A task keeps the counts of its own job.
LEMMA OwnStepCounted ==
  ASSUME IInv, NEW j \in Jobs, TaskStep(j)
  PROVE  JobCounted(j)'
  <1>t. TypeOK /\ JobCounted(j) /\ JobSafe(j)
    BY JobCountedIff, JobSafeIff DEF IInv
  <1>r. job[j] \in JobRow \cup {None} /\ task[j] \in Task
    BY <1>t DEF TypeOK
  <1>n. /\ Cardinality(Columns) \in Nat /\ task[j].scanned \in Nat /\ task[j].found \in Nat
        /\ task[j].todo \in SUBSET Columns
        /\ job[j] # None => job[j].total \in Nat /\ job[j].scanned \in Nat /\ job[j].found \in Nat
    BY <1>r, CountIsNat DEF Task, JobRow
  <1>c. Cardinality(task[j].todo) \in Nat
    BY <1>n, FS_Subset, FS_CardinalityType
  <1> USE DEF TypeOK, JobCounted, InLoop, Before
  <1>1. CASE CreateJob(j)
    <2>1. job'[j] = [status |-> "running", total |-> 0, scanned |-> 0, found |-> 0]
          /\ pc'[j] = "created" /\ task' = task
      BY <1>t, <1>1 DEF CreateJob, Goto
    <2>2. task[j].scanned = 0 /\ task[j].found = 0
      BY <1>t, <1>1 DEF CreateJob
    <2> QED BY <2>1, <2>2
  <1>2. CASE StartFails(j) \/ Launch(j)
    BY <1>t, <1>2 DEF StartFails, Launch, Goto
  <1>3. CASE List(j)
    <2>1. /\ task'[j].todo = Columns /\ task'[j].scanned = 0 /\ task'[j].found = 0
          /\ pc'[j] = "check"
      BY <1>t, <1>r, <1>3 DEF List, Goto, Task
    <2>2. job[j] # None => job'[j] = [job[j] EXCEPT !.total = Cardinality(Columns)]
      BY <1>t, <1>3 DEF List, Written
    <2>3. job[j] = None => job'[j] = None
      BY <1>t, <1>3 DEF List, Written
    <2>4. pc[j] = "list"
      BY <1>3 DEF List
    <2> QED BY <1>t, <1>r, <1>n, <2>1, <2>2, <2>3, <2>4 DEF JobRow
  <1>4. CASE Check(j)
    <2>1. CASE job[j] # None /\ job[j].status = "cancelled"
      BY <1>t, <1>4, <2>1 DEF Check, Leave, Goto
    <2>2. CASE ~(job[j] # None /\ job[j].status = "cancelled")
      <3>1. PICK c \in task[j].todo :
              task' = [task EXCEPT ![j].col = c, ![j].todo = @ \ {c}, ![j].scanned = @ + 1]
        BY <1>4, <2>2 DEF Check
      <3>2. /\ task'[j].todo = task[j].todo \ {c} /\ task'[j].scanned = task[j].scanned + 1
            /\ task'[j].found = task[j].found
        BY <1>t, <1>r, <3>1 DEF Task
      <3>3. Cardinality(task'[j].todo) = Cardinality(task[j].todo) - 1
        BY <1>n, <3>2, OneColumnLess
      <3>4. pc[j] = "check" /\ pc'[j] = "exists" /\ job' = job
        BY <1>t, <1>4, <2>2 DEF Check, Goto
      <3> QED BY <1>t, <1>n, <1>c, <3>2, <3>3, <3>4
    <2> QED BY <2>1, <2>2
  <1>w. ASSUME pc[j] \in {"exists", "sample"}, NextColumn(j),
               Written(j, [job[j] EXCEPT !.scanned = task[j].scanned])
        PROVE  JobCounted(j)'
    <2>1. /\ task'[j].todo = task[j].todo /\ task'[j].scanned = task[j].scanned
          /\ task'[j].found = task[j].found /\ pc'[j] = "check"
      BY <1>t, <1>r, <1>w DEF NextColumn, Goto, Task
    <2>2. /\ job[j] # None => job'[j] = [job[j] EXCEPT !.scanned = task[j].scanned]
          /\ job[j] = None => job'[j] = None
      BY <1>t, <1>w DEF Written
    <2> QED BY <1>t, <1>r, <1>n, <1>c, <1>w, <2>1, <2>2 DEF JobRow
  <1>5. CASE Exists(j)
    <2>1. CASE label[Key(j)] # None /\ label[Key(j)].status = "active"
      BY <1>5, <1>w, <2>1 DEF Exists
    <2>2. CASE ~(label[Key(j)] # None /\ label[Key(j)].status = "active")
      BY <1>t, <1>5, <2>2 DEF Exists, Goto
    <2> QED BY <2>1, <2>2
  <1>6. CASE NoSample(j)
    BY <1>6, <1>w DEF NoSample
  <1>7. CASE Classify(j)
    <2>1. /\ task'[j].todo = task[j].todo /\ task'[j].scanned = task[j].scanned
          /\ task'[j].found = task[j].found
      BY <1>t, <1>r, <1>7 DEF Classify, Task
    <2> QED BY <1>t, <1>7, <2>1 DEF Classify, Goto
  <1>8. CASE Upsert(j)
    <2>1. /\ task'[j].todo = task[j].todo /\ task'[j].scanned = task[j].scanned
          /\ task'[j].found \in {task[j].found, task[j].found + 1}
      BY <1>t, <1>r, <1>8 DEF Upsert, Task
    <2>2. pc[j] = "upsert" /\ pc'[j] \in {"progress", "pattern"} /\ job' = job
      BY <1>t, <1>8 DEF Upsert, Goto
    <2> QED BY <1>t, <1>n, <2>1, <2>2
  <1>9. CASE SelectPattern(j)
    BY <1>t, <1>9 DEF SelectPattern, Goto
  <1>10. CASE InsertPattern(j)
    BY <1>t, <1>10 DEF InsertPattern, Leave, Goto
  <1>11. CASE Progress(j)
    <2>1. /\ task'[j].todo = task[j].todo /\ task'[j].scanned = task[j].scanned
          /\ task'[j].found = task[j].found /\ pc'[j] = "check" /\ pc[j] = "progress"
      BY <1>t, <1>r, <1>11 DEF Progress, NextColumn, Goto, Task
    <2>2. /\ job[j] # None =>
               job'[j] = [job[j] EXCEPT !.scanned = task[j].scanned, !.found = task[j].found]
          /\ job[j] = None => job'[j] = None
      BY <1>t, <1>11 DEF Progress, Written
    <2>3. job[j] # None =>
            /\ job'[j].scanned = task[j].scanned /\ job'[j].found = task[j].found
            /\ job'[j].total = job[j].total /\ job'[j].status = job[j].status
      BY <1>r, <2>2 DEF JobRow
    <2>4. CASE job[j] = None
      BY <1>t, <1>n, <1>c, <2>1, <2>2, <2>4
    <2>5. CASE job[j] # None
      BY <1>t, <1>n, <1>c, <2>1, <2>3, <2>5
    <2> QED BY <2>4, <2>5
  <1>12. CASE FinishDone(j)
    <2>1. /\ job[j] # None => job'[j] = [job[j] EXCEPT !.status = "done"]
          /\ job[j] = None => job'[j] = None
          /\ pc[j] = "check" /\ pc'[j] = "after" /\ task[j].todo = {}
      BY <1>t, <1>12 DEF FinishDone, Written, Leave, Goto
    <2>2. Cardinality(task[j].todo) = 0
      BY <2>1, FS_EmptySet
    <2> QED BY <1>t, <1>r, <1>n, <2>1, <2>2 DEF JobRow
  <1>13. CASE Raise(j)
    BY <1>t, <1>13 DEF Raise, Goto, Leave
  <1>14. CASE FinishFailed(j)
    <2>1. /\ job[j] # None => job'[j] = [job[j] EXCEPT !.status = "failed"]
          /\ job[j] = None => job'[j] = None
          /\ pc'[j] = "after"
      BY <1>t, <1>14 DEF FinishFailed, Written, Goto
    <2> QED BY <1>t, <1>r, <1>n, <2>1 DEF JobRow
  <1>15. CASE TaskDies(j) \/ ReadStatus(j) \/ SetLastScan(j)
    BY <1>t, <1>15 DEF TaskDies, ReadStatus, SetLastScan, Goto, Leave
  <1> QED
    BY <1>1, <1>2, <1>3, <1>4, <1>5, <1>6, <1>7, <1>8, <1>9, <1>10, <1>11, <1>12,
       <1>13, <1>14, <1>15 DEF TaskStep

\* Every step keeps the counts of every job.
LEMMA CountStep == IInv /\ [Next]_vars => (Counted /\ ProgressTruthful)'
  <1> SUFFICES ASSUME IInv, [Next]_vars, NEW i \in Jobs PROVE JobCounted(i)'
    BY JobCountedIff
  <1>t. TypeOK /\ JobCounted(i)
    BY JobCountedIff DEF IInv
  <1>r. job[i] \in JobRow \cup {None}
    BY <1>t DEF TypeOK
  <1> USE DEF TypeOK, JobCounted
  <1>1. ASSUME NEW j \in Jobs, TaskStep(j) PROVE JobCounted(i)'
    <2>1. CASE i = j
      BY <1>1, <2>1, OwnStepCounted
    <2>2. CASE i # j
      <3>1. pc'[i] = pc[i] /\ task'[i] = task[i] /\ job'[i] = job[i]
        BY <1>1, <2>2, OthersUntouched
      <3> QED BY <1>t, <3>1
    <2> QED BY <2>1, <2>2
  <1>2. ASSUME NEW j \in Jobs, Cancel(j) PROVE JobCounted(i)'
    <2>1. CASE i = j
      <3>1. job'[i] = [job[i] EXCEPT !.status = "cancelled"] /\ job[i] # None
            /\ pc' = pc /\ task' = task
        BY <1>t, <1>2, <2>1 DEF Cancel
      <3> QED BY <1>t, <1>r, <3>1 DEF JobRow
    <2>2. CASE i # j
      BY <1>t, <1>2, <2>2 DEF Cancel
    <2> QED BY <2>1, <2>2
  <1>3. ASSUME NEW k \in Keys, Approve(k) \/ Relabel(k) \/ Remove(k) PROVE JobCounted(i)'
    BY <1>t, <1>3 DEF Approve, Relabel, Remove
  <1>4. CASE DeletePattern
    BY <1>t, <1>4 DEF DeletePattern
  <1>5. CASE DeleteSource
    BY <1>t, <1>5 DEF DeleteSource
  <1>6. CASE Restart
    BY <1>t, <1>6 DEF Restart, Before, InLoop, NewTask
  <1>7. CASE UNCHANGED vars
    BY <1>t, <1>7 DEF vars
  <1> QED BY <1>1, <1>2, <1>3, <1>4, <1>5, <1>6, <1>7 DEF Next

---------------------------------------------------------------------------
\* IInv holds in every reachable state.
THEOREM ScanInvariance == Spec => []IInv
  <1>1. IInv /\ [Next]_vars => IInv'
    BY TypeStep, SafeStep, LabelStep, CountStep DEF IInv
  <1> QED BY <1>1, InitInvariant, PTL DEF Spec

\* The rows and tasks of scans keep their shape (scanner.py, dwh_router.py).
THEOREM ScanTypeCorrect == Spec => []TypeOK
  BY ScanInvariance, PTL DEF IInv

\* A cancelled scan writes at most one more label row, for any number of scans,
\* columns and administrator's operations, whatever fails or restarts.
THEOREM CancellationStops == Spec => []CancelStops
  <1>1. IInv => CancelStops
    BY DEF IInv, TypeOK, LateOnce, CancelStops
  <1> QED BY <1>1, ScanInvariance, PTL

\* Scans alone never activate a label the classifier was not sure of.
THEOREM ScansNeverActivateUnsure == Spec => []OnlyAdminActivates
  BY ScanInvariance, PTL DEF IInv

\* The progress of a scan never runs past its work, and a job that says done
\* went through every column.
THEOREM ProgressIsTruthful == Spec => []ProgressTruthful
  BY ScanInvariance, PTL DEF IInv

\* Every way out of run_scan leaves an outcome in the job's row, for any number
\* of scans, whatever they and the administrator did to the same rows.
THEOREM ScansLeaveOutcomes == Spec => []ScansEnd
  BY ScanInvariance, PTL DEF IInv

\* A source never keeps the status of a scan that has not ended.
THEOREM LastScanEnded == Spec => []LastScanIsAnOutcome
  <1>1. IInv => LastScanIsAnOutcome
    BY DEF IInv, TypeOK, LastScanIsAnOutcome, Final
  <1> QED BY <1>1, ScanInvariance, PTL
===========================================================================
