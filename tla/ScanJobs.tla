------------------------------ MODULE ScanJobs ------------------------------
(***************************************************************************)
(* The scan of a data source by the gateway: the job endpoints             *)
(* (gateway/dwh_router.py), the background task run_scan                   *)
(* (gateway/scanner.py), the rows it fills in scan_jobs, column_labels and *)
(* custom_patterns, and the administrator who works on the same rows.      *)
(*                                                                         *)
(* One source.  A job is a coroutine, one action per await whose order     *)
(* with the other jobs and the administrator matters.  A label row is      *)
(* reduced to who set it and its status; a scan meets the columns in any   *)
(* order.                                                                  *)
(*                                                                         *)
(* An operator Mut... is a faulty variant of the definition that follows,  *)
(* put in its place to confirm that a property notices the fault.          *)
(***************************************************************************)
EXTENDS Integers, FiniteSets

CONSTANTS
    Jobs,      \* calls of POST /dwh_sources/{sid}/scan
    Columns,   \* what list_objects returns
    Keys,      \* (header_norm, db_name, table_name)
    KeyOf,     \* KeyOf[c]: columns of two schemas may share a key
    Regexes,   \* what the classifier may suggest
    None,
    MaxAdmin,  \* bound: operations of the administrator on labels and patterns
    Events     \* which of EventKinds happen in this instance

EventKinds == {"db_error", "unreachable", "restart", "delete"}

ASSUME ScanAssumption ==
    /\ IsFiniteSet(Columns)
    /\ KeyOf \in [Columns -> Keys]
    /\ MaxAdmin \in Nat
    /\ Events \subseteq EventKinds
    /\ None # "running"

VARIABLES
    job,      \* scan_jobs: job[j] is None or the row
    pc,       \* pc[j]: where the task is; "cut" if something stopped it on its way
    task,     \* task[j]: the local variables of run_scan
    label,    \* column_labels: label[k] is None or the row
    pattern,  \* custom_patterns: pairs <<name, regex>>; a name is a Key
    source,   \* dwh_sources.last_scan_status, or None once the source is deleted
    admin,    \* operations the administrator has made
    late      \* late[j]: label rows written by j while its row said cancelled

vars == <<job, pc, task, label, pattern, source, admin, late>>

Final == {"done", "failed", "cancelled"}
JobRow == [status : Final \cup {"running"}, total : Nat, scanned : Nat, found : Nat]
LabelRow == [status : {"active", "pending"}, by : {"qwen3", "admin"}, sure : BOOLEAN]

\* refs still to visit, the column at hand, the status its label would get, the
\* suggested regex, the counts, and what _bg read; dead variables are reset.
Task == [todo : SUBSET Columns, col : Columns \cup {None},
         answer : {"active", "pending", None}, regex : Regexes \cup {None},
         scanned : Nat, found : Nat, seen : Final \cup {"running", None}]
NewTask == [todo |-> {}, col |-> None, answer |-> None, regex |-> None,
            scanned |-> 0, found |-> 0, seen |-> None]

\* UPDATE scan_jobs ... WHERE id = j: no effect on a row that is gone
Written(j, row) == job' = [job EXCEPT ![j] = IF @ = None THEN None ELSE row]
Key(j) == KeyOf[task[j].col]
Goto(j, where) == pc' = [pc EXCEPT ![j] = where]
NextColumn(j) ==
    /\ task' = [task EXCEPT ![j].col = None, ![j].answer = None, ![j].regex = None]
    /\ Goto(j, "check")
Leave(j, where) == task' = [task EXCEPT ![j] = NewTask] /\ Goto(j, where)

Init ==
    /\ job = [j \in Jobs |-> None]
    /\ pc = [j \in Jobs |-> "none"]
    /\ task = [j \in Jobs |-> NewTask]
    /\ label \in [Keys -> {None, [status |-> "pending", by |-> "qwen3", sure |-> FALSE]}]
    /\ pattern = {}
    /\ source = "none"
    /\ admin = 0
    /\ late = [j \in Jobs |-> 0]

---------------------------------------------------------------------------
(* start_scan: the row first, then everything that may still fail. *)
CreateJob(j) ==
    /\ pc[j] = "none"
    /\ source # None
    /\ job' = [job EXCEPT ![j] = [status |-> "running", total |-> 0, scanned |-> 0, found |-> 0]]
    /\ Goto(j, "created")
    /\ UNCHANGED <<task, label, pattern, source, admin, late>>

\* get_ner_config or list_databases raises: the request answers 500.
StartFails(j) ==
    /\ pc[j] = "created"
    /\ Events \cap {"unreachable", "db_error"} # {}
    /\ Goto(j, "cut")
    /\ UNCHANGED <<job, task, label, pattern, source, admin, late>>

Launch(j) ==
    /\ pc[j] = "created"
    /\ Goto(j, "list")
    /\ UNCHANGED <<job, task, label, pattern, source, admin, late>>

---------------------------------------------------------------------------
(* run_scan. *)
List(j) ==
    /\ pc[j] = "list"
    /\ task' = [task EXCEPT ![j].todo = Columns]
    /\ Written(j, [job[j] EXCEPT !.total = Cardinality(Columns)])
    /\ Goto(j, "check")
    /\ UNCHANGED <<label, pattern, source, admin, late>>

\* The next column, unless the row says cancelled.
MutCheckOnce(j) ==
    /\ pc[j] = "check" /\ task[j].todo # {}
    /\ IF job[j] # None /\ job[j].status = "cancelled" /\ task[j].scanned = 0
       THEN Leave(j, "after")
       ELSE /\ \E c \in task[j].todo :
                 task' = [task EXCEPT ![j].col = c, ![j].todo = @ \ {c}, ![j].scanned = @ + 1]
            /\ Goto(j, "exists")
    /\ UNCHANGED <<job, label, pattern, source, admin, late>>
Check(j) ==
    /\ pc[j] = "check" /\ task[j].todo # {}
    /\ IF job[j] # None /\ job[j].status = "cancelled"
       THEN Leave(j, "after")
       ELSE /\ \E c \in task[j].todo :
                 task' = [task EXCEPT ![j].col = c, ![j].todo = @ \ {c}, ![j].scanned = @ + 1]
            /\ Goto(j, "exists")
    /\ UNCHANGED <<job, label, pattern, source, admin, late>>

\* A column whose label is active is skipped, with its count.
MutExistsUncounted(j) ==
    /\ pc[j] = "exists"
    /\ IF label[Key(j)] # None /\ label[Key(j)].status = "active"
       THEN NextColumn(j)
       ELSE Goto(j, "sample") /\ UNCHANGED task
    /\ UNCHANGED <<job, label, pattern, source, admin, late>>
Exists(j) ==
    /\ pc[j] = "exists"
    /\ IF label[Key(j)] # None /\ label[Key(j)].status = "active"
       THEN /\ Written(j, [job[j] EXCEPT !.scanned = task[j].scanned])
            /\ NextColumn(j)
       ELSE Goto(j, "sample") /\ UNCHANGED <<job, task>>
    /\ UNCHANGED <<label, pattern, source, admin, late>>

\* The sample is refused, or holds only NULLs: on to the next column.
NoSample(j) ==
    /\ pc[j] = "sample"
    /\ Written(j, [job[j] EXCEPT !.scanned = task[j].scanned])
    /\ NextColumn(j)
    /\ UNCHANGED <<label, pattern, source, admin, late>>

\* What the classifier answers; a timeout or an HTTP error is "no label".
Classify(j) ==
    /\ pc[j] = "sample"
    /\ \E answer \in {"active", "pending", None}, regex \in Regexes \cup {None} :
          task' = [task EXCEPT ![j].answer = answer, ![j].regex = regex]
    /\ Goto(j, "upsert")
    /\ UNCHANGED <<job, label, pattern, source, admin, late>>

\* INSERT ... ON CONFLICT DO UPDATE, whatever the row says by now.
MutUpsertKeepsStatus(j) ==
    /\ pc[j] = "upsert"
    /\ IF task[j].answer # None
       THEN /\ label' = [label EXCEPT ![Key(j)] =
                  [status |-> IF @ = None THEN task[j].answer ELSE @.status,
                   by |-> "qwen3", sure |-> task[j].answer = "active"]]
            /\ task' = [task EXCEPT ![j].found = @ + 1]
       ELSE UNCHANGED <<label, task>>
    /\ Goto(j, IF task[j].regex = None THEN "progress" ELSE "pattern")
    /\ UNCHANGED <<job, pattern, source, admin, late>>
Upsert(j) ==
    /\ pc[j] = "upsert"
    /\ IF task[j].answer # None
       THEN /\ label' = [label EXCEPT ![Key(j)] =
                  [status |-> task[j].answer, by |-> "qwen3", sure |-> task[j].answer = "active"]]
            /\ task' = [task EXCEPT ![j].found = @ + 1]
            /\ late' = IF job[j] # None /\ job[j].status = "cancelled"
                       THEN [late EXCEPT ![j] = @ + 1] ELSE late
       ELSE UNCHANGED <<label, task, late>>
    /\ Goto(j, IF task[j].regex = None THEN "progress" ELSE "pattern")
    /\ UNCHANGED <<job, pattern, source, admin>>

\* upsert_pattern_pending: SELECT by regex, INSERT under a UNIQUE name
SelectPattern(j) ==
    /\ pc[j] = "pattern"
    /\ Goto(j, IF \E p \in pattern : p[2] = task[j].regex THEN "progress" ELSE "insert")
    /\ UNCHANGED <<job, task, label, pattern, source, admin, late>>

InsertPattern(j) ==
    /\ pc[j] = "insert"
    /\ IF \E p \in pattern : p[1] = Key(j)
       THEN Leave(j, "failing") /\ UNCHANGED pattern
       ELSE /\ pattern' = pattern \cup {<<Key(j), task[j].regex>>}
            /\ Goto(j, "progress") /\ UNCHANGED task
    /\ UNCHANGED <<job, label, source, admin, late>>

Progress(j) ==
    /\ pc[j] = "progress"
    /\ Written(j, [job[j] EXCEPT !.scanned = task[j].scanned, !.found = task[j].found])
    /\ NextColumn(j)
    /\ UNCHANGED <<label, pattern, source, admin, late>>

\* finish_job, which does not look at the status it replaces
FinishDone(j) ==
    /\ pc[j] = "check" /\ task[j].todo = {}
    /\ Written(j, [job[j] EXCEPT !.status = "done"])
    /\ Leave(j, "after")
    /\ UNCHANGED <<label, pattern, source, admin, late>>

\* Any query may raise; so may list_objects.  The handler then finishes the
\* job, with one more query.
Raise(j) ==
    /\ \/ "db_error" \in Events /\ pc[j] \in
              {"list", "check", "exists", "sample", "upsert", "pattern", "insert", "progress"}
       \/ "unreachable" \in Events /\ pc[j] = "list"
    /\ Leave(j, "failing")
    /\ UNCHANGED <<job, label, pattern, source, admin, late>>

MutFailSilently(j) ==
    /\ pc[j] = "failing"
    /\ Goto(j, "after")
    /\ UNCHANGED <<job, task, label, pattern, source, admin, late>>
FinishFailed(j) ==
    /\ pc[j] = "failing"
    /\ Written(j, [job[j] EXCEPT !.status = "failed"])
    /\ Goto(j, "after")
    /\ UNCHANGED <<task, label, pattern, source, admin, late>>

\* The exception leaves the background task, at the handler's own query or at
\* one of _bg's.
TaskDies(j) ==
    /\ pc[j] \in {"failing", "after", "stamp"}
    /\ "db_error" \in Events
    /\ Leave(j, "cut")
    /\ UNCHANGED <<job, label, pattern, source, admin, late>>

\* _bg: get_job, then set_last_scan; a row that is gone raises.
ReadStatus(j) ==
    /\ pc[j] = "after"
    /\ IF job[j] = None
       THEN Goto(j, "over") /\ UNCHANGED task
       ELSE task' = [task EXCEPT ![j].seen = job[j].status] /\ Goto(j, "stamp")
    /\ UNCHANGED <<job, label, pattern, source, admin, late>>

SetLastScan(j) ==
    /\ pc[j] = "stamp"
    /\ source' = IF source = None THEN None ELSE task[j].seen
    /\ Leave(j, "over")
    /\ UNCHANGED <<job, label, pattern, admin, late>>

---------------------------------------------------------------------------
(* The administrator, and the process. *)
Cancel(j) ==
    /\ job[j] # None /\ job[j].status # "cancelled"
    /\ job' = [job EXCEPT ![j].status = "cancelled"]
    /\ UNCHANGED <<pc, task, label, pattern, source, admin, late>>

AdminActs == admin < MaxAdmin /\ admin' = admin + 1

\* approve, bulk_approve: the row becomes active, in the administrator's name.
Approve(k) ==
    /\ AdminActs
    /\ label[k] # None
    /\ label' = [label EXCEPT ![k].status = "active", ![k].by = "admin"]
    /\ UNCHANGED <<job, pc, task, pattern, source, late>>

\* update: another label, the same status
Relabel(k) ==
    /\ AdminActs
    /\ label[k] # None
    /\ label' = [label EXCEPT ![k].by = "admin"]
    /\ UNCHANGED <<job, pc, task, pattern, source, late>>

\* reject, delete
Remove(k) ==
    /\ AdminActs
    /\ label[k] # None
    /\ label' = [label EXCEPT ![k] = None]
    /\ UNCHANGED <<job, pc, task, pattern, source, late>>

DeletePattern ==
    /\ AdminActs
    /\ \E p \in pattern : pattern' = pattern \ {p}
    /\ UNCHANGED <<job, pc, task, label, source, late>>

\* DELETE /dwh_sources/{sid}; ON DELETE CASCADE takes the jobs' rows.
DeleteSource ==
    /\ "delete" \in Events
    /\ source # None
    /\ source' = None
    /\ job' = [j \in Jobs |-> None]
    /\ UNCHANGED <<pc, task, label, pattern, admin, late>>

\* The gateway stops and starts again: tasks and requests are gone, rows stay.
Restart ==
    /\ "restart" \in Events
    /\ pc' = [j \in Jobs |-> IF pc[j] \in {"none", "over"} THEN pc[j] ELSE "cut"]
    /\ task' = [j \in Jobs |-> NewTask]
    /\ UNCHANGED <<job, label, pattern, source, admin, late>>

---------------------------------------------------------------------------
TaskStep(j) ==
    \/ CreateJob(j) \/ StartFails(j) \/ Launch(j)
    \/ List(j) \/ Check(j) \/ Exists(j) \/ NoSample(j) \/ Classify(j) \/ Upsert(j)
    \/ SelectPattern(j) \/ InsertPattern(j) \/ Progress(j) \/ FinishDone(j)
    \/ Raise(j) \/ FinishFailed(j) \/ TaskDies(j)
    \/ ReadStatus(j) \/ SetLastScan(j)

Next ==
    \/ \E j \in Jobs : TaskStep(j) \/ Cancel(j)
    \/ \E k \in Keys : Approve(k) \/ Relabel(k) \/ Remove(k)
    \/ DeletePattern \/ DeleteSource \/ Restart

Spec == Init /\ [][Next]_vars

---------------------------------------------------------------------------
(* Properties. *)

\* Every variable keeps the shape the code gives it.
TypeOK ==
    /\ job \in [Jobs -> JobRow \cup {None}]
    /\ pc \in [Jobs -> {"none", "created", "list", "check", "exists", "sample", "upsert",
                        "pattern", "insert", "progress", "failing", "after", "stamp", "over", "cut"}]
    /\ task \in [Jobs -> Task]
    /\ label \in [Keys -> LabelRow \cup {None}]
    /\ pattern \subseteq Keys \X Regexes
    /\ source \in Final \cup {"none", None}
    /\ admin \in 0..MaxAdmin
    /\ late \in [Jobs -> Nat]

\* A cancelled scan writes at most the label of the column it was on: the
\* status is read again before each column, whatever the other jobs do.
CancelStops == \A j \in Jobs : late[j] <= 1

\* The progress an administrator reads never runs past the work, and a job
\* that says done went through every column the source listed.
ProgressTruthful ==
    \A j \in Jobs : job[j] # None =>
        /\ job[j].found <= job[j].scanned
        /\ job[j].scanned <= job[j].total
        /\ job[j].status = "done" => job[j].scanned = job[j].total /\ job[j].total = Cardinality(Columns)

\* The status a source keeps of its last scan is the outcome of a scan that
\* ended, never that of one still going on.
LastScanIsAnOutcome == source # "running"

\* A label the classifier was not sure of is active only by an
\* administrator's decision, whatever scans did to the row meanwhile.
OnlyAdminActivates ==
    \A k \in Keys : label[k] # None /\ label[k].status = "active" /\ ~label[k].sure
        => label[k].by = "admin"

\* Every way out of run_scan leaves its outcome in the job's row: unless the
\* row went with the source, it no longer says running once the task is past
\* the scan, whatever raised on the way, the pattern another scan inserted in
\* between included.  Only a task that was cut off leaves it behind: by a
\* request that failed before the task began, by a restart, or by a failure of
\* the handler's own query (scanner.py:53-59).
ScansEnd ==
    \A j \in Jobs :
        pc[j] \in {"after", "stamp", "over"} /\ job[j] # None => job[j].status \in Final

\* A scan leaves the columns whose label is active alone.
ActiveLeftAlone ==
    [][\A k \in Keys : label[k] # None /\ label[k].status = "active" /\ admin' = admin
           => label'[k] = label[k]]_vars

---------------------------------------------------------------------------
(* Why the invariants hold: their inductive strengthening. *)
Before == {"created", "list"}
InLoop == {"check", "exists", "sample", "upsert", "pattern", "insert", "progress"}
Behind == {"failing", "after", "stamp", "over", "cut"}

\* A job that was not asked for has no row and has written nothing.
NotStarted == \A j \in Jobs : pc[j] = "none" => job[j] = None /\ late[j] = 0

\* A task inside the loop is at a column, and suggests a regex it has.
AtColumn ==
    \A j \in Jobs :
        /\ pc[j] \in InLoop \ {"check"} => task[j].col \in Columns
        /\ pc[j] \in {"pattern", "insert"} => task[j].regex \in Regexes

\* After its one write under a cancelled row, a task is past the upsert of that
\* column, and the row still says cancelled when the next one comes.
LateOnce ==
    \A j \in Jobs : late[j] # 0 =>
        /\ late[j] = 1
        /\ \/ job[j] = None
           \/ pc[j] \in Behind
           \/ pc[j] \in InLoop \ {"exists", "sample", "upsert"} /\ job[j].status = "cancelled"

\* What _bg has read of a job is an outcome.
OutcomeSeen == \A j \in Jobs : pc[j] = "stamp" => task[j].seen \in Final

\* The counts of a task and of its row.
Counted ==
    \A j \in Jobs :
        /\ pc[j] \in {"none"} \cup Before =>
              /\ task[j].scanned = 0 /\ task[j].found = 0
              /\ job[j] # None => job[j].scanned = 0 /\ job[j].found = 0
        /\ pc[j] \in InLoop =>
              /\ task[j].scanned + Cardinality(task[j].todo) = Cardinality(Columns)
              /\ task[j].found <= task[j].scanned
              /\ pc[j] \in {"exists", "sample", "upsert"} => task[j].found < task[j].scanned
              /\ job[j] # None =>
                    /\ job[j].total = Cardinality(Columns)
                    /\ job[j].scanned <= task[j].scanned
                    /\ pc[j] = "check" => job[j].scanned = task[j].scanned
        /\ pc[j] \in Before \cup InLoop /\ job[j] # None =>
              job[j].status \in {"running", "cancelled"}

IInv ==
    /\ TypeOK
    /\ NotStarted
    /\ AtColumn
    /\ LateOnce
    /\ ScansEnd
    /\ OutcomeSeen
    /\ OnlyAdminActivates
    /\ Counted
    /\ ProgressTruthful
=============================================================================
