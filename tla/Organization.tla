----------------------------- MODULE Organization -----------------------------
(***************************************************************************)
(* The people of a company and what depends on them: the directory of      *)
(* employees, who reports to whom, departments and their managers, assets, *)
(* the import of employees, the activation of the company and the actions  *)
(* people are asked to take (admin/service.py, onboarding/service.py,      *)
(* human_actions/service.py).                                              *)
(*                                                                         *)
(* Nearly every handler has the same shape: it checks what plain reads     *)
(* return, then it updates and commits.  Nothing is locked between the     *)
(* two, so they are two steps here and the commits of other handlers fall  *)
(* between them.  A call keeps in `since` the operations that committed    *)
(* after its reads: the properties that a race breaks name the race.       *)
(* A refused call changes nothing and is not represented.                  *)
(***************************************************************************)
EXTENDS Integers, FiniteSets

CONSTANTS Sessions,     \* calls that run at once
          Employees,    \* people that may be in the directory
          Departments,
          Assets,
          Jobs,         \* import jobs that may be validated
          File,         \* the rows of the employee file: a function on some employees
          Covered,      \* departments with an active, ingested policy
          Founders,     \* the directory at the start: a function on some employees
          MaxCalls,     \* bound on the calls that are made
          MaxStops,     \* bound on the rollbacks and deaths of the process
          Nil

ASSUME OrganizationAssumption ==
    /\ IsFiniteSet(Sessions) /\ IsFiniteSet(Employees)
    /\ MaxCalls \in Nat \ {0} /\ MaxStops \in Nat
    /\ DOMAIN File \subseteq Employees /\ DOMAIN Founders \subseteq Employees
    /\ File \in [DOMAIN File -> [dept : Departments \cup {Nil}, manager : Employees \cup {Nil}]]
    /\ Nil \notin Employees \cup Departments

VARIABLES staff,    \* row of the employee and of his user account
          enabled,  \* departments.is_active
          asset,    \* row of the asset
          action,   \* the human action
          job,      \* status of the import job
          active,   \* companies.is_active
          calls,    \* what each session is doing
          made,     \* calls made so far
          stops

orgVars == <<staff, enabled, asset, action, job, active, calls, made, stops>>

EmploymentStatus == {"active", "on_leave", "terminated"}
AssetStatus == {"available", "assigned", "maintenance", "retired"}
ImportJobStatus == {"none", "ready", "processing", "completed", "failed"}
Operations == {"hire", "edit", "deactivate", "department", "asset", "retire",
               "assign", "activate", "confirm", "answer",
               "create", "amend", "remove"}

\* The company account answers, beside the people.
Company == "company"

Absent == [status |-> "absent", dept |-> Nil, manager |-> Nil,
           role |-> "none", account |-> FALSE, origin |-> "none"]
Employee(st, d, m, from) == [status |-> st, dept |-> d, manager |-> m,
                             role |-> "employee", account |-> TRUE, origin |-> from]
StaffRow == [status : EmploymentStatus \cup {"absent"}, dept : Departments \cup {Nil},
             manager : Employees \cup {Nil}, role : {"none", "employee", "department_manager"},
             account : BOOLEAN, origin : {"none", "hire", "import"}]

\* The people at the start were entered one by one.
ASSUME FoundersAssumption ==
    /\ Founders \in [DOMAIN Founders -> StaffRow]
    /\ \A e \in DOMAIN Founders :
          /\ Founders[e].status # "absent" /\ Founders[e].origin # "import"
          /\ Founders[e].manager \in DOMAIN Founders \cup {Nil}

Present == {e \in Employees : staff[e].status # "absent"}

Apply(row, change) == [f \in DOMAIN row |-> IF f \in DOMAIN change THEN change[f] ELSE row[f]]

Managers(d) == {e \in Present : staff[e].dept = d /\ staff[e].role = "department_manager"}
ActiveManagers(d) == {e \in Managers(d) : staff[e].account}

-----------------------------------------------------------------------------
(* Calls *)

AtRest == [op |-> "none", at |-> "idle", since |-> {}, args |-> [e |-> Nil]]
At(s, op, step) == calls[s].op = op /\ calls[s].at = step
Args(s) == calls[s].args

Free(s) == calls[s] = AtRest /\ made < MaxCalls

Begin(s, op, step, args) ==
    /\ made' = made + 1
    /\ calls' = [calls EXCEPT ![s] = [op |-> op, at |-> step, since |-> {}, args |-> args]]
    /\ UNCHANGED <<staff, enabled, asset, action, job, active, stops>>

\* A commit of s is seen by the reads of no call that has already read.
Overtake(s, next) ==
    calls' = [t \in Sessions |->
                IF t = s THEN next
                ELSE IF calls[t] = AtRest THEN AtRest
                ELSE [calls[t] EXCEPT !.since = @ \cup {calls[s].op}]]
Commit(s) == Overtake(s, AtRest) /\ UNCHANGED <<made, stops>>

Refuse(s) ==
    /\ calls' = [calls EXCEPT ![s] = AtRest]
    /\ UNCHANGED <<staff, enabled, asset, action, job, active, made, stops>>

\* Rows of users that an appointment has updated and not yet committed.
Locked(s) == UNION {Args(t).held : t \in {x \in Sessions \ {s} : At(x, "assign", "promote")}}

\* Everyone a row of the file names as manager, except himself, becomes a department manager.
Named == {File[e].manager : e \in {x \in DOMAIN File : File[x].manager # x}} \ {Nil}

\* Rows of users that the next statement of a call updates.
Wanted(s) ==
    IF At(s, "deactivate", "write") \/ At(s, "assign", "promote") THEN {Args(s).e}
    ELSE IF At(s, "assign", "lock") THEN Args(s).held
    ELSE IF At(s, "confirm", "rows") THEN Named ELSE {}
Waits(s) == Wanted(s) \cap Locked(s) # {}

-----------------------------------------------------------------------------
(* Employees *)

\* Code and email are free, the department is enabled; the manager is not looked up.
MayHire(e, d) ==
    /\ e \notin Present
    /\ d # Nil => enabled[d]

\* Only an active company hires.
HireRead(s) ==
    /\ active
    /\ \E e \in Employees, d \in Departments \cup {Nil}, m \in Present \cup {Nil} :
        MayHire(e, d) /\ Begin(s, "hire", "write", [e |-> e, dept |-> d, manager |-> m])

\* The unique constraints refuse what was taken since.
HireWrite(s) ==
    LET a == Args(s) IN
    /\ At(s, "hire", "write")
    /\ \/ /\ a.e \notin Present
          /\ staff' = [staff EXCEPT ![a.e] = Employee("active", a.dept, a.manager, "hire")]
          /\ Commit(s)
          /\ UNCHANGED <<enabled, asset, action, job, active>>
       \/ a.e \in Present /\ Refuse(s)

\* The people above m, n levels up; Nil once the line has ended.
Above(m) ==
    LET up[n \in 0..Cardinality(Employees)] ==
            IF n = 0 THEN m ELSE IF up[n - 1] = Nil THEN Nil ELSE staff[up[n - 1]].manager
    IN up

Bug_OnlyNotSelf(e, m) == m # e

\* The walk from m upwards ends, and does not meet e.
WalkEnds(e, m) ==
    LET up == Above(m) IN
    \E n \in DOMAIN up : up[n] = Nil /\ \A i \in 0..(n - 1) : up[i] # e

Changes == [{"manager"} -> Present] \cup [{"dept"} -> Departments]
           \cup [{"status"} -> EmploymentStatus \ {"terminated"}]

\* A given manager is active and not below the employee; neither the
\* department nor the rest of the row is compared with anything.
MayEdit(e, change) ==
    "manager" \in DOMAIN change =>
        /\ staff[change.manager].status = "active"
        /\ WalkEnds(e, change.manager)

EditRead(s) ==
    \E e \in Present, change \in Changes :
        MayEdit(e, change) /\ Begin(s, "edit", "write", [e |-> e, change |-> change])

EditWrite(s) ==
    LET a == Args(s) IN
    /\ At(s, "edit", "write")
    /\ staff' = [staff EXCEPT ![a.e] = Apply(@, a.change)]
    /\ Commit(s)
    /\ UNCHANGED <<enabled, asset, action, job, active>>

AssignedTo(e) == {x \in Assets : asset[x].holder = e /\ asset[x].status = "assigned"}
Bug_ForgetsAssets(e) ==
    staff[e].role # "department_manager" /\ ~(action.status = "pending" /\ action.assignee = e)
MayDeactivate(e) ==
    /\ staff[e].role # "department_manager"
    /\ AssignedTo(e) = {}
    /\ ~(action.status = "pending" /\ action.assignee = e)

DeactivateRead(s) ==
    /\ active
    /\ \E e \in Present : MayDeactivate(e) /\ Begin(s, "deactivate", "write", [e |-> e])

DeactivateWrite(s) ==
    LET e == Args(s).e IN
    /\ At(s, "deactivate", "write")
    /\ ~Waits(s)
    /\ staff' = [staff EXCEPT ![e].status = "terminated", ![e].account = FALSE]
    /\ Commit(s)
    /\ UNCHANGED <<enabled, asset, action, job, active>>

-----------------------------------------------------------------------------
(* Departments and assets *)

MayDisable(d) == \A e \in Present : ~(staff[e].dept = d /\ staff[e].status = "active")

MaySwitch(d, on) == ~on => MayDisable(d)

DepartmentRead(s) ==
    \E d \in Departments, on \in BOOLEAN :
        /\ on # enabled[d]
        /\ MaySwitch(d, on)
        /\ Begin(s, "department", "write", [e |-> d, on |-> on])

DepartmentWrite(s) ==
    /\ At(s, "department", "write")
    /\ enabled' = [enabled EXCEPT ![Args(s).e] = Args(s).on]
    /\ Commit(s)
    /\ UNCHANGED <<staff, asset, action, job, active>>

\* What _validate_assignment makes of the fields that are given.
Validated(change) ==
    IF "holder" \notin DOMAIN change THEN change
    ELSE IF change.holder # Nil THEN [holder |-> change.holder, status |-> "assigned"]
    ELSE IF "status" \notin DOMAIN change THEN [holder |-> Nil, status |-> "available"]
    ELSE change

AssetChanges ==
    [{"holder"} -> Present \cup {Nil}]
    \cup [{"status"} -> AssetStatus \ {"assigned"}]
    \cup {[holder |-> Nil, status |-> st] : st \in AssetStatus \ {"assigned"}}

MayChange(x, change) ==
    /\ asset[x].status # "retired"
    /\ ("holder" \in DOMAIN change /\ change.holder # Nil) => staff[change.holder].status = "active"
    /\ ("status" \in DOMAIN change /\ change.status = "retired") => asset[x].holder = Nil

\* The client sends the version of the page it edited, which may be an old one.
AssetRead(s) ==
    /\ active
    /\ \E x \in Assets, change \in AssetChanges :
        /\ MayChange(x, change)
        /\ \E v \in 1..asset[x].version :
              Begin(s, "asset", "write", [e |-> x, change |-> Validated(change), version |-> v])

SameVersion(x, v) == asset[x].version = v

AssetWrite(s) ==
    LET a == Args(s) IN
    /\ At(s, "asset", "write")
    /\ \/ /\ SameVersion(a.e, a.version)
          /\ asset' = [asset EXCEPT ![a.e] = [Apply(@, a.change) EXCEPT !.version = a.version + 1]]
          /\ Commit(s)
          /\ UNCHANGED <<staff, enabled, action, job, active>>
       \/ ~SameVersion(a.e, a.version) /\ Refuse(s)

MayRetire(x) == asset[x].holder = Nil

RetireRead(s) ==
    /\ active
    /\ \E x \in Assets : MayRetire(x) /\ Begin(s, "retire", "write", [e |-> x])

\* Neither the holder nor the version is compared again, and the version stays.
RetireWrite(s) ==
    /\ At(s, "retire", "write")
    /\ asset' = [asset EXCEPT ![Args(s).e].status = "retired"]
    /\ Commit(s)
    /\ UNCHANGED <<staff, enabled, action, job, active>>

-----------------------------------------------------------------------------
(* Department managers and activation *)

MayAppoint(d, e) == enabled[d] /\ staff[e].dept = d /\ staff[e].status = "active"

AppointRead(s) ==
    \E d \in Departments, e \in Present :
        /\ MayAppoint(d, e)
        /\ Begin(s, "assign", "demote", [e |-> e, dept |-> d, held |-> {}])

\* The first UPDATE finds the managers it will demote ...
AppointDemote(s) ==
    /\ At(s, "assign", "demote")
    /\ calls' = [calls EXCEPT ![s].at = "lock", ![s].args.held = Managers(Args(s).dept)]
    /\ UNCHANGED <<staff, enabled, asset, action, job, active, made, stops>>

\* ... and locks their rows, once they are free, if they still are managers.
AppointLock(s) ==
    /\ At(s, "assign", "lock")
    /\ ~Waits(s)
    /\ calls' = [calls EXCEPT ![s].at = "promote",
                              ![s].args.held = {x \in @ : staff[x].role = "department_manager"}]
    /\ UNCHANGED <<staff, enabled, asset, action, job, active, made, stops>>

\* The second UPDATE asks for an active account and is committed with the first.
AppointPromote(s) ==
    LET a == Args(s) IN
    /\ At(s, "assign", "promote")
    /\ ~Waits(s)
    /\ \/ /\ staff[a.e].account
          /\ staff' = [x \in Employees |->
                        IF x = a.e THEN [staff[x] EXCEPT !.role = "department_manager"]
                        ELSE IF x \in a.held THEN [staff[x] EXCEPT !.role = "employee"]
                        ELSE staff[x]]
          /\ Commit(s)
          /\ UNCHANGED <<enabled, asset, action, job, active>>
       \/ ~staff[a.e].account /\ Refuse(s)

\* The checklist of get_status.
Ready ==
    LET on == {d \in Departments : enabled[d]} IN
    /\ on # {}
    /\ Present # {}
    /\ \A d \in on : ActiveManagers(d) # {}
    /\ on \subseteq Covered

MayActivate == ~active /\ Ready

ActivateRead(s) == MayActivate /\ Begin(s, "activate", "write", [e |-> Nil])
ActivateWrite(s) ==
    /\ At(s, "activate", "write")
    /\ active' = TRUE
    /\ Commit(s)
    /\ UNCHANGED <<staff, enabled, asset, action, job>>

-----------------------------------------------------------------------------
(* The import of the employee file *)

FileRows == DOMAIN File
RowsFree == FileRows \cap Present = {}
ManagersKnown == \A e \in FileRows : File[e].manager \in FileRows \cup Present \cup {Nil}

\* A file of this type is ready only when every row is valid.
Verdict == IF RowsFree /\ ManagersKnown THEN "ready" ELSE "failed"

AlreadyCompleted == \E j \in Jobs : job[j] = "completed"

\* The job is written with its report in one transaction.
ValidateImport(j) ==
    /\ job[j] = "none"
    /\ ~AlreadyCompleted
    /\ made < MaxCalls
    /\ made' = made + 1
    /\ job' = [job EXCEPT ![j] = Verdict]
    /\ UNCHANGED <<staff, enabled, asset, action, active, calls, stops>>

MayConfirm(j) == job[j] = "ready"

ConfirmRead(s) == \E j \in Jobs : MayConfirm(j) /\ Begin(s, "confirm", "start", [e |-> j])

\* The status is set without comparing it again.
ConfirmStart(s) ==
    LET j == Args(s).e IN
    /\ At(s, "confirm", "start")
    /\ job' = [job EXCEPT ![j] = "processing"]
    /\ Overtake(s, [calls[s] EXCEPT !.at = "rows"])
    /\ UNCHANGED <<staff, enabled, asset, action, active, made, stops>>

Imported ==
    [e \in Employees |->
       LET row == IF e \in FileRows
                  THEN Employee("active", File[e].dept,
                                IF File[e].manager = e THEN Nil ELSE File[e].manager, "import")
                  ELSE staff[e]
       IN IF e \in Named THEN [row EXCEPT !.role = "department_manager"] ELSE row]

Bug_CompletedAnyway(s) ==
    /\ At(s, "confirm", "rows")
    /\ staff' = IF RowsFree THEN Imported ELSE staff
    /\ job' = [job EXCEPT ![Args(s).e] = "completed"]
    /\ Commit(s)
    /\ UNCHANGED <<enabled, asset, action, active>>
\* All rows in one transaction, with the completion; a taken code or email
\* rolls them back and the failure is written instead.
ConfirmRows(s) ==
    LET j == Args(s).e IN
    /\ At(s, "confirm", "rows")
    /\ ~Waits(s)
    /\ \/ /\ RowsFree
          /\ staff' = Imported
          /\ job' = [job EXCEPT ![j] = "completed"]
       \/ /\ ~RowsFree
          /\ job' = [job EXCEPT ![j] = "failed"]
          /\ UNCHANGED staff
    /\ Commit(s)
    /\ UNCHANGED <<enabled, asset, action, active>>

-----------------------------------------------------------------------------
(* The human action *)

\* The assignee is not looked up: an account that was closed may be given one.
NewAction(e) == [status |-> "pending", assignee |-> e, answer |-> Nil]

CreateAction ==
    /\ active
    /\ action.status = "none"
    /\ made < MaxCalls
    /\ made' = made + 1
    /\ \E e \in Present \cup {Nil} : action' = NewAction(e)
    /\ UNCHANGED <<staff, enabled, asset, job, active, calls, stops>>

MayAnswer(p) ==
    \/ p = Company
    \/ /\ p \in Present /\ staff[p].account
       /\ staff[p].role = "department_manager" \/ action.assignee = p

StillPending == action.status = "pending"

MaySubmit(p) == StillPending /\ MayAnswer(p)

AnswerRead(s) ==
    /\ active
    /\ \E p \in Employees \cup {Company} :
        /\ MaySubmit(p)
        /\ Begin(s, "answer", "write", [e |-> p])

AnswerWrite(s) ==
    /\ At(s, "answer", "write")
    /\ \/ /\ StillPending
          /\ action' = [action EXCEPT !.status = "resolved", !.answer = Args(s).e]
          /\ Commit(s)
          /\ UNCHANGED <<staff, enabled, asset, job, active>>
       \/ ~StillPending /\ Refuse(s)

-----------------------------------------------------------------------------
(* Failures *)

\* A transaction that fails is rolled back; confirm_import records it.
Rollback(s) ==
    /\ calls[s] # AtRest
    /\ stops < MaxStops
    /\ stops' = stops + 1
    /\ calls' = [calls EXCEPT ![s] = AtRest]
    /\ job' = IF At(s, "confirm", "rows") THEN [job EXCEPT ![Args(s).e] = "failed"] ELSE job
    /\ UNCHANGED <<staff, enabled, asset, action, active, made>>

\* The process dies: what was not committed is gone.
Stop ==
    /\ \E s \in Sessions : calls[s] # AtRest
    /\ stops < MaxStops
    /\ stops' = stops + 1
    /\ calls' = [s \in Sessions |-> AtRest]
    /\ UNCHANGED <<staff, enabled, asset, action, job, active, made>>

-----------------------------------------------------------------------------

\* Either a company that works, whose activation was one of the calls, or a new
\* one with nobody, where the departments without a policy were disabled.
OrganizationInit ==
    /\ active \in BOOLEAN
    /\ staff = [e \in Employees |->
                  IF active /\ e \in DOMAIN Founders THEN Founders[e] ELSE Absent]
    /\ enabled = [d \in Departments |->
                    IF active THEN \E e \in DOMAIN Founders : Founders[e].dept = d
                    ELSE d \in Covered]
    /\ asset = [x \in Assets |-> [status |-> "available", holder |-> Nil, version |-> 1]]
    /\ action = [status |-> "none", assignee |-> Nil, answer |-> Nil]
    /\ job = [j \in Jobs |-> "none"]
    /\ calls = [s \in Sessions |-> AtRest]
    /\ made = IF active THEN 1 ELSE 0
    /\ stops = 0

Read(s) ==
    /\ Free(s)
    /\ \/ HireRead(s) \/ EditRead(s) \/ DeactivateRead(s) \/ DepartmentRead(s)
       \/ AssetRead(s) \/ RetireRead(s) \/ AppointRead(s) \/ ActivateRead(s)
       \/ ConfirmRead(s) \/ AnswerRead(s)

\* What a call that has begun goes on to do.
Step(s) ==
    \/ HireWrite(s) \/ EditWrite(s) \/ DeactivateWrite(s) \/ DepartmentWrite(s)
    \/ AssetWrite(s) \/ RetireWrite(s)
    \/ AppointDemote(s) \/ AppointLock(s) \/ AppointPromote(s) \/ ActivateWrite(s)
    \/ ConfirmStart(s) \/ ConfirmRows(s) \/ AnswerWrite(s)

OrganizationNext ==
    \/ \E s \in Sessions : Read(s) \/ Step(s) \/ Rollback(s)
    \/ \E j \in Jobs : ValidateImport(j)
    \/ CreateAction
    \/ Stop

-----------------------------------------------------------------------------
(* Properties *)

\* The type of every variable.
OrganizationTypeOK ==
    /\ staff \in [Employees -> StaffRow]
    /\ enabled \in [Departments -> BOOLEAN]
    /\ asset \in [Assets -> [status : AssetStatus, holder : Employees \cup {Nil},
                            version : 1..(MaxCalls + 1)]]
    /\ action \in [status : {"none", "pending", "resolved"}, assignee : Employees \cup {Nil},
                   answer : Employees \cup {Company, Nil}]
    /\ job \in [Jobs -> ImportJobStatus]
    /\ active \in BOOLEAN
    /\ \A s \in Sessions : calls[s] = AtRest \/ (calls[s].op \in Operations /\ calls[s].since \subseteq Operations)
    /\ made \in 0..MaxCalls /\ stops \in 0..MaxStops

EndsCall(s) == calls[s] # AtRest /\ calls'[s] = AtRest
\* A call of kind op ends that had read before a call of one of the kinds committed.
EndsOvertaken(op, kinds) == \E s \in Sessions : EndsCall(s) /\ calls[s].op = op /\ calls[s].since \cap kinds # {}

\* An asset that is assigned is assigned to someone, whatever mixture of
\* status and holder the edits give (AdminAssetService._validate_assignment).
AssignedHasHolder == \A x \in Assets : asset[x].status = "assigned" => asset[x].holder # Nil

\* However confirmations, hirings and failures interleave, the rows of the file
\* are in the directory all together or not at all, and a completed job has
\* brought them (confirm_import).
ImportIsAllOrNothing ==
    LET in == {e \in FileRows : staff[e].origin = "import"} IN
    /\ in \in {{}, FileRows}
    /\ (\E j \in Jobs : job[j] = "completed") => in = FileRows

\* Only the death of the process leaves a job that nobody processes.
ProcessingIsHeld ==
    stops = 0 => \A j \in Jobs : job[j] = "processing" =>
        \E s \in Sessions : At(s, "confirm", "rows") /\ Args(s).e = j

\* Some people each of whom reports to one of them.
InACircle(S) == S # {} /\ \A e \in S : staff[e].manager \in S
NoCycle == \A S \in SUBSET Present : ~InACircle(S)

FileHasCycle ==
    \E S \in (SUBSET FileRows) \ {{}} : \A e \in S : File[e].manager \in S \ {e}

\* The reporting lines form no cycle, but for two edits that overlap or a file that
\* brings one: nothing else that runs beside an edit can close one
\* (AdminEmployeeService.update; the import compares nothing).
OnlyOverlappingEditsCloseACycle ==
    [][(staff' # staff /\ NoCycle /\ ~NoCycle') =>
        EndsOvertaken("edit", {"edit"})
        \/ (FileHasCycle /\ \E s \in Sessions : At(s, "confirm", "rows") /\ EndsCall(s))]_orgVars

Stranded(x) == asset[x].status = "assigned" /\ staff[asset[x].holder].status = "terminated"

\* An asset is left with somebody who is gone only when an assignment and the
\* deactivation overlap (docs/10-api-architecture.md: termination checks assigned assets).
OnlyARaceStrandsAssets ==
    [][\A x \in Assets : (<<staff, asset>>' # <<staff, asset>> /\ Stranded(x)' /\ ~Stranded(x)) =>
            EndsOvertaken("asset", {"deactivate"}) \/ EndsOvertaken("deactivate", {"asset"})]_orgVars

\* Nothing leaves the retired status unless the edit overlaps the retirement.
OnlyARaceRevives ==
    [][\A x \in Assets : (asset[x].status = "retired" /\ asset'[x].status # "retired") =>
            EndsOvertaken("asset", {"retire"})]_orgVars

\* An edit on an old page never overwrites: between two edits of an asset that
\* both succeed the version moves on by one (optimistic locking).
AssetEditsNotLost ==
    [][\A x \in Assets : asset'[x] # asset[x] =>
        \/ asset'[x].version = asset[x].version + 1
        \/ asset'[x] = [asset[x] EXCEPT !.status = "retired"]]_orgVars

\* Assets: no edit is lost, and only a race revives one or leaves it with nobody.
AssetsKept == OnlyARaceStrandsAssets /\ OnlyARaceRevives /\ AssetEditsNotLost

\* An appointment that no other appointment, import or edit overtakes leaves
\* its department with the one manager (assign_department_manager).
AppointmentReplaces ==
    [][\A s \in Sessions, d \in Departments :
        (/\ At(s, "assign", "promote") /\ EndsCall(s) /\ staff' # staff
         /\ Args(s).dept = d
         /\ calls[s].since \cap {"assign", "confirm", "edit"} = {})
        => Managers(d)' = {Args(s).e}]_orgVars

\* An enabled department loses its last manager with an account only when he is
\* moved, or when a deactivation or an appointment was overtaken after its checks.
CoverageIsKept ==
    [][\A d \in Departments : (staff' # staff /\ enabled[d] /\ ActiveManagers(d) # {} /\ ActiveManagers(d)' = {}) =>
        \/ \E s \in Sessions : EndsCall(s) /\ At(s, "edit", "write") /\ "dept" \in DOMAIN Args(s).change
        \/ EndsOvertaken("deactivate", {"assign", "confirm"})
        \/ EndsOvertaken("assign", {"edit"})]_orgVars

\* A company becomes active with the checklist fulfilled, unless what the
\* checklist reads was changed after it was read (activate).
ActivatedWhenReady ==
    [][(~active /\ active') =>
        Ready \/ EndsOvertaken("activate", {"edit", "deactivate", "department", "assign"})]_orgVars

\* The people of a company are led, through reporting lines and department
\* managers, whatever is appointed, moved, deactivated and imported, but for the
\* races named.
PeopleAreLed ==
    /\ OnlyOverlappingEditsCloseACycle
    /\ AppointmentReplaces /\ CoverageIsKept /\ ActivatedWhenReady

-----------------------------------------------------------------------------
(* What the code does not keep *)

\* "retirement requires prior unassignment" (docs/10-api-architecture.md:273)
RetiredAfterUnassignment ==
    [][\A x \in Assets : (asset[x].status # "retired" /\ asset'[x].status = "retired") =>
            asset[x].holder = Nil]_orgVars

\* A job that is completed stays completed.
CompletedIsKept == [][\A j \in Jobs : job[j] = "completed" => job'[j] = "completed"]_orgVars

\* Only the appointment makes a department manager.
ManagersAreAppointed ==
    [][\A e \in Employees :
        (staff[e].role # "department_manager" /\ staff'[e].role = "department_manager") =>
            \E s \in Sessions : At(s, "assign", "promote") /\ EndsCall(s)]_orgVars

\* "department disabling is rejected while active members remain" (docs/10-api-architecture.md:272)
DisabledIsEmpty == \A d \in Departments : ~enabled[d] => MayDisable(d)
===============================================================================
