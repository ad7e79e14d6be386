------------------------------- MODULE Registers -------------------------------
(***************************************************************************)
(* The registers that administrators keep: suppliers, the software         *)
(* catalogue, company holidays and leave balances (the routes of           *)
(* admin/router.py).  Who may write one depends on Organization: the       *)
(* company, or the manager of the department it belongs to.  Checks and    *)
(* writes are two steps, as there; the constraints of the database hold at *)
(* the write.                                                              *)
(***************************************************************************)
EXTENDS Organization

CONSTANTS Keys,      \* names, or dates, or (employee, type, year)
          Fold,      \* lower case of the stripped name: a function on Keys
          Padded,    \* names that begin or end with blanks
          Holds,     \* the registers that belong to a department's domain
          Entries,   \* identifiers of rows, 1 .. n
          MaxKinds   \* bound on the registers one behaviour touches

ASSUME RegistersAssumption ==
    /\ Nil \notin Keys /\ Fold \in [Keys -> Keys] /\ Padded \subseteq Keys
    /\ MaxKinds \in Nat /\ Entries \subseteq Nat

VARIABLE register

allVars == <<orgVars, register>>

Kinds == {"supplier", "software", "holiday", "balance"}
Missing == [key |-> Nil, active |-> FALSE, version |-> 0]
NewRow(key) == [key |-> key, active |-> TRUE, version |-> 1]
In(k) == {i \in Entries : register[k][i] # Missing}

\* The unique constraint of a register compares the keys as they are.
Taken(k, change, i) ==
    "key" \in DOMAIN change /\ \E j \in In(k) \ {i} : register[k][j].key = change.key

Writers(k) ==
    {Company} \cup {p \in Present : /\ staff[p].account
                                    /\ staff[p].role = "department_manager"
                                    /\ staff[p].dept # Nil /\ k \in Holds[staff[p].dept]}

-----------------------------------------------------------------------------
(* Calls *)

Registering(s) == calls[s].op \in {"create", "amend", "remove"}
Touched == {k \in Kinds : In(k) # {}} \cup {Args(s).kind : s \in {t \in Sessions : Registering(t)}}

Open(s, op, k, i, change, v) ==
    /\ Cardinality(Touched \cup {k}) <= MaxKinds
    /\ \E p \in Writers(k) :
          Begin(s, op, "write", [e |-> i, kind |-> k, by |-> p, change |-> change, version |-> v])
    /\ UNCHANGED register

Due(s, op, k) == At(s, op, "write") /\ Args(s).kind = k

Put(s, i, row) ==
    /\ register' = [register EXCEPT ![Args(s).kind][i] = row]
    /\ Commit(s)
    /\ UNCHANGED <<staff, enabled, asset, action, job, active>>

Drop(s) == Refuse(s) /\ UNCHANGED register

Insert(s) ==
    LET a == Args(s)
        free == Entries \ In(a.kind)
    IN \/ /\ ~Taken(a.kind, a.change, Nil)
          /\ free # {}
          /\ Put(s, CHOOSE i \in free : \A j \in free : i <= j, NewRow(a.change.key))
       \/ Taken(a.kind, a.change, Nil) /\ Drop(s)

Update(s, ok) ==
    LET a == Args(s) IN
    \/ /\ ok /\ ~Taken(a.kind, a.change, a.e)
       /\ Put(s, a.e, Apply(register[a.kind][a.e], a.change))
    \/ /\ ~ok \/ Taken(a.kind, a.change, a.e)
       /\ Drop(s)

-----------------------------------------------------------------------------
(* Suppliers *)

\* Mutant of SupplierMatches: names are compared as they are spelt.
Bug_SameSpelling(key) == {i \in In("supplier") : register["supplier"][i].key = key}
\* get_by_name strips and lowers the name it is given, and only lowers the stored ones.
SupplierMatches(key) ==
    {i \in In("supplier") : /\ register["supplier"][i].key \notin Padded
                            /\ Fold[register["supplier"][i].key] = Fold[key]}

SupplierChanges == [{"key"} -> Keys] \cup [{"active"} -> BOOLEAN]

\* One of the matches is read; the row itself is none.
MayRename(i, change) ==
    "key" \in DOMAIN change => SupplierMatches(change.key) = {} \/ i \in SupplierMatches(change.key)

CreateSupplier(s) ==
    \E key \in Keys : /\ SupplierMatches(key) = {}
                      /\ Open(s, "create", "supplier", Nil, [key |-> key], 1)
EditSupplier(s) ==
    \E i \in In("supplier"), change \in SupplierChanges :
        MayRename(i, change) /\ Open(s, "amend", "supplier", i, change, 1)
RemoveSupplier(s) ==
    \E i \in In("supplier") : Open(s, "remove", "supplier", i, [active |-> FALSE], 1)

InsertSupplier(s) == Due(s, "create", "supplier") /\ Insert(s)
UpdateSupplier(s) == Due(s, "amend", "supplier") /\ Update(s, TRUE)
DeactivateSupplier(s) == Due(s, "remove", "supplier") /\ Update(s, TRUE)

-----------------------------------------------------------------------------
(* The software catalogue *)

SoftwareChanges == [{"key"} -> Keys] \cup [{"active"} -> BOOLEAN]

CreateSoftware(s) == \E key \in Keys : Open(s, "create", "software", Nil, [key |-> key], 1)

\* The page that is edited may be an old one.
EditSoftware(s) ==
    \E i \in In("software"), change \in SoftwareChanges :
        \E v \in 1..register["software"][i].version : Open(s, "amend", "software", i, change, v)
RemoveSoftware(s) ==
    \E i \in In("software") : Open(s, "remove", "software", i, [active |-> FALSE], 1)

InsertSoftware(s) == Due(s, "create", "software") /\ Insert(s)

UpdateSoftware(s) ==
    LET a == Args(s) IN
    /\ Due(s, "amend", "software")
    /\ \/ /\ register["software"][a.e].version = a.version /\ ~Taken("software", a.change, a.e)
          /\ Put(s, a.e, [Apply(register["software"][a.e], a.change) EXCEPT !.version = a.version + 1])
       \/ /\ register["software"][a.e].version # a.version \/ Taken("software", a.change, a.e)
          /\ Drop(s)

\* The version is neither compared nor moved.
DeactivateSoftware(s) == Due(s, "remove", "software") /\ Update(s, TRUE)

-----------------------------------------------------------------------------
(* Company holidays *)

HolidayFree(change, i) == ~Taken("holiday", change, i)

\* An edit that leaves the date alone changes nothing that is modelled.
HolidayChanges == [{"key"} -> Keys] \cup [{} -> Keys]

CreateHoliday(s) ==
    \E key \in Keys : /\ HolidayFree([key |-> key], Nil)
                      /\ Open(s, "create", "holiday", Nil, [key |-> key], 1)
EditHoliday(s) ==
    \E i \in In("holiday"), change \in HolidayChanges :
        HolidayFree(change, i) /\ Open(s, "amend", "holiday", i, change, 1)
RemoveHoliday(s) ==
    \E i \in In("holiday") : Open(s, "remove", "holiday", i, [active |-> FALSE], 1)

InsertHoliday(s) == Due(s, "create", "holiday") /\ Insert(s)

\* A row that was removed meanwhile is not there to be updated.
UpdateHoliday(s) == Due(s, "amend", "holiday") /\ Update(s, Args(s).e \in In("holiday"))
DeleteHoliday(s) == Due(s, "remove", "holiday") /\ Put(s, Args(s).e, Missing)

-----------------------------------------------------------------------------
(* Leave balances; the edit of a balance is an action of HRLeave *)

BalanceFree(key) == ~Taken("balance", [key |-> key], Nil)

CreateBalance(s) ==
    \E key \in Keys : /\ BalanceFree(key)
                      /\ Open(s, "create", "balance", Nil, [key |-> key], 1)
RemoveBalance(s) ==
    \E i \in In("balance") : Open(s, "remove", "balance", i, [active |-> FALSE], 1)

InsertBalance(s) == Due(s, "create", "balance") /\ Insert(s)

\* The statement that should delete the row is an UPDATE that sets nothing.
DeleteBalance(s) == Due(s, "remove", "balance") /\ Put(s, Args(s).e, register["balance"][Args(s).e])

-----------------------------------------------------------------------------

RegistersInit == OrganizationInit /\ register = [k \in Kinds |-> [i \in Entries |-> Missing]]

\* Only an active company has its registers written.
RegisterRead(s) ==
    /\ active /\ Free(s)
    /\ \/ CreateSupplier(s) \/ EditSupplier(s) \/ RemoveSupplier(s)
       \/ CreateSoftware(s) \/ EditSoftware(s) \/ RemoveSoftware(s)
       \/ CreateHoliday(s) \/ EditHoliday(s) \/ RemoveHoliday(s)
       \/ CreateBalance(s) \/ RemoveBalance(s)

RegisterStep(s) ==
    \/ InsertSupplier(s) \/ UpdateSupplier(s) \/ DeactivateSupplier(s)
    \/ InsertSoftware(s) \/ UpdateSoftware(s) \/ DeactivateSoftware(s)
    \/ InsertHoliday(s) \/ UpdateHoliday(s) \/ DeleteHoliday(s)
    \/ InsertBalance(s) \/ DeleteBalance(s)

RegistersNext ==
    \/ OrganizationNext /\ UNCHANGED register
    \/ \E s \in Sessions : RegisterRead(s) \/ RegisterStep(s)

RegistersSpec == RegistersInit /\ [][RegistersNext]_allVars

-----------------------------------------------------------------------------
(* Properties *)

RegisterRow == {Missing} \cup [key : Keys, active : BOOLEAN, version : 1..(MaxCalls + 1)]

\* Whoever waits for rows of users waits for an appointment at its last statement,
\* and such an appointment waits itself only when another one, an import or an edit
\* overtook its checks: calls wait for each other in a circle only after that.
NoCircleOfWaits ==
    \A s \in Sessions :
        At(s, "assign", "promote") /\ Waits(s) => calls[s].since \cap {"assign", "confirm", "edit"} # {}

\* Nothing but those rows holds up a call that has begun.
NobodyIsStuck ==
    \A s \in Sessions :
        calls[s] # AtRest /\ ~Waits(s) => (ENABLED Step(s)) \/ (Registering(s) /\ ENABLED RegisterStep(s))

\* The records of the organization and the calls that change them agree.
RecordsAgree ==
    /\ OrganizationTypeOK /\ register \in [Kinds -> [Entries -> RegisterRow]]
    /\ AssignedHasHolder /\ ImportIsAllOrNothing /\ ProcessingIsHeld /\ NoCircleOfWaits

Doubled(i, j) ==
    LET a == register["supplier"][i]
        b == register["supplier"][j]
    IN /\ i # j /\ {i, j} \subseteq In("supplier") /\ {a.key, b.key} \cap Padded = {}
       /\ Fold[a.key] = Fold[b.key]

\* Two suppliers of one name, however it is spelled, come only from two calls that
\* overlap (AdminSupplierService: the constraint compares the spelling).
OnlyARaceDoublesASupplier ==
    [][\A i, j \in Entries : (register' # register /\ Doubled(i, j)' /\ ~Doubled(i, j)) =>
            \E op \in {"create", "amend"} : EndsOvertaken(op, {"create", "amend"})]_allVars

\* No edit of the catalogue is lost: a change moves the version on by one, but for
\* the deactivation, which only deactivates.
SoftwareEditsNotLost ==
    [][\A i \in In("software") :
        LET old == register["software"][i]
            new == register'["software"][i]
        IN new = old \/ new.version = old.version + 1 \/ new = [old EXCEPT !.active = FALSE]]_allVars

\* What was removed comes back only as something new, whatever edit was under way.
RemovedStays ==
    [][\A i \in Entries : (i \notin In("holiday") /\ i \in In("holiday")') =>
            \E s \in Sessions : EndsCall(s) /\ calls[s].op = "create"]_allVars

\* A manager who has been moved, replaced or deactivated changes a register of his
\* old department only with a call that had begun before (require_..._write).
ManagersKeepTheirOwn ==
    [][\A s \in Sessions :
        (/\ register' # register /\ EndsCall(s) /\ Registering(s) /\ Args(s).by # Company
         /\ calls[s].since \cap {"edit", "assign", "deactivate", "confirm"} = {})
        => LET p == staff[Args(s).by] IN
           p.account /\ p.role = "department_manager" /\ Args(s).kind \in Holds[p.dept]]_allVars

\* The registers keep what administrators wrote, and only theirs.
RegistersKept ==
    OnlyARaceDoublesASupplier /\ SoftwareEditsNotLost /\ RemovedStays /\ ManagersKeepTheirOwn
===============================================================================
