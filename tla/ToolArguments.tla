--------------------------- MODULE ToolArguments ---------------------------
(***************************************************************************)
(* For whom a VPN profile is (tools/registry.py CreateVpnProfileArgs,      *)
(* tools/executor.py resolve_employee): the router model fills in an id, a *)
(* name, both or neither, and the server finds the employee.               *)
(***************************************************************************)
EXTENDS Integers, FiniteSets
CONSTANTS
    Employees,      \* ids of the users table
    Matches(_),     \* the employees whose name holds a text, in any case
    Upper(_),       \* a text in capitals
    IsEmployeeId(_) \* whether a text has the format of an id

NoField == "absent"     \* a field that is not given
Rejected == "rejected"  \* the arguments are refused, or nobody is found

\* The users are the ones a search by name finds; a text that means absent is no id,
\* in capitals either.
ASSUME EmployeesAssumption == IsFiniteSet(Employees)
ASSUME AbsentIsNoId == \A text \in {NoField, "", "null"} : ~ IsEmployeeId(Upper(text))

\* Runs first: an id in the name field is moved, unless the id field holds a text.
_an_id_is_an_id(a) ==
    IF IsEmployeeId(Upper(a.name)) /\ a.id \in {NoField, ""}
    THEN [id |-> Upper(a.name), name |-> NoField]
    ELSE a

\* Then the texts that mean absent.
_absent_means_none(a) ==
    [f \in {"id", "name"} |-> IF a[f] \in {"", "null"} THEN NoField ELSE a[f]]

\* Mutant: one subject is enough.
AtLeastOneSubject(a) == a.id # NoField \/ a.name # NoField

_exactly_one_subject(a) == (a.id = NoField) # (a.name = NoField)

Validated(a) == _absent_means_none(_an_id_is_an_id(a))
Valid(a) == (a.id = NoField \/ IsEmployeeId(a.id)) /\ _exactly_one_subject(a)

resolve_employee(a) ==
    CASE a.id # NoField -> IF a.id \in Employees THEN a.id ELSE Rejected
      [] a.id = NoField -> IF Cardinality(Matches(a.name)) = 1
                           THEN CHOOSE e \in Matches(a.name) : TRUE ELSE Rejected

\* The employee a profile would be created for.
subject(a) == IF Valid(Validated(a)) THEN resolve_employee(Validated(a)) ELSE Rejected
=============================================================================
