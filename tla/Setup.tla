-------------------------------- MODULE Setup ---------------------------------
(***************************************************************************)
(* First-run setup (core/setup.ts): bootstrapSuperAdmin creates the tenant,*)
(* the permission and role catalogue and the first staff user.             *)
(*                                                                         *)
(* All but the last transaction are single upserts, each of them committed *)
(* at once; so a submission that fails half-way leaves what it had written *)
(* to the next one.  An upsert of a row that is there changes nothing and  *)
(* is not a step.  The last transaction counts the staff and then inserts, *)
(* at READ COMMITTED.                                                      *)
(***************************************************************************)

CONSTANTS
  Submissions,   \* submissions of the setup form, each of them once
  Seeds,         \* runs of the seed script (module Seed)
  Emails,        \* addresses of staff users
  Permissions,   \* ALL_PERMISSIONS
  Roles,         \* STAFF_ROLE_KEYS
  DefaultGrants, \* DEFAULT_ROLE_PERMISSIONS, as <<role, permission>> pairs
  None

ASSUME SetupAssumption ==
  /\ Submissions \cap Seeds = {}
  /\ None \notin Emails
  /\ DefaultGrants \subseteq Roles \X Permissions

VARIABLES
  tenant,        \* whether the tenant row is there
  permissions,   \* Permission rows
  roles,         \* Role rows
  grants,        \* RolePermission rows
  staff,         \* the addresses of the staff users each run has committed
  pc,            \* the next step of each run, or how it ended
  email,         \* the address a submission asks for
  known          \* permissionIdByKey: the permissions it has read back

catalogue == <<tenant, permissions, roles, grants>>
vars      == <<tenant, permissions, roles, grants, staff, pc, email, known>>

Runs == Submissions \cup Seeds

Init ==
  /\ tenant = FALSE
  /\ permissions = {} /\ roles = {} /\ grants = {}
  /\ staff = [s \in Runs |-> {}]
  /\ pc = [s \in Runs |-> "idle"]
  /\ email = [s \in Runs |-> None]
  /\ known = [s \in Runs |-> {}]

Ended == {"done", "refused", "duplicate", "failed", "seeded"}

Goto(s, step) == pc' = [pc EXCEPT ![s] = step]

\* The runs that have created staff users.
StaffUsers == {s \in Runs : staff[s] # {}}

\* isSetupComplete
SetupComplete == tenant /\ StaffUsers # {}

-----------------------------------------------------------------------------

UpsertTenant(s) ==
  /\ pc[s] = "idle"
  /\ \E e \in Emails : email' = [email EXCEPT ![s] = e]
  /\ tenant' = TRUE
  /\ Goto(s, "check")
  /\ UNCHANGED <<permissions, roles, grants, staff, known>>

AssertSetupNotComplete(s) ==
  /\ pc[s] = "check"
  /\ Goto(s, IF StaffUsers # {} THEN "refused" ELSE "permissions")
  /\ UNCHANGED <<catalogue, staff, email, known>>

UpsertPermission(s) ==
  /\ pc[s] = "permissions"
  /\ \E p \in Permissions \ permissions : permissions' = permissions \cup {p}
  /\ UNCHANGED <<tenant, roles, grants, staff, pc, email, known>>

\* Fault: the ids are read before the last permission is written.
Fault_ReadPermissions(s) ==
  /\ pc[s] = "permissions"
  /\ known' = [known EXCEPT ![s] = permissions]
  /\ Goto(s, "roles")
  /\ UNCHANGED <<catalogue, staff, email>>

ReadPermissions(s) ==
  /\ pc[s] = "permissions"
  /\ Permissions \subseteq permissions
  /\ known' = [known EXCEPT ![s] = permissions]
  /\ Goto(s, "roles")
  /\ UNCHANGED <<catalogue, staff, email>>

UpsertRole(s) ==
  /\ pc[s] = "roles"
  /\ \E r \in Roles \ roles : roles' = roles \cup {r}
  /\ UNCHANGED <<tenant, permissions, grants, staff, pc, email, known>>

\* Fault: every role is granted everything.
Fault_MissingGrants(s) == {g \in roles \X known[s] : TRUE} \ grants

\* A permission whose id was not read is skipped without an error.
MissingGrants(s) ==
  {g \in DefaultGrants : g[1] \in roles /\ g[2] \in known[s]} \ grants

UpsertRolePermission(s) ==
  /\ pc[s] = "roles"
  /\ \E g \in MissingGrants(s) : grants' = grants \cup {g}
  /\ UNCHANGED <<tenant, permissions, roles, staff, pc, email, known>>

CatalogueWritten(s) == Roles \subseteq roles /\ MissingGrants(s) = {}

HashPassword(s) ==
  /\ pc[s] = "roles" /\ CatalogueWritten(s)
  /\ Goto(s, "count")
  /\ UNCHANGED <<catalogue, staff, email, known>>

\* The second look at the staff, inside the transaction.
CountStaff(s) ==
  /\ pc[s] = "count"
  /\ Goto(s, IF StaffUsers # {} THEN "refused" ELSE "create")
  /\ UNCHANGED <<catalogue, staff, email, known>>

\* The unique index on (tenantId, email).
EmailTaken(e) == \E q \in Runs : e \in staff[q]

\* The address of a row that is inserted and not committed.
EmailHeld(e) == \E q \in Submissions : pc[q] = "commit" /\ email[q] = e

\* An uncommitted row with the same address makes the insert wait for the
\* end of its transaction.
CreateStaffUser(s) ==
  /\ pc[s] = "create"
  /\ ~EmailHeld(email[s])
  /\ Goto(s, IF EmailTaken(email[s]) THEN "duplicate" ELSE "commit")
  /\ UNCHANGED <<catalogue, staff, email, known>>

CommitSetup(s) ==
  /\ pc[s] = "commit"
  /\ staff' = [staff EXCEPT ![s] = {email[s]}]
  /\ Goto(s, "done")
  /\ UNCHANGED <<catalogue, email, known>>

\* The server stops, or a statement fails.
Fail(s) ==
  /\ pc[s] \notin Ended \cup {"idle"}
  /\ Goto(s, "failed")
  /\ UNCHANGED <<catalogue, staff, email, known>>

-----------------------------------------------------------------------------

Submit(s) ==
  \/ UpsertTenant(s) \/ AssertSetupNotComplete(s)
  \/ UpsertPermission(s) \/ ReadPermissions(s)
  \/ UpsertRole(s) \/ UpsertRolePermission(s) \/ HashPassword(s)
  \/ CountStaff(s) \/ CreateStaffUser(s) \/ CommitSetup(s)

Next == \E s \in Submissions : Submit(s) \/ Fail(s)

Spec == Init /\ [][Next]_vars

-----------------------------------------------------------------------------
(* Properties *)

TypeOK ==
  /\ tenant \in BOOLEAN
  /\ permissions \subseteq Permissions
  /\ roles \subseteq Roles
  /\ grants \subseteq DefaultGrants
  /\ staff \in [Runs -> SUBSET Emails]
  /\ pc \in [Runs -> Ended \cup {"idle", "check", "permissions", "roles",
                                 "count", "create", "commit",
                                 "staff", "demo", "createPrice", "createOrder", "issue"}]
  /\ email \in [Runs -> Emails \cup {None}]
  /\ known \in [Runs -> SUBSET Permissions]

\* Whoever can sign in finds the whole catalogue: no staff user appears before
\* every role holds every permission it is meant to hold, whatever earlier
\* submissions left half-written (setup.ts upserts everything again).
CatalogueReady ==
  StaffUsers # {} =>
    /\ permissions = Permissions
    /\ roles = Roles
    /\ grants = DefaultGrants

\* A submission is told that setup is over only when there is somebody who can
\* sign in: a failed attempt never locks the next one out.
RefusedOnlyIfSetUp ==
  \A s \in Submissions : pc[s] \in {"refused", "duplicate"} => SetupComplete

\* A form submitted twice creates its super admin once: what the unlocked count
\* leaves open the unique index closes.
OneAdminPerEmail == \A s, q \in Runs : s # q => staff[s] \cap staff[q] = {}

\* Setup creates one super admin.
OneSuperAdmin == \A s, q \in StaffUsers : s = q
=============================================================================
