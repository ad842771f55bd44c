----------------------------- MODULE SetupProofs ------------------------------
(***************************************************************************)
(* First-run setup and the seed script, for any number of submissions and  *)
(* runs, any permissions, roles, products and prices.  Rows are only ever  *)
(* added, so what a run has seen complete stays complete, whoever wrote it.*)
(***************************************************************************)
EXTENDS Seed, TLAPS

FormSteps == {"check", "count", "create", "commit", "done", "refused", "duplicate"}
SeedSteps == {"staff", "demo", "createPrice", "createOrder", "issue", "seeded"}

\* The steps behind the roles, and those behind the permissions.
Written  == {"count", "create", "commit", "done"} \cup SeedSteps
ReadThem == Written \cup {"roles"}

\* A submission takes the form's steps and a run of the script its own.
OwnSteps ==
  /\ \A s \in Submissions : pc[s] \notin SeedSteps
  /\ \A s \in Seeds : pc[s] \notin FormSteps

\* What a run may rely on of the catalogue at the step it has come to.
CatalogueSeen ==
  \A s \in Runs :
    /\ pc[s] # "idle" => tenant
    /\ pc[s] \in ReadThem => known[s] = Permissions /\ permissions = Permissions
    /\ pc[s] \in Written => roles = Roles /\ grants = DefaultGrants

\* A submission's staff user is there once it is done.
StaffCreated ==
  \A s \in Submissions :
    /\ pc[s] # "idle" => email[s] \in Emails
    /\ staff[s] = IF pc[s] = "done" THEN {email[s]} ELSE {}

\* What a run of the script has seen of the rows it writes.
DemoSeen ==
  \A s \in Seeds :
    /\ pc[s] \in SeedSteps \ {"staff"} => \A e \in SeedStaff : EmailTaken(e)
    /\ pc[s] = "createPrice" => missing[s] \in Offers
    /\ pc[s] \in {"createOrder", "issue", "seeded"} =>
         /\ DemoRowsThere
         /\ \A o \in Offers : prices[o] > 0
    /\ pc[s] \in {"issue", "seeded"} => order # None

-----------------------------------------------------------------------------
(* The two ways of taking a step *)

\* Steps of the form and those the script has in common with it.
FormStep(s) ==
  /\ \/ s \in Submissions /\ Submit(s)
     \/ s \in Seeds /\ SeedCatalogue(s)
     \/ s \in Runs /\ Fail(s)
  /\ UNCHANGED demoData

\* Steps that write the demo rows.
DemoStep(s) == s \in Seeds /\ SeedDemo(s)

LEMMA TwoWays == ASSUME SeedNext PROVE \E s \in Runs : FormStep(s) \/ DemoStep(s)
  BY DEF SeedNext, FormStep, DemoStep, Runs, SeedCatalogue

LEMMA SeedInitial ==
  ASSUME SeedInit
  PROVE  /\ SeedTypeOK /\ OwnSteps /\ CatalogueSeen /\ StaffCreated /\ DemoSeen
         /\ CatalogueReady /\ RefusedOnlyIfSetUp /\ UnbilledExplained
  <1> USE SetupAssumption DEF SeedInit, Init
  <1>1. SeedTypeOK
    BY DEF SeedTypeOK, TypeOK, Ended
  <1>2. OwnSteps /\ CatalogueSeen /\ StaffCreated /\ DemoSeen
    BY DEF OwnSteps, FormSteps, SeedSteps, CatalogueSeen, StaffCreated, DemoSeen, ReadThem,
           Written, Runs
  <1>3. CatalogueReady /\ RefusedOnlyIfSetUp /\ UnbilledExplained
    BY DEF CatalogueReady, RefusedOnlyIfSetUp, UnbilledExplained, StaffUsers, Runs
  <1> QED  BY <1>1, <1>2, <1>3

-----------------------------------------------------------------------------

SetupInv == SeedTypeOK /\ OwnSteps /\ CatalogueSeen /\ StaffCreated

LEMMA TypeForm == ASSUME SetupInv, NEW s \in Runs, FormStep(s) PROVE SeedTypeOK'
  <1>1. demoData' = demoData /\ demo' = demo /\ products' = products /\ prices' = prices
        /\ missing' = missing /\ order' = order /\ invoices' = invoices
    BY DEF FormStep, demoData
  <1>2. SUFFICES TypeOK'
    BY <1>1 DEF SeedTypeOK, SetupInv
  <1> USE DEF SeedTypeOK, SetupInv, TypeOK, Goto, catalogue, Ended
  <1>3. CASE UpsertTenant(s)
    BY <1>3 DEF UpsertTenant
  <1>4. CASE AssertSetupNotComplete(s) \/ HashPassword(s) \/ CountStaff(s)
    BY <1>4 DEF AssertSetupNotComplete, HashPassword, CountStaff
  <1>5. CASE UpsertPermission(s) \/ UpsertRole(s)
    BY <1>5 DEF UpsertPermission, UpsertRole
  <1>6. CASE ReadPermissions(s)
    BY <1>6 DEF ReadPermissions
  <1>7. CASE UpsertRolePermission(s)
    BY <1>7 DEF UpsertRolePermission, MissingGrants
  <1>8. CASE CreateStaffUser(s) \/ Fail(s)
    BY <1>8 DEF CreateStaffUser, Fail
  <1>9. CASE s \in Submissions /\ CommitSetup(s)
    BY <1>9 DEF CommitSetup, StaffCreated
  <1>10. CASE SeedTenant(s) \/ SeedPasswords(s)
    BY <1>10 DEF SeedTenant, SeedPasswords
  <1>11. CASE UpsertStaffUser(s)
    BY <1>11, SeedAssumption DEF UpsertStaffUser
  <1> QED  BY <1>3, <1>4, <1>5, <1>6, <1>7, <1>8, <1>9, <1>10, <1>11
           DEF FormStep, Submit, SeedCatalogue

LEMMA TypeDemo == ASSUME SetupInv, DemoSeen, NEW s \in Runs, DemoStep(s) PROVE SeedTypeOK'
  <1> USE DEF SeedTypeOK, SetupInv, TypeOK, Goto, catalogue, Ended, DemoStep
  <1>1. CASE StaffSeeded(s)
    BY <1>1 DEF StaffSeeded, demoData
  <1>2. CASE UpsertDemoRow(s)
    BY <1>2 DEF UpsertDemoRow, vars
  <1>3. CASE UpsertProduct(s)
    BY <1>3 DEF UpsertProduct, vars
  <1>4. CASE FindNoPrice(s)
    BY <1>4 DEF FindNoPrice
  <1>5. CASE CreatePrice(s)
    BY <1>5 DEF CreatePrice, DemoSeen
  <1>6. CASE FindOrder(s)
    BY <1>6 DEF FindOrder, demoData
  <1>7. CASE CreateOrder(s)
    BY <1>7 DEF CreateOrder
  <1>8. CASE IssueInvoice(s)
    BY <1>8 DEF IssueInvoice
  <1> QED  BY <1>1, <1>2, <1>3, <1>4, <1>5, <1>6, <1>7, <1>8 DEF SeedDemo

-----------------------------------------------------------------------------
(* The catalogue *)

\* A run may leave the roles: nothing is missing any more.
LEMMA NothingMissing ==
  ASSUME SetupInv, NEW s \in Runs, pc[s] = "roles", CatalogueWritten(s)
  PROVE  roles = Roles /\ grants = DefaultGrants
  <1>1. known[s] = Permissions /\ roles = Roles /\ MissingGrants(s) = {}
    BY DEF CatalogueWritten, SetupInv, SeedTypeOK, TypeOK, CatalogueSeen, ReadThem
  <1>2. ASSUME NEW g \in DefaultGrants PROVE g \in grants
    <2>1. g[1] \in Roles /\ g[2] \in Permissions
      BY SetupAssumption
    <2> QED  BY <1>1, <2>1 DEF MissingGrants
  <1> QED  BY <1>1, <1>2 DEF SetupInv, SeedTypeOK, TypeOK

\* No row of the catalogue is ever removed.
LEMMA CatalogueGrows ==
  ASSUME SetupInv, NEW s \in Runs, FormStep(s) \/ DemoStep(s)
  PROVE  /\ tenant => tenant'
         /\ permissions \subseteq permissions' /\ roles \subseteq roles' /\ grants \subseteq grants'
         /\ \A q \in Runs : staff[q] \subseteq staff'[q]
  <1> USE DEF SetupInv, SeedTypeOK, TypeOK, catalogue
  <1>1. CASE UpsertTenant(s) \/ SeedTenant(s)
    BY <1>1 DEF UpsertTenant, SeedTenant
  <1>2. CASE UpsertPermission(s) \/ UpsertRole(s) \/ UpsertRolePermission(s)
    BY <1>2 DEF UpsertPermission, UpsertRole, UpsertRolePermission
  <1>3. CASE s \in Submissions /\ CommitSetup(s)
    BY <1>3 DEF CommitSetup, StaffCreated
  <1>4. CASE UpsertStaffUser(s)
    BY <1>4 DEF UpsertStaffUser
  <1>5. CASE UNCHANGED <<catalogue, staff>>
    BY <1>5
  <1> QED
    BY <1>1, <1>2, <1>3, <1>4, <1>5
    DEF FormStep, DemoStep, Submit, SeedCatalogue, SeedDemo, vars, AssertSetupNotComplete,
        ReadPermissions, HashPassword, CountStaff, CreateStaffUser, Fail, SeedPasswords,
        StaffSeeded, UpsertDemoRow, UpsertProduct, FindNoPrice, CreatePrice, FindOrder,
        CreateOrder, IssueInvoice

\* A step moves one run on, and writes down nothing of the others.
LEMMA OthersWait ==
  ASSUME SetupInv, NEW s \in Runs, FormStep(s) \/ DemoStep(s)
  PROVE  \A q \in Runs \ {s} :
           pc'[q] = pc[q] /\ known'[q] = known[q] /\ email'[q] = email[q] /\ staff'[q] = staff[q]
  <1> USE DEF SetupInv, SeedTypeOK, TypeOK, Goto, catalogue
  <1>1. CASE FormStep(s)
    BY <1>1
    DEF FormStep, Submit, SeedCatalogue, UpsertTenant, AssertSetupNotComplete, UpsertPermission,
        ReadPermissions, UpsertRole, UpsertRolePermission, HashPassword, CountStaff,
        CreateStaffUser, CommitSetup, Fail, SeedTenant, SeedPasswords, UpsertStaffUser
  <1>2. CASE DemoStep(s)
    BY <1>2
    DEF DemoStep, SeedDemo, vars, StaffSeeded, UpsertDemoRow, UpsertProduct, FindNoPrice,
        CreatePrice, FindOrder, CreateOrder, IssueInvoice
  <1> QED  BY <1>1, <1>2

LEMMA OwnStepsNext == ASSUME SetupInv, NEW s \in Runs, FormStep(s) \/ DemoStep(s) PROVE OwnSteps'
  <1>1. s \in Submissions => pc'[s] \notin SeedSteps
    <2> USE SetupAssumption
        DEF SetupInv, SeedTypeOK, TypeOK, OwnSteps, SeedSteps, FormSteps, Goto, catalogue, Runs
    <2>1. CASE s \in Submissions /\ Submit(s)
      BY <2>1 DEF Submit, UpsertTenant, AssertSetupNotComplete, UpsertPermission,
                  ReadPermissions, UpsertRole, UpsertRolePermission, HashPassword, CountStaff,
                  CreateStaffUser, CommitSetup
    <2>2. CASE Fail(s)
      BY <2>2 DEF Fail
    <2> QED  BY <2>1, <2>2 DEF FormStep, DemoStep
  <1>2. s \in Seeds => pc'[s] \notin FormSteps
    <2> USE SetupAssumption
        DEF SetupInv, SeedTypeOK, TypeOK, OwnSteps, SeedSteps, FormSteps, Goto, catalogue, Runs
    <2>1. CASE SeedCatalogue(s)
      BY <2>1 DEF SeedCatalogue, SeedTenant, UpsertPermission, ReadPermissions, UpsertRole,
                  UpsertRolePermission, SeedPasswords, UpsertStaffUser
    <2>2. CASE DemoStep(s)
      BY <2>2 DEF DemoStep, SeedDemo, StaffSeeded, UpsertDemoRow, UpsertProduct, FindNoPrice,
                  CreatePrice, FindOrder, CreateOrder, IssueInvoice, vars
    <2>3. CASE Fail(s)
      BY <2>3 DEF Fail
    <2> QED  BY <2>1, <2>2, <2>3 DEF FormStep
  <1> QED  BY <1>1, <1>2, OthersWait DEF OwnSteps, Runs, SetupInv

\* What the acting run has seen of the catalogue.
LEMMA CatalogueSeenNext ==
  ASSUME SetupInv, SeedTypeOK', NEW s \in Runs, FormStep(s) \/ DemoStep(s)
  PROVE  CatalogueSeen'
  <1> DEFINE Seen(q) == /\ pc[q] # "idle" => tenant
                        /\ pc[q] \in ReadThem => known[q] = Permissions /\ permissions = Permissions
                        /\ pc[q] \in Written => roles = Roles /\ grants = DefaultGrants
  <1>1. ASSUME NEW q \in Runs, q # s PROVE Seen(q)'
    <2>1. pc'[q] = pc[q] /\ known'[q] = known[q]
      BY <1>1, OthersWait
    <2>2. /\ tenant => tenant'
          /\ permissions \subseteq permissions' /\ roles \subseteq roles' /\ grants \subseteq grants'
      BY CatalogueGrows
    <2>3. /\ permissions' \subseteq Permissions /\ roles' \subseteq Roles
          /\ grants' \subseteq DefaultGrants
      BY DEF SeedTypeOK, TypeOK
    <2>4. Seen(q)
      BY DEF SetupInv, CatalogueSeen
    <2> QED  BY <2>1, <2>2, <2>3, <2>4
  <1>2. Seen(s)'
    <2> USE DEF SetupInv, SeedTypeOK, TypeOK, CatalogueSeen, Goto, catalogue, ReadThem, Written,
                SeedSteps, Ended
    <2>1. CASE UpsertTenant(s) \/ SeedTenant(s)
      BY <2>1 DEF UpsertTenant, SeedTenant
    <2>2. CASE UpsertPermission(s) \/ UpsertRole(s) \/ UpsertRolePermission(s)
      BY <2>2 DEF UpsertPermission, UpsertRole, UpsertRolePermission
    <2>3. CASE ReadPermissions(s)
      BY <2>3 DEF ReadPermissions
    <2>4. CASE HashPassword(s) \/ SeedPasswords(s)
      BY <2>4, NothingMissing DEF HashPassword, SeedPasswords
    <2>5. CASE AssertSetupNotComplete(s) \/ CountStaff(s) \/ CreateStaffUser(s) \/ CommitSetup(s)
               \/ UpsertStaffUser(s) \/ Fail(s)
      BY <2>5 DEF AssertSetupNotComplete, CountStaff, CreateStaffUser, CommitSetup,
                  UpsertStaffUser, Fail
    <2>6. CASE DemoStep(s)
      BY <2>6 DEF DemoStep, SeedDemo, vars, StaffSeeded, UpsertDemoRow, UpsertProduct,
                  FindNoPrice, CreatePrice, FindOrder, CreateOrder, IssueInvoice
    <2> QED  BY <2>1, <2>2, <2>3, <2>4, <2>5, <2>6 DEF FormStep, Submit, SeedCatalogue
  <1> QED  BY <1>1, <1>2 DEF CatalogueSeen

LEMMA StaffCreatedNext ==
  ASSUME SetupInv, NEW s \in Runs, FormStep(s) \/ DemoStep(s)
  PROVE  StaffCreated'
  <1> DEFINE Created(q) == /\ pc[q] # "idle" => email[q] \in Emails
                           /\ staff[q] = IF pc[q] = "done" THEN {email[q]} ELSE {}
  <1>1. ASSUME NEW q \in Submissions, q # s PROVE Created(q)'
    BY <1>1, OthersWait DEF SetupInv, StaffCreated, Runs
  <1>2. CASE s \in Submissions
    <2> SUFFICES Created(s)'
      BY <1>1 DEF StaffCreated
    <2> USE <1>2 DEF SetupInv, SeedTypeOK, TypeOK, StaffCreated, Goto, catalogue, Ended
    <2>1. CASE UpsertTenant(s)
      BY <2>1 DEF UpsertTenant
    <2>2. CASE UpsertPermission(s) \/ UpsertRole(s) \/ UpsertRolePermission(s)
      BY <2>2 DEF UpsertPermission, UpsertRole, UpsertRolePermission
    <2>3. CASE AssertSetupNotComplete(s) \/ ReadPermissions(s) \/ HashPassword(s) \/ CountStaff(s)
               \/ CreateStaffUser(s) \/ Fail(s)
      BY <2>3 DEF AssertSetupNotComplete, ReadPermissions, HashPassword, CountStaff,
                  CreateStaffUser, Fail
    <2>4. CASE CommitSetup(s)
      BY <2>4 DEF CommitSetup
    <2> QED  BY <2>1, <2>2, <2>3, <2>4, SetupAssumption DEF FormStep, DemoStep, Submit
  <1> QED  BY <1>1, <1>2 DEF StaffCreated

-----------------------------------------------------------------------------
(* Who is refused, and who can sign in *)


LEMMA ReadyNext ==
  ASSUME SetupInv, SeedTypeOK', CatalogueReady, NEW s \in Runs, FormStep(s) \/ DemoStep(s)
  PROVE  CatalogueReady'
  <1> DEFINE Complete == permissions = Permissions /\ roles = Roles /\ grants = DefaultGrants
  <1>1. Complete => Complete'
    BY CatalogueGrows DEF SetupInv, SeedTypeOK, TypeOK
  <1>2. CASE staff' = staff
    BY <1>1, <1>2 DEF CatalogueReady, StaffUsers
  <1>3. CASE CommitSetup(s) \/ UpsertStaffUser(s)
    <2>1. pc[s] \in Written
      BY <1>3 DEF CommitSetup, UpsertStaffUser, Written, SeedSteps
    <2> QED  BY <1>1, <2>1 DEF CatalogueReady, SetupInv, CatalogueSeen, ReadThem
  <1> QED
    BY <1>2, <1>3
    DEF FormStep, DemoStep, Submit, SeedCatalogue, SeedDemo, vars, catalogue, UpsertTenant,
        AssertSetupNotComplete, UpsertPermission, ReadPermissions, UpsertRole,
        UpsertRolePermission, HashPassword, CountStaff, CreateStaffUser, Fail, SeedTenant,
        SeedPasswords, StaffSeeded, UpsertDemoRow, UpsertProduct, FindNoPrice, CreatePrice,
        FindOrder, CreateOrder, IssueInvoice

LEMMA RefusedNext ==
  ASSUME SetupInv, SeedTypeOK', RefusedOnlyIfSetUp, NEW s \in Runs, FormStep(s) \/ DemoStep(s)
  PROVE  RefusedOnlyIfSetUp'
  <1>1. SetupComplete => SetupComplete'
    BY CatalogueGrows DEF SetupComplete, StaffUsers, SetupInv, SeedTypeOK, TypeOK
  <1>2. ASSUME NEW q \in Submissions, q # s, pc'[q] \in {"refused", "duplicate"}
        PROVE  SetupComplete'
    BY <1>1, <1>2, OthersWait DEF RefusedOnlyIfSetUp, Runs
  <1>3. ASSUME s \in Submissions, pc'[s] \in {"refused", "duplicate"} PROVE SetupComplete'
    <2> USE <1>3, SetupAssumption DEF SetupInv, SeedTypeOK, TypeOK, Goto
    <2>1. CASE AssertSetupNotComplete(s) \/ CountStaff(s)
      <3>1. StaffUsers # {} /\ pc[s] # "idle"
        BY <2>1 DEF AssertSetupNotComplete, CountStaff
      <3> QED  BY <1>1, <3>1 DEF SetupComplete, CatalogueSeen
    <2>2. CASE CreateStaffUser(s)
      <3>1. EmailTaken(email[s]) /\ pc[s] # "idle"
        BY <2>2 DEF CreateStaffUser
      <3> QED  BY <1>1, <3>1 DEF SetupComplete, CatalogueSeen, EmailTaken, StaffUsers
    <2>3. CASE pc[s] \in {"refused", "duplicate"}
      BY <1>1, <2>3 DEF RefusedOnlyIfSetUp
    <2> QED
      BY <2>1, <2>2, <2>3
      DEF FormStep, DemoStep, Submit, UpsertTenant, UpsertPermission, ReadPermissions, UpsertRole,
          UpsertRolePermission, HashPassword, CommitSetup, Fail
  <1> QED  BY <1>2, <1>3 DEF RefusedOnlyIfSetUp

-----------------------------------------------------------------------------
(* One staff user for each address *)

\* No address that a submission is about to commit is another's or taken.
AddressesDiffer ==
  \A s \in Submissions : pc[s] = "commit" =>
    /\ ~EmailTaken(email[s])
    /\ \A q \in Submissions : q # s /\ pc[q] = "commit" => email[q] # email[s]

LEMMA AddressesNext ==
  ASSUME SetupInv, AddressesDiffer, OneAdminPerEmail, NEW s \in Runs, FormStep(s) \/ DemoStep(s)
  PROVE  AddressesDiffer' /\ OneAdminPerEmail'
  <1> USE DEF SetupInv, SeedTypeOK, TypeOK, Goto, catalogue
  <1>1. CASE s \in Submissions /\ CreateStaffUser(s)
    BY <1>1, OthersWait
    DEF CreateStaffUser, AddressesDiffer, OneAdminPerEmail, EmailTaken, EmailHeld, Runs
  <1>2. CASE s \in Submissions /\ CommitSetup(s)
    BY <1>2, OthersWait
    DEF CommitSetup, AddressesDiffer, OneAdminPerEmail, EmailTaken, Runs, StaffCreated
  <1>3. CASE s \in Seeds /\ UpsertStaffUser(s)
    BY <1>3, SetupAssumption, OthersWait
    DEF UpsertStaffUser, AddressesDiffer, OneAdminPerEmail, EmailTaken, EmailHeld, Runs
  <1>4. CASE staff' = staff /\ pc'[s] # "commit"
    BY <1>4, OthersWait DEF AddressesDiffer, OneAdminPerEmail, EmailTaken, Runs
  <1>5. CASE staff' = staff /\ email' = email /\ pc' = pc
    BY <1>5 DEF AddressesDiffer, OneAdminPerEmail, EmailTaken
  <1> QED
    BY <1>1, <1>2, <1>3, <1>4, <1>5
    DEF FormStep, DemoStep, Submit, SeedCatalogue, SeedDemo, vars, UpsertTenant,
        AssertSetupNotComplete, UpsertPermission, ReadPermissions, UpsertRole,
        UpsertRolePermission, HashPassword, CountStaff, Fail, SeedTenant,
        SeedPasswords, StaffSeeded, UpsertDemoRow, UpsertProduct, FindNoPrice, CreatePrice,
        FindOrder, CreateOrder, IssueInvoice

-----------------------------------------------------------------------------
(* The rows of the script *)

LEMMA DemoGrows ==
  ASSUME SetupInv, DemoSeen, NEW s \in Runs, FormStep(s) \/ DemoStep(s)
  PROVE  /\ \A e : EmailTaken(e) => EmailTaken(e)'
         /\ DemoRowsThere => DemoRowsThere'
         /\ \A o \in Offers : prices[o] > 0 => prices'[o] > 0
         /\ order # None => order' = order
         /\ \A q \in Seeds \ {s} : missing'[q] = missing[q]
  <1>1. \A e : EmailTaken(e) => EmailTaken(e)'
    BY CatalogueGrows DEF EmailTaken
  <1>2. CASE UNCHANGED demoData
    BY <1>1, <1>2 DEF demoData, DemoRowsThere
  <1>3. CASE UpsertDemoRow(s) \/ UpsertProduct(s) \/ IssueInvoice(s)
    BY <1>1, <1>3 DEF UpsertDemoRow, UpsertProduct, IssueInvoice, DemoRowsThere
  <1>4. CASE FindNoPrice(s)
    BY <1>1, <1>4 DEF FindNoPrice, DemoRowsThere, SetupInv, SeedTypeOK
  <1>5. CASE s \in Seeds /\ CreatePrice(s)
    BY <1>1, <1>5 DEF CreatePrice, DemoRowsThere, SetupInv, SeedTypeOK, DemoSeen
  <1>6. CASE CreateOrder(s)
    BY <1>1, <1>6 DEF CreateOrder, DemoRowsThere
  <1> QED
    BY <1>2, <1>3, <1>4, <1>5, <1>6
    DEF FormStep, DemoStep, SeedDemo, StaffSeeded, FindOrder

LEMMA DemoSeenNext ==
  ASSUME SetupInv, DemoSeen, NEW s \in Runs, FormStep(s) \/ DemoStep(s)
  PROVE  DemoSeen'
  <1> DEFINE Seen(q) == /\ pc[q] \in SeedSteps \ {"staff"} => \A e \in SeedStaff : EmailTaken(e)
                        /\ pc[q] = "createPrice" => missing[q] \in Offers
                        /\ pc[q] \in {"createOrder", "issue", "seeded"} =>
                             DemoRowsThere /\ \A o \in Offers : prices[o] > 0
                        /\ pc[q] \in {"issue", "seeded"} => order # None
  <1>1. /\ \A e : EmailTaken(e) => EmailTaken(e)'
        /\ DemoRowsThere => DemoRowsThere'
        /\ \A o \in Offers : prices[o] > 0 => prices'[o] > 0
        /\ order # None => order' = order
        /\ \A q \in Seeds \ {s} : missing'[q] = missing[q]
    BY DemoGrows
  <1>2. ASSUME NEW q \in Seeds, q # s PROVE Seen(q)'
    <2>1. pc'[q] = pc[q]
      BY <1>2, OthersWait DEF Runs
    <2> QED  BY <1>1, <1>2, <2>1 DEF DemoSeen
  <1>3. ASSUME s \in Seeds PROVE Seen(s)'
    <2> USE <1>3, SeedAssumption DEF SeedSteps, Goto
    <2>1. Seen(s) /\ pc \in [Runs -> Ended \cup {"idle", "check", "permissions", "roles",
                                 "count", "create", "commit",
                                 "staff", "demo", "createPrice", "createOrder", "issue"}]
      BY DEF DemoSeen, SetupInv, SeedTypeOK, TypeOK
    <2>2. CASE FormStep(s)
      <3>1. pc'[s] \notin SeedSteps \ {"staff"} \/ (pc'[s] = pc[s] /\ missing' = missing)
        BY <2>1, <2>2, SetupAssumption
        DEF FormStep, demoData, SeedCatalogue, SeedTenant, UpsertPermission, ReadPermissions,
            UpsertRole, UpsertRolePermission, SeedPasswords, UpsertStaffUser, Fail, Runs
      <3> QED  BY <1>1, <2>1, <3>1
    <2>3. CASE StaffSeeded(s)
      BY <1>1, <2>1, <2>3 DEF StaffSeeded
    <2>4. CASE UpsertDemoRow(s) \/ UpsertProduct(s)
      BY <1>1, <2>1, <2>4 DEF UpsertDemoRow, UpsertProduct, vars
    <2>5. CASE FindNoPrice(s)
      BY <1>1, <2>1, <2>5 DEF FindNoPrice, SetupInv, SeedTypeOK
    <2>6. CASE CreatePrice(s)
      BY <1>1, <2>1, <2>6 DEF CreatePrice
    <2>7. CASE FindOrder(s)
      BY <1>1, <2>1, <2>7 DEF FindOrder, Priced, demoData
    <2>8. CASE CreateOrder(s)
      BY <1>1, <2>1, <2>8 DEF CreateOrder
    <2>9. CASE IssueInvoice(s)
      BY <1>1, <2>1, <2>9 DEF IssueInvoice
    <2> QED  BY <2>2, <2>3, <2>4, <2>5, <2>6, <2>7, <2>8, <2>9 DEF DemoStep, SeedDemo
  <1> QED  BY <1>2, <1>3 DEF DemoSeen

LEMMA UnbilledNext ==
  ASSUME SetupInv, DemoSeen, UnbilledExplained, NEW s \in Runs, FormStep(s) \/ DemoStep(s)
  PROVE  UnbilledExplained'
  <1> USE SeedAssumption DEF UnbilledExplained, Goto, SetupInv, SeedTypeOK, TypeOK
  <1>1. CASE UNCHANGED <<order, invoices>>
    <2>1. CASE order # s
      BY <1>1, <2>1, OthersWait DEF Runs
    <2>2. CASE order = s /\ FormStep(s)
      BY <1>1, <2>2, SetupAssumption
      DEF FormStep, SeedCatalogue, SeedTenant, UpsertPermission, ReadPermissions, UpsertRole,
          UpsertRolePermission, SeedPasswords, UpsertStaffUser, Fail
    <2>3. CASE order = s /\ DemoStep(s)
      BY <1>1, <2>3
      DEF DemoStep, SeedDemo, vars, StaffSeeded, UpsertDemoRow, UpsertProduct, FindNoPrice,
          CreatePrice, FindOrder, CreateOrder, IssueInvoice
    <2> QED  BY <2>1, <2>2, <2>3
  <1>2. CASE s \in Seeds /\ CreateOrder(s)
    <2>1. CASE order = None
      BY <1>2, <2>1 DEF CreateOrder
    <2>2. CASE order # None
      BY <1>2, <2>2, OthersWait DEF CreateOrder, Runs
    <2> QED  BY <2>1, <2>2
  <1>3. CASE IssueInvoice(s)
    BY <1>3 DEF IssueInvoice
  <1> QED
    BY <1>1, <1>2, <1>3
    DEF FormStep, DemoStep, demoData, SeedDemo, StaffSeeded, UpsertDemoRow, UpsertProduct,
        FindNoPrice, CreatePrice, FindOrder

-----------------------------------------------------------------------------

SeedInv ==
  /\ SetupInv /\ DemoSeen
  /\ CatalogueReady /\ RefusedOnlyIfSetUp /\ UnbilledExplained
  /\ AddressesDiffer /\ OneAdminPerEmail

LEMMA SeedInvNext == ASSUME SeedInv, [SeedNext]_seedVars PROVE SeedInv'
  <1>1. CASE SeedNext
    <2>1. PICK s \in Runs : FormStep(s) \/ DemoStep(s)
      BY <1>1, TwoWays
    <2>2. SeedTypeOK'
      BY <2>1, TypeForm, TypeDemo DEF SeedInv
    <2>3. OwnSteps' /\ CatalogueSeen' /\ StaffCreated'
      BY <2>1, <2>2, OwnStepsNext, CatalogueSeenNext, StaffCreatedNext DEF SeedInv
    <2>4. DemoSeen' /\ UnbilledExplained'
      BY <2>1, DemoSeenNext, UnbilledNext DEF SeedInv
    <2>5. CatalogueReady' /\ RefusedOnlyIfSetUp'
      BY <2>1, <2>2, ReadyNext, RefusedNext DEF SeedInv
    <2>6. AddressesDiffer' /\ OneAdminPerEmail'
      BY <2>1, AddressesNext DEF SeedInv
    <2> QED  BY <2>2, <2>3, <2>4, <2>5, <2>6 DEF SeedInv, SetupInv
  <1>2. CASE UNCHANGED seedVars
    BY <1>2
    DEF seedVars, vars, demoData, SeedInv, SetupInv, SeedTypeOK, TypeOK, OwnSteps, CatalogueSeen,
        StaffCreated, DemoSeen, DemoRowsThere, CatalogueReady, RefusedOnlyIfSetUp, SetupComplete,
        StaffUsers, UnbilledExplained, AddressesDiffer, OneAdminPerEmail, EmailTaken
  <1> QED  BY <1>1, <1>2

LEMMA SeedInvariant == SeedSpec => []SeedInv
  <1>1. SeedInit => SeedInv
    <2>1. ASSUME SeedInit PROVE AddressesDiffer /\ OneAdminPerEmail
      BY <2>1 DEF SeedInit, Init, AddressesDiffer, OneAdminPerEmail, Runs
    <2> QED  BY <2>1, SeedInitial DEF SeedInv, SetupInv
  <1>2. SeedInv /\ [SeedNext]_seedVars => SeedInv'
    BY SeedInvNext
  <1> QED  BY <1>1, <1>2, PTL DEF SeedSpec

\* Rows, steps and what each run has read are well typed.
THEOREM SeedTypeCorrect == SeedSpec => []SeedTypeOK
  <1>1. SeedInv => SeedTypeOK
    BY DEF SeedInv, SetupInv
  <1> QED  BY <1>1, SeedInvariant, PTL

\* No staff user can sign in before the role and permission catalogue is
\* complete, whatever earlier runs of either kind left half-written.
THEOREM AdminFindsCatalogue == SeedSpec => []CatalogueReady
  <1>1. SeedInv => CatalogueReady
    BY DEF SeedInv
  <1> QED  BY <1>1, SeedInvariant, PTL

\* A failed attempt never locks the next one out.
THEOREM NeverLockedOut == SeedSpec => []RefusedOnlyIfSetUp
  <1>1. SeedInv => RefusedOnlyIfSetUp
    BY DEF SeedInv
  <1> QED  BY <1>1, SeedInvariant, PTL

\* However many times one address is submitted at once, and with the script
\* beside it, one staff user comes of it: the unique index is what closes the
\* race the count leaves open.
THEOREM OneAdminPerAddress == SeedSpec => []OneAdminPerEmail
  <1>1. SeedInv => OneAdminPerEmail
    BY DEF SeedInv
  <1> QED  BY <1>1, SeedInvariant, PTL

\* A run of the script that comes to its end leaves everything there.
THEOREM ScriptCompletes == SeedSpec => []SeededIsWhole
  <1>1. SeedInv => SeededIsWhole
    BY DEF SeedInv, SetupInv, CatalogueSeen, DemoSeen, SeededIsWhole, ReadThem, Written,
           SeedSteps, Runs
  <1> QED  BY <1>1, SeedInvariant, PTL

\* The demo order stays unbilled only if the run that made it was stopped.
THEOREM DemoOrderBilled == SeedSpec => []UnbilledExplained
  <1>1. SeedInv => UnbilledExplained
    BY DEF SeedInv
  <1> QED  BY <1>1, SeedInvariant, PTL
=============================================================================
