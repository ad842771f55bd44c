-------------------------------- MODULE Access --------------------------------
(***************************************************************************)
(* Who may do what: the permission catalogue and the default roles         *)
(* (shared/permissions), the membership tests every service starts with    *)
(* (auth/rbac.ts), the permission services ask for, and the check     *)
(* each area of the site makes of the signed-in actor (proxy.ts and        *)
(* lib/session.ts).  Pure data and predicates: Logins runs them.           *)
(***************************************************************************)

ALL_PERMISSIONS ==
  {"clients.read", "clients.write", "clients.contacts.manage", "clients.impersonate",
   "products.read", "products.write", "orders.read", "orders.write",
   "invoices.read", "invoices.write", "payments.read", "payments.refund",
   "domains.manage", "provisioning.manage", "support.manage",
   "staff.manage", "roles.manage", "settings.manage",
   "reports.finance", "audit.read"}

STAFF_ROLE_KEYS ==
  {"super_admin", "admin", "billing_staff", "support_staff",
   "sales_staff", "technical_staff", "finance_staff", "readonly_staff"}

READ_ONLY_PERMISSIONS ==
  {"clients.read", "products.read", "orders.read", "invoices.read",
   "payments.read", "reports.finance", "audit.read"}

BillingPermissions ==
  {"clients.read", "orders.read", "invoices.read", "invoices.write",
   "payments.read", "payments.refund", "reports.finance", "audit.read"}

DEFAULT_ROLE_PERMISSIONS ==
  [r \in STAFF_ROLE_KEYS |->
     CASE r = "super_admin"     -> ALL_PERMISSIONS
       [] r = "admin"           -> ALL_PERMISSIONS \ {"roles.manage"}
       [] r = "billing_staff"   -> BillingPermissions
       [] r = "finance_staff"   -> BillingPermissions \cup {"settings.manage"}
       [] r = "support_staff"   -> {"clients.read", "clients.contacts.manage",
                                    "clients.impersonate", "orders.read",
                                    "support.manage"}
       [] r = "sales_staff"     -> {"clients.read", "clients.write", "products.read",
                                    "orders.read", "orders.write"}
       [] r = "technical_staff" -> {"clients.read", "orders.read", "domains.manage",
                                    "provisioning.manage", "support.manage"}
       [] r = "readonly_staff"  -> READ_ONLY_PERMISSIONS]

hasPermission(permissions, p) == p \in permissions

\* The permission each service of core asks of the staff user who calls it.
Needs ==
  [addClientNote      |-> "clients.write",
   changeClientStatus |-> "clients.write",
   createStaffUser    |-> "staff.manage",
   disableStaffUser   |-> "staff.manage"]

\* requirePermission at the start of a service called by staff.
MayCall(permissions, service) == hasPermission(permissions, Needs[service])

\* The two protected areas of the site, and whose sessions each admits.
Areas == {"admin", "portal"}
AdmittedTo(area) == IF area = "admin" THEN "STAFF" ELSE "CLIENT_CONTACT"
=============================================================================
