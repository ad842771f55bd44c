------------------------------- MODULE Accounts -------------------------------
(***************************************************************************)
(* The life of an account: clients who register (core/clients.ts) and      *)
(* staff users who are invited (core/staff.ts), the links mailed to them   *)
(* to verify an address or to set a password, and the status a client      *)
(* moves through.                                                          *)
(*                                                                         *)
(* A call runs ONE service once, statement by statement; consecutive       *)
(* statements that nobody else can come between are one action.  The link  *)
(* a call issues carries the call's name.  An address is a client's or a   *)
(* staff user's; nothing deletes an account, a client has one contact, and *)
(* disabling staff is in Logins.  The mails themselves are EmailDelivery's *)
(* and a link may be used once its mail is queued.                         *)
(***************************************************************************)
EXTENDS Integers, StatusMaps

CONSTANTS
  Calls,       \* calls of a service, each of them once
  Customers,   \* addresses clients register with
  Colleagues,  \* addresses staff are invited at
  LongTtl,     \* EMAIL_VERIFICATION_TTL_MS and PASSWORD_SET_TOKEN_TTL_MS
  ShortTtl,    \* PASSWORD_RESET_TOKEN_TTL_MS
  MaxTime,     \* bound: the last instant
  None

Addresses == Customers \cup Colleagues

ASSUME AccountsAssumption ==
  /\ Customers \cap Colleagues = {}
  /\ LongTtl \in Nat /\ ShortTtl \in Nat /\ MaxTime \in Nat
  /\ None \notin Calls \cup Customers \cup Colleagues \cup {"typed", "placeholder"}
  /\ {"typed", "placeholder"} \cap Calls = {}

VARIABLES
  now,       \* the clock
  account,   \* the account at each address
  history,   \* StatusHistory rows of each client, without their dates
  link,      \* the token each call has created
  pc,        \* the next step of each call
  target,    \* the address it is about
  presents,  \* the link it has read and found good
  move       \* the client's status as it read it, and the one it writes

rows  == <<account, history, link>>
local == <<target, presents, move>>
vars  == <<now, account, history, link, pc, target, presents, move>>

\* password: what was typed at registration, the unusable placeholder of an
\* invitation, or the link it was set with.  profile: the call that wrote it
\* last, or None for what was given at first.
NoAccount == [status |-> "NONE", verified |-> FALSE, password |-> None, profile |-> None]
NoLink    == [kind |-> "none", to |-> None, expires |-> 0, mailed |-> FALSE, used |-> FALSE]
NoMove    == [from |-> "NONE", to |-> "NONE"]

Init ==
  /\ now = 0
  /\ account = [x \in Addresses |-> NoAccount]
  /\ history = [x \in Addresses |-> {}]
  /\ link = [c \in Calls |-> NoLink]
  /\ pc = [c \in Calls |-> "idle"]
  /\ target = [c \in Calls |-> None]
  /\ presents = [c \in Calls |-> None]
  /\ move = [c \in Calls |-> NoMove]

Resting == {"idle", "over", "lost"}

Goto(c, step) == pc' = [pc EXCEPT ![c] = step]

End(c) ==
  /\ Goto(c, "over")
  /\ target' = [target EXCEPT ![c] = None]
  /\ presents' = [presents EXCEPT ![c] = None]
  /\ move' = [move EXCEPT ![c] = NoMove]

Begin(c, x, step) ==
  /\ Goto(c, step)
  /\ target' = [target EXCEPT ![c] = x]
  /\ UNCHANGED <<presents, move>>

\* A form with a field missing or too short goes back before any query.
RefuseForm(c) ==
  /\ pc[c] = "idle"
  /\ End(c)
  /\ UNCHANGED <<now, rows>>

Exists(x) == account[x].status # "NONE"

Row(from, to, by) == [from |-> from, to |-> to, by |-> by]

-----------------------------------------------------------------------------
(* registerClient, createStaffUser, and the two requests for a new password *)

\* The lookup, outside any transaction; then the password is hashed.
CheckAddress(c, x) ==
  /\ pc[c] = "idle"
  /\ \/ Exists(x) /\ End(c)
     \/ ~Exists(x) /\ Begin(c, x, "insert")
  /\ UNCHANGED <<now, rows>>

\* The unique indexes on (tenantId, email): the insert fails.
Taken(x) == Exists(x)

\* Fault: an invited staff user has a status of its own.
Fault_NewAccountInvited(x) ==
  IF x \in Customers
  THEN [status |-> "PENDING_VERIFICATION", verified |-> FALSE, password |-> "typed",
        profile |-> None]
  ELSE [status |-> "INVITED", verified |-> FALSE, password |-> "placeholder",
        profile |-> None]

NewAccount(x) ==
  IF x \in Customers
  THEN [status |-> "PENDING_VERIFICATION", verified |-> FALSE, password |-> "typed",
        profile |-> None]
  ELSE [status |-> "ACTIVE", verified |-> FALSE, password |-> "placeholder",
        profile |-> None]

\* The transaction that creates the account, its history and its audit row.
InsertAccount(c) ==
  LET x == target[c] IN
  /\ pc[c] = "insert"
  /\ \/ Taken(x) /\ End(c) /\ UNCHANGED <<account, history>>
     \/ /\ ~Taken(x)
        /\ account' = [account EXCEPT ![x] = NewAccount(x)]
        /\ history' = [history EXCEPT ![x] = IF x \in Customers
             THEN {Row("NONE", "PENDING_VERIFICATION", "CLIENT_CONTACT")} ELSE {}]
        /\ Goto(c, IF x \in Customers THEN "issueVerify" ELSE "issueInvite")
        /\ UNCHANGED local
  /\ UNCHANGED <<now, link>>

\* An address without an account gets the same answer and no link.
RequestPasswordReset(c, x) ==
  /\ pc[c] = "idle"
  /\ \/ Exists(x) /\ Begin(c, x, "issueReset")
     \/ ~Exists(x) /\ End(c)
  /\ UNCHANGED <<now, rows>>

KindOf(step) == CASE step = "issueVerify" -> "verify"
                  [] step = "issueInvite" -> "invite"
                  [] OTHER                -> "reset"

Ttl(kind) == IF kind = "reset" THEN ShortTtl ELSE LongTtl

\* Fault: the link is created and never mailed.
Fault_CreateToken(c) ==
  /\ pc[c] \in {"issueVerify", "issueInvite", "issueReset"}
  /\ link' = [link EXCEPT ![c] =
       [kind |-> KindOf(pc[c]), to |-> target[c], expires |-> now + Ttl(KindOf(pc[c])),
        mailed |-> FALSE, used |-> FALSE]]
  /\ End(c)
  /\ UNCHANGED <<now, account, history>>

CreateToken(c) ==
  /\ pc[c] \in {"issueVerify", "issueInvite", "issueReset"}
  /\ link' = [link EXCEPT ![c] =
       [kind |-> KindOf(pc[c]), to |-> target[c], expires |-> now + Ttl(KindOf(pc[c])),
        mailed |-> FALSE, used |-> FALSE]]
  /\ Goto(c, "mail")
  /\ UNCHANGED <<now, account, history, local>>

\* queueEmail with the link to the page that takes it.
MailLink(c) ==
  /\ pc[c] = "mail"
  /\ link' = [link EXCEPT ![c].mailed = TRUE]
  /\ End(c)
  /\ UNCHANGED <<now, account, history>>

-----------------------------------------------------------------------------
(* verifyClientEmail, setClientPassword, setStaffPassword *)

Good(l) == ~link[l].used /\ link[l].expires >= now

\* Fault: any link opens the form for a new password.
Fault_PageOf(l) == "setPassword"

\* Each kind of token is looked up by the service of its own page.
PageOf(l) == IF link[l].kind = "verify" THEN "verify" ELSE "setPassword"

\* Fault: the token is consumed when it is read.
Fault_PresentLink(c, l) ==
  /\ pc[c] = "idle" /\ link[l].mailed /\ Good(l)
  /\ link' = [link EXCEPT ![l].used = TRUE]
  /\ presents' = [presents EXCEPT ![c] = l]
  /\ target' = [target EXCEPT ![c] = link[l].to]
  /\ Goto(c, PageOf(l))
  /\ UNCHANGED <<now, account, history, move>>

\* The token is read, and taken for good if it is not consumed or expired;
\* the password is hashed before anything is written.
PresentLink(c, l) ==
  /\ pc[c] = "idle" /\ link[l].mailed
  /\ \/ ~Good(l) /\ End(c)
     \/ /\ Good(l)
        /\ presents' = [presents EXCEPT ![c] = l]
        /\ target' = [target EXCEPT ![c] = link[l].to]
        /\ Goto(c, PageOf(l))
        /\ UNCHANGED move
  /\ UNCHANGED <<now, rows>>

\* The contact's row, updated by a verification that has not committed.
Held(x) == \E c \in Calls : target[c] = x /\ pc[c] \in {"readClient", "activate", "confirm"}

\* Fault: a verified address leaves the client where it is.
Fault_OpenVerification(c) ==
  /\ pc[c] = "verify" /\ ~Held(target[c])
  /\ Goto(c, "confirm")
  /\ UNCHANGED <<now, rows, local>>

\* Fault: the client is read before the contact's row is updated.
Fault_OpenVerificationUnheld(c) ==
  /\ pc[c] = "verify"
  /\ Goto(c, IF account[target[c]].status = "PENDING_VERIFICATION"
             THEN "readClient" ELSE "confirm")
  /\ UNCHANGED <<now, rows, local>>

\* The transaction: contact and token are updated, the client is read.
OpenVerification(c) ==
  /\ pc[c] = "verify" /\ ~Held(target[c])
  /\ Goto(c, IF account[target[c]].status = "PENDING_VERIFICATION"
             THEN "readClient" ELSE "confirm")
  /\ UNCHANGED <<now, rows, local>>

\* Fault: what the first read said is not asked again.
Fault_ReadClient(c) ==
  /\ pc[c] = "readClient"
  /\ move' = [move EXCEPT ![c] = [from |-> "PENDING_VERIFICATION", to |-> "ACTIVE"]]
  /\ Goto(c, "activate")
  /\ UNCHANGED <<now, rows, target, presents>>

\* transitionClientStatus reads the client once more; a client that may not
\* become ACTIVE by now rolls everything back.
ReadClient(c) ==
  LET from == account[target[c]].status IN
  /\ pc[c] = "readClient"
  /\ \/ ~IsValidClientTransition(from, "ACTIVE") /\ End(c)
     \/ /\ IsValidClientTransition(from, "ACTIVE")
        /\ move' = [move EXCEPT ![c] = [from |-> from, to |-> "ACTIVE"]]
        /\ Goto(c, "activate")
        /\ UNCHANGED <<target, presents>>
  /\ UNCHANGED <<now, rows>>

CommitVerification(c) ==
  LET x == target[c] IN
  /\ pc[c] \in {"activate", "confirm"}
  /\ link' = [link EXCEPT ![presents[c]].used = TRUE]
  /\ \/ /\ pc[c] = "confirm"
        /\ account' = [account EXCEPT ![x].verified = TRUE]
        /\ UNCHANGED history
     \/ /\ pc[c] = "activate"
        /\ account' = [account EXCEPT ![x].verified = TRUE, ![x].status = "ACTIVE"]
        /\ history' = [history EXCEPT ![x] =
             @ \cup {Row(move[c].from, "ACTIVE", "CLIENT_CONTACT")}]
  /\ End(c)
  /\ UNCHANGED now

\* One batch: the password and the token's consumption.
SetPassword(c) ==
  /\ pc[c] = "setPassword" /\ ~Held(target[c])
  /\ account' = [account EXCEPT ![target[c]].password = presents[c]]
  /\ link' = [link EXCEPT ![presents[c]].used = TRUE]
  /\ End(c)
  /\ UNCHANGED <<now, history>>

-----------------------------------------------------------------------------
(* changeClientStatus: an unlocked read of the client, then the update. *)

ReadClientToMove(c) ==
  /\ pc[c] = "idle"
  /\ \E x \in Customers, to \in ClientStatuses :
       /\ Exists(x)
       /\ \/ ~IsValidClientTransition(account[x].status, to) /\ End(c)
          \/ /\ IsValidClientTransition(account[x].status, to)
             /\ move' = [move EXCEPT ![c] = [from |-> account[x].status, to |-> to]]
             /\ target' = [target EXCEPT ![c] = x]
             /\ Goto(c, "moveClient")
             /\ UNCHANGED presents
  /\ UNCHANGED <<now, rows>>

CommitMove(c) ==
  LET x == target[c] IN
  /\ pc[c] = "moveClient"
  /\ account' = [account EXCEPT ![x].status = move[c].to]
  /\ history' = [history EXCEPT ![x] = @ \cup {Row(move[c].from, move[c].to, "STAFF")}]
  /\ End(c)
  /\ UNCHANGED <<now, link>>

\* The portal's form writes names and address over what is there, whoever
\* wrote it since the page was loaded; no read decides anything.
updateClientProfile(c, x) ==
  /\ Exists(x)
  /\ account' = [account EXCEPT ![x].profile = c]
  /\ UNCHANGED <<now, history, link>>

updateProfileAction(c) ==
  \/ RefuseForm(c)
  \/ /\ pc[c] = "idle"
     /\ \E x \in Customers : updateClientProfile(c, x)
     /\ End(c)

-----------------------------------------------------------------------------

\* The server crashes or a statement fails; an open transaction is rolled
\* back and what was committed before stays.
Lose(c) ==
  /\ pc[c] \notin Resting
  /\ Goto(c, "lost")
  /\ presents' = [presents EXCEPT ![c] = None]
  /\ move' = [move EXCEPT ![c] = NoMove]
  /\ UNCHANGED <<now, rows, target>>

Tick ==
  /\ now < MaxTime
  /\ now' = now + 1
  /\ UNCHANGED <<rows, pc, local>>

registerClient(c) ==
  \/ \E x \in Customers : CheckAddress(c, x)
  \/ target[c] \in Customers /\ InsertAccount(c)
  \/ pc[c] = "issueVerify" /\ CreateToken(c)

registerAction(c) == RefuseForm(c) \/ registerClient(c)

createStaffUser(c) ==
  \/ \E x \in Colleagues : CheckAddress(c, x)
  \/ target[c] \in Colleagues /\ InsertAccount(c)
  \/ pc[c] = "issueInvite" /\ CreateToken(c)

\* The forms of the two reset services, which differ in the table they look
\* the address up in.
requestPasswordReset(c, table) ==
  \/ RefuseForm(c)
  \/ \E x \in table : RequestPasswordReset(c, x)
  \/ pc[c] = "issueReset" /\ target[c] \in table /\ CreateToken(c)

requestClientPasswordReset(c) == requestPasswordReset(c, Customers)

requestStaffPasswordReset(c) == requestPasswordReset(c, Colleagues)

verifyClientEmail(c) ==
  \/ \E l \in Calls : PageOf(l) = "verify" /\ PresentLink(c, l)
  \/ OpenVerification(c) \/ ReadClient(c) \/ CommitVerification(c)

\* The forms of the two password services; a token of the other table is
\* none at all.
setPassword(c, table) ==
  \/ RefuseForm(c)
  \/ \E l \in Calls : /\ PageOf(l) = "setPassword" /\ link[l].to \in table
                      /\ PresentLink(c, l)
  \/ target[c] \in table /\ SetPassword(c)

setClientPassword(c) == setPassword(c, Customers)

setStaffPassword(c) == setPassword(c, Colleagues)

changeClientStatus(c) == ReadClientToMove(c) \/ CommitMove(c)

Next ==
  \/ \E c \in Calls :
       \/ registerAction(c) \/ createStaffUser(c) \/ MailLink(c)
       \/ requestClientPasswordReset(c) \/ requestStaffPasswordReset(c)
       \/ verifyClientEmail(c) \/ setClientPassword(c) \/ setStaffPassword(c)
       \/ changeClientStatus(c) \/ updateProfileAction(c)
       \/ Lose(c)
  \/ Tick

Spec == Init /\ [][Next]_vars

\* What the services take for granted of a link, and nothing enforces: nobody
\* takes it up while somebody else is about to use it.
OneBearer == \A c, d \in Calls : presents[c] # None /\ presents[c] = presents[d] => c = d

BearersSpec == Init /\ [][Next /\ OneBearer']_vars

-----------------------------------------------------------------------------
(* Properties *)

Steps == {"insert", "issueVerify", "issueInvite", "issueReset", "mail", "verify",
          "readClient", "activate", "confirm", "setPassword", "moveClient"}

AccountRows == [status : ClientStatuses \cup {"NONE"}, verified : BOOLEAN,
                password : Calls \cup {None, "typed", "placeholder"},
                profile : Calls \cup {None}]
HistoryRows == [from : ClientStatuses \cup {"NONE"}, to : ClientStatuses,
                by : {"STAFF", "CLIENT_CONTACT"}]
LinkRows    == [kind : {"none", "verify", "invite", "reset"}, to : Addresses \cup {None},
                expires : Nat, mailed : BOOLEAN, used : BOOLEAN]
Moves       == [from : ClientStatuses \cup {"NONE"}, to : ClientStatuses \cup {"NONE"}]

\* Type invariant.
TypeOK ==
  /\ now \in 0..MaxTime
  /\ account \in [Addresses -> AccountRows]
  /\ history \in [Addresses -> SUBSET HistoryRows]
  /\ link \in [Calls -> LinkRows]
  /\ pc \in [Calls -> Steps \cup Resting]
  /\ target \in [Calls -> Addresses \cup {None}]
  /\ presents \in [Calls -> Calls \cup {None}]
  /\ move \in [Calls -> Moves]

Welcomes(l, x) == link[l].to = x /\ link[l].kind \in {"verify", "invite"}

\* The account is committed before its link and its mail: one whose owner was
\* never sent a link goes back to a call that is still at it or was lost.
LinkOrTrouble ==
  \A x \in Addresses : Exists(x) =>
    \/ \E l \in Calls : Welcomes(l, x) /\ link[l].mailed
    \/ \E c \in Calls : target[c] = x /\ pc[c] \in {"issueVerify", "issueInvite", "mail", "lost"}

\* However many registrations or invitations give one address at once, one of
\* them creates an account and sends a welcome.
OneWelcome ==
  \A l, m \in Calls : \A x \in Addresses : Welcomes(l, x) /\ Welcomes(m, x) => l = m

\* A password was typed at registration or set with a link that was mailed to
\* its own account for that purpose, and has been consumed; a staff user's is
\* never the inviter's choice.
PasswordFromOwnLink ==
  \A x \in Addresses :
    LET p == account[x].password IN
    /\ x \in Colleagues => p # "typed"
    /\ p \in Calls => /\ link[p].to = x /\ link[p].kind \in {"invite", "reset"}
                      /\ link[p].mailed /\ link[p].used

\* A link that was consumed has had its effect, and the other way round: the
\* two are never torn apart by a failure.
SpentIffEffective ==
  /\ \A x \in Addresses :
       account[x].verified <=>
         \E l \in Calls : link[l].kind = "verify" /\ link[l].to = x /\ link[l].used
  /\ \A l \in Calls :
       link[l].kind \in {"invite", "reset"} /\ link[l].used =>
         account[link[l].to].password \in Calls

\* A client whose address is verified is not left pending, and one that is
\* open without it was opened by staff, whoever moved it in between.
StatusExplained ==
  \A x \in Customers :
    /\ account[x].verified => account[x].status # "PENDING_VERIFICATION"
    /\ account[x].status \in {"ACTIVE", "SUSPENDED"} /\ ~account[x].verified =>
         \E h \in history[x] : h.by = "STAFF" /\ h.to = "ACTIVE"

Settled(x) == \A c \in Calls : pc[c] \in {"activate", "moveClient"} => target[c] # x

\* A client that is closed while no call is about to write the status it read
\* before stays closed.
ClosedForGood ==
  [][\A x \in Customers :
       account[x].status = "CLOSED" /\ Settled(x)
         => account'[x].status = "CLOSED" /\ Settled(x)']_vars

Activated(x) == \E h \in history[x] : h.by = "CLIENT_CONTACT" /\ h.to = "ACTIVE"

\* However many uses of its verification links overlap, and whatever staff do
\* to the client meanwhile, only one of them activates the client: the others
\* wait for the contact's row and find the status moved on (verifyClientEmail).
ActivatedOnce ==
  [][\A c \in Calls :
       pc[c] = "activate" /\ CommitVerification(c) => ~Activated(target[c])]_vars

Uses(c, l) == presents[c] = l /\ (CommitVerification(c) \/ SetPassword(c))

\* Links are single-use, as SECURITY.md has it of the set-password link: no
\* link has its effect once it has been consumed.
SingleUse == [][\A c, l \in Calls : link[l].used => ~Uses(c, l)]_vars
=============================================================================
