---------------------------- MODULE AccountsProofs ----------------------------
(***************************************************************************)
(* Accounts for any number of calls, addresses and instants.  What a call  *)
(* has read may be stale when it writes; the proofs say what of it cannot  *)
(* be: accounts and links only ever grow in the sense of Grows, so what a  *)
(* call found out about them in that sense stays true while others move.   *)
(***************************************************************************)
EXTENDS Accounts, TLAPS

Presenting == {"verify", "readClient", "activate", "confirm", "setPassword"}
Unlinked   == {"idle", "insert", "issueVerify", "issueInvite", "issueReset"}

\* What explains that a client is open.
Explained(x) ==
  account[x].verified \/ \E h \in history[x] : h.by = "STAFF" /\ h.to = "ACTIVE"

\* What a call has found out by the step it has come to.
Found(c) ==
  /\ pc[c] \in Steps => target[c] \in Addresses
  /\ pc[c] \in Steps \ {"insert"} => Exists(target[c])
  /\ pc[c] \in Unlinked => link[c] = NoLink
  /\ pc[c] = "idle" => target[c] = None
  /\ pc[c] = "issueVerify" => target[c] \in Customers
  /\ pc[c] = "issueInvite" => target[c] \in Colleagues
  /\ pc[c] = "mail" => link[c].kind # "none" /\ link[c].to = target[c]
  /\ pc[c] \notin Presenting => presents[c] = None
  /\ pc[c] \in Presenting =>
       /\ presents[c] \in Calls
       /\ link[presents[c]].kind # "none" /\ link[presents[c]].mailed
       /\ link[presents[c]].to = target[c]
       /\ pc[c] = "setPassword" <=> link[presents[c]].kind # "verify"
  /\ pc[c] = "confirm" => account[target[c]].status # "PENDING_VERIFICATION"
  /\ pc[c] = "moveClient" =>
       /\ target[c] \in Customers
       /\ move[c].to \in ClientStatuses \ {"PENDING_VERIFICATION"}
       /\ move[c].to = "SUSPENDED" => Explained(target[c])

CallInv == \A c \in Calls : Found(c)

\* Links are issued to accounts.
LinkInv ==
  \A l \in Calls :
    /\ link[l].kind = "none" => link[l] = NoLink
    /\ link[l].kind # "none" => link[l].to \in Addresses /\ Exists(link[l].to)

\* Row by row, what a step may do to accounts and links.
Grows ==
  /\ \A x \in Addresses :
       /\ Exists(x) => Exists(x)'
       /\ Exists(x) /\ account[x].status # "PENDING_VERIFICATION" =>
            account'[x].status # "PENDING_VERIFICATION"
       /\ Exists(x) /\ account[x].verified => account'[x].verified
       /\ history[x] \subseteq history'[x] \/ ~Exists(x)
  /\ \A l \in Calls :
       link[l].kind # "none" =>
         /\ link'[l].kind = link[l].kind /\ link'[l].to = link[l].to
         /\ link[l].mailed => link'[l].mailed
         /\ link[l].used => link'[l].used

AccountsInv == TypeOK /\ CallInv /\ LinkInv /\ StatusExplained

\* A step that writes no row, and one that does.
Reads(c) ==
  \/ \E x \in Addresses : CheckAddress(c, x) \/ RequestPasswordReset(c, x)
  \/ \E l \in Calls : PresentLink(c, l)
  \/ OpenVerification(c) \/ ReadClient(c) \/ ReadClientToMove(c) \/ Lose(c)

Writes(c) ==
  \/ InsertAccount(c) \/ CreateToken(c) \/ MailLink(c) \/ CommitVerification(c)
  \/ SetPassword(c) \/ CommitMove(c) \/ updateProfileAction(c)

LEMMA ThreeWays ==
  ASSUME [Next]_vars
  PROVE  \/ \E c \in Calls : Reads(c) \/ Writes(c)
         \/ Tick \/ UNCHANGED vars
  BY DEF Next, Reads, Writes, registerAction, registerClient, createStaffUser,
         requestClientPasswordReset, updateProfileAction, requestStaffPasswordReset,
         requestPasswordReset, verifyClientEmail, setClientPassword, setStaffPassword, setPassword, changeClientStatus, Addresses

LEMMA AccountsInit == ASSUME Init PROVE AccountsInv
  <1>1. /\ NoAccount \in AccountRows /\ NoLink \in LinkRows /\ NoMove \in Moves
    BY DEF NoAccount, NoLink, NoMove, AccountRows, LinkRows, Moves
  <1>2. TypeOK
    BY <1>1, AccountsAssumption DEF Init, TypeOK, Resting
  <1>3. CallInv /\ LinkInv
    BY DEF Init, CallInv, Found, LinkInv, Steps, Unlinked, Presenting, NoLink
  <1>4. StatusExplained
    BY DEF Init, StatusExplained, NoAccount, Addresses
  <1> QED  BY <1>2, <1>3, <1>4 DEF AccountsInv

-----------------------------------------------------------------------------
(* Types *)

LEMMA TypeReads == ASSUME AccountsInv, NEW c \in Calls, Reads(c) PROVE TypeOK'
  <1> USE DEF AccountsInv, TypeOK, Goto, End, Begin, rows, local, Steps, Resting
  <1>0. NoMove \in Moves
    BY DEF NoMove, Moves
  <1>1. ASSUME NEW x \in Addresses, CheckAddress(c, x) \/ RequestPasswordReset(c, x)
        PROVE  TypeOK'
    BY <1>0, <1>1 DEF CheckAddress, RequestPasswordReset
  <1>2. ASSUME NEW l \in Calls, PresentLink(c, l) PROVE TypeOK'
    <2>1. link[l].to \in Addresses \cup {None} /\ PageOf(l) \in Steps
      BY DEF LinkRows, PageOf
    <2> QED  BY <1>0, <1>2, <2>1 DEF PresentLink
  <1>3. CASE OpenVerification(c)
    BY <1>3 DEF OpenVerification
  <1>4. CASE ReadClient(c)
    <2>1. target[c] \in Addresses /\ Exists(target[c])
      BY <1>4 DEF ReadClient, CallInv, Found
    <2>2. [from |-> account[target[c]].status, to |-> "ACTIVE"] \in Moves
      BY <2>1 DEF AccountRows, Moves, ClientStatuses
    <2> QED  BY <1>0, <1>4, <2>2 DEF ReadClient
  <1>5. CASE ReadClientToMove(c)
    <2>1. \A x \in Customers, to \in ClientStatuses :
            [from |-> account[x].status, to |-> to] \in Moves
      BY DEF AccountRows, Moves, Addresses
    <2> QED  BY <1>0, <1>5, <2>1 DEF ReadClientToMove, Addresses
  <1>6. CASE Lose(c)
    BY <1>0, <1>6 DEF Lose
  <1> QED  BY <1>1, <1>2, <1>3, <1>4, <1>5, <1>6 DEF Reads

\* Writing single fields.
LEMMA LinkSet ==
  ASSUME NEW r \in LinkRows
  PROVE  /\ [r EXCEPT !.used = TRUE] \in LinkRows
         /\ [r EXCEPT !.used = TRUE].kind = r.kind /\ [r EXCEPT !.used = TRUE].to = r.to
         /\ [r EXCEPT !.used = TRUE].mailed = r.mailed /\ [r EXCEPT !.used = TRUE].used = TRUE
  BY DEF LinkRows

LEMMA AccountSet ==
  ASSUME NEW r \in AccountRows
  PROVE  LET confirmed == [r EXCEPT !.verified = TRUE]
             opened    == [confirmed EXCEPT !.status = "ACTIVE"] IN
         /\ confirmed \in AccountRows /\ opened \in AccountRows
         /\ confirmed.verified = TRUE /\ opened.verified = TRUE
         /\ confirmed.password = r.password /\ opened.password = r.password
         /\ confirmed.status = r.status /\ opened.status = "ACTIVE"
  BY DEF AccountRows, ClientStatuses

LEMMA CommitVerificationFields ==
  ASSUME AccountsInv, NEW c \in Calls, CommitVerification(c)
  PROVE  LET x == target[c]
             l == presents[c] IN
         /\ x \in Addresses /\ l \in Calls /\ Exists(x)
         /\ link' \in [Calls -> LinkRows]
         /\ \A m \in Calls \ {l} : link'[m] = link[m]
         /\ link'[l].kind = link[l].kind /\ link'[l].to = link[l].to
         /\ link'[l].mailed = link[l].mailed /\ link'[l].used = TRUE
         /\ account' \in [Addresses -> AccountRows]
         /\ \A y \in Addresses \ {x} : account'[y] = account[y]
         /\ account'[x].verified = TRUE /\ account'[x].password = account[x].password
         /\ account'[x].status = IF pc[c] = "activate" THEN "ACTIVE" ELSE account[x].status
         /\ history' \in [Addresses -> SUBSET HistoryRows]
         /\ \A y \in Addresses : history[y] \subseteq history'[y]
         /\ now' = now /\ End(c)
  <1> DEFINE x == target[c]
             l == presents[c]
             confirmed == [account[x] EXCEPT !.verified = TRUE]
             opened    == [confirmed EXCEPT !.status = "ACTIVE"]
             spent     == [link[l] EXCEPT !.used = TRUE]
             row       == Row(move[c].from, "ACTIVE", "CLIENT_CONTACT")
  <1>1. x \in Addresses /\ l \in Calls /\ Exists(x)
    BY DEF CommitVerification, AccountsInv, CallInv, Found, Presenting, Steps
  <1>2. /\ account \in [Addresses -> AccountRows] /\ link \in [Calls -> LinkRows]
        /\ history \in [Addresses -> SUBSET HistoryRows] /\ move[c] \in Moves
    BY DEF AccountsInv, TypeOK
  <1>3. link' = [link EXCEPT ![l] = spent]
    BY DEF CommitVerification
  <1>4. /\ pc[c] = "activate" => /\ account' = [account EXCEPT ![x] = opened]
                                 /\ history' = [history EXCEPT ![x] = history[x] \cup {row}]
        /\ pc[c] # "activate" => /\ account' = [account EXCEPT ![x] = confirmed]
                                 /\ history' = history
    BY <1>1, <1>2 DEF CommitVerification
  <1>5. row \in HistoryRows
    BY <1>2 DEF Row, HistoryRows, Moves, ClientStatuses
  <1>6. /\ spent \in LinkRows /\ spent.kind = link[l].kind /\ spent.to = link[l].to
        /\ spent.mailed = link[l].mailed /\ spent.used = TRUE
    BY <1>1, <1>2, LinkSet
  <1>7. /\ confirmed \in AccountRows /\ opened \in AccountRows
        /\ confirmed.verified = TRUE /\ opened.verified = TRUE
        /\ confirmed.password = account[x].password /\ opened.password = account[x].password
        /\ confirmed.status = account[x].status /\ opened.status = "ACTIVE"
    BY <1>1, <1>2, AccountSet
  <1>8. now' = now /\ End(c)
    BY DEF CommitVerification
  <1> HIDE DEF confirmed, opened, spent, row
  <1> QED  BY <1>1, <1>2, <1>3, <1>4, <1>5, <1>6, <1>7, <1>8

LEMMA TypeWrites == ASSUME AccountsInv, NEW c \in Calls, Writes(c) PROVE TypeOK'
  <1> USE DEF AccountsInv, TypeOK, Goto, End, rows, local, Steps, Resting
  <1>0. NoMove \in Moves
    BY DEF NoMove, Moves
  <1>1. CASE InsertAccount(c)
    <2>1. NewAccount(target[c]) \in AccountRows
      BY DEF NewAccount, AccountRows, ClientStatuses
    <2>2. {Row("NONE", "PENDING_VERIFICATION", "CLIENT_CONTACT")} \subseteq HistoryRows
      BY DEF Row, HistoryRows, ClientStatuses
    <2> QED  BY <1>0, <1>1, <2>1, <2>2 DEF InsertAccount
  <1>2. CASE CreateToken(c)
    <2>1. target[c] \in Addresses /\ pc[c] \in {"issueVerify", "issueInvite", "issueReset"}
      BY <1>2 DEF CreateToken, CallInv, Found
    <2>2. KindOf(pc[c]) \in {"verify", "invite", "reset"} /\ now + Ttl(KindOf(pc[c])) \in Nat
      BY <2>1, AccountsAssumption DEF KindOf, Ttl
    <2>3. [kind |-> KindOf(pc[c]), to |-> target[c], expires |-> now + Ttl(KindOf(pc[c])),
           mailed |-> FALSE, used |-> FALSE] \in LinkRows
      BY <2>1, <2>2 DEF LinkRows
    <2> QED  BY <1>2, <2>3 DEF CreateToken
  <1>3. CASE MailLink(c)
    <2>1. [link[c] EXCEPT !.mailed = TRUE] \in LinkRows
      BY DEF LinkRows
    <2> QED  BY <1>0, <1>3, <2>1 DEF MailLink
  <1>4. CASE CommitVerification(c)
    <2>1. UNCHANGED now /\ End(c)
      BY <1>4 DEF CommitVerification
    <2>2. /\ account' \in [Addresses -> AccountRows] /\ link' \in [Calls -> LinkRows]
          /\ history' \in [Addresses -> SUBSET HistoryRows]
      <3> HIDE DEF AccountsInv, TypeOK, End
      <3> QED  BY <1>4, CommitVerificationFields
    <2> QED  BY <1>0, <2>1, <2>2
  <1>5. CASE SetPassword(c)
    <2>1. target[c] \in Addresses /\ presents[c] \in Calls
      BY <1>5 DEF SetPassword, CallInv, Found, Presenting
    <2>2. [link[presents[c]] EXCEPT !.used = TRUE] \in LinkRows
      BY <2>1, LinkSet
    <2>3. [account[target[c]] EXCEPT !.password = presents[c]] \in AccountRows
      BY <2>1 DEF AccountRows
    <2> QED  BY <1>0, <1>5, <2>1, <2>2, <2>3 DEF SetPassword
  <1>6. CASE CommitMove(c)
    <2>1. target[c] \in Addresses /\ move[c].to \in ClientStatuses
      BY <1>6 DEF CommitMove, CallInv, Found
    <2>2. [account[target[c]] EXCEPT !.status = move[c].to] \in AccountRows
      BY <2>1 DEF AccountRows
    <2>3. Row(move[c].from, move[c].to, "STAFF") \in HistoryRows
      BY <2>1 DEF Row, HistoryRows, Moves
    <2> QED  BY <1>0, <1>6, <2>1, <2>2, <2>3 DEF CommitMove
  <1>7. CASE updateProfileAction(c)
    <2>1. \A x \in Customers : [account[x] EXCEPT !.profile = c] \in AccountRows
      BY DEF AccountRows, Addresses
    <2> QED  BY <1>0, <1>7, <2>1 DEF updateProfileAction, RefuseForm, updateClientProfile
  <1> QED  BY <1>1, <1>2, <1>3, <1>4, <1>5, <1>6, <1>7 DEF Writes

LEMMA TypeNext == ASSUME AccountsInv, [Next]_vars PROVE TypeOK'
  <1>1. CASE Tick
    BY <1>1, AccountsAssumption DEF Tick, AccountsInv, TypeOK, rows, local
  <1>2. CASE UNCHANGED vars
    BY <1>2 DEF vars, AccountsInv, TypeOK
  <1> QED  BY <1>1, <1>2, ThreeWays, TypeReads, TypeWrites

-----------------------------------------------------------------------------
(* What writing steps do, field by field *)

\* The fields of an account that a step may set.
LEMMA AccountFields ==
  ASSUME AccountsInv, NEW c \in Calls, Writes(c), NEW x \in Addresses
  PROVE  LET old == account[x]
             new == account'[x] IN
         \/ InsertAccount(c) /\ target[c] = x /\ ~Exists(x) /\ new = NewAccount(x)
         \/ /\ CommitVerification(c) /\ target[c] = x
            /\ new.verified = TRUE /\ new.password = old.password
            /\ new.status = IF pc[c] = "activate" THEN "ACTIVE" ELSE old.status
         \/ /\ SetPassword(c) /\ target[c] = x
            /\ new.verified = old.verified /\ new.status = old.status
            /\ new.password = presents[c]
         \/ /\ CommitMove(c) /\ target[c] = x
            /\ new.verified = old.verified /\ new.password = old.password
            /\ new.status = move[c].to
         \/ /\ ~(CommitMove(c) /\ target[c] = x) /\ ~(SetPassword(c) /\ target[c] = x)
            /\ ~(CommitVerification(c) /\ target[c] = x)
            /\ new.verified = old.verified /\ new.password = old.password
            /\ new.status = old.status
  <1> USE DEF AccountsInv, TypeOK, AccountRows, rows
  <1>1. CASE InsertAccount(c)
    BY <1>1 DEF InsertAccount, Taken, CommitMove, SetPassword, CommitVerification
  <1>2. CASE CreateToken(c) \/ MailLink(c)
    BY <1>2 DEF CreateToken, MailLink, CommitMove, SetPassword, CommitVerification
  <1>3. CASE CommitVerification(c)
    <2>1. ~CommitMove(c) /\ ~SetPassword(c)
      BY <1>3 DEF CommitVerification, CommitMove, SetPassword
    <2> HIDE DEF AccountsInv, TypeOK, AccountRows
    <2> QED  BY <1>3, <2>1, CommitVerificationFields
  <1>4. CASE SetPassword(c)
    BY <1>4 DEF SetPassword, CommitMove, CommitVerification
  <1>5. CASE CommitMove(c)
    BY <1>5 DEF CommitMove, SetPassword, CommitVerification
  <1>6. CASE updateProfileAction(c)
    BY <1>6 DEF updateProfileAction, RefuseForm, updateClientProfile, CommitMove, SetPassword,
                CommitVerification
  <1> QED  BY <1>1, <1>2, <1>3, <1>4, <1>5, <1>6 DEF Writes

\* The fields of a link that a step may set.
LEMMA LinkFields ==
  ASSUME AccountsInv, NEW c \in Calls, Writes(c), NEW l \in Calls
  PROVE  LET old == link[l]
             new == link'[l] IN
         \/ /\ CreateToken(c) /\ l = c
            /\ new.kind = KindOf(pc[c]) /\ new.to = target[c] /\ new.used = FALSE
            /\ new.mailed = FALSE
         \/ /\ MailLink(c) /\ l = c
            /\ new.kind = old.kind /\ new.to = old.to /\ new.used = old.used
            /\ new.mailed = TRUE
         \/ /\ CommitVerification(c) \/ SetPassword(c)
            /\ l = presents[c]
            /\ new.kind = old.kind /\ new.to = old.to /\ new.mailed = old.mailed
            /\ new.used = TRUE
         \/ /\ ~((CommitVerification(c) \/ SetPassword(c)) /\ l = presents[c])
            /\ new = old
  <1> USE DEF AccountsInv, TypeOK, LinkRows, rows
  <1>1. CASE InsertAccount(c) \/ CommitMove(c) \/ updateProfileAction(c)
    BY <1>1 DEF InsertAccount, CommitMove, updateProfileAction, RefuseForm, updateClientProfile,
                SetPassword, CommitVerification
  <1>2. CASE CreateToken(c)
    BY <1>2 DEF CreateToken, SetPassword, CommitVerification
  <1>3. CASE MailLink(c)
    BY <1>3 DEF MailLink, SetPassword, CommitVerification
  <1>4. CASE CommitVerification(c)
    BY <1>4, CommitVerificationFields
  <1>5. CASE SetPassword(c)
    BY <1>5 DEF SetPassword
  <1> QED  BY <1>1, <1>2, <1>3, <1>4, <1>5 DEF Writes

-----------------------------------------------------------------------------
(* What calls may rely on *)

LEMMA HistoryKept ==
  ASSUME AccountsInv, NEW c \in Calls, Writes(c), NEW x \in Addresses, Exists(x)
  PROVE  history[x] \subseteq history'[x]
  <1>1. CASE InsertAccount(c)
    BY <1>1 DEF InsertAccount, Taken, AccountsInv, TypeOK
  <1>2. CASE CommitVerification(c)
    BY <1>2, CommitVerificationFields
  <1>3. CASE CommitMove(c)
    BY <1>3 DEF CommitMove, AccountsInv, TypeOK
  <1>4. CASE CreateToken(c) \/ MailLink(c) \/ SetPassword(c) \/ updateProfileAction(c)
    BY <1>4 DEF CreateToken, MailLink, SetPassword, updateProfileAction, RefuseForm,
                updateClientProfile, rows
  <1> QED  BY <1>1, <1>2, <1>3, <1>4 DEF Writes

LEMMA WritesGrow == ASSUME AccountsInv, NEW c \in Calls, Writes(c) PROVE Grows
  <1>1. ASSUME NEW x \in Addresses
        PROVE  /\ Exists(x) => Exists(x)'
               /\ Exists(x) /\ account[x].status # "PENDING_VERIFICATION" =>
                    account'[x].status # "PENDING_VERIFICATION"
               /\ Exists(x) /\ account[x].verified => account'[x].verified
               /\ history[x] \subseteq history'[x] \/ ~Exists(x)
    <2>1. CommitMove(c) => /\ move[c].to \in ClientStatuses
                           /\ move[c].to # "PENDING_VERIFICATION"
      BY DEF CommitMove, AccountsInv, CallInv, Found
    <2> QED  BY <2>1, AccountFields, HistoryKept DEF Exists, ClientStatuses
  <1>2. ASSUME NEW l \in Calls, link[l].kind # "none"
        PROVE  /\ link'[l].kind = link[l].kind /\ link'[l].to = link[l].to
               /\ link[l].mailed => link'[l].mailed
               /\ link[l].used => link'[l].used
    <2>1. CreateToken(c) => l # c
      BY <1>2 DEF CreateToken, AccountsInv, CallInv, Found, Unlinked, NoLink
    <2> QED  BY <2>1, LinkFields
  <1> QED  BY <1>1, <1>2 DEF Grows

LEMMA QuietGrow == ASSUME UNCHANGED rows PROVE Grows
  BY DEF rows, Grows, Exists

\* A step of one call leaves the others' variables alone, and writes no link
\* but issued ones and its own.
LEMMA Frame ==
  ASSUME AccountsInv, NEW c \in Calls, Reads(c) \/ Writes(c), NEW d \in Calls \ {c}
  PROVE  /\ pc'[d] = pc[d] /\ target'[d] = target[d] /\ presents'[d] = presents[d]
         /\ move'[d] = move[d]
         /\ link[d].kind = "none" => link'[d] = link[d]
  <1> USE DEF Goto, End, Begin, rows, local
  <1>1. CASE Reads(c)
    BY <1>1 DEF AccountsInv, TypeOK, Reads, CheckAddress, RequestPasswordReset, PresentLink,
                OpenVerification, ReadClient, ReadClientToMove, Lose
  <1>2. CASE Writes(c)
    <2>1. /\ pc'[d] = pc[d] /\ target'[d] = target[d] /\ presents'[d] = presents[d]
          /\ move'[d] = move[d]
      BY <1>2 DEF AccountsInv, TypeOK, Writes, InsertAccount, CreateToken, MailLink,
                  CommitVerification, SetPassword, CommitMove, updateProfileAction, RefuseForm,
                  updateClientProfile
    <2>2. CommitVerification(c) \/ SetPassword(c) => link[presents[c]].kind # "none"
      BY DEF AccountsInv, CallInv, Found, Presenting, CommitVerification, SetPassword
    <2>3. link[d].kind = "none" => link'[d] = link[d]
      BY <1>2, <2>2, LinkFields DEF CreateToken, MailLink
    <2> QED  BY <2>1, <2>3
  <1> QED  BY <1>1, <1>2

\* What a call has found out stays true while accounts and links grow.
LEMMA KeptAlone ==
  ASSUME TypeOK, CallInv, Grows, NEW c \in Calls,
         pc'[c] = pc[c], target'[c] = target[c], presents'[c] = presents[c], move'[c] = move[c],
         link[c].kind = "none" => link'[c] = link[c]
  PROVE  Found(c)'
  <1>1. Found(c)
    BY DEF CallInv
  <1>2. pc[c] \in Steps \ {"insert"} =>
          /\ target[c] \in Addresses /\ Exists(target[c]) /\ Exists(target[c])'
          /\ Explained(target[c]) => Explained(target[c])'
          /\ account[target[c]].status # "PENDING_VERIFICATION" =>
               account'[target[c]].status # "PENDING_VERIFICATION"
    BY <1>1 DEF Found, Grows, Explained, Steps
  <1>3. NoLink.kind = "none"
    BY DEF NoLink
  <1>4. pc[c] \in Presenting =>
          /\ presents[c] \in Calls
          /\ link'[presents[c]].kind = link[presents[c]].kind
          /\ link'[presents[c]].to = link[presents[c]].to
          /\ link'[presents[c]].mailed
    BY <1>1 DEF Found, Grows
  <1>5. link[c].kind # "none" => link'[c].kind = link[c].kind /\ link'[c].to = link[c].to
    BY DEF Grows
  <1> QED  BY <1>1, <1>2, <1>3, <1>4, <1>5 DEF Found, Steps, Presenting, Unlinked

\* A read that finds a client ready to be suspended finds it explained.
LEMMA MoveFound ==
  ASSUME AccountsInv, NEW x \in Customers, NEW to \in ClientStatuses, Exists(x),
         IsValidClientTransition(account[x].status, to)
  PROVE  to # "PENDING_VERIFICATION" /\ (to = "SUSPENDED" => Explained(x))
  <1>1. account[x].status \in ClientStatuses
    BY DEF AccountsInv, TypeOK, AccountRows, Exists, Addresses
  <1>2. /\ to # "PENDING_VERIFICATION"
        /\ to = "SUSPENDED" => account[x].status = "ACTIVE"
    BY <1>1 DEF IsValidClientTransition, CLIENT_TRANSITIONS, ClientStatuses
  <1> QED  BY <1>2 DEF AccountsInv, StatusExplained, Explained

LEMMA ReaderFinds == ASSUME AccountsInv, NEW c \in Calls, Reads(c) PROVE Found(c)'
  <1> USE DEF AccountsInv, TypeOK, Goto, End, Begin, rows, local, Found, CallInv, Exists, Explained
  <1>1. ASSUME NEW x \in Addresses, CheckAddress(c, x) \/ RequestPasswordReset(c, x)
        PROVE  Found(c)'
    BY <1>1 DEF CheckAddress, RequestPasswordReset, Steps, Unlinked, Presenting
  <1>2. ASSUME NEW l \in Calls, PresentLink(c, l) PROVE Found(c)'
    <2>1. link[l].mailed => link[l].kind # "none"
      BY DEF LinkInv, NoLink
    <2>2. link[l].kind # "none" => link[l].to \in Addresses /\ Exists(link[l].to)
      BY DEF LinkInv
    <2>3. PageOf(l) = "setPassword" <=> link[l].kind # "verify"
      BY DEF PageOf
    <2>4. PageOf(l) \in {"verify", "setPassword"}
      BY DEF PageOf
    <2>5. CASE ~Good(l)
      BY <1>2, <2>5 DEF PresentLink, Steps, Unlinked, Presenting
    <2>6. CASE Good(l)
      <3>1. /\ link[l].mailed /\ pc'[c] = PageOf(l) /\ target'[c] = link[l].to
            /\ presents'[c] = l /\ link' = link /\ account' = account
        BY <1>2, <2>6 DEF PresentLink
      <3> QED  BY <2>1, <2>2, <2>3, <2>4, <3>1 DEF Steps, Unlinked, Presenting
    <2> QED  BY <2>5, <2>6
  <1>3. CASE OpenVerification(c)
    BY <1>3 DEF OpenVerification, Steps, Unlinked, Presenting
  <1>4. CASE ReadClient(c)
    BY <1>4 DEF ReadClient, Steps, Unlinked, Presenting
  <1>5. CASE ReadClientToMove(c)
    <2>1. CASE pc'[c] = "over"
      BY <1>5, <2>1 DEF ReadClientToMove, Steps, Unlinked, Presenting
    <2>2. CASE pc'[c] # "over"
      <3>1. PICK x \in Customers, to \in ClientStatuses :
              /\ Exists(x) /\ IsValidClientTransition(account[x].status, to)
              /\ move'[c].to = to /\ target'[c] = x /\ pc'[c] = "moveClient"
              /\ presents' = presents /\ account' = account /\ history' = history
              /\ link' = link /\ pc[c] = "idle"
        BY <1>5, <2>2 DEF ReadClientToMove
      <3>2. to # "PENDING_VERIFICATION" /\ (to = "SUSPENDED" => Explained(x))
        BY <3>1, MoveFound
      <3> QED  BY <3>1, <3>2 DEF Steps, Unlinked, Presenting, Addresses
    <2> QED  BY <2>1, <2>2
  <1>6. CASE Lose(c)
    BY <1>6 DEF Lose, Steps, Unlinked, Presenting, Resting
  <1> QED  BY <1>1, <1>2, <1>3, <1>4, <1>5, <1>6 DEF Reads

LEMMA WriterFinds == ASSUME AccountsInv, NEW c \in Calls, Writes(c) PROVE Found(c)'
  <1> USE DEF Goto, End, rows, local
  <1>1. CASE pc'[c] = "over" /\ presents'[c] = None
    BY <1>1 DEF Found, Steps, Unlinked, Presenting
  <1>2. CASE InsertAccount(c) /\ ~Taken(target[c])
    <2>1. target[c] \in Addresses /\ link[c] = NoLink /\ presents[c] = None
      BY <1>2 DEF InsertAccount, AccountsInv, CallInv, Found, Steps, Unlinked, Presenting
    <2>2. account'[target[c]] = NewAccount(target[c])
      BY <1>2, <2>1 DEF InsertAccount, AccountsInv, TypeOK
    <2>3. Exists(target[c])'
      BY <1>2, <2>2 DEF Exists, NewAccount, InsertAccount
    <2>4. /\ pc'[c] = IF target[c] \in Customers THEN "issueVerify" ELSE "issueInvite"
          /\ UNCHANGED <<target, presents, link>>
      BY <1>2 DEF InsertAccount, AccountsInv, TypeOK
    <2> QED  BY <2>1, <2>3, <2>4 DEF Found, Steps, Unlinked, Presenting, Addresses
  <1>3. CASE CreateToken(c)
    <2>1. target[c] \in Addresses /\ Exists(target[c]) /\ presents[c] = None
      BY <1>3 DEF CreateToken, AccountsInv, CallInv, Found, Steps, Presenting
    <2>2. pc'[c] = "mail" /\ UNCHANGED <<target, presents, account>>
      BY <1>3 DEF CreateToken, AccountsInv, TypeOK
    <2>3. link'[c].kind # "none" /\ link'[c].to = target[c]
      BY <1>3 DEF CreateToken, KindOf, AccountsInv, TypeOK
    <2> QED  BY <2>1, <2>2, <2>3 DEF Found, Exists, Steps, Unlinked, Presenting
  <1> QED
    BY <1>1, <1>2, <1>3
    DEF AccountsInv, TypeOK, Writes, InsertAccount, MailLink, CommitVerification, SetPassword,
        CommitMove, updateProfileAction, RefuseForm, updateClientProfile

LEMMA CallNext == ASSUME AccountsInv, [Next]_vars PROVE CallInv'
  <1>1. ASSUME NEW c \in Calls, Reads(c) \/ Writes(c) PROVE CallInv'
    <2>1. Found(c)'
      BY <1>1, ReaderFinds, WriterFinds
    <2>2. Reads(c) => UNCHANGED rows
      BY DEF Reads, CheckAddress, RequestPasswordReset, PresentLink, OpenVerification,
             ReadClient, ReadClientToMove, Lose, rows
    <2>3. Grows
      BY <1>1, <2>2, QuietGrow, WritesGrow
    <2>4. ASSUME NEW d \in Calls \ {c} PROVE Found(d)'
      BY <1>1, <2>3, Frame, KeptAlone DEF AccountsInv
    <2> QED  BY <2>1, <2>4 DEF CallInv
  <1>2. CASE Tick \/ UNCHANGED vars
    <2>1. UNCHANGED <<rows, pc, target, presents, move>>
      BY <1>2 DEF Tick, vars, rows, local
    <2>2. Grows /\ link' = link
      BY <2>1, QuietGrow DEF rows
    <2> QED  BY <2>1, <2>2, KeptAlone DEF AccountsInv, CallInv
  <1> QED  BY <1>1, <1>2, ThreeWays

LEMMA LinkNext == ASSUME AccountsInv, [Next]_vars PROVE LinkInv'
  <1>1. ASSUME NEW c \in Calls, Writes(c), NEW l \in Calls
        PROVE  /\ link'[l].kind = "none" => link'[l] = NoLink
               /\ link'[l].kind # "none" => /\ link'[l].to \in Addresses
                                           /\ account'[link'[l].to].status # "NONE"
    <2>1. Grows
      BY <1>1, WritesGrow
    <2>2. CreateToken(c) => /\ target[c] \in Addresses /\ Exists(target[c])
                            /\ KindOf(pc[c]) # "none"
      BY DEF CreateToken, KindOf, AccountsInv, CallInv, Found, Steps
    <2>3. CommitVerification(c) \/ SetPassword(c) => link[presents[c]].kind # "none"
      BY DEF AccountsInv, CallInv, Found, Presenting, CommitVerification, SetPassword
    <2>4. MailLink(c) => link[c].kind # "none"
      BY DEF MailLink, AccountsInv, CallInv, Found
    <2>5. link[l].kind = "none" => link[l] = NoLink
      BY DEF AccountsInv, LinkInv
    <2>6. link[l].kind # "none" => link[l].to \in Addresses /\ Exists(link[l].to)
      BY DEF AccountsInv, LinkInv
    <2>7. \A x \in Addresses : Exists(x) => account'[x].status # "NONE"
      BY <2>1 DEF Grows, Exists
    <2> QED  BY <1>1, <2>2, <2>3, <2>4, <2>5, <2>6, <2>7, LinkFields
  <1>2. ASSUME UNCHANGED rows PROVE LinkInv'
    BY <1>2 DEF rows, AccountsInv, LinkInv, Exists
  <1>3. ASSUME NEW c \in Calls, Reads(c) PROVE UNCHANGED rows
    BY <1>3 DEF Reads, CheckAddress, RequestPasswordReset, PresentLink, OpenVerification,
                ReadClient, ReadClientToMove, Lose, rows
  <1>4. CASE Tick \/ UNCHANGED vars
    BY <1>2, <1>4 DEF Tick, vars, rows
  <1> QED  BY <1>1, <1>2, <1>3, <1>4, ThreeWays DEF LinkInv, Exists

LEMMA StatusNext == ASSUME AccountsInv, [Next]_vars PROVE StatusExplained'
  <1> DEFINE ByStaff(H) == \E h \in H : h.by = "STAFF" /\ h.to = "ACTIVE"
  <1>1. ASSUME NEW c \in Calls, Writes(c), NEW x \in Customers
        PROVE  /\ account'[x].verified => account'[x].status # "PENDING_VERIFICATION"
               /\ account'[x].status \in {"ACTIVE", "SUSPENDED"} /\ ~account'[x].verified =>
                    ByStaff(history'[x])
    <2>0. x \in Addresses /\ account[x] \in AccountRows
      BY DEF Addresses, AccountsInv, TypeOK
    <2>1. /\ account[x].verified => account[x].status # "PENDING_VERIFICATION"
          /\ account[x].status \in {"ACTIVE", "SUSPENDED"} /\ ~account[x].verified =>
               ByStaff(history[x])
      BY DEF AccountsInv, StatusExplained
    <2>2. Exists(x) => history[x] \subseteq history'[x]
      BY <1>1, <2>0, HistoryKept
    <2>3. account[x].status \in {"ACTIVE", "SUSPENDED"} => Exists(x)
      BY DEF Exists
    <2>4. CASE InsertAccount(c) /\ account'[x] = NewAccount(x)
      BY <2>4 DEF NewAccount
    <2>5. CASE CommitVerification(c) /\ target[c] = x
      <3>1. pc[c] = "confirm" => account[x].status # "PENDING_VERIFICATION"
        BY <2>5 DEF AccountsInv, CallInv, Found
      <3>2. pc[c] \in {"activate", "confirm"}
        BY <2>5 DEF CommitVerification
      <3>3. /\ account'[x].verified = TRUE
            /\ account'[x].status = IF pc[c] = "activate" THEN "ACTIVE" ELSE account[x].status
        BY <2>5, CommitVerificationFields
      <3> QED  BY <3>1, <3>2, <3>3
    <2>6. CASE CommitMove(c) /\ target[c] = x /\ account'[x].status = move[c].to
                 /\ account'[x].verified = account[x].verified
      <3>1. /\ move[c].to # "PENDING_VERIFICATION" /\ Exists(x)
            /\ move[c].to = "SUSPENDED" => account[x].verified \/ ByStaff(history[x])
        BY <2>6 DEF CommitMove, AccountsInv, CallInv, Found, Steps, Explained
      <3>2. Row(move[c].from, move[c].to, "STAFF") \in history'[x]
        BY <2>0, <2>6 DEF CommitMove, AccountsInv, TypeOK
      <3>3. move[c].to = "ACTIVE" => ByStaff(history'[x])
        BY <3>2 DEF Row
      <3> QED  BY <2>2, <2>6, <3>1, <3>3
    <2>7. CASE account'[x].verified = account[x].verified /\ account'[x].status = account[x].status
      BY <2>1, <2>2, <2>3, <2>7
    <2> QED  BY <1>1, <2>0, <2>4, <2>5, <2>6, <2>7, AccountFields
  <1>2. ASSUME UNCHANGED rows PROVE StatusExplained'
    BY <1>2 DEF rows, AccountsInv, StatusExplained
  <1>3. ASSUME NEW c \in Calls, Reads(c) PROVE UNCHANGED rows
    BY <1>3 DEF Reads, CheckAddress, RequestPasswordReset, PresentLink, OpenVerification,
                ReadClient, ReadClientToMove, Lose, rows
  <1>4. CASE Tick \/ UNCHANGED vars
    BY <1>2, <1>4 DEF Tick, vars, rows
  <1> QED  BY <1>1, <1>2, <1>3, <1>4, ThreeWays DEF StatusExplained

LEMMA AccountsInvariant == Spec => []AccountsInv
  <1>1. Init => AccountsInv
    BY AccountsInit
  <1>2. AccountsInv /\ [Next]_vars => AccountsInv'
    BY TypeNext, CallNext, LinkNext, StatusNext DEF AccountsInv
  <1> QED  BY <1>1, <1>2, PTL DEF Spec

\* Accounts, links and calls are well typed.
THEOREM TypeCorrect == Spec => []TypeOK
  <1>1. AccountsInv => TypeOK
    BY DEF AccountsInv
  <1> QED  BY <1>1, AccountsInvariant, PTL

\* A verified client is not left pending and an open one was verified or opened
\* by staff, whatever verifications and staff moves overlap (verifyClientEmail,
\* changeClientStatus).
THEOREM ClientStatusEarned == Spec => []StatusExplained
  <1>1. AccountsInv => StatusExplained
    BY DEF AccountsInv
  <1> QED  BY <1>1, AccountsInvariant, PTL

-----------------------------------------------------------------------------
(* Passwords and spent links *)

LEMMA ReadsQuietly == ASSUME NEW c \in Calls, Reads(c) PROVE UNCHANGED rows
  BY DEF Reads, CheckAddress, RequestPasswordReset, PresentLink, OpenVerification,
         ReadClient, ReadClientToMove, Lose, rows

\* A call takes one step at a time.
LEMMA OneStep ==
  ASSUME NEW c \in Calls
  PROVE  /\ CommitVerification(c) => ~SetPassword(c) /\ ~CreateToken(c) /\ ~MailLink(c)
                                    /\ ~InsertAccount(c) /\ ~CommitMove(c)
         /\ SetPassword(c) => ~CreateToken(c) /\ ~MailLink(c) /\ ~InsertAccount(c)
                             /\ ~CommitMove(c)
  BY DEF CommitVerification, SetPassword, CreateToken, MailLink, InsertAccount, CommitMove

\* A call that has taken a link up may spend it on its own account only.
LEMMA Presented ==
  ASSUME AccountsInv, NEW c \in Calls, CommitVerification(c) \/ SetPassword(c)
  PROVE  /\ presents[c] \in Calls /\ target[c] \in Addresses /\ Exists(target[c])
         /\ link[presents[c]].to = target[c] /\ link[presents[c]].mailed
         /\ CommitVerification(c) => link[presents[c]].kind = "verify"
         /\ SetPassword(c) => link[presents[c]].kind \in {"invite", "reset"}
  <1>1. pc[c] \in {"activate", "confirm", "setPassword"} /\ Found(c)
    BY DEF CommitVerification, SetPassword, AccountsInv, CallInv
  <1>2. presents[c] \in Calls
    BY <1>1 DEF Found, Presenting
  <1>3. link[presents[c]].kind \in {"none", "verify", "invite", "reset"}
    BY <1>2 DEF AccountsInv, TypeOK, LinkRows
  <1>4. CommitVerification(c) => pc[c] # "setPassword"
    BY DEF CommitVerification
  <1>5. SetPassword(c) => pc[c] = "setPassword"
    BY DEF SetPassword
  <1> QED  BY <1>1, <1>2, <1>3, <1>4, <1>5 DEF Found, Presenting, Steps

PasswordOwned(x) ==
  LET p == account[x].password IN
  /\ x \in Colleagues => p # "typed"
  /\ p \in Calls => /\ link[p].to = x /\ link[p].kind \in {"invite", "reset"}
                    /\ link[p].mailed /\ link[p].used

LEMMA PasswordStep ==
  ASSUME AccountsInv, NEW c \in Calls, Writes(c), NEW x \in Addresses, PasswordOwned(x)
  PROVE  PasswordOwned(x)'
  <1>1. CASE InsertAccount(c) /\ account'[x] = NewAccount(x)
    BY <1>1, AccountsAssumption DEF NewAccount, PasswordOwned
  <1>2. CASE SetPassword(c) /\ target[c] = x /\ account'[x].password = presents[c]
    <2> DEFINE p == presents[c]
    <2>1. p \in Calls /\ link[p].to = x /\ link[p].mailed /\ link[p].kind \in {"invite", "reset"}
      BY <1>2, Presented
    <2>2. link'[p].to = x /\ link'[p].mailed /\ link'[p].kind \in {"invite", "reset"}
      BY <2>1, WritesGrow DEF Grows
    <2>3. link'[p].used
      BY <1>2, <2>1, LinkFields, OneStep
    <2>4. p # "typed"
      BY <2>1, AccountsAssumption
    <2> QED  BY <1>2, <2>1, <2>2, <2>3, <2>4 DEF PasswordOwned
  <1>3. CASE account'[x].password = account[x].password
    BY <1>3, WritesGrow DEF PasswordOwned, Grows
  <1> QED  BY <1>1, <1>2, <1>3, AccountFields

\* Every password was typed at registration or set with a link mailed to that
\* account for it, for any number of links and users of them at once
\* (setClientPassword, setStaffPassword).
THEOREM PasswordsOwned == Spec => []PasswordFromOwnLink
  <1>1. PasswordFromOwnLink <=> \A x \in Addresses : PasswordOwned(x)
    BY DEF PasswordFromOwnLink, PasswordOwned
  <1>2. ASSUME Init PROVE PasswordFromOwnLink
    BY <1>2, AccountsAssumption DEF Init, NoAccount, PasswordFromOwnLink
  <1>3. ASSUME AccountsInv, PasswordFromOwnLink, [Next]_vars PROVE PasswordFromOwnLink'
    <2>1. ASSUME NEW c \in Calls, Writes(c) PROVE \A x \in Addresses : PasswordOwned(x)'
      BY <1>1, <1>3, <2>1, PasswordStep
    <2>2. ASSUME UNCHANGED rows PROVE PasswordFromOwnLink'
      BY <1>3, <2>2 DEF rows, PasswordFromOwnLink
    <2>3. Tick \/ UNCHANGED vars => UNCHANGED rows
      BY DEF Tick, vars, rows
    <2>4. (\A x \in Addresses : PasswordOwned(x)') => PasswordFromOwnLink'
      BY DEF PasswordFromOwnLink, PasswordOwned
    <2> QED  BY <1>3, <2>1, <2>2, <2>3, <2>4, ThreeWays, ReadsQuietly
  <1> QED  BY <1>2, <1>3, AccountsInvariant, PTL DEF Spec

\* A verification link of an account that has been used.
VerifySpent(l, x) == link[l].kind = "verify" /\ link[l].to = x /\ link[l].used

\* The only step that uses one is the commit that verifies the account.
LEMMA VerifySpentStep ==
  ASSUME AccountsInv, NEW c \in Calls, Writes(c), NEW l \in Calls, NEW x \in Addresses
  PROVE  VerifySpent(l, x)' <=>
           \/ VerifySpent(l, x)
           \/ CommitVerification(c) /\ l = presents[c] /\ target[c] = x
  <1>1. CASE CommitVerification(c)
    <2>1. /\ link[presents[c]].kind = "verify" /\ link[presents[c]].to = target[c]
          /\ presents[c] \in Calls
      BY <1>1, Presented
    <2>2. VerifySpent(l, x)' <=> link'[l].kind = "verify" /\ link'[l].to = x /\ link'[l].used
      BY DEF VerifySpent
    <2>3. CASE l = presents[c]
      BY <1>1, <2>1, <2>2, <2>3, CommitVerificationFields DEF VerifySpent
    <2>4. CASE l # presents[c]
      BY <1>1, <2>2, <2>4, CommitVerificationFields DEF VerifySpent
    <2> QED  BY <2>3, <2>4
  <1>2. CASE SetPassword(c)
    <2>1. link[presents[c]].kind # "verify" /\ ~CommitVerification(c)
      BY <1>2, Presented, OneStep
    <2> QED  BY <1>2, <2>1, LinkFields, OneStep DEF VerifySpent
  <1>3. CASE ~CommitVerification(c) /\ ~SetPassword(c)
    <2>1. CreateToken(c) => ~link[c].used
      BY DEF CreateToken, AccountsInv, CallInv, Found, Unlinked, NoLink
    <2> QED  BY <1>3, <2>1, LinkFields DEF VerifySpent
  <1> QED  BY <1>1, <1>2, <1>3

\* A used link has had its effect and no effect comes without one: the two
\* writes of a verification or a password change are never torn apart
\* (verifyClientEmail, setClientPassword, setStaffPassword).
THEOREM NothingTorn == Spec => []SpentIffEffective
  <1> DEFINE Verified(x) == account[x].verified <=> \E l \in Calls : VerifySpent(l, x)
             Set(l) == link[l].kind \in {"invite", "reset"} /\ link[l].used =>
                         account[link[l].to].password \in Calls
  <1>1. SpentIffEffective <=> (\A x \in Addresses : Verified(x)) /\ (\A l \in Calls : Set(l))
    BY DEF SpentIffEffective, VerifySpent
  <1>2. ASSUME Init PROVE SpentIffEffective
    BY <1>2 DEF Init, SpentIffEffective, NoLink, NoAccount
  <1>3. ASSUME AccountsInv, SpentIffEffective, NEW c \in Calls, Writes(c)
        PROVE  SpentIffEffective'
    <2>1. ASSUME NEW x \in Addresses PROVE Verified(x)'
      <3>1. Verified(x)
        BY <1>1, <1>3
      <3>2. \A l \in Calls : VerifySpent(l, x)' <=>
              VerifySpent(l, x) \/ (CommitVerification(c) /\ l = presents[c] /\ target[c] = x)
        BY <1>3, VerifySpentStep DEF VerifySpent
      <3>3. CASE InsertAccount(c) /\ ~Exists(x) /\ account'[x] = NewAccount(x)
        <4>1. ~account'[x].verified
          BY <3>3 DEF NewAccount
        <4>2. \A l \in Calls : ~VerifySpent(l, x)
          BY <1>3, <3>3 DEF AccountsInv, LinkInv, VerifySpent
        <4>3. ~CommitVerification(c)
          BY <3>3 DEF InsertAccount, CommitVerification
        <4> QED  BY <3>2, <4>1, <4>2, <4>3
      <3>4. CASE CommitVerification(c) /\ target[c] = x
        BY <1>3, <3>2, <3>4, CommitVerificationFields
      <3>5. CASE ~(CommitVerification(c) /\ target[c] = x)
                   /\ account'[x].verified = account[x].verified
        BY <3>1, <3>2, <3>5
      <3>6. ~CommitVerification(c) \/ ~(SetPassword(c) \/ CommitMove(c))
        BY DEF CommitVerification, SetPassword, CommitMove
      <3> QED  BY <1>3, <3>3, <3>4, <3>5, <3>6, AccountFields
    <2>2. ASSUME NEW l \in Calls, link'[l].kind \in {"invite", "reset"}, link'[l].used
          PROVE  account'[link'[l].to].password \in Calls
      <3>1. CASE SetPassword(c) /\ l = presents[c]
        <4>1. l \in Calls /\ link'[l].to = target[c] /\ target[c] \in Addresses
          BY <1>3, <3>1, Presented, WritesGrow DEF Grows
        <4>2. account'[target[c]].password = l
          BY <1>3, <3>1, <4>1 DEF SetPassword, AccountsInv, TypeOK, AccountRows
        <4> QED  BY <4>1, <4>2
      <3>2. CASE ~(SetPassword(c) /\ l = presents[c])
        <4>1. link[l].kind \in {"invite", "reset"} /\ link[l].used /\ link'[l].to = link[l].to
          <5>1. CommitVerification(c) => link[presents[c]].kind = "verify"
            BY <1>3, Presented
          <5> QED  BY <1>3, <2>2, <3>2, <5>1, LinkFields
        <4>2. account[link[l].to].password \in Calls
          BY <1>1, <1>3, <4>1
        <4>3. link[l].to \in Addresses /\ Exists(link[l].to)
          BY <1>3, <4>1 DEF AccountsInv, LinkInv
        <4>4. SetPassword(c) => presents[c] \in Calls
          BY <1>3, Presented
        <4>5. account'[link[l].to].password \in {account[link[l].to].password, presents[c]}
                /\ (account'[link[l].to].password # account[link[l].to].password => SetPassword(c))
          BY <1>3, <4>3, AccountFields
        <4> QED  BY <4>1, <4>2, <4>4, <4>5
      <3> QED  BY <3>1, <3>2
    <2> QED  BY <2>1, <2>2 DEF SpentIffEffective, VerifySpent
  <1>4. ASSUME SpentIffEffective, UNCHANGED rows PROVE SpentIffEffective'
    BY <1>4 DEF rows, SpentIffEffective
  <1>5. Tick \/ UNCHANGED vars => UNCHANGED rows
    BY DEF Tick, vars, rows
  <1>6. AccountsInv /\ SpentIffEffective /\ [Next]_vars => SpentIffEffective'
    BY <1>3, <1>4, <1>5, ThreeWays, ReadsQuietly
  <1> QED  BY <1>2, <1>6, AccountsInvariant, PTL DEF Spec

-----------------------------------------------------------------------------
(* Welcomes *)

\* The call that created an account, or the link it sent.
Creator(c, x) ==
  \/ target[c] = x /\ pc[c] \in {"issueVerify", "issueInvite"}
  \/ Welcomes(c, x)

\* An account has one creator, and no address has one without an account.
WelcomeInv ==
  \A x \in Addresses, c, d \in Calls :
    /\ Creator(c, x) => Exists(x)
    /\ Creator(c, x) /\ Creator(d, x) => c = d

\* A call becomes a creator only by an insert.
LEMMA CreatorStep ==
  ASSUME AccountsInv, [Next]_vars, NEW c \in Calls, NEW x \in Addresses, Creator(c, x)'
  PROVE  Creator(c, x) \/ (InsertAccount(c) /\ target[c] = x /\ ~Exists(x))
  <1> USE DEF Goto, End, Begin, rows, local
  <1>1. CASE Reads(c)
    BY <1>1 DEF AccountsInv, TypeOK, Reads, CheckAddress, RequestPasswordReset, PresentLink,
                OpenVerification, ReadClient, ReadClientToMove, Lose, Creator, Welcomes, PageOf
  <1>2. CASE Writes(c)
    <2>1. CASE InsertAccount(c)
      BY <2>1 DEF AccountsInv, TypeOK, InsertAccount, Taken, Creator, Welcomes
    <2>2. CASE CreateToken(c)
      <3>1. /\ pc'[c] = "mail" /\ link'[c].to = target[c] /\ link'[c].kind = KindOf(pc[c])
            /\ pc[c] \in {"issueVerify", "issueInvite", "issueReset"}
        BY <2>2 DEF AccountsInv, TypeOK, CreateToken
      <3> QED  BY <3>1 DEF KindOf, Creator, Welcomes
    <2>3. CASE ~InsertAccount(c) /\ ~CreateToken(c)
      <3>1. link'[c].kind = link[c].kind /\ link'[c].to = link[c].to
        BY <1>2, <2>3, LinkFields
      <3>2. pc'[c] = "over"
        BY <1>2, <2>3
        DEF AccountsInv, TypeOK, Writes, MailLink, CommitVerification, SetPassword, CommitMove,
            updateProfileAction, RefuseForm, updateClientProfile
      <3> QED  BY <3>1, <3>2 DEF Creator, Welcomes
    <2> QED  BY <2>1, <2>2, <2>3
  <1>3. ASSUME NEW d \in Calls, d # c, Reads(d) \/ Writes(d) PROVE Creator(c, x)
    <2>1. /\ pc'[c] = pc[c] /\ target'[c] = target[c]
          /\ link[c].kind = "none" => link'[c] = link[c]
      BY <1>3, Frame
    <2>2. link[c].kind # "none" => link'[c].kind = link[c].kind /\ link'[c].to = link[c].to
      BY <1>3, ReadsQuietly, QuietGrow, WritesGrow DEF Grows
    <2> QED  BY <2>1, <2>2 DEF Creator, Welcomes
  <1>4. CASE Tick \/ UNCHANGED vars
    BY <1>4 DEF Tick, vars, Creator, Welcomes
  <1> QED  BY <1>1, <1>2, <1>3, <1>4, ThreeWays

LEMMA StepGrows == ASSUME AccountsInv, [Next]_vars PROVE Grows
  <1>1. Tick \/ UNCHANGED vars => UNCHANGED rows
    BY DEF Tick, vars, rows
  <1> QED  BY <1>1, ThreeWays, ReadsQuietly, QuietGrow, WritesGrow

LEMMA WelcomeNext == ASSUME AccountsInv, WelcomeInv, [Next]_vars PROVE WelcomeInv'
  <1>1. ASSUME NEW x \in Addresses, NEW c \in Calls, Creator(c, x)' PROVE Exists(x)'
    <2>1. CASE Exists(x)
      BY <2>1, StepGrows DEF Grows
    <2>2. CASE InsertAccount(c) /\ target[c] = x /\ ~Exists(x)
      BY <2>2 DEF InsertAccount, Taken, NewAccount, Exists, AccountsInv, TypeOK
    <2> QED  BY <1>1, <2>1, <2>2, CreatorStep DEF WelcomeInv
  <1>2. ASSUME NEW x \in Addresses, NEW c \in Calls, NEW d \in Calls,
               Creator(c, x)', Creator(d, x)'
        PROVE  c = d
    <2>1. ASSUME NEW e \in Calls, NEW f \in Calls, e # f, InsertAccount(e) PROVE ~InsertAccount(f)
      BY <2>1 DEF InsertAccount, Goto, End, AccountsInv, TypeOK
    <2> QED  BY <1>2, <2>1, CreatorStep DEF WelcomeInv
  <1> QED  BY <1>1, <1>2 DEF WelcomeInv

\* However many registrations or invitations give one address at once, one
\* creates the account and one link welcomes its owner (registerClient,
\* createStaffUser, the unique indexes on tenant and address).
THEOREM WelcomedOnce == Spec => []OneWelcome
  <1>1. ASSUME Init PROVE WelcomeInv
    BY <1>1 DEF Init, WelcomeInv, Creator, Welcomes, NoLink
  <1>2. WelcomeInv => OneWelcome
    BY DEF WelcomeInv, Creator, OneWelcome
  <1>3. AccountsInv /\ WelcomeInv /\ [Next]_vars => WelcomeInv'
    BY WelcomeNext
  <1> QED  BY <1>1, <1>2, <1>3, AccountsInvariant, PTL DEF Spec

\* What stands for a mail that did not go out.
Trouble(c, x) ==
  /\ target[c] = x
  /\ \/ pc[c] \in {"issueVerify", "issueInvite", "lost"}
     \/ pc[c] = "mail" /\ Welcomes(c, x)

Served(x) ==
  \/ \E l \in Calls : Welcomes(l, x) /\ link[l].mailed
  \/ \E c \in Calls : Trouble(c, x)

ServedInv == \A x \in Addresses : Exists(x) => Served(x)

\* Trouble stays, or ends with the mail.
LEMMA TroubleStep ==
  ASSUME AccountsInv, [Next]_vars, NEW c \in Calls, NEW x \in Addresses, Trouble(c, x)
  PROVE  Trouble(c, x)' \/ (Welcomes(c, x)' /\ link'[c].mailed)
  <1> USE DEF Goto, rows, local
  <1>1. CASE Reads(c)
    BY <1>1 DEF AccountsInv, TypeOK, Reads, CheckAddress, RequestPasswordReset, PresentLink,
                OpenVerification, ReadClient, ReadClientToMove, Lose, Trouble, Resting
  <1>2. CASE Writes(c)
    <2>1. CreateToken(c) \/ MailLink(c)
      BY <1>2 DEF Trouble, Writes, InsertAccount, CommitVerification, SetPassword, CommitMove,
                  updateProfileAction, RefuseForm
    <2>2. CASE CreateToken(c)
      <3>1. /\ pc'[c] = "mail" /\ target'[c] = target[c] /\ link'[c].to = target[c]
            /\ link'[c].kind = KindOf(pc[c])
        BY <2>2 DEF AccountsInv, TypeOK, CreateToken
      <3> QED  BY <2>2, <3>1 DEF CreateToken, KindOf, Trouble, Welcomes
    <2>3. CASE MailLink(c)
      <3>1. Welcomes(c, x)
        BY <2>3 DEF MailLink, Trouble
      <3>2. link'[c].kind = link[c].kind /\ link'[c].to = link[c].to /\ link'[c].mailed
        BY <2>3 DEF MailLink, AccountsInv, TypeOK, LinkRows
      <3> QED  BY <3>1, <3>2 DEF Welcomes
    <2> QED  BY <2>1, <2>2, <2>3
  <1>3. ASSUME NEW d \in Calls, d # c, Reads(d) \/ Writes(d) PROVE Trouble(c, x)'
    <2>1. pc'[c] = pc[c] /\ target'[c] = target[c]
      BY <1>3, Frame
    <2>2. Welcomes(c, x) => Welcomes(c, x)'
      BY StepGrows DEF Welcomes, Grows
    <2> QED  BY <2>1, <2>2 DEF Trouble
  <1>4. CASE Tick \/ UNCHANGED vars
    BY <1>4 DEF Tick, vars, Trouble, Welcomes
  <1> QED  BY <1>1, <1>2, <1>3, <1>4, ThreeWays

LEMMA ServedNext == ASSUME AccountsInv, ServedInv, [Next]_vars PROVE ServedInv'
  <1>1. ASSUME NEW x \in Addresses, Served(x) PROVE Served(x)'
    <2>1. ASSUME NEW l \in Calls, Welcomes(l, x), link[l].mailed
          PROVE  Welcomes(l, x)' /\ link'[l].mailed
      BY <2>1, StepGrows DEF Welcomes, Grows
    <2>2. CASE \E l \in Calls : Welcomes(l, x) /\ link[l].mailed
      BY <2>1, <2>2 DEF Served, Welcomes
    <2>3. ASSUME NEW c \in Calls, Trouble(c, x) PROVE Served(x)'
      BY <2>3, TroubleStep DEF Served, Welcomes, Trouble
    <2> QED  BY <1>1, <2>2, <2>3 DEF Served
  <1>2. ASSUME NEW x \in Addresses, ~Exists(x), Exists(x)' PROVE Served(x)'
    <2>1. PICK c \in Calls : Writes(c)
      <3>1. UNCHANGED rows => account' = account
        BY DEF rows
      <3>2. Tick \/ UNCHANGED vars => UNCHANGED rows
        BY DEF Tick, vars, rows
      <3> QED  BY <1>2, <3>1, <3>2, ThreeWays, ReadsQuietly DEF Exists
    <2>2. InsertAccount(c) /\ target[c] = x
      <3>1. ASSUME CommitVerification(c) \/ SetPassword(c) \/ CommitMove(c)
            PROVE  Exists(target[c])
        BY <3>1 DEF CommitVerification, SetPassword, CommitMove, AccountsInv, CallInv, Found, Steps
      <3> QED  BY <1>2, <2>1, <3>1, AccountFields DEF Exists
    <2>3. pc'[c] \in {"issueVerify", "issueInvite"} /\ target'[c] = x
      BY <1>2, <2>2 DEF InsertAccount, Taken, Goto, local, AccountsInv, TypeOK
    <2> QED  BY <2>3 DEF Served, Trouble
  <1> QED  BY <1>1, <1>2 DEF ServedInv

\* An account whose owner was never sent a link goes back to a call that is
\* still at it or was lost on the way (registerClient, createStaffUser).
THEOREM NobodyForgotten == Spec => []LinkOrTrouble
  <1>1. ASSUME Init PROVE ServedInv
    BY <1>1 DEF Init, ServedInv, Exists, NoAccount
  <1>2. ServedInv => LinkOrTrouble
    BY DEF ServedInv, Served, Trouble, LinkOrTrouble
  <1>3. AccountsInv /\ ServedInv /\ [Next]_vars => ServedInv'
    BY ServedNext
  <1> QED  BY <1>1, <1>2, <1>3, AccountsInvariant, PTL DEF Spec

-----------------------------------------------------------------------------
(* Closing *)

LEMMA ClosedStep ==
  ASSUME AccountsInv, [Next]_vars, NEW x \in Customers,
         account[x].status = "CLOSED", Settled(x)
  PROVE  account'[x].status = "CLOSED" /\ Settled(x)'
  <1>0. x \in Addresses /\ Exists(x)
    BY DEF Addresses, Exists
  <1>1. ASSUME NEW c \in Calls, Writes(c) PROVE account'[x].status = "CLOSED"
    <2>1. ~(InsertAccount(c) /\ target[c] = x /\ ~Exists(x)) /\ ~(CommitMove(c) /\ target[c] = x)
      BY <1>0 DEF CommitMove, Settled
    <2>2. CommitVerification(c) /\ target[c] = x => pc[c] # "activate"
      BY DEF Settled
    <2> QED  BY <1>0, <1>1, <2>1, <2>2, AccountFields
  <1>2. ASSUME NEW c \in Calls, Reads(c) \/ Writes(c), pc'[c] \in {"activate", "moveClient"}
        PROVE  target'[c] # x
    <2> USE DEF Goto, End, Begin, rows, local
    <2>1. \A to : ~IsValidClientTransition("CLOSED", to)
      BY DEF IsValidClientTransition, CLIENT_TRANSITIONS, ClientStatuses
    <2>2. CASE ReadClient(c)
      BY <1>2, <2>1, <2>2 DEF ReadClient, AccountsInv, TypeOK
    <2>3. CASE ReadClientToMove(c)
      BY <1>2, <2>1, <2>3 DEF ReadClientToMove, AccountsInv, TypeOK
    <2>4. CASE ~ReadClient(c) /\ ~ReadClientToMove(c)
      BY <1>2, <2>4
      DEF AccountsInv, TypeOK, Reads, Writes, CheckAddress, RequestPasswordReset, PresentLink,
          PageOf, OpenVerification, Lose, InsertAccount, CreateToken, MailLink,
          CommitVerification, SetPassword, CommitMove, updateProfileAction, RefuseForm,
          updateClientProfile
    <2> QED  BY <2>2, <2>3, <2>4
  <1>3. ASSUME NEW c \in Calls, Reads(c) \/ Writes(c) PROVE Settled(x)'
    <2>1. ASSUME NEW d \in Calls \ {c} PROVE pc'[d] = pc[d] /\ target'[d] = target[d]
      BY <1>3, Frame
    <2> QED  BY <1>2, <1>3, <2>1 DEF Settled
  <1>4. CASE Tick \/ UNCHANGED vars
    BY <1>4 DEF Tick, vars, rows, local, Settled
  <1>5. UNCHANGED rows => account'[x].status = "CLOSED"
    BY DEF rows
  <1> QED  BY <1>1, <1>3, <1>4, <1>5, ThreeWays, ReadsQuietly DEF Tick

\* Once no call is about to write a status it read before, a closed client
\* stays closed (changeClientStatus, transitionClientStatus).
THEOREM ClosedStaysClosed == Spec => ClosedForGood
  <1>1. AccountsInv /\ [Next]_vars =>
          [\A x \in Customers :
             account[x].status = "CLOSED" /\ Settled(x)
               => account'[x].status = "CLOSED" /\ Settled(x)']_vars
    BY ClosedStep
  <1> QED  BY <1>1, AccountsInvariant, PTL DEF Spec, ClosedForGood

-----------------------------------------------------------------------------
(* What overlapping uses of a link may do *)

Activating == {"readClient", "activate"}
Verifying  == Activating \cup {"confirm"}

\* Verifications of one address take turns, and a client that one of them has
\* activated is not pending, nor about to be activated again.
VerifyInv ==
  /\ \A c, d \in Calls :
       pc[c] \in Verifying /\ pc[d] \in Verifying /\ target[c] = target[d] => c = d
  /\ \A x \in Addresses : Activated(x) =>
       /\ Exists(x) /\ account[x].status # "PENDING_VERIFICATION"
       /\ \A c \in Calls : pc[c] \in Activating => target[c] # x

\* A step other than the commit of an activation activates nobody.
LEMMA OthersActivateNobody ==
  ASSUME AccountsInv, VerifyInv, NEW c \in Calls, Writes(c), NEW x \in Addresses, Activated(x)',
         ~(pc[c] = "activate" /\ CommitVerification(c) /\ target[c] = x)
  PROVE  Activated(x)
  <1>1. PICK h \in history'[x] : h.by = "CLIENT_CONTACT" /\ h.to = "ACTIVE"
    BY DEF Activated
  <1>2. CASE InsertAccount(c)
    BY <1>1, <1>2 DEF InsertAccount, Activated, Row, AccountsInv, TypeOK
  <1>3. CASE CommitMove(c)
    BY <1>1, <1>3 DEF CommitMove, Activated, Row, AccountsInv, TypeOK
  <1>4. CASE CommitVerification(c)
    BY <1>1, <1>4 DEF CommitVerification, Activated, AccountsInv, TypeOK
  <1>5. CASE ~InsertAccount(c) /\ ~CommitMove(c) /\ ~CommitVerification(c)
    <2>1. history' = history
      BY <1>5 DEF Writes, Lose, CreateToken, MailLink, SetPassword, updateProfileAction, RefuseForm,
                  updateClientProfile, rows, local, Goto, End
    <2> QED  BY <1>1, <2>1 DEF Activated
  <1> QED  BY <1>2, <1>3, <1>4, <1>5

\* Verifying begins by waiting for the others to end, and activating by
\* finding the client pending.
LEMMA BeginsAlone ==
  ASSUME AccountsInv, NEW c \in Calls, Reads(c) \/ Writes(c), pc'[c] \in Verifying
  PROVE  /\ UNCHANGED rows /\ target'[c] = target[c]
         /\ pc[c] \in Verifying \/ (pc[c] = "verify" /\ ~Held(target[c]))
         /\ pc'[c] \in Activating =>
              pc[c] \in Activating \/ account[target[c]].status = "PENDING_VERIFICATION"
  <1> USE DEF Goto, End, Begin, rows, local, Verifying, Activating
  <1>1. CASE OpenVerification(c)
    BY <1>1 DEF OpenVerification, AccountsInv, TypeOK
  <1>2. CASE ReadClient(c)
    BY <1>2 DEF ReadClient, AccountsInv, TypeOK
  <1>3. CASE ~OpenVerification(c) /\ ~ReadClient(c)
    BY <1>3 DEF AccountsInv, TypeOK, Reads, Writes, CheckAddress, RequestPasswordReset,
      PresentLink, PageOf, ReadClientToMove, Lose, InsertAccount, CreateToken, MailLink,
      CommitVerification, SetPassword, CommitMove, updateProfileAction, RefuseForm,
          updateClientProfile
  <1> QED  BY <1>1, <1>2, <1>3

LEMMA VerifyNext == ASSUME AccountsInv, VerifyInv, [Next]_vars PROVE VerifyInv'
  <1>1. ASSUME NEW c \in Calls, Reads(c) \/ Writes(c) PROVE VerifyInv'
    <2>1. \A d \in Calls \ {c} : pc'[d] = pc[d] /\ target'[d] = target[d]
      BY <1>1, Frame
    <2>2. pc'[c] \in Verifying =>
            /\ UNCHANGED rows /\ target'[c] = target[c]
            /\ pc[c] \in Verifying \/ ~Held(target[c])
            /\ pc'[c] \in Activating =>
                 pc[c] \in Activating \/ account[target[c]].status = "PENDING_VERIFICATION"
      BY <1>1, BeginsAlone
    <2>3. ASSUME NEW d \in Calls \ {c}, pc'[c] \in Verifying, pc'[d] \in Verifying,
                 target'[c] = target'[d]
          PROVE  FALSE
      BY <2>1, <2>2, <2>3 DEF VerifyInv, Held, Verifying, Activating
    <2>4. Grows
      BY <1>1, ReadsQuietly, QuietGrow, WritesGrow
    <2>5. ASSUME NEW x \in Addresses, Activated(x)
          PROVE  /\ Exists(x)' /\ account'[x].status # "PENDING_VERIFICATION"
                 /\ \A d \in Calls : pc'[d] \in Activating => target'[d] # x
      <3>1. Exists(x)' /\ account'[x].status # "PENDING_VERIFICATION"
        BY <2>4, <2>5 DEF VerifyInv, Grows
      <3>2. pc'[c] \in Activating => target'[c] # x
        BY <2>2, <2>5 DEF VerifyInv, Verifying
      <3>3. \A d \in Calls \ {c} : pc'[d] \in Activating => target'[d] # x
        BY <2>1, <2>5 DEF VerifyInv
      <3> QED  BY <3>1, <3>2, <3>3
    <2>6. ASSUME NEW x \in Addresses, pc[c] = "activate", CommitVerification(c), target[c] = x
          PROVE  /\ Exists(x)' /\ account'[x].status # "PENDING_VERIFICATION"
                 /\ \A d \in Calls : pc'[d] \in Activating => target'[d] # x
      <3>1. account'[x].status = "ACTIVE" /\ pc'[c] = "over"
        <4>1. account'[x].status = "ACTIVE"
          BY <2>6, CommitVerificationFields
        <4>2. pc'[c] = "over"
          BY <2>6 DEF CommitVerification, End, Goto, AccountsInv, TypeOK
        <4> QED  BY <4>1, <4>2
      <3>2. \A d \in Calls \ {c} : pc[d] \in Verifying => target[d] # x
        BY <2>6 DEF VerifyInv, Verifying, Activating
      <3> QED  BY <2>1, <3>1, <3>2 DEF Exists, Verifying, Activating
    <2>7. ASSUME NEW x \in Addresses, Activated(x)'
          PROVE  Activated(x) \/ (pc[c] = "activate" /\ CommitVerification(c) /\ target[c] = x)
      <3>1. CASE Reads(c)
        BY <2>7, <3>1, ReadsQuietly DEF rows, Activated
      <3> QED  BY <1>1, <2>7, <3>1, OthersActivateNobody
    <2>8. \A d, e \in Calls :
            pc'[d] \in Verifying /\ pc'[e] \in Verifying /\ target'[d] = target'[e] => d = e
      BY <2>1, <2>3 DEF VerifyInv
    <2> QED  BY <2>5, <2>6, <2>7, <2>8 DEF VerifyInv
  <1>2. CASE Tick \/ UNCHANGED vars
    BY <1>2 DEF Tick, vars, rows, local, VerifyInv, Activated, Exists
  <1> QED  BY <1>1, <1>2, ThreeWays

\* One use of its links activates a client, however many overlap: those that
\* waited for the contact's row find the client no longer pending, and nothing
\* makes it pending again (verifyClientEmail, transitionClientStatus).
THEOREM VerifiedOnce == Spec => ActivatedOnce
  <1>1. Init => VerifyInv
    BY DEF Init, VerifyInv, Activated, Verifying, Activating
  <1>2. AccountsInv /\ VerifyInv /\ [Next]_vars => VerifyInv'
    BY VerifyNext
  <1>3. AccountsInv /\ VerifyInv /\ [Next]_vars =>
          [\A c \in Calls :
             pc[c] = "activate" /\ CommitVerification(c) => ~Activated(target[c])]_vars
    BY Presented DEF VerifyInv, Activating
  <1> QED  BY <1>1, <1>2, <1>3, AccountsInvariant, PTL DEF Spec, ActivatedOnce

\* Nobody is about to use a link that has been consumed.
UnspentInv == \A c \in Calls : presents[c] # None => presents[c] \in Calls /\ ~link[presents[c]].used

LEMMA UnspentNext ==
  ASSUME AccountsInv, OneBearer, UnspentInv, [Next]_vars PROVE UnspentInv'
  <1> USE DEF UnspentInv, Goto, End, Begin, rows, local
  <1>1. None \notin Calls
    BY AccountsAssumption
  <1>2. ASSUME UNCHANGED link,
               \A c \in Calls : presents'[c] \in {presents[c], None}
        PROVE  UnspentInv'
    BY <1>2
  <1>3. ASSUME NEW c \in Calls, Reads(c) PROVE UnspentInv'
    <2>1. link' = link
      BY <1>3, ReadsQuietly
    <2>2. ASSUME NEW l \in Calls, PresentLink(c, l), Good(l) PROVE UnspentInv'
      <3>1. ~link[l].used /\ presents' = [presents EXCEPT ![c] = l]
        BY <2>2 DEF PresentLink, Good
      <3> QED  BY <2>1, <3>1 DEF AccountsInv, TypeOK
    <2>3. \/ presents' = presents \/ presents' = [presents EXCEPT ![c] = None]
          \/ \E l \in Calls : PresentLink(c, l) /\ Good(l)
      BY <1>3 DEF Reads, CheckAddress, RequestPasswordReset, PresentLink, OpenVerification,
                  ReadClient, ReadClientToMove, Lose
    <2> QED  BY <1>2, <2>1, <2>2, <2>3 DEF AccountsInv, TypeOK
  <1>4. ASSUME NEW c \in Calls, CommitVerification(c) \/ SetPassword(c) PROVE UnspentInv'
    <2>1. /\ presents[c] \in Calls
          /\ link' = [link EXCEPT ![presents[c]].used = TRUE]
          /\ presents' = [presents EXCEPT ![c] = None]
      BY <1>4, Presented DEF CommitVerification, SetPassword
    <2>2. \A d \in Calls \ {c} : presents[d] # presents[c]
      BY <1>1, <2>1 DEF OneBearer
    <2> QED  BY <1>1, <2>1, <2>2 DEF AccountsInv, TypeOK
  <1>5. ASSUME NEW c \in Calls, Writes(c), ~CommitVerification(c), ~SetPassword(c)
        PROVE  UnspentInv'
    <2>1. \A l \in Calls : link'[l].used = link[l].used \/ link'[l].used = FALSE
      BY <1>5 DEF Writes, InsertAccount, CreateToken, MailLink, CommitMove, updateProfileAction,
                  RefuseForm,
                  updateClientProfile, AccountsInv, TypeOK, LinkRows
    <2>2. presents' = presents \/ presents' = [presents EXCEPT ![c] = None]
      BY <1>5 DEF Writes, InsertAccount, CreateToken, MailLink, CommitMove, updateProfileAction,
                  RefuseForm
    <2> QED  BY <2>1, <2>2 DEF AccountsInv, TypeOK
  <1>6. CASE Tick \/ UNCHANGED vars
    BY <1>2, <1>6 DEF Tick, vars
  <1> QED  BY <1>3, <1>4, <1>5, <1>6, ThreeWays

\* A link has its effect once, of whatever kind it is, if nobody takes it up
\* while somebody else is about to use it: overlapping uses, which the services
\* do not rule out, are all there is to SECURITY.md's single use.
THEOREM SingleUseInTurns == BearersSpec => SingleUse
  <1>1. BearersSpec => Spec
    BY PTL DEF BearersSpec, Spec
  <1>2. Init => UnspentInv /\ OneBearer
    BY DEF Init, UnspentInv, OneBearer
  <1>3. AccountsInv /\ UnspentInv /\ OneBearer /\ [Next /\ OneBearer']_vars
          => (UnspentInv /\ OneBearer)'
    <2> SUFFICES ASSUME AccountsInv, UnspentInv, OneBearer, [Next /\ OneBearer']_vars
                 PROVE  UnspentInv' /\ OneBearer'
      OBVIOUS
    <2>1. UnspentInv'
      BY UnspentNext
    <2>2. OneBearer'
      BY DEF OneBearer, vars
    <2> QED  BY <2>1, <2>2
  <1>4. UnspentInv => \A c, l \in Calls : link[l].used => ~Uses(c, l)
    BY AccountsAssumption DEF UnspentInv, Uses
  <1> QED  BY <1>1, <1>2, <1>3, <1>4, AccountsInvariant, PTL DEF BearersSpec, SingleUse
=============================================================================
