------------------------------ MODULE Accounts ------------------------------
(***************************************************************************)
(* What customers may do with the sessions PhoneLogin gives them: the      *)
(* guards every request passes (src/tenancy/auth/*.guard.ts), the profile  *)
(* (updateMe in src/tenancy/tenancy.controller.ts), and the users that the *)
(* reception creates (create-user.handler.ts), whose e-mails are unique in *)
(* the tenant with those of the customers.                                 *)
(***************************************************************************)
EXTENDS PhoneLogin

CONSTANT Emails  \* e-mails of the customers' own

VARIABLE anonymous  \* users whom the guards have let through while they had no
                    \* name, to a handler that demands which roles

vars == <<phoneVars, anonymous>>

AccountsInit == Init /\ anonymous = {}

-----------------------------------------------------------------------------
(* Guards: decisions about one request, from the roles in its token        *)

StaffRoles == {"owner", "ta", "staff", "receptionist", "tenant_admin", "platform_admin"}

IsCustomerOnly(roles) == "customer" \in roles /\ roles \cap StaffRoles = {}

\* Only a customer's name is looked up; staff, and users without a role, pass.
ProfileCompleteGuard(roles, u) == IsCustomerOnly(roles) => users[u].named

RolesGuard(required, roles) == required = {} \/ required \cap roles # {}

\* A request to any handler but the two for the profile.
Pass(required) ==
  /\ \E l \in Links : \E n \in DOMAIN sessions[l] :
       LET s == sessions[l][n] IN
       /\ ProfileCompleteGuard(s.roles, s.user)
       /\ RolesGuard(required, s.roles)
       /\ anonymous' = anonymous \cup
            (IF users[s.user].named THEN {} ELSE {[user |-> s.user, required |-> required]})
  /\ UNCHANGED phoneVars

-----------------------------------------------------------------------------
(* updateMe, which incomplete profiles may call                            *)

Unchanged == "unchanged"

\* Up to the query for the new e-mail: 409 if another user has it.  A name of
\* blanks unsets the name, which the database allows users who sign in by phone.
ReadMe(h, l, name, email) ==
  /\ sessions[l] # <<>>
  /\ email # Unchanged => WithEmail(email) \subseteq {sessions[l][1].user}
  /\ Begin(h, [op |-> "me", user |-> sessions[l][1].user, name |-> name, email |-> email])
  /\ UNCHANGED anonymous

\* The flush: the unique key refuses an e-mail that was taken meanwhile.
WriteMe(h) ==
  LET u == txn[h].user
      e == IF txn[h].email = Unchanged THEN users[u].email ELSE txn[h].email
  IN
  /\ txn[h].op = "me"
  /\ WithEmail(e) \subseteq {u}
  /\ users' = [users EXCEPT ![u].email = e,
                           ![u].named = IF txn[h].name = Unchanged THEN @ ELSE txn[h].name = "set"]
  /\ Continue(h, Idle)
  /\ UNCHANGED <<limit, link, sessions, sent, creators, anonymous>>

-----------------------------------------------------------------------------
(* CreateUserHandler: a customer entered by the staff, with an e-mail, a   *)
(* name and a password that nobody is told                                 *)

ReadNewUser(h, e) ==
  /\ WithEmail(e) = {}
  /\ Begin(h, [op |-> "new", email |-> e])
  /\ UNCHANGED anonymous

InsertNewUser(h) ==
  LET e == txn[h].email IN
  /\ txn[h].op = "new"
  /\ WithEmail(e) = {}
  /\ users' = Append(users, [email |-> e, named |-> TRUE, roles |-> {"customer"}])
  /\ Continue(h, Idle)
  /\ UNCHANGED <<limit, link, sessions, sent, creators, anonymous>>

-----------------------------------------------------------------------------
Next ==
  \/ PhoneNext /\ UNCHANGED anonymous
  \/ \E required \in {{}, {"owner", "ta"}} : Pass(required)
  \/ \E h \in Requests :
       \/ \E l \in Links, name \in {Unchanged, "set", "unset"}, e \in Emails \cup {Unchanged} :
            ReadMe(h, l, name, e)
       \/ WriteMe(h)
       \/ \E e \in Emails : ReadNewUser(h, e)
       \/ InsertNewUser(h)

Spec == AccountsInit /\ [][Next]_vars

-----------------------------------------------------------------------------
\* Tables keep their types; the roles in a token are no more than its user's.
TypeOK ==
  /\ limit \in [Phones -> [count : 0..MaxAttempts, over : BOOLEAN]]
  /\ \A l \in Links : link[l] = NoLink \/
       link[l] \in [state : {"sent", "consumed"}, phone : Phones, expired : BOOLEAN]
  /\ users \in Seq([email : Phones \cup Emails, named : BOOLEAN, roles : SUBSET {"customer"}])
  /\ \A l \in Links : \A n \in DOMAIN sessions[l] :
       /\ sessions[l][n].user \in DOMAIN users
       /\ sessions[l][n].roles \subseteq users[sessions[l][n].user].roles
  /\ sent \in [Phones -> Nat]

\* "blocks customer-only users from performing any action until they have set
\* a name" (profile-complete.guard.ts:31-32): when requests do not overlap, who
\* gets past the guards without a name is a user whose creation broke off
\* before its role was inserted, and it gets to no handler of the staff's.
NamelessHaveNoRole ==
  \A a \in anonymous : users[a.user].roles = {} /\ a.required = {}
=============================================================================
