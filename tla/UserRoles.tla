-------------------------------- MODULE UserRoles --------------------------------
(***************************************************************************)
(* The staff accounts and their roles, as the super admins edit them.      *)
(* Every request is authorized once, when it begins.  An update is a       *)
(* transaction behind the lock of the user's row, whose guard asks for     *)
(* the other super admins outside of it; a deletion is two statements on   *)
(* their own; what comes between them is another request.                  *)
(*                                                                         *)
(* Of the roles there is one that is never limited to hostels and one that *)
(* may be.  An update asks for what the form sends: roles, and the hostels *)
(* of each role that may have some, none meaning all.                      *)
(***************************************************************************)
EXTENDS Naturals

CONSTANTS
  Users,    \* staff, by the id of their row
  Root,     \* the super admin the system was set up with
  Hostels,
  Requests  \* requests that change an account and are under way together

ASSUME UsersAssumption == Root \in Users /\ "ALL" \notin Hostels

VARIABLES
  account,  \* users: is there a row, or was there one; is it active
  roles,    \* user_roles: pairs of a role and a hostel, or "ALL"
  request,  \* each request: its step, its user, what it asks for
  asked,    \* history: what was last asked for each user
  widened,  \* history: the users whose last update took a role from hostels
            \* to all of them
  raced     \* history: a super admin's role went after another one's had
            \* gone that the guard had seen

vars == <<account, roles, request, asked, widened, raced>>

Super == "SUPER_ADMIN"
Scopable == {"ADMIN"}
Roles == {Super} \cup Scopable
Rows == Roles \X (Hostels \cup {"ALL"})

Inputs ==
  {input \in [roles : SUBSET Roles, hostels : SUBSET Hostels] :
     input.roles # {} /\ (input.hostels # {} => input.roles \cap Scopable # {})}

\* The form's switch is chosen where it is written: nothing reads it before.
Active == {"active", "inactive"}

NoInput == [roles |-> {}, hostels |-> {}]

\* clean: no super admin has lost the role since this request was allowed to
\* take it from another.
Idle == [pc |-> "idle", user |-> Root, input |-> NoInput, clean |-> TRUE]

Init ==
  /\ account = [u \in Users |-> IF u = Root THEN "active" ELSE "absent"]
  /\ roles = [u \in Users |-> IF u = Root THEN {<<Super, "ALL">>} ELSE {}]
  /\ request = [q \in Requests |-> Idle]
  /\ asked = roles /\ widened = {} /\ raced = FALSE

IsSuper(u) == \E row \in roles[u] : row[1] = Super

\* requireAuth and requireAnyRole at the head of every route.
Authorized(actor) == account[actor] = "active" /\ IsSuper(actor)

Present(u) == account[u] \in Active

\* The row of u is locked by a transaction that is past its first update.
Locked(u) == \E q \in Requests : request[q].pc = "checked" /\ request[q].user = u

-----------------------------------------------------------------------------
\* The roles of an input that get a row for all hostels, and the rows of the
\* others.
Unlimited(input) ==
  IF input.hostels = {} THEN input.roles ELSE input.roles \ Scopable

Limited(input) == (input.roles \cap Scopable) \X input.hostels

Asked(input) == (Unlimited(input) \X {"ALL"}) \cup Limited(input)

\* Slip: roles with hostels are not left out.
ReplaceAllRoles(rows, input) ==
  LET kept == {row \in rows : row[1] \in input.roles} IN
  kept \cup ((input.roles \ {row[1] : row \in kept}) \X {"ALL"})

\* replaceRoles: drops the other roles, adds those without any row.
ReplaceRoles(rows, input) ==
  LET kept == {row \in rows : row[1] \in Unlimited(input)} IN
  kept \cup ((Unlimited(input) \ {row[1] : row \in kept}) \X {"ALL"})

\* replaceRoleScopes, for each role the input may limit.
ReplaceScopes(rows, input) ==
  {row \in rows : row[2] = "ALL" \/ row[1] \notin input.roles \cap Scopable}
    \cup Limited(input)

\* When q takes the role from a super admin, what the others have seen is out
\* of date.
Outdated(r) ==
  [q \in Requests |-> IF r[q].pc \in {"idle", "updating"} THEN r[q]
                      ELSE [r[q] EXCEPT !.clean = FALSE]]

Take(q, after) ==
  IF IsSuper(request[q].user)
  THEN /\ request' = Outdated(after)
       /\ raced' = (raced \/ ~request[q].clean)
  ELSE request' = after /\ UNCHANGED raced

-----------------------------------------------------------------------------
\* createUser: one transaction.
CreateUser(u, input, active) ==
  /\ account[u] = "absent" /\ (\E actor \in Users : Authorized(actor))
  /\ account' = [account EXCEPT ![u] = active]
  /\ roles' = [roles EXCEPT ![u] = Asked(input)]
  /\ asked' = [asked EXCEPT ![u] = Asked(input)] /\ widened' = widened \ {u}
  /\ UNCHANGED <<request, raced>>

\* getCurrentUser: somebody unknown signs in and gets an account without roles.
FirstSignIn(u) ==
  /\ account[u] = "absent"
  /\ account' = [account EXCEPT ![u] = "active"]
  /\ UNCHANGED <<roles, request, asked, widened, raced>>

\* deactivateUser, of oneself too.
Deactivate(u) ==
  /\ account[u] = "active" /\ ~Locked(u) /\ (\E actor \in Users : Authorized(actor))
  /\ account' = [account EXCEPT ![u] = "inactive"]
  /\ UNCHANGED <<roles, request, asked, widened, raced>>

-----------------------------------------------------------------------------
\* updateUser: the user is there, before the transaction.
BeginUpdate(q, u, input) ==
  /\ request[q].pc = "idle" /\ (\E actor \in Users : Authorized(actor))
  /\ Present(u)
  /\ request' = [request EXCEPT ![q] = [Idle EXCEPT !.pc = "updating", !.user = u,
                                                    !.input = input]]
  /\ UNCHANGED <<account, roles, asked, widened, raced>>

\* Slip: the user himself counts as another super admin.
OtherThanNone(u) == \E v \in Users : IsSuper(v)

OtherThan(u) == \E v \in Users : v # u /\ IsSuper(v)

\* "Guard: never remove the last super admin (would lock everyone out)."
Allowed(u, input) ==
  Super \notin input.roles /\ IsSuper(u) => OtherThan(u)

\* The first update waits for the lock of the row; then the guard.
CheckUpdate(q) ==
  LET u == request[q].user IN
  /\ request[q].pc = "updating" /\ ~Locked(u)
  /\ request' = [request EXCEPT ![q] =
       IF Present(u) /\ Allowed(u, @.input)
       THEN [@ EXCEPT !.pc = "checked", !.clean = TRUE] ELSE Idle]
  /\ UNCHANGED <<account, roles, asked, widened, raced>>

\* The rows are replaced and the transaction commits.
CommitUpdate(q, active) ==
  LET u == request[q].user
      input == request[q].input
      limited == {row \in roles[u] : row[1] \in input.roles \cap Scopable}
      done == [request EXCEPT ![q] = Idle]
  IN
  /\ request[q].pc = "checked"
  /\ account' = [account EXCEPT ![u] = active]
  /\ roles' = [roles EXCEPT ![u] = ReplaceScopes(ReplaceRoles(@, input), input)]
  /\ asked' = [asked EXCEPT ![u] = Asked(input)]
  /\ widened' = IF input.hostels = {} /\ limited # {} /\ (\A row \in limited : row[2] # "ALL")
                THEN widened \cup {u} ELSE widened \ {u}
  /\ IF Super \in input.roles THEN request' = done /\ UNCHANGED raced ELSE Take(q, done)

\* deleteUser: not oneself, and only staff.
BeginDelete(q, u, actor) ==
  /\ request[q].pc = "idle" /\ Authorized(actor) /\ actor # u
  /\ Present(u)
  /\ request' = [request EXCEPT ![q] = [Idle EXCEPT !.pc = "deleting", !.user = u]]
  /\ UNCHANGED <<account, roles, asked, widened, raced>>

DeleteRoles(q) ==
  LET u == request[q].user IN
  /\ request[q].pc = "deleting"
  /\ roles' = [roles EXCEPT ![u] = {}]
  /\ asked' = [asked EXCEPT ![u] = {}] /\ widened' = widened \ {u}
  /\ Take(q, [request EXCEPT ![q].pc = "stripped"])
  /\ UNCHANGED account

\* The row goes with what roles were given to it meanwhile.
DeleteRow(q) ==
  LET u == request[q].user IN
  /\ request[q].pc = "stripped" /\ ~Locked(u)
  /\ account' = [account EXCEPT ![u] = "gone"]
  /\ roles' = [roles EXCEPT ![u] = {}]
  /\ asked' = [asked EXCEPT ![u] = {}] /\ widened' = widened \ {u}
  /\ Take(q, [request EXCEPT ![q] = Idle])

\* A statement fails or the request dies; a transaction is rolled back.
RequestDies(q) ==
  /\ request[q].pc # "idle"
  /\ request' = [request EXCEPT ![q] = Idle]
  /\ UNCHANGED <<account, roles, asked, widened, raced>>

Next ==
  \/ \E u \in Users : FirstSignIn(u) \/ Deactivate(u)
  \/ \E u \in Users, input \in Inputs, active \in Active : CreateUser(u, input, active)
  \/ \E q \in Requests, u \in Users, input \in Inputs : BeginUpdate(q, u, input)
  \/ \E q \in Requests, u, actor \in Users : BeginDelete(q, u, actor)
  \/ \E q \in Requests : \/ CheckUpdate(q) \/ DeleteRoles(q) \/ DeleteRow(q)
                         \/ RequestDies(q)
  \/ \E q \in Requests, active \in Active : CommitUpdate(q, active)

Spec == Init /\ [][Next]_vars

-----------------------------------------------------------------------------
TypeOK ==
  /\ account \in [Users -> {"absent", "active", "inactive", "gone"}]
  /\ roles \in [Users -> SUBSET Rows] /\ asked \in [Users -> SUBSET Rows]
  /\ request \in [Requests ->
       [pc : {"idle", "updating", "checked", "deleting", "stripped"}, user : Users,
        input : Inputs \cup {NoInput}, clean : BOOLEAN]]
  /\ widened \subseteq Users /\ raced \in BOOLEAN

\* "Guard: never remove the last super admin (would lock everyone out)"
\* (update-user.service.ts:50): there always is one, through updates and
\* deletions in any order, unless two of them were allowed to take the role
\* from two super admins before either had done so.
SuperAdminRemains == raced \/ \E u \in Users : IsSuper(u)

\* "Empty hostelIds means all hostels" (update-user.service.ts:63): everybody
\* has the roles, for the hostels, that were last asked for him, except that a
\* role whose hostels were taken away to make it a role for all is lost.
RolesAsAsked ==
  \A u \in Users :
    roles[u] = asked[u] \ (IF u \in widened THEN Scopable \X {"ALL"} ELSE {})
=================================================================================
