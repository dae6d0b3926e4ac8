------------------------------- MODULE AdminProofs -------------------------------
(***************************************************************************)
(* Proofs about what the staff administer.                                 *)
(*                                                                         *)
(* The accounts, for any number of people, hostels and requests at a time: *)
(* that a super admin remains, and that everybody has the roles that were  *)
(* asked for him.                                                          *)
(*                                                                         *)
(* The configuration, for any number of editors, submissions and editions: *)
(* that a leave refers to versions that record what it ran under, and that *)
(* the last version is the edition in force.                               *)
(***************************************************************************)
EXTENDS UserRoles, ConfigVersions, TLAPS

USE UsersAssumption

(* Requests that are past the guard hold different rows, of users who are  *)
(* there.                                                                  *)
RowsHeld ==
  \A q \in Requests : request[q].pc = "checked" =>
    /\ Present(request[q].user)
    /\ \A r \in Requests \ {q} :
         request[r].pc = "checked" => request[r].user # request[q].user

(* A request that may take the role from a super admin knows of another    *)
(* one, unless one has lost the role since it was allowed to.              *)
Knows(q) ==
  request[q].clean =>
    /\ request[q].pc \in {"deleting", "stripped"} => OtherThan(request[q].user)
    /\ request[q].pc = "checked" /\ Super \notin request[q].input.roles
         /\ IsSuper(request[q].user) => OtherThan(request[q].user)

KnowAnother == \A q \in Requests : Knows(q)

(* What the unlimited role and a limited one look like in the table.       *)
Shape(rows) ==
  /\ \A row \in rows : row[1] = Super => row[2] = "ALL"
  /\ \A row, other \in rows : row[1] = other[1] /\ row[2] = "ALL" => other[2] = "ALL"

Shapes == \A u \in Users : Shape(roles[u])

(* Nobody has a role before he has an account.                             *)
Unborn == \A u \in Users : account[u] = "absent" => roles[u] = {}

IInv ==
  /\ TypeOK /\ RowsHeld /\ KnowAnother /\ Shapes /\ Unborn
  /\ SuperAdminRemains /\ RolesAsAsked

-----------------------------------------------------------------------------
(* The rows of an input.                                                   *)
LEMMA AskedRows ==
  ASSUME NEW input \in Inputs \cup {NoInput}
  PROVE  /\ Asked(input) \in SUBSET Rows /\ Shape(Asked(input))
         /\ Super \in input.roles <=> \E row \in Asked(input) : row[1] = Super
<1>1. input.roles \subseteq {Super, "ADMIN"} /\ input.hostels \subseteq Hostels
      /\ Scopable = {"ADMIN"} /\ Super = "SUPER_ADMIN"
  BY DEF Inputs, NoInput, Roles, Scopable, Super
<1>2. ASSUME NEW row \in Asked(input)
      PROVE  /\ row[1] \in input.roles /\ row \in Rows
             /\ row[2] = "ALL" => row[1] = Super \/ input.hostels = {}
             /\ row[2] # "ALL" => row[1] = "ADMIN" /\ input.hostels # {}
  BY <1>1 DEF Asked, Unlimited, Limited, Rows, Roles
<1>3. ASSUME Super \in input.roles PROVE <<Super, "ALL">> \in Asked(input)
  BY <1>1, <1>3 DEF Asked, Unlimited
<1>4. Shape(Asked(input))
  <2>1. \A row, other \in Asked(input) :
          row[1] = other[1] /\ row[2] = "ALL" => other[2] = "ALL"
    BY <1>1, <1>2
  <2>2. \A row \in Asked(input) : row[1] = Super => row[2] = "ALL"
    BY <1>1, <1>2
  <2>. QED
    BY <2>1, <2>2 DEF Shape
<1>5. Super \in input.roles <=> \E row \in Asked(input) : row[1] = Super
  BY <1>2, <1>3
<1>. QED
  BY <1>2, <1>4, <1>5

(* What the two replacements leave: the rows of the input, but for a role  *)
(* that was limited before and is asked for without hostels.               *)
LEMMA Replaced ==
  ASSUME NEW input \in Inputs \cup {NoInput}, NEW rows \in SUBSET Rows, Shape(rows)
  PROVE  LET limited == {row \in rows : row[1] \in input.roles \cap Scopable}
             lost == input.hostels = {} /\ limited # {} /\ \A row \in limited : row[2] # "ALL"
         IN  ReplaceScopes(ReplaceRoles(rows, input), input)
               = Asked(input) \ (IF lost THEN Scopable \X {"ALL"} ELSE {})
<1>. DEFINE limited == {row \in rows : row[1] \in input.roles \cap Scopable}
            lost == input.hostels = {} /\ limited # {} /\ \A row \in limited : row[2] # "ALL"
            after == ReplaceScopes(ReplaceRoles(rows, input), input)
            want == Asked(input) \ (IF lost THEN Scopable \X {"ALL"} ELSE {})
<1>1. input.roles \subseteq {Super, "ADMIN"} /\ input.hostels \subseteq Hostels
      /\ Scopable = {"ADMIN"} /\ Super = "SUPER_ADMIN"
      /\ (input.hostels # {} => "ADMIN" \in input.roles)
  BY DEF Inputs, NoInput, Roles, Scopable, Super
<1>2. after \subseteq Rows /\ want \subseteq Rows
  <2>1. ReplaceRoles(rows, input) \subseteq Rows
    BY <1>1 DEF ReplaceRoles, Unlimited, Rows, Roles
  <2>. QED
    BY <1>1, <2>1, AskedRows DEF ReplaceScopes, Limited, Rows, Roles
<1>3. ASSUME NEW r \in Roles, NEW h \in Hostels \cup {"ALL"}
      PROVE  <<r, h>> \in after <=> <<r, h>> \in want
  <2>1. CASE r = Super
    BY <1>1, <2>1 DEF ReplaceScopes, ReplaceRoles, Asked, Unlimited, Limited, Shape, Rows
  <2>2. CASE r = "ADMIN" /\ input.hostels = {}
    BY <1>1, <2>2 DEF ReplaceScopes, ReplaceRoles, Asked, Unlimited, Limited, Shape, Rows
  <2>3. CASE r = "ADMIN" /\ input.hostels # {}
    BY <1>1, <2>3 DEF ReplaceScopes, ReplaceRoles, Asked, Unlimited, Limited, Shape, Rows
  <2>. QED
    BY <2>1, <2>2, <2>3 DEF Roles, Scopable
<1>4. ASSUME NEW row \in Rows
      PROVE  row \in after <=> row \in want
  <2>1. PICK r \in Roles, h \in Hostels \cup {"ALL"} : row = <<r, h>>
    BY DEF Rows
  <2>. QED
    BY <2>1, <1>3
<1>5. after = want
  BY <1>2, <1>4
<1>. QED
  BY <1>5

-----------------------------------------------------------------------------
RequestRows ==
  [pc : {"idle", "updating", "checked", "deleting", "stripped"}, user : Users,
   input : Inputs \cup {NoInput}, clean : BOOLEAN]

LEMMA IdleRow == Idle \in RequestRows
BY DEF Idle, RequestRows

LEMMA RequestFields ==
  ASSUME TypeOK, NEW q \in Requests
  PROVE  /\ request[q] \in RequestRows
         /\ request[q].user \in Users /\ request[q].input \in Inputs \cup {NoInput}
         /\ request[q].clean \in BOOLEAN
BY DEF TypeOK, RequestRows

(* Whatever takes a role leaves the rows of the requests as they are, but  *)
(* for what the requests know.                                             *)
LEMMA OutdatedRows ==
  ASSUME NEW r \in [Requests -> RequestRows]
  PROVE  /\ Outdated(r) \in [Requests -> RequestRows]
         /\ \A q \in Requests :
              /\ Outdated(r)[q].pc = r[q].pc /\ Outdated(r)[q].user = r[q].user
              /\ Outdated(r)[q].input = r[q].input
              /\ Outdated(r)[q].clean => r[q].pc \in {"idle", "updating"}
<1>1. ASSUME NEW q \in Requests
      PROVE  /\ Outdated(r)[q] \in RequestRows
             /\ Outdated(r)[q].pc = r[q].pc /\ Outdated(r)[q].user = r[q].user
             /\ Outdated(r)[q].input = r[q].input
             /\ Outdated(r)[q].clean => r[q].pc \in {"idle", "updating"}
  <2>1. r[q] \in RequestRows
    OBVIOUS
  <2>2. Outdated(r)[q] = IF r[q].pc \in {"idle", "updating"} THEN r[q]
                         ELSE [r[q] EXCEPT !.clean = FALSE]
    BY DEF Outdated
  <2>3. CASE r[q].pc \in {"idle", "updating"}
    BY <2>1, <2>2, <2>3
  <2>4. CASE r[q].pc \notin {"idle", "updating"}
    BY <2>1, <2>2, <2>4 DEF RequestRows
  <2>. QED
    BY <2>3, <2>4
<1>2. DOMAIN Outdated(r) = Requests /\ Outdated(r) = [q \in Requests |-> Outdated(r)[q]]
  BY DEF Outdated
<1>. QED
  BY <1>1, <1>2

LEMMA TakeRows ==
  ASSUME NEW q \in Requests, NEW after \in [Requests -> RequestRows], Take(q, after)
  PROVE  /\ request' \in [Requests -> RequestRows]
         /\ \A r \in Requests : /\ request'[r].pc = after[r].pc
                                /\ request'[r].user = after[r].user
                                /\ request'[r].input = after[r].input
BY OutdatedRows DEF Take

(* Which users are super admins when the rows of one of them change.       *)
LEMMA OneChanges ==
  ASSUME TypeOK, NEW u \in Users, NEW rows \in SUBSET Rows, roles' = [roles EXCEPT ![u] = rows]
  PROVE  /\ roles' \in [Users -> SUBSET Rows] /\ roles'[u] = rows
         /\ \A v \in Users \ {u} : roles'[v] = roles[v] /\ (IsSuper(v)' <=> IsSuper(v))
         /\ IsSuper(u)' <=> \E row \in rows : row[1] = Super
BY DEF TypeOK, IsSuper

(* The rows of one user change and nobody stops being a super admin; no    *)
(* request past its guard is about him, unless it has just ended.          *)
LEMMA NobodyLoses ==
  ASSUME IInv, NEW u \in Users, NEW rows \in SUBSET Rows, roles' = [roles EXCEPT ![u] = rows],
         IsSuper(u) => \E row \in rows : row[1] = Super,
         NEW ended \in SUBSET Requests, request' \in [Requests -> RequestRows],
         \A r \in Requests \ ended : request'[r] = request[r],
         \A r \in ended : request'[r].pc = "idle",
         \A r \in Requests \ ended : request[r].pc = "checked" => request[r].user # u,
         UNCHANGED raced
  PROVE  KnowAnother' /\ SuperAdminRemains'
<1>. USE DEF IInv
<1>1. \A v \in Users : IsSuper(v) => IsSuper(v)'
  BY OneChanges
<1>2. \A v \in Users : OtherThan(v) => OtherThan(v)'
  BY <1>1 DEF OtherThan
<1>3. SuperAdminRemains'
  BY <1>1 DEF SuperAdminRemains
<1>4. ASSUME NEW r \in Requests PROVE Knows(r)'
  <2>1. CASE r \in ended
    BY <2>1 DEF Knows
  <2>2. CASE r \notin ended
    <3>1. request'[r] = request[r] /\ Knows(r)
      BY <2>2 DEF KnowAnother
    <3>2. PICK v \in Users : v = request[r].user
      BY <2>2, RequestFields
    <3>3. request[r].pc = "checked" => (IsSuper(v)' <=> IsSuper(v))
      <4>1. request[r].pc = "checked" => v \in Users \ {u}
        BY <2>2, <3>2
      <4>. QED
        BY <4>1, OneChanges
    <3>4. Knows(r)' <=> (request[r].clean =>
            /\ request[r].pc \in {"deleting", "stripped"} => OtherThan(v)'
            /\ request[r].pc = "checked" /\ Super \notin request[r].input.roles
                 /\ IsSuper(v)' => OtherThan(v)')
      BY <3>1, <3>2 DEF Knows
    <3>5. Knows(r) <=> (request[r].clean =>
            /\ request[r].pc \in {"deleting", "stripped"} => OtherThan(v)
            /\ request[r].pc = "checked" /\ Super \notin request[r].input.roles
                 /\ IsSuper(v) => OtherThan(v))
      BY <3>2 DEF Knows
    <3>. QED
      BY <1>2, <3>1, <3>3, <3>4, <3>5
  <2>. QED
    BY <2>1, <2>2
<1>. QED
  BY <1>3, <1>4 DEF KnowAnother

(* A request takes the roles of its user: no longer a super admin, he may  *)
(* be the last only if the request did not know.                           *)
LEMMA TakeKeeps ==
  ASSUME IInv, NEW q \in Requests, NEW rows \in SUBSET Rows,
         ~ \E row \in rows : row[1] = Super,
         roles' = [roles EXCEPT ![request[q].user] = rows],
         NEW after \in [Requests -> RequestRows], Take(q, after),
         \A r \in Requests \ {q} : after[r] = request[r],
         \/ after[q].pc = "idle"
         \/ /\ request[q].pc = "deleting" /\ after[q].pc = "stripped"
            /\ after[q].user = request[q].user /\ after[q].clean = request[q].clean,
         \/ request[q].pc \in {"deleting", "stripped"}
         \/ request[q].pc = "checked" /\ Super \notin request[q].input.roles
  PROVE  KnowAnother' /\ SuperAdminRemains'
<1>. USE DEF IInv
<1>1. PICK u \in Users : u = request[q].user
  BY RequestFields
<1>2. roles' = [roles EXCEPT ![u] = rows]
  BY <1>1
<1>3. ~IsSuper(u)' /\ \A v \in Users \ {u} : IsSuper(v)' <=> IsSuper(v)
  <2>1. roles \in [Users -> SUBSET Rows]
    BY DEF TypeOK
  <2>2. roles'[u] = rows /\ \A v \in Users \ {u} : roles'[v] = roles[v]
    BY <1>2, <2>1
  <2>. QED
    BY <2>2 DEF IsSuper
<1>5. CASE IsSuper(u)
  <2>1. request' = Outdated(after) /\ raced' = (raced \/ ~request[q].clean)
    BY <1>1, <1>5 DEF Take
  <2>2. \A r \in Requests : request'[r].clean => request'[r].pc \in {"idle", "updating"}
    BY <2>1, OutdatedRows
  <2>3. KnowAnother'
    BY <2>2 DEF KnowAnother, Knows
  <2>4. request[q].clean => OtherThan(u)
    BY <1>1, <1>5 DEF KnowAnother, Knows
  <2>5. OtherThan(u) => \E w \in Users : IsSuper(w)'
    BY <1>3 DEF OtherThan
  <2>6. SuperAdminRemains'
    BY <2>1, <2>4, <2>5 DEF SuperAdminRemains
  <2>. QED
    BY <2>3, <2>6
<1>6. CASE ~IsSuper(u)
  <2>1. request' = after /\ UNCHANGED raced
    BY <1>1, <1>6 DEF Take
  <2>2. \A v \in Users : IsSuper(v)' <=> IsSuper(v)
    BY <1>3, <1>6
  <2>3. \A v \in Users : OtherThan(v)' <=> OtherThan(v)
    BY <2>2 DEF OtherThan
  <2>4. SuperAdminRemains'
    BY <2>1, <2>2 DEF SuperAdminRemains
  <2>5. ASSUME NEW r \in Requests PROVE Knows(r)'
    <3>1. PICK v \in Users : v = request[r].user
      BY RequestFields
    <3>2. CASE r # q
      <4>1. request'[r] = request[r] /\ Knows(r)
        BY <2>1, <3>2 DEF KnowAnother
      <4>2. Knows(r)' <=> (request[r].clean =>
              /\ request[r].pc \in {"deleting", "stripped"} => OtherThan(v)'
              /\ request[r].pc = "checked" /\ Super \notin request[r].input.roles
                   /\ IsSuper(v)' => OtherThan(v)')
        BY <3>1, <4>1 DEF Knows
      <4>. QED
        BY <2>2, <2>3, <3>1, <4>1, <4>2 DEF Knows
    <3>3. CASE r = q /\ after[q].pc = "idle"
      BY <2>1, <3>3 DEF Knows
    <3>4. CASE r = q /\ request[q].pc = "deleting" /\ after[q].pc = "stripped"
               /\ after[q].user = request[q].user /\ after[q].clean = request[q].clean
      <4>1. request'[q].user = v /\ request'[q].pc = "stripped"
            /\ request'[q].clean = request[q].clean
        BY <2>1, <3>1, <3>4
      <4>2. Knows(q) /\ (request[q].clean => OtherThan(v))
        BY <3>1, <3>4 DEF KnowAnother, Knows
      <4>3. Knows(q)' <=> (request[q].clean => OtherThan(v)')
        BY <4>1 DEF Knows
      <4>. QED
        BY <2>3, <3>4, <4>2, <4>3
    <3>. QED
      BY <3>2, <3>3, <3>4
  <2>. QED
    BY <2>4, <2>5 DEF KnowAnother
<1>. QED
  BY <1>5, <1>6

-----------------------------------------------------------------------------
(* Steps that change one account, or one request and nothing else.         *)
LEMMA OneAccount ==
  ASSUME IInv, NEW u \in Users, NEW status \in Active,
         account' = [account EXCEPT ![u] = status],
         UNCHANGED <<roles, request, asked, widened, raced>>
  PROVE  IInv'
<1>. USE DEF IInv
<1>1. account' \in [Users -> {"absent", "active", "inactive", "gone"}] /\ TypeOK'
  BY DEF TypeOK, Active
<1>2. \A v \in Users : (Present(v) => Present(v)') /\ (account'[v] = "absent" => account[v] = "absent")
  BY DEF TypeOK, Present, Active
<1>3. RowsHeld'
  BY <1>2, RequestFields DEF RowsHeld
<1>4. Unborn'
  BY <1>2 DEF Unborn
<1>5. KnowAnother' /\ Shapes' /\ SuperAdminRemains' /\ RolesAsAsked'
  BY DEF KnowAnother, Knows, OtherThan, IsSuper, Shapes, Shape, SuperAdminRemains, RolesAsAsked
<1>. QED
  BY <1>1, <1>3, <1>4, <1>5

LEMMA OneRequest ==
  ASSUME IInv, NEW q \in Requests, NEW row \in RequestRows,
         request' = [request EXCEPT ![q] = row],
         UNCHANGED <<account, roles, asked, widened, raced>>,
         row.pc # "stripped", row.pc = "deleting" => OtherThan(row.user),
         row.pc = "checked" => /\ Present(row.user) /\ ~Locked(row.user)
                               /\ Allowed(row.user, row.input)
  PROVE  IInv'
<1>. USE DEF IInv
<1>1. request \in [Requests -> RequestRows] /\ request' \in [Requests -> RequestRows]
      /\ request'[q] = row /\ \A r \in Requests \ {q} : request'[r] = request[r]
  BY DEF TypeOK, RequestRows
<1>2. TypeOK'
  BY <1>1 DEF TypeOK, RequestRows
<1>3. RowsHeld'
  <2>1. \A v : Present(v)' <=> Present(v)
    BY DEF Present
  <2>2. \A r \in Requests : row.pc = "checked" /\ request[r].pc = "checked"
          => request[r].user # row.user
    BY DEF Locked
  <2>. QED
    BY <1>1, <2>1, <2>2 DEF RowsHeld
<1>4. KnowAnother'
  <2>1. \A v : OtherThan(v)' <=> OtherThan(v)
    BY DEF OtherThan, IsSuper
  <2>2. \A v : IsSuper(v)' <=> IsSuper(v)
    BY DEF IsSuper
  <2>3. ASSUME NEW r \in Requests PROVE Knows(r)'
    <3>1. CASE r = q
      BY <1>1, <2>1, <2>2, <3>1 DEF Knows, Allowed
    <3>2. CASE r # q
      <4>1. request'[r] = request[r] /\ Knows(r)
        BY <1>1, <3>2 DEF KnowAnother
      <4>. QED
        BY <2>1, <2>2, <4>1 DEF Knows
    <3>. QED
      BY <3>1, <3>2
  <2>. QED
    BY <2>3 DEF KnowAnother
<1>5. Shapes' /\ Unborn' /\ SuperAdminRemains' /\ RolesAsAsked'
  BY DEF IsSuper, Shapes, Shape, Unborn, SuperAdminRemains, RolesAsAsked
<1>. QED
  BY <1>2, <1>3, <1>4, <1>5

(* What a change of somebody's rows keeps of the tables, when the rows are *)
(* the ones asked for.                                                     *)
TablesOK ==
  /\ account \in [Users -> {"absent", "active", "inactive", "gone"}]
  /\ roles \in [Users -> SUBSET Rows] /\ asked \in [Users -> SUBSET Rows]
  /\ widened \subseteq Users /\ Shapes /\ Unborn /\ RolesAsAsked

LEMMA RowsReplaced ==
  ASSUME IInv, NEW u \in Users, NEW rows \in SUBSET Rows, NEW wanted \in SUBSET Rows,
         NEW status \in {"absent", "active", "inactive", "gone"},
         account' = [account EXCEPT ![u] = status],
         roles' = [roles EXCEPT ![u] = rows], asked' = [asked EXCEPT ![u] = wanted],
         widened' = widened \cup {u} \/ widened' = widened \ {u},
         Shape(rows), status = "absent" => rows = {},
         rows = wanted \ (IF u \in widened' THEN Scopable \X {"ALL"} ELSE {})
  PROVE  TablesOK'
<1>. USE DEF IInv
<1>1. account' \in [Users -> {"absent", "active", "inactive", "gone"}]
      /\ roles' \in [Users -> SUBSET Rows] /\ asked' \in [Users -> SUBSET Rows]
      /\ widened' \subseteq Users
  BY DEF TypeOK
<1>2. /\ account'[u] = status /\ roles'[u] = rows /\ asked'[u] = wanted
      /\ \A v \in Users \ {u} : /\ account'[v] = account[v] /\ roles'[v] = roles[v]
                                /\ asked'[v] = asked[v]
                                /\ v \in widened' <=> v \in widened
  BY DEF TypeOK
<1>3. Shapes'
  <2>1. ASSUME NEW v \in Users PROVE Shape(roles'[v])
    BY <1>2 DEF Shapes
  <2>. QED
    BY <2>1 DEF Shapes, Shape
<1>4. Unborn'
  BY <1>2 DEF Unborn
<1>5. RolesAsAsked'
  BY <1>2 DEF RolesAsAsked
<1>. QED
  BY <1>1, <1>3, <1>4, <1>5 DEF TablesOK

-----------------------------------------------------------------------------
(* Each action keeps the invariant.                                        *)
LEMMA CreateUserKeeps ==
  ASSUME IInv, NEW u \in Users, NEW input \in Inputs, NEW active \in Active,
         CreateUser(u, input, active)
  PROVE  IInv'
<1>. USE DEF IInv
<1>1. Asked(input) \in SUBSET Rows /\ Shape(Asked(input))
  BY AskedRows
<1>2. roles[u] = {} /\ ~IsSuper(u) /\ ~Present(u)
  BY DEF CreateUser, Unborn, IsSuper, Present, Active
<1>3. TablesOK'
  <2>1. active \in {"absent", "active", "inactive", "gone"} /\ active # "absent"
    BY DEF Active
  <2>2. u \notin widened'
    BY DEF CreateUser
  <2>. QED
    BY <1>1, <2>1, <2>2, RowsReplaced DEF CreateUser
<1>4. request \in [Requests -> RequestRows] /\ raced \in BOOLEAN
      /\ request' = request /\ raced' = raced
  BY DEF TypeOK, RequestRows, CreateUser
<1>5. RowsHeld'
  <2>1. \A v \in Users : Present(v) => Present(v)'
    BY <1>2 DEF TypeOK, Present, CreateUser
  <2>. QED
    BY <2>1, <1>4, RequestFields DEF RowsHeld
<1>6. KnowAnother' /\ SuperAdminRemains'
  <2>1. \A r \in Requests : request[r].pc = "checked" => request[r].user # u
    BY <1>2 DEF RowsHeld
  <2>. QED
    BY <1>1, <1>2, <1>4, <2>1, NobodyLoses, {} \in SUBSET Requests DEF CreateUser
<1>. QED
  BY <1>3, <1>4, <1>5, <1>6 DEF TablesOK, TypeOK, RequestRows

LEMMA BeginUpdateKeeps ==
  ASSUME IInv, NEW q \in Requests, NEW u \in Users, NEW input \in Inputs,
         BeginUpdate(q, u, input)
  PROVE  IInv'
<1>. DEFINE row == [Idle EXCEPT !.pc = "updating", !.user = u, !.input = input]
<1>1. row \in RequestRows /\ row.pc = "updating"
  BY DEF Idle, RequestRows
<1>. QED
  BY <1>1, OneRequest DEF BeginUpdate

LEMMA CheckUpdateKeeps ==
  ASSUME IInv, NEW q \in Requests, CheckUpdate(q)
  PROVE  IInv'
<1>. DEFINE u == request[q].user
            passed == [request[q] EXCEPT !.pc = "checked", !.clean = TRUE]
<1>1. request[q] \in RequestRows /\ request \in [Requests -> RequestRows]
  BY RequestFields DEF IInv, TypeOK, RequestRows
<1>2. CASE Present(u) /\ Allowed(u, request[q].input)
  <2>1. passed \in RequestRows /\ passed.pc = "checked"
        /\ passed.user = u /\ passed.input = request[q].input
    BY <1>1 DEF RequestRows
  <2>2. request' = [request EXCEPT ![q] = passed]
    BY <1>2 DEF CheckUpdate
  <2>. QED
    BY <1>2, <2>1, <2>2, OneRequest DEF CheckUpdate
<1>3. CASE ~(Present(u) /\ Allowed(u, request[q].input))
  <2>1. request' = [request EXCEPT ![q] = Idle]
    BY <1>3 DEF CheckUpdate
  <2>2. Idle.pc = "idle"
    BY DEF Idle
  <2>. QED
    BY <2>1, <2>2, IdleRow, OneRequest DEF CheckUpdate
<1>. QED
  BY <1>2, <1>3

LEMMA BeginDeleteKeeps ==
  ASSUME IInv, NEW q \in Requests, NEW u \in Users, NEW actor \in Users,
         BeginDelete(q, u, actor)
  PROVE  IInv'
<1>. DEFINE row == [Idle EXCEPT !.pc = "deleting", !.user = u]
<1>1. row \in RequestRows /\ row.pc = "deleting" /\ row.user = u
  BY DEF Idle, RequestRows
<1>2. OtherThan(u)
  BY DEF BeginDelete, Authorized, OtherThan
<1>. QED
  BY <1>1, <1>2, OneRequest DEF BeginDelete

LEMMA RequestDiesKeeps ==
  ASSUME IInv, NEW q \in Requests, RequestDies(q)
  PROVE  IInv'
<1>1. Idle.pc = "idle"
  BY DEF Idle
<1>. QED
  BY <1>1, IdleRow, OneRequest DEF RequestDies

(* The transaction of an update: nobody else holds the row.                *)
LEMMA CommitUpdateKeeps ==
  ASSUME IInv, NEW q \in Requests, NEW active \in Active, CommitUpdate(q, active)
  PROVE  IInv'
<1>. USE DEF IInv
<1>. DEFINE u == request[q].user
            input == request[q].input
            limited == {row \in roles[u] : row[1] \in input.roles \cap Scopable}
            lost == input.hostels = {} /\ limited # {} /\ \A row \in limited : row[2] # "ALL"
            rows == ReplaceScopes(ReplaceRoles(roles[u], input), input)
            done == [request EXCEPT ![q] = Idle]
<1>1. u \in Users /\ input \in Inputs \cup {NoInput} /\ roles[u] \in SUBSET Rows
      /\ Shape(roles[u])
  BY RequestFields DEF TypeOK, Shapes
<1>2. rows = Asked(input) \ (IF lost THEN Scopable \X {"ALL"} ELSE {})
  BY <1>1, Replaced
<1>3. /\ rows \in SUBSET Rows /\ Asked(input) \in SUBSET Rows /\ Shape(rows)
      /\ Super \in input.roles <=> \E row \in rows : row[1] = Super
  <2>1. Asked(input) \in SUBSET Rows /\ Shape(Asked(input))
        /\ (Super \in input.roles <=> \E row \in Asked(input) : row[1] = Super)
    BY <1>1, AskedRows
  <2>2. \A row \in Scopable \X {"ALL"} : row[1] # Super
    BY DEF Scopable, Super
  <2>3. rows \subseteq Asked(input) /\ \A row \in Asked(input) : row[1] = Super => row \in rows
    BY <1>2, <2>2
  <2>4. Shape(rows)
    BY <2>1, <2>3 DEF Shape
  <2>. QED
    BY <2>1, <2>3, <2>4
<1>4. /\ account' = [account EXCEPT ![u] = active] /\ roles' = [roles EXCEPT ![u] = rows]
      /\ asked' = [asked EXCEPT ![u] = Asked(input)]
      /\ widened' = IF lost THEN widened \cup {u} ELSE widened \ {u}
      /\ request[q].pc = "checked"
      /\ IF Super \in input.roles THEN request' = done /\ UNCHANGED raced ELSE Take(q, done)
  <2>1. roles' = [roles EXCEPT ![u] = rows]
    BY <1>1 DEF CommitUpdate, TypeOK
  <2>. QED
    BY <2>1 DEF CommitUpdate
<1>5. TablesOK'
  <2>1. active \in {"absent", "active", "inactive", "gone"} /\ active # "absent"
    BY DEF Active
  <2>2. /\ widened' = widened \cup {u} \/ widened' = widened \ {u}
        /\ u \in widened' <=> lost
    BY <1>4
  <2>3. rows = Asked(input) \ (IF u \in widened' THEN Scopable \X {"ALL"} ELSE {})
    BY <1>2, <2>2
  <2>. HIDE DEF rows, lost
  <2>. QED
    BY <1>1, <1>3, <1>4, <2>1, <2>2, <2>3, RowsReplaced
<1>6. /\ done \in [Requests -> RequestRows] /\ done[q].pc = "idle"
      /\ \A r \in Requests \ {q} : done[r] = request[r]
  BY IdleRow DEF TypeOK, RequestRows, Idle
<1>7. /\ request' \in [Requests -> RequestRows] /\ raced' \in BOOLEAN
      /\ \A r \in Requests : request'[r].pc = done[r].pc /\ request'[r].user = done[r].user
  <2>1. CASE Super \in input.roles
    BY <1>4, <1>6, <2>1 DEF TypeOK
  <2>2. CASE Super \notin input.roles
    BY <1>4, <1>6, <2>2, TakeRows DEF TypeOK, Take
  <2>. QED
    BY <2>1, <2>2
<1>8. RowsHeld'
  <2>1. \A v \in Users : Present(v) => Present(v)'
    BY <1>1, <1>4 DEF TypeOK, Present
  <2>2. \A r \in Requests : request'[r].pc = "checked" =>
          r # q /\ request[r].pc = "checked" /\ request'[r].user = request[r].user
    BY <1>6, <1>7
  <2>. QED
    BY <2>1, <2>2, RequestFields DEF RowsHeld
<1>9. KnowAnother' /\ SuperAdminRemains'
  <2>1. CASE Super \in input.roles
    <3>1. \A r \in Requests \ {q} : request'[r] = request[r]
      BY <1>4, <1>6, <2>1
    <3>2. \A r \in Requests \ {q} : request[r].pc = "checked" => request[r].user # u
      BY <1>4 DEF RowsHeld
    <3>3. request'[q].pc = "idle" /\ UNCHANGED raced
      BY <1>4, <1>6, <2>1
    <3>4. \E row \in rows : row[1] = Super
      BY <1>3, <2>1
    <3>5. {q} \in SUBSET Requests /\ \A r \in {q} : request'[r].pc = "idle"
      BY <3>3
    <3>6. u \in Users /\ rows \in SUBSET Rows /\ roles' = [roles EXCEPT ![u] = rows]
          /\ request' \in [Requests -> RequestRows] /\ IInv
      BY <1>1, <1>3, <1>4, <1>7
    <3>. HIDE DEF rows, u, IInv
    <3>. QED
      BY <3>1, <3>2, <3>3, <3>4, <3>5, <3>6, NobodyLoses
  <2>2. CASE Super \notin input.roles
    <3>1. ~ \E row \in rows : row[1] = Super
      BY <1>3, <2>2
    <3>2. Take(q, done)
      BY <1>4, <2>2
    <3>. HIDE DEF rows, done
    <3>. QED
      BY <1>3, <1>4, <1>6, <2>2, <3>1, <3>2, TakeKeeps
  <2>. QED
    BY <2>1, <2>2
<1>. QED
  BY <1>5, <1>7, <1>8, <1>9 DEF TablesOK, TypeOK, RequestRows

(* The two statements of a deletion.                                       *)
LEMMA StrippedKeeps ==
  ASSUME IInv, NEW q \in Requests, NEW status \in {"absent", "active", "inactive", "gone"},
         NEW after \in [Requests -> RequestRows], Take(q, after),
         \A r \in Requests \ {q} : after[r] = request[r],
         \/ after[q].pc = "idle"
         \/ /\ request[q].pc = "deleting" /\ after[q].pc = "stripped"
            /\ after[q].user = request[q].user /\ after[q].clean = request[q].clean,
         request[q].pc \in {"deleting", "stripped"},
         status \in Active \/ status = account[request[q].user] \/ ~Locked(request[q].user),
         account' = [account EXCEPT ![request[q].user] = status],
         roles' = [roles EXCEPT ![request[q].user] = {}],
         asked' = [asked EXCEPT ![request[q].user] = {}],
         widened' = widened \ {request[q].user}
  PROVE  IInv'
<1>. USE DEF IInv
<1>. DEFINE u == request[q].user
<1>1. u \in Users
  BY RequestFields
<1>2. TablesOK'
  <2>1. Shape({})
    BY DEF Shape
  <2>. QED
    BY <1>1, <2>1, RowsReplaced, {} \in SUBSET Rows
<1>3. /\ request' \in [Requests -> RequestRows] /\ raced' \in BOOLEAN
      /\ \A r \in Requests : request'[r].pc = after[r].pc /\ request'[r].user = after[r].user
  BY TakeRows DEF Take, TypeOK
<1>4. RowsHeld'
  <2>1. \A r \in Requests : request'[r].pc = "checked" =>
          r # q /\ request[r].pc = "checked" /\ request'[r].user = request[r].user
    BY <1>3
  <2>2. ASSUME NEW r \in Requests, request[r].pc = "checked"
        PROVE  account'[request[r].user] \in Active
    <3>1. PICK v \in Users : v = request[r].user
      BY RequestFields
    <3>2. account[v] \in Active /\ (v = u => Locked(u))
      BY <2>2, <3>1 DEF RowsHeld, Present, Locked
    <3>3. account'[v] = IF v = u THEN status ELSE account[v]
      BY <1>1 DEF TypeOK
    <3>. QED
      BY <3>1, <3>2, <3>3
  <2>. QED
    BY <2>1, <2>2 DEF RowsHeld, Present
<1>5. KnowAnother' /\ SuperAdminRemains'
  BY TakeKeeps, {} \in SUBSET Rows
<1>. QED
  BY <1>2, <1>3, <1>4, <1>5 DEF TablesOK, TypeOK, RequestRows

LEMMA DeleteRolesKeeps ==
  ASSUME IInv, NEW q \in Requests, DeleteRoles(q)
  PROVE  IInv'
<1>. DEFINE u == request[q].user
            after == [request EXCEPT ![q].pc = "stripped"]
<1>1. /\ request \in [Requests -> RequestRows] /\ u \in Users
      /\ account \in [Users -> {"absent", "active", "inactive", "gone"}]
  BY RequestFields DEF IInv, TypeOK, RequestRows
<1>2. /\ after \in [Requests -> RequestRows] /\ after[q].pc = "stripped"
      /\ after[q].user = request[q].user /\ after[q].clean = request[q].clean
      /\ \A r \in Requests \ {q} : after[r] = request[r]
  BY <1>1 DEF RequestRows
<1>3. account' = [account EXCEPT ![u] = account[u]]
      /\ account[u] \in {"absent", "active", "inactive", "gone"}
  BY <1>1 DEF DeleteRoles
<1>4. Take(q, after) /\ request[q].pc = "deleting"
      /\ roles' = [roles EXCEPT ![u] = {}] /\ asked' = [asked EXCEPT ![u] = {}]
      /\ widened' = widened \ {u}
  BY DEF DeleteRoles
<1>. HIDE DEF after
<1>. QED
  BY <1>2, <1>3, <1>4, StrippedKeeps

LEMMA DeleteRowKeeps ==
  ASSUME IInv, NEW q \in Requests, DeleteRow(q)
  PROVE  IInv'
<1>. DEFINE u == request[q].user
            after == [request EXCEPT ![q] = Idle]
<1>1. /\ after \in [Requests -> RequestRows] /\ after[q].pc = "idle"
      /\ \A r \in Requests \ {q} : after[r] = request[r]
  BY IdleRow DEF IInv, TypeOK, RequestRows, Idle
<1>2. /\ Take(q, after) /\ request[q].pc = "stripped" /\ ~Locked(u)
      /\ account' = [account EXCEPT ![u] = "gone"]
      /\ roles' = [roles EXCEPT ![u] = {}] /\ asked' = [asked EXCEPT ![u] = {}]
      /\ widened' = widened \ {u}
  BY DEF DeleteRow
<1>. HIDE DEF after
<1>. QED
  BY <1>1, <1>2, StrippedKeeps

-----------------------------------------------------------------------------
LEMMA InitIInv == Init => IInv
<1>. SUFFICES ASSUME Init PROVE IInv
  OBVIOUS
<1>. USE UsersAssumption DEF Init
<1>1. {<<Super, "ALL">>} \in SUBSET Rows
  BY DEF Rows, Roles
<1>2. TypeOK
  BY <1>1, IdleRow DEF TypeOK, RequestRows
<1>3. \A q \in Requests : request[q].pc = "idle"
  BY DEF Idle
<1>4. RowsHeld /\ KnowAnother
  BY <1>3 DEF RowsHeld, KnowAnother, Knows
<1>5. Shapes
  <2>1. ASSUME NEW u \in Users, NEW row \in roles[u] PROVE row[2] = "ALL"
    <3>1. row = <<Super, "ALL">>
      OBVIOUS
    <3>. QED
      BY <3>1
  <2>. QED
    BY <2>1 DEF Shapes, Shape
<1>6. Unborn /\ RolesAsAsked
  BY DEF Unborn, RolesAsAsked
<1>7. SuperAdminRemains
  <2>1. IsSuper(Root)
    BY DEF IsSuper
  <2>. QED
    BY <2>1 DEF SuperAdminRemains
<1>. QED
  BY <1>2, <1>4, <1>5, <1>6, <1>7 DEF IInv

LEMMA NextKeeps == IInv /\ [Next]_vars => IInv'
<1>. SUFFICES ASSUME IInv, [Next]_vars PROVE IInv'
  OBVIOUS
<1>1. ASSUME NEW u \in Users, FirstSignIn(u) PROVE IInv'
  <2>1. "active" \in Active
    BY DEF Active
  <2>. QED
    BY <1>1, <2>1, OneAccount DEF FirstSignIn
<1>2. ASSUME NEW u \in Users, Deactivate(u) PROVE IInv'
  <2>1. "inactive" \in Active
    BY DEF Active
  <2>. QED
    BY <1>2, <2>1, OneAccount DEF Deactivate
<1>3. CASE UNCHANGED vars
  BY <1>3 DEF vars, IInv, TypeOK, RowsHeld, Present, KnowAnother, Knows, OtherThan, IsSuper,
              Shapes, Unborn, SuperAdminRemains, RolesAsAsked
<1>. QED
  BY <1>1, <1>2, <1>3, CreateUserKeeps, BeginUpdateKeeps, CheckUpdateKeeps, CommitUpdateKeeps,
     BeginDeleteKeeps, DeleteRolesKeeps, DeleteRowKeeps, RequestDiesKeeps DEF Next

LEMMA Inductive == Spec => []IInv
BY InitIInv, NextKeeps, PTL DEF Spec

(* There always is a super admin, whatever updates and deletions are under *)
(* way, unless two of them were allowed to take the role from two super    *)
(* admins before either had done so.                                       *)
THEOREM SuperAdminStays == Spec => []SuperAdminRemains
<1>1. IInv => SuperAdminRemains
  BY DEF IInv
<1>. QED
  BY <1>1, Inductive, PTL

(* Everybody has the roles, for the hostels, that were last asked for him, *)
(* except that a role whose hostels were taken away to make it a role for  *)
(* all is lost.                                                            *)
THEOREM RolesAreAsked == Spec => []RolesAsAsked
<1>1. IInv => RolesAsAsked
  BY DEF IInv
<1>. QED
  BY <1>1, Inductive, PTL

(***************************************************************************)
(* The configuration.                                                      *)
(***************************************************************************)
SaveSteps == {"idle", "written", "copied", "numbered"}

ConfigTypes ==
  /\ live \in [Kinds -> Nat] /\ editions \in [Kinds -> Nat]
  /\ versions \in [Kinds -> Seq(Nat)]
  /\ editor \in [Editors -> [pc : SaveSteps, copy : Nat, number : Nat]]
  /\ leave \in [Leaves -> [at : 1..7, ran : [Kinds -> Nat],
                            refers : [Kinds -> Nat]]]
  /\ disturbed \in BOOLEAN

LastOf(s) == IF s = <<>> THEN 0 ELSE s[Len(s)]

(* A workflow or policy is saved with its version.                         *)
SavedTogether == \A k \in {"workflow", "policy"} : live[k] = LastOf(versions[k])

(* A save of the type that has met no other is alone until it ends, and    *)
(* what it has copied is still in force when it inserts the version.       *)
SavesAlone ==
  disturbed \/
    /\ \A e, f \in Busy : e = f
    /\ Busy = {} => live["type"] = LastOf(versions["type"])
    /\ \A e \in Busy :
         editor[e].pc \in {"copied", "numbered"} => editor[e].copy = live["type"]

(* What a submission ran under is recorded from the read of the edition    *)
(* on, and from the read of the version on in what it refers to.           *)
Ran(l, k) == leave[l].ran[k]
Refers(l, k) == leave[l].refers[k]
RecordedNow(l, k) == Ran(l, k) # 0 => Ran(l, k) \in Recorded(k, Len(versions[k]))
RecordedThen(l, k) == Ran(l, k) # 0 => Ran(l, k) \in Recorded(k, Refers(l, k))

Records(l) ==
  /\ \A k \in Kinds : Refers(l, k) <= Len(versions[k])
  /\ leave[l].at > 2 => RecordedNow(l, "policy")
  /\ leave[l].at > 3 => RecordedThen(l, "policy")
  /\ leave[l].at > 4 => RecordedNow(l, "workflow")
  /\ leave[l].at > 6 => RecordedThen(l, "workflow")

ConfigInv ==
  /\ ConfigTypes /\ SavedTogether /\ SavesAlone
  /\ \A l \in Leaves : Records(l)

(* Appending a version makes it the last and keeps the earlier ones.       *)
LEMMA Appended ==
  ASSUME NEW s \in Seq(Nat), NEW n \in Nat
  PROVE  /\ Append(s, n) \in Seq(Nat) /\ Len(Append(s, n)) = Len(s) + 1
         /\ LastOf(Append(s, n)) = n
         /\ \A i \in 1..Len(s) : Append(s, n)[i] = s[i]
BY DEF LastOf

(* The edition in force is among the versions.                             *)
LEMMA LastRecorded ==
  ASSUME ConfigTypes, SavedTogether, NEW k \in {"workflow", "policy"}, live[k] # 0
  PROVE  live[k] \in Recorded(k, Len(versions[k]))
<1>1. versions[k] \in Seq(Nat) /\ versions[k] # <<>>
  BY DEF ConfigTypes, SavedTogether, LastOf, Kinds
<1>2. Len(versions[k]) \in 1..Len(versions[k]) /\ live[k] = versions[k][Len(versions[k])]
  BY <1>1 DEF SavedTogether, LastOf
<1>. QED
  BY <1>2 DEF Recorded

(* What is recorded stays recorded when versions only grow.                *)
Grow ==
  \A k \in Kinds :
    /\ Len(versions[k]) <= Len(versions'[k])
    /\ \A n \in 1..Len(versions[k]) : versions'[k][n] = versions[k][n]

LEMMA OneGrows ==
  ASSUME versions \in [Kinds -> Seq(Nat)], NEW k \in Kinds,
         Len(versions'[k]) = Len(versions[k]) + 1,
         \A n \in 1..Len(versions[k]) : versions'[k][n] = versions[k][n],
         \A j \in Kinds \ {k} : versions'[j] = versions[j]
  PROVE  Grow
<1>1. \A j \in Kinds : Len(versions[j]) \in Nat
  OBVIOUS
<1>2. ASSUME NEW j \in Kinds
      PROVE  /\ Len(versions[j]) <= Len(versions'[j])
             /\ \A n \in 1..Len(versions[j]) : versions'[j][n] = versions[j][n]
  <2>1. CASE j = k
    BY <1>1, <2>1
  <2>2. CASE j # k
    BY <1>1, <2>2
  <2>. QED
    BY <2>1, <2>2
<1>. QED
  BY <1>2 DEF Grow

LEMMA RecordsGrow ==
  ASSUME ConfigTypes, ConfigTypes', Grow, NEW l \in Leaves, Records(l), leave'[l] = leave[l]
  PROVE  Records(l)'
<1>. USE DEF Ran, Refers, RecordedNow, RecordedThen
<1>1. \A k \in Kinds : Len(versions[k]) \in Nat /\ Len(versions'[k]) \in Nat
  BY DEF ConfigTypes
<1>2. ASSUME NEW k \in Kinds, NEW n \in Nat, n <= Len(versions[k])
      PROVE  Recorded(k, n) \subseteq Recorded(k, n)'
  BY <1>1, <1>2 DEF Recorded, Grow
<1>3. ASSUME NEW k \in Kinds
      PROVE  Recorded(k, Len(versions[k])) \subseteq Recorded(k, Len(versions[k]))'
  BY <1>1, <1>3 DEF Recorded, Grow
<1>4. \A k \in Kinds : leave[l].refers[k] \in Nat
  BY DEF ConfigTypes
<1>5. \A k \in Kinds : Refers(l, k) <= Len(versions'[k])
  BY <1>1, <1>4 DEF Records, Grow
<1>6. ASSUME NEW k \in Kinds
      PROVE  /\ RecordedNow(l, k) => RecordedNow(l, k)'
             /\ RecordedThen(l, k) => RecordedThen(l, k)'
  <2>1. leave[l].refers[k] \in Nat /\ leave[l].refers[k] <= Len(versions[k])
    BY <1>4 DEF Records
  <2>. QED
    BY <2>1, <1>2, <1>3
<1>. QED
  BY <1>5, <1>6 DEF Records, Kinds

(* Edition k + 1 of anything is a number.                                  *)
LEMMA ReplaceTyped ==
  ASSUME ConfigTypes, NEW k \in Kinds, Replace(k)
  PROVE  /\ live' \in [Kinds -> Nat] /\ editions' \in [Kinds -> Nat]
         /\ live'[k] \in Nat /\ \A j \in Kinds \ {k} : live'[j] = live[j]
BY DEF ConfigTypes, Replace

LEMMA SaveKeeps ==
  ASSUME ConfigInv, NEW k \in {"workflow", "policy"}, Save(k)
  PROVE  ConfigInv'
<1>. USE DEF ConfigInv
<1>1. k \in Kinds /\ "type" \in Kinds /\ {"workflow", "policy"} \subseteq Kinds
  BY DEF Kinds
<1>2. /\ Replace(k) /\ versions' = [versions EXCEPT ![k] = Append(@, live'[k])]
      /\ UNCHANGED <<editor, leave, disturbed>>
  BY DEF Save
<1>3. /\ live' \in [Kinds -> Nat] /\ editions' \in [Kinds -> Nat]
      /\ live'[k] \in Nat /\ \A j \in Kinds \ {k} : live'[j] = live[j]
  BY <1>1, <1>2, ReplaceTyped
<1>4. versions \in [Kinds -> Seq(Nat)] /\ versions[k] \in Seq(Nat)
  BY <1>1 DEF ConfigTypes
<1>5. /\ versions'[k] \in Seq(Nat) /\ LastOf(versions'[k]) = live'[k]
      /\ Len(versions'[k]) = Len(versions[k]) + 1
      /\ \A i \in 1..Len(versions[k]) : versions'[k][i] = versions[k][i]
      /\ \A j \in Kinds \ {k} : versions'[j] = versions[j]
      /\ versions' \in [Kinds -> Seq(Nat)]
  BY <1>1, <1>2, <1>3, <1>4, Appended
<1>6. ConfigTypes'
  BY <1>2, <1>3, <1>5 DEF ConfigTypes
<1>7. SavedTogether'
  BY <1>1, <1>3, <1>5 DEF SavedTogether
<1>8. live'["type"] = live["type"] /\ versions'["type"] = versions["type"]
  BY <1>1, <1>3, <1>5
<1>9. SavesAlone'
  BY <1>2, <1>8 DEF SavesAlone, Busy
<1>10. Grow
  BY <1>1, <1>4, <1>5, OneGrows
<1>11. \A l \in Leaves : Records(l)'
  BY <1>2, <1>6, <1>10, RecordsGrow
<1>. QED
  BY <1>6, <1>7, <1>9, <1>11

(* A step that leaves the versions, the workflows, the policies and the    *)
(* submissions alone.                                                      *)
LEMMA TypeOnly ==
  ASSUME ConfigInv, ConfigTypes', UNCHANGED <<versions, leave>>,
         \A k \in {"workflow", "policy"} : live'[k] = live[k]
  PROVE  SavedTogether' /\ \A l \in Leaves : Records(l)'
<1>1. SavedTogether'
  BY DEF ConfigInv, SavedTogether
<1>2. Grow
  BY DEF ConfigInv, ConfigTypes, Grow
<1>. QED
  BY <1>1, <1>2, RecordsGrow DEF ConfigInv

LEMMA WriteKeeps ==
  ASSUME ConfigInv, NEW e \in Editors, WriteType(e)
  PROVE  ConfigInv'
<1>. USE DEF ConfigInv
<1>1. /\ editor[e].pc = "idle" /\ Replace("type")
      /\ editor' = [editor EXCEPT ![e].pc = "written"]
      /\ disturbed' = (Busy # {}) /\ UNCHANGED <<versions, leave>>
  BY DEF WriteType
<1>2. /\ live' \in [Kinds -> Nat] /\ editions' \in [Kinds -> Nat]
      /\ \A k \in {"workflow", "policy"} : live'[k] = live[k]
  BY <1>1, ReplaceTyped DEF Kinds
<1>3. /\ editor' \in [Editors -> [pc : SaveSteps, copy : Nat, number : Nat]]
      /\ editor'[e].pc = "written" /\ \A f \in Editors \ {e} : editor'[f] = editor[f]
  BY <1>1 DEF ConfigTypes, SaveSteps
<1>4. ConfigTypes'
  BY <1>1, <1>2, <1>3 DEF ConfigTypes
<1>5. ASSUME ~disturbed' PROVE Busy' = {e}
  BY <1>1, <1>3, <1>5 DEF Busy
<1>6. SavesAlone'
  BY <1>3, <1>5 DEF SavesAlone
<1>. QED
  BY <1>1, <1>2, <1>4, <1>6, TypeOnly

LEMMA CopyKeeps ==
  ASSUME ConfigInv, NEW e \in Editors, CopyType(e) \/ NumberType(e)
  PROVE  ConfigInv'
<1>. USE DEF ConfigInv
<1>1. editor[e] \in [pc : SaveSteps, copy : Nat, number : Nat]
      /\ live["type"] \in Nat /\ Len(versions["type"]) \in Nat
  BY DEF ConfigTypes, Kinds
<1>2. /\ UNCHANGED <<live, editions, versions, leave, disturbed>>
      /\ editor' \in [Editors -> [pc : SaveSteps, copy : Nat, number : Nat]]
      /\ \A f \in Editors \ {e} : editor'[f] = editor[f]
  <2>1. CASE CopyType(e)
    BY <1>1, <2>1 DEF CopyType, ConfigTypes, SaveSteps
  <2>2. CASE NumberType(e)
    <3>. DEFINE n == Len(versions["type"]) + 1
                row == [editor[e] EXCEPT !.pc = "numbered", !.number = n]
    <3>1. /\ editor' = [editor EXCEPT ![e] = row]
          /\ UNCHANGED <<live, editions, versions, leave, disturbed>>
      BY <1>1, <2>2 DEF NumberType, ConfigTypes
    <3>2. n \in Nat
      BY <1>1
    <3>. HIDE DEF n
    <3>3. row \in [pc : SaveSteps, copy : Nat, number : Nat]
      BY <1>1, <3>2 DEF SaveSteps
    <3>. HIDE DEF row
    <3>. QED
      BY <3>1, <3>3 DEF ConfigTypes
  <2>. QED
    BY <2>1, <2>2
<1>3. /\ editor[e].pc # "idle" /\ editor'[e].pc # "idle"
      /\ \/ editor'[e].copy = live["type"]
         \/ editor[e].pc = "copied" /\ editor'[e].copy = editor[e].copy
  <2>1. CASE CopyType(e)
    BY <1>1, <2>1 DEF CopyType, ConfigTypes, SaveSteps
  <2>2. CASE NumberType(e)
    <3>. DEFINE row == [editor[e] EXCEPT !.pc = "numbered", !.number = Len(versions["type"]) + 1]
    <3>1. editor[e].pc = "copied" /\ editor' = [editor EXCEPT ![e] = row]
      BY <1>1, <2>2 DEF NumberType, ConfigTypes
    <3>2. row.pc = "numbered" /\ row.copy = editor[e].copy
      BY <1>1 DEF SaveSteps
    <3>. HIDE DEF row
    <3>. QED
      BY <3>1, <3>2 DEF ConfigTypes
  <2>. QED
    BY <2>1, <2>2
<1>4. Busy' = Busy
  BY <1>2, <1>3 DEF Busy
<1>5. SavesAlone'
  BY <1>2, <1>3, <1>4 DEF SavesAlone, Busy
<1>6. ConfigTypes'
  BY <1>2 DEF ConfigTypes
<1>. QED
  BY <1>2, <1>5, <1>6, TypeOnly

LEMMA InsertKeeps ==
  ASSUME ConfigInv, NEW e \in Editors, InsertVersion(e)
  PROVE  ConfigInv'
<1>. USE DEF ConfigInv
<1>1. /\ editor[e].pc = "numbered"
      /\ versions' = [versions EXCEPT !["type"] = Append(@, editor[e].copy)]
      /\ editor' = [editor EXCEPT ![e] = NoSave]
      /\ UNCHANGED <<live, editions, leave, disturbed>>
  BY DEF InsertVersion
<1>2. /\ "type" \in Kinds /\ versions["type"] \in Seq(Nat) /\ editor[e].copy \in Nat
  BY DEF ConfigTypes, Kinds
<1>3. /\ versions'["type"] \in Seq(Nat) /\ LastOf(versions'["type"]) = editor[e].copy
      /\ Len(versions'["type"]) = Len(versions["type"]) + 1
      /\ \A i \in 1..Len(versions["type"]) : versions'["type"][i] = versions["type"][i]
      /\ \A j \in Kinds \ {"type"} : versions'[j] = versions[j]
      /\ versions' \in [Kinds -> Seq(Nat)]
  BY <1>1, <1>2, Appended DEF ConfigTypes
<1>4. /\ editor' \in [Editors -> [pc : SaveSteps, copy : Nat, number : Nat]]
      /\ editor'[e].pc = "idle" /\ \A f \in Editors \ {e} : editor'[f] = editor[f]
  BY <1>1 DEF ConfigTypes, SaveSteps, NoSave
<1>5. ConfigTypes'
  BY <1>1, <1>3, <1>4 DEF ConfigTypes
<1>6. SavedTogether'
  BY <1>1, <1>3 DEF SavedTogether, Kinds
<1>7. e \in Busy /\ Busy' = Busy \ {e}
  BY <1>1, <1>4 DEF Busy
<1>8. SavesAlone'
  <2>1. CASE disturbed
    BY <1>1, <2>1 DEF SavesAlone
  <2>2. CASE ~disturbed
    <3>1. Busy' = {} /\ editor[e].copy = live["type"]
      BY <1>1, <1>7, <2>2 DEF SavesAlone
    <3>. QED
      BY <1>1, <1>3, <3>1 DEF SavesAlone
  <2>. QED
    BY <2>1, <2>2
<1>9. Grow
  BY <1>2, <1>3, OneGrows DEF ConfigTypes
<1>10. \A l \in Leaves : Records(l)'
  BY <1>1, <1>5, <1>9, RecordsGrow
<1>. QED
  BY <1>5, <1>6, <1>8, <1>10

LEMMA SaveFailsKeeps ==
  ASSUME ConfigInv, NEW e \in Editors, SaveFails(e)
  PROVE  ConfigInv'
<1>. USE DEF ConfigInv
<1>1. /\ UNCHANGED <<live, editions, versions, leave>> /\ disturbed' = TRUE
      /\ editor' \in [Editors -> [pc : SaveSteps, copy : Nat, number : Nat]]
  BY DEF SaveFails, ConfigTypes, SaveSteps, NoSave
<1>2. ConfigTypes'
  BY <1>1 DEF ConfigTypes
<1>3. SavesAlone'
  BY <1>1 DEF SavesAlone
<1>. QED
  BY <1>1, <1>2, <1>3, TypeOnly

(* One read of a submission: of an edition in force, or of a number.       *)
Submission == [at : 1..7, ran : [Kinds -> Nat], refers : [Kinds -> Nat]]

LEMMA ReadsAre ==
  /\ Reads[1] = <<"type", "live">> /\ Reads[2] = <<"policy", "live">>
  /\ Reads[3] = <<"policy", "version">> /\ Reads[4] = <<"workflow", "live">>
  /\ Reads[5] = <<"type", "version">> /\ Reads[6] = <<"workflow", "version">>
  /\ Len(Reads) = 6
BY DEF Reads

LEMMA OneRead ==
  ASSUME ConfigTypes, NEW l \in Leaves, ReadNext(l)
  PROVE  /\ leave[l].at \in 1..6 /\ leave' \in [Leaves -> Submission]
         /\ \A m \in Leaves \ {l} : leave'[m] = leave[m]
         /\ leave'[l].at = leave[l].at + 1
         /\ leave[l].at \in {1, 2, 4} =>
              LET k == Reads[leave[l].at][1] IN
              /\ leave'[l].ran = [leave[l].ran EXCEPT ![k] = live[k]]
              /\ leave'[l].refers = leave[l].refers
         /\ leave[l].at \in {3, 5, 6} =>
              LET k == Reads[leave[l].at][1] IN
              /\ leave'[l].ran = leave[l].ran
              /\ \E n \in {0, Len(versions[k])} :
                    /\ n # Len(versions[k]) => leave[l].ran[k] = 0
                    /\ leave'[l].refers = [leave[l].refers EXCEPT ![k] = n]
<1>. DEFINE at == leave[l].at
            kind == Reads[at][1]
<1>1. leave \in [Leaves -> Submission] /\ leave[l] \in Submission
  BY DEF ConfigTypes, Submission
<1>2. at \in 1..6
  BY <1>1, ReadsAre DEF ReadNext, Submitted, Submission
<1>3. /\ at \in {1, 2, 4} => Reads[at][2] = "live"
      /\ at \in {3, 5, 6} => Reads[at][2] = "version"
      /\ kind \in Kinds
  BY <1>2, ReadsAre DEF Kinds
<1>4. live[kind] \in Nat /\ Len(versions[kind]) \in Nat
  BY <1>3 DEF ConfigTypes
<1>5. ASSUME NEW n \in Nat PROVE [leave[l].ran EXCEPT ![kind] = n] \in [Kinds -> Nat]
                             /\ [leave[l].refers EXCEPT ![kind] = n] \in [Kinds -> Nat]
  BY <1>1 DEF Submission
<1>6. CASE at \in {1, 2, 4}
  <2>1. leave' = [leave EXCEPT ![l] = [at |-> at + 1,
                                       ran |-> [leave[l].ran EXCEPT ![kind] = live[kind]],
                                       refers |-> leave[l].refers]]
    BY <1>3, <1>6 DEF ReadNext
  <2>. DEFINE ran == [leave[l].ran EXCEPT ![kind] = live[kind]]
  <2>2. ran \in [Kinds -> Nat]
    BY <1>4, <1>5
  <2>3. leave' = [leave EXCEPT ![l] = [at |-> at + 1, ran |-> ran, refers |-> leave[l].refers]]
    BY <2>1
  <2>. HIDE DEF ran
  <2>4. /\ leave'[l].at = at + 1 /\ leave'[l].ran = ran /\ leave'[l].refers = leave[l].refers
        /\ \A m \in Leaves \ {l} : leave'[m] = leave[m]
        /\ leave' \in [Leaves -> Submission]
    BY <1>1, <1>2, <2>2, <2>3 DEF Submission
  <2>. QED
    BY <1>2, <1>6, <2>4 DEF ran
<1>7. CASE at \in {3, 5, 6}
  <2>1. PICK n \in {0, Len(versions[kind])} :
          /\ leave' = [leave EXCEPT ![l] = [at |-> at + 1, ran |-> leave[l].ran,
                                            refers |-> [leave[l].refers EXCEPT ![kind] = n]]]
          /\ n # Len(versions[kind]) => leave[l].ran[kind] = 0
    BY <1>3, <1>7 DEF ReadNext
  <2>. DEFINE refers == [leave[l].refers EXCEPT ![kind] = n]
  <2>2. refers \in [Kinds -> Nat]
    BY <1>4, <1>5
  <2>3. leave' = [leave EXCEPT ![l] = [at |-> at + 1, ran |-> leave[l].ran, refers |-> refers]]
    BY <2>1
  <2>. HIDE DEF refers
  <2>4. /\ leave'[l].at = at + 1 /\ leave'[l].ran = leave[l].ran /\ leave'[l].refers = refers
        /\ \A m \in Leaves \ {l} : leave'[m] = leave[m]
        /\ leave' \in [Leaves -> Submission]
    BY <1>1, <1>2, <2>2, <2>3 DEF Submission
  <2>. QED
    BY <1>2, <1>7, <2>1, <2>4 DEF refers
<1>. QED
  BY <1>2, <1>6, <1>7

(* The edition read is recorded, and so is what was read when its version  *)
(* is looked up.                                                           *)
LEMMA ReadRecords ==
  ASSUME ConfigInv, NEW l \in Leaves, ReadNext(l), UNCHANGED versions
  PROVE  Records(l)'
<1>. USE DEF Ran, Refers, RecordedNow, RecordedThen
<1>. DEFINE at == leave[l].at
<1>1. /\ at \in 1..6 /\ leave'[l].at = at + 1 /\ leave[l] \in Submission
  BY OneRead DEF ConfigInv, ConfigTypes, Submission
<1>2. \A k \in Kinds : Len(versions[k]) \in Nat /\ leave[l].refers[k] \in Nat
  BY DEF ConfigInv, ConfigTypes
<1>3. /\ "policy" \in Kinds /\ "workflow" \in Kinds /\ "type" \in Kinds
      /\ \A k \in Kinds : Refers(l, k) <= Len(versions[k])
      /\ Records(l)
  BY DEF ConfigInv, Records, Kinds
<1>4. CASE at \in {1, 2, 4}
  <2>. DEFINE kind == Reads[at][1]
  <2>1. /\ leave'[l].ran = [leave[l].ran EXCEPT ![kind] = live[kind]]
        /\ leave'[l].refers = leave[l].refers
    BY <1>4, OneRead DEF ConfigInv
  <2>2. \A k \in Kinds : leave'[l].ran[k] = IF k = kind THEN live[k] ELSE leave[l].ran[k]
    BY <1>1, <2>1 DEF Submission
  <2>3. \A k \in Kinds : leave'[l].refers[k] <= Len(versions'[k])
    BY <1>3, <2>1
  <2>4. CASE at = 1
    BY <1>1, <2>3, <2>4 DEF Records
  <2>5. CASE at = 2
    <3>1. leave'[l].ran["policy"] = live["policy"]
      BY <1>3, <2>2, <2>5, ReadsAre
    <3>2. RecordedNow(l, "policy")'
      BY <3>1, LastRecorded DEF ConfigInv, Recorded
    <3>. QED
      BY <1>1, <2>3, <2>5, <3>2 DEF Records
  <2>6. CASE at = 4
    <3>1. /\ leave'[l].ran["workflow"] = live["workflow"]
          /\ leave'[l].ran["policy"] = leave[l].ran["policy"]
      BY <1>3, <2>2, <2>6, ReadsAre
    <3>2. RecordedNow(l, "workflow")'
      BY <3>1, LastRecorded DEF ConfigInv, Recorded
    <3>3. RecordedNow(l, "policy") /\ RecordedThen(l, "policy")
      BY <1>3, <2>6 DEF Records
    <3>4. RecordedNow(l, "policy")' /\ RecordedThen(l, "policy")'
      BY <2>1, <3>1, <3>3 DEF Recorded
    <3>. QED
      BY <1>1, <2>3, <2>6, <3>2, <3>4 DEF Records
  <2>. QED
    BY <1>4, <2>4, <2>5, <2>6
<1>5. CASE at \in {3, 5, 6}
  <2>. DEFINE kind == Reads[at][1]
  <2>1. PICK n \in {0, Len(versions[kind])} :
          /\ n # Len(versions[kind]) => leave[l].ran[kind] = 0
          /\ leave'[l].refers = [leave[l].refers EXCEPT ![kind] = n]
    BY <1>5, OneRead DEF ConfigInv
  <2>2. leave'[l].ran = leave[l].ran
    BY <1>5, OneRead DEF ConfigInv
  <2>3. \A k \in Kinds : leave'[l].refers[k] = IF k = kind THEN n ELSE leave[l].refers[k]
    BY <1>1, <2>1 DEF Submission
  <2>4. \A k \in Kinds : leave'[l].refers[k] <= Len(versions'[k])
    BY <1>2, <1>3, <2>1, <2>3
  <2>5. \A k \in Kinds :
          /\ RecordedNow(l, k) => RecordedNow(l, k)'
          /\ k # kind /\ RecordedThen(l, k) => RecordedThen(l, k)'
          /\ k = kind /\ RecordedNow(l, k) => RecordedThen(l, k)'
    BY <2>1, <2>2, <2>3 DEF Recorded
  <2>6. CASE at = 3
    <3>1. kind = "policy" /\ RecordedNow(l, "policy")
      BY <1>3, <2>6, ReadsAre DEF Records
    <3>. QED
      BY <1>1, <1>3, <2>4, <2>5, <2>6, <3>1 DEF Records
  <2>7. CASE at = 5
    <3>1. /\ kind = "type" /\ RecordedNow(l, "policy") /\ RecordedThen(l, "policy")
          /\ RecordedNow(l, "workflow")
      BY <1>3, <2>7, ReadsAre DEF Records
    <3>. QED
      BY <1>1, <1>3, <2>4, <2>5, <2>7, <3>1 DEF Records
  <2>8. CASE at = 6
    <3>1. /\ kind = "workflow" /\ RecordedNow(l, "policy") /\ RecordedThen(l, "policy")
          /\ RecordedNow(l, "workflow")
      BY <1>3, <2>8, ReadsAre DEF Records
    <3>. QED
      BY <1>1, <1>3, <2>4, <2>5, <2>8, <3>1 DEF Records
  <2>. QED
    BY <1>5, <2>6, <2>7, <2>8
<1>. QED
  BY <1>1, <1>4, <1>5

LEMMA ReadKeeps ==
  ASSUME ConfigInv, NEW l \in Leaves, ReadNext(l) \/ SubmissionRefused(l)
  PROVE  ConfigInv'
<1>1. UNCHANGED <<live, editions, versions, editor, disturbed>>
  BY DEF ReadNext, SubmissionRefused
<1>2. /\ leave' \in [Leaves -> Submission]
      /\ \A m \in Leaves \ {l} : leave'[m] = leave[m]
  <2>1. CASE ReadNext(l)
    BY <2>1, OneRead DEF ConfigInv
  <2>2. CASE SubmissionRefused(l)
    <3>1. NoLeave \in Submission
      BY DEF NoLeave, Unread, Submission
    <3>. QED
      BY <2>2, <3>1 DEF SubmissionRefused, ConfigInv, ConfigTypes, Submission
  <2>. QED
    BY <2>1, <2>2
<1>3. ConfigTypes'
  BY <1>1, <1>2 DEF ConfigInv, ConfigTypes, Submission
<1>4. SavedTogether' /\ SavesAlone'
  BY <1>1 DEF ConfigInv, SavedTogether, SavesAlone, Busy
<1>5. Grow
  BY <1>1 DEF ConfigInv, ConfigTypes, Grow
<1>6. ASSUME NEW m \in Leaves, m # l PROVE Records(m)'
  BY <1>2, <1>3, <1>5, <1>6, RecordsGrow DEF ConfigInv
<1>7. CASE ReadNext(l)
  <2>1. Records(l)'
    BY <1>1, <1>7, ReadRecords
  <2>. QED
    BY <1>3, <1>4, <1>6, <2>1 DEF ConfigInv
<1>8. CASE SubmissionRefused(l)
  <2>1. leave'[l] = NoLeave
    BY <1>8 DEF SubmissionRefused, ConfigInv, ConfigTypes
  <2>2. Records(l)'
    BY <1>1, <2>1 DEF NoLeave, Unread, Records, Ran, Refers, ConfigInv, ConfigTypes
  <2>. QED
    BY <1>3, <1>4, <1>6, <2>2 DEF ConfigInv
<1>. QED
  BY <1>7, <1>8

LEMMA ConfigInvariant == ConfigSpec => []ConfigInv
<1>1. ConfigInit => ConfigInv
  <2>1. \A k \in Kinds : Unread[k] = 0
    BY DEF Unread
  <2>2. "policy" \in Kinds /\ "workflow" \in Kinds /\ "type" \in Kinds
    BY DEF Kinds
  <2>3. ConfigInit => ConfigTypes
    <3>. SUFFICES ASSUME ConfigInit PROVE ConfigTypes
      OBVIOUS
    <3>1. Unread \in [Kinds -> Nat]
      BY DEF Unread
    <3>2. NoSave \in [pc : SaveSteps, copy : Nat, number : Nat]
      BY DEF NoSave, SaveSteps
    <3>3. NoLeave \in Submission
      BY <3>1 DEF NoLeave, Submission
    <3>4. versions \in [Kinds -> Seq(Nat)]
      BY DEF ConfigInit
    <3>. QED
      BY <3>1, <3>2, <3>3, <3>4 DEF ConfigInit, ConfigTypes, Submission
  <2>4. ConfigInit => SavedTogether /\ SavesAlone
    BY <2>1, <2>2 DEF ConfigInit, SavedTogether, SavesAlone, LastOf, Busy, NoSave
  <2>5. ConfigInit => \A l \in Leaves : Records(l)
    BY <2>1 DEF ConfigInit, Records, NoLeave, Refers
  <2>. QED
    BY <2>3, <2>4, <2>5 DEF ConfigInv
<1>2. ConfigInv /\ [ConfigNext]_configVars => ConfigInv'
  <2>. SUFFICES ASSUME ConfigInv, [ConfigNext]_configVars PROVE ConfigInv'
    OBVIOUS
  <2>1. CASE UNCHANGED configVars
    BY <2>1 DEF configVars, ConfigInv, ConfigTypes, SavedTogether, SavesAlone, Busy,
               Records, Ran, Refers, RecordedNow, RecordedThen, Recorded
  <2>. QED
    BY <2>1, SaveKeeps, WriteKeeps, CopyKeeps, InsertKeeps, SaveFailsKeeps, ReadKeeps
       DEF ConfigNext
<1>. QED
  BY <1>1, <1>2, PTL DEF ConfigSpec

(* A leave refers to a version that records the chain, and to one that     *)
(* records the policies, it ran under, or to a later one, however many     *)
(* editions come between its reads.                                        *)
THEOREM LeavesRanUnderVersions == ConfigSpec => []RanUnderAVersion
<1>1. ConfigInv => RanUnderAVersion
  <2>. SUFFICES ASSUME ConfigInv, NEW l \in Leaves, NEW k \in {"workflow", "policy"},
                       Submitted(l), leave[l].ran[k] # 0
                PROVE  leave[l].ran[k] \in Recorded(k, leave[l].refers[k])
    BY DEF RanUnderAVersion
  <2>1. leave[l].at > 6 /\ leave[l].at \in 1..7
    BY ReadsAre DEF Submitted, ConfigInv, ConfigTypes
  <2>. QED
    BY <2>1 DEF ConfigInv, Records, RecordedThen, Ran, Refers
<1>. QED
  BY <1>1, ConfigInvariant, PTL

(* Between saves the last version of a workflow, of the policies and, when *)
(* the last save met no other, of the leave type is the edition in force.  *)
THEOREM LastVersionIsInForce == ConfigSpec => []LatestIsInForce
<1>1. ConfigInv => LatestIsInForce
  <2>. SUFFICES ASSUME ConfigInv, NEW k \in Kinds,
                       k = "type" => ~disturbed /\ Busy = {}
                PROVE  live[k] = LastOf(versions[k])
    BY DEF LatestIsInForce, LastOf
  <2>1. CASE k = "type"
    BY <2>1 DEF ConfigInv, SavesAlone
  <2>2. CASE k # "type"
    BY <2>2 DEF ConfigInv, SavedTogether, Kinds
  <2>. QED
    BY <2>1, <2>2
<1>. QED
  BY <1>1, ConfigInvariant, PTL
==================================================================================
