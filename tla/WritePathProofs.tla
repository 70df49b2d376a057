---------------------------- MODULE WritePathProofs ----------------------------
(* Theorems about WritePath, for every value of its constants. *)
EXTENDS WritePath, SequenceTheorems, TLAPS

(* Who may be in a project once it exists: somebody who was let in, if it is invite-only. *)
Admitted(p, u) == Exists(p) /\ (projects[p] => u \in guests[p])

MembersOK ==
  \A p \in Project, u \in User :
    Belongs(p, u) => /\ Exists(p)
                     /\ members[<<p, u>>].role = "admin" => u \in admins[p]
                     /\ members[<<p, u>>].by # AutoEnroll => u \in guests[p]

(* What a request on projects has read stays true: projects are neither deleted nor opened,
   and who was an admin was one for ever. *)
AskOK(q) ==
  q # None =>
    /\ q.op = "add" => /\ Exists(q.project)
                       /\ projects[q.project] => q.user \in admins[q.project]
    /\ q.op = "enroll" /\ q.exists => Exists(q.project) /\ ~projects[q.project]
    /\ q.op = "enrolled" => Admitted(q.project, q.user)

AsksOK == \A c \in Client : AskOK(ask[c])

ProjectInv == ProjectTypeOK /\ MembersOK /\ AsksOK /\ InviteOnlyHolds

------------------------------------------------------------------------------
(* Projects *)

LEMMA ProjectTypes ==
  ASSUME ProjectTypeOK
  PROVE  /\ DOMAIN projects \subseteq Project
         /\ \A p \in DOMAIN projects : projects[p] \in BOOLEAN
         /\ DOMAIN members \subseteq Project \X User
         /\ \A m \in DOMAIN members : members[m] \in Membership
         /\ \A p \in Project : admins[p] \subseteq User /\ guests[p] \subseteq User
         /\ \A c \in Client : ask[c] \in Asking \cup {None}
BY DEF ProjectTypeOK

(* What each kind of request holds. *)
LEMMA AskKinds ==
  ASSUME ProjectTypeOK, NEW c \in Client
  PROVE  /\ \A op : Asked(c, op) => ask[c].project \in Project
         /\ Asked(c, "enroll") => ask[c].user \in User /\ ask[c].exists \in BOOLEAN
         /\ Asked(c, "enrolled") => ask[c].user \in User
         /\ Asked(c, "create") => ask[c].user \in User /\ ask[c].inviteOnly \in BOOLEAN
         /\ Asked(c, "add") => /\ ask[c].user \in User /\ ask[c].target \in User
                               /\ ask[c].role \in Role
         /\ Asked(c, "remove") => ask[c].target \in User
BY ProjectTypes DEF Asking, Asked

(* A step that reads, and leaves the rows alone. *)
LEMMA ReadingKeepsProjects ==
  ASSUME ProjectInv, UNCHANGED projects, NobodyJoins,
         ask' \in [Client -> Asking \cup {None}],
         \A c \in Client : ask'[c] = ask[c] \/ AskOK(ask'[c])
  PROVE  ProjectInv'
<1>1. ProjectTypeOK'
  BY DEF ProjectInv, ProjectTypeOK, NobodyJoins
<1>2. MembersOK' /\ InviteOnlyHolds'
  BY DEF ProjectInv, MembersOK, InviteOnlyHolds, NobodyJoins, Belongs, Exists
<1>3. \A c \in Client : AskOK(ask'[c])
  BY DEF ProjectInv, AsksOK
<1>4. AsksOK'
  BY <1>3 DEF AsksOK, AskOK, Admitted, Exists, NobodyJoins
<1>5. QED BY <1>1, <1>2, <1>4 DEF ProjectInv

(* Requests keep what they have read while projects and admins only grow. *)
LEMMA GrowthKeepsAsks ==
  ASSUME ProjectInv, DOMAIN projects \subseteq DOMAIN projects',
         \A p \in DOMAIN projects : projects'[p] = projects[p],
         \A p \in Project : admins[p] \subseteq admins'[p] /\ guests[p] \subseteq guests'[p],
         NEW q \in Asking, AskOK(q)
  PROVE  AskOK(q)'
<1>1. q.project \in Project
  BY DEF Asking
<1>2. QED BY <1>1 DEF AskOK, Admitted, Exists

(* What a commit that joins somebody stores. *)
LEMMA Joined ==
  ASSUME ProjectTypeOK, NEW p \in Project, NEW u \in User, NEW role \in Role,
         NEW by \in User \cup {AutoEnroll}, Join(p, u, role, by)
  PROVE  /\ members' \in UNION {[S -> Membership] : S \in SUBSET (Project \X User)}
         /\ admins' \in [Project -> SUBSET User] /\ guests' \in [Project -> SUBSET User]
         /\ \A q \in Project : /\ admins[q] \subseteq admins'[q]
                               /\ guests[q] \subseteq guests'[q]
         /\ role = "admin" => u \in admins'[p]
         /\ by # AutoEnroll => u \in guests'[p]
         /\ DOMAIN members' = DOMAIN members \cup {<<p, u>>}
         /\ members'[<<p, u>>].role = role /\ members'[<<p, u>>].by = by
         /\ \A m \in DOMAIN members : m # <<p, u>> => members'[m] = members[m]
<1> DEFINE D == DOMAIN members \cup {<<p, u>>}
<1>1. /\ DOMAIN members' = D
      /\ \A m \in D : members'[m] = IF m = <<p, u>> THEN [role |-> role, by |-> by]
                                                    ELSE members[m]
      /\ members' = [m \in D |-> members'[m]]
  BY DEF Join
<1>2. D \subseteq Project \X User /\ \A m \in D : members'[m] \in Membership
  BY <1>1, ProjectTypes DEF Membership
<1> HIDE DEF D
<1>3. members' \in [D -> Membership]
  BY <1>1, <1>2
<1>4. /\ admins' \in [Project -> SUBSET User] /\ guests' \in [Project -> SUBSET User]
      /\ \A q \in Project : admins[q] \subseteq admins'[q] /\ guests[q] \subseteq guests'[q]
      /\ role = "admin" => u \in admins'[p]
      /\ by # AutoEnroll => u \in guests'[p]
  BY DEF ProjectTypeOK, Join
<1>5. members' \in UNION {[S -> Membership] : S \in SUBSET (Project \X User)}
  BY <1>2, <1>3, Zenon
<1>6. /\ DOMAIN members' = DOMAIN members \cup {<<p, u>>}
      /\ <<p, u>> \in D /\ DOMAIN members \subseteq D
  BY <1>1 DEF D
<1>7. members'[<<p, u>>].role = role /\ members'[<<p, u>>].by = by
  BY <1>1, <1>6
<1>8. \A m \in DOMAIN members : m # <<p, u>> => members'[m] = members[m]
  BY <1>1, <1>6
<1>9. QED BY <1>4, <1>5, <1>6, <1>7, <1>8, Zenon

(* A commit that may insert a project, joins somebody who does not belong to it, and ends. *)
LEMMA JoinKeepsProjects ==
  ASSUME ProjectInv, NEW c \in Client, NEW q \in Asking \cup {None}, Ask(c, q), AskOK(q)',
         NEW p \in Project, NEW u \in User, NEW role \in Role,
         NEW by \in User \cup {AutoEnroll}, Join(p, u, role, by), ~Belongs(p, u),
         UNCHANGED projects \/ (~Exists(p) /\ \E i \in BOOLEAN : InsertProject(p, i)),
         Exists(p)', projects'[p] => by \in admins'[p] /\ by # AutoEnroll
  PROVE  ProjectInv'
<1>1. ProjectTypeOK
  BY DEF ProjectInv
<1>2. /\ DOMAIN projects' \subseteq Project /\ DOMAIN projects \subseteq DOMAIN projects'
      /\ \A r \in DOMAIN projects : projects'[r] = projects[r]
      /\ \A r \in DOMAIN projects' : r = p \/ r \in DOMAIN projects
      /\ projects' \in UNION {[S -> BOOLEAN] : S \in SUBSET Project}
  <2>1. CASE UNCHANGED projects
    BY <1>1, <2>1, ProjectTypes DEF ProjectTypeOK
  <2>2. CASE ~Exists(p) /\ \E i \in BOOLEAN : InsertProject(p, i)
    <3>1. PICK i \in BOOLEAN : InsertProject(p, i)
      BY <2>2
    <3>2. projects' \in [DOMAIN projects \cup {p} -> BOOLEAN]
      BY <1>1, <3>1, ProjectTypes DEF InsertProject
    <3>3. QED BY <1>1, <2>2, <3>1, <3>2, ProjectTypes DEF InsertProject, Exists
  <2>3. QED BY <2>1, <2>2
<1>3. /\ members' \in UNION {[S -> Membership] : S \in SUBSET (Project \X User)}
      /\ admins' \in [Project -> SUBSET User] /\ guests' \in [Project -> SUBSET User]
      /\ \A r \in Project : /\ admins[r] \subseteq admins'[r]
                            /\ guests[r] \subseteq guests'[r]
      /\ role = "admin" => u \in admins'[p]
      /\ by # AutoEnroll => u \in guests'[p]
      /\ DOMAIN members' = DOMAIN members \cup {<<p, u>>}
      /\ members'[<<p, u>>].role = role /\ members'[<<p, u>>].by = by
      /\ \A m \in DOMAIN members : members'[m] = members[m]
  <2>1. \A m \in DOMAIN members : m # <<p, u>>
    BY DEF Belongs
  <2>2. QED BY <1>1, <2>1, Joined
<1>4. ask' \in [Client -> Asking \cup {None}] /\ \A d \in Client : d # c => ask'[d] = ask[d]
  BY <1>1 DEF Ask, ProjectTypeOK
<1>5. ProjectTypeOK'
  BY <1>2, <1>3, <1>4 DEF ProjectTypeOK
<1>6. MembersOK'
  BY <1>2, <1>3 DEF ProjectInv, MembersOK, Belongs, Exists
<1>7. InviteOnlyHolds'
  <2> SUFFICES ASSUME NEW r \in DOMAIN projects', projects'[r], NEW v \in User,
                      <<r, v>> \in DOMAIN members'
               PROVE  members'[<<r, v>>].by \in admins'[r]
    BY DEF InviteOnlyHolds, Belongs
  <2>1. CASE r = p /\ v = u
    BY <1>3, <2>1
  <2>2. CASE ~(r = p /\ v = u)
    <3>1. <<r, v>> \in DOMAIN members /\ members'[<<r, v>>] = members[<<r, v>>]
      BY <1>3, <2>2
    <3>2. r \in DOMAIN projects /\ r \in Project
      BY <1>1, <3>1, ProjectTypes DEF ProjectInv, MembersOK, Belongs, Exists
    <3>3. QED BY <1>2, <1>3, <3>1, <3>2 DEF ProjectInv, InviteOnlyHolds, Belongs
  <2>3. QED BY <2>1, <2>2
<1>8. AsksOK'
  <2> SUFFICES ASSUME NEW d \in Client PROVE AskOK(ask[d])'
    BY DEF AsksOK
  <2>1. CASE d = c
    BY <1>1, <2>1 DEF Ask, ProjectTypeOK, AskOK, Admitted, Exists
  <2>2. CASE d # c
    <3>1. ask'[d] = ask[d] /\ AskOK(ask[d]) /\ ask[d] \in Asking \cup {None}
      BY <1>1, <1>4, <2>2, ProjectTypes DEF ProjectInv, AsksOK
    <3>2. CASE ask[d] = None
      BY <3>1, <3>2 DEF AskOK
    <3>3. CASE ask[d] \in Asking
      BY <1>2, <1>3, <3>1, <3>3, GrowthKeepsAsks DEF AskOK, Admitted, Exists
    <3>4. QED BY <3>1, <3>2, <3>3
  <2>3. QED BY <2>1, <2>2
<1>9. QED BY <1>5, <1>6, <1>7, <1>8 DEF ProjectInv

(* A request that starts, or ends without a change, with what it holds. *)
LEMMA AskingKeepsProjects ==
  ASSUME ProjectInv, NEW c \in Client, NEW q \in Asking \cup {None}, Ask(c, q), AskOK(q),
         UNCHANGED projects, NobodyJoins
  PROVE  ProjectInv'
<1>1. /\ ask' \in [Client -> Asking \cup {None}]
      /\ \A d \in Client : ask'[d] = IF d = c THEN q ELSE ask[d]
  BY DEF Ask, ProjectInv, ProjectTypeOK
<1>2. QED BY <1>1, ReadingKeepsProjects

LEMMA EndingKeepsProjects ==
  ASSUME ProjectInv, NEW c \in Client, EndAsk(c), UNCHANGED projects, NobodyJoins
  PROVE  ProjectInv'
BY AskingKeepsProjects DEF EndAsk, AskOK

LEMMA StartKeepsProjects ==
  ASSUME ProjectInv, NEW c \in Client, StartOnProject(c)
  PROVE  ProjectInv'
<1>0. ProjectTypeOK
  BY DEF ProjectInv
<1>1. ASSUME NEW u \in User, NEW p \in Project, StartEnroll(c, u, p)
      PROVE  ProjectInv'
  <2> DEFINE q == IF Belongs(p, u)
                  THEN [op |-> "enrolled", user |-> u, project |-> p]
                  ELSE [op |-> "enroll", user |-> u, project |-> p, exists |-> Exists(p)]
  <2>1. Ask(c, q) /\ UNCHANGED projects /\ NobodyJoins /\ (Belongs(p, u) \/ ~InviteOnly(p))
    BY <1>1 DEF StartEnroll
  <2>2. q \in Asking
    BY DEF Asking, Exists
  <2>3. ASSUME Belongs(p, u) PROVE Admitted(p, u)
    <3>1. Exists(p) /\ (members[<<p, u>>].by # AutoEnroll => u \in guests[p])
      BY <2>3 DEF ProjectInv, MembersOK
    <3>2. projects[p] => members[<<p, u>>].by \in User
      BY <1>0, <2>3, <3>1, ProjectTypes DEF ProjectInv, InviteOnlyHolds, Exists
    <3>3. QED BY <3>1, <3>2, ProjectAssumption DEF Admitted
  <2>4. AskOK(q)
    BY <2>1, <2>3 DEF AskOK, InviteOnly
  <2> HIDE DEF q
  <2>5. QED BY <2>1, <2>2, <2>4, AskingKeepsProjects
<1>2. ASSUME NEW u \in User, NEW p \in Project, NEW i \in BOOLEAN,
             StartCreateProject(c, u, p, i)
      PROVE  ProjectInv'
  <2> DEFINE q == [op |-> "create", user |-> u, project |-> p, inviteOnly |-> i]
  <2>1. Ask(c, q) /\ UNCHANGED projects /\ NobodyJoins
    BY <1>2 DEF StartCreateProject
  <2>2. q \in Asking /\ AskOK(q)
    BY DEF Asking, AskOK
  <2> HIDE DEF q
  <2>3. QED BY <2>1, <2>2, AskingKeepsProjects
<1>3. ASSUME NEW u \in User, NEW p \in Project, NEW target \in User, NEW role \in Role,
             StartAddMember(c, u, p, target, role)
      PROVE  ProjectInv'
  <2> DEFINE q == [op |-> "add", user |-> u, project |-> p, target |-> target, role |-> role]
  <2>1. Ask(c, q) /\ UNCHANGED projects /\ NobodyJoins /\ MayAdd(u, p)
    BY <1>3 DEF StartAddMember
  <2>2. q \in Asking
    BY DEF Asking
  <2>3. Belongs(p, u) /\ (InviteOnly(p) => members[<<p, u>>].role = "admin")
    BY <2>1 DEF MayAdd, Administers
  <2>4. Exists(p) /\ (projects[p] => u \in admins[p])
    BY <2>3 DEF ProjectInv, MembersOK, InviteOnly
  <2>5. AskOK(q)
    BY <2>4 DEF AskOK
  <2> HIDE DEF q
  <2>6. QED BY <2>1, <2>2, <2>5, AskingKeepsProjects
<1>4. ASSUME NEW u \in User, NEW p \in Project, NEW target \in User,
             StartRemoveMember(c, u, p, target)
      PROVE  ProjectInv'
  <2> DEFINE q == [op |-> "remove", project |-> p, target |-> target]
  <2>1. Ask(c, q) /\ UNCHANGED projects /\ NobodyJoins
    BY <1>4 DEF StartRemoveMember
  <2>2. q \in Asking /\ AskOK(q)
    BY DEF Asking, AskOK
  <2> HIDE DEF q
  <2>3. QED BY <2>1, <2>2, AskingKeepsProjects
<1>5. QED BY <1>1, <1>2, <1>3, <1>4 DEF StartOnProject

LEMMA EnrolKeepsProjects ==
  ASSUME ProjectInv, NEW c \in Client, CommitEnroll(c)
  PROVE  ProjectInv'
<1>0. PICK p \in Project, u \in User : p = ask[c].project /\ u = ask[c].user
  BY AskKinds DEF CommitEnroll, ProjectInv
<1>q. PICK q : q = [op |-> "enrolled", user |-> u, project |-> p]
  OBVIOUS
<1>1. ask[c].exists \in BOOLEAN /\ (ask[c].exists => Exists(p) /\ ~projects[p])
  BY <1>0, AskKinds DEF CommitEnroll, ProjectInv, AsksOK, AskOK, Asked
<1>2. CASE RefusesLate(c)
  BY <1>2, EndingKeepsProjects DEF CommitEnroll
<1>3. CASE ~RefusesLate(c)
  <2>1. Exists(p) => ~projects[p]
    BY <1>0, <1>1, <1>3 DEF RefusesLate, InviteOnly
  <2>2. /\ Ask(c, q)
        /\ IF Exists(p) THEN UNCHANGED projects ELSE InsertProject(p, FALSE)
        /\ IF Belongs(p, u) THEN NobodyJoins ELSE Join(p, u, "member", AutoEnroll)
    BY <1>0, <1>q, <1>3 DEF CommitEnroll
  <2>3. q \in Asking
    BY <1>q DEF Asking
  <2>4. Exists(p)' /\ ~projects'[p]
    BY <2>1, <2>2 DEF InsertProject, Exists
  <2>5. AskOK(q)'
    BY <1>q, <2>4 DEF AskOK, Admitted
  <2>6. CASE Belongs(p, u)
    <3>1. Exists(p)
      BY <2>6 DEF ProjectInv, MembersOK
    <3>2. AskOK(q)
      BY <1>q, <2>1, <3>1 DEF AskOK, Admitted
    <3>3. QED BY <2>2, <2>3, <2>6, <3>1, <3>2, AskingKeepsProjects
  <2>7. CASE ~Belongs(p, u)
    <3>1. Join(p, u, "member", AutoEnroll) /\ "member" \in Role
      BY <2>2, <2>7 DEF Role
    <3>2. UNCHANGED projects \/ (~Exists(p) /\ \E i \in BOOLEAN : InsertProject(p, i))
      BY <2>2
    <3>3. QED BY <2>2, <2>3, <2>4, <2>5, <2>7, <3>1, <3>2, JoinKeepsProjects
  <2>8. QED BY <2>6, <2>7
<1>4. QED BY <1>2, <1>3

LEMMA CreateKeepsProjects ==
  ASSUME ProjectInv, NEW c \in Client, CommitCreateProject(c)
  PROVE  ProjectInv'
<1>1. PICK p \in Project, u \in User, i \in BOOLEAN :
        p = ask[c].project /\ u = ask[c].user /\ i = ask[c].inviteOnly
  BY AskKinds DEF CommitCreateProject, ProjectInv
<1>2. CASE Exists(p)
  BY <1>1, <1>2, EndingKeepsProjects DEF CommitCreateProject
<1>3. CASE ~Exists(p)
  <2>1. Ask(c, None) /\ InsertProject(p, i) /\ Join(p, u, "admin", u) /\ "admin" \in Role
    BY <1>1, <1>3 DEF CommitCreateProject, EndAsk, Role
  <2>2. ~Belongs(p, u)
    BY <1>3 DEF ProjectInv, MembersOK
  <2>3. Exists(p)'
    BY <2>1 DEF InsertProject, Exists
  <2>4. u \in admins'[p] /\ u # AutoEnroll
    BY <2>1, Joined, ProjectAssumption DEF ProjectInv
  <2>5. AskOK(None)'
    BY DEF AskOK
  <2>6. QED BY <1>3, <2>1, <2>2, <2>3, <2>4, <2>5, JoinKeepsProjects
<1>4. QED BY <1>2, <1>3

LEMMA AddKeepsProjects ==
  ASSUME ProjectInv, NEW c \in Client, CommitAddMember(c)
  PROVE  ProjectInv'
<1>0. PICK p \in Project, u \in User, target \in User, role \in Role :
        /\ p = ask[c].project /\ u = ask[c].user
        /\ target = ask[c].target /\ role = ask[c].role
  BY AskKinds DEF CommitAddMember, ProjectInv
<1>1. Exists(p) /\ (projects[p] => u \in admins[p])
  BY <1>0 DEF CommitAddMember, ProjectInv, AsksOK, AskOK, Asked
<1>2. Ask(c, None) /\ UNCHANGED projects
  BY DEF CommitAddMember, EndAsk
<1>3. CASE Belongs(p, target)
  BY <1>0, <1>3, EndingKeepsProjects DEF CommitAddMember
<1>4. CASE ~Belongs(p, target)
  <2>1. Join(p, target, role, u)
    BY <1>0, <1>4 DEF CommitAddMember
  <2>2. admins[p] \subseteq admins'[p]
    BY <2>1, Joined DEF ProjectInv
  <2>3. Exists(p)' /\ (projects'[p] => u \in admins'[p] /\ u # AutoEnroll)
    BY <1>1, <1>2, <2>2, ProjectAssumption DEF Exists
  <2>4. AskOK(None)' /\ u \in User \cup {AutoEnroll} /\ None \in Asking \cup {None}
    BY DEF AskOK
  <2>5. UNCHANGED projects \/ (~Exists(p) /\ \E i \in BOOLEAN : InsertProject(p, i))
    BY <1>2
  <2>6. QED BY <1>2, <1>4, <2>1, <2>3, <2>4, <2>5, JoinKeepsProjects, Zenon
<1>5. QED BY <1>3, <1>4

LEMMA RemoveKeepsProjects ==
  ASSUME ProjectInv, NEW c \in Client, CommitRemoveMember(c)
  PROVE  ProjectInv'
<1> DEFINE left == <<ask[c].project, ask[c].target>>
           D == DOMAIN members \ {left}
<1>1. ProjectTypeOK
  BY DEF ProjectInv
<1>2. /\ members' = Restrict(members, D)
      /\ UNCHANGED <<projects, admins, guests>> /\ Ask(c, None)
  BY DEF CommitRemoveMember, EndAsk
<1> HIDE DEF left, D
<1>3. D \subseteq DOMAIN members
  BY DEF D
<1>4. DOMAIN members' = D /\ \A m \in D : members'[m] = members[m]
  BY <1>2 DEF Restrict
<1>5. members' \in [D -> Membership] /\ D \in SUBSET (Project \X User)
  BY <1>1, <1>2, <1>3, ProjectTypes DEF Restrict
<1>6. members' \in UNION {[S -> Membership] : S \in SUBSET (Project \X User)}
  BY <1>5
<1>7. /\ ask' \in [Client -> Asking \cup {None}]
      /\ \A d \in Client : ask'[d] = ask[d] \/ ask'[d] = None
  BY <1>1, <1>2 DEF Ask, ProjectTypeOK
<1>8. ProjectTypeOK'
  BY <1>1, <1>2, <1>6, <1>7 DEF ProjectTypeOK
<1>9. MembersOK' /\ InviteOnlyHolds'
  BY <1>2, <1>3, <1>4 DEF ProjectInv, MembersOK, InviteOnlyHolds, Belongs, Exists
<1>10. AsksOK'
  BY <1>2, <1>7 DEF ProjectInv, AsksOK, AskOK, Admitted, Exists
<1>11. QED BY <1>8, <1>9, <1>10 DEF ProjectInv

(* The rows of projects and requests on them, whatever the curation gate does meanwhile. *)
LEMMA StepKeepsProjects ==
  ASSUME ProjectInv, [Next]_vars
  PROVE  ProjectInv'
<1>1. CASE UNCHANGED projectVars
  <2>1. /\ UNCHANGED projects /\ NobodyJoins /\ ask' = ask
    BY <1>1 DEF projectVars, NobodyJoins
  <2>2. QED BY <2>1, ReadingKeepsProjects DEF ProjectInv, ProjectTypeOK
<1>2. ASSUME NEW c \in Client, StartOnProject(c) PROVE ProjectInv'
  BY <1>2, StartKeepsProjects
<1>3. ASSUME NEW c \in Client, CommitOnProject(c) PROVE ProjectInv'
  BY <1>3, EnrolKeepsProjects, CreateKeepsProjects, AddKeepsProjects, RemoveKeepsProjects
  DEF CommitOnProject
<1>4. ASSUME NEW c \in Client, DropAsk(c) PROVE ProjectInv'
  BY <1>4, EndingKeepsProjects DEF DropAsk
<1>5. ASSUME NEW c \in Client, NEW x \in Content, NEW force \in BOOLEAN,
             WriteToProject(c, x, force)
      PROVE  ProjectInv'
  BY <1>5, EndingKeepsProjects DEF WriteToProject
<1>6. CASE RestartAll
  <2>1. /\ UNCHANGED projects /\ NobodyJoins
        /\ ask' \in [Client -> Asking \cup {None}] /\ \A c \in Client : ask'[c] = None
    BY <1>6 DEF RestartAll
  <2>2. AskOK(None)
    BY DEF AskOK
  <2>3. QED BY <2>1, <2>2, ReadingKeepsProjects
<1>7. QED
  BY <1>1, <1>2, <1>3, <1>4, <1>5, <1>6
  DEF Next, vars, StartCall, ContinueCall, WriteForSelf, projectVars

LEMMA InitProjects == Init => ProjectInv
<1> SUFFICES ASSUME Init PROVE ProjectInv
  OBVIOUS
<1>1. /\ DOMAIN projects = {} /\ DOMAIN members = {}
      /\ projects \in [{} -> BOOLEAN] /\ members \in [{} -> Membership]
      /\ ask \in [Client -> Asking \cup {None}] /\ \A c \in Client : ask[c] = None
      /\ admins \in [Project -> SUBSET User] /\ guests \in [Project -> SUBSET User]
  BY DEF Init, ProjectInit
<1>2. ProjectTypeOK
  BY <1>1 DEF ProjectTypeOK
<1>3. MembersOK /\ InviteOnlyHolds /\ AsksOK
  BY <1>1 DEF MembersOK, InviteOnlyHolds, AsksOK, AskOK, Belongs
<1>4. QED BY <1>2, <1>3 DEF ProjectInv

(* Nobody is in an invite-only project by himself, or by somebody who never was an admin. *)
THEOREM InviteOnlyAlwaysHolds == Spec => []InviteOnlyHolds
<1>1. ProjectInv /\ [Next]_vars => ProjectInv'
  BY StepKeepsProjects
<1>2. ProjectInv => InviteOnlyHolds
  BY DEF ProjectInv
<1>3. QED BY <1>1, <1>2, InitProjects, PTL DEF Spec

------------------------------------------------------------------------------
(* Sequences of rows *)

LEMMA Appended ==
  ASSUME NEW S, NEW seq \in Seq(S), NEW e \in S
  PROVE  /\ Append(seq, e) \in Seq(S)
         /\ Len(Append(seq, e)) = Len(seq) + 1
         /\ Len(seq) \in Nat
         /\ DOMAIN seq = 1..Len(seq)
         /\ DOMAIN Append(seq, e) = DOMAIN seq \cup {Len(seq) + 1}
         /\ Len(seq) + 1 \notin DOMAIN seq
         /\ \A i \in DOMAIN seq : Append(seq, e)[i] = seq[i]
         /\ Append(seq, e)[Len(seq) + 1] = e
<1>1. Append(seq, e) \in Seq(S) /\ Len(Append(seq, e)) = Len(seq) + 1
  BY AppendProperties
<1>2. /\ Len(seq) \in Nat /\ DOMAIN seq = 1..Len(seq)
      /\ DOMAIN Append(seq, e) = 1..(Len(seq) + 1)
  BY <1>1, LenProperties
<1>3. QED BY <1>1, <1>2, AppendProperties

LEMMA Changed ==
  ASSUME NEW S, NEW seq \in Seq(S), NEW g, g = [i \in DOMAIN seq |-> g[i]],
         \A i \in DOMAIN seq : g[i] \in S
  PROVE  g \in Seq(S) /\ Len(g) = Len(seq) /\ DOMAIN g = DOMAIN seq
<1>1. DOMAIN seq = 1..Len(seq) /\ Len(seq) \in Nat
  BY LenProperties
<1>2. g \in [1..Len(seq) -> S]
  BY <1>1
<1>3. g \in Seq(S)
  BY <1>1, <1>2, SeqDef
<1>4. QED BY <1>1, <1>3, LenProperties

LEMMA RowTypes ==
  ASSUME CurationTypeOK
  PROVE  /\ \A r \in DOMAIN rules : rules[r] \in Rule /\ r \in RuleId
         /\ Len(rules) \in Nat /\ DOMAIN rules = 1..Len(rules)
         /\ \A i \in DOMAIN memories : memories[i] \in Memory
         /\ Len(memories) \in Nat /\ DOMAIN memories = 1..Len(memories)
<1>1. /\ Len(rules) \in Nat /\ DOMAIN rules = 1..Len(rules)
      /\ Len(memories) \in Nat /\ DOMAIN memories = 1..Len(memories)
  BY LenProperties DEF CurationTypeOK
<1>2. /\ \A r \in DOMAIN rules : rules[r] \in Rule
      /\ \A i \in DOMAIN memories : memories[i] \in Memory
  BY <1>1, ElementOfSeq DEF CurationTypeOK
<1>3. QED BY <1>1, <1>2, CurationAssumption DEF CurationTypeOK, RuleId

------------------------------------------------------------------------------
(* The gate *)

(* What each request on the gate holds. *)
LEMMA DraftKinds ==
  ASSUME CurationTypeOK, NEW c \in Client
  PROVE  /\ draft[c] \in Draft \cup {None}
         /\ Drafting(c, "seed") \/ Drafting(c, "scan") =>
              /\ draft[c].user \in User /\ draft[c].place \in Place
              /\ draft[c].content \in Content /\ draft[c].force \in BOOLEAN
         /\ Drafting(c, "seed") => draft[c].found \in BOOLEAN
         /\ Drafting(c, "compare") =>
              /\ draft[c].user \in User /\ draft[c].place \in Place
              /\ draft[c].content \in Content /\ draft[c].gated \in BOOLEAN
         /\ Drafting(c, "insert") => draft[c].memory \in Memory
         /\ Drafting(c, "set") => /\ draft[c].user \in User /\ draft[c].name \in RuleName
                                  /\ draft[c].setting \in Settings
                                  /\ draft[c].row \in RuleId \cup {None}
         /\ Drafting(c, "delete") => draft[c].row \in RuleId
<1>1. draft[c] \in Draft \cup {None}
  BY DEF CurationTypeOK
<1>2. QED BY <1>1 DEF Draft, Drafting

Same(m, n) == m.owner = n.owner /\ SameScope(m.place, n.place) /\ m.content = n.content

(* The scan is not weak, or an administrator has made it so. *)
Guarded == weakened \/ ~Weak

(* Nobody has written a rule for all: the first seed is still to come. *)
Untouched == \A r \in DOMAIN rules : rules[r].layer = "user"

PlaceOK(p, u) == p # None => Admitted(p, u)

MemoryOK(m) == PlaceOK(m.place, m.owner) /\ (m.content \in Secret => weakened)

(* What was compared is like nothing that it was compared with. *)
ComparedOK(m) ==
  /\ m.saw <= Len(memories)
  /\ m.gated => \A i \in 1..m.saw : ~Same(memories[i], m)

(* What a request on the gate has read stays true as far as it matters. *)
DraftOK(d) ==
  d # None =>
    /\ d.op \in {"seed", "scan", "compare"} => PlaceOK(d.place, d.user)
    /\ d.op = "scan" \/ (d.op = "seed" /\ d.found) => Guarded
    /\ d.op = "compare" => (d.content \in Secret => weakened)
    /\ d.op = "insert" => MemoryOK(d.memory) /\ ComparedOK(d.memory)
    /\ d.op = "set" /\ d.row # None => d.row \in DOMAIN rules /\ rules[d.row].layer = "user"

RulesOK == (Guarded \/ Untouched) /\ (seeded => Guarded)
DraftsOK == \A c \in Client : DraftOK(draft[c])
MemoriesOK == \A i \in DOMAIN memories : MemoryOK(memories[i])

GateInv ==
  /\ CurationTypeOK /\ RulesOK /\ DraftsOK /\ MemoriesOK /\ DuplicatesComeFromOverlaps

(* What no step undoes. *)
Grows ==
  /\ \A p, u : Admitted(p, u) => Admitted(p, u)'
  /\ Guarded => Guarded'
  /\ weakened => weakened'
  /\ DOMAIN rules \subseteq DOMAIN rules'
  /\ \A r \in DOMAIN rules : rules'[r].layer = rules[r].layer

(* What has been read stays true when things grow and memories are added. *)
LEMMA GrowthKeepsDrafts ==
  ASSUME CurationTypeOK, Grows, Len(memories) \in Nat, Len(memories') \in Nat,
         Len(memories) <= Len(memories'),
         \A i \in 1..Len(memories) : memories'[i] = memories[i],
         NEW d \in Draft, d # None, DraftOK(d)
  PROVE  DraftOK(d)'
<1>1. ASSUME d.op = "insert" PROVE MemoryOK(d.memory)' /\ ComparedOK(d.memory)'
  <2>1. d.memory \in Memory
    BY <1>1 DEF Draft
  <2>2. MemoryOK(d.memory) /\ ComparedOK(d.memory)
    BY <1>1 DEF DraftOK
  <2>3. MemoryOK(d.memory)'
    BY <2>2 DEF Grows, MemoryOK, PlaceOK
  <2>4. d.memory.saw \in Nat
    BY <2>1 DEF Memory
  <2>5. ComparedOK(d.memory)'
    BY <2>2, <2>4 DEF ComparedOK, Same
  <2>6. QED BY <2>3, <2>5
<1>2. d.op \in {"seed", "scan", "compare"} => PlaceOK(d.place, d.user)'
  BY DEF DraftOK, Grows, PlaceOK
<1>3. QED BY <1>1, <1>2 DEF DraftOK, Grows

(* A step that stores no memory: the rules and the drafts are what is left to show. *)
LEMMA NoMemoryStep ==
  ASSUME GateInv, Grows, memories' = memories, CurationTypeOK', RulesOK',
         \A c \in Client :
           draft'[c] = draft[c] \/ \E d \in Draft \cup {None} : draft'[c] = d /\ DraftOK(d)'
  PROVE  GateInv'
<1>1. CurationTypeOK /\ Len(memories) \in Nat /\ Len(memories) <= Len(memories')
  BY RowTypes DEF GateInv
<1>2. DraftsOK'
  <2> SUFFICES ASSUME NEW c \in Client PROVE DraftOK(draft[c])'
    BY DEF DraftsOK
  <2>1. CASE draft'[c] = draft[c]
    <3>1. DraftOK(draft[c]) /\ draft[c] \in Draft \cup {None}
      BY <1>1, DraftKinds DEF GateInv, DraftsOK
    <3>2. PICK d \in Draft \cup {None} : d = draft[c]
      BY <3>1
    <3>3. DraftOK(d)'
      BY <1>1, <3>1, <3>2, GrowthKeepsDrafts DEF DraftOK
    <3>4. QED BY <2>1, <3>2, <3>3 DEF DraftOK
  <2>2. CASE \E d \in Draft \cup {None} : draft'[c] = d /\ DraftOK(d)'
    BY <2>2 DEF DraftOK
  <2>3. QED BY <2>1, <2>2
<1>3. MemoriesOK'
  BY DEF GateInv, MemoriesOK, MemoryOK, PlaceOK, Grows
<1>4. DuplicatesComeFromOverlaps'
  BY DEF GateInv, DuplicatesComeFromOverlaps
<1>5. QED BY <1>2, <1>3, <1>4 DEF GateInv

------------------------------------------------------------------------------
(* Rules *)

(* The rows that are in force in a layer. *)
EnabledRows(layer) ==
  {r \in RowsOf(layer, None, "scan") \cap CurrentRows : rules[r].enabled}

LEMMA EnabledRow ==
  ASSUME NEW layer, NEW r
  PROVE  r \in EnabledRows(layer) <=>
           /\ r \in DOMAIN rules
           /\ rules[r].layer = layer /\ rules[r].owner = None /\ rules[r].name = "scan"
           /\ rules[r].state = "current" /\ rules[r].enabled
BY DEF EnabledRows, RowsOf, CurrentRows, Rows

(* The rules of users make the scan neither weaker nor stronger. *)
LEMMA UserRulesChangeNothing ==
  ASSUME DOMAIN rules \subseteq DOMAIN rules',
         \A r \in DOMAIN rules :
           rules'[r] = rules[r] \/ (rules[r].layer = "user" /\ rules'[r].layer = "user"),
         \A r \in DOMAIN rules' \ DOMAIN rules : rules'[r].layer = "user"
  PROVE  (Weak' <=> Weak) /\ (Untouched => Untouched')
<1>1. ASSUME NEW layer \in {"system", "organizational"}
      PROVE  InLayer(layer, None, "scan")' = InLayer(layer, None, "scan")
  <2>1. \A r : r \in EnabledRows(layer)' <=> r \in EnabledRows(layer)
    BY DEF EnabledRows, RowsOf, CurrentRows, Rows
  <2>2. \A r \in EnabledRows(layer) : rules'[r] = rules[r]
    BY DEF EnabledRows, RowsOf, CurrentRows, Rows
  <2>3. EnabledRows(layer)' = EnabledRows(layer)
    BY <2>1
  <2>4. {rules'[r] : r \in EnabledRows(layer)'} = {rules[r] : r \in EnabledRows(layer)}
    BY <2>2, <2>3
  <2>5. QED BY <2>3, <2>4 DEF InLayer, EnabledRows
<1>2. Weak' <=> Weak
  BY <1>1 DEF Weak, Over
<1>3. Untouched => Untouched'
  BY DEF Untouched
<1>4. QED BY <1>2, <1>3

LEMMA DefaultRules ==
  /\ Defaults \in Seq(Rule) /\ Len(Defaults) = 2
  /\ Defaults[1].name = "scan" /\ Defaults[1].layer = "system" /\ Defaults[1].owner = None
  /\ Defaults[1].state = "current" /\ Defaults[1].enabled /\ Defaults[1].strict
  /\ Defaults[1].override
  /\ Defaults[2].name = "duplicate" /\ Defaults[2].layer = "system"
BY DEF Defaults, NewRule, Rule, RuleName, Layer

(* The rules of the seed make the scan strict, whatever was there before. *)
LEMMA SeedGuards ==
  ASSUME CurationTypeOK, Guarded \/ Untouched, rules' = rules \o Defaults,
         weakened' = weakened
  PROVE  /\ Guarded'
         /\ rules' \in Seq(Rule) /\ Len(rules') = Len(rules) + 2
         /\ DOMAIN rules \subseteq DOMAIN rules'
         /\ \A r \in DOMAIN rules : rules'[r] = rules[r]
<1> DEFINE n == Len(rules)
<1>1. n \in Nat /\ DOMAIN rules = 1..n /\ rules \in Seq(Rule)
  BY RowTypes DEF CurationTypeOK
<1>2. /\ rules' \in Seq(Rule) /\ Len(rules') = n + 2
      /\ \A r \in 1..(n + 2) : rules'[r] = IF r <= n THEN rules[r] ELSE Defaults[r - n]
  <2>1. Defaults \in Seq(Rule) /\ Len(Defaults) = 2
    BY DefaultRules
  <2>2. /\ rules \o Defaults \in Seq(Rule) /\ Len(rules \o Defaults) = n + 2
        /\ \A r \in 1..(n + 2) :
             (rules \o Defaults)[r] = IF r <= n THEN rules[r] ELSE Defaults[r - n]
    <3>1. /\ rules \o Defaults \in Seq(Rule)
          /\ Len(rules \o Defaults) = Len(rules) + Len(Defaults)
          /\ \A r \in 1..(Len(rules) + Len(Defaults)) :
               (rules \o Defaults)[r] =
                 IF r <= Len(rules) THEN rules[r] ELSE Defaults[r - Len(rules)]
      BY <1>1, <2>1, ConcatProperties, Zenon
    <3>2. QED BY <2>1, <3>1
  <2>3. QED BY <2>2
<1>3. DOMAIN rules' = 1..(n + 2)
  BY <1>2, LenProperties
<1>4. /\ DOMAIN rules \subseteq DOMAIN rules'
      /\ \A r \in DOMAIN rules : rules'[r] = rules[r]
      /\ n + 1 \in DOMAIN rules' /\ rules'[n + 1] = Defaults[1]
      /\ n + 2 \in DOMAIN rules' /\ rules'[n + 2] = Defaults[2]
      /\ \A r \in DOMAIN rules' : r \in DOMAIN rules \/ r = n + 1 \/ r = n + 2
  BY <1>1, <1>2, <1>3
<1> HIDE DEF n
<1>5. n + 1 \in EnabledRows("system")'
  BY <1>4, DefaultRules DEF EnabledRows, RowsOf, CurrentRows, Rows
<1>6. \A r \in EnabledRows("system")' : r = n + 1 \/ r \in EnabledRows("system")
  BY <1>4, DefaultRules DEF EnabledRows, RowsOf, CurrentRows, Rows
<1>7. \A r : r \in EnabledRows("organizational")' <=> r \in EnabledRows("organizational")
  BY <1>4, DefaultRules DEF EnabledRows, RowsOf, CurrentRows, Rows
<1>8. \A r \in EnabledRows("organizational") : rules'[r] = rules[r]
  BY <1>4 DEF EnabledRows, RowsOf, CurrentRows, Rows
<1>9. InLayer("organizational", None, "scan")' = InLayer("organizational", None, "scan")
  <2>1. EnabledRows("organizational")' = EnabledRows("organizational")
    BY <1>7
  <2>2. {rules'[r] : r \in EnabledRows("organizational")'}
          = {rules[r] : r \in EnabledRows("organizational")}
    BY <1>8, <2>1
  <2>3. QED BY <2>1, <2>2 DEF InLayer, EnabledRows
<1>10. ASSUME NEW s \in InLayer("system", None, "scan")'
       PROVE  s = Defaults[1] \/ (s \in InLayer("system", None, "scan") /\ ~Untouched)
  <2>1. PICK r \in EnabledRows("system")' : s = rules'[r]
    BY <1>5 DEF InLayer, EnabledRows
  <2>2. CASE r = n + 1
    BY <1>4, <2>1, <2>2
  <2>3. CASE r \in EnabledRows("system")
    <3>1. r \in DOMAIN rules /\ rules[r].layer = "system"
      BY <2>3, EnabledRow
    <3>2. s = rules[r] /\ ~Untouched
      BY <1>4, <2>1, <3>1 DEF Untouched
    <3>3. QED BY <2>3, <3>2 DEF InLayer, EnabledRows
  <2>4. QED BY <1>6, <2>1, <2>2, <2>3
<1>11. Defaults[1] # None
  <2>1. Defaults[1] \in Rule
    <3>1. Defaults \in Seq(Rule) /\ 1 \in 1..Len(Defaults)
      BY DefaultRules
    <3>2. QED BY <3>1, ElementOfSeq
  <2>2. QED BY <2>1, NoneIsNoRule
<1>12. \A o : Over(Defaults[1], o) = Defaults[1]
  BY <1>11, DefaultRules DEF Over
<1>13. ~weakened => ~Weak'
  BY <1>9, <1>10, <1>11, <1>12, DefaultRules DEF Weak, Guarded, Over
<1>14. QED BY <1>2, <1>4, <1>13 DEF Guarded, n

(* What a scan that is not weak lets pass. *)
LEMMA ScanStops ==
  ASSUME ~Weak, NEW u, NEW scan \in InForce(u, "scan")
  PROVE  scan # None /\ scan.strict
<1>1. PICK s \in InLayer("system", None, "scan"),
           o \in InLayer("organizational", None, "scan"),
           v \in InLayer("user", u, "scan") : scan = Over(Over(s, o), v)
  BY DEF InForce
<1>2. Over(s, o) # None /\ Over(s, o).strict /\ Over(s, o).override
  BY DEF Weak
<1>3. Over(Over(s, o), v) = Over(s, o)
  BY <1>2 DEF Over
<1>4. QED BY <1>1, <1>2, <1>3

------------------------------------------------------------------------------
(* Steps of the gate *)

(* Who was admitted remains so: projects are not shut, and guests are for ever. *)
LEMMA AdmissionLasts ==
  ASSUME ProjectInv, [Next]_vars
  PROVE  \A p, u : Admitted(p, u) => Admitted(p, u)'
<1>1. ProjectTypeOK
  BY DEF ProjectInv
<1> DEFINE Lasting == /\ DOMAIN projects \subseteq DOMAIN projects'
                      /\ \A p \in DOMAIN projects : projects'[p] = projects[p]
                      /\ \A p \in Project : guests[p] \subseteq guests'[p]
<1>2. ASSUME UNCHANGED <<projects, guests>> PROVE Lasting
  BY <1>2
<1>3. ASSUME NEW c \in Client, CommitOnProject(c) PROVE Lasting
  <2>1. CASE CommitEnroll(c)
    <3>1. PICK p \in Project, u \in User : p = ask[c].project /\ u = ask[c].user
      BY <1>1, <2>1, AskKinds DEF CommitEnroll
    <3>2. /\ UNCHANGED projects \/ (~Exists(p) /\ InsertProject(p, FALSE))
          /\ UNCHANGED guests \/ Join(p, u, "member", AutoEnroll)
      BY <2>1, <3>1 DEF CommitEnroll, NobodyJoins
    <3>3. UNCHANGED guests
      BY <3>2 DEF Join
    <3>4. QED BY <3>2, <3>3 DEF InsertProject, Exists
  <2>2. CASE CommitCreateProject(c)
    <3>1. PICK p \in Project, u \in User : p = ask[c].project /\ u = ask[c].user
      BY <1>1, <2>2, AskKinds DEF CommitCreateProject
    <3>2. \/ UNCHANGED projects /\ UNCHANGED guests
          \/ /\ ~Exists(p) /\ InsertProject(p, ask[c].inviteOnly)
             /\ Join(p, u, "admin", u) /\ "admin" \in Role
      BY <2>2, <3>1 DEF CommitCreateProject, NobodyJoins, Role
    <3>3. \A q \in Project : guests[q] \subseteq guests'[q]
      BY <1>1, <3>2, Joined
    <3>4. QED BY <3>2, <3>3 DEF InsertProject, Exists
  <2>3. CASE CommitAddMember(c)
    <3>1. PICK p \in Project, u \in User, target \in User, role \in Role :
            /\ p = ask[c].project /\ u = ask[c].user
            /\ target = ask[c].target /\ role = ask[c].role
      BY <1>1, <2>3, AskKinds DEF CommitAddMember
    <3>2. UNCHANGED projects /\ (UNCHANGED guests \/ Join(p, target, role, u))
      BY <2>3, <3>1 DEF CommitAddMember, NobodyJoins
    <3>3. \A q \in Project : guests[q] \subseteq guests'[q]
      BY <1>1, <3>2, Joined
    <3>4. QED BY <3>2, <3>3
  <2>4. CASE CommitRemoveMember(c)
    BY <2>4 DEF CommitRemoveMember
  <2>5. QED BY <1>3, <2>1, <2>2, <2>3, <2>4 DEF CommitOnProject
<1>4. ASSUME NEW c \in Client, StartOnProject(c) \/ DropAsk(c) PROVE Lasting
  BY <1>4 DEF StartOnProject, StartEnroll, StartCreateProject, StartAddMember,
              StartRemoveMember, DropAsk, NobodyJoins
<1>5. Lasting
  BY <1>2, <1>3, <1>4
  DEF Next, vars, projectVars, StartCall, ContinueCall, WriteForSelf, WriteToProject,
      RestartAll, NobodyJoins
<1>6. QED BY <1>1, <1>5, ProjectTypes DEF Admitted, Exists

(* A step of one request that changes no rule that matters and stores no memory. *)
LEMMA DraftStep ==
  ASSUME GateInv, Grows, RulesOK', memories' = memories,
         NEW c \in Client, NEW d \in Draft \cup {None}, Continue(c, d), DraftOK(d)',
         rules' \in Seq(Rule), Len(rules') <= MaxRules, seeded' \in BOOLEAN,
         weakened' \in BOOLEAN
  PROVE  GateInv'
<1>1. /\ draft' \in [Client -> Draft \cup {None}]
      /\ \A e \in Client : draft'[e] = IF e = c THEN d ELSE draft[e]
  BY DEF Continue, GateInv, CurationTypeOK
<1>2. CurationTypeOK'
  BY <1>1 DEF GateInv, CurationTypeOK
<1>3. \A e \in Client :
        draft'[e] = draft[e] \/ \E f \in Draft \cup {None} : draft'[e] = f /\ DraftOK(f)'
  BY <1>1
<1>4. QED BY <1>2, <1>3, NoMemoryStep

LEMMA SameRules ==
  ASSUME UNCHANGED <<rules, seeded, weakened>>
  PROVE  /\ Weak' <=> Weak
         /\ Guarded' <=> Guarded
         /\ Untouched' <=> Untouched
         /\ RulesOK => RulesOK'
<1>1. Weak' <=> Weak
  BY DEF Weak, InLayer, RowsOf, CurrentRows, Rows, Over
<1>2. QED BY <1>1 DEF Guarded, Untouched, RulesOK

(* A step of one request that changes nothing else. *)
LEMMA QuietDraft ==
  ASSUME GateInv, \A p, u : Admitted(p, u) => Admitted(p, u)',
         NEW c \in Client, NEW d \in Draft \cup {None}, Continue(c, d), DraftOK(d),
         UNCHANGED <<rules, seeded, memories, weakened>>
  PROVE  GateInv'
<1>1. Grows /\ RulesOK'
  BY SameRules DEF Grows, GateInv
<1>2. CurationTypeOK /\ Len(memories) \in Nat
  BY RowTypes DEF GateInv
<1>3. DraftOK(d)'
  <2>1. CASE d = None
    BY <2>1 DEF DraftOK
  <2>2. CASE d # None
    BY <1>1, <1>2, <2>2, GrowthKeepsDrafts
  <2>3. QED BY <2>1, <2>2
<1>4. QED BY <1>1, <1>2, <1>3, DraftStep DEF CurationTypeOK

LEMMA StartWriteKeepsGate ==
  ASSUME GateInv, \A p, u : Admitted(p, u) => Admitted(p, u)',
         NEW c \in Client, NEW u \in User, NEW place \in Place, NEW x \in Content,
         NEW force \in BOOLEAN, StartWrite(c, u, place, x, force), PlaceOK(place, u)
  PROVE  GateInv'
<1> DEFINE found == \E r \in CurrentRows : rules[r].layer = "system"
           d == IF seeded
                THEN [op |-> "scan", user |-> u, place |-> place, content |-> x,
                      force |-> force]
                ELSE [op |-> "seed", user |-> u, place |-> place, content |-> x,
                      force |-> force, found |-> found]
<1>1. Continue(c, d) /\ UNCHANGED <<rules, seeded, memories, weakened>>
  BY DEF StartWrite
<1>2. found \in BOOLEAN /\ seeded \in BOOLEAN
  BY DEF GateInv, CurationTypeOK
<1>3. d \in Draft
  BY <1>2 DEF Draft
<1>4. found => Guarded
  BY DEF GateInv, RulesOK, Untouched, CurrentRows, Rows
<1>5. DraftOK(d)
  BY <1>4 DEF DraftOK, GateInv, RulesOK
<1> HIDE DEF d
<1>6. QED BY <1>1, <1>3, <1>5, QuietDraft

LEMMA SeedKeepsGate ==
  ASSUME GateInv, \A p, u : Admitted(p, u) => Admitted(p, u)', NEW c \in Client, Seed(c)
  PROVE  GateInv'
<1>1. PICK d : d = [op |-> "scan", user |-> draft[c].user, place |-> draft[c].place,
                    content |-> draft[c].content, force |-> draft[c].force]
  OBVIOUS
<1>2. /\ Drafting(c, "seed") /\ Continue(c, d) /\ seeded' = TRUE
      /\ UNCHANGED <<memories, weakened>>
      /\ Len(rules) + Len(Defaults) <= MaxRules \/ draft[c].found
      /\ rules' = IF draft[c].found THEN rules ELSE rules \o Defaults
  BY <1>1 DEF Seed
<1>3. CurationTypeOK /\ d \in Draft
  BY <1>1, <1>2, DraftKinds DEF GateInv, Draft
<1>4. /\ draft[c] # None /\ PlaceOK(d.place, d.user) /\ d.op = "scan"
      /\ draft[c].found => Guarded
  BY <1>1, <1>2 DEF GateInv, DraftsOK, DraftOK, Drafting
<1>5. /\ Guarded' /\ rules' \in Seq(Rule) /\ Len(rules') <= MaxRules
      /\ DOMAIN rules \subseteq DOMAIN rules'
      /\ \A r \in DOMAIN rules : rules'[r] = rules[r]
  <2>1. CASE draft[c].found
    <3>1. rules' = rules /\ Guarded
      BY <1>2, <1>4, <2>1
    <3>2. Weak' <=> Weak
      BY <3>1 DEF Weak, InLayer, RowsOf, CurrentRows, Rows, Over
    <3>3. QED BY <1>2, <1>3, <3>1, <3>2 DEF Guarded, CurationTypeOK
  <2>2. CASE ~draft[c].found
    <3>1. rules' = rules \o Defaults /\ Len(rules) + 2 <= MaxRules
      BY <1>2, <2>2, DefaultRules
    <3>2. Guarded \/ Untouched
      BY DEF GateInv, RulesOK
    <3>3. QED BY <1>2, <1>3, <3>1, <3>2, SeedGuards
  <2>3. QED BY <2>1, <2>2
<1>6. Grows /\ RulesOK'
  BY <1>2, <1>5 DEF Grows, RulesOK
<1>7. DraftOK(d)'
  BY <1>4, <1>5 DEF DraftOK, PlaceOK
<1>8. QED BY <1>2, <1>3, <1>5, <1>6, <1>7, DraftStep DEF CurationTypeOK

LEMMA ScanKeepsGate ==
  ASSUME GateInv, \A p, u : Admitted(p, u) => Admitted(p, u)', NEW c \in Client, Scan(c)
  PROVE  GateInv'
<1>1. PICK scan \in InForce(draft[c].user, "scan"), dup \in InForce(draft[c].user, "duplicate") :
        Continue(c, IF draft[c].content \in Secret /\ scan # None /\ scan.strict THEN None
                    ELSE [op |-> "compare", user |-> draft[c].user, place |-> draft[c].place,
                          content |-> draft[c].content,
                          gated |-> ~draft[c].force /\ (dup = None \/ dup.strict)])
  BY DEF Scan
<1>2. Drafting(c, "scan") /\ UNCHANGED <<rules, seeded, memories, weakened>>
  BY DEF Scan
<1>3. PICK d : d = [op |-> "compare", user |-> draft[c].user, place |-> draft[c].place,
                    content |-> draft[c].content,
                    gated |-> ~draft[c].force /\ (dup = None \/ dup.strict)]
  OBVIOUS
<1>4. d \in Draft
  <2>1. (~draft[c].force /\ (dup = None \/ dup.strict)) \in BOOLEAN
    OBVIOUS
  <2>2. QED BY <1>2, <1>3, <2>1, DraftKinds DEF GateInv, Draft
<1>5. draft[c] # None /\ PlaceOK(draft[c].place, draft[c].user) /\ Guarded
  BY <1>2 DEF GateInv, DraftsOK, DraftOK, Drafting
<1>6. DraftOK(None)
  BY DEF DraftOK
<1>7. CASE draft[c].content \in Secret /\ scan # None /\ scan.strict
  BY <1>1, <1>2, <1>6, <1>7, QuietDraft
<1>8. CASE ~(draft[c].content \in Secret /\ scan # None /\ scan.strict)
  <2>1. draft[c].content \in Secret => weakened
    BY <1>5, <1>8, ScanStops DEF Guarded
  <2>2. DraftOK(d)
    BY <1>3, <1>5, <2>1 DEF DraftOK
  <2>3. Continue(c, d)
    BY <1>1, <1>3, <1>8
  <2>4. QED BY <1>2, <1>4, <2>2, <2>3, QuietDraft
<1>9. QED BY <1>7, <1>8

LEMMA CompareKeepsGate ==
  ASSUME GateInv, \A p, u : Admitted(p, u) => Admitted(p, u)', NEW c \in Client, Compare(c)
  PROVE  GateInv'
<1>1. PICK m : m = [owner |-> draft[c].user, place |-> draft[c].place,
                    content |-> draft[c].content, gated |-> draft[c].gated,
                    saw |-> Len(memories)]
  OBVIOUS
<1>2. PICK d : d = [op |-> "insert", memory |-> m]
  OBVIOUS
<1>3. /\ Drafting(c, "compare") /\ UNCHANGED <<rules, seeded, memories, weakened>>
      /\ Continue(c, IF draft[c].gated
                         /\ Similar(draft[c].user, draft[c].place, draft[c].content) # {}
                     THEN None ELSE d)
  BY <1>1, <1>2 DEF Compare
<1>4. CurationTypeOK /\ Len(memories) \in Nat /\ DOMAIN memories = 1..Len(memories)
  BY RowTypes DEF GateInv
<1>5. m \in Memory
  BY <1>1, <1>3, <1>4, DraftKinds DEF Memory
<1>6. d \in Draft
  BY <1>2, <1>5 DEF Draft
<1>7. CASE draft[c].gated /\ Similar(draft[c].user, draft[c].place, draft[c].content) # {}
  BY <1>3, <1>7, QuietDraft DEF DraftOK
<1>8. CASE ~(draft[c].gated
             /\ Similar(draft[c].user, draft[c].place, draft[c].content) # {})
  <2>1. /\ draft[c] # None /\ PlaceOK(draft[c].place, draft[c].user)
        /\ draft[c].content \in Secret => weakened
    BY <1>3 DEF GateInv, DraftsOK, DraftOK, Drafting
  <2>2. MemoryOK(m)
    BY <1>1, <2>1 DEF MemoryOK
  <2>3. ComparedOK(m)
    BY <1>1, <1>4, <1>8 DEF ComparedOK, Similar, Same
  <2>4. DraftOK(d)
    BY <1>2, <2>2, <2>3 DEF DraftOK
  <2>5. QED BY <1>3, <1>6, <1>8, <2>4, QuietDraft
<1>9. QED BY <1>7, <1>8

LEMMA InsertKeepsGate ==
  ASSUME GateInv, \A p, u : Admitted(p, u) => Admitted(p, u)', NEW c \in Client,
         CommitWrite(c)
  PROVE  GateInv'
<1>1. CurationTypeOK
  BY DEF GateInv
<1>2. PICK m \in Memory : m = draft[c].memory
  BY <1>1, DraftKinds DEF CommitWrite
<1> DEFINE n == Len(memories)
<1>3. /\ memories' \in Seq(Memory) /\ Len(memories') = n + 1 /\ n \in Nat
      /\ DOMAIN memories = 1..n /\ DOMAIN memories' = DOMAIN memories \cup {n + 1}
      /\ \A i \in DOMAIN memories : memories'[i] = memories[i]
      /\ memories'[n + 1] = m
  BY <1>1, <1>2, Appended DEF CommitWrite, CurationTypeOK
<1>4. UNCHANGED <<rules, seeded, weakened>> /\ Continue(c, None)
  BY DEF CommitWrite, EndDraft
<1>5. Grows /\ RulesOK'
  BY <1>4, SameRules DEF Grows, GateInv
<1>6. MemoryOK(m) /\ ComparedOK(m)
  BY <1>2 DEF CommitWrite, GateInv, DraftsOK, DraftOK, Drafting
<1> HIDE DEF n
<1>7. /\ draft' \in [Client -> Draft \cup {None}]
      /\ \A e \in Client : draft'[e] = IF e = c THEN None ELSE draft[e]
  BY <1>1, <1>4 DEF Continue, CurationTypeOK
<1>8. CurationTypeOK'
  BY <1>1, <1>3, <1>4, <1>7 DEF CurationTypeOK
<1>9. DraftsOK'
  <2> SUFFICES ASSUME NEW e \in Client PROVE DraftOK(draft[e])'
    BY DEF DraftsOK
  <2>1. CASE e = c
    BY <1>7, <2>1 DEF DraftOK
  <2>2. CASE e # c
    <3>1. DraftOK(draft[e]) /\ draft[e] \in Draft \cup {None}
      BY <1>1, DraftKinds DEF GateInv, DraftsOK
    <3>2. PICK d \in Draft \cup {None} : d = draft[e]
      BY <3>1
    <3>3. /\ n = Len(memories) /\ Len(memories) <= Len(memories') /\ Len(memories') \in Nat
          /\ \A i \in 1..Len(memories) : memories'[i] = memories[i]
      BY <1>3 DEF n
    <3>4. CASE d = None
      BY <1>7, <2>2, <3>2, <3>4 DEF DraftOK
    <3>5. CASE d # None
      <4>1. DraftOK(d)'
        BY <1>1, <1>3, <1>5, <3>1, <3>2, <3>3, <3>5, GrowthKeepsDrafts
      <4>2. QED BY <1>7, <2>2, <3>2, <4>1 DEF DraftOK
    <3>6. QED BY <3>4, <3>5
  <2>3. QED BY <2>1, <2>2
<1>10. MemoriesOK'
  <2>1. \A k : MemoryOK(k) => MemoryOK(k)'
    BY <1>5 DEF MemoryOK, PlaceOK, Grows
  <2>2. \A i \in DOMAIN memories' : i \in DOMAIN memories \/ i = n + 1
    BY <1>3
  <2>3. QED BY <1>3, <1>6, <2>1, <2>2 DEF GateInv, MemoriesOK, MemoryOK, PlaceOK
<1>11. DuplicatesComeFromOverlaps'
  <2> SUFFICES ASSUME NEW i \in DOMAIN memories', NEW j \in DOMAIN memories', i < j,
                      Same(memories'[i], memories'[j]), memories'[j].gated
               PROVE  memories'[j].saw < i
    BY DEF DuplicatesComeFromOverlaps, Same
  <2>1. CASE j \in DOMAIN memories
    <3>1. i \in DOMAIN memories
      BY <1>3, <2>1
    <3>2. QED BY <1>3, <2>1, <3>1 DEF GateInv, DuplicatesComeFromOverlaps, Same
  <2>2. CASE j = n + 1
    <3>1. i \in 1..n /\ memories'[i] = memories[i] /\ memories'[j] = m
      BY <1>3, <2>2
    <3>2. ~(i \in 1..m.saw) /\ m.saw \in Nat
      BY <1>6, <3>1 DEF ComparedOK, Same, Memory
    <3>3. QED BY <3>1, <3>2
  <2>3. QED BY <1>3, <2>1, <2>2
<1>12. QED BY <1>5, <1>8, <1>9, <1>10, <1>11 DEF GateInv

LEMMA StartSetKeepsGate ==
  ASSUME GateInv, \A p, u : Admitted(p, u) => Admitted(p, u)', NEW c \in Client,
         NEW u \in User, NEW name \in RuleName, NEW setting \in Settings,
         StartSetRule(c, u, name, setting)
  PROVE  GateInv'
<1> DEFINE own == RowsOf("user", u, name)
<1>1. PICK row \in IF own = {} THEN {None} ELSE own :
        Continue(c, [op |-> "set", user |-> u, name |-> name, setting |-> setting,
                     row |-> row])
  BY DEF StartSetRule
<1>2. PICK d : d = [op |-> "set", user |-> u, name |-> name, setting |-> setting, row |-> row]
  OBVIOUS
<1>3. row = None \/ (row \in DOMAIN rules /\ rules[row].layer = "user")
  BY DEF RowsOf, Rows
<1>4. row \in RuleId \cup {None}
  BY <1>3, RowTypes DEF GateInv
<1>5. d \in Draft
  BY <1>2, <1>4 DEF Draft
<1>6. DraftOK(d)
  BY <1>2, <1>3 DEF DraftOK
<1>7. Continue(c, d) /\ UNCHANGED <<rules, seeded, memories, weakened>>
  BY <1>1, <1>2 DEF StartSetRule
<1>8. QED BY <1>5, <1>6, <1>7, QuietDraft

LEMMA CommitSetKeepsGate ==
  ASSUME GateInv, \A p, u : Admitted(p, u) => Admitted(p, u)', NEW c \in Client,
         CommitSetRule(c)
  PROVE  GateInv'
<1> DEFINE new == NewRule(draft[c].name, "user", draft[c].user, draft[c].setting, FALSE)
           r == draft[c].row
<1>1. CurationTypeOK /\ rules \in Seq(Rule) /\ Len(rules) <= MaxRules
  BY DEF GateInv, CurationTypeOK
<1>2. /\ Drafting(c, "set") /\ Continue(c, None)
      /\ UNCHANGED <<seeded, memories, weakened>>
  BY DEF CommitSetRule, EndDraft
<1>3. /\ draft[c].user \in User /\ draft[c].name \in RuleName
      /\ draft[c].setting.strict \in BOOLEAN /\ draft[c].setting.enabled \in BOOLEAN
  BY <1>1, <1>2, DraftKinds, CurationAssumption
<1>4. new \in Rule /\ new.layer = "user"
  BY <1>3 DEF NewRule, Rule, Layer
<1>5. r # None => r \in DOMAIN rules /\ rules[r].layer = "user"
  BY <1>2 DEF GateInv, DraftsOK, DraftOK, Drafting
<1>6. /\ rules' \in Seq(Rule) /\ Len(rules') <= MaxRules
      /\ DOMAIN rules \subseteq DOMAIN rules'
      /\ \A k \in DOMAIN rules :
           rules'[k] = rules[k] \/ (rules[k].layer = "user" /\ rules'[k].layer = "user")
      /\ \A k \in DOMAIN rules' \ DOMAIN rules : rules'[k].layer = "user"
  <2>1. CASE rules' = rules
    BY <1>1, <2>1
  <2>2. CASE r # None /\ rules' = [rules EXCEPT ![r].strict = draft[c].setting.strict,
                                                ![r].enabled = draft[c].setting.enabled]
    <3>0. DOMAIN rules' = DOMAIN rules /\ rules' = [k \in DOMAIN rules |-> rules'[k]]
      BY <1>1, <2>2
    <3>1. \A k \in DOMAIN rules :
               rules'[k] = IF k = r THEN [rules[k] EXCEPT !.strict = draft[c].setting.strict,
                                                          !.enabled = draft[c].setting.enabled]
                                    ELSE rules[k]
      BY <1>5, <2>2
    <3>2. \A k \in DOMAIN rules : rules'[k] \in Rule /\ rules'[k].layer = rules[k].layer
      <4> SUFFICES ASSUME NEW k \in DOMAIN rules
                   PROVE  rules'[k] \in Rule /\ rules'[k].layer = rules[k].layer
        OBVIOUS
      <4>1. rules[k] \in Rule
        BY <1>1, RowTypes
      <4>2. CASE k # r
        BY <3>1, <4>1, <4>2
      <4>3. CASE k = r
        <5>1. rules'[k] = [rules[k] EXCEPT !.strict = draft[c].setting.strict,
                                           !.enabled = draft[c].setting.enabled]
          BY <3>1, <4>3
        <5>2. QED BY <1>3, <4>1, <5>1 DEF Rule
      <4>4. QED BY <4>2, <4>3
    <3>3. rules' \in Seq(Rule) /\ Len(rules') = Len(rules)
      BY <1>1, <3>0, <3>2, Changed
    <3>4. \A k \in DOMAIN rules : k = r \/ rules'[k] = rules[k]
      BY <3>1
    <3>5. \A k \in DOMAIN rules :
            rules'[k] = rules[k] \/ (rules[k].layer = "user" /\ rules'[k].layer = "user")
      BY <1>5, <2>2, <3>2, <3>4
    <3>6. Len(rules') <= MaxRules
      BY <1>1, <3>3
    <3>7. QED BY <3>0, <3>3, <3>5, <3>6
  <2>3. CASE Len(rules) < MaxRules /\ rules' = Append(rules, new)
    <3> HIDE DEF new
    <3>1. /\ rules' \in Seq(Rule) /\ Len(rules') = Len(rules) + 1 /\ Len(rules) \in Nat
          /\ DOMAIN rules' = DOMAIN rules \cup {Len(rules) + 1}
          /\ \A k \in DOMAIN rules : rules'[k] = rules[k]
          /\ rules'[Len(rules) + 1] = new
      BY <1>1, <1>4, <2>3, Appended
    <3>2. QED BY <1>4, <2>3, <3>1, CurationAssumption
  <2>4. QED BY <2>1, <2>2, <2>3 DEF CommitSetRule
<1>7. (Weak' <=> Weak) /\ (Untouched => Untouched')
  BY <1>6, UserRulesChangeNothing
<1>8. Grows /\ RulesOK'
  BY <1>2, <1>6, <1>7 DEF Grows, Guarded, RulesOK, GateInv
<1>9. QED BY <1>2, <1>6, <1>8, DraftStep DEF DraftOK, GateInv, CurationTypeOK

(* A rule page that keeps the layer of every row, and notes whether the scan is weak. *)
LEMMA RulePageKeepsGate ==
  ASSUME GateInv, \A p, u : Admitted(p, u) => Admitted(p, u)', NoteWeakness,
         UNCHANGED <<seeded, memories>>,
         rules' \in Seq(Rule), Len(rules') <= MaxRules, DOMAIN rules \subseteq DOMAIN rules',
         \A r \in DOMAIN rules : rules'[r].layer = rules[r].layer,
         draft' \in [Client -> Draft \cup {None}],
         \A c \in Client : draft'[c] = draft[c] \/ draft'[c] = None
  PROVE  GateInv'
<1>1. Guarded' /\ (weakened => weakened') /\ weakened' \in BOOLEAN
  BY DEF NoteWeakness, Guarded, GateInv, CurationTypeOK
<1>2. Grows /\ RulesOK'
  BY <1>1 DEF Grows, RulesOK
<1>3. CurationTypeOK'
  BY <1>1 DEF GateInv, CurationTypeOK
<1>4. \A c \in Client :
        draft'[c] = draft[c] \/ \E d \in Draft \cup {None} : draft'[c] = d /\ DraftOK(d)'
  BY DEF DraftOK
<1>5. QED BY <1>2, <1>3, <1>4, NoMemoryStep

LEMMA RetiredRows ==
  ASSUME CurationTypeOK, NEW r, NEW state \in {"current", "retired", "gone"}
  PROVE  LET g == [rules EXCEPT ![r].state = state]
         IN /\ g \in Seq(Rule) /\ Len(g) = Len(rules) /\ DOMAIN g = DOMAIN rules
            /\ \A k \in DOMAIN rules : g[k].layer = rules[k].layer
<1> DEFINE g == [rules EXCEPT ![r].state = state]
<1>1. rules \in Seq(Rule) /\ \A k \in DOMAIN rules : rules[k] \in Rule
  BY RowTypes DEF CurationTypeOK
<1>2. DOMAIN g = DOMAIN rules /\ g = [k \in DOMAIN rules |-> g[k]]
  OBVIOUS
<1>3. \A k \in DOMAIN rules :
        g[k] = IF k = r THEN [rules[k] EXCEPT !.state = state] ELSE rules[k]
  OBVIOUS
<1>4. \A k \in DOMAIN rules : g[k] \in Rule /\ g[k].layer = rules[k].layer
  BY <1>1, <1>3 DEF Rule
<1> HIDE DEF g
<1>5. g \in Seq(Rule) /\ Len(g) = Len(rules)
  BY <1>1, <1>2, <1>4, Changed
<1>6. QED BY <1>2, <1>4, <1>5 DEF g

LEMMA CreateRuleKeepsGate ==
  ASSUME GateInv, \A p, u : Admitted(p, u) => Admitted(p, u)', NEW name \in RuleName,
         NEW layer \in Layer, NEW setting \in Settings, NEW override \in BOOLEAN,
         CreateRule(name, layer, setting, override)
  PROVE  GateInv'
<1> DEFINE new == NewRule(name, layer, None, setting, override)
<1>1. CurationTypeOK /\ rules \in Seq(Rule) /\ Len(rules) <= MaxRules
  BY DEF GateInv, CurationTypeOK
<1>2. setting.strict \in BOOLEAN /\ setting.enabled \in BOOLEAN
  BY CurationAssumption
<1>3. new \in Rule
  BY <1>2 DEF NewRule, Rule
<1>4. /\ rules' = Append(rules, new) /\ Len(rules) < MaxRules /\ NoteWeakness
      /\ UNCHANGED <<seeded, memories, draft>>
  BY DEF CreateRule
<1> HIDE DEF new
<1>5. /\ rules' \in Seq(Rule) /\ Len(rules') = Len(rules) + 1 /\ Len(rules) \in Nat
      /\ DOMAIN rules \subseteq DOMAIN rules'
      /\ \A k \in DOMAIN rules : rules'[k] = rules[k]
  BY <1>1, <1>3, <1>4, Appended
<1>6. Len(rules') <= MaxRules /\ \A k \in DOMAIN rules : rules'[k].layer = rules[k].layer
  BY <1>4, <1>5, CurationAssumption
<1>7. draft' \in [Client -> Draft \cup {None}]
  BY <1>1, <1>4 DEF CurationTypeOK
<1>8. QED BY <1>4, <1>5, <1>6, <1>7, RulePageKeepsGate

LEMMA EditRuleKeepsGate ==
  ASSUME GateInv, \A p, u : Admitted(p, u) => Admitted(p, u)', NEW r \in Rows,
         NEW setting \in Settings, NEW override \in BOOLEAN, EditRule(r, setting, override)
  PROVE  GateInv'
<1> DEFINE new == NewRule(rules[r].name, rules[r].layer, rules[r].owner, setting, override)
           retired == [rules EXCEPT ![r].state = "retired"]
<1>1. CurationTypeOK /\ rules \in Seq(Rule) /\ Len(rules) <= MaxRules
  BY DEF GateInv, CurationTypeOK
<1>2. setting.strict \in BOOLEAN /\ setting.enabled \in BOOLEAN
  BY CurationAssumption
<1>3. rules[r] \in Rule
  BY <1>1, RowTypes DEF Rows
<1>4. new \in Rule
  BY <1>2, <1>3 DEF NewRule, Rule
<1>5. /\ retired \in Seq(Rule) /\ Len(retired) = Len(rules) /\ DOMAIN retired = DOMAIN rules
      /\ \A k \in DOMAIN rules : retired[k].layer = rules[k].layer
  BY <1>1, RetiredRows
<1>6. /\ rules' = Append(retired, new) /\ Len(rules) < MaxRules /\ NoteWeakness
      /\ UNCHANGED <<seeded, memories, draft>>
  BY DEF EditRule
<1> HIDE DEF new, retired
<1>7. /\ rules' \in Seq(Rule) /\ Len(rules') = Len(retired) + 1 /\ Len(retired) \in Nat
      /\ DOMAIN retired \subseteq DOMAIN rules'
      /\ \A k \in DOMAIN retired : rules'[k] = retired[k]
  BY <1>4, <1>5, <1>6, Appended
<1>8. Len(rules') <= MaxRules /\ DOMAIN rules \subseteq DOMAIN rules'
  BY <1>5, <1>6, <1>7, CurationAssumption
<1>9. \A k \in DOMAIN rules : rules'[k].layer = rules[k].layer
  BY <1>5, <1>7
<1>10. draft' \in [Client -> Draft \cup {None}]
  BY <1>1, <1>6 DEF CurationTypeOK
<1>11. QED BY <1>6, <1>7, <1>8, <1>9, <1>10, RulePageKeepsGate

LEMMA DeleteKeepsGate ==
  ASSUME GateInv, \A p, u : Admitted(p, u) => Admitted(p, u)', NEW c \in Client,
         CommitDeleteRule(c)
  PROVE  GateInv'
<1>1. CurationTypeOK /\ Len(rules) <= MaxRules
  BY DEF GateInv, CurationTypeOK
<1>2. PICK r : r = draft[c].row
  OBVIOUS
<1> DEFINE gone == [rules EXCEPT ![r].state = "gone"]
<1>3. /\ gone \in Seq(Rule) /\ Len(gone) = Len(rules) /\ DOMAIN gone = DOMAIN rules
      /\ \A k \in DOMAIN rules : gone[k].layer = rules[k].layer
  BY <1>1, RetiredRows
<1>4. rules' = gone /\ Continue(c, None) /\ NoteWeakness /\ UNCHANGED <<seeded, memories>>
  BY <1>2 DEF CommitDeleteRule, EndDraft
<1> HIDE DEF gone
<1>5. /\ draft' \in [Client -> Draft \cup {None}]
      /\ \A d \in Client : draft'[d] = draft[d] \/ draft'[d] = None
  BY <1>1, <1>4 DEF Continue, CurationTypeOK
<1>6. QED BY <1>1, <1>3, <1>4, <1>5, RulePageKeepsGate

LEMMA RestartKeepsGate ==
  ASSUME GateInv, \A p, u : Admitted(p, u) => Admitted(p, u)', Restart
  PROVE  GateInv'
<1>1. /\ draft' \in [Client -> Draft \cup {None}] /\ \A c \in Client : draft'[c] = None
      /\ seeded' = FALSE /\ UNCHANGED <<rules, memories, weakened>>
  BY DEF Restart
<1>2. Weak' <=> Weak
  BY <1>1 DEF Weak, InLayer, RowsOf, CurrentRows, Rows, Over
<1>3. Grows /\ RulesOK'
  BY <1>1, <1>2 DEF Grows, Guarded, RulesOK, GateInv, Untouched
<1>4. CurationTypeOK'
  BY <1>1 DEF GateInv, CurationTypeOK
<1>5. \A c \in Client :
        draft'[c] = draft[c] \/ \E d \in Draft \cup {None} : draft'[c] = d /\ DraftOK(d)'
  BY <1>1 DEF DraftOK
<1>6. QED BY <1>1, <1>3, <1>4, <1>5, NoMemoryStep

(* The gate, whatever happens to projects meanwhile. *)
LEMMA StepKeepsGate ==
  ASSUME ProjectInv, GateInv, [Next]_vars
  PROVE  GateInv'
<1>1. \A p, u : Admitted(p, u) => Admitted(p, u)'
  BY AdmissionLasts
<1>2. CASE UNCHANGED curationVars
  <2>1. /\ UNCHANGED <<rules, seeded, memories, weakened>> /\ draft' = draft
    BY <1>2 DEF curationVars
  <2>2. Grows /\ RulesOK'
    BY <1>1, <2>1, SameRules DEF Grows, GateInv
  <2>3. CurationTypeOK'
    BY <2>1 DEF GateInv, CurationTypeOK
  <2>4. QED BY <2>1, <2>2, <2>3, NoMemoryStep
<1>3. ASSUME NEW c \in Client, NEW u \in User, NEW x \in Content, NEW force \in BOOLEAN,
             WriteForSelf(c, u, x, force)
      PROVE  GateInv'
  <2>1. StartWrite(c, u, None, x, force) /\ None \in Place /\ PlaceOK(None, u)
    BY <1>3, WritePathAssumption DEF WriteForSelf, PlaceOK
  <2>2. QED BY <1>1, <2>1, StartWriteKeepsGate
<1>4. ASSUME NEW c \in Client, NEW x \in Content, NEW force \in BOOLEAN,
             WriteToProject(c, x, force)
      PROVE  GateInv'
  <2>1. PICK p \in Project, u \in User : p = ask[c].project /\ u = ask[c].user
    BY <1>4, AskKinds DEF WriteToProject, ProjectInv
  <2>2. Admitted(p, u)
    BY <1>4, <2>1 DEF WriteToProject, ProjectInv, AsksOK, AskOK, Asked
  <2>3. StartWrite(c, u, p, x, force) /\ p \in Place /\ PlaceOK(p, u)
    BY <1>4, <2>1, <2>2, WritePathAssumption DEF WriteToProject, PlaceOK
  <2>4. QED BY <1>1, <2>3, StartWriteKeepsGate
<1>5. ASSUME NEW c \in Client, NEW u \in User, NEW n \in RuleName, NEW s \in Settings,
             StartSetRule(c, u, n, s)
      PROVE  GateInv'
  BY <1>1, <1>5, StartSetKeepsGate
<1>6. ASSUME NEW c \in Client, CommitCurated(c) PROVE GateInv'
  BY <1>1, <1>6, SeedKeepsGate, ScanKeepsGate, CompareKeepsGate, InsertKeepsGate,
     CommitSetKeepsGate, DeleteKeepsGate DEF CommitCurated
<1>7. ASSUME NEW c \in Client, DropDraft(c) PROVE GateInv'
  <2>1. Continue(c, None) /\ UNCHANGED <<rules, seeded, memories, weakened>>
    BY <1>7 DEF DropDraft, EndDraft
  <2>2. QED BY <1>1, <2>1, QuietDraft DEF DraftOK
<1>8. ASSUME NEW c \in Client, NEW r \in Rows, StartDeleteRule(c, r) PROVE GateInv'
  <2>1. PICK d : d = [op |-> "delete", row |-> r]
    OBVIOUS
  <2>2. r \in RuleId
    BY RowTypes DEF GateInv, Rows
  <2>3. d \in Draft /\ DraftOK(d)
    BY <2>1, <2>2 DEF Draft, DraftOK
  <2>4. Continue(c, d) /\ UNCHANGED <<rules, seeded, memories, weakened>>
    BY <1>8, <2>1 DEF StartDeleteRule
  <2>5. QED BY <1>1, <2>3, <2>4, QuietDraft
<1>9. ASSUME RulePage PROVE GateInv'
  BY <1>1, <1>8, <1>9, CreateRuleKeepsGate, EditRuleKeepsGate DEF RulePage
<1>10. CASE RestartAll
  BY <1>1, <1>10, RestartKeepsGate DEF RestartAll
<1>11. QED
  BY <1>2, <1>3, <1>4, <1>5, <1>6, <1>7, <1>9, <1>10
  DEF Next, vars, curationVars, StartCall, ContinueCall

LEMMA InitGate == Init => GateInv
<1> SUFFICES ASSUME Init PROVE GateInv
  OBVIOUS
<1>1. /\ rules \in Seq(Rule) /\ Len(rules) = 0 /\ DOMAIN rules = {} /\ seeded = FALSE
      /\ memories \in Seq(Memory) /\ DOMAIN memories = {}
      /\ draft \in [Client -> Draft \cup {None}] /\ \A c \in Client : draft[c] = None
      /\ weakened = FALSE
  BY DEF Init, CurationInit
<1>2. CurationTypeOK
  <2>1. Len(rules) <= MaxRules
    BY <1>1, CurationAssumption
  <2>2. QED BY <1>1, <2>1 DEF CurationTypeOK
<1>3. RulesOK /\ DraftsOK /\ MemoriesOK /\ DuplicatesComeFromOverlaps
  BY <1>1 DEF RulesOK, Untouched, DraftsOK, DraftOK, MemoriesOK, DuplicatesComeFromOverlaps
<1>4. QED BY <1>2, <1>3 DEF GateInv

LEMMA GateAlwaysHolds == Spec => [](ProjectInv /\ GateInv)
<1>1. ProjectInv /\ GateInv /\ [Next]_vars => (ProjectInv /\ GateInv)'
  BY StepKeepsProjects, StepKeepsGate
<1>2. Init => ProjectInv /\ GateInv
  BY InitProjects, InitGate
<1>3. QED BY <1>1, <1>2, PTL DEF Spec

(* No content that the scan matches is created, unless an administrator has weakened it. *)
THEOREM ScanAlwaysStops == Spec => []ScanAlwaysRuns
<1>1. GateInv => ScanAlwaysRuns
  BY DEF GateInv, MemoriesOK, MemoryOK, ScanAlwaysRuns
<1>2. QED BY <1>1, GateAlwaysHolds, PTL

(* Duplicates that were not asked for come from writes that overlap. *)
THEOREM DuplicatesAlwaysOverlap == Spec => []DuplicatesComeFromOverlaps
<1>1. GateInv => DuplicatesComeFromOverlaps
  BY DEF GateInv
<1>2. QED BY <1>1, GateAlwaysHolds, PTL

(* What is in an invite-only project was written by somebody who was let in. *)
THEOREM OutsidersNeverWrite == Spec => []OutsidersWriteNothing
<1>1. ProjectInv /\ GateInv => OutsidersWriteNothing
  <2> SUFFICES ASSUME ProjectInv, GateInv, NEW i \in DOMAIN memories,
                      InviteOnly(memories[i].place)
               PROVE  memories[i].owner \in guests[memories[i].place]
    BY DEF OutsidersWriteNothing
  <2>1. memories[i].place \in Project
    BY ProjectTypes DEF ProjectInv, InviteOnly, Exists
  <2>2. memories[i].place # None
    BY <2>1, WritePathAssumption
  <2>3. Admitted(memories[i].place, memories[i].owner)
    BY <2>2 DEF GateInv, MemoriesOK, MemoryOK, PlaceOK
  <2>4. QED BY <2>3 DEF Admitted, InviteOnly
<1>2. QED BY <1>1, GateAlwaysHolds, PTL

(* Projects, rules, memories and the requests in progress stay well formed. *)
THEOREM WritePathTypesHold == Spec => []TypeOK
<1>1. calls \in 0..MaxCalls /\ [Next]_vars => (calls \in 0..MaxCalls)'
  BY WritePathAssumption DEF Next, Call, vars
<1>2. Init => calls \in 0..MaxCalls
  BY WritePathAssumption DEF Init
<1>3. ProjectInv /\ GateInv /\ calls \in 0..MaxCalls => TypeOK
  BY DEF ProjectInv, GateInv, TypeOK
<1>4. ProjectInv /\ [Next]_vars => ProjectInv'
  BY StepKeepsProjects
<1>5. QED BY <1>1, <1>2, <1>3, <1>4, InitProjects, GateAlwaysHolds, PTL DEF Spec
==============================================================================
