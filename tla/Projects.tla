-------------------------------- MODULE Projects --------------------------------
(***************************************************************************)
(* Projects and who belongs to them (services/project.py, manage_project,  *)
(* and the part of write_memory that enrols the writer).                   *)
(*                                                                         *)
(* A project is created by manage_project, which makes its creator an      *)
(* admin, or by the first write to it, which makes the writer a plain      *)
(* member of an open project.  Every request reads the project and the     *)
(* memberships it depends on, and commits later; the primary key of        *)
(* projects and the unique index on (project, user) are all that requests  *)
(* have in common.                                                         *)
(***************************************************************************)
EXTENDS Callers, Naturals, FiniteSets, Functions

AutoEnroll == "auto-enroll"   \* joined_by of those who enrolled themselves

CONSTANT Project   \* the names of projects

ASSUME ProjectAssumption == AutoEnroll \notin User

VARIABLES
  projects,     \* the rows of projects: is the project invite-only?
  members,      \* the rows of project_memberships, by project and user
  ask,          \* what each request on projects has read
  admins,       \* history: the users who have ever been admins of each project
  guests        \* history: the users whom somebody else has ever let in, or who created it

projectVars == <<projects, members, ask, admins, guests>>

------------------------------------------------------------------------------
(* Types *)

Role == {"member", "admin"}

\* by: joined_by.
Membership == [role : Role, by : User \cup {AutoEnroll}]

\* A request that has read what it needs.  An enrolment remembers whether the project
\* existed, and once it is done that its user may write ("enrolled").
Asking ==
  [op : {"enroll"}, user : User, project : Project, exists : BOOLEAN]
  \cup [op : {"enrolled"}, user : User, project : Project]
  \cup [op : {"create"}, user : User, project : Project, inviteOnly : BOOLEAN]
  \cup [op : {"add"}, user : User, project : Project, target : User, role : Role]
  \cup [op : {"remove"}, project : Project, target : User]

ProjectTypeOK ==
  /\ projects \in UNION {[S -> BOOLEAN] : S \in SUBSET Project}
  /\ members \in UNION {[S -> Membership] : S \in SUBSET (Project \X User)}
  /\ ask \in [Client -> Asking \cup {None}]
  /\ admins \in [Project -> SUBSET User]
  /\ guests \in [Project -> SUBSET User]

ProjectInit ==
  /\ projects = [p \in {} |-> FALSE]
  /\ members = [m \in {} |-> None]
  /\ ask = [c \in Client |-> None]
  /\ admins = [p \in Project |-> {}]
  /\ guests = [p \in Project |-> {}]

------------------------------------------------------------------------------

Exists(p) == p \in DOMAIN projects
InviteOnly(p) == Exists(p) /\ projects[p]
Belongs(p, u) == <<p, u>> \in DOMAIN members
Administers(p, u) == Belongs(p, u) /\ members[<<p, u>>].role = "admin"
AdminsOf(p) == {u \in User : Administers(p, u)}

Asked(c, op) == ask[c] # None /\ ask[c].op = op
Ask(c, call) == ask' = [ask EXCEPT ![c] = call]
EndAsk(c) == Ask(c, None)

\* A commit that inserts the row of a membership, and perhaps that of its project.
Join(p, u, role, by) ==
  /\ members' = [m \in DOMAIN members \cup {<<p, u>>} |->
                   IF m = <<p, u>> THEN [role |-> role, by |-> by] ELSE members[m]]
  /\ admins' = IF role = "admin" THEN [admins EXCEPT ![p] = @ \cup {u}] ELSE admins
  /\ guests' = IF by = AutoEnroll THEN guests ELSE [guests EXCEPT ![p] = @ \cup {u}]
InsertProject(p, inviteOnly) ==
  projects' = [q \in DOMAIN projects \cup {p} |-> IF q = p THEN inviteOnly ELSE projects[q]]
NobodyJoins == UNCHANGED <<members, admins, guests>>

------------------------------------------------------------------------------
(* ensure_project_membership *)

\* A member passes; an outsider is refused if the project that was read is invite-only.
StartEnroll(c, u, p) ==
  /\ ask[c] = None
  /\ Belongs(p, u) \/ ~InviteOnly(p)
  /\ Ask(c, IF Belongs(p, u)
            THEN [op |-> "enrolled", user |-> u, project |-> p]
            ELSE [op |-> "enroll", user |-> u, project |-> p, exists |-> Exists(p)])
  /\ UNCHANGED projects /\ NobodyJoins

\* Mutant: the project is not read again.
RefusesNobody(c) == FALSE

\* The insert of a project that another request has created in the meantime fails, and the
\* project is read again.
RefusesLate(c) == ~ask[c].exists /\ InviteOnly(ask[c].project)

\* An insert of a membership that exists fails and is forgotten.
CommitEnroll(c) ==
  LET u == ask[c].user
      p == ask[c].project
  IN /\ Asked(c, "enroll")
     /\ IF RefusesLate(c)
        THEN EndAsk(c) /\ NobodyJoins /\ UNCHANGED projects
        ELSE /\ Ask(c, [op |-> "enrolled", user |-> u, project |-> p])
             /\ IF Exists(p) THEN UNCHANGED projects ELSE InsertProject(p, FALSE)
             /\ IF Belongs(p, u) THEN NobodyJoins ELSE Join(p, u, "member", AutoEnroll)

------------------------------------------------------------------------------
(* manage_project *)

StartCreateProject(c, u, p, inviteOnly) ==
  /\ ask[c] = None
  /\ ~Exists(p)
  /\ Ask(c, [op |-> "create", user |-> u, project |-> p, inviteOnly |-> inviteOnly])
  /\ UNCHANGED projects /\ NobodyJoins

\* Both rows are inserted by one flush; the primary key refuses a project that exists.
CommitCreateProject(c) ==
  LET call == ask[c]
  IN /\ Asked(c, "create")
     /\ EndAsk(c)
     /\ IF Exists(call.project)
        THEN UNCHANGED projects /\ NobodyJoins
        ELSE /\ InsertProject(call.project, call.inviteOnly)
             /\ Join(call.project, call.user, "admin", call.user)

\* Any member adds to an open project, an admin to one that is invite-only.
MayAdd(u, p) == IF InviteOnly(p) THEN Administers(p, u) ELSE Belongs(p, u)

StartAddMember(c, u, p, target, role) ==
  /\ ask[c] = None
  /\ MayAdd(u, p)
  /\ Ask(c, [op |-> "add", user |-> u, project |-> p, target |-> target, role |-> role])
  /\ UNCHANGED projects /\ NobodyJoins

\* The unique index refuses to add a member twice, and so no role is ever changed.
CommitAddMember(c) ==
  LET call == ask[c]
  IN /\ Asked(c, "add")
     /\ EndAsk(c)
     /\ IF Belongs(call.project, call.target) THEN NobodyJoins
        ELSE Join(call.project, call.target, call.role, call.user)
     /\ UNCHANGED projects

\* The last admin stays, as far as the count says: two admins may be removed at a time.
MayRemove(u, p, target) ==
  /\ u = target \/ Administers(p, u)
  /\ Belongs(p, target)
  /\ Administers(p, target) => Cardinality(AdminsOf(p)) > 1

StartRemoveMember(c, u, p, target) ==
  /\ ask[c] = None
  /\ MayRemove(u, p, target)
  /\ Ask(c, [op |-> "remove", project |-> p, target |-> target])
  /\ UNCHANGED projects /\ NobodyJoins

\* A row that somebody else has deleted is deleted by nobody.
CommitRemoveMember(c) ==
  LET left == <<ask[c].project, ask[c].target>>
  IN /\ Asked(c, "remove")
     /\ EndAsk(c)
     /\ members' = Restrict(members, DOMAIN members \ {left})
     /\ UNCHANGED <<projects, admins, guests>>

\* A request may end anywhere, by an error or with its process.
DropAsk(c) == ask[c] # None /\ EndAsk(c) /\ UNCHANGED projects /\ NobodyJoins

StartOnProject(c) ==
  \E u \in User, p \in Project :
    \/ StartEnroll(c, u, p)
    \/ \E i \in BOOLEAN : StartCreateProject(c, u, p, i)
    \/ \E t \in User :
         \/ \E role \in Role : StartAddMember(c, u, p, t, role)
         \/ StartRemoveMember(c, u, p, t)

CommitOnProject(c) ==
  CommitEnroll(c) \/ CommitCreateProject(c) \/ CommitAddMember(c) \/ CommitRemoveMember(c)

------------------------------------------------------------------------------

\* An invite-only project admits whom an admin has let in: nobody enrols himself, though
\* the project was created as invite-only while his first write was in progress, and
\* nobody joins by somebody who was never an admin.
InviteOnlyHolds ==
  \A p \in DOMAIN projects : projects[p] =>
    \A u \in User : Belongs(p, u) => members[<<p, u>>].by \in admins[p]
==============================================================================
