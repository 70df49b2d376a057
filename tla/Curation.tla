-------------------------------- MODULE Curation --------------------------------
(***************************************************************************)
(* The curation gate that create_memory runs before it stores anything,    *)
(* and the rules it goes by (services/curation, set_rule of                *)
(* manage_curation, and the rule pages of the user interface's backend).   *)
(*                                                                         *)
(* The rules of one tenant are rows in three layers, of which a layer      *)
(* overrides the one below unless the rule below is protected.  An edit    *)
(* adds a row and retires the one before.  The system layer is seeded by   *)
(* the first write that a process serves.  Two rules matter here: "scan"   *)
(* stands for the protected rules on secrets and personal data, and        *)
(* "duplicate" for the two thresholds of similarity, which are not         *)
(* protected.  A rule is strict when it stops what it matches.             *)
(***************************************************************************)
EXTENDS Callers, Naturals, Sequences, FiniteSets

CONSTANTS
  Content,    \* what memories say; nothing is similar but the same content
  Secret,     \* the content that the patterns of the scan match
  Place,      \* the scope_ids of memories: None for the scope user, or a project
  Settings,   \* what a rule is set to: is it strict, is it enabled?
  MaxRules    \* bounds the rows of curator_rules

ASSUME CurationAssumption ==
  /\ Secret \subseteq Content /\ Settings \subseteq [strict : BOOLEAN, enabled : BOOLEAN]
  /\ None \notin User \cup Nat /\ MaxRules \in Nat

VARIABLES
  rules,      \* the rows of curator_rules, in the order of their insertion
  seeded,     \* the process holds the tenant in _seeded_tenants
  memories,   \* the memories that were created, in that order
  draft,      \* what each request has read or computed
  weakened    \* history: an administrator has left the scan weak

curationVars == <<rules, seeded, memories, draft, weakened>>

------------------------------------------------------------------------------
(* Types *)

RuleName == {"scan", "duplicate"}
Layer == {"system", "organizational", "user"}
RuleId == 1..MaxRules

\* state: "current" is is_current, and "gone" that the row was deleted.
Rule ==
  [name : RuleName, layer : Layer, owner : User \cup {None}, strict : BOOLEAN,
   override : BOOLEAN, enabled : BOOLEAN, state : {"current", "retired", "gone"}]

ASSUME NoneIsNoRule == None \notin Rule

\* saw: history, the number of memories when this one was compared with them.
Memory ==
  [owner : User, place : Place, content : Content, gated : BOOLEAN, saw : Nat]

Draft ==
  [op : {"seed"}, user : User, place : Place, content : Content, force : BOOLEAN,
   found : BOOLEAN]
  \cup [op : {"scan"}, user : User, place : Place, content : Content, force : BOOLEAN]
  \cup [op : {"compare"}, user : User, place : Place, content : Content, gated : BOOLEAN]
  \cup [op : {"insert"}, memory : Memory]
  \cup [op : {"set"}, user : User, name : RuleName, setting : Settings,
        row : RuleId \cup {None}]
  \cup [op : {"delete"}, row : RuleId]

CurationTypeOK ==
  /\ rules \in Seq(Rule) /\ Len(rules) <= MaxRules
  /\ seeded \in BOOLEAN
  /\ memories \in Seq(Memory)
  /\ draft \in [Client -> Draft \cup {None}]
  /\ weakened \in BOOLEAN

CurationInit ==
  /\ rules = <<>>
  /\ seeded = FALSE
  /\ memories = <<>>
  /\ draft = [c \in Client |-> None]
  /\ weakened = FALSE

------------------------------------------------------------------------------

Drafting(c, op) == draft[c] # None /\ draft[c].op = op
Continue(c, step) == draft' = [draft EXCEPT ![c] = step]
EndDraft(c) == Continue(c, None)

Rows == {r \in DOMAIN rules : rules[r].state # "gone"}
CurrentRows == {r \in Rows : rules[r].state = "current"}
RowsOf(layer, owner, name) ==
  {r \in Rows : /\ rules[r].layer = layer /\ rules[r].owner = owner
                /\ rules[r].name = name}

NewRule(name, layer, owner, setting, override) ==
  [name |-> name, layer |-> layer, owner |-> owner, strict |-> setting.strict,
   enabled |-> setting.enabled, override |-> override, state |-> "current"]

\* The unique index on current rows; the rows of an owner that is NULL are all different.
Refused(new) ==
  /\ new.owner # None
  /\ RowsOf(new.layer, new.owner, new.name) \cap CurrentRows # {}

------------------------------------------------------------------------------
(* load_rules *)

\* The enabled rule of a layer: any, if there are several of one name and priority.
InLayer(layer, owner, name) ==
  LET enabled == {r \in RowsOf(layer, owner, name) \cap CurrentRows : rules[r].enabled}
  IN IF enabled = {} THEN {None} ELSE {rules[r] : r \in enabled}

\* Mutant: protection is ignored.
Topmost(below, above) == IF above = None THEN below ELSE above

\* The rule above replaces the one below it unless that one is protected.
Over(below, above) ==
  IF above = None \/ (below # None /\ below.override) THEN below ELSE above

InForce(user, name) ==
  {Over(Over(s, o), u) : s \in InLayer("system", None, name),
                         o \in InLayer("organizational", None, name),
                         u \in InLayer("user", user, name)}

------------------------------------------------------------------------------
(* create_memory and run_curation_pipeline *)

\* The first write of the tenant in this process looks for a system rule.
StartWrite(c, u, place, x, force) ==
  /\ draft[c] = None
  /\ Continue(c, IF seeded
                 THEN [op |-> "scan", user |-> u, place |-> place, content |-> x,
                       force |-> force]
                 ELSE [op |-> "seed", user |-> u, place |-> place, content |-> x,
                       force |-> force,
                       found |-> \E r \in CurrentRows : rules[r].layer = "system"])
  /\ UNCHANGED <<rules, seeded, memories, weakened>>

Defaults ==
  LET on == [strict |-> TRUE, enabled |-> TRUE]
  IN <<NewRule("scan", "system", None, on, TRUE),
       NewRule("duplicate", "system", None, on, FALSE)>>

Seed(c) ==
  LET d == draft[c]
  IN /\ Drafting(c, "seed")
     /\ Len(rules) + Len(Defaults) <= MaxRules \/ d.found
     /\ rules' = IF d.found THEN rules ELSE rules \o Defaults
     /\ seeded' = TRUE
     /\ Continue(c, [op |-> "scan", user |-> d.user, place |-> d.place,
                     content |-> d.content, force |-> d.force])
     /\ UNCHANGED <<memories, weakened>>

\* The rules are read once.  Content that a strict scan matches is refused, forced or not;
\* without a rule on duplicates the thresholds of the code apply.
Scan(c) ==
  LET d == draft[c]
  IN /\ Drafting(c, "scan")
     /\ \E scan \in InForce(d.user, "scan"), dup \in InForce(d.user, "duplicate") :
          Continue(c, IF d.content \in Secret /\ scan # None /\ scan.strict THEN None
                      ELSE [op |-> "compare", user |-> d.user, place |-> d.place,
                            content |-> d.content,
                            gated |-> ~d.force /\ (dup = None \/ dup.strict)])
     /\ UNCHANGED <<rules, seeded, memories, weakened>>

\* check_similarity looks at the memories of the same owner and scope, user or project,
\* whatever the project is.
SameScope(p, q) == (p = None) = (q = None)

\* Mutant: memories of projects are not looked at.
SimilarPersonal(u, place, x) ==
  {i \in DOMAIN memories : /\ memories[i].owner = u /\ memories[i].content = x
                           /\ memories[i].place = None}

Similar(u, place, x) ==
  {i \in DOMAIN memories : /\ memories[i].owner = u /\ memories[i].content = x
                           /\ SameScope(memories[i].place, place)}

Compare(c) ==
  LET d == draft[c]
  IN /\ Drafting(c, "compare")
     /\ Continue(c, IF d.gated /\ Similar(d.user, d.place, d.content) # {} THEN None
                    ELSE [op |-> "insert",
                          memory |-> [owner |-> d.user, place |-> d.place,
                                      content |-> d.content, gated |-> d.gated,
                                      saw |-> Len(memories)]])
     /\ UNCHANGED <<rules, seeded, memories, weakened>>

CommitWrite(c) ==
  /\ Drafting(c, "insert")
  /\ memories' = Append(memories, draft[c].memory)
  /\ EndDraft(c)
  /\ UNCHANGED <<rules, seeded, weakened>>

------------------------------------------------------------------------------
(* set_rule of manage_curation *)

\* Both queries look at retired rows as well, and fail when they find two.
Protected(name) ==
  {r \in Rows : rules[r].name = name /\ rules[r].override /\ rules[r].layer # "user"}

StartSetRule(c, u, name, setting) ==
  LET own == RowsOf("user", u, name)
  IN /\ draft[c] = None
     /\ Protected(name) = {}
     /\ Cardinality(own) <= 1
     /\ \E row \in IF own = {} THEN {None} ELSE own :
          Continue(c, [op |-> "set", user |-> u, name |-> name,
                       setting |-> setting, row |-> row])
     /\ UNCHANGED <<rules, seeded, memories, weakened>>

\* The row that was found is updated, even if it is no longer current.  The flush fails when
\* the row is gone, the insert when the index refuses it.
CommitSetRule(c) ==
  LET d == draft[c]
      new == NewRule(d.name, "user", d.user, d.setting, FALSE)
  IN /\ Drafting(c, "set")
     /\ EndDraft(c)
     /\ IF d.row # None
        THEN rules' = IF rules[d.row].state = "gone" THEN rules
                      ELSE [rules EXCEPT ![d.row].strict = d.setting.strict,
                                         ![d.row].enabled = d.setting.enabled]
        ELSE IF Refused(new) THEN UNCHANGED rules
        ELSE Len(rules) < MaxRules /\ rules' = Append(rules, new)
     /\ UNCHANGED <<seeded, memories, weakened>>

------------------------------------------------------------------------------
(* The rule pages *)

\* The scan is weak when the layers above the users let its content pass, or a user's rule
\* replace it.
Weak ==
  \E s \in InLayer("system", None, "scan"), o \in InLayer("organizational", None, "scan") :
    LET base == Over(s, o)
    IN base = None \/ ~base.strict \/ ~base.override
NoteWeakness == weakened' = (weakened \/ Weak')

CreateRule(name, layer, setting, override) ==
  LET new == NewRule(name, layer, None, setting, override)
  IN /\ layer # "user"
     /\ Len(rules) < MaxRules
     /\ rules' = Append(rules, new)
     /\ NoteWeakness
     /\ UNCHANGED <<seeded, memories, draft>>

\* update_rule: the row is locked from the read to the commit.
EditRule(r, setting, override) ==
  LET old == rules[r]
      new == NewRule(old.name, old.layer, old.owner, setting, override)
  IN /\ r \in CurrentRows /\ new # old
     /\ Len(rules) < MaxRules
     /\ rules' = Append([rules EXCEPT ![r].state = "retired"], new)
     /\ NoteWeakness
     /\ UNCHANGED <<seeded, memories, draft>>

\* delete_rule reads without a lock: the row may be retired by the time it is deleted.
StartDeleteRule(c, r) ==
  /\ draft[c] = None
  /\ r \in CurrentRows
  /\ Continue(c, [op |-> "delete", row |-> r])
  /\ UNCHANGED <<rules, seeded, memories, weakened>>

CommitDeleteRule(c) ==
  LET r == draft[c].row
  IN /\ Drafting(c, "delete")
     /\ EndDraft(c)
     /\ rules' = [rules EXCEPT ![r].state = "gone"]
     /\ NoteWeakness
     /\ UNCHANGED <<seeded, memories>>

\* A request may end anywhere, and all of them with the process.
DropDraft(c) ==
  draft[c] # None /\ EndDraft(c) /\ UNCHANGED <<rules, seeded, memories, weakened>>

Restart ==
  /\ seeded' = FALSE
  /\ draft' = [c \in Client |-> None]
  /\ UNCHANGED <<rules, memories, weakened>>

CommitCurated(c) ==
  \/ Seed(c) \/ Scan(c) \/ Compare(c) \/ CommitWrite(c)
  \/ CommitSetRule(c) \/ CommitDeleteRule(c)

------------------------------------------------------------------------------

\* "Users cannot disable secrets scanning ... the base scan always runs"
\* (docs/design/curator-agent.md): unless an administrator has changed the rule, nothing
\* that the scan matches is created, whatever rules users set before or after the seed,
\* whatever they force, and however often the process restarts.
ScanAlwaysRuns == \A i \in DOMAIN memories : memories[i].content \in Secret => weakened

\* Of two equal memories of one owner and scope, the later was forced, or written under a
\* rule that lets it pass, or compared before the earlier was committed.
DuplicatesComeFromOverlaps ==
  \A i, j \in DOMAIN memories :
    /\ i < j
    /\ memories[i].owner = memories[j].owner
    /\ SameScope(memories[i].place, memories[j].place)
    /\ memories[i].content = memories[j].content
    => ~memories[j].gated \/ memories[j].saw < i
==============================================================================
