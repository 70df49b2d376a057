-------------------------------- MODULE Persona --------------------------------
(***************************************************************************)
(* The standing profile of one user (services/persona.py, the tools that   *)
(* get, compile and edit it, and the mark that dreaming leaves on it).     *)
(*                                                                         *)
(* A compile reads the user's facts, then the current synopsis and the     *)
(* pins on it, asks a language model, and in one commit retires the        *)
(* synopsis it read, stores the next one and moves the pins it read.       *)
(* Nothing is locked meanwhile.  A fact that lands marks the synopsis      *)
(* stale in a transaction of its own, which may be lost.  A profile is of  *)
(* the user, or of the user in one project; whoever asks for the user's    *)
(* gets the latest of all.                                                 *)
(***************************************************************************)
EXTENDS Naturals, Sequences, FiniteSets

CONSTANTS
  Fact,          \* behavioral facts that dreaming may find, at most as many as a compile reads
  Scope,         \* the scope_ids of facts and profiles: None or a project
  Client,        \* the calls that can be in progress
  None,
  MaxSynopses,   \* bounds the compiles
  MaxPins        \* bounds the pins

ASSUME PersonaAssumption ==
  None \in Scope /\ None \notin Nat /\ MaxSynopses \in Nat /\ MaxPins \in Nat

VARIABLES
  facts,       \* the current facts of dreaming, with their scope_id
  synopses,    \* the rows of synopses, in the order of their commits
  pins,        \* the rows of pins
  task,        \* what each call has read
  overtaken,   \* history: the facts that landed during a compile, or lost their mark
  mixed        \* history: a compile overlapped another, or was of a project

vars == <<facts, synopses, pins, task, overtaken, mixed>>

------------------------------------------------------------------------------

SynopsisId == 1..MaxSynopses
PinId == 1..MaxPins

Synopsis ==
  [scope : Scope, current : BOOLEAN, stale : BOOLEAN, facts : SUBSET Fact]

\* anchor: parent_id.  raced: history, a compile took the anchor away meanwhile.
Pin == [anchor : SynopsisId \cup {None}, raced : BOOLEAN]

Task ==
  [op : {"read"}, scope : Scope, facts : SUBSET Fact]
  \cup [op : {"ask"}, scope : Scope, facts : SUBSET Fact, old : SynopsisId \cup {None},
        pins : SUBSET PinId]
  \cup [op : {"mark"}, fact : Fact]
  \cup [op : {"write"}, fact : Fact, target : SynopsisId]
  \cup [op : {"pin"}, anchor : SynopsisId \cup {None}]

ASSUME NoneIsNoTask == None \notin Task

PersonaTypeOK ==
  /\ facts \in UNION {[S -> Scope] : S \in SUBSET Fact}
  /\ synopses \in Seq(Synopsis) /\ Len(synopses) <= MaxSynopses
  /\ pins \in Seq(Pin) /\ Len(pins) <= MaxPins
  /\ task \in [Client -> Task \cup {None}]
  /\ overtaken \subseteq Fact
  /\ mixed \in BOOLEAN

Init ==
  /\ facts = [f \in {} |-> None]
  /\ synopses = <<>>
  /\ pins = <<>>
  /\ task = [c \in Client |-> None]
  /\ overtaken = {}
  /\ mixed = FALSE

------------------------------------------------------------------------------

Doing(c, op) == task[c] # None /\ task[c].op = op
Become(c, t) == task' = [task EXCEPT ![c] = t]
Finish(c) == Become(c, None)
Compiling == {c \in Client : Doing(c, "read") \/ Doing(c, "ask")}

\* Mutant: without a project, only what has none.
FactsIn(scope) == {f \in DOMAIN facts : facts[f] = scope}

\* A query without a project has no filter on scope_id.
FactsOf(scope) == {f \in DOMAIN facts : scope \in {None, facts[f]}}
SynopsesOf(scope) ==
  {s \in DOMAIN synopses : synopses[s].current /\ scope \in {None, synopses[s].scope}}

\* get_current_synopsis.  A mark sets updated_at to the start of its transaction, at which
\* the row was the latest anyway: the order is that of the commits.
Latest(scope) ==
  LET found == SynopsesOf(scope)
  IN IF found = {} THEN None ELSE CHOOSE s \in found : \A t \in found : t <= s

PinsOn(s) == {p \in DOMAIN pins : pins[p].anchor = s /\ s # None}

------------------------------------------------------------------------------
(* compile_persona_synopsis *)

\* Without facts there is nothing to compile.
StartCompile(c, scope) ==
  /\ task[c] = None
  /\ FactsOf(scope) # {}
  /\ Become(c, [op |-> "read", scope |-> scope, facts |-> FactsOf(scope)])
  /\ mixed' = (mixed \/ Compiling # {} \/ scope # None)
  /\ UNCHANGED <<facts, synopses, pins, overtaken>>

ReadSynopsis(c) ==
  LET old == Latest(task[c].scope)
  IN /\ Doing(c, "read")
     /\ Become(c, [op |-> "ask", scope |-> task[c].scope, facts |-> task[c].facts,
                   old |-> old, pins |-> PinsOn(old)])
     /\ UNCHANGED <<facts, synopses, pins, overtaken, mixed>>

\* Mutant: the pins stay where they are.
CarriedNone(p, moved, new) == pins[p]

Carried(p, moved, new) ==
  IF p \in moved THEN [pins[p] EXCEPT !.anchor = new] ELSE pins[p]

\* The row that was read is retired again if another compile has retired it.
Retired(s, old) ==
  IF s = old THEN [synopses[s] EXCEPT !.current = FALSE] ELSE synopses[s]

\* The edges to the facts are a transaction of their own, which nothing depends on.
CommitCompile(c) ==
  LET t == task[c]
      new == Len(synopses) + 1
  IN /\ Doing(c, "ask")
     /\ new <= MaxSynopses
     /\ synopses' = Append([s \in DOMAIN synopses |-> Retired(s, t.old)],
                           [scope |-> t.scope, current |-> TRUE, stale |-> FALSE,
                            facts |-> t.facts])
     /\ pins' = [p \in DOMAIN pins |-> Carried(p, t.pins, new)]
     /\ Finish(c)
     /\ UNCHANGED <<facts, overtaken, mixed>>

\* The model does not answer, or the process dies.
FailCompile(c) ==
  /\ c \in Compiling
  /\ Finish(c)
  /\ UNCHANGED <<facts, synopses, pins, overtaken, mixed>>

------------------------------------------------------------------------------
(* Facts of dreaming, and mark_synopsis_stale *)

LandFact(c, f, scope) ==
  /\ task[c] = None
  /\ f \notin DOMAIN facts
  /\ facts' = [g \in DOMAIN facts \cup {f} |-> IF g = f THEN scope ELSE facts[g]]
  /\ overtaken' = IF Compiling = {} THEN overtaken ELSE overtaken \cup {f}
  /\ Become(c, [op |-> "mark", fact |-> f])
  /\ UNCHANGED <<synopses, pins, mixed>>

\* Dreaming never names a project, and leaves alone what is stale.
FindStale(c) ==
  LET s == Latest(None)
  IN /\ Doing(c, "mark")
     /\ IF s = None \/ synopses[s].stale THEN Finish(c)
        ELSE Become(c, [op |-> "write", fact |-> task[c].fact, target |-> s])
     /\ UNCHANGED <<facts, synopses, pins, overtaken, mixed>>

\* The row is updated by its id, whether or not it is still current.
MarkStale(c) ==
  /\ Doing(c, "write")
  /\ synopses' = [synopses EXCEPT ![task[c].target].stale = TRUE]
  /\ Finish(c)
  /\ UNCHANGED <<facts, pins, overtaken, mixed>>

\* An error is logged and dropped; so is a window that fails after some facts have landed.
LoseMark(c) ==
  /\ Doing(c, "mark") \/ Doing(c, "write")
  /\ overtaken' = overtaken \cup {task[c].fact}
  /\ Finish(c)
  /\ UNCHANGED <<facts, synopses, pins, mixed>>

------------------------------------------------------------------------------
(* add_user_pin *)

\* The tool never names a project.
StartPin(c) ==
  /\ task[c] = None
  /\ Become(c, [op |-> "pin", anchor |-> Latest(None)])
  /\ UNCHANGED <<facts, synopses, pins, overtaken, mixed>>

CommitPin(c) ==
  LET s == task[c].anchor
      taken == /\ s # None
               /\ \/ ~synopses[s].current
                  \/ \E d \in Client : Doing(d, "ask") /\ task[d].old = s
  IN /\ Doing(c, "pin")
     /\ Len(pins) < MaxPins
     /\ pins' = Append(pins, [anchor |-> s, raced |-> taken])
     /\ Finish(c)
     /\ UNCHANGED <<facts, synopses, overtaken, mixed>>

DropPin(c) ==
  Doing(c, "pin") /\ Finish(c) /\ UNCHANGED <<facts, synopses, pins, overtaken, mixed>>

Next ==
  \E c \in Client :
    \/ \E scope \in Scope : StartCompile(c, scope)
    \/ ReadSynopsis(c) \/ CommitCompile(c) \/ FailCompile(c)
    \/ \E f \in Fact, scope \in Scope : LandFact(c, f, scope)
    \/ FindStale(c) \/ MarkStale(c) \/ LoseMark(c)
    \/ StartPin(c) \/ CommitPin(c) \/ DropPin(c)

Spec == Init /\ [][Next]_vars

------------------------------------------------------------------------------

\* "Pins survive recompile": a pin stays on a current synopsis, however compiles overlap and
\* whatever project they are of, unless its anchor was being replaced when it was committed,
\* or it was added before there was a synopsis to hold it.
PinsSurviveRecompile ==
  \A p \in DOMAIN pins :
    pins[p].anchor # None /\ ~pins[p].raced => synopses[pins[p].anchor].current

Awaited == {task[c].fact : c \in {d \in Client : Doing(d, "mark") \/ Doing(d, "write")}}

\* "When is_stale=True, the profile reflects facts from before the most recent dreaming
\* extraction": a profile of the user that is served as fresh holds every fact but those
\* that landed during a compile, or whose mark is due or was lost.  Compiles that overlap
\* or that are of a project take the mark to another row.
FreshSynopsisIsComplete ==
  LET s == Latest(None)
  IN s # None /\ ~mixed /\ ~synopses[s].stale =>
       DOMAIN facts \subseteq synopses[s].facts \cup overtaken \cup Awaited
==============================================================================
