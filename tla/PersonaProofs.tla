----------------------------- MODULE PersonaProofs -----------------------------
(* Theorems about Persona, for every value of its constants. *)
EXTENDS Persona, SequenceTheorems, WellFoundedInduction, TLAPS

(* What a call has read is there: a row of a synopsis, or nothing. *)
Row(s) == s \in DOMAIN synopses \cup {None}

(* A compile that asks the model holds every pin of the synopsis it will retire, but those
   that have noticed it. *)
HoldsPins(t) ==
  /\ Row(t.old)
  /\ \A p \in DOMAIN pins :
       t.old # None /\ pins[p].anchor = t.old /\ ~pins[p].raced => p \in t.pins

TaskOK(t) ==
  t # None => /\ t.op = "ask" => HoldsPins(t)
              /\ t.op = "write" => t.target \in DOMAIN synopses
              /\ t.op = "pin" => Row(t.anchor)

TasksOK == \A c \in Client : TaskOK(task[c])

AnchorsOK == \A p \in DOMAIN pins : Row(pins[p].anchor)

PinsInv == PersonaTypeOK /\ TasksOK /\ AnchorsOK /\ PinsSurviveRecompile

------------------------------------------------------------------------------
(* Sequences *)

LEMMA Appended ==
  ASSUME NEW S, NEW seq \in Seq(S), NEW e \in S
  PROVE  /\ Append(seq, e) \in Seq(S)
         /\ Len(Append(seq, e)) = Len(seq) + 1
         /\ Len(seq) \in Nat
         /\ DOMAIN Append(seq, e) = DOMAIN seq \cup {Len(seq) + 1}
         /\ Len(seq) + 1 \notin DOMAIN seq
         /\ \A i \in DOMAIN seq : Append(seq, e)[i] = seq[i]
         /\ Append(seq, e)[Len(seq) + 1] = e
<1>1. Append(seq, e) \in Seq(S) /\ Len(Append(seq, e)) = Len(seq) + 1
  BY AppendProperties
<1>2. /\ Len(seq) \in Nat /\ DOMAIN seq = 1..Len(seq)
      /\ DOMAIN Append(seq, e) = 1..(Len(seq) + 1)
  BY <1>1, LenProperties
<1>3. QED BY <1>1, <1>2, AppendProperties

(* A sequence rewritten row by row. *)
LEMMA Rewritten ==
  ASSUME NEW S, NEW seq \in Seq(S), NEW f, DOMAIN f = DOMAIN seq,
         f = [i \in DOMAIN seq |-> f[i]],
         \A i \in DOMAIN seq : f[i] \in S
  PROVE  f \in Seq(S) /\ Len(f) = Len(seq)
<1>1. DOMAIN seq = 1..Len(seq) /\ Len(seq) \in Nat
  BY LenProperties
<1>2. f \in [1..Len(seq) -> S]
  BY <1>1
<1>3. f \in Seq(S)
  BY <1>1, <1>2, SeqDef
<1>4. QED BY <1>1, <1>3, LenProperties

(* A nonempty set of positions has a last one. *)
LEMMA Maximum ==
  ASSUME NEW n \in Nat, NEW F, F \subseteq 1..n, F # {}
  PROVE  \E s \in F : \A t \in F : t <= s
<1> DEFINE Gap == {g \in Nat : \E s \in F : g + s = n}
           Less == OpToRel(<, Nat)
<1>1. \A s \in F : s \in Nat /\ n - s \in Gap
  BY SMT
<1>2. Gap \subseteq Nat /\ Gap # {}
  BY <1>1
<1>3. IsWellFoundedOn(Less, Nat)
  BY NatLessThanWellFounded
<1>4. \A a, b \in Nat : <<a, b>> \in Less <=> a < b
  BY DEF OpToRel
<1>5. \A g \in Gap : g \in Nat /\ \E s \in F : g + s = n
  OBVIOUS
<1> HIDE DEF Less, Gap
<1>6. PICK g \in Gap : \A h \in Gap : <<h, g>> \notin Less
  BY <1>2, <1>3, WFMin
<1>7. \A h \in Gap : g <= h
  <2>1. \A h \in Gap : h \in Nat /\ g \in Nat /\ ~(h < g)
    BY <1>2, <1>4, <1>6, Zenon
  <2>2. QED BY <2>1
<1>8. PICK s \in F : g + s = n
  BY <1>5
<1>9. \A t \in F : t <= s
  BY <1>1, <1>5, <1>7, <1>8
<1>10. QED BY <1>9

LEMMA Rows ==
  ASSUME PersonaTypeOK
  PROVE  /\ \A s \in DOMAIN synopses : synopses[s] \in Synopsis /\ s \in SynopsisId
         /\ \A p \in DOMAIN pins : pins[p] \in Pin /\ p \in PinId
         /\ DOMAIN synopses = 1..Len(synopses) /\ Len(synopses) \in Nat
         /\ DOMAIN pins = 1..Len(pins) /\ Len(pins) \in Nat
<1>1. /\ Len(synopses) \in Nat /\ DOMAIN synopses = 1..Len(synopses)
      /\ Len(pins) \in Nat /\ DOMAIN pins = 1..Len(pins)
  BY LenProperties DEF PersonaTypeOK
<1>2. /\ \A s \in DOMAIN synopses : synopses[s] \in Synopsis
      /\ \A p \in DOMAIN pins : pins[p] \in Pin
  BY <1>1, ElementOfSeq DEF PersonaTypeOK
<1>3. QED BY <1>1, <1>2, PersonaAssumption DEF PersonaTypeOK, SynopsisId, PinId

------------------------------------------------------------------------------
(* Calls *)

(* A step changes one call at most. *)
LEMMA OneTaskChanges ==
  ASSUME PersonaTypeOK, NEW c \in Client, NEW t \in Task \cup {None}, Become(c, t)
  PROVE  /\ task' \in [Client -> Task \cup {None}]
         /\ \A d \in Client : task'[d] = IF d = c THEN t ELSE task[d]
BY DEF PersonaTypeOK, Become

(* What each kind of call holds. *)
LEMMA TaskKinds ==
  ASSUME PersonaTypeOK, NEW c \in Client
  PROVE  /\ Doing(c, "read") => task[c].scope \in Scope /\ task[c].facts \subseteq Fact
         /\ Doing(c, "ask") => /\ task[c].scope \in Scope /\ task[c].facts \subseteq Fact
                               /\ task[c].old \in SynopsisId \cup {None}
                               /\ task[c].pins \subseteq PinId
         /\ Doing(c, "mark") => task[c].fact \in Fact
         /\ Doing(c, "write") => task[c].fact \in Fact /\ task[c].target \in SynopsisId
         /\ Doing(c, "pin") => task[c].anchor \in SynopsisId \cup {None}
<1>1. task[c] \in Task \cup {None}
  BY DEF PersonaTypeOK
<1>2. QED BY <1>1 DEF Task, Doing

(* The latest synopsis is a current one, or there is none. *)
LEMMA LatestIsCurrent ==
  ASSUME PersonaTypeOK, NEW scope \in Scope
  PROVE  /\ Row(Latest(scope)) /\ Latest(scope) \in SynopsisId \cup {None}
         /\ Latest(scope) # None => Latest(scope) \in SynopsesOf(scope)
         /\ Latest(scope) = None => SynopsesOf(scope) = {}
<1> DEFINE F == SynopsesOf(scope)
<1>1. F \subseteq 1..Len(synopses) /\ Len(synopses) \in Nat
  BY Rows DEF SynopsesOf
<1>2. CASE F = {}
  BY <1>2 DEF Latest, Row
<1>3. CASE F # {}
  <2>1. \E s \in F : \A t \in F : t <= s
    BY <1>1, <1>3, Maximum
  <2>2. Latest(scope) \in F
    BY <1>3, <2>1 DEF Latest
  <2>3. QED BY <1>1, <2>2, Rows, PersonaAssumption DEF SynopsesOf, Row
<1>4. QED BY <1>2, <1>3

(* The row that a compile inserts. *)
NewRow == Len(synopses) + 1

(* What each commit stores. *)
LEMMA CommittedRows ==
  ASSUME PersonaTypeOK, NEW c \in Client, CommitCompile(c)
  PROVE  /\ synopses' \in Seq(Synopsis) /\ Len(synopses') = NewRow /\ NewRow <= MaxSynopses
         /\ NewRow \in Nat /\ NewRow \notin DOMAIN synopses
         /\ DOMAIN synopses' = DOMAIN synopses \cup {NewRow}
         /\ \A s \in DOMAIN synopses :
              /\ synopses'[s].facts = synopses[s].facts
              /\ synopses'[s].stale = synopses[s].stale
              /\ synopses'[s].current <=> synopses[s].current /\ s # task[c].old
         /\ synopses'[NewRow] = [scope |-> task[c].scope, current |-> TRUE, stale |-> FALSE,
                              facts |-> task[c].facts]
         /\ pins' \in Seq(Pin) /\ Len(pins') = Len(pins) /\ DOMAIN pins' = DOMAIN pins
         /\ \A p \in DOMAIN pins :
              /\ pins'[p].raced = pins[p].raced
              /\ pins'[p].anchor = IF p \in task[c].pins THEN NewRow ELSE pins[p].anchor
<1> DEFINE old == task[c].old
           row == [scope |-> task[c].scope, current |-> TRUE, stale |-> FALSE,
                   facts |-> task[c].facts]
           kept == [s \in DOMAIN synopses |-> Retired(s, old)]
           carried == [p \in DOMAIN pins |-> Carried(p, task[c].pins, NewRow)]
<1>1. /\ \A s \in DOMAIN synopses : synopses[s] \in Synopsis
      /\ \A p \in DOMAIN pins : pins[p] \in Pin
      /\ Len(synopses) \in Nat /\ DOMAIN synopses = 1..Len(synopses)
      /\ DOMAIN pins = 1..Len(pins) /\ Len(pins) \in Nat
  BY Rows
<1>2. /\ task[c].scope \in Scope /\ task[c].facts \subseteq Fact
      /\ NewRow <= MaxSynopses /\ NewRow \in SynopsisId
  BY <1>1, TaskKinds, PersonaAssumption DEF CommitCompile, SynopsisId, NewRow
<1>3. row \in Synopsis
  BY <1>2 DEF Synopsis
<1>4. \A s \in DOMAIN synopses : /\ kept[s] \in Synopsis
                                 /\ kept[s].facts = synopses[s].facts
                                 /\ kept[s].stale = synopses[s].stale
                                 /\ kept[s].current <=> synopses[s].current /\ s # old
  BY <1>1 DEF Retired, Synopsis
<1>5. kept \in Seq(Synopsis) /\ Len(kept) = Len(synopses)
  BY <1>1, <1>4, Rewritten DEF PersonaTypeOK
<1>6. \A p \in DOMAIN pins :
        /\ carried[p] \in Pin
        /\ carried[p].raced = pins[p].raced
        /\ carried[p].anchor = IF p \in task[c].pins THEN NewRow ELSE pins[p].anchor
  BY <1>1, <1>2 DEF Carried, Pin
<1>7. carried \in Seq(Pin) /\ Len(carried) = Len(pins)
  BY <1>1, <1>6, Rewritten DEF PersonaTypeOK
<1>8. synopses' = Append(kept, row) /\ pins' = carried
  BY DEF CommitCompile, NewRow
<1> HIDE DEF kept, row, carried
<1>9. /\ synopses' \in Seq(Synopsis) /\ Len(synopses') = NewRow
      /\ DOMAIN synopses' = DOMAIN kept \cup {NewRow} /\ NewRow \notin DOMAIN kept
      /\ synopses'[NewRow] = row
      /\ \A s \in DOMAIN kept : synopses'[s] = kept[s]
  BY <1>3, <1>5, <1>8, Appended DEF NewRow
<1>10. DOMAIN kept = DOMAIN synopses /\ DOMAIN carried = DOMAIN pins
  BY DEF kept, carried
<1>11. NewRow \in Nat
  BY <1>1 DEF NewRow
<1>12. \A s \in DOMAIN synopses : synopses'[s] = kept[s]
  BY <1>9, <1>10
<1>13. \A s \in DOMAIN synopses : /\ synopses'[s].facts = synopses[s].facts
                                  /\ synopses'[s].stale = synopses[s].stale
                                  /\ synopses'[s].current <=> synopses[s].current /\ s # old
  BY <1>4, <1>12
<1>14. pins' \in Seq(Pin) /\ Len(pins') = Len(pins) /\ DOMAIN pins' = DOMAIN pins
  BY <1>7, <1>8, <1>10
<1>15. \A p \in DOMAIN pins :
         /\ pins'[p].raced = pins[p].raced
         /\ pins'[p].anchor = IF p \in task[c].pins THEN NewRow ELSE pins[p].anchor
  BY <1>6, <1>8
<1>16. DOMAIN synopses' = DOMAIN synopses \cup {NewRow} /\ NewRow \notin DOMAIN synopses
  BY <1>9, <1>10
<1> HIDE DEF old
<1>17. QED
  BY <1>2, <1>9, <1>11, <1>13, <1>14, <1>15, <1>16 DEF row, old

LEMMA MarkedRows ==
  ASSUME PersonaTypeOK, NEW c \in Client, MarkStale(c)
  PROVE  /\ synopses' \in Seq(Synopsis) /\ Len(synopses') = Len(synopses)
         /\ DOMAIN synopses' = DOMAIN synopses
         /\ \A s \in DOMAIN synopses :
              /\ synopses'[s].facts = synopses[s].facts
              /\ synopses'[s].current = synopses[s].current
              /\ synopses'[s].stale <=> synopses[s].stale \/ s = task[c].target
<1>1. /\ \A s \in DOMAIN synopses : synopses[s] \in Synopsis
      /\ Len(synopses) \in Nat /\ DOMAIN synopses = 1..Len(synopses)
  BY Rows
<1>2. synopses' = [synopses EXCEPT ![task[c].target].stale = TRUE]
  BY DEF MarkStale
<1>3. synopses = [s \in DOMAIN synopses |-> synopses[s]]
  BY <1>1, SeqDef DEF PersonaTypeOK
<1>4. /\ DOMAIN synopses' = DOMAIN synopses
      /\ synopses' = [s \in DOMAIN synopses |-> synopses'[s]]
      /\ \A s \in DOMAIN synopses :
           synopses'[s] = IF s = task[c].target THEN [synopses[s] EXCEPT !.stale = TRUE]
                                                ELSE synopses[s]
  BY <1>2, <1>3
<1>5. \A s \in DOMAIN synopses :
        /\ synopses'[s] \in Synopsis
        /\ synopses'[s].facts = synopses[s].facts
        /\ synopses'[s].current = synopses[s].current
        /\ synopses'[s].stale <=> synopses[s].stale \/ s = task[c].target
  BY <1>1, <1>4 DEF Synopsis
<1>6. synopses' \in Seq(Synopsis) /\ Len(synopses') = Len(synopses)
  BY <1>4, <1>5, Rewritten DEF PersonaTypeOK
<1>7. QED BY <1>4, <1>5, <1>6

LEMMA AddedPin ==
  ASSUME PersonaTypeOK, NEW c \in Client, CommitPin(c)
  PROVE  \E pin \in Pin :
           /\ pins' = Append(pins, pin)
           /\ pin.anchor = task[c].anchor
           /\ pin.anchor # None /\ ~pin.raced =>
                /\ synopses[pin.anchor].current
                /\ \A d \in Client : Doing(d, "ask") => task[d].old # pin.anchor
<1> DEFINE s == task[c].anchor
           taken == /\ s # None
                    /\ \/ ~synopses[s].current
                       \/ \E d \in Client : Doing(d, "ask") /\ task[d].old = s
           pin == [anchor |-> s, raced |-> taken]
<1>1. s \in SynopsisId \cup {None}
  BY TaskKinds DEF CommitPin
<1>2. pin \in Pin
  BY <1>1 DEF Pin
<1>3. pins' = Append(pins, pin)
  BY DEF CommitPin
<1>4. QED BY <1>2, <1>3

------------------------------------------------------------------------------
(* Types *)

(* The facts of a call are facts. *)
LEMMA FactsAreFacts ==
  ASSUME PersonaTypeOK
  PROVE  /\ DOMAIN facts \subseteq Fact
         /\ \A f \in DOMAIN facts : facts[f] \in Scope
         /\ \A scope : FactsOf(scope) \subseteq Fact
BY DEF PersonaTypeOK, FactsOf

LEMMA StepKeepsTypes ==
  ASSUME PersonaTypeOK, [Next]_vars
  PROVE  PersonaTypeOK'
<1> USE DEF PersonaTypeOK
<1>1. CASE UNCHANGED vars
  BY <1>1 DEF vars
<1>2. ASSUME NEW c \in Client, NEW scope \in Scope, StartCompile(c, scope)
      PROVE  PersonaTypeOK'
  <2>1. [op |-> "read", scope |-> scope, facts |-> FactsOf(scope)] \in Task
    BY FactsAreFacts DEF Task
  <2>2. task' \in [Client -> Task \cup {None}]
    BY <1>2, <2>1, OneTaskChanges DEF StartCompile
  <2>3. mixed' \in BOOLEAN
    BY <1>2 DEF StartCompile
  <2>4. QED BY <1>2, <2>2, <2>3 DEF StartCompile
<1>3. ASSUME NEW c \in Client, ReadSynopsis(c) PROVE PersonaTypeOK'
  <2> DEFINE old == Latest(task[c].scope)
  <2>1. task[c].scope \in Scope /\ task[c].facts \subseteq Fact
    BY <1>3, TaskKinds DEF ReadSynopsis
  <2>2. old \in SynopsisId \cup {None}
    BY <2>1, LatestIsCurrent
  <2>3. PinsOn(old) \subseteq PinId
    BY Rows DEF PinsOn
  <2> HIDE DEF old
  <2>4. [op |-> "ask", scope |-> task[c].scope, facts |-> task[c].facts, old |-> old,
         pins |-> PinsOn(old)] \in Task
    BY <2>1, <2>2, <2>3 DEF Task
  <2>5. task' \in [Client -> Task \cup {None}]
    BY <1>3, <2>4, OneTaskChanges DEF ReadSynopsis, old
  <2>6. QED BY <1>3, <2>5 DEF ReadSynopsis
<1>4. ASSUME NEW c \in Client, CommitCompile(c) PROVE PersonaTypeOK'
  <2>1. task' \in [Client -> Task \cup {None}]
    BY <1>4, OneTaskChanges DEF CommitCompile, Finish
  <2>2. /\ synopses' \in Seq(Synopsis) /\ Len(synopses') <= MaxSynopses
        /\ pins' \in Seq(Pin) /\ Len(pins') <= MaxPins
    <3>1. /\ synopses' \in Seq(Synopsis) /\ Len(synopses') = NewRow /\ NewRow <= MaxSynopses
          /\ pins' \in Seq(Pin) /\ Len(pins') = Len(pins)
      BY <1>4, CommittedRows, Zenon
    <3>2. QED BY <3>1
  <2>3. QED BY <1>4, <2>1, <2>2 DEF CommitCompile
<1>5. ASSUME NEW c \in Client, FailCompile(c) \/ DropPin(c) PROVE PersonaTypeOK'
  <2>1. task' \in [Client -> Task \cup {None}]
    BY <1>5, OneTaskChanges DEF FailCompile, DropPin, Finish
  <2>2. QED BY <1>5, <2>1 DEF FailCompile, DropPin
<1>6. ASSUME NEW c \in Client, NEW f \in Fact, NEW scope \in Scope, LandFact(c, f, scope)
      PROVE  PersonaTypeOK'
  <2>1. facts' \in [DOMAIN facts \cup {f} -> Scope] /\ DOMAIN facts \cup {f} \subseteq Fact
    BY <1>6, FactsAreFacts DEF LandFact
  <2>2. [op |-> "mark", fact |-> f] \in Task
    BY DEF Task
  <2>3. task' \in [Client -> Task \cup {None}]
    BY <1>6, <2>2, OneTaskChanges DEF LandFact
  <2>4. overtaken' \subseteq Fact
    BY <1>6 DEF LandFact
  <2>5. QED BY <1>6, <2>1, <2>3, <2>4 DEF LandFact
<1>7. ASSUME NEW c \in Client, FindStale(c) PROVE PersonaTypeOK'
  <2> DEFINE s == Latest(None)
  <2>1. s \in SynopsisId \cup {None}
    BY LatestIsCurrent, PersonaAssumption
  <2>2. task[c].fact \in Fact
    BY <1>7, TaskKinds DEF FindStale
  <2> HIDE DEF s
  <2>3. s # None => [op |-> "write", fact |-> task[c].fact, target |-> s] \in Task
    BY <2>1, <2>2 DEF Task
  <2>4. task' \in [Client -> Task \cup {None}]
    BY <1>7, <2>3, OneTaskChanges DEF FindStale, Finish, s
  <2>5. QED BY <1>7, <2>4 DEF FindStale
<1>8. ASSUME NEW c \in Client, MarkStale(c) PROVE PersonaTypeOK'
  <2>1. task' \in [Client -> Task \cup {None}]
    BY <1>8, OneTaskChanges DEF MarkStale, Finish
  <2>2. synopses' \in Seq(Synopsis) /\ Len(synopses') = Len(synopses)
    BY <1>8, MarkedRows
  <2>3. QED BY <1>8, <2>1, <2>2 DEF MarkStale
<1>9. ASSUME NEW c \in Client, LoseMark(c) PROVE PersonaTypeOK'
  <2>1. task' \in [Client -> Task \cup {None}] /\ task[c].fact \in Fact
    BY <1>9, OneTaskChanges, TaskKinds DEF LoseMark, Finish
  <2>2. QED BY <1>9, <2>1 DEF LoseMark
<1>10. ASSUME NEW c \in Client, StartPin(c) PROVE PersonaTypeOK'
  <2>1. Latest(None) \in SynopsisId \cup {None}
    BY LatestIsCurrent, PersonaAssumption
  <2>2. [op |-> "pin", anchor |-> Latest(None)] \in Task
    BY <2>1 DEF Task
  <2>3. task' \in [Client -> Task \cup {None}]
    BY <1>10, <2>2, OneTaskChanges DEF StartPin
  <2>4. QED BY <1>10, <2>3 DEF StartPin
<1>11. ASSUME NEW c \in Client, CommitPin(c) PROVE PersonaTypeOK'
  <2>1. task' \in [Client -> Task \cup {None}]
    BY <1>11, OneTaskChanges DEF CommitPin, Finish
  <2>2. PICK pin \in Pin : pins' = Append(pins, pin)
    BY <1>11, AddedPin
  <2>3. pins' \in Seq(Pin) /\ Len(pins') = Len(pins) + 1 /\ Len(pins) \in Nat
    BY <2>2, Appended
  <2>4. Len(pins') <= MaxPins
    BY <1>11, <2>3, PersonaAssumption DEF CommitPin
  <2>5. QED BY <1>11, <2>1, <2>3, <2>4 DEF CommitPin
<1>12. QED
  BY <1>1, <1>2, <1>3, <1>4, <1>5, <1>6, <1>7, <1>8, <1>9, <1>10, <1>11 DEF Next

(* Every row, pin, fact and call has its type. *)
THEOREM PersonaTypesHold == Spec => []PersonaTypeOK
<1>1. Init => PersonaTypeOK
  <2> SUFFICES ASSUME Init PROVE PersonaTypeOK
    OBVIOUS
  <2>1. facts \in [{} -> Scope] /\ {} \in SUBSET Fact
    BY DEF Init
  <2>2. /\ synopses \in Seq(Synopsis) /\ Len(synopses) = 0
        /\ pins \in Seq(Pin) /\ Len(pins) = 0
    BY DEF Init
  <2>3. Len(synopses) <= MaxSynopses /\ Len(pins) <= MaxPins
    BY <2>2, PersonaAssumption
  <2>4. facts \in UNION {[S -> Scope] : S \in SUBSET Fact}
    BY <2>1
  <2>5. task \in [Client -> Task \cup {None}] /\ overtaken \subseteq Fact /\ mixed \in BOOLEAN
    BY DEF Init
  <2>6. QED BY <2>2, <2>3, <2>4, <2>5 DEF PersonaTypeOK
<1>2. PersonaTypeOK /\ [Next]_vars => PersonaTypeOK'
  BY StepKeepsTypes
<1>3. QED BY <1>1, <1>2, PTL DEF Spec

------------------------------------------------------------------------------
(* Pins *)

(* A step that moves no pin and retires no synopsis, and leaves its call with what is there. *)
LEMMA QuietStep ==
  ASSUME PinsInv, pins' = pins, DOMAIN synopses' = DOMAIN synopses,
         \A s \in DOMAIN synopses : synopses'[s].current = synopses[s].current,
         NEW c \in Client, NEW t \in Task \cup {None}, Become(c, t), TaskOK(t)
  PROVE  TasksOK' /\ AnchorsOK' /\ PinsSurviveRecompile'
<1>1. \A d \in Client : task'[d] = IF d = c THEN t ELSE task[d]
  BY OneTaskChanges DEF PinsInv
<1>2. \A d \in Client : TaskOK(task[d])
  BY DEF PinsInv, TasksOK
<1>3. \A d \in Client : TaskOK(task'[d])
  BY <1>1, <1>2
<1>4. TasksOK'
  BY <1>3 DEF TasksOK, TaskOK, HoldsPins, Row
<1>5. AnchorsOK'
  BY DEF PinsInv, AnchorsOK, Row
<1>6. PinsSurviveRecompile'
  BY DEF PinsInv, AnchorsOK, PinsSurviveRecompile, Row
<1>7. QED BY <1>4, <1>5, <1>6

(* The compile takes along the pins that it read, and all of its synopsis were read. *)
LEMMA CompileKeepsPins ==
  ASSUME PinsInv, NEW c \in Client, CommitCompile(c)
  PROVE  TasksOK' /\ AnchorsOK' /\ PinsSurviveRecompile'
<1> DEFINE t == task[c]
<1>1. t # None /\ t.op = "ask" /\ HoldsPins(t)
  BY DEF PinsInv, TasksOK, TaskOK, CommitCompile, Doing
<1>2. \A d \in Client : task'[d] = IF d = c THEN None ELSE task[d]
  BY OneTaskChanges DEF PinsInv, CommitCompile, Finish
<1>3. /\ NewRow # None /\ NewRow \notin DOMAIN synopses
      /\ DOMAIN synopses' = DOMAIN synopses \cup {NewRow}
      /\ \A s \in DOMAIN synopses : synopses'[s].current <=> synopses[s].current /\ s # t.old
      /\ synopses'[NewRow].current
      /\ DOMAIN pins' = DOMAIN pins
      /\ \A p \in DOMAIN pins :
           /\ pins'[p].raced = pins[p].raced
           /\ pins'[p].anchor = IF p \in t.pins THEN NewRow ELSE pins[p].anchor
  <2>1. PersonaTypeOK
    BY DEF PinsInv
  <2>2. /\ NewRow \in Nat /\ NewRow \notin DOMAIN synopses
        /\ DOMAIN synopses' = DOMAIN synopses \cup {NewRow}
        /\ \A s \in DOMAIN synopses :
             synopses'[s].current <=> synopses[s].current /\ s # task[c].old
    BY <2>1, CommittedRows, Zenon
  <2>3. synopses'[NewRow] = [scope |-> task[c].scope, current |-> TRUE, stale |-> FALSE,
                             facts |-> task[c].facts]
    BY <2>1, CommittedRows, Zenon
  <2>4. /\ DOMAIN pins' = DOMAIN pins
        /\ \A p \in DOMAIN pins :
             /\ pins'[p].raced = pins[p].raced
             /\ pins'[p].anchor = IF p \in task[c].pins THEN NewRow ELSE pins[p].anchor
    BY <2>1, CommittedRows, Zenon
  <2>5. QED BY <2>2, <2>3, <2>4, PersonaAssumption
<1> HIDE DEF t
<1>4. \A p \in DOMAIN pins : Row(pins[p].anchor)
  BY DEF PinsInv, AnchorsOK
<1>5. TasksOK'
  <2> SUFFICES ASSUME NEW d \in Client PROVE TaskOK(task[d])'
    BY DEF TasksOK
  <2>1. CASE d = c
    BY <1>2, <2>1 DEF TaskOK
  <2>2. CASE d # c
    <3>1. TaskOK(task[d]) /\ task'[d] = task[d]
      BY <1>2, <2>2 DEF PinsInv, TasksOK
    <3>2. HoldsPins(task[d]) => HoldsPins(task[d])'
      BY <1>2, <1>3, <1>4, <2>2, <3>1 DEF HoldsPins, Row
    <3>3. QED BY <1>3, <3>1, <3>2 DEF TaskOK, Row, HoldsPins
  <2>3. QED BY <2>1, <2>2
<1>6. AnchorsOK'
  BY <1>3, <1>4 DEF AnchorsOK, Row
<1>7. PinsSurviveRecompile'
  <2> SUFFICES ASSUME NEW p \in DOMAIN pins, pins'[p].anchor # None, ~pins'[p].raced
               PROVE  synopses'[pins'[p].anchor].current
    BY <1>3 DEF PinsSurviveRecompile
  <2>1. CASE p \in t.pins
    BY <1>3, <2>1
  <2>2. CASE p \notin t.pins
    <3>1. pins'[p].anchor = pins[p].anchor /\ ~pins[p].raced
      BY <1>3, <2>2
    <3>2. synopses[pins[p].anchor].current /\ pins[p].anchor \in DOMAIN synopses
      BY <1>4, <3>1 DEF PinsInv, PinsSurviveRecompile, Row
    <3>3. pins[p].anchor # t.old
      BY <1>1, <2>2, <3>1 DEF HoldsPins
    <3>4. QED BY <1>3, <3>1, <3>2, <3>3
  <2>3. QED BY <2>1, <2>2
<1>8. QED BY <1>5, <1>6, <1>7

(* A pin that is not raced lands on a current synopsis that no compile has read. *)
LEMMA PinKeepsPins ==
  ASSUME PinsInv, NEW c \in Client, CommitPin(c)
  PROVE  TasksOK' /\ AnchorsOK' /\ PinsSurviveRecompile'
<1>1. PICK pin \in Pin :
        /\ pins' = Append(pins, pin)
        /\ pin.anchor = task[c].anchor
        /\ pin.anchor # None /\ ~pin.raced =>
             /\ synopses[pin.anchor].current
             /\ \A d \in Client : Doing(d, "ask") => task[d].old # pin.anchor
  BY AddedPin DEF PinsInv
<1>2. Row(pin.anchor)
  BY <1>1 DEF PinsInv, TasksOK, TaskOK, CommitPin, Doing
<1> DEFINE new == Len(pins) + 1
<1>3. /\ DOMAIN pins' = DOMAIN pins \cup {new}
      /\ \A p \in DOMAIN pins : pins'[p] = pins[p]
      /\ pins'[new] = pin
  BY <1>1, Appended DEF PinsInv, PersonaTypeOK
<1>4. \A d \in Client : task'[d] = IF d = c THEN None ELSE task[d]
  BY OneTaskChanges DEF PinsInv, CommitPin, Finish
<1>5. synopses' = synopses
  BY DEF CommitPin
<1> HIDE DEF new
<1>6. TasksOK'
  <2> SUFFICES ASSUME NEW d \in Client PROVE TaskOK(task[d])'
    BY DEF TasksOK
  <2>1. CASE d = c
    BY <1>4, <2>1 DEF TaskOK
  <2>2. CASE d # c
    <3>1. TaskOK(task[d]) /\ task'[d] = task[d]
      BY <1>4, <2>2 DEF PinsInv, TasksOK
    <3>2. task[d] # None /\ task[d].op = "ask" => Doing(d, "ask")
      BY DEF Doing
    <3>3. ASSUME task[d] # None, task[d].op = "ask"
          PROVE  HoldsPins(task[d])'
      BY <1>1, <1>3, <1>5, <3>1, <3>2, <3>3 DEF TaskOK, HoldsPins, Row
    <3>4. QED BY <1>5, <3>1, <3>3 DEF TaskOK, Row
  <2>3. QED BY <2>1, <2>2
<1>7. AnchorsOK'
  BY <1>2, <1>3, <1>5 DEF PinsInv, AnchorsOK, Row
<1>8. PinsSurviveRecompile'
  BY <1>1, <1>3, <1>5 DEF PinsInv, PinsSurviveRecompile
<1>9. QED BY <1>6, <1>7, <1>8

LEMMA StepKeepsPins ==
  ASSUME PinsInv, [Next]_vars
  PROVE  PinsInv'
<1> SUFFICES TasksOK' /\ AnchorsOK' /\ PinsSurviveRecompile'
  BY StepKeepsTypes DEF PinsInv
<1>1. CASE UNCHANGED vars
  BY <1>1 DEF vars, PinsInv, TasksOK, TaskOK, HoldsPins, AnchorsOK, PinsSurviveRecompile, Row
<1>2. ASSUME NEW c \in Client, NEW scope \in Scope, StartCompile(c, scope)
      PROVE  TasksOK' /\ AnchorsOK' /\ PinsSurviveRecompile'
  <2> DEFINE t == [op |-> "read", scope |-> scope, facts |-> FactsOf(scope)]
  <2>1. t \in Task /\ TaskOK(t)
    BY FactsAreFacts DEF PinsInv, Task, TaskOK
  <2> HIDE DEF t
  <2>2. QED BY <1>2, <2>1, QuietStep DEF StartCompile, t
<1>3. ASSUME NEW c \in Client, ReadSynopsis(c)
      PROVE  TasksOK' /\ AnchorsOK' /\ PinsSurviveRecompile'
  <2> DEFINE old == Latest(task[c].scope)
             t == [op |-> "ask", scope |-> task[c].scope, facts |-> task[c].facts,
                   old |-> old, pins |-> PinsOn(old)]
  <2>1. task[c].scope \in Scope /\ task[c].facts \subseteq Fact
    BY <1>3, TaskKinds DEF PinsInv, ReadSynopsis
  <2>2. old \in SynopsisId \cup {None} /\ Row(old)
    BY <2>1, LatestIsCurrent DEF PinsInv
  <2>3. PinsOn(old) \subseteq PinId
    BY Rows DEF PinsInv, PinsOn
  <2>4. t \in Task
    BY <2>1, <2>2, <2>3 DEF Task
  <2>5. TaskOK(t)
    BY <2>2 DEF TaskOK, HoldsPins, PinsOn
  <2>6. Become(c, t) /\ synopses' = synopses /\ pins' = pins
    BY <1>3 DEF ReadSynopsis
  <2> HIDE DEF t
  <2>7. QED BY <2>4, <2>5, <2>6, QuietStep
<1>4. ASSUME NEW c \in Client, CommitCompile(c)
      PROVE  TasksOK' /\ AnchorsOK' /\ PinsSurviveRecompile'
  BY <1>4, CompileKeepsPins
<1>5. ASSUME NEW c \in Client, FailCompile(c) \/ DropPin(c) \/ LoseMark(c)
      PROVE  TasksOK' /\ AnchorsOK' /\ PinsSurviveRecompile'
  <2>1. Become(c, None) /\ TaskOK(None) /\ synopses' = synopses /\ pins' = pins
    BY <1>5 DEF FailCompile, DropPin, LoseMark, Finish, TaskOK
  <2>2. QED BY <2>1, QuietStep
<1>6. ASSUME NEW c \in Client, NEW f \in Fact, NEW scope \in Scope, LandFact(c, f, scope)
      PROVE  TasksOK' /\ AnchorsOK' /\ PinsSurviveRecompile'
  <2> DEFINE t == [op |-> "mark", fact |-> f]
  <2>1. t \in Task /\ TaskOK(t)
    BY DEF Task, TaskOK
  <2>2. Become(c, t) /\ synopses' = synopses /\ pins' = pins
    BY <1>6 DEF LandFact
  <2> HIDE DEF t
  <2>3. QED BY <2>1, <2>2, QuietStep
<1>7. ASSUME NEW c \in Client, FindStale(c)
      PROVE  TasksOK' /\ AnchorsOK' /\ PinsSurviveRecompile'
  <2> DEFINE s == Latest(None)
             t == [op |-> "write", fact |-> task[c].fact, target |-> s]
  <2>1. s \in SynopsisId \cup {None} /\ Row(s) /\ task[c].fact \in Fact
    BY <1>7, LatestIsCurrent, TaskKinds, PersonaAssumption DEF PinsInv, FindStale
  <2>2. s # None => t \in Task /\ TaskOK(t)
    BY <2>1 DEF Task, TaskOK, Row
  <2>3. Become(c, None) \/ (s # None /\ Become(c, t))
    BY <1>7 DEF FindStale, Finish
  <2>4. TaskOK(None) /\ synopses' = synopses /\ pins' = pins
    BY <1>7 DEF FindStale, TaskOK
  <2> HIDE DEF t, s
  <2>5. QED BY <2>2, <2>3, <2>4, QuietStep
<1>8. ASSUME NEW c \in Client, MarkStale(c)
      PROVE  TasksOK' /\ AnchorsOK' /\ PinsSurviveRecompile'
  <2>1. Become(c, None) /\ TaskOK(None) /\ pins' = pins
    BY <1>8 DEF MarkStale, Finish, TaskOK
  <2>2. QED BY <1>8, <2>1, MarkedRows, QuietStep DEF PinsInv
<1>9. ASSUME NEW c \in Client, StartPin(c)
      PROVE  TasksOK' /\ AnchorsOK' /\ PinsSurviveRecompile'
  <2> DEFINE t == [op |-> "pin", anchor |-> Latest(None)]
  <2>1. Row(Latest(None)) /\ Latest(None) \in SynopsisId \cup {None}
    BY LatestIsCurrent, PersonaAssumption DEF PinsInv
  <2>2. t \in Task /\ TaskOK(t)
    BY <2>1 DEF Task, TaskOK
  <2>3. Become(c, t) /\ synopses' = synopses /\ pins' = pins
    BY <1>9 DEF StartPin
  <2> HIDE DEF t
  <2>4. QED BY <2>2, <2>3, QuietStep
<1>10. ASSUME NEW c \in Client, CommitPin(c)
      PROVE  TasksOK' /\ AnchorsOK' /\ PinsSurviveRecompile'
  BY <1>10, PinKeepsPins
<1>11. QED
  BY <1>1, <1>2, <1>3, <1>4, <1>5, <1>6, <1>7, <1>8, <1>9, <1>10 DEF Next

(* Pins survive every recompile but one that had read the pins before they landed. *)
THEOREM PinsAlwaysSurvive == Spec => []PinsSurviveRecompile
<1>1. Init /\ PersonaTypeOK => PinsInv
  BY DEF Init, PinsInv, TasksOK, TaskOK, AnchorsOK, PinsSurviveRecompile
<1>2. PinsInv /\ [Next]_vars => PinsInv'
  BY StepKeepsPins
<1>3. PinsInv => PinsSurviveRecompile
  BY DEF PinsInv
<1>4. QED BY <1>1, <1>2, <1>3, PersonaTypesHold, PTL DEF Spec

------------------------------------------------------------------------------
(* Freshness *)

(* As long as no compile overlaps another or is of a project, there is one synopsis to
   mark. *)
OneCompile ==
  \A c, d \in Client : c \in Compiling /\ d \in Compiling => c = d /\ task[c].scope = None
OneCurrent ==
  \A s, u \in DOMAIN synopses : synopses[s].current /\ synopses[u].current => s = u

(* A fact that a compile has not read landed during it. *)
ReadOrOvertaken ==
  \A c \in Compiling : DOMAIN facts \subseteq task[c].facts \cup overtaken

(* The synopsis that a compile will retire is the current one. *)
RetiresCurrent ==
  \A c \in Client, s \in DOMAIN synopses :
    Doing(c, "ask") /\ synopses[s].current => s = task[c].old

(* A mark goes to the current synopsis, or its fact is in that one. *)
MarksCurrent ==
  \A c \in Client, s \in DOMAIN synopses :
    Doing(c, "write") /\ synopses[s].current =>
      s = task[c].target \/ task[c].fact \in synopses[s].facts \cup overtaken

(* Who marks, marks for a fact that landed. *)
MarksFacts ==
  \A c \in Client : Doing(c, "mark") \/ Doing(c, "write") => task[c].fact \in DOMAIN facts

CurrentIsComplete ==
  \A s \in DOMAIN synopses :
    synopses[s].current /\ ~synopses[s].stale =>
      DOMAIN facts \subseteq synopses[s].facts \cup overtaken \cup Awaited

Settled == /\ OneCompile /\ OneCurrent /\ ReadOrOvertaken /\ RetiresCurrent
           /\ MarksCurrent /\ MarksFacts /\ CurrentIsComplete

FreshInv == mixed \/ Settled

(* What a call does next, and what it leaves to the others. *)
LEMMA OneCallChanges ==
  ASSUME PersonaTypeOK, NEW c \in Client, NEW t \in Task \cup {None}, Become(c, t)
  PROVE  /\ \A d \in Client \ {c} : \A op : Doing(d, op)' <=> Doing(d, op)
         /\ \A d \in Client \ {c} : task'[d] = task[d] /\ (d \in Compiling' <=> d \in Compiling)
         /\ task'[c] = t
         /\ \A op : Doing(c, op)' <=> t # None /\ t.op = op
BY OneTaskChanges DEF Doing, Compiling

(* A step that changes no synopsis, and whose call neither compiles nor marks afterwards. *)
LEMMA EndKeepsSettled ==
  ASSUME PersonaTypeOK, Settled, NEW c \in Client, Become(c, None),
         synopses' = synopses, facts' = facts, overtaken \subseteq overtaken',
         Doing(c, "mark") \/ Doing(c, "write") =>
           \A s \in DOMAIN synopses :
             synopses[s].current /\ ~synopses[s].stale =>
               task[c].fact \in synopses[s].facts \cup overtaken'
  PROVE  Settled'
<1>1. /\ \A d \in Client \ {c} : \A op : Doing(d, op)' <=> Doing(d, op)
      /\ \A d \in Client \ {c} : task'[d] = task[d] /\ (d \in Compiling' <=> d \in Compiling)
      /\ \A op : ~Doing(c, op)'
      /\ c \notin Compiling'
  BY OneCallChanges DEF Compiling
<1>2. OneCompile' /\ OneCurrent' /\ RetiresCurrent'
  BY <1>1 DEF Settled, OneCompile, OneCurrent, RetiresCurrent, Compiling
<1>3. ReadOrOvertaken' /\ MarksFacts' /\ MarksCurrent'
  BY <1>1 DEF Settled, ReadOrOvertaken, MarksFacts, MarksCurrent, Compiling
<1>4. CurrentIsComplete'
  <2>1. Awaited \subseteq Awaited' \cup {task[c].fact}
    BY <1>1 DEF Awaited
  <2>2. ~Doing(c, "mark") /\ ~Doing(c, "write") => Awaited \subseteq Awaited'
    BY <1>1 DEF Awaited
  <2>3. QED BY <2>1, <2>2 DEF Settled, CurrentIsComplete
<1>5. QED BY <1>2, <1>3, <1>4 DEF Settled

LEMMA StartKeepsSettled ==
  ASSUME PersonaTypeOK, Settled, NEW c \in Client, NEW scope \in Scope,
         StartCompile(c, scope), ~mixed'
  PROVE  Settled'
<1> DEFINE t == [op |-> "read", scope |-> scope, facts |-> FactsOf(scope)]
<1>1. t \in Task /\ t # None /\ t.op = "read"
  BY FactsAreFacts, NoneIsNoTask DEF Task
<1>2. /\ Become(c, t) /\ synopses' = synopses /\ facts' = facts /\ overtaken' = overtaken
      /\ task[c] = None
  BY DEF StartCompile
<1>3. Compiling = {} /\ scope = None /\ t.scope = None /\ t.facts = DOMAIN facts
  BY DEF StartCompile, FactsOf
<1> HIDE DEF t
<1>4. /\ \A d \in Client \ {c} : \A op : Doing(d, op)' <=> Doing(d, op)
      /\ \A d \in Client \ {c} : task'[d] = task[d] /\ (d \in Compiling' <=> d \in Compiling)
      /\ task'[c] = t
      /\ \A op : Doing(c, op)' <=> op = "read"
      /\ \A op : ~Doing(c, op)
  BY <1>1, <1>2, OneCallChanges DEF Doing
<1>5. Awaited' = Awaited
  BY <1>4 DEF Awaited
<1>6. OneCompile' /\ ReadOrOvertaken'
  BY <1>2, <1>3, <1>4 DEF OneCompile, ReadOrOvertaken, Compiling
<1>7. OneCurrent' /\ RetiresCurrent' /\ MarksCurrent' /\ MarksFacts'
  BY <1>2, <1>4 DEF Settled, OneCurrent, RetiresCurrent, MarksCurrent, MarksFacts
<1>8. CurrentIsComplete'
  BY <1>2, <1>5 DEF Settled, CurrentIsComplete
<1>9. QED BY <1>6, <1>7, <1>8 DEF Settled

LEMMA ReadKeepsSettled ==
  ASSUME PersonaTypeOK, Settled, NEW c \in Client, ReadSynopsis(c)
  PROVE  Settled'
<1> DEFINE old == Latest(task[c].scope)
           t == [op |-> "ask", scope |-> task[c].scope, facts |-> task[c].facts,
                 old |-> old, pins |-> PinsOn(old)]
<1>1. task[c].scope \in Scope /\ task[c].facts \subseteq Fact /\ c \in Compiling
  BY TaskKinds DEF ReadSynopsis, Compiling
<1>2. task[c].scope = None
  BY <1>1 DEF Settled, OneCompile
<1>3. /\ old \in SynopsisId \cup {None}
      /\ old # None => old \in SynopsesOf(None)
      /\ old = None => SynopsesOf(None) = {}
  BY <1>1, <1>2, LatestIsCurrent
<1>4. PinsOn(old) \subseteq PinId
  BY Rows DEF PinsOn
<1>5. t \in Task /\ t.op = "ask" /\ t.scope = None /\ t.facts = task[c].facts /\ t.old = old
  BY <1>1, <1>2, <1>3, <1>4 DEF Task
<1>6. t # None
  BY <1>5, NoneIsNoTask
<1>7. Become(c, t) /\ synopses' = synopses /\ facts' = facts /\ overtaken' = overtaken
  BY DEF ReadSynopsis
<1>8. \A s \in DOMAIN synopses : synopses[s].current => s = old
  BY <1>3 DEF Settled, OneCurrent, SynopsesOf
<1> HIDE DEF t, old
<1>9. /\ \A d \in Client \ {c} : \A op : Doing(d, op)' <=> Doing(d, op)
      /\ \A d \in Client \ {c} : task'[d] = task[d] /\ (d \in Compiling' <=> d \in Compiling)
      /\ task'[c] = t
      /\ \A op : Doing(c, op)' <=> op = "ask"
      /\ ~Doing(c, "mark") /\ ~Doing(c, "write")
  BY <1>5, <1>6, <1>7, OneCallChanges DEF Doing, ReadSynopsis
<1>10. Awaited' = Awaited
  BY <1>9 DEF Awaited
<1>11. OneCompile' /\ ReadOrOvertaken'
  BY <1>1, <1>5, <1>7, <1>9 DEF Settled, OneCompile, ReadOrOvertaken, Compiling
<1>12. RetiresCurrent'
  BY <1>5, <1>7, <1>8, <1>9 DEF Settled, RetiresCurrent
<1>13. OneCurrent' /\ MarksCurrent' /\ MarksFacts'
  BY <1>7, <1>9 DEF Settled, OneCurrent, MarksCurrent, MarksFacts
<1>14. CurrentIsComplete'
  BY <1>7, <1>10 DEF Settled, CurrentIsComplete
<1>15. QED BY <1>11, <1>12, <1>13, <1>14 DEF Settled

LEMMA CommitKeepsSettled ==
  ASSUME PersonaTypeOK, Settled, NEW c \in Client, CommitCompile(c)
  PROVE  Settled'
<1>1. Doing(c, "ask") /\ c \in Compiling /\ Become(c, None) /\ facts' = facts
      /\ overtaken' = overtaken
  BY DEF CommitCompile, Compiling, Finish
<1>2. /\ NewRow \notin DOMAIN synopses
      /\ DOMAIN synopses' = DOMAIN synopses \cup {NewRow}
      /\ \A s \in DOMAIN synopses :
           synopses'[s].current <=> synopses[s].current /\ s # task[c].old
  BY CommittedRows, Zenon
<1>3. synopses'[NewRow] = [scope |-> task[c].scope, current |-> TRUE, stale |-> FALSE,
                           facts |-> task[c].facts]
  BY CommittedRows, Zenon
<1>4. \A s \in DOMAIN synopses' : synopses'[s].current => s = NewRow
  BY <1>1, <1>2 DEF Settled, RetiresCurrent
<1>5. /\ DOMAIN facts \subseteq synopses'[NewRow].facts \cup overtaken
      /\ synopses'[NewRow].facts = task[c].facts
  BY <1>1, <1>3 DEF Settled, ReadOrOvertaken
<1>6. /\ \A d \in Client \ {c} : \A op : Doing(d, op)' <=> Doing(d, op)
      /\ \A d \in Client \ {c} : task'[d] = task[d] /\ (d \in Compiling' <=> d \in Compiling)
      /\ \A op : ~Doing(c, op)'
      /\ c \notin Compiling'
  BY <1>1, OneCallChanges DEF Compiling
<1>7. Compiling' = {}
  BY <1>1, <1>6 DEF Settled, OneCompile, Compiling
<1>8. OneCompile' /\ ReadOrOvertaken' /\ RetiresCurrent'
  BY <1>7 DEF OneCompile, ReadOrOvertaken, RetiresCurrent, Compiling
<1>9. OneCurrent' /\ CurrentIsComplete'
  BY <1>1, <1>4, <1>5 DEF OneCurrent, CurrentIsComplete
<1>10. MarksFacts'
  BY <1>1, <1>6 DEF Settled, MarksFacts
<1>11. MarksCurrent'
  BY <1>1, <1>4, <1>5, <1>6, <1>10 DEF MarksCurrent, MarksFacts
<1>12. QED BY <1>8, <1>9, <1>10, <1>11 DEF Settled

LEMMA LandKeepsSettled ==
  ASSUME PersonaTypeOK, Settled, NEW c \in Client, NEW f \in Fact, NEW scope \in Scope,
         LandFact(c, f, scope)
  PROVE  Settled'
<1> DEFINE t == [op |-> "mark", fact |-> f]
<1>1. t \in Task /\ t # None /\ t.op = "mark" /\ t.fact = f
  BY NoneIsNoTask DEF Task
<1>2. /\ Become(c, t) /\ synopses' = synopses /\ task[c] = None
      /\ DOMAIN facts' = DOMAIN facts \cup {f}
      /\ overtaken \subseteq overtaken'
      /\ Compiling # {} => f \in overtaken'
  BY DEF LandFact
<1> HIDE DEF t
<1>3. /\ \A d \in Client \ {c} : \A op : Doing(d, op)' <=> Doing(d, op)
      /\ \A d \in Client \ {c} : task'[d] = task[d] /\ (d \in Compiling' <=> d \in Compiling)
      /\ task'[c] = t
      /\ \A op : Doing(c, op)' <=> op = "mark"
      /\ \A op : ~Doing(c, op)
  BY <1>1, <1>2, OneCallChanges DEF Doing
<1>4. c \notin Compiling'
  BY <1>3 DEF Compiling
<1>5. Awaited' = Awaited \cup {f}
  BY <1>1, <1>3 DEF Awaited
<1>6. OneCompile' /\ ReadOrOvertaken'
  BY <1>2, <1>3, <1>4 DEF Settled, OneCompile, ReadOrOvertaken, Compiling
<1>7. OneCurrent' /\ RetiresCurrent' /\ MarksCurrent'
  BY <1>2, <1>3 DEF Settled, OneCurrent, RetiresCurrent, MarksCurrent
<1>8. MarksFacts'
  BY <1>1, <1>2, <1>3 DEF Settled, MarksFacts
<1>9. CurrentIsComplete'
  BY <1>2, <1>5 DEF Settled, CurrentIsComplete
<1>10. QED BY <1>6, <1>7, <1>8, <1>9 DEF Settled

LEMMA FindKeepsSettled ==
  ASSUME PersonaTypeOK, Settled, NEW c \in Client, FindStale(c)
  PROVE  Settled'
<1> DEFINE s == Latest(None)
           t == [op |-> "write", fact |-> task[c].fact, target |-> s]
<1>1. /\ s \in SynopsisId \cup {None}
      /\ s # None => s \in SynopsesOf(None)
      /\ s = None => SynopsesOf(None) = {}
  BY LatestIsCurrent, PersonaAssumption
<1>2. \A u \in DOMAIN synopses : synopses[u].current => u = s
  BY <1>1 DEF Settled, OneCurrent, SynopsesOf
<1>3. /\ Doing(c, "mark") /\ synopses' = synopses /\ facts' = facts
      /\ overtaken' = overtaken
  BY DEF FindStale
<1>4. CASE s = None \/ synopses[s].stale
  <2>1. Become(c, None)
    BY <1>4 DEF FindStale, Finish
  <2>2. \A u \in DOMAIN synopses : ~(synopses[u].current /\ ~synopses[u].stale)
    BY <1>1, <1>2, <1>4 DEF SynopsesOf
  <2>3. QED BY <1>3, <2>1, <2>2, EndKeepsSettled
<1>5. CASE ~(s = None \/ synopses[s].stale)
  <2>1. Become(c, t)
    BY <1>5 DEF FindStale
  <2>2. task[c].fact \in Fact
    BY <1>3, TaskKinds
  <2>3. t \in Task /\ t.op = "write" /\ t.fact = task[c].fact /\ t.target = s
    BY <1>1, <1>5, <2>2 DEF Task
  <2>4. t # None
    BY <2>3, NoneIsNoTask
  <2> HIDE DEF t, s
  <2>5. /\ \A d \in Client \ {c} : \A op : Doing(d, op)' <=> Doing(d, op)
        /\ \A d \in Client \ {c} : task'[d] = task[d] /\ (d \in Compiling' <=> d \in Compiling)
        /\ task'[c] = t
        /\ \A op : Doing(c, op)' <=> op = "write"
    BY <2>1, <2>3, <2>4, OneCallChanges
  <2>6. c \notin Compiling'
    BY <2>5 DEF Compiling
  <2>7. Awaited' = Awaited
    BY <1>3, <2>3, <2>5 DEF Awaited
  <2>8. OneCompile' /\ ReadOrOvertaken'
    BY <1>3, <2>5, <2>6 DEF Settled, OneCompile, ReadOrOvertaken, Compiling
  <2>9. OneCurrent' /\ RetiresCurrent' /\ MarksFacts'
    BY <1>3, <2>3, <2>5 DEF Settled, OneCurrent, RetiresCurrent, MarksFacts
  <2>10. MarksCurrent'
    BY <1>2, <1>3, <2>3, <2>5 DEF Settled, MarksCurrent
  <2>11. CurrentIsComplete'
    BY <1>3, <2>7 DEF Settled, CurrentIsComplete
  <2>12. QED BY <2>8, <2>9, <2>10, <2>11 DEF Settled
<1>6. QED BY <1>4, <1>5

LEMMA MarkKeepsSettled ==
  ASSUME PersonaTypeOK, Settled, NEW c \in Client, MarkStale(c)
  PROVE  Settled'
<1>1. /\ Doing(c, "write") /\ Become(c, None) /\ facts' = facts /\ overtaken' = overtaken
  BY DEF MarkStale, Finish
<1>2. /\ DOMAIN synopses' = DOMAIN synopses
      /\ \A s \in DOMAIN synopses :
           /\ synopses'[s].facts = synopses[s].facts
           /\ synopses'[s].current = synopses[s].current
           /\ synopses'[s].stale <=> synopses[s].stale \/ s = task[c].target
  BY MarkedRows, Zenon
<1>3. /\ \A d \in Client \ {c} : \A op : Doing(d, op)' <=> Doing(d, op)
      /\ \A d \in Client \ {c} : task'[d] = task[d] /\ (d \in Compiling' <=> d \in Compiling)
      /\ \A op : ~Doing(c, op)'
      /\ c \notin Compiling'
  BY <1>1, OneCallChanges DEF Compiling
<1>4. OneCompile' /\ OneCurrent' /\ RetiresCurrent'
  BY <1>2, <1>3 DEF Settled, OneCompile, OneCurrent, RetiresCurrent, Compiling
<1>5. ReadOrOvertaken' /\ MarksFacts' /\ MarksCurrent'
  BY <1>1, <1>2, <1>3 DEF Settled, ReadOrOvertaken, MarksFacts, MarksCurrent, Compiling
<1>6. CurrentIsComplete'
  <2> SUFFICES ASSUME NEW s \in DOMAIN synopses, synopses[s].current, ~synopses[s].stale,
                      s # task[c].target
               PROVE  DOMAIN facts \subseteq synopses[s].facts \cup overtaken \cup Awaited'
    BY <1>1, <1>2 DEF CurrentIsComplete
  <2>1. Awaited \subseteq Awaited' \cup {task[c].fact}
    BY <1>3 DEF Awaited
  <2>2. task[c].fact \in synopses[s].facts \cup overtaken
    BY <1>1 DEF Settled, MarksCurrent
  <2>3. QED BY <2>1, <2>2 DEF Settled, CurrentIsComplete
<1>7. QED BY <1>4, <1>5, <1>6 DEF Settled

LEMMA PinKeepsSettled ==
  ASSUME PersonaTypeOK, Settled, NEW c \in Client, StartPin(c)
  PROVE  Settled'
<1> DEFINE t == [op |-> "pin", anchor |-> Latest(None)]
<1>1. Latest(None) \in SynopsisId \cup {None}
  BY LatestIsCurrent, PersonaAssumption
<1>2. t \in Task /\ t.op = "pin"
  BY <1>1 DEF Task
<1>3. /\ Become(c, t) /\ task[c] = None /\ synopses' = synopses /\ facts' = facts
      /\ overtaken' = overtaken
  BY DEF StartPin
<1> HIDE DEF t
<1>4. /\ \A d \in Client \ {c} : \A op : Doing(d, op)' <=> Doing(d, op)
      /\ \A d \in Client \ {c} : task'[d] = task[d] /\ (d \in Compiling' <=> d \in Compiling)
      /\ \A op : Doing(c, op)' => op = "pin"
      /\ \A op : ~Doing(c, op)
  BY <1>2, <1>3, OneCallChanges DEF Doing
<1>5. c \notin Compiling'
  BY <1>4 DEF Compiling
<1>6. Awaited' = Awaited
  BY <1>4 DEF Awaited
<1>7. OneCompile' /\ ReadOrOvertaken'
  BY <1>3, <1>4, <1>5 DEF Settled, OneCompile, ReadOrOvertaken, Compiling
<1>8. OneCurrent' /\ RetiresCurrent' /\ MarksFacts' /\ MarksCurrent'
  BY <1>3, <1>4 DEF Settled, OneCurrent, RetiresCurrent, MarksFacts, MarksCurrent
<1>9. CurrentIsComplete'
  BY <1>3, <1>6 DEF Settled, CurrentIsComplete
<1>10. QED BY <1>7, <1>8, <1>9 DEF Settled

LEMMA StepKeepsSettled ==
  ASSUME PersonaTypeOK, FreshInv, [Next]_vars
  PROVE  FreshInv'
<1> SUFFICES ASSUME ~mixed' PROVE Settled'
  BY DEF FreshInv
<1>a. ~mixed
  BY DEF Next, vars, StartCompile, ReadSynopsis, CommitCompile, FailCompile, LandFact,
         FindStale, MarkStale, LoseMark, StartPin, CommitPin, DropPin
<1>b. Settled
  BY <1>a DEF FreshInv
<1>1. CASE UNCHANGED vars
  BY <1>1, <1>b DEF vars, Settled, OneCompile, OneCurrent, ReadOrOvertaken, RetiresCurrent,
              MarksCurrent, MarksFacts, CurrentIsComplete, Compiling, Doing, Awaited
<1>2. ASSUME NEW c \in Client, NEW scope \in Scope, StartCompile(c, scope)
      PROVE  Settled'
  BY <1>2, <1>b, StartKeepsSettled
<1>3. ASSUME NEW c \in Client, ReadSynopsis(c) PROVE Settled'
  BY <1>3, <1>b, ReadKeepsSettled
<1>4. ASSUME NEW c \in Client, CommitCompile(c) PROVE Settled'
  BY <1>4, <1>b, CommitKeepsSettled
<1>5. ASSUME NEW c \in Client, FailCompile(c) \/ DropPin(c) \/ CommitPin(c)
      PROVE  Settled'
  <2>1. /\ Become(c, None) /\ synopses' = synopses /\ facts' = facts
        /\ overtaken' = overtaken /\ ~Doing(c, "mark") /\ ~Doing(c, "write")
    BY <1>5 DEF FailCompile, DropPin, CommitPin, Finish, Compiling, Doing
  <2>2. QED BY <1>b, <2>1, EndKeepsSettled
<1>6. ASSUME NEW c \in Client, NEW f \in Fact, NEW scope \in Scope, LandFact(c, f, scope)
      PROVE  Settled'
  BY <1>6, <1>b, LandKeepsSettled
<1>7. ASSUME NEW c \in Client, FindStale(c) PROVE Settled'
  BY <1>7, <1>b, FindKeepsSettled
<1>8. ASSUME NEW c \in Client, MarkStale(c) PROVE Settled'
  BY <1>8, <1>b, MarkKeepsSettled
<1>9. ASSUME NEW c \in Client, LoseMark(c) PROVE Settled'
  <2>1. /\ Become(c, None) /\ synopses' = synopses /\ facts' = facts
        /\ overtaken' = overtaken \cup {task[c].fact}
    BY <1>9 DEF LoseMark, Finish
  <2>2. QED BY <1>b, <2>1, EndKeepsSettled
<1>10. ASSUME NEW c \in Client, StartPin(c) PROVE Settled'
  BY <1>10, <1>b, PinKeepsSettled
<1>11. QED
  BY <1>1, <1>2, <1>3, <1>4, <1>5, <1>6, <1>7, <1>8, <1>9, <1>10 DEF Next

(* A profile that is served as fresh is complete, but for what overtook it. *)
THEOREM FreshIsComplete == Spec => []FreshSynopsisIsComplete
<1>1. Init => FreshInv
  BY DEF Init, FreshInv, Settled, OneCompile, OneCurrent, ReadOrOvertaken, RetiresCurrent,
         MarksCurrent, MarksFacts, CurrentIsComplete, Compiling, Doing
<1>2. PersonaTypeOK /\ FreshInv /\ [Next]_vars => FreshInv'
  BY StepKeepsSettled
<1>3. PersonaTypeOK /\ FreshInv => FreshSynopsisIsComplete
  <2> SUFFICES ASSUME PersonaTypeOK, FreshInv PROVE FreshSynopsisIsComplete
    OBVIOUS
  <2>1. Latest(None) # None => Latest(None) \in SynopsesOf(None)
    BY LatestIsCurrent, PersonaAssumption
  <2>2. QED
    BY <2>1 DEF FreshSynopsisIsComplete, FreshInv, Settled, CurrentIsComplete, SynopsesOf
<1>4. QED BY <1>1, <1>2, <1>3, PersonaTypesHold, PTL DEF Spec
==============================================================================
