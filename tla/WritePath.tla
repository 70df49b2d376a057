-------------------------------- MODULE WritePath --------------------------------
(***************************************************************************)
(* What write_memory does before a row exists, as a whole: a write to a    *)
(* project enrols its writer in one transaction and passes the curation    *)
(* gate in another, while others create projects, admit and remove members *)
(* and change rules.                                                       *)
(***************************************************************************)
EXTENDS Projects, Curation

CONSTANT MaxCalls   \* bounds the calls of tools and of rule pages

ASSUME WritePathAssumption ==
  /\ None \notin Project /\ {None} \cup Project \subseteq Place
  /\ MaxCalls \in Nat

VARIABLE calls      \* how many there were

vars == <<projectVars, curationVars, calls>>

Init == ProjectInit /\ CurationInit /\ calls = 0

Call == calls < MaxCalls /\ calls' = calls + 1
Free(c) == ask[c] = None /\ draft[c] = None

\* A personal memory needs no membership.
WriteForSelf(c, u, x, force) == StartWrite(c, u, None, x, force) /\ UNCHANGED projectVars

\* The writer was a member when the first transaction ended; nobody looks again.
WriteToProject(c, x, force) ==
  /\ Asked(c, "enrolled")
  /\ EndAsk(c)
  /\ StartWrite(c, ask[c].user, ask[c].project, x, force)
  /\ UNCHANGED projects /\ NobodyJoins

StartCall(c) ==
  \/ StartOnProject(c) /\ UNCHANGED curationVars
  \/ \E u \in User, x \in Content, force \in BOOLEAN : WriteForSelf(c, u, x, force)
  \/ /\ UNCHANGED projectVars
     /\ \E u \in User, n \in RuleName, s \in Settings : StartSetRule(c, u, n, s)

RulePage ==
  \/ \E c \in Client, r \in Rows : Free(c) /\ StartDeleteRule(c, r)
  \/ \E n \in RuleName, l \in Layer, s \in Settings, o \in BOOLEAN : CreateRule(n, l, s, o)
  \/ \E r \in Rows, s \in Settings, o \in BOOLEAN : EditRule(r, s, o)

ContinueCall(c) ==
  \/ (CommitOnProject(c) \/ DropAsk(c)) /\ UNCHANGED curationVars
  \/ \E x \in Content, force \in BOOLEAN : WriteToProject(c, x, force)
  \/ (CommitCurated(c) \/ DropDraft(c)) /\ UNCHANGED projectVars

\* The process ends, and with it every request.
RestartAll ==
  /\ Restart
  /\ ask' = [c \in Client |-> None]
  /\ UNCHANGED projects /\ NobodyJoins

Next ==
  \/ \E c \in Client : \/ Free(c) /\ Call /\ StartCall(c)
                       \/ ContinueCall(c) /\ UNCHANGED calls
  \/ Call /\ RulePage /\ UNCHANGED projectVars
  \/ RestartAll /\ UNCHANGED calls

Spec == Init /\ [][Next]_vars

------------------------------------------------------------------------------

TypeOK == ProjectTypeOK /\ CurationTypeOK /\ calls \in 0..MaxCalls

\* What is written to an invite-only project is written by somebody who was let in:
\* membership, gate and insert are transactions of their own, and the project may be created,
\* and shut, between any two of them.
OutsidersWriteNothing ==
  \A i \in DOMAIN memories :
    LET p == memories[i].place
    IN InviteOnly(p) => memories[i].owner \in guests[p]
==============================================================================
