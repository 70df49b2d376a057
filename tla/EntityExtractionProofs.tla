------------------------- MODULE EntityExtractionProofs -------------------------
(* Theorems about EntityExtraction, for every value of its constants. *)
EXTENDS EntityExtraction, FiniteSetTheorems, TLAPS

(* The entity e goes by the name n, or by one like it. *)
KnownAs(n, e) == \E known \in Calls(e) : n = known \/ <<n, known>> \in Alike

Reached(m, n) == \E e \in LiveEntities : <<m, e>> \in mentions /\ KnownAs(n, e)

Active(j) == job[j].op # "idle"

(* What the job works on is still the current version of its memory. *)
Current(j) == Active(j) /\ row[Of(j)].version = job[j].version

(* The name that the job is at. *)
InHand(j) == IF job[j].op \in {"create", "mention", "link"} THEN {job[j].name} ELSE {}

(* What a job remembers of the memory, of the entity it is at, and of its outcome. *)
JobOK(j) ==
  Active(j) =>
    /\ Written(Of(j))
    /\ job[j].version <= row[Of(j)].version
    /\ Current(j) => job[j].text = row[Of(j)].text
    /\ job[j].op = "queued" => job[j].todo = job[j].text
    /\ job[j].op \in {"create", "mention", "link"} => job[j].name \in Name
    /\ job[j].op \in {"mention", "link"} =>
         job[j].entity \in DOMAIN entity /\ KnownAs(job[j].name, job[j].entity)
    /\ job[j].op = "mark" => job[j].verdict # "complete"
    /\ job[j].op = "write" /\ job[j].verdict = "complete" => job[j].todo = {}

(* The names that a job is done with are mentioned, or recorded as missed. *)
ProcessedOK(j) ==
  Current(j) =>
    \A n \in (job[j].text \ (job[j].todo \cup InHand(j))) \ past[Of(j)].missed :
      Reached(Of(j), n)

(* So are all the names of a memory whose extraction is complete. *)
CompleteOK(m) ==
  Written(m) /\ row[m].status = "complete" =>
    \A n \in row[m].text \ past[m].missed : Reached(m, n)

(* What mentions an entity was written. *)
MentionedOK == \A p \in mentions : Written(p[1])

MergeOK ==
  merging # None =>
    /\ merging.source # merging.target
    /\ {merging.source, merging.target} \subseteq LiveEntities
    /\ \A m \in merging.edges : Written(m)

(* The inductive invariant of mentions. *)
MentionsInv ==
  /\ EntityTypeOK
  /\ \A j \in Job : JobOK(j) /\ ProcessedOK(j)
  /\ \A m \in Memory : CompleteOK(m)
  /\ MentionedOK
  /\ MergeOK

(* While no save came between, the memory holds what was saved, and so does the metadata *)
(* that a job is about to write back.                                                    *)
SavesOK(m) ==
  /\ ~Written(m) => past[m].saved = 0 /\ ~past[m].undone
  /\ ~past[m].undone =>
       /\ Written(m) => row[m].state = past[m].saved
       /\ \A j \in Job :
            Of(j) = m /\ job[j].op = "write" /\ row[m].version = job[j].version
              => job[j].state = row[m].state

(* The inductive invariant of saves. *)
SavedInv == MentionsInv /\ \A m \in Memory : SavesOK(m)

------------------------------------------------------------------------------
(* Types *)

LEMMA JobParts ==
  ASSUME NEW j \in Job
  PROVE  Of(j) \in Memory
BY DEF Job, Of

LEMMA JobsOf ==
  ASSUME NEW m \in Memory
  PROVE  /\ <<m, "task">> \in Job /\ Of(<<m, "task">>) = m
         /\ <<m, "backfill">> \in Job /\ Of(<<m, "backfill">>) = m
BY DEF Job, Of

(* A job that does something is of the kind of those that do. *)
LEMMA ActiveJobs ==
  ASSUME EntityTypeOK, NEW j \in Job
  PROVE  job[j] \in Work \cup {Idle} /\ (Active(j) <=> job[j] \in Work)
BY DEF EntityTypeOK, Active, Work, Idle

(* Rows are told from None. *)
LEMMA WrittenRows ==
  ASSUME EntityTypeOK, NEW m \in Memory
  PROVE  Written(m) <=> row[m] \in Row
BY NoneIsNoRecord DEF EntityTypeOK, Written

(* The entities are numbered from 1, without gaps. *)
LEMMA MintedIsNext ==
  ASSUME EntityTypeOK
  PROVE  \E n \in 0..MaxEntities :
           /\ entity \in [1..n -> Entity]
           /\ Minted = n + 1 /\ Cardinality(DOMAIN entity) = n
<1>1. PICK n \in 0..MaxEntities : entity \in [1..n -> Entity]
  BY DEF EntityTypeOK
<1>2. Cardinality(1..n) = n
  BY <1>1, FS_Interval
<1>3. QED BY <1>1, <1>2 DEF Minted

------------------------------------------------------------------------------
(* Steps that take nothing away from what is known of entities and mentions *)

Grows ==
  /\ mentions \subseteq mentions'
  /\ \A p \in mentions' \ mentions : Written(p[1])
  /\ LiveEntities \subseteq LiveEntities'
  /\ DOMAIN entity \subseteq DOMAIN entity'
  /\ \A e \in DOMAIN entity : Calls(e) \subseteq Calls(e)'

LEMMA SameGrows ==
  ASSUME UNCHANGED <<entity, mentions>>
  PROVE  Grows
BY DEF Grows, LiveEntities, Calls

LEMMA KnownStays ==
  ASSUME Grows, NEW n, NEW e \in DOMAIN entity, KnownAs(n, e)
  PROVE  KnownAs(n, e)'
BY DEF Grows, KnownAs

LEMMA ReachedStays ==
  ASSUME Grows, NEW m, NEW n, Reached(m, n)
  PROVE  Reached(m, n)'
<1>1. PICK e \in LiveEntities : <<m, e>> \in mentions /\ KnownAs(n, e)
  BY DEF Reached
<1>2. e \in DOMAIN entity /\ e \in LiveEntities' /\ <<m, e>> \in mentions'
  BY <1>1 DEF Grows, LiveEntities
<1>3. KnownAs(n, e)'
  BY <1>1, <1>2, KnownStays
<1>4. QED BY <1>2, <1>3 DEF Reached

(* What a memory may forget about names: more of them are missed. *)
MissesMore == \A m \in Memory : past[m].missed \subseteq past'[m].missed

(* A job that does not move, on a memory whose version and text stay, stays in order. *)
LEMMA JobStays ==
  ASSUME Grows, MissesMore, NEW j \in Job, JobOK(j), ProcessedOK(j),
         job'[j] = job[j],
         Active(j) => /\ Written(Of(j)) => Written(Of(j))'
                      /\ row'[Of(j)].version = row[Of(j)].version
                      /\ row'[Of(j)].text = row[Of(j)].text
  PROVE  JobOK(j)' /\ ProcessedOK(j)'
<1>1. Of(j) \in Memory
  BY JobParts
<1>2. Active(j)' <=> Active(j)
  BY DEF Active
<1>3. Current(j)' <=> Current(j)
  BY <1>2 DEF Current, Active
<1>4. InHand(j)' = InHand(j)
  BY DEF InHand
<1>5. job[j].op \in {"mention", "link"} /\ Active(j) =>
        job[j].entity \in DOMAIN entity' /\ KnownAs(job[j].name, job[j].entity)'
  <2>1. ASSUME job[j].op \in {"mention", "link"}, Active(j)
        PROVE  job[j].entity \in DOMAIN entity /\ KnownAs(job[j].name, job[j].entity)
    BY <2>1 DEF JobOK
  <2>2. ASSUME job[j].op \in {"mention", "link"}, Active(j)
        PROVE  KnownAs(job[j].name, job[j].entity)'
    BY <2>1, <2>2, KnownStays
  <2>3. QED BY <2>1, <2>2 DEF Grows
<1>6. JobOK(j)'
  BY <1>2, <1>3, <1>5 DEF JobOK, Active
<1>7. ProcessedOK(j)'
  <2>1. SUFFICES ASSUME Current(j)',
                        NEW n \in (job[j].text \ (job[j].todo \cup InHand(j)))
                                    \ past'[Of(j)].missed
                 PROVE  Reached(Of(j), n)'
    BY <1>4 DEF ProcessedOK
  <2>2. n \notin past[Of(j)].missed
    BY <1>1, <2>1 DEF MissesMore
  <2>3. Reached(Of(j), n)
    BY <1>3, <2>1, <2>2 DEF ProcessedOK
  <2>4. QED BY <2>3, ReachedStays
<1>8. QED BY <1>6, <1>7

LEMMA CompleteStays ==
  ASSUME Grows, MissesMore, NEW m \in Memory, CompleteOK(m),
         Written(m)' /\ row'[m].status = "complete" =>
           Written(m) /\ row[m].status = "complete" /\ row'[m].text = row[m].text
  PROVE  CompleteOK(m)'
<1>1. SUFFICES ASSUME Written(m)', row'[m].status = "complete",
                      NEW n \in row'[m].text \ past'[m].missed
               PROVE  Reached(m, n)'
  BY DEF CompleteOK
<1>2. Reached(m, n)
  BY <1>1 DEF CompleteOK, MissesMore
<1>3. QED BY <1>2, ReachedStays

LEMMA MergeStays ==
  ASSUME EntityTypeOK, Grows, MergeOK, UNCHANGED merging,
         \A m \in Memory : Written(m) => Written(m)'
  PROVE  MergeOK'
<1>1. merging # None => merging.edges \subseteq Memory
  BY DEF EntityTypeOK, Merge
<1>2. QED BY <1>1 DEF Grows, MergeOK

LEMMA MentionedStays ==
  ASSUME EntityTypeOK, EntityTypeOK', Grows, MentionedOK,
         \A m \in Memory : Written(m) => Written(m)'
  PROVE  MentionedOK'
<1>1. SUFFICES ASSUME NEW p \in mentions' PROVE Written(p[1])'
  BY DEF MentionedOK
<1>2. p[1] \in Memory
  BY <1>1 DEF EntityTypeOK
<1>3. Written(p[1])
  BY <1>1 DEF Grows, MentionedOK
<1>4. QED BY <1>2, <1>3

(* A step of one job that changes no row: only that job is to be looked at. *)
LEMMA JobStep ==
  ASSUME MentionsInv, EntityTypeOK', Grows, MissesMore, UNCHANGED <<row, merging>>,
         NEW j \in Job, \A k \in Job \ {j} : job'[k] = job[k],
         JobOK(j)', ProcessedOK(j)'
  PROVE  MentionsInv'
<1>1. ASSUME NEW k \in Job PROVE JobOK(k)' /\ ProcessedOK(k)'
  <2>1. CASE k = j
    BY <2>1
  <2>2. CASE k # j
    <3>1. JobOK(k) /\ ProcessedOK(k) /\ job'[k] = job[k]
      BY <2>2 DEF MentionsInv
    <3>2. Written(Of(k)) => Written(Of(k))'
      BY DEF Written
    <3>3. QED BY <3>1, <3>2, JobStays
  <2>3. QED BY <2>1, <2>2
<1>2. ASSUME NEW m \in Memory PROVE CompleteOK(m)'
  <2>1. CompleteOK(m)
    BY DEF MentionsInv
  <2>2. Written(m)' => Written(m)
    BY DEF Written
  <2>3. QED BY <2>1, <2>2, CompleteStays
<1>3. MergeOK' /\ MentionedOK'
  <2>1. \A m \in Memory : Written(m) => Written(m)'
    BY DEF Written
  <2>2. QED BY <2>1, MergeStays, MentionedStays DEF MentionsInv
<1>4. QED BY <1>1, <1>2, <1>3 DEF MentionsInv

------------------------------------------------------------------------------
(* The steps of a job *)

LEMMA Moves ==
  ASSUME EntityTypeOK, NEW j \in Job, NEW w \in Work \cup {Idle}, Become(j, w)
  PROVE  /\ job' \in [Job -> Work \cup {Idle}]
         /\ job'[j] = w
         /\ \A k \in Job \ {j} : job'[k] = job[k]
BY DEF EntityTypeOK, Become

(* The types after a step of a job that touches neither rows nor entities. *)
LEMMA MoveTypes ==
  ASSUME EntityTypeOK, NEW j \in Job, NEW w \in Work \cup {Idle}, Become(j, w),
         UNCHANGED <<row, entity, mentions, merging, chores>>,
         w.op \in {"mention", "link"} => w.entity \in DOMAIN entity,
         past' \in [Memory -> Past]
  PROVE  EntityTypeOK'
<1>1. /\ job' \in [Job -> Work \cup {Idle}] /\ job'[j] = w
      /\ \A k \in Job \ {j} : job'[k] = job[k]
  BY Moves
<1>2. \A k \in Job : job'[k].op \in {"mention", "link"} => job'[k].entity \in DOMAIN entity
  BY <1>1 DEF EntityTypeOK
<1>3. QED BY <1>1, <1>2 DEF EntityTypeOK

LEMMA MissedTypes ==
  ASSUME EntityTypeOK, NEW m \in Memory, NEW n \in Name, Missed(m, n)
  PROVE  /\ past' \in [Memory -> Past]
         /\ MissesMore
         /\ past'[m].missed = past[m].missed \cup {n}
         /\ \A k \in Memory : past'[k].saved = past[k].saved /\ past'[k].undone = past[k].undone
BY DEF EntityTypeOK, Missed, MissesMore, Past

LEMMA SamePast ==
  ASSUME EntityTypeOK, UNCHANGED past
  PROVE  past' \in [Memory -> Past] /\ MissesMore
BY DEF EntityTypeOK, MissesMore

LEMMA BeginMentions ==
  ASSUME MentionsInv, NEW j \in Job, Begin(j)
  PROVE  MentionsInv'
<1> DEFINE w == [job[j] EXCEPT !.op = "find"]
<1>1. /\ EntityTypeOK /\ JobOK(j) /\ job[j].op = "queued" /\ Active(j)
      /\ Become(j, w) /\ UNCHANGED <<row, entity, mentions, merging, chores, past>>
  BY DEF MentionsInv, Begin, Doing, Active, budget
<1>2. /\ job[j] \in Work /\ w \in Work
      /\ w.op = "find" /\ w.text = job[j].text /\ w.todo = job[j].text
      /\ w.version = job[j].version
  BY <1>1, ActiveJobs DEF Work, JobOK
<1> HIDE DEF w
<1>3. job'[j] = w /\ \A k \in Job \ {j} : job'[k] = job[k]
  BY <1>1, <1>2, Moves
<1>4. EntityTypeOK'
  BY <1>1, <1>2, MoveTypes, SamePast
<1>5. JobOK(j)'
  BY <1>1, <1>2, <1>3 DEF JobOK, Active, Current, Written
<1>6. ProcessedOK(j)'
  BY <1>2, <1>3 DEF ProcessedOK
<1>7. QED BY <1>1, <1>3, <1>4, <1>5, <1>6, SameGrows, SamePast, JobStep

(* A job that goes on in the same text, and leaves out no name that it did not miss. *)
LEMMA ProcessedStays ==
  ASSUME Grows, NEW j \in Job, ProcessedOK(j), Active(j), UNCHANGED row,
         job'[j].version = job[j].version, job'[j].text = job[j].text,
         job[j].todo \cup InHand(j) \cup past[Of(j)].missed
           \subseteq job'[j].todo \cup InHand(j)' \cup past'[Of(j)].missed
  PROVE  ProcessedOK(j)'
<1>1. SUFFICES ASSUME Current(j)',
                      NEW n \in (job'[j].text \ (job'[j].todo \cup InHand(j)'))
                                  \ past'[Of(j)].missed
               PROVE  Reached(Of(j), n)'
  BY DEF ProcessedOK
<1>2. Current(j)
  BY <1>1 DEF Current
<1>3. Reached(Of(j), n)
  BY <1>1, <1>2 DEF ProcessedOK
<1>4. QED BY <1>3, ReachedStays

(* The job turns to the entity e, which goes by the name that it has in hand. *)
LEMMA Turns ==
  ASSUME MentionsInv, NEW j \in Job, Active(j), NEW n \in Name, NEW e \in DOMAIN entity',
         KnownAs(n, e)', Grows, UNCHANGED <<row, merging, past>>, EntityTypeOK',
         \A k \in Job \ {j} : job'[k] = job[k],
         job'[j].op \in {"mention", "link"}, job'[j].name = n, job'[j].entity = e,
         job'[j].version = job[j].version, job'[j].text = job[j].text,
         job[j].todo \cup InHand(j) \subseteq job'[j].todo \cup {n}
  PROVE  MentionsInv'
<1>1. JobOK(j) /\ ProcessedOK(j) /\ EntityTypeOK
  BY DEF MentionsInv
<1>2. KnownAs(job[j].name, job[j].entity)'
  OBVIOUS
<1>3. JobOK(j)'
  BY <1>1, <1>2 DEF JobOK, Active, Current, Written
<1>4. InHand(j)' = {n}
  BY DEF InHand
<1>5. ProcessedOK(j)'
  BY <1>1, <1>4, ProcessedStays
<1>6. QED BY <1>1, <1>3, <1>5, SamePast, JobStep

LEMMA FindMentions ==
  ASSUME MentionsInv, NEW j \in Job, Find(j)
  PROVE  MentionsInv'
<1>1. /\ EntityTypeOK /\ JobOK(j) /\ ProcessedOK(j) /\ job[j].op = "find" /\ Active(j)
      /\ UNCHANGED <<row, entity, mentions, merging, chores, past>>
  BY DEF MentionsInv, Find, Doing, Active, budget
<1>2. job[j] \in Work
  BY <1>1, ActiveJobs
<1>3. PICK n \in job[j].todo :
        LET w == [job[j] EXCEPT !.todo = @ \ {n}, !.name = n]
        IN \/ \E e \in Named(n) \cup Near(n) :
                Become(j, [w EXCEPT !.op = "mention", !.entity = e])
           \/ Become(j, [w EXCEPT !.op = "create"])
  BY Zenon DEF Find
<1> DEFINE w == [job[j] EXCEPT !.todo = @ \ {n}, !.name = n]
<1>4. /\ w \in Work /\ n \in Name /\ w.todo = job[j].todo \ {n} /\ w.name = n
      /\ w.text = job[j].text /\ w.version = job[j].version
  BY <1>2, <1>3 DEF Work
<1>5. ASSUME NEW e \in Named(n) \cup Near(n),
             Become(j, [w EXCEPT !.op = "mention", !.entity = e])
      PROVE  MentionsInv'
  <2> DEFINE v == [w EXCEPT !.op = "mention", !.entity = e]
  <2>1. e \in DOMAIN entity /\ e \in Nat
    BY <1>1, MintedIsNext DEF Named, Near, LiveEntities
  <2>2. entity[e].name \in Calls(e) /\ (n = entity[e].name \/ <<n, entity[e].name>> \in Alike)
    BY DEF Named, Near, Calls
  <2>3. KnownAs(n, e)
    BY <2>2 DEF KnownAs
  <2>4. /\ v \in Work /\ v.op = "mention" /\ v.entity = e /\ v.name = n
        /\ v.todo = w.todo /\ v.text = w.text /\ v.version = w.version
    BY <1>4, <2>1 DEF Work, Id
  <2> HIDE DEF v, w
  <2>5. job'[j] = v /\ \A k \in Job \ {j} : job'[k] = job[k]
    BY <1>1, <1>5, <2>4, Moves DEF v
  <2>6. EntityTypeOK'
    BY <1>1, <1>5, <2>1, <2>4, MoveTypes, SamePast DEF v
  <2>7. KnownAs(n, e)'
    BY <1>1, <2>1, <2>3, SameGrows, KnownStays
  <2>8. InHand(j) = {}
    BY <1>1 DEF InHand
  <2>9. QED BY <1>1, <1>4, <2>1, <2>4, <2>5, <2>6, <2>7, <2>8, SameGrows, Turns
<1>6. ASSUME Become(j, [w EXCEPT !.op = "create"])
      PROVE  MentionsInv'
  <2> DEFINE v == [w EXCEPT !.op = "create"]
  <2>1. /\ v \in Work /\ v.op = "create" /\ v.name = n
        /\ v.todo = w.todo /\ v.text = w.text /\ v.version = w.version
    BY <1>4 DEF Work
  <2> HIDE DEF v, w
  <2>2. job'[j] = v /\ \A k \in Job \ {j} : job'[k] = job[k]
    BY <1>1, <1>6, <2>1, Moves DEF v
  <2>3. EntityTypeOK'
    BY <1>1, <1>6, <2>1, MoveTypes, SamePast DEF v
  <2>4. JobOK(j)'
    BY <1>1, <1>4, <2>1, <2>2 DEF JobOK, Active, Current, Written
  <2>5. InHand(j) = {} /\ InHand(j)' = {n}
    BY <1>1, <2>1, <2>2 DEF InHand
  <2>6. ProcessedOK(j)'
    BY <1>1, <1>4, <2>1, <2>2, <2>5, SameGrows, ProcessedStays
  <2>7. QED BY <1>1, <2>2, <2>3, <2>4, <2>6, SameGrows, SamePast, JobStep
<1>7. QED BY <1>3, <1>5, <1>6

LEMMA CreateMentions ==
  ASSUME MentionsInv, NEW j \in Job, Create(j)
  PROVE  MentionsInv'
<1> DEFINE turn(e) == [job[j] EXCEPT !.op = "mention", !.entity = e]
<1>1. /\ EntityTypeOK /\ JobOK(j) /\ ProcessedOK(j) /\ job[j].op = "create" /\ Active(j)
      /\ UNCHANGED <<row, mentions, merging, chores, past>>
  BY DEF MentionsInv, Create, Doing, Active, budget
<1>2. job[j] \in Work
  BY <1>1, ActiveJobs
<1>3. PICK n \in Name : job[j].name = n /\ InHand(j) = {n}
  BY <1>1 DEF JobOK, InHand
<1>4. \A e \in Nat :
        /\ turn(e) \in Work /\ turn(e).op = "mention" /\ turn(e).entity = e
        /\ turn(e).name = n /\ turn(e).todo = job[j].todo /\ turn(e).text = job[j].text
        /\ turn(e).version = job[j].version
  BY <1>2, <1>3 DEF Work, Id
<1>5. CASE \E e \in Taken(n) : Become(j, turn(e)) /\ UNCHANGED entity
  <2>1. PICK e \in Taken(n) : Become(j, turn(e)) /\ UNCHANGED entity
    BY <1>5
  <2>2. e \in DOMAIN entity /\ e \in Nat /\ entity[e].name = n
    BY <1>1, <2>1, MintedIsNext DEF Taken, Named, LiveEntities
  <2> DEFINE v == turn(e)
  <2>3. /\ v \in Work /\ v.op = "mention" /\ v.entity = e /\ v.name = n
        /\ v.todo = job[j].todo /\ v.text = job[j].text /\ v.version = job[j].version
    BY <1>4, <2>2
  <2> HIDE DEF v
  <2>4. job'[j] = v /\ \A k \in Job \ {j} : job'[k] = job[k]
    BY <1>1, <2>1, <2>3, Moves DEF v
  <2>5. EntityTypeOK'
    BY <1>1, <2>1, <2>2, <2>3, MoveTypes, SamePast DEF v
  <2>6. KnownAs(n, e)'
    BY <2>1, <2>2 DEF KnownAs, Calls
  <2>7. Grows
    BY <1>1, <2>1, SameGrows
  <2>8. e \in DOMAIN entity'
    BY <2>1, <2>2
  <2>9. QED BY <1>1, <1>3, <2>3, <2>4, <2>5, <2>6, <2>7, <2>8, Turns
<1>6. CASE /\ Cardinality(DOMAIN entity) < MaxEntities
           /\ entity' = [i \in 1..Minted |->
                           IF i = Minted THEN [name |-> n, aliases |-> {}, deleted |-> FALSE]
                           ELSE entity[i]]
           /\ Become(j, turn(Minted))
  <2>1. PICK k \in 0..MaxEntities :
          entity \in [1..k -> Entity] /\ Minted = k + 1 /\ Cardinality(DOMAIN entity) = k
    BY <1>1, MintedIsNext
  <2> DEFINE e == k + 1
             v == turn(e)
             new == [name |-> n, aliases |-> {}, deleted |-> FALSE]
  <2>2. e \in 0..MaxEntities /\ e \in Nat /\ e \notin DOMAIN entity
    BY <1>6, <2>1, ExtractionAssumption
  <2>3. new \in Entity
    BY <1>3 DEF Entity
  <2>4. /\ entity' \in [1..e -> Entity] /\ entity'[e] = new
        /\ \A i \in DOMAIN entity : i \in DOMAIN entity' /\ entity'[i] = entity[i]
    BY <1>6, <2>1, <2>2, <2>3
  <2>5. Become(j, v)
    BY <1>6, <2>1
  <2>6. /\ v \in Work /\ v.op = "mention" /\ v.entity = e /\ v.name = n
        /\ v.todo = job[j].todo /\ v.text = job[j].text /\ v.version = job[j].version
    BY <1>4, <2>2
  <2>7. Grows
    BY <1>1, <2>4 DEF Grows, LiveEntities, Calls
  <2>8. e \in DOMAIN entity'
    BY <2>2, <2>4
  <2>9. KnownAs(n, e)'
    <3>1. entity'[e].name = n
      BY <2>4
    <3>2. QED BY <3>1 DEF KnownAs, Calls
  <2> HIDE DEF v, new, e
  <2>10. /\ job' \in [Job -> Work \cup {Idle}] /\ job'[j] = v
         /\ \A i \in Job \ {j} : job'[i] = job[i]
    BY <1>1, <2>5, <2>6, Moves
  <2>11. EntityTypeOK'
    <3>1. \A i \in Job : job'[i].op \in {"mention", "link"} => job'[i].entity \in DOMAIN entity'
      BY <1>1, <2>4, <2>6, <2>8, <2>10 DEF EntityTypeOK
    <3>2. mentions' \subseteq Memory \X DOMAIN entity'
      BY <1>1, <2>4 DEF EntityTypeOK
    <3>3. \E i \in 0..MaxEntities : entity' \in [1..i -> Entity]
      BY <2>2, <2>4
    <3>4. QED BY <1>1, <2>10, <3>1, <3>2, <3>3 DEF EntityTypeOK
  <2>12. QED BY <1>1, <1>3, <2>6, <2>7, <2>8, <2>9, <2>10, <2>11, Turns
<1>7. QED BY <1>3, <1>5, <1>6 DEF Create

(* The step of a job to its next name: the one in hand is reached, or missed. *)
LEMMA Proceeds ==
  ASSUME MentionsInv, NEW j \in Job, Active(j), Grows, MissesMore,
         UNCHANGED <<row, merging>>, EntityTypeOK',
         \A k \in Job \ {j} : job'[k] = job[k],
         job'[j].op = "find",
         job'[j].version = job[j].version, job'[j].text = job[j].text,
         job'[j].todo = job[j].todo,
         \A n \in InHand(j) :
           Current(j) => n \in past'[Of(j)].missed \/ Reached(Of(j), n)'
  PROVE  MentionsInv'
<1>1. JobOK(j) /\ ProcessedOK(j) /\ EntityTypeOK
  BY DEF MentionsInv
<1>2. JobOK(j)'
  BY <1>1 DEF JobOK, Active, Current, Written
<1>3. ProcessedOK(j)'
  <2>1. SUFFICES ASSUME Current(j)',
                        NEW n \in (job'[j].text \ (job'[j].todo \cup InHand(j)'))
                                    \ past'[Of(j)].missed
                 PROVE  Reached(Of(j), n)'
    BY DEF ProcessedOK
  <2>2. Current(j)
    BY <2>1 DEF Current
  <2>3. CASE n \in InHand(j)
    BY <2>1, <2>2, <2>3
  <2>4. CASE n \notin InHand(j)
    <3>1. n \notin past[Of(j)].missed
      BY <2>1, JobParts DEF MissesMore
    <3>2. Reached(Of(j), n)
      BY <1>1, <2>1, <2>2, <2>4, <3>1 DEF ProcessedOK
    <3>3. QED BY <3>2, ReachedStays
  <2>5. QED BY <2>3, <2>4
<1>4. QED BY <1>2, <1>3, JobStep

(* What the job becomes when it goes on to its next name. *)
LEMMA NextName ==
  ASSUME EntityTypeOK, NEW j \in Job, Active(j)
  PROVE  LET w == [job[j] EXCEPT !.op = "find"]
         IN /\ w \in Work /\ w.op = "find" /\ w.version = job[j].version
            /\ w.text = job[j].text /\ w.todo = job[j].todo
BY ActiveJobs DEF Work

LEMMA MentionMentions ==
  ASSUME MentionsInv, NEW j \in Job, Mention(j)
  PROVE  MentionsInv'
<1> DEFINE w == [job[j] EXCEPT !.op = "find"]
           m == Of(j)
<1>1. /\ EntityTypeOK /\ JobOK(j) /\ job[j].op = "mention" /\ Active(j)
      /\ UNCHANGED <<row, entity, mentions, merging, chores>>
  BY DEF MentionsInv, Mention, Doing, Active, budget
<1>2. PICK n \in Name, e \in DOMAIN entity :
        job[j].name = n /\ job[j].entity = e /\ KnownAs(n, e) /\ InHand(j) = {n}
  BY <1>1 DEF JobOK, InHand
<1>3. Grows /\ m \in Memory
  BY <1>1, SameGrows, JobParts
<1>4. CASE /\ <<m, e>> \in mentions /\ row[m].version = job[j].version
           /\ e \in LiveEntities /\ Become(j, w) /\ UNCHANGED past
  <2>1. /\ w \in Work /\ w.op = "find" /\ w.version = job[j].version
        /\ w.text = job[j].text /\ w.todo = job[j].todo
    BY <1>1, NextName
  <2>2. job'[j] = w /\ \A k \in Job \ {j} : job'[k] = job[k]
    BY <1>1, <1>4, <2>1, Moves
  <2>3. EntityTypeOK' /\ MissesMore
    BY <1>1, <1>4, <2>1, MoveTypes, SamePast
  <2>4. Reached(m, n)
    BY <1>2, <1>4 DEF Reached
  <2>5. Reached(m, n)'
    BY <1>3, <2>4, ReachedStays
  <2> HIDE DEF w
  <2>6. QED BY <1>1, <1>2, <1>3, <2>1, <2>2, <2>3, <2>5, Proceeds
<1>5. CASE Become(j, w) /\ Missed(m, n)
  <2>1. /\ w \in Work /\ w.op = "find" /\ w.version = job[j].version
        /\ w.text = job[j].text /\ w.todo = job[j].todo
    BY <1>1, NextName
  <2>2. job'[j] = w /\ \A k \in Job \ {j} : job'[k] = job[k]
    BY <1>1, <1>5, <2>1, Moves
  <2>3. past' \in [Memory -> Past] /\ MissesMore /\ n \in past'[m].missed
    BY <1>1, <1>3, <1>5, MissedTypes
  <2>4. EntityTypeOK'
    BY <1>1, <1>5, <2>1, <2>3, MoveTypes
  <2> HIDE DEF w
  <2>5. QED BY <1>1, <1>2, <1>3, <2>1, <2>2, <2>3, <2>4, Proceeds
<1>6. CASE Become(j, [job[j] EXCEPT !.op = "link"]) /\ UNCHANGED past
  <2> DEFINE v == [job[j] EXCEPT !.op = "link"]
  <2>1. /\ v \in Work /\ v.op = "link" /\ v.name = n /\ v.entity = e
        /\ v.version = job[j].version /\ v.text = job[j].text /\ v.todo = job[j].todo
    BY <1>1, <1>2, ActiveJobs DEF Work
  <2> HIDE DEF v
  <2>2. job'[j] = v /\ \A k \in Job \ {j} : job'[k] = job[k]
    BY <1>1, <1>6, <2>1, Moves DEF v
  <2>3. EntityTypeOK'
    BY <1>1, <1>2, <1>6, <2>1, MoveTypes, SamePast DEF v
  <2>4. KnownAs(n, e)' /\ e \in DOMAIN entity'
    BY <1>1, <1>2, <1>3, KnownStays
  <2>5. QED BY <1>1, <1>2, <1>3, <1>6, <2>1, <2>2, <2>3, <2>4, Turns
<1>7. QED BY <1>2, <1>4, <1>5, <1>6 DEF Mention

LEMMA LinkMentions ==
  ASSUME MentionsInv, NEW j \in Job, Link(j)
  PROVE  MentionsInv'
<1> DEFINE w == [job[j] EXCEPT !.op = "find"]
           m == Of(j)
<1>1. /\ EntityTypeOK /\ JobOK(j) /\ job[j].op = "link" /\ Active(j) /\ Become(j, w)
      /\ UNCHANGED <<row, entity, merging, chores>>
  BY DEF MentionsInv, Link, Doing, Active, budget
<1>2. PICK n \in Name, e \in DOMAIN entity :
        job[j].name = n /\ job[j].entity = e /\ KnownAs(n, e) /\ InHand(j) = {n}
  BY <1>1 DEF JobOK, InHand
<1>3. m \in Memory
  BY JobParts
<1>4. /\ mentions' = IF row[m].version = job[j].version THEN mentions \cup {<<m, e>>}
                     ELSE mentions
      /\ IF row[m].version = job[j].version /\ e \in LiveEntities THEN UNCHANGED past
         ELSE Missed(m, n)
  BY <1>2 DEF Link
<1>5. Grows
  <2>1. Written(m)
    BY <1>1 DEF JobOK
  <2>2. QED BY <1>1, <1>4, <2>1 DEF Grows, LiveEntities, Calls
<1>6. /\ w \in Work /\ w.op = "find" /\ w.version = job[j].version
      /\ w.text = job[j].text /\ w.todo = job[j].todo
  BY <1>1, NextName
<1>7. /\ job' \in [Job -> Work \cup {Idle}] /\ job'[j] = w
      /\ \A k \in Job \ {j} : job'[k] = job[k]
  BY <1>1, <1>6, Moves
<1> HIDE DEF w
<1>8. past' \in [Memory -> Past] /\ MissesMore
  BY <1>1, <1>3, <1>4, MissedTypes, SamePast
<1>9. EntityTypeOK'
  <2>1. \A k \in Job : job'[k].op \in {"mention", "link"} => job'[k].entity \in DOMAIN entity'
    BY <1>1, <1>6, <1>7 DEF EntityTypeOK
  <2>2. mentions' \subseteq Memory \X DOMAIN entity'
    BY <1>1, <1>2, <1>3, <1>4 DEF EntityTypeOK
  <2>3. QED BY <1>1, <1>7, <1>8, <2>1, <2>2 DEF EntityTypeOK
<1>10. ASSUME row[m].version = job[j].version
       PROVE  n \in past'[m].missed \/ Reached(m, n)'
  <2>1. CASE e \in LiveEntities
    <3>1. e \in LiveEntities' /\ <<m, e>> \in mentions' /\ KnownAs(n, e)'
      BY <1>2, <1>4, <1>5, <1>10, <2>1, KnownStays DEF Grows
    <3>2. QED BY <3>1 DEF Reached
  <2>2. CASE e \notin LiveEntities
    BY <1>1, <1>3, <1>4, <2>2, MissedTypes
  <2>3. QED BY <2>1, <2>2
<1>11. QED
  BY <1>1, <1>2, <1>5, <1>6, <1>7, <1>8, <1>9, <1>10, Proceeds DEF Current

LEMMA DropNameMentions ==
  ASSUME MentionsInv, NEW j \in Job, DropName(j)
  PROVE  MentionsInv'
<1> DEFINE w == [job[j] EXCEPT !.op = "find"]
           m == Of(j)
<1>1. /\ EntityTypeOK /\ JobOK(j) /\ job[j].op \in {"create", "mention", "link"} /\ Active(j)
      /\ Become(j, w) /\ UNCHANGED <<row, entity, mentions, merging, chores>>
  BY DEF MentionsInv, DropName, Active
<1>2. PICK n \in Name : job[j].name = n /\ InHand(j) = {n}
  BY <1>1 DEF JobOK, InHand
<1>3. Grows /\ m \in Memory /\ Missed(m, n)
  BY <1>1, <1>2, SameGrows, JobParts DEF DropName
<1>4. /\ w \in Work /\ w.op = "find" /\ w.version = job[j].version
      /\ w.text = job[j].text /\ w.todo = job[j].todo
  BY <1>1, NextName
<1>5. job'[j] = w /\ \A k \in Job \ {j} : job'[k] = job[k]
  BY <1>1, <1>4, Moves
<1>6. past' \in [Memory -> Past] /\ MissesMore /\ n \in past'[m].missed
  BY <1>1, <1>3, MissedTypes
<1>7. EntityTypeOK'
  BY <1>1, <1>4, <1>6, MoveTypes
<1> HIDE DEF w
<1>8. QED BY <1>1, <1>2, <1>3, <1>4, <1>5, <1>6, <1>7, Proceeds

(* The job goes on to set the status: with a success only when no name is left. *)
LEMMA Concludes ==
  ASSUME MentionsInv, NEW j \in Job, Active(j), NEW w \in Work, Become(j, w),
         UNCHANGED <<row, entity, mentions, merging, chores, past>>,
         w.op \in {"mark", "write"}, w.version = job[j].version, w.text = job[j].text,
         w.todo = job[j].todo, InHand(j) = {},
         w.op = "mark" => w.verdict # "complete",
         w.op = "write" /\ w.verdict = "complete" => w.todo = {}
  PROVE  MentionsInv'
<1>1. EntityTypeOK /\ JobOK(j) /\ ProcessedOK(j)
  BY DEF MentionsInv
<1>2. job'[j] = w /\ \A k \in Job \ {j} : job'[k] = job[k]
  BY <1>1, Moves
<1>3. EntityTypeOK'
  BY <1>1, MoveTypes, SamePast
<1>4. JobOK(j)'
  BY <1>1, <1>2 DEF JobOK, Active, Current, Written
<1>5. ProcessedOK(j)'
  BY <1>1, <1>2, SameGrows, ProcessedStays
<1>6. QED BY <1>1, <1>2, <1>3, <1>4, <1>5, SameGrows, SamePast, JobStep

LEMMA MarkMentions ==
  ASSUME MentionsInv, NEW j \in Job, Mark(j)
  PROVE  MentionsInv'
<1> DEFINE w == [job[j] EXCEPT !.op = "write", !.state = ReadMetadata(j)]
<1>1. /\ EntityTypeOK /\ JobOK(j) /\ Active(j) /\ Become(j, w)
      /\ UNCHANGED <<row, entity, mentions, merging, chores, past>>
      /\ job[j].op = "mark" \/ (job[j].op = "find" /\ job[j].todo = {})
  BY DEF MentionsInv, Mark, Doing, Active, budget
<1>2. row[Of(j)] \in Row
  BY <1>1, WrittenRows, JobParts DEF JobOK
<1>3. /\ w \in Work /\ w.op = "write" /\ w.version = job[j].version
      /\ w.text = job[j].text /\ w.todo = job[j].todo /\ w.verdict = job[j].verdict
  <2>1. ReadMetadata(j) \in Saved
    BY <1>2 DEF Row, ReadMetadata
  <2>2. job[j] \in Work
    BY <1>1, ActiveJobs
  <2>3. QED BY <2>1, <2>2 DEF Work
<1> HIDE DEF w
<1>4. InHand(j) = {}
  BY <1>1 DEF InHand
<1>5. w.verdict = "complete" => w.todo = {}
  BY <1>1, <1>3 DEF JobOK
<1>6. QED BY <1>1, <1>3, <1>4, <1>5, Concludes

LEMMA RaiseMentions ==
  ASSUME MentionsInv, NEW j \in Job, Raise(j)
  PROVE  MentionsInv'
<1> DEFINE w == [job[j] EXCEPT !.op = "mark", !.verdict = Verdict(j)]
<1>1. /\ EntityTypeOK /\ JobOK(j) /\ Active(j) /\ Become(j, w)
      /\ UNCHANGED <<row, entity, mentions, merging, chores, past>>
      /\ job[j].op \in {"find", "write"}
  BY DEF MentionsInv, Raise, Doing, Active
<1>2. Verdict(j) \in {"partial", "failed"}
  BY DEF Verdict
<1>3. /\ w \in Work /\ w.op = "mark" /\ w.version = job[j].version
      /\ w.text = job[j].text /\ w.todo = job[j].todo /\ w.verdict # "complete"
  BY <1>1, <1>2, ActiveJobs DEF Work, Status
<1> HIDE DEF w
<1>4. InHand(j) = {}
  BY <1>1 DEF InHand
<1>5. QED BY <1>1, <1>3, <1>4, Concludes

LEMMA GiveUpMentions ==
  ASSUME MentionsInv, NEW j \in Job, GiveUp(j)
  PROVE  MentionsInv'
<1>1. /\ EntityTypeOK /\ Become(j, Idle)
      /\ UNCHANGED <<row, entity, mentions, merging, chores>>
      /\ past' = [past EXCEPT ![Of(j)].stuck = TRUE]
  BY DEF MentionsInv, GiveUp, budget
<1>2. past' \in [Memory -> Past] /\ MissesMore
  BY <1>1 DEF EntityTypeOK, Past, MissesMore
<1>3. Idle \in Work \cup {Idle} /\ Idle.op = "idle"
  BY DEF Idle
<1>4. job'[j] = Idle /\ \A k \in Job \ {j} : job'[k] = job[k]
  BY <1>1, <1>3, Moves
<1>5. EntityTypeOK'
  BY <1>1, <1>2, <1>3, MoveTypes
<1>6. ~Active(j)'
  BY <1>3, <1>4 DEF Active
<1>7. JobOK(j)' /\ ProcessedOK(j)'
  BY <1>6 DEF JobOK, ProcessedOK, Current
<1>8. QED BY <1>1, <1>2, <1>4, <1>5, <1>7, SameGrows, JobStep

------------------------------------------------------------------------------
(* The steps that change a row *)

LEMMA RowStep ==
  ASSUME MentionsInv, EntityTypeOK', Grows, MissesMore, UNCHANGED merging,
         NEW m \in Memory, \A k \in Memory \ {m} : row'[k] = row[k], Written(m)',
         \A j \in Job : Of(j) # m => job'[j] = job[j],
         \A j \in Job : Of(j) = m => JobOK(j)' /\ ProcessedOK(j)',
         CompleteOK(m)'
  PROVE  MentionsInv'
<1>1. ASSUME NEW j \in Job PROVE JobOK(j)' /\ ProcessedOK(j)'
  <2>1. CASE Of(j) = m
    BY <2>1
  <2>2. CASE Of(j) # m
    <3>1. /\ JobOK(j) /\ ProcessedOK(j) /\ job'[j] = job[j]
          /\ row'[Of(j)] = row[Of(j)]
      BY <2>2, JobParts DEF MentionsInv
    <3>2. Written(Of(j)) => Written(Of(j))'
      BY <3>1 DEF Written, Of
    <3>3. QED BY <3>1, <3>2, JobStays
  <2>3. QED BY <2>1, <2>2
<1>2. ASSUME NEW k \in Memory PROVE CompleteOK(k)'
  <2>1. CASE k = m
    BY <2>1
  <2>2. CASE k # m
    <3>1. CompleteOK(k) /\ row'[k] = row[k]
      BY <2>2 DEF MentionsInv
    <3>2. Written(k)' => Written(k)
      BY <3>1 DEF Written
    <3>3. QED BY <3>1, <3>2, CompleteStays
  <2>3. QED BY <2>1, <2>2
<1>3. MergeOK' /\ MentionedOK'
  <2>1. \A k \in Memory : Written(k) => Written(k)'
    BY DEF Written
  <2>2. QED BY <2>1, MergeStays, MentionedStays DEF MentionsInv
<1>4. QED BY <1>1, <1>2, <1>3 DEF MentionsInv

(* The types after a step that changes one row, and the past. *)
LEMMA RowTypes ==
  ASSUME EntityTypeOK, row' \in [Memory -> Row \cup {None}], chores' \in Nat,
         past' \in [Memory -> Past], job' \in [Job -> Work \cup {Idle}],
         UNCHANGED <<entity, mentions, merging>>,
         \A j \in Job : job'[j].op \in {"mention", "link"} => job'[j] = job[j]
  PROVE  EntityTypeOK'
<1>1. \A j \in Job : job'[j].op \in {"mention", "link"} => job'[j].entity \in DOMAIN entity
  BY DEF EntityTypeOK
<1>2. QED BY <1>1 DEF EntityTypeOK

LEMMA ChoreTypes ==
  ASSUME EntityTypeOK, Chore
  PROVE  chores' \in Nat /\ chores + 1 \in Nat
BY DEF EntityTypeOK, Chore

LEMMA WriteStatusMentions ==
  ASSUME MentionsInv, NEW j \in Job, WriteStatus(j)
  PROVE  MentionsInv'
<1>1. /\ EntityTypeOK /\ JobOK(j) /\ ProcessedOK(j) /\ job[j].op = "write" /\ Active(j)
      /\ Become(j, Idle) /\ UNCHANGED <<entity, mentions, merging, chores, past>>
  BY DEF MentionsInv, WriteStatus, Doing, Active, budget
<1>2. PICK m \in Memory : m = Of(j)
  BY JobParts
<1>3. row[m] \in Row /\ job[j] \in Work
  BY <1>1, <1>2, WrittenRows, ActiveJobs DEF JobOK
<1>4. /\ job' \in [Job -> Work \cup {Idle}] /\ job'[j] = Idle /\ Idle.op = "idle"
      /\ \A k \in Job \ {j} : job'[k] = job[k]
  BY <1>1, Moves DEF Idle
<1>5. Grows /\ MissesMore /\ past' \in [Memory -> Past]
  BY <1>1, SameGrows, SamePast
<1>6. CASE row[m].version # job[j].version
  <2>1. UNCHANGED row
    BY <1>2, <1>6 DEF WriteStatus
  <2>2. EntityTypeOK'
    BY <1>1, <1>4, <1>5, <2>1, RowTypes DEF EntityTypeOK
  <2>3. JobOK(j)' /\ ProcessedOK(j)'
    BY <1>4 DEF JobOK, ProcessedOK, Current, Active
  <2>4. QED BY <1>1, <1>4, <1>5, <2>1, <2>2, <2>3, JobStep
<1>7. CASE row[m].version = job[j].version
  <2>1. row' = [row EXCEPT ![m].status = job[j].verdict, ![m].state = job[j].state]
    BY <1>2, <1>7 DEF WriteStatus
  <2>2. /\ row'[m].version = row[m].version /\ row'[m].text = row[m].text
        /\ row'[m].status = job[j].verdict /\ row'[m] \in Row
        /\ \A k \in Memory \ {m} : row'[k] = row[k]
        /\ row' \in [Memory -> Row \cup {None}]
    <3>1. job[j].verdict \in Status /\ job[j].state \in Saved
      BY <1>3 DEF Work
    <3>2. row \in [Memory -> Row \cup {None}]
      BY <1>1 DEF EntityTypeOK
    <3>3. QED BY <1>3, <2>1, <3>1, <3>2 DEF Row
  <2>3. EntityTypeOK'
    <3>1. chores' \in Nat
      BY <1>1 DEF EntityTypeOK
    <3>2. \A k \in Job : job'[k].op \in {"mention", "link"} => job'[k] = job[k]
      BY <1>4
    <3>3. QED BY <1>1, <1>4, <1>5, <2>2, <3>1, <3>2, RowTypes
  <2>4. Written(m)'
    BY <2>2, NoneIsNoRecord DEF Written
  <2>5. ASSUME NEW k \in Job, Of(k) = m PROVE JobOK(k)' /\ ProcessedOK(k)'
    <3>1. CASE k = j
      BY <1>4, <3>1 DEF JobOK, ProcessedOK, Current, Active
    <3>2. CASE k # j
      <4>1. JobOK(k) /\ ProcessedOK(k) /\ job'[k] = job[k]
        BY <1>4, <3>2 DEF MentionsInv
      <4>2. Written(Of(k))'
        BY <2>4, <2>5 DEF Of
      <4>3. QED BY <1>5, <2>2, <2>5, <4>1, <4>2, JobStays
    <3>3. QED BY <3>1, <3>2
  <2>6. CompleteOK(m)'
    <3>1. SUFFICES ASSUME row'[m].status = "complete",
                          NEW n \in row'[m].text \ past'[m].missed
                   PROVE  Reached(m, n)'
      BY DEF CompleteOK
    <3>2. job[j].todo = {} /\ InHand(j) = {} /\ Current(j) /\ job[j].text = row[m].text
      BY <1>1, <1>2, <1>7, <2>2, <3>1 DEF JobOK, InHand, Current
    <3>3. Reached(m, n)
      BY <1>1, <1>2, <2>2, <3>1, <3>2 DEF ProcessedOK
    <3>4. QED BY <1>5, <3>3, ReachedStays
  <2>7. \A k \in Job : Of(k) # m => job'[k] = job[k]
    BY <1>2, <1>4
  <2>8. QED BY <1>1, <1>5, <2>2, <2>3, <2>4, <2>5, <2>6, <2>7, RowStep
<1>8. QED BY <1>6, <1>7

(* A row that keeps its version and text, and whose status is not made complete. *)
LEMMA RowRewritten ==
  ASSUME MentionsInv, EntityTypeOK', NEW m \in Memory, Live(m), row'[m] \in Row,
         \A k \in Memory \ {m} : row'[k] = row[k],
         row'[m].version = row[m].version, row'[m].text = row[m].text,
         row'[m].status = "complete" => row[m].status = "complete",
         MissesMore, UNCHANGED <<entity, mentions, job, merging>>
  PROVE  MentionsInv'
<1>1. Grows
  BY SameGrows
<1>2. Written(m) /\ Written(m)'
  BY NoneIsNoRecord DEF Live, Written
<1>3. ASSUME NEW j \in Job, Of(j) = m PROVE JobOK(j)' /\ ProcessedOK(j)'
  <2>1. JobOK(j) /\ ProcessedOK(j)
    BY DEF MentionsInv
  <2>2. Written(Of(j))'
    BY <1>2, <1>3 DEF Of
  <2>3. QED BY <1>1, <1>3, <2>1, <2>2, JobStays
<1>4. CompleteOK(m)'
  BY <1>1, <1>2, CompleteStays DEF MentionsInv
<1>5. QED BY <1>1, <1>2, <1>3, <1>4, RowStep

LEMMA DeleteMemoryMentions ==
  ASSUME MentionsInv, NEW m \in Memory, DeleteMemory(m)
  PROVE  MentionsInv'
<1>1. /\ EntityTypeOK /\ Live(m) /\ Chore
      /\ row' = [row EXCEPT ![m].deleted = TRUE]
      /\ UNCHANGED <<entity, mentions, job, merging, past>>
  BY DEF MentionsInv, DeleteMemory
<1>2. row[m] \in Row /\ row \in [Memory -> Row \cup {None}]
  BY <1>1, WrittenRows DEF Live, EntityTypeOK
<1>3. /\ row' \in [Memory -> Row \cup {None}] /\ row'[m] \in Row
      /\ row'[m].version = row[m].version /\ row'[m].text = row[m].text
      /\ row'[m].status = row[m].status
      /\ \A k \in Memory \ {m} : row'[k] = row[k]
  BY <1>1, <1>2 DEF Row
<1>4. EntityTypeOK' /\ MissesMore
  BY <1>1, <1>3, ChoreTypes, SamePast, RowTypes DEF EntityTypeOK
<1>5. QED BY <1>1, <1>3, <1>4, RowRewritten

LEMMA SaveCheckpointMentions ==
  ASSUME MentionsInv, NEW m \in Memory, SaveCheckpoint(m)
  PROVE  MentionsInv'
<1>1. /\ EntityTypeOK /\ Live(m) /\ Chore
      /\ row' = [row EXCEPT ![m].state = chores + 1, ![m].status = "none"]
      /\ UNCHANGED <<entity, mentions, job, merging>>
  BY DEF MentionsInv, SaveCheckpoint
<1>2. PICK late \in BOOLEAN :
        past' = [past EXCEPT ![m].saved = chores + 1, ![m].undone = late]
  BY DEF SaveCheckpoint
<1>3. row[m] \in Row /\ row \in [Memory -> Row \cup {None}] /\ chores + 1 \in Saved
  BY <1>1, WrittenRows, ChoreTypes DEF Live, EntityTypeOK, Saved
<1>4. /\ row' \in [Memory -> Row \cup {None}] /\ row'[m] \in Row
      /\ row'[m].version = row[m].version /\ row'[m].text = row[m].text
      /\ row'[m].status = "none"
      /\ \A k \in Memory \ {m} : row'[k] = row[k]
  BY <1>1, <1>3 DEF Row, Status
<1>5. past' \in [Memory -> Past] /\ MissesMore
  BY <1>1, <1>2, <1>3 DEF EntityTypeOK, Past, MissesMore
<1>6. EntityTypeOK'
  BY <1>1, <1>4, <1>5, ChoreTypes, RowTypes DEF EntityTypeOK
<1>7. QED BY <1>1, <1>4, <1>5, <1>6, RowRewritten

LEMMA UpdateMemoryMentions ==
  ASSUME MentionsInv, NEW m \in Memory, UpdateMemory(m)
  PROVE  MentionsInv'
<1>1. /\ EntityTypeOK /\ Live(m) /\ Chore
      /\ UNCHANGED <<entity, mentions, job, merging>>
  BY DEF MentionsInv, UpdateMemory
<1>2. PICK text \in Text :
        /\ row' = [row EXCEPT ![m].text = text, ![m].version = @ + 1]
        /\ past' = [past EXCEPT ![m].missed = @ \cup text,
                                ![m].stuck = @ \/ row[m].status = "pending"]
  BY DEF UpdateMemory
<1>3. row[m] \in Row /\ row \in [Memory -> Row \cup {None}] /\ text \in SUBSET Name
  BY <1>1, WrittenRows, ExtractionAssumption DEF Live, EntityTypeOK
<1>4. /\ row' \in [Memory -> Row \cup {None}] /\ row'[m] \in Row
      /\ row'[m].version = row[m].version + 1 /\ row[m].version \in Nat
      /\ row'[m].text = text
      /\ \A k \in Memory \ {m} : row'[k] = row[k]
  BY <1>2, <1>3 DEF Row
<1>5. /\ past' \in [Memory -> Past] /\ MissesMore
      /\ past'[m].missed = past[m].missed \cup text
  <2>1. past \in [Memory -> Past]
    BY <1>1 DEF EntityTypeOK
  <2>2. past'[m] = [past[m] EXCEPT !.missed = @ \cup text,
                                   !.stuck = @ \/ row[m].status = "pending"]
    BY <1>2, <2>1
  <2>3. /\ past'[m].missed = past[m].missed \cup text
        /\ past'[m] \in Past
    BY <1>3, <2>1, <2>2 DEF Past
  <2>4. \A k \in Memory \ {m} : past'[k] = past[k]
    BY <1>2, <2>1
  <2>5. past' \in [Memory -> Past]
    BY <1>2, <2>1, <2>3, <2>4
  <2>6. QED BY <2>3, <2>4, <2>5 DEF MissesMore
<1>6. EntityTypeOK'
  BY <1>1, <1>4, <1>5, ChoreTypes, RowTypes DEF EntityTypeOK
<1>7. Grows
  BY <1>1, SameGrows
<1>8. Written(m) /\ Written(m)'
  BY <1>1, <1>4, NoneIsNoRecord DEF Live, Written
<1>9. ASSUME NEW j \in Job, Of(j) = m PROVE JobOK(j)' /\ ProcessedOK(j)'
  <2>1. JobOK(j) /\ job' = job
    BY <1>1 DEF MentionsInv
  <2>2. Active(j)' => Active(j)
    BY <2>1 DEF Active
  <2>3. Active(j) => job[j].version \in Nat /\ job[j].version < row'[m].version
    <3>1. Active(j) => job[j] \in Work
      BY <1>1, ActiveJobs
    <3>2. Active(j) => job[j].version \in Nat
      BY <3>1 DEF Work
    <3>3. QED BY <1>4, <1>9, <2>1, <3>2 DEF JobOK
  <2>4. ~Current(j)'
    BY <1>9, <2>1, <2>2, <2>3 DEF Current, Of
  <2>5. ProcessedOK(j)'
    BY <2>4 DEF ProcessedOK
  <2>6. Written(Of(j))'
    BY <1>8, <1>9 DEF Of
  <2>7. \A n, e : KnownAs(n, e)' <=> KnownAs(n, e)
    BY <1>1 DEF KnownAs, Calls
  <2>8. Active(j) => job[j].version <= row'[Of(j)].version
    BY <1>4, <1>9, <2>3
  <2>9. JobOK(j)'
    BY <1>1, <2>1, <2>2, <2>4, <2>6, <2>7, <2>8 DEF JobOK, Of
  <2>10. QED BY <2>5, <2>9
<1>10. CompleteOK(m)'
  BY <1>4, <1>5 DEF CompleteOK
<1>11. QED BY <1>1, <1>4, <1>5, <1>6, <1>7, <1>8, <1>9, <1>10, RowStep

LEMMA WriteMemoryMentions ==
  ASSUME MentionsInv, NEW m \in Memory, WriteMemory(m)
  PROVE  MentionsInv'
<1> DEFINE t == <<m, "task">>
<1>1. /\ EntityTypeOK /\ ~Written(m) /\ t \in Job /\ Of(t) = m
      /\ UNCHANGED <<entity, mentions, merging, chores, past>>
  BY JobsOf DEF MentionsInv, WriteMemory, budget
<1>2. PICK text \in Text :
        /\ row' = [row EXCEPT ![m] = [text |-> text, version |-> 1, deleted |-> FALSE,
                                      status |-> "pending", state |-> 0]]
        /\ Become(t, NewJob(m, text))
  BY DEF WriteMemory
<1>3. row \in [Memory -> Row \cup {None}] /\ text \in SUBSET Name
  BY <1>1, ExtractionAssumption DEF EntityTypeOK
<1>4. /\ row' \in [Memory -> Row \cup {None}] /\ row'[m] \in Row
      /\ row'[m].text = text /\ row'[m].status = "pending" /\ row'[m].version = 1
      /\ \A k \in Memory \ {m} : row'[k] = row[k]
  <2>1. [text |-> text, version |-> 1, deleted |-> FALSE, status |-> "pending", state |-> 0]
          \in Row
    BY <1>3 DEF Row, Status, Saved
  <2>2. QED BY <1>2, <1>3, <2>1
<1> DEFINE w == NewJob(m, text)
<1>5. /\ w \in Work /\ w.op = "queued" /\ w.text = text /\ w.todo = text /\ w.version = 1
  BY <1>3, <1>4 DEF NewJob, Work, Id, Saved, Status
<1>6. /\ job' \in [Job -> Work \cup {Idle}] /\ job'[t] = w
      /\ \A k \in Job \ {t} : job'[k] = job[k]
  BY <1>1, <1>2, <1>5, Moves
<1> HIDE DEF t, w
<1>7. Grows /\ MissesMore /\ past' \in [Memory -> Past]
  BY <1>1, SameGrows, SamePast
<1>8. EntityTypeOK'
  <2>1. \A k \in Job : job'[k].op \in {"mention", "link"} => job'[k] = job[k]
    BY <1>5, <1>6
  <2>2. chores' \in Nat
    BY <1>1 DEF EntityTypeOK
  <2>3. QED BY <1>1, <1>4, <1>6, <1>7, <2>1, <2>2, RowTypes
<1>9. Written(m)'
  BY <1>4, NoneIsNoRecord DEF Written
<1>10. ASSUME NEW j \in Job, Of(j) = m PROVE JobOK(j)' /\ ProcessedOK(j)'
  <2>1. CASE j = t
    <3>1. JobOK(j)'
      BY <1>4, <1>5, <1>6, <1>9, <1>10, <2>1 DEF JobOK, Active, Current, Of
    <3>2. ProcessedOK(j)'
      BY <1>5, <1>6, <2>1 DEF ProcessedOK
    <3>3. QED BY <3>1, <3>2
  <2>2. CASE j # t
    <3>1. ~Active(j)
      BY <1>1, <1>10 DEF MentionsInv, JobOK
    <3>2. ~Active(j)'
      BY <1>6, <2>2, <3>1 DEF Active
    <3>3. QED BY <3>2 DEF JobOK, ProcessedOK, Current
  <2>3. QED BY <2>1, <2>2
<1>11. CompleteOK(m)'
  BY <1>4 DEF CompleteOK
<1>12. \A j \in Job : Of(j) # m => job'[j] = job[j]
  BY <1>1, <1>6
<1>13. QED BY <1>1, <1>4, <1>7, <1>8, <1>9, <1>10, <1>11, <1>12, RowStep

LEMMA BackfillMentions ==
  ASSUME MentionsInv, NEW m \in Memory, Backfill(m)
  PROVE  MentionsInv'
<1> DEFINE t == <<m, "backfill">>
           w == NewJob(m, row[m].text)
<1>1. /\ EntityTypeOK /\ Live(m) /\ Chore /\ t \in Job /\ Of(t) = m
      /\ UNCHANGED <<row, entity, mentions, merging, past>> /\ Become(t, w)
  BY JobsOf DEF MentionsInv, Backfill
<1>2. row[m] \in Row /\ row' = row
  BY <1>1, WrittenRows DEF Live
<1>3. /\ w \in Work /\ w.op = "queued" /\ w.text = row[m].text /\ w.todo = row[m].text
      /\ w.version = row[m].version
  BY <1>2 DEF NewJob, Work, Row, Id, Saved, Status
<1>4. /\ job' \in [Job -> Work \cup {Idle}] /\ job'[t] = w
      /\ \A k \in Job \ {t} : job'[k] = job[k]
  BY <1>1, <1>3, Moves
<1> HIDE DEF t, w
<1>5. Grows /\ MissesMore /\ past' \in [Memory -> Past]
  BY <1>1, SameGrows, SamePast
<1>6. EntityTypeOK'
  <2>1. \A k \in Job : job'[k].op \in {"mention", "link"} => job'[k] = job[k]
    BY <1>3, <1>4
  <2>2. row' \in [Memory -> Row \cup {None}]
    BY <1>1 DEF EntityTypeOK
  <2>3. QED BY <1>1, <1>4, <1>5, <2>1, <2>2, ChoreTypes, RowTypes
<1>7. JobOK(t)'
  <2>1. Written(m)' /\ row[m].version \in Nat
    BY <1>1, <1>2 DEF Live, Written, Row
  <2>2. QED BY <1>1, <1>2, <1>3, <1>4, <2>1 DEF JobOK, Active, Current, Of
<1>8. ProcessedOK(t)'
  BY <1>3, <1>4 DEF ProcessedOK
<1>9. QED BY <1>1, <1>4, <1>5, <1>6, <1>7, <1>8, JobStep

LEMMA CrashMentions ==
  ASSUME MentionsInv, Crash
  PROVE  MentionsInv'
<1>1. /\ EntityTypeOK /\ UNCHANGED <<row, entity, mentions, chores>> /\ merging' = None
      /\ job' = [j \in Job |-> Idle]
      /\ past' = [m \in Memory |->
                    [past[m] EXCEPT !.stuck = @ \/ ~Doing(<<m, "task">>, "idle")]]
  BY DEF MentionsInv, Crash
<1>2. past' \in [Memory -> Past] /\ MissesMore
  <2>1. \A m \in Memory : Doing(<<m, "task">>, "idle") \in BOOLEAN
    BY DEF Doing
  <2>2. \A m \in Memory : past[m] \in Past
    BY <1>1 DEF EntityTypeOK
  <2>3. QED BY <1>1, <2>1, <2>2 DEF Past, MissesMore
<1>3. \A j \in Job : job'[j].op = "idle"
  BY <1>1 DEF Idle
<1>4. EntityTypeOK'
  BY <1>1, <1>2, <1>3 DEF EntityTypeOK
<1>5. \A j \in Job : JobOK(j)' /\ ProcessedOK(j)'
  BY <1>3 DEF JobOK, ProcessedOK, Current, Active
<1>6. ASSUME NEW m \in Memory PROVE CompleteOK(m)'
  <2>1. CompleteOK(m) /\ Grows
    BY <1>1, SameGrows DEF MentionsInv
  <2>2. Written(m)' => Written(m)
    BY <1>1 DEF Written
  <2>3. QED BY <1>1, <1>2, <2>1, <2>2, CompleteStays
<1>7. MergeOK' /\ MentionedOK'
  BY <1>1 DEF MergeOK, MentionsInv, MentionedOK, Written
<1>8. QED BY <1>4, <1>5, <1>6, <1>7 DEF MentionsInv

(* A step that leaves rows and jobs as they are. *)
LEMMA EntityStep ==
  ASSUME MentionsInv, EntityTypeOK', MergeOK', Grows, MissesMore, UNCHANGED <<row, job>>
  PROVE  MentionsInv'
<1>1. ASSUME NEW j \in Job PROVE JobOK(j)' /\ ProcessedOK(j)'
  <2>1. JobOK(j) /\ ProcessedOK(j)
    BY DEF MentionsInv
  <2>2. Written(Of(j)) => Written(Of(j))'
    BY DEF Written
  <2>3. QED BY <2>1, <2>2, JobStays
<1>2. ASSUME NEW m \in Memory PROVE CompleteOK(m)'
  <2>1. CompleteOK(m)
    BY DEF MentionsInv
  <2>2. Written(m)' => Written(m)
    BY DEF Written
  <2>3. QED BY <2>1, <2>2, CompleteStays
<1>3. MentionedOK'
  <2>1. \A m \in Memory : Written(m) => Written(m)'
    BY DEF Written
  <2>2. QED BY <2>1, MentionedStays DEF MentionsInv
<1>4. QED BY <1>1, <1>2, <1>3 DEF MentionsInv

LEMMA ReadMergeMentions ==
  ASSUME MentionsInv, NEW s \in DOMAIN entity, NEW t \in DOMAIN entity, ReadMerge(s, t)
  PROVE  MentionsInv'
<1> DEFINE g == [source |-> s, target |-> t, edges |-> Mentioning(s), known |-> Mentioning(t)]
<1>1. /\ EntityTypeOK /\ Chore /\ s # t /\ {s, t} \subseteq LiveEntities /\ merging' = g
      /\ UNCHANGED <<row, entity, mentions, job, past>>
  BY DEF MentionsInv, ReadMerge
<1>2. s \in Nat /\ t \in Nat
  BY <1>1, MintedIsNext
<1>3. g \in Merge
  BY <1>2 DEF Merge, Id, Mentioning
<1>4. EntityTypeOK'
  BY <1>1, <1>3, ChoreTypes DEF EntityTypeOK
<1>5. MergeOK'
  <2>1. \A m \in Mentioning(s) : Written(m)
    BY DEF Mentioning, MentionsInv, MentionedOK
  <2>2. QED BY <1>1, <2>1 DEF MergeOK, LiveEntities, Written
<1>6. QED BY <1>1, <1>4, <1>5, SameGrows, SamePast, EntityStep

LEMMA RenameEntityMentions ==
  ASSUME MentionsInv, NEW e \in DOMAIN entity, NEW n \in Name, RenameEntity(e, n)
  PROVE  MentionsInv'
<1>1. /\ EntityTypeOK /\ Chore
      /\ entity' = [entity EXCEPT ![e].name = n, ![e].aliases = @ \cup {entity[e].name}]
      /\ UNCHANGED <<row, mentions, job, merging, past>>
  BY DEF MentionsInv, RenameEntity
<1>2. PICK k \in 0..MaxEntities : entity \in [1..k -> Entity]
  BY <1>1 DEF EntityTypeOK
<1>3. /\ entity' \in [1..k -> Entity]
      /\ DOMAIN entity' = DOMAIN entity
      /\ \A d \in DOMAIN entity : entity'[d].deleted = entity[d].deleted
      /\ \A d \in DOMAIN entity :
           {entity[d].name} \cup entity[d].aliases
             \subseteq {entity'[d].name} \cup entity'[d].aliases
  BY <1>1, <1>2 DEF Entity
<1>4. Grows
  BY <1>1, <1>3 DEF Grows, LiveEntities, Calls
<1>5. EntityTypeOK'
  BY <1>1, <1>2, <1>3, ChoreTypes DEF EntityTypeOK
<1>6. MergeOK'
  BY <1>1, <1>4, MergeStays DEF MentionsInv, Written
<1>7. QED BY <1>1, <1>4, <1>5, <1>6, SamePast, EntityStep

(* A merge moves the edges that it read to the target, which takes over the names of the *)
(* source: what was reached through the source is reached through the target, but for    *)
(* the memories that were joined to the source meanwhile, which miss all their names.    *)
CommitsMerge(s, t, moved, left) ==
  /\ mentions' = (mentions \ {<<m, s>> : m \in moved}) \cup {<<m, t>> : m \in moved}
  /\ entity' = [entity EXCEPT ![s].deleted = TRUE, ![t].aliases = @ \cup Calls(s)]
  /\ past' = [m \in Memory |-> IF m \in left
                               THEN [past[m] EXCEPT !.missed = @ \cup row[m].text]
                               ELSE past[m]]

LEMMA MergedEntities ==
  ASSUME EntityTypeOK, NEW s \in LiveEntities, NEW t \in LiveEntities, s # t,
         entity' = [entity EXCEPT ![s].deleted = TRUE, ![t].aliases = @ \cup Calls(s)]
  PROVE  /\ \E k \in 0..MaxEntities : entity' \in [1..k -> Entity]
         /\ DOMAIN entity' = DOMAIN entity
         /\ LiveEntities' = LiveEntities \ {s}
         /\ \A e \in DOMAIN entity : entity'[e].name = entity[e].name
         /\ \A e \in DOMAIN entity : Calls(e) \subseteq Calls(e)'
         /\ Calls(s) \subseteq Calls(t)'
<1>1. PICK k \in 0..MaxEntities : entity \in [1..k -> Entity]
  BY DEF EntityTypeOK
<1>2. s \in DOMAIN entity /\ t \in DOMAIN entity
  BY DEF LiveEntities
<1>3. Calls(s) \subseteq Name
  BY <1>1, <1>2 DEF Calls, Entity
<1>4. DOMAIN entity' = 1..k /\ DOMAIN entity = 1..k
  BY <1>1
<1> DEFINE Merged(e) == IF e = s THEN [entity[e] EXCEPT !.deleted = TRUE]
                        ELSE IF e = t
                        THEN [entity[e] EXCEPT !.aliases = entity[t].aliases \cup Calls(s)]
                        ELSE entity[e]
<1>5. \A e \in 1..k : entity'[e] = Merged(e)
  BY <1>1, <1>2, <1>4
<1>6. ASSUME NEW e \in 1..k
      PROVE  /\ Merged(e) \in Entity /\ Merged(e).name = entity[e].name
             /\ Merged(e).deleted = IF e = s THEN TRUE ELSE entity[e].deleted
             /\ Merged(e).aliases = IF e = t THEN entity[e].aliases \cup Calls(s)
                                    ELSE entity[e].aliases
  <2>1. entity[e] \in Entity /\ entity[t].aliases \cup Calls(s) \subseteq Name
    BY <1>1, <1>2, <1>3, <1>4 DEF Entity
  <2>2. CASE e = s
    BY <2>1, <2>2 DEF Entity
  <2>3. CASE e = t
    BY <2>1, <2>3 DEF Entity
  <2>4. CASE e # s /\ e # t
    BY <2>1, <2>4
  <2>5. QED BY <2>2, <2>3, <2>4
<1> HIDE DEF Merged
<1>7. entity' \in [1..k -> Entity]
  <2>1. \A e \in 1..k : entity'[e] \in Entity
    BY <1>5, <1>6
  <2>2. QED BY <1>4, <2>1
<1>8. LiveEntities' = LiveEntities \ {s}
  BY <1>2, <1>4, <1>5, <1>6 DEF LiveEntities
<1>9. \A e \in DOMAIN entity :
        /\ entity'[e].name = entity[e].name
        /\ entity'[e].aliases = IF e = t THEN entity[e].aliases \cup Calls(s)
                                ELSE entity[e].aliases
  BY <1>4, <1>5, <1>6
<1>10. \A e \in DOMAIN entity : Calls(e)' = {entity'[e].name} \cup entity'[e].aliases
  BY DEF Calls
<1>11. ASSUME NEW e \in DOMAIN entity PROVE Calls(e) \subseteq Calls(e)'
  <2>1. Calls(e) = {entity[e].name} \cup entity[e].aliases
    BY DEF Calls
  <2>2. entity[e].aliases \subseteq entity'[e].aliases /\ entity'[e].name = entity[e].name
    <3>1. CASE e = t
      <4>1. /\ entity'[t].aliases = entity[t].aliases \cup Calls(s)
            /\ entity'[t].name = entity[t].name
        BY <1>2, <1>9
      <4>2. QED BY <3>1, <4>1
    <3>2. CASE e # t
      BY <1>9, <3>2
    <3>3. QED BY <3>1, <3>2
  <2>3. Calls(e)' = {entity'[e].name} \cup entity'[e].aliases
    BY <1>10
  <2>4. QED BY <2>1, <2>2, <2>3
<1>12. Calls(s) \subseteq Calls(t)'
  BY <1>2, <1>9, <1>10
<1>13. QED BY <1>4, <1>7, <1>8, <1>9, <1>11, <1>12

LEMMA CommitMergeMentions ==
  ASSUME MentionsInv, CommitMerge
  PROVE  MentionsInv'
<1>1. /\ EntityTypeOK /\ MergeOK /\ MentionedOK /\ merging # None /\ merging' = None
      /\ UNCHANGED <<row, job, chores>>
  BY DEF MentionsInv, CommitMerge, budget
<1>2. PICK s \in LiveEntities, t \in LiveEntities, moved \in SUBSET Memory :
        /\ merging.source = s /\ merging.target = t /\ merging.edges = moved
        /\ s # t /\ \A m \in moved : Written(m)
  BY <1>1 DEF EntityTypeOK, MergeOK, Merge
<1>3. PICK left \in SUBSET Memory : left = Mentioning(s) \ moved
  BY DEF Mentioning
<1>4. MergeOK'
  BY <1>1 DEF MergeOK
<1>5. CASE UNCHANGED <<entity, mentions, past>>
  <2>1. EntityTypeOK'
    BY <1>1, <1>5 DEF EntityTypeOK
  <2>2. QED BY <1>1, <1>4, <1>5, <2>1, SameGrows, SamePast, EntityStep
<1>6. CASE CommitsMerge(s, t, moved, left)
  <2>1. /\ mentions' = (mentions \ {<<m, s>> : m \in moved}) \cup {<<m, t>> : m \in moved}
        /\ entity' = [entity EXCEPT ![s].deleted = TRUE, ![t].aliases = @ \cup Calls(s)]
        /\ past' = [m \in Memory |-> IF m \in left
                                     THEN [past[m] EXCEPT !.missed = @ \cup row[m].text]
                                     ELSE past[m]]
    BY <1>6 DEF CommitsMerge
  <2>2. /\ \E k \in 0..MaxEntities : entity' \in [1..k -> Entity]
        /\ DOMAIN entity' = DOMAIN entity
        /\ LiveEntities' = LiveEntities \ {s}
        /\ \A e \in DOMAIN entity : Calls(e) \subseteq Calls(e)'
        /\ Calls(s) \subseteq Calls(t)'
    BY <1>1, <1>2, <2>1, MergedEntities
  <2>3. s \in DOMAIN entity /\ t \in DOMAIN entity
    BY DEF LiveEntities
  <2>4. \A m \in left : row[m] \in Row
    BY <1>1, <1>3, WrittenRows DEF Mentioning, MentionedOK
  <2>5. /\ past' \in [Memory -> Past] /\ MissesMore
        /\ \A m \in left : row[m].text \subseteq past'[m].missed
    <3>1. past \in [Memory -> Past]
      BY <1>1 DEF EntityTypeOK
    <3>2. ASSUME NEW m \in left
          PROVE  /\ past'[m] = [past[m] EXCEPT !.missed = @ \cup row[m].text]
                 /\ past[m].missed \cup row[m].text \subseteq Name
      BY <2>1, <2>4, <3>1 DEF Past, Row
    <3>3. ASSUME NEW m \in left
          PROVE  past'[m] \in Past /\ past'[m].missed = past[m].missed \cup row[m].text
      BY <3>1, <3>2 DEF Past
    <3>4. \A m \in Memory \ left : past'[m] = past[m]
      BY <2>1
    <3>5. \A m \in Memory : past'[m] \in Past
      BY <3>1, <3>3, <3>4
    <3>6. past' \in [Memory -> Past]
      BY <2>1, <3>5
    <3>7. QED BY <3>3, <3>4, <3>6 DEF MissesMore
  <2>6. EntityTypeOK'
    <3>1. mentions' \subseteq Memory \X DOMAIN entity'
      BY <1>1, <2>1, <2>2, <2>3 DEF EntityTypeOK
    <3>2. QED BY <1>1, <2>2, <2>5, <3>1 DEF EntityTypeOK
  <2>7. ASSUME NEW n, NEW e \in DOMAIN entity, KnownAs(n, e)
        PROVE  KnownAs(n, e)' /\ (e = s => KnownAs(n, t)')
    BY <2>2, <2>7 DEF KnownAs
  <2>8. ASSUME NEW m \in Memory \ left, NEW n, Reached(m, n)
        PROVE  Reached(m, n)'
    <3>1. PICK e \in LiveEntities : <<m, e>> \in mentions /\ KnownAs(n, e)
      BY <2>8 DEF Reached
    <3>2. e \in DOMAIN entity
      BY DEF LiveEntities
    <3>3. CASE e = s
      <4>1. m \in moved
        BY <1>3, <3>1, <3>3 DEF Mentioning
      <4>2. t \in LiveEntities' /\ <<m, t>> \in mentions'
        BY <1>2, <2>1, <2>2, <4>1
      <4>3. KnownAs(n, t)'
        BY <2>7, <3>1, <3>2, <3>3
      <4>4. QED BY <4>2, <4>3 DEF Reached
    <3>4. CASE e # s
      <4>1. e \in LiveEntities' /\ <<m, e>> \in mentions'
        BY <2>1, <2>2, <3>1, <3>4
      <4>2. KnownAs(n, e)'
        BY <2>7, <3>1, <3>2
      <4>3. QED BY <4>1, <4>2 DEF Reached
    <3>5. QED BY <3>3, <3>4
  <2>9. ASSUME NEW j \in Job PROVE JobOK(j)' /\ ProcessedOK(j)'
    <3>1. /\ JobOK(j) /\ ProcessedOK(j) /\ Of(j) \in Memory
          /\ (Active(j)' <=> Active(j)) /\ (Current(j)' <=> Current(j))
          /\ (Written(Of(j))' <=> Written(Of(j)))
      BY <1>1, JobParts DEF MentionsInv, Active, Current, Written
    <3>2. ASSUME Active(j), job[j].op \in {"mention", "link"}
          PROVE  job[j].entity \in DOMAIN entity' /\ KnownAs(job[j].name, job[j].entity)'
      <4>1. PICK n \in Name, e \in DOMAIN entity :
              job[j].name = n /\ job[j].entity = e /\ KnownAs(n, e)
        BY <3>1, <3>2 DEF JobOK
      <4>2. KnownAs(n, e)'
        BY <2>7, <4>1
      <4>3. job'[j].name = n /\ job'[j].entity = e
        BY <1>1, <4>1
      <4>4. QED BY <1>1, <2>2, <4>1, <4>2, <4>3
    <3>3. JobOK(j)'
      BY <1>1, <3>1, <3>2 DEF JobOK
    <3>4. ProcessedOK(j)'
      <4>1. SUFFICES ASSUME Current(j),
                            NEW n \in (job[j].text \ (job[j].todo \cup InHand(j)))
                                        \ past'[Of(j)].missed
                     PROVE  Reached(Of(j), n)'
        BY <1>1, <3>1 DEF ProcessedOK, InHand
      <4>2. Reached(Of(j), n)
        BY <2>5, <3>1, <4>1 DEF ProcessedOK, MissesMore
      <4>3. job[j].text = row[Of(j)].text
        BY <3>1, <4>1 DEF JobOK, Current
      <4>4. Of(j) \notin left
        BY <2>5, <4>1, <4>3
      <4>5. QED BY <2>8, <3>1, <4>2, <4>4
    <3>5. QED BY <3>3, <3>4
  <2>10. ASSUME NEW m \in Memory PROVE CompleteOK(m)'
    <3>1. SUFFICES ASSUME Written(m), row[m].status = "complete",
                          NEW n \in row[m].text \ past'[m].missed
                   PROVE  Reached(m, n)'
      BY <1>1 DEF CompleteOK, Written
    <3>2. Reached(m, n)
      BY <2>5, <3>1 DEF MentionsInv, CompleteOK, MissesMore
    <3>3. QED BY <2>5, <2>8, <3>1, <3>2
  <2>11. MentionedOK'
    <3>1. \A p \in mentions' : Written(p[1])
      BY <1>1, <1>2, <2>1 DEF MentionedOK
    <3>2. QED BY <1>1, <3>1 DEF MentionedOK, Written
  <2>12. QED BY <1>4, <2>6, <2>9, <2>10, <2>11 DEF MentionsInv
<1>7. QED BY <1>2, <1>3, <1>5, <1>6 DEF CommitMerge, CommitsMerge, Moved

------------------------------------------------------------------------------
(* Mentions, in every reachable state *)

LEMMA InitMentions ==
  ASSUME Init
  PROVE  MentionsInv
<1>1. entity \in [1..0 -> Entity] /\ 0 \in 0..MaxEntities
  BY ExtractionAssumption DEF Init
<1>2. EntityTypeOK
  BY <1>1 DEF Init, EntityTypeOK, Idle, Past, Saved
<1>3. /\ \A j \in Job : ~Active(j)
      /\ \A m \in Memory : ~Written(m)
  BY DEF Init, Active, Idle, Written
<1>4. \A j \in Job : JobOK(j) /\ ProcessedOK(j)
  BY <1>3 DEF JobOK, ProcessedOK, Current
<1>5. \A m \in Memory : CompleteOK(m)
  BY <1>3 DEF CompleteOK
<1>6. MentionedOK /\ MergeOK
  BY DEF Init, MentionedOK, MergeOK
<1>7. QED BY <1>2, <1>4, <1>5, <1>6 DEF MentionsInv

LEMMA StutterMentions ==
  ASSUME MentionsInv, UNCHANGED vars
  PROVE  MentionsInv'
<1>1. UNCHANGED <<row, entity, mentions, job, merging, chores, faults, past>>
  BY DEF vars
<1>2. EntityTypeOK'
  BY <1>1 DEF MentionsInv, EntityTypeOK
<1>3. MergeOK'
  BY <1>1 DEF MentionsInv, MergeOK, LiveEntities, Written
<1>4. QED BY <1>1, <1>2, <1>3, SameGrows, SamePast, EntityStep DEF MentionsInv

(* Every step keeps the invariant of mentions. *)
LEMMA NextMentions ==
  ASSUME MentionsInv, [Next]_vars
  PROVE  MentionsInv'
<1>1. ASSUME NEW m \in Memory,
             \/ WriteMemory(m) \/ UpdateMemory(m) \/ DeleteMemory(m)
             \/ SaveCheckpoint(m) \/ Backfill(m)
      PROVE  MentionsInv'
  BY <1>1, WriteMemoryMentions, UpdateMemoryMentions, DeleteMemoryMentions,
     SaveCheckpointMentions, BackfillMentions
<1>2. ASSUME NEW j \in Job, Step(j) \/ DropName(j) \/ Raise(j) \/ GiveUp(j)
      PROVE  MentionsInv'
  BY <1>2, BeginMentions, FindMentions, CreateMentions, MentionMentions, LinkMentions,
     MarkMentions, WriteStatusMentions, DropNameMentions, RaiseMentions, GiveUpMentions
  DEF Step
<1>3. CASE Crash
  BY <1>3, CrashMentions
<1>4. CASE \E s, t \in DOMAIN entity : ReadMerge(s, t)
  BY <1>4, ReadMergeMentions
<1>5. CASE CommitMerge
  BY <1>5, CommitMergeMentions
<1>6. CASE \E e \in DOMAIN entity, n \in Name : RenameEntity(e, n)
  BY <1>6, RenameEntityMentions
<1>7. CASE UNCHANGED vars
  BY <1>7, StutterMentions
<1>8. QED BY <1>1, <1>2, <1>3, <1>4, <1>5, <1>6, <1>7 DEF Next

LEMMA MentionsInvariant == Spec => []MentionsInv
BY InitMentions, NextMentions, PTL DEF Spec

(* Rows, entities, edges, jobs and merges have their types, and edges and jobs refer to  *)
(* entities that were created, however extractions, backfills and merges overlap.        *)
THEOREM EntityTypesHold == Spec => []EntityTypeOK
<1>1. MentionsInv => EntityTypeOK
  BY DEF MentionsInv
<1>2. QED BY <1>1, MentionsInvariant, PTL

(* A complete memory mentions, for every name that was not missed, a live entity that    *)
(* goes by the name or by one like it (_run_extraction and process_one, against          *)
(* merge_entities and rename_entity).                                                    *)
THEOREM NamesAlwaysMentioned == Spec => []NamesAreMentioned
<1>1. MentionsInv => NamesAreMentioned
  BY DEF MentionsInv, CompleteOK, NamesAreMentioned, Live, Reached, KnownAs
<1>2. QED BY <1>1, MentionsInvariant, PTL

------------------------------------------------------------------------------
(* Names *)

(* The entities are left alone by all but three actions. *)
LEMMA EntityChanges ==
  ASSUME [Next]_vars
  PROVE  \/ UNCHANGED entity
         \/ \E j \in Job : Create(j)
         \/ CommitMerge
         \/ \E e \in DOMAIN entity, n \in Name : RenameEntity(e, n)
BY DEF Next, vars, WriteMemory, UpdateMemory, DeleteMemory, SaveCheckpoint, Backfill,
   Step, Begin, Find, Mention, Link, Mark, WriteStatus, DropName, Raise, GiveUp, Crash,
   ReadMerge

LEMMA CreateKeepsNames ==
  ASSUME EntityTypeOK, OneEntityPerName, NEW j \in Job, Create(j)
  PROVE  OneEntityPerName'
<1>1. CASE UNCHANGED entity
  BY <1>1 DEF OneEntityPerName, LiveEntities
<1>2. CASE ~UNCHANGED entity
  <2>1. PICK k \in 0..MaxEntities : entity \in [1..k -> Entity] /\ Minted = k + 1
    BY MintedIsNext
  <2>2. PICK n : /\ Named(n) = {}
                 /\ entity' = [i \in 1..(k + 1) |->
                       IF i = k + 1 THEN [name |-> n, aliases |-> {}, deleted |-> FALSE]
                       ELSE entity[i]]
    BY <1>2, <2>1 DEF Create, Taken
  <2>3. SUFFICES ASSUME NEW d \in LiveEntities', NEW e \in LiveEntities',
                        entity'[d].name = entity'[e].name
                 PROVE  d = e
    BY DEF OneEntityPerName
  <2>4. entity'[k + 1].name = n /\ \A i \in 1..k : entity'[i] = entity[i]
    BY <2>1, <2>2
  <2>5. ASSUME NEW i \in LiveEntities', i # k + 1
        PROVE  i \in LiveEntities /\ entity'[i] = entity[i]
    BY <2>1, <2>2, <2>4, <2>5 DEF LiveEntities
  <2>6. \A i \in LiveEntities : entity[i].name # n
    BY <2>2 DEF Named
  <2>7. QED BY <2>3, <2>4, <2>5, <2>6 DEF OneEntityPerName
<1>3. QED BY <1>1, <1>2

LEMMA RenameKeepsNames ==
  ASSUME EntityTypeOK, OneEntityPerName, NEW r \in DOMAIN entity, NEW n \in Name,
         RenameEntity(r, n)
  PROVE  OneEntityPerName'
<1>1. PICK k \in 0..MaxEntities : entity \in [1..k -> Entity]
  BY DEF EntityTypeOK
<1>2. /\ entity' = [entity EXCEPT ![r].name = n, ![r].aliases = @ \cup {entity[r].name}]
      /\ Named(n) = {}
  BY DEF RenameEntity
<1>3. /\ entity'[r].name = n
      /\ LiveEntities' = LiveEntities
      /\ \A e \in LiveEntities : e # r => entity'[e].name = entity[e].name
  BY <1>1, <1>2 DEF LiveEntities, Entity
<1>4. \A e \in LiveEntities : entity[e].name # n
  BY <1>2 DEF Named
<1>5. QED BY <1>3, <1>4 DEF OneEntityPerName

LEMMA MergeKeepsNames ==
  ASSUME MentionsInv, OneEntityPerName, CommitMerge
  PROVE  OneEntityPerName'
<1>1. CASE UNCHANGED entity
  BY <1>1 DEF OneEntityPerName, LiveEntities
<1>2. CASE ~UNCHANGED entity
  <2>1. PICK s \in LiveEntities, t \in LiveEntities :
          s # t /\ merging.source = s /\ merging.target = t
    BY DEF CommitMerge, MentionsInv, MergeOK
  <2>2. entity' = [entity EXCEPT ![s].deleted = TRUE, ![t].aliases = @ \cup Calls(s)]
    BY <1>2, <2>1 DEF CommitMerge
  <2>3. /\ LiveEntities' = LiveEntities \ {s}
        /\ \A e \in DOMAIN entity : entity'[e].name = entity[e].name
    BY <2>1, <2>2, MergedEntities DEF MentionsInv
  <2>4. LiveEntities \subseteq DOMAIN entity
    BY DEF LiveEntities
  <2>5. QED BY <2>3, <2>4 DEF OneEntityPerName
<1>3. QED BY <1>1, <1>2

(* No two live entities of an owner have the same name: the index refuses a second one   *)
(* of find_or_create_entity and of rename_entity, and a merge only takes names away.     *)
THEOREM NamesStayUnique == Spec => []OneEntityPerName
<1>1. Init => OneEntityPerName
  BY DEF Init, OneEntityPerName, LiveEntities
<1>2. OneEntityPerName /\ MentionsInv /\ [Next]_vars => OneEntityPerName'
  <2> SUFFICES ASSUME OneEntityPerName, MentionsInv, [Next]_vars
               PROVE  OneEntityPerName'
    OBVIOUS
  <2>1. EntityTypeOK
    BY DEF MentionsInv
  <2>2. CASE UNCHANGED entity
    BY <2>2 DEF OneEntityPerName, LiveEntities
  <2>3. QED BY <2>1, <2>2, EntityChanges, CreateKeepsNames, RenameKeepsNames,
               MergeKeepsNames
<1>3. QED BY <1>1, <1>2, MentionsInvariant, PTL DEF Spec

------------------------------------------------------------------------------
(* Saves *)

(* What a save would have changed is as it was. *)
SameSaves(m) ==
  /\ Written(m)' <=> Written(m)
  /\ row'[m].state = row[m].state /\ row'[m].version = row[m].version
  /\ past'[m].saved = past[m].saved /\ past'[m].undone = past[m].undone

(* The jobs of m that set a status now were doing so, or read the metadata just now. *)
WritesAgree(m) ==
  \A j \in Job : Of(j) = m /\ job'[j].op = "write" =>
    job'[j] = job[j] \/ job'[j].state = row[m].state

LEMMA SavesStay ==
  ASSUME NEW m \in Memory, SavesOK(m), SameSaves(m), WritesAgree(m)
  PROVE  SavesOK(m)'
BY DEF SavesOK, SameSaves, WritesAgree

(* The steps of a job but the last: no row changes, and of the past no save. *)
LEMMA JobSaves ==
  ASSUME MentionsInv, NEW j \in Job,
         \/ Begin(j) \/ Find(j) \/ Create(j) \/ Mention(j) \/ Link(j) \/ Mark(j)
         \/ DropName(j) \/ Raise(j) \/ GiveUp(j)
  PROVE  /\ UNCHANGED row
         /\ \A m \in Memory : SameSaves(m) /\ WritesAgree(m)
<1>1. EntityTypeOK /\ JobOK(j) /\ Of(j) \in Memory
  BY JobParts DEF MentionsInv
<1>2. UNCHANGED row
  BY DEF Begin, Find, Create, Mention, Link, Mark, DropName, Raise, GiveUp, budget
<1>3. \A m \in Memory :
        past'[m].saved = past[m].saved /\ past'[m].undone = past[m].undone
  <2>1. CASE UNCHANGED past
    BY <2>1
  <2>2. CASE \E n \in Name : Missed(Of(j), n)
    BY <1>1, <2>2, MissedTypes
  <2>3. CASE GiveUp(j)
    BY <1>1, <2>3 DEF GiveUp, EntityTypeOK, Past
  <2>4. CASE Mention(j) \/ Link(j) \/ DropName(j)
    <3>1. job[j].name \in Name
      BY <1>1, <2>4 DEF Mention, Link, DropName, Doing, JobOK, Active
    <3>2. UNCHANGED past \/ Missed(Of(j), job[j].name)
      BY <2>4 DEF Mention, Link, DropName
    <3>3. QED BY <2>1, <2>2, <3>1, <3>2
  <2>5. CASE Begin(j) \/ Find(j) \/ Create(j) \/ Mark(j) \/ Raise(j)
    BY <2>5 DEF Begin, Find, Create, Mark, Raise
  <2>6. QED BY <2>3, <2>4, <2>5
<1>4. ASSUME NEW k \in Job, job'[k].op = "write"
      PROVE  job'[k] = job[k] \/ job'[k].state = row[Of(k)].state
  <2>1. job \in [Job -> Work \cup {Idle}]
    BY <1>1 DEF EntityTypeOK
  <2>2. job[j] \in Work
    <3>1. Active(j)
      BY DEF Begin, Find, Create, Mention, Link, Mark, DropName, Raise, GiveUp, Doing, Active
    <3>2. QED BY <1>1, <3>1, ActiveJobs
  <2>3. CASE k = j
    <3>1. CASE Begin(j)
      BY <1>4, <2>1, <2>2, <2>3, <3>1 DEF Begin, Become, Work
    <3>2. CASE Find(j)
      BY <1>4, <2>1, <2>2, <2>3, <3>2 DEF Find, Become, Work
    <3>3. CASE Create(j)
      BY <1>4, <2>1, <2>2, <2>3, <3>3 DEF Create, Become, Work
    <3>4. CASE Mention(j) \/ Link(j) \/ DropName(j)
      BY <1>4, <2>1, <2>2, <2>3, <3>4 DEF Mention, Link, DropName, Become, Work
    <3>5. CASE Mark(j)
      BY <1>4, <2>1, <2>2, <2>3, <3>5 DEF Mark, Become, ReadMetadata, Work
    <3>6. CASE Raise(j)
      BY <1>4, <2>1, <2>2, <2>3, <3>6 DEF Raise, Become, Work
    <3>7. CASE GiveUp(j)
      BY <1>4, <2>1, <2>3, <3>7 DEF GiveUp, Become, Idle
    <3>8. QED BY <3>1, <3>2, <3>3, <3>4, <3>5, <3>6, <3>7
  <2>4. CASE k # j
    BY <2>1, <2>4
    DEF Become, Begin, Find, Create, Mention, Link, Mark, DropName, Raise, GiveUp
  <2>5. QED BY <2>3, <2>4
<1>5. QED BY <1>2, <1>3, <1>4 DEF SameSaves, WritesAgree, Written

(* The steps of users and administrators that save nothing, and write no status. *)
LEMMA OtherSaves ==
  ASSUME MentionsInv, NEW m \in Memory,
         \/ \E k \in Memory : DeleteMemory(k) \/ Backfill(k)
         \/ Crash \/ CommitMerge
         \/ \E s, t \in DOMAIN entity : ReadMerge(s, t)
         \/ \E e \in DOMAIN entity, n \in Name : RenameEntity(e, n)
         \/ UNCHANGED vars
  PROVE  SameSaves(m) /\ WritesAgree(m)
<1>1. EntityTypeOK
  BY DEF MentionsInv
<1>2. past \in [Memory -> Past] /\ row \in [Memory -> Row \cup {None}]
  BY <1>1 DEF EntityTypeOK
<1>3. ASSUME NEW k \in Memory, DeleteMemory(k)
      PROVE  SameSaves(m) /\ WritesAgree(m)
  <2>1. row[k] \in Row /\ UNCHANGED <<job, past>>
        /\ row' = [row EXCEPT ![k].deleted = TRUE]
    BY <1>1, <1>3, WrittenRows DEF DeleteMemory, Live
  <2>2. /\ row'[k] \in Row
        /\ row'[k].state = row[k].state /\ row'[k].version = row[k].version
        /\ m # k => row'[m] = row[m]
    BY <1>2, <2>1 DEF Row
  <2>3. QED BY <2>1, <2>2, NoneIsNoRecord DEF SameSaves, WritesAgree, Written
<1>4. ASSUME NEW k \in Memory, Backfill(k)
      PROVE  SameSaves(m) /\ WritesAgree(m)
  <2>1. UNCHANGED <<row, past>> /\ Become(<<k, "backfill">>, NewJob(k, row[k].text))
    BY <1>4 DEF Backfill
  <2>2. NewJob(k, row[k].text).op = "queued"
    BY DEF NewJob
  <2>3. \A j \in Job : job'[j].op = "write" => job'[j] = job[j]
    BY <1>1, <2>1, <2>2 DEF Become, EntityTypeOK
  <2>4. QED BY <2>1, <2>3 DEF SameSaves, WritesAgree, Written
<1>5. CASE Crash
  <2>1. /\ UNCHANGED row /\ \A j \in Job : job'[j] = Idle
        /\ past'[m] = [past[m] EXCEPT !.stuck = @ \/ ~Doing(<<m, "task">>, "idle")]
    BY <1>5 DEF Crash
  <2>2. past'[m].saved = past[m].saved /\ past'[m].undone = past[m].undone
    BY <1>2, <2>1 DEF Past
  <2>3. QED BY <2>1, <2>2 DEF SameSaves, WritesAgree, Written, Idle
<1>6. CASE CommitMerge
  <2>1. UNCHANGED <<row, job>>
    BY <1>6 DEF CommitMerge
  <2>2. \/ past'[m] = past[m]
        \/ past'[m] = [past[m] EXCEPT !.missed = @ \cup row[m].text]
    BY <1>6 DEF CommitMerge
  <2>3. past'[m].saved = past[m].saved /\ past'[m].undone = past[m].undone
    BY <1>2, <2>2 DEF Past
  <2>4. QED BY <2>1, <2>3 DEF SameSaves, WritesAgree, Written
<1>7. CASE UNCHANGED <<row, job, past>>
  BY <1>7 DEF SameSaves, WritesAgree, Written
<1>8. QED
  BY <1>3, <1>4, <1>5, <1>6, <1>7 DEF ReadMerge, RenameEntity, vars

LEMMA WriteStatusSaves ==
  ASSUME SavedInv, NEW j \in Job, WriteStatus(j), NEW m \in Memory
  PROVE  SavesOK(m)'
<1>1. /\ EntityTypeOK /\ SavesOK(m) /\ JobOK(j) /\ job[j].op = "write"
      /\ Become(j, Idle) /\ UNCHANGED past
      /\ row' = IF row[Of(j)].version = job[j].version
                THEN [row EXCEPT ![Of(j)].status = job[j].verdict,
                                 ![Of(j)].state = job[j].state]
                ELSE row
  BY DEF SavedInv, MentionsInv, WriteStatus, Doing
<1>2. \A k \in Job : job'[k].op = "write" => job'[k] = job[k]
  BY <1>1 DEF Become, EntityTypeOK, Idle
<1>3. CASE Of(j) = m /\ row[m].version = job[j].version
  <2>1. row[m] \in Row
    BY <1>1, <1>3, WrittenRows DEF JobOK, Active
  <2>2. row' = [row EXCEPT ![m].status = job[j].verdict, ![m].state = job[j].state]
    BY <1>1, <1>3
  <2>3. row'[m] = [row[m] EXCEPT !.status = job[j].verdict, !.state = job[j].state]
    BY <1>1, <2>2 DEF EntityTypeOK
  <2>4. row'[m].state = job[j].state /\ row'[m].version = row[m].version
    BY <2>1, <2>3 DEF Row
  <2>5. Written(m)
    BY <1>1, <1>3 DEF JobOK, Active
  <2>6. ~past[m].undone => job[j].state = row[m].state
    BY <1>1, <1>3 DEF SavesOK
  <2>7. Written(m)'
    <3>1. job[j].verdict \in Status /\ job[j].state \in Saved
      BY <1>1, ActiveJobs DEF Active, Work
    <3>2. row'[m] \in Row
      BY <2>1, <2>3, <3>1 DEF Row
    <3>3. QED BY <3>2, NoneIsNoRecord DEF Written
  <2>8. QED BY <1>1, <1>2, <2>4, <2>5, <2>6, <2>7 DEF SavesOK
<1>4. CASE ~(Of(j) = m /\ row[m].version = job[j].version)
  <2>1. row'[m] = row[m]
    BY <1>1, <1>4 DEF EntityTypeOK
  <2>2. QED BY <1>1, <1>2, <2>1, SavesStay DEF SameSaves, WritesAgree, Written
<1>5. QED BY <1>3, <1>4

LEMMA WriteMemorySaves ==
  ASSUME SavedInv, NEW w \in Memory, WriteMemory(w), NEW m \in Memory
  PROVE  SavesOK(m)'
<1>1. /\ EntityTypeOK /\ SavesOK(m) /\ ~Written(w) /\ UNCHANGED past
      /\ \A j \in Job : JobOK(j)
  BY DEF SavedInv, MentionsInv, WriteMemory
<1>2. PICK text \in Text :
        /\ row' = [row EXCEPT ![w] = [text |-> text, version |-> 1, deleted |-> FALSE,
                                      status |-> "pending", state |-> 0]]
        /\ Become(<<w, "task">>, NewJob(w, text))
  BY DEF WriteMemory
<1>3. NewJob(w, text).op = "queued"
  BY DEF NewJob
<1>4. \A j \in Job : job'[j].op = "write" => job'[j] = job[j]
  BY <1>1, <1>2, <1>3 DEF Become, EntityTypeOK
<1>5. CASE m = w
  <2>1. row'[m].state = 0
    BY <1>1, <1>2, <1>5 DEF EntityTypeOK
  <2>2. past'[m].saved = 0
    BY <1>1, <1>5 DEF SavesOK
  <2>3. ASSUME NEW j \in Job, Of(j) = m PROVE job'[j].op # "write"
    BY <1>1, <1>4, <1>5, <2>3 DEF JobOK, Active
  <2>4. Written(m)'
    <3>1. row'[m] \in Row
      BY <1>1, <1>2, <1>5, ExtractionAssumption DEF EntityTypeOK, Row, Status, Saved
    <3>2. QED BY <3>1, NoneIsNoRecord DEF Written
  <2>5. QED BY <1>1, <2>1, <2>2, <2>3, <2>4 DEF SavesOK
<1>6. CASE m # w
  <2>1. row'[m] = row[m]
    BY <1>1, <1>2, <1>6 DEF EntityTypeOK
  <2>2. QED BY <1>1, <1>4, <2>1, SavesStay DEF SameSaves, WritesAgree, Written
<1>7. QED BY <1>5, <1>6

LEMMA UpdateMemorySaves ==
  ASSUME SavedInv, NEW u \in Memory, UpdateMemory(u), NEW m \in Memory
  PROVE  SavesOK(m)'
<1>1. /\ EntityTypeOK /\ SavesOK(m) /\ Live(u) /\ UNCHANGED job
      /\ \A j \in Job : JobOK(j)
      /\ row \in [Memory -> Row \cup {None}] /\ past \in [Memory -> Past]
  BY DEF SavedInv, MentionsInv, UpdateMemory, EntityTypeOK
<1>2. PICK text \in Text :
        /\ row' = [row EXCEPT ![u].text = text, ![u].version = @ + 1]
        /\ past' = [past EXCEPT ![u].missed = @ \cup text,
                                ![u].stuck = @ \/ row[u].status = "pending"]
  BY DEF UpdateMemory
<1>3. CASE m = u
  <2>1. row[m] \in Row /\ Written(m)
    BY <1>1, <1>3, WrittenRows DEF Live
  <2>2. row'[m] = [row[m] EXCEPT !.text = text, !.version = @ + 1]
    BY <1>1, <1>2, <1>3
  <2>3. /\ row'[m].state = row[m].state /\ row'[m].version = row[m].version + 1
        /\ row[m].version \in Nat
    BY <2>1, <2>2 DEF Row
  <2>4. past'[m] = [past[m] EXCEPT !.missed = @ \cup text,
                                   !.stuck = @ \/ row[m].status = "pending"]
    BY <1>1, <1>2, <1>3
  <2>5. past'[m].saved = past[m].saved /\ past'[m].undone = past[m].undone
    BY <1>1, <2>4 DEF Past
  <2>6. ASSUME NEW j \in Job, Of(j) = m, job[j].op = "write"
        PROVE  job[j].version # row'[m].version
    <3>1. Active(j)
      BY <2>6 DEF Active
    <3>2. job[j].version \in Nat /\ job[j].version <= row[m].version
      BY <1>1, <2>6, <3>1, ActiveJobs DEF JobOK, Work
    <3>3. QED BY <2>3, <3>2
  <2>7. Written(m)'
    <3>1. row'[m] \in Row
      <4>1. text \in SUBSET Name
        BY ExtractionAssumption
      <4>2. row[m].version + 1 \in Nat
        BY <2>3
      <4>3. QED BY <2>1, <2>2, <4>1, <4>2 DEF Row
    <3>2. QED BY <3>1, NoneIsNoRecord DEF Written
  <2>8. QED BY <1>1, <2>1, <2>3, <2>5, <2>6, <2>7 DEF SavesOK
<1>4. CASE m # u
  <2>1. row'[m] = row[m] /\ past'[m] = past[m]
    BY <1>1, <1>2, <1>4
  <2>2. QED BY <1>1, <2>1, SavesStay DEF SameSaves, WritesAgree, Written
<1>5. QED BY <1>3, <1>4

LEMMA SaveCheckpointSaves ==
  ASSUME SavedInv, NEW c \in Memory, SaveCheckpoint(c), NEW m \in Memory
  PROVE  SavesOK(m)'
<1>1. /\ EntityTypeOK /\ SavesOK(m) /\ Live(c) /\ UNCHANGED job
      /\ row \in [Memory -> Row \cup {None}] /\ past \in [Memory -> Past]
      /\ row' = [row EXCEPT ![c].state = chores + 1, ![c].status = "none"]
  BY DEF SavedInv, MentionsInv, SaveCheckpoint, EntityTypeOK
<1>2. PICK late \in BOOLEAN :
        /\ late = \E j \in Job : Of(j) = c /\ Doing(j, "write")
        /\ past' = [past EXCEPT ![c].saved = chores + 1, ![c].undone = late]
  BY DEF SaveCheckpoint
<1>3. CASE m = c
  <2>1. row[m] \in Row /\ Written(m)
    BY <1>1, <1>3, WrittenRows DEF Live
  <2>2. row'[m] = [row[m] EXCEPT !.state = chores + 1, !.status = "none"]
    BY <1>1, <1>3
  <2>3. row'[m].state = chores + 1
    BY <2>1, <2>2 DEF Row
  <2>4. past'[m] = [past[m] EXCEPT !.saved = chores + 1, !.undone = late]
    BY <1>1, <1>2, <1>3
  <2>5. past'[m].saved = chores + 1 /\ past'[m].undone = late
    BY <1>1, <2>4 DEF Past
  <2>6. \A j \in Job : Of(j) = m /\ job[j].op = "write" => late
    BY <1>2, <1>3 DEF Doing
  <2>7. Written(m)'
    <3>1. row'[m] \in Row
      BY <1>1, <2>1, <2>2, ChoreTypes DEF SaveCheckpoint, Row, Saved, Status
    <3>2. QED BY <3>1, NoneIsNoRecord DEF Written
  <2>8. QED BY <1>1, <2>3, <2>5, <2>6, <2>7 DEF SavesOK
<1>4. CASE m # c
  <2>1. row'[m] = row[m] /\ past'[m] = past[m]
    BY <1>1, <1>2, <1>4
  <2>2. QED BY <1>1, <2>1, SavesStay DEF SameSaves, WritesAgree, Written
<1>5. QED BY <1>3, <1>4

LEMMA NextSaves ==
  ASSUME SavedInv, [Next]_vars
  PROVE  SavedInv'
<1>1. MentionsInv /\ \A m \in Memory : SavesOK(m)
  BY DEF SavedInv
<1>2. SUFFICES ASSUME NEW m \in Memory PROVE SavesOK(m)'
  BY <1>1, NextMentions DEF SavedInv
<1>3. ASSUME NEW k \in Memory, WriteMemory(k) \/ UpdateMemory(k) \/ SaveCheckpoint(k)
      PROVE  SavesOK(m)'
  BY <1>3, WriteMemorySaves, UpdateMemorySaves, SaveCheckpointSaves
<1>4. ASSUME NEW j \in Job, WriteStatus(j)
      PROVE  SavesOK(m)'
  BY <1>4, WriteStatusSaves
<1>5. ASSUME NEW j \in Job,
             \/ Begin(j) \/ Find(j) \/ Create(j) \/ Mention(j) \/ Link(j) \/ Mark(j)
             \/ DropName(j) \/ Raise(j) \/ GiveUp(j)
      PROVE  SavesOK(m)'
  <2>1. SameSaves(m) /\ WritesAgree(m)
    BY <1>1, <1>5, JobSaves
  <2>2. QED BY <1>1, <2>1, SavesStay
<1>6. ASSUME \/ \E k \in Memory : DeleteMemory(k) \/ Backfill(k)
             \/ Crash \/ CommitMerge
             \/ \E s, t \in DOMAIN entity : ReadMerge(s, t)
             \/ \E e \in DOMAIN entity, n \in Name : RenameEntity(e, n)
             \/ UNCHANGED vars
      PROVE  SavesOK(m)'
  <2>1. SameSaves(m) /\ WritesAgree(m)
    BY <1>1, <1>6, OtherSaves
  <2>2. QED BY <1>1, <2>1, SavesStay
<1>7. QED BY <1>3, <1>4, <1>5, <1>6 DEF Next, Step

(* What a workflow saved last is what its checkpoint holds: an extraction that sets its  *)
(* status writes back no older metadata (_update_extraction_status, upsert_checkpoint),  *)
(* but for a save between the two statements of one that sets it.                        *)
THEOREM SavesAlwaysKept == Spec => []SavesAreKept
<1>1. Init => SavedInv
  <2>1. ASSUME Init PROVE \A m \in Memory : SavesOK(m)
    BY <2>1 DEF Init, SavesOK, Written, Idle
  <2>2. QED BY <2>1, InitMentions DEF SavedInv
<1>2. SavedInv /\ [Next]_vars => SavedInv'
  BY NextSaves
<1>3. SavedInv => SavesAreKept
  BY DEF SavedInv, SavesOK, SavesAreKept
<1>4. QED BY <1>1, <1>2, <1>3, PTL DEF Spec

=============================================================================
