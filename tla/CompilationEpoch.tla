---------------------------- MODULE CompilationEpoch ----------------------------
(***************************************************************************)
(* The order of search results (memoryhub_core.services.compilation and    *)
(* the search_memory tool).  A compilation epoch in Valkey freezes the     *)
(* order of the memories it names, so that an agent's searches begin       *)
(* alike; memories it does not name follow in an appendix, until the       *)
(* appendix is large enough for a new epoch.                               *)
(*                                                                         *)
(* A search queries the database, reads the epoch to add the memories that *)
(* it names and the query did not return, reads it again to order them,    *)
(* and may write a new one: four calls, between which other searches of    *)
(* the same owner, with other filters, come in.  Any call to Valkey can    *)
(* fail, and the epoch expires when nobody reads it.                       *)
(***************************************************************************)
EXTENDS Integers, Sequences, SequencesExt, FiniteSets, Valkey

CONSTANTS
  Search,       \* the requests in progress
  MaxMemories,  \* bound: the memories that are ever written, in the order of created_at
  MaxDeleted,   \* bound: and of those that go again
  Weight,       \* the weight of each
  Filters,      \* what the scopes, projects and types that searches ask for select
  MaxResults,   \* the values of max_results
  MinAppendix   \* should_recompile: 5

ASSUME EpochAssumption ==
  /\ MaxMemories \in Nat
  /\ Weight \in [1..MaxMemories -> Int]
  /\ MaxResults \subseteq Nat

VARIABLES
  written,  \* how many memories there are
  deleted,  \* the memories that are not current any more, or were deleted
  epoch,    \* ordered_ids at memoryhub:compilation:{tenant}:{owner}, or None; its number
            \* and its hash say no more
  search,   \* the state of each request
  cached    \* an earlier answer that an agent still has in its prompt, or None

epochVars == <<written, deleted, epoch, search, cached>>
memories == <<written, deleted>>

------------------------------------------------------------------------------
(* Types *)

Memory == 1..MaxMemories
Order == {ids \in UNION {[1..n -> Memory] : n \in 1..MaxMemories} :
            \A i, j \in DOMAIN ids : ids[i] = ids[j] => i = j}

NoRequest == [op |-> "idle"]

\* found is what the query returned, and what was added to it since.  For the properties:
\* gone is what was deleted already when the request came, and fresh whether the epoch is
\* still the one that was looked at.
Request ==
  [op : {"peek", "load", "order", "write"}, filter : Filters, max : MaxResults,
   found : SUBSET Memory, missing : SUBSET Memory, fresh : BOOLEAN, gone : SUBSET Memory]

------------------------------------------------------------------------------
(* compilation.py *)

ByCreation(m, n) == m < n
\* _canonical_sort_key: the weight, descending, then created_at.
Canonical(m, n) == Weight[m] > Weight[n] \/ (Weight[m] = Weight[n] /\ m < n)

\* sorted: the members of S in the order of before, which is total.
Sorted(S, before(_, _)) ==
  CHOOSE list \in [1..Cardinality(S) -> S] :
    \A i, j \in 1..Cardinality(S) : i < j => before(list[i], list[j])

\* apply_compilation
InEpoch(ids, found) ==
  LET kept[n \in 0..Len(ids)] ==
        IF n = 0 THEN <<>>
        ELSE IF ids[n] \in found THEN Append(kept[n - 1], ids[n]) ELSE kept[n - 1]
  IN kept[Len(ids)]
Appendix(ids, found) == Sorted(found \ ToSet(ids), ByCreation)

\* should_recompile; the ratio counts only while the epoch is small.
ShouldRecompile(compiled, appendix) ==
  \/ compiled = 0
  \/ appendix >= MinAppendix
  \/ /\ compiled < MinAppendix
     /\ 10 * appendix > 3 * compiled

------------------------------------------------------------------------------
(* The memories *)

Live == (1..written) \ deleted

WriteMemory ==
  /\ written < MaxMemories
  /\ written' = written + 1
  /\ UNCHANGED <<deleted, epoch, search, cached>>

DeleteMemory(m) ==
  /\ m \in Live
  /\ Cardinality(deleted) < MaxDeleted
  /\ deleted' = deleted \cup {m}
  /\ UNCHANGED <<written, epoch, search, cached>>

------------------------------------------------------------------------------
(* search_memory *)

AtStage(s, op) == search[s].op = op
Become(s, r) == search' = [search EXCEPT ![s] = r]

\* search_memories: at most max_results, whichever the query is closest to.
Query(s) ==
  /\ AtStage(s, "idle")
  /\ \E filter \in Filters, max \in MaxResults :
       \E found \in SUBSET (Live \cap filter) :
         /\ found # {} /\ Cardinality(found) <= max
         /\ Become(s, [op |-> "peek", filter |-> filter, max |-> max,
                       found |-> found, missing |-> {}, fresh |-> FALSE,
                       gone |-> deleted])
  /\ UNCHANGED <<memories, epoch, cached>>

\* _backfill_compiled_entries: what the epoch names and the query did not return.
MissingNone(found) == {}
Missing(found) == ToSet(epoch) \ found

Peek(s) ==
  /\ AtStage(s, "peek")
  /\ Become(s, IF epoch = None
               THEN [search[s] EXCEPT !.op = "order"]
               ELSE [search[s] EXCEPT !.op = "load", !.fresh = TRUE,
                                      !.missing = Missing(search[s].found)])
  /\ UNCHANGED <<memories, epoch, cached>>

\* Only what the filters of the search select, and what is there.
LoadableOnceCompiled(filter) == filter
Loadable(filter) == Live \cap filter

Load(s) ==
  LET r == search[s]
  IN /\ AtStage(s, "load")
     /\ Become(s, [r EXCEPT !.op = "order", !.missing = {},
                            !.found = @ \cup (r.missing \cap Loadable(r.filter))])
     /\ UNCHANGED <<memories, epoch, cached>>

\* An answer names the hash of ids, and is cut to max_results.
Answer(s, ids, list) ==
  LET max == search[s].max
  IN [ids |-> ids, list |-> SubSeq(list, 1, IF Len(list) <= max THEN Len(list) ELSE max)]

\* An agent may keep an answer of more than one memory.
Keep(answer) ==
  cached' \in IF cached = None /\ Len(answer.list) > 1 THEN {None, answer} ELSE {cached}

\* _apply_cache_optimized_ordering, while the epoch holds: first what it names, in its
\* order, then the appendix.
Served(s) ==
  Answer(s, epoch, InEpoch(epoch, search[s].found) \o Appendix(epoch, search[s].found))

ServeCompiled(s) ==
  LET found == search[s].found
  IN /\ AtStage(s, "order")
     /\ epoch # None
     /\ ~ShouldRecompile(Len(InEpoch(epoch, found)), Len(Appendix(epoch, found)))
     /\ Keep(Served(s))
     /\ Become(s, NoRequest)
     /\ UNCHANGED <<memories, epoch>>

\* The next epoch has what this search found, whatever its filters were.
Recompile(s) ==
  LET found == search[s].found
  IN /\ AtStage(s, "order")
     /\ epoch # None
     /\ ShouldRecompile(Len(InEpoch(epoch, found)), Len(Appendix(epoch, found)))
     /\ Become(s, [search[s] EXCEPT !.op = "write"])
     /\ UNCHANGED <<memories, epoch, cached>>

\* There is no epoch, or reading it fails.
FirstCompile(s) ==
  /\ AtStage(s, "order")
  /\ Become(s, [search[s] EXCEPT !.op = "write"])
  /\ UNCHANGED <<memories, epoch, cached>>

\* compile_memory_set: an epoch replaces the one before, hset over a deleted key.
NewEpoch(s) == Sorted(search[s].found, Canonical)

\* The hash in the answer is that of the new epoch.
HashOfOld(s) == IF epoch = None THEN NewEpoch(s) ELSE epoch
Hash(s) == NewEpoch(s)

Outdated ==
  [s \in Search |-> IF search[s] = NoRequest THEN NoRequest ELSE [search[s] EXCEPT !.fresh = FALSE]]

Written(s) == Answer(s, Hash(s), NewEpoch(s))

\* write_compilation, which may fail; the answer is the same.
Write(s) ==
  /\ AtStage(s, "write")
  /\ epoch' \in {NewEpoch(s), epoch}
  /\ Keep(Written(s))
  /\ search' = IF epoch' = epoch THEN [search EXCEPT ![s] = NoRequest]
               ELSE [Outdated EXCEPT ![s] = NoRequest]
  /\ UNCHANGED memories

\* Valkey cannot be reached: nothing is added to what the query returned.
FailPeek(s) ==
  /\ AtStage(s, "peek")
  /\ Become(s, [search[s] EXCEPT !.op = "order"])
  /\ UNCHANGED <<memories, epoch, cached>>

\* delete_compilation, or no search for compilation_ttl_seconds.
Expire ==
  /\ epoch # None
  /\ epoch' = None
  /\ search' = Outdated
  /\ UNCHANGED <<memories, cached>>

------------------------------------------------------------------------------

EpochInit ==
  /\ written = 0 /\ deleted = {}
  /\ epoch = None
  /\ search = [s \in Search |-> NoRequest]
  /\ cached = None

EpochNext ==
  \/ WriteMemory
  \/ \E m \in Memory : DeleteMemory(m)
  \/ \E s \in Search :
       \/ Query(s) \/ Peek(s) \/ FailPeek(s) \/ Load(s)
       \/ ServeCompiled(s) \/ Recompile(s) \/ FirstCompile(s) \/ Write(s)
  \/ Expire

EpochSpec == EpochInit /\ [][EpochNext]_epochVars

------------------------------------------------------------------------------

EpochTypeOK ==
  /\ written \in 0..MaxMemories
  /\ deleted \subseteq 1..written
  /\ epoch = None \/ epoch \in Order
  /\ cached = None \/ {cached.ids, cached.list} \subseteq Order
  /\ \A s \in Search : search[s] = NoRequest \/ search[s] \in Request

\* Two answers that name the same hash never disagree on which of two memories comes first,
\* whatever was written, deleted, recompiled or lost in between: this is what a cached
\* prompt prefix relies on.
Agree(a, b) ==
  a.ids = b.ids =>
    \A i, j \in DOMAIN a.list, k, l \in DOMAIN b.list :
      i < j /\ a.list[i] = b.list[k] /\ a.list[j] = b.list[l] => k < l

OrderIsStable ==
  [][\A s \in Search :
       /\ ServeCompiled(s) /\ cached # None => Agree(cached, Served(s))
       /\ Write(s) /\ cached # None => Agree(cached, Written(s))]_epochVars

\* An answer holds nothing that had been deleted when its search began, and nothing that
\* its filters leave out, even where the epoch still names it.
NothingStaleIsServed ==
  \A s \in Search :
    search[s].op \in {"order", "write"} =>
      search[s].found \subseteq search[s].filter \ search[s].gone

\* A recompilation keeps what the epoch had for this search, unless another search has
\* replaced the epoch since this one looked: the compiled entries are never displaced by
\* entries that a query happens to be closer to.
CompiledEntriesAreKept ==
  [][\A s \in Search :
       Write(s) /\ epoch # None /\ epoch' # epoch /\ search[s].fresh =>
         ToSet(epoch) \cap search[s].filter \cap Live \subseteq ToSet(epoch')]_epochVars
=============================================================================
