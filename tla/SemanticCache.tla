--------------------------- MODULE SemanticCache ---------------------------
(***************************************************************************)
(* The warm state of the V4 compiler: the texts of freak_session, an arena *)
(* per stage of the pipeline, and the query cache that answers from them   *)
(* (freak_driver), with the checkpoints of freak_snapshot that replace     *)
(* arenas and cache under a running session.                               *)
(*                                                                         *)
(* A slot of an arena is [file, parent, subject]: the file it names, the   *)
(* slot of the stage before it was computed from, and what it says, which  *)
(* is <<path, text>> when it is the analysis of that text.  An expansion   *)
(* says what its parse tree says, because it is read through the tree.     *)
(***************************************************************************)
EXTENDS Integers, Sequences, FiniteSetsExt

CONSTANTS Paths, Texts,
          None,           \* no entry, no path
          Depth,          \* how much of the pipeline is modelled
          Requested,      \* the stages that clients ask for
          RollbackFails,  \* TRUE: a roll-back may run out of HIR handles too
          MaxRequests, MaxChanges, MaxSaves, MaxRestores, MaxProbes,
          MaxFailures,    \* bound on HIR resource failures
          MaxRestarts

\* lex, parse, expand, hir, resolve, ty, mir, borrowck
Lex == 1   Parse == 2   Expand == 3   Hir == 4   Resolve == 5   Ty == 6
ASSUME DepthAssumption == Depth \in Ty..8 /\ Requested \subseteq 1..Depth
ASSUME PathsAssumption == IsFiniteSet(Paths)

Stages  == 1..Depth
Source  == 0                  \* the pseudo-stage of the key "source:<path>"
Keys    == (0..Depth) \X Paths
Outputs == Nat \ {0}

Cache == INSTANCE QueryCache WITH Inputs <- Texts
ASSUME NoneAssumption == /\ None \notin Paths \cup (Paths \X Texts)
                         /\ None \notin Cache!Entry

VARIABLES
  sources,  \* file id -> [path, text]; a cleared slot has the path None
  arenas,   \* stage -> sequence of slots
  entries,  \* the query cache, a Cache!Table
  deps,     \* its dependency graph
  saved,    \* the checkpoints taken, as a client keeps them
  lineage,  \* which numbering of lex, parse and resolve slots is live
  matched,  \* the expansions and the HIR live have one provenance
  spent     \* how much of each bound was used

session == <<sources, arenas, entries, deps, lineage, matched>>
vars == <<session, saved, spent>>

Spend(what, bound) == /\ spent[what] < bound
                      /\ spent' = [spent EXCEPT ![what] = @ + 1]
-----------------------------------------------------------------------------
(* Sources: v4_source_find, v4_source_add, v4_source_set_text *)

Cleared == [path |-> None, text |-> None]

\* The file id of path p; 0 if there is none.
FileOf(src, p) == LET ids == {i \in DOMAIN src : src[i].path = p}
                  IN IF ids = {} THEN 0 ELSE Min(ids)

\* Mutant: every text gets a file id of its own.
SetTextAppended(src, p, t) == Append(src, [path |-> p, text |-> t])

\* A new path takes the first cleared slot.
SetText(src, p, t) ==
  LET id   == FileOf(src, IF FileOf(src, p) = 0 THEN None ELSE p)
      file == [path |-> p, text |-> t]
  IN IF id = 0 THEN Append(src, file) ELSE [src EXCEPT ![id] = file]
-----------------------------------------------------------------------------
(* Requests: v4_<stage>_text_cached *)

SubjectOf(stage, id) ==
  LET tree == arenas[Expand][id].parent IN
  IF id \notin DOMAIN arenas[stage] THEN None
  ELSE IF stage # Expand THEN arenas[stage][id].subject
  ELSE IF tree \in DOMAIN arenas[Parse] THEN arenas[Parse][tree].subject ELSE None

\* v4_expand_find_identity.
Identities(file, tree) ==
  {i \in DOMAIN arenas[Expand] : /\ arenas[Expand][i].file = file
                                 /\ arenas[Expand][i].parent = tree}

\* The request asks the cache from stage k down to the first hit and computes
\* the stages above it.  HIR lowering may run out of handles: then it and what
\* depends on it is neither computed nor stored, and the request is refused.
Request(p, t, k) ==
  LET src   == SetText(sources, p, t)
      file  == FileOf(src, p)
      hits  == {j \in 1..k : Cache!Hit(entries, <<<<j, p>>, t>>)}
      h     == IF hits = {} THEN 0 ELSE Max(hits)
      found == IF h = 0 THEN 0 ELSE entries[<<<<h, p>>, t>>].output
      says  == IF h = 0 THEN <<p, t>> ELSE SubjectOf(h, found)
      tree  == IF h = Parse THEN found ELSE Len(arenas[Parse]) + 1
      id(j) == CASE j = h -> found
                 [] j # h /\ j = Expand /\ Identities(file, tree) # {}
                      -> Min(Identities(file, tree))
                 [] OTHER -> Len(arenas[j]) + 1
      slot(j) == [file |-> file, parent |-> id(j - 1), subject |-> says]
  IN /\ spent.requests < MaxRequests
     /\ \E m \in {k} \cup (IF h < Hir /\ Hir <= k THEN {Hir - 1} ELSE {}) :
          /\ m < k => spent.failures < MaxFailures
          /\ spent' = [spent EXCEPT !.requests = @ + 1,
                         !.failures = IF m < k THEN @ + 1 ELSE @]
          /\ arenas' = [j \in Stages |->
               IF j \in (h + 1)..m /\ id(j) > Len(arenas[j])
               THEN Append(arenas[j], slot(j)) ELSE arenas[j]]
          /\ entries' = Cache!Stored(
               Cache!Missed(entries, {<<<<j, p>>, t>> : j \in (h + 1)..k}),
               [x \in {<<<<j, p>>, t>> : j \in (h + 1)..m} |-> id(x[1][1])])
          /\ deps' = deps \cup {<<<<j, p>>, <<j - 1, p>>>> : j \in (h + 1)..m}
     /\ sources' = src
     /\ UNCHANGED <<saved, lineage, matched>>

\* v4_lsp_change_document: the text, and everything computed from its key.
Change(p, t) ==
  /\ Spend("changes", MaxChanges)
  /\ sources' = SetText(sources, p, t)
  /\ entries' = Cache!DependentsDirtied(entries, deps, {<<Source, p>>})
  /\ UNCHANGED <<arenas, deps, saved, lineage, matched>>
-----------------------------------------------------------------------------
(* Checkpoints: freak_snapshot *)

\* v4_unit_snapshot, or the component snapshots taken at one moment.  Who
\* restored expansions or HIR of different provenance must not combine them
\* with queries (README.md of src/compiler/v4, workspace/unitSnapshot).
Save ==
  /\ Len(saved) < MaxSaves /\ matched
  /\ saved' = Append(saved, [sources |-> sources, arenas |-> arenas, deps |-> deps,
                             entries |-> entries, lineage |-> lineage])
  /\ UNCHANGED <<session, spent>>

\* The arenas whose restore forgets what was there; the others overwrite the
\* slots of the checkpoint and keep those behind them.
Replaced == {Expand, Hir, Ty}
Overlay(live, new) == new \o SubSeq(live, Len(new) + 1, Len(live))
WithStages(live, new, stages) ==
  [j \in Stages |-> CASE j \notin stages -> live[j]
                      [] j \in stages \cap Replaced -> new[j]
                      [] OTHER -> Overlay(live[j], new[j])]

\* Every source slot is cleared before those of the checkpoint are written.
SourcesFrom(src, new) ==
  [i \in 1..Max({Len(src), Len(new)}) |-> IF i <= Len(new) THEN new[i] ELSE Cleared]

\* Mutant: only the stage that was restored is dirty, not what depends on it.
RepublishedAlone(parts) == Cache!Dirtied(entries, {k \in Keys : k[1] \in parts})

\* v4_expand_snapshot_restore_with_queries and v4_hir_snapshot_restore_with_-
\* queries: what was cached from an arena is dirty before its slots are reused.
Republished(parts) ==
  LET roots == {k \in Keys : k[1] \in parts
                             /\ \E t \in Texts : entries[<<k, t>>] # None}
  IN Cache!DependentsDirtied(Cache!Dirtied(entries, roots), deps, roots)

RestoreComponents(i, parts) ==
  /\ Spend("restores", MaxRestores)
  /\ arenas' = WithStages(arenas, saved[i].arenas, parts)
  /\ entries' = Republished(parts)
  /\ matched' = (parts = {Expand, Hir} /\ saved[i].lineage = lineage)
  /\ UNCHANGED <<sources, deps, saved, lineage>>

\* Mutant: the slot a slot was computed from is not compared with the entry.
LinkedByFile(table, ars, stage, p, t, file) ==
  \A j \in 1..stage :
    LET e == table[<<<<j, p>>, t>>] IN
    e # None /\ e.output \in DOMAIN ars[j] /\ ars[j][e.output].file = file

\* v4_driver_restored_<stage>_matches: from the slot down to its stream, every
\* slot exists, names the file, and was computed from the slot that the entry
\* of the stage before it names, in whatever state that entry is.
Linked(table, ars, stage, p, t, file) ==
  \A j \in 1..stage :
    LET e == table[<<<<j, p>>, t>>] IN
    /\ e # None
    /\ e.output \in DOMAIN ars[j]
    /\ ars[j][e.output].file = file
    /\ j > Lex /\ table[<<<<j - 1, p>>, t>>] # None =>
         ars[j][e.output].parent = table[<<<<j - 1, p>>, t>>].output

\* v4_driver_query_entry_can_promote, for the entries of the path's document.
Promotable(table, ars, src, paths) ==
  {x \in Cache!Slots :
     \E p \in paths, j \in Stages :
       /\ x[1] = <<j, p>> /\ FileOf(src, p) # 0
       /\ src[FileOf(src, p)].text = x[2]
       /\ Linked(table, ars, j, p, x[2], FileOf(src, p))}

\* v4_query_snapshot_restore alone, over arenas of the same numbering.
RestoreQueries(i) ==
  /\ Spend("restores", MaxRestores)
  /\ matched /\ saved[i].lineage = lineage
  /\ entries' = Cache!Restored(saved[i].entries)
  /\ deps' = saved[i].deps
  /\ UNCHANGED <<sources, arenas, saved, lineage, matched>>

\* v4_driver_confirm_restored_document_text.
Confirm(p, t) ==
  /\ Spend("changes", MaxChanges)
  /\ matched
  /\ sources' = SetText(sources, p, t)
  /\ entries' = Cache!Confirmed(entries,
                  Promotable(entries, arenas, SetText(sources, p, t), {p}))
  /\ UNCHANGED <<arenas, deps, saved, lineage, matched>>

\* Mutant: only the first document is confirmed.
PathsOfFirst(src) == {src[i].path : i \in DOMAIN src \cap {1}} \ {None}

PathsOf(src) == {src[i].path : i \in DOMAIN src} \ {None}

\* Mutant: nothing is confirmed.
InstalledUnconfirmed(c, live) ==
  /\ arenas' = WithStages(live, c.arenas, Stages)
  /\ entries' = Cache!Restored(c.entries) /\ deps' = c.deps

\* What v4_unit_snapshot_restore_prevalidated leaves of a checkpoint c that is
\* installed over the arenas live: its queries, confirmed for its sources.
Installed(c, live) ==
  LET all == WithStages(live, c.arenas, Stages) IN
  /\ arenas' = all
  /\ entries' = Cache!Confirmed(Cache!Restored(c.entries),
                  Promotable(Cache!Restored(c.entries), all, c.sources,
                             PathsOf(c.sources)))
  /\ deps' = c.deps

\* v4_unit_snapshot_restore succeeds.
UnitRestore(i) ==
  /\ Spend("restores", MaxRestores)
  /\ sources' = SourcesFrom(sources, saved[i].sources)
  /\ Installed(saved[i], arenas)
  /\ lineage' = IF saved[i].lineage = lineage THEN lineage ELSE lineage + 1
  /\ matched' = TRUE
  /\ UNCHANGED saved

\* Mutant: the live slots are not written back.
TrailingForeign(new, stages) ==
  [j \in Stages |-> IF j \in stages \ Replaced THEN Overlay(arenas[j], new[j])
                    ELSE arenas[j]]

\* The slots a foreign checkpoint leaves behind those of the live arenas, when
\* the live ones were written back over it.
Trailing(new, stages) ==
  [j \in Stages |-> IF j \in stages \ Replaced
                    THEN Overlay(Overlay(arenas[j], new[j]), arenas[j])
                    ELSE arenas[j]]

\* HIR cannot be restored.  The checkpoint of the moment before is installed
\* again; if that fails at the same place, the queries are as they were.
UnitRestoreFails(i) ==
  /\ spent.restores < MaxRestores /\ spent.failures < MaxFailures /\ matched
  /\ spent' = [spent EXCEPT !.restores = @ + 1, !.failures = @ + 1]
  /\ sources' = SourcesFrom(saved[i].sources, sources)
  /\ LET live == Trailing(saved[i].arenas, {Lex, Parse}) IN
     \/ Installed([arenas |-> arenas, entries |-> entries, deps |-> deps,
                   sources |-> sources], live)
     \/ RollbackFails /\ arenas' = live /\ UNCHANGED <<entries, deps>>
  /\ UNCHANGED <<saved, lineage, matched>>

\* v4_unit_snapshot_ty_context_matches: validation installs sources and parent
\* arenas of the checkpoint to check its types, and writes the live ones back.
Validate(i) ==
  LET new == saved[i].arenas IN
  /\ spent.probes < MaxProbes
  /\ sources' = SourcesFrom(saved[i].sources, sources)
  /\ \E failures \in 0..1 :
       /\ spent.failures + failures <= MaxFailures
       /\ spent' = [spent EXCEPT !.probes = @ + 1, !.failures = @ + failures]
       /\ \/ failures = 0 /\ arenas' = Trailing(new, {Lex, Parse, Resolve})
          \/ failures = 1 /\ arenas' = Trailing(new, {Lex, Parse})
          \/ /\ failures = 1 /\ RollbackFails   \* at HIR, after all was installed
             /\ arenas' = [Trailing(new, {Lex, Parse}) EXCEPT
                  ![Hir] = new[Hir], ![Resolve] = Overlay(@, new[Resolve])]
  /\ UNCHANGED <<entries, deps, saved, lineage, matched>>

\* The process ends; a client still has the checkpoints it asked for.
Restart ==
  /\ Spend("restarts", MaxRestarts)
  /\ sources' = <<>> /\ arenas' = [j \in Stages |-> <<>>]
  /\ entries' = Cache!Cold /\ deps' = {}
  /\ lineage' = lineage + 1 /\ matched' = TRUE
  /\ UNCHANGED saved
-----------------------------------------------------------------------------
Init ==
  /\ sources = <<>> /\ arenas = [j \in Stages |-> <<>>]
  /\ entries = Cache!Cold /\ deps = {}
  /\ saved = <<>> /\ lineage = 1 /\ matched = TRUE
  /\ spent = [requests |-> 0, changes |-> 0, restores |-> 0, probes |-> 0,
              failures |-> 0, restarts |-> 0]

Work == \E p \in Paths, t \in Texts : \/ \E k \in Requested : Request(p, t, k)
                                     \/ Change(p, t)
                                     \/ Confirm(p, t)
Recall == \E i \in DOMAIN saved :
            \/ RestoreComponents(i, {Expand}) \/ RestoreComponents(i, {Hir})
            \/ RestoreComponents(i, {Expand, Hir})
            \/ RestoreQueries(i) \/ UnitRestore(i) \/ UnitRestoreFails(i)
            \/ Validate(i)

Next == Work \/ Save \/ Recall \/ Restart
Spec == Init /\ [][Next]_vars
-----------------------------------------------------------------------------
(* Properties *)

Slot == [file : Nat, parent : Nat, subject : (Paths \X Texts) \cup {None}]

\* Every variable keeps its type, a path has one file id, and a dependency
\* only leads from a stage to the one before it.
TypeOK ==
  /\ \A i \in DOMAIN sources : \/ sources[i] = Cleared
                               \/ /\ sources[i] \in [path : Paths, text : Texts]
                                  /\ FileOf(sources, sources[i].path) = i
  /\ DOMAIN arenas = Stages
  /\ \A j \in Stages : \A i \in DOMAIN arenas[j] : arenas[j][i] \in Slot
  /\ DOMAIN entries = Cache!Slots
  /\ \A x \in Cache!Slots : entries[x] \in Cache!Entry \cup {None}
  /\ \A d \in deps : d[1][2] = d[2][2] /\ d[1][1] = d[2][1] + 1
  /\ lineage \in Nat /\ matched \in BOOLEAN

\* Slot id of a stage, the slot it was computed from, and so on down to the
\* stream, all exist and say what x names.
Traced(x, stage, id) ==
  LET sound[j \in 0..Depth] ==
        [i \in Nat |-> \/ j = Source
                       \/ /\ SubjectOf(j, i) = x
                          /\ sound[j - 1][arenas[j][i].parent]]
  IN sound[stage][id]

\* A cached answer is the analysis of the text it is asked for, and what the
\* compiler finds by following it back through the stages is too: however often
\* arenas were replaced, slots reused and entries restored and confirmed.
ValidIsFaithful ==
  \A p \in Paths, t \in Texts, j \in Stages :
    LET x == <<<<j, p>>, t>> IN
    Cache!Hit(entries, x) =>
      /\ Traced(<<p, t>>, j, entries[x].output)
      /\ arenas[j][entries[x].output].file = FileOf(sources, p)

\* didChange leaves no valid answer about the document, at whatever stage and
\* for whatever text, also when a restore replaced the dependency graph.
ChangeReachesEveryStage ==
  [][\A p \in Paths : (\E t \in Texts : Change(p, t)) =>
       \A j \in Stages, t \in Texts : ~Cache!Hit(entries', <<<<j, p>>, t>>)]_vars

\* What was answered from the cache for a current text, by an entry that was
\* linked to those below it, is so afterwards.
StillAnswered(before, ars, src) ==
  \A i \in DOMAIN src, j \in Stages :
    src[i] # Cleared =>
      LET x == <<<<j, src[i].path>>, src[i].text>> IN
      Cache!Hit(before, x) /\ Linked(before, ars, j, src[i].path, src[i].text, i)
        => Cache!Hit(entries', x)

\* A restored checkpoint is warm: for the texts it was taken with, it answers
\* all it answered then, in this process or in another one, but what had come
\* apart from the entries below it.
RestoreIsWarm ==
  [][\A i \in DOMAIN saved : UnitRestore(i) =>
       StillAnswered(saved[i].entries, saved[i].arenas, saved[i].sources)]_vars

\* A refused restore loses nothing else either: the session answers all that is
\* linked for its current texts, whether or not the roll-back succeeded.
RefusalIsHarmless ==
  [][\A i \in DOMAIN saved :
       UnitRestoreFails(i) => StillAnswered(entries, arenas, sources)]_vars

\* Validation writes every live slot back before it returns.
ValidationIsPure ==
  [][\A i \in DOMAIN saved : Validate(i) =>
       \A j \in Stages : \A slot \in DOMAIN arenas[j] :
         slot \in DOMAIN arenas'[j] /\ arenas'[j][slot] = arenas[j][slot]]_vars
=============================================================================
