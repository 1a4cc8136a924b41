---------------------------- MODULE EmbeddingStore ----------------------------
(***************************************************************************)
(* The embedding store of the knowledge index, and with it the whole index *)
(* of one root.  After a refresh the worker warms the store: it embeds the *)
(* texts that have no vector yet and saves, by appending to the vector     *)
(* file or by a new generation of vector file and graph (HNSW).  A search  *)
(* loads the store's document and then scans graph and vector file.        *)
(*                                                                         *)
(* Each file is one chunk.  A vector is known by its text and its model.   *)
(* A crash is a restart of all services; no saved byte is lost in it.      *)
(***************************************************************************)
EXTENDS KnowledgeIndexFiles

CONSTANTS
    Models, Dim,            \* embedding models and the dimensions of their vectors
    CompactionPercent,      \* EMBEDDING_COMPACTION_PERCENT
    MaxSwitches

ASSUME ModelsAssumption ==
    Dim \in [Models -> Nat \ {0}] /\ {CompactionPercent, MaxSwitches} \subseteq Nat

VARIABLES
    model,      \* the model that serves embeddings now
    switches,
    edoc,       \* the store's document, or None
    vectors,    \* the vector file of each generation: its rows, or None
    graph,      \* the graph file of each generation: its rows, or None
    warm        \* the warmup: store in memory, flags, chunk at which it is

storeVars == <<edoc, vectors, graph>>
vars == <<sourceVars, indexVars, refreshes, pc, ref, sAt, srch, faults, model, switches,
          storeVars, warm>>

NoStore == [model |-> None, dim |-> None, vec |-> None, graph |-> None, base |-> None,
            entries |-> << >>]
NoWarm == [store |-> NoStore, inc |-> FALSE, dirty |-> FALSE, degraded |-> FALSE,
           late |-> FALSE, at |-> 1, replaced |-> None, before |-> <<None, None>>]

Entry(f, t, row) == [file |-> f, text |-> t, dead |-> FALSE, row |-> row]
Row(t, m) == [text |-> t, model |-> m]
Live(es) == {i \in DOMAIN es : ~es[i].dead}
LiveEntries(es) == SelectSeq(es, LAMBDA e : ~e.dead)
Rows(es) == [i \in DOMAIN es |-> es[i].row]
Compact(es) == [i \in DOMAIN es |-> [es[i] EXCEPT !.row = None]]
Cleared(s) == [s EXCEPT !.entries = << >>, !.base = None]
SmallerOf(a, b) == IF a < b THEN a ELSE b

Loaded(d) == IF d = None THEN NoStore ELSE d

\* validate_embedding_vector_bytes: the vector file has a row for each entry, and no more.
Readable(s) == s.vec # None /\ vectors[s.vec] # None /\ Len(vectors[s.vec]) = Len(s.entries)

\* load_embedding_store_with_vectors
WithVectors(s) ==
    [s EXCEPT !.entries = [i \in DOMAIN @ |-> [@[i] EXCEPT !.row = vectors[s.vec][i]]]]

\* A store of the first file, which may stem from before there were graphs.
Built == [NoStore EXCEPT !.model = model, !.dim = Dim[model], !.vec = 0, !.graph = 0, !.base = 1,
                         !.entries = <<Entry(1, text[1], None)>>]
Legacy == [Built EXCEPT !.graph = None, !.base = None]
First(rows) == [g \in 0 .. MaxRefreshes |-> IF g = 0 THEN rows ELSE None]

Init ==
    /\ IndexInit /\ warm = NoWarm /\ switches = 0
    /\ model = CHOOSE m \in Models : TRUE
    /\ edoc \in {None, Legacy, Built}
    /\ vectors = First(IF edoc = None THEN None ELSE <<Row(text[1], model)>>)
    /\ graph = First(IF edoc = Built THEN <<Row(text[1], model)>> ELSE None)

-----------------------------------------------------------------------------
(* warm_embedding_cache_inner *)

Same == UNCHANGED <<sourceVars, indexVars, refreshes, ref, sAt, srch, model, switches>>
Wanted(f) == ref.entries[f] # None /\ ref.entries[f].text # None
WantedFiles == {f \in Files : Wanted(f)}

\* The store is loaded, with its vectors if they cannot be appended to; an empty store
\* takes the identity of the model that serves now.
WarmupLoads ==
    LET s == Loaded(edoc)
        noGraph == s.entries # << >> /\ (s.graph = None \/ graph[s.graph] = None)
        inc == s.entries # << >> /\ s.vec # None /\ vectors[s.vec] # None /\ ~noGraph
        unread == s.entries # << >> /\ ~inc /\ ~Readable(s)
        t == IF inc \/ s.entries = << >> THEN s
             ELSE IF unread THEN [Cleared(s) EXCEPT !.dim = None] ELSE WithVectors(s)
        new == t.entries = << >> /\ t.model # model
    IN /\ pc = "warm" /\ pc' = "probe"
       /\ warm' = [NoWarm EXCEPT !.store = IF new THEN [t EXCEPT !.model = model] ELSE t,
                                 !.inc = inc, !.dirty = noGraph \/ new, !.degraded = unread]
       /\ UNCHANGED <<storeVars, faults>> /\ Same

\* A store with entries is compared with the model that answers a probe, if one does.
Probe ==
    LET s == warm.store
        match == s.model = model /\ s.dim = Dim[model]
        t == IF match THEN s ELSE Cleared(s)
    IN /\ pc = "probe" /\ pc' = "chunk"
       /\ \/ UNCHANGED warm
          \/ /\ s.entries # << >> /\ WantedFiles # {}
             /\ warm' = [warm EXCEPT !.store = [t EXCEPT !.model = model, !.dim = Dim[model]],
                                     !.inc = @ /\ match, !.dirty = @ \/ ~match]
       /\ UNCHANGED <<storeVars, faults>> /\ Same

\* The entry of a chunk: in incremental mode the old one stays, superseded.
Put(s, f, e, inc) ==
    LET old == {i \in Live(s.entries) : s.entries[i].file = f}
        marked == [i \in DOMAIN s.entries |->
                      IF i \in old THEN [s.entries[i] EXCEPT !.dead = TRUE] ELSE s.entries[i]]
    IN IF old = {} THEN [s EXCEPT !.entries = Append(@, e)]
       ELSE IF inc THEN [s EXCEPT !.entries = Append(marked, e)]
       ELSE [s EXCEPT !.entries = [i \in DOMAIN @ |-> IF i \in old THEN e ELSE @[i]]]

Has(s, f, t) ==
    \E i \in Live(s.entries) : /\ s.entries[i].file = f /\ s.entries[i].text = t
                               /\ warm.inc \/ s.entries[i].row # None

\* One chunk: kept, embedded by the model that serves now, or failed.
Chunk ==
    LET f == warm.at
        t == ref.entries[f].text
        s == warm.store
        other == s.dim # None /\ s.dim # Dim[model]
        u == IF other THEN Cleared(s) ELSE s
        inc == warm.inc /\ ~other
        next == [warm EXCEPT !.at = @ + 1]
    IN /\ pc = "chunk" /\ UNCHANGED pc /\ f \in Files
       /\ \/ ~Wanted(f) /\ warm' = next
          \/ Wanted(f) /\ Has(s, f, t) /\ warm' = next
          \/ Wanted(f) /\ ~Has(s, f, t) /\ warm' = [next EXCEPT !.degraded = TRUE]
          \/ /\ Wanted(f) /\ ~Has(s, f, t)
             /\ warm' = [next EXCEPT
                   !.store = Put([u EXCEPT !.model = model, !.dim = Dim[model]], f,
                                 Entry(f, t, Row(t, model)), inc),
                   !.inc = inc, !.dirty = TRUE, !.late = @ \/ (other /\ s.entries # << >>)]
       /\ UNCHANGED <<storeVars, faults>> /\ Same

\* The deadline ends the warmup without a save.
Expires ==
    /\ pc \in {"probe", "chunk"} /\ pc' = "done"
    /\ warm' = [warm EXCEPT !.degraded = TRUE]
    /\ UNCHANGED <<storeVars, faults>> /\ Same

\* What is not wanted is marked or left out, and the store saved if it changed.
Settles ==
    LET s == warm.store
        gone == {i \in Live(s.entries) : s.entries[i].file \notin WantedFiles}
        kept == IF warm.inc
                THEN [i \in DOMAIN s.entries |->
                         IF i \in gone THEN [s.entries[i] EXCEPT !.dead = TRUE] ELSE s.entries[i]]
                ELSE SelectSeq(s.entries, LAMBDA e : ~e.dead /\ e.file \in WantedFiles)
        dirty == warm.dirty \/ kept # s.entries
    IN /\ pc = "chunk" /\ warm.at \notin Files
       /\ warm' = [warm EXCEPT !.store.entries = kept, !.dirty = dirty]
       /\ pc' = IF ~dirty THEN "done" ELSE IF warm.inc THEN "truncate" ELSE "vectors"
       /\ UNCHANGED <<storeVars, faults>> /\ Same

-----------------------------------------------------------------------------
(* save_embedding_store_incremental *)

Committed(es) == Cardinality({i \in DOMAIN es : es[i].row = None})
Appended(es) == Rows(SubSeq(es, Committed(es) + 1, Len(es)))

SaveFails == Fault /\ pc' = "done" /\ warm' = [warm EXCEPT !.degraded = TRUE]

\* Mutant: what a crashed save left in the file is not cut off.
TruncatesNothing ==
    /\ pc = "truncate" /\ pc' = "append" /\ UNCHANGED <<warm, storeVars, faults>> /\ Same

\* The rows beyond the committed ones, left by a save that did not end, are cut off ...
Truncates ==
    LET s == warm.store IN
    /\ pc = "truncate"
    /\ \/ /\ vectors' = [vectors EXCEPT ![s.vec] = SubSeq(@, 1, Committed(s.entries))]
          /\ pc' = "append" /\ UNCHANGED <<warm, faults>>
       \/ SaveFails /\ UNCHANGED vectors
    /\ UNCHANGED <<edoc, graph>> /\ Same

\* ... the new ones appended and synced, all or some of them ...
Appends ==
    LET s == warm.store  new == Appended(s.entries) IN
    /\ pc = "append"
    /\ \/ /\ vectors' = [vectors EXCEPT ![s.vec] = @ \o new] /\ pc' = "estage"
          /\ warm' = [warm EXCEPT !.store.base = SmallerOf(@, Committed(s.entries))]
          /\ UNCHANGED faults
       \/ /\ \E n \in 0 .. Len(new) : vectors' = [vectors EXCEPT ![s.vec] = @ \o SubSeq(new, 1, n)]
          /\ SaveFails
    /\ UNCHANGED <<edoc, graph>> /\ Same

\* ... and the document replaced, as save_embedding_store_owned does too.
StagesDocument ==
    /\ pc \in {"estage", "cstage"}
    /\ \/ edoc' = None /\ warm' = [warm EXCEPT !.replaced = edoc] /\ UNCHANGED faults
          /\ pc' = IF pc = "estage" THEN "epublish" ELSE "cpublish"
       \/ SaveFails /\ UNCHANGED edoc
    /\ UNCHANGED <<vectors, graph>> /\ Same

\* embedding_store_needs_compaction, without the absolute limits
NeedsCompaction(s) ==
    LET delta == Len(s.entries) - s.base
        active == Cardinality(Live(s.entries))
        dead == Len(s.entries) - active
        share == (IF active = 0 THEN 1 ELSE active) * CompactionPercent
    IN delta * 100 >= share \/ dead * 100 >= share

Publish(next) ==
    /\ \/ /\ edoc' = [warm.store EXCEPT !.entries = Compact(@)]
          /\ warm' = [warm EXCEPT !.replaced = None, !.store.entries = Compact(@)]
          /\ pc' = next /\ UNCHANGED faults
       \/ /\ Fault /\ edoc' = warm.replaced /\ pc' = "done"
          /\ warm' = [warm EXCEPT !.degraded = TRUE, !.replaced = None]
    /\ UNCHANGED <<vectors, graph>> /\ Same

PublishesDocument ==
    \/ pc = "epublish" /\ Publish(IF NeedsCompaction(warm.store) THEN "compact" ELSE "done")
    \/ pc = "cpublish" /\ Publish("remove")

-----------------------------------------------------------------------------
(* compact_embedding_store and save_embedding_store_owned *)

\* Mutant: superseded entries are left out before the rows are read.
CompactsFirst ==
    /\ pc = "compact"
    /\ \/ /\ Readable(edoc) /\ pc' = "vectors" /\ UNCHANGED faults
          /\ warm' = [warm EXCEPT !.store =
                WithVectors([edoc EXCEPT !.entries = LiveEntries(@), !.base = None])]
       \/ SaveFails
    /\ UNCHANGED storeVars /\ Same

\* The store is loaded again; what cannot be read whole is not compacted.
Compacts ==
    /\ pc = "compact"
    /\ \/ /\ Readable(edoc) /\ pc' = "vectors" /\ UNCHANGED faults
          /\ warm' = [warm EXCEPT !.store =
                [WithVectors(edoc) EXCEPT !.entries = LiveEntries(@), !.base = None]]
       \/ SaveFails
    /\ UNCHANGED storeVars /\ Same

\* A new generation of the vector file, if there are vectors ...
SavesVectors ==
    LET es == warm.store.entries IN
    /\ pc = "vectors"
    /\ \/ es = << >> /\ pc' = "graph" /\ UNCHANGED <<vectors, warm, faults>>
       \/ /\ es # << >> /\ vectors' = [vectors EXCEPT ![refreshes] = Rows(es)]
          /\ pc' = "graph" /\ UNCHANGED <<warm, faults>>
       \/ es # << >> /\ SaveFails /\ UNCHANGED vectors
    /\ UNCHANGED <<edoc, graph>> /\ Same

\* ... and of the graph.
SavesGraph ==
    LET es == warm.store.entries
        g == IF es = << >> THEN None ELSE refreshes IN
    /\ pc = "graph"
    /\ \/ /\ graph' = IF es = << >> THEN graph ELSE [graph EXCEPT ![refreshes] = Rows(es)]
          /\ warm' = [warm EXCEPT !.store.vec = g, !.store.graph = g,
                                  !.before = <<warm.store.vec, warm.store.graph>>,
                                  !.store.base = IF es = << >> THEN None ELSE Len(es)]
          /\ pc' = "cstage" /\ UNCHANGED faults
       \/ es # << >> /\ SaveFails /\ UNCHANGED graph
    /\ UNCHANGED <<edoc, vectors>> /\ Same

\* The files of the generation before go.
RemovesOld ==
    LET without(fs, old) == [g \in DOMAIN fs |-> IF g = old THEN None ELSE fs[g]] IN
    /\ pc = "remove" /\ pc' = "done"
    /\ vectors' = without(vectors, warm.before[1]) /\ graph' = without(graph, warm.before[2])
    /\ UNCHANGED <<edoc, warm, faults>> /\ Same

Finishes ==
    /\ pc = "done" /\ pc' = "idle" /\ warm' = NoWarm /\ ref' = NoRefresh
    /\ UNCHANGED <<sourceVars, indexVars, refreshes, sAt, srch, faults, model, switches, storeVars>>

Warmup ==
    \/ WarmupLoads \/ Probe \/ Chunk \/ Expires \/ Settles \/ Truncates \/ Appends
    \/ StagesDocument \/ PublishesDocument \/ Compacts \/ SavesVectors \/ SavesGraph
    \/ RemovesOld \/ Finishes

-----------------------------------------------------------------------------
(* The search of the vectors, the model that serves, crashes *)

\* The store serves a query of its own model only (embedding_store_matches_query).
SearchLoads ==
    /\ sAt = "vectors"
    /\ IF edoc # None /\ edoc.entries # << >> /\ edoc.model = srch.model /\ edoc.dim = Dim[srch.model]
       THEN srch' = [srch EXCEPT !.doc = edoc] /\ sAt' = "scan"
       ELSE UNCHANGED srch /\ sAt' = "payload"
    /\ UNCHANGED <<sourceVars, workerVars, model, switches, storeVars, warm>>

\* search_embedding_store reads graph and vector file, or fails and there are no scores.
SearchScans ==
    /\ sAt = "scan" /\ sAt' = "payload" /\ srch' = [srch EXCEPT !.doc = None]
    /\ UNCHANGED <<sourceVars, workerVars, model, switches, storeVars, warm>>

Search ==
    \/ /\ SearchBegins(model) \/ ChecksLexical \/ ReadsLexical \/ ReadsPayload
       /\ UNCHANGED <<model, switches, storeVars, warm>>
    \/ SearchLoads \/ SearchScans

\* Another model serves from now on.
Switches(m) ==
    /\ switches < MaxSwitches /\ m # model /\ switches' = switches + 1 /\ model' = m
    /\ UNCHANGED <<sourceVars, indexVars, refreshes, pc, ref, sAt, srch, faults, storeVars, warm>>

Restart ==
    /\ Fault /\ pc # "idle"
    /\ pc' = "idle" /\ ref' = NoRefresh /\ warm' = NoWarm /\ sAt' = "idle" /\ srch' = NoSearch
    /\ UNCHANGED <<sourceVars, indexVars, refreshes, model, switches, storeVars>>

Environment ==
    /\ (\E f \in Files, t \in Texts \cup {None} : Edits(f, t)) \/ Tick
    /\ UNCHANGED <<model, switches, storeVars, warm>>

Next ==
    \/ Refresh /\ UNCHANGED <<model, switches, storeVars, warm>>
    \/ Warmup \/ Search \/ Environment
    \/ \E m \in Models : Switches(m)
    \/ Restart

Spec == Init /\ [][Next]_vars

-----------------------------------------------------------------------------
\* Whoever scans a document of the store, the one on disk or the one that a search
\* loaded, scores each live entry by the vector of that entry's text under the
\* document's model, both by graph and by vector file (save_embedding_store_incremental,
\* save_embedding_store_owned); or finds that the file does not fit and scores nothing.
VectorsAreTrue ==
    \A d \in {edoc, srch.doc} \ {None} : Readable(d) =>
        \A i \in Live(d.entries) :
            /\ vectors[d.vec][i] = Row(d.entries[i].text, d.model)
            /\ (d.graph # None /\ graph[d.graph] # None /\ i <= d.base)
                   => graph[d.graph][i] = Row(d.entries[i].text, d.model)

\* A warmup that ends without reporting trouble leaves a store that has exactly the
\* chunks of its snapshot, and that a search can read if the warmup saved it
\* (warm_embedding_cache_inner); except when it found only amid the chunks that the
\* model had changed, and dropped what it had kept.
WarmupServes ==
    (pc = "done" /\ ~warm.degraded /\ ~warm.late) =>
        LET d == Loaded(edoc) IN
        /\ {<<d.entries[i].file, d.entries[i].text>> : i \in Live(d.entries)}
              = {<<f, ref.entries[f].text>> : f \in WantedFiles}
        /\ (warm.dirty /\ d.entries # << >>) => Readable(d)
=============================================================================
