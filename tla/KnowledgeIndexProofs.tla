------------------------ MODULE KnowledgeIndexProofs ------------------------
(***************************************************************************)
(* For every number of files, texts, models, edits, refreshes and faults:  *)
(* a manifest has its payload, and a search mixes no two generations.      *)
(***************************************************************************)
EXTENDS EmbeddingStore, TLAPS

GenOrNone == Generations \cup {None}
Refreshing == {"parse", "payload", "stage", "publish"}
Replaced == {"drop", "commit", "meta"}

IndexTypes ==
    /\ text \in [Files -> Texts \cup {None}] /\ sig \in [Files -> Nat] /\ edits \in Nat /\ now \in Nat
    /\ man \in GenOrNone /\ payload \in [Generations -> [Files -> Entries] \cup {None}]
    /\ stamp \in [Generations -> Nat] /\ lexDocs \in GenOrNone /\ lexMeta \in Nat \cup {None}
    /\ refreshes \in 0 .. MaxRefreshes
    /\ ref \in [old : GenOrNone, sigs : [Files -> Nat \cup {None}], texts : [Files -> Texts \cup {None}],
                entries : [Files -> Entries], replaced : GenOrNone]
    /\ faults \in Nat
    /\ DOMAIN srch = {"gen", "lex", "model", "doc"} /\ srch.gen \in GenOrNone /\ srch.lex \in GenOrNone

\* No entry bears a signature that a later edit may give to its file, and an entry with
\* the signature of a file without sidecar has the file's text, or after a fault none.
True(es) ==
    \A f \in Files : es[f] # None =>
        /\ es[f].sig <= edits
        /\ (f \notin Sidecars /\ es[f].sig = sig[f] /\ text[f] # None)
               => es[f].text = text[f] \/ (faults # 0 /\ es[f].text = None)

EntriesInv ==
    /\ \A f \in Files : sig[f] <= edits /\ (ref.sigs[f] # None => ref.sigs[f] <= edits)
    /\ \A g \in Generations : payload[g] # None => True(payload[g])
    /\ True(ref.entries)
    /\ pc \notin {"idle", "parse"} => \A f \in Files \ Sidecars : (text[f] # None /\ ref.sigs[f] = sig[f])
           => IF ref.entries[f] = None THEN faults # 0 ELSE ref.entries[f].sig = sig[f]

\* The manifest's generation, also while the manifest is moved away.
Current == IF pc = "publish" THEN ref.replaced ELSE man

ManifestInv ==
    /\ Current # None => Current <= refreshes /\ payload[Current] # None
    /\ pc = "publish" => man = None
    /\ pc \in Refreshing => refreshes \in Generations /\ ref.old = Current
                              /\ (Current # None => Current < refreshes)
    /\ pc \in {"stage", "publish"} => payload[refreshes] # None
    /\ pc \in Replaced => man = refreshes /\ refreshes \in Generations
    /\ pc = "drop" => ref.old # refreshes

\* A search whose payload is still there works on the current generation, or on the one
\* that is about to be dropped.
SearchInv ==
    sAt # "idle" =>
        /\ srch.gen \in Generations /\ srch.gen <= refreshes
        /\ pc \in Refreshing => srch.gen < refreshes
        /\ payload[srch.gen] # None => srch.gen = Current \/ (pc = "drop" /\ srch.gen = ref.old)

\* The metadata of the lexical index is no younger than its documents, and these are no
\* younger than any generation that a search may still answer from.
LexicalInv ==
    /\ (lexMeta # None => lexDocs # None) /\ (pc = "meta" => lexDocs = refreshes)
    /\ lexDocs # None =>
           /\ lexDocs <= refreshes /\ (pc = "parse" => lexDocs < refreshes)
           /\ stamp[lexDocs] <= now /\ (lexMeta # None => lexMeta <= stamp[lexDocs])
           /\ Current # None => stamp[lexDocs] <= stamp[Current]
           /\ pc \in (Refreshing \ {"parse"}) \cup Replaced => stamp[lexDocs] <= stamp[refreshes]
           /\ (pc = "drop" /\ ref.old # None) => stamp[lexDocs] <= stamp[ref.old]
    /\ pc \in (Refreshing \ {"parse"}) \cup Replaced => stamp[refreshes] <= now

MatchInv ==
    /\ sAt \in {"idle", "lexical", "documents"} => srch.lex = None
    /\ srch.lex # None => srch.lex <= refreshes /\ (pc = "parse" => srch.lex < refreshes)
    /\ (sAt = "documents" /\ payload[srch.gen] # None /\ lexDocs # None)
           => stamp[lexDocs] = stamp[srch.gen]
    /\ (sAt \in {"vectors", "scan", "payload"} /\ payload[srch.gen] # None /\ srch.lex # None)
           => stamp[srch.lex] = stamp[srch.gen]

IndexInv ==
    IndexTypes /\ EntriesInv /\ ManifestInv /\ SearchInv /\ LexicalInv /\ MatchInv

-----------------------------------------------------------------------------
\* The count of faults only grows.
MoreFaults == faults' \in Nat /\ (faults # 0 => faults' # 0)

\* A fault counts, and a step without one changes nothing.
LEMMA FaultCounts == ASSUME faults \in Nat, Fault \/ UNCHANGED faults PROVE MoreFaults
BY DEF Fault, MoreFaults

\* A step that leaves source files, signatures and entries alone, and no payload that was
\* not there or in the worker's hands, keeps what is known of the entries.
LEMMA EntriesKept ==
  ASSUME IndexInv, UNCHANGED sourceVars, MoreFaults, ref'.sigs = ref.sigs, ref'.entries = ref.entries,
         \A g \in Generations : payload'[g] \in {payload[g], ref.entries, None},
         pc' \in {"idle", "parse"} \/ pc \notin {"idle", "parse"}
  PROVE  EntriesInv'
<1>1. UNCHANGED <<text, sig, edits>>
  BY Zenon DEF sourceVars
<1>2. ASSUME NEW es, True(es) PROVE \A f \in Files : es[f] # None =>
        /\ es[f].sig <= edits'
        /\ (f \notin Sidecars /\ es[f].sig = sig'[f] /\ text'[f] # None)
               => es[f].text = text'[f] \/ (faults' # 0 /\ es[f].text = None)
  BY Zenon, <1>1, <1>2 DEF True, MoreFaults
<1>3. True(ref.entries)'
  <2>1. True(ref.entries)
    BY Zenon DEF IndexInv, EntriesInv
  <2> QED BY <1>2, <2>1 DEF True
<1>4. ASSUME NEW g \in Generations, payload'[g] # None PROVE True(payload[g])'
  <2>1. \E es : True(es) /\ payload'[g] = es
    BY Zenon, <1>4 DEF IndexInv, EntriesInv
  <2> QED BY Zenon, <1>2, <2>1 DEF True
<1>5. \A f \in Files : sig'[f] <= edits' /\ (ref'.sigs[f] # None => ref'.sigs[f] <= edits')
  BY Zenon, <1>1 DEF IndexInv, EntriesInv
<1>6. pc' \notin {"idle", "parse"} => \A f \in Files \ Sidecars : (text'[f] # None /\ ref'.sigs[f] = sig'[f])
           => IF ref'.entries[f] = None THEN faults' # 0 ELSE ref'.entries[f].sig = sig'[f]
  BY Zenon, <1>1 DEF IndexInv, EntriesInv, MoreFaults
<1> QED BY Zenon, <1>3, <1>4, <1>5, <1>6 DEF EntriesInv

\* A refresh begins on the current generation, and no search knows the new one.
LEMMA RefreshBeginsKeeps == ASSUME IndexInv, RefreshBegins PROVE IndexInv'
<1> USE IndexAssumption DEF IndexInv, IndexTypes, GenOrNone, Generations, Refreshing, Replaced,
        sourceVars, indexVars, RefreshBegins, NoEntries
<1>1. IndexTypes'
  BY DEF Entries
<1>2. EntriesInv'
  BY DEF EntriesInv, True
<1>3. ManifestInv'
  <2>1. ref'.old = man /\ ref'.replaced = None
    BY Zenon DEF ManifestInv, Current
  <2> QED BY <2>1 DEF ManifestInv, Current
<1>4. SearchInv'
  BY DEF SearchInv, ManifestInv, Current
<1>5. LexicalInv'
  BY DEF LexicalInv, ManifestInv, Current
<1>6. MatchInv'
  BY SMTT(30) DEF MatchInv
<1> QED BY Zenon, <1>1, <1>2, <1>3, <1>4, <1>5, <1>6 DEF IndexInv

\* refresh_directory keeps an entry or parses the file; its stamp is the latest.
LEMMA RefreshParsesKeeps == ASSUME IndexInv, RefreshParses PROVE IndexInv'
<1> USE IndexAssumption DEF IndexInv, IndexTypes, GenOrNone, Generations, Refreshing, Replaced,
        sourceVars, indexVars, RefreshParses, NoEntries
<1>0. /\ faults' \in Nat /\ (faults # 0 => faults' # 0)
      /\ \E outcome \in [Files -> Outcomes] :
            /\ (\A f \in Files : outcome[f] = "parsed") \/ faults' # 0
            /\ ref' = [ref EXCEPT !.entries = [f \in Files |-> refresh_entry(f, outcome[f])],
                                  !.texts = [f \in Files |-> None]]
  <2>1. PICK outcome \in [Files -> Outcomes] :
          /\ (outcome = [f \in Files |-> "parsed"] /\ UNCHANGED faults) \/ Fault
          /\ ref' = [ref EXCEPT !.entries = [f \in Files |-> refresh_entry(f, outcome[f])],
                                !.texts = [f \in Files |-> None]]
    BY Zenon
  <2>2. CASE outcome = [f \in Files |-> "parsed"] /\ UNCHANGED faults
    BY Zenon, <2>1, <2>2
  <2>3. CASE Fault
    <3>1. faults' \in Nat /\ faults' # 0
      BY <2>3 DEF Fault
    <3> QED BY Zenon, <2>1, <3>1
  <2> QED BY Zenon, <2>1, <2>2, <2>3
<1>p. PICK outcome \in [Files -> Outcomes] :
        /\ (\A f \in Files : outcome[f] = "parsed") \/ faults' # 0
        /\ ref' = [ref EXCEPT !.entries = [f \in Files |-> refresh_entry(f, outcome[f])],
                              !.texts = [f \in Files |-> None]]
  BY Zenon, <1>0
<1>1. IndexTypes'
  <2>1. \A f \in Files : refresh_entry(f, outcome[f]) \in Entries
    BY DEF Entries, ManifestInv, Current, refresh_entry, Reused, OldEntry
  <2>2. ref' \in [old : GenOrNone, sigs : [Files -> Nat \cup {None}], texts : [Files -> Texts \cup {None}],
                  entries : [Files -> Entries], replaced : GenOrNone]
    BY ZenonT(30), <1>p, <2>1
  <2> QED BY ZenonT(30), <1>0, <2>2 DEF ManifestInv, Current
<1>2. EntriesInv'
  <2>1. /\ ref'.sigs = ref.sigs /\ ref'.entries = [f \in Files |-> refresh_entry(f, outcome[f])]
        /\ UNCHANGED <<text, sig, edits, payload>> /\ pc' = "payload"
    BY Zenon, <1>p
  <2>2. ref.old # None => payload[ref.old] # None /\ True(payload[ref.old])
    BY Zenon DEF ManifestInv, EntriesInv, Current
  <2>3. ASSUME NEW f \in Files, NEW e, e = refresh_entry(f, outcome[f]), e # None
        PROVE /\ e.sig <= edits
              /\ f \notin Sidecars => e.sig = ref.sigs[f]
              /\ (f \notin Sidecars /\ e.sig = sig[f] /\ text[f] # None)
                     => e.text = text[f] \/ (faults' # 0 /\ e.text = None)
    BY <1>0, <1>p, <2>2, <2>3 DEF True, Entries, EntriesInv, refresh_entry, Reused, OldEntry
  <2>4. ASSUME NEW f \in Files, ref.sigs[f] # None, refresh_entry(f, outcome[f]) = None
        PROVE faults' # 0
    <3>1. outcome[f] = "unavailable"
      BY <2>4 DEF refresh_entry, Reused
    <3>2. "unavailable" # "parsed"
      OBVIOUS
    <3> QED BY Zenon, <1>p, <3>1, <3>2
  <2> HIDE DEF RefreshParses
  <2>5. True(ref.entries)'
    BY Zenon, <2>1, <2>3 DEF True
  <2>6. \A g \in Generations : payload'[g] # None => True(payload[g])'
    <3>1. ASSUME NEW g \in Generations, payload'[g] # None, NEW f \in Files, payload'[g][f] # None
          PROVE /\ payload'[g][f].sig <= edits'
                /\ (f \notin Sidecars /\ payload'[g][f].sig = sig'[f] /\ text'[f] # None)
                      => payload'[g][f].text = text'[f] \/ (faults' # 0 /\ payload'[g][f].text = None)
      <4>1. True(payload[g]) /\ payload[g][f] # None
        BY Zenon, <2>1, <3>1 DEF EntriesInv
      <4> QED BY <1>0, <2>1, <4>1 DEF True
    <3> QED BY Zenon, <3>1 DEF True
  <2>7. ASSUME NEW f \in Files \ Sidecars, ref'.sigs[f] = sig'[f]
        PROVE IF ref'.entries[f] = None THEN faults' # 0 ELSE ref'.entries[f].sig = sig'[f]
    <3>1. ref.sigs[f] = sig[f] /\ ref.sigs[f] # None
      BY <2>1, <2>7
    <3>2. ref'.entries[f] = refresh_entry(f, outcome[f])
      BY Zenon, <2>1
    <3>3. CASE ref'.entries[f] = None
      BY Zenon, <2>4, <3>1, <3>2, <3>3
    <3>4. CASE ref'.entries[f] # None
      <4>1. ref'.entries[f].sig = ref.sigs[f]
        BY Zenon, <2>3, <3>2, <3>4
      <4> QED BY Zenon, <2>1, <3>1, <3>4, <4>1
    <3> QED BY Zenon, <3>3, <3>4
  <2>8. \A f \in Files : sig'[f] <= edits' /\ (ref'.sigs[f] # None => ref'.sigs[f] <= edits')
    BY Zenon, <2>1 DEF EntriesInv
  <2> QED BY Zenon, <2>1, <2>5, <2>6, <2>7, <2>8 DEF EntriesInv
<1>3. ManifestInv'
  BY Zenon DEF ManifestInv, Current
<1>4. SearchInv'
  BY Zenon DEF SearchInv, ManifestInv, Current
<1>5. LexicalInv'
  BY DEF LexicalInv, ManifestInv, Current
<1>6. MatchInv'
  BY DEF MatchInv, SearchInv, ManifestInv, LexicalInv, Current
<1> QED BY ZenonT(30), <1>1, <1>2, <1>3, <1>4, <1>5, <1>6 DEF IndexInv

\* A refresh that fails leaves the index as it was.
LEMMA RefreshFailsKeeps == ASSUME IndexInv, RefreshFails PROVE IndexInv'
<1> USE IndexAssumption DEF IndexInv, IndexTypes, GenOrNone, Generations, Refreshing, Replaced,
        sourceVars, indexVars, RefreshFails, NoRefresh, NoEntries
<1>1. IndexTypes'
  BY DEF Entries
<1>2. EntriesInv'
  BY DEF EntriesInv, True
<1>3. ManifestInv'
  BY Zenon DEF ManifestInv, Current
<1>4. SearchInv'
  BY Zenon DEF SearchInv, Current
<1>5. LexicalInv'
  BY Zenon DEF LexicalInv, ManifestInv, Current
<1>6. MatchInv'
  BY Zenon DEF MatchInv
<1> QED BY Zenon, <1>1, <1>2, <1>3, <1>4, <1>5, <1>6 DEF IndexInv

\* The new payload is written before the manifest names it.
LEMMA SavesPayloadKeeps == ASSUME IndexInv, SavesPayload PROVE IndexInv'
<1> USE IndexAssumption DEF IndexInv, IndexTypes, GenOrNone, Generations, Refreshing, Replaced,
        sourceVars, indexVars, SavesPayload
<1>f. MoreFaults
  BY Zenon, FaultCounts
<1>0. ref.entries # None /\ ref.entries \in [Files -> Entries]
  BY Zenon
<1>1. IndexTypes'
  BY Zenon, <1>f, <1>0 DEF ManifestInv, Current, MoreFaults
<1>2. EntriesInv'
  <2>1. ref'.sigs = ref.sigs /\ ref'.entries = ref.entries
    BY Zenon
  <2> QED BY Zenon, <1>f, <2>1, EntriesKept
<1>3. ManifestInv'
  BY Zenon, <1>0 DEF ManifestInv, Current
<1>4. SearchInv'
  BY <1>0 DEF SearchInv, ManifestInv, Current
<1>5. LexicalInv'
  BY Zenon, <1>0 DEF LexicalInv, ManifestInv, Current
<1>6. MatchInv'
  <2>1. sAt # "idle" => payload'[srch.gen] = payload[srch.gen]
    BY DEF SearchInv
  <2> QED BY ZenonT(30), <2>1 DEF MatchInv
<1> QED BY Zenon, <1>1, <1>2, <1>3, <1>4, <1>5, <1>6 DEF IndexInv

\* The manifest moved away is still the current generation.
LEMMA StagesManifestKeeps == ASSUME IndexInv, StagesManifest PROVE IndexInv'
<1> USE IndexAssumption DEF IndexInv, IndexTypes, GenOrNone, Generations, Refreshing, Replaced,
        sourceVars, indexVars, StagesManifest
<1>f. MoreFaults
  BY Zenon, FaultCounts
<1>1. IndexTypes'
  BY ZenonT(30), <1>f DEF ManifestInv, Current, MoreFaults
<1>2. EntriesInv'
  <2>1. ref'.sigs = ref.sigs /\ ref'.entries = ref.entries
    BY Zenon
  <2> QED BY Zenon, <1>f, <2>1, EntriesKept
<1>3. ManifestInv'
  BY Zenon DEF ManifestInv, Current
<1>4. SearchInv'
  BY Zenon DEF SearchInv, ManifestInv, Current
<1>5. LexicalInv'
  BY Zenon DEF LexicalInv, ManifestInv, Current
<1>6. MatchInv'
  BY Zenon DEF MatchInv, SearchInv, ManifestInv, LexicalInv, Current
<1> QED BY Zenon, <1>1, <1>2, <1>3, <1>4, <1>5, <1>6 DEF IndexInv

\* The new manifest has its payload, and so has the old one that is moved back.
LEMMA PublishesManifestKeeps == ASSUME IndexInv, PublishesManifest PROVE IndexInv'
<1> USE IndexAssumption DEF IndexInv, IndexTypes, GenOrNone, Generations, Refreshing, Replaced,
        sourceVars, indexVars, PublishesManifest
<1>f. MoreFaults
  BY Zenon, FaultCounts
<1>1. IndexTypes'
  BY ZenonT(30), <1>f DEF ManifestInv, Current, MoreFaults
<1>2. EntriesInv'
  <2>1. ref'.sigs = ref.sigs /\ ref'.entries = ref.entries
    BY Zenon
  <2> QED BY Zenon, <1>f, <2>1, EntriesKept
<1>3. ManifestInv'
  BY DEF ManifestInv, Current
<1>4. SearchInv'
  BY Zenon DEF SearchInv, ManifestInv, Current
<1>5. LexicalInv'
  BY Zenon DEF LexicalInv, ManifestInv, Current
<1>6. MatchInv'
  BY Zenon DEF MatchInv, SearchInv, ManifestInv, LexicalInv, Current
<1> QED BY ZenonT(30), <1>1, <1>2, <1>3, <1>4, <1>5, <1>6 DEF IndexInv

\* Only the payload of the generation before goes.
LEMMA DropsPayloadKeeps == ASSUME IndexInv, DropsPayload PROVE IndexInv'
<1> USE IndexAssumption DEF IndexInv, IndexTypes, GenOrNone, Generations, Refreshing, Replaced,
        sourceVars, indexVars, DropsPayload
<1>1. IndexTypes'
  BY Zenon DEF ManifestInv, Current
<1>2. EntriesInv'
  <2>1. MoreFaults
    BY Zenon, FaultCounts
  <2> QED BY Zenon, <2>1, EntriesKept
<1>3. ManifestInv'
  BY Zenon DEF ManifestInv, Current
<1>4. SearchInv'
  BY Zenon DEF SearchInv, ManifestInv, Current
<1>5. LexicalInv'
  BY Zenon DEF LexicalInv, ManifestInv, Current
<1>6. MatchInv'
  BY Zenon DEF MatchInv, SearchInv, ManifestInv, LexicalInv, Current
<1> QED BY Zenon, <1>1, <1>2, <1>3, <1>4, <1>5, <1>6 DEF IndexInv

\* When the documents change, a search of an older generation has lost its payload.
LEMMA CommitsLexicalKeeps == ASSUME IndexInv, CommitsLexical PROVE IndexInv'
<1> USE IndexAssumption DEF IndexInv, IndexTypes, GenOrNone, Generations, Refreshing, Replaced,
        sourceVars, indexVars, CommitsLexical
<1>f. MoreFaults
  BY Zenon, FaultCounts
<1>1. IndexTypes'
  BY Zenon, <1>f DEF ManifestInv, Current, MoreFaults
<1>2. EntriesInv'
  <2>1. ref'.sigs = ref.sigs /\ ref'.entries = ref.entries
    BY Zenon
  <2> QED BY Zenon, <1>f, <2>1, EntriesKept
<1>3. ManifestInv'
  BY Zenon DEF ManifestInv, Current
<1>4. SearchInv'
  BY Zenon DEF SearchInv, ManifestInv, Current
<1>5. LexicalInv'
  BY DEF LexicalInv, ManifestInv, Current
<1>6. MatchInv'
  BY Zenon DEF MatchInv, SearchInv, ManifestInv, LexicalInv, Current
<1> QED BY Zenon, <1>1, <1>2, <1>3, <1>4, <1>5, <1>6 DEF IndexInv

\* The metadata takes the stamp of the documents.
LEMMA WritesMetadataKeeps == ASSUME IndexInv, WritesMetadata PROVE IndexInv'
<1> USE IndexAssumption DEF IndexInv, IndexTypes, GenOrNone, Generations, Refreshing, Replaced,
        sourceVars, indexVars, WritesMetadata
<1>1. IndexTypes'
  BY Zenon DEF ManifestInv, Current
<1>2. EntriesInv'
  <2>1. MoreFaults
    BY Zenon, FaultCounts
  <2> QED BY Zenon, <2>1, EntriesKept
<1>3. ManifestInv'
  BY Zenon DEF ManifestInv, Current
<1>4. SearchInv'
  BY Zenon DEF SearchInv, ManifestInv, Current
<1>5. LexicalInv'
  BY DEF LexicalInv, ManifestInv, Current
<1>6. MatchInv'
  BY Zenon DEF MatchInv, SearchInv, ManifestInv, LexicalInv, Current
<1> QED BY Zenon, <1>1, <1>2, <1>3, <1>4, <1>5, <1>6 DEF IndexInv

\* The warmup and a change of model leave the files of the index alone.
LEMMA WarmupKeeps == ASSUME IndexInv,
    UNCHANGED <<sourceVars, indexVars, refreshes, ref, sAt, srch>>, MoreFaults,
    pc' = pc \/ {pc, pc'} \cap (Refreshing \cup Replaced \cup {"idle"}) = {} PROVE IndexInv'
<1> USE IndexAssumption DEF IndexInv, IndexTypes, GenOrNone, Generations, Refreshing, Replaced,
        sourceVars, indexVars
<1>1. IndexTypes'
  BY Zenon DEF ManifestInv, MoreFaults
<1>2. EntriesInv'
  BY Zenon, EntriesKept
<1>3. ManifestInv'
  BY ZenonT(30) DEF ManifestInv, Current
<1>4. SearchInv'
  BY ZenonT(30) DEF SearchInv, Current
<1>5. LexicalInv'
  BY ZenonT(30) DEF LexicalInv, Current
<1>6. MatchInv'
  BY ZenonT(30) DEF MatchInv
<1> QED BY Zenon, <1>1, <1>2, <1>3, <1>4, <1>5, <1>6 DEF IndexInv

\* A warmup that ends, and a restart: the search of a restart ends too.
LEMMA EndKeeps == ASSUME IndexInv,
    UNCHANGED <<sourceVars, indexVars, refreshes>>, MoreFaults, pc' = "idle", ref' = NoRefresh,
    \/ UNCHANGED <<sAt, srch>> /\ pc = "done"
    \/ sAt' = "idle" /\ srch' = NoSearch PROVE IndexInv'
<1> USE IndexAssumption DEF IndexInv, IndexTypes, GenOrNone, Generations, Refreshing, Replaced,
        sourceVars, indexVars, NoRefresh, NoSearch, NoEntries, MoreFaults
<1>1. IndexTypes'
  BY DEF Entries
<1>2. EntriesInv'
  BY DEF EntriesInv, True
<1>3. ManifestInv'
  BY Zenon DEF ManifestInv, Current
<1>4. SearchInv'
  BY Zenon DEF SearchInv, Current
<1>5. LexicalInv'
  BY Zenon DEF LexicalInv, ManifestInv, Current
<1>6. MatchInv'
  BY DEF MatchInv
<1> QED BY Zenon, <1>1, <1>2, <1>3, <1>4, <1>5, <1>6 DEF IndexInv

\* An edit gives its file a signature that no entry has.
LEMMA EditsKeeps == ASSUME IndexInv, NEW f \in Files, NEW t \in Texts \cup {None}, Edits(f, t)
    PROVE IndexInv'
<1> USE IndexAssumption DEF IndexInv, IndexTypes, GenOrNone, Generations, Refreshing, Replaced,
        sourceVars, indexVars, Edits
<1>0. /\ edits \in Nat /\ sig \in [Files -> Nat] /\ text \in [Files -> Texts \cup {None}]
      /\ edits' = edits + 1 /\ sig' = [sig EXCEPT ![f] = edits + 1]
      /\ text' = [text EXCEPT ![f] = t] /\ UNCHANGED <<payload, ref, pc, faults>>
  BY Zenon
<1>1. IndexTypes'
  <2>1. edits' \in Nat /\ sig' \in [Files -> Nat] /\ text' \in [Files -> Texts \cup {None}]
    BY ONLY <1>0
  <2> QED BY Zenon, <2>1
<1>2. EntriesInv'
  <2>2. ASSUME NEW es \in [Files -> Entries], True(es), NEW h \in Files, es[h] # None
        PROVE /\ es[h].sig <= edits'
              /\ (h \notin Sidecars /\ es[h].sig = sig'[h] /\ text'[h] # None)
                     => es[h].text = text'[h] \/ (faults' # 0 /\ es[h].text = None)
    <3>1. es[h].sig \in Nat /\ es[h].sig <= edits
      BY ZenonT(30), <2>2 DEF True, Entries
    <3>2. CASE h = f
      BY ONLY <1>0, <3>1, <3>2
    <3>3. CASE h # f
      <4>1. sig'[h] = sig[h] /\ text'[h] = text[h] /\ es[h].sig <= edits'
        BY ONLY <1>0, <3>1, <3>3
      <4> QED BY Zenon, <1>0, <2>2, <4>1 DEF True
    <3> QED BY Zenon, <3>2, <3>3
  <2>3. ASSUME NEW g \in Generations, payload'[g] # None PROVE True(payload[g])'
    <3>1. payload'[g] = payload[g] /\ payload[g] \in [Files -> Entries] /\ True(payload[g])
      BY <1>0, <2>3 DEF EntriesInv
    <3> QED BY ZenonT(30), <2>2, <3>1 DEF True
  <2>4. True(ref.entries)'
    <3>1. ref' = ref /\ ref.entries \in [Files -> Entries] /\ True(ref.entries)
      BY Zenon, <1>0 DEF EntriesInv
    <3> QED BY ONLY Zenon, <2>2, <3>1 DEF True
  <2>5. \A h \in Files : sig'[h] <= edits' /\ (ref'.sigs[h] # None => ref'.sigs[h] <= edits')
    BY <1>0 DEF EntriesInv
  <2>6. ASSUME NEW h \in Files, ref.sigs[h] = sig'[h], text'[h] # None
        PROVE ref.sigs[h] = sig[h] /\ text[h] # None /\ sig'[h] = sig[h]
    BY <1>0, <2>6 DEF EntriesInv
  <2> QED BY Zenon, <1>0, <2>3, <2>4, <2>5, <2>6 DEF EntriesInv
<1>3. ManifestInv'
  BY Zenon DEF ManifestInv, Current
<1>4. SearchInv'
  BY Zenon DEF SearchInv, Current
<1>5. LexicalInv'
  BY Zenon DEF LexicalInv, Current
<1>6. MatchInv'
  BY Zenon DEF MatchInv
<1> QED BY Zenon, <1>1, <1>2, <1>3, <1>4, <1>5, <1>6 DEF IndexInv

\* The clock only goes on.
LEMMA TickKeeps == ASSUME IndexInv, Tick PROVE IndexInv'
<1> USE IndexAssumption DEF IndexInv, IndexTypes, GenOrNone, Generations, Refreshing, Replaced,
        sourceVars, indexVars, Tick
<1>1. IndexTypes'
  BY DEF ManifestInv
<1>2. EntriesInv'
  BY DEF EntriesInv, True
<1>3. ManifestInv'
  BY Zenon DEF ManifestInv, Current
<1>4. SearchInv'
  BY Zenon DEF SearchInv, Current
<1>5. LexicalInv'
  BY DEF LexicalInv, ManifestInv, Current
<1>6. MatchInv'
  BY Zenon DEF MatchInv
<1> QED BY Zenon, <1>1, <1>2, <1>3, <1>4, <1>5, <1>6 DEF IndexInv

\* A search begins with the manifest.
LEMMA SearchBeginsKeeps == ASSUME IndexInv, SearchBegins(model) PROVE IndexInv'
<1> USE IndexAssumption DEF IndexInv, IndexTypes, GenOrNone, Generations, Refreshing, Replaced,
        sourceVars, indexVars, workerVars, NoSearch, SearchBegins
<1>1. IndexTypes'
  BY Zenon DEF ManifestInv
<1>2. EntriesInv'
  <2>1. MoreFaults
    BY Zenon, FaultCounts
  <2> QED BY Zenon, <2>1, EntriesKept
<1>3. ManifestInv'
  BY Zenon DEF ManifestInv, Current
<1>4. SearchInv'
  BY Zenon DEF SearchInv, ManifestInv, Current
<1>5. LexicalInv'
  BY Zenon DEF LexicalInv, Current
<1>6. MatchInv'
  BY Zenon DEF MatchInv, SearchInv, ManifestInv, LexicalInv, Current
<1> QED BY Zenon, <1>1, <1>2, <1>3, <1>4, <1>5, <1>6 DEF IndexInv

\* Metadata with the stamp of the search's manifest are those of documents with that stamp.
LEMMA ChecksLexicalKeeps == ASSUME IndexInv, ChecksLexical PROVE IndexInv'
<1> USE IndexAssumption DEF IndexInv, IndexTypes, GenOrNone, Generations, Refreshing, Replaced,
        sourceVars, indexVars, workerVars, NoSearch, ChecksLexical
<1>1. IndexTypes'
  BY Zenon DEF ManifestInv
<1>2. EntriesInv'
  <2>1. MoreFaults
    BY Zenon, FaultCounts
  <2> QED BY Zenon, <2>1, EntriesKept
<1>3. ManifestInv'
  BY Zenon DEF ManifestInv, Current
<1>4. SearchInv'
  BY Zenon DEF SearchInv, ManifestInv, Current
<1>5. LexicalInv'
  BY Zenon DEF LexicalInv, Current
<1>6. MatchInv'
  BY SMTT(30) DEF MatchInv, SearchInv, ManifestInv, LexicalInv, Current
<1> QED BY Zenon, <1>1, <1>2, <1>3, <1>4, <1>5, <1>6 DEF IndexInv

\* The documents read are those whose stamp was compared, or the payload is gone.
LEMMA ReadsLexicalKeeps == ASSUME IndexInv, ReadsLexical PROVE IndexInv'
<1> USE IndexAssumption DEF IndexInv, IndexTypes, GenOrNone, Generations, Refreshing, Replaced,
        sourceVars, indexVars, workerVars, NoSearch, ReadsLexical
<1>1. IndexTypes'
  BY Zenon DEF ManifestInv
<1>2. EntriesInv'
  <2>1. MoreFaults
    BY Zenon, FaultCounts
  <2> QED BY Zenon, <2>1, EntriesKept
<1>3. ManifestInv'
  BY Zenon DEF ManifestInv, Current
<1>4. SearchInv'
  BY Zenon DEF SearchInv, ManifestInv, Current
<1>5. LexicalInv'
  BY Zenon DEF LexicalInv, Current
<1>6. MatchInv'
  BY Zenon DEF MatchInv, SearchInv, ManifestInv, LexicalInv, Current
<1> QED BY Zenon, <1>1, <1>2, <1>3, <1>4, <1>5, <1>6 DEF IndexInv

\* The search ends.
LEMMA ReadsPayloadKeeps == ASSUME IndexInv, ReadsPayload PROVE IndexInv'
<1> USE IndexAssumption DEF IndexInv, IndexTypes, GenOrNone, Generations, Refreshing, Replaced,
        sourceVars, indexVars, workerVars, NoSearch, ReadsPayload
<1>1. IndexTypes'
  BY Zenon DEF ManifestInv
<1>2. EntriesInv'
  <2>1. MoreFaults
    BY Zenon, FaultCounts
  <2> QED BY Zenon, <2>1, EntriesKept
<1>3. ManifestInv'
  BY Zenon DEF ManifestInv, Current
<1>4. SearchInv'
  BY Zenon DEF SearchInv, ManifestInv, Current
<1>5. LexicalInv'
  BY Zenon DEF LexicalInv, Current
<1>6. MatchInv'
  BY Zenon DEF MatchInv, SearchInv, ManifestInv, LexicalInv, Current
<1> QED BY Zenon, <1>1, <1>2, <1>3, <1>4, <1>5, <1>6 DEF IndexInv

\* The scan of the vectors uses the store alone.
LEMMA ScoresKeeps == ASSUME IndexInv, SearchLoads \/ SearchScans PROVE IndexInv'
<1> USE IndexAssumption DEF IndexInv, IndexTypes, GenOrNone, Generations, Refreshing, Replaced,
        sourceVars, indexVars, workerVars, SearchLoads, SearchScans
<1>1. IndexTypes'
  BY DEF ManifestInv
<1>2. EntriesInv'
  <2>1. MoreFaults
    BY Zenon, FaultCounts
  <2> QED BY Zenon, <2>1, EntriesKept
<1>3. ManifestInv'
  BY DEF ManifestInv, Current
<1>4. SearchInv'
  BY ZenonT(30) DEF SearchInv, Current
<1>5. LexicalInv'
  BY ZenonT(30) DEF LexicalInv, Current
<1>6. MatchInv'
  <2>1. /\ UNCHANGED <<payload, stamp, lexDocs, refreshes, pc>>
        /\ sAt \in {"vectors", "scan"} /\ sAt' \in {"scan", "payload"}
    BY ZenonT(30)
  <2>2. srch'.gen = srch.gen /\ srch'.lex = srch.lex
    BY ZenonT(30)
  <2> HIDE DEF SearchLoads, SearchScans
  <2> QED BY <2>1, <2>2 DEF MatchInv
<1> QED BY Zenon, <1>1, <1>2, <1>3, <1>4, <1>5, <1>6 DEF IndexInv

-----------------------------------------------------------------------------
\* The invariant holds before the first refresh.
LEMMA IndexInvInit == Init => IndexInv
<1> USE IndexAssumption DEF Init, IndexInit, NoRefresh, NoEntries, NoSearch, Generations
<1> SUFFICES ASSUME Init PROVE IndexInv BY Zenon
<1>1. IndexTypes
  BY DEF IndexTypes, GenOrNone, Entries
<1>2. EntriesInv
  BY DEF EntriesInv, True
<1> QED BY Zenon, <1>1, <1>2 DEF IndexInv, ManifestInv, SearchInv, LexicalInv, MatchInv, Current,
        Refreshing, Replaced

\* Every step of worker, search and surroundings keeps it.
LEMMA IndexInvNext == IndexInv /\ [Next]_vars => IndexInv'
<1> SUFFICES ASSUME IndexInv, [Next]_vars PROVE IndexInv' BY Zenon
<1>0. faults \in Nat
  BY Zenon DEF IndexInv, IndexTypes
<1>1. CASE Refresh
  BY Zenon, <1>1, RefreshBeginsKeeps, RefreshParsesKeeps, RefreshFailsKeeps, SavesPayloadKeeps, StagesManifestKeeps,
     PublishesManifestKeeps, DropsPayloadKeeps, CommitsLexicalKeeps, WritesMetadataKeeps DEF Refresh
<1>2. CASE Warmup
  <2>1. CASE Finishes
    BY Zenon, <1>0, <1>2, <2>1, EndKeeps, FaultCounts DEF Finishes
  <2>2. CASE ~Finishes
    <3>1. UNCHANGED <<sourceVars, indexVars, refreshes, ref, sAt, srch>>
      BY ZenonT(30), <1>2, <2>2 DEF Warmup, WarmupLoads, Probe, Chunk, Expires, Settles, Truncates, Appends,
         StagesDocument, PublishesDocument, Publish, Compacts, SavesVectors, SavesGraph, RemovesOld, Same
    <3>2. pc' = pc \/ {pc, pc'} \cap (Refreshing \cup Replaced \cup {"idle"}) = {}
      BY ZenonT(30), <1>2, <2>2 DEF Warmup, WarmupLoads, Probe, Chunk, Expires, Settles, Truncates, Appends,
         StagesDocument, PublishesDocument, Publish, Compacts, SavesVectors, SavesGraph, RemovesOld,
         SaveFails, Refreshing, Replaced
    <3>3. Fault \/ UNCHANGED faults
      BY ZenonT(30), <1>2, <2>2 DEF Warmup, WarmupLoads, Probe, Chunk, Expires, Settles, Truncates, Appends,
         StagesDocument, PublishesDocument, Publish, Compacts, SavesVectors, SavesGraph, RemovesOld,
         SaveFails
    <3> QED BY Zenon, <1>0, <3>1, <3>2, <3>3, WarmupKeeps, FaultCounts
  <2> QED BY Zenon, <2>1, <2>2
<1>3. CASE Search
  <2>1. CASE SearchLoads \/ SearchScans
    BY Zenon, <1>3, <2>1, ScoresKeeps
  <2> QED BY Zenon, <1>3, <2>1, SearchBeginsKeeps, ChecksLexicalKeeps, ReadsLexicalKeeps, ReadsPayloadKeeps
      DEF Search
<1>4. CASE Environment
  BY Zenon, <1>4, EditsKeeps, TickKeeps DEF Environment
<1>5. CASE \E m \in Models : Switches(m)
  BY Zenon, <1>0, <1>5, WarmupKeeps, FaultCounts DEF Switches
<1>6. CASE Restart
  BY Zenon, <1>0, <1>6, EndKeeps, FaultCounts DEF Restart
<1>7. CASE UNCHANGED vars
  BY Zenon, <1>0, <1>7, WarmupKeeps, FaultCounts DEF vars
<1> QED BY Zenon, <1>1, <1>2, <1>3, <1>4, <1>5, <1>6, <1>7 DEF Next

\* What the properties say follows from it.
LEMMA IndexInvImplies == IndexInv => ManifestIsBacked /\ SearchIsOfOneGeneration
<1> SUFFICES ASSUME IndexInv PROVE ManifestIsBacked /\ SearchIsOfOneGeneration BY Zenon
<1>1. man # None => payload[man] # None
  BY Zenon DEF IndexInv, ManifestInv, Current
<1>2. ASSUME pc \notin {"idle", "parse"}, NEW f \in Files \ Sidecars, text[f] # None, ref.sigs[f] = sig[f]
      PROVE  SaysTheFile(f) \/ (faults # 0 /\ SaysNothing(f))
  <2>1. IF ref.entries[f] = None THEN faults # 0 ELSE ref.entries[f].sig = sig[f]
    BY Zenon, <1>2 DEF IndexInv, EntriesInv
  <2>2. CASE ref.entries[f] = None
    BY Zenon, <2>1, <2>2 DEF SaysNothing
  <2>3. CASE ref.entries[f] # None
    BY Zenon, <1>2, <2>1, <2>3 DEF IndexInv, EntriesInv, True, SaysTheFile, SaysNothing
  <2> QED BY Zenon, <2>2, <2>3
<1> QED BY Zenon, <1>1, <1>2 DEF IndexInv, MatchInv, ManifestIsBacked, SearchIsOfOneGeneration

\* A manifest on disk always has its payload, and what a refresh indexed of a file without
\* a sidecar is what the file says, or nothing after a fault, whatever edits, failed
\* renames and crashes there are (save_manifest, refresh_entry).
THEOREM Backed == Spec => []ManifestIsBacked
<1>1. Spec => []IndexInv
  BY IndexInvInit, IndexInvNext, PTL DEF Spec
<1> QED BY <1>1, IndexInvImplies, PTL

\* A search that finds its payload has used lexical matches of the same generation or of
\* the same second (lexical_index::search beside build_lexical_index).
THEOREM OneGeneration == Spec => []SearchIsOfOneGeneration
<1>1. Spec => []IndexInv
  BY IndexInvInit, IndexInvNext, PTL DEF Spec
<1> QED BY <1>1, IndexInvImplies, PTL
=============================================================================
