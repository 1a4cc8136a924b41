------------------------- MODULE KnowledgeIndexFiles -------------------------
(***************************************************************************)
(* The files of the knowledge index of one root: a manifest, the payload   *)
(* of its entries in a file of its own generation, and the lexical index.  *)
(* One worker refreshes them (KnowledgeIndexService::load_or_refresh) and  *)
(* one search reads them at the same time.                                 *)
(*                                                                         *)
(* A source file has a text and a signature (its time of change); the text *)
(* is its own, by a parser, OCR or ASR, or that of a sidecar file.  A      *)
(* generation is the number of the refresh that made it.  The stamp of a   *)
(* manifest (generated_at) counts seconds, so refreshes may share one.     *)
(***************************************************************************)
EXTENDS Naturals, Sequences, FiniteSets

CONSTANTS
    Files,          \* source files, in the order of their paths: 1 .. n
    Sidecars,       \* the media files among them whose text is in a sidecar
    Texts,          \* what a file may say
    None,
    MaxEdits, MaxRefreshes, MaxSeconds, MaxFaults

\* An entry of a payload: the signature and the text of a file, or None.
Entries == [sig : Nat, text : Texts \cup {None}] \cup {None}

ASSUME IndexAssumption ==
    /\ Files = 1 .. Cardinality(Files) /\ Sidecars \subseteq Files /\ Texts # {}
    /\ None \notin Texts \cup Nat \cup [sig : Nat, text : Texts \cup {None}] \cup [Files -> Entries]
    /\ {MaxEdits, MaxRefreshes, MaxSeconds, MaxFaults} \subseteq Nat

Generations == 1 .. MaxRefreshes

VARIABLES
    text, sig,      \* the source files
    edits, now,
    man,            \* the manifest: the generation of its payload, or None
    payload,        \* the payload file of each generation, or None
    stamp,          \* generated_at of each generation
    lexDocs,        \* the generation that the lexical index holds, or None
    lexMeta,        \* the stamp in its metadata, or None
    refreshes,
    pc,             \* where the worker is
    ref,            \* its refresh: old generation, signatures, texts, entries, what it replaces
    sAt,            \* where the search is
    srch,           \* its manifest's generation, lexical generation and vector store
    faults

sourceVars == <<text, sig, edits, now>>
indexVars == <<man, payload, stamp, lexDocs, lexMeta>>

NoEntries == [f \in Files |-> None]
NoRefresh == [old |-> None, sigs |-> NoEntries, texts |-> NoEntries, entries |-> NoEntries,
              replaced |-> None]
NoSearch == [gen |-> None, lex |-> None, model |-> None, doc |-> None]

Fault == faults < MaxFaults /\ faults' = faults + 1

IndexInit ==
    /\ text = [f \in Files |-> IF f = 1 THEN CHOOSE t \in Texts : TRUE ELSE None]
    /\ sig = [f \in Files |-> 0] /\ edits = 0 /\ now = 0
    /\ man = None /\ payload = [g \in Generations |-> None]
    /\ stamp = [g \in Generations |-> 0]
    /\ lexDocs = None /\ lexMeta = None /\ refreshes = 0
    /\ pc = "idle" /\ ref = NoRefresh
    /\ sAt = "idle" /\ srch = NoSearch /\ faults = 0

-----------------------------------------------------------------------------
(* The refresh *)

\* load_or_refresh begins: the old state, hydrated, the signature of every file, and
\* the text of every sidecar, which media_sidecar_state reads before its signature.
\* An old manifest without its payload counts as none.
RefreshBegins ==
    /\ pc = "idle" /\ refreshes < MaxRefreshes /\ refreshes' = refreshes + 1
    /\ ref' = [old |-> IF man # None /\ payload[man] # None THEN man ELSE None,
               sigs |-> [f \in Files |-> IF text[f] = None THEN None ELSE sig[f]],
               texts |-> [f \in Files |-> IF f \in Sidecars THEN text[f] ELSE None],
               entries |-> NoEntries, replaced |-> None]
    /\ pc' = "parse"
    /\ UNCHANGED <<sourceVars, indexVars, sAt, srch, faults>>

\* Mutant: a file is taken for unchanged by its name alone.
ReusedByName(f, old) == old # None

\* refresh_entry keeps the entry of a file whose signature is the one it had.
Reused(f, old) == old # None /\ old.sig = ref.sigs[f]

OldEntry(f) == IF ref.old = None THEN None ELSE payload[ref.old][f]

\* A file is parsed after its signature was taken; one that is gone by then, and one
\* whose parser, OCR or ASR fails, becomes an entry without text, and one that no ASR
\* is available for becomes none.  Of a sidecar the signature is taken last.
refresh_entry(f, outcome) ==
    IF ref.sigs[f] = None THEN None
    ELSE IF Reused(f, OldEntry(f)) THEN OldEntry(f)
    ELSE IF outcome = "unavailable" THEN None
    ELSE [sig  |-> IF f \in Sidecars THEN sig[f] ELSE ref.sigs[f],
          text |-> IF outcome = "failed" THEN None
                   ELSE IF f \in Sidecars THEN ref.texts[f] ELSE text[f]]

Outcomes == {"parsed", "failed", "unavailable"}
Vanished == {f \in Files : ref.sigs[f] # None /\ text[f] = None}

\* refresh_directory, and the stamp of the new manifest.
RefreshParses ==
    /\ pc = "parse" /\ pc' = "payload"
    /\ \A f \in Vanished \cap Sidecars : Reused(f, OldEntry(f))
    /\ \E outcome \in [Files -> Outcomes] :
          /\ \/ outcome = [f \in Files |-> "parsed"] /\ UNCHANGED faults
             \/ Fault
          /\ ref' = [ref EXCEPT !.entries = [f \in Files |-> refresh_entry(f, outcome[f])],
                                !.texts = NoEntries]
    /\ stamp' = [stamp EXCEPT ![refreshes] = now]
    /\ UNCHANGED <<sourceVars, man, payload, lexDocs, lexMeta, refreshes, sAt, srch>>

\* A file that vanishes before its signature is taken fails the whole refresh.
RefreshFails ==
    /\ pc = "parse" /\ Vanished # {}
    /\ pc' = "idle" /\ ref' = NoRefresh
    /\ UNCHANGED <<sourceVars, indexVars, refreshes, sAt, srch, faults>>

\* save_manifest: the payload of the new generation ...
SavesPayload ==
    /\ pc = "payload"
    /\ \/ payload' = [payload EXCEPT ![refreshes] = ref.entries] /\ pc' = "stage" /\ UNCHANGED faults
       \/ Fault /\ pc' = "warm" /\ UNCHANGED payload
    /\ UNCHANGED <<sourceVars, man, stamp, lexDocs, lexMeta, refreshes, ref, sAt, srch>>

\* ... replace_file_with_rollback: the manifest is moved away ...
StagesManifest ==
    /\ pc = "stage"
    /\ \/ man' = None /\ ref' = [ref EXCEPT !.replaced = man] /\ pc' = "publish" /\ UNCHANGED faults
       \/ Fault /\ pc' = "warm" /\ UNCHANGED <<man, ref>>
    /\ UNCHANGED <<sourceVars, payload, stamp, lexDocs, lexMeta, refreshes, sAt, srch>>

\* ... and the new one moved in, or the old one back ...
PublishesManifest ==
    /\ pc = "publish"
    /\ \/ man' = refreshes /\ pc' = "drop" /\ UNCHANGED faults
       \/ Fault /\ man' = ref.replaced /\ pc' = "warm"
    /\ ref' = [ref EXCEPT !.replaced = None]
    /\ UNCHANGED <<sourceVars, payload, stamp, lexDocs, lexMeta, refreshes, sAt, srch>>

\* Mutant: the payload of the replaced manifest is kept.
KeepsPayload ==
    /\ pc = "drop" /\ pc' = "commit" /\ UNCHANGED payload
    /\ UNCHANGED <<sourceVars, man, stamp, lexDocs, lexMeta, refreshes, ref, sAt, srch, faults>>

\* ... and the payload of the old generation removed.
DropsPayload ==
    /\ pc = "drop" /\ pc' = "commit"
    /\ payload' = [g \in Generations |-> IF g = ref.old THEN None ELSE payload[g]]
    /\ UNCHANGED <<sourceVars, man, stamp, lexDocs, lexMeta, refreshes, ref, sAt, srch, faults>>

\* build_lexical_index: all documents anew in one commit, then the metadata.
CommitsLexical ==
    /\ pc = "commit"
    /\ \/ lexDocs' = refreshes /\ pc' = "meta" /\ UNCHANGED faults
       \/ Fault /\ pc' = "warm" /\ UNCHANGED lexDocs
    /\ UNCHANGED <<sourceVars, man, payload, stamp, lexMeta, refreshes, ref, sAt, srch>>

WritesMetadata ==
    /\ pc = "meta" /\ pc' = "warm"
    /\ lexMeta' = stamp[refreshes]
    /\ UNCHANGED <<sourceVars, man, payload, stamp, lexDocs, refreshes, ref, sAt, srch, faults>>

Refresh ==
    \/ RefreshBegins \/ RefreshParses \/ RefreshFails \/ SavesPayload \/ StagesManifest
    \/ PublishesManifest \/ DropsPayload \/ CommitsLexical \/ WritesMetadata

-----------------------------------------------------------------------------
(* The source files and the clock *)

Edits(f, t) ==
    /\ edits < MaxEdits /\ t # text[f] /\ edits' = edits + 1
    /\ text' = [text EXCEPT ![f] = t] /\ sig' = [sig EXCEPT ![f] = edits']
    /\ UNCHANGED <<now, indexVars, refreshes, pc, ref, sAt, srch, faults>>

Tick ==
    /\ now < MaxSeconds /\ now' = now + 1
    /\ UNCHANGED <<text, sig, edits, indexVars, refreshes, pc, ref, sAt, srch, faults>>

-----------------------------------------------------------------------------
(* The search, as far as it reads manifest, lexical index and payload *)

workerVars == <<indexVars, refreshes, pc, ref, faults>>

\* load_existing; without a manifest the answer is degraded.
SearchBegins(model) ==
    /\ sAt = "idle" /\ man # None
    /\ srch' = [NoSearch EXCEPT !.gen = man, !.model = model] /\ sAt' = "lexical"
    /\ UNCHANGED <<sourceVars, workerVars>>

\* lexical_index::search compares the stamp with the manifest's ...
ChecksLexical ==
    /\ sAt = "lexical"
    /\ sAt' = IF lexMeta = stamp[srch.gen] THEN "documents" ELSE "vectors"
    /\ UNCHANGED <<sourceVars, workerVars, srch>>

\* ... then opens the index.
ReadsLexical ==
    /\ sAt = "documents" /\ sAt' = "vectors"
    /\ srch' = [srch EXCEPT !.lex = lexDocs]
    /\ UNCHANGED <<sourceVars, workerVars>>

\* load_entry_payloads; without the file the answer is degraded.
ReadsPayload ==
    /\ sAt = "payload" /\ sAt' = "idle" /\ srch' = NoSearch
    /\ UNCHANGED <<sourceVars, workerVars>>

-----------------------------------------------------------------------------
\* What a refresh holds of file f: what the file says, or after a fault nothing.
SaysTheFile(f) == ref.entries[f] # None /\ ref.entries[f].text = text[f]
SaysNothing(f) == ref.entries[f] = None \/ ref.entries[f].text = None

\* A manifest on disk has its payload (save_manifest writes it first and removes only
\* the replaced one), over crashes and failed renames.  And of a file without a sidecar
\* that is as it was when the refresh began, the refresh indexed what the file says,
\* never an earlier text (refresh_entry takes the signature before it parses, so that
\* the next refresh notices a change); or nothing, where this parse or an earlier one
\* of the same content had failed.
ManifestIsBacked ==
    /\ man # None => payload[man] # None
    /\ pc \notin {"idle", "parse"} =>
           \A f \in Files \ Sidecars : (text[f] # None /\ ref.sigs[f] = sig[f])
               => SaysTheFile(f) \/ (faults # 0 /\ SaysNothing(f))

\* A search that finds the payload of its manifest has used lexical matches of that same
\* generation, or none (lexical_index::search checks the stamp before it opens the index,
\* and save_manifest removes the old payload before build_lexical_index); except within
\* one second, where stamps do not tell generations apart.
SearchIsOfOneGeneration ==
    (sAt = "payload" /\ payload[srch.gen] # None /\ srch.lex # None)
        => (srch.lex = srch.gen \/ stamp[srch.lex] = stamp[srch.gen])
=============================================================================
