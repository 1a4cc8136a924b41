--------------------------- MODULE AdminStateFile ---------------------------
(***************************************************************************)
(* The admin state file as the threads of the admin service use it         *)
(* (AdminConsoleStore).  The file guard makes one load and one save atomic *)
(* to the threads of the process; nothing holds it from a load to the save *)
(* that follows.  An operation of the store is                             *)
(*   a read    load_state: one load;                                       *)
(*   a touch   load_or_create_state: a load, and a save of what was loaded;*)
(*   a change  a touch, then a save of the changed document.               *)
(* A save truncates the file and writes it in place.  One that fails stores*)
(* nothing, or leaves a torn file; so does one that a crash cuts short.  No*)
(* load parses a torn file, until a process that loaded before saves again.*)
(* Operations on model downloads also hold the download guard throughout.  *)
(***************************************************************************)
EXTENDS Naturals, Sequences, FiniteSets

CONSTANTS
    Threads,          \* HTTP threads
    IndexWorkers,     \* index workers, one for each run of the index
    DownloadWorkers,  \* download worker threads
    MaxFaults,        \* bound: saves that fail and crashes
    Nobody

Procs == Threads \cup IndexWorkers \cup DownloadWorkers

ASSUME ProcsAssumption ==
    /\ Nobody \notin Procs /\ MaxFaults \in Nat
    /\ Threads \cap (IndexWorkers \cup DownloadWorkers) = {}
    /\ IndexWorkers \cap DownloadWorkers = {}

VARIABLES
    doc,        \* the document in the file, the last whole one if it is torn
    torn,       \* does the file not parse
    base,       \* the document that each process loaded last
    at,         \* where each process is: its step and the phase of that step
    guard,      \* who holds model_download_write_guard
    faults,     \* saves that failed and crashes so far
    lost        \* history: a save undid what another process had saved

fileVars == <<doc, torn, base, at, guard, faults, lost>>

AtRest == <<"idle", "load">>
At(p, step, phase) == at[p] = <<step, phase>>
Goto(p, step) == at' = [at EXCEPT ![p] = <<step, "load">>]
Phase(p, phase) == at' = [at EXCEPT ![p][2] = phase]

\* load_state, within an operation that goes on
Load(p, step) ==
    /\ At(p, step, "load") /\ ~torn
    /\ base' = [base EXCEPT ![p] = doc] /\ Phase(p, "resave")
    /\ UNCHANGED <<doc, torn, faults, lost>>

\* save_state: the whole document, whatever the file holds by now.
Save(p, d) == doc' = d /\ torn' = FALSE /\ lost' = (lost \/ base[p] # doc)

\* The save of load_or_create_state when the operation goes on.
Resave(p, step) ==
    /\ At(p, step, "resave")
    /\ Save(p, base[p]) /\ Phase(p, "save") /\ UNCHANGED <<base, faults>>

\* The last save of an operation, and an operation that a failed load or save ends.
Return(p, next) == Goto(p, next) /\ base' = [base EXCEPT ![p] = Nobody]

Stores(p, step, phase, d, next) ==
    At(p, step, phase) /\ Save(p, d) /\ Return(p, next) /\ UNCHANGED faults

Fails(p, step, phases, error) ==
    /\ \E phase \in phases : At(p, step, phase)
    /\ faults < MaxFaults /\ faults' = faults + 1
    /\ torn' \in {torn, TRUE}
    /\ Return(p, error) /\ UNCHANGED <<doc, lost>>

Unparsed(p, step, error) ==
    /\ At(p, step, "load") /\ torn
    /\ Return(p, error) /\ UNCHANGED <<doc, torn, faults, lost>>

\* Does this step end p's operation with an error?
Errs(p) == faults' > faults \/ (torn /\ at[p][2] = "load")

\* A read: the next step may depend on doc, which it loads.
Read(p, step, next, error) ==
    /\ At(p, step, "load") /\ Goto(p, IF torn THEN error ELSE next)
    /\ UNCHANGED <<doc, torn, base, guard, faults, lost>>

\* load_or_create_state: the next step may depend on base[p], which it loaded.
Touch(p, step, next, error) ==
    /\ \/ Load(p, step)
       \/ Stores(p, step, "resave", base[p], next)
       \/ Fails(p, step, {"resave"}, error)
       \/ Unparsed(p, step, error)
    /\ UNCHANGED guard

\* A change: load_or_create_state, then save_projected_state of d, made from base[p].
Change(p, step, d, next, error) ==
    /\ \/ Load(p, step)
       \/ Resave(p, step)
       \/ Stores(p, step, "save", d, next)
       \/ Fails(p, step, {"resave", "save"}, error)
       \/ Unparsed(p, step, error)
    /\ UNCHANGED guard

\* A change under the download guard.
GuardedChange(p, step, d, next, error) ==
    \/ Load(p, step) /\ guard = Nobody /\ guard' = p
    \/ Unparsed(p, step, error) /\ guard = Nobody /\ UNCHANGED guard
    \/ Resave(p, step) /\ UNCHANGED guard
    \/ /\ \/ Stores(p, step, "save", d, next)
          \/ Fails(p, step, {"resave", "save"}, error)
       /\ guard' = Nobody
=============================================================================
