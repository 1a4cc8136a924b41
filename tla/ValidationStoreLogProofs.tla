---------------------- MODULE ValidationStoreLogProofs ----------------------
(***************************************************************************)
(* Proofs about the files of the validation store: the index of a process  *)
(* is current whenever it is used, and no record whose write succeeded is  *)
(* lost to failed calls, crashes, power losses or rotations, for any       *)
(* processes, keys, threshold and number of faults.                        *)
(***************************************************************************)
EXTENDS ValidationStoreLog, WellFoundedInduction, TLAPS

-----------------------------------------------------------------------------
(* The invariant.                                                          *)

\* A process with a record in hand that is not in the main segment yet, or is.
Writing == {"append", "writing", "archive", "replace"}
Wrote   == {"syncing", "appended"}

\* An index of the current generation is current, and there is none while a
\* record is being written: the generation is taken before anything is written.
IndexOK(p) ==
  index[p].initialized =>
    /\ index[p].fingerprint[1] <= generation
    /\ index[p].fingerprint[1] = generation =>
         index[p].latest = Latest /\ \A q \in Process : pc[q] \notin Writing \cup Wrote

\* The place of a process tells what it knows and what it has done so far.
PlaceOK(p) ==
  /\ pc[p] \in {"ready"} \cup Writing => index[p].initialized /\ index[p].latest = Latest
  /\ pc[p] = "ready" => index[p].fingerprint[1] = generation
  /\ pc[p] \in Writing \cup Wrote =>
       line[p] \in Line /\ line[p].val \in unacked[line[p].key]
  /\ pc[p] \in Wrote => /\ index[p].initialized
                        /\ Latest = [index[p].latest EXCEPT ![line[p].key] = line[p].val]
  /\ pc[p] = "appended" => synced = Len(main)
  /\ pc[p] = "archive" => generation \notin DOMAIN archives /\ main /= << >>
  /\ pc[p] = "replace" => generation \in DOMAIN archives /\ archives[generation] = main
  /\ pc[p] \in {"append", "writing"} => Len(main) < Threshold

ArchivesOK ==
  \A g \in DOMAIN archives : g <= generation /\ archives[g] /= << >>

\* However much of the lines that are not synced a power loss takes.
DurableOK ==
  \A n \in synced..Len(main) : \A k \in Key :
    View(archives, SubSeq(main, 1, n))[k] \in {acked[k]} \cup unacked[k]

LogInv ==
  /\ TypeOK
  /\ \A p \in Process : IndexOK(p) /\ PlaceOK(p)
  /\ ArchivesOK
  /\ SegmentBounded
  /\ DurableOK

-----------------------------------------------------------------------------
(* Largest elements.                                                       *)

\* A non-empty set of naturals has a smallest element.
LEMMA SmallestOf ==
  ASSUME NEW T, T \subseteq Nat, T /= {}
  PROVE  \E x \in T : \A y \in T : x <= y
<1> DEFINE R == OpToRel(<, Nat)
<1>1. IsWellFoundedOn(R, Nat)
  BY Zenon, NatLessThanWellFounded
<1>2. \A x, y \in Nat : y < x => <<y, x>> \in R
  BY Zenon DEF OpToRel
<1> HIDE DEF R
<1>3. PICK x \in T : \A y \in T : ~ (<<y, x>> \in R)
  BY Zenon, <1>1, WFMin
<1>4. \A y \in T : ~(y < x)
  BY Zenon, <1>2, <1>3
<1>5. \A y \in T : x <= y
  BY <1>4
<1> QED  BY Zenon, <1>5

\* Newest picks the largest of a bounded, non-empty set of naturals.
LEMMA NewestOf ==
  ASSUME NEW n \in Nat, NEW S, S \subseteq 0..n, S /= {}
  PROVE  Newest(S) \in S /\ \A y \in S : y <= Newest(S)
<1> DEFINE T == {m \in Nat : n - m \in S}
<1>1. PICK s : s \in S
  BY Zenon
<1>2. n - s \in T
  <2>1. n - s \in Nat /\ n - (n - s) = s
    BY <1>1
  <2> QED  BY Zenon, <1>1, <2>1
<1>3. PICK t \in T : \A u \in T : t <= u
  <2>1. T \subseteq Nat /\ T /= {}
    BY Zenon, <1>2
  <2> HIDE DEF T
  <2> QED  BY Zenon, <2>1, SmallestOf
<1>4. ASSUME NEW y \in S PROVE y <= n - t
  <2>1. y \in Nat /\ n - y \in Nat /\ n - (n - y) = y
    OBVIOUS
  <2>2. n - y \in T
    BY Zenon, <2>1
  <2>3. t <= n - y
    BY Zenon, <1>3, <2>2
  <2> QED  BY <2>1, <2>3
<1>5. \E x \in S : \A y \in S : y <= x
  BY Zenon, <1>3, <1>4
<1> QED  BY Zenon, <1>5 DEF Newest

\* An element of a set of naturals that no other exceeds is its newest.
LEMMA NewestIs ==
  ASSUME NEW S, S \subseteq Nat, NEW i \in S, \A j \in S : j <= i
  PROVE  Newest(S) = i
<1>1. \A x \in S : (\A j \in S : j <= x) => x = i
  OBVIOUS
<1> QED  BY Zenon, <1>1 DEF Newest

-----------------------------------------------------------------------------
(* What writing does to the view of the files.                             *)

Segment(s) == s \in Seq(Line)

\* Archives are segments under generations up to g.
ArchivesUpTo(ar, g) ==
  /\ g \in Nat /\ DOMAIN ar \subseteq 0..g
  /\ \A h \in DOMAIN ar : Segment(ar[h])

\* The lines of a key in a segment that has some: one of them is the newest.
LEMMA NewestLine ==
  ASSUME NEW s, Segment(s), NEW k, Of(k, s) /= {}
  PROVE  Newest(Of(k, s)) \in Of(k, s)
<1>1. Len(s) \in Nat /\ Of(k, s) \subseteq 0..Len(s)
  BY DEF Segment, Of
<1> QED  BY Zenon, <1>1, NewestOf

\* Appending a line changes the last line of its key and of no other.
LEMMA LinesOfAppend ==
  ASSUME NEW s, Segment(s), NEW l \in Line, NEW k
  PROVE  /\ l.key = k => Of(k, Append(s, l)) /= {} /\ LastOf(k, Append(s, l)) = l.val
         /\ l.key /= k => /\ Of(k, Append(s, l)) = Of(k, s)
                          /\ Of(k, s) /= {} => LastOf(k, Append(s, l)) = LastOf(k, s)
<1> DEFINE t == Append(s, l)
<1>1. /\ Len(s) \in Nat /\ DOMAIN s = 1..Len(s) /\ DOMAIN t = 1..(Len(s) + 1)
      /\ \A i \in 1..Len(s) : t[i] = s[i]
      /\ t[Len(s) + 1] = l
  BY DEF Segment
<1> HIDE DEF t
<1>2. CASE l.key = k
  <2>1. Len(s) + 1 \in Of(k, t) /\ Of(k, t) \subseteq Nat /\ \A j \in Of(k, t) : j <= Len(s) + 1
    BY <1>1, <1>2 DEF Of
  <2>2. Newest(Of(k, t)) = Len(s) + 1
    BY Zenon, <2>1, NewestIs
  <2> QED  BY Zenon, <1>1, <1>2, <2>1, <2>2 DEF LastOf, t
<1>3. CASE l.key /= k
  <2>1. Of(k, t) = Of(k, s)
    BY <1>1, <1>3 DEF Of
  <2>2. ASSUME Of(k, s) /= {} PROVE LastOf(k, t) = LastOf(k, s)
    <3>1. Newest(Of(k, s)) \in Of(k, s)
      BY Zenon, <2>2, NewestLine
    <3>2. t[Newest(Of(k, s))] = s[Newest(Of(k, s))]
      BY Zenon, <1>1, <3>1 DEF Of
    <3> QED  BY Zenon, <2>1, <3>2 DEF LastOf
  <2> QED  BY Zenon, <1>3, <2>1, <2>2 DEF t
<1> QED  BY Zenon, <1>2, <1>3

\* Appending a line to the main segment sets the value of its key.
LEMMA ViewOfAppend ==
  ASSUME NEW ar, NEW s, Segment(s), NEW l \in Line
  PROVE  View(ar, Append(s, l)) = [View(ar, s) EXCEPT ![l.key] = l.val]
<1>1. ASSUME NEW k \in Key
      PROVE  View(ar, Append(s, l))[k] = IF k = l.key THEN l.val ELSE View(ar, s)[k]
  <2>1. CASE k = l.key
    BY Zenon, <2>1, LinesOfAppend DEF View
  <2>2. CASE k /= l.key
    BY Zenon, <2>2, LinesOfAppend DEF View
  <2> QED  BY Zenon, <2>1, <2>2
<1>2. l.key \in Key
  BY Zenon DEF Line
<1> QED  BY Zenon, <1>1, <1>2 DEF View

\* Archiving a segment s under a new generation: what is looked up in the
\* archives afterwards is found in s first.
LEMMA ArchivedInCopy ==
  ASSUME NEW ar, NEW g, ArchivesUpTo(ar, g), g \notin DOMAIN ar, NEW s, Segment(s), NEW k
  PROVE  LET br == [h \in DOMAIN ar \cup {g} |-> IF h = g THEN s ELSE ar[h]] IN
         Archived(k, br) = IF Of(k, s) = {} THEN Archived(k, ar) ELSE LastOf(k, s)
<1> DEFINE br == [h \in DOMAIN ar \cup {g} |-> IF h = g THEN s ELSE ar[h]]
<1>1. /\ DOMAIN br = DOMAIN ar \cup {g} /\ br[g] = s
      /\ \A h \in DOMAIN ar : br[h] = ar[h]
  BY Zenon
<1> HIDE DEF br
<1>2. CASE Of(k, s) /= {}
  <2>1. /\ g \in ArchivesOf(k, br) /\ ArchivesOf(k, br) \subseteq Nat
        /\ \A h \in ArchivesOf(k, br) : h <= g
    BY <1>1, <1>2 DEF ArchivesOf, ArchivesUpTo
  <2>2. Newest(ArchivesOf(k, br)) = g
    BY Zenon, <2>1, NewestIs
  <2> QED  BY Zenon, <1>1, <1>2, <2>1, <2>2 DEF Archived, br
<1>3. CASE Of(k, s) = {}
  <2>1. ArchivesOf(k, br) = ArchivesOf(k, ar)
    BY Zenon, <1>1, <1>3 DEF ArchivesOf
  <2>2. CASE ArchivesOf(k, ar) /= {}
    <3>1. ArchivesOf(k, ar) \subseteq 0..g /\ g \in Nat
      BY Zenon DEF ArchivesOf, ArchivesUpTo
    <3>2. Newest(ArchivesOf(k, ar)) \in DOMAIN ar
      BY Zenon, <2>2, <3>1, NewestOf DEF ArchivesOf
    <3> QED  BY Zenon, <1>1, <1>3, <2>1, <2>2, <3>2 DEF Archived, br
  <2>3. CASE ArchivesOf(k, ar) = {}
    BY Zenon, <1>3, <2>1, <2>3 DEF Archived, br
  <2> QED  BY Zenon, <2>2, <2>3
<1> QED  BY Zenon, <1>2, <1>3 DEF br

\* A segment with one line, over archives the newest of which is the segment it
\* replaces, shows what appending the line would have shown.
LEMMA ViewOfReplace ==
  ASSUME NEW ar, NEW g, ArchivesUpTo(ar, g), g \in DOMAIN ar, NEW l \in Line
  PROVE  View(ar, <<l>>) = [View(ar, ar[g]) EXCEPT ![l.key] = l.val]
<1> DEFINE s == ar[g]
<1>1. Segment(s)
  BY Zenon DEF ArchivesUpTo
<1>2. ASSUME NEW k \in Key
      PROVE  View(ar, <<l>>)[k] = IF k = l.key THEN l.val ELSE View(ar, s)[k]
  <2>1. /\ k = l.key => Of(k, <<l>>) = {1} /\ LastOf(k, <<l>>) = l.val
        /\ k /= l.key => Of(k, <<l>>) = {}
    <3>1. DOMAIN <<l>> = {1} /\ <<l>>[1] = l
      OBVIOUS
    <3>2. Newest({1}) = 1
      BY NewestIs
    <3> QED  BY Zenon, <3>1, <3>2 DEF Of, LastOf
  <2>2. CASE k = l.key
    BY Zenon, <2>1, <2>2 DEF View
  <2>3. CASE k /= l.key /\ Of(k, s) /= {}
    <3>1. /\ g \in ArchivesOf(k, ar) /\ ArchivesOf(k, ar) \subseteq Nat
          /\ \A h \in ArchivesOf(k, ar) : h <= g
      BY <2>3 DEF ArchivesOf, ArchivesUpTo
    <3>2. Newest(ArchivesOf(k, ar)) = g
      BY Zenon, <3>1, NewestIs
    <3> QED  BY Zenon, <2>1, <2>3, <3>1, <3>2 DEF View, Archived
  <2>4. CASE k /= l.key /\ Of(k, s) = {}
    BY Zenon, <2>1, <2>4 DEF View
  <2> QED  BY Zenon, <2>2, <2>3, <2>4
<1>3. l.key \in Key
  BY Zenon DEF Line
<1> QED  BY Zenon, <1>2, <1>3 DEF View

\* Archiving a copy of s shows nothing new: s over the archives looks the same,
\* and a key of any segment t has the value it had under t or under s.
LEMMA ViewOfCopy ==
  ASSUME NEW ar, NEW g, ArchivesUpTo(ar, g), g \notin DOMAIN ar, NEW s, Segment(s), NEW br,
         br = [h \in DOMAIN ar \cup {g} |-> IF h = g THEN s ELSE ar[h]]
  PROVE  /\ View(br, s) = View(ar, s)
         /\ \A t : \A k \in Key : View(br, t)[k] \in {View(ar, t)[k], View(ar, s)[k]}
<1>1. \A k : Archived(k, br) = IF Of(k, s) = {} THEN Archived(k, ar) ELSE LastOf(k, s)
  BY ArchivedInCopy
<1> QED  BY Zenon, <1>1 DEF View

-----------------------------------------------------------------------------
(* Types.                                                                  *)

\* A view gives every key a value.
LEMMA ViewType ==
  ASSUME NEW ar, NEW g, ArchivesUpTo(ar, g), NEW s, Segment(s)
  PROVE  View(ar, s) \in [Key -> Value]
<1>1. 0 \in Value
  BY BoundAssumption DEF Value
<1>2. ASSUME NEW t, Segment(t), NEW k, Of(k, t) /= {} PROVE LastOf(k, t) \in Value
  <2>1. Newest(Of(k, t)) \in DOMAIN t
    BY Zenon, <1>2, NewestLine DEF Of
  <2>2. t[Newest(Of(k, t))] \in Line
    BY <1>2, <2>1 DEF Segment
  <2> QED  BY Zenon, <2>2 DEF LastOf, Line
<1>3. ASSUME NEW k PROVE Archived(k, ar) \in Value
  <2>1. CASE ArchivesOf(k, ar) /= {}
    <3>1. ArchivesOf(k, ar) \subseteq 0..g /\ g \in Nat
      BY Zenon DEF ArchivesOf, ArchivesUpTo
    <3>2. Newest(ArchivesOf(k, ar)) \in ArchivesOf(k, ar)
      BY Zenon, <2>1, <3>1, NewestOf
    <3>3. Segment(ar[Newest(ArchivesOf(k, ar))]) /\ Of(k, ar[Newest(ArchivesOf(k, ar))]) /= {}
      BY Zenon, <3>2 DEF ArchivesOf, ArchivesUpTo
    <3> QED  BY Zenon, <1>2, <2>1, <3>3 DEF Archived
  <2> QED  BY Zenon, <1>1, <2>1 DEF Archived
<1> QED  BY Zenon, <1>2, <1>3 DEF View

\* The archives on disk are segments under generations taken so far.
LEMMA ArchivesTyped == TypeOK /\ ArchivesOK => ArchivesUpTo(archives, generation) /\ Segment(main)
BY DEF TypeOK, ArchivesOK, ArchivesUpTo, Segment

\* Only one process is inside an operation.
LEMMA Alone ==
  ASSUME TypeOK, NEW p \in Process, pc[p] /= "idle"
  PROVE  lock = {p} /\ \A q \in Process \ {p} : pc[q] = "idle"
BY DEF TypeOK

\* Ending an operation keeps the types of lock, place and line.
LEMMA LeaveTypes ==
  ASSUME TypeOK, NEW p \in Process, Leave(p)
  PROVE  /\ pc' \in [Process -> Place] /\ line' \in [Process -> Line \cup {NoLine}]
         /\ lock' = {q \in Process : pc'[q] /= "idle"}
         /\ \A q, r \in lock' : q = r
BY Zenon DEF TypeOK, Leave, Goto, Place

\* Moving on within an operation does, too.
LEMMA GotoTypes ==
  ASSUME TypeOK, NEW p \in Process, pc[p] /= "idle", NEW at \in Place \ {"idle"}, Goto(p, at),
         UNCHANGED lock
  PROVE  /\ pc' \in [Process -> Place]
         /\ lock' = {q \in Process : pc'[q] /= "idle"}
         /\ \A q, r \in lock' : q = r
<1>1. lock = {p} /\ \A q \in Process \ {p} : pc[q] = "idle"
  BY Zenon, Alone
<1>2. pc' \in [Process -> Place] /\ \A q \in Process : pc'[q] = IF q = p THEN at ELSE pc[q]
  BY Zenon DEF TypeOK, Goto
<1> QED  BY Zenon, <1>1, <1>2

\* The fingerprint of the files.
LEMMA FingerprintType ==
  TypeOK => /\ Fingerprint \in Nat \X Nat \X BOOLEAN \X (Inode \cup {0})
            /\ Fingerprint[1] = generation
BY DEF TypeOK, Fingerprint

\* Every step keeps the types.
LEMMA TypeStep == LogInv /\ [Next]_vars => TypeOK'
<1> SUFFICES ASSUME LogInv, [Next]_vars PROVE TypeOK'
  BY Zenon
<1>1. TypeOK /\ Latest \in [Key -> Value]
  BY Zenon, ArchivesTyped, ViewType DEF LogInv, Latest
<1>2. ASSUME NEW p \in Process, Lock(p) PROVE TypeOK'
  BY <1>1, <1>2 DEF TypeOK, Lock, Goto, Place, files
<1>3. ASSUME NEW p \in Process, repair_truncated_tail(p) PROVE TypeOK'
  <2>1. index' \in [Process -> Index]
    BY Zenon, <1>1, <1>3 DEF TypeOK, repair_truncated_tail, Index
  <2>3. synced' \in 0..Len(main') /\ torn' \in BOOLEAN
    <3>1. Len(main) \in Nat /\ synced \in 0..Len(main) /\ main' = main /\ torn' = FALSE
      BY <1>1, <1>3 DEF TypeOK, repair_truncated_tail
    <3>2. synced' = Len(main) \/ synced' = synced
      BY Zenon, <1>3 DEF repair_truncated_tail
    <3>3. torn' \in BOOLEAN
      BY Zenon, <3>1
    <3>4. synced' \in 0..Len(main)
      BY <3>1, <3>2
    <3> QED  BY Zenon, <3>1, <3>3, <3>4
  <2>2. pc' \in [Process -> Place] /\ lock' = {q \in Process : pc'[q] /= "idle"}
        /\ \A q, r \in lock' : q = r
    BY Zenon, <1>1, <1>3, GotoTypes DEF repair_truncated_tail, Place
  <2> QED  BY Zenon, <1>1, <1>3, <2>1, <2>2, <2>3 DEF TypeOK, repair_truncated_tail
<1>4. ASSUME NEW p \in Process, refresh_index_if_needed(p) PROVE TypeOK'
  <2>1. CASE ~IndexIsCurrent(p) /\ Unreadable
    BY Zenon, <1>1, <1>4, <2>1, LeaveTypes DEF TypeOK, refresh_index_if_needed, files
  <2>2. CASE IndexIsCurrent(p) \/ ~Unreadable
    <3>1. pc' \in [Process -> Place] /\ lock' = {q \in Process : pc'[q] /= "idle"}
          /\ \A q, r \in lock' : q = r
      BY Zenon, <1>1, <1>4, <2>2, GotoTypes DEF refresh_index_if_needed, Place
    <3> DEFINE i == IF IndexIsCurrent(p) THEN index[p]
                    ELSE [initialized |-> TRUE, latest |-> Latest, fingerprint |-> Fingerprint]
    <3>2. i \in Index
      BY Zenon, <1>1, FingerprintType DEF TypeOK, Index
    <3>3. index' = [index EXCEPT ![p] = i]
      BY Zenon, <1>4, <2>2 DEF refresh_index_if_needed
    <3> HIDE DEF i
    <3>4. index' \in [Process -> Index]
      BY Zenon, <1>1, <3>2, <3>3 DEF TypeOK
    <3> QED  BY Zenon, <1>1, <1>4, <2>2, <3>1, <3>4 DEF TypeOK, refresh_index_if_needed, files
  <2> QED  BY Zenon, <2>1, <2>2
<1>5. ASSUME NEW p \in Process, Unlock(p) PROVE TypeOK'
  BY Zenon, <1>1, <1>5, LeaveTypes DEF TypeOK, Unlock, files
<1>6. ASSUME NEW p \in Process, NEW k \in Key, BeginAppend(p, k) PROVE TypeOK'
  <2> DEFINE at == IF Full THEN "archive" ELSE "append"
             l  == [key |-> k, val |-> writes + 1]
  <2>1. at \in Place \ {"idle"}
    BY Zenon DEF Place
  <2>2. pc' \in [Process -> Place] /\ lock' = {q \in Process : pc'[q] /= "idle"}
        /\ \A q, r \in lock' : q = r
    <3>1. pc[p] /= "idle" /\ Goto(p, at) /\ UNCHANGED lock
      BY Zenon, <1>6 DEF BeginAppend
    <3> HIDE DEF at
    <3> QED  BY Zenon, <1>1, <2>1, <3>1, GotoTypes
  <2>3. writes + 1 \in Value /\ writes + 1 \in 0..MaxWrites
    BY <1>1, <1>6, BoundAssumption DEF BeginAppend, TypeOK, Value
  <2>4. l \in Line
    BY Zenon, <2>3 DEF Line
  <2>5. line' \in [Process -> Line \cup {NoLine}]
    BY Zenon, <1>1, <1>6, <2>4 DEF BeginAppend, TypeOK
  <2>6. unacked' \in [Key -> SUBSET Value]
    BY Zenon, <1>1, <1>6, <2>3 DEF BeginAppend, TypeOK
  <2> QED  BY <1>1, <1>6, <2>2, <2>3, <2>5, <2>6 DEF TypeOK, BeginAppend, advance_generation
<1>7. ASSUME NEW p \in Process, WritePart(p) \/ WriteRest(p) \/ Sync(p) \/ Replace(p) PROVE TypeOK'
  <2>1. pc' \in [Process -> Place] /\ lock' = {q \in Process : pc'[q] /= "idle"}
        /\ \A q, r \in lock' : q = r
    BY Zenon, <1>1, <1>7, GotoTypes DEF WritePart, WriteRest, Sync, Replace, Place
  <2>2. ASSUME WriteRest(p) \/ Replace(p) PROVE line[p] \in Line
    <3>1. PlaceOK(p)
      BY Zenon DEF LogInv
    <3>2. pc[p] \in Writing
      BY Zenon, <2>2 DEF Writing, WriteRest, Replace
    <3> QED  BY Zenon, <3>1, <3>2 DEF PlaceOK
  <2>3. main' \in Seq(Line) /\ synced' \in 0..Len(main')
    <3>1. CASE WritePart(p) \/ Sync(p)
      BY <1>1, <3>1 DEF TypeOK, WritePart, Sync
    <3>2. CASE WriteRest(p)
      <4>1. line[p] \in Line /\ main \in Seq(Line) /\ synced \in 0..Len(main)
        BY Zenon, <1>1, <2>2, <3>2 DEF TypeOK
      <4>2. main' = Append(main, line[p]) /\ synced' = synced
        BY Zenon, <3>2 DEF WriteRest
      <4> QED  BY <4>1, <4>2
    <3>3. CASE Replace(p)
      BY <1>1, <2>2, <3>3 DEF TypeOK, Replace
    <3> QED  BY Zenon, <1>7, <3>1, <3>2, <3>3
  <2> QED  BY Zenon, <1>1, <1>7, <2>1, <2>3 DEF TypeOK, WritePart, WriteRest, Sync, Replace
<1>8. ASSUME NEW p \in Process, Archive(p) PROVE TypeOK'
  <2>1. CASE generation \in DOMAIN archives
    BY Zenon, <1>1, <1>8, <2>1, LeaveTypes DEF TypeOK, Archive
  <2>2. CASE generation \notin DOMAIN archives
    <3>1. pc' \in [Process -> Place] /\ lock' = {q \in Process : pc'[q] /= "idle"}
          /\ \A q, r \in lock' : q = r
      BY Zenon, <1>1, <1>8, <2>2, GotoTypes DEF Archive, Place
    <3>2. DOMAIN archives' \subseteq Nat /\ \A g \in DOMAIN archives' : archives'[g] \in Seq(Line)
      BY <1>1, <1>8, <2>2 DEF TypeOK, Archive
    <3> QED  BY Zenon, <1>1, <1>8, <2>2, <3>1, <3>2 DEF TypeOK, Archive
  <2> QED  BY Zenon, <2>1, <2>2
<1>9. ASSUME NEW p \in Process, persist_index_record(p) PROVE TypeOK'
  <2>1. pc' \in [Process -> Place] /\ lock' = {q \in Process : pc'[q] /= "idle"}
        /\ \A q, r \in lock' : q = r
    BY Zenon, <1>1, <1>9, GotoTypes DEF persist_index_record, Place
  <2>2. line[p] \in Line /\ line[p].key \in Key /\ line[p].val \in Value
    BY Zenon, <1>9 DEF LogInv, PlaceOK, Wrote, persist_index_record, Line
  <2> DEFINE i == [initialized |-> index[p].initialized,
                   latest |-> [index[p].latest EXCEPT ![line[p].key] = line[p].val],
                   fingerprint |-> Fingerprint]
  <2>3. i \in Index
    BY Zenon, <1>1, <2>2, FingerprintType DEF TypeOK, Index
  <2>4. index' = [index EXCEPT ![p] = i]
    BY Zenon, <1>9 DEF persist_index_record
  <2> HIDE DEF i
  <2>5. index' \in [Process -> Index]
    BY Zenon, <1>1, <2>3, <2>4 DEF TypeOK
  <2>6. acked' \in [Key -> Value] /\ unacked' \in [Key -> SUBSET Value]
        /\ line' \in [Process -> Line \cup {NoLine}]
    BY Zenon, <1>1, <1>9, <2>2 DEF TypeOK, persist_index_record
  <2> QED  BY Zenon, <1>1, <1>9, <2>1, <2>5, <2>6 DEF TypeOK, persist_index_record, files
<1>10. Unread \in Index
  <2>1. 0 \in Value
    BY BoundAssumption DEF Value
  <2> QED  BY Zenon, <2>1 DEF Unread, Index, NoRecords
<1>11. ASSUME NEW p \in Process, Fail(p) \/ Crash(p) PROVE TypeOK'
  <2>1. faults' \in 0..MaxFaults
    BY <1>1, <1>11, BoundAssumption DEF Fail, Crash, Fault, TypeOK
  <2> QED  BY Zenon, <1>1, <1>10, <1>11, <2>1, LeaveTypes DEF TypeOK, Fail, Crash, files
<1>12. ASSUME PowerLoss PROVE TypeOK'
  <2>1. faults' \in 0..MaxFaults
    BY <1>1, <1>12, BoundAssumption DEF PowerLoss, Fault, TypeOK
  <2>2. PICK n \in synced..Len(main) : main' = SubSeq(main, 1, n) /\ synced' = n
    BY Zenon, <1>12 DEF PowerLoss
  <2>3. main' \in Seq(Line) /\ synced' \in 0..Len(main')
    BY <1>1, <2>2 DEF TypeOK
  <2> QED  BY Zenon, <1>1, <1>10, <1>12, <2>1, <2>3 DEF TypeOK, PowerLoss, Place
<1>13. CASE UNCHANGED vars
  BY Zenon, <1>1, <1>13 DEF TypeOK, vars, files
<1> QED  BY Zenon, <1>2, <1>3, <1>4, <1>5, <1>6, <1>7, <1>8, <1>9, <1>11, <1>12, <1>13 DEF Next

-----------------------------------------------------------------------------
(* Indexes.                                                                *)

Busy == Writing \cup Wrote

\* An index that a step leaves alone stays true: nothing changed, or a record was
\* being written and the index is of an older generation, or the step makes it so.
LEMMA IndexKept ==
  ASSUME TypeOK, NEW q \in Process, IndexOK(q), index'[q] = index[q],
         \/ /\ generation' = generation /\ Latest' = Latest
            /\ \A r \in Process : pc'[r] \in Busy => pc[r] \in Busy
         \/ generation' = generation /\ \E r \in Process : pc[r] \in Busy
         \/ generation' = generation + 1
  PROVE  IndexOK(q)'
<1>1. generation \in Nat /\ index[q].fingerprint[1] \in Nat
  BY Zenon DEF TypeOK, Index
<1> QED  BY <1>1 DEF IndexOK, Busy

\* Nothing is asked of an index that was dropped.
LEMMA IndexDropped == ASSUME NEW q \in Process, ~index'[q].initialized PROVE IndexOK(q)'
BY Zenon DEF IndexOK

\* Nothing is asked of a process outside an operation or at its beginning.
LEMMA PlaceOutside ==
  ASSUME NEW q \in Process, pc'[q] \in {"idle", "locked", "repaired"} PROVE PlaceOK(q)'
BY Zenon DEF PlaceOK, Writing, Wrote

\* While one process is inside an operation, the others stay outside.
LEMMA OthersOutside ==
  ASSUME TypeOK, NEW p \in Process, pc[p] /= "idle", NEW at, Goto(p, at),
         NEW q \in Process, q /= p
  PROVE  pc'[q] = "idle" /\ PlaceOK(q)'
<1>1. pc'[q] = "idle"
  BY Zenon, Alone DEF TypeOK, Goto
<1> QED  BY Zenon, <1>1, PlaceOutside

\* What a step does to the view of the files.
LEMMA LatestSame == UNCHANGED <<archives, main>> => Latest' = Latest
BY Zenon DEF Latest

-----------------------------------------------------------------------------
(* Steps outside the files, and of appending.                              *)

\* Steps outside append_unlocked keep the indexes and the places right.
LEMMA OutsideStep ==
  ASSUME LogInv, NEW p \in Process,
         Lock(p) \/ repair_truncated_tail(p) \/ refresh_index_if_needed(p) \/ Unlock(p)
  PROVE  \A q \in Process : IndexOK(q)' /\ PlaceOK(q)'
<1> SUFFICES ASSUME NEW q \in Process PROVE IndexOK(q)' /\ PlaceOK(q)'
  BY Zenon
<1>1. TypeOK /\ IndexOK(q) /\ IndexOK(p) /\ PlaceOK(q) /\ PlaceOK(p)
  BY Zenon DEF LogInv
<1>2. Latest' = Latest /\ UNCHANGED <<generation, archives, main>>
  BY Zenon, LatestSame DEF Lock, repair_truncated_tail, refresh_index_if_needed, Unlock, files
<1>3. \A r \in Process : pc'[r] \in Busy => pc[r] \in Busy
  BY Zenon, <1>1 DEF TypeOK, Lock, repair_truncated_tail, refresh_index_if_needed, Unlock, Leave, Goto,
              Busy, Writing, Wrote
<1>4. CASE Lock(p)
  <2>1. index'[q] = index[q] /\ (pc[q] = "idle")
    BY Zenon, <1>1, <1>4 DEF Lock, TypeOK
  <2>2. pc'[q] \in {"idle", "locked"}
    BY Zenon, <1>1, <1>4, <2>1 DEF Lock, Goto, TypeOK
  <2> QED  BY Zenon, <1>1, <1>2, <1>3, <2>1, <2>2, IndexKept, PlaceOutside
<1>5. CASE repair_truncated_tail(p)
  <2>1. index'[q] = index[q] \/ ~index'[q].initialized
    BY Zenon, <1>1, <1>5 DEF repair_truncated_tail, TypeOK
  <2>2. pc'[q] \in {"idle", "repaired"}
    BY Zenon, <1>1, <1>5, Alone DEF repair_truncated_tail, Goto, TypeOK
  <2> QED  BY Zenon, <1>1, <1>2, <1>3, <2>1, <2>2, IndexKept, IndexDropped, PlaceOutside
<1>6. CASE Unlock(p)
  <2>1. index'[q] = index[q]
    BY Zenon, <1>6 DEF Unlock
  <2>2. pc'[q] = "idle"
    BY Zenon, <1>1, <1>6, Alone DEF Unlock, Leave, Goto, TypeOK
  <2> QED  BY Zenon, <1>1, <1>2, <1>3, <2>1, <2>2, IndexKept, PlaceOutside
<1>7. CASE refresh_index_if_needed(p)
  <2>1. CASE ~IndexIsCurrent(p) /\ Unreadable
    <3>1. index'[q] = index[q]
      BY Zenon, <1>7, <2>1 DEF refresh_index_if_needed
    <3>2. pc'[q] = "idle"
      BY <1>1, <1>7, <2>1, Alone DEF refresh_index_if_needed, Leave, Goto, TypeOK
    <3> QED  BY Zenon, <1>1, <1>2, <1>3, <3>1, <3>2, IndexKept, PlaceOutside
  <2>2. CASE (IndexIsCurrent(p) \/ ~Unreadable) /\ q /= p
    <3>1. index'[q] = index[q]
      BY Zenon, <1>1, <1>7, <2>2 DEF refresh_index_if_needed, TypeOK
    <3>2. PlaceOK(q)'
      BY Zenon, <1>1, <1>7, <2>2, OthersOutside DEF refresh_index_if_needed
    <3> QED  BY Zenon, <1>1, <1>2, <1>3, <3>1, <3>2, IndexKept
  <2>3. CASE (IndexIsCurrent(p) \/ ~Unreadable) /\ q = p
    <3> DEFINE i == IF IndexIsCurrent(p) THEN index[p]
                    ELSE [initialized |-> TRUE, latest |-> Latest, fingerprint |-> Fingerprint]
    <3>1. i.initialized /\ i.latest = Latest /\ i.fingerprint[1] = generation
      <4>1. CASE IndexIsCurrent(p)
        <5>1. index[p].initialized /\ index[p].fingerprint[1] = generation
          BY Zenon, <1>1, <4>1, FingerprintType DEF IndexIsCurrent
        <5> QED  BY Zenon, <1>1, <4>1, <5>1 DEF IndexOK
      <4>2. CASE ~IndexIsCurrent(p)
        BY Zenon, <1>1, <4>2, FingerprintType
      <4> QED  BY Zenon, <4>1, <4>2
    <3>2. index'[p] = i
      BY Zenon, <1>1, <1>7, <2>3 DEF refresh_index_if_needed, TypeOK
    <3> HIDE DEF i
    <3>3. pc'[p] = "ready" /\ \A r \in Process \ {p} : pc'[r] = "idle"
      BY Zenon, <1>1, <1>7, <2>3, Alone DEF refresh_index_if_needed, Goto, TypeOK
    <3>4. \A r \in Process : pc'[r] \notin Busy
      BY Zenon, <3>3 DEF Busy, Writing, Wrote
    <3>5. IndexOK(p)'
      BY <1>1, <1>2, <3>1, <3>2, <3>4 DEF IndexOK, Busy, TypeOK
    <3>6. PlaceOK(p)'
      BY Zenon, <1>2, <3>1, <3>2, <3>3 DEF PlaceOK, Writing, Wrote
    <3> QED  BY Zenon, <2>3, <3>5, <3>6
  <2> QED  BY Zenon, <2>1, <2>2, <2>3
<1> QED  BY Zenon, <1>4, <1>5, <1>6, <1>7

\* So do the steps of append_unlocked, ...
LEMMA AppendStep ==
  ASSUME LogInv, NEW p \in Process,
         \/ \E k \in Key : BeginAppend(p, k)
         \/ WritePart(p) \/ WriteRest(p) \/ Sync(p) \/ Archive(p) \/ Replace(p)
  PROVE  \A q \in Process : IndexOK(q)' /\ PlaceOK(q)'
<1>1. TypeOK /\ ArchivesOK /\ SegmentBounded /\ PlaceOK(p) /\ \A q \in Process : IndexOK(q)
  BY Zenon DEF LogInv
<1>2. ArchivesUpTo(archives, generation) /\ Segment(main)
  BY Zenon, <1>1, ArchivesTyped
<1>3. CASE \E k \in Key : BeginAppend(p, k)
  <2>1. PICK k \in Key : BeginAppend(p, k)
    BY Zenon, <1>3
  <2>2. /\ pc[p] = "ready" /\ index' = index /\ generation' = generation + 1 /\ main' = main
        /\ archives' = archives /\ synced' = synced
        /\ pc'[p] = IF Full THEN "archive" ELSE "append"
        /\ line'[p] = [key |-> k, val |-> writes + 1]
        /\ writes + 1 \in unacked'[k]
    BY Zenon, <1>1, <2>1 DEF BeginAppend, advance_generation, Goto, TypeOK
  <2>3. Latest' = Latest
    BY Zenon, <2>2, LatestSame
  <2>4. line'[p] \in Line
    BY <1>1, <2>1, <2>2, BoundAssumption DEF BeginAppend, TypeOK, Line, Value
  <2>5. index[p].initialized /\ index[p].latest = Latest
    BY Zenon, <1>1, <2>2 DEF PlaceOK
  <2>6. generation' \notin DOMAIN archives'
    <3>1. generation + 1 \notin DOMAIN archives
      BY <1>1 DEF ArchivesOK, TypeOK
    <3> QED  BY Zenon, <2>2, <3>1
  <2>a. index'[p].initialized /\ index'[p].latest = Latest'
    BY Zenon, <2>2, <2>3, <2>5
  <2>b. line'[p].val \in unacked'[line'[p].key]
    BY <2>2
  <2>c. (\A q \in Process : IndexOK(q)') /\ \A q \in Process \ {p} : PlaceOK(q)'
    <3>1. \A q \in Process : IndexOK(q)'
      BY Zenon, <1>1, <2>2, IndexKept
    <3>2. \E at : Goto(p, at)
      BY Zenon, <2>1 DEF BeginAppend
    <3> QED  BY Zenon, <1>1, <2>2, <3>1, <3>2, OthersOutside
  <2>7. CASE Full
    <3>1. pc'[p] = "archive" /\ main' /= << >>
      BY <1>1, <2>2, <2>7 DEF Full, TypeOK
    <3>2. PlaceOK(p)'
      BY Zenon, <2>4, <2>6, <2>a, <2>b, <3>1 DEF PlaceOK, Writing, Wrote
    <3> QED  BY Zenon, <2>c, <3>2
  <2>8. CASE ~Full
    <3>1. pc'[p] = "append" /\ Len(main') < Threshold
      BY <1>1, <2>2, <2>8, ThresholdAssumption DEF Full, TypeOK
    <3>2. PlaceOK(p)'
      BY Zenon, <2>4, <2>a, <2>b, <3>1 DEF PlaceOK, Writing, Wrote
    <3> QED  BY Zenon, <2>c, <3>2
  <2> QED  BY Zenon, <2>7, <2>8
<1>4. ASSUME ~\E k \in Key : BeginAppend(p, k)
      PROVE  /\ generation' = generation /\ index' = index /\ pc[p] \in Busy
             /\ \A q \in Process : IndexOK(q)'
             /\ \A q \in Process \ {p} : PlaceOK(q)'
  <2>1. generation' = generation /\ index' = index /\ pc[p] \in Busy /\ pc[p] /= "idle"
        /\ \E at : Goto(p, at)
    BY Zenon, <1>4 DEF WritePart, WriteRest, Sync, Archive, Replace, Leave, Busy, Writing, Wrote
  <2> QED  BY Zenon, <1>1, <2>1, IndexKept, OthersOutside
<1>5. ASSUME ~\E k \in Key : BeginAppend(p, k), ~(Archive(p) /\ generation \in DOMAIN archives)
      PROVE  /\ line' = line /\ unacked' = unacked
             /\ line[p] \in Line /\ line[p].val \in unacked[line[p].key]
             /\ index'[p] = index[p] /\ index[p].initialized
  <2>1. line' = line /\ unacked' = unacked /\ pc[p] \in Busy /\ index' = index
    BY Zenon, <1>5 DEF WritePart, WriteRest, Sync, Archive, Replace, Busy, Writing, Wrote
  <2> QED  BY Zenon, <1>1, <2>1 DEF PlaceOK, Busy
<1>6. CASE WritePart(p)
  <2>1. pc'[p] = "writing" /\ pc[p] = "append" /\ UNCHANGED <<archives, main, generation>>
    BY Zenon, <1>1, <1>6 DEF WritePart, Goto, TypeOK
  <2>2. Latest' = Latest
    BY Zenon, <2>1, LatestSame
  <2>3. ~(\E k \in Key : BeginAppend(p, k)) /\ ~Archive(p)
    BY Zenon, <2>1 DEF BeginAppend, Archive
  <2>4. index[p].latest = Latest /\ Len(main) < Threshold
    BY Zenon, <1>1, <2>1 DEF PlaceOK, Writing
  <2>5. PlaceOK(p)'
    <3>1. line'[p] \in Line /\ line'[p].val \in unacked'[line'[p].key]
          /\ index'[p] = index[p] /\ index[p].initialized
      BY Zenon, <1>5, <2>3
    <3> QED  BY Zenon, <2>1, <2>2, <2>4, <3>1 DEF PlaceOK, Writing, Wrote
  <2> QED  BY Zenon, <1>4, <2>3, <2>5
<1>7. CASE WriteRest(p)
  <2>1. pc'[p] = "syncing" /\ pc[p] = "writing" /\ archives' = archives
        /\ main' = Append(main, line[p])
    BY Zenon, <1>1, <1>7 DEF WriteRest, Goto, TypeOK
  <2>2. ~(\E k \in Key : BeginAppend(p, k)) /\ ~Archive(p)
    BY Zenon, <2>1 DEF BeginAppend, Archive
  <2>3. Latest' = [Latest EXCEPT ![line[p].key] = line[p].val]
    <3>1. line[p] \in Line
      BY Zenon, <1>5, <2>2
    <3> QED  BY <1>2, <2>1, <3>1, ViewOfAppend DEF Latest
  <2>4. index[p].latest = Latest
    BY Zenon, <1>1, <2>1 DEF PlaceOK, Writing
  <2>5. PlaceOK(p)'
    <3>1. line'[p] \in Line /\ line'[p].val \in unacked'[line'[p].key]
          /\ index'[p] = index[p] /\ index[p].initialized
      BY Zenon, <1>5, <2>2
    <3>2. pc'[p] = "syncing" /\ Latest' = [index'[p].latest EXCEPT ![line'[p].key] = line'[p].val]
      BY Zenon, <1>5, <2>1, <2>2, <2>3, <2>4
    <3> QED  BY Zenon, <3>1, <3>2 DEF PlaceOK, Writing, Wrote
  <2> QED  BY Zenon, <1>4, <2>2, <2>5
<1>8. CASE Sync(p)
  <2>1. pc'[p] = "appended" /\ pc[p] = "syncing" /\ UNCHANGED <<archives, main, generation>>
        /\ synced' = Len(main)
    BY Zenon, <1>1, <1>8 DEF Sync, Goto, TypeOK
  <2>2. Latest' = Latest
    BY Zenon, <2>1, LatestSame
  <2>3. ~(\E k \in Key : BeginAppend(p, k)) /\ ~Archive(p)
    BY Zenon, <2>1 DEF BeginAppend, Archive
  <2>4. Latest = [index[p].latest EXCEPT ![line[p].key] = line[p].val]
    BY Zenon, <1>1, <2>1 DEF PlaceOK, Wrote
  <2>5. PlaceOK(p)'
    <3>1. line'[p] \in Line /\ line'[p].val \in unacked'[line'[p].key]
          /\ index'[p] = index[p] /\ index[p].initialized
      BY Zenon, <1>5, <2>3
    <3>2. pc'[p] = "appended" /\ synced' = Len(main')
          /\ Latest' = [index'[p].latest EXCEPT ![line'[p].key] = line'[p].val]
      BY Zenon, <1>5, <2>1, <2>2, <2>3, <2>4
    <3> QED  BY Zenon, <3>1, <3>2 DEF PlaceOK, Writing, Wrote
  <2> QED  BY Zenon, <1>4, <2>3, <2>5
<1>9. CASE Archive(p)
  <2>1. pc[p] = "archive" /\ generation \notin DOMAIN archives
    BY Zenon, <1>1, <1>9 DEF Archive, PlaceOK
  <2>2. /\ archives' = [g \in DOMAIN archives \cup {generation} |->
                          IF g = generation THEN main ELSE archives[g]]
        /\ pc'[p] = "replace" /\ main' = main /\ generation' = generation
    BY Zenon, <1>1, <1>9, <2>1 DEF Archive, Goto, TypeOK
  <2>3. ~(\E k \in Key : BeginAppend(p, k))
    BY Zenon, <2>1 DEF BeginAppend
  <2>4. Latest' = Latest
    BY <1>2, <2>1, <2>2, ViewOfCopy DEF Latest
  <2>5. index[p].latest = Latest
    BY Zenon, <1>1, <2>1 DEF PlaceOK, Writing
  <2>6. generation' \in DOMAIN archives' /\ archives'[generation'] = main'
    BY Zenon, <2>2
  <2>7. PlaceOK(p)'
    <3>1. line'[p] \in Line /\ line'[p].val \in unacked'[line'[p].key]
          /\ index'[p] = index[p] /\ index[p].initialized
      BY Zenon, <1>5, <2>1, <2>3
    <3>2. pc'[p] = "replace" /\ index'[p].latest = Latest'
      BY Zenon, <2>2, <2>4, <2>5, <3>1
    <3> QED  BY Zenon, <2>6, <3>1, <3>2 DEF PlaceOK, Writing, Wrote
  <2> QED  BY Zenon, <1>4, <2>3, <2>7
<1>10. CASE Replace(p)
  <2>1. pc'[p] = "appended" /\ pc[p] = "replace" /\ archives' = archives
        /\ main' = <<line[p]>> /\ synced' = 1
    BY Zenon, <1>1, <1>10 DEF Replace, Goto, TypeOK
  <2>2. ~(\E k \in Key : BeginAppend(p, k)) /\ ~Archive(p)
    BY Zenon, <2>1 DEF BeginAppend, Archive
  <2>3. generation \in DOMAIN archives /\ archives[generation] = main
        /\ index[p].latest = Latest
    BY Zenon, <1>1, <2>1 DEF PlaceOK, Writing
  <2>4. Latest' = [Latest EXCEPT ![line[p].key] = line[p].val]
    BY <1>2, <1>5, <2>1, <2>2, <2>3, ViewOfReplace DEF Latest
  <2>5. synced' = Len(main')
    BY Zenon, <2>1
  <2>6. PlaceOK(p)'
    <3>1. line'[p] \in Line /\ line'[p].val \in unacked'[line'[p].key]
          /\ index'[p] = index[p] /\ index[p].initialized
      BY Zenon, <1>5, <2>2
    <3>2. pc'[p] = "appended" /\ Latest' = [index'[p].latest EXCEPT ![line'[p].key] = line'[p].val]
      BY Zenon, <1>5, <2>1, <2>2, <2>3, <2>4
    <3> QED  BY Zenon, <2>5, <3>1, <3>2 DEF PlaceOK, Writing, Wrote
  <2> QED  BY Zenon, <1>4, <2>2, <2>6
<1> QED  BY Zenon, <1>3, <1>6, <1>7, <1>8, <1>9, <1>10

\* ... the record in the index after it, and faults.
LEMMA EndStep ==
  ASSUME LogInv,
         \/ \E p \in Process : persist_index_record(p) \/ Fail(p) \/ Crash(p)
         \/ PowerLoss \/ UNCHANGED vars
  PROVE  \A q \in Process : IndexOK(q)' /\ PlaceOK(q)'
<1>1. TypeOK /\ \A q \in Process : IndexOK(q) /\ PlaceOK(q)
  BY Zenon DEF LogInv
<1>2. ASSUME NEW p \in Process, persist_index_record(p)
      PROVE  \A q \in Process : IndexOK(q)' /\ PlaceOK(q)'
  <2>1. pc[p] = "appended" /\ UNCHANGED <<generation, archives, main>>
    BY Zenon, <1>2 DEF persist_index_record, files
  <2>2. pc'[p] = "ready" /\ \A r \in Process \ {p} : pc'[r] = "idle" /\ index'[r] = index[r]
    BY Zenon, <1>1, <1>2, <2>1, Alone DEF persist_index_record, Goto, TypeOK
  <2>3. Latest' = Latest
    BY Zenon, <2>1, LatestSame
  <2>4. index[p].initialized /\ Latest = [index[p].latest EXCEPT ![line[p].key] = line[p].val]
    BY Zenon, <1>1, <2>1 DEF PlaceOK, Wrote
  <2>5. index'[p].initialized /\ index'[p].latest = Latest /\ index'[p].fingerprint[1] = generation
    BY Zenon, <1>1, <1>2, <2>4, FingerprintType DEF persist_index_record, TypeOK
  <2>6. \A r \in Process : pc'[r] \notin Busy
    BY Zenon, <2>2 DEF Busy, Writing, Wrote
  <2>7. IndexOK(p)'
    <3>1. generation \in Nat /\ generation' = generation
      BY Zenon, <1>1, <2>1 DEF TypeOK
    <3>2. \A r \in Process : pc'[r] \notin Writing \cup Wrote
      BY Zenon, <2>6 DEF Busy
    <3> QED  BY <2>3, <2>5, <3>1, <3>2 DEF IndexOK
  <2>8. PlaceOK(p)'
    BY Zenon, <2>1, <2>2, <2>3, <2>5 DEF PlaceOK, Writing, Wrote
  <2> QED  BY Zenon, <1>1, <2>1, <2>2, <2>3, <2>6, <2>7, <2>8, IndexKept, PlaceOutside
<1>3. ASSUME NEW p \in Process, Fail(p) \/ Crash(p), NEW q \in Process
      PROVE  IndexOK(q)' /\ PlaceOK(q)'
  <2>1. UNCHANGED <<generation, archives, main>>
    BY Zenon, <1>3 DEF Fail, Crash, files
  <2>2. Latest' = Latest
    BY Zenon, <2>1, LatestSame
  <2>3. pc' = [pc EXCEPT ![p] = "idle"]
    BY Zenon, <1>3 DEF Fail, Crash, Leave, Goto
  <2>4. \A r \in Process : pc'[r] \in Busy => pc[r] \in Busy
    BY Zenon, <1>1, <2>3 DEF TypeOK, Busy, Writing, Wrote
  <2>5. index'[q] = index[q] \/ ~index'[q].initialized
    <3>1. ~Unread.initialized
      BY Zenon DEF Unread
    <3>2. index' = index \/ index' = [index EXCEPT ![p] = Unread]
      BY Zenon, <1>3 DEF Fail, Crash
    <3> QED  BY Zenon, <1>1, <3>1, <3>2 DEF TypeOK
  <2>6. IndexOK(q)'
    BY Zenon, <1>1, <2>1, <2>2, <2>4, <2>5, IndexKept, IndexDropped
  <2>7. CASE pc'[q] = "idle"
    BY Zenon, <2>6, <2>7, PlaceOutside
  <2>8. CASE pc'[q] /= "idle"
    <3>1. q /= p /\ pc'[q] = pc[q] /\ index'[q] = index[q] /\ line'[q] = line[q]
          /\ UNCHANGED <<synced, unacked>>
      BY Zenon, <1>1, <1>3, <2>3, <2>8 DEF TypeOK, Fail, Crash, Leave, files
    <3> QED  BY Zenon, <1>1, <2>1, <2>2, <2>6, <3>1 DEF PlaceOK
  <2> QED  BY Zenon, <2>7, <2>8
<1>4. ASSUME PowerLoss, NEW q \in Process PROVE IndexOK(q)' /\ PlaceOK(q)'
  <2>1. ~index'[q].initialized /\ pc'[q] = "idle"
    BY Zenon, <1>4 DEF PowerLoss, Unread
  <2> QED  BY Zenon, <2>1, IndexDropped, PlaceOutside
<1>5. ASSUME UNCHANGED vars, NEW q \in Process PROVE IndexOK(q)' /\ PlaceOK(q)'
  <2>1. UNCHANGED <<generation, archives, main, synced, pc, line, index, unacked>>
    BY Zenon, <1>5 DEF vars, files
  <2>2. Latest' = Latest
    BY Zenon, <2>1, LatestSame
  <2> QED  BY Zenon, <1>1, <2>1, <2>2 DEF IndexOK, PlaceOK
<1> QED  BY Zenon, <1>2, <1>3, <1>4, <1>5

-----------------------------------------------------------------------------
(* The archives, the bound of the main segment, and what is durable.       *)

\* Every step keeps the archives readable and the main segment bounded.
LEMMA FilesStep == ASSUME LogInv, [Next]_vars PROVE ArchivesOK' /\ SegmentBounded'
<1>1. TypeOK /\ ArchivesOK /\ SegmentBounded /\ \A p \in Process : PlaceOK(p)
  BY Zenon DEF LogInv
<1>2. CASE UNCHANGED <<generation, archives, main>>
  BY Zenon, <1>1, <1>2 DEF ArchivesOK, SegmentBounded
<1>3. ASSUME NEW p \in Process, NEW k \in Key, BeginAppend(p, k) PROVE ArchivesOK' /\ SegmentBounded'
  <2>1. generation' = generation + 1 /\ archives' = archives /\ main' = main
    BY Zenon, <1>3 DEF BeginAppend, advance_generation
  <2>2. generation \in Nat /\ DOMAIN archives \subseteq Nat
    BY Zenon, <1>1 DEF TypeOK
  <2>3. SegmentBounded'
    BY Zenon, <1>1, <2>1 DEF SegmentBounded
  <2> QED  BY <1>1, <2>1, <2>2, <2>3 DEF ArchivesOK
<1>4. ASSUME NEW p \in Process, WriteRest(p) PROVE ArchivesOK' /\ SegmentBounded'
  <2>1. Len(main) < Threshold /\ main' = Append(main, line[p]) /\ line[p] \in Line
        /\ UNCHANGED <<generation, archives>>
    BY Zenon, <1>1, <1>4 DEF WriteRest, PlaceOK, Writing
  <2>2. Len(main') = Len(main) + 1 /\ Len(main) \in Nat
    BY <1>1, <2>1 DEF TypeOK
  <2> QED  BY <1>1, <2>1, <2>2, ThresholdAssumption DEF ArchivesOK, SegmentBounded
<1>5. ASSUME NEW p \in Process, Archive(p) PROVE ArchivesOK' /\ SegmentBounded'
  <2>1. generation \notin DOMAIN archives /\ main /= << >>
    BY Zenon, <1>1, <1>5 DEF Archive, PlaceOK
  <2>2. /\ archives' = [g \in DOMAIN archives \cup {generation} |->
                          IF g = generation THEN main ELSE archives[g]]
        /\ main' = main /\ generation' = generation
    BY Zenon, <1>5, <2>1 DEF Archive
  <2> QED  BY <1>1, <2>1, <2>2 DEF ArchivesOK, SegmentBounded, TypeOK
<1>6. ASSUME NEW p \in Process, Replace(p) PROVE ArchivesOK' /\ SegmentBounded'
  <2>1. Len(main') = 1 /\ UNCHANGED <<generation, archives>>
    BY Zenon, <1>6 DEF Replace
  <2> QED  BY <1>1, <2>1, ThresholdAssumption DEF ArchivesOK, SegmentBounded
<1>7. ASSUME PowerLoss PROVE ArchivesOK' /\ SegmentBounded'
  <2>1. PICK n \in synced..Len(main) : main' = SubSeq(main, 1, n)
    BY Zenon, <1>7 DEF PowerLoss
  <2>2. Len(main') = n /\ Len(main) \in Nat /\ n \in Nat /\ n <= Len(main)
    BY <1>1, <2>1 DEF TypeOK
  <2>3. UNCHANGED <<generation, archives>>
    BY Zenon, <1>7 DEF PowerLoss
  <2> QED  BY <1>1, <2>2, <2>3, ThresholdAssumption DEF ArchivesOK, SegmentBounded
<1>8. UNCHANGED <<generation, archives, main>> \/ PowerLoss
      \/ \E p \in Process : \/ \E k \in Key : BeginAppend(p, k)
                            \/ WriteRest(p) \/ Archive(p) \/ Replace(p)
  BY Zenon DEF Next, vars, files, Lock, repair_truncated_tail, refresh_index_if_needed, Unlock,
         WritePart, Sync, persist_index_record, Fail, Crash
<1> QED  BY Zenon, <1>2, <1>3, <1>4, <1>5, <1>6, <1>7, <1>8

\* The value of k after a power loss that leaves n lines is one the writer knows.
Known(n, k) == View(archives, SubSeq(main, 1, n))[k] \in {acked[k]} \cup unacked[k]

\* A segment cut at its length, and at a length a line was appended to.
LEMMA Cuts ==
  ASSUME NEW s, Segment(s), NEW l \in Line
  PROVE  /\ SubSeq(s, 1, Len(s)) = s
         /\ SubSeq(Append(s, l), 1, Len(s) + 1) = Append(s, l)
         /\ \A n \in 0..Len(s) : SubSeq(Append(s, l), 1, n) = SubSeq(s, 1, n)
         /\ SubSeq(<<l>>, 1, 1) = <<l>>
<1>1. /\ Len(s) \in Nat /\ Append(s, l) \in Seq(Line) /\ Len(Append(s, l)) = Len(s) + 1
      /\ \A i \in 1..Len(s) : Append(s, l)[i] = s[i]
  BY DEF Segment
<1>2. \A t \in Seq(Line) : SubSeq(t, 1, Len(t)) = t
  OBVIOUS
<1>3. ASSUME NEW n \in 0..Len(s) PROVE SubSeq(Append(s, l), 1, n) = SubSeq(s, 1, n)
  <2> DEFINE t == Append(s, l)
  <2> HIDE DEF t
  <2>1. t \in Seq(Line) /\ Len(t) = Len(s) + 1 /\ s \in Seq(Line) /\ \A i \in 1..Len(s) : t[i] = s[i]
    BY Zenon, <1>1 DEF t, Segment
  <2>2. SubSeq(t, 1, n) = SubSeq(s, 1, n)
    BY <1>1, <2>1
  <2> QED  BY Zenon, <2>2 DEF t
<1>4. <<l>> \in Seq(Line) /\ Len(<<l>>) = 1
  OBVIOUS
<1> QED  BY Zenon, <1>1, <1>2, <1>3, <1>4 DEF Segment

\* Every step keeps acknowledged records durable.
LEMMA DurableStep == ASSUME LogInv, [Next]_vars PROVE DurableOK'
<1>1. TypeOK /\ (\A p \in Process : PlaceOK(p)) /\ \A n \in synced..Len(main) : \A k \in Key : Known(n, k)
  BY Zenon DEF LogInv, DurableOK, Known
<1>2. ArchivesUpTo(archives, generation) /\ Segment(main)
  BY Zenon, ArchivesTyped DEF LogInv
<1>3. SUFFICES ASSUME NEW n \in synced'..Len(main'), NEW k \in Key PROVE Known(n, k)'
  BY Zenon DEF DurableOK, Known
<1>4. Len(main) \in Nat /\ synced \in 0..Len(main) /\ \A m \in synced..Len(main) : m \in Int
  BY <1>1 DEF TypeOK
<1>5. ASSUME UNCHANGED <<archives, main, acked>>, synced' \in synced..Len(main),
             unacked[k] \subseteq unacked'[k]
      PROVE  Known(n, k)'
  <2>1. n \in synced..Len(main)
    BY <1>4, <1>5
  <2> QED  BY Zenon, <1>1, <1>5, <2>1 DEF Known
<1>6. ASSUME NEW p \in Process, NEW j \in Key, BeginAppend(p, j) PROVE Known(n, k)'
  <2>1. unacked[k] \subseteq unacked'[k]
    BY Zenon, <1>1, <1>6 DEF BeginAppend, TypeOK
  <2>2. UNCHANGED <<archives, main, acked, synced>>
    BY Zenon, <1>6 DEF BeginAppend
  <2>3. synced' \in synced..Len(main)
    BY <1>4, <2>2
  <2> QED  BY Zenon, <1>5, <2>1, <2>2, <2>3
<1>7. ASSUME NEW p \in Process, WriteRest(p) PROVE Known(n, k)'
  <2>1. /\ main' = Append(main, line[p]) /\ line[p] \in Line
        /\ line[p].val \in unacked[line[p].key]
        /\ UNCHANGED <<archives, synced, acked, unacked>>
    BY Zenon, <1>1, <1>7 DEF WriteRest, PlaceOK, Writing
  <2>2. Len(main') = Len(main) + 1
    BY <1>1, <2>1 DEF TypeOK
  <2>3. CASE n \in synced..Len(main)
    <3>1. SubSeq(main', 1, n) = SubSeq(main, 1, n)
      <4>1. n \in 0..Len(main)
        BY <1>4, <2>3
      <4>2. \A m \in 0..Len(main) : SubSeq(Append(main, line[p]), 1, m) = SubSeq(main, 1, m)
        BY Zenon, <1>2, <2>1, Cuts
      <4> QED  BY Zenon, <2>1, <4>1, <4>2
    <3> QED BY ZenonT(30), <1>1, <2>1, <2>3, <3>1 DEF Known
  <2>4. CASE n = Len(main) + 1
    <3>1. SubSeq(main', 1, n) = main' /\ SubSeq(main, 1, Len(main)) = main
      <4>1. /\ SubSeq(main, 1, Len(main)) = main
            /\ SubSeq(Append(main, line[p]), 1, Len(main) + 1) = Append(main, line[p])
        BY Zenon, <1>2, <2>1, Cuts
      <4> QED  BY Zenon, <2>1, <2>4, <4>1
    <3>2. View(archives, main') = [View(archives, main) EXCEPT ![line[p].key] = line[p].val]
      BY <1>2, <2>1, ViewOfAppend
    <3>3. View(archives, main)[k] \in {acked[k]} \cup unacked[k]
      <4>1. Len(main) \in synced..Len(main)
        BY <1>4
      <4>2. Known(Len(main), k)
        BY Zenon, <1>1, <4>1
      <4> QED  BY Zenon, <3>1, <4>2 DEF Known
    <3>4. View(archives, main) \in [Key -> Value]
      BY Zenon, <1>2, ViewType
    <3>5. View(archives, main')[k] \in {acked[k]} \cup unacked[k]
      BY Zenon, <2>1, <3>2, <3>3, <3>4
    <3> QED  BY Zenon, <2>1, <3>1, <3>5 DEF Known
  <2>5. n \in synced..Len(main) \/ n = Len(main) + 1
    BY <1>4, <2>1, <2>2
  <2> QED  BY Zenon, <2>3, <2>4, <2>5
<1>8. Known(Len(main), k) /\ View(archives, main)[k] \in {acked[k]} \cup unacked[k]
  <2>1. Len(main) \in synced..Len(main)
    BY <1>4
  <2>2. SubSeq(main, 1, Len(main)) = main
    BY DEF TypeOK, LogInv
  <2> QED  BY Zenon, <1>1, <2>1, <2>2 DEF Known
<1>9. ASSUME NEW p \in Process, Archive(p) PROVE Known(n, k)'
  <2>1. generation \notin DOMAIN archives
    BY Zenon, <1>1, <1>9 DEF Archive, PlaceOK
  <2>2. /\ archives' = [g \in DOMAIN archives \cup {generation} |->
                          IF g = generation THEN main ELSE archives[g]]
        /\ UNCHANGED <<main, synced, acked, unacked>>
    BY Zenon, <1>9, <2>1 DEF Archive
  <2>3. View(archives', SubSeq(main, 1, n))[k]
          \in {View(archives, SubSeq(main, 1, n))[k], View(archives, main)[k]}
    BY <1>2, <2>1, <2>2, ViewOfCopy
  <2>4. Known(n, k)
    BY Zenon, <1>1, <2>2
  <2> QED  BY Zenon, <1>8, <2>2, <2>3, <2>4 DEF Known
<1>10. ASSUME NEW p \in Process, Replace(p) PROVE Known(n, k)'
  <2>1. /\ main' = <<line[p]>> /\ line[p] \in Line /\ synced' = 1
        /\ line[p].val \in unacked[line[p].key]
        /\ generation \in DOMAIN archives /\ archives[generation] = main
        /\ UNCHANGED <<archives, acked, unacked>>
    BY Zenon, <1>1, <1>10 DEF Replace, PlaceOK, Writing
  <2>2. n = 1 /\ SubSeq(main', 1, n) = main'
    <3>1. Len(main') = 1
      BY Zenon, <2>1
    <3>2. n = 1
      BY <2>1, <3>1
    <3>3. SubSeq(<<line[p]>>, 1, 1) = <<line[p]>>
      BY Zenon, <1>2, <2>1, Cuts
    <3> QED  BY Zenon, <2>1, <3>2, <3>3
  <2>3. View(archives, main') = [View(archives, main) EXCEPT ![line[p].key] = line[p].val]
    BY <1>2, <2>1, ViewOfReplace
  <2>4. View(archives, main) \in [Key -> Value]
    BY Zenon, <1>2, ViewType
  <2>5. View(archives, main')[k] \in {acked[k]} \cup unacked[k]
    BY Zenon, <1>8, <2>1, <2>3, <2>4
  <2> QED  BY Zenon, <2>1, <2>2, <2>5 DEF Known
<1>11. ASSUME NEW p \in Process, persist_index_record(p) PROVE Known(n, k)'
  <2>1. pc[p] = "appended" /\ UNCHANGED <<archives, main, synced>> /\ synced = Len(main)
    BY Zenon, <1>1, <1>11 DEF persist_index_record, PlaceOK, files
  <2>2. n = Len(main) /\ SubSeq(main, 1, n) = main
    BY <1>1, <1>4, <2>1 DEF TypeOK
  <2>3. line[p] \in Line /\ index \in [Process -> Index]
        /\ Latest = [index[p].latest EXCEPT ![line[p].key] = line[p].val]
    BY Zenon, <1>1, <2>1 DEF PlaceOK, Wrote, TypeOK
  <2>4. CASE k = line[p].key
    <3>1. acked'[k] = line[p].val
      BY Zenon, <1>1, <1>11, <2>4 DEF persist_index_record, TypeOK
    <3>2. Latest[k] = line[p].val
      BY Zenon, <2>3, <2>4 DEF Index
    <3> QED  BY Zenon, <2>1, <2>2, <3>1, <3>2 DEF Known, Latest
  <2>5. CASE k /= line[p].key
    <3>1. acked'[k] = acked[k] /\ unacked'[k] = unacked[k]
      BY Zenon, <1>1, <1>11, <2>5 DEF persist_index_record, TypeOK
    <3> QED  BY Zenon, <1>8, <2>1, <2>2, <3>1 DEF Known
  <2> QED  BY Zenon, <2>4, <2>5
<1>12. ASSUME PowerLoss PROVE Known(n, k)'
  <2>1. PICK m \in synced..Len(main) : main' = SubSeq(main, 1, m) /\ synced' = m
    BY Zenon, <1>12 DEF PowerLoss
  <2>2. Len(main') = m
    BY <1>1, <1>4, <2>1 DEF TypeOK
  <2>3. n = m
    BY <1>4, <2>1, <2>2
  <2>4. SubSeq(main', 1, n) = SubSeq(main, 1, m)
    BY <1>1, <1>4, <2>1, <2>3 DEF TypeOK
  <2>5. UNCHANGED <<archives, acked, unacked>>
    BY Zenon, <1>12 DEF PowerLoss
  <2> QED  BY Zenon, <1>1, <2>1, <2>4, <2>5 DEF Known
<1>13. ASSUME UNCHANGED <<archives, main, acked, unacked>>, synced' = synced \/ synced' = Len(main)
       PROVE  Known(n, k)'
  <2>1. synced' \in synced..Len(main)
    BY <1>4, <1>13
  <2> QED  BY Zenon, <1>5, <1>13, <2>1
<1>14. \/ /\ UNCHANGED <<archives, main, acked, unacked>>
          /\ synced' = synced \/ synced' = Len(main)
       \/ PowerLoss
       \/ \E p \in Process : \/ \E j \in Key : BeginAppend(p, j)
                             \/ WriteRest(p) \/ Archive(p) \/ Replace(p) \/ persist_index_record(p)
  BY Zenon DEF Next, vars, files, Lock, repair_truncated_tail, refresh_index_if_needed, Unlock,
         WritePart, Sync, Fail, Crash
<1> QED  BY Zenon, <1>6, <1>7, <1>9, <1>10, <1>11, <1>12, <1>13, <1>14

-----------------------------------------------------------------------------
(* The theorems.                                                           *)

\* The invariant holds in the empty store.
LEMMA InitLog == Init => LogInv
<1> SUFFICES ASSUME Init PROVE LogInv
  BY Zenon
<1>1. 0 \in Value
  BY BoundAssumption DEF Value
<1>2. Unread \in Index
  BY Zenon, <1>1 DEF Unread, Index, NoRecords
<1>3. TypeOK
  <2>1. acked \in [Key -> Value] /\ unacked \in [Key -> SUBSET Value]
    BY Zenon, <1>1 DEF Init, NoRecords
  <2>2. pc \in [Process -> Place] /\ line \in [Process -> Line \cup {NoLine}]
        /\ index \in [Process -> Index]
    BY Zenon, <1>2 DEF Init, Place
  <2>3. lock = {p \in Process : pc[p] /= "idle"} /\ \A p, q \in lock : p = q
    BY Zenon DEF Init
  <2>4. /\ generation \in Nat /\ torn \in BOOLEAN /\ inode \in Inode \cup {0}
        /\ main \in Seq(Line) /\ synced \in 0..Len(main)
    <3>1. << >> \in Seq(Line) /\ Len(<< >>) = 0 /\ FALSE \in BOOLEAN
      OBVIOUS
    <3>2. main = << >> /\ torn = FALSE /\ synced = 0 /\ generation = 0 /\ inode = 0
      BY Zenon DEF Init
    <3>3. synced \in 0..Len(main)
      BY <3>1, <3>2
    <3>4. torn \in BOOLEAN
      BY Zenon, <3>2
    <3> QED  BY Zenon, <3>1, <3>2, <3>3, <3>4
  <2>5. DOMAIN archives = {}
    BY DEF Init
  <2>6. writes \in 0..MaxWrites /\ faults \in 0..MaxFaults
    BY BoundAssumption DEF Init
  <2> QED  BY Zenon, <2>1, <2>2, <2>3, <2>4, <2>5, <2>6 DEF TypeOK
<1>4. ASSUME NEW p \in Process PROVE IndexOK(p) /\ PlaceOK(p)
  <2>1. pc[p] = "idle" /\ ~index[p].initialized
    BY Zenon DEF Init, Unread
  <2> QED  BY Zenon, <2>1 DEF IndexOK, PlaceOK, Writing, Wrote
<1>5. ArchivesOK /\ SegmentBounded
  BY ThresholdAssumption DEF Init, ArchivesOK, SegmentBounded
<1>6. DurableOK
  <2>1. \A k : View(<< >>, << >>) = [j \in Key |-> 0]
    BY DEF View, Of, Archived, ArchivesOf
  <2>2. \A n \in synced..Len(main) : SubSeq(main, 1, n) = << >>
    BY DEF Init
  <2> QED  BY Zenon, <2>1, <2>2 DEF DurableOK, Init, NoRecords
<1> QED  BY Zenon, <1>3, <1>4, <1>5, <1>6 DEF LogInv

\* LogInv is inductive: every file operation and every fault keeps it.
THEOREM StoreInvariant == Spec => []LogInv
<1>1. LogInv /\ [Next]_vars => LogInv'
  <2> SUFFICES ASSUME LogInv, [Next]_vars PROVE LogInv'
    BY Zenon
  <2>1. TypeOK' /\ ArchivesOK' /\ SegmentBounded' /\ DurableOK'
    BY Zenon, TypeStep, FilesStep, DurableStep
  <2>2. \A q \in Process : IndexOK(q)' /\ PlaceOK(q)'
    BY Zenon, OutsideStep, AppendStep, EndStep DEF Next
  <2> QED  BY Zenon, <2>1, <2>2 DEF LogInv
<1> QED  BY <1>1, InitLog, PTL DEF Spec

\* The variables of the store keep their types and the lock is exclusive.
THEOREM StoreTyped == Spec => []TypeOK
BY StoreInvariant, PTL DEF LogInv

\* An operation never reads or writes over a stale index, for any number of
\* processes that share the files (with_locked_index, refresh_index_if_needed).
THEOREM FreshIndexes == Spec => []IndexIsFresh
<1>1. LogInv => IndexIsFresh
  BY Zenon DEF LogInv, PlaceOK, IndexIsFresh
<1> QED  BY <1>1, StoreInvariant, PTL

\* A record whose append succeeded survives every failed call, crash, power loss
\* and rotation (append_unlocked, rotate_unlocked).
THEOREM AckedDurable == Spec => []AckedSurvives
<1>1. LogInv => AckedSurvives
  <2> SUFFICES ASSUME LogInv, NEW k \in Key PROVE Latest[k] \in {acked[k]} \cup unacked[k]
    BY Zenon DEF AckedSurvives
  <2>1. Len(main) \in synced..Len(main) /\ SubSeq(main, 1, Len(main)) = main
    BY DEF LogInv, TypeOK
  <2> QED  BY Zenon, <2>1 DEF LogInv, DurableOK, Latest
<1> QED  BY <1>1, StoreInvariant, PTL

\* No fault leaves the store with files it refuses, or with an archive in the way
\* of a rotation (read_generation, apply_strict_archive_records).
THEOREM Readable == Spec => []NeverWedged
<1>1. ASSUME LogInv PROVE NeverWedged
  <2>1. generation \in Nat /\ DOMAIN archives \subseteq Nat /\ ArchivesOK
    BY Zenon, <1>1 DEF LogInv, TypeOK
  <2>2. ~Unreadable
    BY <2>1 DEF ArchivesOK, Unreadable
  <2>3. \A p \in Process : pc[p] = "archive" => generation \notin DOMAIN archives
    BY Zenon, <1>1 DEF LogInv, PlaceOK
  <2> QED  BY Zenon, <2>2, <2>3 DEF NeverWedged
<1> QED  BY <1>1, StoreInvariant, PTL

\* The main segment stays within the compaction threshold.
THEOREM Bounded == Spec => []SegmentBounded
BY StoreInvariant, PTL DEF LogInv
=============================================================================
