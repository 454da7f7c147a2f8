---------------------------- MODULE SourcesProofs ----------------------------
(***************************************************************************)
(* Proofs about Sources, for every set of .conf files, entries, globs and  *)
(* log files, and any number of edits, changes of files, reloads and       *)
(* retries.                                                                *)
(***************************************************************************)
EXTENDS Sources, TLAPS

-----------------------------------------------------------------------------
(* The inductive invariant *)

\* What is validated is loaded, and on a retry it is in _unvalid_confs.
TodoListed ==
  /\ phase = "free" => todo = {}
  /\ phase = "added" => todo \subseteq DOMAIN loaded
  /\ phase = "again" => todo \subseteq DOMAIN unvalid

\* A source that an entry has and that is not valid, or that two entries have, has
\* been claimed by two.
ClaimsNoted ==
  /\ \A e \in Entry : owned[e] \subseteq DOMAIN valid \cup contended
  /\ \A e, f \in Entry : e # f => owned[e] \cap owned[f] \subseteq contended

\* A plain entry that is neither to be tried nor to be tried again has its sources.
PlainFound ==
  \A e \in DOMAIN loaded \ (Glob \cup DOMAIN unvalid \cup todo) :
    SourcesAt(e, Locations[e]) \subseteq owned[e] \cup contended

SourcesInv ==
  SourcesTypeOK /\ TodoListed /\ NoOrphan /\ ClaimsNoted /\ PlainFound

-----------------------------------------------------------------------------
(* Facts about the operators *)

LEMMA PartialIs ==
  ASSUME NEW S, NEW T, NEW f
  PROVE  f \in Partial(S, T) <=> DOMAIN f \subseteq S /\ f \in [DOMAIN f -> T]
<1>1. ASSUME f \in Partial(S, T) PROVE DOMAIN f \subseteq S /\ f \in [DOMAIN f -> T]
  <2>1. PICK D \in SUBSET S : f \in [D -> T]
    BY <1>1 DEF Partial
  <2> QED
    BY <2>1
<1>2. ASSUME DOMAIN f \subseteq S, f \in [DOMAIN f -> T] PROVE f \in Partial(S, T)
  <2>1. [DOMAIN f -> T] \in {[D -> T] : D \in SUBSET S}
    BY <1>2
  <2> QED
    BY <1>2, <2>1 DEF Partial
<1> QED
  BY <1>1, <1>2

\* Taking entries out of a table.
LEMMA LessIs ==
  ASSUME NEW f, NEW S
  PROVE  /\ DOMAIN Less(f, S) = DOMAIN f \ S
         /\ \A x \in DOMAIN f \ S : Less(f, S)[x] = f[x]
  BY DEF Less, Restrict

LEMMA LessType ==
  ASSUME NEW S, NEW T, NEW f \in Partial(S, T), NEW R
  PROVE  Less(f, R) \in Partial(S, T)
<1>1. DOMAIN f \subseteq S /\ f \in [DOMAIN f -> T]
  BY PartialIs
<1>2. DOMAIN Less(f, R) \subseteq S /\ Less(f, R) \in [DOMAIN Less(f, R) -> T]
  BY <1>1 DEF Less, Restrict
<1> QED
  BY <1>2, PartialIs

LEMMA EmptyType == ASSUME NEW S, NEW T PROVE Empty \in Partial(S, T) /\ DOMAIN Empty = {}
<1>1. DOMAIN Empty = {} /\ Empty \in [DOMAIN Empty -> T]
  BY DEF Empty
<1> QED
  BY <1>1, PartialIs

\* What an entry has found are sources.
LEMMA UsableType ==
  ASSUME NEW e \in Entry
  PROVE  Usable(e) \subseteq Path /\ SourcesAt(e, Usable(e)) \subseteq Source
<1>1. Usable(e) \subseteq Path
  BY SourcesAssumption DEF SourcesAssumption, Usable, Opened
<1> QED
  BY <1>1 DEF SourcesAt, Source

\* An entry that need not be tried again and is no glob has found its location.
LEMMA PlainUsable ==
  ASSUME NEW e \in Entry \ Glob, ~NeedsRetry(e)
  PROVE  Usable(e) = Locations[e]
  BY DEF NeedsRetry, Usable, Opened

-----------------------------------------------------------------------------
(* One lemma for each step that changes the tables *)

LEMMA SourcesInitInv == SourcesInit => SourcesInv
<1> SUFFICES ASSUME SourcesInit PROVE SourcesInv
  OBVIOUS
<1>1. SourcesTypeOK
  <2>1. /\ loaded \in Partial(Entry, Conf) /\ valid \in Partial(Source, Conf)
        /\ unvalid \in Partial(Entry, Conf) /\ followed \in Partial(Path, Source)
        /\ DOMAIN unvalid \subseteq DOMAIN loaded
    BY EmptyType DEF SourcesInit
  <2>2. edits \in 0 .. MaxEdit /\ changes \in 0 .. MaxChange
    BY SourcesAssumption DEF SourcesInit, SourcesAssumption
  <2>3. content \in [Conf -> SUBSET Entry] /\ status \in [Conf -> {"ok", "syntax", "unreadable"}]
        /\ path \in [Path -> {"absent", "unreadable", "readable"}]
        /\ owned \in [Entry -> SUBSET Source]
    BY SourcesAssumption DEF SourcesInit, SourcesAssumption
  <2> QED
    BY <2>1, <2>2, <2>3 DEF SourcesInit, SourcesTypeOK
<1> QED
  BY <1>1, EmptyType
  DEF SourcesInit, SourcesInv, TodoListed, NoOrphan, ClaimsNoted, PlainFound

LEMMA LoadKeeps ==
  ASSUME SourcesInv, Load
  PROVE  SourcesInv'
<1> DEFINE removed == DOMAIN loaded \ Defined
<1>1. PICK where \in [Defined -> Conf] : loaded' = where
  BY DEF Load
<1>2. /\ owned' = [e \in Entry |-> IF e \in removed THEN {} ELSE owned[e]]
      /\ valid' = Less(valid, UNION {owned[e] : e \in removed})
      /\ unvalid' = Less(unvalid, removed)
      /\ phase' = "added" /\ todo' = Defined \ DOMAIN loaded
      /\ UNCHANGED <<content, status, edits, path, changes, watching, followed, contended>>
      /\ noticed' = TRUE /\ raised' = FALSE /\ phase = "free"
  BY DEF Load, Cleared, logs
<1>3. SourcesTypeOK /\ todo = {}
  BY <1>2 DEF SourcesInv, TodoListed
<1>4. Defined \subseteq Entry /\ Defined' = Defined /\ DOMAIN loaded' = Defined
  BY <1>1, <1>2, <1>3 DEF Defined, SourcesTypeOK
<1>5. /\ DOMAIN valid' = DOMAIN valid \ UNION {owned[e] : e \in removed}
      /\ DOMAIN unvalid' = DOMAIN unvalid \ removed
  BY <1>2, LessIs
<1>6. SourcesTypeOK'
  <2>1. loaded' \in Partial(Entry, Conf)
    BY <1>1, <1>4, PartialIs
  <2>2. valid' \in Partial(Source, Conf) /\ unvalid' \in Partial(Entry, Conf)
    BY <1>2, <1>3, LessType DEF SourcesTypeOK
  <2>3. owned' \in [Entry -> SUBSET Source] /\ todo' \subseteq Entry
    BY <1>2, <1>3, <1>4 DEF SourcesTypeOK
  <2>4. DOMAIN unvalid' \subseteq DOMAIN loaded'
    BY <1>3, <1>4, <1>5 DEF SourcesTypeOK
  <2> QED
    BY <1>2, <1>3, <2>1, <2>2, <2>3, <2>4 DEF SourcesTypeOK
<1>7. TodoListed'
  BY <1>2, <1>4 DEF TodoListed
<1>8. NoOrphan'
  <2>1. ASSUME NEW s \in DOMAIN valid' PROVE \E e \in DOMAIN loaded' : s \in owned'[e]
    <3>1. PICK e \in DOMAIN loaded : s \in owned[e]
      BY <1>5, <2>1 DEF SourcesInv, NoOrphan
    <3>2. e \notin removed
      BY <1>5, <2>1, <3>1
    <3> QED
      BY <1>2, <1>4, <3>1, <3>2
  <2> QED
    BY <2>1 DEF NoOrphan
<1>9. ClaimsNoted'
  <2>1. removed \subseteq Entry /\ \A e \in Entry : owned'[e] \subseteq owned[e]
    BY <1>2, <1>3, PartialIs DEF SourcesTypeOK
  <2>2. ASSUME NEW e \in Entry, NEW s \in owned'[e]
        PROVE  s \in DOMAIN valid' \cup contended
    <3>1. e \notin removed /\ s \in owned[e]
      BY <1>2, <2>2
    <3>2. s \in DOMAIN valid \cup contended
      BY <3>1 DEF SourcesInv, ClaimsNoted
    <3>3. ASSUME NEW f \in removed, s \in owned[f] PROVE s \in contended
      BY <2>1, <3>1, <3>3 DEF SourcesInv, ClaimsNoted
    <3> QED
      BY <1>5, <3>2, <3>3
  <2> QED
    BY <1>2, <2>1, <2>2 DEF SourcesInv, ClaimsNoted
<1>10. PlainFound'
  <2> SUFFICES ASSUME NEW f \in DOMAIN loaded', f \notin Glob \cup DOMAIN unvalid' \cup todo'
               PROVE  SourcesAt(f, Locations[f]) \subseteq owned'[f] \cup contended'
    BY DEF PlainFound
  <2>1. f \in DOMAIN loaded /\ f \in Entry /\ f \notin removed
    BY <1>2, <1>4
  <2>2. f \notin Glob \cup DOMAIN unvalid \cup todo
    BY <1>3, <1>5, <2>1
  <2>3. SourcesAt(f, Locations[f]) \subseteq owned[f] \cup contended
    BY <2>1, <2>2 DEF SourcesInv, PlainFound
  <2> QED
    BY <1>2, <2>1, <2>3
<1> QED
  BY <1>6, <1>7, <1>8, <1>9, <1>10 DEF SourcesInv

LEMMA TryKeeps ==
  ASSUME SourcesInv, NEW e \in Entry, TryValidate(e)
  PROVE  SourcesInv'
<1> DEFINE c == IF phase = "added" THEN loaded[e] ELSE unvalid[e]
           rest == Less(valid, owned[e])
           found == SourcesAt(e, Usable(e))
           mine == {s \in found : s \in DOMAIN rest => rest[s] = c}
           again == (DOMAIN unvalid \ {e}) \cup IF NeedsRetry(e) THEN {e} ELSE {}
<1>1. /\ e \in todo /\ todo' = todo \ {e}
      /\ valid' = [s \in DOMAIN rest \cup mine |-> IF s \in mine THEN c ELSE rest[s]]
      /\ owned' = [owned EXCEPT ![e] = mine]
      /\ unvalid' = [d \in again |-> IF d = e THEN c ELSE unvalid[d]]
      /\ contended' = contended \cup (found \cap DOMAIN rest)
      /\ UNCHANGED <<content, status, noticed, edits, path, changes, loaded, phase, raised,
                     watching, followed>>
  BY DEF TryValidate, confs, logs, threads
<1>2. SourcesTypeOK
  BY DEF SourcesInv
<1>3. e \in DOMAIN loaded /\ c \in Conf
  <2>1. loaded \in [DOMAIN loaded -> Conf] /\ unvalid \in [DOMAIN unvalid -> Conf]
        /\ DOMAIN unvalid \subseteq DOMAIN loaded
    BY <1>2, PartialIs DEF SourcesTypeOK
  <2>2. CASE phase = "added"
    BY <1>1, <2>1, <2>2 DEF SourcesInv, TodoListed
  <2>3. CASE phase = "again"
    BY <1>1, <2>1, <2>3 DEF SourcesInv, TodoListed
  <2>4. phase # "free"
    BY <1>1 DEF SourcesInv, TodoListed
  <2> QED
    BY <1>2, <2>2, <2>3, <2>4 DEF SourcesTypeOK
<1>4. DOMAIN rest = DOMAIN valid \ owned[e]
  BY LessIs
<1>5. /\ DOMAIN valid' = DOMAIN rest \cup mine /\ DOMAIN unvalid' = again
      /\ owned'[e] = mine /\ \A f \in Entry \ {e} : owned'[f] = owned[f]
  BY <1>1, <1>2 DEF SourcesTypeOK
<1>6. SourcesTypeOK'
  <2>1. rest \in Partial(Source, Conf)
    BY <1>2, LessType DEF SourcesTypeOK
  <2>2. mine \subseteq Source
    BY UsableType
  <2>3. valid' \in Partial(Source, Conf)
    <3>1. DOMAIN rest \subseteq Source /\ rest \in [DOMAIN rest -> Conf]
      BY <2>1, PartialIs
    <3>2. DOMAIN valid' \subseteq Source /\ valid' \in [DOMAIN valid' -> Conf]
      <4> HIDE DEF rest, mine, c
      <4> QED
        BY <1>1, <1>3, <2>2, <3>1
    <3> QED
      BY <3>2, PartialIs
  <2>4. unvalid' \in Partial(Entry, Conf) /\ DOMAIN unvalid' \subseteq DOMAIN loaded'
    <3>1. DOMAIN unvalid \subseteq Entry /\ unvalid \in [DOMAIN unvalid -> Conf]
          /\ DOMAIN unvalid \subseteq DOMAIN loaded
      BY <1>2, PartialIs DEF SourcesTypeOK
    <3>2. DOMAIN unvalid' \subseteq Entry /\ unvalid' \in [DOMAIN unvalid' -> Conf]
          /\ DOMAIN unvalid' \subseteq DOMAIN loaded
      <4> HIDE DEF c
      <4> QED
        BY <1>1, <1>3, <3>1
    <3> QED
      BY <1>1, <3>2, PartialIs
  <2>5. owned' \in [Entry -> SUBSET Source] /\ contended' \subseteq Source
    <3> HIDE DEF mine
    <3>1. found \subseteq Source
      BY UsableType
    <3> QED
      BY <1>1, <1>2, <2>2, <3>1 DEF SourcesTypeOK
  <2> QED
    BY <1>1, <1>2, <2>3, <2>4, <2>5 DEF SourcesTypeOK
<1>7. TodoListed'
  BY <1>1, <1>5 DEF SourcesInv, TodoListed
<1> HIDE DEF rest, mine, found, c
<1>8. NoOrphan'
  <2>1. ASSUME NEW s \in DOMAIN valid' PROVE \E f \in DOMAIN loaded' : s \in owned'[f]
    <3>1. CASE s \in mine
      BY <1>1, <1>3, <1>5, <3>1
    <3>2. CASE s \in DOMAIN valid \ owned[e]
      <4>1. PICK f \in DOMAIN loaded : s \in owned[f]
        BY <3>2 DEF SourcesInv, NoOrphan
      <4>2. f \in Entry \ {e}
        BY <1>2, <3>2, <4>1, PartialIs DEF SourcesTypeOK
      <4> QED
        BY <1>1, <1>5, <4>1, <4>2
    <3> QED
      BY <1>4, <1>5, <2>1, <3>1, <3>2
  <2> QED
    BY <2>1 DEF NoOrphan
<1>9. mine \subseteq found /\ found \subseteq mine \cup contended'
  BY <1>1 DEF mine
<1>10. ClaimsNoted'
  <2>1. /\ \A f \in Entry : owned[f] \subseteq DOMAIN valid \cup contended
        /\ \A f \in Entry \ {e} : owned[e] \cap owned[f] \subseteq contended
        /\ \A f, g \in Entry : f # g => owned[f] \cap owned[g] \subseteq contended
    BY DEF SourcesInv, ClaimsNoted
  <2>2. \A f \in Entry : owned'[f] \subseteq DOMAIN valid' \cup contended'
    BY <1>1, <1>4, <1>5, <2>1
  <2>3. \A f \in Entry \ {e} : mine \cap owned[f] \subseteq contended'
    BY <1>1, <1>4, <1>9, <2>1
  <2> QED
    BY <1>1, <1>5, <2>1, <2>2, <2>3 DEF ClaimsNoted
<1>11. PlainFound'
  <2> SUFFICES ASSUME NEW f \in DOMAIN loaded', f \notin Glob \cup DOMAIN unvalid' \cup todo'
               PROVE  SourcesAt(f, Locations[f]) \subseteq owned'[f] \cup contended'
    BY DEF PlainFound
  <2>1. f \in Entry /\ f \in DOMAIN loaded
    BY <1>1, <1>2, PartialIs DEF SourcesTypeOK
  <2>2. CASE f = e
    <3>1. Usable(e) = Locations[e]
      BY <1>5, <2>2, PlainUsable
    <3> QED
      BY <1>5, <1>9, <2>2, <3>1 DEF found
  <2>3. CASE f # e
    BY <1>1, <1>5, <2>1, <2>3 DEF SourcesInv, PlainFound
  <2> QED
    BY <2>2, <2>3
<1> QED
  BY <1>6, <1>7, <1>8, <1>10, <1>11 DEF SourcesInv

LEMMA SyncKeeps ==
  ASSUME SourcesInv, Sync
  PROVE  SourcesInv'
<1>1. UNCHANGED <<content, status, noticed, edits, path, changes, loaded, valid, owned,
                  unvalid, contended, phase, todo, raised, watching>>
  BY DEF Sync, confs, logs, config, lock, threads
<1>2. followed' \in Partial(Path, Source)
  <2> DEFINE new == {p \in Wanted \ Kept(Wanted) : path[p] = "readable"}
  <2>1. PICK pick \in [new -> DOMAIN valid \cap FileSource] :
          followed' = [p \in Kept(Wanted) \cup new |->
                         IF p \in new THEN pick[p] ELSE followed[p]]
    BY DEF Sync
  <2>2. Wanted \subseteq Path /\ FileSource \subseteq Source
    BY SourcesAssumption
    DEF Wanted, FileSource, SourcesAt, Source, SourcesAssumption
  <2>3. DOMAIN followed \subseteq Path /\ followed \in [DOMAIN followed -> Source]
    BY PartialIs DEF SourcesInv, SourcesTypeOK
  <2>4. DOMAIN followed' \subseteq Path /\ followed' \in [DOMAIN followed' -> Source]
    BY <2>1, <2>2, <2>3 DEF Kept
  <2> QED
    BY <2>4, PartialIs
<1> QED
  BY <1>1, <1>2
  DEF SourcesInv, SourcesTypeOK, TodoListed, NoOrphan, ClaimsNoted, PlainFound,
      Defined

LEMMA SourcesNextInv == SourcesInv /\ [SourcesNext]_vars => SourcesInv'
<1> SUFFICES ASSUME SourcesInv, [SourcesNext]_vars PROVE SourcesInv'
  OBVIOUS
<1>1. CASE Load
  BY <1>1, LoadKeeps
<1>2. CASE LoadRaises \/ StatRaises
  <2>1. UNCHANGED <<content, status, edits, logs, config, lock, followed>>
    BY <1>2 DEF LoadRaises, StatRaises, confs
  <2>2. noticed' \in BOOLEAN /\ raised' \in BOOLEAN /\ watching' \in BOOLEAN
    <3>1. CASE LoadRaises
      BY <3>1, Zenon DEF LoadRaises
    <3>2. CASE StatRaises
      BY <3>2 DEF StatRaises, confs, SourcesInv, SourcesTypeOK
    <3> QED
      BY <1>2, <3>1, <3>2
  <2> QED
    BY <2>1, <2>2
    DEF SourcesInv, SourcesTypeOK, TodoListed, NoOrphan, ClaimsNoted, PlainFound,
        logs, config, lock
<1>3. CASE ValidateUnvalid \/ Retry \/ Unlock
  <2>1. UNCHANGED <<confs, logs, config, threads, followed>>
    BY <1>3 DEF ValidateUnvalid, Retry, Unlock
  <2>2. \/ todo' = DOMAIN unvalid /\ phase' = "again" /\ (phase = "free" \/ todo = {})
        \/ todo = {} /\ todo' = todo /\ phase' = "free"
    <3>1. CASE ValidateUnvalid
      BY <3>1, Zenon DEF ValidateUnvalid
    <3>2. CASE Retry \/ Unlock
      BY <3>2 DEF Retry, Unlock
    <3> QED
      BY <1>3, <3>1, <3>2
  <2>3. DOMAIN unvalid \subseteq Entry
    BY PartialIs DEF SourcesInv, SourcesTypeOK
  <2>4. SourcesTypeOK'
    BY <2>1, <2>2, <2>3 DEF SourcesInv, SourcesTypeOK, confs, logs, config, threads
  <2>5. TodoListed' /\ PlainFound'
    BY <2>1, <2>2 DEF SourcesInv, TodoListed, PlainFound, config
  <2> QED
    BY <2>1, <2>4, <2>5
    DEF SourcesInv, NoOrphan, ClaimsNoted, confs, config, threads
<1>4. CASE Sync
  BY <1>4, SyncKeeps
<1>5. CASE Validate
  BY <1>5, TryKeeps DEF Validate
<1>6. ASSUME NEW c \in Conf, Edit(c) PROVE SourcesInv'
  <2>1. /\ content' \in [Conf -> SUBSET Entry]
        /\ status' \in [Conf -> {"ok", "syntax", "unreadable"}] /\ edits' \in 0 .. MaxEdit
    BY <1>6, SourcesAssumption DEF Edit, SourcesInv, SourcesTypeOK, SourcesAssumption
  <2>2. noticed' = FALSE /\ UNCHANGED <<logs, config, lock, threads, followed>>
    BY <1>6 DEF Edit
  <2>3. SourcesTypeOK'
    BY <2>1, <2>2 DEF SourcesInv, SourcesTypeOK, logs, config, lock, threads
  <2>4. TodoListed' /\ NoOrphan' /\ ClaimsNoted' /\ PlainFound'
    BY <2>2 DEF SourcesInv, TodoListed, NoOrphan, ClaimsNoted, PlainFound, config, lock
  <2> QED
    BY <2>3, <2>4 DEF SourcesInv
<1>7. ASSUME NEW c \in Conf, Chmod(c) PROVE SourcesInv'
  <2>1. /\ status' \in [Conf -> {"ok", "syntax", "unreadable"}] /\ edits' \in 0 .. MaxEdit
    BY <1>7, SourcesAssumption DEF Chmod, SourcesInv, SourcesTypeOK, SourcesAssumption
  <2>2. UNCHANGED <<content, noticed, logs, config, lock, threads, followed>>
    BY <1>7 DEF Chmod
  <2> QED
    BY <2>1, <2>2
    DEF SourcesInv, SourcesTypeOK, TodoListed, NoOrphan, ClaimsNoted, PlainFound,
        logs, config, lock, threads
<1>8. ASSUME NEW p \in Path, ChangePath(p) PROVE SourcesInv'
  <2>1. path' \in [Path -> {"absent", "unreadable", "readable"}] /\ changes' \in 0 .. MaxChange
    BY <1>8, SourcesAssumption DEF ChangePath, SourcesInv, SourcesTypeOK, SourcesAssumption
  <2>2. UNCHANGED <<confs, config, lock, threads, followed>>
    BY <1>8 DEF ChangePath
  <2> QED
    BY <2>1, <2>2
    DEF SourcesInv, SourcesTypeOK, TodoListed, NoOrphan, ClaimsNoted, PlainFound,
        confs, config, lock, threads
<1>9. CASE UNCHANGED vars
  BY <1>9
  DEF SourcesInv, SourcesTypeOK, TodoListed, NoOrphan, ClaimsNoted, PlainFound,
      vars, confs, logs, config, lock, threads
<1> QED
  BY <1>1, <1>2, <1>3, <1>4, <1>5, <1>6, <1>7, <1>8, <1>9 DEF SourcesNext

-----------------------------------------------------------------------------
(* Theorems *)

\* The tables of AgentLogConfig and of the collector keep their shape.
THEOREM SourcesTypeCorrect == SourcesSpec => []SourcesTypeOK
  BY SourcesInitInv, SourcesNextInv, PTL DEF SourcesSpec, SourcesInv

\* Whatever reloads, retries and claims of several entries on one source have come
\* before (config.py:125-300), every valid source belongs to a loaded entry.
THEOREM NothingIsOrphaned == SourcesSpec => []NoOrphan
  BY SourcesInitInv, SourcesNextInv, PTL DEF SourcesSpec, SourcesInv

\* A source that an entry has found, or must have found, is missing only if two
\* entries have claimed it (config.py:279-300).
THEOREM MissingIsContended == SourcesSpec => []MissingOnlyIfContended
<1>1. SourcesInv => MissingOnlyIfContended
  BY PartialIs
  DEF SourcesInv, SourcesTypeOK, TodoListed, ClaimsNoted, PlainFound, MissingOnlyIfContended
<1> QED
  BY <1>1, SourcesInitInv, SourcesNextInv, PTL DEF SourcesSpec

=============================================================================
