------------------------------- MODULE Sources -------------------------------
(***************************************************************************)
(* logcollector/src/config.py, and the part of logcollector.py that uses   *)
(* it: which log files the collector follows.                              *)
(*                                                                         *)
(* The .conf files hold entries: a location, which may be a glob, and how  *)
(* to read it.  AgentLogConfig loads them when a modification time has     *)
(* changed, and turns every entry into sources, one for each file of the   *)
(* location that exists and can be read.  An entry that is not wholly      *)
(* there stays in _unvalid_confs and is tried again.  _sync_sources then   *)
(* opens what is wanted and closes what is not.                            *)
(*                                                                         *)
(* An entry stands for its dedup_key(): the same entry in two files is     *)
(* one.  Loading and validating happen under one lock, entry by entry      *)
(* here, because the log files come and go meanwhile.                      *)
(***************************************************************************)
EXTENDS Naturals, FiniteSets, Functions

CONSTANTS Conf,         \* the names of .conf files
          Entry,        \* <localfile> entries
          Path,         \* log files
          Glob,         \* the entries whose location is a glob
          Journald,     \* the entries with log_format journald
          Locations,    \* Locations[e]: the paths that the location of e names
          Kind,         \* Kind[e]: log_format and multiline of e
          Installed,    \* Installed[c]: the entries of c when the collector starts
          MaxEdit,      \* bound of the model: changes of the .conf files
          MaxChange     \* bound of the model: changes of the log files

ASSUME SourcesAssumption ==
  /\ Glob \subseteq Entry /\ Journald \subseteq Entry \ Glob
  /\ Locations \in [Entry -> SUBSET Path]
  /\ \A e \in Entry \ Glob : Cardinality(Locations[e]) = 1
  /\ DOMAIN Kind = Entry /\ Installed \in [Conf -> SUBSET Entry]
  /\ \A j \in Journald, e \in Entry \ Journald : Kind[j] # Kind[e]
  /\ MaxEdit \in Nat /\ MaxChange \in Nat

VARIABLES
  content,    \* disk: the entries in each .conf file
  status,     \* disk: whether it is well formed and can be opened
  path,       \* disk: "absent", "unreadable" or "readable", for each log file
  noticed,    \* _conf_mtimes is what the files have now
  loaded,     \* _conf_mtimes_old: the entries of the last load -> their file
  valid,      \* _valid_confs: sources -> conf_location
  owned,      \* _valid_localfile_confs: the sources of each entry
  unvalid,    \* _unvalid_confs: the entries to try again -> their file
  phase,      \* what the thread that holds the lock is doing, or "free"
  todo,       \* the entries it has still to validate
  raised,     \* the last load ended in an exception
  watching,   \* the watch thread lives
  followed,   \* _file_sources: location -> source
  contended,  \* history: sources that a second entry has claimed
  edits, changes

confs == <<content, status, noticed, edits>>
logs == <<path, changes>>
config == <<loaded, valid, owned, unvalid, contended>>
lock == <<phase, todo>>
threads == <<raised, watching>>
vars == <<confs, logs, config, lock, threads, followed>>

Source == {<<Kind[e], p>> : e \in Entry, p \in Path}

Partial(S, T) == UNION {[D -> T] : D \in SUBSET S}

Empty == [x \in {} |-> {}]

\* The tables of AgentLogConfig and of the collector keep their shape, and only
\* entries that are loaded are tried again.
SourcesTypeOK ==
  /\ content \in [Conf -> SUBSET Entry]
  /\ status \in [Conf -> {"ok", "syntax", "unreadable"}]
  /\ path \in [Path -> {"absent", "unreadable", "readable"}]
  /\ loaded \in Partial(Entry, Conf) /\ valid \in Partial(Source, Conf)
  /\ owned \in [Entry -> SUBSET Source] /\ unvalid \in Partial(Entry, Conf)
  /\ DOMAIN unvalid \subseteq DOMAIN loaded
  /\ phase \in {"free", "added", "again"} /\ todo \subseteq Entry
  /\ noticed \in BOOLEAN /\ raised \in BOOLEAN /\ watching \in BOOLEAN
  /\ followed \in Partial(Path, Source) /\ contended \subseteq Source
  /\ edits \in 0 .. MaxEdit /\ changes \in 0 .. MaxChange

SourcesInit ==
  /\ content = Installed /\ status = [c \in Conf |-> "ok"]
  /\ path \in [Path -> {"absent", "readable"}]
  /\ noticed = FALSE /\ loaded = Empty /\ valid = Empty /\ unvalid = Empty
  /\ owned = [e \in Entry |-> {}] /\ phase = "free" /\ todo = {}
  /\ raised = FALSE /\ watching = TRUE /\ followed = Empty /\ contended = {}
  /\ edits = 0 /\ changes = 0

-----------------------------------------------------------------------------
Less(f, S) == Restrict(f, DOMAIN f \ S)

SourcesAt(e, P) == {<<Kind[e], p>> : p \in P}

\* The entries of the files that parse.
Defined == UNION {content[c] : c \in {d \in Conf : status[d] # "syntax"}}

\* open_glob_mask: a glob names the files there are, a plain location itself.
Opened(e) ==
  IF e \in Glob THEN {p \in Locations[e] : path[p] # "absent"} ELSE Locations[e]

\* The journal needs no file.
Usable(e) ==
  IF e \in Journald THEN Locations[e] ELSE {p \in Opened(e) : path[p] = "readable"}

-----------------------------------------------------------------------------
(* Wrong variants: slips in the definitions below, which the properties      *)
(* reject.                                                                   *)

\* _clear_localfile_by_key forgets the key and leaves its sources.
ClearedKeyOnly(removed) ==
  /\ owned' = [e \in Entry |-> IF e \in removed THEN {} ELSE owned[e]]
  /\ unvalid' = Less(unvalid, removed) /\ UNCHANGED valid

\* An entry that is removed goes on being tried.
ClearedButRetried(removed) ==
  /\ owned' = [e \in Entry |-> IF e \in removed THEN {} ELSE owned[e]]
  /\ valid' = Less(valid, UNION {owned[e] : e \in removed})
  /\ UNCHANGED unvalid

\* A glob that names no file is tried again, a plain file that is not there is not.
NeedsRetryGlobs(e) == Opened(e) = {}

\* Sources that are open stay open.
KeptAll(wanted) == DOMAIN followed

-----------------------------------------------------------------------------
(* Loading and validating, under the lock *)

\* _clear_localfile_by_key for every removed entry: its sources go, whoever else
\* claims them.
Cleared(removed) ==
  /\ owned' = [e \in Entry |-> IF e \in removed THEN {} ELSE owned[e]]
  /\ valid' = Less(valid, UNION {owned[e] : e \in removed})
  /\ unvalid' = Less(unvalid, removed)

\* _load_conf_dir when a modification time has changed.  A file that does not
\* parse counts as empty.
Load ==
  /\ watching /\ phase = "free" /\ ~noticed
  /\ \A c \in Conf : status[c] # "unreadable"
  /\ noticed' = TRUE /\ raised' = FALSE
  /\ \E where \in [Defined -> Conf] :
       /\ \A e \in Defined : e \in content[where[e]] /\ status[where[e]] # "syntax"
       /\ loaded' = where
  /\ Cleared(DOMAIN loaded \ Defined)
  /\ phase' = "added" /\ todo' = Defined \ DOMAIN loaded
  /\ UNCHANGED <<content, status, edits, logs, watching, followed, contended>>

\* A file that cannot be opened raises through everything.  The new times have
\* been recorded, nothing else has happened; the watch thread dies, unless it was
\* the callback of the watcher that ran.
LoadRaises ==
  /\ watching /\ phase = "free" /\ ~noticed
  /\ \E c \in Conf : status[c] = "unreadable"
  /\ noticed' = TRUE /\ raised' = TRUE /\ watching' \in BOOLEAN
  /\ UNCHANGED <<content, status, edits, logs, config, lock, followed>>

\* A file that was there a moment ago cannot be asked for its time.  This raises
\* like the above, but before the new times are recorded: in the callback of the
\* watcher it changes nothing, otherwise the watch thread dies.
StatRaises ==
  /\ watching /\ phase = "free" /\ ~noticed
  /\ raised' = TRUE /\ watching' = FALSE
  /\ UNCHANGED <<confs, logs, config, lock, followed>>

\* _load_conf_dir has nothing to do, or is done with the new entries.
ValidateUnvalid ==
  /\ \/ phase = "free" /\ noticed /\ watching
     \/ phase = "added" /\ todo = {}
  /\ phase' = "again" /\ todo' = DOMAIN unvalid
  /\ UNCHANGED <<confs, logs, config, threads, followed>>

\* _retry_loop.
Retry ==
  /\ phase = "free" /\ DOMAIN unvalid # {}
  /\ phase' = "again" /\ todo' = DOMAIN unvalid
  /\ UNCHANGED <<confs, logs, config, threads, followed>>

NeedsRetry(e) == Opened(e) = {} \/ (e \notin Journald /\ Usable(e) # Opened(e))

\* _try_validate: the entry's sources are dropped and found anew.  A source that
\* an entry of another file has keeps its place there.
TryValidate(e) ==
  /\ e \in todo
  /\ LET c == IF phase = "added" THEN loaded[e] ELSE unvalid[e]
         rest == Less(valid, owned[e])
         found == SourcesAt(e, Usable(e))
         mine == {s \in found : s \in DOMAIN rest => rest[s] = c}
         again == (DOMAIN unvalid \ {e}) \cup IF NeedsRetry(e) THEN {e} ELSE {}
     IN /\ valid' = [s \in DOMAIN rest \cup mine |-> IF s \in mine THEN c ELSE rest[s]]
        /\ owned' = [owned EXCEPT ![e] = mine]
        /\ unvalid' = [d \in again |-> IF d = e THEN c ELSE unvalid[d]]
        /\ contended' = contended \cup (found \cap DOMAIN rest)
  /\ todo' = todo \ {e}
  /\ UNCHANGED <<confs, logs, loaded, phase, threads, followed>>

Unlock ==
  /\ phase = "again" /\ todo = {}
  /\ phase' = "free"
  /\ UNCHANGED <<confs, logs, config, todo, threads, followed>>

-----------------------------------------------------------------------------
(* LogCollector._sync_sources *)

FileSource == UNION {SourcesAt(e, Locations[e]) : e \in Entry \ Journald}

Wanted == {s[2] : s \in DOMAIN valid \cap FileSource}

Kept(wanted) == DOMAIN followed \cap wanted

\* A location in use keeps its source; of two sources for one location the last
\* in the table is opened.
Sync ==
  /\ phase = "free"
  /\ LET new == {p \in Wanted \ Kept(Wanted) : path[p] = "readable"}
     IN \E pick \in [new -> DOMAIN valid \cap FileSource] :
          /\ \A p \in new : pick[p][2] = p
          /\ followed' = [p \in Kept(Wanted) \cup new |->
                            IF p \in new THEN pick[p] ELSE followed[p]]
  /\ UNCHANGED <<confs, logs, config, lock, threads>>

-----------------------------------------------------------------------------
(* The administrator and the programs that log *)

\* An entry comes or goes, or the file is no longer well formed; a larger change is
\* several of these before the next load.
Edit(c) ==
  /\ edits < MaxEdit /\ edits' = edits + 1
  /\ \/ /\ \E e \in Entry : \E E \in {content[c] \cup {e}, content[c] \ {e}} :
            content' = [content EXCEPT ![c] = E]
        /\ status' = [status EXCEPT ![c] = "ok"]
     \/ status' = [status EXCEPT ![c] = "syntax"] /\ UNCHANGED content
  /\ noticed' = FALSE
  /\ UNCHANGED <<logs, config, lock, threads, followed>>

\* A change of permissions leaves the modification time alone.
Chmod(c) ==
  /\ edits < MaxEdit /\ edits' = edits + 1
  /\ \/ status[c] = "ok" /\ status' = [status EXCEPT ![c] = "unreadable"]
     \/ status[c] = "unreadable" /\ status' = [status EXCEPT ![c] = "ok"]
  /\ UNCHANGED <<content, noticed, logs, config, lock, threads, followed>>

ChangePath(p) ==
  /\ changes < MaxChange /\ changes' = changes + 1
  /\ \E s \in {"absent", "unreadable", "readable"} \ {path[p]} :
       path' = [path EXCEPT ![p] = s]
  /\ UNCHANGED <<confs, config, lock, threads, followed>>

Validate == \E e \in Entry : TryValidate(e)

SourcesNext ==
  \/ Load \/ LoadRaises \/ StatRaises \/ ValidateUnvalid \/ Retry \/ Unlock \/ Sync
  \/ Validate
  \/ \E c \in Conf : Edit(c) \/ Chmod(c)
  \/ \E p \in Path : ChangePath(p)

SourcesSpec == SourcesInit /\ [][SourcesNext]_vars

\* The loops run on.  They wait for seconds between two turns, so that each finds
\* the lock free again and again and gets it in the end.
SourcesFairness ==
  /\ SF_vars(Load \/ LoadRaises) /\ SF_vars(Retry) /\ SF_vars(Sync)
  /\ WF_vars(ValidateUnvalid) /\ WF_vars(Validate) /\ WF_vars(Unlock)

SourcesFairSpec == SourcesSpec /\ SourcesFairness

-----------------------------------------------------------------------------
(* Properties *)

\* Whatever reloads, retries and claims of several entries on one source have
\* come before (config.py:125-300), a source is valid, and so followed, only
\* while an entry of the last load has it.
NoOrphan == DOMAIN valid \subseteq UNION {owned[e] : e \in DOMAIN loaded}

\* A source is missing only if two entries have claimed it (config.py:279-300):
\* what an entry has found is valid, and a plain entry that is not being tried
\* again has found its file.
MissingOnlyIfContended ==
  phase = "free" =>
    \A e \in DOMAIN loaded :
      /\ owned[e] \subseteq DOMAIN valid \cup contended
      /\ e \notin Glob \cup DOMAIN unvalid =>
           SourcesAt(e, Locations[e]) \subseteq DOMAIN valid \cup contended

\* Once the .conf files and the log files change no more, a log file that a plain
\* entry names, and no second entry, is followed, in whatever order the entry and
\* the file have come to be, and one that no entry names is closed
\* (logcollector.py:196); unless the last load raised (config.py:201 catches
\* ParseError only).
EventuallyAsConfigured ==
  <>[](~raised =>
         /\ \A e \in Defined \ (Glob \cup Journald) : \A p \in Locations[e] :
              path[p] = "readable" /\ <<Kind[e], p>> \notin contended => p \in DOMAIN followed
         /\ \A p \in DOMAIN followed : \E e \in Defined \ Journald : p \in Locations[e])

=============================================================================
