--------------------------- MODULE ProviderCatalog --------------------------
(***************************************************************************)
(* The provider catalog (providers/mod.rs, runtime.rs): which manifests    *)
(* are in force.  Bundled rules, a digest-verified cache, the last good    *)
(* cache and a local override are read by every server whenever a watched  *)
(* file changes, one read at a time while the files keep changing; a       *)
(* catalog that may be activated replaces the runtime's, and the core asks *)
(* for its quiet Panes to be judged again.                                 *)
(*                                                                         *)
(* A file's content is a document of Docs, or Absent.  A digest is the     *)
(* document it was made from.  An inode holds the envelope written to it.  *)
(***************************************************************************)
EXTENDS Naturals, Sequences, FiniteSets, Functions

CONSTANTS Servers,     \* sessions of one user: they share the files
          Docs,        \* documents a cache or an override may hold
          Bundled,     \* the built-in document
          Command,     \* what a quiet Pane runs
          Connectors,  \* provider ids with a first-party connector
          MaxWrites, MaxRestarts

VARIABLES files,       \* [local, cache, digest]
          disk,        \* [good, tmp: inode or 0, inodes: their contents]
          run,         \* server |-> its runtime
          load,        \* server |-> the load in flight
          pane,        \* server |-> [told, asked, judged]
          writes, restarts

vars == <<files, disk, run, load, pane, writes, restarts>>

Absent == [providers |-> <<>>, fine |-> FALSE]
Torn == [providers |-> <<>>, fine |-> TRUE]
Nothing == [id \in {} |-> 0]

(***************************************************************************)
(* validate_document.  "fine" stands for the bounds and alphabets of       *)
(* names, patterns, confidences and dwell times, and for the JSON itself.  *)
(***************************************************************************)
Owners(doc, alias) == {i \in DOMAIN doc.providers : alias \in Range(doc.providers[i].aliases)}
Unrepeated(s) == IsInjective(s)
ValidProvider(p) ==
    /\ Unrepeated(p.aliases)
    /\ ("process" \in p.caps) = (p.aliases # <<>>)
    /\ ("connector" \in p.caps) = (p.id \in Connectors)
    /\ ("screen" \in p.caps) = ("screen" \in p.rules)
    /\ ("log" \in p.caps) = ("log" \in p.rules /\ p.log)
Valid(doc) ==
    /\ doc.fine /\ doc.providers # <<>>
    /\ Unrepeated([i \in DOMAIN doc.providers |-> doc.providers[i].id])
    /\ \A p \in Range(doc.providers) : ValidProvider(p)
    /\ \A p \in Range(doc.providers) : \A a \in Range(p.aliases) : Cardinality(Owners(doc, a)) = 1

(***************************************************************************)
(* A catalog: provider id |-> [aliases, rank].                             *)
(***************************************************************************)
Ids(doc) == {p.id : p \in Range(doc.providers)}
Definition(doc, id) == CHOOSE p \in Range(doc.providers) : p.id = id
insert_document(selected, doc, rank) ==
    [id \in DOMAIN selected \cup Ids(doc) |->
        IF id \in Ids(doc) THEN [aliases |-> Range(Definition(doc, id).aliases), rank |-> rank] ELSE selected[id]]
\* The winner among the providers that claim a command: by rank, then by id.
process(catalog, command) ==
    LET claims == {id \in DOMAIN catalog : command \in catalog[id].aliases}
        best == {id \in claims : \A other \in claims : catalog[other].rank <= catalog[id].rank}
    IN  IF claims = {} THEN 0 ELSE CHOOSE id \in best : \A other \in best : id <= other

\* load_from_paths, given what was read: a cache or last good document, and the override.
Compiled(cached, rank, local) ==
    LET base == insert_document(Nothing, Bundled, 10)
        middle == IF Valid(cached) THEN insert_document(base, cached, rank) ELSE base
    IN  IF Valid(local) THEN insert_document(middle, local, 40) ELSE middle
ActivationValid(local) == local = Absent \/ Valid(local)
\* read_verified, read_last_good
Verified(cache, digest) == cache # Absent /\ digest = cache /\ Valid(cache)
LastGood == IF disk.good = 0 THEN Absent ELSE disk.inodes[disk.good]

(***************************************************************************)
(* A load reads the cache, its digest, saves or reads the last good one,   *)
(* and reads the override, while others write.                             *)
(***************************************************************************)
NoLoad == [at |-> "none", cache |-> Absent, cached |-> Absent, rank |-> 0, local |-> Absent, inode |-> 0]
Start == [NoLoad EXCEPT !.at = "cache"]
NoRun == [changed |-> FALSE, inflight |-> FALSE, again |-> FALSE, noted |-> FALSE, up |-> FALSE, active |-> Nothing]

Init ==
    /\ files = [local |-> Absent, cache |-> Absent, digest |-> Absent]
    /\ disk = [good |-> 0, tmp |-> 0, inodes |-> <<>>]
    /\ run = [s \in Servers |-> [NoRun EXCEPT !.inflight = TRUE]]
    /\ load = [s \in Servers |-> Start]
    /\ pane = [s \in Servers |-> [told |-> FALSE, asked |-> TRUE, judged |-> 0]]
    /\ writes = 0 /\ restarts = 0

Others == <<files, run, pane, writes, restarts>>
ReadCache(s) ==
    /\ load[s].at = "cache"
    /\ load' = [load EXCEPT ![s].cache = files.cache, ![s].at = "digest"]
    /\ UNCHANGED <<disk, Others>>
ReadDigest(s) ==
    /\ load[s].at = "digest"
    /\ load' = IF Verified(load[s].cache, files.digest)
               THEN [load EXCEPT ![s].cached = load[s].cache, ![s].rank = 30, ![s].at = "open"]
               ELSE [load EXCEPT ![s].at = "good"]
    /\ UNCHANGED <<disk, Others>>
\* write_private_atomic: one temporary name, created or truncated.
Opened == IF disk.tmp # 0 THEN disk.tmp ELSE Len(disk.inodes) + 1
OpenTemporary(s) ==
    /\ load[s].at = "open"
    /\ disk' = [disk EXCEPT !.tmp = Opened,
                            !.inodes = IF disk.tmp # 0 THEN [@ EXCEPT ![disk.tmp] = Torn] ELSE Append(@, Torn)]
    /\ load' = [load EXCEPT ![s].inode = Opened, ![s].at = "write"]
    /\ UNCHANGED Others
WriteTemporary(s) ==
    /\ load[s].at = "write"
    /\ disk' = [disk EXCEPT !.inodes[load[s].inode] = load[s].cached]
    /\ load' = [load EXCEPT ![s].at = "rename"]
    /\ UNCHANGED Others
\* A rename that fails is a diagnostic.
RenameTemporary(s) ==
    /\ load[s].at = "rename"
    /\ disk' = IF disk.tmp = 0 THEN disk ELSE [disk EXCEPT !.good = disk.tmp, !.tmp = 0]
    /\ load' = [load EXCEPT ![s].at = "local"]
    /\ UNCHANGED Others
ReadLastGood(s) ==
    /\ load[s].at = "good"
    /\ load' = [load EXCEPT ![s].cached = LastGood, ![s].rank = 20, ![s].at = "local"]
    /\ UNCHANGED <<disk, Others>>
ReadLocal(s) ==
    /\ load[s].at = "local"
    /\ load' = [load EXCEPT ![s].local = files.local, ![s].at = "loaded"]
    /\ UNCHANGED <<disk, Others>>
LoadStep(s) ==
    \/ ReadCache(s) \/ ReadDigest(s) \/ OpenTemporary(s) \/ WriteTemporary(s) \/ RenameTemporary(s)
    \/ ReadLastGood(s) \/ ReadLocal(s)

(***************************************************************************)
(* The runtime loop.                                                       *)
(***************************************************************************)
\* The watcher's try_send into a one-item channel.
Notify(s) ==
    /\ run[s].noted
    /\ run' = [run EXCEPT ![s].noted = FALSE, ![s].changed = TRUE]
    /\ UNCHANGED <<files, disk, load, pane, writes, restarts>>
\* Slip: a change that meets a load in flight is taken as covered by it.
ProviderChangedOnce(s) ==
    /\ run[s].changed /\ run[s].up
    /\ run' = [run EXCEPT ![s].changed = FALSE, ![s].inflight = TRUE]
    /\ load' = IF run[s].inflight THEN load ELSE [load EXCEPT ![s] = Start]
    /\ UNCHANGED <<files, disk, pane, writes, restarts>>
ProviderChanged(s) ==
    /\ run[s].changed /\ run[s].up
    /\ run' = [run EXCEPT ![s].changed = FALSE, ![s].inflight = TRUE, ![s].again = @ \/ run[s].inflight]
    /\ load' = IF run[s].inflight THEN load ELSE [load EXCEPT ![s] = Start]
    /\ UNCHANGED <<files, disk, pane, writes, restarts>>
\* The first load is the runtime's own and is active whatever the override holds.
ProviderLoaded(s) ==
    /\ load[s].at = "loaded"
    /\ LET activate == ActivationValid(load[s].local) \/ ~run[s].up
           catalog == Compiled(load[s].cached, load[s].rank, load[s].local)
       IN  /\ run' = [run EXCEPT ![s].active = IF activate THEN catalog ELSE @, ![s].up = TRUE, ![s].inflight = FALSE,
                                 ![s].changed = @ \/ run[s].again, ![s].again = FALSE]
           /\ pane' = IF activate /\ run[s].up THEN [pane EXCEPT ![s].told = TRUE] ELSE pane
    /\ load' = [load EXCEPT ![s] = NoLoad]
    /\ UNCHANGED <<files, disk, writes, restarts>>

\* The core resubmits the Pane's evidence; the runtime judges it by the catalog of that moment.
refresh_provider_evidence(s) ==
    /\ pane[s].told
    /\ pane' = [pane EXCEPT ![s].told = FALSE, ![s].asked = TRUE]
    /\ UNCHANGED <<files, disk, run, load, writes, restarts>>
JudgePane(s) ==
    /\ pane[s].asked /\ run[s].up
    /\ pane' = [pane EXCEPT ![s].asked = FALSE, ![s].judged = process(run[s].active, Command)]
    /\ UNCHANGED <<files, disk, run, load, writes, restarts>>

(***************************************************************************)
(* The user and the updater write files; every server is told.             *)
(***************************************************************************)
WriteFile(f, doc) ==
    /\ writes < MaxWrites /\ files[f] # doc
    /\ files' = [files EXCEPT ![f] = doc]
    /\ writes' = writes + 1
    /\ run' = [s \in Servers |-> [run[s] EXCEPT !.noted = TRUE]]
    /\ UNCHANGED <<disk, load, pane, restarts>>
\* The process dies wherever its load is; another one starts.
Restart(s) ==
    /\ restarts < MaxRestarts
    /\ restarts' = restarts + 1
    /\ run' = [run EXCEPT ![s] = [NoRun EXCEPT !.inflight = TRUE]]
    /\ load' = [load EXCEPT ![s] = Start]
    /\ pane' = [pane EXCEPT ![s] = [told |-> FALSE, asked |-> TRUE, judged |-> 0]]
    /\ UNCHANGED <<files, disk, writes>>

Next ==
    \/ \E s \in Servers :
          \/ LoadStep(s) \/ Notify(s) \/ ProviderChanged(s) \/ ProviderLoaded(s)
          \/ refresh_provider_evidence(s) \/ JudgePane(s) \/ Restart(s)
    \/ \E f \in {"local", "cache", "digest"}, doc \in Docs \cup {Absent} : WriteFile(f, doc)
Spec == Init /\ [][Next]_vars

(***************************************************************************)
(* Properties.                                                             *)
(***************************************************************************)
Quiet(s) ==
    run[s].up /\ ~run[s].noted /\ ~run[s].changed /\ ~run[s].inflight /\ ~pane[s].told /\ ~pane[s].asked

\* Once its events are handled, a server's catalog is what the files say now, the override
\* first, each alias of it naming its own provider, and its quiet Panes are judged by that
\* catalog; a malformed override alone leaves an earlier catalog in force (load_from_paths,
\* validate_document, ProviderChanged, ProviderLoaded, refresh_provider_evidence).
CatalogFollowsFiles ==
    \A s \in Servers : Quiet(s) =>
        /\ pane[s].judged = process(run[s].active, Command)
        /\ ActivationValid(files.local) =>
              run[s].active = IF Verified(files.cache, files.digest) THEN Compiled(files.cache, 30, files.local)
                              ELSE Compiled(LastGood, 20, files.local)
        /\ Valid(files.local) => \A p \in Range(files.local.providers) : \A a \in Range(p.aliases) :
              process(run[s].active, a) = p.id

\* The last good envelope is whole whenever one exists: whoever reads it, and whatever
\* process died while saving it (persist_last_good, write_private_atomic).
LastGoodIsWhole == LastGood # Torn
=============================================================================
