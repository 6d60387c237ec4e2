----------------------------- MODULE RootsAdmin -----------------------------
(***************************************************************************)
(* Editing the list of roots while the server runs: POST and DELETE        *)
(* /api/roots, the configuration file they splice, what the process keeps  *)
(* of it (the startup list, the added and the removed roots, the digest it *)
(* adopted, the open handles, the scanner's table), the index rows of each *)
(* root, the scans that fill them, and restarts.  The file is shared with  *)
(* the operator, who edits it by hand at any moment.  An operator named    *)
(* X_Y is X with a plausible mistake in it.                                *)
(***************************************************************************)
EXTENDS Naturals, Sequences, SequencesExt

CONSTANTS
  Paths,          \* directories somebody may configure
  Slug,           \* Paths -> base name of a directory, slugified
  Below,          \* <<p, q>>: p is strictly inside q
  Reachable,      \* the directories that exist and open
  StorageUnder,   \* the directories that hold our own data or cache
  FileUnder,      \* the directories that hold the configuration file
  InitialFile,    \* the configuration file at the beginning
  MaxSuffix,      \* bound: the roots of one base name
  MaxRoots,       \* bound: the roots to which somebody adds one by hand
  MaxEdits,       \* bound: edits by hand
  MaxRequests,    \* bound: POST and DELETE requests that reach the file
  MaxScans,       \* bound: scans asked for
  MaxStarts       \* bound: starts of the server

Names == {Slug[p] : p \in Paths} \X (1..MaxSuffix)
Entries == [name : Names, path : Paths, enabled : BOOLEAN]
Forms == {"block", "flow", "broken", "missing"}
Files == [form : Forms, roots : Seq(Entries), note : {0, 1}]
NoFile == [form |-> "missing", roots |-> <<>>, note |-> 0]

\* No two entries have a name in common.
Unique(entries) == \A i, j \in DOMAIN entries : entries[i].name = entries[j].name => i = j

ASSUME RootsAssumption ==
  /\ InitialFile \in Files /\ Unique(InitialFile.roots)
  /\ {MaxSuffix, MaxRoots, MaxEdits, MaxRequests, MaxScans, MaxStarts} \subseteq Nat

VARIABLES
  file,      \* the configuration file: how roots: is written, its entries, the rest
  bak,       \* the copy taken before the last write
  up,        \* the process serves
  cfg,       \* the entries of cfg.Roots, frozen at startup
  digest,    \* configDigest: the file content the process has adopted
  added,     \* addedRoots
  removed,   \* removedRoots
  handles,   \* RootSet.entries: name -> directory
  table,     \* the scanner's cfgRoots
  edit,      \* the request that holds rootEdit
  ask,       \* a scan request between scanRoots and Scanner.Start
  scan,      \* the scan that runs
  rows,      \* index.db, table roots: name -> directory
  books,     \* the roots that have series and books in index.db
  used,      \* how much of each bound is spent
  past       \* history: what the properties must remember

process == <<cfg, digest, added, removed, handles, table>>
rootsVars == <<file, bak, up, process, edit, ask, scan, rows, books, used, past>>

Listed(f) == ToSet(f.roots)
NamesOf(entries) == {e.name : e \in entries}
NotNamed(entries, n) == {e \in entries : e.name # n}
IndexOf(entries, n) == CHOOSE k \in DOMAIN entries : entries[k].name = n
Spend(what) == used' = [used EXCEPT ![what] = @ + 1]

NoEdit == [pc |-> "idle"]
NoScan == [pc |-> "idle", todo |-> <<>>, table |-> <<>>, names |-> {}]
NoAsk == [pc |-> "none", roots |-> {}, all |-> FALSE]

------------------------------------------------------------------------------
(* The file. *)

\* ReadFileState answers for both styles; the digest is the whole content.
Readable(f) == f.form \in {"block", "flow"}

\* IsInside: a directory is inside itself.
Inside(p, q) == p = q \/ <<p, q>> \in Below

\* Reach: the directory exists, is one, and opens.
Reach(p) == p \in Reachable

\* Config.validate of what is written: at least one root, no name twice, and our
\* own data and cache under no root.
Valid(f) ==
  /\ f.roots # <<>>
  /\ Unique(f.roots)
  /\ \A e \in Listed(f) : e.path \notin StorageUnder

\* Config.checkFilesystem: every root is a directory, disabled ones too.
OnDisk(f) == \A e \in Listed(f) : Reach(e.path)

\* What makes Load refuse the roots of a file and the server exit with 2.
Startable(f) == Readable(f) /\ Valid(f) /\ OnDisk(f)

\* configuredRoots: the startup list and what was added since.
configuredRoots == cfg \union added

\* rootEditingReason = "".
GateOpen == \A e \in configuredRoots : e.path \notin FileUnder

\* The comparisons of validateRootCreate and of browseEntry, against a list.
Acceptable(p, current) ==
  /\ Reach(p)
  /\ \A e \in current : ~ Inside(p, e.path) /\ ~ Inside(e.path, p)
  /\ p \notin StorageUnder

\* browseEntry: what the directory picker offers, judged by the process's list.
Pickable(p) == Acceptable(p, configuredRoots)

\* uniqueRootName: the slug, or the slug with the least free suffix.
uniqueRootName(slug, taken) ==
  <<slug, CHOOSE n \in 1..MaxSuffix : /\ <<slug, n>> \notin taken
                                      /\ \A k \in 1..(n - 1) : <<slug, k>> \in taken>>

\* The rows GET /api/roots answers: index rows the process has not removed,
\* then the entries of the file that have none of those.
IndexedNames == DOMAIN rows \ removed
PendingNames_Rowless == IF Readable(file) THEN NamesOf(Listed(file)) \ DOMAIN rows ELSE {}
PendingNames == IF Readable(file) THEN NamesOf(Listed(file)) \ IndexedNames ELSE {}
ListedNames == IndexedNames \union PendingNames

\* Settings.server.config_changed_on_disk.
ChangedOnDisk == ~ Readable(file) \/ file # digest

------------------------------------------------------------------------------
Edits ==
  [pc : {"purge", "splice", "backup", "rename", "mark", "release", "open", "adopt",
         "table", "row", "start"},
   op : {"add", "remove"}, prior : Files, out : Files, entry : Entries]
Asks == [pc : {"asked"}, all : BOOLEAN, roots : SUBSET Names]
Scans == [pc : {"record", "walk"}, todo : Seq(Entries), table : Seq(Entries), names : SUBSET Names]
Spent == [edits : Nat, requests : Nat, scans : Nat, starts : Nat]
Pasts == [late : SUBSET Names, gone : SUBSET Names, raced : BOOLEAN, adrift : BOOLEAN]

rootsTypeOK ==
  /\ file \in Files /\ bak \in Files /\ digest \in Files
  /\ up \in BOOLEAN
  /\ cfg \subseteq Entries /\ added \subseteq Entries /\ table \in Seq(Entries)
  /\ removed \subseteq Names
  /\ DOMAIN handles \subseteq Names /\ DOMAIN rows \subseteq Names
  /\ edit \in {NoEdit} \union Edits
  /\ ask \in {NoAsk} \union Asks
  /\ scan \in {NoScan} \union Scans
  /\ books \subseteq DOMAIN rows
  /\ used \in Spent /\ past \in Pasts

rootsInit ==
  /\ file = InitialFile /\ bak = NoFile
  /\ up = FALSE
  /\ cfg = {} /\ digest = NoFile /\ added = {} /\ removed = {}
  /\ handles = <<>> /\ table = <<>>
  /\ edit = NoEdit /\ ask = NoAsk /\ scan = NoScan
  /\ rows = <<>> /\ books = {}
  /\ used = [edits |-> 0, requests |-> 0, scans |-> 0, starts |-> 0]
  /\ past = [late |-> {}, gone |-> {}, raced |-> FALSE, adrift |-> FALSE]

------------------------------------------------------------------------------
(* The process. *)

PathOf(entries) == [n \in NamesOf(entries) |-> (CHOOSE e \in entries : e.name = n).path]
Overlay(f, g) == [n \in DOMAIN f \union DOMAIN g |-> IF n \in DOMAIN g THEN g[n] ELSE f[n]]

\* reconcileRoots: a row for every configured root; the row of a root that has
\* left the configuration is kept.
reconcileRoots(roots) == Overlay(rows, PathOf(roots))

\* OpenRoots over EnabledRoots.
OpenRoots(roots) == PathOf({e \in roots : e.enabled})

\* app.New, the part about roots; the scanner gets the list too.
Start ==
  /\ ~ up /\ used.starts < MaxStarts
  /\ Startable(file)
  /\ up' = TRUE
  /\ cfg' = Listed(file) /\ table' = file.roots /\ digest' = file
  /\ rows' = reconcileRoots(Listed(file))
  /\ handles' = OpenRoots(Listed(file))
  /\ added' = {} /\ removed' = {}
  /\ Spend("starts")
  /\ past' = [past EXCEPT !.late = {}, !.raced = FALSE, !.adrift = FALSE]
  /\ UNCHANGED <<file, bak, edit, ask, scan, books>>

\* The process ends at any point: what it kept in memory is lost.
Stop ==
  /\ up
  /\ up' = FALSE
  /\ cfg' = {} /\ digest' = NoFile /\ added' = {} /\ removed' = {}
  /\ handles' = <<>> /\ table' = <<>>
  /\ edit' = NoEdit /\ ask' = NoAsk /\ scan' = NoScan
  /\ UNCHANGED <<file, bak, rows, books, used, past>>

------------------------------------------------------------------------------
(* The operator's editor. *)

\* Between the read a handler validated against and the last re-read it makes.
InWindow == edit.pc \in {"splice", "backup", "rename", "purge", "mark", "release", "open", "adopt"}

HandEdit ==
  /\ used.edits < MaxEdits
  /\ \/ \E form \in Forms : file' = [file EXCEPT !.form = form]
     \/ file' = [file EXCEPT !.note = 1 - @]
     \/ \E e \in Entries : /\ Len(file.roots) < MaxRoots /\ e.name = <<Slug[e.path], 1>>
                           /\ e.name \notin NamesOf(Listed(file))
                           /\ file' = [file EXCEPT !.roots = Append(@, e)]
     \/ \E n \in NamesOf(Listed(file)) :
          file' = [file EXCEPT !.roots = RemoveAt(@, IndexOf(@, n))]
     \/ /\ bak # NoFile
        /\ file' = bak
  /\ file' # file
  /\ Spend("edits")
  /\ past' = [past EXCEPT !.gone = @ \ NamesOf(Listed(file')),
                          !.raced = @ \/ InWindow]
  /\ UNCHANGED <<bak, up, process, edit, ask, scan, rows, books>>

------------------------------------------------------------------------------
(* POST /api/roots. *)

\* handleCreateRoot up to the write: the gate, the lock, the file as it is now,
\* validateRootCreate against its entries, the generated name.
CreateRoot(p) ==
  /\ up /\ edit = NoEdit /\ used.requests < MaxRequests
  /\ GateOpen
  /\ Readable(file) /\ Acceptable(p, Listed(file))
  /\ \E n \in 1..MaxSuffix : <<Slug[p], n>> \notin NamesOf(Listed(file))
  /\ edit' = [pc |-> "splice", op |-> "add", prior |-> file, out |-> NoFile,
              entry |-> [name |-> uniqueRootName(Slug[p], NamesOf(Listed(file))),
                         path |-> p, enabled |-> TRUE]]
  /\ Spend("requests")
  /\ UNCHANGED <<file, bak, up, process, ask, scan, rows, books, past>>

\* A refusal of the writer, or a failed write: 409 or 500, and the lock is free.
Refuse ==
  /\ edit' = NoEdit
  /\ UNCHANGED <<file, bak, up, process, ask, scan, rows, books, used, past>>

SpliceAdd_Unchecked ==
  /\ edit.pc = "splice" /\ edit.op = "add"
  /\ file.form = "block"
  /\ edit' = [edit EXCEPT !.pc = "backup", !.out = [file EXCEPT !.roots = Append(@, edit.entry)]]
  /\ UNCHANGED <<file, bak, up, process, ask, scan, rows, books, used, past>>

\* AddRoot reads the file again and checks the name again.
SpliceAdd ==
  /\ edit.pc = "splice" /\ edit.op = "add"
  /\ IF file.form = "block" /\ edit.entry.name \notin NamesOf(Listed(file))
       THEN /\ edit' = [edit EXCEPT !.pc = "backup",
                                    !.out = [file EXCEPT !.roots = Append(@, edit.entry)]]
            /\ UNCHANGED <<file, bak, up, process, ask, scan, rows, books, used, past>>
       ELSE Refuse

\* writeFileAtomic: the copy first, of the file as it is at that moment.
Backup ==
  /\ edit.pc = "backup"
  /\ IF file.form = "missing"
       THEN Refuse
       ELSE /\ bak' = file
            /\ edit' = [edit EXCEPT !.pc = "rename"]
            /\ UNCHANGED <<file, up, process, ask, scan, rows, books, used, past>>

\* ... then the temporary file is complete, synced and renamed over the old one.
Replace ==
  /\ edit.pc = "rename"
  /\ file' = edit.out
  /\ edit' = [edit EXCEPT !.pc = IF edit.op = "add" THEN "open" ELSE "mark"]
  /\ past' = IF edit.op = "add" THEN [past EXCEPT !.gone = @ \ {edit.entry.name}] ELSE past
  /\ UNCHANGED <<bak, up, process, ask, scan, rows, books, used>>

WriteFails == edit.pc \in {"backup", "rename"} /\ Refuse

\* adoptRoot: RootSet.Add, which keeps an entry of that name it already has.
OpenRoot ==
  /\ edit.pc = "open"
  /\ edit.entry.name \notin DOMAIN handles
  /\ handles' = Overlay(handles, PathOf({edit.entry}))
  /\ edit' = [edit EXCEPT !.pc = "adopt"]
  /\ UNCHANGED <<file, bak, up, cfg, digest, added, removed, table, ask, scan,
                 rows, books, used, past>>

\* ErrRootExists, or the directory does not open: the root stays pending.
StaysPending == edit.pc = "open" /\ Refuse

Rebase_Always == digest' = file

\* The baseline moves only when the file was the adopted one before our write.
Rebase == digest' = IF edit.prior = digest /\ Readable(file) THEN file ELSE digest

\* History: what is served has left the baseline, which stays where it was.
Drift == past.adrift \/ digest' # file

AdoptRoot ==
  /\ edit.pc = "adopt"
  /\ added' = added \union {edit.entry}
  /\ Rebase
  /\ edit' = [edit EXCEPT !.pc = "table"]
  /\ past' = [past EXCEPT !.adrift = Drift]
  /\ UNCHANGED <<file, bak, up, cfg, removed, handles, table, ask, scan, rows,
                 books, used>>

\* Scanner.AddConfigRoot: a name it already has is left as it is.
AddConfigRoot ==
  /\ edit.pc = "table"
  /\ table' = IF edit.entry.name \in NamesOf(ToSet(table)) THEN table ELSE Append(table, edit.entry)
  /\ edit' = [edit EXCEPT !.pc = "row"]
  /\ UNCHANGED <<file, bak, up, cfg, digest, added, removed, handles, ask, scan,
                 rows, books, used, past>>

\* UpsertRoot; a failure is logged and no more.
UpsertRow ==
  /\ edit.pc = "row"
  /\ rows' \in {rows, Overlay(rows, PathOf({edit.entry}))}
  /\ edit' = [edit EXCEPT !.pc = "start"]
  /\ UNCHANGED <<file, bak, up, process, ask, scan, books, used, past>>

\* Scanner.begin, when the permit is free; the table is copied.
Begin(names) ==
  /\ scan = NoScan
  /\ scan' = [pc |-> "record", todo |-> table, table |-> table, names |-> names]

\* A scan of the new root, unless one runs.
StartScan ==
  /\ edit.pc = "start"
  /\ edit' = NoEdit
  /\ Begin({edit.entry.name}) \/ (scan # NoScan /\ UNCHANGED scan)
  /\ UNCHANGED <<file, bak, up, process, ask, rows, books, used, past>>

------------------------------------------------------------------------------
(* DELETE /api/roots/{name}. *)

\* handleDeleteRoot: the gate, the lock, the name is in the file, not alone.
DeleteRoot(n) ==
  /\ up /\ edit = NoEdit /\ used.requests < MaxRequests
  /\ GateOpen
  /\ Readable(file)
  /\ n \in NamesOf(Listed(file)) /\ Len(file.roots) > 1
  /\ edit' = [pc |-> "purge", op |-> "remove", prior |-> file, out |-> NoFile,
              entry |-> file.roots[IndexOf(file.roots, n)]]
  /\ Spend("requests")
  /\ UNCHANGED <<file, bak, up, process, ask, scan, rows, books, past>>

Purge_RowOnly ==
  /\ edit.pc = "purge"
  /\ rows' = [n \in DOMAIN rows \ {edit.entry.name} |-> rows[n]]
  /\ edit' = [edit EXCEPT !.pc = "splice"]
  /\ UNCHANGED <<file, bak, up, process, ask, scan, books, used, past>>

\* DB.DeleteRoot: the pages, then the root's row, and with it its series and books.
Purge ==
  /\ edit.pc = "purge"
  /\ rows' = [n \in DOMAIN rows \ {edit.entry.name} |-> rows[n]]
  /\ books' = books \ {edit.entry.name}
  /\ edit' = [edit EXCEPT !.pc = "splice"]
  /\ UNCHANGED <<file, bak, up, process, ask, scan, used, past>>

PurgeFails == edit.pc = "purge" /\ Refuse

\* RemoveRoot reads again and checks again; only the entry's own lines go.
SpliceRemove ==
  /\ edit.pc = "splice" /\ edit.op = "remove"
  /\ IF /\ file.form = "block" /\ Len(file.roots) > 1
        /\ edit.entry.name \in NamesOf(Listed(file))
       THEN /\ edit' = [edit EXCEPT !.pc = "backup",
                                    !.out = [file EXCEPT !.roots =
                                               RemoveAt(@, IndexOf(@, edit.entry.name))]]
            /\ UNCHANGED <<file, bak, up, process, ask, scan, rows, books, used, past>>
       ELSE Refuse

\* markRootRemoved.  A scan asked for earlier did not learn of it, and may have
\* written the root back between the purge and now.
MarkRemoved ==
  /\ edit.pc = "mark"
  /\ removed' = removed \union {edit.entry.name}
  /\ edit' = [edit EXCEPT !.pc = "release"]
  /\ past' = IF ask # NoAsk \/ scan # NoScan \/ edit.entry.name \in books
               THEN [past EXCEPT !.late = @ \union {edit.entry.name}] ELSE past
  /\ UNCHANGED <<file, bak, up, cfg, digest, added, handles, table, ask, scan,
                 rows, books, used>>

\* releaseRoot, and the 204.
ReleaseRoot ==
  /\ edit.pc = "release"
  /\ added' = NotNamed(added, edit.entry.name)
  /\ Rebase
  /\ edit' = NoEdit
  /\ past' = [past EXCEPT !.gone = @ \union ({edit.entry.name} \ NamesOf(Listed(file))), !.adrift = Drift]
  /\ UNCHANGED <<file, bak, up, cfg, removed, handles, table, ask, scan, rows, books, used>>

------------------------------------------------------------------------------
(* Scans. *)

ScannedByDefault_Removed == NamesOf({e \in configuredRoots : e.enabled})

\* POST /api/scan, the start-up scan: scanRoots on an empty list and on a name.
ScannedByDefault == NamesOf({e \in configuredRoots : e.enabled}) \ removed
AskAll ==
  /\ up /\ ask = NoAsk /\ used.scans < MaxScans
  /\ removed = {} \/ ScannedByDefault # {}
  /\ ask' = [pc |-> "asked", all |-> removed = {}, roots |-> ScannedByDefault]
  /\ Spend("scans")
  /\ UNCHANGED <<file, bak, up, process, edit, scan, rows, books, past>>

AskOne(n) ==
  /\ up /\ ask = NoAsk /\ used.scans < MaxScans
  /\ n \notin removed
  /\ ask' = [pc |-> "asked", all |-> FALSE, roots |-> {n}]
  /\ Spend("scans")
  /\ UNCHANGED <<file, bak, up, process, edit, scan, rows, books, past>>

\* Scanner.Start: 409 while one runs, 400 for a name that is not in its table.
StartAsked ==
  /\ ask # NoAsk
  /\ ask' = NoAsk
  /\ \/ Begin(IF ask.all THEN NamesOf(ToSet(table)) ELSE ask.roots)
     \/ (scan # NoScan \/ ~ ask.roots \subseteq NamesOf(ToSet(table))) /\ UNCHANGED scan
  /\ UNCHANGED <<file, bak, up, process, edit, rows, books, used, past>>

\* Scanner.run mirrors its whole table into the roots table, one row at a time.
RecordRoot ==
  /\ scan.pc = "record"
  /\ IF scan.todo # <<>>
       THEN LET e == Head(scan.todo)
                p == IF e.name \in DOMAIN handles THEN handles[e.name] ELSE e.path
            IN  /\ rows' = Overlay(rows, [n \in {e.name} |-> p])
                /\ scan' = [scan EXCEPT !.todo = Tail(@)]
       ELSE /\ scan' = [scan EXCEPT !.pc = "walk", !.todo = scan.table]
            /\ UNCHANGED rows
  /\ UNCHANGED <<file, bak, up, process, edit, ask, books, used, past>>

\* Scanner.selectRoots: a disabled root is skipped.
Selected(e) == e.name \in scan.names /\ e.enabled

\* scanRoot: books need the root's handle, and its row (a foreign key).
WalkRoot ==
  /\ scan.pc = "walk" /\ scan.todo # <<>>
  /\ LET e == Head(scan.todo)
     IN  books' = IF Selected(e) /\ e.name \in DOMAIN handles /\ e.name \in DOMAIN rows
                    THEN books \union {e.name} ELSE books
  /\ scan' = [scan EXCEPT !.todo = Tail(@)]
  /\ UNCHANGED <<file, bak, up, process, edit, ask, rows, used, past>>

\* The last root is done, or the run was cancelled.
EndScan ==
  /\ scan # NoScan
  /\ scan' = NoScan
  /\ UNCHANGED <<file, bak, up, process, edit, ask, rows, books, used, past>>

------------------------------------------------------------------------------
Serve ==
  \/ \E p \in Paths : CreateRoot(p)
  \/ \E n \in Names : DeleteRoot(n)
  \/ SpliceAdd \/ SpliceRemove \/ Backup \/ Replace \/ WriteFails
  \/ OpenRoot \/ StaysPending \/ AdoptRoot \/ AddConfigRoot \/ UpsertRow \/ StartScan
  \/ Purge \/ PurgeFails \/ MarkRemoved \/ ReleaseRoot

Scanning ==
  \/ AskAll \/ (\E n \in Names : AskOne(n)) \/ StartAsked
  \/ RecordRoot \/ WalkRoot \/ EndScan

rootsNext == Start \/ Stop \/ HandEdit \/ Serve \/ Scanning

rootsSpec == rootsInit /\ [][rootsNext]_rootsVars

------------------------------------------------------------------------------
(* Properties. *)

\* "This endpoint must never write a file the server would refuse to start
\* from": every write that replaces a file the server could start from leaves
\* one, whatever was edited between the validation and the read that is spliced.
\* (An edit between that read and the rename is written over, unread.)
WriteStartable ==
  edit.pc = "splice" /\ edit'.pc = "backup" /\ Startable(file) => Startable(edit'.out)
WritesStartable == [][WriteStartable]_rootsVars

\* While no edit by hand falls between a handler's two reads, and the server has
\* written over none that it had not adopted, a file that equals the adopted
\* baseline says what the process serves: the roots it is configured with, less
\* the removed ones, are the roots of the file, and until something was removed
\* the picker and POST judge a directory alike.  (Not so after a disabled root is
\* removed and added again: the process adopts it and still counts its name as
\* removed.)
Served == {e \in configuredRoots : e.name \notin removed}
TruthfulWhen(unspoiled) ==
  (/\ up /\ edit = NoEdit /\ unspoiled /\ ~ ChangedOnDisk
   /\ removed \intersect NamesOf(added) = {})
    => /\ Served = Listed(file)
       /\ removed = {} => \A p \in Paths : Pickable(p) <=> Acceptable(p, Listed(file))
BaselineTruthful == TruthfulWhen(~ past.raced /\ ~ past.adrift)

\* The list of roots is the file's truth and the index's: every root of a
\* readable file is listed, and none that was removed and is not in it.
ListingTruthful ==
  up /\ Readable(file)
    => /\ NamesOf(Listed(file)) \subseteq ListedNames
       /\ removed \intersect ListedNames \subseteq NamesOf(Listed(file))

\* A removed root gets no books again in this process, except by a scan that
\* was already asked for when the removal was recorded, or by adding it again.
RemovedNotIndexed == removed \intersect books \subseteq past.late \union NamesOf(added)

\* The list of roots is the file's truth, an unchanged file says what is
\* served, and a removed root gets no rows again but from a scan already asked
\* for: whatever falls between the steps of POST and DELETE /api/roots, of the
\* operator's editor and of a scan.
RootsTruthful == rootsTypeOK /\ BaselineTruthful /\ ListingTruthful /\ RemovedNotIndexed

\* DELETE purges the index so that the root is not listed forever after the
\* restart: a root whose removal was answered and that nobody configured again
\* is not listed.
\* Refused: a scan records every root of its table, the removed ones too.
DeletedStaysGone == up => past.gone \intersect ListedNames = {}

\* "After [a hot add] this process and the file agree again": a baseline that
\* equals the file says what is served, also when the server wrote over an edit
\* that it had not adopted.
\* Refused: the operator edits the file, a root is deleted, and the operator puts
\* the file back as it was.
BaselineAlwaysTruthful == TruthfulWhen(~ past.raced)

\* "Keeping the order identical is what makes the picker's greyed-out reason and
\* the 400 the same sentence": both judge a directory alike while nobody edits
\* the file by hand.
\* Refused: a removed root stays in the process's list, so the picker calls its
\* directory a duplicate, which POST accepts.
PickerAgrees ==
  up /\ edit = NoEdit /\ used.edits = 0
    => \A p \in Paths : Pickable(p) <=> Acceptable(p, Listed(file))
==============================================================================
