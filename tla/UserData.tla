------------------------------- MODULE UserData -------------------------------
(***************************************************************************)
(* user.db under its HTTP handlers: readers turn pages of books whose      *)
(* length a scan changes, acknowledge that a file has changed, set the     *)
(* viewer's options for a book, and carry everything to another device or  *)
(* over a lost file in an export.  A handler reads, and writes in a later  *)
(* step; a write is one transaction.                                       *)
(* An operator named X_Bug is X with a plausible mistake in it.            *)
(***************************************************************************)
EXTENDS Integers

CONSTANTS
  Books,
  Clients,    \* requests that can be under way
  Options,    \* the fields of Prefs
  MaxLength,  \* bound: the pages of a book
  UserClock   \* bound: writes

ASSUME UserDataAssumption == MaxLength \in Nat \ {0} /\ UserClock \in Nat

VARIABLES
  userClock,
  length,     \* the index: pages of each book, 0 when they are not known
  progress,   \* from books to [page, base, done, started, updated]
  prefs,      \* from books to what is overridden, "" for no override
  doc,        \* the last export: [items, prefs, valid, edited]
  request     \* from clients to what they have under way

userdb == <<progress, prefs>>
udVars == <<userClock, length, userdb, doc, request>>

Pages == 1..MaxLength
NoRequest == [kind |-> "none"]
NoDoc == [items |-> <<>>, prefs |-> <<>>, valid |-> TRUE, edited |-> FALSE]
Inherit == [o \in Options |-> ""]
Without(f, b) == [x \in DOMAIN f \ {b} |-> f[x]]
With(f, b, value) == [x \in DOMAIN f \cup {b} |-> IF x = b THEN value ELSE f[x]]

\* isStale.
Stale(base, len) == base # 0 /\ len # 0 /\ base # len

clampPage(page, len) == IF len > 0 /\ page > len THEN len ELSE page

udInit ==
  /\ userClock = 1
  /\ length \in [Books -> Pages]
  /\ progress = <<>> /\ prefs = <<>>
  /\ doc = NoDoc
  /\ request = [c \in Clients |-> NoRequest]

------------------------------------------------------------------------------
(* Reading. *)

\* PUT progress: the book is read from the index; done is "auto" or what the
\* reader says.
ReadLength(c, b, page, done, seen) ==
  /\ request[c] = NoRequest
  /\ request' = [request EXCEPT ![c] =
       [kind |-> "progress", book |-> b, page |-> page, len |-> length[b], done |-> done, seen |-> seen]]
  /\ UNCHANGED <<userClock, length, userdb, doc>>

Baseline_Always(r, old) == r.len
Baseline_AnyLength(r, old) == IF r.seen THEN r.len ELSE old.base
\* The conflict clause: an acknowledged length that is known, or the old one.
Baseline(r, old) == IF r.seen /\ r.len > 0 THEN r.len ELSE old.base

\* PutProgress.
PutProgress(c) ==
  /\ request[c].kind = "progress" /\ userClock < UserClock
  /\ LET r == request[c]
         page == clampPage(r.page, r.len)
         there == r.book \in DOMAIN progress
         row == [page |-> page,
                 base |-> IF there THEN Baseline(r, progress[r.book]) ELSE r.len,
                 done |-> IF r.done = "auto" THEN r.len > 0 /\ page >= r.len ELSE r.done = "yes",
                 started |-> IF there THEN progress[r.book].started ELSE userClock + 1,
                 updated |-> userClock + 1]
     IN  progress' = With(progress, r.book, row)
  /\ userClock' = userClock + 1
  /\ request' = [request EXCEPT ![c] = NoRequest]
  /\ UNCHANGED <<length, prefs, doc>>

DeleteProgress(b) ==
  /\ b \in DOMAIN progress
  /\ progress' = Without(progress, b)
  /\ UNCHANGED <<userClock, length, prefs, doc, request>>

------------------------------------------------------------------------------
(* The viewer's options. *)

\* PutPrefs: GetPrefs before the transaction.
ReadPrefs(c, b, o, value) ==
  /\ request[c] = NoRequest
  /\ request' = [request EXCEPT ![c] =
       [kind |-> "prefs", book |-> b, option |-> o,
        next |-> [(IF b \in DOMAIN prefs THEN prefs[b] ELSE Inherit) EXCEPT ![o] = value]]]
  /\ UNCHANGED <<userClock, length, userdb, doc>>

Stored_Residue(b, next) == With(prefs, b, next)
\* "Reset to defaults" deletes the row.
Stored(b, next) == IF next = Inherit THEN Without(prefs, b) ELSE With(prefs, b, next)
PutPrefs(c) ==
  /\ request[c].kind = "prefs"
  /\ prefs' = Stored(request[c].book, request[c].next)
  /\ request' = [request EXCEPT ![c] = NoRequest]
  /\ UNCHANGED <<userClock, length, progress, doc>>

------------------------------------------------------------------------------
(* Export and import. *)

\* Export: the progress, then the options.
ExportItems(c) ==
  /\ request[c] = NoRequest
  /\ request' = [request EXCEPT ![c] = [kind |-> "export", items |-> progress]]
  /\ UNCHANGED <<userClock, length, userdb, doc>>
ExportPrefs(c) ==
  /\ request[c].kind = "export"
  /\ doc' = [NoDoc EXCEPT !.items = request[c].items, !.prefs = prefs]
  /\ request' = [request EXCEPT ![c] = NoRequest]
  /\ UNCHANGED <<userClock, length, userdb>>

Wins_Theirs(local, item) == TRUE
\* A merge keeps the local row unless the other is newer.
Wins(local, item) == item.updated > local.updated

\* The write of an item onto the local row.
Joined(local, item) ==
  [item EXCEPT !.page = clampPage(@, item.base),
               !.started = IF local.started < @ THEN local.started ELSE @]

\* importProgress.
ImportedItem(local, items, strategy, b) ==
  CASE b \notin DOMAIN items -> local[b]
    [] b \in DOMAIN items \ DOMAIN local -> [items[b] EXCEPT !.page = clampPage(@, items[b].base)]
    [] b \in DOMAIN items \cap DOMAIN local ->
         IF strategy = "replace" \/ Wins(local[b], items[b]) THEN Joined(local[b], items[b]) ELSE local[b]
ImportedItems(local, items, strategy) ==
  [b \in DOMAIN local \cup DOMAIN items |-> ImportedItem(local, items, strategy, b)]

\* importPrefs: a row without an override is not written.
ImportedPrefs(local, new, strategy) ==
  LET useful == {b \in DOMAIN new : new[b] # Inherit}
      Theirs(b) == b \in useful /\ (strategy = "replace" \/ b \notin DOMAIN local)
  IN  [b \in DOMAIN local \cup useful |-> IF Theirs(b) THEN new[b] ELSE local[b]]

\* Import: one transaction, or a value that is refused and nothing.
Import(strategy) ==
  /\ doc.valid
  /\ progress' = ImportedItems(progress, doc.items, strategy)
  /\ prefs' = ImportedPrefs(prefs, doc.prefs, strategy)
  /\ UNCHANGED <<userClock, length, doc, request>>

------------------------------------------------------------------------------
(* Outside. *)

\* The document is edited by hand: an option that does not exist, a page that
\* does not exist, a row that says nothing.
EditDoc(b) ==
  /\ b \in DOMAIN doc.items
  /\ \/ doc' = [doc EXCEPT !.edited = TRUE, !.valid = FALSE]
     \/ doc' = [doc EXCEPT !.edited = TRUE, !.items[b].page = MaxLength]
     \/ doc' = [doc EXCEPT !.edited = TRUE, !.prefs = With(@, b, Inherit)]
  /\ UNCHANGED <<userClock, length, userdb, request>>

\* A scan finds the file changed, or broken.
ScanBook(b) ==
  /\ \E n \in 0..MaxLength : n # length[b] /\ length' = [length EXCEPT ![b] = n]
  /\ UNCHANGED <<userClock, userdb, doc, request>>

\* user.db is lost, or this is another device.
Fresh ==
  /\ progress' = <<>> /\ prefs' = <<>>
  /\ request' = [c \in Clients |-> NoRequest]
  /\ UNCHANGED <<userClock, length, doc>>

udNext ==
  \/ \E c \in Clients, b \in Books, page \in Pages, done \in {"auto", "no"}, seen \in BOOLEAN :
       ReadLength(c, b, page, done, seen)
  \/ \E c \in Clients, b \in Books, o \in Options, value \in {"", "x"} : ReadPrefs(c, b, o, value)
  \/ \E c \in Clients : PutProgress(c) \/ PutPrefs(c) \/ ExportItems(c) \/ ExportPrefs(c)
  \/ \E b \in Books : DeleteProgress(b) \/ EditDoc(b) \/ ScanBook(b)
  \/ \E strategy \in {"merge", "replace"} : Import(strategy)
  \/ Fresh

udSpec == udInit /\ [][udNext]_udVars

------------------------------------------------------------------------------
Partial(X) == UNION {[S -> X] : S \in SUBSET Books}
Places == [page : Nat, base : Nat, done : BOOLEAN, started : Nat, updated : Nat]
Prefs == [Options -> {"", "x"}]
Docs == [items : Partial(Places), prefs : Partial(Prefs), valid : BOOLEAN, edited : BOOLEAN]

PutRequests ==
  [kind : {"progress"}, book : Books, page : Nat, len : Nat, done : {"auto", "no"}, seen : BOOLEAN]
PrefsRequests == [kind : {"prefs"}, book : Books, option : Options, next : Prefs]
ExportRequests == [kind : {"export"}, items : Partial(Places)]

udTypeOK ==
  /\ userClock \in Nat /\ length \in [Books -> 0..MaxLength]
  /\ progress \in Partial(Places) /\ prefs \in Partial(Prefs) /\ doc \in Docs
  /\ request \in [Clients -> {NoRequest} \cup PutRequests \cup PrefsRequests \cup ExportRequests]

\* A place that a PUT has stored is kept until the reader says otherwise: the
\* warning that the file has changed goes away only when the file is as it was,
\* when its length is not known, or with an acknowledgement, a deletion or an
\* import; and a file that breaks and is repaired brings it back.
HintStays ==
  \A b \in Books :
    b \in DOMAIN progress /\ b \in DOMAIN progress' =>
      \/ progress'[b].base = progress[b].base
      \/ \E c \in Clients : PutProgress(c) /\ request[c].seen /\ request[c].len # 0
      \/ \E strategy \in {"merge", "replace"} : Import(strategy)
HintLasts == [][HintStays]_udVars

\* Two devices that import each other's export agree about every book, whatever
\* was read on either: except where both turned a page in the same second, and
\* where the place lies past the length the reader knew.  Importing twice is
\* importing once.
DevicesMerge ==
  LET mine == ImportedItems(progress, doc.items, "merge")
      theirs == ImportedItems(doc.items, progress, "merge")
      Newest(r) == [page |-> r.page, base |-> r.base, done |-> r.done, updated |-> r.updated]
      Within(f, b) == b \in DOMAIN f => f[b].base = 0 \/ f[b].page <= f[b].base
      Comparable(b) ==
        /\ Within(progress, b) /\ Within(doc.items, b)
        /\ b \in DOMAIN progress \cap DOMAIN doc.items => progress[b].updated # doc.items[b].updated
  IN  /\ \A b \in DOMAIN mine : Comparable(b) => Newest(mine[b]) = Newest(theirs[b])
      /\ \A strategy \in {"merge", "replace"} :
           LET once == ImportedItems(progress, doc.items, strategy)
           IN  ImportedItems(once, doc.items, strategy) = once

\* No residue: a book whose options were all reset has no row, and neither an
\* import nor two requests at once make one.
ResetLeavesNothing == \A b \in DOMAIN prefs : prefs[b] # Inherit

\* Of two devices the later place wins, and options that were all reset leave no
\* row of preferences.
DevicesAgree == DevicesMerge /\ ResetLeavesNothing

\* Expected to fail.  "Absent: leave the stored value alone": a request that sets
\* one option leaves the others as they are.
OtherOptionsStay ==
  [][\A c \in Clients, b \in DOMAIN prefs : PutPrefs(c) /\ request[c].book = b =>
       \A o \in Options \ {request[c].option} :
         (IF b \in DOMAIN prefs' THEN prefs'[b] ELSE Inherit)[o] = prefs[b][o]]_udVars

\* Expected to fail.  The export is "what makes it portable": after a user.db was
\* lost, the import of its export has the reader at the page they had reached.
RestoreKeepsPlace ==
  ~ doc.edited =>
    \A b \in DOMAIN doc.items :
      ImportedItems(<<>>, doc.items, "merge")[b].page = doc.items[b].page
==============================================================================
