------------------------------ MODULE RootsFile ------------------------------
(***************************************************************************)
(* The text edit behind POST and DELETE /api/roots: the configuration file *)
(* is a sequence of lines, the YAML parser only says where each entry of   *)
(* `roots:` begins and which line its last key is on, and whole lines are  *)
(* spliced in or out.  A line is a kind and an indentation:                *)
(*   "roots"  the key `roots:`            "key"   a key and its value      *)
(*   "dash"   `- name: x`                 "text"  a key and `|`            *)
(*   "bare"   a `-` alone                 "body"  a further line of either *)
(*   "other"  another top-level key       "note"  a line that begins with #*)
(*   "blank"  an empty line                                                *)
(* An operator named X_Bug is X with a plausible mistake in it.            *)
(***************************************************************************)
EXTENDS Naturals, Sequences, FiniteSets

CONSTANTS
  Indents,    \* indentations of the entries' dashes
  MaxLines    \* bound: lines of a file

ASSUME FileAssumption == Indents \subseteq Nat

Lines ==
  [kind : {"roots", "other", "blank"}, in : {0}]
    \union [kind : {"dash", "bare"}, in : Indents]
    \union [kind : {"key", "text", "body", "note"}, in : {i + 2 : i \in Indents} \union {i + 4 : i \in Indents}]

VARIABLE lines

------------------------------------------------------------------------------
(* What YAML says of a file: the lines an entry owns. *)

Starts(f) == {i \in DOMAIN f : f[i].kind \in {"dash", "bare"}}

Solid(f, i) == f[i].kind \notin {"note", "blank"}

\* The entry a line belongs to is the last one that started before it.
Owner(f, i) == CHOOSE s \in Starts(f) : s <= i /\ \A t \in Starts(f) : t <= i => t <= s

\* The lines below h, to i, go on with the value that h begins.  An empty line
\* ends no value; a line with # is text in a `|`, when it is deeper than the key.
Continues(f, h, i) ==
  \A k \in (h + 1)..i :
    \/ f[k].kind \in {"body", "blank"}
    \/ f[h].kind = "text" /\ f[k].kind = "note" /\ f[k].in > f[h].in

\* The first line below a bare dash that is no comment is a key.
HasKey(f, s) ==
  \E i \in (s + 1)..Len(f) : /\ f[i].kind \in {"key", "text"}
                             /\ \A k \in (s + 1)..(i - 1) : ~ Solid(f, k)

\* A beginning of a file the parser accepts and whose `roots:` is a block
\* sequence of mappings, each value on the line of its key and those below.
Parses(f) ==
  /\ \A i, j \in DOMAIN f : f[i].kind = "roots" /\ f[j].kind = "roots" => i = j
  /\ \A i \in Starts(f) :
       /\ \E r \in 1..(i - 1) : f[r].kind = "roots" /\ \A k \in r..i : f[k].kind # "other"
       /\ \A j \in Starts(f) : f[j].in = f[i].in
       /\ f[i].kind = "bare" => HasKey(f, i) \/ \A k \in (i + 1)..Len(f) : ~ Solid(f, k)
  /\ \A i \in DOMAIN f : f[i].kind \in {"key", "text", "body"} =>
       /\ \E s \in Starts(f) : s < i /\ \A k \in s..i : f[k].kind # "other"
       /\ f[i].kind # "body" => f[i].in = f[Owner(f, i)].in + 2
       /\ f[i].kind = "body" =>
            /\ f[i].in = f[Owner(f, i)].in + 4
            /\ \E h \in 1..(i - 1) : f[h].kind \in {"dash", "key", "text"} /\ Continues(f, h, i - 1)

WellFormed(f) ==
  /\ Parses(f)
  /\ \E i \in DOMAIN f : f[i].kind = "roots"
  /\ \A i \in Starts(f) : f[i].kind = "bare" => HasKey(f, i)

\* The lines of an entry: its dash, its keys and their values.
Owned(f, s) ==
  {i \in s..Len(f) :
     /\ Owner(f, i) = s
     /\ \/ f[i].kind \in {"dash", "bare", "key", "text", "body"}
        \/ f[i].kind = "note" /\ \E h \in s..(i - 1) : f[h].kind = "text" /\ Continues(f, h, i)}

------------------------------------------------------------------------------
(* loadRootsFile: what the writer works out for itself. *)

\* The parser's node of the entry: the line of its first key, and its column.
NodeLine(f, s) ==
  IF f[s].kind = "dash" THEN s
  ELSE CHOOSE i \in (s + 1)..Len(f) : /\ f[i].kind \in {"key", "text"}
                                      /\ \A k \in (s + 1)..(i - 1) : ~ Solid(f, k)
KeyColumn(f, s) == f[s].in + 2

\* maxLine: the deepest line on which a key or a value of the entry begins.
maxLine(f, s) ==
  LET nodes == {i \in Owned(f, s) : f[i].kind \in {"dash", "key", "text"}}
  IN  CHOOSE i \in nodes : \A j \in nodes : j <= i

\* spanOf: back at most two lines to the dash, on over deeper indented lines.
dashSearchDepth == 2
SpanStart(f, s) ==
  LET first == NodeLine(f, s)
      dashes == {i \in 1..first : i + dashSearchDepth >= first /\ f[i].kind \in {"dash", "bare"}}
  IN  IF dashes = {} THEN first ELSE CHOOSE i \in dashes : \A j \in dashes : j <= i
SpanEnd_Greedy(f, s) ==
  LET last == maxLine(f, s)
      stops == {i \in (last + 1)..(Len(f) + 1) :
                  i = Len(f) + 1 \/ f[i].kind = "blank" \/ f[i].in <= KeyColumn(f, s)}
  IN  (CHOOSE i \in stops : \A j \in stops : i <= j) - 1
SpanEnd(f, s) ==
  LET last == maxLine(f, s)
      stops == {i \in (last + 1)..(Len(f) + 1) :
                  i = Len(f) + 1 \/ ~ Solid(f, i) \/ f[i].in <= KeyColumn(f, s)}
  IN  (CHOOSE i \in stops : \A j \in stops : i <= j) - 1

LastStart(f) == CHOOSE s \in Starts(f) : \A t \in Starts(f) : t <= s
keyLine(f) == CHOOSE i \in DOMAIN f : f[i].kind = "roots"

insertAt_Bottom(f) == Len(f) + 1

\* One past the last line of the last entry, or just below the key.
insertAt(f) == IF Starts(f) = {} THEN keyLine(f) + 1 ELSE SpanEnd(f, LastStart(f)) + 1
indent(f) == IF Starts(f) = {} THEN 2 ELSE f[SpanStart(f, LastStart(f))].in

\* The three lines a new root becomes.
renderRootEntry(i) ==
  << [kind |-> "dash", in |-> i], [kind |-> "key", in |-> i + 2], [kind |-> "key", in |-> i + 2] >>

\* Lines [from, to) are replaced, all others are copied through.
splice(f, from, to, block) == SubSeq(f, 1, from - 1) \o block \o SubSeq(f, to, Len(f))

AddRoot(f) == splice(f, insertAt(f), insertAt(f), renderRootEntry(indent(f)))

\* The last entry of a file is refused.
RemoveRoot(f, s) ==
  IF Cardinality(Starts(f)) = 1 THEN f ELSE splice(f, SpanStart(f, s), SpanEnd(f, s) + 1, <<>>)

------------------------------------------------------------------------------
(* The files somebody may have written, one line after another. *)

fileInit == lines = <<>>
Write == /\ Len(lines) < MaxLines
         /\ \E l \in Lines : /\ Parses(Append(lines, l))
                             /\ lines' = Append(lines, l)
fileNext == Write
fileSpec == fileInit /\ [][fileNext]_lines

------------------------------------------------------------------------------
\* What spanOf makes out whole: the dash is at most two lines above the first key,
\* and no empty line and no # breaks the value of the last one.
Tidy(f, s) ==
  /\ NodeLine(f, s) <= s + dashSearchDepth
  /\ \A i \in Owned(f, s) : \A k \in (maxLine(f, s) + 1)..i : f[k].kind = "body"

WithoutLines(f, a, b) == SubSeq(f, 1, a - 1) \o SubSeq(f, b + 1, Len(f))

\* Removing an entry takes out the lines from one of its own to another: what a
\* human wrote above or below it, and every other entry, stays where it is.  All
\* its keys are gone.  If it is tidy nothing of it is left, and the file is still
\* one the server reads, with one entry less.
RemovesOnlyItsOwn ==
  WellFormed(lines) /\ Cardinality(Starts(lines)) > 1 =>
    \A s \in Starts(lines) :
      LET own == Owned(lines, s)
          out == RemoveRoot(lines, s)
      IN  /\ \E a, b \in own :
               /\ a <= b /\ out = WithoutLines(lines, a, b)
               /\ \A i \in own \ (a..b) : i = s \/ lines[i].kind \in {"body", "note"}
               /\ Tidy(lines, s) => own \subseteq a..b
          /\ Tidy(lines, s) => /\ WellFormed(out)
                               /\ Cardinality(Starts(out)) = Cardinality(Starts(lines)) - 1

\* "Add a root, then remove it" is byte-identical to the original, and the file
\* with the root added is one the server reads, below an entry that is tidy.
AddThenRemove ==
  WellFormed(lines) /\ (Starts(lines) # {} => Tidy(lines, LastStart(lines))) =>
    LET out == AddRoot(lines)
    IN  /\ WellFormed(out)
        /\ Cardinality(Starts(out)) = Cardinality(Starts(lines)) + 1
        /\ Starts(lines) # {} => RemoveRoot(out, insertAt(lines)) = lines

\* The splice of the roots list in the file's own text takes lines of one entry
\* and no other, and adding and removing an entry leaves the text as it was.
SplicesAreLocal == RemovesOnlyItsOwn /\ AddThenRemove

\* TestRootsFile_removeTakesTheWholeEntryAndNothingElse, of any entry.  False of a
\* dash three lines above the first key, and of a value that an empty line breaks.
TakesTheWholeEntry ==
  WellFormed(lines) /\ Cardinality(Starts(lines)) > 1 =>
    \A s \in Starts(lines) :
      LET left == RemoveRoot(lines, s)
      IN  WellFormed(left) /\ Cardinality(Starts(left)) = Cardinality(Starts(lines)) - 1

\* AddRoot "appends one entry" to the list.  False below such an entry: the new one
\* stands where the rest of the value was, or as deep as the keys.
AddedIsRead == WellFormed(lines) => WellFormed(AddRoot(lines))

\* RemoveRoot: "Only the entry's own lines go."  They do, but a deep comment below
\* them turns into text of the entry above, when that ends in a `|`.
OthersKeepTheirText ==
  WellFormed(lines) =>
    \A s, t \in Starts(lines) :
      t < s /\ Tidy(lines, s) => Owned(RemoveRoot(lines, s), t) = Owned(lines, t)
==============================================================================
