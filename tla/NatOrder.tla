------------------------------- MODULE NatOrder -------------------------------
(***************************************************************************)
(* The natural order of names: the comparison of two names chunk by chunk, *)
(* and the key stored in the database, whose bytes the database compares   *)
(* on its own.  A name is a sequence of code points; a byte that no        *)
(* encoding explains is invalidBase plus the byte.  A code point in a key  *)
(* is one item, for UTF-8 keeps the order and delimits itself.             *)
(* An operator named X_Bug is X with a plausible mistake in it.            *)
(***************************************************************************)
EXTENDS Integers, Sequences

CONSTANTS
  Alphabet,   \* the characters of the names
  MaxName,    \* bound: characters of a name
  CountBase   \* counts are written to this base (16 in the code)

VARIABLES left, right   \* two names being typed

ASSUME NameAssumption ==
  Alphabet \subseteq Nat /\ MaxName \in Nat /\ CountBase \in Nat \ {0, 1}

invalidBase == 1114112
RuneError == 65533

IsDigit(r) == r \in 48..57

\* The case and width folding; what is left is its own lower case.
fold(r) ==
  CASE r >= invalidBase -> RuneError
    [] r \in 65..90 -> r + 32
    [] r \in 65296..65305 -> r - 65296 + 48
    [] r \in 65313..65338 -> r - 65313 + 97
    [] r \in 65345..65370 -> r - 65345 + 97
    [] OTHER -> r

\* stripLeadingZeros: the significant digits of a run, and how many zeros went.
Zeros(run) == CHOOSE n \in 0..Len(run) : /\ \A k \in 1..n : run[k] = 48
                                         /\ n < Len(run) => run[n + 1] # 48
Stripped(run) == SubSeq(run, Zeros(run) + 1, Len(run))

\* digitRun and nextRune: the chunk that begins at i is a maximal run of ASCII
\* digits, or one character, and the next one begins where it ends.
next(s, i) ==
  IF IsDigit(s[i])
    THEN CHOOSE n \in (i + 1)..(Len(s) + 1) : /\ \A k \in i..(n - 1) : IsDigit(s[k])
                                              /\ n <= Len(s) => ~ IsDigit(s[n])
    ELSE i + 1
Chunk(s, i) == SubSeq(s, i, next(s, i) - 1)

Cmp(a, b) == IF a < b THEN -1 ELSE IF a > b THEN 1 ELSE 0
Then(c, d) == IF c # 0 THEN c ELSE d

\* bytes.Compare, and strings.Compare.
Lexicographic(a, b) ==
  LET n == IF Len(a) < Len(b) THEN Len(a) ELSE Len(b)
      differ == {i \in 1..n : a[i] # b[i]}
  IN  IF differ = {} THEN Cmp(Len(a), Len(b))
      ELSE LET i == CHOOSE i \in differ : \A j \in differ : i <= j IN Cmp(a[i], b[i])

\* Rules 1 to 3, on one chunk of each name.
CompareChunk(c, d) ==
  CASE IsDigit(Head(c)) /\ IsDigit(Head(d)) ->
         Then(Cmp(Len(Stripped(c)), Len(Stripped(d))),
              Then(Lexicographic(Stripped(c), Stripped(d)), Cmp(Zeros(c), Zeros(d))))
    [] IsDigit(Head(c)) /\ ~ IsDigit(Head(d)) -> -1
    [] ~ IsDigit(Head(c)) /\ IsDigit(Head(d)) -> 1
    [] OTHER -> Then(Cmp(fold(Head(c)), fold(Head(d))), Cmp(Head(c), Head(d)))

\* Compare: the first chunk that decides, and rule 4 when one name has run out.
Compare(a, b) ==
  LET walk[p \in (1..(Len(a) + 1)) \X (1..(Len(b) + 1))] ==
        CASE p[1] > Len(a) -> Cmp(p[2], Len(b) + 1)
          [] p[1] <= Len(a) /\ p[2] > Len(b) -> 1
          [] OTHER -> Then(CompareChunk(Chunk(a, p[1]), Chunk(b, p[2])),
                           walk[<<next(a, p[1]), next(b, p[2])>>])
  IN  walk[<<1, 1>>]

------------------------------------------------------------------------------
terminator == 0
markDigits == 1
markRune == 2

\* FormatInt: the digits of a number.
Digits[n \in Nat] ==
  IF n < CountBase THEN <<48 + n>>
  ELSE Append(Digits[n \div CountBase], 48 + (n % CountBase))

\* A count: how many digits it has, and the digits.
appendCount_Bare(n) == Digits[n]
appendCount(n) == <<48 + Len(Digits[n])>> \o Digits[n]

\* Key: one record for each chunk, then the terminator.
Record(c) ==
  IF IsDigit(Head(c))
    THEN <<markDigits>> \o appendCount(Len(Stripped(c))) \o Stripped(c) \o appendCount(Zeros(c))
    ELSE <<markRune, fold(Head(c)), Head(c)>>
Key(s) ==
  LET from[i \in 1..(Len(s) + 1)] ==
        IF i > Len(s) THEN <<terminator>> ELSE Record(Chunk(s, i)) \o from[next(s, i)]
  IN  from[1]

------------------------------------------------------------------------------
noInit == left = <<>> /\ right = <<>>
Type ==
  \E r \in Alphabet :
    \/ Len(left) < MaxName /\ left' = Append(left, r) /\ UNCHANGED right
    \/ Len(right) < MaxName /\ right' = Append(right, r) /\ UNCHANGED left
noSpec == noInit /\ [][Type]_<<left, right>>

\* "Key(s), a byte string whose bytes.Compare order is identical" to Compare:
\* the database orders names as the program does, no two names are equal to it,
\* and the order does not depend on which name comes first.
SortKeyAgrees ==
  LET c == Compare(left, right)
  IN  /\ Lexicographic(Key(left), Key(right)) = c
      /\ c = 0 <=> left = right
      /\ Compare(right, left) = - c
==============================================================================
