----------------------------- MODULE MCReaders -----------------------------
(***************************************************************************)
(* What a scan reads: the readers of containers, the order of names, the   *)
(* division of a listing into books, and the books of a series directory.  *)
(* They share no state here: a behaviour of this module is a behaviour of  *)
(* one of them, chosen at the beginning, in which the other ones rest.     *)
(***************************************************************************)
EXTENDS ZipIndex, HvIndex, RarIndex, NestedReader, LibraryScan, NatOrder, Contents

CONSTANT
  Readers   \* those explored

VARIABLE
  reader    \* which of them behaves

nameVars == <<left, right>>
boxVars == <<box, books>>
vars == <<reader, zipVars, hvVars, rarVars, nestVars, nameVars, boxVars, scanVars>>

\* Directories of a container: two chapters, one with two parts, and the one a
\* Mac adds.
MCDirs == {<<>>, <<1>>, <<2>>, <<1, 1>>, <<1, 2>>, <<-2>>}
\* A directory named ".", as some archivers write it.
MCDirsDot == {<<>>, <<1>>, <<2>>, <<0>>}

\* What the names of a series are, and a series with an archive, two images of
\* which one says cover, a dot file, and a PDF in a directory.
MCKinds == <<"dir", "zip", "image", "cover", "dot", "pdf", "text">>
MCPlaces == {<<2>>, <<3>>, <<4>>, <<5>>, <<1, 6>>}
\* An image, and two directories down an archive beside a text file.
MCDeepPlaces == {<<3>>, <<1, 1, 2>>, <<1, 1, 7>>}

Rest == "rests"
\* A ZIP container of no entry, which nobody reads.
NoEntries == [sizes |-> <<>>, stub |-> 0, comment |-> 0, desc |-> FALSE, phantom |-> FALSE, zip64 |-> "no"]
\* A container that was cut after its signature and that nobody reads.
hvRests ==
  /\ hvMade = [sizes |-> <<>>, mode |-> modePlain, encr |-> FALSE, stray |-> "no", short |-> 0]
  /\ hvFile = <<Signature>> /\ cut = TRUE /\ listed = NotRead
rarRests ==
  /\ packed = [sizes |-> <<>>, method |-> MethodStore, comment |-> FALSE, tail |-> "none",
               main |-> {"solid"}, odd |-> 0, flag |-> "solid"]
  /\ rarFile = <<Marker>> /\ hurt = TRUE /\ rarIndex = Unread

Init ==
  /\ reader \in Readers
  /\ nestInit /\ (reader # "nested" => size = 0 /\ real = 0 /\ ~ broken)
  /\ zipInit /\ (reader # "zip" => shape = NoEntries)
  /\ IF reader = "hv" THEN hvInit ELSE hvRests
  /\ IF reader = "rar" THEN rarInit ELSE rarRests
  /\ noInit /\ boxInit
  /\ IF reader = "scan" THEN scanInit
     ELSE /\ tree = Rest /\ dirTime = Rest /\ clock = Rest /\ edits = Rest
          /\ pdf = Rest /\ rows = Rest /\ series = Rest /\ opened = Rest /\ last = Rest

ReadZip ==
  /\ reader = "zip" /\ zipNext
  /\ UNCHANGED <<reader, hvVars, rarVars, nestVars, nameVars, boxVars, scanVars>>
ReadHv ==
  /\ reader = "hv" /\ hvNext
  /\ UNCHANGED <<reader, zipVars, rarVars, nestVars, nameVars, boxVars, scanVars>>
ReadRar ==
  /\ reader = "rar" /\ rarNext
  /\ UNCHANGED <<reader, zipVars, hvVars, nestVars, nameVars, boxVars, scanVars>>
ReadNested ==
  /\ reader = "nested" /\ nestNext
  /\ UNCHANGED <<reader, zipVars, hvVars, rarVars, nameVars, boxVars, scanVars>>
TypeNames ==
  /\ reader = "names" /\ Type
  /\ UNCHANGED <<reader, zipVars, hvVars, rarVars, nestVars, boxVars, scanVars>>
ScanContainer ==
  /\ reader = "container" /\ boxNext
  /\ UNCHANGED <<reader, zipVars, hvVars, rarVars, nestVars, nameVars, scanVars>>
ScanSeries ==
  /\ reader = "scan" /\ scanNext
  /\ UNCHANGED <<reader, zipVars, hvVars, rarVars, nestVars, nameVars, boxVars>>

Next ==
  \/ ReadZip \/ ReadHv \/ ReadRar \/ ReadNested
  \/ TypeNames \/ ScanContainer \/ ScanSeries
Spec == Init /\ [][Next]_vars
=============================================================================
