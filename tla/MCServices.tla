----------------------------- MODULE MCServices -----------------------------
(***************************************************************************)
(* What the server and its operator change beside the scans' own state:    *)
(* the list of roots and the file it is kept in, when a series was first   *)
(* seen, and the readers' data.  They share no state here: a behaviour of  *)
(* this module is a behaviour of one of them, chosen at the beginning, in  *)
(* which the other ones rest as they are at the start.                     *)
(***************************************************************************)
EXTENDS FirstSeen, RootsAdmin, RootsFile, UserData, TLC

CONSTANT Services    \* those explored

VARIABLE service     \* which of them behaves

vars == <<service, rootsVars, lines, seenVars, udVars>>

\* Two series in one root and a third in another.
TwoAndOne == <<1, 1, 2>>

\* A library of three directories: m, a directory s inside it, and n, whose
\* base name slugs to the same name as m's.  n's root is disabled at first.
MCPaths == {"m", "s", "n"}
MCInitial ==
  [form |-> "block", note |-> 0,
   roots |-> << [name |-> <<"manga", 1>>, path |-> "m", enabled |-> TRUE],
                [name |-> <<"manga", 2>>, path |-> "n", enabled |-> FALSE] >>]

MCSlug == "m" :> "manga" @@ "n" :> "manga" @@ "s" :> "sub"
MCBelow == {<<"s", "m">>}

Init ==
  /\ service \in Services
  /\ rootsInit
  /\ fileInit
  /\ seenInit /\ (service # "seen" => disk = <<>>)
  /\ udInit /\ (service # "users" => \A b \in Books : length[b] = 1)

EditRoots ==
  /\ service = "roots" /\ rootsNext
  /\ UNCHANGED <<service, lines, seenVars, udVars>>
EditFile ==
  /\ service = "file" /\ fileNext
  /\ UNCHANGED <<service, rootsVars, seenVars, udVars>>
RecordSightings ==
  /\ service = "seen" /\ seenNext
  /\ UNCHANGED <<service, rootsVars, lines, udVars>>
KeepUserData ==
  /\ service = "users" /\ udNext
  /\ UNCHANGED <<service, rootsVars, lines, seenVars>>

Next == EditRoots \/ EditFile \/ RecordSightings \/ KeepUserData
Spec == Init /\ [][Next]_vars
==============================================================================
