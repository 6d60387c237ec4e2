----------------------------- MODULE PdfRuntime -----------------------------
(***************************************************************************)
(* What the PDF renderer promises, whatever it is built from: a runtime    *)
(* that is up while somebody uses it, that rests some time after the last  *)
(* user left, and that is down for good once the renderer is shut.         *)
(***************************************************************************)
CONSTANT Callers

VARIABLES
  serving,   \* the runtime is up
  users,     \* who has asked for it and not returned
  shut       \* the renderer is closed

runtimeVars == <<serving, users, shut>>

Init == serving = FALSE /\ users = {} /\ shut = FALSE

\* Somebody asks: the runtime comes up if it was down.
Enter(c) ==
  /\ ~ shut /\ c \notin users
  /\ users' = users \cup {c} /\ serving' = TRUE
  /\ UNCHANGED shut

Leave(c) ==
  /\ c \in users
  /\ users' = users \ {c}
  /\ UNCHANGED <<serving, shut>>

\* Nobody uses it.
Rest ==
  /\ serving /\ users = {}
  /\ serving' = FALSE
  /\ UNCHANGED <<users, shut>>

\* The end of the process waits for nobody.
Shut ==
  /\ ~ shut
  /\ shut' = TRUE /\ serving' = FALSE
  /\ UNCHANGED users

Next == Rest \/ Shut \/ \E c \in Callers : Enter(c) \/ Leave(c)

Spec == Init /\ [][Next]_runtimeVars
FairSpec == Spec /\ WF_runtimeVars(Rest)
=============================================================================
