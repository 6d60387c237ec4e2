---------------------------- MODULE MCBackground ----------------------------
(***************************************************************************)
(* Two services that work in the background: the PDF renderer with its     *)
(* idle reaper, and the measuring of pages beside the scans.  They share   *)
(* no state here: in a behaviour of this module one of them behaves and    *)
(* the other one rests, as it is at the start.                             *)
(***************************************************************************)
EXTENDS PdfPool, PageDims

VARIABLE part   \* which of the two behaves

allVars == <<part, vars, pdVars>>

BackgroundInit ==
  /\ part \in {"renderer", "dims"}
  /\ Init /\ pdInit
  /\ \A b \in Books : file[b].n = IF part = "renderer" THEN 1 ELSE MaxPages

Render(A) == part = "renderer" /\ A /\ UNCHANGED <<part, pdVars>>
Measure(A) == part = "dims" /\ A /\ UNCHANGED <<part, vars>>

BackgroundNext ==
  \/ \E c \in Callers : Render(Caller(c))
  \/ \E g \in Runtimes : Render(Reaper(g))
  \/ \E k \in Closers : Render(Closer(k))
  \/ Render(Age)
  \/ Measure(pdNext)

\* The fairness of FairSpec and of pdFairSpec.
BackgroundSpec ==
  /\ BackgroundInit /\ [][BackgroundNext]_allVars
  /\ WF_allVars(Render(Age))
  /\ \A g \in Runtimes : WF_allVars(Render(Reaper(g)))
  /\ \A k \in Closers : WF_allVars(Render(CloseStop(k) \/ CloseReturn(k)))
  /\ WF_allVars(Measure(Worker))
  /\ WF_allVars(Measure(Scan \/ Flush))
==============================================================================
