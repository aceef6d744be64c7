------------------------------- MODULE MCSync -------------------------------
(***************************************************************************)
(* Two models of synchronization, to look for what the repository says of  *)
(* them and the code does not do: the tables of g_ko, and one critical     *)
(* section.  They share no state, so each behaviour follows one of them,   *)
(* which `half` names.                                                     *)
(***************************************************************************)
EXTENDS KernelObjects, CriticalSection

CONSTANTS t1, t2, t3,
          Halves       \* the models a run explores

OneThread == {t1}
TwoThreads == {t1, t2}
ThreeThreads == {t1, t2, t3}
AnyHandle == Handle \ {1, 2}

VARIABLE half

MCInit == half \in Halves /\ KoInit /\ SectionInit
MCNext ==
    \/ half = "objects" /\ KoNext /\ UNCHANGED <<half, sectionVars>>
    \/ half = "section" /\ SectionNext /\ UNCHANGED <<half, koVars>>
MCSpec == MCInit /\ [][MCNext]_<<half, koVars, sectionVars>>

\* A thread in a call keeps running, and one in the section leaves it
MCSectionSpec ==
    /\ MCSpec
    /\ \A t \in SectionThreads :
          /\ WF_sectionVars(half = "section" /\ EnterStep(t))
          /\ WF_sectionVars(half = "section" /\ LeaveStep(t))
          /\ WF_sectionVars(half = "section" /\ Leave(t))
=============================================================================
