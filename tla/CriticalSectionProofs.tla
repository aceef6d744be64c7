----------------------- MODULE CriticalSectionProofs -----------------------
(***************************************************************************)
(* Exclusion and the recursion count of CriticalSection, for every set of  *)
(* threads, every nesting depth and every size of the event table.         *)
(***************************************************************************)
EXTENDS CriticalSection, TLAPS

\* The thread took LockCount from -1 to 0 and has not put it back
Holder(t) == depth[t] > 0 \/ cpc[t] \in {"count", "own", "leaving"}

\* The part of the type invariant that does not concern the event
FieldTypes ==
    /\ LockCount \in {-1, 0}
    /\ RecursionCount \in Int
    /\ cpc \in [SectionThreads -> SectionLabels]
    /\ depth \in [SectionThreads -> Nat]

\* LockCount is 0 while there is a holder, and there is only one
HolderInv ==
    /\ \A t \in SectionThreads : Holder(t) => LockCount = 0
    /\ \A t, u \in SectionThreads : Holder(t) /\ Holder(u) => t = u

\* OwningThread never names a thread that does not hold the section, but for
\* one that has just released it.  It may name nobody while there is a holder:
\* Disown of the previous one may come after Own.
OwnerInv == \A t \in SectionThreads : OwningThread = t => Holder(t) \/ cpc[t] = "disown"

\* What RecursionCount is at each point of the holder's way
CountInv ==
    \A t \in SectionThreads :
        /\ cpc[t] \in {"count", "own", "disown", "signal"} => depth[t] = 0
        /\ cpc[t] = "own" => RecursionCount = 1
        /\ depth[t] > 0 \/ cpc[t] = "leaving" => RecursionCount = depth[t]

\* The inductive invariant
IInv == FieldTypes /\ HolderInv /\ OwnerInv /\ CountInv

LEMMA InitInv == SectionInit => IInv
BY SectionAssumption DEF SectionInit, IInv, FieldTypes, HolderInv, OwnerInv, CountInv, Holder, SectionLabels

\* Steps that move a thread between points where it holds nothing, or keep it
\* the holder it was, and leave the fields of the section alone
LEMMA QuietStep ==
    ASSUME IInv, NEW t \in SectionThreads, NEW label \in SectionLabels \ {"count", "own", "leaving", "disown", "signal"},
           cpc' = [cpc EXCEPT ![t] = label],
           cpc[t] \notin {"count", "own", "leaving", "disown"},
           UNCHANGED <<LockCount, RecursionCount, OwningThread, depth>>
    PROVE  IInv'
<1>1. FieldTypes'
  BY DEF IInv, FieldTypes
<1>2. \A u \in SectionThreads : Holder(u)' <=> Holder(u)
  BY DEF IInv, FieldTypes, Holder, SectionLabels
<1>3. HolderInv' /\ OwnerInv'
  BY <1>2 DEF IInv, HolderInv, OwnerInv, FieldTypes
<1>4. CountInv'
  BY DEF IInv, CountInv, FieldTypes
<1> QED
  BY <1>1, <1>3, <1>4 DEF IInv

LEMMA StepInv == IInv /\ [SectionNext]_sectionVars => IInv'
<1> SUFFICES ASSUME IInv, [SectionNext]_sectionVars PROVE IInv'
  OBVIOUS
<1> USE SectionAssumption
<1>1. ASSUME NEW t \in SectionThreads, EnterCriticalSection(t) PROVE IInv'
  BY <1>1, QuietStep DEF EnterCriticalSection, SectionGoto, section, SectionLabels
<1>2. ASSUME NEW t \in SectionThreads, Try(t) PROVE IInv'
  <2>1. CASE LockCount = -1
    <3>1. LockCount' = 0 /\ cpc' = [cpc EXCEPT ![t] = "count"]
          /\ UNCHANGED <<RecursionCount, OwningThread, depth>>
      BY <1>2, <2>1 DEF Try, SectionGoto
    <3>2. \A u \in SectionThreads : ~Holder(u)
      BY <2>1 DEF IInv, HolderInv
    <3>3. FieldTypes'
      BY <3>1 DEF IInv, FieldTypes, SectionLabels
    <3>4. \A u \in SectionThreads : Holder(u)' <=> u = t
      BY <3>1, <3>2 DEF Holder, IInv, FieldTypes
    <3>5. HolderInv'
      BY <3>1, <3>4 DEF HolderInv
    <3>6. OwnerInv'
      BY <3>1, <3>2, <3>4 DEF IInv, OwnerInv, FieldTypes
    <3>7. CountInv'
      BY <3>1, <3>2 DEF IInv, CountInv, FieldTypes, Holder
    <3> QED
      BY <3>3, <3>5, <3>6, <3>7 DEF IInv
  <2>2. CASE LockCount # -1
    BY <1>2, <2>2, QuietStep DEF Try, SectionGoto, SectionLabels
  <2> QED
    BY <2>1, <2>2
<1>3. ASSUME NEW t \in SectionThreads, FirstCount(t) PROVE IInv'
  BY <1>3 DEF FirstCount, SectionGoto, IInv, FieldTypes, HolderInv, OwnerInv, CountInv, Holder, SectionLabels
<1>4. ASSUME NEW t \in SectionThreads, Own(t) PROVE IInv'
  BY <1>4 DEF Own, SectionGoto, IInv, FieldTypes, HolderInv, OwnerInv, CountInv, Holder, SectionLabels
<1>5. ASSUME NEW t \in SectionThreads, TestOwner(t) PROVE IInv'
  <2>1. CASE OwningThread = t
    <3>1. Holder(t) /\ depth[t] > 0
      BY <1>5, <2>1 DEF TestOwner, IInv, OwnerInv, Holder
    <3> QED
      BY <1>5, <2>1, <3>1
      DEF TestOwner, SectionGoto, IInv, FieldTypes, HolderInv, OwnerInv, CountInv, Holder, SectionLabels
  <2>2. CASE OwningThread # t
    BY <1>5, <2>2, QuietStep DEF TestOwner, SectionGoto, SectionLabels
  <2> QED
    BY <2>1, <2>2
<1>6. ASSUME NEW t \in SectionThreads, TestSemaphore(t) PROVE IInv'
  BY <1>6, QuietStep DEF TestSemaphore, SectionGoto, section, SectionLabels
<1>7. ASSUME NEW t \in SectionThreads, CreateEvent(t) PROVE IInv'
  BY <1>7, QuietStep DEF CreateEvent, SectionGoto, section, SectionLabels
<1>8. ASSUME NEW t \in SectionThreads, PublishEvent(t) PROVE IInv'
  BY <1>8, QuietStep DEF PublishEvent, SectionGoto, SectionLabels
<1>9. ASSUME NEW t \in SectionThreads, Reset(t) PROVE IInv'
  BY <1>9, QuietStep DEF Reset, SectionGoto, section, SectionLabels
<1>10. ASSUME NEW t \in SectionThreads, CallWait(t) PROVE IInv'
  BY <1>10, QuietStep DEF CallWait, SectionGoto, section, SectionLabels
<1>11. ASSUME NEW t \in SectionThreads, Wake(t) PROVE IInv'
  BY <1>11, QuietStep DEF Wake, SectionGoto, section, SectionLabels
<1>12. ASSUME NEW t \in SectionThreads, Leave(t) PROVE IInv'
  BY <1>12 DEF Leave, SectionGoto, IInv, FieldTypes, HolderInv, OwnerInv, CountInv, Holder, SectionLabels
<1>13. ASSUME NEW t \in SectionThreads, Release(t) PROVE IInv'
  <2>1. RecursionCount = depth[t] /\ Holder(t)
    BY <1>13 DEF Release, IInv, CountInv, Holder
  <2>2. CASE RecursionCount = 0
    BY <1>13, <2>1, <2>2
    DEF Release, SectionGoto, IInv, FieldTypes, HolderInv, OwnerInv, CountInv, Holder, SectionLabels
  <2>3. CASE RecursionCount # 0
    BY <1>13, <2>1, <2>3
    DEF Release, SectionGoto, IInv, FieldTypes, HolderInv, OwnerInv, CountInv, Holder, SectionLabels
  <2> QED
    BY <2>2, <2>3
<1>14. ASSUME NEW t \in SectionThreads, Disown(t) PROVE IInv'
  BY <1>14 DEF Disown, SectionGoto, IInv, FieldTypes, HolderInv, OwnerInv, CountInv, Holder, SectionLabels
<1>15. ASSUME NEW t \in SectionThreads, Signal(t) PROVE IInv'
  BY <1>15, QuietStep DEF Signal, SectionGoto, section, SectionLabels
<1>16. ASSUME Renew PROVE IInv'
  BY <1>16 DEF Renew, IInv, FieldTypes, HolderInv, OwnerInv, CountInv, Holder, SectionLabels
<1>17. ASSUME UNCHANGED sectionVars PROVE IInv'
  BY <1>17 DEF sectionVars, section, IInv, FieldTypes, HolderInv, OwnerInv, CountInv, Holder
<1> QED
  BY <1>1, <1>2, <1>3, <1>4, <1>5, <1>6, <1>7, <1>8, <1>9, <1>10, <1>11, <1>12, <1>13,
     <1>14, <1>15, <1>16, <1>17 DEF SectionNext, EnterStep, LeaveStep

\* The inductive invariant holds in every behaviour.
LEMMA SectionInvariance == SectionSpec => []IInv
BY InitInv, StepInv, PTL DEF SectionSpec

\* EnterCriticalSection and LeaveCriticalSection exclude: any number of
\* threads may try, and one at a time is inside, although OwningThread is
\* written outside the atomic exchange on LockCount.
THEOREM Exclusion == SectionSpec => []OneThreadInside
<1>1. IInv => OneThreadInside
  BY DEF IInv, HolderInv, Holder, OneThreadInside
<1> QED
  BY <1>1, SectionInvariance, PTL

\* RecursionCount counts the nested entries of the thread inside exactly, so
\* LeaveCriticalSection frees the section at the last one and not before.
THEOREM RecursionCounted == SectionSpec => []RecursionExact
<1>1. IInv => RecursionExact
  BY DEF IInv, CountInv, Holder, RecursionExact
<1> QED
  BY <1>1, SectionInvariance, PTL
=============================================================================
