------------------------- MODULE GroupRouterProofs -------------------------
(***************************************************************************)
(* Proofs about GroupRouter for every number of threads, rows, nets and    *)
(* edges, every dealing of the nets and every A* result.  The inductive    *)
(* invariant IInv is proved in two halves: ControlInv concerns program     *)
(* counters, row numbers and the single counter only; the rest is data and *)
(* uses what ControlInv says of the step that changes it.                  *)
(***************************************************************************)
EXTENDS GroupRouter, FiniteSetTheorems, TLAPS

-----------------------------------------------------------------------------
(* Control.                                                                *)

\* The region starts with every thread in front of row 0 and no single block
\* claimed (groupRouter.cpp:213).
LEMMA ControlInit == Init => ControlInv
<1> SUFFICES ASSUME Init PROVE ControlInv
  OBVIOUS
<1> USE SizeAssumption DEF Init, Team, Row
<1>1. /\ pc \in [Team -> Label]
      /\ iter \in [Team -> 0 .. Rows]
      /\ singleCount \in 0 .. Rows
      /\ slot \in 0 .. NumThread
  BY DEF Label
<1>2. PhaseInv
  BY DEF PhaseInv
<1>3. BarrierInv
  BY DEF BarrierInv
<1>4. SlotInv
  BY DEF SlotInv
<1> QED
  BY <1>1, <1>2, <1>3, <1>4 DEF ControlInv

\* While one thread runs the single block all are in its row and none routes.
LEMMA CommitRow ==
  ASSUME ControlInv, NEW t \in Team, pc[t] = "commit"
  PROVE  \A u \in Team : iter[u] = singleCount - 1 /\ pc[u] \in {"barrier", "single", "commit", "join"}
<1>1. iter[t] # singleCount
  BY DEF ControlInv, PhaseInv
<1>2. ASSUME NEW u \in Team PROVE iter[u] # singleCount
  BY <1>1, <1>2 DEF ControlInv, BarrierInv
<1> QED
  BY <1>2 DEF ControlInv, PhaseInv

\* No step of a thread or of the master breaks the control invariant.
LEMMA ControlNext == ControlInv /\ [Next]_vars => ControlInv'
<1> SUFFICES ASSUME ControlInv, [Next]_vars PROVE ControlInv'
  OBVIOUS
<1> USE SizeAssumption
<1>0. /\ pc \in [Team -> Label]
      /\ iter \in [Team -> 0 .. Rows]
      /\ singleCount \in 0 .. Rows
      /\ slot \in 0 .. NumThread
      /\ PhaseInv /\ BarrierInv /\ SlotInv
  BY DEF ControlInv
<1>1. ASSUME NEW t \in Team, TakeNet(t) PROVE ControlInv'
  <2> USE <1>0, <1>1, LanesAssumption DEF TakeNet, Goto
  <2>1. /\ pc' = [pc EXCEPT ![t] = "route"] /\ pc[t] = "fetch"
        /\ iter' = iter /\ singleCount' = singleCount /\ slot' = slot
        /\ iter[t] \in Row /\ Lanes[t][iter[t]] \in Net
    BY DEF CurrentNet, Team, Thread, Row
  <2>2. PhaseInv'
    BY <2>1 DEF PhaseInv, CurrentNet, Label, Row
  <2>3. BarrierInv'
    BY <2>1 DEF PhaseInv, BarrierInv, Arrived, Label
  <2>4. SlotInv'
    BY <2>1 DEF SlotInv, Committing, Label
  <2> QED BY <2>1, <2>2, <2>3, <2>4 DEF ControlInv, Label
<1>2. ASSUME NEW t \in Team, SkipRow(t) PROVE ControlInv'
  <2> USE <1>0, <1>2 DEF SkipRow, Goto
  <2>1. /\ pc' = [pc EXCEPT ![t] = "barrier"] /\ pc[t] = "fetch"
        /\ iter' = iter /\ singleCount' = singleCount /\ slot' = slot
        /\ iter[t] \in Row
    BY DEF Row
  <2>2. PhaseInv'
    BY <2>1 DEF PhaseInv, CurrentNet, Label, Row
  <2>3. BarrierInv'
    BY <2>1 DEF PhaseInv, BarrierInv, Arrived, Label
  <2>4. SlotInv'
    BY <2>1 DEF SlotInv, Committing, Label
  <2> QED BY <2>1, <2>2, <2>3, <2>4 DEF ControlInv, Label
<1>3. ASSUME NEW t \in Team, NEW e \in Edge, ReadCost(t, e) PROVE ControlInv'
  <2>1. UNCHANGED <<pc, iter, singleCount, slot>>
    BY <1>3 DEF ReadCost
  <2> QED
    BY <1>0, <2>1 DEF ControlInv, PhaseInv, BarrierInv, SlotInv, Arrived, Committing, CurrentNet
<1>4. ASSUME NEW t \in Team, FinishRoute(t) PROVE ControlInv'
  <2> USE <1>0, <1>4 DEF FinishRoute, Goto
  <2>1. /\ pc' = [pc EXCEPT ![t] = "barrier"] /\ pc[t] = "route"
        /\ iter' = iter /\ singleCount' = singleCount /\ slot' = slot
    OBVIOUS
  <2>2. PhaseInv'
    BY <2>1 DEF PhaseInv, CurrentNet, Label
  <2>3. BarrierInv'
    BY <2>1 DEF PhaseInv, BarrierInv, Arrived, Label
  <2>4. SlotInv'
    BY <2>1 DEF SlotInv, Committing, Label
  <2> QED BY <2>1, <2>2, <2>3, <2>4 DEF ControlInv, Label
<1>5. ASSUME NEW t \in Team, LeaveBarrier(t) PROVE ControlInv'
  <2> USE <1>0, <1>5 DEF LeaveBarrier, Goto
  <2>1. /\ pc' = [pc EXCEPT ![t] = "single"] /\ pc[t] = "barrier"
        /\ iter' = iter /\ singleCount' = singleCount /\ slot' = slot
        /\ \A u \in Team : Arrived(u, iter[t])
    OBVIOUS
  <2>2. PhaseInv'
    BY <2>1 DEF PhaseInv, CurrentNet, Label
  <2>3. BarrierInv'
    BY <2>1 DEF PhaseInv, BarrierInv, Arrived, Label
  <2>4. SlotInv'
    BY <2>1 DEF SlotInv, Committing, Label
  <2> QED BY <2>1, <2>2, <2>3, <2>4 DEF ControlInv, Label
<1>6. ASSUME NEW t \in Team, EnterSingle(t) PROVE ControlInv'
  <2> USE <1>0, <1>6 DEF EnterSingle, Goto
  <2>1. /\ pc' = [pc EXCEPT ![t] = "commit"] /\ pc[t] = "single"
        /\ iter' = iter /\ singleCount' = singleCount + 1 /\ slot' = 0
        /\ iter[t] = singleCount /\ singleCount < Rows
    BY DEF PhaseInv
  <2>2. \A u \in Team : iter[u] = singleCount /\ pc[u] \in {"barrier", "single"}
    <3>1. ASSUME NEW u \in Team PROVE Arrived(u, singleCount)
      BY <2>1 DEF BarrierInv
    <3> QED
      BY <2>1, <3>1 DEF PhaseInv, Arrived, Label
  <2>3. PhaseInv'
    BY <2>1, <2>2 DEF PhaseInv, CurrentNet, Label
  <2>4. BarrierInv'
    BY <2>1, <2>2 DEF BarrierInv, Arrived, Label
  <2>5. SlotInv'
    BY <2>1 DEF SlotInv
  <2> QED BY <2>1, <2>3, <2>4, <2>5 DEF ControlInv, Label
<1>7. ASSUME NEW t \in Team, SkipSingle(t) PROVE ControlInv'
  <2> USE <1>0, <1>7 DEF SkipSingle, Goto
  <2>1. /\ pc' = [pc EXCEPT ![t] = "join"] /\ pc[t] = "single"
        /\ iter' = iter /\ singleCount' = singleCount /\ slot' = slot
        /\ iter[t] = singleCount - 1
    BY DEF PhaseInv
  <2>2. PhaseInv'
    BY <2>1 DEF PhaseInv, CurrentNet, Label
  <2>3. BarrierInv'
    BY <2>1 DEF PhaseInv, BarrierInv, Arrived, Label
  <2>4. SlotInv'
    BY <2>1 DEF SlotInv, Committing, Label
  <2> QED BY <2>1, <2>2, <2>3, <2>4 DEF ControlInv, Label
<1>8. ASSUME NEW t \in Team, CommitSlot(t) PROVE ControlInv'
  <2> USE <1>0, <1>8 DEF CommitSlot
  <2>1. /\ UNCHANGED <<pc, iter, singleCount>> /\ pc[t] = "commit"
        /\ slot' = slot + 1 /\ slot < NumThread
    OBVIOUS
  <2>2. PhaseInv' /\ BarrierInv'
    BY <2>1 DEF PhaseInv, BarrierInv, Arrived, CurrentNet
  <2>3. SlotInv'
    BY <2>1 DEF SlotInv, Committing
  <2> QED BY <2>1, <2>2, <2>3 DEF ControlInv
<1>9. ASSUME NEW t \in Team, EndCommit(t) PROVE ControlInv'
  <2> USE <1>0, <1>9 DEF EndCommit, Goto
  <2>1. /\ pc' = [pc EXCEPT ![t] = "join"] /\ pc[t] = "commit"
        /\ iter' = iter /\ singleCount' = singleCount /\ slot' = 0
    OBVIOUS
  <2>2. PhaseInv'
    BY <2>1 DEF PhaseInv, CurrentNet, Label
  <2>3. BarrierInv'
    BY <2>1 DEF PhaseInv, BarrierInv, Arrived, Label
  <2>4. SlotInv'
    BY <2>1 DEF SlotInv
  <2> QED BY <2>1, <2>2, <2>3, <2>4 DEF ControlInv, Label
<1>10. ASSUME NEW t \in Team, LeaveSingle(t) PROVE ControlInv'
  <2> USE <1>0, <1>10 DEF LeaveSingle, Goto
  <2>0. pc[t] = "join"
    OBVIOUS
  <2>a. iter[t] = singleCount - 1 /\ iter[t] < Rows
    BY <2>0 DEF PhaseInv
  <2>b. iter[t] + 1 = singleCount
    BY <2>a
  <2>1. /\ pc' = [pc EXCEPT ![t] = "fetch"] /\ pc[t] = "join"
        /\ iter' = [iter EXCEPT ![t] = singleCount]
        /\ singleCount' = singleCount /\ slot' = slot
        /\ iter[t] = singleCount - 1 /\ iter[t] < Rows
    BY <2>a, <2>b
  <2>2. \A u \in Team : iter[u] = singleCount \/ pc[u] = "join"
    BY <2>1 DEF PhaseInv, Joined
  <2>3. PhaseInv'
    BY <2>1 DEF PhaseInv, CurrentNet, Label
  <2>4. BarrierInv'
    BY <2>1, <2>2 DEF PhaseInv, BarrierInv, Arrived, Label
  <2>5. SlotInv'
    BY <2>1 DEF SlotInv, Committing, Label
  <2> QED BY <2>1, <2>3, <2>4, <2>5 DEF ControlInv, Label
<1>11. ASSUME NEW t \in Team, EndRegion(t) PROVE ControlInv'
  <2> USE <1>0, <1>11 DEF EndRegion, Goto
  <2>1. /\ pc' = [pc EXCEPT ![t] = "end"] /\ pc[t] = "fetch"
        /\ iter' = iter /\ singleCount' = singleCount /\ slot' = slot
        /\ iter[t] = Rows
    OBVIOUS
  <2>2. PhaseInv'
    BY <2>1 DEF PhaseInv, CurrentNet, Label
  <2>3. BarrierInv'
    BY <2>1 DEF PhaseInv, BarrierInv, Arrived, Label
  <2>4. SlotInv'
    BY <2>1 DEF SlotInv, Committing, Label
  <2> QED BY <2>1, <2>2, <2>3, <2>4 DEF ControlInv, Label
<1>12. ASSUME UNCHANGED <<pc, iter, singleCount, slot>> PROVE ControlInv'
  BY <1>0, <1>12 DEF ControlInv, PhaseInv, BarrierInv, SlotInv, Arrived, Committing, CurrentNet
<1>13. ASSUME MasterStep \/ Finished \/ UNCHANGED vars
       PROVE  UNCHANGED <<pc, iter, singleCount, slot>>
  BY <1>13 DEF MasterStep, AddTreeToEdge, Finished, vars
<1> QED
  BY <1>1, <1>2, <1>3, <1>4, <1>5, <1>6, <1>7, <1>8, <1>9, <1>10, <1>11, <1>12, <1>13
     DEF Next, ThreadStep
-----------------------------------------------------------------------------
(* Data.                                                                   *)

\* The types of ControlInv, without its content.
LEMMA ControlTypes ==
  ControlInv => /\ pc \in [Team -> Label]
                /\ iter \in [Team -> 0 .. Rows]
                /\ singleCount \in 0 .. Rows
                /\ slot \in 0 .. NumThread
BY DEF ControlInv

\* What a step does to the flag "a single block is being run".
LEMMA CommittingStep ==
  ASSUME ControlInv, NEW t \in Team, NEW l \in Label, pc' = [pc EXCEPT ![t] = l],
         pc[t] # "commit", l # "commit"
  PROVE  Committing' = Committing
BY ControlTypes DEF Committing

\* net_t holds exactly the nets routed in the row at hand and not yet added to
\* the costs, whatever thread moves.
LEMMA NetNext == IInv /\ [Next]_vars => NetInv'
<1> SUFFICES ASSUME IInv, [Next]_vars PROVE NetInv'
  OBVIOUS
<1> USE SizeAssumption
<1>0. /\ pc \in [Team -> Label]
      /\ iter \in [Team -> 0 .. Rows]
      /\ singleCount \in 0 .. Rows
      /\ slot \in 0 .. NumThread
      /\ net_t \in [Thread -> Net \cup {NoNet}]
      /\ ControlInv /\ PhaseInv /\ BarrierInv /\ SlotInv /\ NetInv
  BY DEF IInv, ControlInv, TypeOK
<1>a. Team \subseteq Thread
  BY DEF Team, Thread
<1>1. ASSUME NEW t \in Team, TakeNet(t) PROVE NetInv'
  <2>1. /\ pc' = [pc EXCEPT ![t] = "route"] /\ pc[t] = "fetch"
        /\ UNCHANGED <<iter, singleCount, slot, net_t>>
    BY <1>1 DEF TakeNet, Goto
  <2>2. Committing' = Committing
    BY <1>0, <2>1, CommittingStep DEF Label
  <2> QED
    BY <1>0, <2>1, <2>2 DEF NetInv, Pending, PhaseInv
<1>2. ASSUME NEW t \in Team, SkipRow(t) PROVE NetInv'
  <2>1. /\ pc' = [pc EXCEPT ![t] = "barrier"] /\ pc[t] = "fetch"
        /\ UNCHANGED <<iter, singleCount, slot, net_t>>
        /\ Lanes[t][iter[t]] = NoNet
    BY <1>2 DEF SkipRow, Goto, CurrentNet
  <2>2. Committing' = Committing
    BY <1>0, <2>1, CommittingStep DEF Label
  <2>3. net_t[t] = NoNet
    BY <1>0, <1>a, <2>1 DEF NetInv, Pending, PhaseInv
  <2> QED
    BY <1>0, <2>1, <2>2, <2>3 DEF NetInv, Pending, PhaseInv
<1>3. ASSUME UNCHANGED <<pc, iter, singleCount, slot, net_t>> PROVE NetInv'
  BY <1>0, <1>3 DEF NetInv, Pending, Committing
<1>4. ASSUME NEW t \in Team, FinishRoute(t) PROVE NetInv'
  <2>1. /\ pc' = [pc EXCEPT ![t] = "barrier"] /\ pc[t] = "route"
        /\ UNCHANGED <<iter, singleCount, slot>>
        /\ net_t' = [net_t EXCEPT ![t] = Lanes[t][iter[t]]]
    BY <1>4 DEF FinishRoute, Goto, CurrentNet
  <2>2. Committing' = Committing
    BY <1>0, <2>1, CommittingStep DEF Label
  <2>3. iter[t] = singleCount
    BY <1>0, <2>1 DEF PhaseInv
  <2> QED
    BY <1>0, <1>a, <2>1, <2>2, <2>3 DEF NetInv, Pending
<1>5. ASSUME NEW t \in Team, LeaveBarrier(t) PROVE NetInv'
  <2>1. /\ pc' = [pc EXCEPT ![t] = "single"] /\ pc[t] = "barrier"
        /\ UNCHANGED <<iter, singleCount, slot, net_t>>
    BY <1>5 DEF LeaveBarrier, Goto
  <2>2. Committing' = Committing
    BY <1>0, <2>1, CommittingStep DEF Label
  <2> QED
    BY <1>0, <2>1, <2>2 DEF NetInv, Pending
<1>6. ASSUME NEW t \in Team, EnterSingle(t) PROVE NetInv'
  <2>1. /\ pc' = [pc EXCEPT ![t] = "commit"] /\ pc[t] = "single"
        /\ UNCHANGED <<iter, net_t>> /\ singleCount' = singleCount + 1 /\ slot' = 0
        /\ iter[t] = singleCount
    BY <1>6 DEF EnterSingle, Goto
  <2>2. Committing'
    BY <1>0, <2>1 DEF Committing
  <2>3. \A u \in Team : iter[u] = singleCount /\ pc[u] \in {"barrier", "single"}
    <3>1. \A u \in Team : Arrived(u, singleCount)
      BY <1>0, <2>1 DEF BarrierInv
    <3> QED
      BY <1>0, <2>1, <3>1 DEF PhaseInv, Arrived, Label
  <2>4. ASSUME NEW k \in Thread PROVE Pending(k)' <=> Pending(k)
    <3>1. CASE k \in Team
      BY <1>0, <2>1, <2>2, <2>3, <3>1 DEF Pending, Team
    <3>2. CASE k \notin Team
      BY <3>2 DEF Pending, Team
    <3> QED BY <3>1, <3>2
  <2> QED
    BY <1>0, <2>1, <2>4 DEF NetInv
<1>7. ASSUME NEW t \in Team, SkipSingle(t) PROVE NetInv'
  <2>1. /\ pc' = [pc EXCEPT ![t] = "join"] /\ pc[t] = "single"
        /\ UNCHANGED <<iter, singleCount, slot, net_t>>
        /\ iter[t] # singleCount
    BY <1>7 DEF SkipSingle, Goto
  <2>2. Committing' = Committing
    BY <1>0, <2>1, CommittingStep DEF Label
  <2> QED
    BY <1>0, <2>1, <2>2 DEF NetInv, Pending
<1>8. ASSUME NEW t \in Team, CommitSlot(t) PROVE NetInv'
  <2>1. /\ UNCHANGED <<pc, iter, singleCount>> /\ pc[t] = "commit"
        /\ slot' = slot + 1 /\ slot \in Thread
        /\ net_t' = [net_t EXCEPT ![slot] = NoNet]
    BY <1>0, <1>8 DEF CommitSlot, Thread
  <2>2. Committing /\ Committing'
    BY <2>1 DEF Committing
  <2>3. \A u \in Team : iter[u] = singleCount - 1
    BY <1>0, <2>1, CommitRow
  <2>4. ASSUME NEW k \in Thread PROVE Pending(k)' <=> Pending(k) /\ k # slot
    BY <1>0, <2>1, <2>2, <2>3 DEF Pending, Team, Thread
  <2> QED
    BY <1>0, <2>1, <2>4 DEF NetInv
<1>9. ASSUME NEW t \in Team, EndCommit(t) PROVE NetInv'
  <2>1. /\ pc' = [pc EXCEPT ![t] = "join"] /\ pc[t] = "commit"
        /\ UNCHANGED <<iter, singleCount, net_t>>
        /\ slot = NumThread /\ slot' = 0
    BY <1>9 DEF EndCommit, Goto
  <2>2. ~Committing'
    BY <1>0, <2>1 DEF Committing, BarrierInv, Label
  <2>3. \A u \in Team : iter[u] = singleCount - 1
    BY <1>0, <2>1, CommitRow
  <2>4. ASSUME NEW k \in Thread PROVE ~Pending(k)' /\ ~Pending(k)
    BY <1>0, <2>1, <2>2, <2>3 DEF Pending, Team, Thread
  <2> QED
    BY <1>0, <2>1, <2>4 DEF NetInv
<1>10. ASSUME NEW t \in Team, LeaveSingle(t) PROVE NetInv'
  <2>1. /\ pc' = [pc EXCEPT ![t] = "fetch"] /\ pc[t] = "join"
        /\ UNCHANGED <<singleCount, slot, net_t>>
        /\ iter' = [iter EXCEPT ![t] = iter[t] + 1]
        /\ \A u \in Team : Joined(u, iter[t])
    BY <1>10 DEF LeaveSingle, Goto
  <2>2. iter[t] = singleCount - 1
    BY <1>0, <2>1 DEF PhaseInv
  <2>3. ~Committing /\ ~Committing'
    <3>1. ~Committing
      BY <1>0, <2>1, <2>2, CommitRow DEF Committing, Joined
    <3> QED BY <3>1, <1>0, <2>1, CommittingStep DEF Label
  <2> QED
    BY <1>0, <2>1, <2>2, <2>3 DEF NetInv, Pending
<1>11. ASSUME NEW t \in Team, EndRegion(t) PROVE NetInv'
  <2>1. /\ pc' = [pc EXCEPT ![t] = "end"] /\ pc[t] = "fetch"
        /\ UNCHANGED <<iter, singleCount, slot, net_t>>
    BY <1>11 DEF EndRegion, Goto
  <2>2. Committing' = Committing
    BY <1>0, <2>1, CommittingStep DEF Label
  <2> QED
    BY <1>0, <2>1, <2>2 DEF NetInv, Pending
<1>12. ASSUME \/ \E t \in Team : \E e \in Edge : ReadCost(t, e)
              \/ MasterStep \/ Finished \/ UNCHANGED vars
       PROVE  UNCHANGED <<pc, iter, singleCount, slot, net_t>>
  BY <1>12 DEF ReadCost, MasterStep, AddTreeToEdge, Finished, vars
<1> QED
  BY <1>1, <1>2, <1>3, <1>4, <1>5, <1>6, <1>7, <1>8, <1>9, <1>10, <1>11, <1>12
     DEF Next, ThreadStep

\* No commit overlaps a search: the costs change only while no thread routes.
LEMMA CostsFixed ==
  ASSUME IInv, [Next]_vars
  PROVE  \/ c1' = c1 /\ tree' = tree
         \/ c1' = c1 /\ \E t \in Team : FinishRoute(t)
         \/ \E t \in Team : CommitSlot(t)
BY DEF Next, ThreadStep, TakeNet, SkipRow, ReadCost, FinishRoute, LeaveBarrier, EnterSingle,
       SkipSingle, EndCommit, LeaveSingle, EndRegion, MasterStep, AddTreeToEdge, Finished, vars

\* A search that has begun sees one snapshot of the costs.
LEMMA SearchNext == IInv /\ [Next]_vars => SearchInv' /\ SnapshotStable'
<1> SUFFICES ASSUME IInv, [Next]_vars PROVE SearchInv' /\ SnapshotStable'
  OBVIOUS
<1>0. /\ pc \in [Team -> Label]
      /\ seen \in [Team -> [Edge -> Cost \cup {Unread}]]
      /\ ControlInv /\ SearchInv /\ SnapshotStable
  BY DEF IInv, TypeOK
<1>1. ASSUME NEW t \in Team, NEW l \in Label, pc[t] # "route",
             pc' = [pc EXCEPT ![t] = l], UNCHANGED <<seen, c1>>
      PROVE  SearchInv' /\ SnapshotStable'
  BY <1>0, <1>1 DEF SearchInv, SnapshotStable, NoneSeen
<1>2. ASSUME NEW t \in Team, NEW e \in Edge, ReadCost(t, e)
      PROVE  SearchInv' /\ SnapshotStable'
  <2>1. /\ pc[t] = "route" /\ UNCHANGED <<pc, c1>>
        /\ seen' = [seen EXCEPT ![t] = [seen[t] EXCEPT ![e] = c1[e]]]
    BY <1>2, <1>0 DEF ReadCost
  <2>2. ASSUME NEW u \in Team, NEW d \in Edge
        PROVE  seen'[u][d] = IF u = t /\ d = e THEN c1[e] ELSE seen[u][d]
    BY <1>0, <2>1
  <2>3. SearchInv'
    BY <1>0, <2>1 DEF SearchInv
  <2>4. SnapshotStable'
    BY <1>0, <2>1, <2>2 DEF SnapshotStable
  <2> QED BY <2>3, <2>4
<1>3. ASSUME NEW t \in Team, FinishRoute(t) PROVE SearchInv' /\ SnapshotStable'
  <2>1. /\ pc' = [pc EXCEPT ![t] = "barrier"] /\ c1' = c1
        /\ seen' = [seen EXCEPT ![t] = NoneSeen]
    BY <1>3 DEF FinishRoute, Goto
  <2> QED
    BY <1>0, <2>1 DEF SearchInv, SnapshotStable
<1>4. ASSUME NEW t \in Team, CommitSlot(t) PROVE SearchInv' /\ SnapshotStable'
  <2>1. pc[t] = "commit" /\ UNCHANGED <<pc, seen>>
    BY <1>4 DEF CommitSlot
  <2>2. \A u \in Team : pc[u] # "route"
    BY <1>0, <2>1, CommitRow
  <2> QED
    BY <1>0, <2>1, <2>2 DEF SearchInv, SnapshotStable
<1>5. ASSUME UNCHANGED <<pc, seen, c1>> PROVE SearchInv' /\ SnapshotStable'
  BY <1>0, <1>5 DEF SearchInv, SnapshotStable
<1>6. ASSUME NEW t \in Team,
             \/ TakeNet(t) \/ SkipRow(t) \/ LeaveBarrier(t) \/ EnterSingle(t)
             \/ SkipSingle(t) \/ EndCommit(t) \/ LeaveSingle(t) \/ EndRegion(t)
      PROVE  /\ pc[t] # "route" /\ UNCHANGED <<seen, c1>>
             /\ \E l \in Label : pc' = [pc EXCEPT ![t] = l]
  BY <1>6 DEF TakeNet, SkipRow, LeaveBarrier, EnterSingle, SkipSingle, EndCommit, LeaveSingle,
              EndRegion, Goto, Label
<1>7. ASSUME MasterStep \/ Finished \/ UNCHANGED vars PROVE UNCHANGED <<pc, seen, c1>>
  BY <1>7 DEF MasterStep, AddTreeToEdge, Finished, vars
<1> QED
  BY <1>1, <1>2, <1>3, <1>4, <1>5, <1>6, <1>7 DEF Next, ThreadStep

-----------------------------------------------------------------------------
(* Which nets are in the costs.                                            *)

\* A net is at one place of the lanes only.
LEMMA OnePlace ==
  ASSUME NEW t \in Team, NEW u \in Team, NEW r \in Row, NEW q \in Row,
         Lanes[t][r] \in Net, Lanes[t][r] = Lanes[u][q]
  PROVE  t = u /\ r = q
<1>1. t \in Thread /\ u \in Thread
  BY SizeAssumption DEF Team, Thread
<1>2. Lanes[t][r] # NoNet
  BY SizeAssumption
<1> QED BY <1>1, <1>2, LanesAssumption

\* The net a thread is routing is not in the costs.
LEMMA RoutingUncommitted ==
  ASSUME IInv, NEW t \in Team, pc[t] = "route"
  PROVE  CurrentNet(t) \in Net /\ CurrentNet(t) \notin Committed
<1>0. ControlInv /\ PhaseInv /\ SlotInv
  BY DEF IInv, ControlInv
<1>1. /\ CurrentNet(t) \in Net /\ iter[t] = singleCount /\ iter[t] \in Row
      /\ singleCount \in Nat
  BY <1>0, SizeAssumption DEF ControlInv, PhaseInv, Row
<1>2. ~Committing
  BY <1>0, CommitRow DEF Committing
<1>3. RowsDone = singleCount /\ slot = 0
  BY <1>0, <1>2 DEF RowsDone, SlotInv
<1>4. ASSUME NEW u \in Team, NEW r \in Row, Lanes[u][r] = CurrentNet(t)
      PROVE  r = singleCount
  BY <1>1, <1>4, OnePlace DEF CurrentNet
<1>5. \A u \in Team : ~(u < slot)
  BY <1>3, SizeAssumption DEF Team
<1> QED
  BY <1>1, <1>3, <1>4, <1>5 DEF Committed

\* Only the loop of the single block brings nets into the costs; claiming the
\* block and leaving it move the row count without moving a net.
LEMMA CommittedStep ==
  ASSUME IInv, [Next]_vars
  PROVE  Committed' = Committed \/ \E t \in Team : CommitSlot(t)
<1> USE SizeAssumption
<1>0. /\ pc \in [Team -> Label]
      /\ singleCount \in 0 .. Rows /\ slot \in 0 .. NumThread
      /\ ControlInv /\ SlotInv
  BY DEF IInv, ControlInv
<1>1. ASSUME UNCHANGED <<singleCount, slot>>, Committing' = Committing
      PROVE  Committed' = Committed
  BY <1>1 DEF Committed, RowsDone
<1>2. ASSUME NEW t \in Team, EnterSingle(t) PROVE Committed' = Committed
  <2>1. /\ pc' = [pc EXCEPT ![t] = "commit"] /\ pc[t] = "single"
        /\ singleCount' = singleCount + 1 /\ slot' = 0 /\ iter[t] = singleCount
    BY <1>2 DEF EnterSingle, Goto
  <2>2. Committing'
    BY <1>0, <2>1 DEF Committing
  <2>3. ~Committing
    <3>1. ASSUME NEW u \in Team, pc[u] = "commit" PROVE FALSE
      BY <1>0, <2>1, <3>1, CommitRow
    <3> QED BY <3>1 DEF Committing
  <2>4. RowsDone' = RowsDone /\ slot' = slot
    BY <1>0, <2>1, <2>2, <2>3 DEF RowsDone, SlotInv
  <2> QED BY <2>4 DEF Committed
<1>3. ASSUME NEW t \in Team, EndCommit(t) PROVE Committed' = Committed
  <2>1. /\ pc' = [pc EXCEPT ![t] = "join"] /\ pc[t] = "commit"
        /\ singleCount' = singleCount /\ slot = NumThread /\ slot' = 0
    BY <1>3 DEF EndCommit, Goto
  <2>2. Committing
    BY <2>1 DEF Committing
  <2>3. ~Committing'
    BY <1>0, <2>1 DEF Committing, ControlInv, BarrierInv, Label
  <2>4. RowsDone = singleCount - 1 /\ RowsDone' = singleCount
    BY <2>1, <2>2, <2>3 DEF RowsDone
  <2>5. ASSUME NEW u \in Team, NEW r \in Row
        PROVE  (r < RowsDone \/ (r = RowsDone /\ u < slot))
                 <=> (r < RowsDone' \/ (r = RowsDone' /\ u < slot'))
    BY <1>0, <2>1, <2>4 DEF Team, Row
  <2> QED BY <2>5 DEF Committed
<1>4. ASSUME NEW t \in Team, NEW l \in Label, pc[t] # "commit", l # "commit",
             pc' = [pc EXCEPT ![t] = l], UNCHANGED <<singleCount, slot>>
      PROVE  Committed' = Committed
  BY <1>0, <1>1, <1>4, CommittingStep
<1>5. ASSUME UNCHANGED <<pc, singleCount, slot>> PROVE Committed' = Committed
  BY <1>1, <1>5 DEF Committing
<1>6. ASSUME NEW t \in Team,
             \/ TakeNet(t) \/ SkipRow(t) \/ FinishRoute(t) \/ LeaveBarrier(t)
             \/ SkipSingle(t) \/ LeaveSingle(t) \/ EndRegion(t)
      PROVE  /\ pc[t] # "commit" /\ UNCHANGED <<singleCount, slot>>
             /\ \E l \in Label : l # "commit" /\ pc' = [pc EXCEPT ![t] = l]
  BY <1>6 DEF TakeNet, SkipRow, FinishRoute, LeaveBarrier, SkipSingle, LeaveSingle, EndRegion,
              Goto, Label
<1>7. ASSUME \/ \E t \in Team : \E e \in Edge : ReadCost(t, e)
             \/ MasterStep \/ Finished \/ UNCHANGED vars
      PROVE  UNCHANGED <<pc, singleCount, slot>>
  BY <1>7 DEF ReadCost, MasterStep, AddTreeToEdge, Finished, vars
<1> QED
  BY <1>2, <1>3, <1>4, <1>5, <1>6, <1>7 DEF Next, ThreadStep

\* One turn of the loop brings in the net found in net_t, which was not in yet.
LEMMA CommitAddsNet ==
  ASSUME IInv, NEW t \in Team, CommitSlot(t)
  PROVE  /\ net_t[slot] \in Net \cup {NoNet}
         /\ net_t[slot] \notin Committed
         /\ Committed' = Committed \cup ({net_t[slot]} \ {NoNet})
<1> USE SizeAssumption
<1>0. /\ pc \in [Team -> Label] /\ iter \in [Team -> 0 .. Rows]
      /\ singleCount \in 0 .. Rows /\ slot \in 0 .. NumThread
      /\ net_t \in [Thread -> Net \cup {NoNet}]
      /\ ControlInv /\ PhaseInv /\ NetInv
  BY DEF IInv, ControlInv, TypeOK
<1>1. /\ UNCHANGED <<pc, singleCount>> /\ pc[t] = "commit"
      /\ slot' = slot + 1 /\ slot \in Thread
  BY <1>0 DEF CommitSlot, Thread
<1>2. Committing /\ Committing'
  BY <1>1 DEF Committing
<1>3. RowsDone = singleCount - 1 /\ RowsDone' = RowsDone
  BY <1>1, <1>2 DEF RowsDone
<1>4. (\A u \in Team : iter[u] = RowsDone) /\ RowsDone \in Row
  <2>1. \A u \in Team : iter[u] = RowsDone
    BY <1>0, <1>1, <1>3, CommitRow
  <2>2. iter[t] < Rows /\ iter[t] \in Nat
    BY <1>0, <1>1 DEF PhaseInv
  <2> QED BY <2>1, <2>2 DEF Row
<1>5. net_t[slot] = IF slot \in Team THEN Lanes[slot][RowsDone] ELSE NoNet
  BY <1>0, <1>1, <1>2, <1>3, <1>4 DEF NetInv, Pending, Thread, Team
<1>6. ASSUME NEW u \in Team, NEW r \in Row
      PROVE  (r < RowsDone' \/ (r = RowsDone' /\ u < slot'))
               <=> \/ r < RowsDone
                   \/ r = RowsDone /\ u < slot
                   \/ r = RowsDone /\ u = slot
  BY <1>0, <1>1, <1>3 DEF Team
<1>7. Committed' = Committed \cup ({net_t[slot]} \ {NoNet})
  <2>1. ASSUME NEW n \in Net
        PROVE  n \in Committed' <=> n \in Committed \/ n = net_t[slot]
    <3>1. n \in Committed' <=> n \in Committed \/ (slot \in Team /\ Lanes[slot][RowsDone] = n)
      BY <1>4, <1>6 DEF Committed
    <3> QED BY <3>1, <1>5
  <2>2. Committed' \subseteq Net /\ Committed \subseteq Net
    BY DEF Committed
  <2>3. net_t[slot] \in Net \cup {NoNet} /\ NoNet \notin Net
    BY <1>0, <1>1
  <2> QED BY <2>1, <2>2, <2>3
<1>8. net_t[slot] \notin Committed
  <2>1. SUFFICES ASSUME net_t[slot] \in Committed PROVE FALSE
    OBVIOUS
  <2>2. net_t[slot] \in Net /\ slot \in Team /\ net_t[slot] = Lanes[slot][RowsDone]
    BY <2>1, <1>5 DEF Committed
  <2>3. PICK u \in Team, r \in Row :
          Lanes[u][r] = net_t[slot] /\ (r < RowsDone \/ (r = RowsDone /\ u < slot))
    BY <2>1 DEF Committed
  <2>4. u = slot /\ r = RowsDone
    BY <2>2, <2>3, <1>4, OnePlace
  <2> QED BY <2>3, <2>4, <1>0, <1>3
<1> QED
  BY <1>0, <1>1, <1>7, <1>8

-----------------------------------------------------------------------------
(* The costs.                                                              *)

\* A cost is one plus the committed trees on the edge, after every step.
LEMMA CostNext == IInv /\ [Next]_vars => CostAccounting'
<1> SUFFICES ASSUME IInv, [Next]_vars PROVE CostAccounting'
  OBVIOUS
<1>0. CostAccounting /\ tree \in [Net -> SUBSET Edge] /\ c1 \in [Edge -> Cost]
  BY DEF IInv, TypeOK
<1>1. CASE c1' = c1 /\ Committed' = Committed /\ tree' = tree
  BY <1>0, <1>1 DEF CostAccounting, Users
<1>2. ASSUME NEW t \in Team, FinishRoute(t), c1' = c1, Committed' = Committed
      PROVE  CostAccounting'
  <2>1. pc[t] = "route" /\ \A n \in Net : n # CurrentNet(t) => tree'[n] = tree[n]
    BY <1>0, <1>2 DEF FinishRoute
  <2>2. \A n \in Committed : n \in Net /\ n # CurrentNet(t)
    BY <2>1, RoutingUncommitted DEF Committed
  <2>3. \A e \in Edge : Users(Committed, e)' = Users(Committed, e)
    BY <1>2, <2>1, <2>2 DEF Users
  <2> QED BY <1>0, <1>2, <2>3 DEF CostAccounting
<1>3. ASSUME NEW t \in Team, CommitSlot(t) PROVE CostAccounting'
  <2>1. /\ tree' = tree
        /\ c1' = IF net_t[slot] = NoNet THEN c1
                  ELSE [e \in Edge |-> IF e \in tree[net_t[slot]] THEN c1[e] + 1 ELSE c1[e]]
    BY <1>3 DEF CommitSlot
  <2>2. CASE net_t[slot] = NoNet
    BY <1>0, <1>3, <2>1, <2>2, CommitAddsNet DEF CostAccounting, Users
  <2>3. CASE net_t[slot] # NoNet
    <3> DEFINE m == net_t[slot]
    <3>1. m \in Net /\ m \notin Committed /\ Committed' = Committed \cup {m}
      BY <1>3, <2>3, CommitAddsNet
    <3>2. SUFFICES ASSUME NEW e \in Edge
                   PROVE  c1'[e] = 1 + Cardinality(Users(Committed, e)')
      BY DEF CostAccounting
    <3>3. Users(Committed, e)' = IF e \in tree[m] THEN Users(Committed, e) \cup {m}
                                                   ELSE Users(Committed, e)
      BY <2>1, <3>1 DEF Users
    <3>4. IsFiniteSet(Users(Committed, e)) /\ m \notin Users(Committed, e)
      <4>1. Users(Committed, e) \subseteq Net
        BY DEF Users, Committed
      <4>2. IsFiniteSet(Users(Committed, e))
        BY <4>1, SizeAssumption, FS_Subset
      <4> QED BY <4>2, <3>1 DEF Users
    <3>5. Cardinality(Users(Committed, e) \cup {m}) = Cardinality(Users(Committed, e)) + 1
      BY <3>4, FS_AddElement
    <3>6. c1[e] = 1 + Cardinality(Users(Committed, e)) /\ Cardinality(Users(Committed, e)) \in Nat
      BY <1>0, <3>4, FS_CardinalityType DEF CostAccounting
    <3>7. c1'[e] = IF e \in tree[m] THEN c1[e] + 1 ELSE c1[e]
      BY <2>1, <2>3
    <3> QED BY <3>3, <3>5, <3>6, <3>7
  <2> QED BY <2>2, <2>3
<1>4. Committed' = Committed \/ \E t \in Team : CommitSlot(t)
  BY CommittedStep
<1> QED
  BY <1>1, <1>2, <1>3, <1>4, CostsFixed

-----------------------------------------------------------------------------
(* Trees, flags and types.                                                 *)

\* Trees belong to nets of finished rows or to threads through with their net.
LEMMA RoutedNext == IInv /\ [Next]_vars => RoutedInv'
<1> SUFFICES ASSUME IInv, [Next]_vars PROVE RoutedInv'
  OBVIOUS
<1> USE SizeAssumption
<1>0. /\ pc \in [Team -> Label] /\ iter \in [Team -> 0 .. Rows] /\ singleCount \in 0 .. Rows
      /\ tree \in [Net -> SUBSET Edge]
      /\ ControlInv /\ PhaseInv /\ RoutedInv
  BY DEF IInv, ControlInv, TypeOK
<1>1. ASSUME NEW t \in Team, NEW l \in Label, UNCHANGED <<tree, singleCount>>,
             pc' = [pc EXCEPT ![t] = l],
             \A u \in Team : iter[u] = singleCount => iter'[u] = iter[u],
             \/ l \in {"barrier", "single"}
             \/ pc[t] \notin {"barrier", "single"}
             \/ iter[t] # singleCount
      PROVE  RoutedInv'
  BY <1>0, <1>1 DEF RoutedInv
<1>2. ASSUME NEW t \in Team, FinishRoute(t) PROVE RoutedInv'
  <2>1. /\ pc' = [pc EXCEPT ![t] = "barrier"] /\ pc[t] = "route"
        /\ UNCHANGED <<iter, singleCount>>
        /\ \A n \in Net : n # CurrentNet(t) => tree'[n] = tree[n]
    BY <1>0, <1>2 DEF FinishRoute, Goto
  <2>2. iter[t] = singleCount /\ iter[t] \in Row
    BY <1>0, <2>1 DEF PhaseInv, Row
  <2>3. SUFFICES ASSUME NEW n \in Net, tree'[n] # {}
                 PROVE  \E u \in Team : \E r \in Row :
                          /\ Lanes[u][r] = n
                          /\ \/ r < singleCount'
                             \/ r = singleCount' /\ iter'[u] = r /\ pc'[u] \in {"barrier", "single"}
    BY DEF RoutedInv
  <2>4. CASE n = CurrentNet(t)
    BY <1>0, <2>1, <2>2, <2>4 DEF CurrentNet
  <2>5. CASE n # CurrentNet(t)
    BY <1>0, <2>1, <2>3, <2>5 DEF RoutedInv
  <2> QED BY <2>4, <2>5
<1>3. ASSUME NEW t \in Team, EnterSingle(t) PROVE RoutedInv'
  <2>1. singleCount' = singleCount + 1 /\ tree' = tree
    BY <1>3 DEF EnterSingle
  <2>2. \A r \in Row : r < singleCount \/ r = singleCount => r < singleCount'
    BY <1>0, <2>1 DEF Row
  <2> QED BY <1>0, <2>1, <2>2 DEF RoutedInv
<1>4. ASSUME NEW t \in Team, LeaveSingle(t) PROVE RoutedInv'
  <2>1. /\ pc[t] = "join" /\ pc' = [pc EXCEPT ![t] = "fetch"]
        /\ iter' = [iter EXCEPT ![t] = iter[t] + 1] /\ UNCHANGED <<tree, singleCount>>
    BY <1>4 DEF LeaveSingle, Goto
  <2>2. iter[t] # singleCount
    BY <1>0, <2>1 DEF PhaseInv
  <2> QED BY <1>0, <1>1, <2>1, <2>2 DEF Label
<1>5. ASSUME NEW t \in Team,
             \/ TakeNet(t) \/ SkipRow(t) \/ LeaveBarrier(t)
             \/ SkipSingle(t) \/ EndCommit(t) \/ EndRegion(t)
      PROVE  RoutedInv'
  <2>1. /\ UNCHANGED <<tree, singleCount, iter>>
        /\ \E l \in Label : /\ pc' = [pc EXCEPT ![t] = l]
                            /\ \/ l \in {"barrier", "single"}
                               \/ pc[t] \notin {"barrier", "single"}
                               \/ iter[t] # singleCount
    BY <1>5 DEF TakeNet, SkipRow, LeaveBarrier, SkipSingle, EndCommit, EndRegion, Goto, Label
  <2> QED BY <1>1, <2>1
<1>6. ASSUME UNCHANGED <<pc, iter, singleCount, tree>> PROVE RoutedInv'
  BY <1>0, <1>6 DEF RoutedInv
<1>7. ASSUME \/ \E t \in Team : \E e \in Edge : ReadCost(t, e)
             \/ \E t \in Team : CommitSlot(t)
             \/ MasterStep \/ Finished \/ UNCHANGED vars
      PROVE  UNCHANGED <<pc, iter, singleCount, tree>>
  BY <1>7 DEF ReadCost, CommitSlot, MasterStep, AddTreeToEdge, Finished, vars
<1> QED
  BY <1>2, <1>3, <1>4, <1>5, <1>6, <1>7 DEF Next, ThreadStep

\* Passing flags are set after the region only, and match the trees handed over.
LEMMA PublishNext == IInv /\ [Next]_vars => PublishInv'
<1> SUFFICES ASSUME IInv, [Next]_vars PROVE PublishInv'
  OBVIOUS
<1>0. PublishInv /\ passing \in [Edge -> SUBSET Net] /\ published \in SUBSET Net
  BY DEF IInv, TypeOK
<1>1. ASSUME NEW n \in Net, AddTreeToEdge(n) PROVE PublishInv'
  <2>1. /\ RegionOver /\ UNCHANGED <<pc, tree>> /\ published' = published \cup {n}
        /\ passing' = [e \in Edge |-> IF e \in tree[n] THEN passing[e] \cup {n} ELSE passing[e]]
    BY <1>1 DEF AddTreeToEdge
  <2> QED BY <1>0, <2>1 DEF PublishInv, RegionOver, Users
<1>2. ASSUME NEW t \in Team, ThreadStep(t) PROVE PublishInv'
  <2>1. pc[t] # "end" /\ UNCHANGED <<passing, published>>
    BY <1>2 DEF ThreadStep, TakeNet, SkipRow, ReadCost, FinishRoute, LeaveBarrier, EnterSingle,
                SkipSingle, CommitSlot, EndCommit, LeaveSingle, EndRegion
  <2>2. published = {}
    BY <1>0, <2>1 DEF PublishInv, RegionOver
  <2> QED BY <1>0, <2>1, <2>2 DEF PublishInv, Users
<1>3. ASSUME UNCHANGED vars PROVE PublishInv'
  BY <1>0, <1>3 DEF PublishInv, RegionOver, Users, vars
<1> QED
  BY <1>1, <1>2, <1>3 DEF Next, MasterStep, Finished

\* Types are kept; the bound on the costs comes from the accounting.
LEMMA TypeNext == IInv /\ [Next]_vars /\ ControlInv' /\ CostAccounting' => TypeOK'
<1> SUFFICES ASSUME IInv, [Next]_vars, ControlInv', CostAccounting' PROVE TypeOK'
  OBVIOUS
<1>0. TypeOK /\ ControlInv /\ PhaseInv
  BY DEF IInv, ControlInv
<1>1. /\ pc' \in [Team -> Label] /\ iter' \in [Team -> 0 .. Rows]
      /\ singleCount' \in 0 .. Rows /\ slot' \in 0 .. NumThread
  BY DEF ControlInv
<1>2. c1' \in [Edge -> Cost]
  <2>1. ASSUME NEW e \in Edge PROVE c1'[e] \in Cost
    <3>1. Committed' \in SUBSET Net
      BY DEF Committed
    <3>2. Cardinality(Users(Committed, e)') \in 0 .. Cardinality(Net)
      <4>1. Users(Committed, e)' \subseteq Net
        BY <3>1 DEF Users
      <4>2. /\ IsFiniteSet(Users(Committed, e)')
            /\ Cardinality(Users(Committed, e)') <= Cardinality(Net)
        BY <4>1, SizeAssumption, FS_Subset
      <4> QED BY <4>2, SizeAssumption, FS_CardinalityType
    <3>3. c1'[e] = 1 + Cardinality(Users(Committed, e)')
      BY DEF CostAccounting
    <3>4. Cardinality(Net) \in Nat
      BY SizeAssumption, FS_CardinalityType
    <3> QED BY <3>2, <3>3, <3>4 DEF Cost, MaxCost
  <2>2. c1' = [e \in Edge |-> c1'[e]]
    <3>1. CASE c1' = c1
      BY <1>0, <3>1 DEF TypeOK
    <3>2. ASSUME NEW t \in Team, CommitSlot(t) PROVE c1' = [e \in Edge |-> c1'[e]]
      BY <1>0, <3>2 DEF CommitSlot, TypeOK
    <3> QED BY <3>1, <3>2, CostsFixed
  <2> QED BY <2>1, <2>2
<1>3. /\ seen' \in [Team -> [Edge -> Cost \cup {Unread}]]
      /\ tree' \in [Net -> SUBSET Edge]
      /\ net_t' \in [Thread -> Net \cup {NoNet}]
      /\ passing' \in [Edge -> SUBSET Net]
      /\ published' \in SUBSET Net
  <2>1. ASSUME NEW t \in Team, NEW e \in Edge, ReadCost(t, e)
        PROVE  seen' \in [Team -> [Edge -> Cost \cup {Unread}]]
    <3>1. c1[e] \in Cost /\ seen[t] \in [Edge -> Cost \cup {Unread}]
      BY <1>0 DEF TypeOK
    <3>2. seen' = [seen EXCEPT ![t] = [seen[t] EXCEPT ![e] = c1[e]]]
      BY <1>0, <2>1 DEF ReadCost, TypeOK
    <3> QED BY <1>0, <3>1, <3>2 DEF TypeOK
  <2>2. ASSUME NEW t \in Team, FinishRoute(t)
        PROVE  /\ seen' \in [Team -> [Edge -> Cost \cup {Unread}]]
               /\ tree' \in [Net -> SUBSET Edge]
               /\ net_t' \in [Thread -> Net \cup {NoNet}]
    <3>1. pc[t] = "route" /\ t \in Thread
      BY <2>2, SizeAssumption DEF FinishRoute, Team, Thread
    <3>2. CurrentNet(t) \in Net
      BY <1>0, <3>1 DEF PhaseInv
    <3>3. seen[t] \in [Edge -> Cost]
      BY <1>0, <2>2 DEF TypeOK, FinishRoute
    <3>4. RouteOf[CurrentNet(t)][seen[t]] \in SUBSET Edge
      BY <3>2, <3>3, RouteAssumption
    <3>5. NoneSeen \in [Edge -> Cost \cup {Unread}]
      BY DEF NoneSeen
    <3> QED BY <1>0, <2>2, <3>1, <3>2, <3>4, <3>5 DEF TypeOK, FinishRoute
  <2>3. ASSUME NEW t \in Team, CommitSlot(t)
        PROVE  net_t' \in [Thread -> Net \cup {NoNet}] /\ UNCHANGED <<seen, tree>>
    BY <1>0, <2>3 DEF TypeOK, CommitSlot
  <2>4. ASSUME NEW n \in Net, AddTreeToEdge(n)
        PROVE  /\ passing' \in [Edge -> SUBSET Net] /\ published' \in SUBSET Net
               /\ UNCHANGED <<seen, tree, net_t>>
    BY <1>0, <2>4 DEF TypeOK, AddTreeToEdge
  <2>5. ASSUME NEW t \in Team,
               \/ TakeNet(t) \/ SkipRow(t) \/ LeaveBarrier(t) \/ EnterSingle(t)
               \/ SkipSingle(t) \/ EndCommit(t) \/ LeaveSingle(t) \/ EndRegion(t)
        PROVE  UNCHANGED <<seen, tree, net_t>>
    BY <2>5 DEF TakeNet, SkipRow, LeaveBarrier, EnterSingle, SkipSingle, EndCommit, LeaveSingle,
                EndRegion
  <2>6. ASSUME NEW t \in Team, ThreadStep(t) PROVE UNCHANGED <<passing, published>>
    BY <2>6 DEF ThreadStep, TakeNet, SkipRow, ReadCost, FinishRoute, LeaveBarrier, EnterSingle,
                SkipSingle, CommitSlot, EndCommit, LeaveSingle, EndRegion
  <2>7. ASSUME NEW t \in Team, NEW e \in Edge, ReadCost(t, e) PROVE UNCHANGED <<tree, net_t>>
    BY <2>7 DEF ReadCost
  <2>8. ASSUME UNCHANGED vars PROVE UNCHANGED <<seen, tree, net_t, passing, published>>
    BY <2>8 DEF vars
  <2>9. CASE \E t \in Team : ThreadStep(t)
    BY <1>0, <2>1, <2>2, <2>3, <2>5, <2>6, <2>7, <2>9 DEF TypeOK, ThreadStep
  <2>10. CASE MasterStep
    BY <1>0, <2>4, <2>10 DEF TypeOK, MasterStep
  <2>11. CASE UNCHANGED vars
    BY <1>0, <2>8, <2>11 DEF TypeOK
  <2> QED BY <2>9, <2>10, <2>11 DEF Next, Finished
<1> QED
  BY <1>1, <1>2, <1>3 DEF TypeOK

-----------------------------------------------------------------------------
(* The inductive invariant, and what follows from it.                      *)

\* Before the parallel region everything is consistent: all costs are 1, no
\* tree, no flag.
LEMMA InvInit == Init => IInv
<1> SUFFICES ASSUME Init PROVE IInv
  OBVIOUS
<1> USE SizeAssumption
<1>1. ControlInv
  BY ControlInit
<1>2. ~Committing /\ RowsDone = 0 /\ slot = 0 /\ singleCount = 0
  BY DEF Init, Committing, RowsDone
<1>3. Committed = {}
  BY <1>2 DEF Committed, Row, Team
<1>4. CostAccounting
  <2>1. \A e \in Edge : Users(Committed, e) = {}
    BY <1>3 DEF Users
  <2>2. Cardinality({}) = 0
    BY FS_EmptySet
  <2>3. \A e \in Edge : c1[e] = 1
    BY DEF Init
  <2>4. \A e \in Edge : 1 + Cardinality(Users(Committed, e)) = 1
    BY <2>1, <2>2
  <2> QED BY <2>3, <2>4 DEF CostAccounting
<1>5. TypeOK
  <2>1. Cardinality(Net) \in Nat
    BY FS_CardinalityType
  <2>2. 1 \in Cost
    BY <2>1 DEF Cost, MaxCost
  <2> QED BY <1>1, <2>2 DEF TypeOK, ControlInv, Init, NoneSeen
<1>6. NetInv
  BY <1>2 DEF Init, NetInv, Pending
<1>7. SearchInv /\ SnapshotStable
  BY DEF Init, SearchInv, SnapshotStable
<1>8. RoutedInv /\ PublishInv
  BY DEF Init, RoutedInv, PublishInv, Users
<1> QED
  BY <1>1, <1>4, <1>5, <1>6, <1>7, <1>8 DEF IInv

\* Every step of the router keeps the inductive invariant.
LEMMA InvNext == IInv /\ [Next]_vars => IInv'
<1> SUFFICES ASSUME IInv, [Next]_vars PROVE IInv'
  OBVIOUS
<1>1. ControlInv'
  BY ControlNext DEF IInv
<1>2. CostAccounting'
  BY CostNext
<1>3. TypeOK'
  BY <1>1, <1>2, TypeNext
<1> QED
  BY <1>1, <1>2, <1>3, NetNext, SearchNext, RoutedNext, PublishNext DEF IInv

\* The inductive invariant holds throughout groupRouter::route, whatever the
\* schedule.
THEOREM Invariant == Spec => []IInv
BY InvInit, InvNext, PTL DEF Spec

\* Types hold for every instance: no cost exceeds one plus the number of nets,
\* and the single block never indexes net_t out of bounds.
THEOREM TypeCorrect == Spec => []TypeOK
<1>1. IInv => TypeOK
  BY DEF IInv
<1> QED BY <1>1, Invariant, PTL

\* The unlocked updates of _c1 count every committed tree exactly once, for
\* every number of threads and every schedule.
THEOREM CostsAccounted == Spec => []CostAccounting
<1>1. IInv => CostAccounting
  BY DEF IInv
<1> QED BY <1>1, Invariant, PTL

\* No search sees a cost change under it: the barriers replace a lock on _c1.
THEOREM SearchesSeeSnapshots == Spec => []SnapshotStable
<1>1. IInv => SnapshotStable
  BY DEF IInv
<1> QED BY <1>1, Invariant, PTL

\* The single block is run by one thread, beside no search and no other row.
THEOREM CommitsExclusive == Spec => []CommitExclusive
<1>1. ASSUME IInv PROVE CommitExclusive
  <2>1. SUFFICES ASSUME NEW t \in Team, NEW u \in Team, pc[t] = "commit", u # t
                 PROVE  iter[u] = iter[t] /\ pc[u] \in {"barrier", "single", "join"}
    BY DEF CommitExclusive
  <2>2. ControlInv /\ BarrierInv
    BY <1>1 DEF IInv, ControlInv
  <2>3. \A v \in Team : iter[v] = singleCount - 1 /\ pc[v] \in {"barrier", "single", "commit", "join"}
    BY <2>1, <2>2, CommitRow
  <2> QED BY <2>1, <2>2, <2>3 DEF BarrierInv
<1> QED BY <1>1, Invariant, PTL

\* When route() returns the costs and the passing flags tell the same load.
THEOREM CostsMatchFlags == Spec => []CostMatchesPassing
<1>1. ASSUME IInv PROVE CostMatchesPassing
  <2>1. SUFFICES ASSUME RouteDone, NEW e \in Edge
                 PROVE  c1[e] = 1 + Cardinality(passing[e])
    BY DEF CostMatchesPassing
  <2>2. /\ CostAccounting /\ RoutedInv /\ PublishInv /\ PhaseInv
        /\ singleCount \in 0 .. Rows /\ iter \in [Team -> 0 .. Rows]
    BY <1>1 DEF IInv, ControlInv
  <2>3. \A t \in Team : pc[t] = "end"
    BY <2>1 DEF RouteDone, RegionOver
  <2>4. RowsDone = singleCount
    BY <2>3 DEF RowsDone, Committing
  <2>5. Users(Net, e) = Users(Committed, e)
    <3>1. ASSUME NEW n \in Net, e \in tree[n] PROVE n \in Committed
      <4>1. PICK t \in Team, r \in Row :
              Lanes[t][r] = n /\ (r < singleCount \/ pc[t] \in {"barrier", "single"})
        BY <2>2, <3>1 DEF RoutedInv
      <4>2. r < RowsDone
        BY <2>3, <2>4, <4>1
      <4> QED BY <4>1, <4>2 DEF Committed
    <3>2. Committed \subseteq Net
      BY DEF Committed
    <3> QED BY <3>1, <3>2 DEF Users
  <2>6. passing[e] = Users(Net, e)
    BY <2>1, <2>2 DEF PublishInv, RouteDone
  <2> QED BY <2>2, <2>5, <2>6 DEF CostAccounting
<1> QED BY <1>1, Invariant, PTL

\* A topology is never replaced once it is set, and no cost ever goes down.
THEOREM RoutesOnlyOnce == Spec => RoutedOnce
<1>1. ASSUME IInv, [Next]_vars
      PROVE  /\ \A n \in Net : tree[n] # {} => tree'[n] = tree[n]
             /\ \A e \in Edge : c1'[e] >= c1[e]
  <2>0. /\ tree \in [Net -> SUBSET Edge] /\ c1 \in [Edge -> Cost]
        /\ iter \in [Team -> 0 .. Rows] /\ singleCount \in 0 .. Rows
        /\ RoutedInv /\ PhaseInv
    BY <1>1 DEF IInv, TypeOK, ControlInv
  <2>1. \A e \in Edge : c1[e] \in Int
    <3>1. Cardinality(Net) \in Nat
      BY SizeAssumption, FS_CardinalityType
    <3> QED BY <2>0, <3>1 DEF Cost, MaxCost
  <2>2. CASE c1' = c1 /\ tree' = tree
    BY <2>1, <2>2
  <2>3. ASSUME NEW t \in Team, FinishRoute(t), c1' = c1
        PROVE  \A n \in Net : tree[n] # {} => tree'[n] = tree[n]
    <3>1. pc[t] = "route" /\ \A n \in Net : n # CurrentNet(t) => tree'[n] = tree[n]
      BY <2>0, <2>3 DEF FinishRoute
    <3>2. iter[t] = singleCount /\ iter[t] \in Row /\ CurrentNet(t) \in Net
      BY <2>0, <3>1, SizeAssumption DEF PhaseInv, Row
    <3>3. tree[CurrentNet(t)] = {}
      <4>1. SUFFICES ASSUME tree[CurrentNet(t)] # {} PROVE FALSE
        OBVIOUS
      <4>2. PICK u \in Team, r \in Row :
              /\ Lanes[u][r] = CurrentNet(t)
              /\ r < singleCount \/ pc[u] \in {"barrier", "single"}
        BY <2>0, <3>2, <4>1 DEF RoutedInv
      <4>3. u = t /\ r = iter[t]
        BY <3>2, <4>2, OnePlace DEF CurrentNet
      <4> QED BY <2>0, <3>1, <3>2, <4>2, <4>3
    <3> QED BY <3>1, <3>3
  <2>4. ASSUME NEW t \in Team, CommitSlot(t)
        PROVE  tree' = tree /\ \A e \in Edge : c1'[e] >= c1[e]
    BY <2>0, <2>1, <2>4 DEF CommitSlot
  <2> QED BY <1>1, <2>1, <2>2, <2>3, <2>4, CostsFixed
<1>2. IInv /\ [Next]_vars =>
        [ /\ \A n \in Net : tree[n] # {} => tree'[n] = tree[n]
          /\ \A e \in Edge : c1'[e] >= c1[e] ]_vars
  BY <1>1
<1> QED BY <1>2, Invariant, PTL DEF Spec, RoutedOnce

-----------------------------------------------------------------------------
(* Refinement: the parallel router implements the safety part of           *)
(* BatchRouter.  However the threads interleave, the trees of the finished *)
(* rows are those of a sequential router that routes one row after the     *)
(* other, every net of a row against the loads the rows before it left.    *)

\* The rows before the one at hand.
InFinishedRow(n) == \E r \in Row : r < RowsDone /\ n \in BatchOf[r]

\* A net of the row at hand whose search is over has the tree found at the loads
\* of the finished rows, although other nets of the row may be routed or even in
\* the costs already.
BatchInv ==
  \A k \in Team :
    /\ iter[k] = RowsDone
    /\ pc[k] \notin {"fetch", "route", "end"}
    /\ CurrentNet(k) \in Net
    => tree[CurrentNet(k)] = RouteOf[CurrentNet(k)][Batches!Load(FinishedTree)]

-----------------------------------------------------------------------------
(* Steps that finish no row.                                               *)

\* A row is finished by the end of its single block only.
LEMMA RowsDoneStep ==
  ASSUME IInv, [Next]_vars
  PROVE  RowsDone' = RowsDone \/ \E t \in Team : EndCommit(t)
<1>0. /\ pc \in [Team -> Label] /\ iter \in [Team -> 0 .. Rows]
      /\ singleCount \in 0 .. Rows /\ ControlInv /\ Rows \in Nat
  BY SizeAssumption DEF IInv, ControlInv
<1>1. ASSUME NEW t \in Team, EnterSingle(t) PROVE RowsDone' = RowsDone
  <2>1. /\ pc' = [pc EXCEPT ![t] = "commit"] /\ iter[t] = singleCount
        /\ singleCount' = singleCount + 1
    BY <1>1 DEF EnterSingle, Goto
  <2>2. Committing'
    BY <1>0, <2>1 DEF Committing
  <2>3. ~Committing
    <3>1. ASSUME NEW u \in Team, pc[u] = "commit" PROVE FALSE
      BY <1>0, <2>1, <3>1, CommitRow
    <3> QED BY <3>1 DEF Committing
  <2> QED BY <1>0, <2>1, <2>2, <2>3 DEF RowsDone
<1>2. ASSUME NEW t \in Team,
             \/ TakeNet(t) \/ SkipRow(t) \/ FinishRoute(t) \/ LeaveBarrier(t)
             \/ SkipSingle(t) \/ LeaveSingle(t) \/ EndRegion(t)
      PROVE  RowsDone' = RowsDone
  <2>1. PICK l \in Label : pc' = [pc EXCEPT ![t] = l] /\ l # "commit"
    BY <1>2 DEF TakeNet, SkipRow, FinishRoute, LeaveBarrier, SkipSingle, LeaveSingle, EndRegion, Goto, Label
  <2>2. pc[t] # "commit" /\ singleCount' = singleCount
    BY <1>2 DEF TakeNet, SkipRow, FinishRoute, LeaveBarrier, SkipSingle, LeaveSingle, EndRegion
  <2>3. Committing' = Committing
    BY <1>0, <2>1, <2>2, CommittingStep
  <2> QED BY <2>2, <2>3 DEF RowsDone
<1>3. ASSUME \/ \E t \in Team : \E e \in Edge : ReadCost(t, e)
             \/ \E t \in Team : CommitSlot(t)
             \/ MasterStep \/ Finished \/ UNCHANGED vars
      PROVE  RowsDone' = RowsDone
  <2>1. UNCHANGED <<pc, singleCount>>
    BY <1>3 DEF ReadCost, CommitSlot, MasterStep, AddTreeToEdge, Finished, vars
  <2> QED BY <2>1 DEF RowsDone, Committing
<1> QED
  BY <1>1, <1>2, <1>3 DEF Next, ThreadStep

\* The net a search is for is in no finished row, and no row is being committed.
LEMMA SearchInOpenRow ==
  ASSUME IInv, NEW t \in Team, pc[t] = "route"
  PROVE  /\ CurrentNet(t) \in Net /\ ~InFinishedRow(CurrentNet(t))
         /\ ~Committing /\ RowsDone = singleCount /\ slot = 0 /\ iter[t] = singleCount
<1>0. ControlInv /\ PhaseInv /\ SlotInv
  BY DEF IInv, ControlInv
<1>1. /\ CurrentNet(t) \in Net /\ iter[t] = singleCount /\ iter[t] \in Row
      /\ singleCount \in Nat
  BY <1>0, SizeAssumption DEF ControlInv, PhaseInv, Row
<1>2. ~Committing
  BY <1>0, <1>1, CommitRow DEF Committing
<1>3. RowsDone = singleCount /\ slot = 0
  BY <1>0, <1>2 DEF RowsDone, SlotInv
<1>4. ASSUME NEW r \in Row, CurrentNet(t) \in BatchOf[r], r < RowsDone
      PROVE  FALSE
  <2>1. PICK u \in Team : Lanes[u][r] = CurrentNet(t)
    BY <1>4 DEF BatchOf
  <2>2. r = iter[t]
    BY <1>1, <2>1, OnePlace DEF CurrentNet
  <2> QED BY <1>1, <1>3, <1>4, <2>2
<1> QED
  BY <1>1, <1>2, <1>3, <1>4 DEF InFinishedRow

\* Until a row is finished, nothing is seen of it.
LEMMA FinishedTreeStep ==
  ASSUME IInv, [Next]_vars, RowsDone' = RowsDone
  PROVE  FinishedTree' = FinishedTree
<1>1. CASE tree' = tree
  BY <1>1 DEF FinishedTree, BatchOf
<1>2. ASSUME NEW t \in Team, FinishRoute(t) PROVE FinishedTree' = FinishedTree
  <2>1. ~InFinishedRow(CurrentNet(t))
    BY <1>2, SearchInOpenRow DEF FinishRoute
  <2>2. \A n \in Net : n # CurrentNet(t) => tree'[n] = tree[n]
    BY <1>2 DEF FinishRoute, IInv, TypeOK
  <2>3. \A n \in Net : InFinishedRow(n) => tree'[n] = tree[n]
    BY <2>1, <2>2
  <2>4. FinishedTree = [n \in Net |-> IF InFinishedRow(n) THEN tree[n] ELSE {}]
    BY DEF FinishedTree, InFinishedRow
  <2>5. FinishedTree' = [n \in Net |-> IF InFinishedRow(n) THEN tree'[n] ELSE {}]
    BY DEF FinishedTree, InFinishedRow, BatchOf
  <2> QED BY <2>3, <2>4, <2>5
<1>3. ASSUME NEW t \in Team, CommitSlot(t) PROVE tree' = tree
  BY <1>3 DEF CommitSlot
<1> QED
  BY <1>1, <1>2, <1>3, CostsFixed

\* While no row is being committed the costs are the loads of the finished rows.
LEMMA CostsAreLoads ==
  ASSUME IInv, slot = 0
  PROVE  c1 = Batches!Load(FinishedTree)
<1>1. c1 \in [Edge -> Cost] /\ CostAccounting
  BY DEF IInv, TypeOK
<1>2. ASSUME NEW e \in Edge
      PROVE  c1[e] = 1 + Cardinality({n \in Net : e \in FinishedTree[n]})
  <2>1. {n \in Net : e \in FinishedTree[n]} = Users(Committed, e)
    <3>1. \A n \in Net : n \in Committed <=> InFinishedRow(n)
      <4>1. \A t \in Team : ~(t < slot)
        BY SizeAssumption DEF Team
      <4> QED BY <4>1 DEF Committed, InFinishedRow, BatchOf
    <3>2. \A n \in Net : FinishedTree[n] = IF InFinishedRow(n) THEN tree[n] ELSE {}
      BY DEF FinishedTree, InFinishedRow
    <3>3. Committed \subseteq Net
      BY DEF Committed
    <3> QED BY <3>1, <3>2, <3>3 DEF Users
  <2> QED BY <1>1, <2>1 DEF CostAccounting
<1> QED
  <2>1. \A S : Batches!Cardinality(S) = Cardinality(S)
    BY DEF Batches!Cardinality, Cardinality
  <2> QED BY <1>1, <1>2, <2>1 DEF Batches!Load

-----------------------------------------------------------------------------
(* The row at hand.                                                        *)

\* No row is at hand that was routed already: BatchInv holds at the start.
LEMMA BatchInit == Init => BatchInv
BY DEF Init, BatchInv

\* A step that changes no tree, finishes no row and brings no net past its search
\* keeps BatchInv.
LEMMA BatchKept ==
  ASSUME BatchInv, UNCHANGED <<tree, RowsDone, FinishedTree>>,
         \A k \in Team :
           iter'[k] = RowsDone /\ pc'[k] \notin {"fetch", "route", "end"} /\ CurrentNet(k)' \in Net
           => iter[k] = iter'[k] /\ pc[k] \notin {"fetch", "route", "end"}
  PROVE  BatchInv'
<1> SUFFICES ASSUME NEW k \in Team, iter'[k] = RowsDone, CurrentNet(k)' \in Net,
                    pc'[k] \notin {"fetch", "route", "end"}
             PROVE  tree[CurrentNet(k)'] = RouteOf[CurrentNet(k)'][Batches!Load(FinishedTree)]
  BY DEF BatchInv, Batches!Load
<1> QED
  BY DEF BatchInv, CurrentNet

\* No interleaving gives a net of the row another tree than the loads of the
\* finished rows do.
LEMMA BatchNext == IInv /\ BatchInv /\ [Next]_vars => BatchInv'
<1> SUFFICES ASSUME IInv, BatchInv, [Next]_vars PROVE BatchInv'
  OBVIOUS
<1> USE SizeAssumption
<1>0. /\ pc \in [Team -> Label] /\ iter \in [Team -> 0 .. Rows]
      /\ singleCount \in 0 .. Rows /\ tree \in [Net -> SUBSET Edge]
      /\ ControlInv /\ PhaseInv /\ BarrierInv /\ SlotInv
  BY DEF IInv, ControlInv, TypeOK
<1>1. ASSUME NEW t \in Team, EndCommit(t) PROVE BatchInv'
  <2>1. /\ pc' = [pc EXCEPT ![t] = "join"] /\ pc[t] = "commit"
        /\ UNCHANGED <<iter, singleCount>>
    BY <1>1 DEF EndCommit, Goto
  <2>2. ~Committing'
    BY <1>0, <2>1 DEF Committing, BarrierInv
  <2>3. \A k \in Team : iter'[k] = singleCount - 1
    BY <1>0, <2>1, CommitRow
  <2>4. RowsDone' = singleCount
    BY <2>1, <2>2 DEF RowsDone
  <2> QED BY <1>0, <2>3, <2>4 DEF BatchInv
<1>2. ASSUME RowsDone' = RowsDone, NEW t \in Team, FinishRoute(t) PROVE BatchInv'
  <2>1. /\ pc' = [pc EXCEPT ![t] = "barrier"] /\ pc[t] = "route" /\ iter' = iter
        /\ tree' = [tree EXCEPT ![CurrentNet(t)] = RouteOf[CurrentNet(t)][seen[t]]]
        /\ \A e \in Edge : seen[t][e] # Unread
    BY <1>2 DEF FinishRoute, Goto
  <2>2. CurrentNet(t) \in Net /\ slot = 0
    BY <2>1, SearchInOpenRow
  <2>3. seen[t] = c1
    BY <2>1 DEF IInv, TypeOK, SnapshotStable
  <2>4. c1 = Batches!Load(FinishedTree)
    BY <2>2, CostsAreLoads
  <2>5. FinishedTree' = FinishedTree
    BY <1>2, FinishedTreeStep
  <2> SUFFICES ASSUME NEW k \in Team, iter[k] = RowsDone, CurrentNet(k) \in Net,
                      pc'[k] \notin {"fetch", "route", "end"}
               PROVE  tree'[CurrentNet(k)] = RouteOf[CurrentNet(k)][Batches!Load(FinishedTree)]
    BY <1>2, <2>1, <2>5 DEF BatchInv, CurrentNet, Batches!Load
  <2>6. CASE k = t
    BY <1>0, <2>1, <2>2, <2>3, <2>4, <2>6
  <2>7. CASE k # t
    <3>1. pc[k] \notin {"fetch", "route", "end"}
      BY <1>0, <2>1, <2>7
    <3>2. iter[k] \in Row /\ iter[t] \in Row
      BY <1>0, <2>1, <3>1 DEF PhaseInv, Row
    <3>3. CurrentNet(k) # CurrentNet(t)
      BY <2>2, <2>7, <3>2, OnePlace DEF CurrentNet
    <3> QED BY <1>0, <2>1, <3>1, <3>3 DEF BatchInv
  <2> QED BY <2>6, <2>7
<1>3. ASSUME RowsDone' = RowsDone, NEW t \in Team,
             \/ TakeNet(t) \/ SkipRow(t) \/ LeaveBarrier(t) \/ EnterSingle(t)
             \/ SkipSingle(t) \/ LeaveSingle(t) \/ EndRegion(t)
      PROVE  BatchInv'
  <2>1. tree' = tree /\ FinishedTree' = FinishedTree
    BY <1>3, FinishedTreeStep DEF TakeNet, SkipRow, LeaveBarrier, EnterSingle, SkipSingle, LeaveSingle, EndRegion
  <2>2. CASE LeaveSingle(t)
    <3>1. \A k \in Team : k # t => pc'[k] = pc[k] /\ iter'[k] = iter[k]
      BY <1>0, <2>2 DEF LeaveSingle, Goto
    <3>2. pc'[t] = "fetch"
      BY <1>0, <2>2 DEF LeaveSingle, Goto
    <3> QED BY <1>3, <2>1, <3>1, <3>2, BatchKept
  <2>3. CASE SkipRow(t)
    <3>1. /\ \A k \in Team : k # t => pc'[k] = pc[k]
          /\ iter' = iter /\ Lanes[t][iter[t]] \notin Net
      BY <1>0, <2>3 DEF SkipRow, Goto, CurrentNet
    <3> QED BY <1>3, <2>1, <3>1, BatchKept DEF CurrentNet
  <2>4. CASE TakeNet(t) \/ LeaveBarrier(t) \/ EnterSingle(t) \/ SkipSingle(t) \/ EndRegion(t)
    <3>1. iter' = iter
      BY <2>4 DEF TakeNet, LeaveBarrier, EnterSingle, SkipSingle, EndRegion
    <3>2. /\ \A k \in Team : k # t => pc'[k] = pc[k]
          /\ pc'[t] \in {"route", "end"} \/ pc[t] \notin {"fetch", "route", "end"}
      BY <1>0, <2>4 DEF TakeNet, LeaveBarrier, EnterSingle, SkipSingle, EndRegion, Goto
    <3> QED BY <1>3, <2>1, <3>1, <3>2, BatchKept
  <2> QED BY <1>3, <2>2, <2>3, <2>4
<1>4. ASSUME RowsDone' = RowsDone,
             \/ \E t \in Team : \E e \in Edge : ReadCost(t, e)
             \/ \E t \in Team : CommitSlot(t)
             \/ MasterStep \/ Finished \/ UNCHANGED vars
      PROVE  BatchInv'
  <2>1. UNCHANGED <<pc, iter, tree>>
    BY <1>4 DEF ReadCost, CommitSlot, MasterStep, AddTreeToEdge, Finished, vars
  <2>2. FinishedTree' = FinishedTree
    BY <1>4, FinishedTreeStep
  <2> QED BY <1>4, <2>1, <2>2, BatchKept
<1> QED
  BY <1>1, <1>2, <1>3, <1>4, RowsDoneStep DEF Next, ThreadStep

-----------------------------------------------------------------------------
(* The refinement.                                                         *)

\* Before the region no row is finished and no tree visible.
LEMMA RefinesInit == Init => Batches!Init
<1> SUFFICES ASSUME Init PROVE Batches!Init
  OBVIOUS
<1>1. RowsDone = 0
  BY DEF Init, RowsDone, Committing
<1>2. FinishedTree = [n \in Net |-> {}]
  BY DEF Init, FinishedTree
<1> QED
  BY <1>1, <1>2 DEF Batches!Init

\* The end of a single block routes a whole batch of the abstract router; no other
\* step of a thread or of the master shows.
LEMMA RefinesNext == IInv /\ BatchInv /\ [Next]_vars => [Batches!Next]_(Batches!batchVars)
<1> SUFFICES ASSUME IInv, BatchInv, [Next]_vars
             PROVE  Batches!RouteBatch \/ UNCHANGED <<RowsDone, FinishedTree>>
  BY DEF Batches!Next, Batches!batchVars
<1>1. CASE RowsDone' = RowsDone
  BY <1>1, FinishedTreeStep
<1>2. ASSUME NEW t \in Team, EndCommit(t) PROVE Batches!RouteBatch
  <2>0. /\ pc \in [Team -> Label] /\ singleCount \in 0 .. Rows /\ Rows \in Nat
        /\ ControlInv /\ PhaseInv /\ BarrierInv
    BY SizeAssumption DEF IInv, ControlInv
  <2>1. /\ pc' = [pc EXCEPT ![t] = "join"] /\ pc[t] = "commit"
        /\ singleCount' = singleCount /\ tree' = tree
    BY <1>2 DEF EndCommit, Goto
  <2>2. \A u \in Team : iter[u] = singleCount - 1 /\ pc[u] \in {"barrier", "single", "commit", "join"}
    BY <2>0, <2>1, CommitRow
  <2>3. Committing /\ ~Committing'
    BY <2>0, <2>1 DEF Committing, BarrierInv
  <2>4. RowsDone = singleCount - 1 /\ RowsDone' = RowsDone + 1
    BY <2>0, <2>1, <2>3 DEF RowsDone
  <2>5. RowsDone \in Row
    BY <2>0, <2>1, <2>2, <2>4 DEF PhaseInv, Row, IInv, TypeOK
  <2>6. ASSUME NEW n \in Net
        PROVE  FinishedTree'[n] = IF n \in BatchOf[RowsDone]
                                    THEN RouteOf[n][Batches!Load(FinishedTree)]
                                    ELSE FinishedTree[n]
    <3>1. FinishedTree'[n] = IF InFinishedRow(n) \/ n \in BatchOf[RowsDone] THEN tree[n] ELSE {}
      <4>1. FinishedTree'[n] = IF \E r \in Row : r < RowsDone + 1 /\ n \in BatchOf[r]
                                 THEN tree[n] ELSE {}
        BY <2>1, <2>4 DEF FinishedTree, BatchOf
      <4>2. \A r \in Row : r < RowsDone + 1 <=> r < RowsDone \/ r = RowsDone
        BY <2>5 DEF Row
      <4> QED BY <2>5, <4>1, <4>2 DEF InFinishedRow
    <3>2. FinishedTree[n] = IF InFinishedRow(n) THEN tree[n] ELSE {}
      BY DEF FinishedTree, InFinishedRow
    <3>3. ASSUME n \in BatchOf[RowsDone]
          PROVE  tree[n] = RouteOf[n][Batches!Load(FinishedTree)]
      <4>1. PICK k \in Team : Lanes[k][RowsDone] = n
        BY <2>5, <3>3 DEF BatchOf
      <4>2. iter[k] = RowsDone /\ pc[k] \notin {"fetch", "route", "end"} /\ CurrentNet(k) = n
        BY <2>2, <2>4, <4>1 DEF CurrentNet
      <4> QED BY <4>2 DEF BatchInv
    <3> QED BY <3>1, <3>2, <3>3
  <2>7. FinishedTree' = [n \in Net |-> FinishedTree'[n]]
    BY DEF FinishedTree
  <2>8. RowsDone < Rows
    BY <2>5, SizeAssumption DEF Row
  <2> QED
    BY <2>4, <2>6, <2>7, <2>8 DEF Batches!RouteBatch
<1> QED
  BY <1>1, <1>2, RowsDoneStep

\* Every interleaving of the threads yields, row by row, the trees of the
\* sequential batch router: the safety part of RoutesInBatches for any number of
\* threads asked for and delivered, rows, nets and any A* result.
THEOREM ImplementsBatchRouter == Spec => Batches!Safety
<1>1. Spec => []BatchInv
  <2>1. BatchInv /\ IInv /\ [Next]_vars => BatchInv'
    BY BatchNext
  <2> QED BY <2>1, BatchInit, Invariant, PTL DEF Spec
<1> QED
  BY <1>1, Invariant, RefinesInit, RefinesNext, PTL DEF Spec, Batches!Safety
=============================================================================
