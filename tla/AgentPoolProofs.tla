--------------------------- MODULE AgentPoolProofs ---------------------------
(***************************************************************************)
(* Theorems about the pool controller's record of the agents, for any sets *)
(* of agents and souls.                                                    *)
(*                                                                         *)
(* NothingIsLeftBehind is not inductive: when the handler writes a row, or *)
(* the reaper deletes a sequence number, what tracked the agent goes away, *)
(* and the entry in the registry has to be there.  HeldInv says so of the  *)
(* agent in the handler, MarkedInv of the one the reaper has marked.       *)
(***************************************************************************)
EXTENDS AgentPool, TLAPS

\* The entry of the agent in the handler is in the registry, and fresh.
HeldInv ==
  \A a \in Agents : Holds(a) => (a \in known /\ fresh[a]) \/ excused[a]

\* An agent the reaper marked reads live again only if it was heard of again.
MarkedInv ==
  \A a \in Agents :
    marked = a /\ Live(a) => a \in known \/ Holds(a) \/ excused[a]

TraceInv == HeldInv /\ MarkedInv /\ NothingIsLeftBehind

\* Every step keeps the variables in their types.
LEMMA TypeStep ==
  TypeOK /\ [Next]_vars => TypeOK'
<1> SUFFICES ASSUME TypeOK, [Next]_vars
             PROVE  TypeOK'
  OBVIOUS
<1>1. ASSUME NEW b \in Beats, Beat(b) PROVE TypeOK'
  BY <1>1 DEF Beat, TypeOK, RowStates, Steps, NoHand, Beats, registry, reaper
<1>2. CASE Hear
  <2> DEFINE b == Head(inbox)
  <2>1. inbox \in Seq(Beats) /\ inbox # <<>>
    BY <1>2 DEF Hear, TypeOK
  <2>2. b \in Beats /\ Tail(inbox) \in Seq(Beats)
    BY <2>1
  <2>3. b.agent \in Agents /\ b.soul \in Souls
    BY <2>2 DEF Beats
  <2>4. hand' \in [step : Steps, beat : Beats]
    BY <1>2, <2>2 DEF Hear, Steps
  <2>5. bySoul' \in [Souls -> SUBSET Agents]
    BY <1>2, <2>3 DEF Hear, Reindexed, TypeOK
  <2>6. /\ known' \in SUBSET Agents
        /\ soulOf' \in [Agents -> Souls \cup {"none"}]
        /\ fresh' \in [Agents -> BOOLEAN]
        /\ excused' \in [Agents -> BOOLEAN]
    BY <1>2, <2>3 DEF Hear, TypeOK
  <2> QED
    BY <1>2, <2>2, <2>4, <2>5, <2>6 DEF Hear, TypeOK, reaper
<1>3. CASE Number
  BY <1>3 DEF Number, TypeOK, RowStates, Steps, NoHand, Beats, registry,
     reaper
<1>4. CASE WriteRow
  BY <1>4 DEF WriteRow, TypeOK, RowStates, Steps, NoHand, Beats, registry,
     reaper
<1>5. CASE FailRow
  BY <1>5 DEF FailRow, Fault, TypeOK, RowStates, Steps, NoHand, Beats,
     registry, reaper
<1>6. CASE Remove
  BY <1>6 DEF Remove, TypeOK, RowStates, Steps, NoHand, Beats, registry,
     reaper
<1>7. CASE Forget
  BY <1>7 DEF Forget, TypeOK, RowStates, Steps, NoHand, Beats, registry,
     reaper
<1>8. ASSUME NEW a \in Agents, Mark(a) PROVE TypeOK'
  BY <1>8 DEF Mark, TypeOK, RowStates, Steps, NoHand, Beats, registry, reaper
<1>9. ASSUME NEW a \in Agents, Age(a) PROVE TypeOK'
  BY <1>9 DEF Age, TypeOK, RowStates, Steps, NoHand, Beats, registry, reaper
<1>10. ASSUME NEW a \in Agents, FailMark(a) PROVE TypeOK'
  BY <1>10 DEF FailMark, Fault, TypeOK, RowStates, Steps, NoHand, Beats,
     registry, reaper
<1>11. CASE Restart
  BY <1>11 DEF Restart, Fault, TypeOK, RowStates, Steps, NoHand, Beats,
     registry, reaper
<1>12. CASE UNCHANGED vars
  BY <1>12 DEF vars, TypeOK, RowStates, Steps, NoHand, Beats, registry, reaper
<1> QED
  BY <1>1, <1>2, <1>3, <1>4, <1>5, <1>6, <1>7, <1>8, <1>9, <1>10, <1>11,
     <1>12
     DEF Next, Handler, Reaper

\* Every step keeps the index in agreement with the entries.
LEMMA IndexStep ==
  TypeOK /\ IndexAgrees /\ [Next]_vars => IndexAgrees'
<1> SUFFICES ASSUME TypeOK, IndexAgrees, [Next]_vars
             PROVE  IndexAgrees'
  OBVIOUS
<1>1. ASSUME NEW b \in Beats, Beat(b) PROVE IndexAgrees'
  BY <1>1 DEF Beat, TypeOK, IndexAgrees, registry, reaper
<1>2. CASE Hear
  <2> DEFINE b == Head(inbox)
  <2>1. inbox \in Seq(Beats) /\ inbox # <<>>
    BY <1>2 DEF Hear, TypeOK
  <2>2. b \in Beats /\ Tail(inbox) \in Seq(Beats)
    BY <2>1
  <2>3. b.agent \in Agents /\ b.soul \in Souls
    BY <2>2 DEF Beats
  <2>4. /\ bySoul' = Reindexed(b.agent, b.soul)
        /\ known' = known \cup {b.agent}
        /\ soulOf' = [soulOf EXCEPT ![b.agent] = b.soul]
    BY <1>2 DEF Hear
  <2> HIDE DEF b
  <2>5. ASSUME NEW s \in Souls, NEW a \in Agents
        PROVE  a \in bySoul'[s] <=> a \in known' /\ soulOf'[a] = s
    BY <2>3, <2>4 DEF Reindexed, TypeOK, IndexAgrees
  <2>6. ASSUME NEW s \in Souls PROVE bySoul'[s] \subseteq Agents
    BY <2>3, <2>4 DEF Reindexed, TypeOK
  <2>7. known' \subseteq Agents
    BY <2>3, <2>4 DEF TypeOK
  <2> QED
    BY <2>5, <2>6, <2>7 DEF IndexAgrees
<1>3. CASE Number
  BY <1>3 DEF Number, TypeOK, IndexAgrees, registry, reaper
<1>4. CASE WriteRow
  BY <1>4 DEF WriteRow, TypeOK, IndexAgrees, registry, reaper
<1>5. CASE FailRow
  BY <1>5 DEF FailRow, Fault, TypeOK, IndexAgrees, registry, reaper
<1>6. CASE Remove
  BY <1>6 DEF Remove, TypeOK, IndexAgrees, registry, reaper
<1>7. CASE Forget
  BY <1>7 DEF Forget, TypeOK, IndexAgrees, registry, reaper
<1>8. ASSUME NEW a \in Agents, Mark(a) PROVE IndexAgrees'
  BY <1>8 DEF Mark, TypeOK, IndexAgrees, registry, reaper
<1>9. ASSUME NEW a \in Agents, Age(a) PROVE IndexAgrees'
  BY <1>9 DEF Age, TypeOK, IndexAgrees, registry, reaper
<1>10. ASSUME NEW a \in Agents, FailMark(a) PROVE IndexAgrees'
  BY <1>10 DEF FailMark, Fault, TypeOK, IndexAgrees, registry, reaper
<1>11. CASE Restart
  BY <1>11 DEF Restart, Fault, TypeOK, IndexAgrees, registry, reaper
<1>12. CASE UNCHANGED vars
  BY <1>12 DEF vars, TypeOK, IndexAgrees, registry, reaper
<1> QED
  BY <1>1, <1>2, <1>3, <1>4, <1>5, <1>6, <1>7, <1>8, <1>9, <1>10, <1>11,
     <1>12
     DEF Next, Handler, Reaper

\* Every step keeps what is written about an agent tracked.
LEMMA TraceStep ==
  TypeOK /\ TraceInv /\ [Next]_vars => TraceInv'
<1> SUFFICES ASSUME TypeOK, TraceInv, [Next]_vars
             PROVE  TraceInv'
  OBVIOUS
<1>1. ASSUME NEW b \in Beats, Beat(b) PROVE TraceInv'
  BY <1>1 DEF Beat, TypeOK, TraceInv, HeldInv, MarkedInv, NothingIsLeftBehind,
     Holds, Live, NoHand, Steps, Beats, registry, reaper
<1>2. CASE Hear
  BY <1>2 DEF Hear, Reindexed, TypeOK, TraceInv, HeldInv, MarkedInv,
     NothingIsLeftBehind, Holds, Live, NoHand, Steps, Beats, registry, reaper
<1>3. CASE Number
  BY <1>3 DEF Number, TypeOK, TraceInv, HeldInv, MarkedInv,
     NothingIsLeftBehind, Holds, Live, NoHand, Steps, Beats, registry, reaper
<1>4. CASE WriteRow
  BY <1>4 DEF WriteRow, TypeOK, TraceInv, HeldInv, MarkedInv,
     NothingIsLeftBehind, Holds, Live, NoHand, Steps, Beats, registry, reaper
<1>5. CASE FailRow
  BY <1>5 DEF FailRow, Fault, TypeOK, TraceInv, HeldInv, MarkedInv,
     NothingIsLeftBehind, Holds, Live, NoHand, Steps, Beats, registry, reaper
<1>6. CASE Remove
  <2>1. doomed' = {a \in known : ~fresh[a]} /\ known' = known \ doomed'
    BY <1>6 DEF Remove
  <2>2. HeldInv'
    BY <1>6, <2>1, PoolAssumption DEF Remove, TypeOK, TraceInv, HeldInv,
       MarkedInv, NothingIsLeftBehind, Holds, Live, NoHand, Steps, Beats,
       registry, reaper
  <2>3. MarkedInv'
    BY <1>6, <2>1, PoolAssumption DEF Remove, TypeOK, TraceInv, HeldInv,
       MarkedInv, NothingIsLeftBehind, Holds, Live, NoHand, Steps, Beats,
       registry, reaper
  <2>4. NothingIsLeftBehind'
    BY <1>6, <2>1, PoolAssumption DEF Remove, TypeOK, TraceInv, HeldInv,
       MarkedInv, NothingIsLeftBehind, Holds, Live, NoHand, Steps, Beats,
       registry, reaper
  <2> QED
    BY <2>2, <2>3, <2>4 DEF TraceInv
<1>7. CASE Forget
  <2>2. HeldInv'
    BY <1>7, PoolAssumption DEF Forget, TypeOK, TraceInv, HeldInv, MarkedInv,
       NothingIsLeftBehind, Holds, Live, NoHand, Steps, Beats, registry,
       reaper
  <2>3. MarkedInv'
    BY <1>7, PoolAssumption DEF Forget, TypeOK, TraceInv, HeldInv, MarkedInv,
       NothingIsLeftBehind, Holds, Live, NoHand, Steps, Beats, registry,
       reaper
  <2>4. NothingIsLeftBehind'
    BY <1>7, PoolAssumption DEF Forget, TypeOK, TraceInv, HeldInv, MarkedInv,
       NothingIsLeftBehind, Holds, Live, NoHand, Steps, Beats, registry,
       reaper
  <2> QED
    BY <2>2, <2>3, <2>4 DEF TraceInv
<1>8. ASSUME NEW a \in Agents, Mark(a) PROVE TraceInv'
  <2>2. HeldInv'
    BY <1>8, PoolAssumption DEF Mark, TypeOK, TraceInv, HeldInv, MarkedInv,
       NothingIsLeftBehind, Holds, Live, NoHand, Steps, Beats, registry,
       reaper
  <2>3. MarkedInv'
    BY <1>8, PoolAssumption DEF Mark, TypeOK, TraceInv, HeldInv, MarkedInv,
       NothingIsLeftBehind, Holds, Live, NoHand, Steps, Beats, registry,
       reaper
  <2>4. NothingIsLeftBehind'
    BY <1>8, PoolAssumption DEF Mark, TypeOK, TraceInv, HeldInv, MarkedInv,
       NothingIsLeftBehind, Holds, Live, NoHand, Steps, Beats, registry,
       reaper
  <2> QED
    BY <2>2, <2>3, <2>4 DEF TraceInv
<1>9. ASSUME NEW a \in Agents, Age(a) PROVE TraceInv'
  BY <1>9 DEF Age, TypeOK, TraceInv, HeldInv, MarkedInv, NothingIsLeftBehind,
     Holds, Live, NoHand, Steps, Beats, registry, reaper
<1>10. ASSUME NEW a \in Agents, FailMark(a) PROVE TraceInv'
  <2>2. HeldInv'
    BY <1>10, PoolAssumption DEF FailMark, Fault, TypeOK, TraceInv, HeldInv,
       MarkedInv, NothingIsLeftBehind, Holds, Live, NoHand, Steps, Beats,
       registry, reaper
  <2>3. MarkedInv'
    BY <1>10, PoolAssumption DEF FailMark, Fault, TypeOK, TraceInv, HeldInv,
       MarkedInv, NothingIsLeftBehind, Holds, Live, NoHand, Steps, Beats,
       registry, reaper
  <2>4. NothingIsLeftBehind'
    BY <1>10, PoolAssumption DEF FailMark, Fault, TypeOK, TraceInv, HeldInv,
       MarkedInv, NothingIsLeftBehind, Holds, Live, NoHand, Steps, Beats,
       registry, reaper
  <2> QED
    BY <2>2, <2>3, <2>4 DEF TraceInv
<1>11. CASE Restart
  BY <1>11 DEF Restart, Fault, TypeOK, TraceInv, HeldInv, MarkedInv,
     NothingIsLeftBehind, Holds, Live, NoHand, Steps, Beats, registry, reaper
<1>12. CASE UNCHANGED vars
  BY <1>12 DEF vars, TypeOK, TraceInv, HeldInv, MarkedInv,
     NothingIsLeftBehind, Holds, Live, NoHand, Steps, Beats, registry, reaper
<1> QED
  BY <1>1, <1>2, <1>3, <1>4, <1>5, <1>6, <1>7, <1>8, <1>9, <1>10, <1>11,
     <1>12
     DEF Next, Handler, Reaper

\* The variables of the agent pool stay in their types; in particular no row is
\* given a state its enum does not have.
THEOREM PoolTypes == Spec => []TypeOK
<1>1. Init => TypeOK
  BY PoolAssumption DEF Init, TypeOK, RowStates, NoHand, Beats
<1> QED
  BY <1>1, TypeStep, PTL DEF Spec

\* The index FindBySoul reads agrees with the entries of the registry.
THEOREM PoolIndexAgrees == Spec => []IndexAgrees
<1>1. Init => IndexAgrees
  BY DEF Init, IndexAgrees
<1> QED
  BY <1>1, PoolTypes, IndexStep, PTL DEF Spec

\* However the handler and the reaper interleave, a row that reads live and a
\* sequence number do not outlive the entry of their agent, but for the
\* failures that excused records.
THEOREM PoolNothingIsLeftBehind == Spec => []NothingIsLeftBehind
<1>1. Init => TraceInv
  BY PoolAssumption DEF Init, TraceInv, HeldInv, MarkedInv,
     NothingIsLeftBehind, Holds, Live, NoHand
<1>2. TraceInv => NothingIsLeftBehind
  BY DEF TraceInv
<1> QED
  BY <1>1, <1>2, PoolTypes, TraceStep, PTL DEF Spec
=============================================================================
