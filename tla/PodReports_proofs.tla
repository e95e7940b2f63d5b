-------------------------- MODULE PodReports_proofs --------------------------
(***************************************************************************)
(* The reports of pod data, for any pods, any namespaces and any changes.  *)
(***************************************************************************)
EXTENDS PodReports, TLAPS

-----------------------------------------------------------------------------
(***************************************************************************)
(* The cluster: no two pods have the same name at a time, a sample is of a *)
(* pod of that name, and what was steady and is no longer does not become  *)
(* steady again.                                                           *)
(***************************************************************************)
PodInv ==
    /\ PodTypeOK /\ task \in Tasks
    /\ steady \in [alive : SUBSET PodUIDs, running : SUBSET PodUIDs, sampled : SUBSET PodUIDs]
    /\ steady.running \subseteq steady.alive
    /\ \A u, v \in alive : KeyOf(u) = KeyOf(v) => u = v
    /\ \A k \in Keys : sampled[k] # NoUID => KeyOf(sampled[k]) = k
    /\ \A u \in steady.sampled : sampled[KeyOf(u)] = u
    /\ cpuBefore \in [Containers -> 0..MaxCPU]
    /\ \A c \in Containers : cpuBefore[c] <= cpu[c]

(* What a step of the cluster may do to what the collectors rely on *)
PodShift ==
    /\ steady'.alive \subseteq steady.alive
    /\ steady'.running \subseteq steady.running
    /\ steady'.sampled \subseteq steady.sampled
    /\ cpuBefore' = cpuBefore /\ task' = task
    /\ \A c \in Containers : cpu[c] <= cpu'[c]

LEMMA PodInitInv == PodInit => PodInv
<1> SUFFICES ASSUME PodInit PROVE PodInv
  OBVIOUS
<1> USE PodAssumption DEF PodInit
<1>1. alive \subseteq PodUIDs /\ running \subseteq alive /\ task \in Tasks
  OBVIOUS
<1>2. \A u, v \in alive : KeyOf(u) = KeyOf(v) => u = v
  OBVIOUS
<1>3. born \subseteq PodUIDs /\ alive \subseteq born
  <2>1. \A k \in Keys : sampled[k] \in PodUIDs \cup {NoUID}
    OBVIOUS
  <2> QED BY <1>1, <2>1
<1>4. \A u \in PodUIDs : KeyOf(u) \in Keys
  BY DEF Keys
<1>5. /\ steady.alive = alive /\ steady.running = running
      /\ steady.sampled = {u \in alive : sampled[KeyOf(u)] = u}
      /\ steady \in [alive : SUBSET PodUIDs, running : SUBSET PodUIDs, sampled : SUBSET PodUIDs]
  BY <1>1
<1>6. cpu \in [Containers -> 0..MaxCPU]
  OBVIOUS
<1>7. changes \in 0..MaxChanges[task]
  BY <1>1
<1>8. \A c \in Containers : cpuBefore[c] <= cpu[c]
  BY <1>6
<1> QED BY <1>1, <1>2, <1>3, <1>5, <1>6, <1>7, <1>8 DEF PodInv, PodTypeOK

LEMMA PodStepInv == PodInv /\ PodStep => PodInv' /\ PodShift
<1> SUFFICES ASSUME PodInv, PodStep PROVE PodInv' /\ PodShift
  OBVIOUS
<1>0. /\ MaxChanges \in [Tasks -> Nat] /\ MaxCPU \in Nat
      /\ \A u \in PodUIDs : KeyOf(u) \in Keys
  BY PodAssumption DEF Keys
<1>a. \A c \in Containers : cpu[c] \in Int /\ cpuBefore[c] \in Int
  BY <1>0 DEF PodInv, PodTypeOK
<1> USE DEF PodInv, PodTypeOK, PodShift
<1>1. ASSUME NEW u \in PodUIDs, CreatePod(u) PROVE PodInv' /\ PodShift
  <2>1. \A v \in alive : KeyOf(v) # KeyOf(u)
    BY <1>1 DEF CreatePod, Named
  <2>2. changes' \in 0..MaxChanges[task]
    BY <1>0, <1>1 DEF CreatePod
  <2> QED BY <1>1, <1>a, <2>1, <2>2 DEF CreatePod
<1>2. ASSUME NEW u \in PodUIDs, StartPod(u) PROVE PodInv' /\ PodShift
  BY <1>2, <1>a DEF StartPod
<1>3. ASSUME NEW u \in PodUIDs, DeletePod(u) PROVE PodInv' /\ PodShift
  <2>1. changes' \in 0..MaxChanges[task]
    BY <1>0, <1>3 DEF DeletePod
  <2>2. /\ steady'.alive = steady.alive \ {u} /\ steady'.running = steady.running \ {u}
        /\ steady'.sampled = steady.sampled
        /\ steady' \in [alive : SUBSET PodUIDs, running : SUBSET PodUIDs,
                        sampled : SUBSET PodUIDs]
    BY <1>3 DEF DeletePod
  <2> QED BY <1>3, <1>a, <2>1, <2>2 DEF DeletePod
<1>4. ASSUME NEW k \in Keys, Sample(k) PROVE PodInv' /\ PodShift
  <2>1. changes' \in 0..MaxChanges[task]
    BY <1>0, <1>4 DEF Sample
  <2>2. /\ steady'.alive = steady.alive /\ steady'.running = steady.running
        /\ steady'.sampled = steady.sampled \ {sampled[k]}
        /\ steady' \in [alive : SUBSET PodUIDs, running : SUBSET PodUIDs,
                        sampled : SUBSET PodUIDs]
    BY <1>4 DEF Sample
  <2>3. PICK u \in (Named(k) \cap running) \cup {NoUID} :
            u # sampled[k] /\ sampled' = [sampled EXCEPT ![k] = u]
    BY <1>4 DEF Sample
  <2>4. u \in PodUIDs \cup {NoUID} /\ (u # NoUID => KeyOf(u) = k)
    BY <2>3 DEF Named
  <2>5. sampled' \in [Keys -> PodUIDs \cup {NoUID}]
    BY <2>3, <2>4
  <2>6. \A x \in Keys : sampled'[x] = IF x = k THEN u ELSE sampled[x]
    BY <2>3
  <2>7. \A x \in Keys : sampled'[x] # NoUID => KeyOf(sampled'[x]) = x
    BY <2>4, <2>6
  <2>8. ASSUME NEW v \in steady'.sampled PROVE sampled'[KeyOf(v)] = v
    <3>1. v \in PodUIDs /\ sampled[KeyOf(v)] = v /\ v # sampled[k] /\ KeyOf(v) \in Keys
      BY <1>0, <2>2
    <3> QED BY <2>6, <3>1
  <2> QED BY <1>4, <1>a, <2>1, <2>2, <2>5, <2>7, <2>8 DEF Sample
<1>5. ASSUME NEW c \in Containers, Use(c) PROVE PodInv' /\ PodShift
  <2>1. changes' \in 0..MaxChanges[task]
    BY <1>0, <1>5 DEF Use
  <2>2. \A x \in Containers : cpu'[x] = IF x = c THEN cpu[c] + 1 ELSE cpu[x]
    BY <1>5 DEF Use
  <2>3. cpu' \in [Containers -> 0..MaxCPU]
    BY <1>0, <1>5 DEF Use
  <2>4. \A x \in Containers : cpu[x] <= cpu'[x] /\ cpuBefore[x] <= cpu'[x]
    BY <1>a, <2>2
  <2> QED BY <1>5, <2>1, <2>3, <2>4 DEF Use
<1> QED BY <1>1, <1>2, <1>3, <1>4, <1>5 DEF PodStep

LEMMA PodInvStep == PodInv /\ [Next]_vars => PodInv' /\ PodShift
<1> SUFFICES ASSUME PodInv, [Next]_vars PROVE PodInv' /\ PodShift
  OBVIOUS
<1>1. CASE PodStep
  BY <1>1, PodStepInv
<1>2. CASE UNCHANGED podVars
  <2>1. PodInv'
    BY <1>2 DEF podVars, PodInv, PodTypeOK, Named
  <2>2. \A c \in Containers : cpu[c] \in Int
    BY PodAssumption DEF PodInv, PodTypeOK
  <2> QED BY <1>2, <2>1, <2>2 DEF podVars, PodShift
<1> QED
  BY <1>1, <1>2
     DEF Next, vars, Collect, ListPods, AllPodsListed, ListSamples, ListLogPods, ReadLogs,
         ReadLogsFails, Expire, ListFails, Return, CollectOnce, Stat, StatFails, ReadClass,
         ReadClassFails, PassSlice, ReadSlice, ReadSliceFails, PassScope, ReadMemory,
         ReadCPU, EndSlice, EndWalk, ListNodePods, ListNodePodsFails

-----------------------------------------------------------------------------
(***************************************************************************)
(* The namespaces of a round: those listed so far, and those left.         *)
(***************************************************************************)
ListedCount == Len(Targets) - Len(left)
Listed == {Targets[i] : i \in 1..ListedCount}

LeftInv ==
    /\ left \in Seq(ToSet(AllNamespaces)) /\ Len(left) <= Len(Targets)
    /\ \A i \in 1..Len(left) : left[i] = Targets[i + ListedCount]

LEMMA TargetsType ==
    /\ Targets \in Seq(ToSet(AllNamespaces)) /\ Len(Targets) \in Nat
    /\ ToSet(Targets) = {Targets[i] : i \in 1..Len(Targets)}
    /\ \A i, j \in 1..Len(Targets) : Targets[i] = Targets[j] => i = j
BY NamespaceAssumption DEF IsInjective, ToSet

LEMMA AllLeft ==
    ASSUME left = Targets
    PROVE  LeftInv /\ ListedCount = 0 /\ Listed = {}
<1>1. ListedCount = 0
  BY TargetsType DEF ListedCount
<1> QED BY <1>1, TargetsType DEF Listed, LeftInv

LEMMA NoneLeft ==
    ASSUME left = << >>
    PROVE  Listed = ToSet(Targets)
<1>1. ListedCount = Len(Targets)
  BY TargetsType DEF ListedCount
<1> QED BY <1>1, TargetsType DEF Listed

LEMMA NextListed ==
    ASSUME LeftInv, left # << >>, left' = Tail(left)
    PROVE  /\ LeftInv' /\ ListedCount' = ListedCount + 1
           /\ Head(left) = Targets[ListedCount + 1] /\ Head(left) \notin Listed
           /\ Listed' = Listed \cup {Head(left)}
           /\ Len(left') < Len(Targets)
<1>1. PICK n \in Nat : n = Len(left)
  BY DEF LeftInv
<1>2. PICK m \in Nat : m = Len(Targets) /\ n <= m
  BY <1>1, TargetsType DEF LeftInv
<1>3. /\ n > 0 /\ Head(left) = left[1]
      /\ left' \in Seq(ToSet(AllNamespaces)) /\ Len(left') = n - 1
      /\ \A i \in 1..(n - 1) : left'[i] = left[i + 1]
  BY <1>1 DEF LeftInv
<1>4. ListedCount = m - n /\ ListedCount' = m - n + 1
  BY <1>1, <1>2, <1>3 DEF ListedCount
<1>5. \A i \in 1..n : left[i] = Targets[i + (m - n)]
  BY <1>1, <1>4 DEF LeftInv
<1>6. Head(left) = Targets[ListedCount + 1]
  <2>1. 1 \in 1..n /\ 1 + (m - n) = ListedCount + 1
    BY <1>3, <1>4
  <2> QED BY <1>3, <1>5, <2>1
<1>7. ASSUME NEW i \in 1..(n - 1) PROVE left'[i] = Targets[i + ListedCount']
  <2>1. PICK j \in 1..n : j = i + 1 /\ j + (m - n) = i + ListedCount'
    BY <1>4
  <2> QED BY <1>3, <1>5, <2>1
<1>8. LeftInv'
  BY <1>2, <1>3, <1>7 DEF LeftInv
<1>9. Head(left) \notin Listed
  <2>1. \A i \in 1..ListedCount : i \in 1..m /\ ListedCount + 1 \in 1..m /\ i # ListedCount + 1
    BY <1>3, <1>2, <1>4
  <2> QED BY <1>2, <1>6, <2>1, TargetsType DEF Listed
<1>10. Listed' = Listed \cup {Head(left)}
  <2>1. 1..ListedCount' = 1..ListedCount \cup {ListedCount + 1}
    BY <1>2, <1>3, <1>4
  <2> QED BY <1>6, <2>1 DEF Listed
<1> QED BY <1>2, <1>3, <1>4, <1>6, <1>8, <1>9, <1>10

LEMMA LeftIsSuffix == LeftInv => IsSuffix(left, Targets)
<1> SUFFICES ASSUME LeftInv PROVE IsSuffix(left, Targets)
  OBVIOUS
<1>1. PICK n \in Nat : n = Len(left)
  BY DEF LeftInv
<1>2. PICK m \in Nat : m = Len(Targets) /\ n <= m
  BY <1>1, TargetsType DEF LeftInv
<1>3. \A i \in 1..n : left[i] = Targets[i + (m - n)]
  BY <1>1, <1>2 DEF LeftInv, ListedCount
<1>4. Reverse(left) = [i \in 1..n |-> left[(n - i) + 1]]
  BY <1>1 DEF Reverse
<1>5. Reverse(Targets) = [i \in 1..m |-> Targets[(m - i) + 1]]
  BY <1>2 DEF Reverse
<1>6. /\ Reverse(left) \in Seq(ToSet(AllNamespaces)) /\ Len(Reverse(left)) = n
      /\ Reverse(Targets) \in Seq(ToSet(AllNamespaces)) /\ Len(Reverse(Targets)) = m
  BY <1>1, <1>2, <1>4, <1>5, TargetsType DEF LeftInv
<1>7. \A i \in 1..n : Reverse(left)[i] = Reverse(Targets)[i]
  <2> SUFFICES ASSUME NEW i \in 1..n PROVE Reverse(left)[i] = Reverse(Targets)[i]
    OBVIOUS
  <2>1. PICK j \in 1..n : j = (n - i) + 1 /\ j + (m - n) = (m - i) + 1 /\ i \in 1..m
    BY <1>2
  <2> QED BY <1>3, <1>4, <1>5, <2>1
<1>8. Reverse(left) = SubSeq(Reverse(Targets), 1, n)
  BY <1>2, <1>6, <1>7
<1> QED BY <1>2, <1>6, <1>8 DEF IsSuffix, IsPrefix

(* The phases of each collector, and what they have of a round *)
PhaseInv ==
    /\ LeftInv /\ expired \in BOOLEAN
    /\ task = "metrics" => phase \in {"pods", "samples", "done", "failed"}
    /\ task = "logs" => phase \in {"logs", "done", "failed"}
    /\ task = "cgroup" => phase = "none"
    /\ phase = "done" => left = << >> /\ todo = {}
    /\ phase = "failed" => points = {} /\ lines = {}

LEMMA PhaseInit == Init => PhaseInv
<1> SUFFICES ASSUME Init PROVE PhaseInv
  OBVIOUS
<1>1. task \in Tasks /\ left = Targets
  BY DEF Init, PodInit, CollectInit
<1>2. LeftInv
  BY <1>1, AllLeft
<1>3. expired \in BOOLEAN
  BY Zenon DEF Init, CollectInit
<1> QED BY <1>1, <1>2, <1>3 DEF PhaseInv, Init, CollectInit, Tasks

LEMMA PhaseStep == PodInv /\ PhaseInv /\ [Next]_vars => PhaseInv'
<1> SUFFICES ASSUME PodInv, PhaseInv, [Next]_vars PROVE PhaseInv'
  OBVIOUS
<1>0. task' = task /\ task \in Tasks
  BY PodInvStep DEF PodShift, PodInv
<1>1. LeftInv'
  <2>1. CASE left' = left
    BY <2>1 DEF PhaseInv, LeftInv, ListedCount
  <2>2. CASE left # << >> /\ left' = Tail(left)
    BY <2>2, NextListed DEF PhaseInv
  <2>3. CASE left' = Targets
    <3>1. ListedCount' = 0 /\ Len(left') = Len(Targets)
      BY <2>3, TargetsType DEF ListedCount
    <3> QED BY <2>3, <3>1, TargetsType DEF LeftInv
  <2> QED
    BY <2>1, <2>2, <2>3
       DEF Next, vars, collectVars, Collect, ListPods, AllPodsListed, ListSamples,
           ListLogPods, ReadLogs, ReadLogsFails, Expire, ListFails, Return
<1>2. expired' \in BOOLEAN
  <2>1. CASE expired' = expired
    BY <2>1 DEF PhaseInv
  <2>2. CASE expired' = TRUE
    BY <2>2, Zenon
  <2> QED
    BY <2>1, <2>2
       DEF Next, vars, collectVars, Collect, ListPods, AllPodsListed, ListSamples,
           ListLogPods, ReadLogs, ReadLogsFails, Expire, ListFails, Return
<1>3. CASE UNCHANGED collectVars
  BY <1>0, <1>1, <1>2, <1>3 DEF collectVars, PhaseInv
<1>4. CASE ListPods \/ AllPodsListed \/ ListSamples \/ Expire
  BY <1>0, <1>1, <1>2, <1>4
     DEF ListPods, AllPodsListed, ListSamples, Expire, PhaseInv, Tasks
<1>5. CASE ListLogPods \/ ReadLogs \/ ReadLogsFails
  BY <1>0, <1>1, <1>2, <1>5 DEF ListLogPods, ReadLogs, ReadLogsFails, PhaseInv, Tasks
<1>6. CASE ListFails \/ Return
  BY <1>0, <1>1, <1>2, <1>6 DEF ListFails, Return, PhaseInv, Tasks
<1> QED BY <1>3, <1>4, <1>5, <1>6 DEF Next, Collect, vars

-----------------------------------------------------------------------------
(***************************************************************************)
(* CollectMetrics.  A pod that stays is found under its key by the first   *)
(* round, and sampled under it in the second; whatever else is found under *)
(* a key has that key.                                                     *)
(***************************************************************************)
Sure == steady.alive \cap steady.sampled
Knows(u) == KeyOf(u) \in DOMAIN uidOf /\ uidOf[KeyOf(u)] = u
Own(u) == [uid |-> u, of |-> u] \in points

MetricTypes ==
    /\ uidOf \in [DOMAIN uidOf -> PodUIDs] /\ DOMAIN uidOf \subseteq Keys
    /\ \A k \in DOMAIN uidOf : KeyOf(uidOf[k]) = k
    /\ points \subseteq [uid : PodUIDs, of : PodUIDs]
    /\ \A p \in points : p.uid # p.of => p.uid \notin Sure /\ KeyOf(p.uid) = KeyOf(p.of)

MetricInv ==
    /\ MetricTypes
    /\ phase = "pods" =>
           /\ \A k \in DOMAIN uidOf : k.ns \in Listed
           /\ \A u \in steady.alive : PodOf[u].ns \in Listed => Knows(u)
    /\ phase = "samples" =>
           /\ \A u \in steady.alive : Targeted(u) => Knows(u)
           /\ \A u \in Sure : PodOf[u].ns \in Listed => Own(u)
    /\ SteadyUsageIsOwn

LEMMA KeyTypes ==
    /\ \A u \in PodUIDs : KeyOf(u) \in Keys /\ KeyOf(u).ns = PodOf[u].ns
    /\ \A k \in Keys : \E u \in PodUIDs : k = KeyOf(u)
BY DEF Keys, KeyOf

LEMMA MetricInit == Init => MetricInv
<1> SUFFICES ASSUME Init PROVE MetricInv
  OBVIOUS
<1>1. left = Targets /\ uidOf = [k \in {} |-> NoUID] /\ points = {} /\ phase # "samples"
  BY DEF Init, CollectInit
<1>2. Listed = {}
  BY <1>1, AllLeft
<1>3. phase # "done"
  BY DEF Init, CollectInit
<1>4. \A k \in {} : FALSE
  OBVIOUS
<1>5. DOMAIN uidOf = {}
  BY <1>1
<1> QED BY <1>1, <1>2, <1>3, <1>5 DEF MetricInv, MetricTypes, SteadyUsageIsOwn

LEMMA MetricStep == PodInv /\ PhaseInv /\ MetricInv /\ [Next]_vars => MetricInv'
<1> SUFFICES ASSUME PodInv, PhaseInv, MetricInv, [Next]_vars PROVE MetricInv'
  OBVIOUS
<1>0. PodInv' /\ PodShift /\ steady.alive \subseteq alive /\ alive \subseteq PodUIDs
      /\ steady.sampled \subseteq PodUIDs /\ task' = task
  BY PodInvStep DEF PodInv, PodTypeOK, PodShift
<1>a. Sure' \subseteq Sure /\ Sure \subseteq PodUIDs
  BY <1>0 DEF Sure, PodShift
<1>1. CASE ListPods
  <2>0. /\ phase = "pods" /\ phase' = "pods" /\ left # << >> /\ left' = Tail(left)
        /\ points' = points /\ UNCHANGED podVars
    BY <1>1 DEF ListPods
  <2>1. PICK ns : ns = Head(left) /\ ns \notin Listed /\ Listed' = Listed \cup {ns}
    BY <2>0, NextListed DEF PhaseInv
  <2>2. /\ DOMAIN uidOf' = {KeyOf(u) : u \in In(ns)} \cup DOMAIN uidOf
        /\ \A k \in DOMAIN uidOf' :
              uidOf'[k] = IF k.ns = ns THEN CHOOSE u \in alive : KeyOf(u) = k ELSE uidOf[k]
        /\ uidOf' = [k \in DOMAIN uidOf' |-> uidOf'[k]]
    BY <1>1, <2>1 DEF ListPods
  <2>3. \A u \in In(ns) : u \in alive /\ PodOf[u].ns = ns /\ KeyOf(u).ns = ns /\ KeyOf(u) \in Keys
    BY <1>0, KeyTypes DEF In
  <2>4. \A k \in DOMAIN uidOf : k.ns # ns /\ k \in Keys /\ uidOf[k] \in PodUIDs
    BY <2>0, <2>1 DEF MetricInv, MetricTypes
  <2>5. ASSUME NEW u \in In(ns) PROVE KeyOf(u) \in DOMAIN uidOf' /\ uidOf'[KeyOf(u)] = u
    <3>1. KeyOf(u) \in DOMAIN uidOf'
      BY <2>2
    <3>2. uidOf'[KeyOf(u)] = CHOOSE v \in alive : KeyOf(v) = KeyOf(u)
      BY <2>2, <2>3, <3>1
    <3>3. \A v \in alive : KeyOf(v) = KeyOf(u) <=> v = u
      BY <2>3 DEF PodInv
    <3>4. u \in alive
      BY <2>3
    <3> QED BY <3>1, <3>2, <3>3, <3>4
  <2>6. ASSUME NEW k \in DOMAIN uidOf PROVE k \in DOMAIN uidOf' /\ uidOf'[k] = uidOf[k]
    BY <2>2, <2>4
  <2>7. \A k \in DOMAIN uidOf' : k \in Keys /\ uidOf'[k] \in PodUIDs /\ KeyOf(uidOf'[k]) = k
                                 /\ k.ns \in Listed'
    <3> SUFFICES ASSUME NEW k \in DOMAIN uidOf'
                 PROVE  k \in Keys /\ uidOf'[k] \in PodUIDs /\ KeyOf(uidOf'[k]) = k
                        /\ k.ns \in Listed'
      OBVIOUS
    <3>1. CASE k \in DOMAIN uidOf
      BY <2>0, <2>1, <2>4, <2>6, <3>1 DEF MetricInv, MetricTypes
    <3>2. CASE \E u \in In(ns) : k = KeyOf(u)
      BY <1>0, <2>1, <2>3, <2>5, <3>2
    <3> QED BY <2>2, <3>1, <3>2
  <2>8. uidOf' \in [DOMAIN uidOf' -> PodUIDs] /\ DOMAIN uidOf' \subseteq Keys
    BY <2>2, <2>7
  <2>9. ASSUME NEW u \in steady'.alive, PodOf[u].ns \in Listed' PROVE Knows(u)'
    <3>1. u \in steady.alive /\ u \in alive
      BY <1>0 DEF PodShift
    <3>2. CASE PodOf[u].ns = ns
      BY <2>5, <3>1, <3>2 DEF Knows, In
    <3>3. CASE PodOf[u].ns \in Listed
      BY <2>0, <2>6, <3>1, <3>3 DEF Knows, MetricInv
    <3> QED BY <2>1, <2>9, <3>2, <3>3
  <2>10. MetricTypes'
    <3>1. MetricTypes /\ Sure' = Sure
      BY <2>0 DEF MetricInv, Sure, podVars
    <3> QED BY <2>0, <2>7, <2>8, <3>1 DEF MetricTypes
  <2> QED BY <2>0, <2>7, <2>9, <2>10 DEF MetricInv, SteadyUsageIsOwn
<1>2. CASE AllPodsListed
  <2>1. /\ phase = "pods" /\ phase' = "samples" /\ left = << >> /\ left' = Targets
        /\ UNCHANGED <<podVars, uidOf, points>>
    BY <1>2 DEF AllPodsListed
  <2>2. Listed = ToSet(Targets) /\ Listed' = {}
    <3>1. ListedCount' = 0
      BY <2>1, TargetsType DEF ListedCount
    <3> QED BY <2>1, <3>1, NoneLeft DEF Listed
  <2>3. steady' = steady /\ Sure' = Sure
    BY <2>1 DEF podVars, Sure
  <2> QED
    BY <2>1, <2>2, <2>3 DEF MetricInv, MetricTypes, SteadyUsageIsOwn, Knows, Targeted
<1>3. CASE ListSamples
  <2>0. /\ phase = "samples" /\ phase' = "samples" /\ left # << >> /\ left' = Tail(left)
        /\ uidOf' = uidOf /\ UNCHANGED podVars /\ steady' = steady /\ Sure' = Sure
    BY <1>3 DEF ListSamples, podVars, Sure
  <2>1. PICK ns : ns = Head(left) /\ Listed' = Listed \cup {ns}
    BY <2>0, NextListed DEF PhaseInv
  <2> DEFINE more == {k \in DOMAIN uidOf : k.ns = ns /\ sampled[k] # NoUID}
  <2>2. points' = points \cup {[uid |-> uidOf[k], of |-> sampled[k]] : k \in more}
    BY <1>3, <2>1 DEF ListSamples
  <2>3. ASSUME NEW k \in more
        PROVE  /\ uidOf[k] \in PodUIDs /\ sampled[k] \in PodUIDs
               /\ KeyOf(uidOf[k]) = k /\ KeyOf(sampled[k]) = k
               /\ uidOf[k] # sampled[k] => uidOf[k] \notin Sure
    <3>1. k \in Keys /\ uidOf[k] \in PodUIDs /\ KeyOf(uidOf[k]) = k
      BY DEF MetricInv, MetricTypes
    <3>2. sampled[k] \in PodUIDs /\ KeyOf(sampled[k]) = k
      BY <3>1 DEF PodInv, PodTypeOK
    <3>3. uidOf[k] \in Sure => uidOf[k] = sampled[k]
      BY <3>1 DEF Sure, PodInv
    <3> QED BY <3>1, <3>2, <3>3
  <2>4. MetricTypes'
    <3>1. ASSUME NEW p \in points'
          PROVE  /\ p \in [uid : PodUIDs, of : PodUIDs]
                 /\ p.uid # p.of => p.uid \notin Sure /\ KeyOf(p.uid) = KeyOf(p.of)
      <4>1. CASE p \in points
        BY <4>1 DEF MetricInv, MetricTypes
      <4>2. CASE \E k \in more : p = [uid |-> uidOf[k], of |-> sampled[k]]
        <5>1. PICK k \in more : p = [uid |-> uidOf[k], of |-> sampled[k]]
          BY <4>2
        <5> HIDE DEF more
        <5> QED BY <2>3, <5>1
      <4> QED BY <2>2, <4>1, <4>2
    <3>2. MetricTypes
      BY DEF MetricInv
    <3> QED BY <2>0, <3>1, <3>2 DEF MetricTypes
  <2>5. ASSUME NEW u \in Sure', PodOf[u].ns \in Listed' PROVE Own(u)'
    <3>1. u \in Sure /\ u \in PodUIDs /\ u \in steady.alive
      BY <1>a, <2>0 DEF Sure
    <3>2. CASE PodOf[u].ns \in Listed
      BY <2>0, <2>2, <3>1, <3>2 DEF Own, MetricInv
    <3>3. CASE PodOf[u].ns = ns
      <4>1. Targeted(u)
        <5>1. ns = Targets[ListedCount + 1] /\ ListedCount + 1 \in 1..Len(Targets)
          <6>1. PICK n \in Nat : n = Len(left) /\ n > 0
            BY <2>0 DEF PhaseInv, LeftInv
          <6>2. ns = Targets[ListedCount + 1]
            BY <2>0, <2>1, NextListed DEF PhaseInv
          <6> QED BY <6>1, <6>2, TargetsType DEF PhaseInv, LeftInv, ListedCount
        <5> QED BY <3>3, <5>1, TargetsType DEF Targeted
      <4>2. Knows(u)
        BY <2>0, <3>1, <4>1 DEF MetricInv
      <4>3. sampled[KeyOf(u)] = u /\ u # NoUID /\ KeyOf(u).ns = ns
        BY <3>1, <3>3, KeyTypes, PodAssumption DEF Sure, PodInv
      <4>4. KeyOf(u) \in more /\ uidOf[KeyOf(u)] = u
        BY <4>2, <4>3 DEF Knows
      <4> HIDE DEF more
      <4> QED BY <2>2, <4>3, <4>4 DEF Own
    <3> QED BY <2>1, <2>5, <3>2, <3>3
  <2> QED BY <2>0, <2>4, <2>5 DEF MetricInv, SteadyUsageIsOwn, Knows
<1>4. CASE Return
  <2>1. /\ left = << >> /\ phase' = "done" /\ UNCHANGED <<podVars, uidOf, points>>
        /\ steady' = steady /\ Sure' = Sure /\ phase \in {"samples", "logs"}
    BY <1>4 DEF Return, podVars, Sure
  <2>2. MetricTypes'
    BY <2>1 DEF MetricInv, MetricTypes
  <2>3. SteadyUsageIsOwn'
    <3> SUFFICES ASSUME task' = "metrics" PROVE SteadyUsageIsOwn'
      BY DEF SteadyUsageIsOwn
    <3>1. phase = "samples"
      BY <1>0, <2>1 DEF PhaseInv
    <3>2. \A u \in Sure : Targeted(u) => Own(u)
      BY <2>1, <3>1, NoneLeft DEF MetricInv, Targeted
    <3> QED BY <2>1, <2>2, <3>2 DEF SteadyUsageIsOwn, Sure, Own, MetricTypes, Targeted
  <2> QED BY <2>1, <2>2, <2>3 DEF MetricInv
<1>5. CASE ListFails
  <2>1. phase' = "failed" /\ points' = {} /\ uidOf' = uidOf
    BY <1>5 DEF ListFails
  <2> QED BY <2>1 DEF MetricInv, MetricTypes, SteadyUsageIsOwn
<1>6. CASE ListLogPods \/ ReadLogs \/ ReadLogsFails
  <2>1. phase = "logs" /\ phase' = "logs" /\ UNCHANGED <<uidOf, points>>
    BY <1>6 DEF ListLogPods, ReadLogs, ReadLogsFails
  <2> QED BY <1>a, <2>1 DEF MetricInv, MetricTypes, SteadyUsageIsOwn
<1>7. CASE UNCHANGED <<phase, left, uidOf, points>>
  <2>1. Listed' = Listed
    BY <1>7 DEF Listed, ListedCount
  <2>2. MetricTypes'
    BY <1>a, <1>7 DEF MetricInv, MetricTypes
  <2>3. steady'.alive \subseteq steady.alive
    BY <1>0 DEF PodShift
  <2>4. SteadyUsageIsOwn'
    BY <1>0, <1>a, <1>7 DEF MetricInv, SteadyUsageIsOwn, Sure, Targeted
  <2> QED BY <1>a, <1>7, <2>1, <2>2, <2>3, <2>4 DEF MetricInv, Knows, Own, Targeted
<1> QED
  BY <1>1, <1>2, <1>3, <1>4, <1>5, <1>6, <1>7
     DEF Next, Collect, Expire, vars, collectVars

-----------------------------------------------------------------------------
(***************************************************************************)
(* CollectLogs.  Of the namespaces listed so far, every container that ran *)
(* all the time has been read, could not be, or is still to be read; those *)
(* still to be read are of the last of them.                               *)
(***************************************************************************)
Now(c) == ListedCount > 0 /\ PodOf[c[1]].ns = Targets[ListedCount]
Accounted(c) ==
    c \in todo \cup unread \/ [uid |-> c[1], container |-> c[2], of |-> c[1]] \in lines

LogInv ==
    /\ todo \subseteq Containers /\ unread \subseteq Containers
    /\ task # "logs" => todo = {} /\ late = {}
    /\ late # {} => expired
    /\ \A c \in todo \cup late : Now(c)
    /\ phase \in {"logs", "done"} /\ task = "logs" =>
           \A c \in Containers :
               c[1] \in steady.running /\ PodOf[c[1]].ns \in Listed => Accounted(c)
    /\ \A l \in lines :
           /\ l.uid \in PodUIDs
           /\ l.uid # l.of => l.uid \notin steady.alive /\ KeyOf(l.uid) = KeyOf(l.of)

LEMMA LogInit == Init => LogInv
<1> SUFFICES ASSUME Init PROVE LogInv
  OBVIOUS
<1>1. left = Targets /\ todo = {} /\ unread = {} /\ late = {} /\ lines = {}
  BY DEF Init, CollectInit
<1>2. Listed = {}
  BY <1>1, AllLeft
<1> QED BY <1>1, <1>2 DEF LogInv

LEMMA ContainerTypes ==
    \A c \in Containers : /\ c[1] \in PodUIDs /\ c[2] \in PodOf[c[1]].containers
                          /\ c = <<c[1], c[2]>>
BY DEF Containers

LEMMA LogStep == PodInv /\ PhaseInv /\ LogInv /\ [Next]_vars => LogInv'
<1> SUFFICES ASSUME PodInv, PhaseInv, LogInv, [Next]_vars PROVE LogInv'
  OBVIOUS
<1>0. /\ PodInv' /\ PodShift /\ task' = task
      /\ running \subseteq alive /\ alive \subseteq PodUIDs
      /\ steady.alive \subseteq alive /\ steady.running \subseteq running
      /\ steady.running \subseteq steady.alive
      /\ steady'.alive \subseteq steady.alive /\ steady'.running \subseteq steady.running
  BY PodInvStep DEF PodInv, PodTypeOK, PodShift
<1>1. CASE ListLogPods
  <2>0. /\ phase = "logs" /\ phase' = "logs" /\ left # << >> /\ left' = Tail(left)
        /\ todo = {} /\ ~expired /\ UNCHANGED <<lines, unread, late>>
        /\ steady' = steady
    BY <1>1 DEF ListLogPods, podVars
  <2>1. PICK ns : /\ ns = Head(left) /\ Listed' = Listed \cup {ns}
                  /\ ListedCount' > 0 /\ ns = Targets[ListedCount']
    <3>1. ListedCount \in Nat
      BY TargetsType DEF PhaseInv, LeftInv, ListedCount
    <3> QED BY <2>0, <3>1, NextListed DEF PhaseInv
  <2>2. todo' = {c \in Containers : c[1] \in In(ns) \cap running}
    BY <1>1, <2>1 DEF ListLogPods
  <2>3. \A c \in todo' : c \in Containers /\ Now(c)'
    BY <2>1, <2>2 DEF In, Now
  <2>4. late' = {} /\ task = "logs"
    BY <1>0, <2>0 DEF LogInv, PhaseInv, PodInv, Tasks
  <2>5. ASSUME NEW c \in Containers, c[1] \in steady'.running, PodOf[c[1]].ns \in Listed'
        PROVE  Accounted(c)'
    <3>1. CASE PodOf[c[1]].ns = ns
      BY <1>0, <2>0, <2>2, <2>5, <3>1 DEF Accounted, In
    <3>2. CASE PodOf[c[1]].ns \in Listed
      BY <2>0, <2>4, <2>5, <3>2 DEF Accounted, LogInv
    <3> QED BY <2>1, <2>5, <3>1, <3>2
  <2> QED BY <1>0, <2>0, <2>3, <2>4, <2>5 DEF LogInv
<1>2. CASE ReadLogs \/ ReadLogsFails
  <2>0. /\ phase = "logs" /\ phase' = "logs" /\ UNCHANGED <<left, expired>> /\ steady' = steady
        /\ task = "logs"
    BY <1>0, <1>2 DEF ReadLogs, ReadLogsFails, podVars, PhaseInv, PodInv, Tasks
  <2>1. ListedCount' = ListedCount /\ Listed' = Listed
    BY <2>0 DEF ListedCount, Listed
  <2>2. PICK c \in todo : /\ todo' = todo \ {c} /\ unread \subseteq unread'
                          /\ unread' \subseteq unread \cup {c} /\ lines \subseteq lines'
                          /\ late' \subseteq late \cup {c} /\ (late' # {} => expired)
                          /\ (c[1] \in steady.alive => Accounted(c)')
                          /\ \A l \in lines' \ lines :
                                /\ l.uid \in PodUIDs
                                /\ l.uid # l.of => /\ l.uid \notin steady.alive
                                                   /\ KeyOf(l.uid) = KeyOf(l.of)
    <3>1. CASE ReadLogsFails
      <4>1. PICK c \in todo : /\ unread' = unread \cup {c} /\ todo' = todo \ {c}
                              /\ late' = IF expired THEN late \cup {c} ELSE late
        BY <3>1 DEF ReadLogsFails
      <4>2. lines' = lines
        BY <3>1 DEF ReadLogsFails
      <4>3. Accounted(c)'
        BY <4>1 DEF Accounted
      <4> QED BY <4>1, <4>2, <4>3 DEF LogInv
    <3>2. CASE ReadLogs
      <4>0. PICK c \in todo : \E v \in Named(KeyOf(c[1])) \cap running :
                /\ lines' = lines \cup {[uid |-> c[1], container |-> c[2], of |-> v]}
                /\ todo' = todo \ {c}
        BY <3>2 DEF ReadLogs
      <4>1. PICK v \in Named(KeyOf(c[1])) \cap running :
                /\ lines' = lines \cup {[uid |-> c[1], container |-> c[2], of |-> v]}
                /\ todo' = todo \ {c}
        BY <4>0
      <4>2. unread' = unread /\ late' = late
        BY <3>2 DEF ReadLogs
      <4>3. c \in Containers /\ c[1] \in PodUIDs /\ v \in alive /\ KeyOf(v) = KeyOf(c[1])
        BY <4>1, ContainerTypes DEF LogInv, Named
      <4>4. c[1] \in steady.alive => v = c[1]
        BY <1>0, <4>3 DEF PodInv
      <4> DEFINE line == [uid |-> c[1], container |-> c[2], of |-> v]
      <4>5. /\ line.uid = c[1] /\ line.of = v
            /\ line.uid # line.of => line.uid \notin steady.alive /\ KeyOf(line.uid) = KeyOf(line.of)
        BY <4>3, <4>4
      <4>6. c[1] \in steady.alive => Accounted(c)'
        BY <4>1, <4>4 DEF Accounted
      <4>7. \A l \in lines' \ lines : l = line
        BY <4>1
      <4> HIDE DEF line
      <4>8. \A l \in lines' \ lines :
                /\ l.uid \in PodUIDs
                /\ l.uid # l.of => /\ l.uid \notin steady.alive
                                   /\ KeyOf(l.uid) = KeyOf(l.of)
        BY <4>3, <4>5, <4>7
      <4>9. lines \subseteq lines' /\ (late' # {} => expired) /\ late' \subseteq late \cup {c}
        BY <4>1, <4>2 DEF LogInv
      <4> QED BY <4>1, <4>2, <4>6, <4>8, <4>9
    <3> QED BY <1>2, <3>1, <3>2
  <2>3. \A d \in Containers : d[1] \in steady.alive /\ Accounted(d) => Accounted(d)'
    BY <2>2 DEF Accounted
  <2>4. \A d \in todo' \cup late' : Now(d)'
    BY <2>0, <2>1, <2>2 DEF Now, LogInv
  <2> QED BY <1>0, <2>0, <2>1, <2>2, <2>3, <2>4 DEF LogInv
<1>3. CASE ListFails
  <2>1. /\ phase' = "failed" /\ lines' = {} /\ UNCHANGED <<left, todo, unread, late, expired>>
    BY <1>3 DEF ListFails
  <2> QED BY <1>0, <2>1 DEF LogInv, Now, ListedCount
<1>4. CASE Return \/ Expire
  <2>0. expired => expired'
    BY <1>4, Zenon DEF Return, Expire
  <2>1. /\ UNCHANGED <<left, todo, unread, late, lines>> /\ steady' = steady
        /\ (phase' = phase \/ (phase' = "done" /\ phase \in {"samples", "logs"}))
    BY <1>4 DEF Return, Expire, podVars
  <2>2. task = "logs" /\ phase' \in {"logs", "done"} => phase \in {"logs", "done"}
    BY <2>1 DEF PhaseInv
  <2>3. ListedCount' = ListedCount /\ Listed' = Listed
    BY <2>1 DEF ListedCount, Listed
  <2> QED BY <1>0, <2>0, <2>1, <2>2, <2>3 DEF LogInv, Now, Accounted
<1>5. CASE ListPods \/ AllPodsListed \/ ListSamples
  <2>1. phase \in {"pods", "samples"} /\ UNCHANGED <<todo, unread, late, lines>>
        /\ steady' = steady
    BY <1>5 DEF ListPods, AllPodsListed, ListSamples, podVars
  <2>2. task # "logs"
    BY <2>1 DEF PhaseInv
  <2> QED BY <1>0, <2>1, <2>2 DEF LogInv
<1>6. CASE UNCHANGED collectVars
  <2>1. ListedCount' = ListedCount /\ Listed' = Listed
    BY <1>6 DEF ListedCount, Listed, collectVars
  <2> QED BY <1>0, <1>6, <2>1 DEF LogInv, Now, Accounted, collectVars
<1> QED BY <1>1, <1>2, <1>3, <1>4, <1>5, <1>6 DEF Next, Collect, vars

LEMMA LogsAreRead == PodInv /\ PhaseInv /\ LogInv => SteadyLogsAreRead
<1> SUFFICES ASSUME PodInv, PhaseInv, LogInv, task = "logs", phase = "done"
             PROVE  SteadyLogsAreRead
  BY DEF SteadyLogsAreRead
<1>1. left = << >> /\ todo = {}
  BY DEF PhaseInv
<1>2. Listed = ToSet(Targets) /\ ListedCount = Len(Targets)
  BY <1>1, NoneLeft, TargetsType DEF ListedCount
<1>3. \A c \in Containers \ unread :
         c[1] \in steady.running /\ Targeted(c[1])
             => [uid |-> c[1], container |-> c[2], of |-> c[1]] \in lines
  BY <1>1, <1>2 DEF LogInv, Accounted, Targeted
<1>4. \A c \in late : PodOf[c[1]].ns = Last(Targets)
  BY <1>2 DEF LogInv, Now, Last
<1>5. \A l \in lines : l.uid # l.of => l.uid \notin steady.alive /\ KeyOf(l.uid) = KeyOf(l.of)
  BY DEF LogInv
<1> QED BY <1>3, <1>4, <1>5 DEF SteadyLogsAreRead

-----------------------------------------------------------------------------
(***************************************************************************)
(* The node agent.  A container that runs all the time, and had used the   *)
(* CPU before, is still to be visited, being read, measured, or its files  *)
(* could not be read; and what was measured was true of it.                *)
(***************************************************************************)
ToVisit(c) ==
    \/ walk = "stat"
    \/ PodOf[c[1]].qos \in ToSet(classes)
    \/ SliceOf(c[1]) \in slices
    \/ walk = "slice" /\ pod = c[1] /\ ScopeOf(c) \in scopes

BeingRead(c) ==
    /\ current # NoUsage /\ current.container = c
    /\ current.memory = 1 \/ <<c, "memory">> \in blind

Unreadable(c) ==
    <<c, "slice">> \in blind \/ {<<c, "memory">>, <<c, "cpu">>} \subseteq blind

Measured(c) == \E m \in usages : m.container = c

(* Those the cycle owes a measurement *)
Owed(c) ==
    c \in Containers /\ c[1] \in steady.running /\ Measurable(c) /\ cpuBefore[c] > 0

True(m) ==
    IF m.cpu > 0 THEN m.cpu \in cpuBefore[m.container]..cpu[m.container]
    ELSE cpuBefore[m.container] > 0 =>
             <<m.container, "cpu">> \in blind \/ m.container[1] \notin steady.running

WalkTypes ==
    /\ NodeTypeOK
    /\ classes \in Seq(ToSet(QoSClasses))
    /\ slices \subseteq {ClassSlice(q) : q \in ToSet(QoSClasses)} \cup {SliceOf(u) : u \in PodUIDs}
    /\ walk = "slice" => scopes \subseteq {ScopeOf(c) : c \in {x \in Containers : x[1] = pod}}
    /\ current # NoUsage =>
           walk = "slice" /\ current.container \in Containers /\ current.memory \in {0, 1}
    /\ walk = "stat" => classes = QoSClasses
    /\ walk = "list" => classes = << >> /\ slices = {}

NodeInv ==
    /\ WalkTypes
    /\ walk \in {"stat", "class", "slice", "list"} =>
           \A c : Owed(c) => ToVisit(c) \/ BeingRead(c) \/ Unreadable(c) \/ Measured(c)
    /\ \A m \in usages : True(m)
    /\ MeasuredIsReal

LEMMA Classes ==
    /\ QoSClasses \in Seq(ToSet(QoSClasses)) /\ Len(QoSClasses) = 3
    /\ ToSet(QoSClasses) = {"besteffort", "burstable", "guaranteed"}
BY DEF QoSClasses, ToSet

LEMMA TailElements ==
    ASSUME NEW S, NEW s \in Seq(S), s # << >>
    PROVE  /\ Tail(s) \in Seq(S) /\ Head(s) \in S /\ Len(Tail(s)) < Len(s)
           /\ ToSet(s) = {Head(s)} \cup ToSet(Tail(s))
<1>1. PICK n \in Nat : n = Len(s) /\ n > 0
  OBVIOUS
<1>2. /\ Tail(s) \in Seq(S) /\ Len(Tail(s)) = n - 1 /\ Head(s) = s[1]
      /\ \A i \in 1..(n - 1) : Tail(s)[i] = s[i + 1]
  BY <1>1
<1>3. ToSet(s) = {s[i] : i \in 1..n} /\ ToSet(Tail(s)) = {Tail(s)[i] : i \in 1..(n - 1)}
  <2>1. DOMAIN s = 1..n /\ DOMAIN Tail(s) = 1..(n - 1)
    BY <1>1, <1>2
  <2> QED BY <2>1 DEF ToSet
<1>4. \A i \in 1..n : i = 1 \/ (i - 1 \in 1..(n - 1) /\ Tail(s)[i - 1] = s[i])
  BY <1>1, <1>2
<1>5. \A i \in 1..(n - 1) : i + 1 \in 1..n /\ Tail(s)[i] = s[i + 1]
  BY <1>1, <1>2
<1>6. ToSet(s) \subseteq {Head(s)} \cup ToSet(Tail(s))
  BY <1>2, <1>3, <1>4
<1>7. {Head(s)} \cup ToSet(Tail(s)) \subseteq ToSet(s)
  <2>1. 1 \in 1..n
    BY <1>1
  <2> QED BY <1>2, <1>3, <1>5, <2>1
<1>8. Head(s) \in S /\ Len(Tail(s)) < Len(s)
  BY <1>1, <1>2
<1> QED BY <1>2, <1>6, <1>7, <1>8

(* A directory's name is taken apart into what it was made of *)
LEMMA Names ==
    /\ \A u \in PodUIDs : PodUIDFromSlice(SliceOf(u)) = IF PodOf[u].static THEN NoUID ELSE u
    /\ \A q : PodUIDFromSlice(ClassSlice(q)) = NoUID
    /\ \A c : ContainerIDFromScope(ScopeOf(c)) =
                  IF PodOf[c[1]].runtime \in Runtimes THEN c[2] ELSE NoID
<1>1. ASSUME NEW u \in PodUIDs
      PROVE  PodUIDFromSlice(SliceOf(u)) = IF PodOf[u].static THEN NoUID ELSE u
  <2>1. CASE PodOf[u].static
    BY <2>1 DEF PodUIDFromSlice, SliceOf, LooksLikeUID
  <2>2. CASE ~PodOf[u].static
    BY <2>2 DEF PodUIDFromSlice, SliceOf, LooksLikeUID
  <2> QED BY <2>1, <2>2
<1>2. \A q : PodUIDFromSlice(ClassSlice(q)) = NoUID
  BY DEF PodUIDFromSlice, ClassSlice
<1>3. \A c : ContainerIDFromScope(ScopeOf(c)) =
                 IF PodOf[c[1]].runtime \in Runtimes THEN c[2] ELSE NoID
  BY DEF ContainerIDFromScope, ScopeOf
<1> QED BY <1>1, <1>2, <1>3

LEMMA NodeInitInv == Init => NodeInv
<1> SUFFICES ASSUME Init PROVE NodeInv
  OBVIOUS
<1>1. /\ walk \in {"none", "stat"} /\ classes = QoSClasses /\ slices = {} /\ pod = NoUID
      /\ current = NoUsage /\ usages = {} /\ metrics = {} /\ blind = {}
  BY DEF Init, NodeInit
<1>2. WalkTypes
  BY <1>1, Classes DEF WalkTypes, NodeTypeOK
<1>3. \A c : walk = "stat" => ToVisit(c)
  BY DEF ToVisit
<1> QED BY <1>1, <1>2, <1>3 DEF NodeInv, MeasuredIsReal

(* readUint: what it returns is true, or a 0 that blind accounts for *)
LEMMA ReadsEffect ==
    ASSUME NEW c, NEW file, NEW value, NEW actual, Reads(c, file, value, actual)
    PROVE  /\ blind \subseteq blind' /\ blind' \subseteq blind \cup {<<c, file>>}
           /\ value = actual \/ (value = 0 /\ (c \in Cgroups => <<c, file>> \in blind'))
<1>1. CASE value = actual /\ UNCHANGED blind
  BY <1>1
<1>2. CASE value = 0 /\ blind' = IF c \in Cgroups THEN blind \cup {<<c, file>>} ELSE blind
  BY <1>2
<1> QED BY <1>1, <1>2 DEF Reads

(* As long as blind and usages only grow and the cluster only shifts, what
   was measured stays true *)
LEMMA StaysTrue ==
    ASSUME PodInv, PodInv', PodShift, blind \subseteq blind', NEW m, m.container \in Containers,
           m.cpu \in Nat, True(m)
    PROVE  True(m)'
<1>1. /\ cpuBefore[m.container] \in Nat /\ cpu[m.container] \in Nat /\ cpu'[m.container] \in Nat
      /\ cpu[m.container] <= cpu'[m.container]
  BY PodAssumption DEF PodInv, PodTypeOK, PodShift
<1>2. cpuBefore' = cpuBefore /\ steady'.running \subseteq steady.running
  BY DEF PodShift
<1>3. CASE m.cpu > 0
  BY <1>1, <1>2, <1>3 DEF True
<1>4. CASE ~(m.cpu > 0)
  BY <1>1, <1>2, <1>4 DEF True
<1> QED BY <1>3, <1>4

LEMMA NoNodeStep ==
    PodInv /\ NodeInv /\ UNCHANGED nodeVars /\ PodInv' /\ PodShift => NodeInv'
<1> SUFFICES ASSUME PodInv, NodeInv, UNCHANGED nodeVars, PodInv', PodShift PROVE NodeInv'
  OBVIOUS
<1>1. /\ UNCHANGED <<walk, classes, slices, pod, scopes, current, usages, metrics, blind>>
      /\ blind \subseteq blind' /\ cpuBefore' = cpuBefore
      /\ steady'.running \subseteq steady.running
  BY DEF nodeVars, PodShift
<1>2. WalkTypes'
  BY <1>1 DEF NodeInv, WalkTypes, NodeTypeOK
<1>3. \A c : Owed(c)' => Owed(c)
  BY <1>1 DEF Owed
<1>4. \A c : /\ ToVisit(c) => ToVisit(c)'
             /\ BeingRead(c) => BeingRead(c)'
             /\ Unreadable(c) => Unreadable(c)'
             /\ Measured(c) => Measured(c)'
  BY <1>1 DEF ToVisit, BeingRead, Unreadable, Measured
<1>5. \A m \in usages : m.container \in Containers /\ m.cpu \in Nat
  BY PodAssumption DEF NodeInv, WalkTypes, NodeTypeOK
<1>6. \A m \in usages : True(m)'
  BY <1>1, <1>5, StaysTrue DEF NodeInv
<1>7. metrics \subseteq usages
  BY DEF NodeInv, WalkTypes, NodeTypeOK
<1>8. MeasuredIsReal'
  <2>1. \A m \in metrics' : True(m)'
    BY <1>1, <1>6, <1>7
  <2>2. \A c \in Containers : Owed(c) /\ walk \in {"sent", "silent"} =>
            (\E m \in metrics : m.container = c) \/ Unreadable(c)
    BY DEF NodeInv, MeasuredIsReal, Owed, Unreadable
  <2> QED BY <1>1, <1>3, <2>1, <2>2 DEF MeasuredIsReal, Owed, Unreadable, True
<1> QED BY <1>1, <1>2, <1>3, <1>4, <1>6, <1>8 DEF NodeInv

(* Where a container may go in one step of the walk *)
Follows ==
    \A c : Owed(c) /\ (ToVisit(c) \/ BeingRead(c))
               => ToVisit(c)' \/ BeingRead(c)' \/ Unreadable(c)' \/ Measured(c)'

LEMMA WalkStep ==
    ASSUME PodInv, NodeInv, UNCHANGED podVars, WalkTypes', Follows,
           walk \in {"stat", "class", "slice", "list"}, walk' \notin {"sent", "silent"},
           blind \subseteq blind', usages \subseteq usages',
           \A m \in usages' \ usages : True(m)'
    PROVE  NodeInv'
<1>1. /\ PodInv' /\ PodShift /\ steady' = steady /\ cpuBefore' = cpuBefore
      /\ \A c : Owed(c)' <=> Owed(c)
  <2>1. PodInv'
    BY DEF podVars, PodInv, PodTypeOK, Named
  <2>2. \A c \in Containers : cpu[c] \in Int
    BY PodAssumption DEF PodInv, PodTypeOK
  <2> QED BY <2>1, <2>2 DEF podVars, PodShift, Owed
<1>2. \A c : Owed(c) => ToVisit(c)' \/ BeingRead(c)' \/ Unreadable(c)' \/ Measured(c)'
  BY DEF NodeInv, Follows, Unreadable, Measured
<1>3. \A m \in usages : m.container \in Containers /\ m.cpu \in Nat
  BY PodAssumption DEF NodeInv, WalkTypes, NodeTypeOK
<1>4. \A m \in usages' : True(m)'
  BY <1>1, <1>3, StaysTrue DEF NodeInv
<1> QED BY <1>1, <1>2, <1>4 DEF NodeInv, MeasuredIsReal

LEMMA NodeStep == PodInv /\ NodeInv /\ CollectOnce => NodeInv'
<1> SUFFICES ASSUME PodInv, NodeInv, CollectOnce PROVE NodeInv'
  OBVIOUS
<1>0. /\ WalkTypes /\ running \subseteq alive /\ alive \subseteq PodUIDs
      /\ steady.running \subseteq running /\ NoUID \notin PodUIDs
      /\ \A c : Owed(c) => /\ c \in Containers /\ c[1] \in running /\ c \in Cgroups
                           /\ c[1] \in OnNode /\ PodUIDFromSlice(SliceOf(c[1])) = c[1]
                           /\ ContainerIDFromScope(ScopeOf(c)) = c[2] /\ c[2] # NoID
                           /\ c = <<c[1], c[2]>>
  <2>1. /\ running \subseteq alive /\ alive \subseteq PodUIDs
        /\ steady.running \subseteq running /\ NoUID \notin PodUIDs
    BY PodAssumption DEF PodInv, PodTypeOK
  <2>2. ASSUME NEW c, Owed(c)
        PROVE  /\ c \in Containers /\ c[1] \in running /\ c \in Cgroups
               /\ c[1] \in OnNode /\ PodUIDFromSlice(SliceOf(c[1])) = c[1]
               /\ ContainerIDFromScope(ScopeOf(c)) = c[2] /\ c[2] # NoID
               /\ c = <<c[1], c[2]>>
    BY <2>1, <2>2, Names, ContainerTypes, NodeAssumption DEF Owed, Measurable, Cgroups
  <2> QED BY <2>1, <2>2 DEF NodeInv
<1>1. CASE Stat
  <2>1. /\ walk = "stat" /\ walk' = "class" /\ UNCHANGED podVars
        /\ UNCHANGED <<classes, slices, pod, scopes, current, usages, metrics, blind>>
    BY <1>1 DEF Stat
  <2>2. WalkTypes'
    BY <1>0, <2>1 DEF WalkTypes, NodeTypeOK
  <2>3. classes' = QoSClasses /\ current = NoUsage
    BY <1>0, <2>1 DEF WalkTypes
  <2>4. \A c : Owed(c) => ToVisit(c)'
    BY <2>3, Classes, ContainerTypes, NodeAssumption DEF ToVisit, Owed
  <2> QED BY <2>1, <2>2, <2>4, WalkStep DEF Follows
<1>2. CASE StatFails \/ ListNodePodsFails
  <2>1. /\ walk' = "failed" /\ UNCHANGED podVars
        /\ UNCHANGED <<classes, slices, pod, scopes, current, usages, metrics, blind>>
        /\ walk # "slice"
    BY <1>2 DEF StatFails, ListNodePodsFails
  <2>2. WalkTypes'
    BY <1>0, <2>1 DEF WalkTypes, NodeTypeOK
  <2>3. \A m \in usages' : True(m)'
    BY <2>1 DEF NodeInv, True, podVars
  <2> QED BY <2>1, <2>2, <2>3 DEF NodeInv, MeasuredIsReal
<1>3. CASE ReadClass
  <2>1. /\ walk = "class" /\ walk' = walk /\ classes # << >> /\ UNCHANGED podVars
        /\ classes' = Tail(classes)
        /\ slices' = slices \cup {ClassSlice(Head(classes))} \cup
              {SliceOf(u) : u \in {v \in running \cap OnNode : PodOf[v].qos = Head(classes)}}
        /\ UNCHANGED <<pod, scopes, current, usages, metrics, blind>>
    BY <1>3 DEF ReadClass
  <2>2. /\ classes' \in Seq(ToSet(QoSClasses)) /\ Head(classes) \in ToSet(QoSClasses)
        /\ Len(classes') < Len(classes) /\ ToSet(classes) = {Head(classes)} \cup ToSet(classes')
    BY <1>0, <2>1, TailElements DEF WalkTypes
  <2>3. Len(classes') <= Len(QoSClasses)
    BY <1>0, <2>2, Classes DEF WalkTypes, NodeTypeOK
  <2>4. WalkTypes'
    BY <1>0, <2>1, <2>2, <2>3 DEF WalkTypes, NodeTypeOK
  <2>5. current = NoUsage
    BY <1>0, <2>1 DEF WalkTypes
  <2>6. \A c : Owed(c) /\ ToVisit(c) => ToVisit(c)'
    BY <1>0, <2>1, <2>2 DEF ToVisit
  <2> QED BY <2>1, <2>4, <2>5, <2>6, WalkStep DEF Follows, BeingRead
<1>4. CASE ReadClassFails
  <2>1. /\ walk = "class" /\ walk' = walk /\ classes # << >> /\ UNCHANGED podVars
        /\ classes' = IF Head(classes) = "guaranteed" THEN << >> ELSE Tail(classes)
        /\ blind' = blind \cup {<<c, "slice">> : c \in
              {x \in Containers : Head(classes) \in {"guaranteed", PodOf[x[1]].qos}}}
        /\ UNCHANGED <<slices, pod, scopes, current, usages, metrics>>
    BY <1>4 DEF ReadClassFails
  <2>2. /\ Tail(classes) \in Seq(ToSet(QoSClasses)) /\ Len(Tail(classes)) < Len(classes)
        /\ ToSet(classes) = {Head(classes)} \cup ToSet(Tail(classes))
    BY <1>0, <2>1, TailElements DEF WalkTypes
  <2>3. classes' \in Seq(ToSet(QoSClasses)) /\ Len(classes') <= Len(QoSClasses)
    <3>1. << >> \in Seq(ToSet(QoSClasses)) /\ Len(<< >>) = 0
      OBVIOUS
    <3> QED BY <1>0, <2>1, <2>2, <3>1, Classes DEF WalkTypes, NodeTypeOK
  <2>4. blind' \subseteq Containers \X {"slice", "memory", "cpu"}
    BY <1>0, <2>1 DEF WalkTypes, NodeTypeOK
  <2>5. WalkTypes'
    BY <1>0, <2>1, <2>2, <2>3, <2>4 DEF WalkTypes, NodeTypeOK
  <2>6. current = NoUsage
    BY <1>0, <2>1 DEF WalkTypes
  <2>7. \A c : Owed(c) /\ ToVisit(c) => ToVisit(c)' \/ Unreadable(c)'
    BY <1>0, <2>1, <2>2 DEF ToVisit, Unreadable
  <2> QED BY <2>1, <2>5, <2>6, <2>7, WalkStep DEF Follows, BeingRead
<1>5. CASE PassSlice \/ ReadSliceFails
  <2>1. PICK d \in slices :
           /\ slices' = slices \ {d} /\ blind \subseteq blind'
           /\ blind' \subseteq Containers \X {"slice", "memory", "cpu"}
           /\ \A c : Owed(c) /\ SliceOf(c[1]) = d => Unreadable(c)'
    <3>1. CASE PassSlice
      <4>1. PICK d \in slices : PodUIDFromSlice(d) \notin running /\ slices' = slices \ {d}
        BY <3>1 DEF PassSlice
      <4>2. blind' = blind
        BY <3>1 DEF PassSlice
      <4>3. \A c : Owed(c) => SliceOf(c[1]) # d
        BY <1>0, <4>1
      <4> QED BY <1>0, <4>1, <4>2, <4>3 DEF WalkTypes, NodeTypeOK
    <3>2. CASE ReadSliceFails
      <4>1. PICK d \in slices :
                /\ slices' = slices \ {d}
                /\ blind' = blind \cup {<<c, "slice">> :
                       c \in {x \in Containers : x[1] = PodUIDFromSlice(d)}}
        BY <3>2 DEF ReadSliceFails
      <4>2. \A c : Owed(c) /\ SliceOf(c[1]) = d => Unreadable(c)'
        BY <1>0, <4>1 DEF Unreadable
      <4>3. blind' \subseteq Containers \X {"slice", "memory", "cpu"}
        BY <1>0, <4>1 DEF WalkTypes, NodeTypeOK
      <4> QED BY <4>1, <4>2, <4>3
    <3> QED BY <1>5, <3>1, <3>2
  <2>2. /\ walk = "class" /\ walk' = walk /\ UNCHANGED podVars
        /\ UNCHANGED <<classes, pod, scopes, current, usages, metrics>>
    BY <1>5 DEF PassSlice, ReadSliceFails
  <2>3. WalkTypes'
    BY <1>0, <2>1, <2>2 DEF WalkTypes, NodeTypeOK
  <2>4. current = NoUsage
    BY <1>0, <2>2 DEF WalkTypes
  <2>5. \A c : Owed(c) /\ ToVisit(c) => ToVisit(c)' \/ Unreadable(c)'
    BY <2>1, <2>2 DEF ToVisit
  <2> QED BY <2>1, <2>2, <2>3, <2>4, <2>5, WalkStep DEF Follows, BeingRead
<1>6. CASE ReadSlice
  <2>1. PICK d \in slices :
           /\ PodUIDFromSlice(d) \in running
           /\ slices' = slices \ {d} /\ pod' = PodUIDFromSlice(d)
           /\ scopes' = {ScopeOf(c) : c \in {x \in Cgroups : x[1] = PodUIDFromSlice(d)}}
    BY <1>6 DEF ReadSlice
  <2>2. /\ walk = "class" /\ walk' = "slice" /\ UNCHANGED podVars
        /\ UNCHANGED <<classes, current, usages, metrics, blind>>
    BY <1>6 DEF ReadSlice
  <2>3. Cgroups \subseteq Containers /\ pod' \in PodUIDs
    BY <1>0, <2>1 DEF Cgroups
  <2>4. Containers' = Containers
    BY DEF Containers
  <2>5. WalkTypes'
    BY <1>0, <2>1, <2>2, <2>3, <2>4 DEF WalkTypes, NodeTypeOK
  <2>6. current = NoUsage
    BY <1>0, <2>2 DEF WalkTypes
  <2>7. \A c : Owed(c) /\ ToVisit(c) => ToVisit(c)'
    BY <1>0, <2>1, <2>2 DEF ToVisit
  <2> QED BY <2>2, <2>5, <2>6, <2>7, WalkStep DEF Follows, BeingRead
<1>7. CASE PassScope
  <2>1. PICK d \in scopes : ContainerIDFromScope(d) = NoID /\ scopes' = scopes \ {d}
    BY <1>7 DEF PassScope
  <2>2. /\ walk = "slice" /\ walk' = walk /\ current = NoUsage /\ UNCHANGED podVars
        /\ UNCHANGED <<classes, slices, pod, current, usages, metrics, blind>>
    BY <1>7 DEF PassScope
  <2>3. WalkTypes'
    BY <1>0, <2>1, <2>2 DEF WalkTypes, NodeTypeOK
  <2>4. \A c : Owed(c) /\ ToVisit(c) => ToVisit(c)'
    BY <1>0, <2>1, <2>2 DEF ToVisit
  <2> QED BY <2>2, <2>3, <2>4, WalkStep DEF Follows, BeingRead
<1>8. CASE ReadMemory
  <2>1. PICK d \in scopes : LET c == <<pod, ContainerIDFromScope(d)>> IN
           /\ c[2] # NoID
           /\ \E m \in {0, 1} :
               /\ Reads(c, "memory", m, IF cpu[c] = 0 THEN 0 ELSE 1)
               /\ current' = [container |-> c, memory |-> m]
           /\ scopes' = scopes \ {d}
    BY <1>8 DEF ReadMemory
  <2> DEFINE x == <<pod, ContainerIDFromScope(d)>>
  <2>2. /\ walk = "slice" /\ walk' = walk /\ current = NoUsage /\ UNCHANGED podVars
        /\ UNCHANGED <<classes, slices, pod, usages, metrics>>
    BY <1>8 DEF ReadMemory
  <2>3. PICK m \in {0, 1} : /\ Reads(x, "memory", m, IF cpu[x] = 0 THEN 0 ELSE 1)
                            /\ current' = [container |-> x, memory |-> m]
    BY <2>1
  <2>4. x \in Containers
    <3>1. PICK y \in Containers : y[1] = pod /\ d = ScopeOf(y)
      BY <1>0, <2>1, <2>2 DEF WalkTypes
    <3>2. ContainerIDFromScope(d) = y[2]
      BY <2>1, <3>1, Names
    <3> QED BY <3>1, <3>2, ContainerTypes
  <2>5. scopes' = scopes \ {d} /\ d \in scopes /\ x = <<pod, ContainerIDFromScope(d)>>
    BY <2>1
  <2> HIDE DEF x
  <2>6. /\ blind \subseteq blind' /\ blind' \subseteq blind \cup {<<x, "memory">>}
        /\ \/ m = IF cpu[x] = 0 THEN 0 ELSE 1
           \/ x \in Cgroups => <<x, "memory">> \in blind'
    BY <2>3, ReadsEffect
  <2>7. /\ current' # NoUsage /\ current'.container = x /\ current'.memory = m
    <3>1. current'.container = x /\ current'.memory = m
      BY <2>3
    <3>2. NoUsage.container = << >> /\ x # << >>
      BY <2>5 DEF NoUsage
    <3> QED BY <3>1, <3>2
  <2>8. WalkTypes'
    <3>1. blind' \subseteq Containers \X {"slice", "memory", "cpu"}
      BY <1>0, <2>4, <2>6 DEF WalkTypes, NodeTypeOK
    <3> QED BY <1>0, <2>2, <2>4, <2>5, <2>7, <3>1 DEF WalkTypes, NodeTypeOK
  <2>9. ASSUME NEW c, Owed(c), ToVisit(c) PROVE ToVisit(c)' \/ BeingRead(c)'
    <3>1. CASE pod = c[1] /\ ScopeOf(c) = d
      <4>1. x = c
        BY <1>0, <2>5, <2>9, <3>1
      <4>2. cpu[c] # 0
        BY <1>0, <2>9, PodAssumption DEF Owed, PodInv, PodTypeOK
      <4> QED BY <1>0, <2>6, <2>7, <2>9, <4>1, <4>2 DEF BeingRead
    <3>2. CASE ~(pod = c[1] /\ ScopeOf(c) = d)
      BY <2>2, <2>5, <2>9, <3>2 DEF ToVisit
    <3> QED BY <3>1, <3>2
  <2> QED BY <2>2, <2>6, <2>8, <2>9, WalkStep DEF Follows, BeingRead
<1>9. CASE ReadCPU
  <2>a. PICK x : x = current.container
    OBVIOUS
  <2>1. /\ walk = "slice" /\ walk' = walk /\ current # NoUsage /\ current' = NoUsage
        /\ UNCHANGED podVars
        /\ UNCHANGED <<classes, slices, pod, scopes, metrics>>
    BY <1>9 DEF ReadCPU
  <2>2. PICK v \in {0, cpu[x]} :
           /\ Reads(x, "cpu", v, cpu[x])
           /\ usages' = IF v = 0 /\ current.memory = 0 THEN usages
                  ELSE usages \cup {[container |-> x, cpu |-> v, memory |-> current.memory]}
    BY <1>9, <2>a DEF ReadCPU
  <2>3. x \in Containers /\ current.memory \in {0, 1}
    BY <1>0, <2>a, <2>1 DEF WalkTypes
  <2>4. /\ blind \subseteq blind' /\ blind' \subseteq blind \cup {<<x, "cpu">>}
        /\ v = cpu[x] \/ (v = 0 /\ (x \in Cgroups => <<x, "cpu">> \in blind'))
    BY <2>2, ReadsEffect
  <2>5. cpu[x] \in Nat /\ cpu[x] \in 0..MaxCPU /\ cpuBefore[x] \in Nat /\ cpuBefore[x] <= cpu[x]
        /\ v \in 0..MaxCPU
    BY <2>2, <2>3, PodAssumption DEF PodInv, PodTypeOK
  <2>m. PICK m : m = [container |-> x, cpu |-> v, memory |-> current.memory]
    OBVIOUS
  <2>6. usages \subseteq usages' /\ usages' \subseteq usages \cup {m}
    BY <2>2, <2>m
  <2>7. m \in [container : Containers, cpu : 0..MaxCPU, memory : {0, 1}]
    BY <2>3, <2>5, <2>m
  <2>8. WalkTypes'
    <3>1. blind' \subseteq Containers \X {"slice", "memory", "cpu"}
      BY <1>0, <2>3, <2>4 DEF WalkTypes, NodeTypeOK
    <3> QED BY <1>0, <2>1, <2>6, <2>7, <3>1 DEF WalkTypes, NodeTypeOK
  <2>9. True(m)'
    <3>1. UNCHANGED <<cpu, cpuBefore, steady>>
      BY <2>1 DEF podVars
    <3>2. x[1] \in steady.running => x \in Cgroups
      BY <1>0, <2>3 DEF Cgroups
    <3>3. m.container = x /\ m.cpu = v
      BY <2>m
    <3>4. CASE v = cpu[x]
      BY <2>5, <3>1, <3>3, <3>4 DEF True
    <3>5. CASE v = 0 /\ (x \in Cgroups => <<x, "cpu">> \in blind')
      BY <2>5, <3>1, <3>2, <3>3, <3>5 DEF True
    <3> QED BY <2>4, <3>4, <3>5
  <2>10. ASSUME NEW c, Owed(c), BeingRead(c) PROVE Unreadable(c)' \/ Measured(c)'
    <3>1. c = x
      BY <2>a, <2>10 DEF BeingRead
    <3>2. CASE v = 0 /\ current.memory = 0
      <4>1. cpu[x] # 0
        BY <2>5, <2>10, <3>1, PodAssumption DEF Owed
      <4>2. <<x, "cpu">> \in blind'
        BY <1>0, <2>4, <2>10, <3>1, <3>2, <4>1
      <4>3. <<x, "memory">> \in blind
        BY <2>10, <3>1, <3>2 DEF BeingRead
      <4> QED BY <2>4, <3>1, <4>2, <4>3 DEF Unreadable
    <3>3. CASE ~(v = 0 /\ current.memory = 0)
      <4>1. m \in usages' /\ m.container = c
        BY <2>2, <2>m, <3>1, <3>3
      <4> QED BY <4>1 DEF Measured
    <3> QED BY <3>2, <3>3
  <2>11. \A c : Owed(c) /\ ToVisit(c) => ToVisit(c)'
    BY <2>1 DEF ToVisit
  <2>12. \A n \in usages' \ usages : True(n)'
    BY <2>6, <2>9
  <2> QED BY <2>1, <2>4, <2>6, <2>8, <2>10, <2>11, <2>12, WalkStep DEF Follows
<1>10. CASE EndSlice \/ EndWalk
  <2>1. /\ walk \in {"class", "slice"} /\ walk' \in {"class", "list"} /\ UNCHANGED podVars
        /\ UNCHANGED <<classes, slices, pod, scopes, current, usages, metrics, blind>>
        /\ walk = "slice" => scopes = {} /\ current = NoUsage
        /\ walk' = "list" => classes = << >> /\ slices = {}
    BY <1>10 DEF EndSlice, EndWalk
  <2>2. current = NoUsage
    BY <1>0, <2>1 DEF WalkTypes
  <2>3. WalkTypes'
    BY <1>0, <2>1, <2>2 DEF WalkTypes, NodeTypeOK
  <2>4. \A c : Owed(c) /\ ToVisit(c) => ToVisit(c)'
    BY <2>1 DEF ToVisit
  <2> QED BY <2>1, <2>2, <2>3, <2>4, WalkStep DEF Follows, BeingRead
<1>11. CASE ListNodePods
  <2>1. /\ walk = "list" /\ walk' \in {"sent", "silent"} /\ UNCHANGED podVars
        /\ metrics' = {m \in usages : m.container[1] \in alive \cap OnNode}
        /\ UNCHANGED <<classes, slices, pod, scopes, current, usages, blind>>
    BY <1>11 DEF ListNodePods, ToMetrics
  <2>2. WalkTypes'
    BY <1>0, <2>1 DEF WalkTypes, NodeTypeOK
  <2>3. classes = << >> /\ slices = {} /\ current = NoUsage /\ ToSet(classes) = {}
    BY <1>0, <2>1 DEF WalkTypes, ToSet
  <2>4. \A c : Owed(c) => Unreadable(c) \/ \E m \in metrics' : m.container = c
    BY <1>0, <2>1, <2>3 DEF NodeInv, ToVisit, BeingRead, Measured
  <2>5. \A m \in usages' : True(m)'
    BY <2>1 DEF NodeInv, True, podVars
  <2>6. \A c : Owed(c)' => Owed(c)
    BY <2>1 DEF Owed, podVars
  <2>7. MeasuredIsReal'
    BY <2>1, <2>4, <2>5, <2>6 DEF MeasuredIsReal, Owed, Unreadable, True
  <2> QED BY <2>1, <2>2, <2>5, <2>7 DEF NodeInv
<1> QED
  BY <1>1, <1>2, <1>3, <1>4, <1>5, <1>6, <1>7, <1>8, <1>9, <1>10, <1>11 DEF CollectOnce

-----------------------------------------------------------------------------
(***************************************************************************)
(* The theorems.                                                           *)
(***************************************************************************)
Inv == PodInv /\ PhaseInv /\ MetricInv /\ LogInv /\ NodeInv

LEMMA InvInit == Init => Inv
<1>1. Init => PodInv
  BY PodInitInv DEF Init
<1> QED BY <1>1, PhaseInit, MetricInit, LogInit, NodeInitInv DEF Inv

LEMMA InvStep == Inv /\ [Next]_vars => Inv'
<1> SUFFICES ASSUME Inv, [Next]_vars PROVE Inv'
  OBVIOUS
<1>1. PodInv' /\ PodShift
  BY PodInvStep DEF Inv
<1>2. NodeInv'
  <2>1. CASE CollectOnce
    BY <2>1, NodeStep DEF Inv
  <2>2. CASE UNCHANGED nodeVars
    BY <1>1, <2>2, NoNodeStep DEF Inv
  <2> QED BY <2>1, <2>2 DEF Next, vars
<1> QED BY <1>1, <1>2, PhaseStep, MetricStep, LogStep DEF Inv

LEMMA InvIsEnough == Inv => TypeOK /\ SteadyUsageIsOwn /\ SteadyLogsAreRead /\ MeasuredIsReal
<1> SUFFICES ASSUME Inv PROVE TypeOK /\ SteadyUsageIsOwn /\ SteadyLogsAreRead /\ MeasuredIsReal
  OBVIOUS
<1>1. SteadyUsageIsOwn /\ MeasuredIsReal
  BY DEF Inv, MetricInv, NodeInv
<1>2. SteadyLogsAreRead
  BY LogsAreRead DEF Inv
<1>3. PodTypeOK /\ NodeTypeOK
  BY DEF Inv, PodInv, NodeInv, WalkTypes
<1>4. CollectTypeOK
  <2>1. phase \in {"pods", "samples", "logs", "done", "failed", "none"}
    BY DEF Inv, PodInv, PhaseInv, Tasks
  <2>2. IsSuffix(left, Targets)
    BY LeftIsSuffix DEF Inv, PhaseInv
  <2> QED BY <2>1, <2>2 DEF CollectTypeOK, Inv, MetricInv, MetricTypes, LogInv
<1>5. phase = "failed" => points = {} /\ lines = {}
  BY DEF Inv, PhaseInv
<1> QED BY <1>1, <1>2, <1>3, <1>4, <1>5 DEF TypeOK

(* Every variable of a collection of pod data holds a value its counterpart
   can hold, and one that fails returns nothing. *)
THEOREM TypeCorrect == Spec => []TypeOK
BY InvInit, InvStep, InvIsEnough, PTL DEF Spec

(* The join of pods and samples by name never gives a pod that stays the
   usage of another, whatever changes between the two lists. *)
THEOREM UsageIsOwn == Spec => []SteadyUsageIsOwn
BY InvInit, InvStep, InvIsEnough, PTL DEF Spec

(* No failure but its own keeps the logs of a container that stays out of
   what is collected. *)
THEOREM LogsAreComplete == Spec => []SteadyLogsAreRead
BY InvInit, InvStep, InvIsEnough, PTL DEF Spec

(* What the node agent sends is complete for the containers that stay, and
   was true of each during the walk. *)
THEOREM UsageIsMeasured == Spec => []MeasuredIsReal
BY InvInit, InvStep, InvIsEnough, PTL DEF Spec
=============================================================================
