-------------------------- MODULE EmergencyProofs --------------------------
(***************************************************************************)
(* Proofs about Emergency, for any guests, startup lines and number of      *)
(* faults.                                                                 *)
(***************************************************************************)
EXTENDS Emergency, FiniteSetTheorems, FunctionTheorems, TLAPS

\* What the keys are compared for.
LEMMA KeysTellBefore ==
  ASSUME conf \in [VMID -> Conf], NEW u \in VMID, NEW v \in VMID
  PROVE  KeyLess(SortKey(u), SortKey(v)) <=> Before(u, v)
<1> DEFINE k == SortKey(u)
           l == SortKey(v)
<1>1. KeyLess(k, l) <=> \/ k[1] < l[1]
                        \/ k[1] = l[1] /\ k[2] < l[2]
                        \/ k[1] = l[1] /\ k[2] = l[2] /\ k[3] < l[3]
  <2>1. 1..3 = {1, 2, 3} /\ 1..0 = {} /\ 1..1 = {1} /\ 1..2 = {1, 2}
    OBVIOUS
  <2> HIDE DEF k, l
  <2>2. KeyLess(k, l) <=> \E i \in {1, 2, 3} : k[i] < l[i] /\ \A j \in 1..(i - 1) : k[j] = l[j]
    BY <2>1 DEF KeyLess
  <2>3. (\A j \in 1..(1 - 1) : k[j] = l[j])
    OBVIOUS
  <2>4. (\A j \in 1..(2 - 1) : k[j] = l[j]) <=> k[1] = l[1]
    BY <2>1
  <2>5. (\A j \in 1..(3 - 1) : k[j] = l[j]) <=> k[1] = l[1] /\ k[2] = l[2]
    BY <2>1
  <2>6. QED
    BY <2>2, <2>3, <2>4, <2>5
<1>2. /\ conf[u].order \in Int /\ conf[v].order \in Int /\ u \in Int /\ v \in Int
  BY StartupAssumption DEF Conf
<1>3. /\ k[1] = (IF conf[u].order = Unset THEN 1 ELSE 0)
      /\ k[2] = (IF conf[u].order = Unset THEN 0 ELSE conf[u].order)
      /\ k[3] = u
      /\ l[1] = (IF conf[v].order = Unset THEN 1 ELSE 0)
      /\ l[2] = (IF conf[v].order = Unset THEN 0 ELSE conf[v].order)
      /\ l[3] = v
  BY DEF SortKey
<1>4. QED
  BY <1>1, <1>2, <1>3 DEF Before

\* The order is a strict total one.
LEMMA BeforeIsTotal ==
  ASSUME conf \in [VMID -> Conf]
  PROVE  \A u, v, w \in VMID :
           /\ ~Before(u, u)
           /\ u = v \/ Before(u, v) \/ Before(v, u)
           /\ ~(Before(u, v) /\ Before(v, u))
           /\ Before(u, v) /\ Before(v, w) => Before(u, w)
<1>1. \A v \in VMID : conf[v].order \in Int /\ v \in Int
  BY StartupAssumption DEF Conf
<1>2. QED
  BY <1>1 DEF Before

\* A guest's place among the others is how many come before it.
LEMMA PlanExists ==
  ASSUME conf \in [VMID -> Conf]
  PROVE  \E s \in SetToSeqs(Standby) : Ascending(s)
<1> DEFINE n == Cardinality(Standby)
           Earlier(v) == {u \in Standby : Before(u, v)}
           place == [v \in Standby |-> Cardinality(Earlier(v)) + 1]
<1>1. Standby \subseteq VMID /\ IsFiniteSet(Standby) /\ n \in Nat
  BY StartupAssumption, FS_Subset, FS_CardinalityType DEF Standby
<1>2. \A v \in Standby : IsFiniteSet(Earlier(v)) /\ Cardinality(Earlier(v)) \in Nat
  BY <1>1, FS_Subset, FS_CardinalityType
<1>3. ASSUME NEW u \in Standby, NEW v \in Standby, Before(u, v)
      PROVE  Cardinality(Earlier(u)) < Cardinality(Earlier(v))
  <2>1. Earlier(u) \subseteq Earlier(v) /\ u \in Earlier(v) /\ u \notin Earlier(u)
    BY <1>1, <1>3, BeforeIsTotal
  <2> HIDE DEF Earlier
  <2>2. /\ Cardinality(Earlier(u)) <= Cardinality(Earlier(v))
        /\ Cardinality(Earlier(u)) # Cardinality(Earlier(v))
    BY <1>2, <2>1, FS_Subset
  <2>3. QED
    BY <1>2, <2>2
<1>4. \A v \in Standby : Cardinality(Earlier(v)) < n
  <2> SUFFICES ASSUME NEW v \in Standby PROVE Cardinality(Earlier(v)) < n
    OBVIOUS
  <2>1. Earlier(v) \subseteq Standby /\ v \notin Earlier(v)
    BY <1>1, BeforeIsTotal
  <2> HIDE DEF Earlier
  <2>2. Cardinality(Earlier(v)) <= n /\ Cardinality(Earlier(v)) # n
    BY <1>1, <2>1, FS_Subset
  <2>3. QED
    BY <1>1, <1>2, <2>2
<1> HIDE DEF Earlier
<1>5. place \in Injection(Standby, 1..n)
  <2>1. place \in [Standby -> 1..n]
    BY <1>1, <1>2, <1>4
  <2>2. ASSUME NEW u \in Standby, NEW v \in Standby, u # v
        PROVE  place[u] # place[v]
    <3>1. Before(u, v) \/ Before(v, u)
      BY <1>1, <2>2, BeforeIsTotal
    <3>2. Cardinality(Earlier(u)) # Cardinality(Earlier(v))
      BY <1>2, <1>3, <3>1
    <3>3. QED
      BY <1>2, <3>2
  <2>3. QED
    BY <2>1, <2>2 DEF Injection, IsInjective
<1>6. place \in Surjection(Standby, 1..n)
  <2>1. IsFiniteSet(1..n) /\ Cardinality(1..n) = n
    BY <1>1, FS_Interval
  <2>2. QED
    BY <1>5, <2>1, FS_Injection
<1> DEFINE s == [i \in 1..n |-> CHOOSE v \in Standby : place[v] = i]
<1>7. \A i \in 1..n : s[i] \in Standby /\ place[s[i]] = i
  BY <1>6 DEF Surjection
<1>8. s \in SetToSeqs(Standby)
  BY <1>7 DEF SetToSeqs
<1>9. Ascending(s)
  <2>1. Len(s) = n
    BY <1>1
  <2> SUFFICES ASSUME NEW i \in 1..n, NEW j \in 1..n, i < j
               PROVE  KeyLess(SortKey(s[i]), SortKey(s[j]))
    BY <2>1 DEF Ascending
  <2> DEFINE u == s[i]
             v == s[j]
  <2>2. u \in Standby /\ v \in Standby /\ place[u] = i /\ place[v] = j
    BY <1>7
  <2> HIDE DEF u, v, s
  <2>3. Cardinality(Earlier(u)) < Cardinality(Earlier(v)) /\ u # v
    BY <1>2, <2>2
  <2>4. ~Before(v, u)
    BY <1>2, <1>3, <2>2, <2>3
  <2>5. Before(u, v)
    BY <1>1, <2>2, <2>3, <2>4, BeforeIsTotal
  <2>6. KeyLess(SortKey(u), SortKey(v))
    BY <1>1, <2>2, <2>5, KeysTellBefore
  <2>7. QED
    BY <2>6 DEF u, v
<1>10. QED
  BY <1>8, <1>9

\* The plan has every standby guest once, each after those that come before it.
LEMMA PlanIs ==
  ASSUME conf \in [VMID -> Conf]
  PROVE  LET s == OrderedStandbyVMs IN
         /\ s \in Seq(Standby)
         /\ Len(s) = Cardinality(Standby)
         /\ Cardinality(Standby) \in Nat /\ Cardinality(Standby) <= Cardinality(VMID)
         /\ \A v \in Standby : \E i \in 1..Len(s) : s[i] = v
         /\ \A i, j \in 1..Len(s) : i < j => Before(s[i], s[j])
<1> DEFINE s == OrderedStandbyVMs
           n == Cardinality(Standby)
<1>1. /\ Standby \subseteq VMID /\ IsFiniteSet(Standby)
      /\ n \in Nat /\ Cardinality(Standby) <= Cardinality(VMID)
  BY StartupAssumption, FS_Subset, FS_CardinalityType DEF Standby
<1>2. s \in SetToSeqs(Standby) /\ Ascending(s)
  BY PlanExists DEF OrderedStandbyVMs
<1> HIDE DEF s
<1>3. s \in [1..n -> Standby] /\ \A i, j \in 1..n : i # j => s[i] # s[j]
  BY <1>2 DEF SetToSeqs
<1>4. s \in Seq(Standby) /\ Len(s) = n
  BY <1>1, <1>3
<1>5. \A v \in Standby : \E i \in 1..n : s[i] = v
  <2>1. s \in Injection(1..n, Standby)
    BY <1>3 DEF Injection, IsInjective
  <2>2. IsFiniteSet(1..n) /\ Cardinality(1..n) = n
    BY <1>1, FS_Interval
  <2>3. s \in Surjection(1..n, Standby)
    BY <1>1, <2>1, <2>2, FS_Injection
  <2>4. QED
    BY <2>3 DEF Surjection
<1>6. \A i, j \in 1..n : i < j => Before(s[i], s[j])
  BY <1>1, <1>2, <1>3, <1>4, KeysTellBefore DEF Ascending
<1>7. QED
  BY <1>1, <1>4, <1>5, <1>6 DEF s

\* The oldest age that is counted is one of no fewer seconds than any up delay.
LEMMA AgeBound ==
  /\ Max(Ages) \in Int /\ Max(Ages) >= 0
  /\ Ages = Never..Max(Ages)
  /\ \A up \in Ups \cup {Default} : up \in Int /\ up <= Max(Ages)
<1> DEFINE T == Ups \cup {Default, 0}
<1>1. PICK b \in Ups \cup {Default} : \A up \in Ups : up <= b
  BY StartupAssumption
<1>2. \E x \in T : \A y \in T : x >= y
  <2>1. b \in Int /\ Default \in Int /\ Ups \subseteq Int
    BY StartupAssumption
  <2>2. CASE b >= 0 /\ b >= Default
    BY <1>1, <2>1, <2>2
  <2>3. CASE Default >= 0 /\ Default >= b
    BY <1>1, <2>1, <2>3
  <2>4. CASE 0 >= b /\ 0 >= Default
    BY <1>1, <2>1, <2>4
  <2>5. QED
    BY <2>1, <2>2, <2>3, <2>4
<1> DEFINE M == Max(T)
<1>3. M \in T /\ \A y \in T : M >= y
  BY <1>2 DEF Max
<1>4. T \subseteq Int
  BY StartupAssumption
<1>5. Ages = -1..M
  BY DEF Ages, Never
<1>6. M >= 0
  BY <1>3
<1> HIDE DEF T, M
<1>7. \E x \in Ages : \A y \in Ages : x >= y
  <2>1. M \in Ages /\ \A y \in Ages : M >= y
    BY <1>3, <1>4, <1>5, <1>6
  <2>2. QED
    BY <2>1
<1>8. Max(Ages) \in Ages /\ \A y \in Ages : Max(Ages) >= y
  BY <1>7 DEF Max
<1>9. Max(Ages) = M
  <2>1. M \in Ages
    BY <1>3, <1>4, <1>5, <1>6
  <2>2. QED
    BY <1>3, <1>4, <1>5, <1>8, <2>1
<1>10. QED
  BY <1>3, <1>4, <1>5, <1>6, <1>9 DEF T, Never

-----------------------------------------------------------------------------
(* The inductive invariant. *)

\* A guest that was started and has had its up delay.
Ready(v) == age[v] # Never /\ age[v] >= Delay(v)

\* The plan of a run under way: what is a standby guest still is in it, and its
\* guests come one after another in the order.
Planned ==
  pc \in {"start", "wait", "done"} =>
    /\ at \in 1..Len(plan) /\ Len(plan) <= Cardinality(VMID)
    /\ pc = "wait" => at < Len(plan)
    /\ pc = "done" => at = Len(plan)
    /\ \A v \in Standby : \E i \in 1..Len(plan) : plan[i] = v
    /\ \A i, j \in 1..Len(plan) : i < j => Before(plan[i], plan[j])

\* A run has started every guest of its plan up to the one at hand, and each but
\* that one had its up delay.
Brought ==
  ~dry =>
    /\ pc \in {"start", "wait", "done"} => \A i \in 1..(at - 1) : Ready(plan[i])
    /\ pc \in {"wait", "done"} => age[plan[at]] # Never
    /\ pc = "wait" => age[plan[at]] >= slept

Brings ==
  /\ TypeOK
  /\ Planned
  /\ Brought
  /\ running \subseteq Standby

LEMMA BringsInit == Init => Brings
<1> SUFFICES ASSUME Init PROVE Brings
  OBVIOUS
<1>1. Never \in Ages /\ 0 \in Ages
  BY AgeBound DEF Never
<1>2. Cardinality(VMID) \in Nat /\ MaxFaults \in Nat
  BY StartupAssumption, FS_CardinalityType
<1>3. TypeOK
  <2>1. <<>> \in Seq(VMID) /\ NoneStarted \in [VMID -> Ages]
    BY <1>1 DEF NoneStarted
  <2>2. 1 \in 1..(Cardinality(VMID) + 1) /\ 0 \in 0..MaxFaults
    BY <1>2
  <2>3. QED
    BY <1>1, <2>1, <2>2 DEF Init, TypeOK
<1>4. QED
  BY <1>3 DEF Init, Brings, Planned, Brought

LEMMA DelayBound ==
  ASSUME TypeOK, NEW v \in VMID
  PROVE  Delay(v) \in Int /\ Delay(v) <= Max(Ages)
BY AgeBound DEF Delay, TypeOK, Conf

LEMMA BringsStep ==
  ASSUME Brings, [Next]_vars
  PROVE  Brings'
<1>a. Cardinality(VMID) \in Nat /\ MaxFaults \in Nat
  BY StartupAssumption, FS_CardinalityType
<1>b. /\ Never \in Ages /\ 0 \in Ages
      /\ Max(Ages) \in Int /\ Max(Ages) >= 0 /\ Ages = Never..Max(Ages)
  BY AgeBound DEF Never
<1>c. faults \in 0..MaxFaults /\ (faults < MaxFaults /\ faults' = faults + 1 => faults' \in 0..MaxFaults)
  BY <1>a DEF Brings, TypeOK
<1>d. plan \in Seq(VMID) /\ Len(plan) \in Nat /\ \A i \in 1..Len(plan) : plan[i] \in VMID
  BY DEF Brings, TypeOK
<1> USE DEF Brings
<1>1. CASE UNCHANGED vars
  BY <1>1 DEF vars, TypeOK, Planned, Brought, Ready, Standby, Before, Delay
<1>2. ASSUME pc' \in {"list", "failed", "off"}, UNCHANGED <<conf, plan, at, slept>>,
             running' \subseteq running, faults' \in 0..MaxFaults, dry' \in BOOLEAN,
             age' \in [VMID -> Ages]
      PROVE  Brings'
  BY <1>2 DEF TypeOK, Planned, Brought, Standby
<1>3. CASE Boot \/ \E rehearsal \in BOOLEAN : Rerun(rehearsal)
  BY <1>2, <1>3 DEF Boot, Rerun, TypeOK
<1>4. CASE List
  <2>1. /\ plan' \in Seq(Standby) /\ Len(plan') = Cardinality(Standby)
        /\ Cardinality(Standby) \in Nat /\ Cardinality(Standby) <= Cardinality(VMID)
        /\ \A v \in Standby : \E i \in 1..Len(plan') : plan'[i] = v
        /\ \A i, j \in 1..Len(plan') : i < j => Before(plan'[i], plan'[j])
    BY <1>4, PlanIs DEF List, TypeOK
  <2>2. Standby \subseteq VMID /\ conf' = conf /\ Standby' = Standby
    BY <1>4 DEF Standby, List
  <2>3. at' = 1 /\ dry' = dry /\ pc' \in {"failed", "start"}
        /\ (pc' = "start" => Standby # {})
    BY <1>4 DEF List
  <2>4. plan' \in Seq(VMID)
    BY <2>1, <2>2
  <2>5. TypeOK'
    BY <1>4, <1>a, <2>4 DEF List, TypeOK
  <2>6. Planned'
    <3>1. \A i, j \in 1..Len(plan') : i < j => Before(plan[i], plan[j])'
      BY <2>1, <2>2 DEF Before
    <3>2. pc' = "start" => 1 \in 1..Len(plan')
      <4>1. SUFFICES ASSUME Standby # {} PROVE 1 \in 1..Len(plan')
        BY <2>3
      <4>2. PICK v \in Standby : TRUE
        BY <4>1
      <4>3. PICK i \in 1..Len(plan') : plan'[i] = v
        BY <2>1
      <4>4. QED
        BY <2>1, <4>3
    <3>3. QED
      BY <2>1, <2>2, <2>3, <3>1, <3>2 DEF Planned
  <2>7. Brought'
    BY <2>3 DEF Brought
  <2>8. QED
    BY <1>4, <2>2, <2>5, <2>6, <2>7 DEF List
<1>5. CASE StartDry
  <2>1. TypeOK'
    BY <1>5, <1>b DEF StartDry, AfterStart, TypeOK
  <2>2. Planned' /\ Brought' /\ Standby' = Standby
    BY <1>5, <1>d DEF StartDry, AfterStart, Planned, Brought, Standby, Before
  <2>3. QED
    BY <1>5, <2>1, <2>2 DEF StartDry
<1>6. CASE StartVM
  <2>1. TypeOK'
    BY <1>6, <1>b, <1>d DEF StartVM, AfterStart, TypeOK, Standby
  <2>2. Planned' /\ Standby' = Standby
    BY <1>6, <1>d DEF StartVM, AfterStart, Planned, Standby, Before
  <2>3. at \in 1..Len(plan) /\ plan[at] \in VMID
    BY <1>6, <1>d DEF StartVM, Planned
  <2>4. \A i \in 1..(at - 1) : plan[i] \in VMID /\ plan[i] # plan[at]
    <3> SUFFICES ASSUME NEW i \in 1..(at - 1) PROVE plan[i] \in VMID /\ plan[i] # plan[at]
      OBVIOUS
    <3>1. i \in 1..Len(plan) /\ i < at
      BY <1>d, <2>3
    <3>2. Before(plan[i], plan[at])
      BY <1>6, <2>3, <3>1 DEF StartVM, Planned
    <3>3. QED
      BY <1>d, <2>3, <3>1, <3>2, BeforeIsTotal DEF TypeOK
  <2>5. /\ age'[plan[at]] = 0
        /\ \A i \in 1..(at - 1) : age'[plan[i]] = age[plan[i]]
    BY <1>6, <2>3, <2>4 DEF StartVM, TypeOK
  <2>6. \A i \in 1..(at - 1) : Ready(plan[i])'
    BY <1>6, <2>5 DEF StartVM, Brought, Ready, Delay
  <2>7. Brought'
    BY <1>6, <2>5, <2>6 DEF StartVM, Brought, Never
  <2>8. QED
    BY <1>6, <2>1, <2>2, <2>7 DEF StartVM
<1>7. CASE NotStartable
  BY <1>2, <1>7 DEF NotStartable, TypeOK
<1>8. CASE Sleep
  <2>1. at \in 1..Len(plan) /\ plan[at] \in VMID
    BY <1>8, <1>d DEF Sleep, Planned
  <2>2. Delay(plan[at]) \in Int /\ Delay(plan[at]) <= Max(Ages)
    BY <2>1, DelayBound
  <2>3. slept \in Ages /\ slept' = slept + 1 /\ slept' \in Ages
    BY <1>8, <1>b, <2>2 DEF Sleep, TypeOK, Never
  <2>4. \A v \in VMID : /\ age[v] \in Ages /\ age'[v] \in Ages /\ age'[v] >= age[v]
                        /\ age[v] # Never => age'[v] # Never
                        /\ age[v] # Never => age'[v] = age[v] + 1 \/ age'[v] = Max(Ages)
    BY <1>8, <1>b DEF Sleep, TypeOK, Never
  <2>5. TypeOK'
    BY <1>8, <2>3, <2>4 DEF Sleep, TypeOK
  <2>6. Planned' /\ Standby' = Standby
    BY <1>8 DEF Sleep, Planned, Standby, Before
  <2>7. \A i \in 1..(at - 1) : i \in 1..Len(plan) /\ Ready(plan[i])
    BY <1>8, <1>d, <2>1 DEF Sleep, Brought
  <2>8. \A i \in 1..(at - 1) : Ready(plan[i])'
    <3> SUFFICES ASSUME NEW i \in 1..(at - 1) PROVE Ready(plan[i])'
      BY <1>8 DEF Sleep
    <3>1. plan[i] \in VMID /\ Ready(plan[i]) /\ Delay(plan[i]) \in Int
      BY <1>d, <2>7, DelayBound
    <3>2. Delay(plan[i])' = Delay(plan[i]) /\ plan' = plan
      BY <1>8 DEF Sleep, Delay
    <3>3. age[plan[i]] \in Int /\ age'[plan[i]] \in Int
      BY <1>b, <2>4, <3>1 DEF Never
    <3>4. QED
      BY <2>4, <3>1, <3>2, <3>3 DEF Ready
  <2>9. age[plan[at]] # Never /\ age[plan[at]] >= slept
    BY <1>8 DEF Sleep, Brought
  <2>10. age'[plan[at]] # Never /\ age'[plan[at]] >= slept'
    <3>1. age[plan[at]] \in Int /\ slept \in Int /\ slept' <= Max(Ages)
      BY <1>b, <2>1, <2>3, <2>4 DEF Never
    <3>2. QED
      BY <1>b, <2>1, <2>3, <2>4, <2>9, <3>1
  <2>11. Brought'
    BY <1>8, <2>8, <2>10 DEF Sleep, Brought
  <2>12. QED
    BY <1>8, <2>5, <2>6, <2>11 DEF Sleep
<1>9. CASE NextGuest
  <2>1. at \in 1..Len(plan) /\ at < Len(plan) /\ plan[at] \in VMID
        /\ Len(plan) <= Cardinality(VMID)
    BY <1>9, <1>d DEF NextGuest, Planned
  <2>2. TypeOK'
    BY <1>9, <1>a, <1>d, <2>1 DEF NextGuest, TypeOK
  <2>3. Planned' /\ Standby' = Standby
    BY <1>9, <1>d, <2>1 DEF NextGuest, Planned, Standby, Before
  <2>4. ~dry => Ready(plan[at])
    <3>1. age[plan[at]] \in Int /\ slept \in Int /\ Delay(plan[at]) \in Int
      BY <1>b, <2>1, DelayBound DEF TypeOK, Never
    <3>2. QED
      BY <1>9, <3>1 DEF NextGuest, Brought, Ready
  <2>5. ASSUME ~dry, NEW i \in 1..at
        PROVE  Ready(plan[i])'
    <3>1. Ready(plan[i])
      <4>1. CASE i = at
        BY <2>4, <2>5, <4>1
      <4>2. CASE i # at
        BY <1>9, <2>1, <2>5, <4>2 DEF NextGuest, Brought
      <4>3. QED
        BY <4>1, <4>2
    <3>2. QED
      BY <1>9, <3>1 DEF NextGuest, Ready, Delay
  <2>6. Brought'
    <3>1. pc' = "start" /\ at' - 1 = at /\ dry' = dry
      BY <1>9, <2>1 DEF NextGuest
    <3>2. QED
      BY <2>5, <3>1 DEF Brought
  <2>7. QED
    BY <1>9, <2>2, <2>3, <2>6 DEF NextGuest
<1>10. CASE StartFails \/ Kill \/ PowerCut
  <2>1. NoneStarted \in [VMID -> Ages]
    BY <1>b DEF NoneStarted
  <2>2. QED
    BY <1>2, <1>10, <1>c, <2>1 DEF StartFails, Kill, PowerCut, Fault, TypeOK
<1>11. ASSUME NEW v \in VMID, GuestStops(v)
       PROVE  Brings'
  BY <1>11, <1>c
     DEF GuestStops, Fault, TypeOK, Planned, Brought, Ready, Standby, Before, Delay
<1>12. ASSUME NEW v \in VMID, DestroyOrphan(v)
       PROVE  Brings'
  <2>1. conf' = [conf EXCEPT ![v].standby = FALSE]
    BY <1>12 DEF DestroyOrphan
  <2>2. /\ conf' \in [VMID -> Conf]
        /\ \A u \in VMID : conf'[u].order = conf[u].order /\ conf'[u].up = conf[u].up
    BY <2>1 DEF TypeOK, Conf
  <2>3. Standby' = Standby \ {v}
    BY <2>1 DEF Standby, TypeOK, Conf
  <2>4. TypeOK'
    BY <1>12, <1>c, <2>2 DEF DestroyOrphan, Fault, TypeOK
  <2>5. \A u, w \in VMID : Before(u, w)' <=> Before(u, w)
    BY <2>2 DEF Before
  <2>6. Planned'
    BY <1>12, <1>d, <2>3, <2>5 DEF DestroyOrphan, Planned
  <2>7. \A u \in VMID : Ready(u) => Ready(u)'
    BY <1>12, <2>2 DEF DestroyOrphan, Ready, Delay
  <2>8. \A i \in 1..(at - 1) : pc \in {"start", "wait", "done"} => plan[i] \in VMID
    BY <1>d DEF Planned
  <2>9. Brought'
    BY <1>12, <2>7, <2>8 DEF DestroyOrphan, Brought
  <2>10. QED
    BY <1>12, <2>3, <2>4, <2>6, <2>9 DEF DestroyOrphan
<1>13. QED
  BY <1>1, <1>3, <1>4, <1>5, <1>6, <1>7, <1>8, <1>9, <1>10, <1>11, <1>12 DEF Next, Advance

\* The inductive invariant of a start of the standby set (emergency.py:35-60,
\* proxmox.py:175-213).
THEOREM BringsInvariant == Spec => []Brings
  BY BringsInit, BringsStep, PTL DEF Spec

\* The state of Emergency keeps its types.
THEOREM TypeCorrect == Spec => []TypeOK
<1>1. Brings => TypeOK
  BY DEF Brings
<1>2. QED
  BY <1>1, BringsInvariant, PTL

\* A run that ends well has started every standby guest (emergency.py:52-60).
THEOREM AllStarted == Spec => []DoneMeansAllStarted
<1>1. Brings => DoneMeansAllStarted
  <2> SUFFICES ASSUME Brings, pc = "done", ~dry, NEW v \in Standby
               PROVE  age[v] # Never
    BY DEF Brings, DoneMeansAllStarted
  <2>1. at = Len(plan) /\ at \in Nat
    BY DEF Brings, Planned, TypeOK
  <2>2. PICK i \in 1..Len(plan) : plan[i] = v
    BY DEF Brings, Planned
  <2>3. i = at \/ i \in 1..(at - 1)
    BY <2>1, <2>2
  <2>4. QED
    BY <2>2, <2>3 DEF Brings, Brought, Ready
<1>2. QED
  BY <1>1, BringsInvariant, PTL

\* No guest is started before those it comes after have had their time, in any
\* order, with any delays (emergency.py:7-12, proxmox.py:193-213).
THEOREM OrderKept == Spec => DependenciesFirst
<1> DEFINE InTurn == \A v \in running' \ running : \A u \in Standby :
                       Before(u, v) => age[u] # Never /\ age[u] >= Delay(u)
<1>1. Brings /\ [Next]_vars => [InTurn]_vars
  <2> SUFFICES ASSUME Brings, Next,
                      NEW v \in running' \ running, NEW u \in Standby, Before(u, v)
               PROVE  Ready(u)
    BY DEF Ready
  <2>1. StartVM
    BY DEF Next, Advance, Boot, Rerun, List, StartDry, NotStartable, Sleep, NextGuest,
           StartFails, GuestStops, DestroyOrphan, Kill, PowerCut
  <2>2. v = plan[at] /\ pc = "start" /\ ~dry /\ at \in 1..Len(plan)
    BY <2>1 DEF StartVM, Brings, Planned
  <2>3. PICK i \in 1..Len(plan) : plan[i] = u
    BY <2>2 DEF Brings, Planned
  <2>4. u \in VMID /\ v \in VMID
    BY <2>2 DEF Brings, TypeOK, Standby
  <2>5. i # at /\ ~(at < i)
    BY <2>2, <2>3, <2>4, BeforeIsTotal DEF Brings, Planned, TypeOK
  <2>6. i \in 1..(at - 1)
    BY <2>2, <2>3, <2>5 DEF Brings, TypeOK
  <2>7. QED
    BY <2>2, <2>3, <2>6 DEF Brings, Brought
<1>2. QED
  BY <1>1, BringsInvariant, PTL DEF Spec, DependenciesFirst

-----------------------------------------------------------------------------
(* After the last fault. *)

\* pve-guests is masked: nothing runs on a node that is off, or was just turned on.
Dark == pc = "off" => running = {}

LEMMA DarkInvariant == Spec => []Dark
<1>1. Init => Dark
  BY DEF Init, Dark
<1>2. Dark /\ [Next]_vars => Dark'
  BY DEF Dark, vars, Next, Advance, Boot, Rerun, List, StartDry, StartVM, NotStartable, Sleep,
         NextGuest, AfterStart, StartFails, GuestStops, DestroyOrphan, Kill, PowerCut
<1>3. QED
  BY <1>1, <1>2, PTL DEF Spec

\* What a run has come through of its plan.
UpTo(n) == {plan[i] : i \in 1..n}

\* From a power-on after the last fault, until all is up: what runs is what the
\* plan has up to the guest at hand.
Rising ==
  /\ faults = MaxFaults
  /\ \/ Standby \subseteq running
     \/ pc = "off" /\ running = {}
     \/ pc = "list" /\ ~dry /\ running = {}
     \/ /\ pc \in {"start", "wait"} /\ ~dry
        /\ running = UpTo(IF pc = "start" THEN at - 1 ELSE at)
        /\ \A i \in 1..Len(plan) : plan[i] \in Standby

LEMMA RisingStep ==
  ASSUME Brings, Rising, [Next]_vars
  PROVE  Rising'
<1>1. TypeOK /\ MaxFaults \in Nat /\ at \in Nat
  BY StartupAssumption DEF Brings, TypeOK
<1>2. ~Fault
  BY <1>1 DEF Fault, Rising
<1>3. /\ faults' = faults /\ conf' = conf /\ Standby' = Standby /\ running \subseteq running'
      /\ \/ Advance \/ Boot \/ UNCHANGED vars
         \/ \E rehearsal \in BOOLEAN : Rerun(rehearsal)
  BY <1>2
     DEF Next, Advance, Boot, Rerun, List, StartDry, StartVM, NotStartable, Sleep, NextGuest,
         StartFails, GuestStops, DestroyOrphan, Kill, PowerCut, vars, Standby
<1>4. CASE Standby \subseteq running
  BY <1>3, <1>4 DEF Rising
<1>5. CASE ~(Standby \subseteq running)
  <2> USE <1>5 DEF Rising
  <2>1. CASE UNCHANGED vars
    BY <1>3, <2>1 DEF vars, UpTo
  <2>2. CASE Boot \/ \E rehearsal \in BOOLEAN : Rerun(rehearsal)
    BY <1>3, <2>2 DEF Boot, Rerun
  <2>3. CASE List
    <3>1. plan' \in Seq(Standby) /\ \A i \in 1..Len(plan') : plan'[i] \in Standby
      BY <1>1, <2>3, PlanIs DEF List, TypeOK
    <3>2. running' = {} /\ at' = 1 /\ dry' = dry /\ ~dry
      BY <2>3 DEF List
    <3>3. UpTo(0)' = {}
      BY DEF UpTo
    <3>4. CASE Standby = {}
      BY <1>3, <3>4
    <3>5. CASE Standby # {}
      BY <1>3, <2>3, <3>1, <3>2, <3>3, <3>5 DEF List
    <3>6. QED
      BY <3>4, <3>5
  <2>4. CASE pc = "start" /\ ~dry
    <3>1. /\ at \in 1..Len(plan) /\ plan[at] \in Standby
          /\ running = UpTo(at - 1)
      BY <2>4 DEF Brings, Planned
    <3>2. plan[at] \notin running
      <4>1. \A i \in 1..(at - 1) : Before(plan[i], plan[at]) /\ i \in 1..Len(plan)
        BY <1>1, <2>4, <3>1 DEF Brings, Planned
      <4>2. ~Before(plan[at], plan[at])
        BY <1>1, <3>1, BeforeIsTotal DEF TypeOK, Standby
      <4>3. QED
        BY <3>1, <4>1, <4>2 DEF UpTo
    <3>3. ~NotStartable
      BY <3>1, <3>2 DEF NotStartable
    <3>4. CASE StartVM
      <4>1. /\ running' = running \cup {plan[at]} /\ pc' = AfterStart
            /\ plan' = plan /\ at' = at /\ dry' = dry
        BY <3>4 DEF StartVM
      <4>2. running' = UpTo(at) /\ UpTo(at) = UpTo(at)'
        BY <1>1, <3>1, <4>1 DEF UpTo
      <4>3. CASE at = Len(plan)
        <5>1. Standby \subseteq UpTo(at)
          BY <2>4, <4>3 DEF Brings, Planned, UpTo
        <5>2. QED
          BY <1>3, <4>2, <5>1
      <4>4. CASE at # Len(plan)
        BY <1>3, <2>4, <4>1, <4>2, <4>4 DEF AfterStart
      <4>5. QED
        BY <4>3, <4>4
    <3>5. QED
      BY <1>3, <2>1, <2>2, <2>3, <2>4, <3>3, <3>4
         DEF Advance, StartDry, Sleep, NextGuest
  <2>5. CASE pc = "wait" /\ ~dry
    <3>1. CASE Sleep
      BY <1>3, <2>5, <3>1 DEF Sleep, UpTo
    <3>2. CASE NextGuest
      <4>1. pc' = "start" /\ at' - 1 = at /\ UNCHANGED <<dry, plan, running>>
        BY <1>1, <3>2 DEF NextGuest
      <4>2. UpTo(at - 1)' = UpTo(at)
        BY <4>1 DEF UpTo
      <4>3. running' = UpTo(at - 1)' /\ \A i \in 1..Len(plan') : plan'[i] \in Standby'
        BY <1>3, <2>5, <4>1, <4>2
      <4>4. QED
        BY <1>3, <2>5, <4>1, <4>3
    <3>3. QED
      BY <1>3, <2>1, <2>2, <2>3, <2>5, <3>1, <3>2
         DEF Advance, StartDry, StartVM, NotStartable
  <2>6. QED
    BY <1>3, <2>1, <2>2, <2>3, <2>4, <2>5
       DEF Advance, StartDry, StartVM, NotStartable, Sleep, NextGuest
<1>6. QED
  BY <1>4, <1>5

\* Once nothing fails any more, a power-on, and any rerun and rehearsal after it,
\* leaves no guest down at its end: the half of BootBringsAllUp that needs no
\* fairness (emergency.py:52-60, proxmox.py:193-213).
THEOREM NoneLeftBehind == Spec => BootLeavesNoneBehind
<1>1. Dark /\ pc = "off" /\ faults = MaxFaults => Rising
  BY DEF Dark, Rising
<1>2. Brings /\ Rising /\ [Next]_vars => Rising'
  BY RisingStep
<1>3. Rising => (pc \in {"done", "failed"} => Standby \subseteq running)
  BY DEF Rising
<1>4. QED
  BY <1>1, <1>2, <1>3, DarkInvariant, BringsInvariant, PTL DEF BootLeavesNoneBehind, Spec
=============================================================================
