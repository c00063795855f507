-------------------------- MODULE DiscoveryProofs ---------------------------
(***************************************************************************)
(* Proofs about module Discovery, for every value of its constants:        *)
(* TypeOK, NotDeclaredDownEarly, DeclaredDownInTime,                        *)
(* BadGroupOffersNothingNew.                                               *)
(***************************************************************************)
EXTENDS Discovery, TLAPS

-----------------------------------------------------------------------------
(* Counting polls                                                          *)

\* The folds that compute Min and Max, for the two elements used here.
LEMMA MinMaxOfTwo ==
  ASSUME NEW a \in Int, NEW b \in Int
  PROVE  /\ Min({a, b}) = IF a <= b THEN a ELSE b
         /\ Max({a, b}) = IF a >= b THEN a ELSE b
BY DEF Min, Max

\* A timeout only grows under the startup protection.
LEMMA Stretched ==
  ASSUME NEW a \in Nat, NEW m \in Nat \ {0}
  PROVE  a * m \in Nat /\ a <= a * m
<1>1. m - 1 \in Nat /\ a * (m - 1) \in Nat
  OBVIOUS
<1>2. a * m = a + a * (m - 1)
  OBVIOUS
<1> QED
  BY <1>1, <1>2

\* The timeouts in polls, with the protection of a pod that starts.
U == UnreadyTimeout * StartupProtectionMultiplier
P == PermanentDownTimeout * StartupProtectionMultiplier

\* The two bounds of the counters leave room for both timeouts.
LEMMA CounterBounds ==
  /\ U \in Nat /\ P \in Nat
  /\ UnreadyTimeout <= U /\ PermanentDownTimeout <= P
  /\ MaxSince \in Nat /\ MaxSince > U /\ MaxSince > P /\ MaxSince <= U + P + 1
  /\ MaxQuiet \in Nat /\ MaxQuiet = U + P + 3
<1>1. /\ UnreadyTimeout \in Nat /\ PermanentDownTimeout \in Nat
      /\ StartupProtectionMultiplier \in Nat \ {0}
  BY DiscoveryAssumption
<1>2. U \in Nat /\ P \in Nat /\ UnreadyTimeout <= U /\ PermanentDownTimeout <= P
  BY <1>1, Stretched DEF U, P
<1>3. MaxSince = (IF UnreadyTimeout >= PermanentDownTimeout THEN U ELSE P) + 1
  <2> DEFINE m == Max({UnreadyTimeout, PermanentDownTimeout})
  <2>1. m = IF UnreadyTimeout >= PermanentDownTimeout
            THEN UnreadyTimeout ELSE PermanentDownTimeout
    BY <1>1, MinMaxOfTwo
  <2>2. MaxSince = m * StartupProtectionMultiplier + 1
    BY DEF MaxSince
  <2> HIDE DEF m
  <2> QED
    BY <2>1, <2>2 DEF U, P
<1>4. UnreadyTimeout >= PermanentDownTimeout => U >= P
  <2> SUFFICES ASSUME UnreadyTimeout >= PermanentDownTimeout PROVE U >= P
    OBVIOUS
  <2>1. UnreadyTimeout - PermanentDownTimeout \in Nat
    BY <1>1
  <2>2. (UnreadyTimeout - PermanentDownTimeout) * StartupProtectionMultiplier \in Nat
    BY <2>1, <1>1, Stretched
  <2>3. (UnreadyTimeout - PermanentDownTimeout) * StartupProtectionMultiplier = U - P
    BY <1>1 DEF U, P
  <2> QED
    BY <2>2, <2>3, <1>2
<1>5. PermanentDownTimeout >= UnreadyTimeout => P >= U
  <2> SUFFICES ASSUME PermanentDownTimeout >= UnreadyTimeout PROVE P >= U
    OBVIOUS
  <2>1. PermanentDownTimeout - UnreadyTimeout \in Nat
    BY <1>1
  <2>2. (PermanentDownTimeout - UnreadyTimeout) * StartupProtectionMultiplier \in Nat
    BY <2>1, <1>1, Stretched
  <2>3. (PermanentDownTimeout - UnreadyTimeout) * StartupProtectionMultiplier = P - U
    BY <1>1 DEF U, P
  <2> QED
    BY <2>2, <2>3, <1>2
<1>6. MaxQuiet = U + P + 3
  BY <1>1 DEF MaxQuiet, U, P
<1> QED
  BY <1>1, <1>2, <1>3, <1>4, <1>5, <1>6

-----------------------------------------------------------------------------
(* The monitor                                                             *)

\* What the view of the pod says about the polls it has not been ready in.
\* While the pod is Unknown or Ready they are no more than the polls since the
\* status changed, one more for the first poll of a monitor.  An Unready pod has
\* been so since its status changed, and that took it no longer than the first
\* timeout.
MonitorInv ==
  /\ mon.status = "none" => quiet = 0
  /\ mon.status \in {"Unknown", "Ready"} => quiet <= mon.since + 1 /\ quiet <= U + 1
  /\ mon.status = "Unready" => /\ mon.since + 1 <= quiet
                               /\ quiet <= U + 2 + mon.since
                               /\ mon.since <= P
  /\ mon.status = "PermanentDown" => quiet > PermanentDownTimeout + 1

\* The types of the view and of its clock.
MonitorTypes ==
  /\ mon \in [status : {"none", "Unknown", "Ready", "Unready", "PermanentDown"},
              since : 0 .. MaxSince, wasReady : BOOLEAN]
  /\ quiet \in 0 .. MaxQuiet
WatchType == watch \in [polls : Nat, postponed : Nat, declared : BOOLEAN]

\* Until the node is declared down, each failed poll and each restart accounts for no
\* more polls than the clock may show.
WatchInv ==
  /\ watch.declared => watch = Declared
  /\ ~watch.declared => /\ mon.status # "PermanentDown"
                        /\ watch.polls <= watch.postponed * MaxQuiet + quiet

\* podIsUnderStartupProtection: a timeout is stretched to its protected length
\* or not at all.
LEMMA MultiplierBounds ==
  /\ UnreadyTimeout * Multiplier \in Nat
  /\ UnreadyTimeout <= UnreadyTimeout * Multiplier /\ UnreadyTimeout * Multiplier <= U
  /\ PermanentDownTimeout * Multiplier \in Nat
  /\ PermanentDownTimeout <= PermanentDownTimeout * Multiplier
  /\ PermanentDownTimeout * Multiplier <= P
<1>1. /\ UnreadyTimeout \in Nat /\ PermanentDownTimeout \in Nat
      /\ StartupProtectionMultiplier \in Nat \ {0}
  BY DiscoveryAssumption
<1>2. CASE Multiplier = 1
  <2>1. /\ UnreadyTimeout * Multiplier = UnreadyTimeout
        /\ PermanentDownTimeout * Multiplier = PermanentDownTimeout
    BY <1>1, <1>2
  <2> QED
    BY <1>1, <2>1, CounterBounds
<1>3. CASE Multiplier = StartupProtectionMultiplier
  BY <1>1, <1>3, CounterBounds DEF U, P
<1> QED
  BY <1>2, <1>3 DEF Multiplier

\* The cases of calculatePodStatus.
LEMMA PodStatus ==
  ASSUME NEW s \in {"Unknown", "Ready", "Unready", "PermanentDown"}, NEW n
  PROVE  /\ pod.ready => CalculatePodStatus(s, n) = "Ready"
         /\ ~pod.ready /\ s \in {"Unknown", "Ready"} =>
              CalculatePodStatus(s, n) = IF n > UnreadyTimeout * Multiplier THEN "Unready" ELSE s
         /\ ~pod.ready /\ s = "Unready" =>
              CalculatePodStatus(s, n)
                = IF n > PermanentDownTimeout * Multiplier THEN "PermanentDown" ELSE s
         /\ ~pod.ready /\ s = "PermanentDown" => CalculatePodStatus(s, n) = s
<1> DEFINE u == n > UnreadyTimeout * Multiplier
           p == n > PermanentDownTimeout * Multiplier
           status == CASE pod.ready -> "Ready"
                       [] ~pod.ready /\ s \in {"Unknown", "Ready"} -> IF u THEN "Unready" ELSE s
                       [] ~pod.ready /\ s = "Unready" -> IF p THEN "PermanentDown" ELSE s
                       [] OTHER -> s
<1>1. CalculatePodStatus(s, n) = status
  BY DEF CalculatePodStatus
<1> HIDE DEF u, p
<1>2. pod.ready => status = "Ready"
  BY Zenon
<1>3. ~pod.ready /\ s \in {"Unknown", "Ready"} => status = IF u THEN "Unready" ELSE s
  BY Zenon
<1>4. ~pod.ready /\ s = "Unready" => status = IF p THEN "PermanentDown" ELSE s
  BY Zenon
<1>5. ~pod.ready /\ s = "PermanentDown" => status = s
  BY Zenon
<1> QED
  BY <1>1, <1>2, <1>3, <1>4, <1>5 DEF u, p

\* One poll: UpdateNodeHealthCache.
LEMMA PollStep ==
  ASSUME MonitorTypes, MonitorInv, UpdateNodeHealthCache
  PROVE  MonitorTypes' /\ MonitorInv'
<1> DEFINE old == IF mon.status = "none" THEN "Unknown" ELSE mon.status
           passed == IF mon.status = "none" THEN 0
                     ELSE IF mon.since + 1 <= MaxSince THEN mon.since + 1 ELSE MaxSince
           status == CalculatePodStatus(old, passed)
<1>1. /\ mon.status \in {"none", "Unknown", "Ready", "Unready", "PermanentDown"}
      /\ mon.since \in Nat /\ mon.since <= MaxSince /\ mon.wasReady \in BOOLEAN
      /\ quiet \in Nat /\ quiet <= MaxQuiet
      /\ MaxSince \in Nat /\ MaxQuiet \in Nat
  BY CounterBounds DEF MonitorTypes
<1>2. passed \in Nat /\ passed <= MaxSince
  BY <1>1
<1>3. /\ mon' = [status |-> status, wasReady |-> mon.wasReady \/ pod.ready,
                 since |-> IF status # old THEN 0 ELSE passed]
      /\ quiet' = IF pod.ready THEN 0 ELSE IF quiet + 1 <= MaxQuiet THEN quiet + 1 ELSE MaxQuiet
  <2>1. /\ Min({mon.since + 1, MaxSince})
             = IF mon.since + 1 <= MaxSince THEN mon.since + 1 ELSE MaxSince
        /\ Min({quiet + 1, MaxQuiet})
             = IF quiet + 1 <= MaxQuiet THEN quiet + 1 ELSE MaxQuiet
    BY <1>1, MinMaxOfTwo
  <2>2. [mon EXCEPT !.status = "Unknown"].status = "Unknown"
    BY DEF MonitorTypes
  <2> QED
    BY <2>1, <2>2 DEF UpdateNodeHealthCache, Watched
<1>4. /\ mon'.status = status
      /\ mon'.since = IF status # old THEN 0 ELSE passed
  BY <1>3
<1>5. /\ old = (IF mon.status = "none" THEN "Unknown" ELSE mon.status)
      /\ passed = (IF mon.status = "none" THEN 0
                   ELSE IF mon.since + 1 <= MaxSince THEN mon.since + 1 ELSE MaxSince)
      /\ pod.ready => status = "Ready"
      /\ ~pod.ready /\ old \in {"Unknown", "Ready"} =>
           status = IF passed > UnreadyTimeout * Multiplier THEN "Unready" ELSE old
      /\ ~pod.ready /\ old = "Unready" =>
           status = IF passed > PermanentDownTimeout * Multiplier THEN "PermanentDown" ELSE old
      /\ ~pod.ready /\ old = "PermanentDown" => status = old
  <2>1. old \in {"Unknown", "Ready", "Unready", "PermanentDown"}
    BY <1>1
  <2> HIDE DEF old, passed
  <2>2. /\ pod.ready => status = "Ready"
        /\ ~pod.ready /\ old \in {"Unknown", "Ready"} =>
             status = IF passed > UnreadyTimeout * Multiplier THEN "Unready" ELSE old
        /\ ~pod.ready /\ old = "Unready" =>
             status = IF passed > PermanentDownTimeout * Multiplier
                      THEN "PermanentDown" ELSE old
        /\ ~pod.ready /\ old = "PermanentDown" => status = old
    BY <2>1, PodStatus
  <2> QED
    BY <2>2 DEF old, passed
<1> HIDE DEF status, passed, old
<1>6. MonitorTypes'
  <2>1. mon'.since \in 0 .. MaxSince
    BY <1>1, <1>2, <1>4
  <2>2. quiet' \in 0 .. MaxQuiet
    BY <1>1, <1>3
  <2>3. (mon.wasReady \/ pod.ready) \in BOOLEAN
    OBVIOUS
  <2>4. status \in {"Unknown", "Ready", "Unready", "PermanentDown"}
    BY <1>1, <1>5
  <2> QED
    BY <1>3, <1>4, <2>1, <2>2, <2>3, <2>4 DEF MonitorTypes
<1> SUFFICES MonitorInv'
  BY <1>6
<1>7. CASE pod.ready
  <2>1. status = "Ready" /\ quiet' = 0
    BY <1>3, <1>5, <1>7
  <2> QED
    BY <1>1, <1>2, <1>4, <2>1, CounterBounds DEF MonitorInv
<1>8. CASE ~pod.ready
  <2>1. quiet' = IF quiet + 1 <= MaxQuiet THEN quiet + 1 ELSE MaxQuiet
    BY <1>3, <1>8
  <2> DEFINE u == UnreadyTimeout * Multiplier
             p == PermanentDownTimeout * Multiplier
  <2>2. /\ u \in Nat /\ UnreadyTimeout <= u /\ u <= U
        /\ p \in Nat /\ PermanentDownTimeout <= p /\ p <= P
    BY MultiplierBounds
  <2>3. /\ old \in {"Unknown", "Ready"} => status = IF passed > u THEN "Unready" ELSE old
        /\ old = "Unready" => status = IF passed > p THEN "PermanentDown" ELSE old
        /\ old = "PermanentDown" => status = old
    BY <1>5, <1>8
  <2> HIDE DEF u, p
  <2>4. /\ U \in Nat /\ P \in Nat /\ MaxSince > U /\ MaxSince > P /\ MaxQuiet = U + P + 3
        /\ PermanentDownTimeout \in Nat /\ PermanentDownTimeout <= P
        /\ UnreadyTimeout \in Nat \ {0} /\ MaxSince <= U + P + 1
    BY CounterBounds, DiscoveryAssumption
  <2>5. CASE mon.status = "none"
    <3>1. quiet' = 1 /\ passed = 0 /\ old = "Unknown"
      BY <1>1, <1>5, <2>1, <2>4, <2>5 DEF MonitorInv
    <3>2. status = "Unknown"
      BY <3>1, <2>2, <2>3
    <3> QED
      BY <1>4, <3>1, <3>2, <2>4 DEF MonitorInv
  <2>6. CASE mon.status \in {"Unknown", "Ready"}
    <3>1. /\ old = mon.status /\ quiet <= mon.since + 1 /\ quiet <= U + 1
      BY <1>5, <2>6 DEF MonitorInv
    <3>2. passed = (IF mon.since + 1 <= MaxSince THEN mon.since + 1 ELSE MaxSince)
      BY <1>5, <2>6
    <3>3. CASE passed > u
      <4>1. status = "Unready"
        BY <3>1, <2>3, <3>3, <2>6
      <4>2. mon'.since = 0 /\ mon'.status = "Unready"
        BY <1>4, <3>1, <4>1, <2>6
      <4>3. quiet' = quiet + 1
        BY <2>1, <3>1, <2>4, <1>1
      <4> QED
        BY <4>2, <4>3, <3>1, <2>4, <1>1 DEF MonitorInv
    <3>4. CASE ~(passed > u)
      <4>1. status = mon.status
        BY <3>1, <2>3, <3>4, <2>6
      <4>2. passed = mon.since + 1
        BY <3>2, <3>4, <2>2, <2>4, <1>1
      <4>3. mon'.since = mon.since + 1 /\ mon'.status = mon.status /\ mon.since + 1 <= U
        BY <1>4, <3>1, <3>4, <4>1, <4>2, <2>2, <2>4, <1>1
      <4>4. quiet' = quiet + 1
        BY <2>1, <3>1, <2>4, <1>1
      <4> QED
        BY <4>3, <4>4, <3>1, <2>4, <2>6, <1>1 DEF MonitorInv
    <3> QED
      BY <3>3, <3>4
  <2>7. CASE mon.status = "Unready"
    <3>1. /\ old = "Unready" /\ mon.since + 1 <= quiet /\ quiet <= U + 2 + mon.since
          /\ mon.since <= P
      BY <1>5, <2>7 DEF MonitorInv
    <3>2. passed = mon.since + 1
      BY <1>5, <2>7, <3>1, <2>4, <1>1
    <3>3. CASE passed > p
      <4>1. mon'.status = "PermanentDown"
        BY <1>4, <2>3, <3>1, <3>3
      <4>2. mon.since + 1 > PermanentDownTimeout
        BY <3>2, <3>3, <2>2, <2>4, <1>1
      <4>3. quiet' >= PermanentDownTimeout + 2
        BY <4>2, <3>1, <2>1, <2>4, <1>1
      <4>4. quiet' \in Nat
        BY <2>1, <1>1
      <4> QED
        BY <4>1, <4>3, <4>4, <2>4 DEF MonitorInv
    <3>4. CASE ~(passed > p)
      <4>1. mon'.status = "Unready" /\ mon'.since = mon.since + 1
        BY <1>4, <2>3, <3>1, <3>2, <3>4
      <4>2. mon.since + 1 <= P
        BY <3>2, <3>4, <2>2, <2>4, <1>1
      <4>3. quiet' = quiet + 1
        BY <2>1, <3>1, <2>4, <4>2, <1>1
      <4> QED
        BY <4>1, <4>2, <4>3, <3>1, <2>4, <1>1 DEF MonitorInv
    <3> QED
      BY <3>3, <3>4
  <2>8. CASE mon.status = "PermanentDown"
    <3>1. mon'.status = "PermanentDown" /\ quiet > PermanentDownTimeout + 1
      BY <1>4, <1>5, <2>3, <2>8 DEF MonitorInv
    <3>2. quiet' > PermanentDownTimeout + 1
      BY <3>1, <2>1, <2>4, <1>1
    <3> QED
      BY <3>1, <3>2 DEF MonitorInv
  <2> QED
    BY <1>1, <2>5, <2>6, <2>7, <2>8
<1> QED
  BY <1>7, <1>8

\* The clock of a node that is not declared down has not run out.
LEMMA NotYetDown ==
  ASSUME MonitorTypes, MonitorInv, mon.status # "PermanentDown"
  PROVE  quiet < MaxQuiet
<1>1. /\ mon.status \in {"none", "Unknown", "Ready", "Unready", "PermanentDown"}
      /\ mon.since \in Nat /\ quiet \in Nat
  BY CounterBounds DEF MonitorTypes
<1>2. U \in Nat /\ P \in Nat /\ MaxQuiet = U + P + 3
  BY CounterBounds
<1> QED
  BY <1>1, <1>2 DEF MonitorInv

\* A product is counted up by one factor.
LEMMA OneMore == ASSUME NEW m \in Nat, NEW n \in Nat PROVE n * m \in Nat /\ (n + 1) * m = n * m + m
OBVIOUS

\* A poll counts once, in the clock and in the polls.
LEMMA WatchPoll ==
  ASSUME MonitorTypes, MonitorInv, WatchType, WatchInv, UpdateNodeHealthCache
  PROVE  WatchType' /\ WatchInv'
<1>1. PICK status : mon'.status = status /\ Watched(status)
  BY DEF UpdateNodeHealthCache
<1>2. /\ quiet \in Nat /\ quiet <= MaxQuiet /\ MaxQuiet \in Nat /\ MaxPolls \in Nat
      /\ watch.polls \in Nat /\ watch.postponed \in Nat /\ watch.postponed * MaxQuiet \in Nat
  BY CounterBounds, OneMore, DiscoveryAssumption DEF MonitorTypes, WatchType, MaxPolls
<1>3. CASE pod.ready
  <2>1. watch' = NewWatch /\ quiet' = 0
    BY <1>1, <1>3 DEF Watched
  <2>2. mon'.status = "Ready"
    <3> DEFINE old == IF mon.status = "none" THEN "Unknown" ELSE mon.status
               passed == IF mon.status = "none" THEN 0 ELSE Min({mon.since + 1, MaxSince})
    <3>1. [mon EXCEPT !.status = "Unknown"].status = "Unknown"
      BY DEF MonitorTypes
    <3>2. mon'.status = CalculatePodStatus(old, passed)
      BY <3>1 DEF UpdateNodeHealthCache
    <3>3. old \in {"Unknown", "Ready", "Unready", "PermanentDown"}
      BY DEF MonitorTypes
    <3> HIDE DEF old, passed
    <3> QED
      BY <1>3, <3>2, <3>3, PodStatus
  <2> QED
    BY <1>2, <2>1, <2>2 DEF WatchType, WatchInv, NewWatch
<1>4. CASE ~pod.ready /\ (watch.declared \/ status = "PermanentDown")
  <2>1. watch' = Declared
    BY <1>1, <1>4 DEF Watched
  <2> QED
    BY <2>1 DEF WatchType, WatchInv, Declared
<1>5. CASE ~pod.ready /\ ~watch.declared /\ status # "PermanentDown"
  <2> DEFINE polls == Min({watch.polls + 1, MaxPolls})
  <2>1. watch' = [watch EXCEPT !.polls = polls]
    BY <1>1, <1>5 DEF Watched
  <2>2. polls \in Nat /\ polls <= watch.polls + 1
    BY <1>2, MinMaxOfTwo
  <2>3. quiet' = quiet + 1
    <3>1. mon.status # "PermanentDown"
      BY <1>5 DEF WatchInv
    <3>2. quiet + 1 <= MaxQuiet
      BY <1>2, <3>1, NotYetDown
    <3>3. Min({quiet + 1, MaxQuiet}) = quiet + 1
      BY <1>2, <3>2, MinMaxOfTwo
    <3> QED
      BY <1>1, <1>5, <3>3 DEF Watched
  <2> HIDE DEF polls
  <2>4. /\ watch'.polls = polls /\ watch'.postponed = watch.postponed
        /\ watch'.declared = watch.declared /\ WatchType'
    BY <2>1, <2>2 DEF WatchType
  <2>5. polls <= watch.postponed * MaxQuiet + (quiet + 1)
    BY <1>2, <1>5, <2>2 DEF WatchInv
  <2> QED
    BY <1>1, <1>5, <2>3, <2>4, <2>5 DEF WatchInv
<1> QED
  BY <1>3, <1>4, <1>5

\* A failed poll or a restart counts as postponed what the clock has shown.
LEMMA WatchPostponed ==
  ASSUME MonitorTypes, WatchType, WatchInv, Postponed, mon'.status # "PermanentDown"
  PROVE  WatchType' /\ WatchInv'
<1>1. CASE watch.declared
  BY <1>1 DEF Postponed, WatchInv, WatchType, Declared
<1>2. CASE ~watch.declared
  <2>1. watch' = [watch EXCEPT !.postponed = @ + 1] /\ quiet' = 0
    BY <1>2 DEF Postponed
  <2>2. /\ watch'.polls = watch.polls /\ watch'.postponed = watch.postponed + 1
        /\ watch'.declared = watch.declared /\ WatchType'
    BY <2>1 DEF WatchType
  <2>3. /\ quiet \in Nat /\ quiet <= MaxQuiet /\ MaxQuiet \in Nat
        /\ watch.polls \in Nat /\ watch.postponed \in Nat
    BY CounterBounds DEF MonitorTypes, WatchType
  <2>4. watch.polls <= (watch.postponed + 1) * MaxQuiet + 0
    BY <1>2, <2>3, OneMore DEF WatchInv
  <2> QED
    BY <1>2, <2>1, <2>2, <2>4 DEF WatchInv
<1> QED
  BY <1>1, <1>2

-----------------------------------------------------------------------------
(* Types                                                                   *)

\* TypeOK in parts.
WorldType ==
  /\ system \subseteq Drive
  /\ hw \in [Drive -> [present : BOOLEAN, health : Health, data : Data]]
  /\ placed \subseteq Drive
  /\ pod \in [listed : BOOLEAN, ready : BOOLEAN, starting : BOOLEAN]
  /\ taken \in Nat
CrType == cr \in [Drive -> DriveState]
ACType ==
  /\ ac \in [Drive -> {"none", "zero", "full"}]
  /\ label \subseteq {d \in Drive : ac[d] # "none"}
LvgState == [pv : {"none", "orphan", "vg"}, known : BOOLEAN, health : Health,
             ac : Int, event : BOOLEAN]
LvgType == lvg \in LvgState /\ given \in Nat
CapState == [drive : Drive \cup {"none"}, known : BOOLEAN, accessible : BOOLEAN,
             clean : BOOLEAN, taint : BOOLEAN]
CapType == cap \in CapState
UpdType == upd \in {"idle", "acs", "acs, then drives", "drives"}
ChangesType == changes \in 0 .. MaxChanges

\* TypeOK is the conjunction of its parts, so that a step shows only those it
\* touches.
LEMMA TypeParts ==
  /\ TypeOK <=> /\ WorldType /\ CrType /\ ACType /\ LvgType /\ CapType
                /\ MonitorTypes /\ WatchType /\ UpdType /\ ChangesType
  /\ TypeOK' <=> /\ WorldType' /\ CrType' /\ ACType' /\ LvgType' /\ CapType'
                 /\ MonitorTypes' /\ WatchType' /\ UpdType' /\ ChangesType'
BY Zenon DEF TypeOK, WorldType, CrType, ACType, LvgType, LvgState, CapType, CapState,
             MonitorTypes, WatchType, UpdType, ChangesType

\* A bounded input leaves the counter of the inputs within its bound.
LEMMA Spending == ASSUME ChangesType, Spend PROVE ChangesType'
BY DiscoveryAssumption DEF ChangesType, Spend

\* A part of TypeOK whose variables do not change is kept.
LEMMA UnchangedTypes ==
  /\ WorldType /\ UNCHANGED node => WorldType'
  /\ CrType /\ UNCHANGED cr => CrType'
  /\ ACType /\ UNCHANGED <<ac, label>> => ACType'
  /\ LvgType /\ UNCHANGED group => LvgType'
  /\ CapType /\ UNCHANGED cap => CapType'
  /\ MonitorTypes /\ UNCHANGED <<mon, quiet>> => MonitorTypes'
  /\ WatchType /\ UNCHANGED watch => WatchType'
  /\ UpdType /\ UNCHANGED upd => UpdType'
  /\ ChangesType /\ UNCHANGED changes => ChangesType'
<1>1. WorldType /\ UNCHANGED node => WorldType'
  BY DEF WorldType, node
<1>2. CrType /\ UNCHANGED cr => CrType'
  BY DEF CrType
<1>3. ACType /\ UNCHANGED <<ac, label>> => ACType'
  BY DEF ACType
<1>4. LvgType /\ UNCHANGED group => LvgType'
  BY DEF LvgType, group
<1>5. CapType /\ UNCHANGED cap => CapType'
  BY DEF CapType
<1>6. MonitorTypes /\ UNCHANGED <<mon, quiet>> => MonitorTypes'
  BY DEF MonitorTypes
<1>7. UpdType /\ UNCHANGED upd => UpdType'
  BY DEF UpdType
<1>8. ChangesType /\ UNCHANGED changes => ChangesType'
  BY DEF ChangesType
<1>9. WatchType /\ UNCHANGED watch => WatchType'
  BY DEF WatchType
<1> QED
  BY <1>1, <1>2, <1>3, <1>4, <1>5, <1>6, <1>7, <1>8, <1>9

\* What Discover writes for a drive is a Drive object.
LEMMA ReportedType ==
  ASSUME TypeOK, NEW d \in Drive
  PROVE  Reported(d) \in DriveState /\ NewDrive(d) \in DriveState
<1>1. cr[d] \in DriveState
  BY TypeParts DEF CrType
<1>2. hw[d].health \in Health
  BY TypeParts DEF WorldType
<1>3. /\ OverrideDriveHealth(d, hw[d].health) \in Health
      /\ OverrideDriveHealth(d, "UNKNOWN") \in Health
  BY <1>1, <1>2, DiscoveryAssumption DEF OverrideDriveHealth, DriveState, Health
<1>4. NewDrive(d) \in DriveState
  BY <1>2 DEF NewDrive, DriveState
<1> QED
  BY <1>1, <1>3, <1>4 DEF Reported, DriveState

\* Discover writes Drive objects and the group.
LEMMA DiscoverType ==
  ASSUME TypeOK, NEW d \in Drive, Discover(d)
  PROVE  TypeOK'
<1>1. cr \in [Drive -> DriveState] /\ lvg \in LvgState
  BY TypeParts DEF CrType, LvgType
<1>0. given \in Nat
  BY TypeParts DEF LvgType
<1>2. CASE UpdateDrivesCRs(d)
  <2>1. cr' = [cr EXCEPT ![d] = Reported(d)]
    BY <1>2 DEF UpdateDrivesCRs
  <2>2. CrType' /\ cr'[d].health \in Health
    BY <1>1, <2>1, ReportedType DEF CrType, DriveState
  <2>3. (lvg.event \/ LVGEvent(lvg.health, cr'[d].health)) \in BOOLEAN
    OBVIOUS
  <2>4. LvgType'
    BY <1>0, <1>1, <1>2, <2>2, <2>3 DEF UpdateDrivesCRs, LvgType, LvgState
  <2> QED
    BY <1>2, <2>2, <2>4, TypeParts, UnchangedTypes DEF UpdateDrivesCRs, monitor
<1>3. CASE DiscoverDataOnDrives(d)
  <2> DEFINE clean == d \notin placed /\ ~DiscoverData(d)
  <2>1. clean \in BOOLEAN /\ cr' = [cr EXCEPT ![d].clean = clean]
    BY <1>3, Zenon DEF DiscoverDataOnDrives, ChangeDriveIsCleanField
  <2> HIDE DEF clean
  <2>2. CrType'
    BY <1>1, <2>1 DEF CrType, DriveState
  <2> QED
    BY <1>3, <2>2, TypeParts, UnchangedTypes DEF DiscoverDataOnDrives, monitor
<1>4. CASE DiscoverLVGOnSystemDrive(d)
  <2>1. CrType'
    BY <1>1, <1>4 DEF DiscoverLVGOnSystemDrive, CrType, DriveState
  <2>2. LvgType'
    BY <1>0, <1>1, <1>4 DEF DiscoverLVGOnSystemDrive, LvgType, LvgState, Health
  <2> QED
    BY <1>4, <2>1, <2>2, TypeParts, UnchangedTypes DEF DiscoverLVGOnSystemDrive, monitor
<1> QED
  BY <1>2, <1>3, <1>4 DEF Discover

\* The new size of a group's AC.
LEMMA LVGCapacityType ==
  ASSUME LvgType, ACType, NEW d \in Drive, CreateOrUpdateLVGCapacity(d)
  PROVE  LvgType' /\ ACType'
<1> DEFINE size == CASE lvg.ac = NoAC -> FreeSpace
                     [] lvg.ac = FreeSpace -> lvg.ac
                     [] OTHER -> lvg.ac + FreeSpace
<1>1. FreeSpace \in Int /\ lvg.ac \in Int /\ lvg.ac + FreeSpace \in Int
  BY DiscoveryAssumption DEF LvgType, LvgState
<1>2. size = FreeSpace \/ size = lvg.ac \/ size = lvg.ac + FreeSpace
  BY Zenon
<1>3. lvg' = [lvg EXCEPT !.event = FALSE, !.ac = size]
  BY Zenon DEF CreateOrUpdateLVGCapacity, GetVgFreeSpace
<1> HIDE DEF size
<1>4. size \in Int
  BY <1>1, <1>2
<1>5. LvgType'
  BY <1>3, <1>4 DEF LvgType, LvgState, CreateOrUpdateLVGCapacity
<1>6. ac' = (IF lvg.ac = NoAC THEN [ac EXCEPT ![d] = "none"] ELSE ac)
      /\ label' = (IF lvg.ac = NoAC THEN label \ {d} ELSE label)
  BY DEF CreateOrUpdateLVGCapacity
<1>7. ACType'
  BY <1>6 DEF ACType
<1> QED
  BY <1>5, <1>7

\* The capacity controller writes ACs, their labels and what it has read.
LEMMA CapacityControllerType ==
  ASSUME TypeOK, NEW d \in Drive, CapacityController(d)
  PROVE  TypeOK'
<1>1. ACType /\ LvgType /\ CapType /\ CrType
  BY TypeParts
<1>2. Idle \in CapState
  BY DEF Idle, CapState
<1>3. CASE CapRead(d)
  <2>1. Accessible(cr[d]) \in BOOLEAN
    BY DEF Accessible
  <2>2. cr[d].clean \in BOOLEAN /\ cr[d].taint \in BOOLEAN
    BY <1>1 DEF CrType, DriveState
  <2>3. CapType'
    BY <1>3, <2>1, <2>2 DEF CapRead, CapType, CapState
  <2> QED
    BY <1>3, <2>3, TypeParts, UnchangedTypes DEF CapRead, monitor
<1>4. CASE CreateOrUpdateCapacity(d)
  <2>1. ACType'
    BY <1>1, <1>4 DEF CreateOrUpdateCapacity, UpdateLabels, ACType
  <2>2. CapType'
    BY <1>2, <1>4 DEF CreateOrUpdateCapacity, CapType
  <2> QED
    BY <1>4, <2>1, <2>2, TypeParts, UnchangedTypes DEF CreateOrUpdateCapacity, monitor
<1>5. CASE HandleInaccessibleDrive(d)
  <2>1. ACType'
    BY <1>1, <1>5 DEF HandleInaccessibleDrive, UpdateLabels, ACType
  <2>2. CapType'
    BY <1>2, <1>5 DEF HandleInaccessibleDrive, CapType
  <2> QED
    BY <1>5, <2>1, <2>2, TypeParts, UnchangedTypes DEF HandleInaccessibleDrive, monitor
<1>6. CASE ReconcileLVG(d)
  <2>1. CASE CreateOrUpdateLVGCapacity(d)
    <3>1. LvgType' /\ ACType'
      BY <1>1, <2>1, LVGCapacityType
    <3> QED
      BY <1>6, <3>1, TypeParts, UnchangedTypes DEF ReconcileLVG, monitor
  <2>2. CASE ResetACSizeOfLVG
    <3> DEFINE size == IF lvg.ac = NoAC THEN NoAC ELSE 0
    <3>1. size \in Int /\ lvg' = [lvg EXCEPT !.event = FALSE, !.ac = size]
      BY <2>2 DEF ResetACSizeOfLVG, NoAC
    <3> HIDE DEF size
    <3>2. LvgType'
      BY <1>1, <2>2, <3>1 DEF LvgType, LvgState, ResetACSizeOfLVG
    <3> QED
      BY <1>6, <2>2, <3>2, TypeParts, UnchangedTypes DEF ReconcileLVG, ResetACSizeOfLVG, monitor
  <2> QED
    BY <1>6, <2>1, <2>2 DEF ReconcileLVG
<1> QED
  BY <1>3, <1>4, <1>5, <1>6 DEF CapacityController

\* The drive controller writes Drive objects, ACs and labels, and may delete what
\* the capacity controller has read.
LEMMA DriveControllerType ==
  ASSUME TypeOK, NEW d \in Drive, DriveController(d)
  PROVE  TypeOK'
<1>1. ACType /\ CapType /\ CrType /\ ChangesType
  BY TypeParts
<1>2. CASE UsageChanges(d)
  <2>1. CrType'
    BY <1>1, <1>2 DEF UsageChanges, CrType, DriveState
  <2>2. ChangesType'
    BY <1>1, <1>2, Spending, UnchangedTypes DEF UsageChanges
  <2> QED
    BY <1>2, <2>1, <2>2, TypeParts, UnchangedTypes DEF UsageChanges, monitor
<1>3. CASE HandleDriveLableUpdate(d)
  <2>1. ACType'
    BY <1>1, <1>3 DEF HandleDriveLableUpdate, ACType
  <2> QED
    BY <1>3, <2>1, TypeParts, UnchangedTypes DEF HandleDriveLableUpdate, monitor
<1>4. CASE RemoveDrive(d)
  <2>1. Unknown \in DriveState
    BY DEF Unknown, DriveState, Health
  <2>2. CrType'
    BY <1>1, <1>4, <2>1 DEF RemoveDrive, CrType
  <2>3. ACType'
    BY <1>1, <1>4 DEF RemoveDrive, ACType
  <2>4. CapType'
    BY <1>1, <1>4 DEF RemoveDrive, CapType, CapState
  <2> QED
    BY <1>4, <2>2, <2>3, <2>4, TypeParts, UnchangedTypes DEF RemoveDrive, monitor
<1> QED
  BY <1>2, <1>3, <1>4 DEF DriveController

\* The monitor's actions, next to a poll.
LEMMA MonitorType ==
  ASSUME TypeOK, UpdateNodeHealthCacheFails \/ UpdateCRs
  PROVE  TypeOK'
<1>1. MonitorTypes /\ WatchType /\ ChangesType /\ CrType /\ LvgType
  BY TypeParts
<1>2. CASE UpdateNodeHealthCacheFails
  <2> DEFINE n == 0 .. MaxSince
             q == 0 .. MaxQuiet
  <2>0. 0 \in n /\ 0 \in q
    BY CounterBounds
  <2> HIDE DEF n, q
  <2>1. MonitorTypes'
    <3>1. mon \in [status : {"none", "Unknown", "Ready", "Unready", "PermanentDown"},
                   since : n, wasReady : BOOLEAN]
      BY <1>1 DEF MonitorTypes, n
    <3>2. mon' \in [status : {"none", "Unknown", "Ready", "Unready", "PermanentDown"},
                    since : n, wasReady : BOOLEAN]
      BY <1>2, <2>0, <3>1 DEF UpdateNodeHealthCacheFails
    <3> QED
      BY <1>2, <2>0, <3>2 DEF UpdateNodeHealthCacheFails, Postponed, MonitorTypes, n, q
  <2>2. ChangesType'
    BY <1>1, <1>2, Spending DEF UpdateNodeHealthCacheFails
  <2>3. WatchType'
    BY <1>1, <1>2 DEF UpdateNodeHealthCacheFails, Postponed, WatchType
  <2> QED
    BY <1>2, <2>1, <2>2, <2>3, TypeParts, UnchangedTypes DEF UpdateNodeHealthCacheFails
<1>3. CASE UpdateCRsRead
  <2>1. UpdType'
    BY <1>3 DEF UpdateCRsRead, UpdType
  <2> QED
    BY <1>3, <2>1, TypeParts, UnchangedTypes DEF UpdateCRsRead
<1>4. CASE DeleteACs
  <2>1. UpdType'
    BY <1>4 DEF DeleteACs, UpdType
  <2>2. ACType'
    BY <1>4 DEF DeleteACs, ACType
  <2>3. LvgType'
    <3>1. NoAC \in Int
      BY DEF NoAC
    <3>2. lvg' = [lvg EXCEPT !.ac = NoAC]
      BY <1>4, Zenon DEF DeleteACs
    <3> QED
      BY <1>1, <1>4, <3>1, <3>2 DEF LvgType, LvgState, DeleteACs
  <2> QED
    BY <1>4, <2>1, <2>2, <2>3, TypeParts, UnchangedTypes DEF DeleteACs
<1>5. CASE MarkDrivesOffline
  <2>1. UpdType'
    BY <1>5 DEF MarkDrivesOffline, UpdType
  <2>2. ASSUME NEW d \in Drive
        PROVE  (IF cr[d].known THEN [cr[d] EXCEPT !.status = "OFFLINE"] ELSE cr[d]) \in DriveState
    BY <1>1 DEF CrType, DriveState
  <2>3. CrType'
    BY <1>5, <2>2 DEF MarkDrivesOffline, CrType
  <2> QED
    BY <1>5, <2>1, <2>3, TypeParts, UnchangedTypes DEF MarkDrivesOffline
<1> QED
  BY <1>2, <1>3, <1>4, <1>5 DEF UpdateCRs

\* Volumes take and give back drives and space of the group.
LEMMA PlacementType ==
  ASSUME TypeOK, (\E d \in Drive : PlaceVolume(d) \/ DeleteVolume(d)) \/ PlaceOnLVG \/ ReturnToLVG
  PROVE  TypeOK'
<1>1. WorldType /\ ACType /\ LvgType /\ ChangesType
  BY TypeParts
<1>2. ASSUME NEW d \in Drive, PlaceVolume(d) PROVE TypeOK'
  <2>1. hw' \in [Drive -> [present : BOOLEAN, health : Health, data : Data]]
    BY <1>1, <1>2 DEF PlaceVolume, WorldType, Data
  <2>2. placed' \subseteq Drive
    BY <1>1, <1>2 DEF PlaceVolume, WorldType
  <2>3. WorldType'
    BY <1>1, <1>2, <2>1, <2>2 DEF PlaceVolume, WorldType
  <2>4. ACType'
    BY <1>1, <1>2 DEF PlaceVolume, ACType
  <2>5. ChangesType'
    BY <1>1, <1>2, Spending DEF PlaceVolume
  <2> QED
    BY <1>2, <2>3, <2>4, <2>5, TypeParts, UnchangedTypes DEF PlaceVolume, monitor
<1>3. ASSUME NEW d \in Drive, DeleteVolume(d) PROVE TypeOK'
  <2>1. hw' \in [Drive -> [present : BOOLEAN, health : Health, data : Data]]
    BY <1>1, <1>3 DEF DeleteVolume, WorldType, Data
  <2>2. placed' \subseteq Drive
    BY <1>1, <1>3 DEF DeleteVolume, WorldType
  <2>3. WorldType'
    BY <1>1, <1>3, <2>1, <2>2 DEF DeleteVolume, WorldType
  <2> QED
    BY <1>3, <2>3, TypeParts, UnchangedTypes DEF DeleteVolume, monitor
<1>4. CASE PlaceOnLVG
  <2>1. LvgType'
    BY <1>1, <1>4 DEF PlaceOnLVG, LvgType, LvgState
  <2>2. WorldType'
    BY <1>1, <1>4 DEF PlaceOnLVG, WorldType
  <2>3. ChangesType'
    BY <1>1, <1>4, Spending DEF PlaceOnLVG
  <2> QED
    BY <1>4, <2>1, <2>2, <2>3, TypeParts, UnchangedTypes DEF PlaceOnLVG, monitor
<1>5. CASE ReturnToLVG
  <2>1. LvgType'
    BY <1>1, <1>5 DEF ReturnToLVG, LvgType, LvgState, group
  <2>2. WorldType'
    BY <1>1, <1>5 DEF ReturnToLVG, WorldType
  <2> QED
    BY <1>5, <2>1, <2>2, TypeParts, UnchangedTypes DEF ReturnToLVG, monitor
<1> QED
  BY <1>2, <1>3, <1>4, <1>5

\* Changes of the hardware, of users and of the pod, and a restart of the
\* controllers.
LEMMA WorldChangeType ==
  ASSUME TypeOK, Change \/ PodReady \/ CapOrphan \/ ControllerRestarts
  PROVE  TypeOK'
<1>1. WorldType /\ CrType /\ LvgType /\ ChangesType /\ WatchType
  BY TypeParts
<1>2. Idle \in CapState
  BY DEF Idle, CapState
<1>3. CASE Change
  <2>1. ChangesType'
    BY <1>1, <1>3, Spending DEF Change
  <2>2. WorldType' /\ CrType'
    <3>1. ASSUME NEW d \in Drive,
                 \/ hw' = [hw EXCEPT ![d].present = ~@]
                 \/ \E h \in {"GOOD", "BAD"} \ {hw[d].health} : hw' = [hw EXCEPT ![d].health = h],
                 UNCHANGED <<system, placed, cr, pod, taken>>
          PROVE  WorldType' /\ CrType'
      <4>1. ASSUME NEW b \in BOOLEAN, hw' = [hw EXCEPT ![d].present = b] PROVE WorldType'
        BY <1>1, <3>1, <4>1 DEF WorldType
      <4>2. ASSUME NEW h \in {"GOOD", "BAD"}, hw' = [hw EXCEPT ![d].health = h] PROVE WorldType'
        BY <1>1, <3>1, <4>2 DEF WorldType, Health
      <4> QED
        BY <1>1, <3>1, <4>1, <4>2, UnchangedTypes
    <3>2. ASSUME NEW d \in Drive,
                 \/ cr' = [cr EXCEPT ![d].taint = ~@]
                 \/ \E o \in (Overrides \cup {"none"}) \ {cr[d].override} :
                      cr' = [cr EXCEPT ![d].override = o],
                 UNCHANGED <<system, placed, hw, pod, taken>>
          PROVE  WorldType' /\ CrType'
      <4>1. ASSUME NEW b \in BOOLEAN, cr' = [cr EXCEPT ![d].taint = b] PROVE CrType'
        BY <1>1, <4>1 DEF CrType, DriveState
      <4>2. ASSUME NEW o \in Overrides \cup {"none"}, cr' = [cr EXCEPT ![d].override = o]
            PROVE  CrType'
        BY <1>1, <4>2 DEF CrType, DriveState
      <4>3. WorldType'
        BY <1>1, <3>2, UnchangedTypes DEF node
      <4> QED
        BY <3>2, <4>1, <4>2, <4>3
    <3>3. ASSUME \/ pod' = [pod EXCEPT !.ready = ~@, !.listed = TRUE]
                 \/ pod' = [pod EXCEPT !.starting = FALSE]
                 \/ pod' = [pod EXCEPT !.listed = FALSE, !.ready = FALSE],
                 UNCHANGED <<system, placed, hw, cr, taken>>
          PROVE  WorldType' /\ CrType'
      <4>1. ASSUME NEW b \in BOOLEAN, pod' = [pod EXCEPT !.ready = b, !.listed = TRUE]
            PROVE  WorldType'
        BY <1>1, <3>3, <4>1 DEF WorldType
      <4>2. ASSUME pod' = [pod EXCEPT !.starting = FALSE] PROVE WorldType'
        BY <1>1, <3>3, <4>2 DEF WorldType
      <4>3. ASSUME pod' = [pod EXCEPT !.listed = FALSE, !.ready = FALSE] PROVE WorldType'
        BY <1>1, <3>3, <4>3 DEF WorldType
      <4> QED
        BY <1>1, <3>3, <4>1, <4>2, <4>3, UnchangedTypes
    <3> QED
      BY <1>3, <3>1, <3>2, <3>3 DEF Change
  <2> QED
    BY <1>3, <2>1, <2>2, TypeParts, UnchangedTypes DEF Change, monitor
<1>4. CASE PodReady
  <2>1. WorldType'
    BY <1>1, <1>4 DEF PodReady, WorldType
  <2> QED
    BY <1>4, <2>1, TypeParts, UnchangedTypes DEF PodReady, monitor
<1>5. CASE CapOrphan
  <2>1. CapType'
    BY <1>2, <1>5 DEF CapOrphan, CapType
  <2> QED
    BY <1>5, <2>1, TypeParts, UnchangedTypes DEF CapOrphan, monitor
<1>6. CASE ControllerRestarts
  <2>1. CapType' /\ UpdType'
    BY <1>2, <1>6 DEF ControllerRestarts, CapType, UpdType
  <2>2. MonitorTypes'
    BY <1>6, CounterBounds DEF ControllerRestarts, NewMonitor, MonitorTypes, Postponed
  <2>3. LvgType'
    BY <1>1, <1>6 DEF ControllerRestarts, LvgType, LvgState
  <2>4. ChangesType'
    BY <1>1, <1>6, Spending DEF ControllerRestarts
  <2>5. WatchType'
    BY <1>1, <1>6 DEF ControllerRestarts, Postponed, WatchType
  <2> QED
    BY <1>6, <2>1, <2>2, <2>3, <2>4, <2>5, TypeParts, UnchangedTypes DEF ControllerRestarts
<1> QED
  BY <1>3, <1>4, <1>5, <1>6

\* The node starts with well-formed state.
LEMMA InitType == Init => TypeOK
<1> SUFFICES ASSUME Init PROVE TypeOK
  OBVIOUS
<1>1. PICK pv \in {"none", "orphan", "vg"} :
        /\ lvg = [pv |-> pv, known |-> FALSE, health |-> "GOOD", ac |-> NoAC, event |-> FALSE]
        /\ hw = [d \in Drive |-> [present |-> TRUE, health |-> "GOOD",
                                  data |-> IF d \notin system THEN "none"
                                           ELSE IF pv = "vg" THEN "children" ELSE "fs"]]
  BY DEF Init
<1>2. WorldType
  BY <1>1 DEF Init, WorldType, Health, Data
<1>3. CrType
  BY DEF Init, CrType, Unknown, DriveState, Health
<1>4. ACType
  BY DEF Init, ACType
<1>5. LvgType
  BY <1>1 DEF Init, LvgType, LvgState, Health, NoAC
<1>6. CapType /\ UpdType
  BY DEF Init, CapType, CapState, UpdType, Idle
<1>7. MonitorTypes
  BY CounterBounds DEF Init, MonitorTypes, NewMonitor
<1>8. ChangesType /\ WatchType
  BY DiscoveryAssumption DEF Init, ChangesType, WatchType, NewWatch
<1> QED
  BY <1>2, <1>3, <1>4, <1>5, <1>6, <1>7, <1>8, TypeParts

-----------------------------------------------------------------------------
(* The invariants                                                          *)

\* Only a poll, a poll that fails and a restart touch the view and its clock.
LEMMA MonitorUnchanged ==
  ASSUME NEW d \in Drive,
         \/ Discover(d) \/ CapacityController(d) \/ DriveController(d)
         \/ PlaceVolume(d) \/ DeleteVolume(d) \/ CapOrphan \/ UpdateCRs
         \/ PlaceOnLVG \/ ReturnToLVG \/ Change \/ PodReady
  PROVE  UNCHANGED <<mon, quiet, watch>>
<1>1. Discover(d) => UNCHANGED <<mon, quiet, watch>>
  BY DEF Discover, UpdateDrivesCRs, DiscoverDataOnDrives, DiscoverLVGOnSystemDrive, monitor
<1>2. CapacityController(d) => UNCHANGED <<mon, quiet, watch>>
  BY DEF CapacityController, CapRead, CreateOrUpdateCapacity, HandleInaccessibleDrive,
         ReconcileLVG, monitor
<1>3. DriveController(d) => UNCHANGED <<mon, quiet, watch>>
  BY DEF DriveController, UsageChanges, HandleDriveLableUpdate, RemoveDrive, monitor
<1>4. PlaceVolume(d) \/ DeleteVolume(d) \/ PlaceOnLVG \/ ReturnToLVG => UNCHANGED <<mon, quiet, watch>>
  BY DEF PlaceVolume, DeleteVolume, PlaceOnLVG, ReturnToLVG, monitor
<1>5. CapOrphan \/ Change \/ PodReady => UNCHANGED <<mon, quiet, watch>>
  BY DEF CapOrphan, Change, PodReady, monitor
<1>6. UpdateCRs => UNCHANGED <<mon, quiet, watch>>
  BY DEF UpdateCRs, UpdateCRsRead, DeleteACs, MarkDrivesOffline
<1> QED
  BY <1>1, <1>2, <1>3, <1>4, <1>5, <1>6

\* The types and the view of the pod are kept together: a poll keeps its clock
\* within its bound because of both.
LEMMA MonitorInductive ==
  /\ Init => TypeOK /\ MonitorInv /\ WatchInv
  /\ TypeOK /\ MonitorInv /\ WatchInv /\ [Next]_vars => TypeOK' /\ MonitorInv' /\ WatchInv'
<1>1. Init => TypeOK /\ MonitorInv /\ WatchInv
  <2> SUFFICES ASSUME Init PROVE MonitorInv /\ WatchInv
    BY InitType
  <2>1. mon.status = "none" /\ quiet = 0
    BY Zenon DEF Init, NewMonitor
  <2>2. MaxQuiet \in Nat
    BY CounterBounds
  <2> QED
    BY <2>1, <2>2 DEF Init, MonitorInv, WatchInv, NewWatch
<1>2. ASSUME TypeOK, MonitorInv, WatchInv, [Next]_vars PROVE TypeOK' /\ MonitorInv' /\ WatchInv'
  <2>1. UNCHANGED <<mon, quiet, watch>> => MonitorInv' /\ WatchInv'
    BY <1>2 DEF MonitorInv, WatchInv
  <2>2. ASSUME NEW d \in Drive,
               Discover(d) \/ CapacityController(d) \/ DriveController(d)
        PROVE  TypeOK' /\ MonitorInv' /\ WatchInv'
    BY <1>2, <2>1, <2>2, MonitorUnchanged, DiscoverType, CapacityControllerType,
       DriveControllerType
  <2>3. ASSUME NEW d \in Drive, PlaceVolume(d) \/ DeleteVolume(d)
        PROVE  TypeOK' /\ MonitorInv' /\ WatchInv'
    BY <1>2, <2>1, <2>3, MonitorUnchanged, PlacementType
  <2>4. CASE CapOrphan \/ UpdateCRs \/ PlaceOnLVG \/ ReturnToLVG \/ Change \/ PodReady
    <3>1. UNCHANGED <<mon, quiet, watch>>
      BY <2>4 DEF CapOrphan, UpdateCRs, UpdateCRsRead, DeleteACs, MarkDrivesOffline,
                  PlaceOnLVG, ReturnToLVG, Change, PodReady, monitor
    <3> QED
      BY <1>2, <2>1, <2>4, <3>1, MonitorType, PlacementType, WorldChangeType
  <2>5. CASE UpdateNodeHealthCache
    <3>1. MonitorTypes' /\ MonitorInv'
      BY <1>2, <2>5, PollStep, TypeParts
    <3>2. WatchType' /\ WatchInv'
      BY <1>2, <2>5, WatchPoll, TypeParts
    <3> QED
      BY <1>2, <2>5, <3>1, <3>2, TypeParts, UnchangedTypes DEF UpdateNodeHealthCache
  <2>6. CASE UpdateNodeHealthCacheFails
    <3>1. mon'.status = "Unknown" /\ mon'.since = 0 /\ quiet' = 0
      BY <1>2, <2>6, TypeParts DEF UpdateNodeHealthCacheFails, MonitorTypes, Postponed
    <3>2. MonitorInv'
      BY <3>1, CounterBounds DEF MonitorInv
    <3>3. WatchInv'
      BY <1>2, <2>6, <3>1, TypeParts, WatchPostponed DEF UpdateNodeHealthCacheFails
    <3> QED
      BY <1>2, <2>6, <3>2, <3>3, MonitorType
  <2>7. CASE ControllerRestarts
    <3>1. mon'.status = "none" /\ quiet' = 0
      BY <2>7 DEF ControllerRestarts, NewMonitor, Postponed
    <3>2. MonitorInv'
      BY <3>1 DEF MonitorInv
    <3>3. WatchInv'
      BY <1>2, <2>7, <3>1, TypeParts, WatchPostponed DEF ControllerRestarts
    <3> QED
      BY <1>2, <2>7, <3>2, <3>3, WorldChangeType
  <2>8. CASE UNCHANGED vars
    BY <1>2, <2>1, <2>8, TypeParts, UnchangedTypes DEF vars, node, group
  <2> QED
    BY <1>2, <2>2, <2>3, <2>4, <2>5, <2>6, <2>7, <2>8 DEF Next
<1> QED
  BY <1>1, <1>2

\* The state of the node, of the objects and of the controllers is well-formed.
THEOREM TypeCorrect == Spec => []TypeOK
<1>1. Spec => [](TypeOK /\ MonitorInv /\ WatchInv)
  BY MonitorInductive, PTL DEF Spec
<1> QED
  BY <1>1, PTL

\* Whatever the timeouts and the protection, whatever the pod does and however
\* often its list cannot be read: no node is declared permanently down before
\* its pod has not been ready for PermanentDownTimeout.
THEOREM DownNotEarly == Spec => []NotDeclaredDownEarly
<1>1. Spec => []MonitorInv
  BY MonitorInductive, PTL DEF Spec
<1>2. MonitorInv => NotDeclaredDownEarly
  BY DEF MonitorInv, NotDeclaredDownEarly
<1> QED
  BY <1>1, <1>2, PTL

\* And it is declared so once both timeouts, stretched by the protection of a pod that
\* starts, and three polls have passed since the pod was last ready, a poll failed or the
\* monitor started.  Counted from when the pod was last ready: after as many polls for each
\* failed poll and each restart, and once more, it has been declared down, for any timeouts
\* and any number of failures.
THEOREM DownInTime == Spec => []DeclaredDownInTime
<1>1. Spec => [](TypeOK /\ MonitorInv /\ WatchInv)
  BY MonitorInductive, PTL DEF Spec
<1>2. TypeOK /\ MonitorInv /\ WatchInv => DeclaredDownInTime
  <2> SUFFICES ASSUME TypeOK, MonitorInv, WatchInv PROVE DeclaredDownInTime
    OBVIOUS
  <2>1. MonitorTypes /\ WatchType
    BY TypeParts
  <2>2. mon.status # "PermanentDown" => quiet < MaxQuiet
    BY <2>1, NotYetDown
  <2>3. /\ quiet \in Nat /\ MaxQuiet \in Nat \ {0}
        /\ watch.polls \in Nat /\ watch.postponed \in Nat
    BY <2>1, CounterBounds DEF MonitorTypes, WatchType
  <2>4. watch.polls < (watch.postponed + 1) * MaxQuiet
    <3>1. CASE watch.declared
      <4>1. watch.polls = 0 /\ watch.postponed = 0
        BY <3>1 DEF WatchInv, Declared
      <4> QED
        BY <2>3, <4>1
    <3>2. CASE ~watch.declared
      BY <2>2, <2>3, <3>2, OneMore DEF WatchInv
    <3> QED
      BY <3>1, <3>2
  <2> QED
    BY <2>2, <2>3, <2>4 DEF DeclaredDownInTime
<1> QED
  BY <1>1, <1>2, PTL

-----------------------------------------------------------------------------
(* The group of the system's drive                                         *)

\* A group that has not been discovered has no bad health to deal with.
GroupInv == BadGroupOffersNothingNew /\ (~lvg.known => lvg.health = "GOOD")

\* A step that leaves the group alone keeps its invariant.
LEMMA GroupUnchanged == GroupInv /\ UNCHANGED group => GroupInv'
BY DEF GroupInv, group, BadGroupOffersNothingNew

\* Every step keeps it: the event filter passes each change to a bad health, and
\* no event is consumed before the AC is reset.
LEMMA GroupStep == TypeOK /\ GroupInv /\ [Next]_vars => GroupInv'
<1> SUFFICES ASSUME TypeOK, GroupInv, [Next]_vars PROVE GroupInv'
  OBVIOUS
<1>1. lvg \in LvgState /\ given \in Nat /\ cr \in [Drive -> DriveState]
  BY TypeParts DEF LvgType, CrType
<1>2. ASSUME NEW d \in Drive, UpdateDrivesCRs(d) PROVE GroupInv'
  <2>1. CASE d \in system /\ lvg.known /\ cr[d].known
    <3> DEFINE h == cr'[d].health
               e == lvg.event \/ LVGEvent(lvg.health, h)
    <3>1. lvg' = [lvg EXCEPT !.health = h, !.event = e]
      BY <1>2, <2>1, Zenon DEF UpdateDrivesCRs
    <3>2. h \notin {"GOOD", lvg.health} => e
      BY DEF LVGEvent
    <3>3. lvg.event => e
      OBVIOUS
    <3> HIDE DEF h, e
    <3>4. lvg'.health = h /\ lvg'.event = e /\ lvg'.ac = lvg.ac /\ lvg'.known = lvg.known
      BY <1>1, <3>1 DEF LvgState
    <3>5. BadGroupOffersNothingNew'
      BY <1>2, <3>2, <3>3, <3>4 DEF BadGroupOffersNothingNew, GroupInv, UpdateDrivesCRs
    <3> QED
      BY <2>1, <3>4, <3>5 DEF GroupInv
  <2>2. CASE ~(d \in system /\ lvg.known /\ cr[d].known)
    <3>1. UNCHANGED group
      BY <1>2, <2>2, Zenon DEF UpdateDrivesCRs, group
    <3> QED
      BY <3>1, GroupUnchanged
  <2> QED
    BY <2>1, <2>2
<1>3. ASSUME NEW d \in Drive, DiscoverLVGOnSystemDrive(d) PROVE GroupInv'
  <2>1. lvg'.health = "GOOD"
    BY <1>1, <1>3 DEF DiscoverLVGOnSystemDrive, LvgState
  <2> QED
    BY <2>1 DEF GroupInv, BadGroupOffersNothingNew
<1>4. ASSUME NEW d \in Drive, ReconcileLVG(d) PROVE GroupInv'
  <2>1. CASE lvg.health = "GOOD" /\ CreateOrUpdateLVGCapacity(d)
    <3>1. lvg'.health = "GOOD"
      BY <1>1, <2>1 DEF CreateOrUpdateLVGCapacity, LvgState
    <3> QED
      BY <3>1 DEF GroupInv, BadGroupOffersNothingNew
  <2>2. CASE lvg.health # "GOOD" /\ ResetACSizeOfLVG
    <3> DEFINE size == IF lvg.ac = NoAC THEN NoAC ELSE 0
    <3>1. size <= 0 /\ lvg' = [lvg EXCEPT !.event = FALSE, !.ac = size]
      BY <2>2 DEF ResetACSizeOfLVG, NoAC
    <3>3. given' = 0
      BY <2>2 DEF ResetACSizeOfLVG
    <3> HIDE DEF size
    <3>2. lvg'.ac = size /\ lvg'.known = lvg.known /\ lvg'.health = lvg.health
      BY <1>1, <3>1 DEF LvgState
    <3> QED
      BY <3>1, <3>2, <3>3 DEF GroupInv, BadGroupOffersNothingNew
  <2> QED
    BY <1>4, <2>1, <2>2 DEF ReconcileLVG
<1>5. CASE DeleteACs
  <2>1. NoAC <= 0
    BY DEF NoAC
  <2>2. lvg' = [lvg EXCEPT !.ac = NoAC]
    BY <1>5, Zenon DEF DeleteACs
  <2>3. lvg'.ac = NoAC /\ lvg'.known = lvg.known /\ lvg'.health = lvg.health
    BY <1>1, <2>2 DEF LvgState
  <2>4. given' = given
    BY <1>5 DEF DeleteACs
  <2> QED
    BY <1>1, <2>1, <2>3, <2>4 DEF GroupInv, BadGroupOffersNothingNew, NoAC
<1>6. CASE PlaceOnLVG \/ ReturnToLVG
  <2>1. /\ lvg.ac \in Int /\ lvg'.known = lvg.known
        /\ lvg'.health = lvg.health /\ lvg'.event = lvg.event
        /\ \/ lvg'.ac = lvg.ac - 1 /\ given' = given
           \/ lvg'.ac = lvg.ac + 1 /\ given' = given + 1
           \/ lvg'.ac = lvg.ac /\ given' = given
    BY <1>1, <1>6 DEF PlaceOnLVG, ReturnToLVG, LvgState, group
  <2> QED
    BY <1>1, <2>1 DEF GroupInv, BadGroupOffersNothingNew
<1>7. CASE ControllerRestarts
  <2>1. /\ lvg'.event = lvg.known /\ lvg'.known = lvg.known
        /\ lvg'.health = lvg.health
    BY <1>1, <1>7 DEF ControllerRestarts, LvgState
  <2> QED
    BY <2>1 DEF GroupInv, BadGroupOffersNothingNew
<1>8. ASSUME NEW d \in Drive,
             \/ DiscoverDataOnDrives(d) \/ CapRead(d) \/ CreateOrUpdateCapacity(d)
             \/ HandleInaccessibleDrive(d) \/ DriveController(d)
             \/ PlaceVolume(d) \/ DeleteVolume(d)
      PROVE  UNCHANGED group
  BY <1>8 DEF group, DiscoverDataOnDrives, CapRead, CreateOrUpdateCapacity, HandleInaccessibleDrive,
              DriveController, UsageChanges, HandleDriveLableUpdate, RemoveDrive,
              PlaceVolume, DeleteVolume
<1>9. CASE \/ CapOrphan \/ UpdateNodeHealthCache \/ UpdateNodeHealthCacheFails
           \/ UpdateCRsRead \/ MarkDrivesOffline \/ Change \/ PodReady \/ UNCHANGED vars
  <2>1. UNCHANGED group
    BY <1>9 DEF group, CapOrphan, UpdateNodeHealthCache, UpdateNodeHealthCacheFails, UpdateCRsRead,
                MarkDrivesOffline, Change, PodReady, vars
  <2> QED
    BY <2>1, GroupUnchanged
<1> QED
  BY <1>2, <1>3, <1>4, <1>5, <1>6, <1>7, <1>8, <1>9, GroupUnchanged
     DEF Next, Discover, CapacityController, UpdateCRs

\* Once the capacity controller has dealt with the change of its health, a group that is not
\* good offers no more than what was given back to it since, whatever became of the ACs, the
\* pod and the controller meanwhile.
THEOREM BadGroup == Spec => []BadGroupOffersNothingNew
<1>1. Init => GroupInv
  <2> SUFFICES ASSUME Init PROVE GroupInv
    OBVIOUS
  <2>1. lvg.health = "GOOD"
    BY DEF Init
  <2> QED
    BY <2>1 DEF GroupInv, BadGroupOffersNothingNew
<1>2. Spec => []GroupInv
  BY <1>1, GroupStep, TypeCorrect, PTL DEF Spec
<1>3. GroupInv => BadGroupOffersNothingNew
  BY DEF GroupInv
<1> QED
  BY <1>2, <1>3, PTL
=============================================================================
