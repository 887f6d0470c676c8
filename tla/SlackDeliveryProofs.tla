-------------------------- MODULE SlackDeliveryProofs --------------------------
(***************************************************************************)
(* Proofs about SlackDelivery, for any events, processes, capacity of the  *)
(* in-memory record, number of deliveries, kills and repeated invocations, *)
(* and for each deployment.                                                *)
(***************************************************************************)
EXTENDS SlackDelivery, RecursionProofs

-----------------------------------------------------------------------------
(* Records of claims. *)

\* The ids of a record.
Holds(record, x) == \E i \in DOMAIN record : record[i] = x

\* Evicting keeps the newest ids, and no more than Capacity of them.
LEMMA EvictedIs ==
    ASSUME NEW S, NEW record \in Seq(S), Len(record) <= Capacity + 1
    PROVE  /\ Evicted(record) \in Seq(S)
           /\ Len(Evicted(record)) <= Capacity
           /\ \A x : Holds(Evicted(record), x) => Holds(record, x)
           /\ Len(record) > 0 =>
                 Holds(Evicted(record), record[Len(record)])
<1> DEFINE cut == Evicted(record)
           first == IF Len(record) > Capacity THEN Len(record) - Capacity + 1 ELSE 1
<1>1. first \in Int /\ 1 <= first /\ Len(record) \in Nat /\ Capacity \in Nat \ {0}
  BY CapacityAssumption
<1>2. cut = SubSeq(record, first, Len(record))
  BY DEF Evicted
<1>3. first <= Len(record) + 1
  BY <1>1
<1> HIDE DEF cut, first
<1>4. /\ cut \in Seq(S)
      /\ Len(cut) = Len(record) - first + 1
      /\ \A i \in 1..Len(cut) : cut[i] = record[first + i - 1]
  BY <1>1, <1>2, <1>3
<1>5. Len(cut) <= Capacity
  BY <1>1, <1>4 DEF first
<1>6. ASSUME NEW i \in DOMAIN cut PROVE \E j \in DOMAIN record : record[j] = cut[i]
  <2>1. i \in 1..Len(cut) /\ first + i - 1 \in DOMAIN record
    BY <1>1, <1>4
  <2> QED BY <1>4, <2>1
<1>7. ASSUME Len(record) > 0
      PROVE  \E i \in DOMAIN cut : cut[i] = record[Len(record)]
  <2>1. first <= Len(record)
    BY <1>1, <1>7 DEF first
  <2>2. Len(cut) \in DOMAIN cut /\ cut[Len(cut)] = record[Len(record)]
    BY <1>1, <1>4, <2>1
  <2> QED BY <2>2
<1> QED BY <1>4, <1>5, <1>6, <1>7 DEF cut, Holds

\* Moving an id to the end keeps the ids and their number.
LEMMA MovedToEndIs ==
    ASSUME NEW S, NEW record \in Seq(S), NEW e \in S,
           Holds(record, e)
    PROVE  /\ MovedToEnd(record, e) \in Seq(S)
           /\ Len(MovedToEnd(record, e)) = Len(record)
           /\ \A x \in S : Holds(MovedToEnd(record, e), x) <=> Holds(record, x)
<1> DEFINE places == {i \in 1..Len(record) : record[i] = e}
           at == Min(places)
           before == SubSeq(record, 1, at - 1)
           after == SubSeq(record, at + 1, Len(record))
           moved == Append(before \o after, e)
<1>1. at \in 1..Len(record) /\ record[at] = e /\ Len(record) \in Nat
  <2>1. places \in SUBSET Nat /\ places # {}
    BY DEF Holds
  <2>2. \E i \in places : \A j \in places : i <= j
    BY <2>1, LeastNumber
  <2> HIDE DEF places
  <2>3. at \in places
    BY <2>2 DEF Min
  <2> QED BY <2>3 DEF places
<1>2. MovedToEnd(record, e) = moved
  <2>1. \E i \in 1..Len(record) : record[i] = e
    BY <1>1
  <2>2. SelectInSeq(record, LAMBDA v : v = e) = at
    BY <2>1 DEF SelectInSeq
  <2>3. RemoveFirst(record, e) = RemoveAt(record, at)
    BY <2>1, <2>2 DEF RemoveFirst, SelectInSeq
  <2> QED BY <2>3 DEF MovedToEnd, RemoveAt
<1> HIDE DEF at
<1>3. /\ before \in Seq(S) /\ Len(before) = at - 1
      /\ \A i \in 1..(at - 1) : before[i] = record[i]
  BY <1>1
<1>4. /\ after \in Seq(S) /\ Len(after) = Len(record) - at
      /\ \A i \in 1..(Len(record) - at) : after[i] = record[at + i]
  BY <1>1
<1> HIDE DEF before, after
<1>5. /\ moved \in Seq(S) /\ Len(moved) = Len(record)
      /\ \A i \in 1..(at - 1) : moved[i] = record[i]
      /\ \A i \in at..(Len(record) - 1) : moved[i] = record[i + 1]
      /\ moved[Len(record)] = e
  <2>1. before \o after \in Seq(S) /\ Len(before \o after) = Len(record) - 1
    <3>1. before \o after \in Seq(S)
      BY <1>3, <1>4
    <3>2. Len(before \o after) = Len(before) + Len(after)
      BY <1>3, <1>4
    <3>3. at - 1 + (Len(record) - at) = Len(record) - 1
      BY <1>1
    <3> QED BY <1>3, <1>4, <3>1, <3>2, <3>3
  <2>2. /\ \A i \in 1..(at - 1) : (before \o after)[i] = record[i]
        /\ \A i \in at..(Len(record) - 1) : (before \o after)[i] = record[i + 1]
    <3>1. ASSUME NEW i \in 1..(at - 1) PROVE (before \o after)[i] = record[i]
      BY <1>1, <1>3, <1>4
    <3>2. ASSUME NEW i \in at..(Len(record) - 1)
          PROVE  (before \o after)[i] = record[i + 1]
      <4>1. (before \o after)[i] = after[i - (at - 1)]
        BY <1>1, <1>3, <1>4
      <4>2. i - (at - 1) \in 1..(Len(record) - at) /\ at + (i - (at - 1)) = i + 1
        BY <1>1
      <4> QED BY <1>4, <4>1, <4>2
    <3> QED BY <3>1, <3>2
  <2> DEFINE both == before \o after
  <2> HIDE DEF both
  <2>3. /\ both \in Seq(S) /\ Len(both) = Len(record) - 1
        /\ \A i \in 1..(at - 1) : both[i] = record[i]
        /\ \A i \in at..(Len(record) - 1) : both[i] = record[i + 1]
    BY <2>1, <2>2 DEF both
  <2>4. moved = Append(both, e)
    BY DEF both
  <2> HIDE DEF moved
  <2>5. /\ moved \in Seq(S) /\ Len(moved) = Len(record) /\ moved[Len(record)] = e
        /\ \A i \in 1..(Len(record) - 1) : moved[i] = both[i]
    BY <1>1, <2>3, <2>4
  <2> QED BY <1>1, <2>3, <2>5
<1> HIDE DEF moved
<1>6. ASSUME NEW i \in DOMAIN moved PROVE \E j \in DOMAIN record : record[j] = moved[i]
  <2>1. i \in 1..Len(record) /\ DOMAIN record = 1..Len(record)
    BY <1>5
  <2>2. CASE i < at
    BY <1>1, <1>5, <2>1, <2>2
  <2>3. CASE i >= at /\ i < Len(record)
    <3>1. moved[i] = record[i + 1] /\ i + 1 \in DOMAIN record
      BY <1>1, <1>5, <2>1, <2>3
    <3> QED BY <3>1
  <2>4. CASE i = Len(record)
    BY <1>1, <1>5, <2>1, <2>4
  <2> QED BY <1>1, <2>1, <2>2, <2>3, <2>4
<1>7. ASSUME NEW i \in DOMAIN record PROVE \E j \in DOMAIN moved : moved[j] = record[i]
  <2>1. i \in 1..Len(record) /\ DOMAIN moved = 1..Len(record)
    BY <1>5
  <2>2. CASE i < at
    BY <1>1, <1>5, <2>1, <2>2
  <2>3. CASE i = at
    BY <1>1, <1>5, <2>1, <2>3
  <2>4. CASE i > at
    <3>1. moved[i - 1] = record[i] /\ i - 1 \in DOMAIN moved
      BY <1>1, <1>5, <2>1, <2>4
    <3> QED BY <3>1
  <2> QED BY <1>1, <2>1, <2>2, <2>3, <2>4
<1>8. ASSUME NEW x \in S PROVE Holds(moved, x) <=> Holds(record, x)
  BY <1>6, <1>7 DEF Holds
<1> QED BY <1>2, <1>5, <1>8

\* What an assignment to one delivery changes.
LEMMA SetAt ==
    ASSUME NEW S, NEW F \in [Event -> [Delivery -> S]],
           NEW e \in Event, NEW k \in Delivery, NEW x \in S,
           NEW G, G = [F EXCEPT ![e][k] = x]
    PROVE  /\ G \in [Event -> [Delivery -> S]]
           /\ \A f \in Event, j \in Delivery :
                 G[f][j] = IF f = e /\ j = k THEN x ELSE F[f][j]
<1>1. [F[e] EXCEPT ![k] = x] \in [Delivery -> S]
  OBVIOUS
<1>2. G = [F EXCEPT ![e] = [F[e] EXCEPT ![k] = x]]
  OBVIOUS
<1> QED BY <1>1, <1>2

LEMMA AdvanceIs ==
    ASSUME TypeOK, NEW e \in Event, NEW k \in Delivery, NEW step \in FrontPhase,
           Advance(e, k, step)
    PROVE  /\ front' \in [Event -> [Delivery -> FrontPhase]]
           /\ \A f \in Event, j \in Delivery :
                 front'[f][j] = IF f = e /\ j = k THEN step ELSE front[f][j]
<1>1. front \in [Event -> [Delivery -> FrontPhase]]
  BY DEF TypeOK
<1>2. front' = [front EXCEPT ![e][k] = step]
  BY DEF Advance
<1> QED BY <1>1, <1>2, SetAt

LEMMA BackIs ==
    ASSUME TypeOK, NEW e \in Event, NEW k \in Delivery, NEW step \in BackPhase,
           back' = [back EXCEPT ![e][k] = step]
    PROVE  /\ back' \in [Event -> [Delivery -> BackPhase]]
           /\ \A f \in Event, j \in Delivery :
                 back'[f][j] = IF f = e /\ j = k THEN step ELSE back[f][j]
<1>1. back \in [Event -> [Delivery -> BackPhase]]
  BY DEF TypeOK
<1> QED BY <1>1, SetAt

LEMMA SiteIs ==
    ASSUME TypeOK, NEW e \in Event, NEW k \in Delivery, NEW p \in Process \cup {"none"},
           site' = [site EXCEPT ![e][k] = p]
    PROVE  /\ site' \in [Event -> [Delivery -> Process \cup {"none"}]]
           /\ \A f \in Event, j \in Delivery :
                 site'[f][j] = IF f = e /\ j = k THEN p ELSE site[f][j]
<1>1. site \in [Event -> [Delivery -> Process \cup {"none"}]]
  BY DEF TypeOK
<1> QED BY <1>1, SetAt

\* What a delivery that reaches a process changes.
LEMMA DeliverIs ==
    ASSUME TypeOK, NEW e \in Event, NEW p \in Process, Deliver(e, p)
    PROVE  /\ delivered[e] + 1 \in Delivery
           /\ delivered' \in [Event -> 0..MaxDeliveries]
           /\ front' \in [Event -> [Delivery -> FrontPhase]]
           /\ place' \in [Event -> [Delivery -> Process \cup {"none"}]]
           /\ \A f \in Event :
                 delivered'[f] = IF f = e THEN delivered[e] + 1 ELSE delivered[f]
           /\ \A f \in Event, j \in Delivery :
                 IF f = e /\ j = delivered[e] + 1
                 THEN front'[f][j] = "arrived" /\ place'[f][j] = p
                 ELSE front'[f][j] = front[f][j] /\ place'[f][j] = place[f][j]
<1>1. /\ delivered[e] \in 0..MaxDeliveries /\ delivered[e] < MaxDeliveries
      /\ delivered \in [Event -> 0..MaxDeliveries]
      /\ front \in [Event -> [Delivery -> FrontPhase]]
      /\ place \in [Event -> [Delivery -> Process \cup {"none"}]]
  BY DEF Deliver, TypeOK
<1>2. delivered[e] + 1 \in Delivery /\ delivered[e] + 1 \in 0..MaxDeliveries
  BY <1>1, MaxDeliveriesAssumption DEF Delivery
<1>3. /\ delivered' = [delivered EXCEPT ![e] = delivered[e] + 1]
      /\ delivered'[e] = delivered[e] + 1
  BY <1>1 DEF Deliver
<1>4. /\ front' = [front EXCEPT ![e][delivered[e] + 1] = "arrived"]
      /\ place' = [place EXCEPT ![e][delivered[e] + 1] = p]
  BY <1>3 DEF Deliver
<1>5. "arrived" \in FrontPhase /\ p \in Process \cup {"none"}
  BY DEF FrontPhase
<1>6. /\ front' \in [Event -> [Delivery -> FrontPhase]]
      /\ \A f \in Event, j \in Delivery :
            front'[f][j] = IF f = e /\ j = delivered[e] + 1 THEN "arrived" ELSE front[f][j]
  BY <1>1, <1>2, <1>4, <1>5, SetAt
<1>7. /\ place' \in [Event -> [Delivery -> Process \cup {"none"}]]
      /\ \A f \in Event, j \in Delivery :
            place'[f][j] = IF f = e /\ j = delivered[e] + 1 THEN p ELSE place[f][j]
  BY <1>1, <1>2, <1>4, <1>5, SetAt
<1> QED BY <1>1, <1>2, <1>3, <1>6, <1>7

\* What a kill changes.
LEMMA KillIs ==
    ASSUME TypeOK, NEW p \in Process, Kill(p)
    PROVE  /\ front' \in [Event -> [Delivery -> FrontPhase]]
           /\ back' \in [Event -> [Delivery -> BackPhase]]
           /\ \A e \in Event, k \in Delivery :
                 /\ front'[e][k] = IF Handling(e, k) /\ place[e][k] = p
                                   THEN "dead" ELSE front[e][k]
                 /\ back'[e][k] = IF back[e][k] \in {"queued", "running"} /\ site[e][k] = p
                                  THEN "dead" ELSE back[e][k]
           /\ \A q \in Process : seen'[q] = IF q = p THEN <<>> ELSE seen[q]
<1>1. /\ front' = [e \in Event |-> [k \in Delivery |->
                    IF Handling(e, k) /\ place[e][k] = p THEN "dead" ELSE front[e][k]]]
      /\ back' = [e \in Event |-> [k \in Delivery |->
                    IF back[e][k] \in {"queued", "running"} /\ site[e][k] = p
                    THEN "dead" ELSE back[e][k]]]
      /\ seen' = [seen EXCEPT ![p] = <<>>]
  BY DEF Kill
<1>2. /\ DOMAIN seen = Process
      /\ front \in [Event -> [Delivery -> FrontPhase]]
      /\ back \in [Event -> [Delivery -> BackPhase]]
  BY DEF TypeOK
<1>3. "dead" \in FrontPhase /\ "dead" \in BackPhase
  BY DEF FrontPhase, BackPhase
<1>4. front' \in [Event -> [Delivery -> FrontPhase]]
  BY <1>1, <1>2, <1>3
<1>5. back' \in [Event -> [Delivery -> BackPhase]]
  BY <1>1, <1>2, <1>3
<1>6. \A e \in Event, k \in Delivery :
         /\ front'[e][k] = IF Handling(e, k) /\ place[e][k] = p
                           THEN "dead" ELSE front[e][k]
         /\ back'[e][k] = IF back[e][k] \in {"queued", "running"} /\ site[e][k] = p
                          THEN "dead" ELSE back[e][k]
  BY <1>1
<1>7. \A q \in Process : seen'[q] = IF q = p THEN <<>> ELSE seen[q]
  BY <1>1, <1>2
<1> QED BY <1>4, <1>5, <1>6, <1>7

-----------------------------------------------------------------------------
(* Types. *)

\* A delivery that reached a process is handled there.
Placed == \A e \in Event, k \in Delivery : front[e][k] # "none" => place[e][k] \in Process

LEMMA BlankIs ==
    ASSUME NEW S, NEW x \in S
    PROVE  /\ Blank(x) \in [Event -> [Delivery -> S]]
           /\ \A e \in Event, k \in Delivery : Blank(x)[e][k] = x
BY DEF Blank

\* Placed is preserved by a step that places nothing and starts nothing.
LEMMA PlacedKept ==
    ASSUME Placed, place' = place,
           \A f \in Event, j \in Delivery : front[f][j] = "none" => front'[f][j] = "none"
    PROVE  Placed'
BY DEF Placed

LEMMA TypeInit == Init => TypeOK /\ Placed
<1> SUFFICES ASSUME Init PROVE TypeOK /\ Placed
  OBVIOUS
<1>1. front = Blank("none") /\ front \in [Event -> [Delivery -> FrontPhase]]
  BY BlankIs DEF Init, FrontPhase
<1>2. back \in [Event -> [Delivery -> BackPhase]]
  BY BlankIs DEF Init, BackPhase
<1>3. /\ place \in [Event -> [Delivery -> Process \cup {"none"}]]
      /\ site \in [Event -> [Delivery -> Process \cup {"none"}]]
  BY BlankIs DEF Init
<1>4. /\ seen \in [Process -> Seq(Event \cup {Other})]
      /\ \A p \in Process : Len(seen[p]) <= Capacity
  BY CapacityAssumption DEF Init
<1>5. /\ delivered \in [Event -> 0..MaxDeliveries]
      /\ kills \in 0..MaxKills /\ requeues \in 0..MaxRequeues
      /\ runs \in [Event -> Nat]
  BY MaxDeliveriesAssumption, BoundsAssumption DEF Init
<1>6. TypeOK
  BY <1>1, <1>2, <1>3, <1>4, <1>5 DEF Init, TypeOK
<1>7. \A e \in Event, k \in Delivery : front[e][k] = "none"
  BY <1>1, BlankIs
<1> QED BY <1>6, <1>7 DEF Placed

\* The types of a step that changes one delivery's front, and the claims.
LEMMA FrontStepType ==
    ASSUME TypeOK, Placed, NEW e \in Event, NEW k \in Delivery, NEW step \in FrontPhase,
           front[e][k] # "none", Advance(e, k, step),
           acked' \in {acked, acked \cup {e}},
           seen' \in [Process -> Seq(Event \cup {Other})],
           \A p \in Process : Len(seen'[p]) <= Capacity,
           table' \in {table, table \cup {e}},
           excused' \in SUBSET Event, orphaned' \in SUBSET Event,
           back' \in [Event -> [Delivery -> BackPhase]],
           site' \in [Event -> [Delivery -> Process \cup {"none"}]],
           UNCHANGED <<deployment, delivered, place, kills, requeues, runs>>
    PROVE  TypeOK' /\ Placed'
<1>1. /\ front' \in [Event -> [Delivery -> FrontPhase]]
      /\ \A f \in Event, j \in Delivery :
            front'[f][j] = IF f = e /\ j = k THEN step ELSE front[f][j]
  BY AdvanceIs
<1>2. acked' \in SUBSET Event /\ table' \in SUBSET Event
  BY DEF TypeOK
<1>3. TypeOK'
  BY <1>1, <1>2 DEF TypeOK
<1> QED BY <1>1, <1>3, PlacedKept

\* The record of one process is replaced by one that fits.
LEMMA RecordType ==
    ASSUME TypeOK, NEW p \in Process,
           NEW record \in Seq(Event \cup {Other}), Len(record) <= Capacity,
           seen' = [seen EXCEPT ![p] = record]
    PROVE  /\ seen' \in [Process -> Seq(Event \cup {Other})]
           /\ \A q \in Process : Len(seen'[q]) <= Capacity
           /\ \A q \in Process : seen'[q] = IF q = p THEN record ELSE seen[q]
BY DEF TypeOK

\* What a record that is not found leaves in the record of its process.
LEMMA RecordIs ==
    ASSUME TypeOK, Placed, NEW e \in Event, NEW k \in Delivery, Record(e, k),
           NEW p, p = place[e][k]
    PROVE  /\ p \in Process
           /\ seen' \in [Process -> Seq(Event \cup {Other})]
           /\ \A q \in Process : Len(seen'[q]) <= Capacity
           /\ \A q \in Process \ {p} : seen'[q] = seen[q]
           /\ \A x \in Event : Holds(seen'[p], x) =>
                                  x = e \/ Remembers(p, x)
           /\ ~ Remembers(p, e) => Holds(seen'[p], e)
           /\ excused' = excused \cup Forgotten(p, seen'[p])
                           \cup (IF Remembers(p, e) THEN {e} ELSE {})
                           \cup (IF \E q \in Process \ {p} : Remembers(q, e)
                                 THEN {e} ELSE {})
<1> DEFINE base == IF Remembers(p, e) THEN seen[p] ELSE Append(seen[p], e)
<1>1. p \in Process
  BY DEF Record, At, Placed
<1>2. seen[p] \in Seq(Event \cup {Other}) /\ Len(seen[p]) <= Capacity /\ Len(seen[p]) \in Nat
  BY <1>1 DEF TypeOK
<1>3. /\ base \in Seq(Event \cup {Other}) /\ Len(base) <= Capacity + 1
      /\ ~ Remembers(p, e) => Len(base) > 0 /\ base[Len(base)] = e
  BY <1>2, CapacityAssumption
<1>4. \A i \in DOMAIN base : base[i] = e \/ \E j \in DOMAIN seen[p] : seen[p][j] = base[i]
  <2>1. CASE Remembers(p, e)
    BY <2>1
  <2>2. CASE ~ Remembers(p, e)
    <3>1. base = Append(seen[p], e)
      BY <2>2
    <3>2. /\ Len(base) = Len(seen[p]) + 1 /\ base[Len(base)] = e
          /\ \A i \in 1..Len(seen[p]) : base[i] = seen[p][i]
          /\ DOMAIN base = 1..Len(base)
      BY <1>2, <3>1
    <3> HIDE DEF base
    <3>3. ASSUME NEW i \in DOMAIN base, i # Len(base)
          PROVE  i \in DOMAIN seen[p] /\ base[i] = seen[p][i]
      BY <1>2, <3>2, <3>3
    <3> QED BY <3>2, <3>3
  <2> QED BY <2>1, <2>2
<1>5. /\ seen' = [seen EXCEPT ![p] = Evicted(base)]
      /\ excused' = excused \cup Forgotten(p, Evicted(base))
                      \cup (IF Remembers(p, e) THEN {e} ELSE {})
                      \cup (IF \E q \in Process \ {p} : Remembers(q, e) THEN {e} ELSE {})
  BY DEF Record
<1> HIDE DEF base
<1>6. /\ Evicted(base) \in Seq(Event \cup {Other}) /\ Len(Evicted(base)) <= Capacity
      /\ \A x : Holds(Evicted(base), x) => Holds(base, x)
      /\ ~ Remembers(p, e) => Holds(Evicted(base), e)
  BY <1>3, EvictedIs
<1>7. /\ seen' \in [Process -> Seq(Event \cup {Other})]
      /\ \A q \in Process : Len(seen'[q]) <= Capacity
      /\ \A q \in Process : seen'[q] = IF q = p THEN Evicted(base) ELSE seen[q]
  BY <1>1, <1>5, <1>6, RecordType
<1>8. seen'[p] = Evicted(base)
  BY <1>1, <1>7
<1>9. \A x \in Event : Holds(seen'[p], x) => x = e \/ Remembers(p, x)
  BY <1>4, <1>6, <1>8 DEF Remembers, Holds
<1>10. ~ Remembers(p, e) => Holds(seen'[p], e)
  BY <1>6, <1>8
<1>11. excused' = excused \cup Forgotten(p, seen'[p])
                    \cup (IF Remembers(p, e) THEN {e} ELSE {})
                    \cup (IF \E q \in Process \ {p} : Remembers(q, e) THEN {e} ELSE {})
  BY <1>5, <1>8
<1> QED BY <1>1, <1>7, <1>9, <1>10, <1>11

\* What a claim of another event leaves in the record of its process.
LEMMA OtherTrafficIs ==
    ASSUME TypeOK, NEW p \in Process, OtherTraffic(p)
    PROVE  /\ seen' \in [Process -> Seq(Event \cup {Other})]
           /\ \A q \in Process : Len(seen'[q]) <= Capacity
           /\ \A q \in Process \ {p} : seen'[q] = seen[q]
           /\ \A x \in Event : Holds(seen'[p], x) =>
                                  Remembers(p, x)
           /\ excused' = excused \cup Forgotten(p, seen'[p])
<1> DEFINE base == Append(seen[p], Other)
<1>1. seen[p] \in Seq(Event \cup {Other}) /\ Len(seen[p]) <= Capacity /\ Len(seen[p]) \in Nat
  BY DEF TypeOK
<1>2. /\ base \in Seq(Event \cup {Other}) /\ Len(base) <= Capacity + 1
      /\ Len(base) = Len(seen[p]) + 1 /\ base[Len(base)] = Other
      /\ \A i \in 1..Len(seen[p]) : base[i] = seen[p][i]
      /\ DOMAIN base = 1..Len(base)
  BY <1>1, CapacityAssumption
<1>3. /\ seen' = [seen EXCEPT ![p] = Evicted(base)]
      /\ excused' = excused \cup Forgotten(p, Evicted(base))
  BY DEF OtherTraffic
<1> HIDE DEF base
<1>4. ASSUME NEW i \in DOMAIN base, base[i] # Other
      PROVE  \E j \in DOMAIN seen[p] : seen[p][j] = base[i]
  <2>1. i \in DOMAIN seen[p] /\ base[i] = seen[p][i]
    BY <1>1, <1>2, <1>4
  <2> QED BY <2>1
<1>5. /\ Evicted(base) \in Seq(Event \cup {Other}) /\ Len(Evicted(base)) <= Capacity
      /\ \A x : Holds(Evicted(base), x) => Holds(base, x)
  BY <1>2, EvictedIs
<1>6. /\ seen' \in [Process -> Seq(Event \cup {Other})]
      /\ \A q \in Process : Len(seen'[q]) <= Capacity
      /\ \A q \in Process : seen'[q] = IF q = p THEN Evicted(base) ELSE seen[q]
  BY <1>3, <1>5, RecordType
<1>7. \A x \in Event : Holds(seen'[p], x) => Remembers(p, x)
  BY <1>4, <1>5, <1>6, NamesAssumption DEF Remembers, Holds
<1> QED BY <1>3, <1>6, <1>7

\* What finding an id leaves in the record of the process: the same ids.
LEMMA FindClaimedIs ==
    ASSUME TypeOK, Placed, NEW e \in Event, NEW k \in Delivery, FindClaimed(e, k)
    PROVE  /\ seen' \in [Process -> Seq(Event \cup {Other})]
           /\ \A q \in Process : Len(seen'[q]) <= Capacity
           /\ \A q \in Process, x \in Event :
                 Holds(seen'[q], x) <=> Remembers(q, x)
<1> DEFINE p == place[e][k]
           record == MovedToEnd(seen[p], e)
<1>1. p \in Process /\ Remembers(p, e)
  BY DEF FindClaimed, At, Placed, Claimed
<1>2. seen[p] \in Seq(Event \cup {Other}) /\ Len(seen[p]) <= Capacity
  BY <1>1 DEF TypeOK
<1>3. Holds(seen[p], e)
  BY <1>1 DEF Remembers, Holds
<1>4. seen' = [seen EXCEPT ![p] = record]
  BY DEF FindClaimed
<1> HIDE DEF p
<1>5. /\ record \in Seq(Event \cup {Other}) /\ Len(record) <= Capacity
      /\ \A x \in Event : Holds(record, x) <=> Holds(seen[p], x)
  BY <1>2, <1>3, MovedToEndIs
<1> HIDE DEF record
<1>6. /\ seen' \in [Process -> Seq(Event \cup {Other})]
      /\ \A q \in Process : Len(seen'[q]) <= Capacity
      /\ \A q \in Process : seen'[q] = IF q = p THEN record ELSE seen[q]
  BY <1>1, <1>4, <1>5, RecordType
<1> QED BY <1>5, <1>6 DEF Remembers, Holds

LEMMA TypeStep == TypeOK /\ Placed /\ [Next]_vars => TypeOK' /\ Placed'
<1> SUFFICES ASSUME TypeOK, Placed, [Next]_vars PROVE TypeOK' /\ Placed'
  OBVIOUS
<1> USE DEF wires, handlers, claims, history
<1>0. /\ back \in [Event -> [Delivery -> BackPhase]]
      /\ site \in [Event -> [Delivery -> Process \cup {"none"}]]
      /\ seen \in [Process -> Seq(Event \cup {Other})]
      /\ \A p \in Process : Len(seen[p]) <= Capacity
      /\ excused \in SUBSET Event /\ orphaned \in SUBSET Event
  BY DEF TypeOK
<1>1. ASSUME NEW e \in Event, NEW p \in Process, Deliver(e, p) PROVE TypeOK' /\ Placed'
  <2>1. TypeOK'
    BY <1>1, DeliverIs DEF Deliver, TypeOK
  <2>2. ASSUME NEW f \in Event, NEW j \in Delivery, front'[f][j] # "none"
        PROVE  place'[f][j] \in Process
    <3>1. CASE f = e /\ j = delivered[e] + 1
      BY <1>1, <3>1, DeliverIs
    <3>2. CASE ~ (f = e /\ j = delivered[e] + 1)
      <4>1. front'[f][j] = front[f][j] /\ place'[f][j] = place[f][j]
        BY <1>1, <3>2, DeliverIs
      <4> QED BY <2>2, <4>1 DEF Placed
    <3> QED BY <3>1, <3>2
  <2> QED BY <2>1, <2>2 DEF Placed
<1>2. ASSUME NEW e \in Event, Miss(e) PROVE TypeOK' /\ Placed'
  <2>1. delivered' \in [Event -> 0..MaxDeliveries]
    BY <1>2, MaxDeliveriesAssumption DEF Miss, TypeOK
  <2>2. TypeOK'
    BY <1>2, <2>1 DEF Miss, TypeOK
  <2> QED BY <1>2, <2>2 DEF Miss, Placed
<1>3. ASSUME NEW e \in Event, NEW k \in Delivery, FindClaimed(e, k) PROVE TypeOK' /\ Placed'
  <2>1. /\ seen' \in [Process -> Seq(Event \cup {Other})]
        /\ \A q \in Process : Len(seen'[q]) <= Capacity
    BY <1>3, FindClaimedIs
  <2> QED BY <1>0, <1>3, <2>1, FrontStepType DEF FindClaimed, Drop, At, FrontPhase
<1>4. ASSUME NEW e \in Event, NEW k \in Delivery, FindUnclaimed(e, k) PROVE TypeOK' /\ Placed'
  BY <1>0, <1>4, FrontStepType DEF FindUnclaimed, At, FrontPhase
<1>5. ASSUME NEW e \in Event, NEW k \in Delivery, Record(e, k) PROVE TypeOK' /\ Placed'
  <2>1. /\ seen' \in [Process -> Seq(Event \cup {Other})]
        /\ \A q \in Process : Len(seen'[q]) <= Capacity
    BY <1>5, RecordIs
  <2>2. excused' \in SUBSET Event
    BY <1>0, <1>5 DEF Record, Forgotten
  <2> QED BY <1>0, <1>5, <2>1, <2>2, FrontStepType DEF Record, At, FrontPhase
<1>6. ASSUME NEW e \in Event, NEW k \in Delivery, Claim(e, k) PROVE TypeOK' /\ Placed'
  <2>1. CASE MayClaim(e)
    BY <1>0, <1>6, <2>1, FrontStepType DEF Claim, At, FrontPhase
  <2>2. CASE ~ MayClaim(e)
    BY <1>0, <1>6, <2>2, FrontStepType DEF Claim, Drop, At, FrontPhase
  <2> QED BY <2>1, <2>2
<1>7. ASSUME NEW e \in Event, NEW k \in Delivery, ClaimFails(e, k) PROVE TypeOK' /\ Placed'
  BY <1>0, <1>7, FrontStepType DEF ClaimFails, At, FrontPhase
<1>8. ASSUME NEW e \in Event, NEW k \in Delivery, HandOver(e, k) PROVE TypeOK' /\ Placed'
  <2>1. back' \in [Event -> [Delivery -> BackPhase]]
    BY <1>8, BackIs DEF HandOver, BackPhase
  <2>2. site' \in [Event -> [Delivery -> Process \cup {"none"}]]
    <3>1. (IF deployment = "socket" THEN place[e][k] ELSE "none") \in Process \cup {"none"}
      BY DEF TypeOK
    <3> QED BY <1>8, <3>1, SiteIs DEF HandOver
  <2> QED BY <1>0, <1>8, <2>1, <2>2, FrontStepType DEF HandOver, At, FrontPhase
<1>9. ASSUME NEW e \in Event, NEW k \in Delivery, HandOverRaises(e, k) PROVE TypeOK' /\ Placed'
  BY <1>0, <1>9, FrontStepType DEF HandOverRaises, At, FrontPhase
<1>10. ASSUME NEW e \in Event, NEW k \in Delivery, Answer(e, k) PROVE TypeOK' /\ Placed'
  BY <1>0, <1>10, FrontStepType DEF Answer, At, FrontPhase
<1>11. ASSUME NEW e \in Event, NEW k \in Delivery, NEW p \in Process, Run(e, k, p)
       PROVE  TypeOK' /\ Placed'
  <2>1. /\ back' \in [Event -> [Delivery -> BackPhase]]
        /\ site' \in [Event -> [Delivery -> Process \cup {"none"}]]
    BY <1>11, BackIs, SiteIs DEF Run, BackPhase
  <2>2. runs' \in [Event -> Nat]
    BY <1>11 DEF Run, TypeOK
  <2> QED BY <1>11, <2>1, <2>2 DEF Run, TypeOK, Placed
<1>12. ASSUME NEW e \in Event, NEW k \in Delivery, Finish(e, k) PROVE TypeOK' /\ Placed'
  <2>1. back' \in [Event -> [Delivery -> BackPhase]]
    BY <1>12, BackIs DEF Finish, BackPhase
  <2> QED BY <1>12, <2>1 DEF Finish, TypeOK, Placed
<1>13. ASSUME NEW e \in Event, NEW k \in Delivery, ClaimResent(e, k) PROVE TypeOK' /\ Placed'
  BY <1>13 DEF ClaimResent, TypeOK, Placed
<1>14. ASSUME NEW e \in Event, NEW k \in Delivery, Requeue(e, k) PROVE TypeOK' /\ Placed'
  <2>1. /\ back' \in [Event -> [Delivery -> BackPhase]]
        /\ site' \in [Event -> [Delivery -> Process \cup {"none"}]]
    BY <1>14, BackIs, SiteIs DEF Requeue, BackPhase
  <2>2. requeues' \in 0..MaxRequeues
    BY <1>14, BoundsAssumption DEF Requeue, TypeOK
  <2> QED BY <1>14, <2>1, <2>2 DEF Requeue, TypeOK, Placed
<1>15. ASSUME NEW p \in Process, Kill(p) PROVE TypeOK' /\ Placed'
  <2>1. /\ front' \in [Event -> [Delivery -> FrontPhase]]
        /\ back' \in [Event -> [Delivery -> BackPhase]]
        /\ \A e \in Event, k \in Delivery :
              front'[e][k] = IF Handling(e, k) /\ place[e][k] = p THEN "dead" ELSE front[e][k]
    BY <1>15, KillIs
  <2>2. /\ seen' \in [Process -> Seq(Event \cup {Other})]
        /\ \A q \in Process : Len(seen'[q]) <= Capacity
    <3>1. <<>> \in Seq(Event \cup {Other}) /\ Len(<<>>) <= Capacity
      BY CapacityAssumption
    <3>2. seen' = [seen EXCEPT ![p] = <<>>]
      BY <1>15 DEF Kill
    <3> QED BY <3>1, <3>2, RecordType
  <2>3. kills' \in 0..MaxKills
    BY <1>15, BoundsAssumption DEF Kill, TypeOK
  <2>4. excused' \in SUBSET Event /\ orphaned' \in SUBSET Event
    BY <1>0, <1>15 DEF Kill
  <2>5. TypeOK'
    BY <1>15, <2>1, <2>2, <2>3, <2>4 DEF Kill, TypeOK
  <2>6. Placed'
    BY <1>15, <2>1 DEF Kill, Placed, Handling
  <2> QED BY <2>5, <2>6
<1>16. ASSUME NEW p \in Process, OtherTraffic(p) PROVE TypeOK' /\ Placed'
  <2>1. /\ seen' \in [Process -> Seq(Event \cup {Other})]
        /\ \A q \in Process : Len(seen'[q]) <= Capacity
    BY <1>16, OtherTrafficIs
  <2>2. excused' \in SUBSET Event
    BY <1>0, <1>16 DEF OtherTraffic, Forgotten
  <2> QED BY <1>16, <2>1, <2>2 DEF OtherTraffic, TypeOK, Placed
<1>17. CASE UNCHANGED vars
  BY <1>17 DEF vars, TypeOK, Placed
<1> QED BY <1>1, <1>2, <1>3, <1>4, <1>5, <1>6, <1>7, <1>8, <1>9, <1>10, <1>11, <1>12,
           <1>13, <1>14, <1>15, <1>16, <1>17 DEF Next, Handle

\* Type correctness.
THEOREM TypeCorrect == Spec => []TypeOK
<1>1. Init => TypeOK /\ Placed
  BY TypeInit
<1>2. TypeOK /\ Placed /\ [Next]_vars => TypeOK' /\ Placed'
  BY TypeStep
<1> QED BY <1>1, <1>2, PTL DEF Spec

-----------------------------------------------------------------------------
(* The course of a delivery. *)

\* The steps at which a delivery has handed nothing over.
NotHanded == {"none", "arrived", "checked", "taken", "dropped"}

FreshDeliveries ==
    \A e \in Event, k \in Delivery : k > delivered[e] => front[e][k] = "none"

HandedFirst ==
    \A e \in Event, k \in Delivery : front[e][k] \in NotHanded => back[e][k] = "none"

CheckedInMemory == \A e \in Event, k \in Delivery : At(e, k, "checked") => InMemory

QueuedWhere ==
    \A e \in Event, k \in Delivery :
        back[e][k] = "queued" =>
            site[e][k] = IF deployment = "socket" THEN place[e][k] ELSE "none"

Orderly ==
    /\ TypeOK /\ Placed
    /\ FreshDeliveries /\ HandedFirst /\ CheckedInMemory /\ QueuedWhere

LEMMA OrderlyInit == Init => Orderly
<1> SUFFICES ASSUME Init PROVE Orderly
  OBVIOUS
<1>1. /\ \A e \in Event, k \in Delivery : front[e][k] = "none"
      /\ \A e \in Event, k \in Delivery : back[e][k] = "none"
  BY DEF Init, Blank
<1> QED BY <1>1, TypeInit DEF Orderly, FreshDeliveries, HandedFirst, CheckedInMemory,
                              QueuedWhere, At

\* A step of one delivery's front that hands nothing over.
LEMMA FrontStepOrderly ==
    ASSUME Orderly, TypeOK', Placed', NEW e \in Event, NEW k \in Delivery, NEW step \in FrontPhase,
           front[e][k] # "none", Advance(e, k, step),
           step \in NotHanded => front[e][k] \in NotHanded,
           step = "checked" => InMemory,
           UNCHANGED <<deployment, delivered, place, back, site>>
    PROVE  Orderly'
<1>1. \A f \in Event, j \in Delivery :
         front'[f][j] = IF f = e /\ j = k THEN step ELSE front[f][j]
  BY AdvanceIs DEF Orderly
<1>2. FreshDeliveries'
  BY <1>1 DEF Orderly, FreshDeliveries
<1>3. HandedFirst'
  BY <1>1 DEF Orderly, HandedFirst
<1>4. CheckedInMemory'
  BY <1>1 DEF Orderly, CheckedInMemory, At, InMemory
<1>5. QueuedWhere'
  BY DEF Orderly, QueuedWhere
<1> QED BY <1>2, <1>3, <1>4, <1>5 DEF Orderly

\* A step of the eval of one delivery.
LEMMA BackStepOrderly ==
    ASSUME Orderly, TypeOK', Placed', NEW e \in Event, NEW k \in Delivery, NEW step \in BackPhase,
           back[e][k] # "none", back' = [back EXCEPT ![e][k] = step],
           NEW p \in Process \cup {"none"}, site' = [site EXCEPT ![e][k] = p],
           step = "queued" => deployment # "socket" /\ p = "none",
           UNCHANGED <<deployment, delivered, front, place>>
    PROVE  Orderly'
<1>0. TypeOK
  BY DEF Orderly
<1>1. \A f \in Event, j \in Delivery :
         back'[f][j] = IF f = e /\ j = k THEN step ELSE back[f][j]
  BY <1>0, BackIs
<1>a. \A f \in Event, j \in Delivery :
         site'[f][j] = IF f = e /\ j = k THEN p ELSE site[f][j]
  BY <1>0, SiteIs
<1>2. HandedFirst'
  BY <1>1 DEF Orderly, HandedFirst
<1>3. QueuedWhere'
  BY <1>1, <1>a DEF Orderly, QueuedWhere
<1> QED BY <1>2, <1>3 DEF Orderly, FreshDeliveries, CheckedInMemory, At, InMemory

LEMMA OrderlyStep == Orderly /\ [Next]_vars => Orderly'
<1> SUFFICES ASSUME Orderly, [Next]_vars PROVE Orderly'
  OBVIOUS
<1> USE DEF wires, handlers, claims, history
<1>0. TypeOK /\ Placed /\ TypeOK' /\ Placed'
  BY TypeStep DEF Orderly
<1> DEFINE Goals == FreshDeliveries' /\ HandedFirst' /\ CheckedInMemory' /\ QueuedWhere'
<1> SUFFICES Goals
  BY <1>0 DEF Orderly
<1>a. Orderly' => Goals
  BY DEF Orderly
<1>1. ASSUME NEW e \in Event, NEW p \in Process, Deliver(e, p) PROVE Goals
  <2> DEFINE n == delivered[e] + 1
  <2>1. /\ n \in Delivery
        /\ delivered[e] \in Nat
        /\ \A f \in Event : delivered'[f] = IF f = e THEN n ELSE delivered[f]
        /\ \A f \in Event, j \in Delivery :
              front'[f][j] = IF f = e /\ j = n THEN "arrived" ELSE front[f][j]
        /\ \A f \in Event, j \in Delivery :
              place'[f][j] = IF f = e /\ j = n THEN p ELSE place[f][j]
        /\ UNCHANGED <<deployment, back, site>>
    BY <1>0, <1>1, DeliverIs, MaxDeliveriesAssumption DEF Deliver, TypeOK
  <2> HIDE DEF n
  <2>2. back[e][n] = "none"
    <3>1. n > delivered[e]
      BY <2>1 DEF n
    <3> QED BY <2>1, <3>1 DEF Orderly, FreshDeliveries, HandedFirst, NotHanded
  <2>3. FreshDeliveries'
    <3> SUFFICES ASSUME NEW f \in Event, NEW j \in Delivery, j > delivered'[f]
                 PROVE  front'[f][j] = "none"
      BY DEF FreshDeliveries
    <3>1. j > delivered[f] /\ ~ (f = e /\ j = n)
      BY <2>1 DEF n, Delivery
    <3> QED BY <2>1, <3>1 DEF Orderly, FreshDeliveries
  <2>4. HandedFirst'
    BY <2>1, <2>2 DEF Orderly, HandedFirst
  <2>5. CheckedInMemory'
    BY <2>1 DEF Orderly, CheckedInMemory, At, InMemory
  <2>6. QueuedWhere'
    BY <2>1, <2>2 DEF Orderly, QueuedWhere
  <2> QED BY <2>3, <2>4, <2>5, <2>6
<1>2. ASSUME NEW e \in Event, Miss(e) PROVE Goals
  <2>1. /\ UNCHANGED <<deployment, front, place, back, site>>
        /\ \A f \in Event : delivered[f] \in Nat /\ delivered'[f] >= delivered[f]
        /\ \A f \in Event : delivered'[f] \in Nat
    BY <1>0, <1>2, MaxDeliveriesAssumption DEF Miss, TypeOK
  <2>2. FreshDeliveries'
    BY <2>1 DEF Orderly, FreshDeliveries, Delivery
  <2> QED BY <2>1, <2>2 DEF Orderly, HandedFirst, CheckedInMemory, QueuedWhere, At, InMemory
<1>3. ASSUME NEW e \in Event, NEW k \in Delivery, FindClaimed(e, k) PROVE Goals
  BY <1>0, <1>3, <1>a, FrontStepOrderly DEF FindClaimed, Drop, At, FrontPhase, NotHanded
<1>4. ASSUME NEW e \in Event, NEW k \in Delivery, FindUnclaimed(e, k) PROVE Goals
  BY <1>0, <1>4, <1>a, FrontStepOrderly DEF FindUnclaimed, At, FrontPhase, NotHanded
<1>5. ASSUME NEW e \in Event, NEW k \in Delivery, Record(e, k) PROVE Goals
  BY <1>0, <1>5, <1>a, FrontStepOrderly DEF Record, At, FrontPhase, NotHanded
<1>6. ASSUME NEW e \in Event, NEW k \in Delivery, Claim(e, k) PROVE Goals
  <2>1. CASE MayClaim(e)
    BY <1>0, <1>6, <1>a, <2>1, FrontStepOrderly DEF Claim, At, FrontPhase, NotHanded
  <2>2. CASE ~ MayClaim(e)
    BY <1>0, <1>6, <1>a, <2>2, FrontStepOrderly DEF Claim, Drop, At, FrontPhase, NotHanded
  <2> QED BY <2>1, <2>2
<1>7. ASSUME NEW e \in Event, NEW k \in Delivery, ClaimFails(e, k) PROVE Goals
  BY <1>0, <1>7, <1>a, FrontStepOrderly DEF ClaimFails, At, FrontPhase, NotHanded
<1>8. ASSUME NEW e \in Event, NEW k \in Delivery, HandOver(e, k) PROVE Goals
  <2>1. /\ front[e][k] = "taken" /\ "handed" \in FrontPhase /\ "queued" \in BackPhase
        /\ Advance(e, k, "handed")
        /\ back' = [back EXCEPT ![e][k] = "queued"]
        /\ site' = [site EXCEPT ![e][k] = IF deployment = "socket" THEN place[e][k]
                                                                   ELSE "none"]
        /\ (IF deployment = "socket" THEN place[e][k] ELSE "none") \in Process \cup {"none"}
        /\ UNCHANGED <<deployment, delivered, place>>
    BY <1>0, <1>8 DEF HandOver, At, FrontPhase, BackPhase, TypeOK
  <2>2. \A f \in Event, j \in Delivery :
           front'[f][j] = IF f = e /\ j = k THEN "handed" ELSE front[f][j]
    BY <1>0, <2>1, AdvanceIs
  <2>3. \A f \in Event, j \in Delivery :
           back'[f][j] = IF f = e /\ j = k THEN "queued" ELSE back[f][j]
    BY <1>0, <2>1, BackIs
  <2>4. \A f \in Event, j \in Delivery :
           site'[f][j] = IF f = e /\ j = k
                         THEN IF deployment = "socket" THEN place[e][k] ELSE "none"
                         ELSE site[f][j]
    BY <1>0, <2>1, SiteIs
  <2>5. FreshDeliveries'
    BY <2>1, <2>2 DEF Orderly, FreshDeliveries
  <2>6. HandedFirst'
    BY <2>2, <2>3 DEF Orderly, HandedFirst, NotHanded
  <2>7. CheckedInMemory'
    BY <2>1, <2>2 DEF Orderly, CheckedInMemory, At, InMemory
  <2>8. QueuedWhere'
    BY <2>1, <2>3, <2>4 DEF Orderly, QueuedWhere
  <2> QED BY <2>5, <2>6, <2>7, <2>8
<1>9. ASSUME NEW e \in Event, NEW k \in Delivery, HandOverRaises(e, k) PROVE Goals
  BY <1>0, <1>9, <1>a, FrontStepOrderly DEF HandOverRaises, At, FrontPhase, NotHanded
<1>10. ASSUME NEW e \in Event, NEW k \in Delivery, Answer(e, k) PROVE Goals
  BY <1>0, <1>10, <1>a, FrontStepOrderly DEF Answer, At, FrontPhase, NotHanded
<1>11. ASSUME NEW e \in Event, NEW k \in Delivery, NEW p \in Process, Run(e, k, p)
       PROVE  Goals
  <2>1. /\ "running" \in BackPhase /\ "running" # "queued" /\ back[e][k] # "none"
        /\ p \in Process \cup {"none"}
    BY <1>11 DEF Run, BackPhase
  <2> QED BY <1>0, <1>11, <1>a, <2>1, BackStepOrderly DEF Run
<1>12. ASSUME NEW e \in Event, NEW k \in Delivery, Finish(e, k) PROVE Goals
  <2>1. /\ "done" \in BackPhase /\ "done" # "queued" /\ back[e][k] # "none"
        /\ site[e][k] \in Process \cup {"none"}
        /\ site' = [site EXCEPT ![e][k] = site[e][k]]
    BY <1>0, <1>12 DEF Finish, BackPhase, TypeOK
  <2> QED BY <1>0, <1>12, <1>a, <2>1, BackStepOrderly DEF Finish
<1>13. ASSUME NEW e \in Event, NEW k \in Delivery, ClaimResent(e, k) PROVE Goals
  BY <1>13 DEF ClaimResent, Orderly, FreshDeliveries, HandedFirst, CheckedInMemory,
               QueuedWhere, At, InMemory
<1>14. ASSUME NEW e \in Event, NEW k \in Delivery, Requeue(e, k) PROVE Goals
  <2>1. "queued" \in BackPhase /\ back[e][k] # "none" /\ "none" \in Process \cup {"none"}
    BY <1>14 DEF Requeue, BackPhase
  <2> QED BY <1>0, <1>14, <1>a, <2>1, BackStepOrderly DEF Requeue
<1>15. ASSUME NEW p \in Process, Kill(p) PROVE Goals
  <2>1. /\ \A e \in Event, k \in Delivery :
              front'[e][k] = IF Handling(e, k) /\ place[e][k] = p THEN "dead" ELSE front[e][k]
        /\ \A e \in Event, k \in Delivery :
              back'[e][k] = IF back[e][k] \in {"queued", "running"} /\ site[e][k] = p
                            THEN "dead" ELSE back[e][k]
        /\ UNCHANGED <<deployment, delivered, place, site>>
    BY <1>0, <1>15, KillIs DEF Kill
  <2>2. FreshDeliveries'
    BY <2>1 DEF Orderly, FreshDeliveries, Handling
  <2>3. HandedFirst'
    BY <2>1 DEF Orderly, HandedFirst, NotHanded
  <2>4. CheckedInMemory'
    BY <2>1 DEF Orderly, CheckedInMemory, At, InMemory
  <2>5. QueuedWhere'
    BY <2>1 DEF Orderly, QueuedWhere
  <2> QED BY <2>2, <2>3, <2>4, <2>5
<1>16. ASSUME NEW p \in Process, OtherTraffic(p) PROVE Goals
  BY <1>16 DEF OtherTraffic, Orderly, FreshDeliveries, HandedFirst, CheckedInMemory,
               QueuedWhere, At, InMemory
<1>17. CASE UNCHANGED vars
  BY <1>17 DEF vars, Orderly, FreshDeliveries, HandedFirst, CheckedInMemory,
               QueuedWhere, At, InMemory
<1> QED BY <1>1, <1>2, <1>3, <1>4, <1>5, <1>6, <1>7, <1>8, <1>9, <1>10, <1>11, <1>12,
           <1>13, <1>14, <1>15, <1>16, <1>17 DEF Next, Handle

-----------------------------------------------------------------------------
(* One delivery of an event passes the claim. *)

\* The delivery has passed the claim, and may hand an eval over or has.
Passed(e, k) == front[e][k] = "taken" \/ back[e][k] # "none"

\* Its eval was started, unless it was killed before.
Started(e, k) == back[e][k] \in {"running", "done", "dead"}

OnePasses ==
    \A e \in Event \ excused : \A j, k \in Delivery : Passed(e, j) /\ Passed(e, k) => j = k

RunsPassed ==
    \A e \in Event \ excused : runs[e] > 0 => \E k \in Delivery : Started(e, k)

ClaimStands ==
    \A e \in Event \ excused : \A k \in Delivery :
        Passed(e, k) => IF InMemory THEN Remembers(place[e][k], e) ELSE e \in table

Once == AtMostOnce /\ OnePasses /\ RunsPassed /\ ClaimStands

LEMMA PassedPlace ==
    ASSUME Orderly, NEW e \in Event, NEW k \in Delivery, Passed(e, k)
    PROVE  place[e][k] \in Process
BY DEF Orderly, Placed, HandedFirst, NotHanded, Passed

LEMMA OnceInit == Init => Once
<1> SUFFICES ASSUME Init PROVE Once
  OBVIOUS
<1>1. /\ \A e \in Event, k \in Delivery : ~ Passed(e, k)
      /\ \A e \in Event : runs[e] = 0
  BY DEF Init, Blank, Passed
<1> QED BY <1>1 DEF Once, AtMostOnce, OnePasses, RunsPassed, ClaimStands

\* A step that lets no delivery pass and starts no eval, except for events
\* whose claim no longer holds.
LEMMA OnceKept ==
    ASSUME Orderly, Once, deployment' = deployment, table \subseteq table',
           excused \subseteq excused',
           \A e \in Event \ excused' :
              /\ runs'[e] = runs[e]
              /\ \A k \in Delivery :
                    /\ Passed(e, k)' => Passed(e, k) /\ place'[e][k] = place[e][k]
                    /\ Started(e, k) => Started(e, k)'
              /\ \A p \in Process : Remembers(p, e) => Remembers(p, e)'
    PROVE  Once'
<1>1. \A e \in Event \ excused' : e \in Event \ excused
  OBVIOUS
<1>2. AtMostOnce' /\ OnePasses' /\ RunsPassed'
  BY <1>1 DEF Once, AtMostOnce, OnePasses, RunsPassed
<1>3. ClaimStands'
  <2> SUFFICES ASSUME NEW e \in Event \ excused', NEW k \in Delivery, Passed(e, k)'
               PROVE  IF InMemory' THEN Remembers(place[e][k], e)' ELSE e \in table'
    BY DEF ClaimStands
  <2>1. Passed(e, k) /\ place'[e][k] = place[e][k] /\ e \in Event \ excused
    OBVIOUS
  <2>2. place[e][k] \in Process
    BY <2>1, PassedPlace
  <2>3. IF InMemory THEN Remembers(place[e][k], e) ELSE e \in table
    BY <2>1 DEF Once, ClaimStands
  <2>4. InMemory' = InMemory
    BY DEF InMemory
  <2>5. Remembers(place[e][k], e) => Remembers(place[e][k], e)'
    <3>1. Remembers(place[e][k], e) => \E i \in DOMAIN seen'[place[e][k]] : seen'[place[e][k]][i] = e
      BY <2>1, <2>2 DEF Remembers
    <3> QED BY <2>1, <3>1 DEF Remembers
  <2> QED BY <2>3, <2>4, <2>5
<1> QED BY <1>2, <1>3 DEF Once

\* A step of one delivery's front that takes nothing and forgets nothing.
LEMMA FrontStepOnce ==
    ASSUME Orderly, Once, NEW e \in Event, NEW k \in Delivery, NEW step \in FrontPhase \ {"taken"},
           Advance(e, k, step),
           \A p \in Process, x \in Event : Remembers(p, x) => Remembers(p, x)',
           UNCHANGED <<deployment, table, place, back, runs, excused>>
    PROVE  Once'
<1>1. \A f \in Event, j \in Delivery :
         front'[f][j] = IF f = e /\ j = k THEN step ELSE front[f][j]
  BY AdvanceIs DEF Orderly
<1>2. \A f \in Event, j \in Delivery :
         /\ Passed(f, j)' => Passed(f, j)
         /\ Started(f, j) => Started(f, j)'
  BY <1>1 DEF Passed, Started
<1> QED BY <1>2, OnceKept

\* A delivery passes the claim, of an event nobody has passed for.
LEMMA TakenOnce ==
    ASSUME Orderly, Once, NEW e \in Event, NEW k \in Delivery, front[e][k] # "taken",
           Advance(e, k, "taken"),
           UNCHANGED <<deployment, place, back, runs>>,
           excused \subseteq excused', table \subseteq table',
           \A p \in Process, x \in Event \ excused' : Remembers(p, x) => Remembers(p, x)',
           \/ e \in excused'
           \/ /\ \A j \in Delivery : ~ Passed(e, j)
              /\ IF InMemory THEN Remembers(place[e][k], e)' ELSE e \in table'
    PROVE  Once'
<1>1. \A f \in Event, j \in Delivery :
         front'[f][j] = IF f = e /\ j = k THEN "taken" ELSE front[f][j]
  BY AdvanceIs DEF Orderly, FrontPhase
<1>2. \A f \in Event, j \in Delivery :
         /\ ~ (f = e /\ j = k) => (Passed(f, j)' <=> Passed(f, j))
         /\ Started(f, j)' <=> Started(f, j)
  BY <1>1 DEF Passed, Started
<1>3. CASE e \in excused'
  BY <1>2, <1>3, OnceKept
<1>4. CASE e \notin excused'
  <2>1. /\ \A j \in Delivery : ~ Passed(e, j)
        /\ IF InMemory THEN Remembers(place[e][k], e)' ELSE e \in table'
    BY <1>4
  <2>2. AtMostOnce' /\ RunsPassed'
    BY <1>2 DEF Once, AtMostOnce, RunsPassed
  <2>3. OnePasses'
    BY <1>2, <2>1 DEF Once, OnePasses
  <2>4. ClaimStands'
    <3> SUFFICES ASSUME NEW f \in Event \ excused', NEW j \in Delivery, Passed(f, j)'
                 PROVE  IF InMemory' THEN Remembers(place[f][j], f)' ELSE f \in table'
      BY DEF ClaimStands
    <3>1. InMemory' = InMemory /\ place'[f][j] = place[f][j]
      BY DEF InMemory
    <3>2. CASE f = e /\ j = k
      BY <2>1, <3>1, <3>2
    <3>3. CASE ~ (f = e /\ j = k)
      <4>1. Passed(f, j) /\ f \in Event \ excused
        BY <1>2, <3>3
      <4>2. place[f][j] \in Process
        BY <4>1, PassedPlace
      <4>3. IF InMemory THEN Remembers(place[f][j], f) ELSE f \in table
        BY <4>1 DEF Once, ClaimStands
      <4>4. Remembers(place[f][j], f) => Remembers(place[f][j], f)'
        <5>1. Remembers(place[f][j], f) =>
                 \E i \in DOMAIN seen'[place[f][j]] : seen'[place[f][j]][i] = f
          BY <4>2 DEF Remembers
        <5> QED BY <3>1, <5>1 DEF Remembers
      <4> QED BY <3>1, <4>3, <4>4
    <3> QED BY <3>2, <3>3
  <2> QED BY <2>2, <2>3, <2>4 DEF Once
<1> QED BY <1>3, <1>4

LEMMA OnceStep == Orderly /\ Once /\ [Next]_vars => Once'
<1> SUFFICES ASSUME Orderly, Once, [Next]_vars PROVE Once'
  OBVIOUS
<1> USE DEF wires, handlers, claims, history
<1>0. TypeOK /\ Placed
  BY DEF Orderly
<1>k. ASSUME UNCHANGED <<deployment, front, back, place, runs>>,
             table \subseteq table', excused \subseteq excused',
             \A p \in Process, x \in Event \ excused' : Remembers(p, x) => Remembers(p, x)'
      PROVE  Once'
  BY <1>k, OnceKept DEF Passed, Started
<1>1. ASSUME NEW e \in Event, NEW p \in Process, Deliver(e, p) PROVE Once'
  <2> DEFINE n == delivered[e] + 1
  <2>1. /\ n \in Delivery /\ n > delivered[e]
        /\ \A f \in Event, j \in Delivery :
              IF f = e /\ j = n
              THEN front'[f][j] = "arrived" /\ place'[f][j] = p
              ELSE front'[f][j] = front[f][j] /\ place'[f][j] = place[f][j]
    <3>1. delivered[e] \in Nat
      BY <1>0, MaxDeliveriesAssumption DEF TypeOK
    <3> QED BY <1>0, <1>1, <3>1, DeliverIs
  <2> HIDE DEF n
  <2>2. back[e][n] = "none"
    BY <2>1 DEF Orderly, FreshDeliveries, HandedFirst, NotHanded
  <2>3. UNCHANGED <<deployment, back, table, runs, seen, excused>>
    BY <1>1 DEF Deliver
  <2>4. \A f \in Event, j \in Delivery :
           /\ Passed(f, j)' => Passed(f, j) /\ place'[f][j] = place[f][j]
           /\ Started(f, j) => Started(f, j)'
    BY <2>1, <2>2, <2>3 DEF Passed, Started
  <2>5. \A q \in Process, x \in Event : Remembers(q, x) => Remembers(q, x)'
    BY <2>3 DEF Remembers
  <2> QED BY <2>3, <2>4, <2>5, OnceKept
<1>2. ASSUME NEW e \in Event, Miss(e) PROVE Once'
  BY <1>2, <1>k DEF Miss, Remembers
<1>3. ASSUME NEW e \in Event, NEW k \in Delivery, FindClaimed(e, k) PROVE Once'
  <2>1. \A p \in Process, x \in Event : Remembers(p, x) => Remembers(p, x)'
    BY <1>0, <1>3, FindClaimedIs DEF Remembers, Holds
  <2> QED BY <1>3, <2>1, FrontStepOnce DEF FindClaimed, Drop, FrontPhase
<1>4. ASSUME NEW e \in Event, NEW k \in Delivery, FindUnclaimed(e, k) PROVE Once'
  BY <1>4, FrontStepOnce DEF FindUnclaimed, FrontPhase, Remembers
<1>5. ASSUME NEW e \in Event, NEW k \in Delivery, Record(e, k) PROVE Once'
  <2> DEFINE p == place[e][k]
  <2>1. /\ p \in Process
        /\ \A q \in Process \ {p} : seen'[q] = seen[q]
        /\ ~ Remembers(p, e) => Holds(seen'[p], e)
        /\ excused' = excused \cup Forgotten(p, seen'[p])
                        \cup (IF Remembers(p, e) THEN {e} ELSE {})
                        \cup (IF \E q \in Process \ {p} : Remembers(q, e) THEN {e} ELSE {})
    BY <1>0, <1>5, RecordIs
  <2>2. ASSUME NEW q \in Process, NEW x \in Event \ excused', Remembers(q, x)
        PROVE  Remembers(q, x)'
    <3>1. CASE q = p
      <4>1. x \notin Forgotten(p, seen'[p])
        BY <2>1, <2>2
      <4> QED BY <2>2, <3>1, <4>1 DEF Forgotten, Remembers
    <3>2. CASE q # p
      BY <2>1, <2>2, <3>2 DEF Remembers
    <3> QED BY <3>1, <3>2
  <2>3. ASSUME e \notin excused'
        PROVE  /\ \A j \in Delivery : ~ Passed(e, j)
               /\ IF InMemory THEN Remembers(place[e][k], e)' ELSE e \in table'
    <3>1. ~ Remembers(p, e) /\ ~ \E q \in Process \ {p} : Remembers(q, e)
      BY <2>1, <2>3
    <3>2. InMemory /\ place' = place
      BY <1>5 DEF Record, Orderly, CheckedInMemory
    <3>3. Holds(seen'[p], e)
      BY <2>1, <3>1
    <3>4. Remembers(p, e)'
      BY <3>2, <3>3 DEF Remembers, Holds
    <3>5. ASSUME NEW j \in Delivery, Passed(e, j) PROVE FALSE
      <4>1. place[e][j] \in Process
        BY <3>5, PassedPlace
      <4>2. Remembers(place[e][j], e)
        BY <2>1, <2>3, <3>2, <3>5 DEF Once, ClaimStands
      <4> QED BY <3>1, <4>1, <4>2
    <3> QED BY <3>2, <3>4, <3>5
  <2>4. /\ front[e][k] # "taken" /\ Advance(e, k, "taken")
        /\ UNCHANGED <<deployment, place, back, runs, table>>
        /\ excused \subseteq excused'
    BY <1>5, <2>1 DEF Record, At
  <2> QED BY <2>2, <2>3, <2>4, TakenOnce
<1>6. ASSUME NEW e \in Event, NEW k \in Delivery, Claim(e, k) PROVE Once'
  <2>1. CASE MayClaim(e)
    <3>1. /\ front[e][k] # "taken" /\ Advance(e, k, "taken") /\ ~ InMemory
          /\ UNCHANGED <<deployment, place, back, runs, excused, seen>>
          /\ e \notin table /\ e \in table' /\ table \subseteq table'
      BY <1>6, <2>1 DEF Claim, At, MayClaim
    <3>2. \A q \in Process, x \in Event : Remembers(q, x) => Remembers(q, x)'
      BY <3>1 DEF Remembers
    <3>3. ASSUME e \notin excused', NEW j \in Delivery PROVE ~ Passed(e, j)
      BY <3>1, <3>3 DEF Once, ClaimStands
    <3> QED BY <3>1, <3>2, <3>3, TakenOnce
  <2>2. CASE ~ MayClaim(e)
    <3>1. \A p \in Process, x \in Event : Remembers(p, x) => Remembers(p, x)'
      BY <1>6 DEF Claim, Remembers
    <3> QED BY <1>6, <2>2, <3>1, FrontStepOnce DEF Claim, Drop, FrontPhase
  <2> QED BY <2>1, <2>2
<1>7. ASSUME NEW e \in Event, NEW k \in Delivery, ClaimFails(e, k) PROVE Once'
  <2>1. /\ front[e][k] # "taken" /\ Advance(e, k, "taken")
        /\ UNCHANGED <<deployment, place, back, runs, seen>>
        /\ excused \subseteq excused' /\ e \in excused' /\ table \subseteq table'
    BY <1>7 DEF ClaimFails, At
  <2>2. \A q \in Process, x \in Event : Remembers(q, x) => Remembers(q, x)'
    BY <2>1 DEF Remembers
  <2> QED BY <2>1, <2>2, TakenOnce
<1>8. ASSUME NEW e \in Event, NEW k \in Delivery, HandOver(e, k) PROVE Once'
  <2>1. /\ front[e][k] = "taken" /\ Advance(e, k, "handed")
        /\ back' = [back EXCEPT ![e][k] = "queued"]
        /\ UNCHANGED <<deployment, place, table, seen, runs, excused>>
        /\ "handed" \in FrontPhase /\ "queued" \in BackPhase
    BY <1>8 DEF HandOver, At, FrontPhase, BackPhase
  <2>2. \A f \in Event, j \in Delivery :
           front'[f][j] = IF f = e /\ j = k THEN "handed" ELSE front[f][j]
    BY <1>0, <2>1, AdvanceIs
  <2>3. \A f \in Event, j \in Delivery :
           back'[f][j] = IF f = e /\ j = k THEN "queued" ELSE back[f][j]
    BY <1>0, <2>1, BackIs
  <2>4. back[e][k] = "none"
    BY <2>1 DEF Orderly, HandedFirst, NotHanded
  <2>5. \A f \in Event, j \in Delivery :
           /\ Passed(f, j)' => Passed(f, j)
           /\ Started(f, j) => Started(f, j)'
    BY <2>1, <2>2, <2>3, <2>4 DEF Passed, Started
  <2>6. \A q \in Process, x \in Event : Remembers(q, x) => Remembers(q, x)'
    BY <2>1 DEF Remembers
  <2> QED BY <2>1, <2>5, <2>6, OnceKept
<1>9. ASSUME NEW e \in Event, NEW k \in Delivery, HandOverRaises(e, k) PROVE Once'
  BY <1>9, FrontStepOnce DEF HandOverRaises, FrontPhase, Remembers
<1>10. ASSUME NEW e \in Event, NEW k \in Delivery, Answer(e, k) PROVE Once'
  BY <1>10, FrontStepOnce DEF Answer, FrontPhase, Remembers
<1>11. ASSUME NEW e \in Event, NEW k \in Delivery, NEW p \in Process, Run(e, k, p) PROVE Once'
  <2>1. /\ back[e][k] = "queued" /\ "running" \in BackPhase
        /\ back' = [back EXCEPT ![e][k] = "running"]
        /\ runs' = [runs EXCEPT ![e] = @ + 1]
        /\ UNCHANGED <<deployment, front, place, table, seen, excused>>
    BY <1>11 DEF Run, PassesClaim, BackPhase
  <2>2. \A f \in Event, j \in Delivery :
           back'[f][j] = IF f = e /\ j = k THEN "running" ELSE back[f][j]
    BY <1>0, <2>1, BackIs
  <2>3. \A f \in Event : runs[f] \in Nat /\ runs'[f] = IF f = e THEN runs[e] + 1 ELSE runs[f]
    BY <1>0, <2>1 DEF TypeOK
  <2>4. \A f \in Event, j \in Delivery :
           /\ Passed(f, j)' <=> Passed(f, j)
           /\ Started(f, j) => Started(f, j)'
           /\ Started(e, k)'
    BY <2>1, <2>2 DEF Passed, Started
  <2>5. e \notin excused => runs[e] = 0
    <3>1. SUFFICES ASSUME e \notin excused, runs[e] > 0 PROVE FALSE
      BY <2>3
    <3>2. PICK j \in Delivery : Started(e, j)
      BY <3>1 DEF Once, RunsPassed
    <3>3. Passed(e, j) /\ Passed(e, k)
      BY <2>1, <3>2 DEF Passed, Started
    <3>4. j = k
      BY <3>1, <3>3 DEF Once, OnePasses
    <3> QED BY <2>1, <3>2, <3>4 DEF Started
  <2>6. AtMostOnce'
    BY <2>1, <2>3, <2>5 DEF Once, AtMostOnce
  <2>7. OnePasses'
    BY <2>1, <2>4 DEF Once, OnePasses
  <2>8. RunsPassed'
    BY <2>1, <2>3, <2>4 DEF Once, RunsPassed
  <2>9. ClaimStands'
    BY <2>1, <2>4 DEF Once, ClaimStands, InMemory, Remembers
  <2> QED BY <2>6, <2>7, <2>8, <2>9 DEF Once
<1>12. ASSUME NEW e \in Event, NEW k \in Delivery, Finish(e, k) PROVE Once'
  <2>1. /\ back[e][k] = "running" /\ "done" \in BackPhase
        /\ back' = [back EXCEPT ![e][k] = "done"]
        /\ UNCHANGED <<deployment, front, place, table, seen, runs, excused>>
    BY <1>12 DEF Finish, BackPhase
  <2>2. \A f \in Event, j \in Delivery :
           back'[f][j] = IF f = e /\ j = k THEN "done" ELSE back[f][j]
    BY <1>0, <2>1, BackIs
  <2>3. \A f \in Event, j \in Delivery :
           /\ Passed(f, j)' => Passed(f, j)
           /\ Started(f, j) => Started(f, j)'
    BY <2>1, <2>2 DEF Passed, Started
  <2>4. \A q \in Process, x \in Event : Remembers(q, x) => Remembers(q, x)'
    BY <2>1 DEF Remembers
  <2> QED BY <2>1, <2>3, <2>4, OnceKept
<1>13. ASSUME NEW e \in Event, NEW k \in Delivery, ClaimResent(e, k) PROVE Once'
  BY <1>13, <1>k DEF ClaimResent, Remembers
<1>14. ASSUME NEW e \in Event, NEW k \in Delivery, Requeue(e, k) PROVE Once'
  <2>1. /\ back[e][k] = "dead" /\ "queued" \in BackPhase
        /\ back' = [back EXCEPT ![e][k] = "queued"]
        /\ excused' = excused \cup {e}
        /\ UNCHANGED <<deployment, front, place, table, seen, runs>>
    BY <1>14 DEF Requeue, BackPhase
  <2>2. \A f \in Event, j \in Delivery :
           back'[f][j] = IF f = e /\ j = k THEN "queued" ELSE back[f][j]
    BY <1>0, <2>1, BackIs
  <2>3. \A f \in Event \ excused', j \in Delivery :
           /\ Passed(f, j)' => Passed(f, j)
           /\ Started(f, j) => Started(f, j)'
    BY <2>1, <2>2 DEF Passed, Started
  <2>4. \A q \in Process, x \in Event : Remembers(q, x) => Remembers(q, x)'
    BY <2>1 DEF Remembers
  <2> QED BY <2>1, <2>3, <2>4, OnceKept
<1>15. ASSUME NEW p \in Process, Kill(p) PROVE Once'
  <2>1. /\ \A e \in Event, k \in Delivery :
              front'[e][k] = IF Handling(e, k) /\ place[e][k] = p THEN "dead" ELSE front[e][k]
        /\ \A e \in Event, k \in Delivery :
              back'[e][k] = IF back[e][k] \in {"queued", "running"} /\ site[e][k] = p
                            THEN "dead" ELSE back[e][k]
        /\ \A q \in Process : seen'[q] = IF q = p THEN <<>> ELSE seen[q]
        /\ excused' = excused \cup {e \in Event : Remembers(p, e)}
        /\ UNCHANGED <<deployment, place, table, runs>>
    BY <1>0, <1>15, KillIs DEF Kill
  <2>2. \A f \in Event, j \in Delivery :
           /\ Passed(f, j)' => Passed(f, j)
           /\ Started(f, j) => Started(f, j)'
    BY <2>1 DEF Passed, Started
  <2>3. \A q \in Process, x \in Event \ excused' : Remembers(q, x) => Remembers(q, x)'
    BY <2>1 DEF Remembers
  <2> QED BY <2>1, <2>2, <2>3, OnceKept
<1>16. ASSUME NEW p \in Process, OtherTraffic(p) PROVE Once'
  <2>1. /\ \A q \in Process \ {p} : seen'[q] = seen[q]
        /\ excused' = excused \cup Forgotten(p, seen'[p])
    BY <1>0, <1>16, OtherTrafficIs
  <2>2. ASSUME NEW q \in Process, NEW x \in Event \ excused', Remembers(q, x)
        PROVE  Remembers(q, x)'
    <3>1. CASE q = p
      <4>1. x \notin Forgotten(p, seen'[p])
        BY <2>1, <2>2
      <4> QED BY <2>2, <3>1, <4>1 DEF Forgotten, Remembers
    <3>2. CASE q # p
      BY <2>1, <2>2, <3>2 DEF Remembers
    <3> QED BY <3>1, <3>2
  <2> QED BY <1>16, <1>k, <2>1, <2>2 DEF OtherTraffic
<1>17. CASE UNCHANGED vars
  BY <1>17, <1>k DEF vars, Remembers
<1> QED BY <1>1, <1>2, <1>3, <1>4, <1>5, <1>6, <1>7, <1>8, <1>9, <1>10, <1>11, <1>12,
           <1>13, <1>14, <1>15, <1>16, <1>17 DEF Next, Handle

\* An event whose claim was never lost, made in two places or repeated by
\* the platform runs at most once, in each of the three deployments.
THEOREM RunsAtMostOnce == Spec => []AtMostOnce
<1>1. Init => Orderly /\ Once
  BY OrderlyInit, OnceInit
<1>2. Orderly /\ Once /\ [Next]_vars => Orderly' /\ Once'
  BY OrderlyStep, OnceStep
<1>3. Once => AtMostOnce
  BY DEF Once
<1> QED BY <1>1, <1>2, <1>3, PTL DEF Spec

-----------------------------------------------------------------------------
(* A delivery is dropped only when its event is taken on. *)

\* The event has been run, or its claim stands without anybody who goes on.
TakenOn(e) == runs[e] > 0 \/ e \in orphaned

\* The delivery has its eval still to start.
Pending(e, k) == front[e][k] = "taken" \/ back[e][k] = "queued"

\* An id is in a process' memory because a delivery handled there took it.
RecordExplained ==
    InMemory => \A p \in Process, e \in Event :
        Remembers(p, e) =>
            TakenOn(e) \/ \E k \in Delivery : Pending(e, k) /\ place[e][k] = p

\* An id is in the table because a delivery took it.
TableExplained ==
    ~ InMemory => \A e \in table : TakenOn(e) \/ \E k \in Delivery : Pending(e, k)

Explained == RecordExplained /\ TableExplained

LEMMA ExplainedInit == Init => Explained
BY DEF Init, Explained, RecordExplained, TableExplained, Remembers

\* A step that claims nothing and loses nothing that is pending.
LEMMA ExplainedKept ==
    ASSUME TypeOK, Explained, deployment' = deployment,
           \A e \in table' : e \in table \/ TakenOn(e)' \/ \E k \in Delivery : Pending(e, k)',
           \A p \in Process, e \in Event :
              Remembers(p, e)' => \/ Remembers(p, e) \/ TakenOn(e)'
                                  \/ \E k \in Delivery : Pending(e, k)' /\ place'[e][k] = p,
           \A e \in Event :
              /\ TakenOn(e) => TakenOn(e)'
              /\ \A k \in Delivery :
                    Pending(e, k) => TakenOn(e)' \/ (Pending(e, k)' /\ place'[e][k] = place[e][k])
    PROVE  Explained'
<1>1. InMemory' = InMemory
  BY DEF InMemory
<1>2. RecordExplained'
  BY <1>1 DEF Explained, RecordExplained
<1>3. table \subseteq Event
  BY DEF TypeOK
<1>4. TableExplained'
  BY <1>1, <1>3 DEF Explained, TableExplained
<1> QED BY <1>2, <1>4 DEF Explained

\* A step of one delivery's front that takes nothing and gives nothing up.
LEMMA FrontStepExplained ==
    ASSUME TypeOK, Explained, NEW e \in Event, NEW k \in Delivery, NEW step \in FrontPhase,
           Advance(e, k, step),
           front[e][k] # "taken" \/ e \in orphaned',
           table' = table,
           \A p \in Process, x \in Event :
              Remembers(p, x)' => \/ Remembers(p, x)
                                  \/ x = e /\ p = place[e][k] /\ step = "taken",
           orphaned \subseteq orphaned',
           UNCHANGED <<deployment, place, back, runs>>
    PROVE  Explained'
<1>1. \A f \in Event, j \in Delivery :
         front'[f][j] = IF f = e /\ j = k THEN step ELSE front[f][j]
  BY AdvanceIs
<1>2. \A f \in Event :
         /\ TakenOn(f) => TakenOn(f)'
         /\ \A j \in Delivery :
               Pending(f, j) => TakenOn(f)' \/ (Pending(f, j)' /\ place'[f][j] = place[f][j])
  BY <1>1 DEF TakenOn, Pending
<1>3. step = "taken" => Pending(e, k)'
  BY <1>1 DEF Pending
<1> QED BY <1>2, <1>3, ExplainedKept

LEMMA ExplainedStep == Orderly /\ Explained /\ [Next]_vars => Explained'
<1> SUFFICES ASSUME Orderly, Explained, [Next]_vars PROVE Explained'
  OBVIOUS
<1> USE DEF wires, handlers, claims, history
<1>0. TypeOK /\ Placed
  BY DEF Orderly
<1>k. ASSUME UNCHANGED <<deployment, front, back, place, runs>>,
             orphaned \subseteq orphaned',
             \A e \in table' : e \in table \/ e \in orphaned',
             \A p \in Process, x \in Event : Remembers(p, x)' => Remembers(p, x)
      PROVE  Explained'
  BY <1>0, <1>k, ExplainedKept DEF TakenOn, Pending
<1>1. ASSUME NEW e \in Event, NEW p \in Process, Deliver(e, p) PROVE Explained'
  <2> DEFINE n == delivered[e] + 1
  <2>1. /\ n \in Delivery /\ n > delivered[e]
        /\ \A f \in Event, j \in Delivery :
              IF f = e /\ j = n
              THEN front'[f][j] = "arrived" /\ place'[f][j] = p
              ELSE front'[f][j] = front[f][j] /\ place'[f][j] = place[f][j]
    <3>1. delivered[e] \in Nat
      BY <1>0, MaxDeliveriesAssumption DEF TypeOK
    <3> QED BY <1>0, <1>1, <3>1, DeliverIs
  <2> HIDE DEF n
  <2>2. ~ Pending(e, n)
    BY <2>1 DEF Orderly, FreshDeliveries, HandedFirst, NotHanded, Pending
  <2>3. UNCHANGED <<deployment, back, table, runs, seen, orphaned>>
    BY <1>1 DEF Deliver
  <2>4. \A f \in Event :
           /\ TakenOn(f) => TakenOn(f)'
           /\ \A j \in Delivery :
                 Pending(f, j) => Pending(f, j)' /\ place'[f][j] = place[f][j]
    BY <2>1, <2>2, <2>3 DEF TakenOn, Pending
  <2>5. \A q \in Process, x \in Event : Remembers(q, x)' => Remembers(q, x)
    BY <2>3 DEF Remembers
  <2> QED BY <1>0, <2>3, <2>4, <2>5, ExplainedKept
<1>2. ASSUME NEW e \in Event, Miss(e) PROVE Explained'
  BY <1>2, <1>k DEF Miss, Remembers
<1>3. ASSUME NEW e \in Event, NEW k \in Delivery, FindClaimed(e, k) PROVE Explained'
  <2>1. \A p \in Process, x \in Event : Remembers(p, x)' => Remembers(p, x)
    BY <1>0, <1>3, FindClaimedIs DEF Remembers, Holds
  <2>2. /\ front[e][k] # "taken" /\ Advance(e, k, "dropped") /\ "dropped" \in FrontPhase
        /\ UNCHANGED <<deployment, place, back, runs, table, orphaned>>
    BY <1>3 DEF FindClaimed, Drop, At, FrontPhase
  <2> QED BY <1>0, <2>1, <2>2, FrontStepExplained
<1>4. ASSUME NEW e \in Event, NEW k \in Delivery, FindUnclaimed(e, k) PROVE Explained'
  <2>1. /\ front[e][k] # "taken" /\ Advance(e, k, "checked") /\ "checked" \in FrontPhase
        /\ UNCHANGED <<deployment, place, back, runs, table, orphaned, seen>>
    BY <1>4 DEF FindUnclaimed, At, FrontPhase
  <2>2. \A p \in Process, x \in Event : Remembers(p, x)' => Remembers(p, x)
    BY <2>1 DEF Remembers
  <2> QED BY <1>0, <2>1, <2>2, FrontStepExplained
<1>5. ASSUME NEW e \in Event, NEW k \in Delivery, Record(e, k) PROVE Explained'
  <2> DEFINE p == place[e][k]
  <2>1. /\ p \in Process
        /\ \A q \in Process \ {p} : seen'[q] = seen[q]
        /\ \A x \in Event : Holds(seen'[p], x) => x = e \/ Remembers(p, x)
    BY <1>0, <1>5, RecordIs
  <2>2. /\ front[e][k] # "taken" /\ Advance(e, k, "taken") /\ "taken" \in FrontPhase
        /\ UNCHANGED <<deployment, place, back, runs, table, orphaned>>
    BY <1>5 DEF Record, At, FrontPhase
  <2>3. ASSUME NEW q \in Process, NEW x \in Event, Remembers(q, x)'
        PROVE  Remembers(q, x) \/ (x = e /\ q = p)
    <3>1. CASE q = p
      <4>1. Holds(seen'[p], x)
        BY <2>3, <3>1 DEF Remembers, Holds
      <4> QED BY <2>1, <3>1, <4>1
    <3>2. CASE q # p
      BY <2>1, <2>3, <3>2 DEF Remembers
    <3> QED BY <3>1, <3>2
  <2> QED BY <1>0, <2>2, <2>3, FrontStepExplained
<1>c. ASSUME NEW e \in Event, NEW k \in Delivery, front[e][k] = "arrived",
             Advance(e, k, "taken"), table' \subseteq table \cup {e},
             UNCHANGED <<deployment, place, back, runs, seen, orphaned>>
      PROVE  Explained'
  <2>1. \A f \in Event, j \in Delivery :
           front'[f][j] = IF f = e /\ j = k THEN "taken" ELSE front[f][j]
    BY <1>0, <1>c, AdvanceIs DEF FrontPhase
  <2>2. \A f \in Event :
           /\ TakenOn(f) => TakenOn(f)'
           /\ \A j \in Delivery :
                 Pending(f, j) => Pending(f, j)' /\ place'[f][j] = place[f][j]
    BY <1>c, <2>1 DEF TakenOn, Pending
  <2>3. Pending(e, k)'
    BY <2>1 DEF Pending
  <2>4. \A f \in table' : f \in table \/ \E j \in Delivery : Pending(f, j)'
    BY <1>c, <2>3
  <2>5. \A q \in Process, x \in Event : Remembers(q, x)' => Remembers(q, x)
    BY <1>c DEF Remembers
  <2> QED BY <1>0, <1>c, <2>2, <2>4, <2>5, ExplainedKept
<1>6. ASSUME NEW e \in Event, NEW k \in Delivery, Claim(e, k) PROVE Explained'
  <2>1. CASE MayClaim(e)
    BY <1>6, <1>c, <2>1 DEF Claim, At
  <2>2. CASE ~ MayClaim(e)
    <3>1. /\ front[e][k] # "taken" /\ Advance(e, k, "dropped") /\ "dropped" \in FrontPhase
          /\ UNCHANGED <<deployment, place, back, runs, table, orphaned, seen>>
      BY <1>6, <2>2 DEF Claim, Drop, At, FrontPhase
    <3>2. \A p \in Process, x \in Event : Remembers(p, x)' => Remembers(p, x)
      BY <3>1 DEF Remembers
    <3> QED BY <1>0, <3>1, <3>2, FrontStepExplained
  <2> QED BY <2>1, <2>2
<1>7. ASSUME NEW e \in Event, NEW k \in Delivery, ClaimFails(e, k) PROVE Explained'
  BY <1>7, <1>c DEF ClaimFails, At
<1>8. ASSUME NEW e \in Event, NEW k \in Delivery, HandOver(e, k) PROVE Explained'
  <2>1. /\ front[e][k] = "taken" /\ Advance(e, k, "handed")
        /\ back' = [back EXCEPT ![e][k] = "queued"]
        /\ UNCHANGED <<deployment, place, table, seen, runs, orphaned>>
        /\ "handed" \in FrontPhase /\ "queued" \in BackPhase
    BY <1>8 DEF HandOver, At, FrontPhase, BackPhase
  <2>2. \A f \in Event, j \in Delivery :
           front'[f][j] = IF f = e /\ j = k THEN "handed" ELSE front[f][j]
    BY <1>0, <2>1, AdvanceIs
  <2>3. \A f \in Event, j \in Delivery :
           back'[f][j] = IF f = e /\ j = k THEN "queued" ELSE back[f][j]
    BY <1>0, <2>1, BackIs
  <2>4. \A f \in Event :
           /\ TakenOn(f) => TakenOn(f)'
           /\ \A j \in Delivery : Pending(f, j) => Pending(f, j)'
    BY <2>1, <2>2, <2>3 DEF TakenOn, Pending
  <2>5. \A q \in Process, x \in Event : Remembers(q, x)' => Remembers(q, x)
    BY <2>1 DEF Remembers
  <2> QED BY <1>0, <2>1, <2>4, <2>5, ExplainedKept
<1>9. ASSUME NEW e \in Event, NEW k \in Delivery, HandOverRaises(e, k) PROVE Explained'
  <2>1. /\ Advance(e, k, "dead") /\ "dead" \in FrontPhase
        /\ e \in orphaned' /\ orphaned \subseteq orphaned'
        /\ UNCHANGED <<deployment, place, back, runs, table, seen>>
    BY <1>9 DEF HandOverRaises, FrontPhase
  <2>2. \A p \in Process, x \in Event : Remembers(p, x)' => Remembers(p, x)
    BY <2>1 DEF Remembers
  <2> QED BY <1>0, <2>1, <2>2, FrontStepExplained
<1>10. ASSUME NEW e \in Event, NEW k \in Delivery, Answer(e, k) PROVE Explained'
  <2>1. /\ front[e][k] # "taken" /\ Advance(e, k, "answered") /\ "answered" \in FrontPhase
        /\ UNCHANGED <<deployment, place, back, runs, table, orphaned, seen>>
    BY <1>10 DEF Answer, At, FrontPhase
  <2>2. \A p \in Process, x \in Event : Remembers(p, x)' => Remembers(p, x)
    BY <2>1 DEF Remembers
  <2> QED BY <1>0, <2>1, <2>2, FrontStepExplained
<1>11. ASSUME NEW e \in Event, NEW k \in Delivery, NEW p \in Process, Run(e, k, p)
       PROVE  Explained'
  <2>1. /\ "running" \in BackPhase
        /\ back' = [back EXCEPT ![e][k] = "running"]
        /\ runs' = [runs EXCEPT ![e] = @ + 1]
        /\ UNCHANGED <<deployment, front, place, table, seen, orphaned>>
    BY <1>11 DEF Run, PassesClaim, BackPhase
  <2>2. \A f \in Event, j \in Delivery :
           back'[f][j] = IF f = e /\ j = k THEN "running" ELSE back[f][j]
    BY <1>0, <2>1, BackIs
  <2>3. \A f \in Event : runs[f] \in Nat /\ runs'[f] = IF f = e THEN runs[e] + 1 ELSE runs[f]
    BY <1>0, <2>1 DEF TypeOK
  <2>4. \A f \in Event :
           /\ TakenOn(f) => TakenOn(f)'
           /\ \A j \in Delivery : Pending(f, j) => TakenOn(f)' \/ Pending(f, j)'
    BY <2>1, <2>2, <2>3 DEF TakenOn, Pending
  <2>5. \A q \in Process, x \in Event : Remembers(q, x)' => Remembers(q, x)
    BY <2>1 DEF Remembers
  <2> QED BY <1>0, <2>1, <2>4, <2>5, ExplainedKept
<1>b. ASSUME NEW e \in Event, NEW k \in Delivery, NEW step \in BackPhase,
             back[e][k] # "queued", back' = [back EXCEPT ![e][k] = step],
             UNCHANGED <<deployment, front, place, table, seen, runs, orphaned>>
      PROVE  Explained'
  <2>1. \A f \in Event, j \in Delivery :
           back'[f][j] = IF f = e /\ j = k THEN step ELSE back[f][j]
    BY <1>0, <1>b, BackIs
  <2>2. \A f \in Event :
           /\ TakenOn(f) => TakenOn(f)'
           /\ \A j \in Delivery : Pending(f, j) => Pending(f, j)'
    BY <1>b, <2>1 DEF TakenOn, Pending
  <2>3. \A q \in Process, x \in Event : Remembers(q, x)' => Remembers(q, x)
    BY <1>b DEF Remembers
  <2> QED BY <1>0, <1>b, <2>2, <2>3, ExplainedKept
<1>12. ASSUME NEW e \in Event, NEW k \in Delivery, Finish(e, k) PROVE Explained'
  <2>1. "done" \in BackPhase /\ back[e][k] # "queued"
    BY <1>12 DEF Finish, BackPhase
  <2> QED BY <1>12, <1>b, <2>1 DEF Finish
<1>13. ASSUME NEW e \in Event, NEW k \in Delivery, ClaimResent(e, k) PROVE Explained'
  BY <1>13, <1>k DEF ClaimResent, Remembers
<1>14. ASSUME NEW e \in Event, NEW k \in Delivery, Requeue(e, k) PROVE Explained'
  <2>1. "queued" \in BackPhase /\ back[e][k] # "queued"
    BY <1>14 DEF Requeue, BackPhase
  <2> QED BY <1>14, <1>b, <2>1 DEF Requeue
<1>15. ASSUME NEW p \in Process, Kill(p) PROVE Explained'
  <2>1. /\ \A e \in Event, k \in Delivery :
              front'[e][k] = IF Handling(e, k) /\ place[e][k] = p THEN "dead" ELSE front[e][k]
        /\ \A e \in Event, k \in Delivery :
              back'[e][k] = IF back[e][k] \in {"queued", "running"} /\ site[e][k] = p
                            THEN "dead" ELSE back[e][k]
        /\ \A q \in Process : seen'[q] = IF q = p THEN <<>> ELSE seen[q]
        /\ orphaned' = orphaned \cup
              {e \in Event : ~ InMemory /\ \E k \in Delivery :
                                At(e, k, "taken") /\ place[e][k] = p}
        /\ UNCHANGED <<deployment, place, table, runs>>
    BY <1>0, <1>15, KillIs DEF Kill
  <2>2. InMemory' = InMemory
    BY <2>1 DEF InMemory
  <2>3. \A e \in Event : TakenOn(e) => TakenOn(e)'
    BY <2>1 DEF TakenOn
  <2>4. ASSUME NEW e \in Event, NEW k \in Delivery, Pending(e, k), place[e][k] # p
        PROVE  Pending(e, k)'
    <3>1. back[e][k] = "queued" => site[e][k] # p
      BY <2>4, NamesAssumption DEF Orderly, QueuedWhere
    <3> QED BY <2>1, <2>4, <3>1 DEF Pending
  <2>5. RecordExplained'
    <3> SUFFICES ASSUME InMemory, NEW q \in Process, NEW e \in Event, Remembers(q, e)'
                 PROVE  TakenOn(e)' \/ \E k \in Delivery : Pending(e, k)' /\ place'[e][k] = q
      BY <2>2 DEF RecordExplained
    <3>1. q # p /\ Remembers(q, e)
      BY <2>1 DEF Remembers
    <3>2. TakenOn(e) \/ \E k \in Delivery : Pending(e, k) /\ place[e][k] = q
      BY <3>1 DEF Explained, RecordExplained
    <3> QED BY <2>1, <2>3, <2>4, <3>1, <3>2
  <2>6. TableExplained'
    <3> SUFFICES ASSUME ~ InMemory, NEW e \in table
                 PROVE  TakenOn(e)' \/ \E k \in Delivery : Pending(e, k)'
      BY <2>1, <2>2 DEF TableExplained
    <3>0. e \in Event
      BY <1>0 DEF TypeOK
    <3>1. CASE TakenOn(e)
      BY <2>3, <3>0, <3>1
    <3>2. ASSUME NEW k \in Delivery, Pending(e, k)
          PROVE  TakenOn(e)' \/ Pending(e, k)'
      <4>1. CASE front[e][k] = "taken" /\ place[e][k] = p
        BY <2>1, <3>0, <4>1 DEF TakenOn, At
      <4>2. CASE front[e][k] = "taken" /\ place[e][k] # p
        BY <2>1, <3>0, <4>2 DEF Pending
      <4>3. CASE back[e][k] = "queued"
        <5>1. site[e][k] = "none"
          BY <3>0, <4>3 DEF Orderly, QueuedWhere, InMemory
        <5> QED BY <2>1, <3>0, <4>3, <5>1, NamesAssumption DEF Pending
      <4> QED BY <3>2, <4>1, <4>2, <4>3 DEF Pending
    <3> QED BY <3>1, <3>2 DEF Explained, TableExplained
  <2> QED BY <2>5, <2>6 DEF Explained
<1>16. ASSUME NEW p \in Process, OtherTraffic(p) PROVE Explained'
  <2>1. /\ \A q \in Process \ {p} : seen'[q] = seen[q]
        /\ \A x \in Event : Holds(seen'[p], x) => Remembers(p, x)
    BY <1>0, <1>16, OtherTrafficIs
  <2>2. \A q \in Process, x \in Event : Remembers(q, x)' => Remembers(q, x)
    BY <2>1 DEF Remembers, Holds
  <2> QED BY <1>16, <1>k, <2>2 DEF OtherTraffic
<1>17. CASE UNCHANGED vars
  BY <1>17, <1>k DEF vars, Remembers
<1> QED BY <1>1, <1>2, <1>3, <1>4, <1>5, <1>6, <1>7, <1>8, <1>9, <1>10, <1>11, <1>12,
           <1>13, <1>14, <1>15, <1>16, <1>17 DEF Next, Handle

\* Only a delivery that finds the id claimed is dropped.
LEMMA WhoDrops ==
    ASSUME Orderly, [Next]_vars, NEW e \in Event, NEW k \in Delivery,
           front[e][k] # "dropped", front'[e][k] = "dropped"
    PROVE  FindClaimed(e, k) \/ (Claim(e, k) /\ ~ MayClaim(e))
<1> USE DEF wires, handlers, claims, history
<1>0. TypeOK
  BY DEF Orderly
<1>a. ASSUME NEW f \in Event, NEW j \in Delivery, NEW step \in FrontPhase, Advance(f, j, step)
      PROVE  f = e /\ j = k /\ step = "dropped"
  BY <1>0, <1>a, AdvanceIs
<1>1. ASSUME NEW f \in Event, NEW p \in Process, Deliver(f, p) PROVE FALSE
  <2>1. front'[e][k] = "arrived" \/ front'[e][k] = front[e][k]
    BY <1>0, <1>1, DeliverIs
  <2> QED BY <2>1
<1>2. ASSUME NEW f \in Event, Miss(f) PROVE FALSE
  BY <1>2 DEF Miss
<1>3. ASSUME NEW f \in Event, NEW j \in Delivery, FindClaimed(f, j) PROVE FindClaimed(e, k)
  BY <1>3, <1>a DEF FindClaimed, Drop, FrontPhase
<1>4. ASSUME NEW f \in Event, NEW j \in Delivery, Claim(f, j)
      PROVE  Claim(e, k) /\ ~ MayClaim(e)
  <2>1. CASE MayClaim(f)
    BY <1>4, <1>a, <2>1 DEF Claim, FrontPhase
  <2>2. CASE ~ MayClaim(f)
    BY <1>4, <1>a, <2>2 DEF Claim, Drop, FrontPhase
  <2> QED BY <2>1, <2>2
<1>5. ASSUME NEW f \in Event, NEW j \in Delivery,
             \/ FindUnclaimed(f, j) \/ Record(f, j) \/ ClaimFails(f, j)
             \/ HandOver(f, j) \/ HandOverRaises(f, j) \/ Answer(f, j)
      PROVE  FALSE
  BY <1>5, <1>a DEF FindUnclaimed, Record, ClaimFails, HandOver, HandOverRaises, Answer, FrontPhase
<1>6. ASSUME NEW f \in Event, NEW j \in Delivery,
             (\E p \in Process : Run(f, j, p)) \/ Finish(f, j) \/ ClaimResent(f, j)
             \/ Requeue(f, j)
      PROVE  FALSE
  BY <1>6 DEF Run, Finish, ClaimResent, Requeue
<1>7. ASSUME NEW p \in Process, Kill(p) PROVE FALSE
  <2>1. front'[e][k] = "dead" \/ front'[e][k] = front[e][k]
    BY <1>0, <1>7, KillIs
  <2> QED BY <2>1
<1>8. ASSUME NEW p \in Process, OtherTraffic(p) PROVE FALSE
  BY <1>8 DEF OtherTraffic
<1>9. CASE UNCHANGED vars
  BY <1>9 DEF vars
<1> QED BY <1>1, <1>2, <1>3, <1>4, <1>5, <1>6, <1>7, <1>8, <1>9 DEF Next, Handle

LEMMA DropStep ==
    ASSUME Orderly, Explained, [Next]_vars, NEW e \in Event, NEW k \in Delivery,
           front[e][k] # "dropped", front'[e][k] = "dropped"
    PROVE  \/ runs[e] > 0
           \/ \E j \in Delivery \ {k} : UnderWay(e, j)
           \/ e \in orphaned
<1>1. FindClaimed(e, k) \/ (Claim(e, k) /\ ~ MayClaim(e))
  BY WhoDrops
<1>2. front[e][k] = "arrived"
  BY <1>1 DEF FindClaimed, Claim, At
<1>3. ~ Pending(e, k) /\ place[e][k] \in Process
  BY <1>2 DEF Orderly, Placed, HandedFirst, NotHanded, Pending
<1>4. TakenOn(e) \/ \E j \in Delivery : Pending(e, j)
  <2>1. CASE FindClaimed(e, k)
    BY <1>3, <2>1 DEF FindClaimed, Claimed, Explained, RecordExplained
  <2>2. CASE Claim(e, k) /\ ~ MayClaim(e)
    BY <2>2 DEF Claim, MayClaim, Explained, TableExplained
  <2> QED BY <1>1, <2>1, <2>2
<1>5. \A j \in Delivery : Pending(e, j) => j # k /\ UnderWay(e, j)
  BY <1>3 DEF Pending, UnderWay, Handling
<1> QED BY <1>4, <1>5 DEF TakenOn

\* A delivery is dropped only when the event has run, another delivery of it
\* goes on to, or its claim stands for one of the reasons orphaned records.
THEOREM DropsAreExplained == Spec => DropIsExplained
<1>1. Init => Orderly /\ Explained
  BY OrderlyInit, ExplainedInit
<1>2. Orderly /\ Explained /\ [Next]_vars => Orderly' /\ Explained'
  BY OrderlyStep, ExplainedStep
<1>3. Orderly /\ Explained /\ [Next]_vars =>
         [\A e \in Event, k \in Delivery :
             front[e][k] # "dropped" /\ front'[e][k] = "dropped" =>
                \/ runs[e] > 0
                \/ \E j \in Delivery \ {k} : UnderWay(e, j)
                \/ e \in orphaned]_vars
  BY DropStep
<1> QED BY <1>1, <1>2, <1>3, PTL DEF Spec, DropIsExplained

\* Off lambda no claim outlives the one who goes on with it.
NoOrphans == deployment = "socket" => orphaned = {}

LEMMA NoOrphansStep == Orderly /\ NoOrphans /\ [Next]_vars => NoOrphans'
<1> SUFFICES ASSUME Orderly, NoOrphans, [Next]_vars, deployment' = "socket"
             PROVE  orphaned' = {}
  BY DEF NoOrphans
<1> USE DEF wires, handlers, claims, history
<1>1. deployment = "socket" /\ InMemory
  <2>1. deployment' = deployment
    BY DEF Next, Handle, Deliver, Miss, FindClaimed, FindUnclaimed, Record, Claim,
           ClaimFails, ClaimResent, HandOver, HandOverRaises, Answer, Run, Finish, Kill,
           Requeue, OtherTraffic, vars
  <2> QED BY <2>1 DEF InMemory
<1>2. orphaned = {}
  BY <1>1 DEF NoOrphans
<1> QED BY <1>1, <1>2 DEF Next, Handle, Deliver, Miss, FindClaimed, FindUnclaimed, Record,
        Claim, ClaimFails, ClaimResent, HandOver, HandOverRaises, Answer, Run, Finish,
        Kill, Requeue, OtherTraffic, vars

\* EventDeduper keeps its docstring's promise off lambda, whatever is killed:
\* a delivery is dropped only when the event has run or another delivery of
\* it goes on to.  (On lambda SlackUnackedRetry shows that it may not.)
THEOREM SocketDropsAreTakenOn ==
    ASSUME Deployments = {"socket"}
    PROVE  Spec => DroppedOnlyIfTakenOn
<1>1. Init => Orderly /\ Explained /\ NoOrphans
  BY OrderlyInit, ExplainedInit DEF Init, NoOrphans
<1>2. Orderly /\ Explained /\ NoOrphans /\ [Next]_vars => Orderly' /\ Explained' /\ NoOrphans'
  BY OrderlyStep, ExplainedStep, NoOrphansStep
<1>3. Orderly /\ NoOrphans => orphaned = {}
  BY DEF Orderly, TypeOK, NoOrphans
<1>4. Orderly /\ Explained /\ NoOrphans /\ [Next]_vars =>
         [\A e \in Event, k \in Delivery :
             front[e][k] # "dropped" /\ front'[e][k] = "dropped" =>
                runs[e] > 0 \/ \E j \in Delivery \ {k} : UnderWay(e, j)]_vars
  BY <1>3, DropStep
<1> QED BY <1>1, <1>2, <1>4, PTL DEF Spec, DroppedOnlyIfTakenOn

=============================================================================
