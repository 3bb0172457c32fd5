------------------------ MODULE ZfsmonBandwidthProofs -------------------------
(***************************************************************************)
(* Proofs about ZfsmonBandwidth: the bandwidth is the real one, for any    *)
(* pools, any width of the counters and any distance of the samples, as    *)
(* long as the wall clock is not set back.                                 *)
(***************************************************************************)
EXTENDS ZfsmonBandwidth, TLAPS

-------------------------------------------------------------------------------
(***************************************************************************)
(* The inductive invariant.                                                *)
(***************************************************************************)
Fields == {"vs_timestamp"} \cup Dirs

(* Counters only grow, and do not while their pool's time stands still.    *)
Precedes(a, b) ==
    \/ a = b
    \/ a.vs_timestamp < b.vs_timestamp /\ \A d \in Dirs : a[d] <= b[d]

(* Counters that started at the last import of p.                          *)
SameStart(s, p) ==
    \A k \in Fields : TotalOf(s)[k] - StatOf(s)[k] = vs[p].total[k] - vs[p].stat[k]

InOrder == \A p \in Pools : /\ Precedes(TotalOf(prev[p]), TotalOf(curr[p]))
                            /\ Precedes(TotalOf(curr[p]), vs[p].total)

(* No pool has done more than it can in the time there has been.           *)
Possible == \A p \in Pools : /\ vs[p].total.vs_timestamp <= time
                             /\ \A d \in Dirs : vs[p].total[d] <= time * Peak[d]

NeverAgain ==
    \A p \in Pools \ again : /\ vs[p].stat = vs[p].total
                             /\ StatOf(curr[p]) = TotalOf(curr[p])
                             /\ StatOf(prev[p]) = TotalOf(prev[p])

Sampled == \A p \in Pools : /\ seconds[p] > 0 => SameStart(curr[p], p)
                            /\ seconds[p] = 2 => SameStart(prev[p], p)

(* What is cached in a handle is from between the sample saved last and    *)
(* now, and counts from the last import unless that came after the opening.*)
HandleInv ==
    zhp # None =>
        /\ Precedes(TotalOf(curr[zhp.pool]), zhp.config.total)
        /\ Precedes(zhp.config.total, vs[zhp.pool].total)
        /\ zhp.pool \notin again => zhp.config.stat = zhp.config.total
        /\ zhp.pool \notin outdated =>
            \A k \in Fields : zhp.config.total[k] - zhp.config.stat[k]
                             = vs[zhp.pool].total[k] - vs[zhp.pool].stat[k]

OutdatedInv == \A p \in outdated : seconds[p] = 0

IInv ==
    /\ TypeOK
    /\ InOrder
    /\ Possible
    /\ NeverAgain
    /\ Sampled
    /\ HandleInv
    /\ OutdatedInv

-------------------------------------------------------------------------------
(***************************************************************************)
(* Records of counters.                                                    *)
(***************************************************************************)
LEMMA FieldsOf ==
    ASSUME NEW c \in Counters
    PROVE  \A k \in Fields : c[k] \in Nat
  BY DEF Counters, Fields, Dirs

LEMMA ZeroCounters == Zero \in Counters /\ \A k \in Fields : Zero[k] = 0
  BY DEF Zero, Counters, Fields, Dirs

(* What a pool did from one sample to a later one, and from there to now,  *)
(* is what it did from the first sample to now.                            *)
LEMMA PrecedesTransitive ==
    ASSUME NEW a \in Counters, NEW b \in Counters, NEW c \in Counters,
           Precedes(a, b), Precedes(b, c)
    PROVE  Precedes(a, c)
  <1> USE FieldsOf DEF Precedes, Fields
  <1>1. CASE a = b \/ b = c
    BY <1>1
  <1>2. CASE a # b /\ b # c
    <2>1. a.vs_timestamp < c.vs_timestamp
      BY <1>2 DEF Counters
    <2>2. ASSUME NEW d \in Dirs PROVE a[d] <= c[d]
      <3>1. a[d] <= b[d] /\ b[d] <= c[d] /\ a[d] \in Nat /\ b[d] \in Nat /\ c[d] \in Nat
        BY <1>2
      <3> QED BY <3>1
    <2> QED BY <2>1, <2>2
  <1> QED BY <1>1, <1>2

LEMMA SampleCounters ==
    ASSUME NEW s \in Store!Sample \cup {None}
    PROVE  StatOf(s) \in Counters /\ TotalOf(s) \in Counters
  BY ZeroCounters DEF StatOf, TotalOf, Store!Sample, VdevStat

(* The sample a pool has after save_iostat.                                *)
LEMMA NewSample ==
    ASSUME NEW t \in Nat, NEW x \in VdevStat
    PROVE  /\ [time |-> t, iostat |-> x] \in Store!Sample
           /\ StatOf([time |-> t, iostat |-> x]) = x.stat
           /\ TotalOf([time |-> t, iostat |-> x]) = x.total
  <1>1. [time |-> t, iostat |-> x] \in Store!Sample
    BY DEF Store!Sample
  <1>2. [time |-> t, iostat |-> x] # None
    BY <1>1, BandwidthConstants
  <1> QED BY <1>1, <1>2 DEF StatOf, TotalOf

-------------------------------------------------------------------------------
(***************************************************************************)
(* Every step keeps the invariant.                                         *)
(***************************************************************************)
LEMMA InitIInv == Init => IInv
  <1> SUFFICES ASSUME Init PROVE IInv
    OBVIOUS
  <1> USE ZeroCounters DEF Init
  <1>1. TypeOK
    BY BandwidthConstants DEF TypeOK, VdevStat
  <1>2. ASSUME NEW p \in Pools
        PROVE  /\ StatOf(curr[p]) = Zero /\ TotalOf(curr[p]) = Zero
               /\ StatOf(prev[p]) = Zero /\ TotalOf(prev[p]) = Zero
               /\ vs[p].stat = Zero /\ vs[p].total = Zero
    BY DEF StatOf, TotalOf
  <1>3. InOrder
    BY <1>2 DEF InOrder, Precedes
  <1>4. Possible
    <2> SUFFICES ASSUME NEW p \in Pools
                 PROVE  /\ vs[p].total.vs_timestamp <= time
                        /\ \A d \in Dirs : vs[p].total[d] <= time * Peak[d]
      BY DEF Possible
    <2>1. vs[p].total = Zero
      BY <1>2
    <2>2. vs[p].total.vs_timestamp <= time
      BY <2>1 DEF Zero
    <2>3. ASSUME NEW d \in Dirs PROVE vs[p].total[d] <= time * Peak[d]
      <3>1. vs[p].total[d] = 0
        BY <2>1 DEF Fields
      <3>2. Peak[d] \in Nat /\ time = 0
        BY BandwidthConstants
      <3> HIDE DEF Init
      <3> QED BY <3>1, <3>2
    <2> QED BY <2>2, <2>3
  <1>5. NeverAgain /\ Sampled
    BY <1>2 DEF NeverAgain, Sampled
  <1>6. HandleInv /\ OutdatedInv
    BY DEF HandleInv, OutdatedInv
  <1> QED BY <1>1, <1>3, <1>4, <1>5, <1>6 DEF IInv

LEMMA ImportIInv ==
    ASSUME IInv, NEW p \in Pools, Import(p)
    PROVE  IInv'
  <1> USE DEF IInv, Import
  <1>1. /\ vs' \in [Pools -> VdevStat]
        /\ \A q \in Pools : vs'[q].total = vs[q].total
        /\ \A q \in Pools : q # p => vs'[q] = vs[q]
    <2>1. [vs[p] EXCEPT !.stat = Zero] \in VdevStat /\ [vs[p] EXCEPT !.stat = Zero].total = vs[p].total
      BY ZeroCounters DEF TypeOK, VdevStat
    <2> QED BY <2>1 DEF TypeOK
  <1>2. \A q \in Pools : seconds'[q] = IF q = p THEN 0 ELSE seconds[q]
    BY DEF TypeOK
  <1>3. seconds' \in [Pools -> 0..2]
    BY DEF TypeOK
  <1>4. TypeOK'
    BY <1>1, <1>3 DEF TypeOK
  <1>5. InOrder' /\ Possible'
    BY <1>1 DEF InOrder, Possible
  <1>6. NeverAgain'
    BY <1>1 DEF NeverAgain
  <1>7. Sampled'
    BY <1>1, <1>2 DEF Sampled, SameStart
  <1>8. HandleInv'
    <2>1. zhp # None => zhp.pool \in Pools
      BY DEF TypeOK, Handles
    <2> QED BY <1>1, <2>1 DEF HandleInv
  <1>9. OutdatedInv'
    BY <1>2 DEF OutdatedInv, TypeOK
  <1> QED BY <1>4, <1>5, <1>6, <1>7, <1>8, <1>9

LEMMA ExportIInv ==
    ASSUME IInv, NEW p \in Pools, Export(p)
    PROVE  IInv'
  <1> USE DEF IInv, Export, history
  <1>1. TypeOK'
    BY DEF TypeOK
  <1>2. InOrder' /\ Possible' /\ NeverAgain' /\ Sampled'
    BY DEF InOrder, Possible, NeverAgain, Sampled, SameStart
  <1>3. HandleInv' /\ OutdatedInv'
    BY DEF HandleInv, OutdatedInv
  <1> QED BY <1>1, <1>2, <1>3

LEMMA TickIInv ==
    ASSUME IInv, Tick
    PROVE  IInv'
  <1> USE DEF IInv, Tick, kernel, history
  <1>1. TypeOK'
    <2>1. now' \in 0..MaxNow
      BY BandwidthConstants DEF TypeOK
    <2> QED BY <2>1 DEF TypeOK
  <1>2. InOrder' /\ Possible' /\ NeverAgain' /\ Sampled'
    BY DEF InOrder, Possible, NeverAgain, Sampled, SameStart
  <1>3. HandleInv' /\ OutdatedInv'
    BY DEF HandleInv, OutdatedInv
  <1> QED BY <1>1, <1>2, <1>3

LEMMA OpenIInv ==
    ASSUME IInv, NEW p \in Pools, zpool_open_silent(p)
    PROVE  IInv'
  <1> USE DEF IInv, zpool_open_silent, kernel
  <1>1. zhp' \in Handles /\ zhp'.pool = p /\ zhp'.config = vs[p]
    BY DEF Handles, TypeOK
  <1>2. TypeOK'
    BY <1>1 DEF TypeOK
  <1>3. InOrder' /\ Possible' /\ NeverAgain' /\ Sampled'
    BY DEF InOrder, Possible, NeverAgain, Sampled, SameStart
  <1>4. HandleInv'
    BY <1>1 DEF HandleInv, InOrder, NeverAgain, Precedes
  <1>5. OutdatedInv'
    BY DEF OutdatedInv
  <1> QED BY <1>2, <1>3, <1>4, <1>5

(* A unit of time passes: what io adds to a pool's counters.               *)
LEMMA Counted ==
    ASSUME NEW c \in Counters, NEW io \in Transfers
    PROVE  /\ Count(c, io) \in Counters
           /\ Count(c, io).vs_timestamp = c.vs_timestamp + 1
           /\ \A d \in Dirs : /\ Count(c, io)[d] = c[d] + io[d]
                              /\ io[d] \in 0..Peak[d]
  <1>1. Count(c, io) \in Counters
    BY BandwidthConstants DEF Count, Counters, Transfers, Dirs
  <1>2. Count(c, io).vs_timestamp = c.vs_timestamp + 1
    BY DEF Count
  <1>3. ASSUME NEW d \in Dirs
        PROVE  Count(c, io)[d] = c[d] + io[d] /\ io[d] \in 0..Peak[d]
    <2>1. CASE d = "nread"
      BY <2>1 DEF Count, Transfers
    <2>2. CASE d = "nwritten"
      BY <2>2 DEF Count, Transfers
    <2> QED BY <2>1, <2>2 DEF Dirs
  <1> QED BY <1>1, <1>2, <1>3

LEMMA CountedPrecedes ==
    ASSUME NEW c \in Counters, NEW io \in Transfers
    PROVE  Precedes(c, Count(c, io))
  <1>1. c.vs_timestamp \in Nat /\ Count(c, io).vs_timestamp = c.vs_timestamp + 1
    BY Counted DEF Counters
  <1>2. ASSUME NEW d \in Dirs PROVE c[d] <= Count(c, io)[d]
    <2>1. Count(c, io)[d] = c[d] + io[d] /\ io[d] \in 0..Peak[d] /\ Peak[d] \in Nat
      BY Counted, BandwidthConstants
    <2>2. c[d] \in Nat
      BY FieldsOf DEF Fields
    <2> QED BY <2>1, <2>2
  <1>3. c.vs_timestamp < Count(c, io).vs_timestamp
    BY <1>1
  <1> QED BY <1>2, <1>3 DEF Precedes

LEMMA CountedTogether ==
    ASSUME NEW a \in Counters, NEW b \in Counters, NEW io \in Transfers, NEW k \in Fields
    PROVE  Count(a, io)[k] - Count(b, io)[k] = a[k] - b[k]
  <1>1. a[k] \in Nat /\ b[k] \in Nat
    BY FieldsOf
  <1>2. CASE k = "vs_timestamp"
    <2>1. Count(a, io)[k] = a[k] + 1 /\ Count(b, io)[k] = b[k] + 1
      BY <1>2 DEF Count
    <2> QED BY <1>1, <2>1
  <1>3. CASE k \in Dirs
    <2>1. /\ Count(a, io)[k] = a[k] + io[k] /\ Count(b, io)[k] = b[k] + io[k]
          /\ io[k] \in 0..Peak[k] /\ Peak[k] \in Nat
      BY <1>3, Counted, BandwidthConstants
    <2> QED BY <1>1, <2>1
  <1> QED BY <1>2, <1>3 DEF Fields

LEMMA WorkIInv ==
    ASSUME IInv, NEW io \in [Pools -> Transfers], Work(io)
    PROVE  IInv'
  <1> USE DEF IInv, Work
  <1>1. time \in Nat /\ time' = time + 1 /\ time' \in 0..MaxTime
    <2>1. MaxTime \in Nat /\ time \in 0..MaxTime
      BY BandwidthConstants DEF TypeOK
    <2>2. time < MaxTime /\ time' = time + 1
      OBVIOUS
    <2> HIDE DEF Work
    <2> QED BY <2>1, <2>2
  <1>2. ASSUME NEW p \in Pools
        PROVE  /\ vs[p] \in VdevStat /\ vs'[p] \in VdevStat
               /\ \/ vs'[p] = vs[p]
                  \/ /\ vs'[p].stat = Count(vs[p].stat, io[p])
                     /\ vs'[p].total = Count(vs[p].total, io[p])
    <2>1. vs[p] \in VdevStat /\ io[p] \in Transfers
      BY DEF TypeOK
    <2>2. vs[p].stat \in Counters /\ vs[p].total \in Counters
      BY <2>1 DEF VdevStat
    <2>3. Count(vs[p].stat, io[p]) \in Counters /\ Count(vs[p].total, io[p]) \in Counters
      BY <2>1, <2>2, Counted
    <2>4. \/ vs'[p] = vs[p]
          \/ vs'[p] = [vs[p] EXCEPT !.stat = Count(@, io[p]), !.total = Count(@, io[p])]
      OBVIOUS
    <2> QED BY <2>1, <2>3, <2>4 DEF VdevStat
  <1>3. vs' \in [Pools -> VdevStat]
    <2>1. vs' = [p \in Pools |-> vs'[p]]
      OBVIOUS
    <2> QED BY <1>2, <2>1
  <1>4. UNCHANGED <<curr, prev, now, imported, zhp, again, outdated, seconds>>
    BY DEF history
  <1>5. \A p \in Pools : io[p] \in Transfers
    OBVIOUS
  <1> HIDE DEF Work
  <1>6. TypeOK'
    BY <1>1, <1>3, <1>4 DEF TypeOK
  <1>7. ASSUME NEW p \in Pools
        PROVE  /\ vs[p].total \in Counters /\ vs'[p].total \in Counters
               /\ Precedes(vs[p].total, vs'[p].total)
    <2>1. vs[p].total \in Counters /\ vs'[p].total \in Counters
      BY <1>2 DEF VdevStat
    <2>2. Precedes(vs[p].total, Count(vs[p].total, io[p]))
      BY <1>5, <2>1, CountedPrecedes
    <2> QED BY <1>2, <2>1, <2>2 DEF Precedes
  <1>8. InOrder'
    <2>1. \A p \in Pools : curr[p] \in Store!Sample \cup {None}
      BY DEF TypeOK
    <2>2. ASSUME NEW p \in Pools PROVE Precedes(TotalOf(curr[p]), vs'[p].total)
      BY <1>7, <2>1, SampleCounters, PrecedesTransitive DEF InOrder
    <2> QED BY <1>4, <2>2 DEF InOrder
  <1>9. Possible'
    <2> SUFFICES ASSUME NEW p \in Pools
                 PROVE  /\ vs'[p].total.vs_timestamp <= time'
                        /\ \A d \in Dirs : vs'[p].total[d] <= time' * Peak[d]
      BY DEF Possible
    <2>1. /\ vs[p].total.vs_timestamp \in Nat /\ vs[p].total.vs_timestamp <= time
          /\ \A d \in Dirs : vs[p].total[d] \in Nat /\ vs[p].total[d] <= time * Peak[d]
      BY <1>7, FieldsOf DEF Possible, Fields, Counters
    <2>2. ASSUME NEW d \in Dirs
          PROVE  time' * Peak[d] = time * Peak[d] + Peak[d] /\ Peak[d] \in Nat
                 /\ time * Peak[d] \in Nat
      BY <1>1, BandwidthConstants
    <2>3. CASE vs'[p].total = vs[p].total
      <3>1. vs'[p].total.vs_timestamp <= time'
        BY <1>1, <2>1, <2>3
      <3>2. ASSUME NEW d \in Dirs PROVE vs'[p].total[d] <= time' * Peak[d]
        BY <2>1, <2>2, <2>3
      <3> QED BY <3>1, <3>2
    <2>4. CASE vs'[p].total = Count(vs[p].total, io[p])
      <3>1. vs'[p].total.vs_timestamp = vs[p].total.vs_timestamp + 1
        BY <1>5, <1>7, <2>4, Counted
      <3>2. vs'[p].total.vs_timestamp <= time'
        BY <1>1, <2>1, <3>1
      <3>3. ASSUME NEW d \in Dirs PROVE vs'[p].total[d] <= time' * Peak[d]
        <4>1. vs'[p].total[d] = vs[p].total[d] + io[p][d] /\ io[p][d] \in 0..Peak[d]
          BY <1>5, <1>7, <2>4, Counted
        <4> QED BY <2>1, <2>2, <4>1
      <3> QED BY <3>2, <3>3
    <2> QED BY <1>2, <2>3, <2>4
  <1>10. NeverAgain'
    <2> SUFFICES ASSUME NEW p \in Pools \ again
                 PROVE  vs'[p].stat = vs'[p].total
      BY <1>4 DEF NeverAgain, StatOf, TotalOf
    <2> QED BY <1>2 DEF NeverAgain
  <1>11. ASSUME NEW p \in Pools, NEW k \in Fields
         PROVE  vs'[p].total[k] - vs'[p].stat[k] = vs[p].total[k] - vs[p].stat[k]
    <2>1. vs[p].stat \in Counters /\ vs[p].total \in Counters
      BY <1>2 DEF VdevStat
    <2>2. Count(vs[p].total, io[p])[k] - Count(vs[p].stat, io[p])[k]
            = vs[p].total[k] - vs[p].stat[k]
      BY <1>5, <2>1, CountedTogether
    <2> QED BY <1>2, <2>2
  <1>12. Sampled'
    BY <1>4, <1>11 DEF Sampled, SameStart, StatOf, TotalOf
  <1>13. HandleInv'
    <2> SUFFICES ASSUME zhp # None
                 PROVE  HandleInv'
      BY <1>4 DEF HandleInv
    <2>1. zhp.pool \in Pools /\ zhp.config.total \in Counters
      BY DEF TypeOK, Handles, VdevStat
    <2>2. Precedes(zhp.config.total, vs'[zhp.pool].total)
      BY <1>7, <2>1, PrecedesTransitive DEF HandleInv
    <2>3. \A k \in Fields : vs'[zhp.pool].total[k] - vs'[zhp.pool].stat[k]
                           = vs[zhp.pool].total[k] - vs[zhp.pool].stat[k]
      BY <1>11, <2>1
    <2> QED BY <1>4, <2>2, <2>3 DEF HandleInv
  <1>14. OutdatedInv'
    BY <1>4 DEF OutdatedInv
  <1> QED BY <1>6, <1>8, <1>9, <1>10, <1>12, <1>13, <1>14

LEMMA SaveIInv ==
    ASSUME IInv, save_iostat
    PROVE  IInv'
  <1> USE DEF IInv
  <1> DEFINE x == zhp.config
  <1>1. PICK p \in Pools : p = zhp.pool
    BY DEF save_iostat, TypeOK, Handles
  <1>2. /\ UNCHANGED <<now, time, imported, vs, again, outdated>>
        /\ zhp # None /\ zhp' = None
        /\ curr' = [curr EXCEPT ![p] = [time |-> now, iostat |-> x]]
        /\ Store!SavedInThisSecond(p) => prev' = prev
        /\ ~ Store!SavedInThisSecond(p) => prev' = [prev EXCEPT ![p] = curr[p]]
        /\ seconds' = [seconds EXCEPT ![p] =
                    IF p \in outdated \/ (@ > 0 /\ Store!SavedInThisSecond(p))
                    THEN @ ELSE IF @ = 0 THEN 1 ELSE 2]
    BY <1>1 DEF save_iostat, Store!SaveIostat, newvs, kernel
  <1>3. /\ x \in VdevStat /\ now \in Nat
        /\ curr \in [Pools -> Store!Sample \cup {None}]
        /\ prev \in [Pools -> Store!Sample \cup {None}]
        /\ seconds \in [Pools -> 0..2]
    BY <1>2, BandwidthConstants DEF TypeOK, Handles
  <1>4. /\ Precedes(TotalOf(curr[p]), x.total) /\ Precedes(x.total, vs[p].total)
        /\ p \notin again => x.stat = x.total
        /\ p \notin outdated =>
            \A k \in Fields : x.total[k] - x.stat[k] = vs[p].total[k] - vs[p].stat[k]
    BY <1>1, <1>2 DEF HandleInv
  <1> HIDE DEF x
  <1>5. /\ curr'[p] \in Store!Sample
        /\ StatOf(curr'[p]) = x.stat /\ TotalOf(curr'[p]) = x.total
    BY <1>2, <1>3, NewSample
  <1>6. \A q \in Pools \ {p} : curr'[q] = curr[q] /\ prev'[q] = prev[q] /\ seconds'[q] = seconds[q]
    BY <1>2, <1>3
  <1>7. prev'[p] \in {prev[p], curr[p]}
    BY <1>2, <1>3
  <1>8. /\ p \in outdated => seconds'[p] = 0
        /\ seconds'[p] = 2 => \/ prev'[p] = prev[p] /\ seconds[p] = 2
                              \/ prev'[p] = curr[p] /\ seconds[p] > 0
    <2>1. seconds[p] \in 0..2 /\ (p \in outdated => seconds[p] = 0)
      BY <1>3 DEF OutdatedInv
    <2>2. seconds'[p] = IF p \in outdated \/ (seconds[p] > 0 /\ Store!SavedInThisSecond(p))
                        THEN seconds[p] ELSE IF seconds[p] = 0 THEN 1 ELSE 2
      BY <1>2, <1>3
    <2>3. CASE Store!SavedInThisSecond(p)
      BY <1>2, <2>1, <2>2, <2>3
    <2>4. CASE ~ Store!SavedInThisSecond(p)
      <3>1. prev'[p] = curr[p]
        BY <1>2, <1>3, <2>4
      <3> QED BY <2>1, <2>2, <2>4, <3>1
    <2> QED BY <2>3, <2>4
  <1>9. TypeOK'
    <2>1. curr' \in [Pools -> Store!Sample \cup {None}]
      BY <1>2, <1>3, <1>5
    <2>2. prev' \in [Pools -> Store!Sample \cup {None}]
      BY <1>2, <1>3
    <2>3. seconds' \in [Pools -> 0..2]
      BY <1>2, <1>3
    <2> QED BY <1>2, <2>1, <2>2, <2>3 DEF TypeOK
  <1>10. /\ x.total \in Counters
         /\ \A q \in Pools : /\ TotalOf(curr[q]) \in Counters
                             /\ TotalOf(prev[q]) \in Counters
                             /\ vs[q].total \in Counters
    BY <1>3, SampleCounters DEF TypeOK, VdevStat
  <1>11. InOrder'
    <2>1. Precedes(TotalOf(prev[p]), x.total)
      BY <1>4, <1>10, PrecedesTransitive DEF InOrder
    <2>2. Precedes(TotalOf(prev'[p]), TotalOf(curr'[p]))
      BY <1>4, <1>5, <1>7, <2>1
    <2>3. Precedes(TotalOf(curr'[p]), vs'[p].total)
      BY <1>2, <1>4, <1>5
    <2>4. ASSUME NEW q \in Pools
          PROVE  /\ Precedes(TotalOf(prev'[q]), TotalOf(curr'[q]))
                 /\ Precedes(TotalOf(curr'[q]), vs'[q].total)
      <3>1. CASE q = p
        BY <2>2, <2>3, <3>1
      <3>2. CASE q # p
        BY <1>2, <1>6, <3>2 DEF InOrder
      <3> QED BY <3>1, <3>2
    <2> QED BY <2>4 DEF InOrder
  <1>12. Possible'
    BY <1>2 DEF Possible
  <1>13. NeverAgain'
    <2> SUFFICES ASSUME NEW q \in Pools \ again
                 PROVE  /\ vs[q].stat = vs[q].total
                        /\ StatOf(curr'[q]) = TotalOf(curr'[q])
                        /\ StatOf(prev'[q]) = TotalOf(prev'[q])
      BY <1>2 DEF NeverAgain
    <2>1. CASE q = p
      BY <1>4, <1>5, <1>7, <2>1 DEF NeverAgain
    <2>2. CASE q # p
      BY <1>6, <2>2 DEF NeverAgain
    <2> QED BY <2>1, <2>2
  <1>14. Sampled'
    <2>1. seconds'[p] > 0 => SameStart(curr'[p], p)
      BY <1>4, <1>5, <1>8 DEF SameStart
    <2>2. seconds'[p] = 2 => SameStart(prev'[p], p)
      BY <1>8 DEF Sampled
    <2>3. \A q \in Pools : /\ seconds'[q] > 0 => SameStart(curr'[q], q)
                           /\ seconds'[q] = 2 => SameStart(prev'[q], q)
      BY <1>6, <2>1, <2>2 DEF Sampled
    <2> QED BY <1>2, <2>3 DEF Sampled, SameStart
  <1>15. HandleInv'
    BY <1>2 DEF HandleInv
  <1>16. OutdatedInv'
    BY <1>2, <1>6, <1>8 DEF OutdatedInv, TypeOK
  <1> QED BY <1>9, <1>11, <1>12, <1>13, <1>14, <1>15, <1>16

LEMMA NextIInv == IInv /\ [Next]_vars => IInv'
  <1> SUFFICES ASSUME IInv, [Next]_vars PROVE IInv'
    OBVIOUS
  <1>1. ASSUME NEW p \in Pools, Import(p) \/ Export(p) \/ zpool_open_silent(p) PROVE IInv'
    BY <1>1, ImportIInv, ExportIInv, OpenIInv
  <1>2. ASSUME NEW io \in [Pools -> Transfers], Work(io) PROVE IInv'
    BY <1>2, WorkIInv
  <1>3. CASE save_iostat \/ Tick
    BY <1>3, SaveIInv, TickIInv
  <1>4. CASE UNCHANGED vars
    <2> USE <1>4 DEF vars, kernel, history, IInv
    <2>1. TypeOK'
      BY DEF TypeOK
    <2>2. InOrder' /\ Possible' /\ NeverAgain' /\ Sampled'
      BY DEF InOrder, Possible, NeverAgain, Sampled, SameStart
    <2>3. HandleInv' /\ OutdatedInv'
      BY DEF HandleInv, OutdatedInv
    <2> QED BY <2>1, <2>2, <2>3
  <1> QED BY <1>1, <1>2, <1>3, <1>4 DEF Next

-------------------------------------------------------------------------------
(***************************************************************************)
(* The properties.                                                         *)
(***************************************************************************)

(* The inductive invariant holds as long as the wall clock is not set      *)
(* back: both samples, the counters cached in an open handle and those of  *)
(* the kernel are in order, and once a pool has been sampled in two        *)
(* seconds through handles opened after its last import, both samples      *)
(* count from that import.                                                 *)
THEOREM Invariance == Spec => []IInv
  BY InitIInv, NextIInv, PTL DEF Spec

(* The samples in the store and the kernel's counters always have their    *)
(* types.                                                                  *)
THEOREM TypeCorrectness == Spec => []TypeOK
  <1>1. IInv => TypeOK
    BY DEF IInv
  <1> QED BY <1>1, Invariance, PTL

(* A difference that is not negative and fits is not changed by a word.    *)
LEMMA MinusIsExact ==
    ASSUME NEW a \in Nat, NEW b \in Nat, b <= a, a - b < Word
    PROVE  Minus(a, b) = a - b
  BY BandwidthConstants DEF Minus

(* The differences of both samples are those of the counters over all      *)
(* imports.                                                                *)
LEMMA DifferencesAreReal ==
    ASSUME IInv, NEW p \in Pools, CountersComparable(p)
    PROVE  /\ Took(p) \in Nat /\ tdelta(p) = Took(p)
           /\ \A d \in Dirs : /\ Moved(p, d) \in Nat
                              /\ Minus(StatOf(curr[p])[d], StatOf(prev[p])[d]) = Moved(p, d)
                              /\ Took(p) = 0 => Moved(p, d) = 0
  <1> DEFINE sc == StatOf(curr[p])  tc == TotalOf(curr[p])
             sp == StatOf(prev[p])  tp == TotalOf(prev[p])
             t  == vs[p].total
  <1> USE DEF IInv
  <1>1. sc \in Counters /\ tc \in Counters /\ sp \in Counters /\ tp \in Counters
    BY SampleCounters DEF TypeOK
  <1>2. t \in Counters /\ vs[p].stat \in Counters
    BY DEF TypeOK, VdevStat
  <1>3. Precedes(tp, tc) /\ Precedes(tc, t)
    BY DEF InOrder
  <1>4. \A k \in Fields : sc[k] - sp[k] = tc[k] - tp[k]
    <2>1. CASE p \notin again
      BY <2>1 DEF NeverAgain
    <2>2. CASE seconds[p] = 2
      <3>1. SameStart(curr[p], p) /\ SameStart(prev[p], p)
        BY <2>2 DEF Sampled
      <3> SUFFICES ASSUME NEW k \in Fields PROVE sc[k] - sp[k] = tc[k] - tp[k]
        OBVIOUS
      <3>2. /\ tc[k] - sc[k] = t[k] - vs[p].stat[k]
            /\ tp[k] - sp[k] = t[k] - vs[p].stat[k]
        BY <3>1 DEF SameStart
      <3>3. /\ sc[k] \in Nat /\ tc[k] \in Nat /\ sp[k] \in Nat /\ tp[k] \in Nat
            /\ t[k] \in Nat /\ vs[p].stat[k] \in Nat
        BY <1>1, <1>2, FieldsOf
      <3> HIDE DEF sc, sp, tc, tp, t
      <3> QED BY <3>2, <3>3
    <2> QED BY <2>1, <2>2 DEF CountersComparable
  <1>5. t.vs_timestamp < Word /\ \A d \in Dirs : t[d] < Word
    <2>1. /\ time \in 0..MaxTime /\ MaxTime \in Nat /\ Word \in Nat /\ MaxTime < Word
          /\ t.vs_timestamp <= time /\ t.vs_timestamp \in Nat
      BY <1>2, BandwidthConstants DEF TypeOK, Possible, Counters
    <2>2. ASSUME NEW d \in Dirs PROVE t[d] < Word
      <3>1. t[d] <= time * Peak[d] /\ t[d] \in Nat /\ Peak[d] \in Nat
        BY <1>2, FieldsOf, BandwidthConstants DEF Possible, Fields
      <3>2. MaxTime * Peak[d] < Word
        BY BandwidthConstants
      <3>3. time * Peak[d] <= MaxTime * Peak[d]
        BY <2>1, <3>1
      <3>4. time * Peak[d] \in Nat /\ MaxTime * Peak[d] \in Nat
        BY <2>1, <3>1
      <3> QED BY <2>1, <3>1, <3>2, <3>3, <3>4
    <2> QED BY <2>1, <2>2
  <1> HIDE DEF sc, sp, tc, tp, t
  <1>6. ASSUME NEW k \in Fields
        PROVE  /\ tc[k] - tp[k] \in Nat
               /\ Minus(sc[k], sp[k]) = tc[k] - tp[k]
    <2>1. /\ sc[k] \in Nat /\ tc[k] \in Nat /\ sp[k] \in Nat /\ tp[k] \in Nat /\ t[k] \in Nat
      BY <1>1, <1>2, FieldsOf
    <2>2. tp[k] <= tc[k] /\ tc[k] <= t[k]
      <3>1. CASE k = "vs_timestamp"
        BY <1>3, <2>1, <3>1 DEF Precedes
      <3>2. CASE k \in Dirs
        BY <1>3, <2>1, <3>2 DEF Precedes
      <3> QED BY <3>1, <3>2 DEF Fields
    <2>3. t[k] < Word
      BY <1>5 DEF Fields
    <2>4. sc[k] - sp[k] = tc[k] - tp[k]
      BY <1>4
    <2>5. Word \in Nat
      BY BandwidthConstants
    <2>6. sp[k] <= sc[k] /\ sc[k] - sp[k] < Word
      BY <2>1, <2>2, <2>3, <2>4, <2>5
    <2> QED BY <2>1, <2>2, <2>4, <2>6, MinusIsExact
  <1>7. tc.vs_timestamp - tp.vs_timestamp = 0 => tc = tp
    BY <1>1, <1>3 DEF Precedes, Counters
  <1>8. Took(p) \in Nat /\ tdelta(p) = Took(p)
    BY <1>6 DEF Took, tdelta, Fields, sc, sp, tc, tp
  <1>9. ASSUME NEW d \in Dirs
        PROVE  /\ Moved(p, d) \in Nat
               /\ Minus(StatOf(curr[p])[d], StatOf(prev[p])[d]) = Moved(p, d)
    BY <1>6 DEF Moved, Fields, sc, sp, tc, tp
  <1>10. ASSUME NEW d \in Dirs, Took(p) = 0 PROVE Moved(p, d) = 0
    <2>1. tc = tp
      BY <1>7, <1>10 DEF Took, tc, tp
    <2>2. tc[d] \in Nat
      BY <1>1, FieldsOf DEF Fields
    <2> QED BY <2>1, <2>2 DEF Moved, tc, tp
  <1> QED BY <1>8, <1>9, <1>10

(* What the functions make of the two differences.                         *)
LEMMA BandwidthOf ==
    ASSUME NEW p \in Pools, NEW d \in Dirs
    PROVE  Bandwidth(p)[d] =
             LET moved == Minus(StatOf(curr[p])[d], StatOf(prev[p])[d])
             IN  IF tdelta(p) = 0 THEN Quotient(moved, 1)
                                  ELSE Quotient(NANOSEC * moved, tdelta(p))
  <1>1. CASE d = "nread"
    BY <1>1 DEF Bandwidth, zfsmon_zpool_iostat_bw_rd
  <1>2. CASE d = "nwritten"
    BY <1>2 DEF Bandwidth, zfsmon_zpool_iostat_bw_wr
  <1> QED BY <1>1, <1>2 DEF Dirs

LEMMA QuotientIsReal ==
    ASSUME NEW moved \in Nat, NEW took \in Nat, took = 0 => moved = 0, NEW b,
           b = IF took = 0 THEN Quotient(moved, 1) ELSE Quotient(NANOSEC * moved, took)
    PROVE  IF NANOSEC * moved < took \/ moved = 0
           THEN b.num = 0
           ELSE b.num * took = NANOSEC * moved * b.den
  <1>1. NANOSEC \in Nat
    BY BandwidthConstants
  <1>2. CASE moved = 0
    <2>1. NANOSEC * moved = 0
      BY <1>1, <1>2
    <2>2. b.num = 0
      BY <1>2, <2>1 DEF Quotient
    <2> QED BY <1>2, <2>2
  <1>3. CASE moved # 0 /\ NANOSEC * moved < took
    BY <1>3 DEF Quotient
  <1>4. CASE moved # 0 /\ ~ (NANOSEC * moved < took)
    <2>1. b.num = NANOSEC * moved /\ b.den = took
      BY <1>4 DEF Quotient
    <2> QED BY <1>4, <2>1
  <1> QED BY <1>2, <1>3, <1>4

(* As long as the wall clock is not set back, whatever pools are imported  *)
(* again, even between the opening of a handle and the saving of what it   *)
(* has cached, in whatever seconds, with counters of any width that does   *)
(* not wrap by itself: for a pool that never was imported again, or was    *)
(* sampled in two seconds through handles opened after its last import,    *)
(* the functions return what it really moved over the time between its     *)
(* samples.                                                                *)
THEOREM BandwidthCorrect == Spec => []BandwidthIsReal
  <1>1. IInv => BandwidthIsReal
    <2> SUFFICES ASSUME IInv, NEW p \in Pools, CountersComparable(p), NEW d \in Dirs
                 PROVE  IF NANOSEC * Moved(p, d) < Took(p) \/ Moved(p, d) = 0
                        THEN Bandwidth(p)[d].num = 0
                        ELSE Bandwidth(p)[d].num * Took(p)
                             = NANOSEC * Moved(p, d) * Bandwidth(p)[d].den
      BY DEF BandwidthIsReal
    <2>1. /\ Moved(p, d) \in Nat /\ Took(p) \in Nat /\ tdelta(p) = Took(p)
          /\ Took(p) = 0 => Moved(p, d) = 0
          /\ Minus(StatOf(curr[p])[d], StatOf(prev[p])[d]) = Moved(p, d)
      BY DifferencesAreReal
    <2>2. Bandwidth(p)[d] = IF Took(p) = 0 THEN Quotient(Moved(p, d), 1)
                            ELSE Quotient(NANOSEC * Moved(p, d), Took(p))
      BY <2>1, BandwidthOf
    <2> HIDE DEF Moved, Took, Bandwidth
    <2> QED BY <2>1, <2>2, QuotientIsReal
  <1> QED BY <1>1, Invariance, PTL
===============================================================================
