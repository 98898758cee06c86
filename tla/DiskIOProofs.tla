----------------------------- MODULE DiskIOProofs -----------------------------
(* Proofs about DiskIO, for any devices and any bounds. *)
EXTENDS DiskIOSampler, TLAPS

(* The type that the proofs need of each variable. *)
LEMMA TypeInit == Init => TypeOK
BY DiskAssumption DEF Init, TypeOK

LEMMA TypeStep == TypeOK /\ [Next]_vars => TypeOK'
<1> SUFFICES ASSUME TypeOK, [Next]_vars PROVE TypeOK'
  OBVIOUS
<1> USE DEF TypeOK
<1>1. ASSUME NEW d \in Devices, NEW ms \in Steps, Work(d, ms) PROVE TypeOK'
  <2>1. ms \in Nat
    BY <1>1, DiskAssumption
  <2> QED BY <1>1, <2>1 DEF Work, history
<1>2. ASSUME NEW n \in {-1, 1}, CPUTick(n) PROVE TypeOK'
  BY <1>2, DiskAssumption DEF CPUTick, history
<1>3. ASSUME NEW d \in Devices, Unplug(d) PROVE TypeOK'
  BY <1>3 DEF Unplug, history
<1>4. ASSUME NEW d \in Devices, Plug(d) PROVE TypeOK'
  BY <1>4, DiskAssumption DEF Plug, history
<1>5. CASE IOCounters
  <2>1. ASSUME NEW d \in Devices
        PROVE  [ios |-> disk[d].ios, time |-> disk[d].busy % Width32,
                busy |-> disk[d].busy, life |-> disk[d].life] \in Counter
    BY DiskAssumption DEF Counter
  <2> QED BY <1>5, <2>1 DEF IOCounters, kernel, history
<1>6. CASE OpenSampling
  BY <1>6 DEF OpenSampling, kernel, history
<1>7. CASE OpenSamplingFails
  BY <1>7 DEF OpenSamplingFails, kernel, history
<1>8. ASSUME NEW d \in Devices, CalcIOStatistics(d) PROVE TypeOK'
  <2>1. counters[d] \in Counter /\ counters[d].ios \in Nat
    BY <1>8 DEF CalcIOStatistics, Counter
  <2>2. CASE CalcFirst(d)
    <3>1. [device |-> d, ios |-> 0, cpu |-> 0] \in Result
      BY DEF Result
    <3> QED BY <1>8, <2>1, <2>2, <3>1 DEF CalcIOStatistics, CalcFirst, kernel
  <2>3. CASE CalcRejected(d)
    BY <1>8, <2>1, <2>3 DEF CalcIOStatistics, CalcRejected, kernel, history
  <2>4. CASE CalcResult(d)
    <3>1. lastCounters[d].ios \in Nat
      BY <2>4 DEF CalcResult, Counter
    <3>2. DeltaIOs(d) \in Nat
      BY <2>1, <3>1, DiskAssumption DEF DeltaIOs
    <3>3. DeltaCPU \in Nat
      BY <2>4, DiskAssumption DEF DeltaCPU, CalcResult
    <3>4. [device |-> d, ios |-> DeltaIOs(d), cpu |-> DeltaCPU] \in Result
      BY <3>2, <3>3 DEF Result
    <3> QED BY <1>8, <2>1, <2>4, <3>2, <3>4 DEF CalcIOStatistics, CalcResult, kernel
  <2> QED BY <1>8, <2>2, <2>3, <2>4 DEF CalcIOStatistics
<1>9. CASE CloseSampling
  BY <1>9 DEF CloseSampling, kernel, history
<1>10. CASE UNCHANGED vars
  BY <1>10 DEF vars
<1> QED BY <1>1, <1>2, <1>3, <1>4, <1>5, <1>6, <1>7, <1>8, <1>9, <1>10 DEF Next

-----------------------------------------------------------------------------
(* The interval of a result *)

(* The counter kept for d was read in the life that x belongs to. *)
SameLife(d, x) == lastCounters[d] # None /\ lastCounters[d].life = x.life

(* Between rounds, every device that is there and has been calculated in   *)
(* its present life was kept at the CPU sample that the last round closed  *)
(* with.  Within a round this holds of the counters that are still to be   *)
(* calculated, and of the others with the sample just opened.  A device    *)
(* that goes away comes back in another life.                              *)
DeviceInv(d) ==
  /\ pc = "idle" => counters[d] = None
  /\ lastCounters[d] # None => lastCounters[d].life <= disk[d].life
  /\ counters[d] # None => counters[d].life <= disk[d].life
  /\ counters[d] # None /\ SameLife(d, counters[d]) => keptAt[d] = lastCPU
  /\ counters[d] # None /\ d \in plugged =>
       counters[d].life = disk[d].life \/ ~SameLife(d, disk[d])
  /\ counters[d] = None /\ d \in plugged /\ SameLife(d, disk[d]) =>
       \/ pc = "idle" /\ keptAt[d] = lastCPU
       \/ pc = "open" /\ keptAt[d] = curCPU

IntervalInv ==
  /\ cpu <= MaxCPU /\ curCPU <= MaxCPU /\ lastCPU <= MaxCPU
  /\ \A d \in Devices : DeviceInv(d)

LEMMA IntervalInit == Init => IntervalInv
BY DiskAssumption DEF Init, IntervalInv, DeviceInv, SameLife

(* A difference of CPU totals is zero only if they are equal. *)
LEMMA NoTime ==
  ASSUME TypeOK, IntervalInv, DeltaCPU = 0
  PROVE  curCPU = lastCPU
<1>1. /\ curCPU - lastCPU < Width64 /\ lastCPU - curCPU < Width64
      /\ Width64 \in Nat /\ curCPU \in Nat /\ lastCPU \in Nat
  BY DiskAssumption DEF TypeOK, IntervalInv
<1>2. (curCPU - lastCPU) % Width64 = 0
  BY DEF DeltaCPU
<1> QED BY <1>1, <1>2

LEMMA IntervalCalc ==
  ASSUME TypeOK, IntervalInv, NEW c \in Devices, CalcIOStatistics(c)
  PROVE  IntervalInv'
<1> USE DEF IntervalInv, DeviceInv, SameLife
<1>0. cpu' <= MaxCPU /\ curCPU' <= MaxCPU /\ lastCPU' <= MaxCPU
  BY DEF CalcIOStatistics, kernel
<1> SUFFICES ASSUME NEW d \in Devices
             PROVE  /\ pc' = "idle" => counters'[d] = None
                    /\ lastCounters'[d] # None => lastCounters'[d].life <= disk'[d].life
                    /\ counters'[d] # None => counters'[d].life <= disk'[d].life
                    /\ counters'[d] # None /\ lastCounters'[d] # None
                       /\ lastCounters'[d].life = counters'[d].life =>
                         keptAt'[d] = lastCPU'
                    /\ counters'[d] # None /\ d \in plugged' =>
                         \/ counters'[d].life = disk'[d].life
                         \/ ~(lastCounters'[d] # None /\ lastCounters'[d].life = disk'[d].life)
                    /\ (counters'[d] = None /\ d \in plugged'
                         /\ lastCounters'[d] # None
                         /\ lastCounters'[d].life = disk'[d].life) =>
                         \/ pc' = "idle" /\ keptAt'[d] = lastCPU'
                         \/ pc' = "open" /\ keptAt'[d] = curCPU'
  BY <1>0
<1>1. /\ pc = "open" /\ pc' = pc /\ UNCHANGED kernel
      /\ curCPU' = curCPU /\ lastCPU' = lastCPU
      /\ counters[c] # None
      /\ counters' = [counters EXCEPT ![c] = None]
  BY DEF CalcIOStatistics
<1>2. CASE d # c
  <2>1. /\ counters'[d] = counters[d]
        /\ lastCounters'[d] = lastCounters[d]
        /\ keptAt'[d] = keptAt[d]
    BY <1>1, <1>2 DEF TypeOK, CalcIOStatistics, CalcFirst, CalcRejected,
                      CalcResult, history
  <2> QED BY <1>1, <2>1 DEF kernel
<1>3. CASE d = c
  <2>1. counters'[c] = None
    BY <1>1 DEF TypeOK
  <2>2. CASE CalcFirst(c) \/ CalcResult(c)
    <3>1. lastCounters'[c] = counters[c] /\ keptAt'[c] = curCPU
      BY <2>2 DEF CalcFirst, CalcResult, TypeOK
    <3> QED BY <1>1, <1>3, <2>1, <3>1 DEF kernel
  <2>3. CASE CalcRejected(c)
    <3>1. UNCHANGED <<lastCounters, keptAt>>
      BY <2>3 DEF CalcRejected, history
    <3>2. curCPU = lastCPU
      BY <2>3, NoTime DEF CalcRejected
    <3> QED BY <1>1, <1>3, <2>1, <3>1, <3>2 DEF kernel
  <2> QED BY <2>2, <2>3 DEF CalcIOStatistics
<1> QED BY <1>2, <1>3

LEMMA IntervalStep == TypeOK /\ IntervalInv /\ [Next]_vars => IntervalInv'
<1> SUFFICES ASSUME TypeOK, IntervalInv, [Next]_vars PROVE IntervalInv'
  OBVIOUS
<1> USE DEF IntervalInv, DeviceInv, SameLife
<1>1. ASSUME NEW d \in Devices, NEW ms \in Steps, Work(d, ms)
      PROVE  IntervalInv'
  <2>1. \A x \in Devices : disk'[x].life = disk[x].life
    BY <1>1 DEF TypeOK, Work
  <2> QED BY <1>1, <2>1 DEF Work, history
<1>2. ASSUME NEW n \in {-1, 1}, CPUTick(n) PROVE IntervalInv'
  BY <1>2, DiskAssumption DEF CPUTick, TypeOK, history
<1>3. ASSUME NEW d \in Devices, Unplug(d) PROVE IntervalInv'
  BY <1>3 DEF Unplug, history
<1>4. ASSUME NEW d \in Devices, Plug(d) PROVE IntervalInv'
  <2>1. /\ disk'[d].life = disk[d].life + 1
        /\ \A x \in Devices \ {d} : disk'[x] = disk[x]
        /\ \A x \in Devices : disk[x].life \in Nat /\ disk'[x].life \in Nat
    BY <1>4 DEF TypeOK, Plug
  <2>2. \A x \in Devices :
          /\ lastCounters[x] # None => lastCounters[x].life \in Nat
          /\ counters[x] # None => counters[x].life \in Nat
    BY DEF TypeOK, Counter
  <2> QED BY <1>4, <2>1, <2>2 DEF Plug, history
<1>5. CASE IOCounters
  <2>1. \A x \in Devices :
          /\ counters'[x] # None => x \in plugged /\ counters'[x].life = disk[x].life
          /\ counters'[x] = None => x \notin plugged
    BY <1>5, NoCounterAssumption, DiskAssumption DEF IOCounters, TypeOK, Counter
  <2>2. \A x \in Devices : disk[x].life \in Nat
    BY DEF TypeOK
  <2> QED BY <1>5, <2>1, <2>2 DEF IOCounters, kernel, history
<1>6. CASE OpenSampling
  BY <1>6 DEF OpenSampling, kernel, history
<1>7. CASE OpenSamplingFails
  BY <1>7 DEF OpenSamplingFails, kernel, history
<1>8. ASSUME NEW d \in Devices, CalcIOStatistics(d) PROVE IntervalInv'
  BY <1>8, IntervalCalc
<1>9. CASE CloseSampling
  BY <1>9 DEF CloseSampling, kernel, history
<1>10. CASE UNCHANGED vars
  BY <1>10 DEF vars
<1> QED BY <1>1, <1>2, <1>3, <1>4, <1>5, <1>6, <1>7, <1>8, <1>9, <1>10 DEF Next

(* Whatever comes, goes, fails or is given up, a result is divided by the  *)
(* CPU time between the rounds that its counters come from.                *)
THEOREM IntervalCorrect == Spec => []IntervalMatches
<1>1. IntervalInv => IntervalMatches
  BY DEF IntervalInv, DeviceInv, SameLife, IntervalMatches, HasLast
<1> QED BY <1>1, TypeInit, TypeStep, IntervalInit, IntervalStep, PTL DEF Spec

-----------------------------------------------------------------------------
(* What a result is calculated from *)

(* x is a counter of d, read before y if they are of one life. *)
Before(x, y) == x.life = y.life => x.ios <= y.ios /\ x.busy <= y.busy

(* The counters of a life are ordered as they were read, and every kept    *)
(* one shows its time as the kernel did.                                   *)
CounterInv(d) ==
  /\ disk[d].ios <= MaxWork
  /\ counters[d] # None =>
       /\ counters[d].life <= disk[d].life
       /\ counters[d].ios <= MaxWork
       /\ counters[d].time = counters[d].busy % Width32
       /\ Before(counters[d], disk[d])
  /\ lastCounters[d] # None =>
       /\ lastCounters[d].life <= disk[d].life
       /\ lastCounters[d].time = lastCounters[d].busy % Width32
       /\ Before(lastCounters[d], disk[d])
       /\ counters[d] # None => Before(lastCounters[d], counters[d])
       /\ accounted[d] = lastCounters[d].ios

ResultInv == \A d \in Devices : CounterInv(d)

LEMMA ResultInit == Init => ResultInv
<1> SUFFICES ASSUME Init, NEW d \in Devices PROVE CounterInv(d)
  BY DEF ResultInv
<1>1. disk[d].ios = 0 /\ counters[d] = None /\ lastCounters[d] = None
  BY DEF Init
<1>2. MaxWork \in Nat
  BY DiskAssumption
<1> QED BY <1>1, <1>2 DEF CounterInv

LEMMA ResultCalc ==
  ASSUME TypeOK, ResultInv, NEW c \in Devices, CalcIOStatistics(c)
  PROVE  ResultInv'
<1> SUFFICES ASSUME NEW d \in Devices PROVE CounterInv(d)'
  BY DEF ResultInv
<1> USE DEF ResultInv, CounterInv, Before
<1>1. /\ UNCHANGED kernel
      /\ counters[c] # None
      /\ counters' = [counters EXCEPT ![c] = None]
  BY DEF CalcIOStatistics
<1>2. CASE d # c
  <2>1. /\ counters'[d] = counters[d]
        /\ lastCounters'[d] = lastCounters[d]
        /\ accounted'[d] = accounted[d]
    BY <1>1, <1>2 DEF TypeOK, CalcIOStatistics, CalcFirst, CalcRejected,
                      CalcResult, history
  <2> QED BY <1>1, <2>1 DEF kernel
<1>3. CASE d = c
  <2>1. counters'[c] = None
    BY <1>1 DEF TypeOK
  <2>2. CASE CalcRejected(c)
    BY <1>1, <1>3, <2>1, <2>2 DEF CalcRejected, kernel, history
  <2>3. CASE CalcFirst(c) \/ CalcResult(c)
    <3>1. lastCounters'[c] = counters[c]
      BY <2>3 DEF CalcFirst, CalcResult, TypeOK
    <3>2. accounted'[c] = counters[c].ios
      <4>1. CASE CalcFirst(c)
        BY <4>1 DEF CalcFirst, TypeOK
      <4>2. CASE CalcResult(c) /\ lastCounters[c].life # counters[c].life
        BY <4>2 DEF CalcResult, TypeOK
      <4>3. CASE CalcResult(c) /\ lastCounters[c].life = counters[c].life
        <5>1. lastCounters[c] \in Counter /\ counters[c] \in Counter
          BY <1>1, <4>3 DEF CalcResult, TypeOK
        <5>2. /\ lastCounters[c].ios \in Nat /\ counters[c].ios \in Nat
              /\ lastCounters[c].ios <= counters[c].ios
              /\ counters[c].ios <= MaxWork
              /\ accounted[c] = lastCounters[c].ios
          BY <1>1, <4>3, <5>1 DEF CalcResult, Counter
        <5>3. DeltaIOs(c) = counters[c].ios - lastCounters[c].ios
          BY <5>2, DiskAssumption DEF DeltaIOs
        <5>4. accounted'[c] = accounted[c] + DeltaIOs(c)
          BY <4>3 DEF CalcResult, TypeOK
        <5> QED BY <5>2, <5>3, <5>4
      <4> QED BY <2>3, <4>1, <4>2, <4>3
    <3> QED BY <1>1, <1>3, <2>1, <3>1, <3>2 DEF kernel
  <2> QED BY <2>2, <2>3 DEF CalcIOStatistics
<1> QED BY <1>2, <1>3

LEMMA ResultStep == TypeOK /\ ResultInv /\ [Next]_vars => ResultInv'
<1> SUFFICES ASSUME TypeOK, ResultInv, [Next]_vars PROVE ResultInv'
  OBVIOUS
<1> USE DEF ResultInv, CounterInv, Before
<1>1. ASSUME NEW d \in Devices, NEW ms \in Steps, Work(d, ms)
      PROVE  ResultInv'
  <2>1. /\ disk'[d].life = disk[d].life
        /\ disk'[d].ios = disk[d].ios + 1 /\ disk[d].ios < MaxWork
        /\ disk'[d].busy = disk[d].busy + ms
        /\ \A x \in Devices \ {d} : disk'[x] = disk[x]
    BY <1>1 DEF TypeOK, Work
  <2>2. ms \in Nat /\ MaxWork \in Nat
        /\ \A x \in Devices : disk[x].ios \in Nat /\ disk[x].busy \in Nat
    BY <1>1, DiskAssumption DEF TypeOK
  <2>3. \A x \in Devices :
          /\ counters[x] # None => counters[x] \in Counter
          /\ lastCounters[x] # None => lastCounters[x] \in Counter
    BY DEF TypeOK
  <2>4. UNCHANGED <<counters, lastCounters, accounted>>
    BY <1>1 DEF Work, history
  <2> QED BY <2>1, <2>2, <2>3, <2>4 DEF Counter
<1>2. ASSUME NEW n \in {-1, 1}, CPUTick(n) PROVE ResultInv'
  BY <1>2 DEF CPUTick, history
<1>3. ASSUME NEW d \in Devices, Unplug(d) PROVE ResultInv'
  BY <1>3 DEF Unplug, history
<1>4. ASSUME NEW d \in Devices, Plug(d) PROVE ResultInv'
  <2>1. /\ disk'[d].life = disk[d].life + 1 /\ disk'[d].ios = 0
        /\ \A x \in Devices \ {d} : disk'[x] = disk[x]
        /\ \A x \in Devices : disk[x].life \in Nat
    BY <1>4 DEF TypeOK, Plug
  <2>2. \A x \in Devices :
          /\ lastCounters[x] # None => lastCounters[x].life \in Nat
          /\ counters[x] # None => counters[x].life \in Nat
    BY DEF TypeOK, Counter
  <2> QED BY <1>4, <2>1, <2>2, DiskAssumption DEF Plug, history
<1>5. CASE IOCounters
  <2>1. \A x \in Devices :
          counters'[x] # None => counters'[x] =
            [ios |-> disk[x].ios, time |-> disk[x].busy % Width32,
             busy |-> disk[x].busy, life |-> disk[x].life]
    BY <1>5 DEF IOCounters
  <2>2. \A x \in Devices :
          disk[x].life \in Nat /\ disk[x].ios \in Nat /\ disk[x].busy \in Nat
    BY DEF TypeOK
  <2> QED BY <1>5, <2>1, <2>2 DEF IOCounters, kernel, history
<1>6. CASE OpenSampling
  BY <1>6 DEF OpenSampling, kernel, history
<1>7. CASE OpenSamplingFails
  BY <1>7 DEF OpenSamplingFails, kernel, history
<1>8. ASSUME NEW d \in Devices, CalcIOStatistics(d) PROVE ResultInv'
  BY <1>8, ResultCalc
<1>9. CASE CloseSampling
  BY <1>9 DEF CloseSampling, kernel, history
<1>10. CASE UNCHANGED vars
  BY <1>10 DEF vars
<1> QED BY <1>1, <1>2, <1>3, <1>4, <1>5, <1>6, <1>7, <1>8, <1>9, <1>10 DEF Next

(* Every request is accounted for once, as long as the count of requests   *)
(* does not outgrow its width.                                             *)
THEOREM AccountedCorrect == Spec => []AllAccounted
<1>1. ResultInv => AllAccounted
  BY DEF ResultInv, CounterInv, AllAccounted
<1> QED BY <1>1, TypeInit, TypeStep, ResultInit, ResultStep, PTL DEF Spec

-----------------------------------------------------------------------------
(* Rollover *)

LEMMA DivMod ==
  ASSUME NEW W \in Nat \ {0}, NEW P \in Nat
  PROVE  /\ P \div W \in Nat
         /\ P % W \in 0..(W - 1)
         /\ P = W * (P \div W) + (P % W)
<1>1. P \div W \in Int /\ P % W \in 0..(W - 1)
  BY Z3
<1>2. P = W * (P \div W) + (P % W)
  BY Z3
<1>3. P \div W >= 0
  BY Z3
<1> QED BY <1>1, <1>2, <1>3

LEMMA Wrap ==
  ASSUME NEW W \in Nat \ {0}, NEW P \in Nat, NEW D \in Nat, D < W
  PROVE  (P + D) % W \in {(P % W) + D, (P % W) + D - W}
<1> DEFINE q1 == P \div W
           q2 == (P + D) \div W
           r1 == P % W
           r2 == (P + D) % W
<1>1. /\ q1 \in Nat /\ r1 \in 0..(W - 1) /\ P = W * q1 + r1
  BY DivMod, Zenon
<1>2. /\ q2 \in Nat /\ r2 \in 0..(W - 1) /\ P + D = W * q2 + r2
  <2> HIDE DEF q2, r2
  <2>1. P + D \in Nat
    OBVIOUS
  <2> QED BY <2>1, DivMod, Zenon DEF q2, r2
<1> HIDE DEF q1, q2, r1, r2
<1>3. W * (q2 - q1) = D + r1 - r2
  BY <1>1, <1>2
<1>4. q2 - q1 \in {0, 1}
  <2>1. CASE q2 - q1 >= 2
    <3>1. W * (q2 - q1) >= W * 2
      BY <2>1, <1>1, <1>2
    <3> QED BY <3>1, <1>1, <1>2, <1>3
  <2>2. CASE q2 - q1 <= -1
    <3>1. W * (q2 - q1) <= W * (-1)
      BY <2>2, <1>1, <1>2
    <3> QED BY <3>1, <1>1, <1>2, <1>3
  <2> QED BY <2>1, <2>2, <1>1, <1>2
<1>5. D + r1 - r2 \in {0, W}
  BY <1>1, <1>2, <1>3, <1>4
<1> QED BY <1>1, <1>2, <1>5 DEF r1, r2

(* What returnOrFix32BitRollover makes of two readings of a counter that   *)
(* advanced by less than its width.                                        *)
LEMMA FixWithinOne ==
  ASSUME NEW prev \in Nat, NEW D \in Nat, D < Width32
  PROVE  returnOrFix32BitRollover((prev + D) % Width32, prev % Width32)
           \in {D - 1, D}
<1>1. (prev + D) % Width32 \in {(prev % Width32) + D, (prev % Width32) + D - Width32}
  BY Wrap, DiskAssumption
<1>2. Width32 \in Nat \ {0} /\ prev % Width32 \in 0..(Width32 - 1)
  <2>1. Width32 \in Nat \ {0}
    BY DiskAssumption
  <2> QED BY <2>1, DivMod, Zenon
<1> DEFINE p == prev % Width32
           q == (prev + D) % Width32
<1> HIDE DEF p, q
<1>3. q \in {p + D, p + D - Width32} /\ p \in 0..(Width32 - 1)
  BY <1>1, <1>2 DEF p, q
<1>4. returnOrFix32BitRollover(q, p) \in {D - 1, D}
  BY <1>2, <1>3 DEF returnOrFix32BitRollover
<1> QED BY <1>4 DEF p, q

(* A 32 bit counter that rolled over at most once between two results is   *)
(* reconstructed to within one millisecond, whatever its width.            *)
THEOREM RolloverCorrect == Spec => []RolloverWithinOne
<1>1. TypeOK /\ ResultInv => RolloverWithinOne
  <2> SUFFICES ASSUME TypeOK, ResultInv, NEW d \in Devices,
                      HasLast(d), TrueTime(d) < Width32
               PROVE  DeltaTime(d) \in {TrueTime(d) - 1, TrueTime(d)}
    BY DEF RolloverWithinOne
  <2> DEFINE prev == lastCounters[d].busy
             D == TrueTime(d)
  <2>1. lastCounters[d] \in Counter /\ counters[d] \in Counter
    BY DEF TypeOK, HasLast
  <2>2. /\ prev \in Nat /\ counters[d].busy \in Nat
        /\ prev <= counters[d].busy
        /\ counters[d].time = counters[d].busy % Width32
        /\ lastCounters[d].time = prev % Width32
    BY <2>1 DEF ResultInv, CounterInv, Before, HasLast, Counter
  <2>3. D \in Nat /\ counters[d].busy = prev + D
    BY <2>2 DEF TrueTime
  <2>4. DeltaTime(d) = returnOrFix32BitRollover((prev + D) % Width32, prev % Width32)
    BY <2>2, <2>3 DEF DeltaTime
  <2> HIDE DEF prev, D
  <2>5. prev \in Nat /\ D \in Nat /\ D < Width32
    BY <2>2, <2>3 DEF prev, D
  <2>6. DeltaTime(d) \in {D - 1, D}
    BY <2>4, <2>5, FixWithinOne
  <2> QED BY <2>6 DEF D
<1> QED BY <1>1, TypeInit, TypeStep, ResultInit, ResultStep, PTL DEF Spec

-----------------------------------------------------------------------------
(* The refinement of Sampler *)

(* A counter that was read is not of an earlier life than the kept one. *)
OrderInv ==
  \A d \in Devices :
    counters[d] # None /\ lastCounters[d] # None =>
      lastCounters[d].life <= counters[d].life

LEMMA OrderStep == TypeOK /\ IntervalInv /\ OrderInv /\ [Next]_vars => OrderInv'
<1> SUFFICES ASSUME TypeOK, IntervalInv, OrderInv, [Next]_vars PROVE OrderInv'
  OBVIOUS
<1> USE DEF OrderInv
<1>1. CASE UNCHANGED <<counters, lastCounters>>
  BY <1>1
<1>2. CASE IOCounters
  <2>1. \A d \in Devices : counters'[d] # None => counters'[d].life = disk[d].life
    BY <1>2 DEF IOCounters
  <2> QED BY <1>2, <2>1 DEF IOCounters, IntervalInv, DeviceInv
<1>3. CASE OpenSamplingFails
  BY <1>3 DEF OpenSamplingFails
<1>4. ASSUME NEW c \in Devices, CalcIOStatistics(c) PROVE OrderInv'
  <2>1. /\ counters'[c] = None
        /\ \A d \in Devices \ {c} :
             counters'[d] = counters[d] /\ lastCounters'[d] = lastCounters[d]
    BY <1>4 DEF CalcIOStatistics, CalcFirst, CalcRejected, CalcResult, TypeOK
  <2> QED BY <2>1
<1> QED BY <1>1, <1>2, <1>3, <1>4
      DEF Next, vars, Work, CPUTick, Unplug, Plug, OpenSampling, CloseSampling

(* The sample that is calculated is a sample, and follows the kept one. *)
LEMMA SamplerTake ==
  ASSUME TypeOK, IntervalInv, ResultInv, OrderInv, OpenSampling,
         counters[Watched] # None
  PROVE  S!Take
<1>1. /\ pc # "open" /\ pc' = "open"
      /\ UNCHANGED <<counters, lastCounters, keptAt, result>>
  BY DEF OpenSampling, history
<1>2. counters[Watched] \in Counter /\ cpu \in Nat /\ curCPU' = cpu
  BY WatchedAssumption DEF TypeOK, OpenSampling
<1>3. Cand = None /\ UNCHANGED <<Kept, Reported>>
  BY <1>1 DEF Cand, Kept, Reported
<1>4. Cand' = [life |-> counters[Watched].life, count |-> counters[Watched].ios,
               clock |-> cpu]
  BY <1>1, <1>2 DEF Cand
<1>5. Cand' \in S!Sample
  BY <1>2, <1>4 DEF S!Sample, Counter
<1>6. S!Follows(Cand')
  <2>1. CASE lastCounters[Watched] = None
    BY <2>1 DEF S!Follows, Kept
  <2>2. CASE lastCounters[Watched] # None
    <3>1. /\ lastCounters[Watched].life <= counters[Watched].life
          /\ lastCounters[Watched].life = counters[Watched].life =>
               lastCounters[Watched].ios <= counters[Watched].ios
      BY <2>2, WatchedAssumption DEF OrderInv, ResultInv, CounterInv, Before
    <3> QED BY <2>2, <3>1, <1>4 DEF S!Follows, Kept
  <2> QED BY <2>1, <2>2
<1> QED BY <1>3, <1>5, <1>6 DEF S!Take

(* Every outcome of CalcIOStatistics for the device is one of Sampler. *)
LEMMA SamplerCalc ==
  ASSUME TypeOK, IntervalInv, ResultInv, CalcIOStatistics(Watched)
  PROVE  S!Next
<1> DEFINE c == counters[Watched]
           l == lastCounters[Watched]
           cand == [life |-> c.life, count |-> c.ios, clock |-> curCPU]
           kept == [life |-> l.life, count |-> l.ios, clock |-> keptAt[Watched]]
<1>1. /\ Watched \in Devices /\ pc = "open" /\ pc' = "open"
      /\ c # None /\ c \in Counter
      /\ counters'[Watched] = None /\ curCPU' = curCPU
      /\ curCPU \in Nat /\ lastCPU \in Nat /\ keptAt[Watched] \in Nat
  BY WatchedAssumption DEF TypeOK, CalcIOStatistics
<1>2. Cand = cand /\ Cand' = None
  BY <1>1 DEF Cand
<1>3. cand # None
  <2>1. cand \in S!Sample
    BY <1>1 DEF S!Sample, Counter
  <2> QED BY <2>1, WatchedAssumption
<1>4. CASE CalcFirst(Watched)
  <2>1. /\ l = None /\ lastCounters'[Watched] = c
        /\ keptAt'[Watched] = curCPU
        /\ result' = [device |-> Watched, ios |-> 0, cpu |-> 0]
    BY <1>1, <1>4 DEF CalcFirst, TypeOK
  <2>2. [device |-> Watched, ios |-> 0, cpu |-> 0] # None
    BY <1>1, NoCounterAssumption DEF Result
  <2>3. Kept = None /\ Kept' = cand /\ Reported' = [count |-> 0, clock |-> 0]
    BY <1>1, <2>1, <2>2 DEF Kept, Reported
  <2> QED BY <1>2, <1>3, <2>3 DEF S!Next, S!First
<1>5. CASE CalcRejected(Watched)
  <2>1. l # None /\ result' = None /\ UNCHANGED <<lastCounters, keptAt>>
    BY <1>5 DEF CalcRejected, history
  <2>2. curCPU = lastCPU
    BY <1>5, NoTime DEF CalcRejected
  <2>3. /\ Kept = kept /\ Kept' = Kept /\ Reported' = None
        /\ l \in Counter
    BY <1>1, <2>1 DEF Kept, Reported, TypeOK
  <2>4. kept # None
    <3>1. kept \in S!Sample
      BY <1>1, <2>3 DEF S!Sample, Counter
    <3> QED BY <3>1, WatchedAssumption
  <2>5. CASE l.life = c.life
    <3>1. keptAt[Watched] = curCPU
      BY <1>1, <2>1, <2>2, <2>5 DEF IntervalInv, DeviceInv, SameLife
    <3> QED BY <1>2, <1>3, <2>3, <2>4, <2>5, <3>1 DEF S!Next, S!Refuse, S!SameLife
  <2>6. CASE l.life # c.life
    BY <1>2, <1>3, <2>3, <2>4, <2>6 DEF S!Next, S!NewLife
  <2> QED BY <2>5, <2>6
<1>6. CASE CalcResult(Watched)
  <2>1. /\ l # None /\ lastCounters'[Watched] = c
        /\ keptAt'[Watched] = curCPU
        /\ result' = [device |-> Watched, ios |-> DeltaIOs(Watched), cpu |-> DeltaCPU]
        /\ DeltaCPU > 0
    BY <1>1, <1>6 DEF CalcResult, TypeOK
  <2>2. l \in Counter /\ l.ios \in Nat /\ c.ios \in Nat
    BY <1>1, <2>1 DEF TypeOK, Counter
  <2>3. DeltaIOs(Watched) \in Nat /\ DeltaCPU \in Nat
    BY <1>1, <2>1, <2>2, DiskAssumption DEF DeltaIOs, DeltaCPU
  <2>4. [device |-> Watched, ios |-> DeltaIOs(Watched), cpu |-> DeltaCPU] # None
    <3>1. [device |-> Watched, ios |-> DeltaIOs(Watched), cpu |-> DeltaCPU] \in Result
      BY <1>1, <2>3 DEF Result
    <3> QED BY <3>1, NoCounterAssumption
  <2>5. /\ Kept = kept /\ Kept' = cand
        /\ Reported' = [count |-> DeltaIOs(Watched), clock |-> DeltaCPU]
    BY <1>1, <2>1, <2>4 DEF Kept, Reported
  <2>6. kept # None
    <3>1. kept \in S!Sample
      BY <1>1, <2>2 DEF S!Sample, Counter
    <3> QED BY <3>1, WatchedAssumption
  <2>7. CASE l.life = c.life
    <3>1. keptAt[Watched] = lastCPU
      BY <1>1, <2>1, <2>7 DEF IntervalInv, DeviceInv, SameLife
    <3>2. curCPU # lastCPU
      BY <1>1, <2>1, DiskAssumption DEF DeltaCPU
    <3>3. l.ios <= c.ios /\ c.ios <= MaxWork
      BY <1>1, <2>1, <2>7 DEF ResultInv, CounterInv, Before
    <3>4. DeltaIOs(Watched) = c.ios - l.ios
      BY <2>2, <3>3, DiskAssumption DEF DeltaIOs
    <3>5. Reported' = [count |-> cand.count - kept.count,
                       clock |-> (cand.clock - kept.clock) % Width64]
      BY <2>5, <3>1, <3>4 DEF DeltaCPU
    <3> QED BY <1>2, <1>3, <2>5, <2>6, <2>7, <3>1, <3>2, <3>5
          DEF S!Next, S!Compare, S!SameLife
  <2>8. CASE l.life # c.life
    <3>1. Reported' \in S!Report
      BY <2>3, <2>5 DEF S!Report
    <3> QED BY <1>2, <1>3, <2>5, <2>6, <2>8, <3>1 DEF S!Next, S!NewLife
  <2> QED BY <2>7, <2>8
<1> QED BY <1>4, <1>5, <1>6 DEF CalcIOStatistics

LEMMA SamplerStep ==
  TypeOK /\ IntervalInv /\ ResultInv /\ OrderInv /\ [Next]_vars => [S!Next]_(S!vars)
<1> SUFFICES ASSUME TypeOK, IntervalInv, ResultInv, OrderInv, [Next]_vars
             PROVE  S!Next \/ UNCHANGED <<Kept, Cand, Reported>>
  BY DEF S!vars
<1>1. CASE UNCHANGED <<pc, counters, curCPU, lastCounters, keptAt, result>>
  BY <1>1 DEF Kept, Cand, Reported
<1>2. CASE IOCounters
  BY <1>2 DEF IOCounters, history, Kept, Cand, Reported
<1>3. CASE OpenSampling
  <2>1. CASE counters[Watched] = None
    BY <1>3, <2>1 DEF OpenSampling, history, Kept, Cand, Reported
  <2>2. CASE counters[Watched] # None
    BY <1>3, <2>2, SamplerTake DEF S!Next
  <2> QED BY <2>1, <2>2
<1>4. CASE OpenSamplingFails
  BY <1>4 DEF OpenSamplingFails, history, Kept, Cand, Reported
<1>5. ASSUME NEW c \in Devices, CalcIOStatistics(c), c # Watched PROVE S!Forget
  <2>1. /\ UNCHANGED <<pc, curCPU>>
        /\ counters'[Watched] = counters[Watched]
        /\ lastCounters'[Watched] = lastCounters[Watched]
        /\ keptAt'[Watched] = keptAt[Watched]
        /\ result' = None \/ result'.device = c
    BY <1>5, WatchedAssumption
    DEF CalcIOStatistics, CalcFirst, CalcRejected, CalcResult, TypeOK, history
  <2>2. UNCHANGED <<Kept, Cand>> /\ Reported' = None
    BY <1>5, <2>1 DEF Kept, Cand, Reported
  <2> QED BY <2>2 DEF S!Forget
<1>6. CASE CalcIOStatistics(Watched)
  BY <1>6, SamplerCalc
<1>7. CASE CloseSampling
  <2>1. counters[Watched] = None
    BY <1>7, WatchedAssumption DEF CloseSampling
  <2> QED BY <1>7, <2>1
      DEF CloseSampling, history, Kept, Cand, Reported, S!Next, S!Forget
<1> QED BY <1>1, <1>2, <1>3, <1>4, <1>5, <1>6, <1>7
      DEF Next, vars, Work, CPUTick, Unplug, Plug, history, S!Next

(* IOStat implements Sampler for any of its devices: results are made of   *)
(* successive samples although the CPU sample is shared by all devices.    *)
THEOREM SamplerCorrect == Spec => ImplementsSampler
<1>1. Init => S!Init
  BY WatchedAssumption DEF Init, S!Init, Kept, Cand, Reported
<1>2. Init => OrderInv
  BY DEF Init, OrderInv
<1> QED BY <1>1, <1>2, TypeInit, TypeStep, IntervalInit, IntervalStep, ResultInit,
       ResultStep, OrderStep, SamplerStep, PTL DEF Spec, S!Spec, ImplementsSampler
=============================================================================
