--------------------------- MODULE SchedulerProofs ---------------------------
(***************************************************************************)
(* Proofs about Scheduler, for any calendar of days of 23, 24 and 25       *)
(* hours, any merchants and consents, and any number of restarts.          *)
(*                                                                         *)
(* All that is needed of a calendar is in CalendarIs: after 2:00 at least  *)
(* 21 and at most 23 hours of a day are left.  So 24 hours after 2:00 it   *)
(* is the next day, and hardly later than 2:00 (NotMissed), and if neither *)
(* of the two days has 25 hours it is not earlier (Spaced).                *)
(***************************************************************************)
EXTENDS Scheduler, TLAPS

Length(d) == Midnight[d + 1] - Midnight[d]

\* The loop has run the pipeline on day d for the day before.
Covered(d) == \E l \in launches : l.day = d - 1 /\ DayOf(l.at) = d

\* What 24 hours make of 2:00.
Sleepable == {TwoOClock[d] : d \in Days} \cup {TwoOClock[d] + 24 * HOUR : d \in Days}

\* A sleep is for a 2:00 or for 24 hours after one, and ends soon after it.
SleepOk ==
    loop = "sleep" =>
        /\ wake \in Sleepable
        /\ now < wake + Oversleep + HOUR

\* A pipeline is run for the day before; between two sleeps it has just been run.
LaunchOk ==
    /\ \A l \in launches : l.day = DayOf(l.at) - 1 /\ Midnight[1] <= l.at /\ l.at <= now
    /\ loop = "again" => \E l \in launches : l.at = now
    /\ loop = "top" => boot = now

\* The processes that have run it were not started later than this one, which has
\* run none when it begins.
LivesOk ==
    \A l \in launches :
        /\ l.life <= crashes
        /\ loop \in {"down", "top"} => l.life # crashes

\* Of a day the process has seen 2:00 of either the day before has been worked
\* for, or the day is not over and will not be when the loop wakes.
NotMissed ==
    loop # "down" => \A d \in Days \ {0} : boot < TwoOClock[d] =>
        \/ Covered(d)
        \/ loop = "sleep" /\ wake + Oversleep + HOUR <= Midnight[d + 1]
        \/ loop \in {"top", "again"} /\ now < Midnight[d + 1]

\* When the pipeline has been run on a day, and neither it nor the day before has
\* 25 hours, the loop sleeps until that day is over.
Spaced ==
    \A l \in launches :
        LET d == l.day + 1 IN
        l.life = crashes /\ Length(d) # 25 * HOUR /\ Length(d - 1) # 25 * HOUR =>
            /\ loop = "sleep" => Midnight[d + 1] <= wake
            /\ loop = "again" => \/ Midnight[d + 1] <= now
                                 \/ l.at = now /\ TwoOClock[d] <= now

\* A request for bank data is for the window of its day.
WindowOk == \A a \in asked : a.window = Window(a.day, ConsentUntil[a.merchant])

IInv == /\ TypeOK /\ SleepOk /\ LaunchOk /\ LivesOk
        /\ NotMissed /\ Spaced /\ TwiceOnlyAtALongDay /\ WindowOk

-----------------------------------------------------------------------------
(* The calendar. *)

\* The numbers of the calendar.
LEMMA CalendarTypes ==
    /\ HOUR \in Nat /\ HOUR > 0 /\ LastDay \in Nat /\ LastDay > 0 /\ Oversleep \in Nat
    /\ Oversleep < 19 * HOUR
    /\ \A d \in 0..(LastDay + 1) : Midnight[d] \in Nat
    /\ \A d \in Days : TwoOClock[d] \in Nat
    /\ \A d \in Days : d \in 0..(LastDay + 1) /\ d + 1 \in 0..(LastDay + 1) /\ d \in Nat
BY CalendarAssumption DEF Days

\* Where 2:00 is in a day, and how that day ends.
LEMMA CalendarIs ==
    ASSUME NEW d \in Days
    PROVE  /\ Midnight[d] < TwoOClock[d]
           /\ TwoOClock[d] + 21 * HOUR <= Midnight[d + 1]
           /\ Midnight[d + 1] <= TwoOClock[d] + 23 * HOUR
           /\ Midnight[d] + 23 * HOUR <= Midnight[d + 1]
           /\ Length(d) # 25 * HOUR =>
                 TwoOClock[d] <= Midnight[d] + 2 * HOUR /\ Midnight[d + 1] <= TwoOClock[d] + 22 * HOUR
<1>1. /\ HOUR \in Nat /\ HOUR > 0
      /\ Midnight[d] \in Nat /\ Midnight[d + 1] \in Nat /\ TwoOClock[d] \in Nat
  BY CalendarTypes
<1>2. \/ /\ Midnight[d + 1] - Midnight[d] = 24 * HOUR
         /\ TwoOClock[d] - Midnight[d] = 2 * HOUR
      \/ /\ Midnight[d + 1] - Midnight[d] = 23 * HOUR
         /\ TwoOClock[d] - Midnight[d] \in {HOUR, 2 * HOUR}
      \/ /\ Midnight[d + 1] - Midnight[d] = 25 * HOUR
         /\ TwoOClock[d] - Midnight[d] \in {2 * HOUR, 3 * HOUR}
  BY CalendarAssumption
<1> QED
  BY <1>1, <1>2 DEF Length

\* Later days begin later.
LEMMA Order ==
    ASSUME NEW d \in 0..(LastDay + 1), NEW e \in 0..(LastDay + 1), d <= e
    PROVE  Midnight[d] <= Midnight[e]
BY DaysAssumption, CalendarTypes

\* An instant of the calendar is in its day, and from the second day on there is a
\* day before it.
LEMMA DayOfIs ==
    ASSUME NEW t \in Nat, Midnight[1] <= t, t < Midnight[LastDay + 1]
    PROVE  /\ DayOf(t) \in 1..LastDay /\ DayOf(t) \in Days /\ DayOf(t) - 1 \in Days
           /\ Midnight[DayOf(t)] <= t /\ t < Midnight[DayOf(t) + 1]
<1>1. 0 \in 0..(LastDay + 1) /\ 1 \in 0..(LastDay + 1) /\ LastDay + 1 \in 0..(LastDay + 1)
  BY CalendarTypes
<1>2. Midnight[0] <= Midnight[1]
  BY <1>1, Order
<1>3. t \in Midnight[0]..(Midnight[LastDay + 1] - 1)
  BY <1>1, <1>2, CalendarTypes
<1>4. \E d \in Days : Midnight[d] <= t /\ t < Midnight[d + 1]
  BY <1>3, DaysAssumption
<1>5. DayOf(t) \in Days /\ Midnight[DayOf(t)] <= t /\ t < Midnight[DayOf(t) + 1]
  BY <1>4 DEF DayOf
<1>6. DayOf(t) # 0
  BY <1>5, <1>1, CalendarTypes
<1> QED
  BY <1>5, <1>6, CalendarTypes DEF Days

\* There is only one such day.
LEMMA DayOfUnique ==
    ASSUME NEW t \in Nat, NEW d \in Days, Midnight[d] <= t, t < Midnight[d + 1]
    PROVE  DayOf(t) = d
<1>1. DayOf(t) \in Days /\ Midnight[DayOf(t)] <= t /\ t < Midnight[DayOf(t) + 1]
  BY DEF DayOf
<1>2. \A a, b \in Days : a < b => Midnight[a + 1] <= Midnight[b]
  BY Order, CalendarTypes DEF Days
<1>3. ~(DayOf(t) < d) /\ ~(d < DayOf(t))
  BY <1>1, <1>2, CalendarTypes
<1> QED
  BY <1>1, <1>3, CalendarTypes

\* An instant before the end of a day is in that day or an earlier one, and one
\* after its end in a later one.
LEMMA DayOfOrder ==
    ASSUME NEW t \in Nat, Midnight[1] <= t, t < Midnight[LastDay + 1], NEW d \in Days
    PROVE  /\ t < Midnight[d + 1] => DayOf(t) <= d
           /\ Midnight[d + 1] <= t => d < DayOf(t)
<1>1. DayOf(t) \in Days /\ Midnight[DayOf(t)] <= t /\ t < Midnight[DayOf(t) + 1]
  BY DayOfIs
<1>2. d < DayOf(t) => Midnight[d + 1] <= Midnight[DayOf(t)]
  BY <1>1, Order, CalendarTypes DEF Days
<1>3. DayOf(t) <= d => Midnight[DayOf(t) + 1] <= Midnight[d + 1]
  BY <1>1, Order, CalendarTypes DEF Days
<1> QED
  BY <1>1, <1>2, <1>3, CalendarTypes

\* The instants a sleep may be for: the day they are in, how far they are from its
\* end, and how they compare with its 2:00.
LEMMA SleepableIs ==
    ASSUME NEW w \in Sleepable, NEW t \in Nat, w <= t, t < w + 20 * HOUR,
           Midnight[1] <= t, t < Midnight[LastDay + 1],
           Length(DayOf(t)) # 25 * HOUR, Length(DayOf(t) - 1) # 25 * HOUR
    PROVE  TwoOClock[DayOf(t)] <= t
<1>1. HOUR \in Nat /\ HOUR > 0
  BY CalendarTypes
<1>2. CASE \E e \in Days : w = TwoOClock[e]
  <2>1. PICK e \in Days : w = TwoOClock[e]
    BY <1>2
  <2>2. Midnight[e] <= t /\ t < Midnight[e + 1]
    BY <2>1, <1>1, CalendarIs, CalendarTypes
  <2>3. DayOf(t) = e
    BY <2>2, DayOfUnique
  <2> QED
    BY <2>1, <2>3
<1>3. CASE \E e \in Days : w = TwoOClock[e] + 24 * HOUR
  <2>1. PICK e \in Days : w = TwoOClock[e] + 24 * HOUR
    BY <1>3
  <2>2. Midnight[e + 1] <= t
    BY <2>1, <1>1, CalendarIs, CalendarTypes
  <2>3. e + 1 \in Days /\ (e + 1) - 1 = e
    <3>1. e # LastDay
      BY <2>2, CalendarTypes
    <3> QED
      BY <3>1, CalendarTypes DEF Days
  <2>4. t < Midnight[(e + 1) + 1]
    <3>1. /\ Midnight[e + 1] + 23 * HOUR <= Midnight[(e + 1) + 1]
          /\ Midnight[(e + 1) + 1] \in Nat
      BY <2>3, CalendarIs, CalendarTypes
    <3>2. TwoOClock[e] + 21 * HOUR <= Midnight[e + 1] /\ Midnight[e + 1] \in Nat /\ TwoOClock[e] \in Nat
      BY CalendarIs, CalendarTypes
    <3> QED
      BY <3>1, <3>2, <2>1, <1>1
  <2>5. DayOf(t) = e + 1
    BY <2>2, <2>3, <2>4, DayOfUnique
  <2>6. TwoOClock[e + 1] <= Midnight[e + 1] + 2 * HOUR
    BY <2>3, <2>5, CalendarIs
  <2>7. Midnight[e + 1] <= TwoOClock[e] + 22 * HOUR
    BY <2>3, <2>5, CalendarIs
  <2>8. TwoOClock[e + 1] \in Nat /\ TwoOClock[e] \in Nat /\ Midnight[e + 1] \in Nat
    BY <2>3, CalendarTypes
  <2> QED
    BY <2>1, <2>5, <2>6, <2>7, <2>8, <1>1
<1> QED
  BY <1>2, <1>3 DEF Sleepable

-----------------------------------------------------------------------------
(* The window. *)

\* What the window of a day is.
LEMMA WindowIs ==
    ASSUME NEW d \in Days, NEW from \in Nat, NEW until \in Nat
    PROVE  LET w == Window(d, until)
           IN  /\ w \in [from : Int, to : Int]
               /\ w.to <= until
               /\ until >= Midnight[d] => \A t \in from..until :
                     t \in w.from..w.to <=> Midnight[d] <= t /\ t < Midnight[d] + 24 * HOUR
BY CalendarTypes DEF Window

-----------------------------------------------------------------------------
(* The invariant. *)

\* The initial state satisfies it.
LEMMA InitIInv == Init => IInv
<1> SUFFICES ASSUME Init PROVE IInv
  OBVIOUS
<1>1. Midnight[1] \in Nat /\ Midnight[1] < Midnight[LastDay + 1] /\ 1 \in Days
  <2>1. 1 \in 0..(LastDay + 1) /\ LastDay + 1 \in 0..(LastDay + 1) /\ 1 < LastDay + 1
    BY CalendarTypes
  <2> QED
    BY <2>1, CalendarTypes, DaysAssumption DEF Days
<1>2. TypeOK
  BY <1>1, ConsentAssumption DEF Init, TypeOK
<1>3. NotMissed
  <2>1. ASSUME NEW d \in Days \ {0}, boot < TwoOClock[d] PROVE now < Midnight[d + 1]
    BY <2>1, <1>1, CalendarIs, CalendarTypes DEF Init
  <2> QED
    BY <2>1 DEF Init, NotMissed
<1> QED
  BY <1>2, <1>3 DEF Init, IInv, SleepOk, LaunchOk, LivesOk, Spaced, TwiceOnlyAtALongDay, WindowOk

\* The clock is in a day of the calendar.
LEMMA NowIs ==
    ASSUME TypeOK
    PROVE  /\ now \in Nat /\ Midnight[1] <= now /\ now < Midnight[LastDay + 1]
           /\ DayOf(now) \in Days \ {0} /\ DayOf(now) - 1 \in Days
           /\ Midnight[DayOf(now)] <= now /\ now < Midnight[DayOf(now) + 1]
<1>1. now \in Nat /\ Midnight[1] <= now /\ now < Midnight[LastDay + 1]
  BY DEF TypeOK
<1> QED
  BY <1>1, DayOfIs

\* And so is every instant at which the pipeline was run.
LEMMA LaunchIs ==
    ASSUME TypeOK, LaunchOk, NEW l \in launches
    PROVE  /\ l.at \in Nat /\ Midnight[1] <= l.at /\ l.at < Midnight[LastDay + 1]
           /\ l.day \in Nat /\ l.day + 1 = DayOf(l.at) /\ l.day + 1 \in Days /\ (l.day + 1) - 1 = l.day
           /\ Midnight[l.day + 1] <= l.at /\ l.at < Midnight[(l.day + 1) + 1]
<1>1. l.at \in Nat /\ l.day \in Days
  BY DEF TypeOK
<1>2. now \in Nat /\ now < Midnight[LastDay + 1]
  BY DEF TypeOK
<1>3. Midnight[LastDay + 1] \in Nat /\ l.day \in Nat
  BY <1>1, CalendarTypes DEF Days
<1>4. Midnight[1] <= l.at /\ l.at < Midnight[LastDay + 1] /\ l.day = DayOf(l.at) - 1
  BY <1>1, <1>2, <1>3 DEF LaunchOk
<1>5. DayOf(l.at) \in Days /\ Midnight[DayOf(l.at)] <= l.at /\ l.at < Midnight[DayOf(l.at) + 1]
  BY <1>1, <1>4, DayOfIs
<1>6. l.day + 1 = DayOf(l.at) /\ (l.day + 1) - 1 = l.day
  BY <1>3, <1>4, <1>5, CalendarTypes
<1> QED
  BY <1>1, <1>3, <1>4, <1>5, <1>6

\* The instant the loop goes to sleep for.  If the pipeline has been run at this
\* instant, which is past 2:00, it is not today.
LEMMA NextTwoIs ==
    ASSUME TypeOK, NEW late \in BOOLEAN
    PROVE  LET D == DayOf(now) IN
           /\ NextTwo(late) \in Nat /\ NextTwo(late) \in Sleepable
           /\ now <= NextTwo(late)
           /\ \/ /\ NextTwo(late) = TwoOClock[D]
                 /\ now <= TwoOClock[D] /\ (late => now < TwoOClock[D])
                 /\ NextTwo(late) + 20 * HOUR <= Midnight[D + 1]
              \/ /\ NextTwo(late) = TwoOClock[D] + 24 * HOUR
                 /\ TwoOClock[D] <= now
                 /\ Midnight[D + 1] <= NextTwo(late)
                 /\ D + 1 \in Days => NextTwo(late) + 20 * HOUR <= Midnight[(D + 1) + 1]
<1> DEFINE D == DayOf(now)
<1>1. now \in Nat /\ D \in Days /\ now < Midnight[D + 1]
  BY NowIs
<1>2. /\ HOUR \in Nat /\ HOUR > 0 /\ TwoOClock[D] \in Nat
      /\ Midnight[D] \in Nat /\ Midnight[D + 1] \in Nat
  BY <1>1, CalendarTypes
<1>3. /\ TwoOClock[D] + 21 * HOUR <= Midnight[D + 1]
      /\ Midnight[D + 1] <= TwoOClock[D] + 23 * HOUR
  BY <1>1, CalendarIs
<1>4. D + 1 \in Days =>
         Midnight[(D + 1) + 1] \in Nat /\ Midnight[D + 1] + 23 * HOUR <= Midnight[(D + 1) + 1]
  BY CalendarIs, CalendarTypes
<1>5. NextTwo(late) \in {TwoOClock[D], TwoOClock[D] + 24 * HOUR}
  BY DEF NextTwo
<1>6. NextTwo(late) = IF now > TwoOClock[D] \/ (now = TwoOClock[D] /\ late)
                      THEN TwoOClock[D] + 24 * HOUR ELSE TwoOClock[D]
  BY DEF NextTwo
<1>7. NextTwo(late) \in Sleepable
  BY <1>1, <1>5 DEF Sleepable
<1>8. CASE now > TwoOClock[D] \/ (now = TwoOClock[D] /\ late)
  <2>1. NextTwo(late) = TwoOClock[D] + 24 * HOUR
    BY <1>6, <1>8
  <2>2. D + 1 \in Days => NextTwo(late) + 20 * HOUR <= Midnight[(D + 1) + 1]
    BY <2>1, <1>2, <1>3, <1>4
  <2> QED
    BY <2>1, <2>2, <1>1, <1>2, <1>3, <1>7, <1>8
<1>9. CASE ~(now > TwoOClock[D] \/ (now = TwoOClock[D] /\ late))
  BY <1>1, <1>2, <1>3, <1>6, <1>7, <1>9
<1> QED
  BY <1>8, <1>9
\* A pass of the loop reads the clock.
LEMMA ComputeNextIInv ==
    ASSUME IInv, ComputeNext
    PROVE  IInv'
<1> USE DEF IInv
<1>1. PICK late \in BOOLEAN : (loop = "again" => late) /\ wake' = NextTwo(late)
  BY DEF ComputeNext
<1> DEFINE D == DayOf(now)
<1>2. /\ loop \in {"top", "again"} /\ loop' = "sleep"
      /\ UNCHANGED <<now, jobs, triggers, crashes, boot, asked, launches>>
  BY DEF ComputeNext
<1>3. /\ wake' \in Nat /\ wake' \in Sleepable /\ now <= wake'
      /\ \/ /\ wake' = TwoOClock[D]
            /\ now <= TwoOClock[D] /\ (late => now < TwoOClock[D])
            /\ wake' + 20 * HOUR <= Midnight[D + 1]
         \/ /\ wake' = TwoOClock[D] + 24 * HOUR
            /\ TwoOClock[D] <= now
            /\ Midnight[D + 1] <= wake'
            /\ D + 1 \in Days => wake' + 20 * HOUR <= Midnight[(D + 1) + 1]
  BY <1>1, NextTwoIs
<1>4. now \in Nat /\ D \in Days \ {0} /\ Midnight[D] <= now /\ now < Midnight[D + 1] /\ D \in Nat
  BY NowIs, CalendarTypes
<1>5. HOUR \in Nat /\ HOUR > 0 /\ Oversleep \in Nat /\ Oversleep < 19 * HOUR
  BY CalendarTypes
<1>6. TypeOK'
  BY <1>2, <1>3 DEF TypeOK
<1>7. SleepOk'
  <2>1. wake' \in Nat /\ now <= wake' /\ now \in Nat
    BY <1>3, <1>4
  <2>2. HOUR \in Nat /\ HOUR > 0 /\ Oversleep \in Nat
    BY <1>5
  <2>3. ASSUME NEW w \in Nat, now <= w PROVE now < w + Oversleep + HOUR
    BY <2>1, <2>2, <2>3
  <2>4. now < wake' + Oversleep + HOUR
    BY <2>1, <2>3
  <2> QED
    BY <1>2, <1>3, <2>4 DEF SleepOk
<1>8. LaunchOk' /\ LivesOk' /\ WindowOk'
  BY <1>2 DEF LaunchOk, LivesOk, WindowOk, Window
<1>9. NotMissed'
  <2> SUFFICES ASSUME NEW d \in Days \ {0}, boot < TwoOClock[d], ~Covered(d)
               PROVE  wake' + Oversleep + HOUR <= Midnight[d + 1]
    BY <1>2 DEF NotMissed, Covered
  <2>1. now < Midnight[d + 1]
    BY <1>2 DEF NotMissed
  <2>2. D <= d /\ d \in Nat
    <3>1. /\ now \in Nat /\ Midnight[1] <= now /\ now < Midnight[LastDay + 1]
      BY NowIs
    <3> QED
      BY <2>1, <3>1, DayOfOrder, CalendarTypes
  <2>3. D = d => now < TwoOClock[D]
    <3> SUFFICES ASSUME D = d PROVE now < TwoOClock[D]
      OBVIOUS
    <3>1. CASE loop = "top"
      BY <3>1 DEF LaunchOk
    <3>2. CASE loop = "again"
      <4>1. PICK l \in launches : l.at = now /\ l.day = DayOf(l.at) - 1
        BY <3>2 DEF LaunchOk
      <4>2. Covered(d)
        BY <4>1 DEF Covered
      <4> QED
        BY <4>2
    <3> QED
      BY <1>2, <3>1, <3>2
  <2>4. TwoOClock[D] \in Nat /\ Midnight[D + 1] \in Nat /\ Midnight[d + 1] \in Nat
    BY <1>4, CalendarTypes
  <2>5. Midnight[D + 1] <= Midnight[d + 1]
    BY <1>4, <2>2, Order, CalendarTypes
  <2>6. D # d => D + 1 \in Days /\ Midnight[(D + 1) + 1] <= Midnight[d + 1]
                  /\ Midnight[(D + 1) + 1] \in Nat
    <3> SUFFICES ASSUME D # d
                 PROVE  /\ D + 1 \in Days /\ Midnight[(D + 1) + 1] <= Midnight[d + 1]
                        /\ Midnight[(D + 1) + 1] \in Nat
      OBVIOUS
    <3>1. D + 1 \in Days /\ (D + 1) + 1 <= d + 1
      BY <1>4, <2>2, CalendarTypes DEF Days
    <3>2. (D + 1) + 1 \in 0..(LastDay + 1) /\ d + 1 \in 0..(LastDay + 1)
      BY <3>1, CalendarTypes
    <3> QED
      BY <3>1, <3>2, Order, CalendarTypes
  <2> QED
    BY <1>3, <1>4, <1>5, <2>3, <2>4, <2>5, <2>6
<1>10. Spaced'
  <2> SUFFICES ASSUME NEW l \in launches, l.life = crashes,
                      Length(l.day + 1) # 25 * HOUR, Length((l.day + 1) - 1) # 25 * HOUR
               PROVE  Midnight[(l.day + 1) + 1] <= wake'
    BY <1>2 DEF Spaced, Length
  <2>1. loop = "again"
    BY <1>2 DEF LivesOk
  <2>2. late
    BY <2>1, <1>1
  <2>3. \/ Midnight[(l.day + 1) + 1] <= now
        \/ l.at = now /\ TwoOClock[l.day + 1] <= now
    BY <2>1 DEF Spaced
  <2>4. l.day + 1 = DayOf(l.at) /\ l.day + 1 \in Days
    BY LaunchIs
  <2>5. Midnight[(l.day + 1) + 1] \in Nat /\ TwoOClock[D] \in Nat
    BY <1>4, <2>4, CalendarTypes
  <2> QED
    BY <1>3, <1>4, <2>2, <2>3, <2>4, <2>5
<1>11. TwiceOnlyAtALongDay'
  BY <1>2 DEF TwiceOnlyAtALongDay
<1> QED
  BY <1>6, <1>7, <1>8, <1>9, <1>10, <1>11
\* The pipeline is run for the day before the one it is.
LEMMA WakeIInv ==
    ASSUME IInv, Wake
    PROVE  IInv'
<1> USE DEF IInv
<1> DEFINE D == DayOf(now)
<1> DEFINE k == [day |-> D - 1, at |-> now, life |-> crashes]
<1>1. /\ loop = "sleep" /\ loop' = "again" /\ wake <= now
      /\ launches' = launches \cup {k}
      /\ UNCHANGED <<now, wake, triggers, crashes, boot, asked>>
  BY DEF Wake, TypeOK
<1>2. /\ now \in Nat /\ Midnight[1] <= now /\ now < Midnight[LastDay + 1]
      /\ D \in Days \ {0} /\ D - 1 \in Days /\ D \in Nat
      /\ Midnight[D] <= now /\ now < Midnight[D + 1]
  BY NowIs, CalendarTypes
<1>3. k.day = D - 1 /\ k.at = now /\ k.life = crashes /\ k.day + 1 = D /\ D - 1 = k.day
  BY <1>2
<1>4. HOUR \in Nat /\ HOUR > 0 /\ Oversleep \in Nat /\ Oversleep < 19 * HOUR /\ wake \in Nat
  BY CalendarTypes DEF TypeOK
<1>5. now < wake + 20 * HOUR
  BY <1>1, <1>2, <1>4 DEF SleepOk
<1>6. Length(D) # 25 * HOUR /\ Length(D - 1) # 25 * HOUR => TwoOClock[D] <= now
  BY <1>1, <1>2, <1>5, SleepableIs DEF SleepOk
<1>7. TypeOK'
  <2>1. jobs' \subseteq [day : Days, merchant : Merchants]
    BY <1>2 DEF TypeOK, Wake, RunDailyPipeline
  <2>2. k \in [day : Days, at : Nat, life : 0..MaxCrashes]
    BY <1>2 DEF TypeOK
  <2> QED
    BY <1>1, <2>1, <2>2 DEF TypeOK
<1>8. SleepOk' /\ WindowOk'
  BY <1>1 DEF SleepOk, WindowOk, Window
<1>9. LaunchOk'
  <2>1. ASSUME NEW l \in launches'
        PROVE  l.day = DayOf(l.at) - 1 /\ Midnight[1] <= l.at /\ l.at <= now
    <3>1. CASE l \in launches
      BY <3>1 DEF LaunchOk
    <3>2. CASE l = k
      BY <1>2, <1>3, <3>2
    <3> QED
      BY <1>1, <2>1, <3>1, <3>2
  <2>2. k \in launches' /\ k.at = now
    BY <1>1, <1>3
  <2> QED
    BY <1>1, <2>1, <2>2 DEF LaunchOk, DayOf
<1>10. LivesOk'
  <2>1. crashes \in Nat /\ crashes <= crashes
    BY ConsentAssumption DEF TypeOK
  <2> QED
    BY <1>1, <1>3, <2>1 DEF LivesOk
<1>11. NotMissed'
  <2> SUFFICES ASSUME NEW d \in Days \ {0}, boot < TwoOClock[d], ~Covered(d)
               PROVE  now < Midnight[d + 1]
    BY <1>1 DEF NotMissed, Covered
  <2>1. wake + Oversleep + HOUR <= Midnight[d + 1]
    BY <1>1 DEF NotMissed
  <2>2. now < wake + Oversleep + HOUR
    BY <1>1 DEF SleepOk
  <2>3. Midnight[d + 1] \in Nat
    BY CalendarTypes
  <2> QED
    BY <1>2, <1>4, <2>1, <2>2, <2>3
\* What was run on a quiet day was run on a day that is over.
<1>12. ASSUME NEW l \in launches, l.life = crashes,
              Length(l.day + 1) # 25 * HOUR, Length((l.day + 1) - 1) # 25 * HOUR
       PROVE  Midnight[(l.day + 1) + 1] <= now
  <2>1. Midnight[(l.day + 1) + 1] <= wake
    BY <1>1, <1>12 DEF Spaced
  <2>2. Midnight[(l.day + 1) + 1] \in Nat
    BY LaunchIs, CalendarTypes
  <2> QED
    BY <1>1, <1>2, <1>4, <2>1, <2>2
<1>13. Spaced'
  BY <1>1, <1>3, <1>6, <1>12 DEF Spaced, Length
<1>14. TwiceOnlyAtALongDay'
  <2> SUFFICES ASSUME NEW a \in launches', NEW b \in launches',
                      a.life = b.life, a.day = b.day, a.at # b.at
               PROVE  25 * HOUR \in {Midnight[a.day + 2] - Midnight[a.day + 1],
                                      Midnight[a.day + 1] - Midnight[a.day]}
    BY DEF TwiceOnlyAtALongDay
  <2>1. CASE a \in launches /\ b \in launches
    BY <2>1 DEF TwiceOnlyAtALongDay
  <2>2. ASSUME NEW l \in launches, l.life = crashes, l.day = k.day
        PROVE  25 * HOUR \in {Midnight[l.day + 2] - Midnight[l.day + 1],
                               Midnight[l.day + 1] - Midnight[l.day]}
    <3>1. l.day \in Nat /\ (l.day + 1) + 1 = l.day + 2 /\ (l.day + 1) - 1 = l.day /\ l.day + 1 = D
      BY <1>3, <2>2, LaunchIs
    <3>2. ~(Midnight[l.day + 2] <= now)
      <4>1. l.day + 2 = D + 1
        BY <3>1
      <4>2. Midnight[D + 1] \in Nat
        BY <1>2, CalendarTypes
      <4> QED
        BY <4>1, <4>2, <1>2
    <3>3. Length(l.day + 1) = 25 * HOUR \/ Length((l.day + 1) - 1) = 25 * HOUR
      BY <1>12, <2>2, <3>1, <3>2
    <3> QED
      BY <3>1, <3>3 DEF Length
  <2>3. CASE a = k /\ b \in launches
    BY <1>3, <2>2, <2>3
  <2>4. CASE b = k /\ a \in launches
    BY <1>3, <2>2, <2>4
  <2>5. CASE a = k /\ b = k
    BY <2>5
  <2> QED
    BY <1>1, <2>1, <2>3, <2>4, <2>5
<1> QED
  BY <1>7, <1>8, <1>9, <1>10, <1>11, <1>13, <1>14
\* What leaves the loop and the clock alone concerns the types and the windows.
LEMMA QuietIInv ==
    ASSUME IInv, TypeOK', WindowOk', UNCHANGED <<now, loop, wake, crashes, boot, launches>>
    PROVE  IInv'
<1> USE DEF IInv
<1>1. SleepOk' /\ LaunchOk' /\ LivesOk'
  BY DEF SleepOk, LaunchOk, LivesOk, DayOf
<1>2. NotMissed'
  <2> SUFFICES ASSUME NEW d \in Days \ {0}, loop # "down", boot < TwoOClock[d], ~Covered(d)
               PROVE  \/ loop = "sleep" /\ wake + Oversleep + HOUR <= Midnight[d + 1]
                      \/ loop \in {"top", "again"} /\ now < Midnight[d + 1]
    BY DEF NotMissed, Covered
  <2> QED
    BY DEF NotMissed
<1>3. Spaced' /\ TwiceOnlyAtALongDay'
  BY DEF Spaced, Length, TwiceOnlyAtALongDay
<1> QED
  BY <1>1, <1>2, <1>3

\* A request of the trigger route, for any day.
LEMMA TriggerIInv ==
    ASSUME IInv, TriggerPipeline
    PROVE  IInv'
<1>1. jobs' \subseteq [day : Days, merchant : Merchants]
  BY DEF IInv, TypeOK, TriggerPipeline, RunDailyPipeline
<1>2. triggers' \in 0..MaxTriggers
  BY ConsentAssumption DEF IInv, TypeOK, TriggerPipeline
<1>3. UNCHANGED <<now, loop, wake, crashes, boot, asked, launches>>
  BY DEF TriggerPipeline
<1>4. TypeOK' /\ WindowOk'
  BY <1>1, <1>2, <1>3 DEF IInv, TypeOK, WindowOk
<1> QED
  BY <1>3, <1>4, QuietIInv

\* The request for bank data is for the window of the day the goroutine is for.
LEMMA ProcessIInv ==
    ASSUME IInv, NEW j \in jobs, ProcessMerchant(j)
    PROVE  IInv'
<1> DEFINE a == [merchant |-> j.merchant, day |-> j.day,
                 window |-> Window(j.day, ConsentUntil[j.merchant])]
<1>1. /\ jobs' = jobs \ {j} /\ asked' \in {asked, asked \cup {a}}
      /\ UNCHANGED <<now, loop, wake, triggers, crashes, boot, launches>>
  BY DEF ProcessMerchant
<1>2. j \in [day : Days, merchant : Merchants]
  BY DEF IInv, TypeOK
<1>3. ConsentUntil[j.merchant] \in Nat
  BY <1>2, ConsentAssumption
<1>4. Window(j.day, ConsentUntil[j.merchant]) \in [from : Int, to : Int]
  BY <1>2, <1>3, WindowIs
<1>5. a \in [merchant : Merchants, day : Days, window : [from : Int, to : Int]]
  BY <1>2, <1>4
<1>6. TypeOK'
  BY <1>1, <1>5 DEF IInv, TypeOK
<1>7. a.window = Window(a.day, ConsentUntil[a.merchant])
  OBVIOUS
<1>8. WindowOk'
  BY <1>1, <1>7 DEF IInv, WindowOk
<1> QED
  BY <1>1, <1>6, <1>8, QuietIInv

\* A request ends.
LEMMA EndRequestIInv ==
    ASSUME IInv, NEW a \in asked, EndRequest(a)
    PROVE  IInv'
<1>1. /\ asked' = asked \ {a}
      /\ UNCHANGED <<now, loop, wake, jobs, triggers, crashes, boot, launches>>
  BY DEF EndRequest
<1>2. TypeOK' /\ WindowOk'
  BY <1>1 DEF IInv, TypeOK, WindowOk
<1> QED
  BY <1>1, <1>2, QuietIInv

\* An hour passes while the loop sleeps.
LEMMA TickIInv ==
    ASSUME IInv, Tick
    PROVE  IInv'
<1> USE DEF IInv
<1>1. /\ loop \in {"down", "sleep"} /\ now' = now + HOUR /\ now + HOUR < Midnight[LastDay + 1]
      /\ loop = "sleep" => now < wake + Oversleep
      /\ UNCHANGED <<loop, wake, jobs, triggers, crashes, boot, asked, launches>>
  BY DEF Tick
<1>2. HOUR \in Nat /\ HOUR > 0 /\ Oversleep \in Nat /\ wake \in Nat /\ now \in Nat /\ Midnight[1] \in Nat
  BY CalendarTypes DEF TypeOK
<1>3. now' \in Nat /\ now < now' /\ Midnight[1] <= now' /\ now' < Midnight[LastDay + 1]
  BY <1>1, <1>2 DEF TypeOK
<1>4. TypeOK' /\ WindowOk'
  BY <1>1, <1>3 DEF TypeOK, WindowOk, Window
<1>5. SleepOk'
  <2>1. loop = "sleep" => now + HOUR < wake + Oversleep + HOUR
    BY <1>1, <1>2
  <2> QED
    BY <1>1, <2>1 DEF SleepOk, Sleepable
<1>6. LaunchOk'
  <2>1. ASSUME NEW l \in launches PROVE l.day = DayOf(l.at) - 1 /\ Midnight[1] <= l.at /\ l.at <= now'
    <3>1. l.at \in Nat /\ l.at <= now
      BY LaunchIs DEF LaunchOk
    <3> QED
      BY <3>1, <1>2, <1>3 DEF LaunchOk
  <2> QED
    BY <1>1, <2>1 DEF LaunchOk, DayOf
<1>7. LivesOk' /\ Spaced' /\ TwiceOnlyAtALongDay'
  BY <1>1 DEF LivesOk, Spaced, Length, TwiceOnlyAtALongDay
<1>8. NotMissed'
  BY <1>1 DEF NotMissed, Covered, DayOf
<1> QED
  BY <1>4, <1>5, <1>6, <1>7, <1>8

\* The process stops, which ends a life.
LEMMA CrashIInv ==
    ASSUME IInv, Crash
    PROVE  IInv'
<1> USE DEF IInv
<1>1. /\ loop' = "down" /\ crashes' = crashes + 1 /\ crashes < MaxCrashes /\ jobs' = {} /\ asked' = {}
      /\ UNCHANGED <<now, wake, triggers, boot, launches>>
  BY DEF Crash
<1>2. crashes \in Nat /\ crashes' \in 0..MaxCrashes
  BY <1>1, ConsentAssumption DEF TypeOK
<1>3. TypeOK' /\ WindowOk'
  BY <1>1, <1>2 DEF TypeOK, WindowOk
<1>4. LivesOk'
  <2>1. ASSUME NEW l \in launches PROVE l.life <= crashes + 1 /\ l.life # crashes + 1
    BY <1>2, ConsentAssumption DEF LivesOk, TypeOK
  <2> QED
    BY <1>1, <2>1 DEF LivesOk
<1>5. SleepOk' /\ LaunchOk' /\ NotMissed' /\ Spaced' /\ TwiceOnlyAtALongDay'
  BY <1>1 DEF SleepOk, LaunchOk, NotMissed, Spaced, Length, TwiceOnlyAtALongDay, DayOf
<1> QED
  BY <1>3, <1>4, <1>5

\* The process begins another life, in which no 2:00 has been seen.
LEMMA BootIInv ==
    ASSUME IInv, Boot
    PROVE  IInv'
<1> USE DEF IInv
<1>1. /\ loop = "down" /\ loop' = "top" /\ boot' = now
      /\ UNCHANGED <<now, wake, jobs, triggers, crashes, asked, launches>>
  BY DEF Boot
<1>2. TypeOK' /\ WindowOk'
  BY <1>1 DEF TypeOK, WindowOk, Window
<1>3. NotMissed'
  <2>1. ASSUME NEW d \in Days \ {0}, now < TwoOClock[d] PROVE now < Midnight[d + 1]
    BY <2>1, CalendarIs, CalendarTypes DEF TypeOK
  <2> QED
    BY <1>1, <2>1 DEF NotMissed
<1>4. SleepOk' /\ LaunchOk' /\ LivesOk' /\ Spaced' /\ TwiceOnlyAtALongDay'
  BY <1>1 DEF SleepOk, LaunchOk, LivesOk, Spaced, Length, TwiceOnlyAtALongDay, DayOf
<1> QED
  BY <1>2, <1>3, <1>4

\* Every step preserves the invariant.
LEMMA NextIInv == IInv /\ [Next]_vars => IInv'
<1> SUFFICES ASSUME IInv, [Next]_vars PROVE IInv'
  OBVIOUS
<1>1. CASE ComputeNext
  BY <1>1, ComputeNextIInv
<1>2. CASE Wake
  BY <1>2, WakeIInv
<1>3. CASE TriggerPipeline
  BY <1>3, TriggerIInv
<1>4. CASE \E j \in jobs : ProcessMerchant(j)
  BY <1>4, ProcessIInv
<1>5. CASE \E a \in asked : EndRequest(a)
  BY <1>5, EndRequestIInv
<1>6. CASE Tick
  BY <1>6, TickIInv
<1>7. CASE Crash
  BY <1>7, CrashIInv
<1>8. CASE Boot
  BY <1>8, BootIInv
<1>9. CASE UNCHANGED vars
  <2>1. TypeOK' /\ WindowOk'
    BY <1>9 DEF vars, IInv, TypeOK, WindowOk, Window
  <2> QED
    BY <1>9, <2>1, QuietIInv DEF vars
<1> QED
  BY <1>1, <1>2, <1>3, <1>4, <1>5, <1>6, <1>7, <1>8, <1>9 DEF Next

-----------------------------------------------------------------------------
(* The theorems. *)

\* The invariant holds in every state.
LEMMA Invariant == Spec => []IInv
BY InitIInv, NextIInv, PTL DEF Spec

\* Every reachable state of the loop and of its goroutines is well typed; among
\* other things a day is never asked for that the calendar does not have.
THEOREM TypeCorrect == Spec => []TypeOK
<1>1. IInv => TypeOK
  BY DEF IInv
<1> QED
  BY Invariant, <1>1, PTL

\* main.go:435-447: adding 24 hours to 2:00 never carries the loop past a day, in
\* any calendar and however late the sleep returns, up to 19 hours.
THEOREM NoneSkipped == Spec => []NoDayIsSkipped
<1>1. IInv => NoDayIsSkipped
  <2> SUFFICES ASSUME IInv, NEW d \in Days \ {0}, Midnight[d + 1] <= now,
                      loop # "down", boot < TwoOClock[d], ~Covered(d)
               PROVE  FALSE
    BY DEF NoDayIsSkipped, Covered
  <2>1. Midnight[d + 1] \in Nat /\ now \in Nat
    BY CalendarTypes DEF IInv, TypeOK
  <2>2. loop = "sleep" /\ wake + Oversleep + HOUR <= Midnight[d + 1]
    BY <2>1 DEF IInv, NotMissed
  <2>3. now < wake + Oversleep + HOUR
    BY <2>2 DEF IInv, SleepOk
  <2>4. wake \in Nat /\ Oversleep \in Nat /\ HOUR \in Nat
    BY CalendarTypes DEF IInv, TypeOK
  <2> QED
    BY <2>1, <2>2, <2>3, <2>4
<1> QED
  BY Invariant, <1>1, PTL

\* main.go:435-447: one process runs the pipeline twice for a day only around a
\* day of 25 hours.
THEOREM TwiceAtLongDays == Spec => []TwiceOnlyAtALongDay
<1>1. IInv => TwiceOnlyAtALongDay
  BY DEF IInv
<1> QED
  BY Invariant, <1>1, PTL

\* daily_recon.go:82-91: whatever the day and the consent, Setu is asked for no
\* instant after the consent and, of those within it, for those of the day.
THEOREM WindowsAreDays == Spec => []WindowIsTheDay
<1>1. IInv => WindowIsTheDay
  <2> SUFFICES ASSUME IInv, NEW a \in asked
               PROVE  /\ a.window.to <= ConsentUntil[a.merchant]
                      /\ ConsentUntil[a.merchant] >= Midnight[a.day] =>
                            \A t \in ConsentFrom[a.merchant]..ConsentUntil[a.merchant] :
                               t \in a.window.from..a.window.to
                               <=> Midnight[a.day] <= t /\ t < Midnight[a.day] + 24 * HOUR
    BY DEF WindowIsTheDay
  <2>1. a.merchant \in Merchants /\ a.day \in Days
    BY DEF IInv, TypeOK
  <2>2. ConsentFrom[a.merchant] \in Nat /\ ConsentUntil[a.merchant] \in Nat
    BY <2>1, ConsentAssumption
  <2>3. a.window = Window(a.day, ConsentUntil[a.merchant])
    BY DEF IInv, WindowOk
  <2> QED
    BY <2>1, <2>2, <2>3, WindowIs
<1> QED
  BY Invariant, <1>1, PTL
=============================================================================
