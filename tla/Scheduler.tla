------------------------------ MODULE Scheduler ------------------------------
(***************************************************************************)
(* The 2:00 loop of cmd/api/main.go, POST /admin/trigger-pipeline, and     *)
(* RunDailyPipeline with the goroutine it starts for each merchant         *)
(* (internal/cron/daily_recon.go), down to the hours of a day they ask the *)
(* gateways and Setu for.                                                  *)
(*                                                                         *)
(* Nothing is remembered across a restart, or from one day to the next: a  *)
(* pass of the loop looks at the clock, sleeps until 2:00 has come round,  *)
(* and works for the day before the one it wakes on.  The loop adds 24     *)
(* hours where it means a day, and a day on which the clocks change has 23 *)
(* or 25.                                                                  *)
(*                                                                         *)
(* An instant is a number of units since the first midnight.  HOUR units   *)
(* are an hour and one unit is the second of endOfDay; the clock moves on  *)
(* by hours.                                                               *)
(***************************************************************************)
EXTENDS Integers

CONSTANTS
    HOUR,
    LastDay,      \* bound: the last day of the calendar
    Midnight,     \* when a day begins
    TwoOClock,    \* what time.Date(..., 2, 0, 0, 0, ...) makes of a day
    Oversleep,    \* how much too late time.Sleep may return
    Merchants,
    ConsentFrom,  \* valid_from and valid_until of the merchant's ACTIVE consent
    ConsentUntil,
    MaxTriggers,  \* bound: requests of POST /admin/trigger-pipeline
    MaxCrashes    \* bound: restarts of the process

Days == 0..LastDay

\* On the day the clocks go forward 2:00 may be missing, and Go's answer is then
\* one of the instants an hour away; on the day they go back it may come twice.
ASSUME CalendarAssumption ==
    /\ HOUR \in Nat \ {0}
    /\ LastDay \in Nat \ {0}
    /\ Midnight \in [0..(LastDay + 1) -> Nat]
    /\ TwoOClock \in [Days -> Nat]
    /\ \A d \in Days :
          \/ /\ Midnight[d + 1] - Midnight[d] = 24 * HOUR
             /\ TwoOClock[d] - Midnight[d] = 2 * HOUR
          \/ /\ Midnight[d + 1] - Midnight[d] = 23 * HOUR
             /\ TwoOClock[d] - Midnight[d] \in {HOUR, 2 * HOUR}
          \/ /\ Midnight[d + 1] - Midnight[d] = 25 * HOUR
             /\ TwoOClock[d] - Midnight[d] \in {2 * HOUR, 3 * HOUR}
    /\ Oversleep \in Nat
    /\ Oversleep < 19 * HOUR

\* Every instant of the calendar is in one day.
ASSUME DaysAssumption ==
    /\ \A d, e \in 0..(LastDay + 1) : d < e => Midnight[d] < Midnight[e]
    /\ \A t \in Midnight[0]..(Midnight[LastDay + 1] - 1) :
          \E d \in Days : Midnight[d] <= t /\ t < Midnight[d + 1]

ASSUME ConsentAssumption ==
    /\ ConsentFrom \in [Merchants -> Nat]
    /\ ConsentUntil \in [Merchants -> Nat]
    /\ \A m \in Merchants : ConsentFrom[m] <= ConsentUntil[m]
    /\ MaxTriggers \in Nat
    /\ MaxCrashes \in Nat

VARIABLES
    now,       \* the clock
    loop,      \* where the loop is: "down", "top", "again" or "sleep"
    wake,      \* next, the instant it sleeps until
    jobs,      \* the goroutines of processMerchant
    triggers,  \* requests made of the trigger route
    crashes,   \* restarts
    boot,      \* history: when the process was started
    asked,     \* the requests for bank data that are under way
    launches   \* history: the pipelines the loop has run, for which day, when and
               \* in which life of the process

vars == <<now, loop, wake, jobs, triggers, crashes, boot, asked, launches>>

DayOf(t) == CHOOSE d \in Days : Midnight[d] <= t /\ t < Midnight[d + 1]

-----------------------------------------------------------------------------
(* The window of a bank session. *)

\* Mutant of Window: the end of the consent is not looked at.
WindowUncapped(d, until) ==
    [from |-> Midnight[d], to |-> Midnight[d] + 24 * HOUR - 1]

\* daily_recon.go:82-91: the day, cut off at the end of the consent; if nothing
\* of it is left, the 24 hours before that end.
Window(d, until) ==
    LET startOfDay == Midnight[d]
        dayIsOver  == startOfDay + 24 * HOUR - 1
        endOfDay   == IF dayIsOver > until THEN until ELSE dayIsOver
    IN  [from |-> IF startOfDay > endOfDay THEN endOfDay - 24 * HOUR ELSE startOfDay,
         to   |-> endOfDay]

-----------------------------------------------------------------------------
Init ==
    /\ now      = Midnight[1]
    /\ loop     = "top"
    /\ wake     = 0
    /\ jobs     = {}
    /\ triggers = 0
    /\ crashes  = 0
    /\ boot     = Midnight[1]
    /\ asked    = {}
    /\ launches = {}

\* Mutant of NextTwo: 24 hours are added whether or not 2:00 is over.
NextTwoTomorrow(late) == TwoOClock[DayOf(now)] + 24 * HOUR

\* Mutant of NextTwo: the comparison is the wrong way round.
NextTwoSwapped(late) ==
    LET next == TwoOClock[DayOf(now)]
    IN  IF now > next \/ (now = next /\ late) THEN next ELSE next + 24 * HOUR

\* main.go:437-440.  The clock is read at the hour now or, if late, after it.
NextTwo(late) ==
    LET next == TwoOClock[DayOf(now)]
    IN  IF now > next \/ (now = next /\ late) THEN next + 24 * HOUR ELSE next

\* main.go:435-444.  A pass after the first begins when the merchants have been
\* listed, hence after the instant it woke at.
ComputeNext ==
    /\ loop \in {"top", "again"}
    /\ \E late \in BOOLEAN :
        /\ loop = "again" => late
        /\ wake' = NextTwo(late)
    /\ loop' = "sleep"
    /\ UNCHANGED <<now, jobs, triggers, crashes, boot, asked, launches>>

\* daily_recon.go:17-40: a goroutine for every merchant that is listed.  The
\* query may fail, and rows.Next stops as well at an error nobody asks for.
RunDailyPipeline(day) ==
    \E listed \in SUBSET Merchants :
        jobs' = jobs \cup {[day |-> day, merchant |-> m] : m \in listed}

\* Mutant of Wake: the date is two days back.
WakeTwoDaysBack ==
    /\ loop = "sleep"
    /\ now >= wake
    /\ RunDailyPipeline(DayOf(now) - 2)
    /\ launches' = launches \cup {[day |-> DayOf(now) - 2, at |-> now, life |-> crashes]}
    /\ loop' = "again"
    /\ UNCHANGED <<now, wake, triggers, crashes, boot, asked>>

\* main.go:444-447.
Wake ==
    /\ loop = "sleep"
    /\ now >= wake
    /\ RunDailyPipeline(DayOf(now) - 1)
    /\ launches' = launches \cup {[day |-> DayOf(now) - 1, at |-> now, life |-> crashes]}
    /\ loop' = "again"
    /\ UNCHANGED <<now, wake, triggers, crashes, boot, asked>>

\* main.go:358-381: any day, or yesterday when none is given or the date does
\* not parse.
TriggerPipeline ==
    /\ loop # "down"
    /\ triggers < MaxTriggers
    /\ triggers' = triggers + 1
    /\ \E day \in Days : RunDailyPipeline(day)
    /\ UNCHANGED <<now, loop, wake, crashes, boot, asked, launches>>

\* daily_recon.go:42-98: when the gateways have been asked, Setu is asked for the
\* window, if the merchant's consent is found.
ProcessMerchant(j) ==
    /\ jobs' = jobs \ {j}
    /\ \/ asked' = asked \cup {[merchant |-> j.merchant, day |-> j.day,
                               window |-> Window(j.day, ConsentUntil[j.merchant])]}
       \/ UNCHANGED asked
    /\ UNCHANGED <<now, loop, wake, triggers, crashes, boot, launches>>

\* daily_recon.go:99-115: the session is recorded, or the request or the INSERT
\* has failed.
EndRequest(a) ==
    /\ asked' = asked \ {a}
    /\ UNCHANGED <<now, loop, wake, jobs, triggers, crashes, boot, launches>>

\* Time passes.  What the loop does while it is awake takes none of it, its
\* sleep ends, and goroutines, whose requests time out, end within the hour.
Tick ==
    /\ jobs = {} /\ asked = {}
    /\ loop = "down" \/ (loop = "sleep" /\ now < wake + Oversleep)
    /\ now + HOUR < Midnight[LastDay + 1]
    /\ now' = now + HOUR
    /\ UNCHANGED <<loop, wake, jobs, triggers, crashes, boot, asked, launches>>

\* The process stops, with all its goroutines.
Crash ==
    /\ loop # "down"
    /\ crashes < MaxCrashes
    /\ crashes' = crashes + 1
    /\ loop' = "down"
    /\ jobs' = {}
    /\ asked' = {}
    /\ UNCHANGED <<now, wake, triggers, boot, launches>>

\* main.go:433: it is started again.
Boot ==
    /\ loop = "down"
    /\ loop' = "top"
    /\ boot' = now
    /\ UNCHANGED <<now, wake, jobs, triggers, crashes, asked, launches>>

Next ==
    \/ ComputeNext
    \/ Wake
    \/ TriggerPipeline
    \/ \E j \in jobs : ProcessMerchant(j)
    \/ \E a \in asked : EndRequest(a)
    \/ Tick
    \/ Crash
    \/ Boot

Spec == Init /\ [][Next]_vars

-----------------------------------------------------------------------------
\* Every variable has its type.
TypeOK ==
    /\ now \in Nat /\ Midnight[1] <= now /\ now < Midnight[LastDay + 1]
    /\ loop \in {"down", "top", "again", "sleep"}
    /\ wake \in Nat
    /\ jobs \subseteq [day : Days, merchant : Merchants]
    /\ triggers \in 0..MaxTriggers
    /\ crashes \in 0..MaxCrashes
    /\ boot \in Nat
    /\ launches \subseteq [day : Days, at : Nat, life : 0..MaxCrashes]
    /\ asked \subseteq [merchant : Merchants, day : Days, window : [from : Int, to : Int]]

\* On every day on which the process was there at 2:00 and has stayed, the loop
\* has run the pipeline for the day before, or tried to: adding 24 hours to
\* 2:00 never carries it past a day, though clocks change and sleeps are long.
NoDayIsSkipped ==
    \A d \in Days \ {0} :
        /\ Midnight[d + 1] <= now
        /\ loop # "down" /\ boot < TwoOClock[d]
        => \E l \in launches : l.day = d - 1 /\ DayOf(l.at) = d

\* The loop of one process runs the pipeline twice for a day only around a day of
\* 25 hours: on such a day 24 hours after 2:00 it may be 1:00, and 2:00 is to come,
\* and so it may be on the day after.
TwiceOnlyAtALongDay ==
    \A k, l \in launches :
        k.life = l.life /\ k.day = l.day /\ k.at # l.at
        => 25 * HOUR \in {Midnight[k.day + 2] - Midnight[k.day + 1],
                           Midnight[k.day + 1] - Midnight[k.day]}

\* A window ends with the consent at the latest, and of the instants the consent
\* covers it holds exactly those of the first 24 hours of its day, unless the
\* consent had ended before the day began.
WindowIsTheDay ==
    \A a \in asked :
        /\ a.window.to <= ConsentUntil[a.merchant]
        /\ ConsentUntil[a.merchant] >= Midnight[a.day] =>
               \A t \in ConsentFrom[a.merchant]..ConsentUntil[a.merchant] :
                   t \in a.window.from..a.window.to
                   <=> Midnight[a.day] <= t /\ t < Midnight[a.day] + 24 * HOUR
=============================================================================
