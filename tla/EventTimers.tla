---------------------------- MODULE EventTimers ----------------------------
(***************************************************************************)
(* Timers of a node: the event timers of etimer.c, the callback timers of  *)
(* ctimer.c on top of them, the event queue and poll flag of process.c     *)
(* that connect them, and the clock interrupt (cpu/msp430/clock.c) that    *)
(* wakes the event timer process.  Every timer of the routing protocol is  *)
(* a callback timer.  Processes run to completion; the clock interrupt may *)
(* come between any two steps of the event timer process.                  *)
(*                                                                         *)
(* clock_time_t wraps, and the code only ever compares differences of      *)
(* times: they are kept relative to the clock, modulo ClockSize.           *)
(***************************************************************************)
EXTENDS Integers, Sequences, SequencesExt

CONSTANTS
  Callback,     \* the callback timers; ctimer_process owns their etimers
  Periodic,     \* those whose callback resets them
  Plain,        \* event timers of one application process
  Ctimer, App,  \* the two processes that own timers
  None,         \* PROCESS_NONE
  ClockSize,    \* number of values of clock_time_t, even
  Intervals,    \* the intervals timers are set to
  NumEvents,    \* PROCESS_CONF_NUMEVENTS
  MaxLate,      \* bound: ticks an expiry may wait for the main loop
  MaxCalls      \* bound: calls of applications

Timer == Callback \cup Plain
Time == 0 .. ClockSize - 1
Half == ClockSize \div 2              \* MAX_TICKS + 1

ASSUME NamesAssumption ==
  /\ Periodic \subseteq Callback /\ Callback \cap Plain = {}
  /\ Ctimer # App /\ None \notin Timer \cup {Ctimer, App}
ASSUME SizesAssumption ==
  /\ ClockSize \in Nat \ {0} /\ ClockSize % 2 = 0 /\ NumEvents \in Nat \ {0}
  /\ MaxLate \in Nat /\ MaxCalls \in Nat
ASSUME IntervalsAssumption ==
  /\ Intervals \subseteq Nat \ {0}
  /\ \A i \in Intervals : i + MaxLate < Half

VARIABLES
  timerlist,        \* the etimers that wait, most recently set first
  age, interval, owner,  \* of each etimer: clock - start, interval, p
  ahead,            \* next_expiration - clock
  needspoll,        \* etimer_process is to be polled
  polled,           \* do_poll has called it in this round of process_run
  scan,             \* position of its poll handler in timerlist, or 0
  events,           \* the event queue
  ctimer_list,      \* the callback timers that are set
  alive,            \* is the application process running?
  calls             \* calls of applications so far

timers == <<timerlist, age, interval, owner, ahead>>
loop == <<polled, scan>>
vars == <<timers, needspoll, loop, events, ctimer_list, alive, calls>>

\* An event for a process: the expiry of a timer, or anything else (None).
Event == [to : {Ctimer, App}, timer : Timer \cup {None}]

TypeOK ==
  /\ timerlist \in Seq(Timer)
  /\ age \in [Timer -> Time] /\ interval \in [Timer -> Intervals \cup {0}]
  /\ owner \in [Timer -> {None, Ctimer, App}] /\ ahead \in Time
  /\ needspoll \in BOOLEAN /\ polled \in BOOLEAN
  /\ scan \in 0 .. Len(timerlist) + 1
  /\ events \in Seq(Event) /\ Len(events) <= NumEvents
  /\ ctimer_list \subseteq Callback
  /\ alive \in BOOLEAN /\ calls \in 0 .. MaxCalls

Init ==
  /\ timerlist = <<>> /\ events = <<>> /\ ctimer_list = {}
  /\ age = [t \in Timer |-> 0] /\ interval = [t \in Timer |-> 0]
  /\ owner = [t \in Timer |-> None] /\ ahead = 0
  /\ needspoll = FALSE /\ polled = FALSE /\ scan = 0
  /\ alive = TRUE /\ calls = 0

Listed(t) == t \in ToSet(timerlist)
Queued(t) == \E i \in DOMAIN events : events[i].timer = t

-----------------------------------------------------------------------------
(* timer.c and update_time.                                                *)

Minus(x, y) == (x - y) % ClockSize

TimerExpiredEarly(t) ==                   \* mutant: one tick too early
  interval[t] <= (age[t] + 1) % ClockSize
TimerExpired(t) == interval[t] < (age[t] + 1) % ClockSize

\* A timer that has expired has a large distance: it hides behind the others.
NextExpiration(list, ag, iv) ==
  IF list = <<>> THEN 0
  ELSE Min({Minus(iv[t], ag[t]) : t \in ToSet(list)})

-----------------------------------------------------------------------------
(* The clock interrupt and the event timer process.                        *)

\* Ticks since an expiry that nobody has been told of yet.
Waited(t) ==
  LET late == Minus(age[t], interval[t])
  IN IF (Listed(t) \/ Queued(t)) /\ late < Half THEN late ELSE 0

WakesUp(due) == Minus(due, 1) >= Half

\* The age of a timer that is neither running nor in the queue is not read.
Tick ==
  /\ \A t \in Timer : Waited(t) < MaxLate
  /\ age' = [t \in Timer |->
               IF Listed(t) \/ Queued(t) THEN (age[t] + 1) % ClockSize ELSE 0]
  /\ ahead' = IF timerlist = <<>> THEN 0 ELSE Minus(ahead, 1)
  /\ needspoll' = (needspoll \/ (timerlist # <<>> /\ WakesUp(ahead')))
  /\ UNCHANGED <<timerlist, interval, owner, loop, events, ctimer_list, alive, calls>>

\* process_run: do_poll if that is asked for, then do_event.
PollWhileAsked ==                         \* mutant: polls until nobody asks
  /\ needspoll /\ scan = 0
  /\ needspoll' = FALSE /\ scan' = 1 /\ polled' = TRUE
  /\ UNCHANGED <<timers, events, ctimer_list, alive, calls>>
BeginPoll ==
  /\ needspoll /\ scan = 0 /\ (polled => events = <<>>)
  /\ needspoll' = FALSE /\ scan' = 1 /\ polled' = TRUE
  /\ UNCHANGED <<timers, events, ctimer_list, alive, calls>>

\* One step of the loop of etimer_process.  Having posted, it starts again.
PostUnchecked(t) ==                       \* mutant: the queue never refuses
  /\ events' = Append(events, [to |-> owner[t], timer |-> t])
  /\ owner' = [owner EXCEPT ![t] = None]
  /\ timerlist' = RemoveAt(timerlist, scan)
  /\ ahead' = NextExpiration(timerlist', age, interval)
  /\ scan' = 1
  /\ UNCHANGED <<age, interval, needspoll>>
PostExpiry(t) ==
  /\ Len(events) < NumEvents
  /\ events' = Append(events, [to |-> owner[t], timer |-> t])
  /\ owner' = [owner EXCEPT ![t] = None]
  /\ timerlist' = RemoveAt(timerlist, scan)
  /\ ahead' = NextExpiration(timerlist', age, interval)
  /\ scan' = 1
  /\ UNCHANGED <<age, interval, needspoll>>

SkipLate(t) ==                            \* mutant: a full queue is ignored
  /\ Len(events) = NumEvents
  /\ scan' = scan + 1
  /\ UNCHANGED <<timers, events, needspoll>>
TryLater(t) ==
  /\ Len(events) = NumEvents
  /\ needspoll' = TRUE /\ scan' = scan + 1
  /\ UNCHANGED <<timers, events>>

Skip(t) ==
  /\ ~TimerExpired(t)
  /\ scan' = scan + 1
  /\ UNCHANGED <<timers, events, needspoll>>

ScanTimer ==
  /\ scan \in 1 .. Len(timerlist)
  /\ LET t == timerlist[scan]
     IN Skip(t) \/ (TimerExpired(t) /\ (PostExpiry(t) \/ TryLater(t)))
  /\ UNCHANGED <<polled, ctimer_list, alive, calls>>

EndPoll ==
  /\ scan = Len(timerlist) + 1
  /\ scan' = 0
  /\ UNCHANGED <<timers, needspoll, polled, events, ctimer_list, alive, calls>>

-----------------------------------------------------------------------------
(* Timers are set and stopped.                                             *)

\* add_timer.  Only a timer without owner is known not to be on the list.
AddTimerTwice(t, p, ag, iv) ==            \* mutant: never looks at the list
  /\ age' = [age EXCEPT ![t] = ag]
  /\ interval' = [interval EXCEPT ![t] = iv]
  /\ owner' = [owner EXCEPT ![t] = p]
  /\ timerlist' = <<t>> \o timerlist
  /\ ahead' = NextExpiration(timerlist', age', interval')
  /\ needspoll' = TRUE
AddTimer(t, p, ag, iv) ==
  LET running == owner[t] # None /\ Listed(t)
  IN /\ age' = [age EXCEPT ![t] = ag]
     /\ interval' = [interval EXCEPT ![t] = iv]
     /\ owner' = IF running THEN owner ELSE [owner EXCEPT ![t] = p]
     /\ timerlist' = IF running THEN timerlist ELSE <<t>> \o timerlist
     /\ ahead' = NextExpiration(timerlist', age', interval')
     /\ needspoll' = TRUE

EtimerStop(t) ==
  /\ owner' = [owner EXCEPT ![t] = None]
  /\ timerlist' = RemoveFirst(timerlist, t)
  /\ ahead' = IF Listed(t) THEN NextExpiration(timerlist', age, interval) ELSE ahead
  /\ UNCHANGED <<age, interval>>

\* The callback timer process takes the timer off its list and calls it back.
\* A periodic timer is reset by its callback: it goes on from its expiry.
CallBack(c) ==
  IF c \notin ctimer_list THEN UNCHANGED <<timers, needspoll, ctimer_list>>
  ELSE IF c \in Periodic
    THEN /\ AddTimer(c, Ctimer, Minus(age[c], interval[c]), interval[c])
         /\ UNCHANGED ctimer_list
    ELSE /\ ctimer_list' = ctimer_list \ {c}
         /\ UNCHANGED <<timers, needspoll>>

\* do_event.
Deliver ==
  /\ scan = 0 /\ events # <<>> /\ (needspoll => polled)
  /\ events' = Tail(events) /\ polled' = FALSE
  /\ IF Head(events).to = Ctimer THEN CallBack(Head(events).timer)
     ELSE UNCHANGED <<timers, needspoll, ctimer_list>>
  /\ UNCHANGED <<scan, alive, calls>>

-----------------------------------------------------------------------------
(* Calls of applications, from any handler or callback.                    *)

Called == scan = 0 /\ calls < MaxCalls /\ calls' = calls + 1

CtimerSet(c, iv) ==
  /\ Called
  /\ c \in Periodic => c \notin ctimer_list
  /\ AddTimer(c, Ctimer, 0, iv)
  /\ ctimer_list' = ctimer_list \cup {c}
  /\ UNCHANGED <<loop, events, alive>>

CtimerStopEvent(c) ==                     \* mutant: stops the event timer only
  /\ Called
  /\ EtimerStop(c)
  /\ UNCHANGED <<needspoll, loop, events, ctimer_list, alive>>
CtimerStop(c) ==
  /\ Called
  /\ EtimerStop(c)
  /\ ctimer_list' = ctimer_list \ {c}
  /\ UNCHANGED <<needspoll, loop, events, alive>>

EtimerSet(t, iv) ==
  /\ Called /\ alive
  /\ AddTimer(t, App, 0, iv)
  /\ UNCHANGED <<loop, events, ctimer_list, alive>>

StopPlain(t) ==
  /\ Called /\ alive
  /\ EtimerStop(t)
  /\ UNCHANGED <<needspoll, loop, events, ctimer_list, alive>>

\* The event timer process is told at once that a process exits.  It does
\* not bring next_expiration up to date.
WithoutHead(p) ==                         \* mutant: looks at the first only
  IF timerlist # <<>> /\ owner[Head(timerlist)] = p THEN Tail(timerlist)
  ELSE timerlist
WithoutOwner(p) ==
  LET kept[i \in 0 .. Len(timerlist)] ==
        IF i = 0 THEN <<>>
        ELSE IF owner[timerlist[i]] = p THEN kept[i - 1]
        ELSE Append(kept[i - 1], timerlist[i])
  IN kept[Len(timerlist)]

AppExit ==
  /\ Called /\ alive /\ alive' = FALSE
  /\ timerlist' = WithoutOwner(App)
  /\ UNCHANGED <<age, interval, owner, ahead, needspoll, loop, events, ctimer_list>>

AppStart ==
  /\ Called /\ ~alive /\ alive' = TRUE
  /\ UNCHANGED <<timers, needspoll, loop, events, ctimer_list>>

PostOther ==
  /\ Called /\ Len(events) < NumEvents
  /\ events' = Append(events, [to |-> App, timer |-> None])
  /\ UNCHANGED <<timers, needspoll, loop, ctimer_list, alive>>

Next ==
  \/ Tick \/ BeginPoll \/ ScanTimer \/ EndPoll \/ Deliver
  \/ \E c \in Callback \ Periodic : CtimerStop(c)
  \/ \E c \in Callback, iv \in Intervals : CtimerSet(c, iv)
  \/ \E t \in Plain : StopPlain(t) \/ \E iv \in Intervals : EtimerSet(t, iv)
  \/ AppExit \/ AppStart \/ PostOther

Spec == Init /\ [][Next]_vars

\* The clock runs and so does the main loop, which polls whoever asked for it
\* and then takes one event.
FairSpec ==
  /\ Spec
  /\ WF_vars(Tick) /\ WF_vars(BeginPoll) /\ WF_vars(ScanTimer)
  /\ WF_vars(EndPoll) /\ WF_vars(Deliver)

-----------------------------------------------------------------------------

\* No callback is lost: a callback timer that is set has its event timer
\* running or the event of its expiry in the queue, whatever order setting,
\* stopping, expiry and delivery come in and however full the queue is
\* (ctimer_set, etimer_process, do_event).
NoCallbackLost == \A c \in ctimer_list : Listed(c) \/ Queued(c)

\* No expiry is overlooked: the event timer process has been asked to look,
\* or is about to, although next_expiration knows one timer only and a timer
\* that is late hides behind the others (update_time, timera1, etimer_process).
ExpiryNoticed ==
  \A i \in DOMAIN timerlist :
    TimerExpired(timerlist[i]) => needspoll \/ (scan # 0 /\ scan <= i)

\* The list stays a list: no timer is on it twice, and none on it passes for
\* one that is not (add_timer looks for those with an owner only).
ListedOnce ==
  /\ \A i, j \in DOMAIN timerlist : timerlist[i] = timerlist[j] => i = j
  /\ \A i \in DOMAIN timerlist : owner[timerlist[i]] # None

\* No timer of a process that has exited goes on running, also when a process
\* of that name is started again (etimer_process, exit_process).
ExitedHasNoTimer == ~alive => \A i \in DOMAIN timerlist : owner[timerlist[i]] # App

\* A callback comes before its time only if the timer was set again while
\* the event of its previous expiry was in the queue.
EarlyOnlyWhenSetAgain ==
  [][\A c \in ctimer_list \ ctimer_list' :
       events' # events /\ ~Listed(c) => age[c] >= interval[c]]_vars

\* A timer that runs expires, or is stopped, in the end, and a queued expiry
\* is delivered, although the queue may be full when the timer expires.
CallbackComes ==
  \A c \in Callback : (Listed(c) ~> ~Listed(c)) /\ (Queued(c) ~> ~Queued(c))
=============================================================================
