-------------------------------- MODULE GameTimer --------------------------------
(***************************************************************************)
(* tdd_timer_t: a timer that is updated once in a frame and calls its      *)
(* hooks when their time has come.                                         *)
(*                                                                         *)
(* The timer does not read the time but its fraction of a second, rounded, *)
(* so that the reading goes from 0 up to a whole Second, and adds up what  *)
(* it moved since the reading before.  Time is counted in ticks, Second of *)
(* them in a second; frames may be a stall apart.                          *)
(***************************************************************************)
EXTENDS Integers, Sequences

CONSTANTS
  Second,    \* ticks in a second
  Delays,    \* delays of the hooks
  MaxHooks,  \* bound: hooks of a timer
  Stall,     \* bound: ticks between two updates
  EndOfTime  \* bound: ticks

ASSUME GameTimerAssumption ==
  /\ {Second, MaxHooks, Stall, EndOfTime} \subseteq Nat \ {0}
  /\ Delays \subseteq Nat \ {0}

VARIABLES
  clock,    \* the time
  seen,     \* history: the time of the last update, Never before the first
  stalled,  \* history: whole seconds that passed between two updates
  timer,    \* its elapsed_ms, current_ms and whether it is running
  callouts, \* its hooks
  walk      \* the hook handle_hooks is at, 0 outside, and whether it is called

timerVars == <<clock, seen, stalled, timer, callouts, walk>>

Outside == [at |-> 0, inHook |-> FALSE]
Never == -1

TimerInit ==
  /\ clock \in 0 .. Second - 1
  /\ seen = Never /\ stalled = 0
  /\ timer = [elapsed |-> 0, current |-> 0, running |-> FALSE]
  /\ callouts = <<>>
  /\ walk = Outside

\* tdd_timer_start
StartTimer ==
  /\ ~ timer.running
  /\ timer' = [timer EXCEPT !.running = TRUE]
  /\ UNCHANGED <<clock, seen, stalled, callouts, walk>>

PassTime ==
  /\ walk = Outside
  /\ \E t \in 1 .. Stall : clock + t <= EndOfTime /\ clock' = clock + t
  /\ seen = Never \/ clock' - seen <= Stall
  /\ UNCHANGED <<seen, stalled, timer, callouts, walk>>

\* A hook as it is set.  The last four fields are history: when the wait of the
\* hook began, which is the last update or, for a hook set early, the first; the
\* stalls until there; and how long the hook waited last, with a second more for
\* the wait of one that was set early.
NewHook(type, delay) ==
  [type |-> type, ms |-> timer.elapsed + delay, last |-> 0, enabled |-> TRUE,
   delay |-> delay, early |-> seen = Never,
   since |-> IF seen = Never THEN clock ELSE seen, stalls |-> stalled, waited |-> Never]

\* tdd_timer_wait and tdd_timer_repeat, also called from a hook.  A repeated
\* hook is always set before the timer is updated.
SetHook(type, delay) ==
  /\ Len(callouts) < MaxHooks
  /\ walk = Outside \/ walk.inHook
  /\ type = "repeat" => seen = Never
  /\ callouts' = Append(callouts, NewHook(type, delay))
  /\ UNCHANGED <<clock, seen, stalled, timer, walk>>

\* The end of a second is also read as its last millisecond, rounded up.
Readings == {clock % Second} \cup (IF clock % Second = 0 THEN {Second} ELSE {})

\* Fault: what was left of the second before is not added.
ElapsedWithoutRest(reading) ==
  IF reading < timer.current THEN timer.elapsed + reading
  ELSE timer.elapsed + (reading - timer.current)

Elapsed(reading) ==
  IF reading < timer.current THEN timer.elapsed + (Second - timer.current) + reading
  ELSE timer.elapsed + (reading - timer.current)

\* A hook set early begins to wait.
Begun(h) == [h EXCEPT !.since = clock]

\* tdd_timer_update, up to its hooks.  Two updates in one tick would read the same.
UpdateTimer(reading) ==
  /\ timer.running /\ walk = Outside
  /\ clock > seen
  /\ timer' = [timer EXCEPT !.elapsed = Elapsed(reading), !.current = reading]
  /\ seen' = clock
  /\ IF seen = Never
     THEN /\ callouts' = [i \in DOMAIN callouts |-> Begun(callouts[i])]
          /\ UNCHANGED stalled
     ELSE /\ stalled' = stalled + Second * ((clock - seen) \div Second)
          /\ UNCHANGED callouts
  /\ walk' = [at |-> 1, inHook |-> FALSE]
  /\ UNCHANGED clock

HookDue(h) ==
  /\ h.enabled
  /\ IF h.type = "wait" THEN timer.elapsed >= h.ms ELSE timer.elapsed - h.last >= h.ms

\* handle_hooks: the next hook of the list is called or passed.
VisitHook ==
  /\ walk.at \in DOMAIN callouts /\ ~ walk.inHook
  /\ walk' = IF HookDue(callouts[walk.at]) THEN [walk EXCEPT !.inHook = TRUE]
             ELSE [walk EXCEPT !.at = @ + 1]
  /\ UNCHANGED <<clock, seen, stalled, timer, callouts>>

\* handle_wait_hook and handle_repeat_hook once the hook returns.
Called(h) ==
  [h EXCEPT !.enabled = @ /\ h.type = "repeat",
            !.last = IF h.type = "repeat" THEN timer.elapsed ELSE @,
            !.since = clock, !.stalls = stalled, !.early = FALSE,
            !.waited = clock - h.since + (IF h.early THEN Second ELSE 0)]

HookReturns ==
  /\ walk.inHook
  /\ callouts' = [callouts EXCEPT ![walk.at] = Called(@)]
  /\ walk' = [at |-> walk.at + 1, inHook |-> FALSE]
  /\ UNCHANGED <<clock, seen, stalled, timer>>

EndOfHooks ==
  /\ walk.at = Len(callouts) + 1 /\ ~ walk.inHook
  /\ walk' = Outside
  /\ UNCHANGED <<clock, seen, stalled, timer, callouts>>

TimerNext ==
  \/ StartTimer \/ PassTime
  \/ \E type \in {"wait", "repeat"}, delay \in Delays : SetHook(type, delay)
  \/ \E reading \in Readings : UpdateTimer(reading)
  \/ VisitHook \/ HookReturns \/ EndOfHooks

TimerSpec == TimerInit /\ [][TimerNext]_timerVars

-----------------------------------------------------------------------------
\* A hook is never called before its delay, counted from the last update, is over,
\* but for up to a second when it was set before the first one, which adds the
\* whole reading; and after
\* an update no hook is waiting whose delay is over, but for the whole seconds
\* between two updates, which the readings do not show (timer.c, tdd_timer_update).
HooksFireOnTime ==
  \A i \in DOMAIN callouts :
    LET h == callouts[i]
    IN /\ h.waited # Never => h.waited >= h.delay
       /\ walk = Outside /\ seen # Never /\ h.enabled =>
            seen - h.since < h.delay + (stalled - h.stalls)
=============================================================================
