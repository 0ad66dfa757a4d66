------------------------------- MODULE OsLoop -------------------------------
(***************************************************************************)
(* js_std_loop and js_os_poll of one thread (quickjs-libc.c): timers, file *)
(* descriptor handlers and signal handlers, kept in lists the callbacks    *)
(* change while js_os_poll walks them.  Delays count down instead of       *)
(* being compared with a clock.                                            *)
(*                                                                         *)
(* Two things go wrong in this code, and the model follows it.  A cycle    *)
(* collection that frees the object of a timer frees the timer's function  *)
(* with it, though the list still leads to the timer: calling the function *)
(* then is undefined, and the loop is wild from there on.  Clearing a bit  *)
(* of os_pending_signals is a load and a store: a signal that arrives      *)
(* between them is lost.  Signal handlers run on the thread of the loop;   *)
(* one run by the thread of a worker at the same time is left out.         *)
(***************************************************************************)
EXTENDS Integers, Sequences, FiniteSets

CONSTANTS TimerIds, Fds, Signals,
          MaxDelay     \* the longest delay passed to setTimeout

VARIABLES
    timers,     \* os_timers, in list order
    timer,      \* JSOSTimer: the object refers to it, the time left, memory in use,
                \* its function: "none", "live" or "freed"
    swept,      \* history: timers in the list whose object a collection freed
    rw,         \* os_rw_handlers: descriptor and the directions that have a function
    sigs,       \* os_signal_handlers
    pending,    \* os_pending_signals
    loaded,     \* the signal to be called and the bits js_os_poll has loaded
    owed,       \* history: signals that arrived and whose handler was not called since
    lost,       \* history: signals that the store overwrote
    ready,      \* <<fd, direction>> that would not block
    loop        \* "js", "poll", "clear" (the bits are loaded), "enter" (checks done,
                \* select() not yet called), "select", "end", "wild"

timerVars == <<timers, timer, swept>>
signalVars == <<sigs, pending, loaded, owed, lost>>
osVars == <<timerVars, rw, signalVars, ready, loop>>

Directions == {1, 2}        \* rw_func[0] and rw_func[1]
NoTimer == [object |-> FALSE, left |-> 0, used |-> FALSE, func |-> "none"]
NewTimer(delay) == [object |-> TRUE, left |-> delay, used |-> TRUE, func |-> "live"]

OsInit ==
    /\ timers = <<>> /\ timer = [i \in TimerIds |-> NoTimer] /\ swept = {}
    /\ rw = <<>> /\ ready = {}
    /\ sigs = <<>> /\ pending = {} /\ loaded = <<>> /\ owed = {} /\ lost = {}
    /\ loop = "js"

In(x, s) == \E i \in DOMAIN s : s[i] = x
Without(s, x) == SelectSeq(s, LAMBDA y : y # x)
FirstOf(s, P(_)) == s[CHOOSE i \in DOMAIN s : P(s[i]) /\ \A j \in 1..(i - 1) : ~P(s[j])]

(***************************************************************************)
(* The operations of a script.                                             *)
(***************************************************************************)
(* Mutant: list_add for list_add_tail.                                     *)
MutSetTimeout(i, delay) ==
    /\ loop = "js" /\ ~timer[i].used
    /\ timer' = [timer EXCEPT ![i] = NewTimer(delay)]
    /\ timers' = <<i>> \o timers
    /\ UNCHANGED <<swept, rw, signalVars, ready, loop>>

js_os_setTimeout(i, delay) ==
    /\ loop = "js" /\ ~timer[i].used
    /\ timer' = [timer EXCEPT ![i] = NewTimer(delay)]
    /\ timers' = Append(timers, i)
    /\ UNCHANGED <<swept, rw, signalVars, ready, loop>>

(* unlink_timer; the timer stays until its object goes.                    *)
js_os_clearTimeout(i) ==
    /\ loop = "js" /\ timer[i].object
    /\ timers' = Without(timers, i)
    /\ UNCHANGED <<timer, swept, rw, signalVars, ready, loop>>

(* The last reference to the object goes: a timer still linked is left to  *)
(* js_os_poll, with its function.                                          *)
js_os_timer_finalizer(i) ==
    /\ loop = "js" /\ timer[i].object
    /\ timer' = [timer EXCEPT ![i] = IF In(i, timers) THEN [@ EXCEPT !.object = FALSE] ELSE NoTimer]
    /\ UNCHANGED <<timers, swept, rw, signalVars, ready, loop>>

(* JS_RunGC frees a cycle that leads to the object.  js_os_timer_mark      *)
(* counts the timer's reference to its function as one of the object, so   *)
(* the function, referred to by nothing else, goes with it.                *)
js_os_timer_mark(i) ==
    /\ loop = "js" /\ timer[i].object /\ timer[i].func = "live"
    /\ IF In(i, timers)
       THEN /\ timer' = [timer EXCEPT ![i].object = FALSE, ![i].func = "freed"]
            /\ swept' = swept \cup {i}
       ELSE timer' = [timer EXCEPT ![i] = NoTimer] /\ UNCHANGED swept
    /\ UNCHANGED <<timers, rw, signalVars, ready, loop>>

Handlers(fd) == {d \in Directions : \E k \in DOMAIN rw : rw[k].fd = fd /\ d \in rw[k].dirs}
Registered(fd) == \E k \in DOMAIN rw : rw[k].fd = fd

(* js_os_setReadHandler with a function, for direction d: find_rh, or a    *)
(* new entry at the end of the list.                                       *)
SetHandler(fd, d) ==
    /\ loop = "js" /\ d \notin Handlers(fd)
    /\ rw' = IF Registered(fd)
             THEN [k \in DOMAIN rw |-> IF rw[k].fd = fd THEN [rw[k] EXCEPT !.dirs = @ \cup {d}] ELSE rw[k]]
             ELSE Append(rw, [fd |-> fd, dirs |-> {d}])
    /\ UNCHANGED <<timerVars, signalVars, ready, loop>>

(* js_os_setReadHandler(null): free_rw_handler when no function is left.   *)
ClearHandler(fd, d) ==
    /\ loop = "js" /\ d \in Handlers(fd)
    /\ rw' = IF Handlers(fd) = {d} THEN SelectSeq(rw, LAMBDA h : h.fd # fd)
             ELSE [k \in DOMAIN rw |-> IF rw[k].fd = fd THEN [rw[k] EXCEPT !.dirs = @ \ {d}] ELSE rw[k]]
    /\ UNCHANGED <<timerVars, signalVars, ready, loop>>

(* js_os_signal with a function, and with null or undefined.               *)
SetSignal(s) ==
    /\ loop = "js" /\ ~In(s, sigs)
    /\ sigs' = Append(sigs, s)
    /\ UNCHANGED <<timerVars, rw, pending, loaded, owed, lost, ready, loop>>

ClearSignal(s) ==
    /\ loop = "js" /\ In(s, sigs)
    /\ sigs' = Without(sigs, s)
    /\ UNCHANGED <<timerVars, rw, pending, loaded, owed, lost, ready, loop>>

EndCallback ==
    /\ loop = "js"
    /\ loop' = "poll"
    /\ UNCHANGED <<timerVars, rw, signalVars, ready>>

(***************************************************************************)
(* js_os_poll: at most one callback a call.                                *)
(***************************************************************************)
Expired == {i \in TimerIds : In(i, timers) /\ timer[i].left = 0}
Ready == {i \in DOMAIN rw : \E d \in rw[i].dirs : <<rw[i].fd, d>> \in ready}

(* The first handler of the list whose signal is pending: &= loads the     *)
(* bits, stores them without the one, and the handler is called.           *)
PollSignal ==
    /\ loop = "poll" /\ \E s \in pending : In(s, sigs)
    /\ loaded' = <<FirstOf(sigs, LAMBDA s : s \in pending), pending>>
    /\ loop' = "clear"
    /\ UNCHANGED <<timerVars, rw, sigs, pending, owed, lost, ready>>

ClearPending ==
    /\ loop = "clear"
    /\ LET called == {loaded[1]}
       IN  /\ pending' = loaded[2] \ called
           /\ owed' = owed \ called
           /\ lost' = (lost \cup (pending \ loaded[2])) \ called
    /\ loaded' = <<>> /\ loop' = "js"
    /\ UNCHANGED <<timerVars, rw, sigs, ready>>

PollEnd ==
    /\ loop = "poll" /\ ~\E s \in pending : In(s, sigs)
    /\ rw = <<>> /\ timers = <<>>
    /\ loop' = "end"
    /\ UNCHANGED <<timerVars, rw, signalVars, ready>>

(* The first expired timer of the list: its function is taken out of it,   *)
(* it is unlinked, freed unless its object lives, and the function called. *)
PollTimer ==
    /\ loop = "poll" /\ ~\E s \in pending : In(s, sigs)
    /\ Expired # {}
    /\ LET i == FirstOf(timers, LAMBDA k : k \in Expired)
       IN  /\ timers' = Without(timers, i) /\ swept' = swept \ {i}
           /\ timer' = [timer EXCEPT ![i] = IF timer[i].object THEN [@ EXCEPT !.func = "none"] ELSE NoTimer]
           /\ loop' = IF timer[i].func = "live" THEN "js" ELSE "wild"
    /\ UNCHANGED <<rw, signalVars, ready>>

PollEnter ==
    /\ loop = "poll" /\ ~\E s \in pending : In(s, sigs)
    /\ Expired = {} /\ (rw # <<>> \/ timers # <<>>)
    /\ loop' = "enter"
    /\ UNCHANGED <<timerVars, rw, signalVars, ready>>

EnterSelect ==
    /\ loop = "enter"
    /\ loop' = "select"
    /\ UNCHANGED <<timerVars, rw, signalVars, ready>>

(* select() reports descriptors, the first of the list is called; or the   *)
(* shortest delay has passed.                                              *)
SelectReturns ==
    /\ loop = "select"
    /\ Ready # {} \/ Expired # {}
    /\ loop' = IF Ready # {} THEN "js" ELSE "poll"
    /\ UNCHANGED <<timerVars, rw, signalVars, ready>>

(***************************************************************************)
(* The outside.                                                            *)
(***************************************************************************)
Tick ==
    /\ loop # "wild" /\ \E i \in TimerIds : In(i, timers) /\ timer[i].left > 0
    /\ timer' = [i \in TimerIds |-> IF In(i, timers) /\ timer[i].left > 0
                                    THEN [timer[i] EXCEPT !.left = @ - 1] ELSE timer[i]]
    /\ UNCHANGED <<timers, swept, rw, signalVars, ready, loop>>

(* os_signal_handler; select() in progress returns with EINTR.             *)
Raise(s) ==
    /\ In(s, sigs) /\ loop \notin {"end", "wild"}
    /\ pending' = pending \cup {s} /\ owed' = owed \cup {s}
    /\ lost' = IF loop = "clear" THEN lost ELSE lost \ {s}
    /\ loop' = IF loop = "select" THEN "poll" ELSE loop
    /\ UNCHANGED <<timerVars, rw, sigs, loaded, ready>>

Flip(fd, d) ==
    /\ loop \notin {"end", "wild"}
    /\ ready' = IF <<fd, d>> \in ready THEN ready \ {<<fd, d>>} ELSE ready \cup {<<fd, d>>}
    /\ UNCHANGED <<timerVars, rw, signalVars, loop>>

Poll == PollSignal \/ ClearPending \/ PollEnd \/ PollTimer \/ PollEnter \/ EnterSelect \/ SelectReturns

OsNext ==
    \/ Poll \/ EndCallback \/ Tick
    \/ \E i \in TimerIds : \/ js_os_clearTimeout(i) \/ js_os_timer_finalizer(i) \/ js_os_timer_mark(i)
                           \/ \E delay \in 0..MaxDelay : js_os_setTimeout(i, delay)
    \/ \E fd \in Fds, d \in Directions : SetHandler(fd, d) \/ ClearHandler(fd, d) \/ Flip(fd, d)
    \/ \E s \in Signals : SetSignal(s) \/ ClearSignal(s) \/ Raise(s)

(* Callbacks return, the loop runs, time passes.                           *)
OsSpec == OsInit /\ [][OsNext]_osVars
          /\ WF_osVars(EndCallback) /\ WF_osVars(Poll) /\ WF_osVars(Tick)

(***************************************************************************)
(* Properties.                                                             *)
(***************************************************************************)
(* A timer's memory is in use exactly as long as its object or the list    *)
(* refers to it, whichever of poll, clearTimeout and finalizer comes last; *)
(* the function js_os_poll will call lives, unless a cycle collection took *)
(* it with the object; an entry of the descriptor list always has a        *)
(* function, one entry a descriptor.  A signal that arrived is pending     *)
(* until its handler is called, however signals, os.signal and js_os_poll  *)
(* interleave, unless it arrived between the load and the store of another.*)
HandlersExact ==
    /\ \A i \in TimerIds : timer[i].used <=> timer[i].object \/ In(i, timers)
    /\ \A i \in TimerIds : In(i, timers) =>
          timer[i].func = IF i \in swept /\ ~timer[i].object THEN "freed" ELSE "live"
    /\ \A j, k \in DOMAIN timers : timers[j] = timers[k] => j = k
    /\ \A k \in DOMAIN rw : rw[k].dirs # {}
    /\ \A j, k \in DOMAIN rw : rw[j].fd = rw[k].fd => j = k
    /\ owed = pending \cup lost

(* A timer fires unless it is cleared, whatever other timers the callbacks *)
(* set in the meantime; only signals that keep coming, each with a handler *)
(* to be called first, can keep it waiting.  Nothing is promised once the  *)
(* loop is wild.                                                           *)
TimersFire ==
    \A i \in TimerIds : In(i, timers)
                            ~> (~In(i, timers) \/ (\E s \in pending : In(s, sigs)) \/ loop = "wild")

(* The handler of a signal that arrived is called while a timer keeps      *)
(* select() from sleeping for good: the signal may arrive after the check  *)
(* and before select().  A lost signal's is not, and signals whose         *)
(* handlers come first in the list can keep one waiting.                   *)
Before(s) == {r \in Signals : \E i, j \in DOMAIN sigs : i < j /\ sigs[i] = r /\ sigs[j] = s}
SignalsHandled ==
    \A s \in Signals : (s \in owed /\ In(s, sigs))
        ~> (\/ s \notin owed \/ s \in lost \/ ~In(s, sigs)
            \/ timers = <<>> \/ pending \cap Before(s) # {} \/ loop = "wild")
====
