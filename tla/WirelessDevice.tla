--------------------------- MODULE WirelessDevice ---------------------------
(***************************************************************************)
(* The wireless devices of netifd: the state machine of wireless-device.uc *)
(* and the ubus methods and configuration reload of wireless.uc that drive *)
(* it.  netifd is one event loop, so a handler is one step; what           *)
(* interleaves are ubus calls, configuration reloads, the notifications of *)
(* the running setup script, its exit or its timeout, timers, and the      *)
(* death of a supervised daemon.                                           *)
(*                                                                         *)
(* At most one script runs at a time, for all devices together.  A device  *)
(* has at most one queued operation; a later one replaces it.              *)
(*                                                                         *)
(* Left out: the contents of a configuration (only whether the last setup  *)
(* script saw the current one), handler_data and the link notifications,   *)
(* MLO, and cancel_setup, which stop() sets and nothing reads.             *)
(***************************************************************************)
EXTENDS Integers

CONSTANTS
    Devs,           \* wifi-device sections that may exist
    DEFAULT_RETRY,  \* 3 in the code
    Budget          \* bound: how many outside events happen

ASSUME RetryAssumption == DEFAULT_RETRY \in Nat
ASSUME BudgetAssumption == Budget \in Nat

VARIABLES
    dev,     \* per device: the fields of its wdev object
    stale,   \* per device: the last setup script was given an older config
    queue,   \* wdev_handler: per device, the operation that waits
    cur,     \* wdev_cur: the operation whose script runs, or NoOp
    timer,   \* handler_timer is armed
    budget   \* outside events still to come

vars == <<dev, stale, queue, cur, timer, budget>>

States == {"down", "setup", "up", "teardown"}
Ops == {"setup", "teardown"}
NoOp == <<>>

Wdev == [exists : BOOLEAN, state : States, autostart : BOOLEAN,
         retry : 0..DEFAULT_RETRY, failed : BOOLEAN, change : BOOLEAN,
         del : BOOLEAN, watch : BOOLEAN]

(* new: retry is unset until start() sets it, which counts as no retries   *)
New == [exists |-> TRUE, state |-> "down", autostart |-> TRUE, retry |-> 0,
        failed |-> FALSE, change |-> FALSE, del |-> FALSE, watch |-> FALSE]
Absent == [New EXCEPT !.exists = FALSE]

Init ==
    /\ dev = [d \in Devs |-> Absent]
    /\ stale = [d \in Devs |-> FALSE]
    /\ queue = [d \in Devs |-> "none"]
    /\ cur = NoOp
    /\ timer = FALSE
    /\ budget = Budget

-----------------------------------------------------------------------------
(* The script queue *)

(* run_next_handler, when queue q waits and running is the current script: *)
(* sorted by time in seconds, so any of the waiting ones may be first.     *)
(* The script is given handler_config as it is now: st is the staleness.   *)
run_next_handler(q, running, st) ==
    LET waiting == {e \in Devs : q[e] # "none"} IN
    \/ /\ running # NoOp \/ waiting = {}
       /\ queue' = q /\ cur' = running /\ stale' = st
    \/ /\ running = NoOp
       /\ \E e \in waiting :
            /\ cur' = <<e, q[e]>>
            /\ queue' = [q EXCEPT ![e] = "none"]
            /\ stale' = [st EXCEPT ![e] = @ /\ q[e] # "setup"]

(* d becomes w and op, if any, is queued for it (run_handler) *)
Become(d, w, op, running, st) ==
    /\ dev' = [dev EXCEPT ![d] = w]
    /\ IF op = "none"
       THEN queue' = queue /\ cur' = running /\ stale' = st
       ELSE run_next_handler([queue EXCEPT ![d] = op], running, st)

-----------------------------------------------------------------------------
(* Methods of a device.  w is the object, running and st as above.         *)

CanSetup_failed(w) == w.state \in {"up", "down"} /\ w.autostart   \* mutant
CanSetup(w) == w.state \in {"up", "down"} /\ w.autostart /\ ~w.failed

setup(d, w, running, st) ==
    IF CanSetup(w)
    THEN Become(d, [w EXCEPT !.watch = FALSE, !.change = FALSE, !.state = "setup"],
                "setup", running, st)
    ELSE Become(d, w, "none", running, st)

teardown(d, w, running, st) ==
    IF w.state \in {"teardown", "down"}
    THEN Become(d, w, "none", running, st)
    ELSE Become(d, [w EXCEPT !.watch = FALSE, !.state = "teardown"], "teardown", running, st)

wdev_reset(w) == [w EXCEPT !.retry = DEFAULT_RETRY, !.failed = FALSE]

(* A configuration change: handler_config is rebuilt at once, and a setup  *)
(* script that has already been started did not see it                     *)
Changed(d) == [stale EXCEPT ![d] = TRUE]

Event(d) == budget > 0 /\ budget' = budget - 1 /\ dev[d].exists

(* update(data) and then check(): a reload with a changed section          *)
update(d) ==
    /\ Event(d)
    /\ setup(d, [wdev_reset(dev[d]) EXCEPT !.change = TRUE, !.del = FALSE], cur, Changed(d))
    /\ UNCHANGED timer

(* ubus reconf: update() without data *)
reconf(d) ==
    /\ Event(d)
    /\ setup(d, [wdev_reset(dev[d]) EXCEPT !.change = TRUE], cur, Changed(d))
    /\ UNCHANGED timer

(* check_interfaces: networks of the device's vifs came or went            *)
check(d) ==
    /\ Event(d)
    /\ dev[d].autostart
    /\ setup(d, [dev[d] EXCEPT !.change = TRUE], cur, Changed(d))
    /\ UNCHANGED timer

(* ubus up and config_start.  The disabled vifs are looked at again only   *)
(* when the device is down.                                                *)
start(d) ==
    /\ Event(d)
    /\ ~dev[d].del
    /\ LET w == [wdev_reset(dev[d]) EXCEPT !.autostart = TRUE] IN
       IF w.state = "down" THEN setup(d, w, cur, stale)
       ELSE Become(d, w, "none", cur, stale)
    /\ UNCHANGED timer

(* ubus retry *)
retry_setup(d) ==
    /\ Event(d)
    /\ ~dev[d].del /\ dev[d].state = "down" /\ dev[d].autostart
    /\ setup(d, wdev_reset(dev[d]), cur, stale)
    /\ UNCHANGED timer

Stopped(d, w) ==
    IF w.state = "up" THEN teardown(d, w, cur, stale) ELSE Become(d, w, "none", cur, stale)

(* ubus down *)
stop(d) ==
    /\ Event(d)
    /\ Stopped(d, [dev[d] EXCEPT !.autostart = FALSE])
    /\ UNCHANGED timer

(* The section is gone from the configuration *)
destroy_now(d) ==   \* mutant: deletes the object whatever its state
    /\ Event(d)
    /\ dev' = [dev EXCEPT ![d] = Absent]
    /\ UNCHANGED <<stale, queue, cur, timer>>

destroy(d) ==
    /\ Event(d)
    /\ LET w == [dev[d] EXCEPT !.autostart = FALSE, !.del = TRUE] IN
       IF w.state = "down" THEN Become(d, Absent, "none", cur, stale) ELSE Stopped(d, w)
    /\ UNCHANGED timer

(* A new section: wdev.new also re-arms handler_timer *)
create(d) ==
    /\ budget > 0 /\ budget' = budget - 1
    /\ ~dev[d].exists
    /\ dev' = [dev EXCEPT ![d] = New]
    /\ stale' = [stale EXCEPT ![d] = TRUE]
    /\ timer' = TRUE
    /\ UNCHANGED <<queue, cur>>

(* A supervised daemon is found dead by the interval timer *)
wdev_proc_check(d) ==
    /\ Event(d)
    /\ dev[d].watch
    /\ teardown(d, dev[d], cur, stale)
    /\ UNCHANGED timer

-----------------------------------------------------------------------------
(* Notifications from the running setup script (ubus notify).  SET_DATA    *)
(* only fills handler_data, which is left out.                             *)

Notified(d, w) ==
    /\ cur = <<d, "setup">>
    /\ dev' = [dev EXCEPT ![d] = w]
    /\ UNCHANGED <<stale, queue, cur, timer>>

wdev_mark_up(d) ==
    /\ dev[d].state = "setup"
    /\ Notified(d, [dev[d] EXCEPT !.state = "up"])
    /\ UNCHANGED budget

wdev_proc_add(d) ==
    /\ dev[d].state \in {"setup", "up"}
    /\ Notified(d, [dev[d] EXCEPT !.watch = TRUE])
    /\ UNCHANGED budget

set_retry(d, n) ==
    /\ Event(d)
    /\ Notified(d, [dev[d] EXCEPT !.retry = n])

-----------------------------------------------------------------------------
(* Completion of the running script: it exits, cannot be started, or is    *)
(* cancelled after DEFAULT_SCRIPT_TIMEOUT (a cancelled process reports no  *)
(* exit; external).                                                        *)

wdev_setup_cb_noretry(d) ==   \* mutant: never uses up a retry
    LET w == dev[d] IN
    IF w.state = "setup" THEN teardown(d, w, NoOp, stale)
    ELSE IF w.state = "up" /\ w.change THEN setup(d, w, NoOp, stale)
    ELSE Become(d, w, "none", NoOp, stale)

wdev_setup_cb_unchecked(d) ==   \* mutant: counts retries below zero
    LET w == dev[d] IN
    IF w.state = "setup" THEN teardown(d, [w EXCEPT !.retry = @ - 1], NoOp, stale)
    ELSE IF w.state = "up" /\ w.change THEN setup(d, w, NoOp, stale)
    ELSE Become(d, w, "none", NoOp, stale)

wdev_setup_cb_forget(d) ==   \* mutant: drops a change made meanwhile
    LET w == dev[d] IN
    IF w.state = "setup"
    THEN teardown(d, IF w.retry > 0 THEN [w EXCEPT !.retry = @ - 1]
                     ELSE [w EXCEPT !.failed = TRUE], NoOp, stale)
    ELSE Become(d, [w EXCEPT !.change = FALSE], "none", NoOp, stale)

wdev_setup_cb(d) ==
    LET w == dev[d] IN
    IF w.state = "setup"
    THEN teardown(d, IF w.retry > 0 THEN [w EXCEPT !.retry = @ - 1]
                     ELSE [w EXCEPT !.failed = TRUE], NoOp, stale)
    ELSE IF w.state = "up" /\ w.change THEN setup(d, w, NoOp, stale)
    ELSE Become(d, w, "none", NoOp, stale)

wdev_teardown_cb(d) ==
    LET w == [dev[d] EXCEPT !.state = "down"] IN
    IF w.del THEN Become(d, Absent, "none", NoOp, stale)
    ELSE setup(d, w, NoOp, stale)

run_handler_cb_notimer(d) ==   \* mutant: does not look at the queue again
    /\ \/ cur = <<d, "setup">> /\ wdev_setup_cb(d)
       \/ cur = <<d, "teardown">> /\ wdev_teardown_cb(d)
    /\ UNCHANGED <<timer, budget>>

run_handler_cb(d) ==
    /\ \/ cur = <<d, "setup">> /\ wdev_setup_cb(d)
       \/ cur = <<d, "teardown">> /\ wdev_teardown_cb(d)
    /\ timer' = TRUE
    /\ UNCHANGED budget

(* handler_timer fires *)
TimerFires ==
    /\ timer
    /\ timer' = FALSE
    /\ run_next_handler(queue, cur, stale)
    /\ UNCHANGED <<dev, budget>>

-----------------------------------------------------------------------------
Outside(d) ==
    \/ create(d) \/ update(d) \/ reconf(d) \/ check(d) \/ start(d) \/ retry_setup(d)
    \/ stop(d) \/ destroy(d) \/ wdev_proc_check(d)

Script(d) ==
    \/ wdev_mark_up(d) \/ wdev_proc_add(d)
    \/ \E n \in 0..DEFAULT_RETRY : set_retry(d, n)

Next ==
    \/ \E d \in Devs : Outside(d) \/ Script(d) \/ run_handler_cb(d)
    \/ TimerFires

(* The script exits or its timeout fires; uloop runs an expired timer.     *)
(* Nothing is assumed of users, of the configuration or of what a script   *)
(* reports.                                                                *)
Fairness == WF_vars(TimerFires) /\ \A d \in Devs : WF_vars(run_handler_cb(d))

Spec == Init /\ [][Next]_vars
FairSpec == Spec /\ Fairness

-----------------------------------------------------------------------------
(* Properties *)

TypeOK ==
    /\ dev \in [Devs -> Wdev]
    /\ stale \in [Devs -> BOOLEAN]
    /\ queue \in [Devs -> Ops \union {"none"}]
    /\ cur \in {NoOp} \union (Devs \X Ops)
    /\ timer \in BOOLEAN
    /\ budget \in 0..Budget

Pending(d, op) == queue[d] = op \/ cur = <<d, op>>

(* No device is stuck between two states: one that is setting up or        *)
(* tearing down has that script queued or running, whatever replaced what  *)
(* in the queue, and a queue nobody serves has the timer armed.            *)
NeverStuck ==
    /\ \A d \in Devs : dev[d].state \in Ops => Pending(d, dev[d].state)
    /\ cur = NoOp /\ (\E d \in Devs : queue[d] # "none") => timer

(* A device that is down or deleted has nothing queued and no script       *)
(* running: no late script touches hardware netifd believes to be off.     *)
IdleWhenDown ==
    \A d \in Devs : dev[d].state = "down" \/ ~dev[d].exists =>
        queue[d] = "none" /\ \A op \in Ops : cur # <<d, op>>

(* A configuration change is never forgotten: while the last setup script  *)
(* ran with an older configuration, either config_change still says so, or *)
(* another setup is due, or the device is going or staying down.           *)
ChangeRemembered ==
    \A d \in Devs : stale[d] /\ dev[d].state \in {"setup", "up"} =>
        dev[d].change \/ queue[d] = "setup"

(* A device that gave up (retry_setup_failed) is not on the air and does   *)
(* not come back until a user or a new configuration clears the flag.      *)
GaveUpIsDown == \A d \in Devs : dev[d].failed => dev[d].state \in {"teardown", "down"}

(* When the outside world leaves netifd alone, every device comes to rest: *)
(* retries run out, the queue drains, nothing loops.                       *)
Resting ==
    /\ cur = NoOp
    /\ \A d \in Devs : queue[d] = "none" /\ dev[d].state \in {"up", "down"}
Settles == <>[]Resting

(* "wifi down" disables the device: after ubus down it ends up down,       *)
(* unless it is started again or removed.                                  *)
DownTakesEffect ==
    \A d \in Devs : (dev[d].exists /\ ~dev[d].autostart)
        ~> (~dev[d].exists \/ dev[d].autostart \/ dev[d].state = "down")
=============================================================================
