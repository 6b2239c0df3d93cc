------------------------ MODULE WirelessDeviceProofs ------------------------
(***************************************************************************)
(* Proofs about WirelessDevice, for any set of devices, any number of      *)
(* retries and any number of outside events.  What the runs check of all   *)
(* devices is proved one device at a time: Sound relates a device's object *)
(* to its place in the queue, to its script and to the staleness of its    *)
(* configuration, and every handler is shown to keep it.                   *)
(***************************************************************************)
EXTENDS WirelessDevice, TLAPS

Waits == Ops \union {"none"}
Currents == {NoOp} \union (Devs \X Ops)

(* Which of d's scripts runs when c is the current one *)
Running(c, d) ==
    IF c = <<d, "setup">> THEN "setup"
    ELSE IF c = <<d, "teardown">> THEN "teardown" ELSE "none"

(* A device w with q waiting for it, r running and stale telling whether   *)
(* its last setup saw an older configuration.  Beyond what the invariants  *)
(* say: only a device in teardown has a teardown due, and while that       *)
(* script runs nothing else waits.                                         *)
Busy(w, q, r) == w.state \in Ops => w.state \in {q, r}
Idle(w, q, r) == w.state = "down" => q = "none" /\ r = "none"
Remembers(w, q, s) == s /\ w.state \in {"setup", "up"} => w.change \/ q = "setup"
GivesUp(w) == w.failed => w.state \in {"teardown", "down"}
TearsDown(w, q, r) ==
    /\ "teardown" \in {q, r} => w.state = "teardown"
    /\ r = "teardown" => q = "none"
Exists(w) == ~w.exists => w.state = "down"

Sound(w, q, r, s) ==
    /\ Busy(w, q, r) /\ Idle(w, q, r) /\ Remembers(w, q, s)
    /\ GivesUp(w) /\ TearsDown(w, q, r) /\ Exists(w)

AllSound == \A d \in Devs : Sound(dev[d], queue[d], Running(cur, d), stale[d])

Served == cur = NoOp /\ (\E d \in Devs : queue[d] # "none") => timer

IInv == TypeOK /\ AllSound /\ Served

-----------------------------------------------------------------------------
(* Whose script runs *)
LEMMA RunningType ==
    ASSUME NEW c \in Currents, NEW d \in Devs
    PROVE  /\ Running(c, d) \in Waits
           /\ \A op \in Ops : Running(c, d) = op <=> c = <<d, op>>
           /\ Running(NoOp, d) = "none"
           /\ Running(c, d) # "none" => \A e \in Devs : e # d => Running(c, e) = "none"
BY DEF Running, Currents, Waits, Ops, NoOp

LEMMA RunningOf ==
    ASSUME NEW d \in Devs, NEW e \in Devs, NEW op \in Ops
    PROVE  Running(<<e, op>>, d) = IF d = e THEN op ELSE "none"
BY DEF Running, Ops

(* A waiting operation that becomes the running one keeps its device sound *)
LEMMA StartedSound ==
    ASSUME NEW w \in Wdev, NEW q \in Ops, NEW s \in BOOLEAN, Sound(w, q, "none", s)
    PROVE  Sound(w, "none", q, s /\ q # "setup")
<1>1. w.state \in States
    BY DEF Wdev
<1>2. Busy(w, "none", q) /\ Idle(w, "none", q) /\ GivesUp(w) /\ Exists(w)
    BY <1>1 DEF Sound, Busy, Idle, Ops
<1>3. TearsDown(w, "none", q)
    BY DEF Sound, TearsDown
<1>4. Remembers(w, "none", s /\ q # "setup")
    <2>1. CASE q = "setup"
        BY <2>1 DEF Remembers
    <2>2. CASE q = "teardown"
        BY <2>2, <1>1 DEF Remembers, Sound, TearsDown
    <2>3. QED
        BY <2>1, <2>2 DEF Ops
<1>5. QED
    BY <1>2, <1>3, <1>4 DEF Sound

(* run_next_handler: whatever it picks, every device stays sound, and the  *)
(* queue is left unserved only when nothing waits.                         *)
LEMMA RunNextSound ==
    ASSUME NEW q \in [Devs -> Waits], NEW running \in Currents, NEW st \in [Devs -> BOOLEAN],
           dev' \in [Devs -> Wdev], run_next_handler(q, running, st),
           \A d \in Devs : Sound(dev'[d], q[d], Running(running, d), st[d])
    PROVE  /\ queue' \in [Devs -> Waits] /\ cur' \in Currents /\ stale' \in [Devs -> BOOLEAN]
           /\ AllSound'
           /\ cur' = NoOp => \A d \in Devs : queue'[d] = "none"
<1>1. CASE /\ running # NoOp \/ {e \in Devs : q[e] # "none"} = {}
           /\ queue' = q /\ cur' = running /\ stale' = st
    BY <1>1 DEF AllSound
<1>2. CASE running = NoOp /\ \E e \in {e \in Devs : q[e] # "none"} :
             /\ cur' = <<e, q[e]>>
             /\ queue' = [q EXCEPT ![e] = "none"]
             /\ stale' = [st EXCEPT ![e] = @ /\ q[e] # "setup"]
    <2>1. PICK e \in Devs : /\ q[e] \in Ops
                            /\ cur' = <<e, q[e]>>
                            /\ queue' = [q EXCEPT ![e] = "none"]
                            /\ stale' = [st EXCEPT ![e] = @ /\ q[e] # "setup"]
        BY <1>2 DEF Waits
    <2>2. queue' \in [Devs -> Waits] /\ cur' \in Currents /\ cur' # NoOp
        BY <2>1 DEF Waits, Currents, NoOp
    <2>3. stale' \in [Devs -> BOOLEAN]
        BY <2>1
    <2>4. ASSUME NEW d \in Devs PROVE Sound(dev'[d], queue'[d], Running(cur', d), stale'[d])
        <3>1. CASE d = e
            <4>1. Sound(dev'[d], q[d], "none", st[d])
                BY <1>2, RunningType
            <4>2. Sound(dev'[d], "none", q[d], st[d] /\ q[d] # "setup")
                BY <2>1, <3>1, <4>1, StartedSound
            <4>3. queue'[d] = "none" /\ Running(cur', d) = q[d]
                BY <2>1, <3>1, RunningOf
            <4>4. stale'[d] = (st[d] /\ q[d] # "setup")
                BY <2>1, <3>1
            <4>5. QED
                BY <4>2, <4>3, <4>4
        <3>2. CASE d # e
            <4>1. queue'[d] = q[d] /\ stale'[d] = st[d]
                BY <2>1, <3>2
            <4>2. Running(cur', d) = "none" /\ Running(running, d) = "none"
                BY <1>2, <2>1, <3>2, RunningOf, RunningType
            <4>3. QED
                BY <4>1, <4>2
        <3>3. QED
            BY <3>1, <3>2
    <2>5. QED
        BY <2>2, <2>3, <2>4 DEF AllSound
<1>3. QED
    BY <1>1, <1>2 DEF run_next_handler
(* What a method leaves behind when running was the current script: sound  *)
(* devices, and a queue nobody serves only if it was so before.            *)
Kept(running) ==
    /\ dev' \in [Devs -> Wdev] /\ queue' \in [Devs -> Waits]
    /\ cur' \in Currents /\ stale' \in [Devs -> BOOLEAN]
    /\ AllSound'
    /\ cur' = NoOp /\ (\E d \in Devs : queue'[d] # "none") => queue' = queue /\ running = NoOp

(* The other devices are as the method found them *)
OthersSound(d, running, st) ==
    \A e \in Devs : e # d => Sound(dev[e], queue[e], Running(running, e), st[e])

LEMMA BecomeKeeps ==
    ASSUME TypeOK, NEW d \in Devs, NEW w \in Wdev, NEW op \in Waits,
           NEW running \in Currents, NEW st \in [Devs -> BOOLEAN],
           Become(d, w, op, running, st), OthersSound(d, running, st),
           Sound(w, IF op = "none" THEN queue[d] ELSE op, Running(running, d), st[d])
    PROVE  Kept(running)
<1>1. /\ dev' = [dev EXCEPT ![d] = w] /\ dev \in [Devs -> Wdev] /\ queue \in [Devs -> Waits]
    BY DEF Become, TypeOK, Waits
<1>2. dev' \in [Devs -> Wdev] /\ dev'[d] = w /\ \A e \in Devs : e # d => dev'[e] = dev[e]
    BY <1>1
<1>3. CASE op = "none"
    <2>1. queue' = queue /\ cur' = running /\ stale' = st
        BY <1>3 DEF Become
    <2>2. AllSound'
        BY <1>2, <1>3, <2>1 DEF AllSound, OthersSound
    <2>3. QED
        BY <1>1, <1>2, <2>1, <2>2 DEF Kept
<1>4. CASE op # "none"
    <2> DEFINE q == [queue EXCEPT ![d] = op]
    <2>1. run_next_handler(q, running, st)
        BY <1>4 DEF Become
    <2>2. q \in [Devs -> Waits] /\ q[d] = op /\ \A e \in Devs : e # d => q[e] = queue[e]
        BY <1>1
    <2>3. \A e \in Devs : Sound(dev'[e], q[e], Running(running, e), st[e])
        BY <1>2, <1>4, <2>2 DEF OthersSound
    <2> HIDE DEF q
    <2>4. /\ queue' \in [Devs -> Waits] /\ cur' \in Currents /\ stale' \in [Devs -> BOOLEAN]
          /\ AllSound'
          /\ cur' = NoOp => \A e \in Devs : queue'[e] = "none"
        BY <1>2, <2>1, <2>2, <2>3, RunNextSound
    <2>5. QED
        BY <1>2, <2>4 DEF Kept
<1>5. QED
    BY <1>3, <1>4

(* Changes that leave state and existence alone *)
LEMMA SameState ==
    ASSUME NEW w, NEW v, NEW q, NEW r, NEW s, NEW t, v.state = w.state, v.exists = w.exists,
           Sound(w, q, r, s), GivesUp(v), Remembers(v, q, t)
    PROVE  Sound(v, q, r, t)
BY DEF Sound, Busy, Idle, TearsDown, Exists

(* setup and teardown, by what they ask of the object they are called on   *)
LEMMA SetupKeeps ==
    ASSUME TypeOK, NEW d \in Devs, NEW w \in Wdev,
           NEW running \in Currents, NEW st \in [Devs -> BOOLEAN],
           setup(d, w, running, st), OthersSound(d, running, st),
           w.exists, CanSetup(w) => Running(running, d) # "teardown",
           ~CanSetup(w) => Sound(w, queue[d], Running(running, d), st[d])
    PROVE  Kept(running)
<1>1. CASE CanSetup(w)
    <2> DEFINE v == [w EXCEPT !.watch = FALSE, !.change = FALSE, !.state = "setup"]
    <2>1. v \in Wdev /\ v.state = "setup" /\ v.failed = w.failed /\ v.exists = w.exists
        BY DEF Wdev, States
    <2>2. ~w.failed
        BY <1>1 DEF CanSetup
    <2>3. Become(d, v, "setup", running, st)
        BY <1>1 DEF setup
    <2> HIDE DEF v
    <2>4. Sound(v, "setup", Running(running, d), st[d])
        BY <1>1, <2>1, <2>2 DEF Sound, Busy, Idle, Remembers, GivesUp, TearsDown, Exists, Ops
    <2>5. QED
        BY <2>1, <2>3, <2>4, BecomeKeeps DEF Waits, Ops
<1>2. CASE ~CanSetup(w)
    <2>1. Become(d, w, "none", running, st)
        BY <1>2 DEF setup
    <2>2. QED
        BY <1>2, <2>1, BecomeKeeps DEF Waits
<1>3. QED
    BY <1>1, <1>2

LEMMA TeardownKeeps ==
    ASSUME TypeOK, NEW d \in Devs, NEW w \in Wdev,
           NEW running \in Currents, NEW st \in [Devs -> BOOLEAN],
           teardown(d, w, running, st), OthersSound(d, running, st),
           w.exists, w.state \in {"setup", "up"} => Running(running, d) # "teardown",
           w.state \in {"teardown", "down"} => Sound(w, queue[d], Running(running, d), st[d])
    PROVE  Kept(running)
<1>1. CASE w.state \in {"teardown", "down"}
    <2>1. Become(d, w, "none", running, st)
        BY <1>1 DEF teardown
    <2>2. QED
        BY <1>1, <2>1, BecomeKeeps DEF Waits
<1>2. CASE w.state \notin {"teardown", "down"}
    <2> DEFINE v == [w EXCEPT !.watch = FALSE, !.state = "teardown"]
    <2>1. v \in Wdev /\ v.state = "teardown" /\ v.exists = w.exists
        BY DEF Wdev, States
    <2>2. w.state \in {"setup", "up"}
        BY <1>2 DEF Wdev, States
    <2>3. Become(d, v, "teardown", running, st)
        BY <1>2 DEF teardown
    <2> HIDE DEF v
    <2>4. Sound(v, "teardown", Running(running, d), st[d])
        BY <2>1, <2>2 DEF Sound, Busy, Idle, Remembers, GivesUp, TearsDown, Exists, Ops
    <2>5. QED
        BY <2>1, <2>3, <2>4, BecomeKeeps DEF Waits, Ops
<1>3. QED
    BY <1>1, <1>2

(* From there to the invariant *)
LEMMA KeptInv ==
    ASSUME IInv, NEW running, Kept(running), budget' \in 0..Budget,
           \/ timer' = TRUE
           \/ running = cur /\ timer' = timer
    PROVE  IInv'
<1>1. timer' \in BOOLEAN
    BY Zenon DEF IInv, TypeOK
<1>2. Served'
    BY DEF Kept, Served, IInv
<1>3. QED
    BY <1>1, <1>2 DEF Kept, IInv, TypeOK, Waits, Currents
-----------------------------------------------------------------------------
(* What every handler may rely on *)
LEMMA Found ==
    ASSUME IInv, NEW d \in Devs
    PROVE  /\ TypeOK /\ dev[d] \in Wdev /\ cur \in Currents /\ NoOp \in Currents
           /\ stale \in [Devs -> BOOLEAN] /\ queue[d] \in Waits
           /\ Sound(dev[d], queue[d], Running(cur, d), stale[d])
           /\ OthersSound(d, cur, stale)
           /\ Running(cur, d) # "none" => OthersSound(d, NoOp, stale)
<1>1. /\ TypeOK /\ dev[d] \in Wdev /\ cur \in Currents /\ NoOp \in Currents
      /\ stale \in [Devs -> BOOLEAN] /\ queue[d] \in Waits
    BY DEF IInv, TypeOK, Currents, Waits
<1>2. /\ Sound(dev[d], queue[d], Running(cur, d), stale[d])
      /\ OthersSound(d, cur, stale)
    BY DEF IInv, AllSound, OthersSound
<1>3. Running(cur, d) # "none" => OthersSound(d, NoOp, stale)
    BY <1>1, <1>2, RunningType DEF OthersSound
<1>4. QED
    BY <1>1, <1>2, <1>3

LEMMA ChangedFound ==
    ASSUME IInv, NEW d \in Devs
    PROVE  Changed(d) \in [Devs -> BOOLEAN] /\ OthersSound(d, cur, Changed(d))
<1>1. Changed(d) \in [Devs -> BOOLEAN] /\ \A e \in Devs : e # d => Changed(d)[e] = stale[e]
    BY DEF Changed, IInv, TypeOK
<1>2. QED
    BY <1>1, Found DEF OthersSound

LEMMA EventBudget ==
    ASSUME IInv, NEW d \in Devs, Event(d)
    PROVE  budget' \in 0..Budget /\ dev[d].exists
BY BudgetAssumption DEF Event, IInv, TypeOK

(* A device that can be set up has no teardown running *)
LEMMA NoTeardown ==
    ASSUME NEW w, NEW q, NEW r, NEW s, Sound(w, q, r, s)
    PROVE  w.state # "teardown" => r # "teardown"
BY DEF Sound, TearsDown

LEMMA ResetFields ==
    ASSUME NEW w \in Wdev
    PROVE  /\ wdev_reset(w) \in Wdev /\ ~wdev_reset(w).failed
           /\ wdev_reset(w).state = w.state /\ wdev_reset(w).exists = w.exists
           /\ wdev_reset(w).change = w.change
<1>1. DEFAULT_RETRY \in 0..DEFAULT_RETRY
    BY RetryAssumption
<1>2. wdev_reset(w) \in Wdev
    BY <1>1 DEF wdev_reset, Wdev
<1>3. ~wdev_reset(w).failed
    BY DEF wdev_reset, Wdev
<1>4. wdev_reset(w).state = w.state /\ wdev_reset(w).exists = w.exists
    BY DEF wdev_reset, Wdev
<1>5. wdev_reset(w).change = w.change
    BY DEF wdev_reset, Wdev
<1>6. QED
    BY <1>2, <1>3, <1>4, <1>5

(* update, reconf and check: the change is noted, then setup is tried      *)
LEMMA NotedKeeps ==
    ASSUME IInv, NEW d \in Devs, NEW w \in Wdev, setup(d, w, cur, Changed(d)),
           w.state = dev[d].state, w.exists, dev[d].exists, w.change,
           w.failed => dev[d].failed
    PROVE  Kept(cur)
<1>1. Sound(w, queue[d], Running(cur, d), Changed(d)[d])
    <2>1. w.exists = dev[d].exists
        BY Found DEF Wdev
    <2>2. GivesUp(w) /\ Remembers(w, queue[d], Changed(d)[d])
        BY Found DEF Sound, GivesUp, Remembers
    <2>3. QED
        BY <2>1, <2>2, Found, SameState
<1>2. CanSetup(w) => Running(cur, d) # "teardown"
    BY Found, NoTeardown DEF CanSetup
<1>3. QED
    BY <1>1, <1>2, Found, ChangedFound, SetupKeeps

LEMMA UpdateInv ==
    ASSUME IInv, NEW d \in Devs, update(d) \/ reconf(d) \/ check(d)
    PROVE  IInv'
<1>1. PICK w \in Wdev : /\ setup(d, w, cur, Changed(d)) /\ w.state = dev[d].state
                        /\ w.exists = dev[d].exists /\ w.change
                        /\ w.failed => dev[d].failed
    <2>0. dev[d] \in Wdev
        BY Found
    <2>1. CASE update(d)
        <3> DEFINE w == [wdev_reset(dev[d]) EXCEPT !.change = TRUE, !.del = FALSE]
        <3>1. w \in Wdev /\ w.state = dev[d].state /\ w.exists = dev[d].exists
              /\ w.change /\ (w.failed => dev[d].failed)
            BY <2>0, ResetFields DEF Wdev
        <3>2. QED
            BY <2>1, <3>1 DEF update
    <2>2. CASE reconf(d)
        <3> DEFINE w == [wdev_reset(dev[d]) EXCEPT !.change = TRUE]
        <3>1. w \in Wdev /\ w.state = dev[d].state /\ w.exists = dev[d].exists
              /\ w.change /\ (w.failed => dev[d].failed)
            BY <2>0, ResetFields DEF Wdev
        <3>2. QED
            BY <2>2, <3>1 DEF reconf
    <2>3. CASE check(d)
        <3> DEFINE w == [dev[d] EXCEPT !.change = TRUE]
        <3>1. w \in Wdev /\ w.state = dev[d].state /\ w.exists = dev[d].exists
              /\ w.change /\ (w.failed => dev[d].failed)
            BY <2>0 DEF Wdev
        <3>2. QED
            BY <2>3, <3>1 DEF check
    <2>4. QED
        BY <2>1, <2>2, <2>3
<1>2. Event(d) /\ timer' = timer
    BY DEF update, reconf, check
<1>3. Kept(cur)
    BY <1>1, <1>2, EventBudget, NotedKeeps
<1>4. QED
    BY <1>2, <1>3, EventBudget, KeptInv
(* A device whose state, existence and pending change are as before, and   *)
(* which has not given up since, is as sound as before                     *)
LEMMA Resembles ==
    ASSUME IInv, NEW d \in Devs, NEW w \in Wdev,
           w.state = dev[d].state, w.exists = dev[d].exists, w.change = dev[d].change,
           w.failed => dev[d].failed
    PROVE  /\ Sound(w, queue[d], Running(cur, d), stale[d])
           /\ w.state # "teardown" => Running(cur, d) # "teardown"
<1>1. GivesUp(w) /\ Remembers(w, queue[d], stale[d])
    BY Found DEF Sound, GivesUp, Remembers
<1>2. QED
    BY <1>1, Found, SameState, NoTeardown

LEMMA StartInv ==
    ASSUME IInv, NEW d \in Devs, start(d) \/ retry_setup(d)
    PROVE  IInv'
<1>1. PICK w \in Wdev : /\ w.state = dev[d].state /\ w.exists = dev[d].exists
                        /\ w.change = dev[d].change /\ ~w.failed
                        /\ setup(d, w, cur, stale) \/ Become(d, w, "none", cur, stale)
    <2>0. dev[d] \in Wdev
        BY Found
    <2>1. CASE start(d)
        <3> DEFINE w == [wdev_reset(dev[d]) EXCEPT !.autostart = TRUE]
        <3>1. /\ w \in Wdev /\ w.state = dev[d].state /\ w.exists = dev[d].exists
              /\ w.change = dev[d].change /\ ~w.failed
            BY <2>0, ResetFields DEF Wdev
        <3>2. setup(d, w, cur, stale) \/ Become(d, w, "none", cur, stale)
            BY <2>1 DEF start
        <3>3. QED
            BY <3>1, <3>2
    <2>2. CASE retry_setup(d)
        BY <2>0, <2>2, ResetFields DEF retry_setup
    <2>3. QED
        BY <2>1, <2>2
<1>2. Event(d) /\ timer' = timer
    BY DEF start, retry_setup
<1>3. Sound(w, queue[d], Running(cur, d), stale[d]) /\ w.exists
    BY <1>1, <1>2, EventBudget, Resembles
<1>4. CanSetup(w) => Running(cur, d) # "teardown"
    BY <1>1, Resembles DEF CanSetup
<1>5. CASE setup(d, w, cur, stale)
    <2>1. Kept(cur)
        BY <1>3, <1>4, <1>5, Found, SetupKeeps
    <2>2. QED
        BY <1>2, <2>1, EventBudget, KeptInv
<1>6. CASE Become(d, w, "none", cur, stale)
    <2>1. Kept(cur)
        BY <1>3, <1>6, Found, BecomeKeeps DEF Waits
    <2>2. QED
        BY <1>2, <2>1, EventBudget, KeptInv
<1>7. QED
    BY <1>1, <1>5, <1>6

(* The object of a deleted device: nothing waits, nothing runs             *)
LEMMA AbsentSound ==
    ASSUME NEW s
    PROVE  Absent \in Wdev /\ Sound(Absent, "none", "none", s)
<1>1. New \in Wdev /\ New.state = "down" /\ ~New.failed
    BY RetryAssumption DEF New, Wdev, States
<1>2. Absent \in Wdev /\ Absent.state = "down" /\ ~Absent.failed
    BY <1>1 DEF Absent, Wdev
<1>3. QED
    BY <1>2 DEF Sound, Busy, Idle, Remembers, GivesUp, TearsDown, Exists, Ops

LEMMA StopInv ==
    ASSUME IInv, NEW d \in Devs, stop(d) \/ destroy(d)
    PROVE  IInv'
<1>1. dev[d] \in Wdev
    BY Found
<1>2. Event(d) /\ timer' = timer
    BY DEF stop, destroy
<1>3. ASSUME NEW w \in Wdev, Stopped(d, w), w.state = dev[d].state, w.exists = dev[d].exists,
             w.change = dev[d].change, w.failed = dev[d].failed
      PROVE  Kept(cur)
    <2>1. Sound(w, queue[d], Running(cur, d), stale[d]) /\ w.exists
        BY <1>2, <1>3, EventBudget, Resembles
    <2>2. w.state \in {"setup", "up"} => Running(cur, d) # "teardown"
        BY <1>3, Resembles
    <2>3. CASE w.state = "up"
        BY <1>3, <2>1, <2>2, <2>3, Found, TeardownKeeps DEF Stopped
    <2>4. CASE w.state # "up"
        BY <1>3, <2>1, <2>4, Found, BecomeKeeps DEF Stopped, Waits
    <2>5. QED
        BY <2>3, <2>4
<1>4. CASE stop(d)
    <2> DEFINE w == [dev[d] EXCEPT !.autostart = FALSE]
    <2>1. /\ w \in Wdev /\ w.state = dev[d].state /\ w.exists = dev[d].exists
          /\ w.change = dev[d].change /\ w.failed = dev[d].failed
        BY <1>1 DEF Wdev
    <2>2. Stopped(d, w)
        BY <1>4 DEF stop
    <2> HIDE DEF w
    <2>3. Kept(cur)
        BY <1>3, <2>1, <2>2
    <2>4. QED
        BY <1>2, <2>3, EventBudget, KeptInv
<1>5. CASE destroy(d)
    <2> DEFINE w == [dev[d] EXCEPT !.autostart = FALSE, !.del = TRUE]
    <2>1. /\ w \in Wdev /\ w.state = dev[d].state /\ w.exists = dev[d].exists
          /\ w.change = dev[d].change /\ w.failed = dev[d].failed
        BY <1>1 DEF Wdev
    <2>2. IF w.state = "down" THEN Become(d, Absent, "none", cur, stale) ELSE Stopped(d, w)
        BY <1>5 DEF destroy
    <2> HIDE DEF w
    <2>3. CASE w.state = "down"
        <3>1. queue[d] = "none" /\ Running(cur, d) = "none"
            BY <2>1, <2>3, Found DEF Sound, Idle
        <3>2. Absent \in Wdev /\ Sound(Absent, queue[d], Running(cur, d), stale[d])
            BY <3>1, AbsentSound
        <3>3. Kept(cur)
            BY <2>2, <2>3, <3>2, Found, BecomeKeeps DEF Waits
        <3>4. QED
            BY <1>2, <3>3, EventBudget, KeptInv
    <2>4. CASE w.state # "down"
        <3>1. Kept(cur)
            BY <1>3, <2>1, <2>2, <2>4
        <3>2. QED
            BY <1>2, <3>1, EventBudget, KeptInv
    <2>5. QED
        BY <2>3, <2>4
<1>6. QED
    BY <1>4, <1>5
LEMMA CreateInv ==
    ASSUME IInv, NEW d \in Devs, create(d)
    PROVE  IInv'
<1>1. /\ dev' = [dev EXCEPT ![d] = New] /\ stale' = Changed(d)
      /\ queue' = queue /\ cur' = cur /\ timer' = TRUE
      /\ ~dev[d].exists /\ budget > 0 /\ budget' = budget - 1
    BY DEF create, Changed
<1>2. budget' \in 0..Budget
    BY <1>1, BudgetAssumption DEF IInv, TypeOK
<1>3. queue[d] = "none" /\ Running(cur, d) = "none"
    BY <1>1, Found DEF Sound, Exists, Idle
<1>4. New \in Wdev /\ New.state = "down" /\ ~New.failed
    BY RetryAssumption DEF New, Wdev, States
<1>5. Sound(New, queue[d], Running(cur, d), Changed(d)[d])
    BY <1>3, <1>4 DEF Sound, Busy, Idle, Remembers, GivesUp, TearsDown, Exists, Ops
<1>6. Become(d, New, "none", cur, Changed(d))
    BY <1>1 DEF Become
<1>7. Kept(cur)
    BY <1>4, <1>5, <1>6, Found, ChangedFound, BecomeKeeps DEF Waits
<1>8. QED
    BY <1>1, <1>2, <1>7, KeptInv

LEMMA ProcCheckInv ==
    ASSUME IInv, NEW d \in Devs, wdev_proc_check(d)
    PROVE  IInv'
<1>1. Event(d) /\ teardown(d, dev[d], cur, stale) /\ timer' = timer
    BY DEF wdev_proc_check
<1>2. dev[d].state \in {"setup", "up"} => Running(cur, d) # "teardown"
    BY Found, NoTeardown
<1>3. Kept(cur)
    BY <1>1, <1>2, EventBudget, Found, TeardownKeeps
<1>4. QED
    BY <1>1, <1>3, EventBudget, KeptInv

LEMMA NotifiedInv ==
    ASSUME IInv, NEW d \in Devs, Script(d)
    PROVE  IInv'
<1>1. dev[d] \in Wdev
    BY Found
<1>2. ASSUME NEW w \in Wdev, Notified(d, w), budget' \in 0..Budget,
             Sound(w, queue[d], Running(cur, d), stale[d])
      PROVE  IInv'
    <2>1. Become(d, w, "none", cur, stale) /\ timer' = timer
        BY <1>2 DEF Notified, Become
    <2>2. Kept(cur)
        BY <1>2, <2>1, Found, BecomeKeeps DEF Waits
    <2>3. QED
        BY <1>2, <2>1, <2>2, KeptInv
<1>3. CASE wdev_mark_up(d)
    <2> DEFINE w == [dev[d] EXCEPT !.state = "up"]
    <2>1. /\ w \in Wdev /\ w.state = "up" /\ w.exists = dev[d].exists
          /\ w.change = dev[d].change /\ w.failed = dev[d].failed
        BY <1>1 DEF Wdev, States
    <2>2. Notified(d, w) /\ dev[d].state = "setup" /\ budget' \in 0..Budget
        BY <1>3 DEF wdev_mark_up, IInv, TypeOK
    <2> HIDE DEF w
    <2>3. Sound(w, queue[d], Running(cur, d), stale[d])
        BY <2>1, <2>2, Found
        DEF Sound, Busy, Idle, Remembers, GivesUp, TearsDown, Exists, Ops
    <2>4. QED
        BY <1>2, <2>1, <2>2, <2>3
<1>4. CASE wdev_proc_add(d)
    <2> DEFINE w == [dev[d] EXCEPT !.watch = TRUE]
    <2>1. /\ w \in Wdev /\ w.state = dev[d].state /\ w.exists = dev[d].exists
          /\ w.change = dev[d].change /\ w.failed = dev[d].failed
        BY <1>1 DEF Wdev
    <2>2. Notified(d, w) /\ budget' \in 0..Budget
        BY <1>4 DEF wdev_proc_add, IInv, TypeOK
    <2> HIDE DEF w
    <2>3. QED
        BY <1>2, <2>1, <2>2, Resembles
<1>5. CASE \E n \in 0..DEFAULT_RETRY : set_retry(d, n)
    <2>1. PICK n \in 0..DEFAULT_RETRY : set_retry(d, n)
        BY <1>5
    <2> DEFINE w == [dev[d] EXCEPT !.retry = n]
    <2>2. /\ w \in Wdev /\ w.state = dev[d].state /\ w.exists = dev[d].exists
          /\ w.change = dev[d].change /\ w.failed = dev[d].failed
        BY <1>1 DEF Wdev
    <2>3. Notified(d, w) /\ Event(d)
        BY <2>1 DEF set_retry
    <2> HIDE DEF w
    <2>4. QED
        BY <1>2, <2>2, <2>3, EventBudget, Resembles
<1>6. QED
    BY <1>3, <1>4, <1>5 DEF Script

(* A setup script has ended: unless the device was still setting up, it is *)
(* sound without it.                                                       *)
LEMMA SetupCbInv ==
    ASSUME IInv, NEW d \in Devs, cur = <<d, "setup">>, wdev_setup_cb(d),
           timer' = TRUE, budget' = budget
    PROVE  IInv'
<1>1. /\ dev[d] \in Wdev /\ dev[d].state \in States
      /\ Sound(dev[d], queue[d], "setup", stale[d])
      /\ OthersSound(d, NoOp, stale) /\ Running(NoOp, d) = "none"
    BY Found, RunningType DEF Ops, Wdev
<1>2. dev[d].exists
    BY <1>1 DEF Sound, Exists, Idle
<1>3. Kept(NoOp)
    <2>1. CASE dev[d].state = "setup"
        <3> DEFINE w == IF dev[d].retry > 0 THEN [dev[d] EXCEPT !.retry = @ - 1]
                        ELSE [dev[d] EXCEPT !.failed = TRUE]
        <3>1. teardown(d, w, NoOp, stale)
            BY <2>1 DEF wdev_setup_cb
        <3>2. w \in Wdev /\ w.state = dev[d].state /\ w.exists = dev[d].exists
            <4>1. dev[d].retry > 0 => dev[d].retry - 1 \in 0..DEFAULT_RETRY
                BY <1>1, RetryAssumption DEF Wdev
            <4>2. CASE dev[d].retry > 0
                BY <1>1, <4>1, <4>2 DEF Wdev
            <4>3. CASE ~(dev[d].retry > 0)
                BY <1>1, <4>3 DEF Wdev
            <4>4. QED
                BY <4>2, <4>3
        <3> HIDE DEF w
        <3>3. QED
            BY <1>1, <1>2, <2>1, <3>1, <3>2, Found, TeardownKeeps
    <2>2. CASE dev[d].state # "setup"
        <3>1. Sound(dev[d], queue[d], "none", stale[d])
            BY <1>1, <2>2 DEF Sound, Busy, Idle, TearsDown, Ops
        <3>2. CASE dev[d].state = "up" /\ dev[d].change
            <4>1. setup(d, dev[d], NoOp, stale)
                BY <2>2, <3>2 DEF wdev_setup_cb
            <4>2. QED
                BY <1>1, <1>2, <3>1, <4>1, Found, SetupKeeps
        <3>3. CASE ~(dev[d].state = "up" /\ dev[d].change)
            <4>1. Become(d, dev[d], "none", NoOp, stale)
                BY <2>2, <3>3 DEF wdev_setup_cb
            <4>2. QED
                BY <1>1, <3>1, <4>1, Found, BecomeKeeps DEF Waits
        <3>4. QED
            BY <3>2, <3>3
    <2>3. QED
        BY <2>1, <2>2
<1>4. budget' \in 0..Budget
    BY DEF IInv, TypeOK
<1>5. QED
    BY <1>3, <1>4, KeptInv

(* A teardown script has ended: its device is down, or deleted, or sets up *)
(* again.                                                                  *)
LEMMA TeardownCbInv ==
    ASSUME IInv, NEW d \in Devs, cur = <<d, "teardown">>, wdev_teardown_cb(d),
           timer' = TRUE, budget' = budget
    PROVE  IInv'
<1> DEFINE w == [dev[d] EXCEPT !.state = "down"]
<1>1. /\ dev[d] \in Wdev
      /\ Sound(dev[d], queue[d], "teardown", stale[d])
      /\ OthersSound(d, NoOp, stale) /\ Running(NoOp, d) = "none"
    BY Found, RunningType DEF Ops
<1>2. w \in Wdev /\ w.state = "down" /\ w.exists = dev[d].exists
    BY <1>1 DEF Wdev, States
<1>3. queue[d] = "none" /\ dev[d].exists
    BY <1>1 DEF Sound, TearsDown, Exists, Idle
<1>4. IF w.del THEN Become(d, Absent, "none", NoOp, stale) ELSE setup(d, w, NoOp, stale)
    BY DEF wdev_teardown_cb
<1> HIDE DEF w
<1>5. Kept(NoOp)
    <2>1. CASE w.del
        BY <1>1, <1>3, <1>4, <2>1, Found, AbsentSound, BecomeKeeps DEF Waits
    <2>2. CASE ~w.del
        <3>1. Sound(w, queue[d], "none", stale[d])
            BY <1>2, <1>3 DEF Sound, Busy, Idle, Remembers, GivesUp, TearsDown, Exists, Ops
        <3>2. QED
            BY <1>1, <1>2, <1>3, <1>4, <2>2, <3>1, Found, SetupKeeps
    <2>3. QED
        BY <2>1, <2>2
<1>6. budget' \in 0..Budget
    BY DEF IInv, TypeOK
<1>7. QED
    BY <1>5, <1>6, KeptInv
LEMMA TimerInv ==
    ASSUME IInv, TimerFires
    PROVE  IInv'
<1>1. /\ run_next_handler(queue, cur, stale) /\ UNCHANGED <<dev, budget>> /\ timer' = FALSE
    BY DEF TimerFires
<1>2. /\ dev' \in [Devs -> Wdev] /\ queue \in [Devs -> Waits] /\ cur \in Currents
      /\ stale \in [Devs -> BOOLEAN] /\ budget' \in 0..Budget
    BY <1>1 DEF IInv, TypeOK, Waits, Currents
<1>3. \A d \in Devs : Sound(dev'[d], queue[d], Running(cur, d), stale[d])
    BY <1>1 DEF IInv, AllSound
<1>4. /\ queue' \in [Devs -> Waits] /\ cur' \in Currents /\ stale' \in [Devs -> BOOLEAN]
      /\ AllSound'
      /\ cur' = NoOp => \A d \in Devs : queue'[d] = "none"
    BY <1>1, <1>2, <1>3, RunNextSound
<1>5. Served' /\ timer' \in BOOLEAN
    BY <1>1, <1>4 DEF Served
<1>6. QED
    BY <1>2, <1>4, <1>5 DEF IInv, TypeOK, Waits, Currents

(* Every step keeps the invariant.                                         *)
LEMMA InvStep == IInv /\ [Next]_vars => IInv'
<1> SUFFICES ASSUME IInv, [Next]_vars PROVE IInv'
    OBVIOUS
<1>1. ASSUME NEW d \in Devs, Outside(d) PROVE IInv'
    BY <1>1, CreateInv, UpdateInv, StartInv, StopInv, ProcCheckInv DEF Outside
<1>2. ASSUME NEW d \in Devs, Script(d) PROVE IInv'
    BY <1>2, NotifiedInv
<1>3. ASSUME NEW d \in Devs, run_handler_cb(d) PROVE IInv'
    <2>1. timer' = TRUE /\ budget' = budget
        BY <1>3 DEF run_handler_cb
    <2>2. CASE cur = <<d, "setup">> /\ wdev_setup_cb(d)
        BY <2>1, <2>2, SetupCbInv
    <2>3. CASE cur = <<d, "teardown">> /\ wdev_teardown_cb(d)
        BY <2>1, <2>3, TeardownCbInv
    <2>4. QED
        BY <1>3, <2>2, <2>3 DEF run_handler_cb
<1>4. CASE TimerFires
    BY <1>4, TimerInv
<1>5. CASE UNCHANGED vars
    BY <1>5 DEF vars, IInv, TypeOK, AllSound, Served
<1>6. QED
    BY <1>1, <1>2, <1>3, <1>4, <1>5 DEF Next

LEMMA AlwaysInv == Spec => []IInv
<1>1. Init => IInv
    <2> SUFFICES ASSUME Init PROVE IInv
        OBVIOUS
    <2>1. TypeOK
        <3>1. dev \in [Devs -> Wdev]
            BY AbsentSound DEF Init
        <3>2. stale \in [Devs -> BOOLEAN] /\ timer \in BOOLEAN
            BY DEF Init
        <3>3. QED
            BY <3>1, <3>2, BudgetAssumption DEF Init, TypeOK
    <2>2. ASSUME NEW d \in Devs PROVE Sound(dev[d], queue[d], Running(cur, d), stale[d])
        <3>1. dev[d] = Absent /\ queue[d] = "none" /\ Running(cur, d) = "none"
            BY RunningType DEF Init, Currents
        <3>2. QED
            BY <3>1, AbsentSound
    <2>3. Served
        BY DEF Init, Served
    <2>4. QED
        BY <2>1, <2>2, <2>3 DEF IInv, AllSound
<1>2. QED
    BY <1>1, InvStep, PTL DEF Spec

-----------------------------------------------------------------------------
(* The objects of netifd's wireless devices keep their types: in           *)
(* particular wdev_setup_cb never counts retries below zero.               *)
THEOREM TypeCorrect == Spec => []TypeOK
<1>1. IInv => TypeOK
    BY DEF IInv
<1>2. QED
    BY <1>1, AlwaysInv, PTL

(* However ubus calls, reloads, timeouts and script exits interleave, a    *)
(* device that sets up or tears down has that script waiting or running,   *)
(* and a queue that run_next_handler left has handler_timer armed.         *)
THEOREM StuckImpossible == Spec => []NeverStuck
<1>1. ASSUME IInv PROVE NeverStuck
    <2>1. ASSUME NEW d \in Devs, dev[d].state \in Ops PROVE Pending(d, dev[d].state)
        <3>1. cur \in Currents /\ dev[d].state \in {queue[d], Running(cur, d)}
            BY <1>1, <2>1, Found DEF Sound, Busy
        <3>2. QED
            BY <2>1, <3>1, RunningType DEF Pending
    <2>2. QED
        BY <1>1, <2>1 DEF NeverStuck, IInv, Served
<1>2. QED
    BY <1>1, AlwaysInv, PTL

(* No script of a device that is down or deleted waits or runs.            *)
THEOREM DownIsIdle == Spec => []IdleWhenDown
<1>1. ASSUME IInv PROVE IdleWhenDown
    <2>1. ASSUME NEW d \in Devs, dev[d].state = "down" \/ ~dev[d].exists
          PROVE  queue[d] = "none" /\ \A op \in Ops : cur # <<d, op>>
        <3>1. cur \in Currents /\ queue[d] = "none" /\ Running(cur, d) = "none"
            BY <1>1, <2>1, Found DEF Sound, Idle, Exists
        <3>2. QED
            BY <3>1, RunningType DEF Ops
    <2>2. QED
        BY <2>1 DEF IdleWhenDown
<1>2. QED
    BY <1>1, AlwaysInv, PTL

(* A configuration that changes while a setup script runs is remembered    *)
(* until a setup script is given it or the device goes down.               *)
THEOREM ChangeNeverForgotten == Spec => []ChangeRemembered
<1>1. ASSUME IInv PROVE ChangeRemembered
    BY <1>1, Found DEF ChangeRemembered, Sound, Remembers
<1>2. QED
    BY <1>1, AlwaysInv, PTL

(* After the last retry the device is going down or down, whatever is      *)
(* notified, reloaded or timed out meanwhile.                              *)
THEOREM GivenUpStaysDown == Spec => []GaveUpIsDown
<1>1. ASSUME IInv PROVE GaveUpIsDown
    BY <1>1, Found DEF GaveUpIsDown, Sound, GivesUp
<1>2. QED
    BY <1>1, AlwaysInv, PTL
=============================================================================
