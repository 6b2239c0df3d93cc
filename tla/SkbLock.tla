------------------------------ MODULE SkbLock ------------------------------
(***************************************************************************)
(* glob_recycler.lock of the skb recycler (skbuff_recycle.c), at the grain *)
(* of acquiring it, releasing it and switching interrupts: which paths can *)
(* wait for the lock, from where, and with interrupts on or off.           *)
(*                                                                         *)
(* On each CPU a task runs, and a softirq may run on top of it whenever    *)
(* interrupts are on; the task goes on only when the softirq has returned. *)
(* What the lock protects is the subject of SkbRecycler.                   *)
(***************************************************************************)
EXTENDS Naturals

CONSTANTS
    CPUs,
    SoftirqCPUs,  \* CPUs whose softirqs allocate or release buffers
    HotplugCPUs   \* CPUs whose tasks take another CPU down

(* "data": skb_recycler_alloc, skb_recycler_consume and                    *)
(*   skb_recycler_consume_list_fast, which take the lock only when the hot *)
(*   list is empty or full;                                                *)
(* "proc": proc_skb_flush_write, proc_skb_count_show and                   *)
(*   skb_recycler_print_all_lists, spin_lock_irqsave throughout;           *)
(* "dead": skb_cpu_callback, a plain spin_lock around the draining of the  *)
(*   dead CPU's spare list.                                                *)
Paths == {"data", "proc", "dead"}

ASSUME CPUsAssumption == SoftirqCPUs \subseteq CPUs /\ HotplugCPUs \subseteq CPUs

VARIABLES
    lock,    \* the contexts that hold glob_recycler.lock
    irqoff,  \* per CPU: interrupts are off
    path,    \* per context: the path it is on
    pc       \* per context: where on that path

vars == <<lock, irqoff, path, pc>>

Ctxs == CPUs \X {"task", "softirq"}
cpu(x) == x[1]
IsTask(x) == x[2] = "task"

PathsOf(x) ==
    {p \in Paths : /\ p = "data" => IsTask(x) \/ cpu(x) \in SoftirqCPUs
                   /\ p = "proc" => IsTask(x)
                   /\ p = "dead" => IsTask(x) /\ cpu(x) \in HotplugCPUs}

(* A task is suspended while a softirq runs on its CPU *)
Runs(x) == IsTask(x) => pc[<<cpu(x), "softirq">>] = "idle"

Init ==
    /\ lock = {}
    /\ irqoff = [c \in CPUs |-> FALSE]
    /\ path = [x \in Ctxs |-> "data"]
    /\ pc = [x \in Ctxs |-> "idle"]

Step(x, from, to) ==
    /\ Runs(x)
    /\ pc[x] = from
    /\ pc' = [pc EXCEPT ![x] = to]

(* "data" and "proc" first turn interrupts off, "dead" goes for the lock;  *)
(* a mutant where no path turns them off                                   *)
Entry_noirq(p) == "wait"
Entry(p) == IF p = "dead" THEN "wait" ELSE "off"

(* CPUs go down one at a time (cpu_hotplug_lock) *)
Start(x) ==
    /\ ~irqoff[cpu(x)]
    /\ \E p \in PathsOf(x) :
        /\ p = "dead" => \A y \in Ctxs : path[y] # "dead"
        /\ Step(x, "idle", Entry(p))
        /\ path' = [path EXCEPT ![x] = p]
    /\ UNCHANGED <<lock, irqoff>>

(* local_irq_save; the data path may find all it needs on its own list     *)
IrqSave(x) ==
    /\ \/ Step(x, "off", "wait")
       \/ path[x] = "data" /\ Step(x, "off", "restore")
    /\ irqoff' = [irqoff EXCEPT ![cpu(x)] = TRUE]
    /\ UNCHANGED <<lock, path>>

(* spin_lock(&glob_recycler.lock) *)
Lock_unguarded(x) ==   \* mutant: does not wait
    /\ lock' = lock \union {x}
    /\ Step(x, "wait", IF path[x] = "dead" THEN "outer" ELSE "unlock")
    /\ UNCHANGED <<irqoff, path>>

Lock(x) ==
    /\ lock = {}
    /\ lock' = {x}
    /\ Step(x, "wait", IF path[x] = "dead" THEN "outer" ELSE "unlock")
    /\ UNCHANGED <<irqoff, path>>

(* skb_recycler_free_skb: spin_lock_irqsave(&list->lock) ... irqrestore    *)
FreeOff(x) ==
    /\ Step(x, "outer", "drain")
    /\ irqoff' = [irqoff EXCEPT ![cpu(x)] = TRUE]
    /\ UNCHANGED <<lock, path>>

FreeOn(x) ==
    /\ Step(x, "drain", "unlock")
    /\ irqoff' = [irqoff EXCEPT ![cpu(x)] = FALSE]
    /\ UNCHANGED <<lock, path>>

(* spin_unlock; a mutant in which skb_cpu_callback returns with the lock    *)
Unlock_keeps(x) ==
    /\ Step(x, "unlock", "restore")
    /\ lock' = IF path[x] = "dead" THEN lock ELSE {}
    /\ UNCHANGED <<irqoff, path>>

Unlock(x) ==
    /\ Step(x, "unlock", "restore")
    /\ lock' = {}
    /\ UNCHANGED <<irqoff, path>>

IrqRestore(x) ==
    /\ Step(x, "restore", "idle")
    /\ irqoff' = [irqoff EXCEPT ![cpu(x)] = FALSE]
    /\ path' = [path EXCEPT ![x] = "data"]
    /\ UNCHANGED lock

Advance(x) ==
    IrqSave(x) \/ Lock(x) \/ FreeOff(x) \/ FreeOn(x) \/ Unlock(x) \/ IrqRestore(x)

Next == \E x \in Ctxs : Start(x) \/ Advance(x)

(* A CPU keeps executing the code it is in; arm64's queued spinlocks serve *)
(* their waiters in order, so a waiter is not passed over for ever.  A     *)
(* softirq load that never ends could still starve a task, so a task is    *)
(* promised progress only while its CPU keeps coming back to it.           *)
Fairness ==
    \A x \in Ctxs : SF_vars(Advance(x))

Spec == Init /\ [][Next]_vars
FairSpec == Spec /\ Fairness

-----------------------------------------------------------------------------
(* The types; the spinlock has at most one holder.                         *)
TypeOK ==
    /\ lock = {} \/ \E x \in Ctxs : lock = {x}
    /\ irqoff \in [CPUs -> BOOLEAN]
    /\ path \in [Ctxs -> Paths]
    /\ pc \in [Ctxs -> {"idle", "off", "wait", "outer", "drain", "unlock", "restore"}]

(* No softirq spins on the lock on top of the task that holds it: that     *)
(* task could never run again to release it.                               *)
NoSelfDeadlock ==
    \A x \in lock, y \in Ctxs : pc[y] = "wait" /\ Runs(y) => cpu(x) # cpu(y)

(* Whoever goes for the global list gets to use it: alloc ("If global      *)
(* recycle list is not empty, use global buffers") and every other path.   *)
WaitersProceed == \A x \in Ctxs : pc[x] = "wait" ~> pc[x] # "wait"
=============================================================================
