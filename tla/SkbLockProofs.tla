--------------------------- MODULE SkbLockProofs ---------------------------
(***************************************************************************)
(* Proofs about SkbLock: glob_recycler.lock has one holder, and only a     *)
(* softirq on top of skb_cpu_callback can wait for it in vain.             *)
(***************************************************************************)
EXTENDS SkbLock, TLAPS

Holding == {"outer", "drain", "unlock"}
Places == {"idle", "off", "wait", "outer", "drain", "unlock", "restore"}

Soft(c) == <<c, "softirq">>

(* Where context x has interrupts off: everywhere past local_irq_save on   *)
(* the data and proc paths, in skb_cpu_callback only around the free       *)
NeedsOff(x) ==
    \/ pc[x] = "drain"
    \/ path[x] # "dead" /\ pc[x] \in {"wait", "unlock", "restore"}

(* The lock's holder is the context between lock and unlock *)
HolderExact == \A x \in Ctxs : pc[x] \in Holding <=> x \in lock

(* Each path is followed by contexts that may take it, from its beginning  *)
PathSound ==
    \A x \in Ctxs :
        /\ pc[x] # "idle" => path[x] \in PathsOf(x)
        /\ path[x] = "dead" => pc[x] \notin {"idle", "off"}
        /\ pc[x] \in {"outer", "drain"} => path[x] = "dead"

(* Interrupts are off where they should be, so a softirq that runs found   *)
(* the task below it somewhere else                                        *)
IrqSound ==
    /\ \A x \in Ctxs : NeedsOff(x) => irqoff[cpu(x)]
    /\ \A x \in Ctxs : IsTask(x) /\ pc[Soft(cpu(x))] # "idle" => ~NeedsOff(x)

IInv == TypeOK /\ HolderExact /\ PathSound /\ IrqSound

-----------------------------------------------------------------------------
(* The two contexts of a CPU *)
LEMMA Contexts ==
    ASSUME NEW x \in Ctxs
    PROVE  /\ cpu(x) \in CPUs /\ Soft(cpu(x)) \in Ctxs /\ cpu(Soft(cpu(x))) = cpu(x)
           /\ ~IsTask(Soft(cpu(x)))
           /\ ~IsTask(x) => x = Soft(cpu(x))
           /\ \A y \in Ctxs : IsTask(x) /\ IsTask(y) /\ cpu(x) = cpu(y) => x = y
BY DEF Ctxs, cpu, IsTask, Soft

(* What a step of context x leaves alone *)
LEMMA StepFrame ==
    ASSUME TypeOK, NEW x \in Ctxs, NEW from, NEW to \in Places, Step(x, from, to)
    PROVE  /\ pc' \in [Ctxs -> Places] /\ pc[x] = from /\ pc'[x] = to
           /\ \A y \in Ctxs : y # x => pc'[y] = pc[y]
           /\ IsTask(x) => pc[Soft(cpu(x))] = "idle"
BY DEF Step, TypeOK, Runs, Soft, Places

(* Contexts that the step does not concern keep their interrupts off, and  *)
(* a task that runs has no softirq on top.                                 *)
LEMMA IrqStep ==
    ASSUME IInv, NEW x \in Ctxs, Runs(x),
           \A y \in Ctxs : y # x => pc'[y] = pc[y] /\ path'[y] = path[y],
           irqoff' \in [CPUs -> BOOLEAN],
           \A c \in CPUs : c # cpu(x) => irqoff'[c] = irqoff[c],
           NeedsOff(x)' => irqoff'[cpu(x)],
           pc[x] = "idle" => ~irqoff[cpu(x)]
    PROVE  IrqSound'
<1>1. \A y \in Ctxs : y # x => (NeedsOff(y)' <=> NeedsOff(y))
    BY DEF NeedsOff
<1>2. ASSUME NEW y \in Ctxs, y # x, NeedsOff(y) PROVE irqoff'[cpu(y)]
    <2>1. irqoff[cpu(y)] /\ cpu(y) \in CPUs
        BY <1>2, Contexts DEF IInv, IrqSound
    <2>2. CASE cpu(y) # cpu(x)
        BY <2>1, <2>2
    <2>3. CASE cpu(y) = cpu(x) /\ IsTask(x)
        <3>1. y = Soft(cpu(x)) /\ pc[y] = "idle"
            BY <1>2, <2>3, Contexts DEF Runs, Soft
        <3>2. QED
            BY <1>2, <3>1 DEF NeedsOff
    <2>4. CASE cpu(y) = cpu(x) /\ ~IsTask(x)
        <3>1. IsTask(y) /\ x = Soft(cpu(y))
            BY <1>2, <2>4, Contexts
        <3>2. pc[x] = "idle"
            BY <1>2, <3>1 DEF IInv, IrqSound
        <3>3. QED
            BY <2>1, <2>4, <3>2
    <2>5. QED
        BY <2>2, <2>3, <2>4
<1>3. ASSUME NEW y \in Ctxs, IsTask(y), pc'[Soft(cpu(y))] # "idle" PROVE ~NeedsOff(y)'
    <2>1. CASE y = x
        <3>1. Soft(cpu(x)) # x /\ pc[Soft(cpu(x))] = "idle" /\ Soft(cpu(x)) \in Ctxs
            BY <1>3, <2>1, Contexts DEF Runs, Soft
        <3>2. QED
            BY <1>3, <2>1, <3>1
    <2>2. CASE y # x /\ Soft(cpu(y)) # x
        <3>1. pc[Soft(cpu(y))] # "idle"
            BY <1>3, <2>2, Contexts
        <3>2. QED
            BY <1>1, <1>3, <2>2, <3>1 DEF IInv, IrqSound
    <2>3. CASE y # x /\ Soft(cpu(y)) = x
        <3>1. cpu(x) = cpu(y)
            BY <1>3, <2>3, Contexts
        <3>2. CASE pc[x] = "idle"
            BY <1>1, <2>3, <3>1, <3>2 DEF IInv, IrqSound
        <3>3. CASE pc[x] # "idle"
            BY <1>1, <1>3, <2>3, <3>3 DEF IInv, IrqSound
        <3>4. QED
            BY <3>2, <3>3
    <2>4. QED
        BY <2>1, <2>2, <2>3
<1>4. QED
    BY <1>1, <1>2, <1>3 DEF IrqSound, Soft, cpu, IsTask

(* Every step keeps the invariant: the lock is taken when it is free and   *)
(* given up by its holder, with interrupts as the path requires.           *)
LEMMA InvStep == IInv /\ [Next]_vars => IInv'
<1> SUFFICES ASSUME IInv, [Next]_vars PROVE IInv'
    OBVIOUS
<1> USE DEF Places, Holding
<1>t. TypeOK /\ HolderExact /\ PathSound
    BY DEF IInv
<1>1. ASSUME NEW x \in Ctxs, Start(x) PROVE IInv'
    <2>1. PICK p \in PathsOf(x) : Step(x, "idle", Entry(p)) /\ path' = [path EXCEPT ![x] = p]
        BY <1>1 DEF Start
    <2>2. /\ Entry(p) \in {"wait", "off"} /\ (p = "dead" => Entry(p) = "wait")
          /\ (p # "dead" => Entry(p) = "off") /\ p \in Paths
        BY DEF Entry, PathsOf
    <2>3. /\ pc' \in [Ctxs -> Places] /\ pc[x] = "idle" /\ pc'[x] = Entry(p)
          /\ \A y \in Ctxs : y # x => pc'[y] = pc[y]
        BY <1>t, <2>1, <2>2, StepFrame
    <2>4. /\ path' \in [Ctxs -> Paths] /\ path'[x] = p
          /\ \A y \in Ctxs : y # x => path'[y] = path[y]
        BY <1>t, <2>1, <2>2 DEF TypeOK
    <2>5. ~irqoff[cpu(x)] /\ UNCHANGED <<lock, irqoff>>
        BY <1>1 DEF Start
    <2>6. TypeOK' /\ HolderExact'
        BY <1>t, <2>2, <2>3, <2>4, <2>5 DEF TypeOK, HolderExact
    <2>7. PathSound'
        BY <1>t, <2>2, <2>3, <2>4 DEF PathSound, PathsOf
    <2>8. ~NeedsOff(x)'
        BY <2>2, <2>3, <2>4 DEF NeedsOff
    <2>9. Runs(x) /\ irqoff' \in [CPUs -> BOOLEAN]
        BY <1>t, <2>1, <2>5 DEF Step, TypeOK
    <2>10. IrqSound'
        BY <2>3, <2>4, <2>5, <2>8, <2>9, IrqStep
    <2>11. QED
        BY <2>6, <2>7, <2>10 DEF IInv
<1>2. ASSUME NEW x \in Ctxs, NEW from, NEW to \in Places, Step(x, from, to),
             from # "idle", UNCHANGED path, to # "idle", to # "off",
             irqoff' \in [CPUs -> BOOLEAN],
             \A c \in CPUs : c # cpu(x) => irqoff'[c] = irqoff[c],
             NeedsOff(x)' => irqoff'[cpu(x)],
             to \in {"outer", "drain"} => path[x] = "dead",
             TypeOK', HolderExact'
      PROVE  IInv'
    <2>1. /\ pc[x] = from /\ pc'[x] = to
          /\ \A y \in Ctxs : y # x => pc'[y] = pc[y]
        BY <1>2, <1>t, StepFrame
    <2>2. PathSound'
        BY <1>2, <1>t, <2>1 DEF PathSound, PathsOf
    <2>3. Runs(x)
        BY <1>2 DEF Step
    <2>4. IrqSound'
        BY <1>2, <2>1, <2>3, IrqStep
    <2>5. QED
        BY <1>2, <2>2, <2>4 DEF IInv
<1>3. ASSUME NEW x \in Ctxs, IrqSave(x) PROVE IInv'
    <2>1. PICK to \in {"wait", "restore"} : Step(x, "off", to)
        BY <1>3 DEF IrqSave
    <2>2. /\ pc' \in [Ctxs -> Places] /\ pc[x] = "off" /\ pc'[x] = to
          /\ \A y \in Ctxs : y # x => pc'[y] = pc[y]
        BY <1>t, <2>1, StepFrame
    <2>3. /\ cpu(x) \in CPUs /\ irqoff' = [irqoff EXCEPT ![cpu(x)] = TRUE]
          /\ UNCHANGED <<lock, path>>
        BY <1>3, Contexts DEF IrqSave
    <2>4. /\ irqoff' \in [CPUs -> BOOLEAN] /\ irqoff'[cpu(x)]
          /\ \A c \in CPUs : c # cpu(x) => irqoff'[c] = irqoff[c]
        BY <1>t, <2>3 DEF TypeOK
    <2>5. TypeOK' /\ HolderExact'
        BY <1>t, <2>1, <2>2, <2>3, <2>4 DEF TypeOK, HolderExact
    <2>6. QED
        BY <1>2, <2>1, <2>3, <2>4, <2>5
<1>4. ASSUME NEW x \in Ctxs, Lock(x) PROVE IInv'
    <2>1. PICK to \in {"outer", "unlock"} :
            Step(x, "wait", to) /\ (to = "outer" <=> path[x] = "dead")
        BY <1>4 DEF Lock
    <2>2. /\ pc' \in [Ctxs -> Places] /\ pc[x] = "wait" /\ pc'[x] = to
          /\ \A y \in Ctxs : y # x => pc'[y] = pc[y]
        BY <1>t, <2>1, StepFrame
    <2>3. lock = {} /\ lock' = {x} /\ UNCHANGED <<irqoff, path>>
        BY <1>4 DEF Lock
    <2>4. NeedsOff(x)' => irqoff'[cpu(x)]
        BY <2>1, <2>2, <2>3 DEF NeedsOff, IInv, IrqSound
    <2>5. TypeOK' /\ HolderExact'
        BY <1>t, <2>1, <2>2, <2>3 DEF TypeOK, HolderExact
    <2>6. QED
        BY <1>2, <1>t, <2>1, <2>3, <2>4, <2>5 DEF TypeOK
<1>5. ASSUME NEW x \in Ctxs, FreeOff(x) \/ FreeOn(x) PROVE IInv'
    <2>1. PICK from \in {"outer", "drain"}, to \in {"drain", "unlock"} :
            /\ Step(x, from, to)
            /\ from = "drain" => to = "unlock"
            /\ irqoff' = [irqoff EXCEPT ![cpu(x)] = (to = "drain")]
            /\ UNCHANGED <<lock, path>>
        BY <1>5 DEF FreeOff, FreeOn
    <2>2. /\ pc' \in [Ctxs -> Places] /\ pc[x] = from /\ pc'[x] = to
          /\ \A y \in Ctxs : y # x => pc'[y] = pc[y]
        BY <1>t, <2>1, StepFrame
    <2>3. path[x] = "dead"
        BY <1>t, <2>2 DEF PathSound
    <2>4. /\ irqoff' \in [CPUs -> BOOLEAN] /\ irqoff'[cpu(x)] = (to = "drain")
          /\ \A c \in CPUs : c # cpu(x) => irqoff'[c] = irqoff[c]
        BY <1>t, <2>1, Contexts DEF TypeOK
    <2>5. NeedsOff(x)' => irqoff'[cpu(x)]
        BY <2>1, <2>2, <2>3, <2>4 DEF NeedsOff
    <2>6. TypeOK' /\ HolderExact'
        BY <1>t, <2>1, <2>2, <2>4 DEF TypeOK, HolderExact
    <2>7. QED
        BY <1>2, <2>1, <2>3, <2>4, <2>5, <2>6
<1>6. ASSUME NEW x \in Ctxs, Unlock(x) PROVE IInv'
    <2>1. Step(x, "unlock", "restore") /\ lock' = {} /\ UNCHANGED <<irqoff, path>>
        BY <1>6 DEF Unlock
    <2>2. /\ pc' \in [Ctxs -> Places] /\ pc[x] = "unlock" /\ pc'[x] = "restore"
          /\ \A y \in Ctxs : y # x => pc'[y] = pc[y]
        BY <1>t, <2>1, StepFrame
    <2>3. lock = {x}
        BY <1>t, <2>2 DEF HolderExact, TypeOK
    <2>4. NeedsOff(x)' => irqoff'[cpu(x)]
        BY <2>1, <2>2 DEF NeedsOff, IInv, IrqSound
    <2>5. TypeOK' /\ HolderExact'
        BY <1>t, <2>1, <2>2, <2>3 DEF TypeOK, HolderExact
    <2>6. QED
        BY <1>2, <1>t, <2>1, <2>4, <2>5 DEF TypeOK
<1>7. ASSUME NEW x \in Ctxs, IrqRestore(x) PROVE IInv'
    <2>1. /\ Step(x, "restore", "idle") /\ irqoff' = [irqoff EXCEPT ![cpu(x)] = FALSE]
          /\ path' = [path EXCEPT ![x] = "data"] /\ UNCHANGED lock
        BY <1>7 DEF IrqRestore
    <2>2. /\ pc' \in [Ctxs -> Places] /\ pc[x] = "restore" /\ pc'[x] = "idle"
          /\ \A y \in Ctxs : y # x => pc'[y] = pc[y]
        BY <1>t, <2>1, StepFrame
    <2>3. /\ path' \in [Ctxs -> Paths] /\ path'[x] = "data"
          /\ \A y \in Ctxs : y # x => path'[y] = path[y]
        BY <1>t, <2>1 DEF TypeOK, Paths
    <2>4. /\ irqoff' \in [CPUs -> BOOLEAN]
          /\ \A c \in CPUs : c # cpu(x) => irqoff'[c] = irqoff[c]
        BY <1>t, <2>1 DEF TypeOK
    <2>5. TypeOK' /\ HolderExact'
        BY <1>t, <2>1, <2>2, <2>3, <2>4 DEF TypeOK, HolderExact
    <2>6. PathSound'
        BY <1>t, <2>2, <2>3 DEF PathSound, PathsOf
    <2>7. Runs(x) /\ ~NeedsOff(x)'
        BY <2>1, <2>2, <2>3 DEF Step, NeedsOff
    <2>8. IrqSound'
        BY <2>2, <2>3, <2>4, <2>7, IrqStep
    <2>9. QED
        BY <2>5, <2>6, <2>8 DEF IInv
<1>8. CASE UNCHANGED vars
    BY <1>8 DEF vars, IInv, TypeOK, HolderExact, PathSound, IrqSound, NeedsOff
<1>9. QED
    BY <1>1, <1>3, <1>4, <1>5, <1>6, <1>7, <1>8 DEF Next, Advance

(* The invariant holds for ever.                                           *)
LEMMA AlwaysInv == Spec => []IInv
<1>1. Init => IInv
    <2> SUFFICES ASSUME Init PROVE IInv
        OBVIOUS
    <2>1. TypeOK
        BY DEF Init, TypeOK, Paths
    <2>2. HolderExact /\ PathSound
        BY DEF Init, HolderExact, PathSound, Holding
    <2>3. IrqSound
        BY DEF Init, IrqSound, NeedsOff
    <2>4. QED
        BY <2>1, <2>2, <2>3 DEF IInv
<1>2. QED
    BY <1>1, InvStep, PTL DEF Spec

(* glob_recycler.lock never has two holders, whatever mix of paths, CPUs   *)
(* and softirqs uses it.                                                   *)
THEOREM TypeCorrect == Spec => []TypeOK
<1>1. IInv => TypeOK
    BY DEF IInv
<1>2. QED
    BY <1>1, AlwaysInv, PTL

(* A softirq spins in vain on top of the holder of the lock                *)
StuckOn(x) == \E y \in Ctxs : pc[y] = "wait" /\ Runs(y) /\ cpu(x) = cpu(y)

StuckOnCallbackOnly ==
    \A x \in lock : StuckOn(x) =>
        path[x] = "dead" /\ cpu(x) \in SoftirqCPUs \intersect HotplugCPUs

(* The only holder under whose feet that can happen is skb_cpu_callback,   *)
(* on a CPU whose softirqs use the recycler: every other path has turned   *)
(* interrupts off before it takes the lock.                                *)
THEOREM OnlyCallbackStuck == Spec => []StuckOnCallbackOnly
<1>1. ASSUME IInv, NEW x \in lock, StuckOn(x)
      PROVE  path[x] = "dead" /\ cpu(x) \in SoftirqCPUs \intersect HotplugCPUs
    <2>1. TypeOK /\ HolderExact /\ PathSound /\ IrqSound
        BY <1>1 DEF IInv
    <2>2. x \in Ctxs /\ pc[x] \in Holding
        BY <2>1 DEF TypeOK, HolderExact
    <2>3. PICK y \in Ctxs : pc[y] = "wait" /\ Runs(y) /\ cpu(x) = cpu(y)
        BY <1>1 DEF StuckOn
    <2>4. x # y
        BY <2>2, <2>3 DEF Holding
    <2>5. ~IsTask(y)
        <3> SUFFICES ASSUME IsTask(y) PROVE FALSE
            OBVIOUS
        <3>1. pc[Soft(cpu(y))] = "idle" /\ ~IsTask(x) /\ x = Soft(cpu(y))
            BY <2>2, <2>3, <2>4, Contexts DEF Runs, Soft
        <3>2. QED
            BY <2>2, <3>1 DEF Holding
    <2>6. y = Soft(cpu(x)) /\ IsTask(x)
        BY <2>2, <2>3, <2>4, <2>5, Contexts
    <2>7. ~NeedsOff(x)
        BY <2>1, <2>2, <2>3, <2>6 DEF IrqSound
    <2>8. path[x] = "dead"
        BY <2>1, <2>2, <2>7 DEF NeedsOff, Holding, PathSound
    <2>9. cpu(x) \in HotplugCPUs
        BY <2>1, <2>2, <2>8 DEF PathSound, PathsOf, Holding
    <2>10. cpu(y) \in SoftirqCPUs
        BY <2>1, <2>3, <2>5 DEF PathSound, PathsOf, Paths
    <2>11. QED
        BY <2>3, <2>8, <2>9, <2>10
<1>2. IInv => StuckOnCallbackOnly
    BY <1>1 DEF StuckOnCallbackOnly
<1>3. QED
    BY <1>2, AlwaysInv, PTL

(* Nobody spins on the lock on top of its holder as long as no CPU that    *)
(* takes others down runs softirqs that use the recycler.                  *)
THEOREM SelfDeadlockImpossible ==
    ASSUME SoftirqCPUs \intersect HotplugCPUs = {}
    PROVE  Spec => []NoSelfDeadlock
<1>1. StuckOnCallbackOnly => NoSelfDeadlock
    BY DEF StuckOnCallbackOnly, NoSelfDeadlock, StuckOn
<1>2. QED
    BY <1>1, OnlyCallbackStuck, PTL
=============================================================================
