------------------------------ MODULE SkbPool ------------------------------
(***************************************************************************)
(* What the skb recycler promises to the drivers and the stack, whatever   *)
(* its lists, CPUs, limits and flushes: a pool of buffers.  Each buffer is *)
(* in the slab, with one owner, on its way back, or cached; only its owner *)
(* changes what is in it, and an allocation gives out a clean one.         *)
(***************************************************************************)
CONSTANT Skbs

VARIABLES
    free,        \* in the slab
    owned,       \* with a driver or the stack
    returning,   \* in a release that is not over
    cached,      \* kept for the next allocation
    clean        \* buffers whose skb_shared_info is as a fresh one's

vars == <<free, owned, returning, cached, clean>>

Init ==
    /\ free = Skbs /\ clean = Skbs
    /\ owned = {} /\ returning = {} /\ cached = {}

(* An allocation: from the slab or the cache, and always clean *)
Acquire(s) ==
    /\ s \in free \union cached
    /\ free' = free \ {s} /\ cached' = cached \ {s}
    /\ owned' = owned \union {s}
    /\ clean' = clean \union {s}
    /\ UNCHANGED returning

(* The owner works on its buffer *)
Use(s) ==
    /\ s \in owned
    /\ clean' \in {clean \union {s}, clean \ {s}}
    /\ UNCHANGED <<free, owned, returning, cached>>

(* A release, of several buffers at once on the fast path *)
Release(S) ==
    /\ S \subseteq owned /\ owned' = owned \ S
    /\ \/ returning' = returning \union S /\ UNCHANGED free
       \/ free' = free \union S /\ UNCHANGED returning
    /\ UNCHANGED <<cached, clean>>

(* The end of a release: all of it is cached, or all of it is freed *)
Settle(S) ==
    /\ S \subseteq returning /\ returning' = returning \ S
    /\ \/ cached' = cached \union S /\ UNCHANGED free
       \/ free' = free \union S /\ UNCHANGED cached
    /\ UNCHANGED <<owned, clean>>

(* Flush and hotplug give cached buffers back to the slab *)
Reclaim(S) ==
    /\ S \subseteq cached /\ cached' = cached \ S
    /\ free' = free \union S
    /\ UNCHANGED <<owned, returning, clean>>

Next ==
    \/ \E s \in Skbs : Acquire(s) \/ Use(s)
    \/ \E S \in SUBSET Skbs : Release(S) \/ Settle(S) \/ Reclaim(S)

Spec == Init /\ [][Next]_vars
=============================================================================
