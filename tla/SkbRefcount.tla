---------------------------- MODULE SkbRefcount ----------------------------
(***************************************************************************)
(* Giving up references to a shared buffer, as patch 0981-1 changes it:     *)
(* consume_skb, which recycles or frees the buffer when the last reference *)
(* goes, and sk_skb_reason_drop, which now ends in dev_kfree_skb, that is  *)
(* consume_skb.  Both begin with the kernel's skb_unref (external): it     *)
(* reads the count, takes a count of one as the last reference without     *)
(* writing it, and otherwise decrements atomically.  One buffer is enough: *)
(* references to different buffers do not interact.                        *)
(***************************************************************************)
EXTENDS Integers, FiniteSets

CONSTANTS
    Threads    \* whoever may hold a reference

ASSUME ThreadsAssumption == IsFiniteSet(Threads) /\ Threads # {}

VARIABLES
    users,     \* skb->users; Saturated after an underflow
    pc,        \* per thread: "hold"s a reference, "none", in the skb_unref of
               \* __sk_skb_reason_drop ("d_"), in consume_skb's ("c_"), or past
               \* both and about to "release" the buffer
    released,  \* how often this life of the buffer was recycled or freed
    dropped,   \* history: sk_skb_reason_drop was called in this life
    ds         \* skb->recycled_for_ds

vars == <<users, pc, released, dropped, ds>>

Saturated == -1

(* One owner, straight from the allocator *)
Init ==
    /\ \E t \in Threads : pc = [u \in Threads |-> IF u = t THEN "hold" ELSE "none"]
    /\ users = 1
    /\ released = 0 /\ dropped = FALSE /\ ds = FALSE

Goto(t, from, to) == pc[t] = from /\ pc' = [pc EXCEPT ![t] = to]

(* skb_get: an owner gives someone else a reference (external).  The host  *)
(* has the packet then, and the DS driver took its mark off.               *)
skb_get(t, u) ==
    /\ pc[t] = "hold"
    /\ Goto(u, "none", "hold")
    /\ users' = users + 1
    /\ ds' = FALSE
    /\ UNCHANGED <<released, dropped>>

(* A PPE DS ring marks a buffer that the host never saw, so nobody shares  *)
(* it (external)                                                           *)
ds_mark(t) ==
    /\ pc[t] = "hold" /\ \A u \in Threads \ {t} : pc[u] = "none"
    /\ users = 1 /\ ~ds /\ ds' = TRUE
    /\ UNCHANGED <<users, pc, released, dropped>>

consume_skb(t) ==
    /\ Goto(t, "hold", "c_read")
    /\ UNCHANGED <<users, released, dropped, ds>>

sk_skb_reason_drop(t) ==
    /\ Goto(t, "hold", "d_read")
    /\ dropped' = TRUE
    /\ UNCHANGED <<users, released, ds>>

(* refcount_read(&skb->users) == 1 *)
UnrefRead(t, at, dec, last) ==
    /\ Goto(t, at, IF users = 1 THEN last ELSE dec)
    /\ UNCHANGED <<users, released, dropped, ds>>

(* refcount_dec_and_test; a count that is zero or saturated ends saturated *)
UnrefDec(t, at, last) ==
    /\ Goto(t, at, IF users = 1 THEN last ELSE "none")
    /\ users' = IF users <= 0 THEN Saturated ELSE users - 1
    /\ UNCHANGED <<released, dropped, ds>>

DropRead(t) == UnrefRead(t, "d_read", "d_dec", "c_read")
DropDec(t) == UnrefDec(t, "d_dec", "c_read")

ConsumeRead_nodec(t) == UnrefRead(t, "c_read", "release", "release")  \* mutant
ConsumeRead(t) == UnrefRead(t, "c_read", "c_dec", "release")
ConsumeDec(t) == UnrefDec(t, "c_dec", "release")

(* skb_recycler_consume, or skb_release_data and kfree_skbmem *)
Release(t) ==
    /\ Goto(t, "release", "none")
    /\ released' = released + 1
    /\ UNCHANGED <<users, dropped, ds>>

(* Once nobody has the buffer, the recycler hands it out again.  The count *)
(* is set to one with reset_skb or when the buffer is not marked; a marked *)
(* one that is asked for without reset keeps the count skb_unref left.     *)
Realloc_trusting(t, reset) ==   \* mutant: without reset never sets the count
    /\ released >= 1
    /\ \A u \in Threads : pc[u] = "none"
    /\ pc' = [pc EXCEPT ![t] = "hold"]
    /\ users' = IF reset THEN 1 ELSE users
    /\ released' = 0 /\ dropped' = FALSE
    /\ ds' = (ds /\ ~reset)

Realloc(t, reset) ==
    /\ released >= 1
    /\ \A u \in Threads : pc[u] = "none"
    /\ pc' = [pc EXCEPT ![t] = "hold"]
    /\ users' = IF reset \/ ~ds THEN 1 ELSE users
    /\ released' = 0 /\ dropped' = FALSE
    /\ ds' = (ds /\ ~reset)

Next ==
    \/ \E t, u \in Threads : skb_get(t, u)
    \/ \E t \in Threads :
        \/ consume_skb(t) \/ sk_skb_reason_drop(t)
        \/ DropRead(t) \/ DropDec(t) \/ ConsumeRead(t) \/ ConsumeDec(t)
        \/ Release(t) \/ ds_mark(t) \/ \E reset \in BOOLEAN : Realloc(t, reset)

Spec == Init /\ [][Next]_vars

-----------------------------------------------------------------------------
(* No reference is used after the buffer went back: while someone holds    *)
(* one, or is still in skb_unref before or after the read of the count,    *)
(* nobody is recycling or freeing the buffer or has done so, and it goes   *)
(* back at most once in a life.                                            *)
NoUseAfterRelease ==
    /\ released <= 1
    /\ released = 1 \/ (\E t \in Threads : pc[t] = "release")
           => \A t \in Threads : pc[t] \in {"none", "release"}
    /\ Cardinality({t \in Threads : pc[t] = "release"}) + released <= 1

(* "consume_skb - free an skbuff": when everybody has given up the         *)
(* reference, the buffer has gone back to the recycler or to the slab.     *)
NoLeak == (\A t \in Threads : pc[t] = "none") => released = 1

(* The same for owners that all give up their reference by consume_skb:    *)
(* among them the last one always releases the buffer, also in a life that *)
(* began without reset and took over its count from the one before.        *)
ConsumeNeverLeaks == ~dropped => NoLeak
=============================================================================
