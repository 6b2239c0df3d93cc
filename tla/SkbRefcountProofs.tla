------------------------- MODULE SkbRefcountProofs -------------------------
(***************************************************************************)
(* Proofs about SkbRefcount, for any number of threads that share a        *)
(* buffer.  The inductive invariant lists the stages of a buffer's life    *)
(* and says what skb->users is in each.                                    *)
(***************************************************************************)
EXTENDS SkbRefcount, FiniteSetTheorems, TLAPS

Owning == {"hold", "d_read", "d_dec", "c_read", "c_dec"}
Pcs == Owning \union {"none", "release"}

Owners == {t \in Threads : pc[t] \in Owning}
Releasing == {t \in Threads : pc[t] = "release"}

Types ==
    /\ users \in Int /\ released \in Nat
    /\ pc \in [Threads -> Pcs]
    /\ dropped \in BOOLEAN /\ ds \in BOOLEAN

(* One reference for each owner *)
Shared ==
    /\ Owners # {} /\ users = Cardinality(Owners)
    /\ Releasing = {} /\ released = 0

(* The last owner, alone, is about to give the buffer back; it left the    *)
(* count at one, or took it to zero                                        *)
Last ==
    /\ Owners = {} /\ users \in {0, 1}
    /\ \E t \in Threads : Releasing = {t}
    /\ released = 0

Gone ==
    /\ Owners = {} /\ users \in {0, 1}
    /\ Releasing = {} /\ released = 1

(* sk_skb_reason_drop took the count to zero and has called consume_skb,   *)
(* which will find no reference to give up                                 *)
Stray ==
    /\ dropped /\ users = 0
    /\ \E t \in Threads : Owners = {t} /\ pc[t] \in {"c_read", "c_dec"}
    /\ Releasing = {} /\ released = 0

Leaked ==
    /\ dropped /\ users = Saturated
    /\ Owners = {} /\ Releasing = {} /\ released = 0

(* A marked buffer is nobody's but its owner's, so its count is one and    *)
(* skb_unref never gets to the decrement                                   *)
MarkSound == ds => users = 1 /\ \A t \in Threads : pc[t] \notin {"d_dec", "c_dec"}

DropSeen == \A t \in Threads : pc[t] \in {"d_read", "d_dec"} => dropped

IInv ==
    /\ Types /\ MarkSound /\ DropSeen
    /\ Shared \/ Last \/ Gone \/ Stray \/ Leaked

-----------------------------------------------------------------------------
(* How a thread's move changes the owners *)
LEMMA Moved ==
    ASSUME pc \in [Threads -> Pcs], NEW t \in Threads, NEW to \in Pcs,
           pc' = [pc EXCEPT ![t] = to]
    PROVE  /\ pc' \in [Threads -> Pcs] /\ pc'[t] = to
           /\ \A u \in Threads : u # t => pc'[u] = pc[u]
           /\ Owners' = IF to \in Owning THEN Owners \union {t} ELSE Owners \ {t}
           /\ Releasing' = IF to = "release" THEN Releasing \union {t} ELSE Releasing \ {t}
<1>1. /\ pc' \in [Threads -> Pcs] /\ pc'[t] = to
      /\ \A u \in Threads : u # t => pc'[u] = pc[u]
    OBVIOUS
<1>2. Owners' = IF to \in Owning THEN Owners \union {t} ELSE Owners \ {t}
    BY <1>1 DEF Owners
<1>3. Releasing' = IF to = "release" THEN Releasing \union {t} ELSE Releasing \ {t}
    BY <1>1 DEF Releasing
<1>4. QED
    BY <1>1, <1>2, <1>3

(* Counting owners *)
LEMMA OwnerCount ==
    /\ Cardinality(Owners) \in Nat
    /\ Owners = {} <=> Cardinality(Owners) = 0
    /\ \A t \in Owners : Cardinality(Owners) = 1 => Owners = {t}
    /\ \A t \in Owners : Cardinality(Owners \ {t}) = Cardinality(Owners) - 1
    /\ \A t : t \notin Owners => Cardinality(Owners \union {t}) = Cardinality(Owners) + 1
<1>1. IsFiniteSet(Owners)
    BY ThreadsAssumption, FS_Subset DEF Owners
<1>2. Cardinality(Owners) \in Nat /\ (Owners = {} <=> Cardinality(Owners) = 0)
    BY <1>1, FS_CardinalityType, FS_EmptySet
<1>3. ASSUME NEW t \in Owners, Cardinality(Owners) = 1 PROVE Owners = {t}
    <2>1. PICK x : Owners = {x}
        BY <1>1, <1>3, FS_Singleton
    <2>2. QED
        BY <2>1
<1>4. ASSUME NEW t \in Owners PROVE Cardinality(Owners \ {t}) = Cardinality(Owners) - 1
    BY <1>1, FS_RemoveElement
<1>5. ASSUME NEW t, t \notin Owners
      PROVE  Cardinality(Owners \union {t}) = Cardinality(Owners) + 1
    BY <1>1, <1>5, FS_AddElement
<1>6. QED
    BY <1>2, <1>3, <1>4, <1>5

(* In which stage a thread at each place can be *)
LEMMA Stage ==
    ASSUME IInv, NEW t \in Threads
    PROVE  /\ pc[t] \in {"hold", "d_read", "d_dec"} => Shared /\ t \in Owners
           /\ pc[t] \in {"c_read", "c_dec"} =>
                t \in Owners /\ (Shared \/ (Stray /\ Owners = {t}))
           /\ pc[t] = "release" => Last /\ Releasing = {t}
BY DEF IInv, Shared, Last, Gone, Stray, Leaked, Owners, Releasing, Owning

(* A thread that moves on while it keeps its reference changes no count    *)
LEMMA KeepsReference ==
    ASSUME IInv, NEW t \in Threads, Shared, t \in Owners,
           NEW to \in Owning, pc' = [pc EXCEPT ![t] = to], UNCHANGED <<users, released>>
    PROVE  Shared'
<1>1. Owners' = Owners \union {t} /\ Releasing' = Releasing \ {t}
    BY Moved DEF IInv, Types, Pcs, Owning
<1>2. Owners' = Owners /\ Releasing' = Releasing
    BY <1>1 DEF Shared
<1>3. QED
    BY <1>2 DEF Shared

(* Every step keeps the invariant.                                         *)
LEMMA InvStep == IInv /\ [Next]_vars => IInv'
<1> SUFFICES ASSUME IInv, [Next]_vars PROVE IInv'
    OBVIOUS
<1> USE DEF Owning, Pcs
<1>t. Types /\ MarkSound /\ DropSeen
    BY DEF IInv
<1>1. ASSUME NEW t \in Threads, NEW u \in Threads, skb_get(t, u) PROVE IInv'
    <2>1. /\ pc[t] = "hold" /\ pc[u] = "none" /\ pc' = [pc EXCEPT ![u] = "hold"]
          /\ users' = users + 1 /\ ds' = FALSE /\ UNCHANGED <<released, dropped>>
        BY <1>1 DEF skb_get, Goto
    <2>2. /\ pc' \in [Threads -> Pcs] /\ pc'[u] = "hold"
          /\ \A v \in Threads : v # u => pc'[v] = pc[v]
          /\ Owners' = Owners \union {u} /\ Releasing' = Releasing \ {u}
        BY <1>t, <2>1, Moved DEF Types
    <2>3. Shared /\ u \notin Owners
        BY <2>1, Stage DEF Owners
    <2>4. Shared'
        BY <2>1, <2>2, <2>3, OwnerCount DEF Shared
    <2>5. Types'
        <3>1. ds' \in BOOLEAN /\ dropped' \in BOOLEAN
            BY <1>t, <2>1, Zenon DEF Types
        <3>2. QED
            BY <1>t, <2>1, <2>2, <3>1 DEF Types
    <2>6. MarkSound' /\ DropSeen'
        <3>1. ~ds'
            BY <2>1
        <3>2. QED
            BY <1>t, <2>1, <2>2, <3>1 DEF MarkSound, DropSeen
    <2>7. QED
        BY <2>4, <2>5, <2>6 DEF IInv
<1>2. ASSUME NEW t \in Threads, consume_skb(t) \/ sk_skb_reason_drop(t) PROVE IInv'
    <2>1. PICK to \in {"c_read", "d_read"} :
            /\ pc[t] = "hold" /\ pc' = [pc EXCEPT ![t] = to]
            /\ UNCHANGED <<users, released, ds>>
            /\ (dropped' = dropped \/ dropped' = TRUE) /\ (to = "d_read" => dropped')
        BY <1>2 DEF consume_skb, sk_skb_reason_drop, Goto
    <2>2. Shared /\ t \in Owners
        BY <2>1, Stage
    <2>3. Shared'
        BY <2>1, <2>2, KeepsReference
    <2>4. /\ pc' \in [Threads -> Pcs] /\ pc'[t] = to
          /\ \A v \in Threads : v # t => pc'[v] = pc[v]
        BY <1>t, <2>1, Moved DEF Types
    <2>5. dropped' \in BOOLEAN /\ (dropped => dropped')
        <3>1. dropped \in BOOLEAN /\ (dropped' = dropped \/ dropped' = TRUE)
            BY <1>t, <2>1 DEF Types
        <3>2. CASE dropped' = dropped
            BY <3>1, <3>2, Zenon
        <3>3. CASE dropped' = TRUE
            BY <3>3, Zenon
        <3>4. QED
            BY <3>1, <3>2, <3>3, Zenon
    <2>6. Types'
        BY <1>t, <2>1, <2>4, <2>5 DEF Types
    <2>7. MarkSound' /\ DropSeen'
        BY <1>t, <2>1, <2>4, <2>5 DEF MarkSound, DropSeen
    <2>8. QED
        BY <2>3, <2>6, <2>7 DEF IInv
<1>3. ASSUME NEW t \in Threads, DropRead(t) PROVE IInv'
    <2>1. PICK to \in {"c_read", "d_dec"} :
            /\ pc[t] = "d_read" /\ pc' = [pc EXCEPT ![t] = to]
            /\ UNCHANGED <<users, released, dropped, ds>>
            /\ to = "d_dec" => users # 1
        BY <1>3 DEF DropRead, UnrefRead, Goto
    <2>2. Shared /\ t \in Owners /\ dropped
        BY <1>t, <2>1, Stage DEF DropSeen
    <2>3. Shared'
        BY <2>1, <2>2, KeepsReference
    <2>4. /\ pc' \in [Threads -> Pcs] /\ pc'[t] = to
          /\ \A v \in Threads : v # t => pc'[v] = pc[v]
        BY <1>t, <2>1, Moved DEF Types
    <2>5. Types' /\ MarkSound' /\ DropSeen'
        BY <1>t, <2>1, <2>2, <2>4 DEF Types, MarkSound, DropSeen
    <2>6. QED
        BY <2>3, <2>5 DEF IInv
<1>4. ASSUME NEW t \in Threads, DropDec(t) PROVE IInv'
    <2>1. /\ pc[t] = "d_dec"
          /\ pc' = [pc EXCEPT ![t] = IF users = 1 THEN "c_read" ELSE "none"]
          /\ users' = IF users <= 0 THEN Saturated ELSE users - 1
          /\ UNCHANGED <<released, dropped, ds>>
        BY <1>4 DEF DropDec, UnrefDec, Goto
    <2>2. Shared /\ t \in Owners /\ dropped /\ ~ds
        BY <1>t, <2>1, Stage DEF DropSeen, MarkSound, Types
    <2>3. users = Cardinality(Owners) /\ users \in Nat /\ users # 0
        BY <2>2, OwnerCount DEF Shared
    <2>4. users' = users - 1 /\ users' \in Int
        BY <2>1, <2>3
    <2>5. CASE users = 1
        <3>1. pc' = [pc EXCEPT ![t] = "c_read"]
            BY <2>1, <2>5
        <3>2. /\ pc' \in [Threads -> Pcs] /\ pc'[t] = "c_read"
              /\ \A v \in Threads : v # t => pc'[v] = pc[v]
              /\ Owners' = Owners \union {t} /\ Releasing' = Releasing \ {t}
            BY <1>t, <3>1, Moved DEF Types
        <3>3. Owners = {t}
            BY <2>2, <2>3, <2>5, OwnerCount
        <3>4. Stray'
            BY <2>1, <2>2, <2>4, <2>5, <3>2, <3>3 DEF Stray, Shared
        <3>5. Types' /\ MarkSound' /\ DropSeen'
            BY <1>t, <2>1, <2>2, <2>4, <3>2 DEF Types, MarkSound, DropSeen
        <3>6. QED
            BY <3>4, <3>5 DEF IInv
    <2>6. CASE users # 1
        <3>1. pc' = [pc EXCEPT ![t] = "none"]
            BY <2>1, <2>6
        <3>2. /\ pc' \in [Threads -> Pcs] /\ pc'[t] = "none"
              /\ \A v \in Threads : v # t => pc'[v] = pc[v]
              /\ Owners' = Owners \ {t} /\ Releasing' = Releasing \ {t}
            BY <1>t, <3>1, Moved DEF Types
        <3>3. Cardinality(Owners \ {t}) = users - 1 /\ Owners \ {t} # {}
            <4>1. Cardinality(Owners \ {t}) = users - 1
                BY <2>2, <2>3, OwnerCount
            <4>2. users - 1 # 0
                BY <2>3, <2>6
            <4>3. QED
                BY <4>1, <4>2, FS_EmptySet
        <3>4. Shared'
            BY <2>1, <2>2, <2>4, <3>2, <3>3 DEF Shared
        <3>5. Types' /\ MarkSound' /\ DropSeen'
            BY <1>t, <2>1, <2>2, <2>4, <3>2 DEF Types, MarkSound, DropSeen
        <3>6. QED
            BY <3>4, <3>5 DEF IInv
    <2>7. QED
        BY <2>5, <2>6
<1>5. ASSUME NEW t \in Threads, ConsumeRead(t) PROVE IInv'
    <2>1. /\ pc[t] = "c_read"
          /\ pc' = [pc EXCEPT ![t] = IF users = 1 THEN "release" ELSE "c_dec"]
          /\ UNCHANGED <<users, released, dropped, ds>>
        BY <1>5 DEF ConsumeRead, UnrefRead, Goto
    <2>2. t \in Owners /\ (Shared \/ (Stray /\ Owners = {t}))
        BY <2>1, Stage
    <2>3. CASE users = 1
        <3>1. Shared /\ Owners = {t}
            BY <2>2, <2>3, OwnerCount DEF Stray, Shared
        <3>2. pc' = [pc EXCEPT ![t] = "release"]
            BY <2>1, <2>3
        <3>3. /\ pc' \in [Threads -> Pcs] /\ pc'[t] = "release"
              /\ \A v \in Threads : v # t => pc'[v] = pc[v]
              /\ Owners' = Owners \ {t} /\ Releasing' = Releasing \union {t}
            BY <1>t, <3>2, Moved DEF Types
        <3>4. Last'
            BY <2>1, <2>3, <3>1, <3>3 DEF Last, Shared
        <3>5. Types' /\ MarkSound' /\ DropSeen'
            BY <1>t, <2>1, <3>3 DEF Types, MarkSound, DropSeen
        <3>6. QED
            BY <3>4, <3>5 DEF IInv
    <2>4. CASE users # 1
        <3>1. pc' = [pc EXCEPT ![t] = "c_dec"]
            BY <2>1, <2>4
        <3>2. /\ pc' \in [Threads -> Pcs] /\ pc'[t] = "c_dec"
              /\ \A v \in Threads : v # t => pc'[v] = pc[v]
              /\ Owners' = Owners \union {t} /\ Releasing' = Releasing \ {t}
            BY <1>t, <3>1, Moved DEF Types
        <3>3. Shared => Shared'
            BY <2>1, <2>2, <3>1, KeepsReference
        <3>4. Stray /\ Owners = {t} => Stray'
            BY <2>1, <3>2 DEF Stray
        <3>5. Types' /\ MarkSound' /\ DropSeen'
            BY <1>t, <2>1, <2>4, <3>2 DEF Types, MarkSound, DropSeen
        <3>6. QED
            BY <2>2, <3>3, <3>4, <3>5 DEF IInv
    <2>5. QED
        BY <2>3, <2>4
<1>6. ASSUME NEW t \in Threads, ConsumeDec(t) PROVE IInv'
    <2>1. /\ pc[t] = "c_dec"
          /\ pc' = [pc EXCEPT ![t] = IF users = 1 THEN "release" ELSE "none"]
          /\ users' = IF users <= 0 THEN Saturated ELSE users - 1
          /\ UNCHANGED <<released, dropped, ds>>
        BY <1>6 DEF ConsumeDec, UnrefDec, Goto
    <2>2. t \in Owners /\ (Shared \/ (Stray /\ Owners = {t})) /\ ~ds
        BY <1>t, <2>1, Stage DEF MarkSound, Types
    <2>3. CASE Stray /\ Owners = {t}
        <3>1. users = 0 /\ dropped /\ Releasing = {} /\ released = 0
            BY <2>3 DEF Stray
        <3>2. pc' = [pc EXCEPT ![t] = "none"] /\ users' = Saturated
            BY <2>1, <3>1
        <3>3. /\ pc' \in [Threads -> Pcs] /\ pc'[t] = "none"
              /\ \A v \in Threads : v # t => pc'[v] = pc[v]
              /\ Owners' = Owners \ {t} /\ Releasing' = Releasing \ {t}
            BY <1>t, <3>2, Moved DEF Types
        <3>4. Leaked'
            BY <2>1, <2>3, <3>1, <3>2, <3>3 DEF Leaked
        <3>5. Types' /\ MarkSound' /\ DropSeen'
            BY <1>t, <2>1, <2>2, <3>2, <3>3 DEF Types, MarkSound, DropSeen, Saturated
        <3>6. QED
            BY <3>4, <3>5 DEF IInv
    <2>4. CASE Shared
        <3>1. users = Cardinality(Owners) /\ users \in Nat /\ users # 0
            BY <2>4, OwnerCount DEF Shared
        <3>2. users' = users - 1 /\ users' \in Int
            BY <2>1, <3>1
        <3>3. CASE users = 1
            <4>1. pc' = [pc EXCEPT ![t] = "release"] /\ Owners = {t}
                BY <2>1, <2>2, <3>1, <3>3, OwnerCount
            <4>2. /\ pc' \in [Threads -> Pcs] /\ pc'[t] = "release"
                  /\ \A v \in Threads : v # t => pc'[v] = pc[v]
                  /\ Owners' = Owners \ {t} /\ Releasing' = Releasing \union {t}
                BY <1>t, <4>1, Moved DEF Types
            <4>3. Last'
                BY <2>1, <2>4, <3>2, <3>3, <4>1, <4>2 DEF Last, Shared
            <4>4. Types' /\ MarkSound' /\ DropSeen'
                BY <1>t, <2>1, <2>2, <3>2, <4>2 DEF Types, MarkSound, DropSeen
            <4>5. QED
                BY <4>3, <4>4 DEF IInv
        <3>4. CASE users # 1
            <4>1. pc' = [pc EXCEPT ![t] = "none"]
                BY <2>1, <3>4
            <4>2. /\ pc' \in [Threads -> Pcs] /\ pc'[t] = "none"
                  /\ \A v \in Threads : v # t => pc'[v] = pc[v]
                  /\ Owners' = Owners \ {t} /\ Releasing' = Releasing \ {t}
                BY <1>t, <4>1, Moved DEF Types
            <4>3. Cardinality(Owners \ {t}) = users - 1 /\ Owners \ {t} # {}
                <5>1. Cardinality(Owners \ {t}) = users - 1
                    BY <2>2, <3>1, OwnerCount
                <5>2. users - 1 # 0
                    BY <3>1, <3>4
                <5>3. QED
                    BY <5>1, <5>2, FS_EmptySet
            <4>4. Shared'
                BY <2>1, <2>4, <3>2, <4>2, <4>3 DEF Shared
            <4>5. Types' /\ MarkSound' /\ DropSeen'
                BY <1>t, <2>1, <2>2, <3>2, <4>2 DEF Types, MarkSound, DropSeen
            <4>6. QED
                BY <4>4, <4>5 DEF IInv
        <3>5. QED
            BY <3>3, <3>4
    <2>5. QED
        BY <2>2, <2>3, <2>4
<1>7. ASSUME NEW t \in Threads, Release(t) PROVE IInv'
    <2>1. /\ pc[t] = "release" /\ pc' = [pc EXCEPT ![t] = "none"]
          /\ released' = released + 1 /\ UNCHANGED <<users, dropped, ds>>
        BY <1>7 DEF Release, Goto
    <2>2. /\ pc' \in [Threads -> Pcs] /\ pc'[t] = "none"
          /\ \A v \in Threads : v # t => pc'[v] = pc[v]
          /\ Owners' = Owners \ {t} /\ Releasing' = Releasing \ {t}
        BY <1>t, <2>1, Moved DEF Types
    <2>3. Last /\ Releasing = {t}
        BY <2>1, Stage
    <2>4. Gone'
        BY <2>1, <2>2, <2>3 DEF Last, Gone
    <2>5. Types' /\ MarkSound' /\ DropSeen'
        BY <1>t, <2>1, <2>2 DEF Types, MarkSound, DropSeen
    <2>6. QED
        BY <2>4, <2>5 DEF IInv
<1>8. ASSUME NEW t \in Threads, ds_mark(t) PROVE IInv'
    <2>1. /\ pc[t] = "hold" /\ \A u \in Threads \ {t} : pc[u] = "none"
          /\ users = 1 /\ ds' = TRUE /\ UNCHANGED <<users, pc, released, dropped>>
        BY <1>8 DEF ds_mark
    <2>2. Types' /\ MarkSound' /\ DropSeen'
        BY <1>t, <2>1 DEF Types, MarkSound, DropSeen
    <2>3. Shared'
        <3>1. Shared
            BY <2>1, Stage
        <3>2. QED
            BY <2>1, <3>1 DEF Shared, Owners, Releasing
    <2>4. QED
        BY <2>2, <2>3 DEF IInv
<1>9. ASSUME NEW t \in Threads, NEW reset \in BOOLEAN, Realloc(t, reset) PROVE IInv'
    <2>1. /\ \A u \in Threads : pc[u] = "none"
          /\ pc' = [pc EXCEPT ![t] = "hold"]
          /\ users' = IF reset \/ ~ds THEN 1 ELSE users
          /\ released' = 0 /\ dropped' = FALSE /\ ds' = (ds /\ ~reset)
        BY <1>9 DEF Realloc
    <2>2. /\ pc' \in [Threads -> Pcs] /\ pc'[t] = "hold"
          /\ \A v \in Threads : v # t => pc'[v] = pc[v]
          /\ Owners' = Owners \union {t} /\ Releasing' = Releasing \ {t}
        BY <1>t, <2>1, Moved DEF Types
    <2>3. Owners = {} /\ Releasing = {}
        BY <2>1 DEF Owners, Releasing
    <2>4. users' = 1
        BY <1>t, <2>1 DEF MarkSound
    <2>5. Cardinality(Owners') = 1 /\ Owners' # {} /\ Releasing' = {}
        BY <2>2, <2>3, FS_Singleton
    <2>6. Shared'
        BY <2>1, <2>4, <2>5 DEF Shared
    <2>7. Types' /\ MarkSound' /\ DropSeen'
        <3>1. ds' \in BOOLEAN /\ dropped' \in BOOLEAN
            BY <2>1
        <3>2. Types'
            BY <2>1, <2>2, <2>4, <3>1 DEF Types
        <3>3. \A v \in Threads : pc'[v] \notin {"d_read", "d_dec", "c_dec"}
            BY <2>1, <2>2
        <3>4. QED
            BY <2>4, <3>2, <3>3 DEF MarkSound, DropSeen
    <2>8. QED
        BY <2>6, <2>7 DEF IInv
<1>10. CASE UNCHANGED vars
    BY <1>10 DEF vars, IInv, Types, MarkSound, DropSeen, Shared, Last, Gone, Stray, Leaked,
                 Owners, Releasing
<1>11. QED
    BY <1>1, <1>2, <1>3, <1>4, <1>5, <1>6, <1>7, <1>8, <1>9, <1>10 DEF Next

LEMMA AlwaysInv == Spec => []IInv
<1>1. Init => IInv
    <2> SUFFICES ASSUME Init PROVE IInv
        OBVIOUS
    <2>1. PICK t \in Threads : pc = [u \in Threads |-> IF u = t THEN "hold" ELSE "none"]
        BY DEF Init
    <2>2. Owners = {t} /\ Releasing = {}
        BY <2>1 DEF Owners, Releasing, Owning
    <2>3. Cardinality(Owners) = 1
        BY <2>2, FS_Singleton
    <2>4. Shared
        BY <2>2, <2>3 DEF Init, Shared
    <2>5. Types
        <3>1. pc \in [Threads -> Pcs]
            BY <2>1 DEF Pcs, Owning
        <3>2. dropped \in BOOLEAN /\ ds \in BOOLEAN
            BY Zenon DEF Init
        <3>3. QED
            BY <3>1, <3>2 DEF Init, Types
    <2>6. MarkSound /\ DropSeen
        BY <2>1 DEF Init, MarkSound, DropSeen
    <2>7. QED
        BY <2>4, <2>5, <2>6 DEF IInv
<1>2. QED
    BY <1>1, InvStep, PTL DEF Spec

(* However many threads share a buffer and whether they consume or drop    *)
(* it, it goes back at most once in a life and never under an owner's      *)
(* feet, although skb_unref reads the count before it decrements it.       *)
THEOREM UseAfterReleaseImpossible == Spec => []NoUseAfterRelease
<1>1. ASSUME IInv PROVE NoUseAfterRelease
    <2>1. \A t \in Threads : pc[t] \notin {"none", "release"} => t \in Owners
        BY <1>1 DEF IInv, Types, Pcs, Owners, Owning
    <2>2. released = 1 \/ Releasing # {} => Owners = {}
        BY <1>1 DEF IInv, Shared, Last, Gone, Stray, Leaked
    <2>3. Cardinality(Releasing) + released <= 1 /\ released <= 1
        <3>1. CASE Releasing = {} /\ released \in {0, 1}
            BY <3>1, FS_EmptySet
        <3>2. ASSUME NEW t, Releasing = {t}, released = 0
              PROVE  Cardinality(Releasing) + released <= 1 /\ released <= 1
            <4>1. Cardinality(Releasing) = 1
                BY <3>2, FS_Singleton
            <4>2. QED
                BY <3>2, <4>1
        <3>3. QED
            BY <1>1, <3>1, <3>2 DEF IInv, Shared, Last, Gone, Stray, Leaked
    <2>4. QED
        BY <2>1, <2>2, <2>3 DEF NoUseAfterRelease, Releasing
<1>2. QED
    BY <1>1, AlwaysInv, PTL

(* Owners that give up their references by consume_skb never leak the      *)
(* buffer, also when a life begins with the count the last one left.       *)
THEOREM LeakByConsumeImpossible == Spec => []ConsumeNeverLeaks
<1>1. ASSUME IInv, ~dropped, \A t \in Threads : pc[t] = "none" PROVE released = 1
    <2>1. Owners = {} /\ Releasing = {}
        BY <1>1 DEF Owners, Releasing, Owning
    <2>2. QED
        BY <1>1, <2>1 DEF IInv, Shared, Last, Gone, Stray, Leaked
<1>2. IInv => ConsumeNeverLeaks
    BY <1>1 DEF ConsumeNeverLeaks, NoLeak
<1>3. QED
    BY <1>2, AlwaysInv, PTL
=============================================================================
