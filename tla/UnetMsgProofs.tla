--------------------------- MODULE UnetMsgProofs ---------------------------
(***************************************************************************)
(* Proofs about UnetMsg, for any hosts, names and clients and any number   *)
(* of faults.  The invariant goes link by link: what a channel holds at    *)
(* each stage of its handshake, which of a link's channels feeds the       *)
(* remote state, and what the announcements under way will make of it.     *)
(***************************************************************************)
EXTENDS UnetMsg, FiniteSetTheorems, TLAPS

NameSets == [Kinds -> SUBSET Names]
Msg == [kind : Kinds, name : Names, enabled : BOOLEAN]
Stages == {"free", "syn", "hello", "auth", "reply", "up"}

Chan == [st : Stages, a : BOOLEAN, b : BOOLEAN, cut : BOOLEAN, sign : SUBSET {"a", "b"},
         aok : BOOLEAN, bok : BOOLEAN, wire : Seq(Msg), early : BOOLEAN,
         list : NameSets, empty : NameSets]

Types ==
    /\ cl \in [Clients -> NameSets] /\ keys \in [Hosts -> NameSets]
    /\ peers \in [Links -> SUBSET Names]
    /\ conn \in [Links -> [Slots -> Chan]]
    /\ tx \in [Links -> Slots \union {0}] /\ rx \in [Links -> Slots \union {0}]
    /\ remote \in [Links -> NameSets]
    /\ timer \in [Hosts -> BOOLEAN] /\ open \in [Hosts -> BOOLEAN]
    /\ told \in [Links -> SUBSET Names]

(* Nothing is announced before both ends are authenticated, b first        *)
StageSound(c) ==
    /\ c.bok => c.st \in {"reply", "up"}
    /\ c.aok => c.st = "up"
    /\ c.st # "up" => c.wire = <<>> /\ c.list = None

(* The remote state is that of the rx channel, the one authenticated       *)
(* channel that is open at l[2]                                            *)
RxSound(l) ==
    /\ rx[l] = 0 => remote[l] = None
    /\ rx[l] # 0 => conn[l][rx[l]].b /\ conn[l][rx[l]].bok /\ remote[l] = conn[l][rx[l]].list
    /\ \A s \in Slots : conn[l][s].b /\ conn[l][s].bok => rx[l] = s
    /\ \A k \in Kinds : remote[l][k] \subseteq peers[l]

(* The last announcement about a name that is under way decides; if there  *)
(* is none, what b has noted stands                                        *)
About(m, k, n) == m.kind = k /\ m.name = n
Silent(w, k, n) == \A i \in 1..Len(w) : ~About(w[i], k, n)
LastIs(w, k, n, on) ==
    \E i \in 1..Len(w) : /\ About(w[i], k, n) /\ (w[i].enabled <=> on)
                         /\ \A j \in 1..Len(w) : j > i => ~About(w[j], k, n)
Becomes(c, k, n, on) ==
    LastIs(c.wire, k, n, on) \/ (Silent(c.wire, k, n) /\ (n \in c.list[k] <=> on))

(* Once the channel is clear, b knows what a's clients hold *)
Heard(c, live, allowed) ==
    \A k \in Kinds, n \in Names :
        /\ n \in live[k] /\ n \in allowed => Becomes(c, k, n, TRUE)
        /\ n \notin live[k] /\ n \notin c.empty[k] => Becomes(c, k, n, FALSE)

Lives(h) == [k \in Kinds |-> Live(h, k)]

HeardSound(l) ==
    tx_auth(l) /\ rx[l] = tx[l] /\ ~conn[l][tx[l]].cut =>
        Heard(conn[l][tx[l]], Lives(l[1]), peers[l])

ToldSound(l) == tx_auth(Back(l)) => remote[l]["publish"] \subseteq told[l]

KeysSound == \A h \in Hosts, k \in Kinds : Live(h, k) \subseteq keys[h][k]

LinkSound(l) ==
    /\ \A s \in Slots : StageSound(conn[l][s])
    /\ RxSound(l) /\ HeardSound(l) /\ ToldSound(l)

IInv == Types /\ KeysSound /\ \A l \in Links : LinkSound(l)

-----------------------------------------------------------------------------
(* Announcements *)

(* SetToSeq lists every element of a finite set, each once *)
LEMMA Enumerated ==
    ASSUME NEW S \in SUBSET Names
    PROVE  /\ SetToSeq(S) \in Seq(S)
           /\ \A x \in S : \E i \in 1..Len(SetToSeq(S)) : SetToSeq(S)[i] = x
           /\ \A i, j \in 1..Len(SetToSeq(S)) : SetToSeq(S)[i] = SetToSeq(S)[j] => i = j
<1> DEFINE q == SetToSeq(S)
<1>1. IsFiniteSet(S)
    BY NamesAssumption, FS_Subset
<1>2. Cardinality(S) \in Nat /\ \E f \in [1..Cardinality(S) -> S] : IsInjective(f)
    BY <1>1, FS_CardinalityType DEF ExistsBijection, Bijection, Injection
<1>3. q \in [1..Cardinality(S) -> S] /\ IsInjective(q)
    BY <1>2 DEF SetToSeq
<1>4. q \in Injection(1..Cardinality(S), S)
    BY <1>3 DEF Injection
<1>5. Cardinality(1..Cardinality(S)) = Cardinality(S)
    BY <1>2, FS_Interval
<1>6. q \in Surjection(1..Cardinality(S), S)
    BY <1>1, <1>4, <1>5, FS_Injection
<1> HIDE DEF q
<1>7. q \in Seq(S) /\ Len(q) = Cardinality(S)
    BY <1>2, <1>3
<1>8. \A x \in S : \E i \in 1..Len(q) : q[i] = x
    BY <1>6, <1>7 DEF Surjection
<1>9. \A i, j \in 1..Len(q) : q[i] = q[j] => i = j
    BY <1>3, <1>7 DEF IsInjective
<1>10. QED
    BY <1>7, <1>8, <1>9 DEF q

(* One announcement for each name of S *)
LEMMA OneEach ==
    ASSUME NEW S \in SUBSET Names, NEW k \in Kinds, NEW w,
           w \in [1..Len(SetToSeq(S)) -> Msg],
           \A i \in 1..Len(SetToSeq(S)) : About(w[i], k, SetToSeq(S)[i])
    PROVE  /\ w \in Seq(Msg) /\ Len(w) = Len(SetToSeq(S))
           /\ \A j \in Kinds, n \in Names : j # k \/ n \notin S => Silent(w, j, n)
           /\ \A n \in S, on \in BOOLEAN :
                (\A i \in 1..Len(w) : w[i].name = n => (w[i].enabled <=> on))
                    => LastIs(w, k, n, on)
<1> DEFINE q == SetToSeq(S)
<1>1. /\ q \in Seq(S) /\ Len(q) \in Nat
      /\ \A x \in S : \E i \in 1..Len(q) : q[i] = x
      /\ \A i, j \in 1..Len(q) : q[i] = q[j] => i = j
    BY Enumerated
<1>2. w \in [1..Len(q) -> Msg] /\ \A i \in 1..Len(q) : About(w[i], k, q[i])
    OBVIOUS
<1> HIDE DEF q
<1>3. w \in Seq(Msg) /\ Len(w) = Len(q)
    BY <1>1, <1>2
<1>4. ASSUME NEW j \in Kinds, NEW n \in Names, j # k \/ n \notin S PROVE Silent(w, j, n)
    BY <1>1, <1>2, <1>3, <1>4 DEF Silent, About
<1>5. ASSUME NEW n \in S, NEW on \in BOOLEAN,
             \A i \in 1..Len(w) : w[i].name = n => (w[i].enabled <=> on)
      PROVE  LastIs(w, k, n, on)
    <2>1. PICK i \in 1..Len(q) : q[i] = n
        BY <1>1
    <2>2. About(w[i], k, n) /\ (w[i].enabled <=> on)
        BY <1>2, <1>3, <1>5, <2>1 DEF About
    <2>3. ASSUME NEW j \in 1..Len(w), j > i PROVE ~About(w[j], k, n)
        BY <1>1, <1>2, <1>3, <2>1, <2>3 DEF About
    <2>4. QED
        BY <1>3, <2>2, <2>3 DEF LastIs
<1>6. QED
    BY <1>3, <1>4, <1>5 DEF q

(* What is sent later decides *)
LEMMA Later ==
    ASSUME NEW v \in Seq(Msg), NEW w \in Seq(Msg), NEW k, NEW n, NEW on
    PROVE  /\ v \o w \in Seq(Msg)
           /\ LastIs(w, k, n, on) => LastIs(v \o w, k, n, on)
           /\ Silent(w, k, n) /\ LastIs(v, k, n, on) => LastIs(v \o w, k, n, on)
           /\ Silent(w, k, n) /\ Silent(v, k, n) => Silent(v \o w, k, n)
<1>1. /\ v \o w \in Seq(Msg) /\ Len(v \o w) = Len(v) + Len(w)
      /\ Len(v) \in Nat /\ Len(w) \in Nat
      /\ \A i \in 1..Len(v) : (v \o w)[i] = v[i]
      /\ \A i \in 1..Len(w) : (v \o w)[Len(v) + i] = w[i]
    OBVIOUS
<1> DEFINE u == v \o w
<1>2. \A j \in 1..Len(u) : j > Len(v) => j - Len(v) \in 1..Len(w) /\ u[j] = w[j - Len(v)]
    BY <1>1
<1>3. /\ u \in Seq(Msg) /\ Len(u) = Len(v) + Len(w)
      /\ \A i \in 1..Len(v) : u[i] = v[i]
      /\ \A i \in 1..Len(w) : u[Len(v) + i] = w[i]
    BY <1>1
<1> HIDE DEF u
<1>4. ASSUME LastIs(w, k, n, on) PROVE LastIs(u, k, n, on)
    <2>1. PICK i \in 1..Len(w) : /\ About(w[i], k, n) /\ (w[i].enabled <=> on)
                                 /\ \A j \in 1..Len(w) : j > i => ~About(w[j], k, n)
        BY <1>4 DEF LastIs
    <2>2. Len(v) + i \in 1..Len(u) /\ u[Len(v) + i] = w[i]
        BY <1>1, <1>3
    <2>3. ASSUME NEW j \in 1..Len(u), j > Len(v) + i PROVE ~About(u[j], k, n)
        <3>1. j - Len(v) \in 1..Len(w) /\ u[j] = w[j - Len(v)] /\ j - Len(v) > i
            BY <1>1, <1>2, <2>3
        <3>2. QED
            BY <2>1, <3>1
    <2>4. QED
        BY <2>1, <2>2, <2>3 DEF LastIs
<1>5. ASSUME Silent(w, k, n), LastIs(v, k, n, on) PROVE LastIs(u, k, n, on)
    <2>1. PICK i \in 1..Len(v) : /\ About(v[i], k, n) /\ (v[i].enabled <=> on)
                                 /\ \A j \in 1..Len(v) : j > i => ~About(v[j], k, n)
        BY <1>5 DEF LastIs
    <2>2. i \in 1..Len(u) /\ u[i] = v[i]
        BY <1>1, <1>3
    <2>3. ASSUME NEW j \in 1..Len(u), j > i PROVE ~About(u[j], k, n)
        <3>1. CASE j \in 1..Len(v)
            BY <1>3, <2>1, <2>3, <3>1
        <3>2. CASE j > Len(v)
            BY <1>2, <1>5, <3>2 DEF Silent
        <3>3. QED
            BY <1>1, <3>1, <3>2
    <2>4. QED
        BY <2>1, <2>2, <2>3 DEF LastIs
<1>6. ASSUME Silent(w, k, n), Silent(v, k, n) PROVE Silent(u, k, n)
    <2>1. ASSUME NEW j \in 1..Len(u) PROVE ~About(u[j], k, n)
        <3>1. CASE j \in 1..Len(v)
            BY <1>3, <1>6, <3>1 DEF Silent
        <3>2. CASE j > Len(v)
            BY <1>2, <1>6, <3>2 DEF Silent
        <3>3. QED
            BY <1>1, <3>1, <3>2
    <2>2. QED
        BY <2>1 DEF Silent
<1>7. QED
    BY <1>3, <1>4, <1>5, <1>6 DEF u

(* What is left when the first one has been handled *)
LEMMA Handled ==
    ASSUME NEW w \in Seq(Msg), w # <<>>, NEW k, NEW n, NEW on
    PROVE  /\ Head(w) \in Msg /\ Tail(w) \in Seq(Msg)
           /\ LastIs(w, k, n, on) =>
                \/ LastIs(Tail(w), k, n, on)
                \/ About(Head(w), k, n) /\ (Head(w).enabled <=> on) /\ Silent(Tail(w), k, n)
           /\ Silent(w, k, n) => Silent(Tail(w), k, n) /\ ~About(Head(w), k, n)
<1> DEFINE t == Tail(w)
<1>1. /\ t \in Seq(Msg) /\ Len(w) \in Nat \ {0} /\ Len(t) = Len(w) - 1
      /\ Head(w) = w[1] /\ Head(w) \in Msg
      /\ \A i \in 1..Len(t) : t[i] = w[i + 1]
    OBVIOUS
<1> HIDE DEF t
<1>2. ASSUME LastIs(w, k, n, on)
      PROVE  \/ LastIs(t, k, n, on)
             \/ About(Head(w), k, n) /\ (Head(w).enabled <=> on) /\ Silent(t, k, n)
    <2>1. PICK i \in 1..Len(w) : /\ About(w[i], k, n) /\ (w[i].enabled <=> on)
                                 /\ \A j \in 1..Len(w) : j > i => ~About(w[j], k, n)
        BY <1>2 DEF LastIs
    <2>2. CASE i = 1
        <3>1. ASSUME NEW j \in 1..Len(t) PROVE ~About(t[j], k, n)
            BY <1>1, <2>1, <2>2
        <3>2. QED
            BY <1>1, <2>1, <2>2, <3>1 DEF Silent
    <2>3. CASE i # 1
        <3>1. i - 1 \in 1..Len(t) /\ t[i - 1] = w[i]
            BY <1>1, <2>3
        <3>2. ASSUME NEW j \in 1..Len(t), j > i - 1 PROVE ~About(t[j], k, n)
            BY <1>1, <2>1, <3>2
        <3>3. QED
            BY <2>1, <3>1, <3>2 DEF LastIs
    <2>4. QED
        BY <2>2, <2>3
<1>3. ASSUME Silent(w, k, n) PROVE Silent(t, k, n) /\ ~About(Head(w), k, n)
    BY <1>1, <1>3 DEF Silent
<1>4. QED
    BY <1>1, <1>2, <1>3 DEF t
-----------------------------------------------------------------------------
(* Steps that add nothing to what a link's ends know *)

LEMMA BackLink ==
    ASSUME NEW l \in Links
    PROVE  Back(l) \in Links /\ Back(Back(l)) = l /\ l[1] \in Hosts /\ l[2] \in Hosts
           /\ Back(l) # l /\ Back(l)[1] = l[2] /\ Back(l)[2] = l[1]
BY DEF Links, Back

(* What a channel may do in such a step: neither end becomes               *)
(* authenticated, and between two that are nothing is lost unless the      *)
(* stream is cut                                                           *)
Keeps(c, d) ==
    /\ d.aok => c.aok
    /\ d.b /\ d.bok => c.b /\ c.bok /\ d.list = c.list
    /\ d.aok /\ d.b /\ d.bok /\ ~d.cut => ~c.cut /\ d.wire = c.wire /\ d.empty = c.empty

ChannelsCalm(l) ==
    \A s \in Slots : Keeps(conn[l][s], conn'[l][s]) /\ StageSound(conn'[l][s])

TxCalm(l) == (tx'[l] = tx[l] /\ Lives(l[1])' = Lives(l[1])) \/ ~tx_auth(l)'

RxCalm(l) ==
    \/ /\ rx'[l] = rx[l] /\ remote'[l] = remote[l] /\ peers'[l] = peers[l]
       /\ rx[l] # 0 => conn'[l][rx[l]].b /\ conn'[l][rx[l]].bok
    \/ /\ rx'[l] = 0 /\ remote'[l] = None
       /\ rx[l] # 0 => ~conn'[l][rx[l]].b

ToldCalm(l) == told[l] \subseteq told'[l] \/ remote'[l] = None \/ ~tx_auth(Back(l))'

Calm(l) == ChannelsCalm(l) /\ TxCalm(l) /\ RxCalm(l) /\ ToldCalm(l)

LEMMA HeardKept ==
    ASSUME NEW c, NEW d, NEW live, NEW allowed, Heard(c, live, allowed),
           d.wire = c.wire, d.list = c.list, d.empty = c.empty
    PROVE  Heard(d, live, allowed)
BY DEF Heard, Becomes

(* tx_auth does not come about *)
LEMMA TxAuthCalm ==
    ASSUME Types, NEW l \in Links, ChannelsCalm(l), TxCalm(l), tx_auth(l)'
    PROVE  tx_auth(l) /\ tx'[l] = tx[l] /\ tx[l] \in Slots /\ Lives(l[1])' = Lives(l[1])
BY DEF ChannelsCalm, TxCalm, tx_auth, Keeps, Types

LEMMA RxKept ==
    ASSUME IInv, NEW l \in Links, ChannelsCalm(l), RxCalm(l)
    PROVE  RxSound(l)'
<1>1. RxSound(l) /\ rx[l] \in Slots \union {0} /\ 0 \notin Slots
    BY BoundAssumption DEF IInv, LinkSound, Types
<1>2. CASE /\ rx'[l] = rx[l] /\ remote'[l] = remote[l] /\ peers'[l] = peers[l]
           /\ rx[l] # 0 => conn'[l][rx[l]].b /\ conn'[l][rx[l]].bok
    BY <1>1, <1>2 DEF RxSound, ChannelsCalm, Keeps
<1>3. CASE /\ rx'[l] = 0 /\ remote'[l] = None
           /\ rx[l] # 0 => ~conn'[l][rx[l]].b
    <2>1. ASSUME NEW s \in Slots PROVE ~(conn'[l][s].b /\ conn'[l][s].bok)
        BY <1>1, <1>3 DEF RxSound, ChannelsCalm, Keeps
    <2>2. \A k \in Kinds : None[k] = {}
        BY DEF None
    <2>3. QED
        BY <1>3, <2>1, <2>2 DEF RxSound
<1>4. QED
    BY <1>2, <1>3 DEF RxCalm

LEMMA HeardCalm ==
    ASSUME IInv, NEW l \in Links, ChannelsCalm(l), TxCalm(l), RxCalm(l)
    PROVE  HeardSound(l)'
<1> SUFFICES ASSUME tx_auth(l)', rx'[l] = tx'[l], ~conn'[l][tx'[l]].cut
             PROVE  Heard(conn'[l][tx'[l]], Lives(l[1])', peers'[l])
    BY DEF HeardSound
<1>1. tx_auth(l) /\ tx'[l] = tx[l] /\ tx[l] \in Slots /\ Lives(l[1])' = Lives(l[1])
    BY TxAuthCalm DEF IInv
<1> DEFINE c == conn[l][tx[l]]
           d == conn'[l][tx[l]]
<1>2. tx[l] # 0 /\ rx'[l] = tx[l]
    BY <1>1, BoundAssumption
<1>3. rx[l] = tx[l] /\ peers'[l] = peers[l] /\ d.b /\ d.bok
    BY <1>2 DEF RxCalm
<1>4. d.aok /\ ~d.cut
    BY <1>1 DEF tx_auth
<1>5. ~c.cut /\ d.wire = c.wire /\ d.list = c.list /\ d.empty = c.empty
    BY <1>1, <1>3, <1>4 DEF ChannelsCalm, Keeps
<1>6. Heard(c, Lives(l[1]), peers[l])
    BY <1>1, <1>3, <1>5 DEF IInv, LinkSound, HeardSound
<1>7. Heard(d, Lives(l[1]), peers[l])
    BY <1>5, <1>6, HeardKept
<1>8. QED
    BY <1>1, <1>3, <1>7

LEMMA ToldKept ==
    ASSUME IInv, NEW l \in Links, ChannelsCalm(Back(l)), TxCalm(Back(l)), ToldCalm(l),
           remote'[l] = remote[l] \/ remote'[l] = None
    PROVE  ToldSound(l)'
<1> SUFFICES ASSUME tx_auth(Back(l))' PROVE remote'[l]["publish"] \subseteq told'[l]
    BY DEF ToldSound
<1>1. tx_auth(Back(l))
    BY BackLink, TxAuthCalm DEF IInv
<1>2. remote[l]["publish"] \subseteq told[l]
    BY <1>1 DEF IInv, LinkSound, ToldSound
<1>3. None["publish"] = {}
    BY DEF None, Kinds
<1>4. CASE remote'[l] = None
    BY <1>3, <1>4
<1>5. CASE remote'[l] # None
    BY <1>2, <1>5 DEF ToldCalm
<1>6. QED
    BY <1>4, <1>5

LEMMA CalmKeeps ==
    ASSUME IInv, Types', KeysSound', \A l \in Links : Calm(l)
    PROVE  IInv'
<1>1. ASSUME NEW l \in Links PROVE LinkSound(l)'
    <2>1. \A s \in Slots : StageSound(conn'[l][s])
        BY DEF Calm, ChannelsCalm
    <2>2. RxSound(l)' /\ HeardSound(l)'
        BY RxKept, HeardCalm DEF Calm
    <2>3. ToldSound(l)'
        BY BackLink, ToldKept DEF Calm, RxCalm
    <2>4. QED
        BY <2>1, <2>2, <2>3 DEF LinkSound
<1>2. QED
    BY <1>1 DEF IInv
LEMMA FreeChan ==
    /\ Free \in Chan /\ StageSound(Free) /\ None \in NameSets
    /\ ~Free.a /\ ~Free.b /\ ~Free.aok /\ ~Free.bok
    /\ Opened \in Chan /\ StageSound(Opened) /\ ~Opened.aok /\ ~Opened.bok
<1>1. None \in NameSets
    BY DEF None, NameSets
<1>2. <<>> \in Seq(Msg)
    OBVIOUS
<1>3. Free \in Chan /\ Opened \in Chan
    BY <1>1, <1>2 DEF Free, Opened, Chan, Stages
<1>4. QED
    BY <1>1, <1>3 DEF Free, Opened, StageSound

LEMMA KeepsSame == \A c : Keeps(c, c) /\ Keeps(c, Free) /\ Keeps(c, Opened)
BY FreeChan DEF Keeps

(* One channel changes *)
LEMMA PutOne ==
    ASSUME IInv, NEW l \in Links, NEW s \in Slots, NEW c \in Chan, conn' = Put(l, s, c)
    PROVE  /\ conn' \in [Links -> [Slots -> Chan]]
           /\ conn'[l][s] = IF c.a \/ c.b THEN c ELSE Free
           /\ \A r \in Slots : r # s => conn'[l][r] = conn[l][r]
           /\ \A m \in Links : m # l => conn'[m] = conn[m]
<1>1. conn \in [Links -> [Slots -> Chan]]
    BY DEF IInv, Types
<1>2. conn' = [conn EXCEPT ![l][s] = IF c.a \/ c.b THEN c ELSE Free]
    BY DEF Put
<1>3. QED
    BY <1>1, <1>2, FreeChan

LEMMA PutCalm ==
    ASSUME IInv, NEW l \in Links, NEW s \in Slots, NEW c \in Chan, conn' = Put(l, s, c),
           Keeps(conn[l][s], c), StageSound(c)
    PROVE  \A m \in Links : ChannelsCalm(m)
<1>1. /\ conn'[l][s] = IF c.a \/ c.b THEN c ELSE Free
      /\ \A r \in Slots : r # s => conn'[l][r] = conn[l][r]
      /\ \A m \in Links : m # l => conn'[m] = conn[m]
    BY PutOne
<1>2. \A m \in Links, r \in Slots : StageSound(conn[m][r])
    BY DEF IInv, LinkSound
<1>3. ASSUME NEW m \in Links, NEW r \in Slots
      PROVE  Keeps(conn[m][r], conn'[m][r]) /\ StageSound(conn'[m][r])
    <2>1. CASE m = l /\ r = s
        BY <1>1, <2>1, FreeChan, KeepsSame
    <2>2. CASE m # l \/ r # s
        BY <1>1, <1>2, <2>2, KeepsSame
    <2>3. QED
        BY <2>1, <2>2
<1>4. QED
    BY <1>3 DEF ChannelsCalm

(* The other ends are as before *)
LEMMA DataKept ==
    ASSUME IInv, UNCHANGED data
    PROVE  /\ KeysSound' /\ \A h \in Hosts : Lives(h)' = Lives(h)
           /\ cl' \in [Clients -> NameSets] /\ keys' \in [Hosts -> NameSets]
<1>1. cl' = cl /\ keys' = keys
    BY DEF data
<1>2. \A h \in Hosts, k \in Kinds : Live(h, k)' = Live(h, k)
    BY <1>1 DEF Live, Users
<1>3. \A h \in Hosts : Lives(h)' = Lives(h)
    BY <1>2 DEF Lives
<1>4. KeysSound'
    BY <1>1, <1>2 DEF IInv, KeysSound
<1>5. QED
    BY <1>1, <1>3, <1>4 DEF IInv, Types

(* A step of l[1] on channel s of l: it goes on, or l[1] closes its end.   *)
(* What l[2] knows stays.                                                  *)
LEMMA TxStep ==
    ASSUME IInv, NEW l \in Links, NEW s \in Slots, NEW c \in Chan, conn' = Put(l, s, c),
           Keeps(conn[l][s], c), StageSound(c),
           conn[l][s].b /\ conn[l][s].bok => c.b /\ c.bok,
           tx' = tx \/ tx' = [tx EXCEPT ![l] = 0],
           told' = told \/ (told' = [told EXCEPT ![Back(l)] = {}] /\ tx'[l] = 0),
           timer' \in [Hosts -> BOOLEAN] /\ open' \in [Hosts -> BOOLEAN],
           UNCHANGED <<data, peers, rx, remote>>
    PROVE  IInv'
<1>1. /\ Types /\ KeysSound' /\ (\A h \in Hosts : Lives(h)' = Lives(h))
      /\ cl' \in [Clients -> NameSets] /\ keys' \in [Hosts -> NameSets]
    BY DataKept DEF IInv
<1>2. tx' \in [Links -> Slots \union {0}] /\ \A m \in Links : tx'[m] = tx[m] \/ tx'[m] = 0
    BY <1>1 DEF Types
<1>3. told' \in [Links -> SUBSET Names]
    BY <1>1 DEF Types
<1>4. Types'
    BY <1>1, <1>2, <1>3, PutOne DEF Types
<1>5. ASSUME NEW m \in Links PROVE Calm(m)
    <2>1. ChannelsCalm(m)
        BY PutCalm
    <2>2. TxCalm(m)
        BY <1>1, <1>2, BackLink DEF TxCalm, tx_auth
    <2>3. RxCalm(m)
        <3>1. rx[m] \in Slots \union {0} /\ (rx[m] # 0 => conn[m][rx[m]].b /\ conn[m][rx[m]].bok)
            BY <1>1 DEF IInv, LinkSound, RxSound, Types
        <3>2. rx[m] # 0 => conn'[m][rx[m]].b /\ conn'[m][rx[m]].bok
            BY <3>1, PutOne
        <3>3. QED
            BY <3>2 DEF RxCalm
    <2>4. ToldCalm(m)
        <3>1. CASE told' = told
            BY <3>1 DEF ToldCalm
        <3>2. CASE told' = [told EXCEPT ![Back(l)] = {}] /\ tx'[l] = 0
            <4>1. CASE m = Back(l)
                BY <3>2, <4>1, BackLink DEF ToldCalm, tx_auth
            <4>2. CASE m # Back(l)
                BY <1>1, <3>2, <4>2, BackLink DEF ToldCalm, Types
            <4>3. QED
                BY <4>1, <4>2
        <3>3. QED
            BY <3>1, <3>2
    <2>5. QED
        BY <2>1, <2>2, <2>3, <2>4 DEF Calm
<1>6. QED
    BY <1>1, <1>4, <1>5, CalmKeeps
(* A channel of the model *)
LEMMA ChanFound ==
    ASSUME IInv, NEW l \in Links, NEW s \in Slots
    PROVE  conn[l][s] \in Chan /\ StageSound(conn[l][s])
BY DEF IInv, Types, LinkSound

(* The ends of a channel close; one that is not authenticated at b goes on *)
LEMMA EndsChan ==
    ASSUME NEW c \in Chan, StageSound(c)
    PROVE  /\ EndA(c) \in Chan /\ StageSound(EndA(c)) /\ Keeps(c, EndA(c))
           /\ EndA(c).b = c.b /\ EndA(c).bok = c.bok
           /\ EndB(c) \in Chan /\ StageSound(EndB(c)) /\ Keeps(c, EndB(c)) /\ ~EndB(c).b
<1>1. EndA(c) \in Chan /\ EndB(c) \in Chan
    BY DEF EndA, EndB, Chan
<1>2. EndA(c).b = c.b /\ EndA(c).bok = c.bok /\ ~EndB(c).b
    BY DEF EndA, EndB, Chan
<1>3. StageSound(EndA(c)) /\ StageSound(EndB(c))
    BY DEF StageSound, EndA, EndB, Chan
<1>4. Keeps(c, EndA(c)) /\ Keeps(c, EndB(c))
    BY DEF Keeps, EndA, EndB, Chan
<1>5. QED
    BY <1>1, <1>2, <1>3, <1>4

LEMMA AcceptInv ==
    ASSUME IInv, NEW l \in Links, NEW s \in Slots, network_accept(l, s)
    PROVE  IInv'
<1> DEFINE c == conn[l][s]
           g == [c EXCEPT !.st = "hello"]
<1>1. c \in Chan /\ StageSound(c) /\ c.st = "syn" /\ ~c.bok
    BY ChanFound DEF network_accept, StageSound
<1>2. g \in Chan /\ StageSound(g) /\ Keeps(c, g)
    BY <1>1 DEF Chan, Stages, StageSound, Keeps
<1>3. /\ conn' = Put(l, s, IF Known(l) /\ open[l[2]] THEN g ELSE EndB(c))
      /\ UNCHANGED <<data, peers, tx, rx, remote, timer, open, told>>
    BY DEF network_accept
<1>4. timer' \in [Hosts -> BOOLEAN] /\ open' \in [Hosts -> BOOLEAN]
    BY <1>3 DEF IInv, Types
<1> HIDE DEF c, g
<1>5. CASE Known(l) /\ open[l[2]]
    BY <1>1, <1>2, <1>3, <1>4, <1>5, TxStep DEF c
<1>6. CASE ~(Known(l) /\ open[l[2]])
    BY <1>1, <1>3, <1>4, <1>6, EndsChan, TxStep DEF c
<1>7. QED
    BY <1>5, <1>6

LEMMA HelloInv ==
    ASSUME IInv, NEW l \in Links, NEW s \in Slots, hello(l, s)
    PROVE  IInv'
<1> DEFINE c == conn[l][s]
           g == [c EXCEPT !.st = "auth"]
<1>1. c \in Chan /\ StageSound(c) /\ c.st = "hello" /\ ~c.bok
    BY ChanFound DEF hello, StageSound
<1>2. g \in Chan /\ StageSound(g) /\ Keeps(c, g)
    BY <1>1 DEF Chan, Stages, StageSound, Keeps
<1>3. /\ timer' \in [Hosts -> BOOLEAN] /\ open' \in [Hosts -> BOOLEAN]
      /\ UNCHANGED <<data, peers, rx, remote>>
    BY DEF hello, IInv, Types
<1>4. CASE conn' = Put(l, s, g) /\ UNCHANGED <<tx, told, faults>>
    <2> HIDE DEF c, g
    <2>1. QED
        BY <1>1, <1>2, <1>3, <1>4, TxStep DEF c
<1>5. CASE /\ conn' = Put(l, s, EndA(c)) /\ tx' = [tx EXCEPT ![l] = 0]
           /\ told' = [told EXCEPT ![Back(l)] = {}]
    <2>1. tx'[l] = 0
        BY <1>5 DEF IInv, Types
    <2> HIDE DEF c, g
    <2>2. QED
        BY <1>1, <1>3, <1>5, <2>1, EndsChan, TxStep DEF c
<1>6. QED
    BY <1>4, <1>5 DEF hello

LEMMA TimeoutInv ==
    ASSUME IInv, NEW l \in Links, NEW s \in Slots, handshake_timeout(l, s)
    PROVE  IInv'
<1> DEFINE c == conn[l][s]
<1>1. c \in Chan /\ StageSound(c)
    BY ChanFound
<1>2. /\ timer' \in [Hosts -> BOOLEAN] /\ open' \in [Hosts -> BOOLEAN]
      /\ UNCHANGED <<data, peers, rx, remote, told>>
    BY DEF handshake_timeout, IInv, Types
<1>3. CASE conn' = Put(l, s, EndA(c)) /\ tx' = [tx EXCEPT ![l] = 0]
    BY <1>1, <1>2, <1>3, EndsChan, TxStep
<1>4. CASE c.st \in {"hello", "auth"} /\ conn' = Put(l, s, EndB(c)) /\ tx' = tx
    <2>1. ~c.bok
        BY <1>1, <1>4 DEF StageSound
    <2>2. QED
        BY <1>1, <1>2, <1>4, <2>1, EndsChan, TxStep
<1>5. QED
    BY <1>3, <1>4 DEF handshake_timeout

LEMMA CutInv ==
    ASSUME IInv, NEW l \in Links, NEW s \in Slots, cut(l, s)
    PROVE  IInv'
<1> DEFINE c == conn[l][s]
<1>1. c \in Chan /\ StageSound(c)
    BY ChanFound
<1>2. /\ timer' \in [Hosts -> BOOLEAN] /\ open' \in [Hosts -> BOOLEAN]
      /\ UNCHANGED <<data, peers, tx, rx, remote, told>>
    BY DEF cut, IInv, Types
<1>3. PICK n \in 0..Len(c.wire), sign \in SUBSET {"a", "b"} :
        conn' = Put(l, s, [c EXCEPT !.cut = TRUE, !.sign = sign, !.wire = SubSeq(@, 1, n),
                                    !.b = c.st # "syn"])
    BY DEF cut
<1> DEFINE w == SubSeq(c.wire, 1, n)
           g == [c EXCEPT !.cut = TRUE, !.sign = sign, !.wire = w, !.b = c.st # "syn"]
<1>4. c.wire \in Seq(Msg) /\ Len(c.wire) \in Nat /\ c.b /\ (c.bok => c.st # "syn")
    BY <1>1 DEF Chan, cut, StageSound
<1>5. w \in Seq(Msg) /\ (c.wire = <<>> => w = <<>>)
    BY <1>4
<1> HIDE DEF w
<1>6. g \in Chan /\ StageSound(g) /\ Keeps(c, g) /\ (c.b /\ c.bok => g.b /\ g.bok)
    BY <1>1, <1>4, <1>5 DEF Chan, StageSound, Keeps
<1>7. conn' = Put(l, s, g)
    BY <1>3 DEF w
<1> HIDE DEF c, g
<1>8. QED
    BY <1>1, <1>2, <1>6, <1>7, TxStep DEF c

LEMMA TxDisconnectInv ==
    ASSUME IInv, NEW l \in Links, NEW s \in Slots, tx_disconnect(l, s)
    PROVE  IInv'
<1> DEFINE c == conn[l][s]
<1>1. c \in Chan /\ StageSound(c)
    BY ChanFound
<1>2. /\ conn' = Put(l, s, EndA(c)) /\ tx' = [tx EXCEPT ![l] = 0]
      /\ told' = [told EXCEPT ![Back(l)] = {}] /\ UNCHANGED <<data, peers, rx, remote>>
    BY DEF tx_disconnect
<1>3. timer' \in [Hosts -> BOOLEAN] /\ open' \in [Hosts -> BOOLEAN] /\ tx'[l] = 0
    BY <1>2, BackLink DEF tx_disconnect, IInv, Types
<1>4. QED
    BY <1>1, <1>2, <1>3, EndsChan, TxStep

LEMMA MessageInv ==
    ASSUME IInv, NEW c \in Clients, NEW n \in Names, client_message(c, n)
    PROVE  IInv'
<1> DEFINE d(l) == conn[l][tx[l]]
           told_a(l) == [d(l) EXCEPT !.sign = @ \union {"a"}]
           early(l) == [d(l) EXCEPT !.early = TRUE]
<1>1. PICK l \in Links :
        tx[l] # 0 /\ (conn' = Put(l, tx[l], told_a(l)) \/ conn' = Put(l, tx[l], early(l)))
    BY DEF client_message
<1>2. /\ timer' \in [Hosts -> BOOLEAN] /\ open' \in [Hosts -> BOOLEAN]
      /\ UNCHANGED <<data, peers, tx, rx, remote, told>>
    BY DEF client_message, IInv, Types
<1>3. tx[l] \in Slots
    BY <1>1 DEF IInv, Types
<1>4. d(l) \in Chan /\ StageSound(d(l))
    BY <1>3, ChanFound
<1>5. PICK g \in {told_a(l), early(l)} : conn' = Put(l, tx[l], g)
    BY <1>1
<1>6. g \in Chan /\ StageSound(g) /\ Keeps(d(l), g) /\ g.b = d(l).b /\ g.bok = d(l).bok
    <2>1. CASE g = told_a(l)
        BY <1>4, <2>1 DEF Chan, StageSound, Keeps
    <2>2. CASE g = early(l)
        BY <1>4, <2>2 DEF Chan, StageSound, Keeps
    <2>3. QED
        BY <2>1, <2>2
<1>7. Keeps(conn[l][tx[l]], g) /\ (conn[l][tx[l]].b /\ conn[l][tx[l]].bok => g.b /\ g.bok)
    BY <1>6
<1> HIDE DEF d, told_a, early
<1>8. QED
    BY <1>2, <1>3, <1>5, <1>6, <1>7, TxStep
LEMMA RxFound ==
    ASSUME IInv, NEW l \in Links
    PROVE  /\ rx[l] \in Slots \union {0} /\ tx[l] \in Slots \union {0} /\ 0 \notin Slots
           /\ rx[l] # 0 => conn[l][rx[l]].b /\ conn[l][rx[l]].bok
                           /\ remote[l] = conn[l][rx[l]].list
           /\ \A s \in Slots : conn[l][s].b /\ conn[l][s].bok => rx[l] = s
BY BoundAssumption DEF IInv, Types, LinkSound, RxSound

LEMMA RxDisconnectInv ==
    ASSUME IInv, NEW l \in Links, NEW s \in Slots, rx_disconnect(l, s)
    PROVE  IInv'
<1> DEFINE c == conn[l][s]
<1>1. c \in Chan /\ StageSound(c)
    BY ChanFound
<1>2. /\ conn' = Put(l, s, EndB(c)) /\ c.b /\ UNCHANGED <<data, peers, tx, timer, open>>
    BY DEF rx_disconnect
<1>3. Types /\ timer' \in [Hosts -> BOOLEAN] /\ open' \in [Hosts -> BOOLEAN]
    BY <1>2 DEF IInv, Types
<1>4. CASE rx[l] # s
    <2>1. rx' = rx /\ remote' = remote /\ told' = told
        BY <1>4 DEF rx_disconnect
    <2>2. ~c.bok
        BY <1>2, <1>4, RxFound
    <2>3. QED
        BY <1>1, <1>2, <1>3, <2>1, <2>2, EndsChan, TxStep
<1>5. CASE rx[l] = s
    <2>1. /\ rx' = [rx EXCEPT ![l] = 0] /\ remote' = [remote EXCEPT ![l] = None]
          /\ told' = [told EXCEPT ![l] = {}]
        BY <1>5 DEF rx_disconnect
    <2>2. /\ KeysSound' /\ (\A h \in Hosts : Lives(h)' = Lives(h))
          /\ cl' \in [Clients -> NameSets] /\ keys' \in [Hosts -> NameSets]
        BY <1>2, DataKept
    <2>3. /\ rx' \in [Links -> Slots \union {0}] /\ remote' \in [Links -> NameSets]
          /\ told' \in [Links -> SUBSET Names]
        BY <1>3, <2>1, FreeChan DEF Types
    <2>4. /\ conn' \in [Links -> [Slots -> Chan]] /\ ~conn'[l][s].b
          /\ \A m \in Links : m # l => conn'[m] = conn[m]
        BY <1>1, <1>2, EndsChan, FreeChan, PutOne
    <2>5. Types'
        BY <1>2, <1>3, <2>2, <2>3, <2>4 DEF Types
    <2>6. ASSUME NEW m \in Links PROVE Calm(m)
        <3>1. ChannelsCalm(m)
            BY <1>1, <1>2, EndsChan, PutCalm
        <3>2. TxCalm(m)
            BY <1>2, <2>2, BackLink DEF TxCalm
        <3>3. CASE m = l
            <4>1. RxCalm(m) /\ remote'[m] = None
                BY <1>3, <1>5, <2>1, <2>4, <3>3 DEF RxCalm, Types
            <4>2. QED
                BY <3>1, <3>2, <4>1 DEF Calm, ToldCalm
        <3>4. CASE m # l
            <4>1. rx'[m] = rx[m] /\ remote'[m] = remote[m] /\ told'[m] = told[m]
                BY <1>3, <2>1, <3>4 DEF Types
            <4>2. RxCalm(m)
                BY <1>2, <2>4, <3>4, <4>1, RxFound DEF RxCalm
            <4>3. QED
                BY <3>1, <3>2, <4>1, <4>2 DEF Calm, ToldCalm
        <3>5. QED
            BY <3>3, <3>4
    <2>7. QED
        BY <2>2, <2>5, <2>6, CalmKeeps
<1>6. QED
    BY <1>4, <1>5

(* Hosts close their ends of several channels *)
LEMMA ClosedEnds ==
    ASSUME IInv, NEW A, NEW B, NEW C, C = Closed(A, B)
    PROVE  /\ C \in [Links -> [Slots -> Chan]]
           /\ \A l \in Links, s \in Slots :
                /\ Keeps(conn[l][s], C[l][s]) /\ StageSound(C[l][s])
                /\ <<l, s>> \in B => ~C[l][s].b
                /\ conn[l][s].b /\ conn[l][s].bok /\ <<l, s>> \notin B =>
                        C[l][s].b /\ C[l][s].bok
<1> DEFINE D(l, s) == [conn[l][s] EXCEPT !.a = @ /\ <<l, s>> \notin A, !.b = @ /\ <<l, s>> \notin B]
           N(l, s) == IF D(l, s).a \/ D(l, s).b THEN D(l, s) ELSE Free
<1>1. C = [l \in Links |-> [s \in Slots |-> N(l, s)]]
    BY DEF Closed
<1>2. ASSUME NEW l \in Links, NEW s \in Slots
      PROVE  /\ N(l, s) \in Chan /\ Keeps(conn[l][s], N(l, s)) /\ StageSound(N(l, s))
             /\ <<l, s>> \in B => ~N(l, s).b
             /\ conn[l][s].b /\ conn[l][s].bok /\ <<l, s>> \notin B => N(l, s).b /\ N(l, s).bok
    <2> DEFINE c == conn[l][s]
               d == D(l, s)
    <2>1. c \in Chan /\ StageSound(c)
        BY ChanFound
    <2>2. /\ d \in Chan /\ d.b = (c.b /\ <<l, s>> \notin B) /\ d.bok = c.bok
          /\ Keeps(c, d) /\ StageSound(d)
        BY <2>1 DEF Chan, Keeps, StageSound
    <2> HIDE DEF D
    <2>3. QED
        BY <2>2, FreeChan, KeepsSame
<1> HIDE DEF D, N
<1>3. \A l \in Links, s \in Slots : C[l][s] = N(l, s)
    BY <1>1
<1>4. C \in [Links -> [Slots -> Chan]]
    <2>1. ASSUME NEW l \in Links PROVE [s \in Slots |-> N(l, s)] \in [Slots -> Chan]
        BY <1>2
    <2>2. QED
        BY <1>1, <2>1
<1>5. QED
    BY <1>2, <1>3, <1>4

LEMMA ClosedChan ==
    ASSUME IInv, NEW A, NEW B, conn' = Closed(A, B)
    PROVE  /\ conn' \in [Links -> [Slots -> Chan]]
           /\ \A l \in Links : ChannelsCalm(l)
           /\ \A l \in Links, s \in Slots :
                /\ <<l, s>> \in B => ~conn'[l][s].b
                /\ conn[l][s].b /\ conn[l][s].bok /\ <<l, s>> \notin B =>
                        conn'[l][s].b /\ conn'[l][s].bok
BY ClosedEnds DEF ChannelsCalm

(* The links in S lose their rx channel: those in B are closed             *)
LoseRx(S, B) ==
    /\ \A l \in Links : l \in S => (rx[l] # 0 => <<l, rx[l]>> \in B)
    /\ \A l \in Links : l \notin S => <<l, rx[l]>> \notin B
    /\ rx' = [l \in Links |-> IF l \in S THEN 0 ELSE rx[l]]
    /\ remote' = [l \in Links |-> IF l \in S THEN None ELSE remote[l]]
    /\ told' = [l \in Links |-> IF l \in S THEN {} ELSE told[l]]
    /\ \A l \in Links : l \notin S => peers'[l] = peers[l]

LEMMA CloseStep ==
    ASSUME IInv, NEW A, NEW B, NEW S, conn' = Closed(A, B), LoseRx(S, B),
           tx' \in [Links -> Slots \union {0}],
           \A l \in Links : tx'[l] = 0 \/ (tx'[l] = tx[l] /\ Lives(l[1])' = Lives(l[1])),
           peers' \in [Links -> SUBSET Names],
           timer' \in [Hosts -> BOOLEAN] /\ open' \in [Hosts -> BOOLEAN],
           cl' \in [Clients -> NameSets], keys' \in [Hosts -> NameSets], KeysSound'
    PROVE  IInv'
<1>1. Types
    BY DEF IInv
<1>2. /\ rx' \in [Links -> Slots \union {0}]
      /\ remote' \in [Links -> NameSets] /\ told' \in [Links -> SUBSET Names]
    BY <1>1, FreeChan DEF Types, LoseRx
<1>3. Types'
    BY <1>2, ClosedChan DEF Types
<1>4. ASSUME NEW l \in Links PROVE Calm(l)
    <2>1. ChannelsCalm(l)
        BY ClosedChan
    <2>2. TxCalm(l)
        BY DEF TxCalm, tx_auth
    <2>3. CASE l \in S
        <3>1. rx'[l] = 0 /\ remote'[l] = None
            BY <2>3 DEF LoseRx
        <3>2. rx[l] # 0 => ~conn'[l][rx[l]].b
            BY <2>3, RxFound, ClosedChan DEF LoseRx
        <3>3. QED
            BY <2>1, <2>2, <3>1, <3>2 DEF Calm, RxCalm, ToldCalm
    <2>4. CASE l \notin S
        <3>1. rx'[l] = rx[l] /\ remote'[l] = remote[l] /\ told'[l] = told[l] /\ peers'[l] = peers[l]
            BY <2>4 DEF LoseRx
        <3>2. rx[l] # 0 => conn'[l][rx[l]].b /\ conn'[l][rx[l]].bok
            BY <2>4, RxFound, ClosedChan DEF LoseRx
        <3>3. QED
            BY <2>1, <2>2, <3>1, <3>2 DEF Calm, RxCalm, ToldCalm
    <2>5. QED
        BY <2>3, <2>4
<1>5. QED
    BY <1>3, <1>4, CalmKeeps

LEMMA CloseAllInv ==
    ASSUME IInv, NEW S \in SUBSET Links, CloseAll(S), UNCHANGED data,
           peers' \in [Links -> SUBSET Names],
           \A l \in Links : l \notin S => peers'[l] = peers[l],
           timer' \in [Hosts -> BOOLEAN] /\ open' \in [Hosts -> BOOLEAN]
    PROVE  IInv'
<1> DEFINE X == {Back(l) : l \in S}
           A == {<<l, tx[l]>> : l \in X}
           B == {<<l, rx[l]>> : l \in S}
<1>1. conn' = Closed(A, B) /\ tx' = [l \in Links |-> IF l \in X THEN 0 ELSE tx[l]]
    BY DEF CloseAll
<1>2. LoseRx(S, B)
    BY DEF CloseAll, LoseRx
<1>3. /\ KeysSound' /\ \A l \in Links : Lives(l[1])' = Lives(l[1])
      /\ cl' \in [Clients -> NameSets] /\ keys' \in [Hosts -> NameSets]
    BY DataKept, BackLink
<1> HIDE DEF X, A, B
<1>4. /\ tx' \in [Links -> Slots \union {0}]
      /\ \A l \in Links : tx'[l] = 0 \/ (tx'[l] = tx[l] /\ Lives(l[1])' = Lives(l[1]))
    BY <1>1, <1>3 DEF IInv, Types
<1>5. QED
    BY <1>1, <1>2, <1>3, <1>4, CloseStep

(* Nothing but the timers and the sockets of the hosts *)
LEMMA SwitchInv ==
    ASSUME IInv, UNCHANGED <<data, peers, conn, tx, rx, remote, told>>,
           timer' \in [Hosts -> BOOLEAN] /\ open' \in [Hosts -> BOOLEAN]
    PROVE  IInv'
<1>1. KeysSound' /\ (\A h \in Hosts : Lives(h)' = Lives(h))
    BY DataKept
<1>2. Types'
    BY DataKept DEF IInv, Types
<1>3. ASSUME NEW l \in Links PROVE Calm(l)
    <2>1. ChannelsCalm(l)
        BY ChanFound, KeepsSame DEF ChannelsCalm
    <2>2. TxCalm(l)
        BY <1>1, BackLink DEF TxCalm
    <2>3. RxCalm(l)
        BY RxFound DEF RxCalm
    <2>4. ToldCalm(l)
        BY DEF ToldCalm
    <2>5. QED
        BY <2>1, <2>2, <2>3, <2>4 DEF Calm
<1>4. QED
    BY <1>1, <1>2, <1>3, CalmKeeps

LEMMA OpeningTypes ==
    ASSUME IInv, NEW h \in Hosts, Opening(h)
    PROVE  timer' \in [Hosts -> BOOLEAN] /\ open' \in [Hosts -> BOOLEAN]
BY DEF Opening, IInv, Types

LEMMA OpenInv ==
    ASSUME IInv, NEW h \in Hosts, network_open(h)
    PROVE  IInv'
<1>1. timer' \in [Hosts -> BOOLEAN] /\ open' \in [Hosts -> BOOLEAN]
    BY OpeningTypes DEF network_open
<1>2. QED
    BY <1>1, SwitchInv DEF network_open

LEMMA UpdateInv ==
    ASSUME IInv, NEW l \in Links, NEW allowed \in SUBSET Names, network_update(l, allowed)
    PROVE  IInv'
<1>1. /\ CloseAll({l}) /\ UNCHANGED data /\ peers' = [peers EXCEPT ![l] = allowed]
      /\ \/ timer' = [timer EXCEPT ![l[2]] = TRUE] /\ UNCHANGED open
         \/ Opening(l[2])
    BY DEF network_update
<1>2. timer' \in [Hosts -> BOOLEAN] /\ open' \in [Hosts -> BOOLEAN]
    <2>1. CASE timer' = [timer EXCEPT ![l[2]] = TRUE] /\ UNCHANGED open
        BY <2>1, BackLink DEF IInv, Types
    <2>2. CASE Opening(l[2])
        BY <2>2, BackLink, OpeningTypes
    <2>3. QED
        BY <1>1, <2>1, <2>2
<1>3. /\ peers' \in [Links -> SUBSET Names]
      /\ \A m \in Links : m \notin {l} => peers'[m] = peers[m]
    BY <1>1 DEF IInv, Types
<1>4. QED
    BY <1>1, <1>2, <1>3, CloseAllInv

LEMMA ReopenInv ==
    ASSUME IInv, NEW h \in Hosts, network_reopen(h)
    PROVE  IInv'
<1>1. CloseAll({l \in Links : l[2] = h}) /\ UNCHANGED <<data, peers>>
    BY DEF network_reopen
<1>2. timer' \in [Hosts -> BOOLEAN] /\ open' \in [Hosts -> BOOLEAN]
    BY OpeningTypes DEF network_reopen
<1>3. peers' \in [Links -> SUBSET Names]
    BY <1>1 DEF IInv, Types
<1>4. QED
    BY <1>1, <1>2, <1>3, CloseAllInv
LEMMA RestartInv ==
    ASSUME IInv, NEW h \in Hosts, restart(h)
    PROVE  IInv'
<1> DEFINE A == {ls \in Links \X Slots : ls[1][1] = h}
           B == {ls \in Links \X Slots : ls[1][2] = h}
           S == {l \in Links : l[2] = h}
<1>1. /\ conn' = Closed(A, B)
      /\ tx' = [l \in Links |-> IF l[1] = h THEN 0 ELSE tx[l]]
      /\ cl' = [c \in Clients |-> IF Home[c] = h THEN None ELSE cl[c]]
      /\ keys' = [keys EXCEPT ![h] = None]
      /\ peers' = peers
    BY DEF restart
<1>2. LoseRx(S, B)
    <2>1. \A l \in Links : l \in S => (rx[l] # 0 => <<l, rx[l]>> \in B)
        BY RxFound
    <2>2. \A l \in Links : l \notin S => <<l, rx[l]>> \notin B
        OBVIOUS
    <2>3. QED
        BY <2>1, <2>2 DEF restart, LoseRx
<1>3. Types
    BY DEF IInv
<1>4. /\ cl' \in [Clients -> NameSets] /\ keys' \in [Hosts -> NameSets]
      /\ peers' \in [Links -> SUBSET Names] /\ tx' \in [Links -> Slots \union {0}]
      /\ timer' \in [Hosts -> BOOLEAN] /\ open' \in [Hosts -> BOOLEAN]
    BY <1>1, <1>3, FreeChan, OpeningTypes DEF Types, restart
<1>5. ASSUME NEW g \in Hosts, NEW k \in Kinds
      PROVE  Live(g, k)' = IF g = h THEN {} ELSE Live(g, k)
    BY <1>1, <1>5, ClientAssumption DEF Live, Users, None
<1>6. KeysSound'
    BY <1>1, <1>3, <1>5 DEF KeysSound, IInv, Types
<1>7. \A l \in Links : tx'[l] = 0 \/ (tx'[l] = tx[l] /\ Lives(l[1])' = Lives(l[1]))
    BY <1>1, <1>5, BackLink DEF Lives
<1> HIDE DEF A, B, S
<1>8. QED
    BY <1>1, <1>2, <1>4, <1>6, <1>7, CloseStep

LEMMA ConnectInv ==
    ASSUME IInv, NEW h \in Hosts, network_connect_peers(h)
    PROVE  IInv'
<1> DEFINE P == Pending(h)
           N(l, s) == IF s = Slot(l) THEN Opened
                      ELSE IF s # tx[l] THEN conn[l][s]
                      ELSE IF conn[l][s].b THEN EndA(conn[l][s]) ELSE Free
<1>1. /\ conn' = [l \in Links |-> IF l \notin P THEN conn[l] ELSE [s \in Slots |-> N(l, s)]]
      /\ tx' = [l \in Links |-> IF l \in P THEN Slot(l) ELSE tx[l]]
      /\ timer' = [timer EXCEPT ![h] = P # {}]
      /\ UNCHANGED <<data, peers, rx, remote, open, told>>
      /\ \A l \in P : \E s \in Slots : conn[l][s] = Free
    BY DEF network_connect_peers
<1>2. Types /\ \A l \in Links, s \in Slots : conn[l][s] \in Chan /\ StageSound(conn[l][s])
    BY ChanFound DEF IInv
<1>3. \A l \in P : l \in Links /\ Slot(l) \in Slots /\ conn[l][Slot(l)] = Free
    BY <1>1 DEF Slot, Pending
<1>4. ASSUME NEW l \in Links, NEW s \in Slots
      PROVE  /\ N(l, s) \in Chan /\ StageSound(N(l, s))
             /\ Keeps(conn[l][s], N(l, s))
             /\ s # Slot(l) /\ conn[l][s].b /\ conn[l][s].bok => N(l, s).b /\ N(l, s).bok
    BY <1>2, FreeChan, KeepsSame, EndsChan
<1>5. \A l \in Links : l \in P => N(l, Slot(l)) = Opened
    OBVIOUS
<1> HIDE DEF P, N
<1>6. /\ \A l \in Links : l \notin P => conn'[l] = conn[l] /\ tx'[l] = tx[l]
      /\ \A l \in Links : l \in P => tx'[l] = Slot(l) /\ \A s \in Slots : conn'[l][s] = N(l, s)
    BY <1>1
<1>7. Types'
    <2>1. ASSUME NEW l \in Links PROVE conn'[l] \in [Slots -> Chan]
        <3>1. CASE l \in P
            BY <1>1, <1>4, <3>1
        <3>2. CASE l \notin P
            BY <1>1, <1>2, <3>2 DEF Types
        <3>3. QED
            BY <3>1, <3>2
    <2>2. conn' \in [Links -> [Slots -> Chan]]
        BY <1>1, <2>1
    <2>3. tx' \in [Links -> Slots \union {0}]
        BY <1>1, <1>2, <1>3 DEF Types
    <2>4. timer' \in [Hosts -> BOOLEAN] /\ open' \in [Hosts -> BOOLEAN]
        BY <1>1, <1>2 DEF Types
    <2>5. QED
        BY <1>1, <1>2, <2>2, <2>3, <2>4, DataKept DEF Types
<1>8. KeysSound' /\ \A l \in Links : Lives(l[1])' = Lives(l[1])
    BY <1>1, DataKept, BackLink
<1>9. ASSUME NEW l \in Links PROVE Calm(l)
    <2>1. ChannelsCalm(l)
        BY <1>2, <1>4, <1>6, KeepsSame DEF ChannelsCalm
    <2>2. TxCalm(l)
        <3>1. CASE l \notin P
            BY <1>6, <1>8, <3>1 DEF TxCalm
        <3>2. CASE l \in P
            <4>1. tx'[l] = Slot(l) /\ conn'[l][Slot(l)] = Opened
                BY <1>3, <1>5, <1>6, <3>2
            <4>2. QED
                BY <4>1, FreeChan DEF TxCalm, tx_auth
        <3>3. QED
            BY <3>1, <3>2
    <2>3. rx[l] # 0 => conn'[l][rx[l]].b /\ conn'[l][rx[l]].bok
        <3>1. CASE l \notin P
            BY <1>6, <3>1, RxFound
        <3>2. CASE l \in P /\ rx[l] # 0
            <4>1. rx[l] \in Slots /\ conn[l][rx[l]].b /\ conn[l][rx[l]].bok
                BY <3>2, RxFound
            <4>2. rx[l] # Slot(l)
                BY <1>3, <3>2, <4>1, FreeChan
            <4>3. QED
                BY <1>4, <1>6, <3>2, <4>1, <4>2
        <3>3. QED
            BY <3>1, <3>2
    <2>4. RxCalm(l) /\ ToldCalm(l)
        BY <1>1, <2>3 DEF RxCalm, ToldCalm
    <2>5. QED
        BY <2>1, <2>2, <2>4 DEF Calm
<1>10. QED
    BY <1>7, <1>8, <1>9, CalmKeeps
-----------------------------------------------------------------------------
(* Steps that tell the ends of link l something *)

LEMMA OneLink ==
    ASSUME IInv, Types', KeysSound', NEW l \in Links,
           \A m \in Links : m # l => ChannelsCalm(m) /\ TxCalm(m) /\ RxCalm(m),
           \A s \in Slots : StageSound(conn'[l][s]),
           RxSound(l)', HeardSound(l)', \A m \in Links : ToldSound(m)'
    PROVE  IInv'
<1>1. ASSUME NEW m \in Links, m # l PROVE LinkSound(m)'
    <2>1. RxSound(m)' /\ HeardSound(m)'
        BY <1>1, RxKept, HeardCalm
    <2>2. QED
        BY <1>1, <2>1 DEF LinkSound, ChannelsCalm
<1>2. LinkSound(l)'
    BY DEF LinkSound
<1>3. QED
    BY <1>1, <1>2 DEF IInv

LEMMA CheckAuthInv ==
    ASSUME IInv, NEW l \in Links, NEW s \in Slots, network_check_auth(l, s)
    PROVE  IInv'
<1> DEFINE c == conn[l][s]
           g == [c EXCEPT !.st = "reply", !.bok = TRUE]
           R == IF rx[l] = 0 THEN {} ELSE {<<l, rx[l]>>}
           C == Closed({}, R)
<1>1. c \in Chan /\ StageSound(c) /\ c.b /\ ~c.bok
      /\ UNCHANGED <<data, peers, tx, open, faults>>
    BY ChanFound DEF network_check_auth
<1>2. Types
    BY DEF IInv
<1>3. CASE /\ c.st = "auth" /\ conn' = [C EXCEPT ![l][s] = g]
           /\ rx' = [rx EXCEPT ![l] = s] /\ remote' = [remote EXCEPT ![l] = None]
           /\ told' = [told EXCEPT ![l] = {}]
           /\ timer' = [timer EXCEPT ![l[2]] = @ \/ ~tx_auth(Back(l))]
    <2>1. /\ g \in Chan /\ StageSound(g) /\ g.b /\ g.bok /\ ~g.aok /\ g.list = None
        BY <1>1, <1>3 DEF Chan, Stages, StageSound
    <2>2. /\ C \in [Links -> [Slots -> Chan]]
          /\ \A m \in Links, r \in Slots :
                /\ Keeps(conn[m][r], C[m][r]) /\ StageSound(C[m][r])
                /\ <<m, r>> \in R => ~C[m][r].b
                /\ conn[m][r].b /\ conn[m][r].bok /\ <<m, r>> \notin R => C[m][r].b /\ C[m][r].bok
        <3> HIDE DEF C, R
        <3>1. C = Closed({}, R)
            BY DEF C
        <3>2. QED
            BY <3>1, ClosedEnds
    <2> HIDE DEF g, C
    <2>3. /\ conn' \in [Links -> [Slots -> Chan]] /\ conn'[l][s] = g
          /\ \A r \in Slots : r # s => conn'[l][r] = C[l][r]
          /\ \A m \in Links : m # l => conn'[m] = C[m]
        BY <1>3, <2>1, <2>2
    <2>4. /\ rx' \in [Links -> Slots \union {0}] /\ remote' \in [Links -> NameSets]
          /\ told' \in [Links -> SUBSET Names]
          /\ timer' \in [Hosts -> BOOLEAN] /\ open' \in [Hosts -> BOOLEAN]
        BY <1>1, <1>2, <1>3, FreeChan, BackLink DEF Types
    <2>5. /\ KeysSound' /\ (\A h \in Hosts : Lives(h)' = Lives(h))
          /\ cl' \in [Clients -> NameSets] /\ keys' \in [Hosts -> NameSets]
        BY <1>1, DataKept
    <2>6. Types'
        BY <1>1, <1>2, <2>3, <2>4, <2>5 DEF Types
    <2>7. /\ rx'[l] = s /\ remote'[l] = None /\ told'[l] = {}
          /\ \A m \in Links : m # l => /\ rx'[m] = rx[m] /\ remote'[m] = remote[m]
                                       /\ told'[m] = told[m]
        BY <1>2, <1>3 DEF Types
    <2>8. ASSUME NEW m \in Links, m # l PROVE ChannelsCalm(m) /\ TxCalm(m) /\ RxCalm(m)
        <3>1. ChannelsCalm(m)
            BY <2>2, <2>3, <2>8 DEF ChannelsCalm
        <3>2. TxCalm(m)
            BY <1>1, <2>5, BackLink DEF TxCalm
        <3>3. rx[m] # 0 => conn'[m][rx[m]].b /\ conn'[m][rx[m]].bok
            BY <2>2, <2>3, <2>8, RxFound
        <3>4. QED
            BY <1>1, <2>7, <2>8, <3>1, <3>2, <3>3 DEF RxCalm
    <2>9. \A r \in Slots : StageSound(conn'[l][r])
        BY <2>1, <2>2, <2>3
    <2>10. RxSound(l)'
        <3>1. ASSUME NEW r \in Slots, r # s PROVE ~(conn'[l][r].b /\ conn'[l][r].bok)
            <4>1. SUFFICES ASSUME C[l][r].b, C[l][r].bok PROVE FALSE
                BY <2>3, <3>1
            <4>2. conn[l][r].b /\ conn[l][r].bok
                BY <2>2, <4>1 DEF Keeps
            <4>3. rx[l] = r /\ r # 0
                BY <4>2, RxFound
            <4>4. QED
                BY <2>2, <4>1, <4>3
        <3>2. \A k \in Kinds : None[k] = {}
            BY DEF None
        <3>3. s # 0
            BY RxFound
        <3>4. QED
            BY <2>1, <2>3, <2>7, <3>1, <3>2, <3>3 DEF RxSound
    <2>11. HeardSound(l)'
        BY <2>1, <2>3, <2>7 DEF HeardSound, tx_auth
    <2>12. ASSUME NEW m \in Links PROVE ToldSound(m)'
        <3>1. tx_auth(Back(m))' => tx_auth(Back(m))
            <4>1. \A q \in Links, r \in Slots : conn'[q][r].aok => conn[q][r].aok
                <5>1. ASSUME NEW q \in Links, NEW r \in Slots
                      PROVE  conn'[q][r].aok => conn[q][r].aok
                    <6>1. CASE q = l /\ r = s
                        BY <2>1, <2>3, <6>1
                    <6>2. CASE q # l \/ r # s
                        <7>1. conn'[q][r] = C[q][r]
                            BY <2>3, <6>2
                        <7>2. Keeps(conn[q][r], C[q][r])
                            BY <2>2
                        <7>3. QED
                            BY <7>1, <7>2 DEF Keeps
                    <6>3. QED
                        BY <6>1, <6>2
                <5>2. QED
                    BY <5>1
            <4>2. Back(m) \in Links /\ tx'[Back(m)] = tx[Back(m)] /\ tx[Back(m)] \in Slots \union {0}
                BY <1>1, BackLink, RxFound
            <4>3. QED
                BY <4>1, <4>2 DEF tx_auth
        <3>2. CASE m = l
            BY <2>7, <3>2 DEF ToldSound, None, Kinds
        <3>3. CASE m # l
            BY <2>7, <3>1, <3>3 DEF ToldSound, IInv, LinkSound
        <3>4. QED
            BY <3>2, <3>3
    <2>13. QED
        BY <2>5, <2>6, <2>8, <2>9, <2>10, <2>11, <2>12, OneLink
<1>4. CASE conn' = Put(l, s, EndB(c)) /\ UNCHANGED <<rx, remote, told, timer>>
    <2>1. timer' \in [Hosts -> BOOLEAN] /\ open' \in [Hosts -> BOOLEAN]
        BY <1>1, <1>2, <1>4 DEF Types
    <2>2. QED
        BY <1>1, <1>4, <2>1, EndsChan, TxStep
<1>5. QED
    BY <1>3, <1>4 DEF network_check_auth

(* auth_data_cb announces every name with a list once *)
LEMMA AnnouncedWire ==
    ASSUME Types, NEW h \in Hosts
    PROVE  /\ Announced(h) \in Seq(Msg)
           /\ \A k \in Kinds, n \in Names :
                /\ n \in keys[h][k] => LastIs(Announced(h), k, n, TRUE)
                /\ n \notin keys[h][k] => Silent(Announced(h), k, n)
<1> DEFINE q(k) == SetToSeq(keys[h][k])
           All(k) == [i \in 1..Len(q(k)) |-> Set(q(k)[i], TRUE, k)]
<1>1. ASSUME NEW k \in Kinds
      PROVE  /\ All(k) \in Seq(Msg)
             /\ \A j \in Kinds, n \in Names : j # k \/ n \notin keys[h][k] => Silent(All(k), j, n)
             /\ \A n \in keys[h][k] : LastIs(All(k), k, n, TRUE)
    <2>1. keys[h][k] \in SUBSET Names
        BY DEF Types, NameSets
    <2>2. \A i \in 1..Len(q(k)) : q(k)[i] \in Names
        BY <2>1, Enumerated
    <2>3. /\ All(k) \in [1..Len(q(k)) -> Msg]
          /\ \A i \in 1..Len(q(k)) : About(All(k)[i], k, q(k)[i]) /\ All(k)[i].enabled
        BY <2>2 DEF Set, Msg, About
    <2>4. All(k) \in Seq(Msg) /\ Len(All(k)) = Len(q(k))
        <3> HIDE DEF All
        <3>1. QED
            BY <2>1, <2>3, OneEach
    <2> HIDE DEF All
    <2>5. \A n \in keys[h][k] : LastIs(All(k), k, n, TRUE)
        BY <2>1, <2>3, <2>4, OneEach
    <2>6. \A j \in Kinds, n \in Names : j # k \/ n \notin keys[h][k] => Silent(All(k), j, n)
        BY <2>1, <2>3, OneEach
    <2>7. QED
        BY <2>4, <2>5, <2>6
<1>2. Announced(h) = All("publish") \o All("subscribe")
    BY DEF Announced
<1>3. Kinds = {"publish", "subscribe"}
    BY DEF Kinds
<1> HIDE DEF All
<1> DEFINE v == All("publish")
           w == All("subscribe")
<1>4. /\ v \in Seq(Msg) /\ w \in Seq(Msg) /\ Announced(h) = v \o w
      /\ \A n \in Names : Silent(v, "subscribe", n) /\ Silent(w, "publish", n)
      /\ \A n \in Names : n \notin keys[h]["publish"] => Silent(v, "publish", n)
      /\ \A n \in Names : n \notin keys[h]["subscribe"] => Silent(w, "subscribe", n)
      /\ \A n \in keys[h]["publish"] : LastIs(v, "publish", n, TRUE)
      /\ \A n \in keys[h]["subscribe"] : LastIs(w, "subscribe", n, TRUE)
    BY <1>1, <1>2, <1>3
<1> HIDE DEF v, w
<1>5. ASSUME NEW k \in Kinds, NEW n \in Names
      PROVE  /\ v \o w \in Seq(Msg)
             /\ n \in keys[h][k] => LastIs(v \o w, k, n, TRUE)
             /\ n \notin keys[h][k] => Silent(v \o w, k, n)
    <2>1. CASE k = "publish"
        BY <1>4, <2>1, Later
    <2>2. CASE k = "subscribe"
        BY <1>4, <2>2, Later
    <2>3. QED
        BY <1>3, <2>1, <2>2
<1>6. v \o w \in Seq(Msg)
    BY <1>4, Later
<1>7. QED
    BY <1>4, <1>5, <1>6
(* A channel of l that stays as open as it was, with the same list         *)
LEMMA SameEnds ==
    ASSUME IInv, NEW l \in Links, NEW s \in Slots, NEW c \in Chan, conn' = Put(l, s, c),
           c.b = conn[l][s].b, c.bok = conn[l][s].bok, c.a \/ c.b,
           UNCHANGED <<data, peers, rx, tx>>
    PROVE  /\ conn'[l][s] = c
           /\ \A m \in Links : m # l => ChannelsCalm(m) /\ TxCalm(m)
           /\ \A m \in Links : remote'[m] = remote[m] =>
                /\ m # l => RxCalm(m)
                /\ c.list = conn[m][s].list => RxSound(m)'
<1>1. /\ conn'[l][s] = c
      /\ \A r \in Slots : r # s => conn'[l][r] = conn[l][r]
      /\ \A m \in Links : m # l => conn'[m] = conn[m]
    BY PutOne
<1>2. ASSUME NEW m \in Links, m # l PROVE ChannelsCalm(m) /\ TxCalm(m)
    <2>1. ChannelsCalm(m)
        BY <1>1, <1>2, ChanFound, KeepsSame DEF ChannelsCalm
    <2>2. TxCalm(m)
        BY DataKept, BackLink DEF TxCalm
    <2>3. QED
        BY <2>1, <2>2
<1>3. ASSUME NEW m \in Links, m # l, remote'[m] = remote[m] PROVE RxCalm(m)
    BY <1>1, <1>3, RxFound DEF RxCalm
<1>4. ASSUME NEW m \in Links, remote'[m] = remote[m], c.list = conn[m][s].list
      PROVE  RxSound(m)'
    <2>1. CASE m # l
        BY <1>2, <1>3, <1>4, <2>1, RxKept
    <2>2. CASE m = l
        <3>1. RxSound(l)
            BY DEF IInv, LinkSound
        <3>2. \A r \in Slots : /\ conn'[l][r].b = conn[l][r].b
                               /\ conn'[l][r].bok = conn[l][r].bok
                               /\ conn'[l][r].list = conn[l][r].list
            BY <1>1, <1>4, <2>2
        <3>3. rx[l] \in Slots \union {0}
            BY RxFound
        <3>4. QED
            BY <1>4, <2>2, <3>1, <3>2, <3>3 DEF RxSound
    <2>3. QED
        BY <2>1, <2>2
<1>5. QED
    BY <1>1, <1>2, <1>3, <1>4

LEMMA AuthDataInv ==
    ASSUME IInv, NEW l \in Links, NEW s \in Slots, auth_data(l, s)
    PROVE  IInv'
<1> DEFINE c == conn[l][s]
           up == Back(l)
           empty == [k \in Kinds |-> keys[l[1]][k] \ Live(l[1], k)]
           g == [c EXCEPT !.st = "up", !.aok = TRUE, !.wire = Announced(l[1]), !.empty = empty]
           old == IF rx[up] = 0 THEN {} ELSE conn[up][rx[up]].list["publish"]
<1>1. /\ c \in Chan /\ StageSound(c) /\ c.st = "reply" /\ c.a
      /\ UNCHANGED <<data, peers, rx, remote, timer, open>>
    BY ChanFound DEF auth_data
<1>2. /\ Types /\ timer' \in [Hosts -> BOOLEAN] /\ open' \in [Hosts -> BOOLEAN]
      /\ l[1] \in Hosts /\ up \in Links
    BY <1>1, BackLink DEF IInv, Types
<1>3. CASE /\ conn' = Put(l, s, g) /\ told' = [told EXCEPT ![up] = @ \union old]
           /\ UNCHANGED <<tx, faults>>
    <2>1. Announced(l[1]) \in Seq(Msg) /\ empty \in NameSets
        <3>1. Announced(l[1]) \in Seq(Msg)
            <4> DEFINE h == l[1]
            <4>1. h \in Hosts
                BY <1>2
            <4> HIDE DEF h
            <4>2. Announced(h) \in Seq(Msg)
                BY <1>2, <4>1, AnnouncedWire
            <4>3. QED
                BY <4>2 DEF h
        <3>2. empty \in NameSets
            <4>1. keys[l[1]] \in NameSets
                BY <1>2 DEF Types
            <4>2. QED
                BY <4>1 DEF NameSets
        <3>3. QED
            BY <3>1, <3>2
    <2>2. /\ g \in Chan /\ g.st = "up" /\ g.b = c.b /\ g.bok = c.bok /\ g.a
          /\ g.wire = Announced(l[1]) /\ g.empty = empty /\ g.list = c.list /\ c.list = None
        BY <1>1, <2>1 DEF Chan, Stages, StageSound
    <2>3. StageSound(g)
        BY <2>2 DEF StageSound
    <2> HIDE DEF g
    <2>4. /\ conn'[l][s] = g
          /\ \A m \in Links : m # l => ChannelsCalm(m) /\ TxCalm(m) /\ RxCalm(m)
          /\ RxSound(l)'
        BY <1>1, <1>3, <2>2, SameEnds
    <2>5. /\ conn' \in [Links -> [Slots -> Chan]]
          /\ \A r \in Slots : r # s => conn'[l][r] = conn[l][r]
          /\ \A m \in Links : m # l => conn'[m] = conn[m]
        BY <1>3, <2>2, PutOne
    <2>6. KeysSound' /\ \A h \in Hosts : Lives(h)' = Lives(h)
        BY <1>1, DataKept
    <2>7. old \subseteq Names
        BY <1>2, RxFound DEF Types, Chan, NameSets, Kinds
    <2> HIDE DEF old
    <2>8. /\ told' \in [Links -> SUBSET Names] /\ told'[up] = told[up] \union old
          /\ \A m \in Links : told[m] \subseteq told'[m]
        BY <1>2, <1>3, <2>7 DEF Types
    <2>9. Types'
        BY <1>1, <1>2, <1>3, <2>5, <2>8, DataKept DEF Types
    <2>10. HeardSound(l)'
        <3>1. CASE tx[l] = s
            <4>1. ASSUME NEW k \in Kinds, NEW n \in Names
                  PROVE  /\ n \in Live(l[1], k) => Becomes(g, k, n, TRUE)
                         /\ n \notin Live(l[1], k) /\ n \notin g.empty[k] => Becomes(g, k, n, FALSE)
                <5>1. Live(l[1], k) \subseteq keys[l[1]][k]
                    BY <1>2 DEF IInv, KeysSound
                <5>2. /\ n \in keys[l[1]][k] => LastIs(Announced(l[1]), k, n, TRUE)
                      /\ n \notin keys[l[1]][k] => Silent(Announced(l[1]), k, n)
                    <6> DEFINE h == l[1]
                    <6>1. h \in Hosts
                        BY <1>2
                    <6> HIDE DEF h
                    <6>2. /\ n \in keys[h][k] => LastIs(Announced(h), k, n, TRUE)
                          /\ n \notin keys[h][k] => Silent(Announced(h), k, n)
                        BY <1>2, <6>1, AnnouncedWire
                    <6>3. QED
                        BY <6>2 DEF h
                <5>3. g.wire = Announced(l[1]) /\ n \notin g.list[k]
                    BY <2>2 DEF None
                <5>4. QED
                    BY <2>2, <5>1, <5>2, <5>3 DEF Becomes
            <4>2. Heard(g, Lives(l[1]), peers[l])
                BY <4>1 DEF Heard, Lives
            <4>3. QED
                BY <1>1, <1>2, <1>3, <2>4, <2>6, <3>1, <4>2 DEF HeardSound
        <3>2. CASE tx[l] # s
            <4>1. tx[l] # 0 => conn'[l][tx[l]] = conn[l][tx[l]]
                BY <2>5, <3>2, RxFound
            <4>2. HeardSound(l)
                BY DEF IInv, LinkSound
            <4>3. QED
                BY <1>1, <1>2, <1>3, <2>6, <4>1, <4>2 DEF HeardSound, tx_auth
        <3>3. QED
            BY <3>1, <3>2
    <2>11. ASSUME NEW m \in Links PROVE ToldSound(m)'
        <3>1. CASE m = up
            <4>1. remote[up]["publish"] \subseteq old
                <5>1. CASE rx[up] = 0
                    BY <1>2, <5>1 DEF IInv, LinkSound, RxSound, None, Kinds
                <5>2. CASE rx[up] # 0
                    BY <1>2, <5>2, RxFound DEF old
                <5>3. QED
                    BY <5>1, <5>2
            <4>2. QED
                BY <1>1, <2>8, <3>1, <4>1 DEF ToldSound
        <3>2. CASE m # up
            <4>1. Back(m) \in Links /\ Back(m) # l
                BY <3>2, BackLink
            <4>2. tx_auth(Back(m))' = tx_auth(Back(m))
                BY <1>3, <2>5, <4>1 DEF tx_auth
            <4>3. QED
                BY <1>1, <2>8, <4>2 DEF ToldSound, IInv, LinkSound
        <3>3. QED
            BY <3>1, <3>2
    <2>12. \A r \in Slots : StageSound(conn'[l][r])
        BY <2>3, <2>4, <2>5, ChanFound
    <2>13. QED
        BY <2>4, <2>6, <2>9, <2>10, <2>11, <2>12, OneLink
<1>4. CASE /\ conn' = Put(l, s, EndA(c)) /\ tx' = [tx EXCEPT ![l] = 0]
           /\ told' = [told EXCEPT ![up] = {}]
    <2>1. tx'[l] = 0
        BY <1>2, <1>4 DEF Types
    <2>2. QED
        BY <1>1, <1>2, <1>4, <2>1, EndsChan, TxStep
<1>5. QED
    BY <1>3, <1>4 DEF auth_data

(* A name of the peer is noted or forgotten *)
LEMMA NoteHeard ==
    ASSUME NEW c \in Chan, c.wire # <<>>, NEW d \in Chan, NEW S \in SUBSET Names,
           NEW live, NEW allowed, Heard(c, live, allowed),
           d.wire = Tail(c.wire), d.empty = c.empty,
           d.list = [c.list EXCEPT ![Head(c.wire).kind] = S],
           \A n \in Names : n # Head(c.wire).name => (n \in S <=> n \in c.list[Head(c.wire).kind]),
           Head(c.wire).enabled /\ Head(c.wire).name \in allowed => Head(c.wire).name \in S,
           ~Head(c.wire).enabled => Head(c.wire).name \notin S
    PROVE  Heard(d, live, allowed)
<1> DEFINE w == c.wire
           m == Head(w)
<1>1. w \in Seq(Msg) /\ w # <<>> /\ c.list \in NameSets
    BY DEF Chan
<1>2. m \in Msg
    BY <1>1, Handled
<1>3. /\ d.wire = Tail(w) /\ d.list = [c.list EXCEPT ![m.kind] = S]
      /\ \A n \in Names : n # m.name => (n \in S <=> n \in c.list[m.kind])
      /\ m.enabled /\ m.name \in allowed => m.name \in S
      /\ ~m.enabled => m.name \notin S
    OBVIOUS
<1> HIDE DEF w, m
<1>4. ASSUME NEW k \in Kinds, NEW n \in Names, NEW on \in BOOLEAN, Becomes(c, k, n, on),
             on => n \in allowed
      PROVE  Becomes(d, k, n, on)
    <2>1. /\ LastIs(w, k, n, on) =>
                \/ LastIs(Tail(w), k, n, on)
                \/ About(m, k, n) /\ (m.enabled <=> on) /\ Silent(Tail(w), k, n)
          /\ Silent(w, k, n) => Silent(Tail(w), k, n) /\ ~About(m, k, n)
        BY <1>1, Handled DEF m
    <2>2. LastIs(w, k, n, on) \/ (Silent(w, k, n) /\ (n \in c.list[k] <=> on))
        BY <1>4 DEF Becomes, w
    <2>3. ~About(m, k, n) => (n \in d.list[k] <=> n \in c.list[k])
        BY <1>1, <1>2, <1>3 DEF About, NameSets, Msg
    <2>4. About(m, k, n) /\ (m.enabled <=> on) => (n \in d.list[k] <=> on)
        BY <1>1, <1>2, <1>3, <1>4 DEF About, NameSets, Msg
    <2>5. QED
        BY <1>3, <2>1, <2>2, <2>3, <2>4 DEF Becomes
<1>5. QED
    BY <1>4 DEF Heard

LEMMA RequestInv ==
    ASSUME IInv, NEW l \in Links, NEW s \in Slots, network_socket_handle_request(l, s)
    PROVE  IInv'
<1> DEFINE c == conn[l][s]
           m == Head(c.wire)
           k == m.kind
           rest == [c EXCEPT !.wire = Tail(@)]
           Tell == IF k = "publish" /\ tx_auth(Back(l)) THEN told[l] \union {m.name} ELSE told[l]
           Note(S, t) == /\ conn' = Put(l, s, [rest EXCEPT !.list[k] = S])
                         /\ remote' = [remote EXCEPT ![l][k] = S]
                         /\ told' = [told EXCEPT ![l] = t]
<1>1. /\ c \in Chan /\ StageSound(c) /\ c.b /\ c.bok /\ c.wire # <<>>
      /\ UNCHANGED <<data, peers, tx, rx, timer, open, faults>>
    BY ChanFound DEF network_socket_handle_request
<1>2. c.wire \in Seq(Msg) /\ c.list \in NameSets
    BY <1>1 DEF Chan
<1>3. m \in Msg /\ Tail(c.wire) \in Seq(Msg)
    BY <1>1, <1>2, Handled
<1>4. k \in Kinds /\ m.name \in Names /\ c.list[k] \in SUBSET Names
    BY <1>2, <1>3 DEF Msg, NameSets
<1>5. /\ rx[l] = s /\ s # 0 /\ remote[l] = c.list /\ c.st = "up"
      /\ \A j \in Kinds : c.list[j] \subseteq peers[l]
    BY <1>1, RxFound DEF StageSound, IInv, LinkSound, RxSound
<1>6. Types /\ Back(l) \in Links /\ told[l] \in SUBSET Names
    BY BackLink DEF IInv, Types
<1>7. ToldSound(l)
    BY DEF IInv, LinkSound
<1>8. PICK S, t :
        /\ Note(S, t)
        /\ S \in SUBSET Names /\ S \subseteq peers[l] /\ t \in SUBSET Names
        /\ \A n \in Names : n # m.name => (n \in S <=> n \in c.list[k])
        /\ m.enabled /\ m.name \in peers[l] => m.name \in S
        /\ ~m.enabled => m.name \notin S
        /\ k = "publish" /\ tx_auth(Back(l)) => S \subseteq t
        /\ k # "publish" => t = told[l]
    <2> DEFINE less == IF k = "publish" THEN told[l] \ {m.name} ELSE told[l]
               Ignore == conn' = Put(l, s, rest) /\ remote' = remote
               TellNow == told' = IF k = "publish" /\ tx_auth(Back(l))
                                  THEN [told EXCEPT ![l] = @ \union {m.name}] ELSE told
    <2>1. k = "publish" /\ tx_auth(Back(l)) => c.list[k] \subseteq told[l]
        BY <1>5, <1>7 DEF ToldSound
    <2>2. \/ m.enabled /\ m.name \in c.list[k] /\ Ignore /\ TellNow
          \/ /\ m.enabled /\ m.name \in peers[l]
             /\ conn' = Put(l, s, [rest EXCEPT !.list[k] = @ \union {m.name}])
             /\ remote' = [remote EXCEPT ![l][k] = @ \union {m.name}] /\ TellNow
          \/ /\ m.name \notin c.list[k] /\ (m.enabled => m.name \notin peers[l])
             /\ Ignore /\ told' = told
          \/ /\ ~m.enabled
             /\ conn' = Put(l, s, [rest EXCEPT !.list[k] = @ \ {m.name}])
             /\ remote' = [remote EXCEPT ![l][k] = @ \ {m.name}]
             /\ told' = IF k = "publish" THEN [told EXCEPT ![l] = @ \ {m.name}] ELSE told
        BY DEF network_socket_handle_request
    <2>3. Ignore => /\ conn' = Put(l, s, [rest EXCEPT !.list[k] = c.list[k]])
                    /\ remote' = [remote EXCEPT ![l][k] = c.list[k]]
        <3>1. [rest EXCEPT !.list[k] = c.list[k]] = rest
            BY <1>1, <1>2, <1>4 DEF Chan, NameSets
        <3>2. [remote EXCEPT ![l][k] = c.list[k]] = remote
            BY <1>4, <1>5, <1>6 DEF Types, NameSets
        <3>3. QED
            BY <3>1, <3>2
    <2>4. /\ [rest EXCEPT !.list[k] = @ \union {m.name}] =
                  [rest EXCEPT !.list[k] = c.list[k] \union {m.name}]
          /\ [rest EXCEPT !.list[k] = @ \ {m.name}] = [rest EXCEPT !.list[k] = c.list[k] \ {m.name}]
        BY <1>1 DEF Chan
    <2>5. remote[l][k] = c.list[k]
        BY <1>5
    <2>6. /\ TellNow => told' = [told EXCEPT ![l] = Tell]
          /\ told' = told => told' = [told EXCEPT ![l] = told[l]]
        BY <1>6 DEF Types
    <2> HIDE DEF m, k, c, rest
    <2>7. CASE m.enabled /\ m.name \in c.list[k] /\ Ignore /\ TellNow
        <3>1. Note(c.list[k], Tell)
            BY <2>3, <2>6, <2>7
        <3> HIDE DEF Note
        <3> WITNESS c.list[k], Tell
        <3>2. QED
            BY <1>4, <1>5, <1>6, <2>1, <2>7, <3>1
    <2>8. CASE /\ m.enabled /\ m.name \in peers[l]
               /\ conn' = Put(l, s, [rest EXCEPT !.list[k] = @ \union {m.name}])
               /\ remote' = [remote EXCEPT ![l][k] = @ \union {m.name}] /\ TellNow
        <3>1. Note(c.list[k] \union {m.name}, Tell)
            BY <2>4, <2>5, <2>6, <2>8
        <3> HIDE DEF Note
        <3> WITNESS c.list[k] \union {m.name}, Tell
        <3>2. QED
            BY <1>4, <1>5, <1>6, <2>1, <2>8, <3>1
    <2>9. CASE /\ m.name \notin c.list[k] /\ (m.enabled => m.name \notin peers[l])
               /\ Ignore /\ told' = told
        <3>1. Note(c.list[k], told[l])
            BY <2>3, <2>6, <2>9
        <3> HIDE DEF Note
        <3> WITNESS c.list[k], told[l]
        <3>2. QED
            BY <1>4, <1>5, <1>6, <2>1, <2>9, <3>1
    <2>10. CASE /\ ~m.enabled
                /\ conn' = Put(l, s, [rest EXCEPT !.list[k] = @ \ {m.name}])
                /\ remote' = [remote EXCEPT ![l][k] = @ \ {m.name}]
                /\ told' = IF k = "publish" THEN [told EXCEPT ![l] = @ \ {m.name}] ELSE told
        <3>1. Note(c.list[k] \ {m.name}, less)
            BY <2>4, <2>5, <2>6, <2>10
        <3> HIDE DEF Note
        <3> WITNESS c.list[k] \ {m.name}, less
        <3>2. QED
            BY <1>4, <1>5, <1>6, <2>1, <2>10, <3>1
    <2>11. QED
        BY <2>2, <2>7, <2>8, <2>9, <2>10
<1> DEFINE g == [rest EXCEPT !.list[k] = S]
<1>9. /\ conn' = Put(l, s, g) /\ remote' = [remote EXCEPT ![l][k] = S]
      /\ told' = [told EXCEPT ![l] = t]
    BY <1>8
<1>10. /\ g.st = "up" /\ g.b /\ g.bok /\ g.aok = c.aok /\ g.a = c.a /\ g.cut = c.cut
       /\ g.wire = Tail(c.wire) /\ g.empty = c.empty /\ g.list = [c.list EXCEPT ![k] = S]
    BY <1>1, <1>5 DEF Chan
<1>11. g \in Chan
    <2>1. g = [c EXCEPT !.wire = Tail(c.wire), !.list = [c.list EXCEPT ![k] = S]]
        BY <1>1 DEF Chan
    <2>2. Tail(c.wire) \in Seq(Msg) /\ [c.list EXCEPT ![k] = S] \in NameSets
        BY <1>2, <1>3, <1>4, <1>8 DEF NameSets
    <2>3. QED
        BY <1>1, <2>1, <2>2 DEF Chan
<1>12. StageSound(g)
    BY <1>10 DEF StageSound
<1>13. /\ \A n \in Names : n # m.name => (n \in S <=> n \in c.list[k])
       /\ m.enabled /\ m.name \in peers[l] => m.name \in S
       /\ ~m.enabled => m.name \notin S
       /\ k = "publish" /\ tx_auth(Back(l)) => S \subseteq t
       /\ k # "publish" => t = told[l]
       /\ S \in SUBSET Names /\ S \subseteq peers[l] /\ t \in SUBSET Names
    BY <1>8
<1> HIDE DEF g
<1>14. ASSUME Heard(c, Lives(l[1]), peers[l]) PROVE Heard(g, Lives(l[1]), peers[l])
    <2> DEFINE live == Lives(l[1])
               allowed == peers[l]
    <2> HIDE DEF live, allowed, c
    <2>1. Heard(c, live, allowed) /\ (m.enabled /\ m.name \in allowed => m.name \in S)
        BY <1>13, <1>14 DEF live, allowed
    <2>2. Heard(g, live, allowed)
        BY <1>1, <1>10, <1>11, <1>13, <2>1, NoteHeard
    <2>3. QED
        BY <2>2 DEF live, allowed
<1> HIDE DEF m, k, rest, Tell, Note
<1>15. /\ conn'[l][s] = g
       /\ \A x \in Links : x # l => ChannelsCalm(x) /\ TxCalm(x)
       /\ \A x \in Links : x # l /\ remote'[x] = remote[x] => RxCalm(x)
    BY <1>1, <1>9, <1>10, <1>11, SameEnds
<1>16. /\ conn' \in [Links -> [Slots -> Chan]]
       /\ \A r \in Slots : r # s => conn'[l][r] = conn[l][r]
       /\ \A x \in Links : x # l => conn'[x] = conn[x]
    BY <1>9, <1>11, PutOne
<1>17. /\ remote' \in [Links -> NameSets] /\ remote'[l] = [c.list EXCEPT ![k] = S]
       /\ \A x \in Links : x # l => remote'[x] = remote[x]
    <2> HIDE DEF c
    <2>1. remote \in [Links -> NameSets] /\ remote[l] \in NameSets
        BY <1>6 DEF Types
    <2>2. [remote[l] EXCEPT ![k] = S] \in NameSets
        BY <1>4, <1>13, <2>1 DEF NameSets
    <2>3. remote' = [remote EXCEPT ![l] = [remote[l] EXCEPT ![k] = S]]
        BY <1>9
    <2>4. QED
        BY <1>5, <2>1, <2>2, <2>3
<1>18. /\ told' \in [Links -> SUBSET Names] /\ told'[l] = t
       /\ \A x \in Links : x # l => told'[x] = told[x]
    BY <1>6, <1>9, <1>13 DEF Types
<1>19. KeysSound' /\ Types' /\ \A h \in Hosts : Lives(h)' = Lives(h)
    BY <1>1, <1>6, <1>16, <1>17, <1>18, DataKept DEF Types
<1>20. RxSound(l)'
    <2>1. rx'[l] = s /\ s # 0 /\ g.b /\ g.bok /\ remote'[l] = g.list
        BY <1>1, <1>5, <1>10, <1>17
    <2>2. \A r \in Slots : conn'[l][r].b /\ conn'[l][r].bok => rx'[l] = r
        BY <1>1, <1>5, <1>16, RxFound
    <2>3. \A j \in Kinds : remote'[l][j] \subseteq peers'[l]
        BY <1>1, <1>2, <1>4, <1>5, <1>13, <1>17 DEF NameSets
    <2>4. QED
        BY <1>15, <2>1, <2>2, <2>3 DEF RxSound
<1>21. HeardSound(l)'
    <2>1. CASE tx[l] = s
        <3>1. SUFFICES ASSUME tx_auth(l)', ~g.cut
                       PROVE  Heard(g, Lives(l[1]), peers[l])
            BY <1>1, <1>15, <1>19, <2>1, BackLink DEF HeardSound
        <3>2. tx_auth(l) /\ rx[l] = tx[l] /\ ~conn[l][tx[l]].cut
            BY <1>1, <1>5, <1>10, <1>15, <2>1, <3>1 DEF tx_auth
        <3>3. Heard(c, Lives(l[1]), peers[l])
            BY <2>1, <3>2 DEF IInv, LinkSound, HeardSound
        <3>4. QED
            BY <1>14, <3>3
    <2>2. CASE tx[l] # s
        BY <1>1, <1>5, <2>2 DEF HeardSound
    <2>3. QED
        BY <2>1, <2>2
<1>22. ASSUME NEW x \in Links PROVE ToldSound(x)'
    <2>1. Back(x) \in Links
        BY BackLink
    <2>2. tx_auth(Back(x))' = tx_auth(Back(x))
        BY <1>1, <1>10, <1>15, <1>16, <2>1, RxFound DEF tx_auth
    <2>3. CASE x = l
        <3>1. CASE k = "publish"
            BY <1>2, <1>4, <1>13, <1>17, <1>18, <2>2, <2>3, <3>1 DEF ToldSound, NameSets
        <3>2. CASE k # "publish"
            <4>1. remote'[l]["publish"] = remote[l]["publish"]
                BY <1>5, <1>17, <3>2
            <4>2. QED
                BY <1>7, <1>13, <1>18, <2>2, <2>3, <3>2, <4>1 DEF ToldSound
        <3>3. QED
            BY <3>1, <3>2
    <2>4. CASE x # l
        BY <1>17, <1>18, <2>2, <2>4 DEF ToldSound, IInv, LinkSound
    <2>5. QED
        BY <2>3, <2>4
<1>23. \A r \in Slots : StageSound(conn'[l][r])
    BY <1>12, <1>15, <1>16, ChanFound
<1>24. \A x \in Links : x # l => RxCalm(x)
    BY <1>15, <1>17
<1>25. QED
    BY <1>15, <1>19, <1>20, <1>21, <1>22, <1>23, <1>24, OneLink
-----------------------------------------------------------------------------
(* What the clients of h do: pubsub_set puts the same announcements on     *)
(* every authenticated tx channel of h                                     *)

(* The announcements say what has changed *)
Tells(h, msgs) ==
    \A k \in Kinds, n \in Names :
        \/ LastIs(msgs, k, n, n \in Lives(h)'[k])
        \/ Silent(msgs, k, n) /\ (n \in Lives(h)'[k] <=> n \in Lives(h)[k])

(* What is appended decides over what was under way *)
LEMMA AppendHeard ==
    ASSUME NEW c \in Chan, NEW d, NEW msgs \in Seq(Msg), NEW live, NEW after, NEW allowed,
           Heard(c, live, allowed),
           d.wire = c.wire \o msgs, d.list = c.list, d.empty = c.empty,
           \A k \in Kinds, n \in Names :
                \/ LastIs(msgs, k, n, n \in after[k])
                \/ Silent(msgs, k, n) /\ (n \in after[k] <=> n \in live[k])
    PROVE  Heard(d, after, allowed)
<1>1. c.wire \in Seq(Msg)
    BY DEF Chan
<1>2. ASSUME NEW k \in Kinds, NEW n \in Names, NEW on \in BOOLEAN, on <=> n \in after[k],
             on => n \in allowed, ~on => n \notin c.empty[k]
      PROVE  Becomes(d, k, n, on)
    <2>1. CASE LastIs(msgs, k, n, n \in after[k])
        <3>1. LastIs(msgs, k, n, on)
            BY <1>2, <2>1 DEF LastIs
        <3>2. LastIs(c.wire \o msgs, k, n, on)
            BY <1>1, <3>1, Later
        <3>3. QED
            BY <3>2 DEF Becomes
    <2>2. CASE Silent(msgs, k, n) /\ (n \in after[k] <=> n \in live[k])
        <3>1. Becomes(c, k, n, on)
            BY <1>2, <2>2 DEF Heard
        <3>2. CASE LastIs(c.wire, k, n, on)
            <4>1. LastIs(c.wire \o msgs, k, n, on)
                BY <1>1, <2>2, <3>2, Later
            <4>2. QED
                BY <4>1 DEF Becomes
        <3>3. CASE Silent(c.wire, k, n) /\ (n \in c.list[k] <=> on)
            <4>1. Silent(c.wire \o msgs, k, n)
                BY <1>1, <2>2, <3>3, Later
            <4>2. QED
                BY <3>3, <4>1 DEF Becomes
        <3>4. QED
            BY <3>1, <3>2, <3>3 DEF Becomes
    <2>3. QED
        BY <2>1, <2>2
<1>3. QED
    BY <1>2 DEF Heard

LEMMA AppendInv ==
    ASSUME IInv, NEW h \in Hosts, NEW msgs \in Seq(Msg), pubsub_set(h, msgs), Tells(h, msgs),
           cl' \in [Clients -> NameSets], keys' \in [Hosts -> NameSets], KeysSound',
           \A g \in Hosts : g # h => Lives(g)' = Lives(g),
           UNCHANGED <<peers, tx, rx, remote, timer, open, told>>
    PROVE  IInv'
<1>1. Types
    BY DEF IInv
<1>2. ASSUME NEW l \in Links, NEW s \in Slots
      PROVE  /\ conn'[l][s] = IF l[1] = h /\ s = tx[l] /\ conn[l][s].aok
                              THEN Sent(conn[l][s], msgs)
                              ELSE conn[l][s]
             /\ conn[l][s] \in Chan /\ StageSound(conn[l][s])
    BY ChanFound DEF pubsub_set
<1>3. ASSUME NEW l \in Links, NEW s \in Slots
      PROVE  /\ conn'[l][s] \in Chan /\ StageSound(conn'[l][s])
             /\ conn'[l][s].b = conn[l][s].b /\ conn'[l][s].bok = conn[l][s].bok
             /\ conn'[l][s].aok = conn[l][s].aok /\ conn'[l][s].cut = conn[l][s].cut
             /\ conn'[l][s].list = conn[l][s].list /\ conn'[l][s].empty = conn[l][s].empty
             /\ l[1] = h /\ s = tx[l] /\ conn[l][s].aok /\ ~conn[l][s].cut =>
                    conn'[l][s].wire = conn[l][s].wire \o msgs
             /\ l[1] # h => conn'[l][s] = conn[l][s]
    <2> DEFINE c == conn[l][s]
               d == conn'[l][s]
    <2>1. /\ d = IF l[1] = h /\ s = tx[l] /\ c.aok THEN Sent(c, msgs) ELSE c
          /\ c \in Chan /\ StageSound(c)
        BY <1>2
    <2> HIDE DEF c, d
    <2>2. c.wire \o msgs \in Seq(Msg)
        BY <2>1, Later DEF Chan
    <2>3. /\ d \in Chan /\ d.st = c.st /\ d.b = c.b /\ d.bok = c.bok /\ d.aok = c.aok
          /\ d.cut = c.cut /\ d.list = c.list /\ d.empty = c.empty
          /\ ~c.aok => d.wire = c.wire
          /\ l[1] = h /\ s = tx[l] /\ c.aok /\ ~c.cut => d.wire = c.wire \o msgs
          /\ l[1] # h => d = c
        BY <2>1, <2>2 DEF Chan, Sent
    <2>4. StageSound(d)
        BY <2>1, <2>3 DEF StageSound
    <2>5. QED
        BY <2>3, <2>4 DEF c, d
<1>4. Types'
    <2>1. conn' \in [Links -> [Slots -> Chan]]
        BY <1>3 DEF pubsub_set
    <2>2. QED
        BY <1>1, <2>1 DEF Types
<1>5. ASSUME NEW l \in Links PROVE LinkSound(l)'
    <2>1. RxSound(l) /\ HeardSound(l) /\ ToldSound(l) /\ Back(l) \in Links
          /\ rx[l] \in Slots \union {0} /\ tx[l] \in Slots \union {0}
          /\ tx[Back(l)] \in Slots \union {0}
        BY RxFound, BackLink DEF IInv, LinkSound
    <2>2. RxSound(l)'
        BY <1>3, <2>1 DEF RxSound
    <2>3. tx_auth(l)' = tx_auth(l) /\ tx_auth(Back(l))' = tx_auth(Back(l))
        BY <1>3, <2>1 DEF tx_auth
    <2>4. ToldSound(l)'
        BY <2>1, <2>3 DEF ToldSound
    <2>5. HeardSound(l)'
        <3>1. SUFFICES ASSUME tx_auth(l), rx[l] = tx[l], ~conn'[l][tx[l]].cut
                       PROVE  Heard(conn'[l][tx[l]], Lives(l[1])', peers[l])
            BY <2>3 DEF HeardSound
        <3>2. tx[l] \in Slots /\ conn[l][tx[l]].aok /\ l[1] \in Hosts
            BY <2>1, <3>1, BackLink DEF tx_auth
        <3>3. Heard(conn[l][tx[l]], Lives(l[1]), peers[l])
            BY <1>3, <2>1, <3>1, <3>2 DEF HeardSound
        <3>4. CASE l[1] # h
            BY <1>3, <3>2, <3>3, <3>4
        <3>5. CASE l[1] = h
            <4> DEFINE c == conn[l][tx[l]]
                       d == conn'[l][tx[l]]
                       live == Lives(h)
                       after == Lives(h)'
                       allowed == peers[l]
            <4>1. /\ c \in Chan /\ d.wire = c.wire \o msgs /\ d.list = c.list /\ d.empty = c.empty
                  /\ Heard(c, live, allowed)
                <5>1. /\ c \in Chan /\ d.wire = c.wire \o msgs
                      /\ d.list = c.list /\ d.empty = c.empty
                    <6> DEFINE s == tx[l]
                    <6>1. s \in Slots /\ conn[l][s].aok /\ s = tx[l] /\ ~conn[l][s].cut
                        BY <1>3, <3>1, <3>2
                    <6> HIDE DEF s
                    <6>2. /\ conn[l][s] \in Chan /\ conn'[l][s].wire = conn[l][s].wire \o msgs
                          /\ conn'[l][s].list = conn[l][s].list
                          /\ conn'[l][s].empty = conn[l][s].empty
                        <7>1. conn[l][s] \in Chan
                            BY <1>2, <6>1
                        <7>2. /\ conn'[l][s].list = conn[l][s].list
                              /\ conn'[l][s].empty = conn[l][s].empty
                            BY <1>3, <6>1
                        <7>3. l[1] = h /\ s = tx[l] /\ conn[l][s].aok /\ ~conn[l][s].cut =>
                                conn'[l][s].wire = conn[l][s].wire \o msgs
                            BY <1>3, <6>1
                        <7>4. QED
                            BY <3>5, <6>1, <7>1, <7>2, <7>3
                    <6>3. QED
                        BY <6>1, <6>2
                <5>2. Lives(l[1]) = live
                    BY <3>5 DEF Lives
                <5>3. QED
                    BY <3>3, <5>1, <5>2
            <4>2. \A k \in Kinds, n \in Names :
                    \/ LastIs(msgs, k, n, n \in after[k])
                    \/ Silent(msgs, k, n) /\ (n \in after[k] <=> n \in live[k])
                BY DEF Tells
            <4> HIDE DEF c, d, live, after, allowed
            <4>3. Heard(d, after, allowed)
                BY <4>1, <4>2, AppendHeard
            <4>4. Lives(l[1])' = after
                BY <3>5 DEF after, Lives
            <4>5. QED
                BY <4>3, <4>4 DEF d, allowed
        <3>6. QED
            BY <3>4, <3>5
    <2>6. QED
        BY <1>3, <2>2, <2>4, <2>5 DEF LinkSound
<1>6. QED
    BY <1>4, <1>5 DEF IInv

(* One announcement, or none *)
LEMMA ShortWire ==
    ASSUME NEW k \in Kinds, NEW n \in Names
    PROVE  /\ <<>> \in Seq(Msg) /\ \A j, x : Silent(<<>>, j, x)
           /\ <<Set(n, TRUE, k)>> \in Seq(Msg)
           /\ LastIs(<<Set(n, TRUE, k)>>, k, n, TRUE)
           /\ \A j, x : j # k \/ x # n => Silent(<<Set(n, TRUE, k)>>, j, x)
<1> DEFINE m == Set(n, TRUE, k)
           w == <<m>>
<1>1. m \in Msg /\ m.kind = k /\ m.name = n /\ m.enabled
    BY DEF Set, Msg
<1> HIDE DEF m
<1>2. w \in Seq(Msg) /\ Len(w) = 1 /\ w[1] = m
    BY <1>1
<1>3. <<>> \in Seq(Msg) /\ Len(<<>>) = 0
    OBVIOUS
<1>4. \A j, x : Silent(<<>>, j, x)
    BY <1>3 DEF Silent
<1> HIDE DEF w
<1>5. LastIs(w, k, n, TRUE)
    BY <1>1, <1>2 DEF LastIs, About
<1>6. \A j, x : j # k \/ x # n => Silent(w, j, x)
    BY <1>1, <1>2 DEF Silent, About
<1>7. QED
    BY <1>2, <1>3, <1>4, <1>5, <1>6 DEF w, m

LEMMA PubsubInv ==
    ASSUME IInv, NEW c \in Clients, NEW k \in Kinds, NEW n \in Names, client_pubsub(c, k, n)
    PROVE  IInv'
<1> DEFINE h == Home[c]
           first == Users(h, k, n) = {}
           msgs == IF first \/ k = "publish" THEN <<Set(n, TRUE, k)>> ELSE <<>>
<1>1. /\ pubsub_set(h, msgs)
      /\ cl' = [cl EXCEPT ![c][k] = @ \union {n}]
      /\ keys' = [keys EXCEPT ![h][k] = @ \union {n}]
      /\ UNCHANGED <<peers, tx, rx, remote, timer, open, told>>
    BY DEF client_pubsub
<1>2. h \in Hosts /\ Types /\ KeysSound
    BY ClientAssumption DEF IInv
<1>3. /\ <<>> \in Seq(Msg) /\ \A j, x : Silent(<<>>, j, x)
      /\ <<Set(n, TRUE, k)>> \in Seq(Msg)
      /\ LastIs(<<Set(n, TRUE, k)>>, k, n, TRUE)
      /\ \A j, x : j # k \/ x # n => Silent(<<Set(n, TRUE, k)>>, j, x)
    BY ShortWire
<1>4. msgs \in Seq(Msg)
    BY <1>3
<1>5. /\ cl' \in [Clients -> NameSets] /\ keys' \in [Hosts -> NameSets]
      /\ \A d \in Clients, j \in Kinds :
            cl'[d][j] = IF d = c /\ j = k THEN cl[d][j] \union {n} ELSE cl[d][j]
      /\ \A g \in Hosts, j \in Kinds :
            keys'[g][j] = IF g = h /\ j = k THEN keys[g][j] \union {n} ELSE keys[g][j]
    <2>1. /\ cl \in [Clients -> NameSets] /\ keys \in [Hosts -> NameSets]
          /\ cl[c] \in NameSets /\ keys[h] \in NameSets
        BY <1>2 DEF Types
    <2> HIDE DEF h
    <2>2. /\ [cl[c] EXCEPT ![k] = cl[c][k] \union {n}] \in NameSets
          /\ [keys[h] EXCEPT ![k] = keys[h][k] \union {n}] \in NameSets
        BY <2>1 DEF NameSets
    <2>3. /\ cl' = [cl EXCEPT ![c] = [cl[c] EXCEPT ![k] = cl[c][k] \union {n}]]
          /\ keys' = [keys EXCEPT ![h] = [keys[h] EXCEPT ![k] = keys[h][k] \union {n}]]
        BY <1>1
    <2>4. QED
        BY <1>2, <2>1, <2>2, <2>3 DEF NameSets
<1>6. ASSUME NEW g \in Hosts, NEW j \in Kinds
      PROVE  Live(g, j)' = IF g = h /\ j = k THEN Live(g, j) \union {n} ELSE Live(g, j)
    <2>1. \A x \in Names : Users(g, j, x)' = IF g = h /\ j = k /\ x = n
                                             THEN Users(g, j, x) \union {c} ELSE Users(g, j, x)
        <3>1. ASSUME NEW x \in Names, NEW d \in Clients
              PROVE  x \in cl'[d][j] <=> x \in cl[d][j] \/ (d = c /\ j = k /\ x = n)
            <4>1. cl'[d][j] = IF d = c /\ j = k THEN cl[d][j] \union {n} ELSE cl[d][j]
                BY <1>5
            <4>2. QED
                BY <4>1
        <3> HIDE DEF h
        <3>2. h = Home[c]
            BY DEF h
        <3>3. ASSUME NEW x \in Names, g = h /\ j = k /\ x = n
              PROVE  Users(g, j, x)' = Users(g, j, x) \union {c}
            BY <3>1, <3>2, <3>3 DEF Users
        <3>4. ASSUME NEW x \in Names, ~(g = h /\ j = k /\ x = n)
              PROVE  Users(g, j, x)' = Users(g, j, x)
            BY <3>1, <3>2, <3>4 DEF Users
        <3>5. QED
            BY <3>3, <3>4
    <2>2. QED
        BY <2>1 DEF Live
<1>7. KeysSound'
    BY <1>2, <1>5, <1>6 DEF KeysSound
<1>8. \A g \in Hosts : g # h => Lives(g)' = Lives(g)
    BY <1>6 DEF Lives
<1>9. Tells(h, msgs)
    <2>1. \A j \in Kinds : Lives(h)'[j] = Live(h, j)' /\ Lives(h)[j] = Live(h, j)
        BY DEF Lives
    <2>2. ASSUME NEW j \in Kinds, NEW x \in Names, j # k \/ x # n
          PROVE  Silent(msgs, j, x) /\ (x \in Live(h, j)' <=> x \in Live(h, j))
        BY <1>2, <1>3, <1>6, <2>2
    <2>3. CASE first \/ k = "publish"
        <3>1. LastIs(msgs, k, n, TRUE) /\ n \in Lives(h)'[k]
            <4>1. msgs = <<Set(n, TRUE, k)>>
                BY <2>3
            <4>2. n \in Live(h, k)'
                BY <1>2, <1>6
            <4> HIDE DEF msgs, h
            <4>3. QED
                BY <1>3, <2>1, <4>1, <4>2
        <3>2. LastIs(msgs, k, n, n \in Lives(h)'[k])
            BY <3>1 DEF LastIs
        <3>3. QED
            BY <2>1, <2>2, <3>2 DEF Tells
    <2>4. CASE ~first /\ k # "publish"
        <3>1. n \in Live(h, k) /\ n \in Live(h, k)' /\ Silent(msgs, k, n)
            BY <1>2, <1>3, <1>6, <2>4 DEF Live
        <3>2. QED
            BY <2>1, <2>2, <3>1 DEF Tells
    <2>5. QED
        BY <2>3, <2>4
<1> HIDE DEF msgs, h
<1>10. QED
    BY <1>1, <1>2, <1>4, <1>5, <1>7, <1>8, <1>9, AppendInv

LEMMA ClientGoneInv ==
    ASSUME IInv, NEW c \in Clients, client_disconnect(c)
    PROVE  IInv'
<1> DEFINE h == Home[c]
           others(k, n) == Users(h, k, n) \ {c}
           q(S) == SetToSeq(S)
           Del(k, S) == [i \in 1..Len(q(S)) |-> Set(q(S)[i], others(k, q(S)[i]) # {}, k)]
           P == cl[c]["publish"]
           T == {n \in cl[c]["subscribe"] : others("subscribe", n) = {}}
           v == Del("publish", P)
           w == Del("subscribe", T)
<1>1. /\ pubsub_set(h, v \o w)
      /\ cl' = [cl EXCEPT ![c] = None]
      /\ UNCHANGED <<keys, peers, tx, rx, remote, timer, open, told>>
    BY DEF client_disconnect
<1>2. h \in Hosts /\ Types /\ KeysSound
    BY ClientAssumption DEF IInv
<1>3. cl \in [Clients -> NameSets] /\ cl[c] \in NameSets /\ keys' \in [Hosts -> NameSets]
    BY <1>1, <1>2 DEF Types
<1>4. /\ cl' \in [Clients -> NameSets]
      /\ \A d \in Clients, k \in Kinds : cl'[d][k] = IF d = c THEN {} ELSE cl[d][k]
    BY <1>1, <1>3, FreeChan DEF None
<1>5. Kinds = {"publish", "subscribe"} /\ P \in SUBSET Names /\ T \in SUBSET Names
    BY <1>3 DEF Kinds, NameSets
<1>6. ASSUME NEW g \in Hosts, NEW k \in Kinds
      PROVE  Live(g, k)' = {n \in Names : Users(g, k, n) \ {c} # {}}
    BY <1>4 DEF Live, Users
<1>7. ASSUME NEW g \in Hosts, g # h PROVE Lives(g)' = Lives(g)
    BY <1>6, <1>7 DEF Lives, Live, Users
<1>8. KeysSound'
    BY <1>1, <1>2, <1>6 DEF KeysSound, Live
<1>9. ASSUME NEW k \in Kinds, NEW S \in SUBSET Names
      PROVE  /\ Del(k, S) \in Seq(Msg)
             /\ \A j \in Kinds, n \in Names : j # k \/ n \notin S => Silent(Del(k, S), j, n)
             /\ \A n \in S : LastIs(Del(k, S), k, n, others(k, n) # {})
    <2> DEFINE d == Del(k, S)
    <2>1. q(S) \in Seq(S)
        BY Enumerated
    <2>2. \A i \in 1..Len(q(S)) : q(S)[i] \in Names
        BY <2>1
    <2>3. /\ d \in [1..Len(q(S)) -> Msg]
          /\ \A i \in 1..Len(q(S)) : /\ About(d[i], k, q(S)[i])
                                     /\ d[i].enabled <=> others(k, q(S)[i]) # {}
        BY <2>2 DEF Set, Msg, About
    <2> HIDE DEF d, Del, others
    <2>4. /\ d \in Seq(Msg) /\ Len(d) = Len(q(S))
          /\ \A j \in Kinds, n \in Names : j # k \/ n \notin S => Silent(d, j, n)
        BY <2>3, OneEach
    <2>5. ASSUME NEW n \in S PROVE LastIs(d, k, n, others(k, n) # {})
        <3>1. \A i \in 1..Len(d) : d[i].name = n => (d[i].enabled <=> others(k, n) # {})
            BY <2>3, <2>4 DEF About
        <3>2. PICK on \in BOOLEAN : on <=> others(k, n) # {}
            OBVIOUS
        <3>3. LastIs(d, k, n, on)
            <4>1. \A i \in 1..Len(d) : d[i].name = n => (d[i].enabled <=> on)
                BY <3>1, <3>2
            <4>2. QED
                BY <2>3, <4>1, OneEach
        <3>4. QED
            BY <3>2, <3>3 DEF LastIs
    <2>6. QED
        BY <2>4, <2>5 DEF d
<1>10. /\ v \in Seq(Msg) /\ w \in Seq(Msg)
       /\ \A n \in Names : Silent(v, "subscribe", n) /\ Silent(w, "publish", n)
       /\ \A n \in Names : n \notin P => Silent(v, "publish", n)
       /\ \A n \in Names : n \notin T => Silent(w, "subscribe", n)
       /\ \A n \in P : LastIs(v, "publish", n, others("publish", n) # {})
       /\ \A n \in T : LastIs(w, "subscribe", n, others("subscribe", n) # {})
    <2> HIDE DEF Del, P, T, others
    <2>1. QED
        BY <1>5, <1>9
<1> DEFINE u == v \o w
<1> HIDE DEF v, w
<1>11. ASSUME NEW k \in Kinds, NEW n \in Names
       PROVE  \/ LastIs(u, k, n, others(k, n) # {})
              \/ Silent(u, k, n) /\ (others(k, n) # {} <=> Users(h, k, n) # {})
    <2>1. CASE k = "publish" /\ n \in P
        <3> HIDE DEF others
        <3>1. QED
            BY <1>10, <2>1, Later
    <2>2. CASE k = "publish" /\ n \notin P
        <3>1. c \notin Users(h, k, n)
            BY <2>2 DEF Users
        <3>2. Silent(u, k, n)
            BY <1>10, <2>2, Later
        <3>3. QED
            BY <3>1, <3>2
    <2>3. CASE k = "subscribe" /\ n \in T
        <3> HIDE DEF others, T
        <3>1. QED
            BY <1>10, <2>3, Later
    <2>4. CASE k = "subscribe" /\ n \notin T
        <3>1. others(k, n) # {} \/ c \notin Users(h, k, n)
            BY <2>4 DEF Users
        <3>2. Silent(u, k, n)
            BY <1>10, <2>4, Later
        <3>3. QED
            BY <3>1, <3>2
    <2>5. QED
        BY <1>5, <2>1, <2>2, <2>3, <2>4
<1>12. u \in Seq(Msg)
    BY <1>10, Later
<1>13. Tells(h, u)
    <2>1. ASSUME NEW k \in Kinds, NEW n \in Names
          PROVE  /\ n \in Lives(h)'[k] <=> others(k, n) # {}
                 /\ n \in Lives(h)[k] <=> Users(h, k, n) # {}
        BY <1>2, <1>6 DEF Lives, Live
    <2> HIDE DEF others, u
    <2>2. ASSUME NEW k \in Kinds, NEW n \in Names
          PROVE  \/ LastIs(u, k, n, n \in Lives(h)'[k])
                 \/ Silent(u, k, n) /\ (n \in Lives(h)'[k] <=> n \in Lives(h)[k])
        <3>1. CASE LastIs(u, k, n, others(k, n) # {})
            BY <2>1, <3>1 DEF LastIs
        <3>2. CASE Silent(u, k, n) /\ (others(k, n) # {} <=> Users(h, k, n) # {})
            BY <2>1, <3>2
        <3>3. QED
            BY <1>11, <3>1, <3>2
    <2>3. QED
        BY <2>2 DEF Tells
<1>14. pubsub_set(h, u)
    BY <1>1
<1> HIDE DEF u, h
<1>15. QED
    BY <1>1, <1>2, <1>3, <1>4, <1>7, <1>8, <1>12, <1>13, <1>14, AppendInv
-----------------------------------------------------------------------------
LEMMA InvInit == Init => IInv
<1> SUFFICES ASSUME Init PROVE IInv
    OBVIOUS
<1>1. Types
    BY FreeChan DEF Init, Types
<1>2. ASSUME NEW h \in Hosts, NEW k \in Kinds PROVE Live(h, k) = {}
    BY DEF Init, Live, Users, None
<1>3. KeysSound
    BY <1>2 DEF KeysSound
<1>4. ASSUME NEW l \in Links PROVE LinkSound(l)
    <2>1. \A s \in Slots : conn[l][s] = Free
        BY DEF Init
    <2>2. tx[l] = 0 /\ rx[l] = 0 /\ remote[l] = None
        BY DEF Init
    <2>3. \A k \in Kinds : None[k] = {}
        BY DEF None
    <2>4. RxSound(l)
        BY <2>1, <2>2, <2>3, FreeChan DEF RxSound
    <2>5. HeardSound(l)
        BY <2>2 DEF HeardSound, tx_auth
    <2>6. ToldSound(l)
        BY BackLink DEF ToldSound, tx_auth, Init
    <2>7. QED
        BY <2>1, <2>4, <2>5, <2>6, FreeChan DEF LinkSound
<1>5. QED
    BY <1>1, <1>3, <1>4 DEF IInv

LEMMA InvStutter == ASSUME IInv, UNCHANGED vars PROVE IInv'
<1>1. UNCHANGED <<data, peers, conn, tx, rx, remote, timer, open, told>>
    BY DEF vars, data
<1>2. timer' \in [Hosts -> BOOLEAN] /\ open' \in [Hosts -> BOOLEAN]
    BY <1>1 DEF IInv, Types
<1>3. QED
    BY <1>1, <1>2, SwitchInv

LEMMA InvStep == IInv /\ [Next]_vars => IInv'
<1> SUFFICES ASSUME IInv, [Next]_vars PROVE IInv'
    OBVIOUS
<1>1. CASE Client
    <2>1. PICK c \in Clients :
            \/ client_disconnect(c)
            \/ \E n \in Names : client_message(c, n) \/ \E k \in Kinds : client_pubsub(c, k, n)
        BY <1>1 DEF Client
    <2>2. QED
        BY <2>1, ClientGoneInv, MessageInv, PubsubInv
<1>2. CASE Trouble
    <2>1. CASE \E l \in Links, s \in Slots : handshake_timeout(l, s) \/ cut(l, s)
        BY <2>1, TimeoutInv, CutInv
    <2>2. CASE \E l \in Links, allowed \in SUBSET Names : network_update(l, allowed)
        BY <2>2, UpdateInv
    <2>3. CASE \E h \in Hosts : network_open(h) \/ network_reopen(h) \/ restart(h)
        BY <2>3, OpenInv, ReopenInv, RestartInv
    <2>4. QED
        BY <1>2, <2>1, <2>2, <2>3 DEF Trouble
<1>3. CASE \E h \in Hosts : network_connect_peers(h)
    BY <1>3, ConnectInv
<1>4. CASE \E l \in Links, s \in Slots : Channel(l, s)
    <2>1. PICK l \in Links, s \in Slots : Channel(l, s)
        BY <1>4
    <2>2. QED
        BY <2>1, AcceptInv, HelloInv, CheckAuthInv, AuthDataInv, RequestInv, TxDisconnectInv,
           RxDisconnectInv DEF Channel
<1>5. CASE UNCHANGED vars
    BY <1>5, InvStutter
<1>6. QED
    BY <1>1, <1>2, <1>3, <1>4, <1>5 DEF Next

LEMMA AlwaysInv == Spec => []IInv
BY InvInit, InvStep, PTL DEF Spec

-----------------------------------------------------------------------------
(* Every variable of the daemons has its type in every reachable state.    *)
THEOREM TypeCorrect == Spec => []TypeOK
<1>1. IInv => TypeOK
    BY DEF IInv, Types, TypeOK, NameSets, Chan, Stages
<1>2. QED
    BY <1>1, AlwaysInv, PTL

(* Whatever channels are lost, replaced or closed, and in whatever order   *)
(* the two ends learn of it, the remote state that network_rx_socket_close *)
(* and network_check_auth leave behind is that of the present rx channel,  *)
(* and holds only names that the peer is allowed.                          *)
THEOREM StaleImpossible == Spec => []NothingStale
<1>1. IInv => NothingStale
    BY DEF IInv, LinkSound, RxSound, NothingStale
<1>2. QED
    BY <1>1, AlwaysInv, PTL

(* Whichever of the two channels between two hosts comes up first, local   *)
(* subscribers are told of all the names the peer publishes: by            *)
(* auth_data_cb of those noted before, and by                              *)
(* network_socket_handle_request of those that come later.                 *)
THEOREM SubscribersHear == Spec => []SubscribersTold
<1>1. IInv => SubscribersTold
    BY DEF IInv, LinkSound, ToldSound, SubscribersTold
<1>2. QED
    BY <1>1, AlwaysInv, PTL

(* Two hosts with a channel that is up and clear agree on what the clients *)
(* of the one hold, for any number of hosts, names, clients and messages   *)
(* under way: the last announcement about a name always says whether it    *)
(* still has a client.                                                     *)
THEOREM PeersAgree == Spec => []Agreement
<1>1. ASSUME IInv PROVE Agreement
    <2> SUFFICES ASSUME NEW l \in Links, tx_auth(l), rx[l] = tx[l],
                        conn[l][tx[l]].wire = <<>>, ~conn[l][tx[l]].cut, NEW k \in Kinds
                 PROVE  /\ Live(l[1], k) \intersect peers[l] \subseteq remote[l][k]
                        /\ remote[l][k] \subseteq Live(l[1], k) \union conn[l][tx[l]].empty[k]
        BY DEF Agreement
    <2> DEFINE c == conn[l][tx[l]]
    <2>1. rx[l] # 0 /\ remote[l] = c.list /\ remote[l][k] \subseteq Names
        BY <1>1, RxFound DEF tx_auth, IInv, Types, NameSets
    <2>2. Heard(c, Lives(l[1]), peers[l])
        BY <1>1 DEF IInv, LinkSound, HeardSound
    <2>3. Lives(l[1])[k] = Live(l[1], k) /\ Live(l[1], k) \subseteq Names
        BY DEF Lives, Live
    <2>4. c.wire = <<>> /\ Len(<<>>) = 0
        OBVIOUS
    <2> HIDE DEF c
    <2>5. ASSUME NEW n \in Names, NEW on \in BOOLEAN, Becomes(c, k, n, on)
          PROVE  n \in c.list[k] <=> on
        BY <2>4, <2>5 DEF Becomes, LastIs
    <2>6. ASSUME NEW n \in Names, n \in Live(l[1], k), n \in peers[l] PROVE n \in remote[l][k]
        BY <2>1, <2>2, <2>3, <2>5, <2>6 DEF Heard
    <2>7. ASSUME NEW n \in Names, n \in remote[l][k], n \notin Live(l[1], k)
          PROVE  n \in c.empty[k]
        BY <2>1, <2>2, <2>3, <2>5, <2>7 DEF Heard
    <2>8. QED
        BY <2>1, <2>3, <2>6, <2>7 DEF c
<1>2. QED
    BY <1>1, AlwaysInv, PTL
=============================================================================
