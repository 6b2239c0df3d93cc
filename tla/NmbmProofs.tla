----------------------------- MODULE NmbmProofs -----------------------------
(***************************************************************************)
(* Proofs about Nmbm, for every layout of the chip, every set of factory   *)
(* bad blocks and any number of faults and power cuts.                     *)
(*                                                                         *)
(* The invariant IInv describes the states until nmbm_map_block passes a   *)
(* bad spare block or unmap_block_nmbm leaves the data area (seen.astray). *)
(* The chip is PoweredOff, or the driver is Creating the first table, or   *)
(* it is Running with an instance, in one Phase of a call.  WriteAt and    *)
(* CleanAt say, for each place where a table is being written or a range   *)
(* erased, which tables there are and where.  One lemma per step of a      *)
(* function says that it leads from a phase to a phase.                    *)
(***************************************************************************)
EXTENDS Nmbm, FiniteSetTheorems, WellFoundedInduction, TLAPS

LEMMA LeastNat ==
    ASSUME NEW T \in SUBSET Nat, T # {}
    PROVE  \E n \in T : \A m \in T : n <= m
<1> DEFINE R == {ss \in Nat \X Nat : ss[1] < ss[2]}
<1>1. OpToRel(<, Nat) = R
    BY Zenon DEF OpToRel
<1>2. IsWellFoundedOn(R, Nat)
    BY <1>1, NatLessThanWellFounded
<1> HIDE DEF R
<1>3. PICK n \in T : \A m \in T : ~(<<m, n>> \in R)
    BY <1>2, WFMin
<1>4. ASSUME NEW m \in T PROVE n <= m
    <2>1. m \in Nat /\ n \in Nat /\ (m < n => <<m, n>> \in R)
        BY DEF R
    <2>2. QED
        BY <1>3, <2>1
<1>5. QED
    BY <1>4

LEMMA LowestIn ==
    ASSUME NEW S \in SUBSET Nat, S # {}
    PROVE  Lowest(S) \in S /\ \A y \in S : Lowest(S) <= y
<1>1. \E x \in S : \A y \in S : x <= y
    BY LeastNat
<1>2. QED
    BY <1>1, Zenon DEF Lowest

LEMMA HighestIn ==
    ASSUME NEW S \in SUBSET Nat, S # {}, NEW h \in Nat, \A x \in S : x <= h
    PROVE  Highest(S) \in S /\ \A y \in S : Highest(S) >= y
<1> DEFINE T == {h - x : x \in S}
<1>1. T \in SUBSET Nat /\ T # {}
    <2>1. \A x \in S : h - x \in Nat
        OBVIOUS
    <2>2. QED
        BY <2>1
<1>2. PICK m \in T : \A n \in T : m <= n
    <2> HIDE DEF T
    <2>1. QED
        BY <1>1, LeastNat
<1>3. PICK x \in S : m = h - x
    BY <1>2
<1>4. \A y \in S : x >= y
    <2> TAKE y \in S
    <2>1. h - y \in T
        OBVIOUS
    <2>2. m <= h - y
        BY <1>2, <2>1
    <2>3. QED
        BY <1>3, <2>2
<1>5. \E z \in S : \A y \in S : z >= y
    BY <1>4
<1>6. QED
    BY <1>5, Zenon DEF Highest

Below(S, x) == {y \in S : y < x}

LEMMA NthIn ==
    ASSUME NEW S \in SUBSET Nat, IsFiniteSet(S), NEW k \in Nat, k < Cardinality(S)
    PROVE  Nth(S, k) \in S /\ Cardinality(Below(S, Nth(S, k))) = k
<1> DEFINE T == {j \in Nat : j < Cardinality(S) /\ ~\E x \in S : Cardinality(Below(S, x)) = j}
<1>1. Cardinality(S) \in Nat
    BY FS_CardinalityType
<1>2. ASSUME NEW j \in T, \A i \in T : j <= i PROVE FALSE
    <2>1. j \in Nat /\ j < Cardinality(S) /\ ~\E x \in S : Cardinality(Below(S, x)) = j
        OBVIOUS
    <2>2. CASE j = 0
        <3>1. S # {}
            BY <2>1, <2>2, FS_EmptySet
        <3>2. PICK x \in S : \A y \in S : x <= y
            BY <3>1, LeastNat
        <3>3. Below(S, x) = {}
            <4>1. ASSUME NEW y \in S PROVE ~(y < x)
                BY <3>2
            <4>2. QED
                BY <4>1 DEF Below
        <3>4. QED
            BY <2>1, <2>2, <3>2, <3>3, FS_EmptySet
    <2>3. CASE j # 0
        <3>1. j - 1 \in Nat /\ j - 1 \notin T /\ j - 1 < Cardinality(S)
            <4> HIDE DEF T
            <4>1. QED
                BY <1>1, <1>2, <2>1, <2>3
        <3>2. PICK x \in S : Cardinality(Below(S, x)) = j - 1
            BY <3>1
        <3> DEFINE U == {y \in S : x < y}
        <3>3. IsFiniteSet(Below(S, x)) /\ x \notin Below(S, x)
            BY FS_Subset DEF Below
        <3>4. Cardinality(Below(S, x) \union {x}) = j
            <4>1. Cardinality(Below(S, x) \union {x}) = Cardinality(Below(S, x)) + 1
                BY <3>3, FS_AddElement
            <4>2. QED
                BY <2>1, <3>2, <4>1
        <3>5. U # {}
            <4>1. ASSUME U = {} PROVE S = Below(S, x) \union {x}
                <5>1. ASSUME NEW y \in S PROVE y < x \/ y = x
                    BY <4>1
                <5>2. QED
                    BY <5>1 DEF Below
            <4>2. QED
                BY <2>1, <3>4, <4>1
        <3>6. Lowest(U) \in U /\ \A y \in U : Lowest(U) <= y
            <4>1. U \in SUBSET Nat
                OBVIOUS
            <4> HIDE DEF U
            <4>2. QED
                BY <3>5, <4>1, LowestIn
        <3>7. PICK u \in U : \A y \in U : u <= y
            BY <3>6
        <3>8. Below(S, u) = Below(S, x) \union {x}
            <4>1. ASSUME NEW y \in S PROVE y < u <=> y < x \/ y = x
                BY <3>7, <4>1
            <4>2. QED
                BY <4>1 DEF Below
        <3>9. QED
            BY <2>1, <3>4, <3>7, <3>8
    <2>4. QED
        BY <2>2, <2>3
<1>3. T = {}
    <2>1. T \in SUBSET Nat
        OBVIOUS
    <2> HIDE DEF T
    <2>2. QED
        BY <1>2, <2>1, LeastNat
<1>4. \E x \in S : Cardinality({y \in S : y < x}) = k
    BY <1>3 DEF Below
<1>5. QED
    BY <1>4 DEF Nth, Below

-----------------------------------------------------------------------------
(* The parts of the invariant.  f and K stand for flash and marked, n for  *)
(* the instance, w for wr, c for ctx, ca for cache.                        *)

TabSet == [kind : {"table"}, wc : Nat, bad : SUBSET Blocks, map : [LBs -> Blocks \union {-1}]]
FlashType == [Blocks -> DataContents \union {Sig} \union TabSet]
Instances ==
    [up : {TRUE}, sig : Blocks, map : [LBs -> Blocks \union {-1}], bad : SUBSET Blocks,
     main : Blocks, backup : Blocks, lo : Blocks, top : Blocks, changed : BOOLEAN,
     prot : BOOLEAN, count : 0..MgmtStart, wc : Nat]

(* The blocks with a table that nmbm_try_load_info_table looks at *)
Tabs(f, K) == {b \in Blocks \ K : f[b].kind = "table"}

(* A mapping table that stays clear of the management area up to x *)
MapOK(m, s, x) ==
    /\ m \in [LBs -> Blocks \union {-1}]
    /\ \A l \in LBs : m[l] \in {-1} \union LBs \union ((x + 1)..(s - 1))
    /\ \A k, l \in LBs : k # l /\ m[k] # -1 => m[k] # m[l]
    /\ \A k, l \in LBs : k < l /\ m[l] # -1 => m[k] # -1

SigOK(f, K, s) ==
    /\ s \in (MgmtStart + 1)..(NBlocks - 1) /\ s \notin K /\ f[s] = Sig
    /\ \A b \in Blocks : f[b] = Sig => b = s

TabOK(f, K, s, b) ==
    b \in MgmtStart..(s - 2) /\ MapOK(f[b].map, s, b + 1)

(* What two tables have to do with each other: equal counts are equal      *)
(* tables, the newer one knows the bad blocks of the older one, and if the *)
(* first is not older its mapping stays clear of the second                *)
PairOK(f, K, s, a, b) ==
    /\ a \notin f[b].bad
    /\ f[a].wc = f[b].wc => f[a] = f[b]
    /\ f[a].wc <= f[b].wc =>
            \A c \in MgmtStart..(NBlocks - 1) : c \in f[a].bad => c \in f[b].bad \union K
    /\ a < b /\ f[a].wc >= f[b].wc => MapOK(f[a].map, s, b + 1)
    /\ a < b /\ f[a].wc >= f[b].wc => MgmtStart..(a - 1) \subseteq K \union f[a].bad
    /\ a < b /\ f[a].wc < f[b].wc => MgmtStart..(a - 1) \subseteq K \union f[b].bad

FlashOK(f, K, s) ==
    /\ SigOK(f, K, s)
    /\ \A b \in Tabs(f, K) : TabOK(f, K, s, b)
    /\ \A a, b \in Tabs(f, K) : PairOK(f, K, s, a, b)
    /\ \A a, b, c \in Tabs(f, K) : a = b \/ b = c \/ a = c

(* What the instance knows of a table on the flash *)
Known(f, K, n, b) ==
    /\ b \notin n.bad /\ f[b].wc <= n.wc
    /\ \A c \in MgmtStart..(NBlocks - 1) : c \in f[b].bad => c \in n.bad \union K

Areas(n) ==
    /\ n \in Instances
    /\ MgmtStart < n.lo /\ n.lo <= n.top /\ n.top < n.sig
    /\ MapOK(n.map, n.sig, n.top)
    /\ \A l \in LBs : l < n.count <=> n.map[l] # -1

Common(f, K, n) ==
    /\ f \in FlashType /\ K \in SUBSET Blocks
    /\ Areas(n)
    /\ FlashOK(f, K, n.sig)
    /\ \A b \in Tabs(f, K) : Known(f, K, n, b)

(* The blocks from x up to y cannot be used *)
Gone(K, n, x, y) == \A c \in x..(y - 1) : c \in K \union n.bad

MainIn(K, n) == MgmtStart <= n.main /\ n.main < n.lo /\ Gone(K, n, MgmtStart, n.main)
BackupIn(n) == n.main < n.backup /\ n.backup < n.lo

(* No table is being written: the tables there are, are those in use *)
AtRest(f, K, n) ==
    /\ n.main = 0 => n.backup = 0
    /\ n.main # 0 => MainIn(K, n)
    /\ n.backup # 0 => BackupIn(n)
    /\ Tabs(f, K) = {n.main, n.backup} \ {0}

WriteSites == {"backup", "only_backup", "main", "only_main", "rebuild_main", "rebuild_backup",
               "next", "front", "tmp", "rescue_main"}
Writes == [site : WriteSites \union {"sig"}, ba : Int, lim : Int, from : Int, erased : BOOLEAN]

SpanOK(n, w) ==
    /\ w.ba \in Int /\ w.lim \in Int /\ w.from \in Int
    /\ MgmtStart <= w.from /\ w.from <= w.ba /\ w.ba <= w.lim /\ w.lim <= n.top

InWrite(f, K, n, w) ==
    /\ w \in Writes
    /\ SpanOK(n, w)
    /\ Gone(K, n, w.from, w.ba)
    /\ w.erased => w.ba < w.lim /\ w.ba \notin K \union n.bad /\ f[w.ba] = Erased

CacheOK(f, K, n, ca) ==
    /\ ca \in TabSet /\ ca.map = n.map /\ ca.wc = n.wc
    /\ ca.bad \subseteq n.bad /\ n.bad \subseteq ca.bad \union K
    /\ \A b \in Tabs(f, K) : f[b].wc = n.wc => f[b] = ca

(* The tables there are while one is written at w.site *)
WriteAt(f, K, n, w) ==
    /\ w.site \in {"backup", "only_backup"} =>
            /\ MainIn(K, n) /\ BackupIn(n) /\ n.main \in Tabs(f, K)
            /\ Tabs(f, K) \subseteq {n.main, n.backup} /\ w.from = n.backup /\ w.lim = n.top
    /\ w.site = "only_main" => n.backup # 0
    /\ w.site \in {"main", "only_main"} =>
            /\ MainIn(K, n) /\ w.from = n.main /\ Tabs(f, K) \subseteq {n.main, n.backup}
            /\ n.backup = 0 => w.lim = n.top
            /\ n.backup # 0 => BackupIn(n) /\ w.lim = n.backup /\ n.backup \in Tabs(f, K)
    /\ w.site = "rebuild_main" =>
            /\ n.main = 0 /\ n.backup = 0 /\ Tabs(f, K) = {}
            /\ w.lim = n.top /\ w.from = MgmtStart
    /\ w.site \in {"rebuild_backup", "next"} =>
            /\ MainIn(K, n) /\ n.backup = 0 /\ Tabs(f, K) = {n.main}
            /\ n.lo <= w.from /\ w.lim = n.top
    /\ w.site = "front" =>
            /\ MgmtStart <= n.main /\ n.main < n.lo /\ n.backup = 0 /\ Tabs(f, K) = {n.main}
            /\ w.from = MgmtStart /\ w.lim = n.main
    /\ w.site = "tmp" =>
            /\ MainIn(K, n) /\ BackupIn(n) /\ Gone(K, n, MgmtStart, n.backup)
            /\ Tabs(f, K) = {n.backup} /\ n.lo <= w.from /\ w.lim = n.top
    /\ w.site = "rescue_main" =>
            /\ MainIn(K, n) /\ BackupIn(n) /\ Gone(K, n, MgmtStart, n.backup)
            /\ n.backup < w.lim /\ w.lim \in Tabs(f, K) /\ Tabs(f, K) \subseteq {n.backup, w.lim}
            /\ w.from = MgmtStart /\ n.lo = w.lim + 1

CleanAt(f, K, n, w) ==
    /\ w.site \in {"rebuild_backup", "front"} =>
            /\ MainIn(K, n) /\ BackupIn(n) /\ Tabs(f, K) = {n.main, n.backup}
            /\ w.lim = n.backup /\ n.main < w.from
    /\ w.site = "next" =>
            /\ MainIn(K, n) /\ n.backup = 0 /\ Tabs(f, K) = {n.main, w.lim}
            /\ n.lo <= w.from /\ w.lim < n.top

Updating == {"boot", "tail", "remap", "mapfail", "unmap"}
SiteCtx(site, c) ==
    /\ site \in {"rebuild_main", "rebuild_backup"} => c \in Updating \union {"create"}
    /\ site \in {"only_backup", "only_main", "next", "front"} => c = "load"
    /\ site \in {"backup", "main", "tmp", "rescue_main"} => c \in Updating

(* One of the states of the driver with an instance in use *)
Phase(f, K, n, p, w, c, ca) ==
    /\ Common(f, K, n)
    /\ \/ /\ p = "write" /\ w.site \in WriteSites /\ SiteCtx(w.site, c)
          /\ InWrite(f, K, n, w) /\ CacheOK(f, K, n, ca) /\ WriteAt(f, K, n, w)
       \/ /\ p = "clean" /\ w.site \in {"rebuild_backup", "front", "next"} /\ SiteCtx(w.site, c)
          /\ w \in Writes /\ w.erased = FALSE
          /\ SpanOK(n, w) /\ CleanAt(f, K, n, w)
       \/ /\ p \in {"ok", "failed"} /\ c \in Updating \union {"create", "load"}
          /\ AtRest(f, K, n) /\ (c = "load" => n.main # 0)
       \/ p = "update" /\ c \in Updating /\ AtRest(f, K, n)
       \/ p \in {"erase", "copy"} /\ c \in {"remap", "none"} /\ AtRest(f, K, n)
       \/ p \in {"idle", "remapped", "refused", "retry", "dead"} /\ c = "none" /\ AtRest(f, K, n)

(* Where data may go *)
DataBlocks(n) == LBs \union ((n.top + 1)..(n.sig - 1))
Ops == [act : {"erase", "write", "read", "worn", "markbad", "isbad", "repair", "mark_good"},
        lb : LBs, old : Blocks, new : Blocks \union {-1}, len : 0..NPages, dirty : BOOLEAN]
OpOK(n, p, c, o) ==
    /\ o = NoOp \/ o \in Ops
    /\ p \in {"erase", "copy", "remapped", "refused", "retry"} \/ c \in {"remap", "mapfail", "unmap"} =>
            o \in Ops
    /\ o \in Ops /\ o.act = "markbad" => o.old \in DataBlocks(n)
    /\ o \in Ops => o.new \in DataBlocks(n) \union {-1}
    /\ p \in {"erase", "copy"} \/ c \in {"remap", "unmap"} => o.new # -1

Running == Phase(flash, marked, ni, pc, wr, ctx, cache) /\ OpOK(ni, pc, ctx, op)

Fresh(n) ==
    /\ n \in Instances
    /\ n.main = 0 /\ n.backup = 0
    /\ MapOK(n.map, MgmtStart, MgmtStart)
    /\ \A l \in LBs : l < n.count <=> n.map[l] # -1

NoSig(f) == \A b \in Blocks : f[b] # Sig

(* The signature is being written or could not be, or the first table is   *)
(* about to be                                                             *)
Making(f, K, n, p, w) ==
    /\ Fresh(n) /\ Tabs(f, K) = {}
    /\ f \in FlashType /\ K \in SUBSET Blocks
    /\ \/ /\ p = "write" /\ w.site = "sig" /\ NoSig(f) /\ n.sig = 0
          /\ w \in Writes
          /\ w.lim = MgmtStart /\ w.ba \in MgmtStart..(NBlocks - 1)
          /\ w.erased => MgmtStart < w.ba /\ w.ba \notin K
       \/ p \in {"failed", "dead"} /\ NoSig(f) /\ n.sig = 0
       \/ p = "create" /\ FlashOK(f, K, n.sig)
Creating ==
    /\ Making(flash, marked, ni, pc, wr) /\ op = NoOp
    /\ ctx = IF pc = "dead" THEN "none" ELSE "create"

Off(f, K, n, p, made) ==
    /\ p \in {"off", "dead"} /\ n = NoInstance
    /\ f \in FlashType /\ K \in SUBSET Blocks
    /\ \/ Tabs(f, K) = {} /\ NoSig(f)
       \/ \E s \in Blocks : FlashOK(f, K, s)
    /\ made => Tabs(f, K) # {}
PoweredOff == Off(flash, marked, ni, pc, seen.made) /\ op = NoOp

Observed ==
    /\ want \in [LBs -> [PageNos -> {"any", "ff", "d"}]]
    /\ seen \in [made : BOOLEAN, astray : BOOLEAN]
    /\ ctx \in {"create", "boot", "tail"} => ~seen.made

IInv == ~seen.astray => Observed /\ (PoweredOff \/ Creating \/ Running)


-----------------------------------------------------------------------------
(* Blocks and tables *)

LEMMA Sizes ==
    /\ NBlocks \in Nat /\ MgmtStart \in Nat /\ 1 <= MgmtStart /\ MgmtStart + 6 <= NBlocks
    /\ NPages \in Nat /\ SpareBlocks \in Nat
    /\ Blocks \subseteq Nat /\ LBs \subseteq Blocks /\ 0 \in Blocks
    /\ \A b : b \in Blocks <=> b \in Int /\ 0 <= b /\ b < NBlocks
    /\ \A l : l \in LBs <=> l \in Int /\ 0 <= l /\ l < MgmtStart
BY ChipAssumption DEF Blocks, LBs

LEMMA Kinds ==
    /\ \A c \in DataContents : c.kind = "data" /\ c # Sig
    /\ \A c \in TabSet : c.kind = "table" /\ c # Sig
    /\ Sig.kind = "sig"
    /\ Erased \in DataContents /\ Torn \in DataContents
<1>1. Sig.kind = "sig"
    BY DEF Sig
<1>2. \A c \in DataContents : c.kind = "data"
    BY DEF DataContents, Data
<1>3. \A c \in TabSet : c.kind = "table"
    BY DEF TabSet
<1>4. AllPages("ff") \in [PageNos -> {"ff", "d", "x"}] /\ AllPages("x") \in [PageNos -> {"ff", "d", "x"}]
    BY DEF AllPages
<1>5. Erased \in DataContents /\ Torn \in DataContents
    BY <1>4, Zenon DEF DataContents, Erased, Torn
<1>6. "sig" # "data" /\ "sig" # "table"
    OBVIOUS
<1>7. QED
    BY <1>1, <1>2, <1>3, <1>5, <1>6, Zenon

LEMMA MapMono ==
    ASSUME NEW m, NEW s \in Int, NEW x \in Int, NEW y \in Int, y <= x, MapOK(m, s, x)
    PROVE  MapOK(m, s, y)
<1>1. \A v : v \in (x + 1)..(s - 1) => v \in (y + 1)..(s - 1)
    OBVIOUS
<1>2. QED
    BY <1>1 DEF MapOK

(* f2 and K2 are f and K after block b was lost: it is erased, written     *)
(* with data or torn, or it is marked bad                                  *)
Lost(f, K, f2, K2, b) ==
    /\ b \in Blocks
    /\ \E c \in DataContents \union {f[b]} :
        /\ f2 = [f EXCEPT ![b] = c]
        /\ (K2 = K /\ c \in DataContents) \/ K2 = K \union {b}

LEMMA LostBlock ==
    ASSUME NEW f \in FlashType, NEW K \in SUBSET Blocks, NEW f2, NEW K2, NEW b,
           Lost(f, K, f2, K2, b)
    PROVE  /\ f2 \in FlashType /\ K2 \in SUBSET Blocks /\ K \subseteq K2
           /\ Tabs(f2, K2) = Tabs(f, K) \ {b}
           /\ \A x \in Tabs(f2, K2) : f2[x] = f[x]
           /\ \A x \in Blocks \ {b} : f2[x] = f[x]
           /\ K2 \subseteq K \union {b}
           /\ f2[b] # Sig \/ f2[b] = f[b]
<1>1. PICK c \in DataContents \union {f[b]} :
        f2 = [f EXCEPT ![b] = c] /\ ((K2 = K /\ c \in DataContents) \/ K2 = K \union {b})
    BY DEF Lost
<1>2. b \in Blocks
    BY DEF Lost
<1>3. f2 \in FlashType /\ f2[b] = c /\ \A x \in Blocks \ {b} : f2[x] = f[x]
    BY <1>1, <1>2 DEF FlashType
<1>4. K2 \in SUBSET Blocks /\ K \subseteq K2 /\ K2 \subseteq K \union {b}
    BY <1>1, <1>2
<1>5. b \notin Tabs(f2, K2)
    <2>1. CASE K2 = K \union {b}
        BY <2>1 DEF Tabs
    <2>2. CASE c \in DataContents
        BY <2>2, <1>3, Kinds DEF Tabs
    <2>3. QED
        BY <1>1, <2>1, <2>2
<1>6. Tabs(f2, K2) = Tabs(f, K) \ {b}
    BY <1>3, <1>4, <1>5 DEF Tabs
<1>7. \A x \in Tabs(f2, K2) : f2[x] = f[x]
    BY <1>3, <1>5 DEF Tabs
<1>8. f2[b] # Sig \/ f2[b] = f[b]
    BY <1>1, <1>3, Kinds
<1>9. QED
    BY <1>3, <1>4, <1>6, <1>7, <1>8

LEMMA LostSig ==
    ASSUME NEW f \in FlashType, NEW K \in SUBSET Blocks, NEW f2, NEW K2, NEW b, NEW s,
           Lost(f, K, f2, K2, b), SigOK(f, K, s), b # s
    PROVE  SigOK(f2, K2, s)
<1>1. s \in Blocks /\ s \notin K
    BY Sizes DEF SigOK
<1>2. \A x \in Blocks : f2[x] = Sig => f[x] = Sig
    BY LostBlock
<1>3. f2[s] = f[s] /\ s \notin K2
    <2>1. (\A x \in Blocks \ {b} : f2[x] = f[x]) /\ K2 \subseteq K \union {b}
        BY LostBlock
    <2>2. QED
        BY <1>1, <2>1
<1>4. QED
    BY <1>2, <1>3 DEF SigOK

(* Fewer tables and more marks do no harm *)
LEMMA FewerTables ==
    ASSUME NEW f, NEW K, NEW f2, NEW K2, NEW s, FlashOK(f, K, s), SigOK(f2, K2, s),
           K \subseteq K2, Tabs(f2, K2) \subseteq Tabs(f, K),
           \A x \in Tabs(f2, K2) : f2[x] = f[x]
    PROVE  FlashOK(f2, K2, s)
<1>1. \A b \in Tabs(f2, K2) : TabOK(f2, K2, s, b)
    BY DEF FlashOK, TabOK
<1>2. ASSUME NEW a \in Tabs(f2, K2), NEW b \in Tabs(f2, K2) PROVE PairOK(f2, K2, s, a, b)
    <2>1. PairOK(f, K, s, a, b) /\ f2[a] = f[a] /\ f2[b] = f[b]
        BY DEF FlashOK
    <2>2. QED
        BY <2>1 DEF PairOK
<1>3. \A a, b, c \in Tabs(f2, K2) : a = b \/ b = c \/ a = c
    BY DEF FlashOK
<1>4. QED
    BY <1>1, <1>2, <1>3 DEF FlashOK


(* n2 is n after blocks of K2 were noted in the state table *)
Noting(n, n2, K2) ==
    /\ n2 \in Instances
    /\ n.bad \subseteq n2.bad /\ n2.bad \subseteq n.bad \union K2
    /\ n2.sig = n.sig /\ n2.map = n.map /\ n2.main = n.main /\ n2.backup = n.backup
    /\ n2.lo = n.lo /\ n2.top = n.top /\ n2.prot = n.prot /\ n2.count = n.count /\ n2.wc = n.wc

LEMMA SetBad ==
    ASSUME NEW n \in Instances, NEW S \in SUBSET Blocks, NEW K2, S \subseteq K2
    PROVE  Noting(n, set_bad(n, S), K2) /\ set_bad(n, S).bad = n.bad \union S
<1>1. n.changed \in BOOLEAN /\ n.bad \in SUBSET Blocks
    BY DEF Instances
<1> DEFINE ch == (n.changed \/ ~(S \subseteq n.bad))
<1>2. ch \in BOOLEAN
    OBVIOUS
<1>3. set_bad(n, S) = [n EXCEPT !.bad = n.bad \union S, !.changed = ch]
    BY DEF set_bad
<1> HIDE DEF ch
<1>4. set_bad(n, S) \in Instances
    BY <1>1, <1>2, <1>3 DEF Instances
<1>5. QED
    BY <1>1, <1>3, <1>4 DEF Noting, Instances

LEMMA NotingTwice ==
    ASSUME NEW n, NEW n1, NEW n2, NEW K1, NEW K2, K1 \subseteq K2,
           Noting(n, n1, K1), Noting(n1, n2, K2)
    PROVE  Noting(n, n2, K2)
BY DEF Noting

LEMMA CommonFewer ==
    ASSUME NEW f, NEW K, NEW n, NEW f2 \in FlashType, NEW K2 \in SUBSET Blocks, NEW n2,
           Common(f, K, n), Noting(n, n2, K2), K \subseteq K2, SigOK(f2, K2, n.sig),
           Tabs(f2, K2) \subseteq Tabs(f, K), \A x \in Tabs(f2, K2) : f2[x] = f[x]
    PROVE  Common(f2, K2, n2)
<1>1. FlashOK(f2, K2, n2.sig)
    BY FewerTables DEF Common, Noting
<1>2. Areas(n2)
    BY DEF Common, Noting, Areas
<1>3. ASSUME NEW b \in Tabs(f2, K2) PROVE Known(f2, K2, n2, b)
    <2>1. Known(f, K, n, b) /\ b \notin K2
        BY DEF Common, Tabs
    <2>2. QED
        BY <2>1 DEF Known, Noting
<1>4. QED
    BY <1>1, <1>2, <1>3 DEF Common

LEMMA CommonLost ==
    ASSUME NEW f, NEW K, NEW n, NEW f2, NEW K2, NEW n2, NEW b,
           Common(f, K, n), Noting(n, n2, K2), Lost(f, K, f2, K2, b), b # n.sig
    PROVE  Common(f2, K2, n2)
<1>1. f \in FlashType /\ K \in SUBSET Blocks /\ SigOK(f, K, n.sig)
    BY DEF Common, FlashOK
<1>2. SigOK(f2, K2, n.sig)
    BY <1>1, LostSig
<1>3. f2 \in FlashType /\ K2 \in SUBSET Blocks /\ K \subseteq K2 /\ Tabs(f2, K2) = Tabs(f, K) \ {b}
      /\ \A x \in Tabs(f2, K2) : f2[x] = f[x]
    BY <1>1, LostBlock
<1>4. QED
    BY <1>2, <1>3, CommonFewer

(* An instance and its numbers *)
LEMMA AreaTypes ==
    ASSUME NEW n, Areas(n)
    PROVE  /\ n \in Instances
           /\ n.sig \in Nat /\ n.main \in Nat /\ n.backup \in Nat /\ n.lo \in Nat /\ n.top \in Nat
           /\ n.wc \in Nat /\ n.count \in Nat /\ n.bad \in SUBSET Blocks
           /\ n.sig < NBlocks /\ MgmtStart < n.lo /\ n.lo <= n.top /\ n.top < n.sig
<1>1. n \in Instances /\ MgmtStart < n.lo /\ n.lo <= n.top /\ n.top < n.sig
    BY DEF Areas
<1>2. /\ n.sig \in Blocks /\ n.main \in Blocks /\ n.backup \in Blocks /\ n.lo \in Blocks
      /\ n.top \in Blocks /\ n.wc \in Nat /\ n.count \in 0..MgmtStart /\ n.bad \in SUBSET Blocks
    BY <1>1 DEF Instances
<1>3. QED
    BY <1>1, <1>2, Sizes

LEMMA GoneMore ==
    ASSUME NEW K, NEW n, NEW K2, NEW n2, NEW x, NEW y, Gone(K, n, x, y),
           K \subseteq K2, Noting(n, n2, K2)
    PROVE  Gone(K2, n2, x, y)
BY DEF Gone, Noting

LEMMA CacheFewer ==
    ASSUME NEW f, NEW K, NEW n, NEW f2, NEW K2, NEW n2, NEW ca, CacheOK(f, K, n, ca),
           Noting(n, n2, K2), K \subseteq K2,
           Tabs(f2, K2) \subseteq Tabs(f, K), \A x \in Tabs(f2, K2) : f2[x] = f[x]
    PROVE  CacheOK(f2, K2, n2, ca)
BY DEF CacheOK, Noting

(* A block of the range was lost while a table is written *)
LEMMA WriteLost ==
    ASSUME NEW f, NEW K, NEW n, NEW w, NEW f2, NEW K2, NEW n2, NEW w2, NEW b \in Int,
           Areas(n), WriteAt(f, K, n, w), w.site \in WriteSites,
           w.from \in Int, w.lim \in Int, w.from <= b, b < w.lim,
           Noting(n, n2, K2), K \subseteq K2,
           Tabs(f2, K2) = Tabs(f, K) \ {b},
           w2.site = w.site, w2.from = w.from, w2.lim = w.lim
    PROVE  WriteAt(f2, K2, n2, w2)
<1>1. /\ n2.sig = n.sig /\ n2.main = n.main /\ n2.backup = n.backup /\ n2.lo = n.lo /\ n2.top = n.top
      /\ n.main \in Nat /\ n.backup \in Nat /\ n.lo \in Nat /\ n.top \in Nat
    BY AreaTypes DEF Noting
<1>2. MainIn(K, n) => MainIn(K2, n2)
    BY <1>1, GoneMore DEF MainIn
<1>3. BackupIn(n) <=> BackupIn(n2)
    BY <1>1 DEF BackupIn
<1>4. Gone(K, n, MgmtStart, n.backup) => Gone(K2, n2, MgmtStart, n2.backup)
    BY <1>1, GoneMore
<1>5. CASE w.site \in {"backup", "only_backup"}
    BY <1>1, <1>2, <1>3, <1>5 DEF WriteAt, BackupIn
<1>6. CASE w.site \in {"main", "only_main"}
    BY <1>1, <1>2, <1>3, <1>6 DEF WriteAt, BackupIn
<1>7. CASE w.site = "rebuild_main"
    BY <1>1, <1>7 DEF WriteAt
<1>8. CASE w.site \in {"rebuild_backup", "next"}
    BY <1>1, <1>2, <1>8 DEF WriteAt, MainIn
<1>9. CASE w.site = "front"
    BY <1>1, <1>9 DEF WriteAt
<1>10. CASE w.site = "tmp"
    BY <1>1, <1>2, <1>3, <1>4, <1>10 DEF WriteAt, BackupIn
<1>11. CASE w.site = "rescue_main"
    BY <1>1, <1>2, <1>3, <1>4, <1>11 DEF WriteAt, BackupIn
<1>12. QED
    BY <1>5, <1>6, <1>7, <1>8, <1>9, <1>10, <1>11 DEF WriteSites


(* A good block below the top, and where the other table may be *)
Clear(f, K, n, a) ==
    /\ a \in Int /\ MgmtStart <= a /\ a < n.top /\ a \notin K \union n.bad
    /\ \A x, y \in Tabs(f, K) \ {a} : x = y
    /\ \A x \in Tabs(f, K) \ {a} :
        /\ x < n.top
        /\ a < x => Gone(K, n, MgmtStart, a)
        /\ x < a => Gone(K, n, MgmtStart, x)

(* A table is written into such a block *)
Put(f, a, ca, f2) == f2 = [f EXCEPT ![a] = ca]

LEMMA PutTable ==
    ASSUME NEW f, NEW K, NEW n, NEW ca, NEW a, NEW f2,
           Common(f, K, n), CacheOK(f, K, n, ca), Clear(f, K, n, a), Put(f, a, ca, f2)
    PROVE  /\ Common(f2, K, n) /\ CacheOK(f2, K, n, ca)
           /\ Tabs(f2, K) = Tabs(f, K) \union {a}
<1>0. /\ a \in Int /\ MgmtStart <= a /\ a < n.top /\ a \notin K \union n.bad
      /\ \A x, y \in Tabs(f, K) \ {a} : x = y
      /\ \A x \in Tabs(f, K) \ {a} :
            /\ x < n.top
            /\ a < x => Gone(K, n, MgmtStart, a)
            /\ x < a => Gone(K, n, MgmtStart, x)
    BY DEF Clear
<1> USE <1>0
<1> DEFINE s == n.sig
<1>1. /\ n.sig \in Nat /\ n.top \in Nat /\ n.wc \in Nat /\ n.bad \in SUBSET Blocks
      /\ s < NBlocks /\ MgmtStart < n.lo /\ n.top < s
    BY AreaTypes DEF Common
<1>2. a \in Blocks /\ a # s /\ f \in FlashType /\ K \in SUBSET Blocks /\ ca \in TabSet
    BY <1>1, Sizes DEF Common, CacheOK
<1>3. f2 \in FlashType /\ f2[a] = ca /\ \A x \in Blocks \ {a} : f2[x] = f[x]
    BY <1>2 DEF FlashType, Put
<1>4. Tabs(f2, K) = Tabs(f, K) \union {a}
    BY <1>2, <1>3, Kinds DEF Tabs
<1>5. SigOK(f2, K, s)
    <2>1. SigOK(f, K, s)
        BY DEF Common, FlashOK
    <2>2. s \in Blocks
        BY <2>1, Sizes DEF SigOK
    <2>3. f2[s] = f[s] /\ \A x \in Blocks : f2[x] = Sig => f[x] = Sig
        BY <1>2, <1>3, <2>2, Kinds
    <2>4. QED
        BY <2>1, <2>3 DEF SigOK
<1>6. /\ ca.map = n.map /\ ca.wc = n.wc /\ ca.bad \subseteq n.bad /\ n.bad \subseteq ca.bad \union K
      /\ \A x \in Tabs(f, K) : f[x].wc = n.wc => f[x] = ca
    BY DEF CacheOK
<1>7. MapOK(ca.map, s, n.top)
    BY <1>6 DEF Common, Areas
<1>8. ASSUME NEW x \in Int, x < n.top PROVE MapOK(ca.map, s, x + 1)
    <2>1. x + 1 \in Int /\ x + 1 <= n.top
        BY <1>1, <1>8
    <2>2. QED
        BY <1>1, <1>7, <2>1, MapMono
<1>9. ASSUME NEW x \in Tabs(f, K) \ {a}
      PROVE  /\ f2[x] = f[x] /\ x \in Int /\ x < n.top /\ TabOK(f, K, s, x) /\ Known(f, K, n, x)
             /\ f[x].wc \in Nat
    <2>1. x \in Blocks /\ x # a
        BY DEF Tabs
    <2>2. f[x] \in TabSet
        <3>1. f[x] \in DataContents \union {Sig} \union TabSet /\ f[x].kind = "table"
            BY <1>2, <2>1 DEF FlashType, Tabs
        <3>2. QED
            BY <3>1, Kinds
    <2>3. f[x].wc \in Nat
        BY <2>2 DEF TabSet
    <2>4. QED
        BY <1>3, <2>1, <2>3, Sizes DEF Common, FlashOK
<1>10. TabOK(f2, K, s, a)
    <2>1. a \in MgmtStart..(s - 2)
        BY <1>1
    <2>2. QED
        BY <1>3, <1>8, <2>1 DEF TabOK
<1>11. ASSUME NEW x \in Tabs(f2, K) PROVE TabOK(f2, K, s, x)
    <2>1. CASE x = a
        BY <1>10, <2>1
    <2>2. CASE x \in Tabs(f, K) \ {a}
        BY <1>9, <2>2 DEF TabOK
    <2>3. QED
        BY <1>4, <2>1, <2>2
<1>12. PairOK(f2, K, s, a, a)
    <2>1. a \notin ca.bad
        BY <1>6
    <2>2. QED
        BY <1>2, <1>3, <2>1 DEF PairOK
<1>13. \A y, z \in Int : Gone(K, n, y, z) => y..(z - 1) \subseteq K \union ca.bad
    BY <1>6 DEF Gone
<1>14. ASSUME NEW x \in Tabs(f, K) \ {a} PROVE PairOK(f2, K, s, a, x) /\ PairOK(f2, K, s, x, a)
    <2>1. f2[x] = f[x] /\ x \in Int /\ x < n.top /\ f[x].wc \in Nat /\ f[x].wc <= n.wc
          /\ x \notin n.bad /\ \A c \in MgmtStart..(NBlocks - 1) : c \in f[x].bad => c \in n.bad \union K
        BY <1>9 DEF Known
    <2>2. a \notin f[x].bad /\ x \notin ca.bad
        <3>1. a \in MgmtStart..(NBlocks - 1)
            BY <1>1, Sizes
        <3>2. QED
            BY <1>6, <2>1, <3>1
    <2>3. f[x].wc = n.wc => f[x] = ca
        BY <1>6
    <2>4. MapOK(ca.map, s, x + 1) /\ MapOK(ca.map, s, a + 1)
        BY <1>8, <2>1
    <2>5. /\ a < x => MgmtStart..(a - 1) \subseteq K \union ca.bad
          /\ x < a => MgmtStart..(x - 1) \subseteq K \union ca.bad
        BY <1>13, <2>1, Sizes
    <2>6. \A c \in MgmtStart..(NBlocks - 1) : c \in f[x].bad => c \in ca.bad \union K
        BY <1>6, <2>1
    <2>7. PairOK(f2, K, s, a, x)
        BY <1>1, <1>3, <1>6, <2>1, <2>2, <2>3, <2>4, <2>5 DEF PairOK
    <2>8. PairOK(f2, K, s, x, a)
        BY <1>1, <1>3, <1>6, <2>1, <2>2, <2>3, <2>4, <2>5, <2>6 DEF PairOK
    <2>9. QED
        BY <2>7, <2>8
<1>15. ASSUME NEW x \in Tabs(f2, K), NEW y \in Tabs(f2, K) PROVE PairOK(f2, K, s, x, y)
    <2>1. CASE x \in Tabs(f, K) \ {a} /\ y \in Tabs(f, K) \ {a}
        <3>1. PairOK(f, K, s, x, y) /\ f2[x] = f[x] /\ f2[y] = f[y]
            BY <1>9, <2>1 DEF Common, FlashOK
        <3>2. QED
            BY <3>1 DEF PairOK
    <2>2. QED
        BY <1>4, <1>12, <1>14, <2>1
<1>16. \A x, y, z \in Tabs(f2, K) : x = y \/ y = z \/ x = z
    BY <1>4
<1>17. ASSUME NEW x \in Tabs(f2, K) PROVE Known(f2, K, n, x)
    <2>1. CASE x = a
        BY <1>1, <1>3, <1>6, <2>1 DEF Known
    <2>2. CASE x \in Tabs(f, K) \ {a}
        BY <1>9, <2>2 DEF Known
    <2>3. QED
        BY <1>4, <2>1, <2>2
<1>18. Common(f2, K, n)
    <2>1. FlashOK(f2, K, n.sig)
        BY <1>5, <1>11, <1>15, <1>16 DEF FlashOK
    <2>2. QED
        BY <1>2, <1>3, <1>17, <2>1 DEF Common
<1>19. CacheOK(f2, K, n, ca)
    <2>1. \A x \in Tabs(f2, K) : f2[x].wc = n.wc => f2[x] = ca
        BY <1>3, <1>4, <1>6, <1>9
    <2>2. QED
        BY <2>1 DEF CacheOK
<1>20. QED
    BY <1>4, <1>18, <1>19


(* Where nmbm_try_reserve_blocks goes *)
LEMMA ReserveIn ==
    ASSUME NEW n, Areas(n), Reservable(n) # {}
    PROVE  Reserve(n) \in Int /\ n.lo <= Reserve(n) /\ Reserve(n) < n.top
<1> DEFINE S == Reservable(n)
<1>1. n.lo \in Nat /\ n.top \in Nat
    BY AreaTypes
<1>2. S \in SUBSET Nat /\ \A x \in S : n.lo <= x /\ x < n.top
    BY <1>1 DEF Reservable
<1>3. IsFiniteSet(S)
    <2>1. \A x \in S : x <= n.top
        BY <1>1, <1>2
    <2> HIDE DEF S
    <2>2. QED
        BY <1>1, <1>2, <2>1, FS_BoundedSetOfNaturals
<1>4. Cardinality(S) \in Nat /\ Cardinality(S) # 0
    BY <1>3, FS_CardinalityType, FS_EmptySet
<1>5. Smaller(SpareBlocks, Cardinality(S) - 1) \in Nat
      /\ Smaller(SpareBlocks, Cardinality(S) - 1) < Cardinality(S)
    BY <1>4, Sizes DEF Smaller
<1> HIDE DEF S
<1>6. Nth(S, Smaller(SpareBlocks, Cardinality(S) - 1)) \in S
    BY <1>2, <1>3, <1>5, NthIn
<1>7. QED
    BY <1>2, <1>6 DEF Reserve, S

(* n2 is n with other tables in use *)
Moved(n, n2) ==
    /\ n2 \in Instances
    /\ n2.bad = n.bad /\ n2.sig = n.sig /\ n2.map = n.map /\ n2.top = n.top
    /\ n2.count = n.count /\ n2.wc = n.wc

LEMMA CommonMoved ==
    ASSUME NEW f, NEW K, NEW n, NEW n2, Common(f, K, n), Moved(n, n2),
           MgmtStart < n2.lo, n2.lo <= n2.top
    PROVE  Common(f, K, n2)
<1>1. Areas(n2)
    BY DEF Common, Areas, Moved
<1>2. ASSUME NEW b \in Tabs(f, K) PROVE Known(f, K, n2, b)
    BY DEF Common, Known, Moved
<1>3. QED
    BY <1>1, <1>2 DEF Common, Moved

LEMMA CacheMoved ==
    ASSUME NEW f, NEW K, NEW n, NEW n2, NEW ca, CacheOK(f, K, n, ca), Moved(n, n2)
    PROVE  CacheOK(f, K, n2, ca)
BY DEF CacheOK, Moved

LEMMA MainMoved ==
    ASSUME NEW K, NEW n, NEW n2, Moved(n, n2), NEW x, NEW y, Gone(K, n, x, y)
    PROVE  Gone(K, n2, x, y)
BY DEF Gone, Moved

(* The beginning of a write *)
Begin(site, ba, lim) == [site |-> site, ba |-> ba, lim |-> lim, from |-> ba, erased |-> FALSE]
SpanIn(n, ba, lim) ==
    ba \in Int /\ lim \in Int /\ MgmtStart <= ba /\ ba <= lim /\ lim <= n.top

LEMMA Began ==
    ASSUME NEW n, NEW site \in WriteSites, NEW ba, NEW lim, SpanIn(n, ba, lim)
    PROVE  /\ Begin(site, ba, lim) \in Writes
           /\ SpanOK(n, Begin(site, ba, lim))
           /\ \A f, K : InWrite(f, K, n, Begin(site, ba, lim))
<1> DEFINE w == Begin(site, ba, lim)
<1>1. w = [site |-> site, ba |-> ba, lim |-> lim, from |-> ba, erased |-> FALSE]
    BY DEF Begin
<1>2. SpanOK(n, w)
    BY <1>1 DEF SpanOK, SpanIn
<1>3. \A K : Gone(K, n, w.from, w.ba)
    BY <1>1 DEF Gone, SpanIn
<1>4. w \in Writes
    BY <1>1 DEF Writes, SpanIn
<1>5. w.site = site /\ w.from = ba /\ w.lim = lim /\ w.erased = FALSE
    BY <1>1
<1> HIDE DEF w
<1>6. \A f, K : InWrite(f, K, n, w)
    BY <1>2, <1>3, <1>4, <1>5 DEF InWrite
<1>7. QED
    BY <1>2, <1>4, <1>5, <1>6 DEF w

LEMMA Returned ==
    ASSUME NEW n, NEW ok \in BOOLEAN
    PROVE  /\ Returning(n, ok).n = n /\ Returning(n, ok).wr = NoWrite
           /\ Returning(n, ok).pc \in {"ok", "failed"}
BY DEF Returning


-----------------------------------------------------------------------------
(* Where the functions that write tables go on *)

Lands(f, K, n, r, c, ca) ==
    /\ Phase(f, K, r.n, r.pc, r.wr, c, ca)
    /\ r.n.top = n.top /\ r.n.sig = n.sig
    /\ r.pc \in {"write", "clean", "ok", "failed"}

LEMMA LandsWriting ==
    ASSUME NEW f, NEW K, NEW n, NEW c, NEW ca, NEW site \in WriteSites, NEW ba, NEW lim,
           Common(f, K, n), CacheOK(f, K, n, ca), SiteCtx(site, c), SpanIn(n, ba, lim),
           WriteAt(f, K, n, Begin(site, ba, lim))
    PROVE  Lands(f, K, n, Writing(n, site, ba, lim), c, ca)
<1> DEFINE w == Begin(site, ba, lim)
           r == Writing(n, site, ba, lim)
<1>1. r.n = n /\ r.pc = "write" /\ r.wr = w
    BY DEF Writing, Begin
<1>2. w.site = site
    BY DEF Begin
<1>3. InWrite(f, K, n, w)
    BY Began
<1> HIDE DEF w, r
<1>4. Phase(f, K, n, "write", w, c, ca)
    BY <1>2, <1>3 DEF Phase, w
<1>5. QED
    BY <1>1, <1>4 DEF Lands, r

LEMMA LandsReturning ==
    ASSUME NEW f, NEW K, NEW n, NEW c, NEW ca, NEW ok \in BOOLEAN, Common(f, K, n), AtRest(f, K, n),
           c \in Updating \union {"create", "load"}, c = "load" => n.main # 0
    PROVE  Lands(f, K, n, Returning(n, ok), c, ca)
<1>1. Returning(n, ok).n = n /\ Returning(n, ok).pc \in {"ok", "failed"}
    BY Returned
<1>2. Phase(f, K, n, Returning(n, ok).pc, Returning(n, ok).wr, c, ca)
    BY <1>1 DEF Phase
<1>3. QED
    BY <1>1, <1>2 DEF Lands

LEMMA LandsCleaning ==
    ASSUME NEW f, NEW K, NEW n, NEW c, NEW ca, NEW site \in {"rebuild_backup", "front", "next"},
           NEW ba, NEW lim, Common(f, K, n), SiteCtx(site, c), SpanIn(n, ba, lim),
           CleanAt(f, K, n, Begin(site, ba, lim))
    PROVE  Lands(f, K, n, Cleaning(n, site, ba, lim), c, ca)
<1> DEFINE w == Begin(site, ba, lim)
           r == Cleaning(n, site, ba, lim)
<1>1. r.n = n /\ r.pc = "clean" /\ r.wr = w
    BY DEF Cleaning, Begin
<1>2. site \in WriteSites
    BY DEF WriteSites
<1>3. w.site = site /\ w.erased = FALSE
    BY DEF Begin
<1>4. SpanOK(n, w) /\ w \in Writes
    BY <1>2, Began
<1> HIDE DEF w, r
<1>5. Phase(f, K, n, "clean", w, c, ca)
    BY <1>2, <1>3, <1>4 DEF Phase, w
<1>6. QED
    BY <1>1, <1>5 DEF Lands, r

(* nmbm_rebuild_info_table, without a table *)
LEMMA LandsRebuild ==
    ASSUME NEW f, NEW K, NEW n \in Instances, NEW c \in Updating \union {"create"}, NEW ca, NEW m,
           m = [n EXCEPT !.main = 0, !.backup = 0, !.lo = n.top],
           Common(f, K, m), CacheOK(f, K, m, ca), Tabs(f, K) = {}
    PROVE  Lands(f, K, n, rebuild_info_table(n), c, ca)
<1>1. m.main = 0 /\ m.backup = 0 /\ m.top = n.top /\ m.sig = n.sig /\ m.lo = n.top
    BY DEF Instances
<1>2. SpanIn(m, MgmtStart, m.top)
    <2>1. Areas(m)
        BY DEF Common
    <2>2. m.top \in Nat /\ m.lo \in Nat /\ MgmtStart < m.lo /\ m.lo <= m.top
        BY <2>1, AreaTypes
    <2>3. QED
        BY <2>2, Sizes DEF SpanIn
<1> DEFINE w == Begin("rebuild_main", MgmtStart, m.top)
<1>3. w.site = "rebuild_main" /\ w.from = MgmtStart /\ w.lim = m.top
    BY DEF Begin
<1>4. WriteAt(f, K, m, w)
    BY <1>1, <1>3 DEF WriteAt
<1>5. SiteCtx("rebuild_main", c) /\ "rebuild_main" \in WriteSites
    BY DEF SiteCtx, WriteSites
<1>6. Lands(f, K, m, Writing(m, "rebuild_main", MgmtStart, m.top), c, ca)
    <2> HIDE DEF w
    <2>1. QED
        BY <1>2, <1>4, <1>5, LandsWriting DEF w
<1>7. rebuild_info_table(n) = Writing(m, "rebuild_main", MgmtStart, m.top)
    BY <1>1 DEF rebuild_info_table
<1>8. QED
    BY <1>1, <1>6, <1>7 DEF Lands

(* The write_main_table label of nmbm_update_info_table_once *)
LEMMA LandsMain ==
    ASSUME NEW f, NEW K, NEW n, NEW c \in Updating, NEW ca, NEW lim,
           Common(f, K, n), CacheOK(f, K, n, ca),
           n.main = 0 => Tabs(f, K) = {},
           n.main # 0 => MainIn(K, n) /\ Tabs(f, K) \subseteq {n.main, n.backup},
           n.backup = 0 => lim = n.top,
           n.backup # 0 => BackupIn(n) /\ lim = n.backup /\ n.backup \in Tabs(f, K)
    PROVE  Lands(f, K, n, write_main_table(n, lim), c, ca)
<1>1. /\ n \in Instances /\ n.main \in Nat /\ n.backup \in Nat /\ n.lo \in Nat /\ n.top \in Nat
      /\ MgmtStart < n.lo /\ n.lo <= n.top
    BY AreaTypes DEF Common
<1>2. CASE n.main = 0
    <2> DEFINE m == [n EXCEPT !.main = 0, !.backup = 0, !.lo = n.top]
    <2>1. Moved(n, m) /\ m.lo = n.top /\ m.top = n.top
        BY <1>1, Sizes DEF Moved, Instances
    <2> HIDE DEF m
    <2>2. Common(f, K, m) /\ CacheOK(f, K, m, ca)
        BY <1>1, <2>1, CommonMoved, CacheMoved, Sizes
    <2>3. Lands(f, K, n, rebuild_info_table(n), c, ca)
        BY <1>1, <1>2, <2>2, LandsRebuild DEF m
    <2>4. QED
        BY <1>2, <2>3 DEF write_main_table
<1>3. CASE n.main # 0
    <2> DEFINE w == Begin("main", n.main, lim)
    <2>1. w.site = "main" /\ w.from = n.main /\ w.lim = lim
        BY DEF Begin
    <2>2. SpanIn(n, n.main, lim)
        BY <1>1, <1>3 DEF MainIn, BackupIn, SpanIn
    <2>3. WriteAt(f, K, n, w)
        BY <1>3, <2>1 DEF WriteAt
    <2>4. SiteCtx("main", c) /\ "main" \in WriteSites
        BY DEF SiteCtx, WriteSites
    <2>5. Lands(f, K, n, Writing(n, "main", n.main, lim), c, ca)
        <3> HIDE DEF w
        <3>1. QED
            BY <1>1, <2>2, <2>3, <2>4, LandsWriting DEF w
    <2>6. QED
        BY <1>3, <2>5 DEF write_main_table
<1>4. QED
    BY <1>2, <1>3


(* nmbm_rescue_main_info_table: only the backup is left *)
LEMMA BackupAlone ==
    ASSUME NEW f, NEW K, NEW n, Common(f, K, n), MainIn(K, n), BackupIn(n),
           Gone(K, n, MgmtStart, n.backup), Tabs(f, K) = {n.backup}
    PROVE  /\ Common(f, K, backup_becomes_main(n)) /\ AtRest(f, K, backup_becomes_main(n))
           /\ Moved(n, backup_becomes_main(n)) /\ backup_becomes_main(n).main = n.backup
           /\ backup_becomes_main(n).backup = 0 /\ backup_becomes_main(n).lo = n.lo
           /\ n.backup # 0
<1> DEFINE m == backup_becomes_main(n)
<1>1. /\ n \in Instances /\ n.main \in Nat /\ n.backup \in Nat /\ n.lo \in Nat /\ n.top \in Nat
      /\ MgmtStart < n.lo /\ n.lo <= n.top
    BY AreaTypes DEF Common
<1>2. n.backup # 0 /\ MgmtStart <= n.backup /\ n.backup < n.lo
    BY <1>1, Sizes DEF MainIn, BackupIn
<1>3. Moved(n, m) /\ m.main = n.backup /\ m.backup = 0 /\ m.lo = n.lo /\ m.top = n.top
    BY <1>1, Sizes DEF backup_becomes_main, Moved, Instances
<1> HIDE DEF m
<1>4. Common(f, K, m)
    BY <1>1, <1>3, CommonMoved
<1>5. MainIn(K, m)
    BY <1>2, <1>3, MainMoved DEF MainIn
<1>6. AtRest(f, K, m)
    BY <1>2, <1>3, <1>5 DEF AtRest
<1>7. QED
    BY <1>2, <1>3, <1>4, <1>6 DEF m

LEMMA LandsRescue ==
    ASSUME NEW f, NEW K, NEW n, NEW c \in Updating, NEW ca, Common(f, K, n), CacheOK(f, K, n, ca),
           MainIn(K, n), BackupIn(n), Gone(K, n, MgmtStart, n.backup), Tabs(f, K) = {n.backup}
    PROVE  Lands(f, K, n, rescue_main_info_table(n), c, ca)
<1>1. CASE Reservable(n) = {}
    <2> DEFINE m == backup_becomes_main(n)
    <2>1. Common(f, K, m) /\ AtRest(f, K, m) /\ Moved(n, m)
        BY BackupAlone
    <2>2. c \in Updating \union {"create", "load"} /\ c # "load" /\ TRUE \in BOOLEAN
        BY DEF Updating
    <2> HIDE DEF m
    <2>3. Lands(f, K, m, Returning(m, TRUE), c, ca)
        BY <2>1, <2>2, LandsReturning
    <2>4. QED
        BY <1>1, <2>1, <2>3 DEF Lands, rescue_main_info_table, Moved, m
<1>2. CASE Reservable(n) # {}
    <2>1. Areas(n)
        BY DEF Common
    <2>2. Reserve(n) \in Int /\ n.lo <= Reserve(n) /\ Reserve(n) < n.top
        BY <1>2, <2>1, ReserveIn
    <2>3. n.lo \in Nat /\ n.top \in Nat /\ MgmtStart < n.lo
        BY <2>1, AreaTypes
    <2>4. SpanIn(n, Reserve(n), n.top)
        BY <2>2, <2>3, Sizes DEF SpanIn
    <2> DEFINE w == Begin("tmp", Reserve(n), n.top)
    <2>5. w.site = "tmp" /\ w.from = Reserve(n) /\ w.lim = n.top
        BY DEF Begin
    <2>6. WriteAt(f, K, n, w)
        BY <2>2, <2>5 DEF WriteAt
    <2>7. SiteCtx("tmp", c) /\ "tmp" \in WriteSites
        BY DEF SiteCtx, WriteSites
    <2>8. Lands(f, K, n, Writing(n, "tmp", Reserve(n), n.top), c, ca)
        <3> HIDE DEF w
        <3>1. QED
            BY <2>4, <2>6, <2>7, LandsWriting DEF w
    <2>9. QED
        BY <1>2, <2>8 DEF rescue_main_info_table
<1>3. QED
    BY <1>1, <1>2

(* Block a has taken the table; f0 is the flash before *)
Took(f0, f, K, n, w, ca, a) ==
    /\ Common(f, K, n) /\ CacheOK(f, K, n, ca) /\ WriteAt(f0, K, n, w)
    /\ Tabs(f, K) = Tabs(f0, K) \union {a}
    /\ a \in Int /\ w.from \in Int /\ w.lim \in Int
    /\ MgmtStart <= w.from /\ w.from <= a /\ a < w.lim /\ w.lim <= n.top
    /\ Gone(K, n, w.from, a)

LEMMA TookFacts ==
    ASSUME NEW f0, NEW f, NEW K, NEW n, NEW w, NEW ca, NEW a, Took(f0, f, K, n, w, ca, a)
    PROVE  /\ n \in Instances /\ n.main \in Nat /\ n.backup \in Nat /\ n.lo \in Nat /\ n.top \in Nat
           /\ n.main \in Blocks /\ n.backup \in Blocks /\ n.lo \in Blocks /\ n.top \in Blocks
           /\ MgmtStart < n.lo /\ n.lo <= n.top /\ MgmtStart \in Nat /\ 1 <= MgmtStart
           /\ a \in Blocks /\ a + 1 \in Blocks /\ a # 0 /\ MgmtStart <= a /\ a < n.top /\ 0 \in Blocks
           /\ a \in Int /\ w.from \in Int /\ w.lim \in Int /\ w.from <= a /\ a < w.lim /\ w.lim <= n.top
           /\ \A x \in Tabs(f, K) : x \in Int /\ x \notin K \union n.bad
           /\ a \in Tabs(f, K)
<1>1. Areas(n)
    BY DEF Took, Common
<1>2. /\ n \in Instances /\ n.main \in Nat /\ n.backup \in Nat /\ n.lo \in Nat /\ n.top \in Nat
      /\ MgmtStart < n.lo /\ n.lo <= n.top /\ n.top < n.sig /\ n.sig < NBlocks /\ n.sig \in Nat
    BY <1>1, AreaTypes
<1>3. n.main \in Blocks /\ n.backup \in Blocks /\ n.lo \in Blocks /\ n.top \in Blocks
    BY <1>2 DEF Instances
<1>4. /\ a \in Int /\ w.from \in Int /\ w.lim \in Int /\ MgmtStart <= w.from
      /\ w.from <= a /\ a < w.lim /\ w.lim <= n.top
    BY DEF Took
<1>5. a \in Blocks /\ a + 1 \in Blocks /\ a # 0 /\ MgmtStart <= a /\ a < n.top
    BY <1>2, <1>4, Sizes
<1>6. \A x \in Tabs(f, K) : x \in Int /\ x \notin K \union n.bad
    BY Sizes DEF Took, Common, Known, Tabs
<1>7. a \in Tabs(f, K)
    BY DEF Took
<1>8. QED
    BY <1>2, <1>3, <1>4, <1>5, <1>6, <1>7, Sizes


LEMMA WroteBackup ==
    ASSUME NEW f0, NEW f, NEW K, NEW n, NEW w, NEW ca, NEW a, Took(f0, f, K, n, w, ca, a), NEW c,
           w.site = "backup", SiteCtx(w.site, c)
    PROVE  Lands(f, K, n, OnWritten(n, w, a), c, ca)
<1> DEFINE m == mark_tables_clean([n EXCEPT !.backup = a, !.lo = a + 1])
<1>1. Moved(n, m) /\ m.main = n.main /\ m.backup = a /\ m.lo = a + 1 /\ m.top = n.top
    <2>1. n \in Instances /\ a \in Blocks /\ a + 1 \in Blocks
        BY TookFacts
    <2>2. QED
        BY <2>1 DEF mark_tables_clean, Moved, Instances
<1>2. OnWritten(n, w, a) = write_main_table(m, a)
    BY DEF OnWritten
<1> HIDE DEF m
<1>3. /\ MainIn(K, n) /\ BackupIn(n) /\ w.from = n.backup
      /\ Tabs(f0, K) \subseteq {n.main, n.backup} /\ n.main \in Tabs(f0, K)
    BY DEF Took, WriteAt
<1>4. n.main # 0 /\ n.main < a
    BY <1>3, TookFacts DEF MainIn, BackupIn
<1>5. Tabs(f, K) \subseteq {n.main, a}
    <2>1. Gone(K, n, n.backup, a) /\ Tabs(f, K) = Tabs(f0, K) \union {a}
        BY <1>3 DEF Took
    <2>2. n.backup \in Tabs(f, K) => n.backup = a
        BY <1>3, <2>1, TookFacts DEF Gone
    <2>3. QED
        BY <1>3, <2>1, <2>2
<1>6. Common(f, K, m) /\ CacheOK(f, K, m, ca)
    <2>1. MgmtStart < m.lo /\ m.lo <= m.top
        BY <1>1, TookFacts
    <2>2. QED
        BY <1>1, <2>1, CommonMoved, CacheMoved DEF Took
<1>7. MainIn(K, m) /\ BackupIn(m)
    <2>1. Gone(K, m, MgmtStart, n.main)
        BY <1>1, <1>3, MainMoved DEF MainIn
    <2>2. QED
        BY <1>1, <1>3, <1>4, <2>1, TookFacts DEF MainIn, BackupIn
<1>8. c \in Updating
    BY DEF SiteCtx
<1>9. Lands(f, K, m, write_main_table(m, a), c, ca)
    <2>1. m.main # 0 /\ m.backup # 0 /\ m.backup \in Tabs(f, K)
        BY <1>1, <1>4, TookFacts
    <2>2. QED
        BY <1>1, <1>5, <1>6, <1>7, <1>8, <2>1, LandsMain
<1>10. QED
    BY <1>1, <1>2, <1>9 DEF Lands, Moved

LEMMA WroteMain ==
    ASSUME NEW f0, NEW f, NEW K, NEW n, NEW w, NEW ca, NEW a, Took(f0, f, K, n, w, ca, a), NEW c,
           w.site \in {"main", "only_main"}, SiteCtx(w.site, c)
    PROVE  Lands(f, K, n, OnWritten(n, w, a), c, ca)
<1> DEFINE m == IF n.backup = 0 THEN mark_tables_clean([n EXCEPT !.main = a, !.lo = a + 1])
                ELSE mark_tables_clean([n EXCEPT !.main = a])
<1>1. /\ Moved(n, m) /\ m.main = a /\ m.backup = n.backup /\ m.top = n.top
      /\ n.backup = 0 => m.lo = a + 1
      /\ n.backup # 0 => m.lo = n.lo
    <2>1. n \in Instances /\ a \in Blocks /\ a + 1 \in Blocks
        BY TookFacts
    <2>2. QED
        BY <2>1 DEF mark_tables_clean, Moved, Instances
<1>2. /\ MainIn(K, n) /\ w.from = n.main /\ Tabs(f0, K) \subseteq {n.main, n.backup}
      /\ n.backup # 0 => BackupIn(n) /\ w.lim = n.backup /\ n.backup \in Tabs(f0, K)
      /\ w.site = "only_main" => n.backup # 0
    BY DEF Took, WriteAt
<1>3. OnWritten(n, w, a) = Returning(m, TRUE)
    <2>1. CASE w.site = "main"
        BY <2>1, TookFacts DEF OnWritten, Instances
    <2>2. CASE w.site = "only_main"
        BY <1>2, <2>2 DEF OnWritten
    <2>3. QED
        BY <2>1, <2>2
<1> HIDE DEF m
<1>4. Tabs(f, K) = {a, n.backup} \ {0}
    <2>1. Gone(K, n, n.main, a) /\ Tabs(f, K) = Tabs(f0, K) \union {a}
        BY <1>2 DEF Took
    <2>2. n.main \in Tabs(f, K) => n.main = a
        BY <1>2, <2>1, TookFacts DEF Gone
    <2>3. 0 \notin Tabs(f, K)
        <3>1. \A x \in Tabs(f, K) : x \in MgmtStart..(n.sig - 2)
            BY DEF Took, Common, FlashOK, TabOK
        <3>2. QED
            BY <3>1, TookFacts
    <2>4. QED
        BY <1>2, <2>1, <2>2, <2>3
<1>5. MgmtStart < m.lo /\ m.lo <= m.top
    BY <1>1, TookFacts
<1>6. Common(f, K, m)
    BY <1>1, <1>5, CommonMoved DEF Took
<1>7. MainIn(K, m)
    <2>1. Gone(K, n, MgmtStart, a)
        BY <1>2, TookFacts DEF MainIn, Gone, Took
    <2>2. Gone(K, m, MgmtStart, a)
        BY <1>1, <2>1, MainMoved
    <2>3. a < m.lo
        BY <1>1, <1>2, TookFacts DEF BackupIn
    <2>4. QED
        BY <1>1, <2>2, <2>3, TookFacts DEF MainIn
<1>8. n.backup # 0 => BackupIn(m)
    BY <1>1, <1>2, TookFacts DEF BackupIn
<1>9. AtRest(f, K, m)
    BY <1>1, <1>4, <1>7, <1>8, TookFacts DEF AtRest
<1>10. Lands(f, K, m, Returning(m, TRUE), c, ca)
    <2>1. c \in Updating \union {"create", "load"} /\ m.main # 0 /\ TRUE \in BOOLEAN
        BY <1>1, TookFacts DEF SiteCtx
    <2>2. QED
        BY <1>6, <1>9, <2>1, LandsReturning
<1>11. QED
    BY <1>1, <1>3, <1>10 DEF Lands, Moved


LEMMA WroteOnlyBackup ==
    ASSUME NEW f0, NEW f, NEW K, NEW n, NEW w, NEW ca, NEW a, Took(f0, f, K, n, w, ca, a), NEW c,
           w.site = "only_backup", SiteCtx(w.site, c)
    PROVE  Lands(f, K, n, OnWritten(n, w, a), c, ca)
<1> DEFINE m == mark_tables_clean([n EXCEPT !.backup = a, !.lo = a + 1])
<1>1. Moved(n, m) /\ m.main = n.main /\ m.backup = a /\ m.lo = a + 1 /\ m.top = n.top
    <2>1. n \in Instances /\ a \in Blocks /\ a + 1 \in Blocks
        BY TookFacts
    <2>2. QED
        BY <2>1 DEF mark_tables_clean, Moved, Instances
<1>2. OnWritten(n, w, a) = Returning(m, TRUE)
    BY DEF OnWritten
<1> HIDE DEF m
<1>3. /\ MainIn(K, n) /\ BackupIn(n) /\ w.from = n.backup
      /\ Tabs(f0, K) \subseteq {n.main, n.backup} /\ n.main \in Tabs(f0, K)
    BY DEF Took, WriteAt
<1>4. n.main # 0 /\ n.main < a
    BY <1>3, TookFacts DEF MainIn, BackupIn
<1>5. Tabs(f, K) = {n.main, a}
    <2>1. Gone(K, n, n.backup, a) /\ Tabs(f, K) = Tabs(f0, K) \union {a}
        BY <1>3 DEF Took
    <2>2. n.backup \in Tabs(f, K) => n.backup = a
        BY <1>3, <2>1, TookFacts DEF Gone
    <2>3. QED
        BY <1>3, <2>1, <2>2
<1>6. Common(f, K, m)
    <2>1. MgmtStart < m.lo /\ m.lo <= m.top
        BY <1>1, TookFacts
    <2>2. QED
        BY <1>1, <2>1, CommonMoved DEF Took
<1>7. MainIn(K, m) /\ BackupIn(m)
    <2>1. Gone(K, m, MgmtStart, n.main)
        BY <1>1, <1>3, MainMoved DEF MainIn
    <2>2. QED
        BY <1>1, <1>3, <1>4, <2>1, TookFacts DEF MainIn, BackupIn
<1>8. AtRest(f, K, m)
    BY <1>1, <1>4, <1>5, <1>7, TookFacts DEF AtRest
<1>9. Lands(f, K, m, Returning(m, TRUE), c, ca)
    <2>1. c \in Updating \union {"create", "load"} /\ m.main # 0 /\ TRUE \in BOOLEAN
        BY <1>1, <1>4 DEF SiteCtx
    <2>2. QED
        BY <1>6, <1>8, <2>1, LandsReturning
<1>10. QED
    BY <1>1, <1>2, <1>9 DEF Lands, Moved

(* The spare blocks that are left free before the backup table *)
LEMMA LandsBackup ==
    ASSUME NEW f, NEW K, NEW n, NEW c, NEW ca, NEW site \in {"rebuild_backup", "next"}, SiteCtx(site, c),
           Common(f, K, n), CacheOK(f, K, n, ca), MainIn(K, n), n.backup = 0, Tabs(f, K) = {n.main},
           NEW ba \in Int, n.lo <= ba, ba <= n.top
    PROVE  Lands(f, K, n, Writing(n, site, ba, n.top), c, ca)
<1>1. n.lo \in Nat /\ n.top \in Nat /\ MgmtStart < n.lo
    BY AreaTypes DEF Common
<1>2. SpanIn(n, ba, n.top)
    BY <1>1, Sizes DEF SpanIn
<1> DEFINE w == Begin(site, ba, n.top)
<1>3. w.site = site /\ w.from = ba /\ w.lim = n.top
    BY DEF Begin
<1>4. WriteAt(f, K, n, w)
    BY <1>3 DEF WriteAt
<1>5. site \in WriteSites
    BY DEF WriteSites
<1>6. QED
    <2> HIDE DEF w
    <2>1. QED
        BY <1>2, <1>4, <1>5, LandsWriting DEF w

LEMMA WroteRebuild ==
    ASSUME NEW f0, NEW f, NEW K, NEW n, NEW w, NEW ca, NEW a, Took(f0, f, K, n, w, ca, a), NEW c,
           w.site = "rebuild_main", SiteCtx(w.site, c)
    PROVE  Lands(f, K, n, OnWritten(n, w, a), c, ca)
<1> DEFINE m == mark_tables_clean([[n EXCEPT !.main = a] EXCEPT !.lo = a + 1])
<1>1. Moved(n, m) /\ m.main = a /\ m.backup = n.backup /\ m.lo = a + 1 /\ m.top = n.top
    <2>1. n \in Instances /\ a \in Blocks /\ a + 1 \in Blocks
        BY TookFacts
    <2>2. QED
        BY <2>1 DEF mark_tables_clean, Moved, Instances
<1>2. OnWritten(n, w, a) = IF Reservable(m) = {} THEN Returning(m, TRUE)
                           ELSE Writing(m, "rebuild_backup", Reserve(m), m.top)
    BY DEF OnWritten
<1> HIDE DEF m
<1>3. n.backup = 0 /\ w.from = MgmtStart /\ Tabs(f, K) = {a}
    BY DEF Took, WriteAt
<1>4. Common(f, K, m) /\ CacheOK(f, K, m, ca)
    <2>1. MgmtStart < m.lo /\ m.lo <= m.top
        BY <1>1, TookFacts
    <2>2. QED
        BY <1>1, <2>1, CommonMoved, CacheMoved DEF Took
<1>5. MainIn(K, m)
    <2>1. Gone(K, n, MgmtStart, a)
        BY <1>3 DEF Took
    <2>2. Gone(K, m, MgmtStart, a)
        BY <1>1, <2>1, MainMoved
    <2>3. QED
        BY <1>1, <2>2, TookFacts DEF MainIn
<1>6. AtRest(f, K, m)
    BY <1>1, <1>3, <1>5, TookFacts DEF AtRest
<1>7. CASE Reservable(m) = {}
    <2>1. c \in Updating \union {"create", "load"} /\ m.main # 0 /\ TRUE \in BOOLEAN
        BY <1>1, TookFacts DEF SiteCtx
    <2>2. Lands(f, K, m, Returning(m, TRUE), c, ca)
        BY <1>4, <1>6, <2>1, LandsReturning
    <2>3. QED
        BY <1>1, <1>2, <1>7, <2>2 DEF Lands, Moved
<1>8. CASE Reservable(m) # {}
    <2>1. Reserve(m) \in Int /\ m.lo <= Reserve(m) /\ Reserve(m) < m.top /\ m.top \in Nat
        BY <1>4, <1>8, ReserveIn, AreaTypes DEF Common
    <2>2. SiteCtx("rebuild_backup", c)
        BY DEF SiteCtx
    <2>3. Lands(f, K, m, Writing(m, "rebuild_backup", Reserve(m), m.top), c, ca)
        <3>1. m.backup = 0 /\ Tabs(f, K) = {m.main} /\ Reserve(m) <= m.top
            BY <1>1, <1>3, <2>1
        <3>2. QED
            BY <1>4, <1>5, <2>1, <2>2, <3>1, LandsBackup
    <2>4. QED
        BY <1>1, <1>2, <1>8, <2>3 DEF Lands, Moved
<1>9. QED
    BY <1>7, <1>8


LEMMA WroteSecond ==
    ASSUME NEW f0, NEW f, NEW K, NEW n, NEW w, NEW ca, NEW a, Took(f0, f, K, n, w, ca, a), NEW c,
           w.site = "rebuild_backup", SiteCtx(w.site, c)
    PROVE  Lands(f, K, n, OnWritten(n, w, a), c, ca)
<1> DEFINE m == [n EXCEPT !.backup = a, !.lo = a + 1]
<1>1. Moved(n, m) /\ m.main = n.main /\ m.backup = a /\ m.lo = a + 1 /\ m.top = n.top
    <2>1. n \in Instances /\ a \in Blocks /\ a + 1 \in Blocks
        BY TookFacts
    <2>2. QED
        BY <2>1 DEF Moved, Instances
<1>2. OnWritten(n, w, a) = Cleaning(m, "rebuild_backup", n.main + 1, a)
    BY DEF OnWritten
<1> HIDE DEF m
<1>3. MainIn(K, n) /\ n.lo <= w.from /\ Tabs(f, K) = {n.main, a}
    BY DEF Took, WriteAt
<1>4. n.main < a /\ n.main + 1 \in Int /\ MgmtStart <= n.main + 1 /\ n.main + 1 <= a
    BY <1>3, TookFacts DEF MainIn
<1>5. Common(f, K, m)
    <2>1. MgmtStart < m.lo /\ m.lo <= m.top
        BY <1>1, TookFacts
    <2>2. QED
        BY <1>1, <2>1, CommonMoved DEF Took
<1>6. MainIn(K, m) /\ BackupIn(m)
    <2>1. Gone(K, m, MgmtStart, n.main)
        BY <1>1, <1>3, MainMoved DEF MainIn
    <2>2. QED
        BY <1>1, <1>3, <1>4, <2>1, TookFacts DEF MainIn, BackupIn
<1>7. SpanIn(m, n.main + 1, a)
    BY <1>1, <1>4, TookFacts DEF SpanIn
<1>8. CleanAt(f, K, m, Begin("rebuild_backup", n.main + 1, a))
    <2> DEFINE v == Begin("rebuild_backup", n.main + 1, a)
    <2>1. v.site = "rebuild_backup" /\ v.from = n.main + 1 /\ v.lim = a
        BY DEF Begin
    <2>2. n.main < n.main + 1
        BY TookFacts
    <2> HIDE DEF v
    <2>3. CleanAt(f, K, m, v)
        BY <1>1, <1>3, <1>6, <2>1, <2>2 DEF CleanAt
    <2>4. QED
        BY <2>3 DEF v
<1>9. Lands(f, K, m, Cleaning(m, "rebuild_backup", n.main + 1, a), c, ca)
    <2>1. SiteCtx("rebuild_backup", c) /\ "rebuild_backup" \in {"rebuild_backup", "front", "next"}
        OBVIOUS
    <2> DEFINE x == n.main + 1
    <2> HIDE DEF x
    <2>2. SpanIn(m, x, a) /\ CleanAt(f, K, m, Begin("rebuild_backup", x, a))
        BY <1>7, <1>8 DEF x
    <2>3. Lands(f, K, m, Cleaning(m, "rebuild_backup", x, a), c, ca)
        BY <1>5, <2>1, <2>2, LandsCleaning
    <2>4. QED
        BY <2>3 DEF x
<1>10. QED
    BY <1>1, <1>2, <1>9 DEF Lands, Moved

LEMMA WroteFront ==
    ASSUME NEW f0, NEW f, NEW K, NEW n, NEW w, NEW ca, NEW a, Took(f0, f, K, n, w, ca, a), NEW c,
           w.site = "front", SiteCtx(w.site, c)
    PROVE  Lands(f, K, n, OnWritten(n, w, a), c, ca)
<1> DEFINE m == mark_tables_clean([[n EXCEPT !.main = a] EXCEPT !.backup = n.main])
<1>1. Moved(n, m) /\ m.main = a /\ m.backup = n.main /\ m.lo = n.lo /\ m.top = n.top
    <2>1. n \in Instances /\ a \in Blocks
        BY TookFacts
    <2>2. QED
        BY <2>1 DEF mark_tables_clean, Moved, Instances
<1>2. OnWritten(n, w, a) = Cleaning(m, "front", a + 1, n.main)
    BY DEF OnWritten
<1> HIDE DEF m
<1>3. /\ n.main < n.lo /\ Tabs(f, K) = {n.main, a} /\ w.from = MgmtStart /\ w.lim = n.main
    BY DEF Took, WriteAt
<1>4. a < n.main /\ a + 1 \in Int /\ MgmtStart <= a + 1 /\ a + 1 <= n.main
    BY <1>3, TookFacts
<1>5. Common(f, K, m)
    <2>1. MgmtStart < m.lo /\ m.lo <= m.top
        BY <1>1, TookFacts
    <2>2. QED
        BY <1>1, <2>1, CommonMoved DEF Took
<1>6. MainIn(K, m) /\ BackupIn(m)
    <2>1. Gone(K, n, MgmtStart, a)
        BY <1>3 DEF Took
    <2>2. Gone(K, m, MgmtStart, a)
        BY <1>1, <2>1, MainMoved
    <2>3. QED
        BY <1>1, <1>3, <1>4, <2>2, TookFacts DEF MainIn, BackupIn
<1>7. SpanIn(m, a + 1, n.main)
    BY <1>1, <1>3, <1>4, TookFacts DEF SpanIn
<1>8. CleanAt(f, K, m, Begin("front", a + 1, n.main))
    <2> DEFINE v == Begin("front", a + 1, n.main)
    <2>1. v.site = "front" /\ v.from = a + 1 /\ v.lim = n.main
        BY DEF Begin
    <2>2. a < a + 1
        BY TookFacts
    <2> HIDE DEF v
    <2>3. CleanAt(f, K, m, v)
        BY <1>1, <1>3, <1>6, <2>1, <2>2 DEF CleanAt
    <2>4. QED
        BY <2>3 DEF v
<1>9. Lands(f, K, m, Cleaning(m, "front", a + 1, n.main), c, ca)
    <2>1. SiteCtx("front", c) /\ "front" \in {"rebuild_backup", "front", "next"}
        OBVIOUS
    <2> DEFINE x == a + 1
               y == n.main
    <2> HIDE DEF x, y
    <2>2. SpanIn(m, x, y) /\ CleanAt(f, K, m, Begin("front", x, y))
        BY <1>7, <1>8 DEF x, y
    <2>3. Lands(f, K, m, Cleaning(m, "front", x, y), c, ca)
        BY <1>5, <2>1, <2>2, LandsCleaning
    <2>4. QED
        BY <2>3 DEF x, y
<1>10. QED
    BY <1>1, <1>2, <1>9 DEF Lands, Moved

LEMMA WroteNext ==
    ASSUME NEW f0, NEW f, NEW K, NEW n, NEW w, NEW ca, NEW a, Took(f0, f, K, n, w, ca, a), NEW c,
           w.site = "next", SiteCtx(w.site, c)
    PROVE  Lands(f, K, n, OnWritten(n, w, a), c, ca)
<1>1. OnWritten(n, w, a) = Cleaning(n, "next", n.lo, a)
    BY DEF OnWritten
<1>2. /\ MainIn(K, n) /\ n.backup = 0 /\ n.lo <= w.from /\ Tabs(f, K) = {n.main, a}
      /\ Common(f, K, n)
    BY DEF Took, WriteAt
<1>3. SpanIn(n, n.lo, a)
    BY <1>2, TookFacts DEF SpanIn
<1>4. CleanAt(f, K, n, Begin("next", n.lo, a))
    <2> DEFINE v == Begin("next", n.lo, a)
    <2>1. v.site = "next" /\ v.from = n.lo /\ v.lim = a
        BY DEF Begin
    <2>2. n.lo <= n.lo /\ a < n.top
        BY TookFacts
    <2> HIDE DEF v
    <2>3. CleanAt(f, K, n, v)
        BY <1>2, <2>1, <2>2 DEF CleanAt
    <2>4. QED
        BY <2>3 DEF v
<1>5. SiteCtx("next", c) /\ "next" \in {"rebuild_backup", "front", "next"}
    OBVIOUS
<1>6. QED
    BY <1>1, <1>2, <1>3, <1>4, <1>5, LandsCleaning

LEMMA WroteTmp ==
    ASSUME NEW f0, NEW f, NEW K, NEW n, NEW w, NEW ca, NEW a, Took(f0, f, K, n, w, ca, a), NEW c,
           w.site = "tmp", SiteCtx(w.site, c)
    PROVE  Lands(f, K, n, OnWritten(n, w, a), c, ca)
<1> DEFINE m == [n EXCEPT !.lo = a + 1]
<1>1. Moved(n, m) /\ m.main = n.main /\ m.backup = n.backup /\ m.lo = a + 1 /\ m.top = n.top
    <2>1. n \in Instances /\ a + 1 \in Blocks
        BY TookFacts
    <2>2. QED
        BY <2>1 DEF Moved, Instances
<1>2. OnWritten(n, w, a) = Writing(m, "rescue_main", MgmtStart, a)
    BY DEF OnWritten
<1> HIDE DEF m
<1>3. /\ MainIn(K, n) /\ BackupIn(n) /\ Gone(K, n, MgmtStart, n.backup)
      /\ n.lo <= w.from /\ Tabs(f, K) = {n.backup, a}
    BY DEF Took, WriteAt
<1>4. n.main < n.backup /\ n.backup < a
    BY <1>3, TookFacts DEF BackupIn
<1>5. Common(f, K, m) /\ CacheOK(f, K, m, ca)
    <2>1. MgmtStart < m.lo /\ m.lo <= m.top
        BY <1>1, TookFacts
    <2>2. QED
        BY <1>1, <2>1, CommonMoved, CacheMoved DEF Took
<1>6. MainIn(K, m) /\ BackupIn(m) /\ Gone(K, m, MgmtStart, m.backup)
    <2>1. Gone(K, m, MgmtStart, n.main) /\ Gone(K, m, MgmtStart, n.backup)
        BY <1>1, <1>3, MainMoved DEF MainIn
    <2>2. QED
        BY <1>1, <1>3, <1>4, <2>1, TookFacts DEF MainIn, BackupIn
<1>7. SpanIn(m, MgmtStart, a)
    BY <1>1, TookFacts DEF SpanIn
<1>8. WriteAt(f, K, m, Begin("rescue_main", MgmtStart, a))
    <2> DEFINE v == Begin("rescue_main", MgmtStart, a)
    <2>1. v.site = "rescue_main" /\ v.from = MgmtStart /\ v.lim = a
        BY DEF Begin
    <2> HIDE DEF v
    <2>2. WriteAt(f, K, m, v)
        BY <1>1, <1>3, <1>4, <1>6, <2>1 DEF WriteAt
    <2>3. QED
        BY <2>2 DEF v
<1>9. Lands(f, K, m, Writing(m, "rescue_main", MgmtStart, a), c, ca)
    <2>1. SiteCtx("rescue_main", c) /\ "rescue_main" \in WriteSites
        BY DEF SiteCtx, WriteSites
    <2>2. QED
        BY <1>5, <1>7, <1>8, <2>1, LandsWriting
<1>10. QED
    BY <1>1, <1>2, <1>9 DEF Lands, Moved

LEMMA WroteRescue ==
    ASSUME NEW f0, NEW f, NEW K, NEW n, NEW w, NEW ca, NEW a, Took(f0, f, K, n, w, ca, a), NEW c,
           w.site = "rescue_main", SiteCtx(w.site, c)
    PROVE  Lands(f, K, n, OnWritten(n, w, a), c, ca)
<1> DEFINE m == mark_tables_clean([[n EXCEPT !.main = a] EXCEPT !.backup = w.lim])
<1>1. /\ MainIn(K, n) /\ BackupIn(n) /\ Gone(K, n, MgmtStart, n.backup) /\ n.backup < w.lim
      /\ w.lim \in Tabs(f0, K) /\ Tabs(f0, K) \subseteq {n.backup, w.lim}
      /\ w.from = MgmtStart /\ n.lo = w.lim + 1 /\ Tabs(f, K) = Tabs(f0, K) \union {a}
    BY DEF Took, WriteAt
<1>2. w.lim \in Blocks
    BY <1>1 DEF Tabs
<1>3. Moved(n, m) /\ m.main = a /\ m.backup = w.lim /\ m.lo = n.lo /\ m.top = n.top
    <2>1. n \in Instances /\ a \in Blocks
        BY TookFacts
    <2>2. QED
        BY <1>2, <2>1 DEF mark_tables_clean, Moved, Instances
<1>4. OnWritten(n, w, a) = Returning(m, TRUE)
    BY DEF OnWritten
<1> HIDE DEF m
<1>5. Gone(K, n, MgmtStart, a)
    BY <1>1 DEF Took
<1>6. Tabs(f, K) = {a, w.lim}
    <2>1. n.backup \in Tabs(f, K) => n.backup = a
        <3>1. ~(n.backup < a) \/ n.backup \notin Tabs(f, K)
            BY <1>1, <1>5, TookFacts DEF Gone, BackupIn, MainIn
        <3>2. ~(a < n.backup)
            BY <1>1, TookFacts DEF Gone
        <3>3. QED
            BY <3>1, <3>2, TookFacts
    <2>2. QED
        BY <1>1, <2>1
<1>7. Common(f, K, m)
    <2>1. MgmtStart < m.lo /\ m.lo <= m.top
        BY <1>3, TookFacts
    <2>2. QED
        BY <1>3, <2>1, CommonMoved DEF Took
<1>8. MainIn(K, m) /\ BackupIn(m)
    <2>1. Gone(K, m, MgmtStart, a)
        BY <1>3, <1>5, MainMoved
    <2>2. QED
        BY <1>1, <1>3, <2>1, TookFacts DEF MainIn, BackupIn
<1>9. AtRest(f, K, m)
    <2>1. m.main # 0 /\ m.backup # 0
        BY <1>1, <1>3, TookFacts
    <2>2. QED
        BY <1>3, <1>6, <1>8, <2>1 DEF AtRest
<1>10. Lands(f, K, m, Returning(m, TRUE), c, ca)
    <2>1. c \in Updating \union {"create", "load"} /\ m.main # 0 /\ TRUE \in BOOLEAN
        BY <1>3, TookFacts DEF SiteCtx
    <2>2. QED
        BY <1>7, <1>9, <2>1, LandsReturning
<1>11. QED
    BY <1>3, <1>4, <1>10 DEF Lands, Moved

LEMMA Wrote ==
    ASSUME NEW f0, NEW f, NEW K, NEW n, NEW w, NEW ca, NEW a, Took(f0, f, K, n, w, ca, a), NEW c,
           w.site \in WriteSites, SiteCtx(w.site, c)
    PROVE  Lands(f, K, n, OnWritten(n, w, a), c, ca)
BY WroteBackup, WroteMain, WroteOnlyBackup, WroteRebuild, WroteSecond, WroteFront, WroteNext,
   WroteTmp, WroteRescue DEF WriteSites

-----------------------------------------------------------------------------
(* No block of the range has taken the table *)

Spent(f, K, n, w, ca) ==
    /\ Common(f, K, n) /\ CacheOK(f, K, n, ca) /\ WriteAt(f, K, n, w) /\ SpanOK(n, w)
    /\ Gone(K, n, w.from, w.lim)

LEMMA SpentFacts ==
    ASSUME NEW f, NEW K, NEW n, NEW w, NEW ca, Spent(f, K, n, w, ca)
    PROVE  /\ n \in Instances /\ n.main \in Nat /\ n.backup \in Nat /\ n.lo \in Nat /\ n.top \in Nat
           /\ n.main \in Blocks /\ n.backup \in Blocks /\ n.lo \in Blocks /\ n.top \in Blocks
           /\ MgmtStart < n.lo /\ n.lo <= n.top /\ MgmtStart \in Nat /\ 1 <= MgmtStart /\ 0 \in Blocks
           /\ w.from \in Int /\ w.lim \in Int /\ w.from <= w.lim /\ w.lim <= n.top /\ MgmtStart <= w.from
           /\ \A x \in Tabs(f, K) : x \in Blocks /\ x \in Int /\ x \notin K \union n.bad /\ MgmtStart <= x
           /\ Common(f, K, n) /\ CacheOK(f, K, n, ca) /\ Gone(K, n, w.from, w.lim)
<1>1. Areas(n)
    BY DEF Spent, Common
<1>2. /\ n \in Instances /\ n.main \in Nat /\ n.backup \in Nat /\ n.lo \in Nat /\ n.top \in Nat
      /\ MgmtStart < n.lo /\ n.lo <= n.top
    BY <1>1, AreaTypes
<1>3. n.main \in Blocks /\ n.backup \in Blocks /\ n.lo \in Blocks /\ n.top \in Blocks
    BY <1>2 DEF Instances
<1>4. w.from \in Int /\ w.lim \in Int /\ w.from <= w.lim /\ w.lim <= n.top /\ MgmtStart <= w.from
    BY <1>2, Sizes DEF Spent, SpanOK
<1>5. \A x \in Tabs(f, K) : x \in Blocks /\ x \in Int /\ x \notin K \union n.bad
    BY Sizes DEF Spent, Common, Known, Tabs
<1>6. \A x \in Tabs(f, K) : MgmtStart <= x
    <2>1. \A x \in Tabs(f, K) : x \in MgmtStart..(n.sig - 2)
        BY DEF Spent, Common, FlashOK, TabOK
    <2>2. QED
        BY <2>1, Sizes
<1>7. Common(f, K, n) /\ CacheOK(f, K, n, ca) /\ Gone(K, n, w.from, w.lim)
    BY DEF Spent
<1>8. QED
    BY <1>2, <1>3, <1>4, <1>5, <1>6, <1>7, Sizes

LEMMA SpentBackup ==
    ASSUME NEW f, NEW K, NEW n, NEW w, NEW ca, Spent(f, K, n, w, ca), NEW c,
           w.site \in {"backup", "only_backup"}, SiteCtx(w.site, c)
    PROVE  Lands(f, K, n, OnExhausted(n, w), c, ca)
<1> DEFINE m == [n EXCEPT !.lo = n.backup, !.backup = 0]
<1>1. Moved(n, m) /\ m.main = n.main /\ m.backup = 0 /\ m.lo = n.backup /\ m.top = n.top
    <2>1. n \in Instances /\ n.backup \in Blocks /\ 0 \in Blocks
        BY SpentFacts
    <2>2. QED
        BY <2>1 DEF Moved, Instances
<1>2. /\ w.site = "backup" => OnExhausted(n, w) = write_main_table(m, m.top)
      /\ w.site = "only_backup" => OnExhausted(n, w) = Returning(m, FALSE)
    BY <1>1 DEF OnExhausted
<1> HIDE DEF m
<1>3. /\ MainIn(K, n) /\ BackupIn(n) /\ w.from = n.backup /\ w.lim = n.top
      /\ Tabs(f, K) \subseteq {n.main, n.backup} /\ n.main \in Tabs(f, K)
    BY DEF Spent, WriteAt
<1>4. Tabs(f, K) = {n.main}
    <2>1. n.backup \in K \union n.bad
        BY <1>3, SpentFacts DEF Gone, BackupIn
    <2>2. QED
        BY <1>3, <2>1, SpentFacts
<1>5. MgmtStart < m.lo /\ m.lo <= m.top /\ m.main # 0
    BY <1>1, <1>3, SpentFacts DEF MainIn, BackupIn
<1>6. Common(f, K, m) /\ CacheOK(f, K, m, ca)
    BY <1>1, <1>5, CommonMoved, CacheMoved, SpentFacts
<1>7. MainIn(K, m)
    <2>1. Gone(K, m, MgmtStart, n.main)
        BY <1>1, <1>3, MainMoved DEF MainIn
    <2>2. QED
        BY <1>1, <1>3, <2>1, SpentFacts DEF MainIn, BackupIn
<1>8. CASE w.site = "backup"
    <2>1. c \in Updating
        BY <1>8 DEF SiteCtx
    <2>2. Lands(f, K, m, write_main_table(m, m.top), c, ca)
        BY <1>1, <1>4, <1>5, <1>6, <1>7, <2>1, LandsMain
    <2>3. QED
        BY <1>1, <1>2, <1>8, <2>2 DEF Lands, Moved
<1>9. CASE w.site = "only_backup"
    <2>1. c \in Updating \union {"create", "load"} /\ FALSE \in BOOLEAN
        BY <1>9 DEF SiteCtx
    <2>2. AtRest(f, K, m)
        BY <1>1, <1>4, <1>5, <1>7 DEF AtRest
    <2>3. Lands(f, K, m, Returning(m, FALSE), c, ca)
        BY <1>5, <1>6, <2>1, <2>2, LandsReturning
    <2>4. QED
        BY <1>1, <1>2, <1>9, <2>3 DEF Lands, Moved
<1>10. QED
    BY <1>8, <1>9

LEMMA SpentMain ==
    ASSUME NEW f, NEW K, NEW n, NEW w, NEW ca, Spent(f, K, n, w, ca), NEW c,
           w.site = "main", SiteCtx(w.site, c)
    PROVE  Lands(f, K, n, OnExhausted(n, w), c, ca)
<1>1. /\ MainIn(K, n) /\ w.from = n.main /\ Tabs(f, K) \subseteq {n.main, n.backup}
      /\ n.backup = 0 => w.lim = n.top
      /\ n.backup # 0 => BackupIn(n) /\ w.lim = n.backup /\ n.backup \in Tabs(f, K)
    BY DEF Spent, WriteAt
<1>2. c \in Updating
    BY DEF SiteCtx
<1>3. n.main \in K \union n.bad
    BY <1>1, SpentFacts DEF Gone, MainIn, BackupIn
<1>4. n.main \notin Tabs(f, K)
    BY <1>3, SpentFacts
<1>5. CASE n.backup = 0
    <2>1. Tabs(f, K) = {}
        BY <1>1, <1>4, <1>5, SpentFacts
    <2> DEFINE m == [n EXCEPT !.main = 0, !.backup = 0, !.lo = n.top]
    <2>2. Moved(n, m) /\ m.lo = n.top /\ m.top = n.top
        <3>1. n \in Instances /\ n.top \in Blocks /\ 0 \in Blocks
            BY SpentFacts
        <3>2. QED
            BY <3>1 DEF Moved, Instances
    <2> HIDE DEF m
    <2>3. Common(f, K, m) /\ CacheOK(f, K, m, ca)
        BY <2>2, CommonMoved, CacheMoved, SpentFacts
    <2>4. Lands(f, K, n, rebuild_info_table(n), c, ca)
        BY <1>2, <2>1, <2>3, SpentFacts, LandsRebuild DEF m
    <2>5. QED
        BY <1>5, <2>4 DEF OnExhausted
<1>6. CASE n.backup # 0
    <2>1. Tabs(f, K) = {n.backup}
        BY <1>1, <1>4, <1>6
    <2>2. Gone(K, n, MgmtStart, n.backup)
        BY <1>1, <1>6, SpentFacts DEF Gone, MainIn
    <2>3. Lands(f, K, n, rescue_main_info_table(n), c, ca)
        BY <1>1, <1>2, <1>6, <2>1, <2>2, SpentFacts, LandsRescue
    <2>4. QED
        BY <1>6, <2>3 DEF OnExhausted
<1>7. QED
    BY <1>5, <1>6

LEMMA SpentRebuild ==
    ASSUME NEW f, NEW K, NEW n, NEW w, NEW ca, Spent(f, K, n, w, ca), NEW c,
           w.site \in {"rebuild_main", "rebuild_backup"}, SiteCtx(w.site, c)
    PROVE  Lands(f, K, n, OnExhausted(n, w), c, ca)
<1>1. c \in Updating \union {"create", "load"} /\ c # "load"
    BY DEF SiteCtx, Updating
<1>2. CASE w.site = "rebuild_main"
    <2> DEFINE m == [n EXCEPT !.prot = TRUE]
    <2>1. Moved(n, m) /\ m.main = n.main /\ m.backup = n.backup /\ m.lo = n.lo /\ m.top = n.top
        <3>1. n \in Instances
            BY SpentFacts
        <3>2. QED
            BY <3>1 DEF Moved, Instances
    <2>2. OnExhausted(n, w) = Returning(m, FALSE)
        BY <1>2 DEF OnExhausted
    <2> HIDE DEF m
    <2>3. Common(f, K, m)
        BY <2>1, CommonMoved, SpentFacts
    <2>4. AtRest(f, K, m)
        BY <1>2, <2>1 DEF AtRest, Spent, WriteAt
    <2>5. Lands(f, K, m, Returning(m, FALSE), c, ca)
        BY <1>1, <2>3, <2>4, LandsReturning
    <2>6. QED
        BY <2>1, <2>2, <2>5 DEF Lands, Moved
<1>3. CASE w.site = "rebuild_backup"
    <2>1. MainIn(K, n) /\ n.backup = 0 /\ Tabs(f, K) = {n.main}
        BY <1>3 DEF Spent, WriteAt
    <2>2. n.main # 0
        BY <2>1, SpentFacts DEF MainIn
    <2>3. AtRest(f, K, n)
        BY <2>1, <2>2 DEF AtRest
    <2>4. Lands(f, K, n, Returning(n, TRUE), c, ca)
        BY <1>1, <2>3, SpentFacts, LandsReturning
    <2>5. QED
        BY <1>3, <2>4 DEF OnExhausted
<1>4. QED
    BY <1>2, <1>3

LEMMA SpentNext ==
    ASSUME NEW f, NEW K, NEW n, NEW w, NEW ca, Spent(f, K, n, w, ca), NEW c,
           w.site \in {"front", "next"}, SiteCtx(w.site, c)
    PROVE  Lands(f, K, n, OnExhausted(n, w), c, ca)
<1>1. c = "load" /\ SiteCtx("next", c)
    BY DEF SiteCtx
<1>2. MainIn(K, n) /\ n.backup = 0 /\ Tabs(f, K) = {n.main}
    <2>1. CASE w.site = "front"
        <3>1. MgmtStart <= n.main /\ n.main < n.lo /\ n.backup = 0 /\ Tabs(f, K) = {n.main}
              /\ w.from = MgmtStart /\ w.lim = n.main
            BY <2>1 DEF Spent, WriteAt
        <3>2. QED
            BY <3>1, SpentFacts DEF MainIn
    <2>2. CASE w.site = "next"
        BY <2>2 DEF Spent, WriteAt
    <2>3. QED
        BY <2>1, <2>2
<1>3. n.main # 0
    BY <1>2, SpentFacts DEF MainIn
<1>4. AtRest(f, K, n)
    BY <1>2, <1>3 DEF AtRest
<1>5. Lands(f, K, n, Returning(n, FALSE), c, ca)
    <2>1. c \in Updating \union {"create", "load"}
        BY <1>1
    <2>2. QED
        BY <1>3, <1>4, <2>1, SpentFacts, LandsReturning
<1>6. ASSUME NEW x \in Int, n.lo <= x, x <= n.top
      PROVE  Lands(f, K, n, Writing(n, "next", x, n.top), c, ca)
    BY <1>1, <1>2, <1>6, SpentFacts, LandsBackup
<1>7. CASE w.site = "front"
    <2>1. OnExhausted(n, w) = IF Reservable(n) = {} THEN Returning(n, FALSE)
                              ELSE Writing(n, "next", Reserve(n), n.top)
        BY <1>7 DEF OnExhausted
    <2>2. CASE Reservable(n) # {}
        <3>1. Areas(n)
            BY DEF Spent, Common
        <3>2. Reserve(n) \in Int /\ n.lo <= Reserve(n) /\ Reserve(n) <= n.top
            BY <2>2, <3>1, ReserveIn, SpentFacts
        <3>3. QED
            BY <1>6, <2>1, <2>2, <3>2
    <2>3. QED
        BY <1>5, <2>1, <2>2
<1>8. CASE w.site = "next"
    <2>1. OnExhausted(n, w) = IF w.from > n.lo THEN Writing(n, "next", w.from - 1, n.top)
                              ELSE Returning(n, FALSE)
        BY <1>8 DEF OnExhausted
    <2>2. CASE w.from > n.lo
        <3> DEFINE x == w.from - 1
        <3>1. x \in Int /\ n.lo <= x /\ x <= n.top
            BY <2>2, SpentFacts
        <3>2. OnExhausted(n, w) = Writing(n, "next", x, n.top)
            BY <2>1, <2>2
        <3> HIDE DEF x
        <3>3. QED
            BY <1>6, <3>1, <3>2
    <2>3. QED
        BY <1>5, <2>1, <2>2
<1>9. QED
    BY <1>7, <1>8

LEMMA SpentOnlyMain ==
    ASSUME NEW f, NEW K, NEW n, NEW w, NEW ca, Spent(f, K, n, w, ca), NEW c,
           w.site = "only_main", SiteCtx(w.site, c)
    PROVE  Lands(f, K, n, OnExhausted(n, w), c, ca)
<1>1. /\ MainIn(K, n) /\ w.from = n.main /\ Tabs(f, K) \subseteq {n.main, n.backup}
      /\ BackupIn(n) /\ w.lim = n.backup /\ n.backup \in Tabs(f, K)
    BY DEF Spent, WriteAt
<1>2. n.main \notin Tabs(f, K)
    BY <1>1, SpentFacts DEF Gone, BackupIn
<1>3. Gone(K, n, MgmtStart, n.backup) /\ Tabs(f, K) = {n.backup}
    BY <1>1, <1>2, SpentFacts DEF Gone, MainIn
<1> DEFINE m == backup_becomes_main(n)
<1>4. OnExhausted(n, w) = Writing(m, "front", MgmtStart, m.main)
    BY DEF OnExhausted, rescue_single_info_table
<1>5. /\ Common(f, K, m) /\ Moved(n, m) /\ m.main = n.backup /\ m.backup = 0 /\ m.lo = n.lo
    BY <1>1, <1>3, BackupAlone, SpentFacts
<1> HIDE DEF m
<1>6. CacheOK(f, K, m, ca)
    BY <1>5, CacheMoved, SpentFacts
<1>7. MgmtStart <= m.main /\ m.main < m.lo /\ Tabs(f, K) = {m.main} /\ m.main \in Int /\ m.main <= m.top
    BY <1>1, <1>3, <1>5, SpentFacts DEF BackupIn, MainIn, Moved
<1>8. SpanIn(m, MgmtStart, m.main)
    BY <1>7, SpentFacts DEF SpanIn
<1>9. WriteAt(f, K, m, Begin("front", MgmtStart, m.main))
    <2> DEFINE v == Begin("front", MgmtStart, m.main)
    <2>1. v.site = "front" /\ v.from = MgmtStart /\ v.lim = m.main
        BY DEF Begin
    <2> HIDE DEF v
    <2>2. WriteAt(f, K, m, v)
        BY <1>5, <1>7, <2>1 DEF WriteAt
    <2>3. QED
        BY <2>2 DEF v
<1>10. SiteCtx("front", c) /\ "front" \in WriteSites
    BY DEF SiteCtx, WriteSites
<1>11. Lands(f, K, m, Writing(m, "front", MgmtStart, m.main), c, ca)
    BY <1>5, <1>6, <1>8, <1>9, <1>10, LandsWriting
<1>12. QED
    BY <1>4, <1>5, <1>11 DEF Lands, Moved

LEMMA SpentTmp ==
    ASSUME NEW f, NEW K, NEW n, NEW w, NEW ca, Spent(f, K, n, w, ca), NEW c,
           w.site = "tmp", SiteCtx(w.site, c)
    PROVE  Lands(f, K, n, OnExhausted(n, w), c, ca)
<1>1. /\ MainIn(K, n) /\ BackupIn(n) /\ Gone(K, n, MgmtStart, n.backup)
      /\ Tabs(f, K) = {n.backup} /\ n.lo <= w.from
    BY DEF Spent, WriteAt
<1>2. c \in Updating \union {"create", "load"} /\ c # "load"
    BY DEF SiteCtx, Updating
<1>3. OnExhausted(n, w) = IF w.from > n.lo THEN Writing(n, "tmp", w.from - 1, n.top)
                          ELSE Returning(backup_becomes_main(n), TRUE)
    BY DEF OnExhausted
<1>4. CASE w.from > n.lo
    <2> DEFINE x == w.from - 1
    <2>1. x \in Int /\ n.lo <= x /\ SpanIn(n, x, n.top)
        BY <1>4, SpentFacts DEF SpanIn
    <2>2. OnExhausted(n, w) = Writing(n, "tmp", x, n.top)
        BY <1>3, <1>4
    <2> HIDE DEF x
    <2>3. WriteAt(f, K, n, Begin("tmp", x, n.top))
        <3> DEFINE v == Begin("tmp", x, n.top)
        <3>1. v.site = "tmp" /\ v.from = x /\ v.lim = n.top
            BY DEF Begin
        <3> HIDE DEF v
        <3>2. WriteAt(f, K, n, v)
            BY <1>1, <2>1, <3>1 DEF WriteAt
        <3>3. QED
            BY <3>2 DEF v
    <2>4. SiteCtx("tmp", c) /\ "tmp" \in WriteSites
        BY DEF WriteSites
    <2>5. QED
        BY <2>1, <2>2, <2>3, <2>4, LandsWriting, SpentFacts
<1>5. CASE ~(w.from > n.lo)
    <2> DEFINE m == backup_becomes_main(n)
    <2>1. Common(f, K, m) /\ AtRest(f, K, m) /\ Moved(n, m)
        BY <1>1, BackupAlone, SpentFacts
    <2> HIDE DEF m
    <2>2. Lands(f, K, m, Returning(m, TRUE), c, ca)
        BY <1>2, <2>1, LandsReturning
    <2>3. QED
        BY <1>3, <1>5, <2>1, <2>2 DEF Lands, Moved, m
<1>6. QED
    BY <1>4, <1>5

LEMMA SpentRescue ==
    ASSUME NEW f, NEW K, NEW n, NEW w, NEW ca, Spent(f, K, n, w, ca), NEW c,
           w.site = "rescue_main", SiteCtx(w.site, c)
    PROVE  Lands(f, K, n, OnExhausted(n, w), c, ca)
<1>1. /\ MainIn(K, n) /\ BackupIn(n) /\ n.backup < w.lim
      /\ w.lim \in Tabs(f, K) /\ Tabs(f, K) \subseteq {n.backup, w.lim}
      /\ w.from = MgmtStart /\ n.lo = w.lim + 1
    BY DEF Spent, WriteAt
<1> DEFINE m == mark_tables_clean([n EXCEPT !.main = w.lim, !.backup = 0])
<1>2. Moved(n, m) /\ m.main = w.lim /\ m.backup = 0 /\ m.lo = n.lo /\ m.top = n.top
    <2>1. n \in Instances /\ w.lim \in Blocks /\ 0 \in Blocks
        BY <1>1, SpentFacts
    <2>2. QED
        BY <2>1 DEF mark_tables_clean, Moved, Instances
<1>3. OnExhausted(n, w) = Returning(m, TRUE)
    BY DEF OnExhausted
<1> HIDE DEF m
<1>4. Tabs(f, K) = {w.lim}
    <2>1. n.backup \in K \union n.bad
        BY <1>1, SpentFacts DEF Gone, BackupIn, MainIn
    <2>2. QED
        BY <1>1, <2>1, SpentFacts
<1>5. Common(f, K, m)
    BY <1>2, CommonMoved, SpentFacts
<1>6. MainIn(K, m) /\ m.main # 0
    <2>1. Gone(K, m, MgmtStart, w.lim)
        BY <1>1, <1>2, MainMoved, SpentFacts
    <2>2. QED
        BY <1>1, <1>2, <2>1, SpentFacts DEF MainIn
<1>7. AtRest(f, K, m)
    BY <1>2, <1>4, <1>6 DEF AtRest
<1>8. Lands(f, K, m, Returning(m, TRUE), c, ca)
    <2>1. c \in Updating \union {"create", "load"} /\ TRUE \in BOOLEAN
        BY DEF SiteCtx
    <2>2. QED
        BY <1>5, <1>6, <1>7, <2>1, LandsReturning
<1>9. QED
    BY <1>2, <1>3, <1>8 DEF Lands, Moved

LEMMA Exhausted ==
    ASSUME NEW f, NEW K, NEW n, NEW w, NEW ca, Spent(f, K, n, w, ca), NEW c,
           w.site \in WriteSites, SiteCtx(w.site, c)
    PROVE  Lands(f, K, n, OnExhausted(n, w), c, ca)
BY SpentBackup, SpentMain, SpentRebuild, SpentNext, SpentOnlyMain, SpentTmp, SpentRescue
   DEF WriteSites

(* The end of nmbm_erase_range *)
LEMMA Cleaned ==
    ASSUME NEW f, NEW K, NEW n, NEW w, NEW ca, NEW c, Common(f, K, n), SpanOK(n, w), CleanAt(f, K, n, w),
           w.site \in {"rebuild_backup", "front", "next"}, SiteCtx(w.site, c)
    PROVE  Lands(f, K, n, OnCleaned(n, w), c, ca)
<1>1. /\ n \in Instances /\ n.main \in Nat /\ n.backup \in Nat /\ n.lo \in Nat /\ n.top \in Nat
      /\ MgmtStart < n.lo /\ n.lo <= n.top /\ n.top < n.sig /\ n.sig \in Nat /\ n.sig < NBlocks
    BY AreaTypes DEF Common
<1>2. c \in Updating \union {"create", "load"} /\ TRUE \in BOOLEAN
    BY DEF SiteCtx
<1>3. CASE w.site # "next"
    <2>1. MainIn(K, n) /\ BackupIn(n) /\ Tabs(f, K) = {n.main, n.backup}
        BY <1>3 DEF CleanAt
    <2>2. n.main # 0 /\ n.backup # 0
        BY <1>1, <2>1, Sizes DEF MainIn, BackupIn
    <2>3. AtRest(f, K, n)
        BY <2>1, <2>2 DEF AtRest
    <2>4. OnCleaned(n, w) = Returning(n, TRUE)
        BY <1>3 DEF OnCleaned
    <2>5. QED
        BY <1>2, <2>2, <2>3, <2>4, LandsReturning
<1>4. CASE w.site = "next"
    <2>1. /\ MainIn(K, n) /\ n.backup = 0 /\ Tabs(f, K) = {n.main, w.lim}
          /\ n.lo <= w.from /\ w.lim < n.top
        BY <1>4 DEF CleanAt
    <2>2. w.lim \in Int /\ w.from <= w.lim /\ w.from \in Int
        BY <1>1, Sizes DEF SpanOK
    <2>3. w.lim \in Blocks /\ w.lim + 1 \in Blocks /\ n.main < w.lim /\ n.main # 0 /\ w.lim # 0
          /\ MgmtStart < w.lim + 1
        BY <1>1, <2>1, <2>2, Sizes DEF MainIn
    <2> DEFINE m == mark_tables_clean([n EXCEPT !.backup = w.lim, !.lo = w.lim + 1])
    <2>4. /\ Moved(n, m) /\ m.main = n.main /\ m.backup = w.lim /\ m.lo = w.lim + 1 /\ m.top = n.top
        BY <1>1, <2>3 DEF mark_tables_clean, Moved, Instances
    <2>5. OnCleaned(n, w) = Returning(m, TRUE)
        BY <1>4 DEF OnCleaned
    <2> HIDE DEF m
    <2>6. Common(f, K, m)
        <3>1. MgmtStart < m.lo /\ m.lo <= m.top
            BY <1>1, <2>1, <2>2, <2>3, <2>4
        <3>2. QED
            BY <2>4, <3>1, CommonMoved
    <2>7. MainIn(K, m) /\ BackupIn(m)
        <3>1. Gone(K, m, MgmtStart, n.main)
            BY <2>1, <2>4, MainMoved DEF MainIn
        <3>2. QED
            BY <1>1, <2>1, <2>2, <2>3, <2>4, <3>1 DEF MainIn, BackupIn
    <2>8. AtRest(f, K, m) /\ m.main # 0
        BY <2>1, <2>3, <2>4, <2>7 DEF AtRest
    <2>9. Lands(f, K, m, Returning(m, TRUE), c, ca)
        BY <1>2, <2>6, <2>8, LandsReturning
    <2>10. QED
        BY <2>4, <2>5, <2>9 DEF Lands, Moved
<1>5. QED
    BY <1>3, <1>4

-----------------------------------------------------------------------------
(* A table is written into the block that was erased for it *)

LEMMA Placed ==
    ASSUME NEW f, NEW K, NEW n, NEW w, NEW ca, Common(f, K, n), CacheOK(f, K, n, ca),
           InWrite(f, K, n, w), WriteAt(f, K, n, w), w.site \in WriteSites, w.erased
    PROVE  /\ \A x, y \in Tabs(f, K) : x = y
           /\ \A x \in Tabs(f, K) :
                /\ x < n.top
                /\ w.ba < x => Gone(K, n, MgmtStart, w.ba)
                /\ x < w.ba => Gone(K, n, MgmtStart, x)
<1> DEFINE a == w.ba
<1>1. /\ n.main \in Nat /\ n.backup \in Nat /\ n.lo \in Nat /\ n.top \in Nat
      /\ MgmtStart < n.lo /\ n.lo <= n.top /\ MgmtStart \in Nat /\ 1 <= MgmtStart
    BY AreaTypes, Sizes DEF Common
<1>2. /\ a \in Int /\ w.from \in Int /\ w.lim \in Int /\ MgmtStart <= w.from /\ w.from <= a
      /\ a < w.lim /\ w.lim <= n.top /\ a \notin K \union n.bad /\ Gone(K, n, w.from, a)
    BY <1>1 DEF InWrite, SpanOK
<1>3. a \notin Tabs(f, K)
    <2>1. f[a].kind = "data"
        BY Kinds DEF InWrite
    <2>2. QED
        BY <2>1 DEF Tabs
<1>4. \A x \in Tabs(f, K) : x \in Int /\ x \notin K \union n.bad /\ MgmtStart <= x
    <2>1. \A x \in Tabs(f, K) : x \in MgmtStart..(n.sig - 2)
        BY DEF Common, FlashOK, TabOK
    <2>2. QED
        BY <1>1, <2>1 DEF Common, Known, Tabs
<1> HIDE DEF a
<1>5. CASE w.site \in {"backup", "only_backup"}
    <2>1. /\ MainIn(K, n) /\ BackupIn(n) /\ Tabs(f, K) \subseteq {n.main, n.backup} /\ w.from = n.backup
        BY <1>5 DEF WriteAt
    <2>2. n.backup \notin Tabs(f, K)
        BY <1>1, <1>2, <1>3, <1>4, <2>1 DEF Gone
    <2>3. Tabs(f, K) \subseteq {n.main} /\ n.main < a /\ n.main < n.top /\ Gone(K, n, MgmtStart, n.main)
        BY <1>1, <1>2, <2>1, <2>2 DEF MainIn, BackupIn
    <2>4. QED
        BY <1>1, <1>2, <2>3 DEF a
<1>6. CASE w.site \in {"main", "only_main"}
    <2>1. /\ MainIn(K, n) /\ w.from = n.main /\ Tabs(f, K) \subseteq {n.main, n.backup}
          /\ n.backup # 0 => BackupIn(n) /\ w.lim = n.backup
        BY <1>6 DEF WriteAt
    <2>2. n.main \notin Tabs(f, K) /\ 0 \notin Tabs(f, K)
        BY <1>1, <1>2, <1>3, <1>4, <2>1 DEF Gone
    <2>3. Gone(K, n, MgmtStart, a)
        BY <1>1, <1>2, <2>1 DEF Gone, MainIn
    <2>4. Tabs(f, K) \subseteq {n.backup} /\ (n.backup \in Tabs(f, K) => n.backup < n.top /\ a < n.backup)
        BY <1>1, <1>2, <2>1, <2>2 DEF BackupIn
    <2>5. QED
        BY <1>1, <1>2, <2>3, <2>4 DEF a
<1>7. CASE w.site = "rebuild_main"
    BY <1>7 DEF WriteAt
<1>8. CASE w.site \in {"rebuild_backup", "next"}
    <2>1. MainIn(K, n) /\ Tabs(f, K) = {n.main} /\ n.lo <= w.from
        BY <1>8 DEF WriteAt
    <2>2. n.main < a /\ n.main < n.top /\ Gone(K, n, MgmtStart, n.main)
        BY <1>1, <1>2, <2>1 DEF MainIn
    <2>3. QED
        BY <1>1, <1>2, <2>1, <2>2 DEF a
<1>9. CASE w.site = "front"
    <2>1. n.main < n.lo /\ Tabs(f, K) = {n.main} /\ w.from = MgmtStart /\ w.lim = n.main
        BY <1>9 DEF WriteAt
    <2>2. a < n.main /\ n.main < n.top /\ Gone(K, n, MgmtStart, a)
        BY <1>1, <1>2, <2>1
    <2>3. QED
        BY <1>1, <1>2, <2>1, <2>2 DEF a
<1>10. CASE w.site = "tmp"
    <2>1. /\ MainIn(K, n) /\ BackupIn(n) /\ Gone(K, n, MgmtStart, n.backup)
          /\ Tabs(f, K) = {n.backup} /\ n.lo <= w.from
        BY <1>10 DEF WriteAt
    <2>2. n.backup < a /\ n.backup < n.top
        BY <1>1, <1>2, <2>1 DEF BackupIn
    <2>3. QED
        BY <1>1, <1>2, <2>1, <2>2 DEF a
<1>11. CASE w.site = "rescue_main"
    <2>1. /\ MainIn(K, n) /\ BackupIn(n) /\ Gone(K, n, MgmtStart, n.backup)
          /\ Tabs(f, K) \subseteq {n.backup, w.lim}
          /\ w.from = MgmtStart /\ n.lo = w.lim + 1
        BY <1>11 DEF WriteAt
    <2>2. ~(a < n.backup)
        BY <1>1, <1>2, <2>1 DEF Gone
    <2>3. n.backup \notin Tabs(f, K)
        BY <1>1, <1>2, <1>3, <1>4, <2>1, <2>2 DEF Gone
    <2>4. Tabs(f, K) \subseteq {w.lim} /\ a < w.lim /\ w.lim < n.top /\ Gone(K, n, MgmtStart, a)
        BY <1>1, <1>2, <2>1, <2>3
    <2>5. QED
        BY <1>1, <1>2, <2>4 DEF a
<1>12. QED
    BY <1>5, <1>6, <1>7, <1>8, <1>9, <1>10, <1>11 DEF WriteSites

LEMMA Taking ==
    ASSUME NEW f, NEW K, NEW n, NEW w, NEW ca, NEW f2, Common(f, K, n), CacheOK(f, K, n, ca),
           InWrite(f, K, n, w), WriteAt(f, K, n, w), w.site \in WriteSites, w.erased,
           Put(f, w.ba, ca, f2)
    PROVE  Took(f, f2, K, n, w, ca, w.ba)
<1> DEFINE a == w.ba
<1>1. /\ \A x, y \in Tabs(f, K) : x = y
      /\ \A x \in Tabs(f, K) :
            /\ x < n.top
            /\ a < x => Gone(K, n, MgmtStart, a)
            /\ x < a => Gone(K, n, MgmtStart, x)
    BY Placed
<1>2. n.top \in Nat /\ MgmtStart \in Nat
    BY AreaTypes, Sizes DEF Common
<1>3. /\ a \in Int /\ w.from \in Int /\ w.lim \in Int /\ MgmtStart <= w.from /\ w.from <= a /\ MgmtStart <= a
      /\ a < w.lim /\ w.lim <= n.top /\ a < n.top /\ a \notin K \union n.bad /\ Gone(K, n, w.from, a)
    BY <1>2 DEF InWrite, SpanOK
<1> HIDE DEF a
<1>4. Put(f, a, ca, f2)
    BY DEF a
<1>5. Common(f2, K, n) /\ CacheOK(f2, K, n, ca) /\ Tabs(f2, K) = Tabs(f, K) \union {a}
    <2>1. Clear(f, K, n, a)
        BY <1>1, <1>3 DEF Clear
    <2>2. QED
        BY <1>4, <2>1, PutTable
<1>6. Took(f, f2, K, n, w, ca, a)
    BY <1>3, <1>5 DEF Took
<1>7. QED
    BY <1>6 DEF a

LEMMA Programmed ==
    ASSUME NEW f, NEW K, NEW n, NEW w, NEW c, NEW ca, NEW f2, Common(f, K, n), CacheOK(f, K, n, ca),
           InWrite(f, K, n, w), WriteAt(f, K, n, w), w.site \in WriteSites, SiteCtx(w.site, c), w.erased,
           Put(f, w.ba, ca, f2)
    PROVE  Lands(f2, K, n, OnWritten(n, w, w.ba), c, ca)
<1> DEFINE a == w.ba
<1>1. Took(f, f2, K, n, w, ca, a)
    BY Taking
<1> HIDE DEF a
<1>2. Lands(f2, K, n, OnWritten(n, w, a), c, ca)
    BY <1>1, Wrote
<1>3. QED
    BY <1>2 DEF a

(* The invariant of the next state *)
LEMMA RunningNext ==
    Running' <=> Phase(flash', marked', ni', pc', wr', ctx', cache') /\ OpOK(ni', pc', ctx', op')
BY DEF Running, Phase, OpOK, Common, FlashType, Areas, FlashOK, SigOK, TabOK, PairOK, MapOK, Tabs, Known,
  Instances, SiteCtx, InWrite, Writes, WriteSites, SpanOK, Gone, CacheOK, TabSet, WriteAt, MainIn, BackupIn, CleanAt,
  Updating, AtRest, DataBlocks, Ops, NoOp, Blocks, LBs, PageNos, DataContents, Data, Sig, Erased, AllPages

LEMMA CreatingNext ==
    Creating' <=> /\ Making(flash', marked', ni', pc', wr') /\ op' = NoOp
                  /\ ctx' = IF pc' = "dead" THEN "none" ELSE "create"
BY DEF Creating, Making, Fresh, NoSig, FlashType, FlashOK, SigOK, TabOK, PairOK, MapOK, Tabs, 
  Instances, Writes, WriteSites, TabSet, NoOp, Blocks, LBs, PageNos, DataContents, Data, Sig

LEMMA OffNext ==
    PoweredOff' <=> Off(flash', marked', ni', pc', seen'.made) /\ op' = NoOp
BY DEF PoweredOff, Off, NoSig, FlashType, FlashOK, SigOK, TabOK, PairOK, MapOK, Tabs, 
  NoInstance, TabSet, NoOp, Blocks, LBs, PageNos, DataContents, Data, Sig

-----------------------------------------------------------------------------
(* nmbm_write_mgmt_range and nmbm_erase_range go from block to block *)

Goes(w, x, e, w2) == w2 = [w EXCEPT !.ba = x, !.erased = e]

LEMMA GoesTo ==
    ASSUME NEW w \in Writes, NEW x \in Int, NEW e \in BOOLEAN, NEW w2, Goes(w, x, e, w2)
    PROVE  /\ w2 \in Writes /\ w2.site = w.site /\ w2.from = w.from /\ w2.lim = w.lim
           /\ w2.ba = x /\ w2.erased = e
BY DEF Goes, Writes

(* Block b was lost, noted in n2 and marked, and w2 goes on with the next *)
LEMMA WriteSkip ==
    ASSUME NEW f, NEW K, NEW n, NEW w, NEW c, NEW ca, NEW f2, NEW K2, NEW n2, NEW w2, NEW b \in Int,
           Common(f, K, n), CacheOK(f, K, n, ca), InWrite(f, K, n, w), WriteAt(f, K, n, w),
           w.site \in WriteSites, SiteCtx(w.site, c), w.ba <= b, b < w.lim,
           Lost(f, K, f2, K2, b), Noting(n, n2, K2), b \in K2, Gone(K2, n2, w.ba, b),
           Goes(w, b + 1, FALSE, w2)
    PROVE  Phase(f2, K2, n2, "write", w2, c, ca)
<1>1. /\ w \in Writes /\ w.ba \in Int /\ w.lim \in Int /\ w.from \in Int /\ MgmtStart <= w.from
      /\ w.from <= w.ba /\ w.lim <= n.top /\ b + 1 \in Int
    BY DEF InWrite, SpanOK
<1>2. /\ w2 \in Writes /\ w2.site = w.site /\ w2.from = w.from /\ w2.lim = w.lim
      /\ w2.ba = b + 1 /\ w2.erased = FALSE
    BY <1>1, GoesTo
<1>3. Areas(n) /\ f \in FlashType /\ K \in SUBSET Blocks
    BY DEF Common
<1>4. n.sig \in Nat /\ n.top \in Nat /\ n.top < n.sig /\ n2.top = n.top /\ MgmtStart \in Nat
    BY <1>3, AreaTypes, Sizes DEF Noting
<1>5. b # n.sig /\ w.from <= b
    BY <1>1, <1>4
<1>6. Common(f2, K2, n2)
    BY <1>5, CommonLost
<1>7. /\ K \subseteq K2 /\ Tabs(f2, K2) = Tabs(f, K) \ {b} /\ \A x \in Tabs(f2, K2) : f2[x] = f[x]
    BY <1>3, LostBlock
<1>8. CacheOK(f2, K2, n2, ca)
    BY <1>7, CacheFewer
<1>9. WriteAt(f2, K2, n2, w2)
    <2>1. w.from \in Int /\ w.lim \in Int /\ w.from <= b /\ b < w.lim
        BY <1>1, <1>5
    <2>2. w2.site = w.site /\ w2.from = w.from /\ w2.lim = w.lim
        BY <1>2
    <2>3. K \subseteq K2 /\ Tabs(f2, K2) = Tabs(f, K) \ {b}
        BY <1>7
    <2>4. QED
        BY <1>3, <2>1, <2>2, <2>3, WriteLost
<1>10. SpanOK(n2, w2)
    BY <1>1, <1>2, <1>4 DEF SpanOK
<1>11. Gone(K2, n2, w2.from, w2.ba)
    <2>1. Gone(K, n, w.from, w.ba)
        BY DEF InWrite
    <2>2. Gone(K2, n2, w.from, w.ba)
        BY <1>7, <2>1, GoneMore
    <2>3. QED
        BY <1>1, <1>2, <2>2 DEF Gone
<1>12. InWrite(f2, K2, n2, w2)
    BY <1>2, <1>10, <1>11 DEF InWrite
<1>13. QED
    BY <1>2, <1>6, <1>8, <1>9, <1>12 DEF Phase

(* Block b was erased for the table *)
LEMMA WriteErased ==
    ASSUME NEW f, NEW K, NEW n, NEW w, NEW c, NEW ca, NEW f2, NEW n2, NEW w2, NEW b \in Int,
           Common(f, K, n), CacheOK(f, K, n, ca), InWrite(f, K, n, w), WriteAt(f, K, n, w),
           w.site \in WriteSites, SiteCtx(w.site, c), w.ba <= b, b < w.lim, b \notin K \union n2.bad,
           Put(f, b, Erased, f2), Noting(n, n2, K), Gone(K, n2, w.ba, b),
           Goes(w, b, TRUE, w2)
    PROVE  Phase(f2, K, n2, "write", w2, c, ca)
<1>1. /\ w \in Writes /\ w.ba \in Int /\ w.lim \in Int /\ w.from \in Int /\ MgmtStart <= w.from
      /\ w.from <= w.ba /\ w.lim <= n.top /\ b + 1 \in Int
    BY DEF InWrite, SpanOK
<1>2. /\ w2 \in Writes /\ w2.site = w.site /\ w2.from = w.from /\ w2.lim = w.lim
      /\ w2.ba = b /\ w2.erased = TRUE
    BY <1>1, GoesTo
<1>3. Areas(n) /\ f \in FlashType /\ K \in SUBSET Blocks
    BY DEF Common
<1>4. n.sig \in Nat /\ n.top \in Nat /\ n.top < n.sig /\ n.sig < NBlocks /\ n2.top = n.top /\ MgmtStart \in Nat
    BY <1>3, AreaTypes, Sizes DEF Noting
<1>5. b # n.sig /\ w.from <= b /\ b \in Blocks
    BY <1>1, <1>4, Sizes
<1>6. Lost(f, K, f2, K, b)
    BY <1>5, Kinds DEF Lost, Put
<1>7. Common(f2, K, n2)
    BY <1>5, <1>6, CommonLost
<1>8. /\ Tabs(f2, K) = Tabs(f, K) \ {b} /\ \A x \in Tabs(f2, K) : f2[x] = f[x]
    BY <1>3, <1>6, LostBlock
<1>9. CacheOK(f2, K, n2, ca)
    BY <1>8, CacheFewer
<1>10. WriteAt(f2, K, n2, w2)
    BY <1>1, <1>2, <1>3, <1>5, <1>8, WriteLost
<1>11. SpanOK(n2, w2)
    BY <1>1, <1>2, <1>4, <1>5 DEF SpanOK
<1>12. Gone(K, n2, w2.from, w2.ba)
    <2>1. Gone(K, n, w.from, w.ba)
        BY DEF InWrite
    <2>2. Gone(K, n2, w.from, w.ba)
        BY <2>1, GoneMore
    <2>3. QED
        BY <1>1, <1>2, <2>2 DEF Gone
<1>13. f2[b] = Erased
    BY <1>3, <1>5 DEF Put, FlashType
<1>14. InWrite(f2, K, n2, w2)
    BY <1>2, <1>11, <1>12, <1>13 DEF InWrite
<1>15. QED
    BY <1>2, <1>7, <1>9, <1>10, <1>14 DEF Phase

(* Block b between the tables was erased, or lost *)
LEMMA CleanSkip ==
    ASSUME NEW f, NEW K, NEW n, NEW w, NEW c, NEW ca, NEW f2, NEW K2, NEW n2, NEW w2, NEW b \in Int,
           Common(f, K, n), w \in Writes, w.erased = FALSE, SpanOK(n, w), CleanAt(f, K, n, w),
           w.site \in {"rebuild_backup", "front", "next"}, SiteCtx(w.site, c), w.ba <= b, b < w.lim,
           Lost(f, K, f2, K2, b), Noting(n, n2, K2),
           Goes(w, b + 1, FALSE, w2)
    PROVE  Phase(f2, K2, n2, "clean", w2, c, ca)
<1>1. /\ w.ba \in Int /\ w.lim \in Int /\ w.from \in Int /\ MgmtStart <= w.from
      /\ w.from <= w.ba /\ w.lim <= n.top /\ b + 1 \in Int
    BY DEF SpanOK
<1>2. /\ w2 \in Writes /\ w2.site = w.site /\ w2.from = w.from /\ w2.lim = w.lim
      /\ w2.ba = b + 1 /\ w2.erased = FALSE
    BY <1>1, GoesTo
<1>3. Areas(n) /\ f \in FlashType /\ K \in SUBSET Blocks
    BY DEF Common
<1>4. /\ n.sig \in Nat /\ n.top \in Nat /\ n.top < n.sig /\ MgmtStart \in Nat
      /\ n.main \in Nat /\ n.lo \in Nat /\ n.backup \in Nat
      /\ n2.sig = n.sig /\ n2.main = n.main /\ n2.backup = n.backup /\ n2.lo = n.lo /\ n2.top = n.top
    BY <1>3, AreaTypes, Sizes DEF Noting
<1>5. b # n.sig /\ w.from <= b
    BY <1>1, <1>4
<1>6. Common(f2, K2, n2)
    BY <1>5, CommonLost
<1>7. K \subseteq K2 /\ Tabs(f2, K2) = Tabs(f, K) \ {b}
    BY <1>3, LostBlock
<1>8. MainIn(K, n) => MainIn(K2, n2)
    BY <1>4, <1>7, GoneMore DEF MainIn
<1>9. BackupIn(n) <=> BackupIn(n2)
    BY <1>4 DEF BackupIn
<1>10. CleanAt(f2, K2, n2, w2)
    <2>1. CASE w.site \in {"rebuild_backup", "front"}
        <3>1. MainIn(K, n) /\ BackupIn(n) /\ Tabs(f, K) = {n.main, n.backup} /\ w.lim = n.backup /\ n.main < w.from
            BY <2>1 DEF CleanAt
        <3>2. b # n.main /\ b # n.backup
            BY <1>1, <1>4, <1>5, <3>1
        <3>3. QED
            BY <1>2, <1>4, <1>7, <1>8, <1>9, <2>1, <3>1, <3>2 DEF CleanAt
    <2>2. CASE w.site = "next"
        <3>1. MainIn(K, n) /\ n.backup = 0 /\ Tabs(f, K) = {n.main, w.lim} /\ n.lo <= w.from /\ w.lim < n.top
            BY <2>2 DEF CleanAt
        <3>2. b # n.main /\ b # w.lim
            BY <1>1, <1>4, <1>5, <3>1 DEF MainIn
        <3>3. QED
            BY <1>2, <1>4, <1>7, <1>8, <1>9, <2>2, <3>1, <3>2 DEF CleanAt
    <2>3. QED
        BY <2>1, <2>2
<1>11. SpanOK(n2, w2)
    BY <1>1, <1>2, <1>4, <1>5 DEF SpanOK
<1>12. QED
    BY <1>2, <1>6, <1>10, <1>11 DEF Phase

LEMMA OpKept ==
    ASSUME NEW n, NEW n2, NEW c, NEW o, NEW p \in {"write", "clean", "ok", "failed", "update"},
           NEW p2 \in {"write", "clean", "ok", "failed", "update"},
           OpOK(n, p, c, o), n2.top = n.top, n2.sig = n.sig
    PROVE  OpOK(n2, p2, c, o)
BY DEF OpOK, DataBlocks

LEMMA WritePhase ==
    ASSUME Running, pc = "write"
    PROVE  /\ Common(flash, marked, ni) /\ CacheOK(flash, marked, ni, cache)
           /\ InWrite(flash, marked, ni, wr) /\ WriteAt(flash, marked, ni, wr)
           /\ wr.site \in WriteSites /\ SiteCtx(wr.site, ctx) /\ OpOK(ni, pc, ctx, op)
BY DEF Running, Phase

LEMMA CleanPhase ==
    ASSUME Running, pc = "clean"
    PROVE  /\ Common(flash, marked, ni) /\ wr \in Writes /\ wr.erased = FALSE /\ SpanOK(ni, wr)
           /\ CleanAt(flash, marked, ni, wr) /\ OpOK(ni, pc, ctx, op)
           /\ wr.site \in {"rebuild_backup", "front", "next"} /\ SiteCtx(wr.site, ctx)
           /\ wr.site \in WriteSites
BY DEF Running, Phase, WriteSites

(* The next block that can be used, and those that are passed *)
LEMMA InRange ==
    ASSUME Common(flash, marked, ni), wr.site \in WriteSites, wr \in Writes, SpanOK(ni, wr)
    PROVE  /\ Usable = {} => Gone(marked, ni, wr.ba, wr.lim)
           /\ Usable # {} =>
                /\ Target \in Blocks /\ Target \in Int /\ wr.ba <= Target /\ Target < wr.lim
                /\ Target \notin marked \union ni.bad
                /\ Gone(marked, ni, wr.ba, Target)
           /\ \A b : Noting(ni, Noted(Past(b)), marked) /\ Noted(Past(b)).bad \subseteq ni.bad \union marked
           /\ Noting(ni, Noted(Span), marked)
           /\ \A b, w2 : w2 = After(b) <=> Goes(wr, b + 1, FALSE, w2)
           /\ ~Down
<1>1. ~Down
    BY DEF Down, WriteSites
<1>2. Areas(ni) /\ marked \in SUBSET Blocks
    BY DEF Common
<1>3. /\ ni \in Instances /\ ni.top \in Nat /\ ni.top < ni.sig /\ ni.sig \in Nat /\ ni.sig < NBlocks
      /\ MgmtStart \in Nat /\ wr.ba \in Int /\ wr.lim \in Int /\ MgmtStart <= wr.ba /\ wr.lim <= ni.top
    BY <1>2, AreaTypes, Sizes DEF SpanOK
<1>4. Span = wr.ba..(wr.lim - 1) /\ Usable = (Span \ ni.bad) \ marked
    BY <1>1 DEF Span, Usable, Good
<1>5. Span \subseteq Blocks /\ \A x \in Span : x \in Int /\ wr.ba <= x /\ x < wr.lim
    <2>1. ASSUME NEW x \in Span PROVE x \in Int /\ wr.ba <= x /\ x < wr.lim
        <3>1. x \in wr.ba..(wr.lim - 1)
            BY <1>4
        <3>2. QED
            BY <1>3, <3>1
    <2>2. ASSUME NEW x \in Span PROVE x \in Blocks
        BY <1>3, <2>1, Sizes
    <2>3. QED
        BY <2>1, <2>2
<1>6. \A x \in Int : wr.ba <= x /\ x < wr.lim => x \in Span
    BY <1>3, <1>4
<1>7. ASSUME Usable = {} PROVE Gone(marked, ni, wr.ba, wr.lim)
    <2>1. \A x \in Span : x \in marked \union ni.bad
        BY <1>4, <1>7
    <2>2. QED
        BY <1>4, <2>1 DEF Gone
<1>8. ASSUME Usable # {}
      PROVE  /\ Target \in Blocks /\ Target \in Int /\ wr.ba <= Target /\ Target < wr.lim
             /\ Target \notin marked \union ni.bad
             /\ Gone(marked, ni, wr.ba, Target)
    <2>1. Usable \in SUBSET Nat
        BY <1>4, <1>5, Sizes
    <2>2. Target = Lowest(Usable)
        BY <1>1 DEF Target
    <2>3. Target \in Usable /\ \A y \in Usable : Target <= y
        BY <1>8, <2>1, <2>2, LowestIn
    <2>4. Target \in Span /\ Target \notin marked \union ni.bad
        BY <1>4, <2>3
    <2>5. Target \in Int /\ wr.ba <= Target /\ Target < wr.lim /\ Target \in Blocks
        BY <1>5, <2>4
    <2>6. Gone(marked, ni, wr.ba, Target)
        <3>1. ASSUME NEW x \in wr.ba..(Target - 1), x \notin marked \union ni.bad PROVE FALSE
            <4>1. x \in Int /\ wr.ba <= x /\ x < Target /\ x < wr.lim
                BY <1>3, <2>5
            <4>2. x \in Usable
                BY <1>4, <1>6, <3>1, <4>1
            <4>3. QED
                BY <2>3, <2>5, <4>1, <4>2
        <3>2. QED
            BY <3>1 DEF Gone
    <2>7. QED
        BY <2>4, <2>5, <2>6
<1>9. ASSUME NEW S \in SUBSET Blocks
      PROVE  Noting(ni, Noted(S), marked) /\ Noted(S).bad \subseteq ni.bad \union marked
    <2> DEFINE T == S \intersect marked
    <2>1. T \in SUBSET Blocks /\ T \subseteq marked /\ Noted(S) = set_bad(ni, T)
        BY DEF Noted
    <2> HIDE DEF T
    <2>2. QED
        BY <1>3, <2>1, SetBad
<1>10. \A b : Noting(ni, Noted(Past(b)), marked) /\ Noted(Past(b)).bad \subseteq ni.bad \union marked
    <2> TAKE b
    <2>1. Past(b) \in SUBSET Blocks
        BY <1>5 DEF Past
    <2>2. QED
        BY <1>9, <2>1
<1>11. Noting(ni, Noted(Span), marked)
    BY <1>5, <1>9
<1>12. \A b, w2 : w2 = After(b) <=> Goes(wr, b + 1, FALSE, w2)
    BY <1>1 DEF After, Goes
<1>13. QED
    BY <1>1, <1>7, <1>8, <1>10, <1>11, <1>12

(* skip_bad_block *)
LEMMA Skipped ==
    ASSUME NEW n, NEW b \in Blocks, NEW left, SkipBad(n, b, left), left \subseteq DataContents \union {flash[b]},
           Noting(ni, n, marked), marked \in SUBSET Blocks
    PROVE  Lost(flash, marked, flash', marked', b) /\ Noting(ni, ni', marked') /\ b \in marked'
           /\ marked \subseteq marked' /\ pc' = pc /\ wr' = After(b) /\ b \in ni'.bad
           /\ ni'.bad \subseteq n.bad \union {b}
<1>1. marked' = marked \union {b} /\ ni' = set_bad(n, {b}) /\ pc' = pc /\ wr' = After(b)
    BY DEF SkipBad
<1>2. PICK c \in left : flash' = [flash EXCEPT ![b] = c]
    BY DEF SkipBad
<1>3. Lost(flash, marked, flash', marked', b)
    BY <1>1, <1>2 DEF Lost
<1>4. n \in Instances
    BY DEF Noting
<1>5. Noting(n, ni', marked') /\ ni'.bad = n.bad \union {b}
    <2>1. {b} \in SUBSET Blocks /\ {b} \subseteq marked'
        BY <1>1
    <2>2. QED
        BY <1>1, <1>4, <2>1, SetBad
<1>6. Noting(ni, ni', marked')
    BY <1>1, <1>5, NotingTwice
<1>7. QED
    BY <1>1, <1>3, <1>5, <1>6

LEMMA WriteEraseRuns ==
    ASSUME Running, WriteErase
    PROVE  Running'
<1>1. pc = "write" /\ Usable # {} /\ ctx' = ctx /\ cache' = cache /\ op' = op
    BY DEF WriteErase
<1>2. /\ Common(flash, marked, ni) /\ CacheOK(flash, marked, ni, cache)
      /\ InWrite(flash, marked, ni, wr) /\ WriteAt(flash, marked, ni, wr)
      /\ wr.site \in WriteSites /\ SiteCtx(wr.site, ctx) /\ OpOK(ni, pc, ctx, op)
    BY <1>1, WritePhase
<1>3. wr \in Writes /\ SpanOK(ni, wr)
    BY <1>2 DEF InWrite
<1> DEFINE b == Target
           n == Noted(Past(b))
<1>4. b \in Blocks /\ b \in Int /\ wr.ba <= b /\ b < wr.lim /\ b \notin marked \union ni.bad
      /\ Gone(marked, ni, wr.ba, b)
    BY <1>1, <1>2, <1>3, InRange
<1>5. Noting(ni, n, marked) /\ n.bad \subseteq ni.bad \union marked
    BY <1>2, <1>3, InRange
<1>6. \/ /\ flash' = [flash EXCEPT ![b] = Erased] /\ ni' = n
         /\ wr' = [wr EXCEPT !.ba = b, !.erased = TRUE]
         /\ marked' = marked /\ pc' = pc
      \/ SkipBad(n, b, EraseFailed(b))
    BY DEF WriteErase
<1> HIDE DEF b, n
<1>7. CASE /\ flash' = [flash EXCEPT ![b] = Erased] /\ ni' = n
           /\ wr' = [wr EXCEPT !.ba = b, !.erased = TRUE]
           /\ marked' = marked /\ pc' = pc
    <2>1. Put(flash, b, Erased, flash') /\ Goes(wr, b, TRUE, wr')
        BY <1>7 DEF Put, Goes
    <2>2. Gone(marked, n, wr.ba, b) /\ b \notin marked \union n.bad
        BY <1>4, <1>5, GoneMore
    <2>3. Phase(flash', marked, n, "write", wr', ctx, cache)
        BY <1>2, <1>4, <1>5, <2>1, <2>2, WriteErased
    <2>4. OpOK(n, pc', ctx, op)
        BY <1>1, <1>2, <1>5, <1>7, OpKept DEF Noting
    <2>5. QED
        BY <1>1, <1>7, <2>3, <2>4, RunningNext
<1>8. CASE SkipBad(n, b, EraseFailed(b))
    <2>1. EraseFailed(b) \subseteq DataContents \union {flash[b]}
        BY Kinds DEF EraseFailed
    <2>2. marked \in SUBSET Blocks
        BY <1>2 DEF Common
    <2>3. Lost(flash, marked, flash', marked', b) /\ Noting(ni, ni', marked') /\ b \in marked'
          /\ marked \subseteq marked' /\ pc' = pc /\ wr' = After(b)
        BY <1>4, <1>5, <1>8, <2>1, <2>2, Skipped
    <2>4. Goes(wr, b + 1, FALSE, wr')
        BY <1>2, <1>3, <2>3, InRange
    <2>5. Gone(marked', ni', wr.ba, b)
        BY <1>4, <2>3, GoneMore
    <2>6. Phase(flash', marked', ni', "write", wr', ctx, cache)
        BY <1>2, <1>4, <2>3, <2>4, <2>5, WriteSkip
    <2>7. OpOK(ni', pc', ctx, op)
        BY <1>1, <1>2, <2>3, OpKept DEF Noting
    <2>8. QED
        BY <1>1, <2>3, <2>6, <2>7, RunningNext
<1>9. QED
    BY <1>6, <1>7, <1>8

LEMMA LandsRunning ==
    ASSUME NEW r, NEW n, ni' = r.n, pc' = r.pc, wr' = r.wr,
           Lands(flash', marked', n, r, ctx', cache'), OpOK(n, "write", ctx', op')
    PROVE  Running'
<1>1. /\ Phase(flash', marked', r.n, r.pc, r.wr, ctx', cache')
      /\ r.n.top = n.top /\ r.n.sig = n.sig /\ r.pc \in {"write", "clean", "ok", "failed"}
    BY DEF Lands
<1>2. OpOK(r.n, r.pc, ctx', op')
    BY <1>1, OpKept
<1>3. QED
    BY <1>1, <1>2, RunningNext

LEMMA WriteProgRuns ==
    ASSUME Running, WriteProg
    PROVE  Running'
<1>1. pc = "write" /\ wr.erased /\ ctx' = ctx /\ cache' = cache /\ op' = op
    BY DEF WriteProg
<1>2. /\ Common(flash, marked, ni) /\ CacheOK(flash, marked, ni, cache)
      /\ InWrite(flash, marked, ni, wr) /\ WriteAt(flash, marked, ni, wr)
      /\ wr.site \in WriteSites /\ SiteCtx(wr.site, ctx) /\ OpOK(ni, pc, ctx, op)
    BY <1>1, WritePhase
<1>3. wr \in Writes /\ SpanOK(ni, wr) /\ wr.ba < wr.lim /\ wr.ba \notin marked \union ni.bad
    BY <1>1, <1>2 DEF InWrite
<1>4. ~Down /\ \A b, w2 : w2 = After(b) <=> Goes(wr, b + 1, FALSE, w2)
    BY <1>2, <1>3, InRange
<1>5. \/ /\ flash' = [flash EXCEPT ![wr.ba] = cache] /\ Goto(OnWritten(ni, wr, wr.ba)) /\ marked' = marked
      \/ SkipBad(ni, wr.ba, {Torn})
    BY <1>4 DEF WriteProg
<1>6. CASE /\ flash' = [flash EXCEPT ![wr.ba] = cache] /\ Goto(OnWritten(ni, wr, wr.ba)) /\ marked' = marked
    <2>1. Put(flash, wr.ba, cache, flash')
        BY <1>6 DEF Put
    <2>2. Lands(flash', marked, ni, OnWritten(ni, wr, wr.ba), ctx, cache)
        BY <1>1, <1>2, <2>1, Programmed
    <2> DEFINE r == OnWritten(ni, wr, wr.ba)
    <2>3. ni' = r.n /\ pc' = r.pc /\ wr' = r.wr
        BY <1>6 DEF Goto
    <2> HIDE DEF r
    <2>4. Lands(flash', marked', ni, r, ctx', cache') /\ OpOK(ni, "write", ctx', op')
        BY <1>1, <1>2, <1>6, <2>2 DEF r
    <2>5. QED
        BY <2>3, <2>4, LandsRunning
<1>7. CASE SkipBad(ni, wr.ba, {Torn})
    <2> DEFINE b == wr.ba
    <2>1. {Torn} \subseteq DataContents \union {flash[b]} /\ marked \in SUBSET Blocks
        BY <1>2, Kinds DEF Common
    <2>2. Areas(ni)
        BY <1>2 DEF Common
    <2>3. b \in Int /\ b \in Blocks /\ b <= b /\ MgmtStart <= b
        <3>1. ni.top \in Nat /\ ni.top < ni.sig /\ ni.sig \in Nat /\ ni.sig < NBlocks
            BY <2>2, AreaTypes
        <3>2. QED
            BY <1>3, <3>1, Sizes DEF SpanOK
    <2>4. Noting(ni, ni, marked)
        BY <2>2 DEF Noting, Areas
    <2> HIDE DEF b
    <2>5. SkipBad(ni, b, {Torn}) /\ wr.ba <= b /\ b < wr.lim
        BY <1>3, <1>7, <2>3 DEF b
    <2>6. Lost(flash, marked, flash', marked', b) /\ Noting(ni, ni', marked') /\ b \in marked'
          /\ marked \subseteq marked' /\ pc' = pc /\ wr' = After(b)
        BY <2>1, <2>3, <2>4, <2>5, Skipped
    <2>7. Goes(wr, b + 1, FALSE, wr')
        BY <1>4, <2>6
    <2>8. Gone(marked', ni', wr.ba, b)
        BY <2>3 DEF Gone, b
    <2>9. Phase(flash', marked', ni', "write", wr', ctx, cache)
        BY <1>2, <2>3, <2>5, <2>6, <2>7, <2>8, WriteSkip
    <2>10. OpOK(ni', pc', ctx, op)
        BY <1>1, <1>2, <2>6, OpKept DEF Noting
    <2>11. QED
        BY <1>1, <2>6, <2>9, <2>10, RunningNext
<1>8. QED
    BY <1>5, <1>6, <1>7

LEMMA Spending ==
    ASSUME NEW f, NEW K, NEW n, NEW n2, NEW w, NEW ca, Common(f, K, n), CacheOK(f, K, n, ca),
           InWrite(f, K, n, w), WriteAt(f, K, n, w), Gone(K, n, w.ba, w.lim), Noting(n, n2, K)
    PROVE  Spent(f, K, n2, w, ca)
<1>1. w \in Writes /\ SpanOK(n, w) /\ Gone(K, n, w.from, w.ba)
    BY DEF InWrite
<1>2. Gone(K, n2, w.from, w.lim)
    <2>1. Gone(K, n, w.from, w.lim)
        BY <1>1 DEF Gone, SpanOK
    <2>2. QED
        BY <2>1, GoneMore
<1>3. f \in FlashType /\ K \in SUBSET Blocks /\ SigOK(f, K, n.sig)
    BY DEF Common, FlashOK
<1>4. Common(f, K, n2) /\ CacheOK(f, K, n2, ca)
    BY <1>3, CommonFewer, CacheFewer
<1>5. WriteAt(f, K, n2, w)
    <2>1. /\ n2.main = n.main /\ n2.backup = n.backup /\ n2.lo = n.lo /\ n2.top = n.top
        BY DEF Noting
    <2>2. \A y : Gone(K, n, MgmtStart, y) => Gone(K, n2, MgmtStart, y)
        BY GoneMore
    <2>3. (MainIn(K, n) => MainIn(K, n2)) /\ (BackupIn(n) <=> BackupIn(n2))
        BY <2>1, <2>2 DEF MainIn, BackupIn
    <2>4. QED
        BY <2>1, <2>2, <2>3 DEF WriteAt
<1>6. SpanOK(n2, w)
    BY <1>1 DEF SpanOK, Noting
<1>7. QED
    BY <1>2, <1>4, <1>5, <1>6 DEF Spent

LEMMA WriteNoneRuns ==
    ASSUME Running, WriteNone
    PROVE  Running'
<1>1. /\ pc = "write" /\ ~wr.erased /\ Usable = {} /\ ctx' = ctx /\ cache' = cache /\ op' = op
      /\ flash' = flash /\ marked' = marked
    BY DEF WriteNone
<1>2. /\ Common(flash, marked, ni) /\ CacheOK(flash, marked, ni, cache)
      /\ InWrite(flash, marked, ni, wr) /\ WriteAt(flash, marked, ni, wr)
      /\ wr.site \in WriteSites /\ SiteCtx(wr.site, ctx) /\ OpOK(ni, pc, ctx, op)
    BY <1>1, WritePhase
<1>3. wr \in Writes /\ SpanOK(ni, wr) /\ Gone(marked, ni, wr.from, wr.ba)
    BY <1>1, <1>2 DEF InWrite
<1> DEFINE n == Noted(Span)
           r == OnExhausted(n, wr)
<1>4. Gone(marked, ni, wr.ba, wr.lim) /\ Noting(ni, n, marked)
    BY <1>1, <1>2, <1>3, InRange
<1>5. ni' = r.n /\ pc' = r.pc /\ wr' = r.wr
    BY DEF WriteNone, Goto
<1> HIDE DEF n, r
<1>6. Spent(flash, marked, n, wr, cache)
    BY <1>2, <1>4, Spending
<1>7. Lands(flash, marked, n, r, ctx, cache)
    BY <1>2, <1>6, Exhausted DEF r
<1>8. OpOK(n, "write", ctx, op)
    BY <1>1, <1>2, <1>4, OpKept DEF Noting
<1>9. QED
    BY <1>1, <1>5, <1>7, <1>8, LandsRunning

LEMMA EraseRangeRuns ==
    ASSUME Running, erase_range
    PROVE  Running'
<1>1. pc = "clean" /\ ctx' = ctx /\ cache' = cache /\ op' = op
    BY DEF erase_range
<1>2. /\ Common(flash, marked, ni) /\ wr \in Writes /\ wr.erased = FALSE /\ SpanOK(ni, wr)
      /\ CleanAt(flash, marked, ni, wr) /\ OpOK(ni, pc, ctx, op)
      /\ wr.site \in {"rebuild_backup", "front", "next"} /\ SiteCtx(wr.site, ctx)
      /\ wr.site \in WriteSites
    BY <1>1, CleanPhase
<1>3. flash \in FlashType /\ marked \in SUBSET Blocks /\ SigOK(flash, marked, ni.sig)
    BY <1>2 DEF Common, FlashOK
<1>4. CASE Usable = {}
    <2> DEFINE n == Noted(Span)
               r == OnCleaned(n, wr)
    <2>1. ni' = r.n /\ pc' = r.pc /\ wr' = r.wr /\ flash' = flash /\ marked' = marked
        BY <1>4 DEF erase_range, Goto
    <2>2. Noting(ni, n, marked)
        BY <1>2, InRange
    <2> HIDE DEF n, r
    <2>3. Common(flash, marked, n)
        BY <1>2, <1>3, <2>2, CommonFewer
    <2>4. CleanAt(flash, marked, n, wr)
        <3>1. /\ n.main = ni.main /\ n.backup = ni.backup /\ n.lo = ni.lo /\ n.top = ni.top
            BY <2>2 DEF Noting
        <3>2. (MainIn(marked, ni) => MainIn(marked, n)) /\ (BackupIn(ni) <=> BackupIn(n))
            BY <2>2, <3>1, GoneMore DEF MainIn, BackupIn
        <3>3. QED
            BY <1>2, <3>1, <3>2 DEF CleanAt
    <2>5. SpanOK(n, wr)
        BY <1>2, <2>2 DEF SpanOK, Noting
    <2>6. Lands(flash, marked, n, r, ctx, cache)
        BY <1>2, <2>3, <2>4, <2>5, Cleaned DEF r
    <2>7. OpOK(n, "write", ctx, op)
        BY <1>1, <1>2, <2>2, OpKept DEF Noting
    <2>8. QED
        BY <1>1, <2>1, <2>6, <2>7, LandsRunning
<1>5. CASE Usable # {}
    <2> DEFINE b == Target
               n == Noted(Past(b))
    <2>1. b \in Blocks /\ b \in Int /\ wr.ba <= b /\ b < wr.lim
        BY <1>2, <1>5, InRange
    <2>2. Noting(ni, n, marked)
        BY <1>2, InRange
    <2>3. \/ /\ flash' = [flash EXCEPT ![b] = Erased] /\ ni' = n /\ wr' = After(b)
             /\ marked' = marked /\ pc' = pc
          \/ SkipBad(n, b, EraseFailed(b))
        BY <1>5 DEF erase_range
    <2> HIDE DEF b, n
    <2>4. Lost(flash, marked, flash', marked', b) /\ Noting(ni, ni', marked') /\ pc' = pc /\ wr' = After(b)
        <3>1. CASE /\ flash' = [flash EXCEPT ![b] = Erased] /\ ni' = n /\ wr' = After(b)
                   /\ marked' = marked /\ pc' = pc
            BY <2>1, <2>2, <3>1, Kinds DEF Lost
        <3>2. CASE SkipBad(n, b, EraseFailed(b))
            <4>1. EraseFailed(b) \subseteq DataContents \union {flash[b]}
                BY Kinds DEF EraseFailed
            <4>2. QED
                BY <1>3, <2>1, <2>2, <3>2, <4>1, Skipped
        <3>3. QED
            BY <2>3, <3>1, <3>2
    <2>5. Goes(wr, b + 1, FALSE, wr')
        BY <1>2, <2>4, InRange
    <2>6. Phase(flash', marked', ni', "clean", wr', ctx, cache)
        BY <1>2, <2>1, <2>4, <2>5, CleanSkip
    <2>7. OpOK(ni', pc', ctx, op)
        BY <1>1, <1>2, <2>4, OpKept DEF Noting
    <2>8. QED
        BY <1>1, <2>4, <2>6, <2>7, RunningNext
<1>6. QED
    BY <1>4, <1>5

-----------------------------------------------------------------------------
(* Between two tables: the driver is not writing one *)

Resting(p, c) ==
    \/ p \in {"ok", "failed"} /\ c \in Updating \union {"create", "load"}
    \/ p = "update" /\ c \in Updating
    \/ p \in {"erase", "copy"} /\ c \in {"remap", "none"}
    \/ p \in {"idle", "remapped", "refused", "retry", "dead"} /\ c = "none"

LEMMA RestPhase ==
    ASSUME Running, pc \notin {"write", "clean"}
    PROVE  /\ Common(flash, marked, ni) /\ AtRest(flash, marked, ni) /\ OpOK(ni, pc, ctx, op)
           /\ Resting(pc, ctx) /\ (ctx = "load" => ni.main # 0)
<1>1. Phase(flash, marked, ni, pc, wr, ctx, cache) /\ OpOK(ni, pc, ctx, op)
    BY DEF Running
<1>2. "load" \notin Updating
    BY DEF Updating
<1>3. QED
    BY <1>1, <1>2 DEF Phase, Resting

LEMMA RestNext ==
    ASSUME Common(flash', marked', ni'), AtRest(flash', marked', ni'), OpOK(ni', pc', ctx', op'),
           Resting(pc', ctx'), ctx' = "load" => ni'.main # 0
    PROVE  Running'
<1>1. Phase(flash', marked', ni', pc', wr', ctx', cache')
    BY DEF Phase, Resting
<1>2. QED
    BY <1>1, RunningNext

(* Tables at rest and the blocks that hold data *)
LEMMA RestFacts ==
    ASSUME NEW f, NEW K, NEW n, Common(f, K, n), AtRest(f, K, n)
    PROVE  /\ n \in Instances /\ n.main \in Nat /\ n.backup \in Nat /\ n.lo \in Nat /\ n.top \in Nat
           /\ n.sig \in Nat /\ n.sig < NBlocks /\ n.sig \in Blocks /\ n.wc \in Nat
           /\ MgmtStart < n.lo /\ n.lo <= n.top /\ n.top < n.sig /\ MgmtStart \in Nat /\ 1 <= MgmtStart
           /\ f \in FlashType /\ K \in SUBSET Blocks
           /\ \A x \in Tabs(f, K) : x \in Blocks /\ x \in Int /\ MgmtStart <= x /\ x < n.lo
           /\ \A x \in DataBlocks(n) : x \in Blocks /\ x \notin Tabs(f, K) /\ x # n.sig /\ x \in Int
<1>1. Areas(n) /\ f \in FlashType /\ K \in SUBSET Blocks
    BY DEF Common
<1>2. /\ n \in Instances /\ n.main \in Nat /\ n.backup \in Nat /\ n.lo \in Nat /\ n.top \in Nat
      /\ n.sig \in Nat /\ n.sig < NBlocks /\ n.sig \in Blocks /\ n.wc \in Nat
      /\ MgmtStart < n.lo /\ n.lo <= n.top /\ n.top < n.sig /\ MgmtStart \in Nat /\ 1 <= MgmtStart
    BY <1>1, AreaTypes, Sizes
<1>3. \A x \in Tabs(f, K) : x \in Blocks /\ x \in Int /\ MgmtStart <= x /\ x < n.lo
    <2>1. \A x \in Tabs(f, K) : x \in MgmtStart..(n.sig - 2) /\ x \in Blocks
        BY DEF Common, FlashOK, TabOK, Tabs
    <2>2. n.main # 0 => n.main < n.lo
        BY DEF AtRest, MainIn
    <2>3. n.backup # 0 => n.backup < n.lo
        BY DEF AtRest, BackupIn
    <2>4. Tabs(f, K) = {n.main, n.backup} \ {0}
        BY DEF AtRest
    <2>5. QED
        BY <1>2, <2>1, <2>2, <2>3, <2>4
<1>4. ASSUME NEW x \in DataBlocks(n)
      PROVE  x \in Blocks /\ x \notin Tabs(f, K) /\ x # n.sig /\ x \in Int
    <2>1. x \in LBs \/ x \in (n.top + 1)..(n.sig - 1)
        BY DEF DataBlocks
    <2>2. x \in Int /\ 0 <= x /\ x < n.sig /\ (x < MgmtStart \/ n.top < x)
        BY <1>2, <2>1, Sizes
    <2>3. QED
        BY <1>2, <1>3, <2>2, Sizes
<1>5. QED
    BY <1>1, <1>2, <1>3, <1>4

(* A block with data is written, or marked bad *)
LEMMA DataLost ==
    ASSUME NEW f, NEW K, NEW n, NEW f2, NEW K2, NEW b \in DataBlocks(n),
           Common(f, K, n), AtRest(f, K, n), Lost(f, K, f2, K2, b)
    PROVE  Common(f2, K2, n) /\ AtRest(f2, K2, n)
<1>1. b # n.sig /\ b \notin Tabs(f, K) /\ f \in FlashType /\ K \in SUBSET Blocks /\ n \in Instances
    BY RestFacts
<1>2. K \subseteq K2 /\ Tabs(f2, K2) = Tabs(f, K)
    BY <1>1, LostBlock
<1>3. Noting(n, n, K2)
    BY <1>1 DEF Noting
<1>4. Common(f2, K2, n)
    BY <1>1, <1>3, CommonLost
<1>5. AtRest(f2, K2, n)
    BY <1>2, <1>3, GoneMore DEF AtRest, MainIn
<1>6. QED
    BY <1>4, <1>5

LEMMA DataPut ==
    ASSUME NEW f, NEW K, NEW n, NEW f2, NEW b \in DataBlocks(n), NEW v \in DataContents,
           Common(f, K, n), AtRest(f, K, n), Put(f, b, v, f2)
    PROVE  Common(f2, K, n) /\ AtRest(f2, K, n)
<1>1. b \in Blocks
    BY RestFacts
<1>2. Lost(f, K, f2, K, b)
    BY <1>1 DEF Lost, Put
<1>3. QED
    BY <1>2, DataLost

(* A block with data is noted bad *)
LEMMA DataBad ==
    ASSUME NEW f, NEW K, NEW n, NEW b \in DataBlocks(n), Common(f, K, n), AtRest(f, K, n)
    PROVE  /\ Common(f, K, set_bad(n, {b})) /\ AtRest(f, K, set_bad(n, {b}))
           /\ set_bad(n, {b}) \in Instances
           /\ set_bad(n, {b}).lo = n.lo /\ set_bad(n, {b}).top = n.top /\ set_bad(n, {b}).map = n.map
           /\ set_bad(n, {b}).sig = n.sig /\ set_bad(n, {b}).count = n.count
           /\ set_bad(n, {b}).bad = n.bad \union {b}
           /\ set_bad(n, {b}).main = n.main /\ set_bad(n, {b}).backup = n.backup
<1> DEFINE m == set_bad(n, {b})
<1>1. n \in Instances /\ b \in Blocks /\ b \notin Tabs(f, K)
    BY RestFacts
<1>2. Noting(n, m, {b}) /\ m.bad = n.bad \union {b}
    BY <1>1, SetBad
<1> HIDE DEF m
<1>3. Common(f, K, m)
    <2>1. Areas(m) /\ FlashOK(f, K, m.sig)
        BY <1>2 DEF Common, Areas, Noting
    <2>2. ASSUME NEW x \in Tabs(f, K) PROVE Known(f, K, m, x)
        BY <1>1, <1>2 DEF Common, Known, Noting
    <2>3. QED
        BY <2>1, <2>2 DEF Common
<1>4. AtRest(f, K, m)
    BY <1>2 DEF AtRest, MainIn, BackupIn, Gone, Noting
<1>5. QED
    BY <1>2, <1>3, <1>4 DEF m, Noting

(* nmbm_map_block gives logical block l the block at the top *)
Remaps(n, l, n2) ==
    /\ n2 \in Instances
    /\ n2.map = [n.map EXCEPT ![l] = n.top] /\ n2.top = n.top - 1
    /\ n2.count = IF l < n.count THEN n.count ELSE n.count + 1
    /\ n2.sig = n.sig /\ n2.lo = n.lo /\ n2.bad = n.bad /\ n2.wc = n.wc
    /\ n2.main = n.main /\ n2.backup = n.backup

LEMMA MapBlock ==
    ASSUME NEW f, NEW K, NEW n, NEW n2, NEW l \in LBs, Common(f, K, n), AtRest(f, K, n), n.lo < n.top,
           l <= n.count, Remaps(n, l, n2)
    PROVE  Common(f, K, n2) /\ AtRest(f, K, n2)
<1>1. /\ n.lo \in Nat /\ n.top \in Nat /\ n.sig \in Nat /\ n.sig < NBlocks
      /\ MgmtStart < n.lo /\ n.lo <= n.top /\ n.top < n.sig /\ MgmtStart \in Nat
      /\ n.count \in Nat /\ l \in Int
    BY AreaTypes, Sizes DEF Common
<1>2. /\ n2.map = [n.map EXCEPT ![l] = n.top] /\ n2.top = n.top - 1
      /\ n2.count = IF l < n.count THEN n.count ELSE n.count + 1
      /\ n2.sig = n.sig /\ n2.lo = n.lo /\ n2.bad = n.bad /\ n2.wc = n.wc
      /\ n2.main = n.main /\ n2.backup = n.backup
    BY DEF Remaps
<1> DEFINE m == n.map
           m2 == n2.map
<1>3. /\ m \in [LBs -> Blocks \union {-1}]
      /\ \A x \in LBs : m[x] \in {-1} \union LBs \union ((n.top + 1)..(n.sig - 1))
      /\ \A x, y \in LBs : x # y /\ m[x] # -1 => m[x] # m[y]
      /\ \A x, y \in LBs : x < y /\ m[y] # -1 => m[x] # -1
      /\ \A x \in LBs : x < n.count <=> m[x] # -1
    BY DEF Common, Areas, MapOK
<1>4. m2[l] = n.top /\ \A x \in LBs \ {l} : m2[x] = m[x]
    BY <1>2, <1>3
<1>5. n.top # -1 /\ n.top \in Blocks /\ \A x \in LBs : m[x] # n.top
    <2>1. n.top # -1 /\ n.top \in Blocks
        BY <1>1, Sizes
    <2>2. ASSUME NEW x \in LBs, m[x] = n.top PROVE FALSE
        <3>1. n.top \in LBs \/ n.top \in (n.top + 1)..(n.sig - 1)
            BY <1>3, <2>1, <2>2
        <3>2. QED
            BY <1>1, <3>1, Sizes
    <2>3. QED
        BY <2>1, <2>2
<1>6. m2 \in [LBs -> Blocks \union {-1}]
    BY <1>2, <1>3, <1>5
<1>7. \A x \in LBs : m2[x] \in {-1} \union LBs \union ((n2.top + 1)..(n.sig - 1))
    <2>1. n.top \in (n2.top + 1)..(n.sig - 1)
          /\ \A v : v \in (n.top + 1)..(n.sig - 1) => v \in (n2.top + 1)..(n.sig - 1)
        BY <1>1, <1>2
    <2> HIDE DEF m, m2
    <2>2. QED
        BY <1>3, <1>4, <2>1
<1>8. \A x, y \in LBs : x # y /\ m2[x] # -1 => m2[x] # m2[y]
    <2> HIDE DEF m, m2
    <2>1. QED
        BY <1>3, <1>4, <1>5
<1>9. \A x \in LBs : x < n2.count <=> m2[x] # -1
    <2> TAKE x \in LBs
    <2>1. x \in Int
        BY Sizes
    <2> HIDE DEF m, m2
    <2>2. CASE x = l
        BY <1>1, <1>2, <1>4, <1>5, <2>2
    <2>3. CASE x # l
        <3>1. x < n2.count <=> x < n.count
            BY <1>1, <1>2, <2>1, <2>3
        <3>2. QED
            BY <1>3, <1>4, <2>3, <3>1
    <2>4. QED
        BY <2>2, <2>3
<1>10. \A x, y \in LBs : x < y /\ m2[y] # -1 => m2[x] # -1
    <2> TAKE x, y \in LBs
    <2>1. x \in Int /\ y \in Int /\ n2.count \in Int
        BY <1>1, <1>2, Sizes
    <2> HIDE DEF m, m2
    <2>2. QED
        BY <1>9, <2>1
<1>11. MapOK(n2.map, n2.sig, n2.top)
    BY <1>2, <1>6, <1>7, <1>8, <1>10 DEF MapOK
<1>12. Areas(n2)
    <2>1. n2 \in Instances /\ MgmtStart < n2.lo /\ n2.lo <= n2.top /\ n2.top < n2.sig
        BY <1>1, <1>2 DEF Remaps
    <2>2. QED
        BY <1>9, <1>11, <2>1 DEF Areas
<1>13. Common(f, K, n2)
    <2>1. ASSUME NEW x \in Tabs(f, K) PROVE Known(f, K, n2, x)
        BY <1>2 DEF Common, Known
    <2>2. QED
        BY <1>2, <1>12, <2>1 DEF Common
<1>14. AtRest(f, K, n2)
    BY <1>2 DEF AtRest, MainIn, BackupIn, Gone
<1>15. QED
    BY <1>13, <1>14

(* nmbm_generate_info_table_cache after a change: no table is as new *)
LEMMA GeneratedNew ==
    ASSUME NEW f, NEW K, NEW n, Common(f, K, n), n.changed
    PROVE  /\ Common(f, K, Generated(n)) /\ CacheOK(f, K, Generated(n), Table(Generated(n)))
           /\ AtRest(f, K, n) => AtRest(f, K, Generated(n))
           /\ Generated(n) \in Instances
           /\ Generated(n).main = n.main /\ Generated(n).backup = n.backup /\ Generated(n).lo = n.lo
           /\ Generated(n).top = n.top /\ Generated(n).sig = n.sig
<1> DEFINE m == Generated(n)
<1>1. n \in Instances /\ n.wc \in Nat /\ n.wc + 1 \in Nat
    BY AreaTypes DEF Common
<1>2. m = [n EXCEPT !.wc = n.wc + 1]
    BY DEF Generated
<1>3. /\ m \in Instances /\ m.wc = n.wc + 1 /\ m.map = n.map /\ m.bad = n.bad
      /\ m.main = n.main /\ m.backup = n.backup /\ m.lo = n.lo /\ m.top = n.top /\ m.sig = n.sig
      /\ m.count = n.count
    BY <1>1, <1>2 DEF Instances
<1> HIDE DEF m
<1>4. ASSUME NEW b \in Tabs(f, K) PROVE Known(f, K, m, b) /\ f[b].wc # m.wc
    <2>1. Known(f, K, n, b)
        BY DEF Common
    <2>2. f[b].wc \in Nat
        <3>1. f[b] \in DataContents \union {Sig} \union TabSet /\ f[b].kind = "table"
            BY DEF Common, FlashType, Tabs
        <3>2. f[b] \in TabSet
            BY <3>1, Kinds
        <3>3. QED
            BY <3>2 DEF TabSet
    <2>3. QED
        BY <1>1, <1>3, <2>1, <2>2 DEF Known
<1>5. Areas(m)
    BY <1>3 DEF Common, Areas
<1>6. Common(f, K, m)
    BY <1>3, <1>4, <1>5 DEF Common
<1>7. CacheOK(f, K, m, Table(m))
    <2>1. Table(m) \in TabSet
        BY <1>3 DEF Table, TabSet, Instances
    <2>2. Table(m).map = m.map /\ Table(m).wc = m.wc /\ Table(m).bad = m.bad
        BY DEF Table
    <2>3. QED
        BY <1>4, <2>1, <2>2 DEF CacheOK
<1>8. AtRest(f, K, n) => AtRest(f, K, m)
    BY <1>3 DEF AtRest, MainIn, BackupIn, Gone
<1>9. QED
    BY <1>3, <1>6, <1>7, <1>8 DEF m

LEMMA LandsOnce ==
    ASSUME NEW f, NEW K, NEW n, NEW c \in Updating, NEW ca,
           Common(f, K, n), CacheOK(f, K, n, ca), AtRest(f, K, n)
    PROVE  Lands(f, K, n, update_info_table_once(n), c, ca)
<1>1. /\ n.main = 0 => n.backup = 0
      /\ n.main # 0 => MainIn(K, n)
      /\ n.backup # 0 => BackupIn(n)
      /\ Tabs(f, K) = {n.main, n.backup} \ {0}
    BY DEF AtRest
<1>2. CASE n.backup = 0
    <2>1. Lands(f, K, n, write_main_table(n, n.top), c, ca)
        <3>1. (n.main = 0 => Tabs(f, K) = {}) /\ Tabs(f, K) \subseteq {n.main, n.backup}
            BY <1>1, <1>2
        <3>2. QED
            BY <1>1, <1>2, <3>1, LandsMain
    <2>2. QED
        BY <1>2, <2>1 DEF update_info_table_once
<1>3. CASE n.backup # 0
    <2>1. /\ n.main \in Nat /\ n.backup \in Nat /\ n.lo \in Nat /\ n.top \in Nat /\ MgmtStart \in Nat
          /\ n.lo <= n.top
        BY RestFacts
    <2>2. MainIn(K, n) /\ BackupIn(n) /\ Tabs(f, K) = {n.main, n.backup}
        BY <1>1, <1>3
    <2>3. SpanIn(n, n.backup, n.top)
        BY <2>1, <2>2 DEF SpanIn, MainIn, BackupIn
    <2>4. WriteAt(f, K, n, Begin("backup", n.backup, n.top))
        <3> DEFINE v == Begin("backup", n.backup, n.top)
        <3>1. v.site = "backup" /\ v.from = n.backup /\ v.lim = n.top
            BY DEF Begin
        <3> HIDE DEF v
        <3>2. WriteAt(f, K, n, v)
            BY <2>2, <3>1 DEF WriteAt
        <3>3. QED
            BY <3>2 DEF v
    <2>5. SiteCtx("backup", c) /\ "backup" \in WriteSites
        BY DEF SiteCtx, WriteSites
    <2>6. QED
        BY <1>3, <2>3, <2>4, <2>5, LandsWriting DEF update_info_table_once
<1>4. QED
    BY <1>2, <1>3

LEMMA UpdateRuns ==
    ASSUME Running, update_info_table
    PROVE  Running'
<1> DEFINE n == Generated(ni)
           r == update_info_table_once(n)
<1>1. /\ pc = "update" /\ ni.changed /\ ni' = r.n /\ pc' = r.pc /\ wr' = r.wr /\ cache' = Table(n)
      /\ flash' = flash /\ marked' = marked /\ ctx' = ctx /\ op' = op
    BY DEF update_info_table, Goto
<1>2. Common(flash, marked, ni) /\ AtRest(flash, marked, ni) /\ OpOK(ni, pc, ctx, op) /\ Resting(pc, ctx)
    BY <1>1, RestPhase
<1>3. ctx \in Updating
    BY <1>1, <1>2 DEF Resting
<1>4. /\ Common(flash, marked, n) /\ CacheOK(flash, marked, n, Table(n)) /\ AtRest(flash, marked, n)
      /\ n.top = ni.top /\ n.sig = ni.sig
    BY <1>1, <1>2, GeneratedNew
<1> HIDE DEF n, r
<1>5. Lands(flash, marked, n, r, ctx, Table(n))
    BY <1>3, <1>4, LandsOnce DEF r
<1>6. OpOK(n, "write", ctx, op)
    BY <1>1, <1>2, <1>4, OpKept
<1>7. QED
    BY <1>1, <1>5, <1>6, LandsRunning

LEMMA UpdatedOnceRuns ==
    ASSUME Running, updated_once
    PROVE  Running'
<1>1. /\ pc = "ok" /\ ctx \notin {"load", "create"} /\ pc' = "update" /\ ni' = ni /\ wr' = wr /\ cache' = cache
      /\ flash' = flash /\ marked' = marked /\ ctx' = ctx /\ op' = op
    BY DEF updated_once, ram
<1>2. Common(flash, marked, ni) /\ AtRest(flash, marked, ni) /\ OpOK(ni, pc, ctx, op) /\ Resting(pc, ctx)
    BY <1>1, RestPhase
<1>3. OpOK(ni, "update", ctx, op)
    BY <1>1, <1>2, OpKept
<1>4. Resting("update", ctx)
    BY <1>1, <1>2 DEF Resting
<1>5. QED
    BY <1>1, <1>2, <1>3, <1>4, RestNext

(* The spare blocks that are left are given up *)
GivenUp(n) == [n EXCEPT !.top = n.lo]

LEMMA GiveUp ==
    ASSUME NEW f, NEW K, NEW n, NEW n2, Common(f, K, n), AtRest(f, K, n), n2 = GivenUp(n)
    PROVE  /\ Common(f, K, n2) /\ AtRest(f, K, n2) /\ n2.sig = n.sig
           /\ DataBlocks(n) \subseteq DataBlocks(n2)
<1>1. /\ n \in Instances /\ n.lo \in Nat /\ n.top \in Nat /\ n.sig \in Nat /\ n.lo <= n.top /\ n.top < n.sig
      /\ MgmtStart < n.lo
    BY RestFacts
<1>2. /\ n2 \in Instances /\ n2.top = n.lo /\ n2.lo = n.lo /\ n2.sig = n.sig /\ n2.map = n.map
      /\ n2.bad = n.bad /\ n2.main = n.main /\ n2.backup = n.backup /\ n2.wc = n.wc /\ n2.count = n.count
    BY <1>1 DEF Instances, GivenUp
<1>3. MapOK(n2.map, n2.sig, n2.top)
    <2>1. MapOK(n.map, n.sig, n.top)
        BY DEF Common, Areas
    <2>2. MapOK(n.map, n.sig, n.lo)
        BY <1>1, <2>1, MapMono
    <2>3. QED
        BY <1>2, <2>2
<1>4. Areas(n2)
    <2>1. n2.lo <= n2.top /\ n2.top < n2.sig /\ MgmtStart < n2.lo
        BY <1>1, <1>2
    <2>2. QED
        BY <1>2, <1>3, <2>1 DEF Common, Areas
<1>5. Common(f, K, n2)
    <2>1. ASSUME NEW x \in Tabs(f, K) PROVE Known(f, K, n2, x)
        BY <1>2 DEF Common, Known
    <2>2. QED
        BY <1>2, <1>4, <2>1 DEF Common
<1>6. AtRest(f, K, n2)
    BY <1>2 DEF AtRest, MainIn, BackupIn, Gone
<1>7. DataBlocks(n) \subseteq DataBlocks(n2)
    BY <1>1, <1>2 DEF DataBlocks
<1>8. QED
    BY <1>2, <1>5, <1>6, <1>7

LEMMA UpdateDoneRuns ==
    ASSUME Running, UpdateDone
    PROVE  Running'
<1>1. /\ pc \in {"update", "failed"} /\ (pc = "failed" => ctx # "load")
      /\ ctx' = "none" /\ flash' = flash /\ marked' = marked
      /\ op' = IF pc' = "idle" THEN NoOp ELSE op
    BY DEF UpdateDone
<1>2. Common(flash, marked, ni) /\ AtRest(flash, marked, ni) /\ OpOK(ni, pc, ctx, op) /\ Resting(pc, ctx)
    BY <1>1, RestPhase
<1>3. ctx \in Updating \/ (ctx = "create" /\ pc = "failed")
    BY <1>1, <1>2 DEF Resting
<1>4. /\ (ctx = "mapfail" => pc' = "refused") /\ (ctx = "remap" => pc' = "remapped")
      /\ (ctx = "unmap" => pc' \in {"erase", "idle"})
      /\ (ctx \in {"boot", "create", "tail"} => pc' \in {"dead", "idle"})
    BY <1>1, <1>3 DEF UpdateDone, Updating
<1>5. /\ Common(flash, marked, ni') /\ AtRest(flash, marked, ni') /\ ni'.sig = ni.sig
      /\ DataBlocks(ni) \subseteq DataBlocks(ni')
    <2>1. CASE ctx \in {"mapfail", "tail"}
        <3>1. ni' = GivenUp(ni)
            BY <2>1 DEF UpdateDone, GivenUp
        <3>2. QED
            BY <1>2, <3>1, GiveUp
    <2>2. CASE ctx \notin {"mapfail", "tail"}
        <3>1. ni' = ni
            BY <2>2 DEF UpdateDone
        <3>2. QED
            BY <1>2, <3>1
    <2>3. QED
        BY <2>1, <2>2
<1>6. Resting(pc', "none")
    BY <1>3, <1>4 DEF Resting, Updating
<1>7. OpOK(ni', pc', "none", op')
    <2>1. /\ op = NoOp \/ op \in Ops
          /\ (ctx \in {"remap", "mapfail", "unmap"} => op \in Ops)
          /\ (op \in Ops /\ op.act = "markbad" => op.old \in DataBlocks(ni))
          /\ (op \in Ops => op.new \in DataBlocks(ni) \union {-1})
          /\ (ctx \in {"remap", "unmap"} => op.new # -1)
        BY <1>2 DEF OpOK
    <2>2. NoOp \notin Ops
        BY DEF NoOp, Ops
    <2>3. CASE pc' = "idle"
        BY <1>1, <2>2, <2>3 DEF OpOK
    <2>4. CASE pc' # "idle"
        BY <1>1, <1>3, <1>4, <1>5, <2>1, <2>4 DEF OpOK, Updating
    <2>5. QED
        BY <2>3, <2>4
<1>8. QED
    BY <1>1, <1>5, <1>6, <1>7, RestNext

LEMMA LoadDoneRuns ==
    ASSUME Running, LoadDone
    PROVE  Running'
<1> DEFINE v == (ni.lo = ni.top \/ pc = "failed")
<1>1. /\ pc \in {"ok", "failed"} /\ ctx = "load" /\ pc' = "idle" /\ ctx' = "none" /\ op' = op
      /\ flash' = flash /\ marked' = marked /\ ni' = [ni EXCEPT !.prot = v] /\ v \in BOOLEAN
    BY DEF LoadDone
<1> HIDE DEF v
<1>2. Common(flash, marked, ni) /\ AtRest(flash, marked, ni) /\ OpOK(ni, pc, ctx, op)
    BY <1>1, RestPhase
<1>3. ni \in Instances /\ MgmtStart < ni.lo /\ ni.lo <= ni.top
    BY <1>2, RestFacts
<1>4. Moved(ni, ni') /\ ni'.lo = ni.lo /\ ni'.main = ni.main /\ ni'.backup = ni.backup
    BY <1>1, <1>3 DEF Moved, Instances
<1>5. Common(flash, marked, ni')
    BY <1>2, <1>3, <1>4, CommonMoved DEF Moved
<1>6. AtRest(flash, marked, ni')
    BY <1>2, <1>4 DEF AtRest, MainIn, BackupIn, Gone, Moved
<1>7. OpOK(ni', "idle", "none", op)
    BY <1>1, <1>2, <1>4 DEF OpOK, DataBlocks, Moved
<1>8. QED
    BY <1>1, <1>5, <1>6, <1>7, RestNext DEF Resting

LEMMA OpDoneRuns ==
    ASSUME Running, OpDone
    PROVE  Running'
<1>1. /\ pc \in {"remapped", "refused"} /\ flash' = flash /\ ni' = ni /\ ctx' = ctx
      /\ marked' = IF op.act = "markbad" THEN marked \union {op.old} ELSE marked
      /\ (pc' = "retry" /\ op' = op) \/ (pc' = "idle" /\ op' = NoOp)
    BY DEF OpDone
<1>2. Common(flash, marked, ni) /\ AtRest(flash, marked, ni) /\ OpOK(ni, pc, ctx, op) /\ Resting(pc, ctx)
    BY <1>1, RestPhase
<1>3. ctx = "none" /\ op \in Ops
    BY <1>1, <1>2 DEF Resting, OpOK
<1>4. Common(flash, marked', ni) /\ AtRest(flash, marked', ni)
    <2>1. CASE op.act = "markbad"
        <3> DEFINE b == op.old
        <3>1. b \in DataBlocks(ni)
            BY <1>2, <1>3, <2>1 DEF OpOK
        <3>2. b \in Blocks /\ flash \in FlashType
            BY <1>2, <3>1, RestFacts
        <3>3. marked' = marked \union {b} /\ flash = [flash EXCEPT ![b] = flash[b]]
            BY <1>1, <2>1, <3>2 DEF FlashType
        <3>4. Lost(flash, marked, flash, marked', b)
            <4> HIDE DEF b
            <4>1. QED
                BY <3>2, <3>3 DEF Lost
        <3> HIDE DEF b
        <3>5. QED
            BY <1>2, <3>1, <3>4, DataLost
    <2>2. CASE op.act # "markbad"
        BY <1>1, <1>2, <2>2
    <2>3. QED
        BY <2>1, <2>2
<1>5. OpOK(ni, pc', "none", op')
    <2>1. NoOp \notin Ops
        BY DEF NoOp, Ops
    <2>2. QED
        BY <1>1, <1>2, <1>3, <2>1 DEF OpOK
<1>6. Resting(pc', "none")
    BY <1>1 DEF Resting
<1>7. QED
    BY <1>1, <1>3, <1>4, <1>5, <1>6, RestNext

(* What can be read from a block *)
LEMMA ContentsType ==
    ASSUME flash \in FlashType, NEW b \in Blocks
    PROVE  Contents(b) \in [PageNos -> {"ff", "d", "x"}]
<1>1. flash[b] \in DataContents \union {Sig} \union TabSet
    BY DEF FlashType
<1>2. CASE flash[b].kind = "data"
    <2>1. flash[b] \in DataContents
        BY <1>1, <1>2, Kinds
    <2>2. PICK g \in [PageNos -> {"ff", "d", "x"}] : flash[b] = Data(g)
        BY <2>1 DEF DataContents
    <2>3. flash[b].pages = g
        BY <2>2 DEF Data
    <2>4. QED
        BY <1>2, <2>2, <2>3 DEF Contents
<1>3. CASE flash[b].kind # "data"
    BY <1>3 DEF Contents, AllPages
<1>4. QED
    BY <1>2, <1>3

LEMMA NewBlockErased ==
    ASSUME Running, bbt_nand_erase
    PROVE  Running'
<1> DEFINE b == op.new
<1>1. /\ pc = "erase" /\ pc' = "copy" /\ marked' = marked /\ ni' = ni /\ ctx' = ctx
      /\ op' = op \/ op' = [op EXCEPT !.dirty = TRUE]
      /\ flash' = flash \/ \E c \in {Erased, flash[b], Torn} : flash' = [flash EXCEPT ![b] = c]
    BY DEF bbt_nand_erase, EraseFailed
<1>2. Common(flash, marked, ni) /\ AtRest(flash, marked, ni) /\ OpOK(ni, pc, ctx, op) /\ Resting(pc, ctx)
    BY <1>1, RestPhase
<1>3. op \in Ops /\ b \in DataBlocks(ni)
    BY <1>1, <1>2 DEF OpOK
<1> HIDE DEF b
<1>4. b \in Blocks /\ flash \in FlashType
    BY <1>2, <1>3, RestFacts
<1>5. Common(flash', marked, ni) /\ AtRest(flash', marked, ni)
    <2>1. CASE flash' = flash
        BY <1>2, <2>1
    <2>2. CASE \E c \in {Erased, Torn} : flash' = [flash EXCEPT ![b] = c]
        BY <1>2, <1>3, <2>2, Kinds, DataPut DEF Put
    <2>3. CASE flash' = [flash EXCEPT ![b] = flash[b]]
        <3>1. flash' = flash
            BY <1>4, <2>3 DEF FlashType
        <3>2. QED
            BY <1>2, <3>1
    <2>4. QED
        BY <1>1, <2>1, <2>2, <2>3
<1>6. op' \in Ops /\ op'.act = op.act /\ op'.old = op.old /\ op'.new = op.new
    BY <1>1, <1>3 DEF Ops
<1>7. OpOK(ni, "copy", ctx, op')
    BY <1>1, <1>2, <1>3, <1>6 DEF OpOK
<1>8. Resting("copy", ctx) /\ ctx # "load"
    BY <1>1, <1>2 DEF Resting, Updating
<1>9. QED
    BY <1>1, <1>5, <1>7, <1>8, RestNext

LEMMA NewBlockCopied ==
    ASSUME Running, bbt_nand_copy
    PROVE  Running'
<1> DEFINE b == op.new
<1>1. /\ pc = "copy" /\ pc' = (IF ctx = "remap" THEN "update" ELSE "idle") /\ marked' = marked /\ ni' = ni
      /\ ctx' = ctx /\ op' = IF pc' = "idle" THEN NoOp ELSE op
    BY DEF bbt_nand_copy
<1>2. Common(flash, marked, ni) /\ AtRest(flash, marked, ni) /\ OpOK(ni, pc, ctx, op) /\ Resting(pc, ctx)
    BY <1>1, RestPhase
<1>3. op \in Ops /\ b \in DataBlocks(ni) /\ ctx \in {"remap", "none"}
    BY <1>1, <1>2 DEF OpOK, Resting, Updating
<1>4. b \in Blocks /\ flash \in FlashType /\ op.old \in Blocks
    BY <1>2, <1>3, RestFacts DEF Ops
<1>5. \E g \in [PageNos -> {"ff", "d", "x"}] : flash' = [flash EXCEPT ![b] = Data(g)]
    <2> DEFINE from == Contents(op.old)
               to == Contents(b)
               readable == Lowest({q \in PageNos : from[q] = "x"} \union {op.len + 1}) - 1
               Page(q, n) == IF q > n THEN to[q] ELSE IF to[q] = "ff" THEN from[q] ELSE "x"
    <2>1. from \in [PageNos -> {"ff", "d", "x"}] /\ to \in [PageNos -> {"ff", "d", "x"}]
        BY <1>4, ContentsType
    <2>2. \A q \in PageNos : \A n : Page(q, n) \in {"ff", "d", "x"}
        BY <2>1
    <2>3. \/ flash' = [flash EXCEPT ![b] = Data([q \in PageNos |-> Page(q, Smaller(readable, op.len))])]
          \/ \E n \in 0..(Smaller(readable, op.len) - 1) :
                flash' = [flash EXCEPT ![b] = Data([q \in PageNos |-> IF q = n + 1 THEN "x" ELSE Page(q, n)])]
        BY Zenon DEF bbt_nand_copy
    <2> HIDE DEF Page, readable, from, to
    <2>4. CASE flash' = [flash EXCEPT ![b] = Data([q \in PageNos |-> Page(q, Smaller(readable, op.len))])]
        BY <2>2, <2>4
    <2>5. CASE \E n \in 0..(Smaller(readable, op.len) - 1) :
                flash' = [flash EXCEPT ![b] = Data([q \in PageNos |-> IF q = n + 1 THEN "x" ELSE Page(q, n)])]
        <3>1. PICK n \in 0..(Smaller(readable, op.len) - 1) :
                flash' = [flash EXCEPT ![b] = Data([q \in PageNos |-> IF q = n + 1 THEN "x" ELSE Page(q, n)])]
            BY <2>5
        <3>2. [q \in PageNos |-> IF q = n + 1 THEN "x" ELSE Page(q, n)] \in [PageNos -> {"ff", "d", "x"}]
            BY <2>2
        <3>3. QED
            BY <3>1, <3>2
    <2>6. QED
        BY <2>3, <2>4, <2>5
<1>6. PICK g \in [PageNos -> {"ff", "d", "x"}] : flash' = [flash EXCEPT ![b] = Data(g)]
    BY <1>5
<1>7. Data(g) \in DataContents /\ Put(flash, b, Data(g), flash')
    BY <1>6 DEF DataContents, Put
<1> HIDE DEF b
<1>8. Common(flash', marked, ni) /\ AtRest(flash', marked, ni)
    BY <1>2, <1>3, <1>7, DataPut
<1>9. OpOK(ni, pc', ctx, op')
    <2>1. NoOp \notin Ops
        BY DEF NoOp, Ops
    <2>2. QED
        BY <1>1, <1>2, <1>3, <2>1 DEF OpOK
<1>10. Resting(pc', ctx) /\ ctx # "load"
    BY <1>1, <1>3 DEF Resting, Updating
<1>11. QED
    BY <1>1, <1>8, <1>9, <1>10, RestNext

(* nmbm_map_block, when the block at the top is good *)
LEMMA TopTaken ==
    ASSUME NEW n, Areas(n), Unmapped(n) # {}, n.top \notin n.bad
    PROVE  Highest(Unmapped(n)) = n.top /\ n.lo < n.top
<1>1. n.lo \in Nat /\ n.top \in Nat
    BY AreaTypes
<1>2. \A x \in Unmapped(n) : x \in Nat /\ n.lo < x /\ x <= n.top
    BY <1>1 DEF Unmapped
<1>3. n.lo < n.top
    BY <1>1, <1>2
<1>4. n.top \in Unmapped(n)
    BY <1>1, <1>3 DEF Unmapped
<1>5. Unmapped(n) \in SUBSET Nat /\ \A x \in Unmapped(n) : x <= n.top
    BY <1>2
<1>6. Highest(Unmapped(n)) \in Unmapped(n) /\ \A y \in Unmapped(n) : Highest(Unmapped(n)) >= y
    BY <1>1, <1>5, HighestIn
<1>7. Highest(Unmapped(n)) <= n.top /\ Highest(Unmapped(n)) >= n.top /\ Highest(Unmapped(n)) \in Nat
    BY <1>2, <1>4, <1>6
<1>8. QED
    BY <1>1, <1>3, <1>7

LEMMA MapTailRuns ==
    ASSUME Running, MapTail, ~seen'.astray, seen \in [made : BOOLEAN, astray : BOOLEAN]
    PROVE  Running'
<1>1. /\ ctx = "create" /\ pc = "ok" /\ flash' = flash /\ marked' = marked /\ op' = op
    BY DEF MapTail
<1>2. Common(flash, marked, ni) /\ AtRest(flash, marked, ni) /\ OpOK(ni, pc, ctx, op)
    BY <1>1, RestPhase
<1>3. ni \in Instances /\ ni.count \in Nat /\ ni.top \in Nat /\ Areas(ni) /\ ni.lo \in Nat /\ ni.sig \in Nat
    BY <1>2, AreaTypes DEF Common
<1>4. CASE /\ ni.count < MgmtStart /\ Unmapped(ni) # {}
           /\ ni' = [map_block(ni, ni.count) EXCEPT !.count = @ + 1]
           /\ Skips(ni)
           /\ UNCHANGED <<pc, ctx>>
    <2>1. ni.top \notin ni.bad
        BY <1>4 DEF Skips
    <2>2. Highest(Unmapped(ni)) = ni.top /\ ni.lo < ni.top
        BY <1>3, <1>4, <2>1, TopTaken
    <2>3. /\ ni.count \in LBs /\ ni.top \in Blocks /\ ni.top - 1 \in Blocks /\ ni.count + 1 \in 0..MgmtStart
          /\ ni.map \in [LBs -> Blocks \union {-1}]
        BY <1>3, <1>4, <2>2, Sizes DEF Instances
    <2>4. [ni.map EXCEPT ![ni.count] = ni.top] \in [LBs -> Blocks \union {-1}]
        BY <2>3
    <2>5. ni' = [ni EXCEPT !.map = [ni.map EXCEPT ![ni.count] = ni.top], !.top = ni.top - 1,
                           !.changed = TRUE, !.count = ni.count + 1]
        BY <1>3, <1>4, <2>2 DEF map_block, Instances
    <2>6. Remaps(ni, ni.count, ni')
        <3> DEFINE m == [ni.map EXCEPT ![ni.count] = ni.top]
                   t == ni.top - 1
                   k == ni.count + 1
        <3>1. m \in [LBs -> Blocks \union {-1}] /\ t \in Blocks /\ k \in 0..MgmtStart /\ ~(ni.count < ni.count)
            BY <1>3, <2>3, <2>4
        <3>2. ni' = [ni EXCEPT !.map = m, !.top = t, !.changed = TRUE, !.count = k]
            BY <2>5
        <3> HIDE DEF m, t, k
        <3>3. /\ ni' \in Instances /\ ni'.map = m /\ ni'.top = t /\ ni'.count = k
              /\ ni'.sig = ni.sig /\ ni'.lo = ni.lo /\ ni'.bad = ni.bad /\ ni'.wc = ni.wc
              /\ ni'.main = ni.main /\ ni'.backup = ni.backup
            BY <1>3, <3>1, <3>2 DEF Instances
        <3>4. QED
            BY <3>1, <3>3 DEF Remaps, m, t, k
    <2>7. Common(flash, marked, ni') /\ AtRest(flash, marked, ni')
        <3>1. ni.count <= ni.count
            BY <1>3
        <3>2. QED
            BY <1>2, <2>2, <2>3, <2>6, <3>1, MapBlock
    <2>8. DataBlocks(ni) \subseteq DataBlocks(ni')
        <3>1. ni'.top = ni.top - 1 /\ ni'.sig = ni.sig
            BY <2>6 DEF Remaps
        <3>2. QED
            BY <1>3, <3>1 DEF DataBlocks
    <2>9. OpOK(ni', "ok", "create", op)
        BY <1>1, <1>2, <2>8 DEF OpOK
    <2>10. QED
        BY <1>1, <1>4, <2>7, <2>9, RestNext DEF Resting
<1>5. CASE ni' = ni /\ pc' = "update" /\ ctx' \in {"tail", "boot"}
    <2>1. OpOK(ni, "update", ctx', op)
        BY <1>1, <1>2, <1>5 DEF OpOK
    <2>2. Resting("update", ctx') /\ ctx' # "load"
        BY <1>5 DEF Resting, Updating
    <2>3. QED
        BY <1>1, <1>2, <1>5, <2>1, <2>2, RestNext
<1>6. QED
    BY <1>4, <1>5 DEF MapTail

-----------------------------------------------------------------------------
(* The mtd operations *)

LEMMA ServedIn ==
    ASSUME NEW n, Areas(n), NEW l \in LBs, l < n.count
    PROVE  n.map[l] \in DataBlocks(n) /\ n.map[l] # -1
<1>1. n.map[l] # -1 /\ n.map[l] \in {-1} \union LBs \union ((n.top + 1)..(n.sig - 1))
    BY DEF Areas, MapOK
<1>2. QED
    BY <1>1 DEF DataBlocks

(* remap_block_nmbm; the flash may have changed just before *)
LEMMA RemapRuns ==
    ASSUME NEW o \in Ops, Common(flash', marked', ni), AtRest(flash', marked', ni), remap_block(o),
           o.lb < ni.count, o.old = ni.map[o.lb], ctx = "none",
           ~seen'.astray, seen \in [made : BOOLEAN, astray : BOOLEAN]
    PROVE  Running'
<1> DEFINE b == o.old
           n == set_bad(ni, {b})
           l == o.lb
           new == IF Unmapped(n) = {} THEN -1 ELSE Highest(Unmapped(n))
<1>1. l \in LBs /\ b \in DataBlocks(ni)
    BY ServedIn DEF Common, Ops
<1>2. /\ op' = [o EXCEPT !.new = new]
      /\ \/ NoSpare(n) /\ ni' = n /\ pc' = "refused" /\ ctx' = "none"
         \/ Unmapped(n) = {} /\ ni' = n /\ pc' = "update" /\ ctx' = "mapfail"
         \/ /\ Unmapped(n) # {} /\ ni' = map_block(n, l) /\ pc' = "erase" /\ ctx' = "remap" /\ Skips(n)
    BY DEF remap_block
<1> HIDE DEF b
<1>3. /\ Common(flash', marked', n) /\ AtRest(flash', marked', n) /\ n \in Instances
      /\ n.lo = ni.lo /\ n.top = ni.top /\ n.map = ni.map /\ n.sig = ni.sig /\ n.count = ni.count
    BY <1>1, DataBad
<1> HIDE DEF n, new, l
<1>4. DataBlocks(n) = DataBlocks(ni)
    BY <1>3 DEF DataBlocks
<1>5. /\ n.lo \in Nat /\ n.top \in Nat /\ n.sig \in Nat /\ n.top < n.sig /\ MgmtStart < n.lo /\ n.lo <= n.top
      /\ n.sig < NBlocks /\ n.count \in Nat /\ MgmtStart \in Nat /\ Areas(n)
    BY <1>3, AreaTypes, Sizes DEF Common
<1>6. ASSUME new \in Blocks \union {-1} PROVE op' \in Ops /\ op'.act = o.act /\ op'.old = b /\ op'.new = new
    BY <1>2, <1>6 DEF Ops, b
<1>7. CASE Unmapped(n) = {} /\ ni' = n /\ ((pc' = "refused" /\ ctx' = "none") \/ (pc' = "update" /\ ctx' = "mapfail"))
    <2>1. new = -1
        BY <1>7 DEF new
    <2>2. op' \in Ops /\ op'.old = b /\ op'.new = -1
        BY <1>6, <2>1
    <2>3. OpOK(n, pc', ctx', op')
        BY <1>1, <1>4, <1>7, <2>2 DEF OpOK
    <2>4. Resting(pc', ctx') /\ ctx' # "load"
        BY <1>7 DEF Resting, Updating
    <2>5. QED
        BY <1>3, <1>7, <2>3, <2>4, RestNext
<1>8. CASE Unmapped(n) # {} /\ ni' = map_block(n, l) /\ pc' = "erase" /\ ctx' = "remap" /\ Skips(n)
    <2>1. n.top \notin n.bad
        BY <1>8 DEF Skips
    <2>2. Highest(Unmapped(n)) = n.top /\ n.lo < n.top
        BY <1>5, <1>8, <2>1, TopTaken
    <2>3. new = n.top
        BY <1>8, <2>2 DEF new
    <2>4. n.top \in Blocks /\ n.top - 1 \in Blocks /\ n.map \in [LBs -> Blocks \union {-1}]
        BY <1>3, <1>5, <2>2, Sizes DEF Instances
    <2>5. Remaps(n, l, ni')
        <3> DEFINE m == [n.map EXCEPT ![l] = n.top]
                   t == n.top - 1
        <3>1. m \in [LBs -> Blocks \union {-1}] /\ t \in Blocks /\ l < n.count
            BY <1>1, <1>3, <2>4 DEF l
        <3>2. ni' = [n EXCEPT !.map = m, !.top = t, !.changed = TRUE]
            BY <1>8, <2>2 DEF map_block
        <3> HIDE DEF m, t
        <3>3. /\ ni' \in Instances /\ ni'.map = m /\ ni'.top = t /\ ni'.count = n.count
              /\ ni'.sig = n.sig /\ ni'.lo = n.lo /\ ni'.bad = n.bad /\ ni'.wc = n.wc
              /\ ni'.main = n.main /\ ni'.backup = n.backup
            BY <1>3, <3>1, <3>2 DEF Instances
        <3>4. QED
            BY <3>1, <3>3 DEF Remaps, m, t
    <2>6. Common(flash', marked', ni') /\ AtRest(flash', marked', ni')
        <3>1. l <= n.count
            <4>1. l \in Int /\ l < n.count
                BY <1>1, <1>3, Sizes DEF l
            <4>2. QED
                BY <1>5, <4>1
        <3>2. QED
            BY <1>1, <1>3, <2>2, <2>5, <3>1, MapBlock
    <2>7. DataBlocks(n) \subseteq DataBlocks(ni') /\ n.top \in DataBlocks(ni')
        <3>1. ni'.top = n.top - 1 /\ ni'.sig = n.sig
            BY <2>5 DEF Remaps
        <3>2. QED
            BY <1>5, <3>1 DEF DataBlocks
    <2>8. op' \in Ops /\ op'.old = b /\ op'.new = n.top /\ n.top # -1
        BY <1>5, <1>6, <2>3, <2>4
    <2>9. OpOK(ni', "erase", "remap", op')
        BY <1>1, <1>4, <2>7, <2>8 DEF OpOK
    <2>10. QED
        BY <1>8, <2>6, <2>9, RestNext DEF Resting
<1>9. NoSpare(n) => Unmapped(n) = {}
    BY <1>5 DEF NoSpare, Unmapped
<1>10. QED
    BY <1>2, <1>7, <1>8, <1>9

LEMMA OpIn ==
    ASSUME Running, NEW l \in Served, NEW len \in 0..NPages,
           NEW act \in {"erase", "write", "read", "worn", "markbad", "isbad", "repair", "mark_good"},
           pc \in {"idle", "retry"}
    PROVE  /\ Op(act, l, len) \in Ops /\ Op(act, l, len).lb < ni.count
           /\ Op(act, l, len).old = ni.map[Op(act, l, len).lb] /\ Op(act, l, len).lb = l
           /\ Op(act, l, len).act = act
           /\ ctx = "none" /\ ni.map[l] \in DataBlocks(ni) /\ ni.map[l] \in Blocks /\ ni.map[l] # -1
           /\ l \in LBs /\ l < ni.count
           /\ Common(flash, marked, ni) /\ AtRest(flash, marked, ni) /\ flash \in FlashType
           /\ OpOK(ni, pc, ctx, op)
<1>1. Common(flash, marked, ni) /\ AtRest(flash, marked, ni) /\ Resting(pc, ctx) /\ OpOK(ni, pc, ctx, op)
    BY RestPhase
<1>2. ctx = "none"
    BY <1>1 DEF Resting
<1>3. l \in LBs /\ l < ni.count
    BY DEF Served
<1>4. ni.map[l] \in DataBlocks(ni) /\ ni.map[l] # -1
    BY <1>1, <1>3, ServedIn DEF Common
<1>5. ni.map[l] \in Blocks /\ flash \in FlashType
    BY <1>1, <1>4, RestFacts
<1>6. Op(act, l, len) \in Ops
    BY <1>3, <1>5 DEF Op, Ops
<1>7. Op(act, l, len).lb = l /\ Op(act, l, len).old = ni.map[l] /\ Op(act, l, len).act = act
    BY DEF Op
<1>8. QED
    BY <1>1, <1>2, <1>3, <1>4, <1>5, <1>6, <1>7

LEMMA IdleRuns ==
    ASSUME Idle, marked' = marked, Common(flash', marked, ni), AtRest(flash', marked, ni), ctx = "none"
    PROVE  Running'
<1>1. pc' = "idle" /\ op' = NoOp /\ ni' = ni /\ ctx' = "none"
    BY DEF Idle
<1>2. NoOp \notin Ops
    BY DEF NoOp, Ops
<1>3. OpOK(ni, "idle", "none", NoOp)
    BY <1>2 DEF OpOK
<1>4. QED
    BY <1>1, <1>3, RestNext DEF Resting

LEMMA EraseRuns ==
    ASSUME Running, NEW l \in Served, mtd_erase(l), ~seen'.astray, seen \in [made : BOOLEAN, astray : BOOLEAN]
    PROVE  Running'
<1> DEFINE b == ni.map[l]
           o == Op("erase", l, 0)
<1>1. pc \in {"idle", "retry"} /\ marked' = marked
    BY DEF mtd_erase, Started
<1>2. 0 \in 0..NPages
    BY Sizes
<1>3. /\ o \in Ops /\ o.lb < ni.count /\ o.old = ni.map[o.lb] /\ ctx = "none"
      /\ b \in DataBlocks(ni) /\ b \in Blocks
      /\ Common(flash, marked, ni) /\ AtRest(flash, marked, ni) /\ flash \in FlashType
    BY <1>1, <1>2, OpIn
<1>4. /\ flash' = flash \/ \E c \in {Erased, flash[b], Torn} : flash' = [flash EXCEPT ![b] = c]
      /\ Idle \/ remap_block(o)
    BY DEF mtd_erase, EraseFailed
<1> HIDE DEF b, o
<1>5. Common(flash', marked, ni) /\ AtRest(flash', marked, ni)
    <2>1. CASE flash' = flash
        BY <1>3, <2>1
    <2>2. ASSUME NEW c \in {Erased, Torn}, flash' = [flash EXCEPT ![b] = c]
          PROVE  Common(flash', marked, ni) /\ AtRest(flash', marked, ni)
        <3>1. c \in DataContents
            BY Kinds
        <3>2. Put(flash, b, c, flash')
            BY <2>2 DEF Put
        <3>3. QED
            BY <1>3, <3>1, <3>2, DataPut
    <2>3. CASE flash' = [flash EXCEPT ![b] = flash[b]]
        <3>1. flash' = flash
            BY <1>3, <2>3 DEF FlashType
        <3>2. QED
            BY <1>3, <3>1
    <2>4. QED
        BY <1>4, <2>1, <2>2, <2>3
<1>6. CASE Idle
    BY <1>1, <1>3, <1>5, <1>6, IdleRuns
<1>7. CASE remap_block(o)
    BY <1>1, <1>3, <1>5, <1>7, RemapRuns
<1>8. QED
    BY <1>4, <1>6, <1>7

(* A page of a block with data is written *)
LEMMA PagePut ==
    ASSUME NEW b \in DataBlocks(ni), NEW p \in PageNos, NEW v \in {"ff", "d", "x"},
           Common(flash, marked, ni), AtRest(flash, marked, ni),
           flash' = [flash EXCEPT ![b] = Data([Contents(b) EXCEPT ![p] = v])]
    PROVE  Common(flash', marked, ni) /\ AtRest(flash', marked, ni)
<1>1. b \in Blocks /\ flash \in FlashType
    BY RestFacts
<1> DEFINE g == [Contents(b) EXCEPT ![p] = v]
<1>2. g \in [PageNos -> {"ff", "d", "x"}]
    BY <1>1, ContentsType
<1> HIDE DEF g
<1>3. Data(g) \in DataContents
    BY <1>2 DEF DataContents
<1>4. Put(flash, b, Data(g), flash')
    BY DEF Put, g
<1>5. QED
    BY <1>3, <1>4, DataPut

LEMMA WriteRuns ==
    ASSUME Running, NEW l \in Served, NEW p \in PageNos, mtd_write(l, p), ~seen'.astray,
           seen \in [made : BOOLEAN, astray : BOOLEAN]
    PROVE  Running'
<1> DEFINE b == ni.map[l]
           o == Op("write", l, p - 1)
<1>1. pc \in {"idle", "retry"} /\ marked' = marked
    BY DEF mtd_write, Started
<1>2. p - 1 \in 0..NPages
    BY Sizes DEF PageNos
<1>3. /\ o \in Ops /\ o.lb < ni.count /\ o.old = ni.map[o.lb] /\ ctx = "none"
      /\ b \in DataBlocks(ni) /\ b \in Blocks
      /\ Common(flash, marked, ni) /\ AtRest(flash, marked, ni)
    <2> DEFINE k == p - 1
    <2>1. k \in 0..NPages
        BY <1>2
    <2> HIDE DEF k
    <2>2. /\ Op("write", l, k) \in Ops /\ Op("write", l, k).lb < ni.count
          /\ Op("write", l, k).old = ni.map[Op("write", l, k).lb] /\ ctx = "none"
          /\ b \in DataBlocks(ni) /\ b \in Blocks
          /\ Common(flash, marked, ni) /\ AtRest(flash, marked, ni)
        BY <1>1, <2>1, OpIn
    <2>3. QED
        BY <2>2 DEF k
<1>4. /\ \E v \in {"d", "x"} : flash' = [flash EXCEPT ![b] = Data([Contents(b) EXCEPT ![p] = v])]
      /\ Idle \/ remap_block(o)
    BY DEF mtd_write
<1> HIDE DEF b, o
<1>5. Common(flash', marked, ni) /\ AtRest(flash', marked, ni)
    BY <1>3, <1>4, PagePut
<1>6. CASE Idle
    BY <1>1, <1>3, <1>5, <1>6, IdleRuns
<1>7. CASE remap_block(o)
    BY <1>1, <1>3, <1>5, <1>7, RemapRuns
<1>8. QED
    BY <1>4, <1>6, <1>7

LEMMA ReadFailsRuns ==
    ASSUME Running, NEW l \in Served, NEW p \in PageNos, mtd_read_fails(l, p), ~seen'.astray,
           seen \in [made : BOOLEAN, astray : BOOLEAN]
    PROVE  Running'
<1> DEFINE b == ni.map[l]
           o == Op("read", l, NPages)
<1>1. /\ pc = "idle" /\ marked' = marked /\ remap_block(o)
      /\ flash' = [flash EXCEPT ![b] = Data([Contents(b) EXCEPT ![p] = "x"])]
    BY DEF mtd_read_fails
<1>2. NPages \in 0..NPages
    BY Sizes
<1>3. /\ o \in Ops /\ o.lb < ni.count /\ o.old = ni.map[o.lb] /\ ctx = "none"
      /\ b \in DataBlocks(ni) /\ b \in Blocks
      /\ Common(flash, marked, ni) /\ AtRest(flash, marked, ni)
    BY <1>1, <1>2, OpIn
<1> HIDE DEF b, o
<1>4. Common(flash', marked, ni) /\ AtRest(flash', marked, ni)
    BY <1>1, <1>3, PagePut
<1>5. QED
    BY <1>1, <1>3, <1>4, RemapRuns

LEMMA RetireRuns ==
    ASSUME Running, NEW l \in Served,
           (\E act \in {"worn", "markbad"} : Retire(l, act)) \/ mtd_isbad(l), ~seen'.astray,
           seen \in [made : BOOLEAN, astray : BOOLEAN]
    PROVE  Running'
<1>1. PICK act \in {"worn", "markbad", "isbad"} :
        /\ pc = "idle" /\ marked' = marked /\ flash' = flash /\ remap_block(Op(act, l, NPages))
    BY DEF Retire, mtd_isbad
<1> DEFINE o == Op(act, l, NPages)
<1>2. NPages \in 0..NPages
    BY Sizes
<1>3. /\ o \in Ops /\ o.lb < ni.count /\ o.old = ni.map[o.lb] /\ ctx = "none"
      /\ Common(flash, marked, ni) /\ AtRest(flash, marked, ni)
    BY <1>1, <1>2, OpIn
<1> HIDE DEF o
<1>4. QED
    BY <1>1, <1>3, RemapRuns DEF o

(* unmap_block_nmbm, when the block it finds is in the data area and free *)
LEMMA UnmapRuns ==
    ASSUME Running, NEW l \in Served, NEW act \in {"repair", "mark_good"}, unmap_block(l, act), ~seen'.astray,
           seen \in [made : BOOLEAN, astray : BOOLEAN]
    PROVE  Running'
<1> DEFINE start == Highest({k \in 0..l : ~Remapped(k)})
           new == ni.map[start] + (l - start)
           map == [ni.map EXCEPT ![l] = new]
           mapped == {map[k] : k \in Served} \intersect (ni.lo..(ni.sig - 1))
           top == Lowest({ni.sig} \union mapped) - 1
           bad == ni.bad \ {new}
           o == Op(act, l, NPages)
<1>1. /\ pc = "idle" /\ pc' = "update" /\ ctx' = "unmap" /\ flash' = flash /\ marked' = marked
      /\ ni' = [ni EXCEPT !.bad = bad, !.map = map, !.changed = TRUE, !.top = top]
      /\ op' = [o EXCEPT !.new = new]
      /\ seen' = [seen EXCEPT !.astray =
            seen.astray \/ new \notin LBs \/ \E k \in Served \ {l} : ni.map[k] = new]
    BY DEF unmap_block
<1> HIDE DEF start, new
<1>2. new \in LBs /\ \A k \in Served \ {l} : ni.map[k] # new
    BY <1>1
<1>3. NPages \in 0..NPages
    BY Sizes
<1>4. /\ o \in Ops /\ o.act = act /\ ctx = "none" /\ l \in LBs /\ l < ni.count /\ ni.map[l] # -1
      /\ Common(flash, marked, ni) /\ AtRest(flash, marked, ni)
    BY <1>1, <1>3, OpIn
<1>5. /\ ni.lo \in Nat /\ ni.top \in Nat /\ ni.sig \in Nat /\ ni.sig < NBlocks /\ ni \in Instances
      /\ MgmtStart < ni.lo /\ ni.lo <= ni.top /\ ni.top < ni.sig /\ MgmtStart \in Nat
      /\ ni.count \in Nat /\ Areas(ni)
    BY <1>4, AreaTypes, Sizes DEF Common
<1>6. /\ ni.map \in [LBs -> Blocks \union {-1}]
      /\ \A x \in LBs : ni.map[x] \in {-1} \union LBs \union ((ni.top + 1)..(ni.sig - 1))
      /\ \A x, y \in LBs : x # y /\ ni.map[x] # -1 => ni.map[x] # ni.map[y]
      /\ \A x, y \in LBs : x < y /\ ni.map[y] # -1 => ni.map[x] # -1
      /\ \A x \in LBs : x < ni.count <=> ni.map[x] # -1
    BY <1>5 DEF Areas, MapOK
<1>7. Served = {k \in LBs : k < ni.count}
    BY <1>5 DEF Served, Instances
<1>8. new \in Blocks /\ new # -1 /\ new \in Int /\ new < MgmtStart
    BY <1>2, Sizes
<1>9. map[l] = new /\ (\A x \in LBs \ {l} : map[x] = ni.map[x]) /\ map \in [LBs -> Blocks \union {-1}]
    BY <1>4, <1>6, <1>8
<1> HIDE DEF map
<1>10. ASSUME NEW v \in mapped PROVE v \in Nat /\ ni.top < v /\ v < ni.sig
    <2>1. PICK k \in Served : v = map[k] /\ v \in ni.lo..(ni.sig - 1)
        OBVIOUS
    <2>2. v \in Int /\ ni.lo <= v /\ v < ni.sig
        BY <1>5, <2>1
    <2>3. k # l
        BY <1>5, <1>8, <1>9, <2>1, <2>2
    <2>4. v \in {-1} \union LBs \union ((ni.top + 1)..(ni.sig - 1))
        BY <1>6, <1>7, <1>9, <2>1, <2>3
    <2>5. QED
        BY <1>5, <2>2, <2>4, Sizes
<1> DEFINE H == {ni.sig} \union mapped
<1>11. Lowest(H) \in H /\ \A y \in H : Lowest(H) <= y
    <2>1. H \in SUBSET Nat /\ H # {}
        BY <1>5, <1>10
    <2> HIDE DEF H
    <2>2. QED
        BY <2>1, LowestIn
<1>12. top \in Nat /\ ni.top <= top /\ top < ni.sig /\ top \in Blocks /\ \A y \in mapped : top < y
    <2>1. Lowest(H) \in Nat /\ ni.top < Lowest(H) /\ Lowest(H) <= ni.sig /\ \A y \in mapped : Lowest(H) <= y
        <3>1. Lowest(H) \in Nat /\ ni.top < Lowest(H)
            <4> HIDE DEF mapped
            <4>1. QED
                BY <1>5, <1>10, <1>11
        <3>2. QED
            BY <1>11, <3>1
    <2>2. top = Lowest(H) - 1
        OBVIOUS
    <2> HIDE DEF H, mapped, top
    <2>3. top \in Nat /\ ni.top <= top /\ top < ni.sig
        BY <1>5, <2>1, <2>2
    <2>4. \A y \in mapped : top < y
        <3>1. \A y \in mapped : y \in Nat
            BY <1>10
        <3>2. QED
            BY <2>1, <2>2, <3>1
    <2>5. QED
        BY <1>5, <2>3, <2>4, Sizes
<1>13. \A x \in LBs : map[x] \in {-1} \union LBs \union ((top + 1)..(ni.sig - 1))
    <2> TAKE x \in LBs
    <2>1. CASE x = l
        BY <1>2, <1>9, <2>1
    <2>2. CASE x # l /\ map[x] \in (ni.top + 1)..(ni.sig - 1)
        <3> DEFINE v == map[x]
        <3>1. v \in Int /\ ni.top < v /\ v < ni.sig /\ v \in ni.lo..(ni.sig - 1) /\ v # -1
            BY <1>5, <2>2
        <3>2. x \in Served
            BY <1>6, <1>7, <1>9, <2>2, <3>1
        <3>3. v \in mapped
            BY <3>1, <3>2
        <3> HIDE DEF mapped, top
        <3>4. top < v
            BY <1>12, <3>3
        <3>5. QED
            BY <1>12, <1>5, <3>1, <3>4
    <2>3. QED
        <3> HIDE DEF mapped, top
        <3>1. QED
            BY <1>6, <1>9, <2>1, <2>2
<1> HIDE DEF mapped, top, H
<1>14. \A x, y \in LBs : x # y /\ map[x] # -1 => map[x] # map[y]
    <2> TAKE x, y \in LBs
    <2> HAVE x # y /\ map[x] # -1
    <2>1. ASSUME NEW k \in LBs, k # l PROVE ni.map[k] # new
        BY <1>2, <1>6, <1>7, <1>8, <2>1
    <2>2. QED
        BY <1>6, <1>9, <2>1
<1>15. \A x \in LBs : x < ni.count <=> map[x] # -1
    BY <1>4, <1>6, <1>8, <1>9
<1>16. \A x, y \in LBs : x < y /\ map[y] # -1 => map[x] # -1
    BY <1>4, <1>6, <1>8, <1>9
<1>17. MapOK(map, ni.sig, top)
    BY <1>9, <1>13, <1>14, <1>16 DEF MapOK
<1>18. bad \in SUBSET Blocks
    BY <1>5 DEF Instances
<1>19. /\ ni' \in Instances /\ ni'.map = map /\ ni'.top = top /\ ni'.bad = bad
       /\ ni'.sig = ni.sig /\ ni'.lo = ni.lo /\ ni'.wc = ni.wc /\ ni'.count = ni.count
       /\ ni'.main = ni.main /\ ni'.backup = ni.backup
    <2> HIDE DEF bad, o
    <2>1. QED
        BY <1>1, <1>5, <1>9, <1>12, <1>18 DEF Instances
<1>20. \A c \in Int : MgmtStart <= c => (c \in bad <=> c \in ni.bad)
    BY <1>5, <1>8
<1>21. bad \subseteq ni.bad
    OBVIOUS
<1> HIDE DEF bad
<1>22. Areas(ni')
    <2>1. ni'.lo <= ni'.top /\ ni'.top < ni'.sig /\ MgmtStart < ni'.lo
        BY <1>5, <1>12, <1>19
    <2>2. QED
        BY <1>15, <1>17, <1>19, <2>1 DEF Areas
<1>23. Common(flash, marked, ni')
    <2>1. ASSUME NEW x \in Tabs(flash, marked) PROVE Known(flash, marked, ni', x)
        <3>1. Known(flash, marked, ni, x)
            BY <1>4 DEF Common
        <3>2. QED
            BY <1>5, <1>19, <1>20, <1>21, <3>1 DEF Known
    <2>2. QED
        BY <1>4, <1>19, <1>22, <2>1 DEF Common
<1>24. AtRest(flash, marked, ni')
    <2>1. \A y : Gone(marked, ni, MgmtStart, y) => Gone(marked, ni', MgmtStart, y)
        BY <1>5, <1>19, <1>20 DEF Gone
    <2>2. QED
        BY <1>4, <1>19, <2>1 DEF AtRest, MainIn, BackupIn
<1>25. op' \in Ops /\ op'.act = act /\ op'.new = new
    <2> HIDE DEF o
    <2>1. QED
        BY <1>1, <1>4, <1>8 DEF Ops
<1>26. OpOK(ni', "update", "unmap", op')
    BY <1>2, <1>8, <1>25 DEF OpOK, DataBlocks
<1>27. QED
    BY <1>1, <1>23, <1>24, <1>26, RestNext DEF Resting, Updating

-----------------------------------------------------------------------------
(* Power cuts *)

(* The table that is still there when the block in hand is torn *)
LEMMA Survivor ==
    ASSUME NEW f, NEW K, NEW n, NEW w, NEW c, NEW b \in Int, Areas(n), WriteAt(f, K, n, w),
           w.site \in WriteSites, SiteCtx(w.site, c), w.from \in Int, w.lim \in Int, w.from <= b, b < w.lim,
           c = "load" \/ n.backup # 0
    PROVE  Tabs(f, K) \ {b} # {}
<1>1. n.main \in Nat /\ n.backup \in Nat /\ n.lo \in Nat /\ n.top \in Nat
    BY AreaTypes
<1>2. CASE w.site \in {"backup", "only_backup"}
    <2>1. BackupIn(n) /\ n.main \in Tabs(f, K) /\ w.from = n.backup
        BY <1>2 DEF WriteAt
    <2>2. n.main # b
        BY <1>1, <2>1 DEF BackupIn
    <2>3. QED
        BY <2>1, <2>2
<1>3. CASE w.site \in {"main", "only_main"}
    <2>1. n.backup # 0
        BY <1>3 DEF WriteAt, SiteCtx, Updating
    <2>2. w.lim = n.backup /\ n.backup \in Tabs(f, K)
        BY <1>3, <2>1 DEF WriteAt
    <2>3. QED
        BY <1>1, <2>2
<1>4. CASE w.site \in {"rebuild_main", "rebuild_backup"}
    BY <1>4 DEF WriteAt, SiteCtx, Updating
<1>5. CASE w.site = "next"
    <2>1. MainIn(K, n) /\ n.main \in Tabs(f, K) /\ n.lo <= w.from
        BY <1>5 DEF WriteAt
    <2>2. n.main # b
        BY <1>1, <2>1 DEF MainIn
    <2>3. QED
        BY <2>1, <2>2
<1>6. CASE w.site = "front"
    <2>1. n.main \in Tabs(f, K) /\ w.lim = n.main
        BY <1>6 DEF WriteAt
    <2>2. QED
        BY <1>1, <2>1
<1>7. CASE w.site = "tmp"
    <2>1. BackupIn(n) /\ n.backup \in Tabs(f, K) /\ n.lo <= w.from
        BY <1>7 DEF WriteAt
    <2>2. n.backup # b
        BY <1>1, <2>1 DEF BackupIn
    <2>3. QED
        BY <2>1, <2>2
<1>8. CASE w.site = "rescue_main"
    <2>1. w.lim \in Tabs(f, K)
        BY <1>8 DEF WriteAt
    <2>2. QED
        BY <1>1, <2>1
<1>9. QED
    BY <1>2, <1>3, <1>4, <1>5, <1>6, <1>7, <1>8 DEF WriteSites

(* The block the flash is working on while the driver runs *)
LEMMA Working ==
    ASSUME Running, NEW b \in InHand
    PROVE  /\ b \in Blocks /\ b # ni.sig
           /\ (ctx = "load" \/ ni.backup # 0) => Tabs(flash, marked) \ {b} # {}
<1>1. CASE pc = "write"
    <2>1. /\ Common(flash, marked, ni) /\ InWrite(flash, marked, ni, wr) /\ WriteAt(flash, marked, ni, wr)
          /\ wr.site \in WriteSites /\ SiteCtx(wr.site, ctx)
        BY <1>1, WritePhase
    <2>2. wr \in Writes /\ SpanOK(ni, wr) /\ Areas(ni)
        BY <2>1 DEF InWrite, Common
    <2>3. b \in Int /\ wr.ba <= b /\ b < wr.lim
        <3>1. CASE wr.erased
            <4>1. b = wr.ba
                BY <1>1, <3>1 DEF InHand
            <4>2. wr.ba \in Int /\ wr.ba < wr.lim
                BY <2>1, <3>1 DEF InWrite, SpanOK
            <4>3. QED
                BY <4>1, <4>2
        <3>2. CASE ~wr.erased
            <4>1. Usable # {} /\ b = Target
                BY <1>1, <3>2 DEF InHand
            <4>2. QED
                BY <2>1, <2>2, <4>1, InRange
        <3>3. QED
            BY <3>1, <3>2
    <2>4. wr.from \in Int /\ wr.lim \in Int /\ wr.from <= b /\ b \in Blocks /\ b # ni.sig
        BY <2>2, <2>3, AreaTypes, Sizes DEF SpanOK
    <2>5. QED
        BY <2>1, <2>2, <2>3, <2>4, Survivor
<1>2. CASE pc = "clean"
    <2>1. /\ Common(flash, marked, ni) /\ wr \in Writes /\ wr.erased = FALSE /\ SpanOK(ni, wr)
          /\ CleanAt(flash, marked, ni, wr)
          /\ wr.site \in {"rebuild_backup", "front", "next"} /\ wr.site \in WriteSites
        BY <1>2, CleanPhase
    <2>2. Usable # {} /\ b = Target
        BY <1>2, <2>1 DEF InHand
    <2>3. b \in Int /\ wr.ba <= b /\ b < wr.lim
        BY <2>1, <2>2, InRange
    <2>4. Areas(ni)
        BY <2>1 DEF Common
    <2>5. wr.from \in Int /\ wr.from <= b /\ b \in Blocks /\ b # ni.sig /\ ni.main \in Nat /\ ni.lo \in Nat
        BY <2>1, <2>3, <2>4, AreaTypes, Sizes DEF SpanOK
    <2>6. ni.main \in Tabs(flash, marked) /\ ni.main < wr.from
        <3>1. CASE wr.site = "next"
            <4>1. ni.main \in Tabs(flash, marked) /\ MainIn(marked, ni) /\ ni.lo <= wr.from
                BY <2>1, <3>1 DEF CleanAt
            <4>2. QED
                BY <2>5, <4>1 DEF MainIn
        <3>2. CASE wr.site # "next"
            BY <2>1, <3>2 DEF CleanAt
        <3>3. QED
            BY <3>1, <3>2
    <2>7. QED
        BY <2>3, <2>5, <2>6
<1>3. CASE pc \notin {"write", "clean"}
    <2>1. /\ Common(flash, marked, ni) /\ AtRest(flash, marked, ni) /\ OpOK(ni, pc, ctx, op)
          /\ (ctx = "load" => ni.main # 0)
        BY <1>3, RestPhase
    <2>2. b \in DataBlocks(ni)
        <3>1. CASE pc \in {"erase", "copy"}
            <4>1. b = op.new
                BY <3>1 DEF InHand
            <4>2. QED
                BY <2>1, <3>1, <4>1 DEF OpOK
        <3>2. CASE pc = "idle"
            <4>1. PICK l \in Served : b = ni.map[l]
                BY <3>2 DEF InHand
            <4>2. QED
                BY <2>1, <4>1, ServedIn DEF Served, Common
        <3>3. CASE pc \notin {"erase", "copy", "idle"}
            BY <1>3, <3>3 DEF InHand
        <3>4. QED
            BY <3>1, <3>2, <3>3
    <2>3. b \in Blocks /\ b \notin Tabs(flash, marked) /\ b # ni.sig
        BY <2>1, <2>2, RestFacts
    <2>4. (ctx = "load" \/ ni.backup # 0) => Tabs(flash, marked) # {}
        BY <2>1 DEF AtRest
    <2>5. QED
        BY <2>3, <2>4
<1>4. QED
    BY <1>1, <1>2, <1>3

(* A chip that was in use has a table after the cut *)
LEMMA InUse ==
    ASSUME Running, ctx = "load" \/ ni.backup # 0
    PROVE  Tabs(flash, marked) # {}
<1>1. CASE pc = "write"
    <2>1. WriteAt(flash, marked, ni, wr) /\ wr.site \in WriteSites /\ SiteCtx(wr.site, ctx)
        BY <1>1, WritePhase
    <2>2. QED
        BY <2>1 DEF WriteAt, WriteSites, SiteCtx, Updating
<1>2. CASE pc = "clean"
    BY <1>2, CleanPhase DEF CleanAt
<1>3. CASE pc \notin {"write", "clean"}
    BY <1>3, RestPhase DEF AtRest
<1>4. QED
    BY <1>1, <1>2, <1>3

LEMMA CutOff ==
    ASSUME Cut, seen \in [made : BOOLEAN, astray : BOOLEAN], PoweredOff \/ Creating \/ Running
    PROVE  PoweredOff'
<1>1. /\ pc' = "off" /\ ni' = NoInstance /\ op' = NoOp /\ marked' = marked /\ seen' = seen
      /\ pc # "off" /\ ~OneTable
    BY DEF Cut
<1>2. PICK torn \in {{}} \union {{b} : b \in InHand \ marked} :
        flash' = [b \in Blocks |-> IF b \in torn THEN Torn ELSE flash[b]]
    BY DEF Cut
<1>3. flash \in FlashType /\ marked \in SUBSET Blocks
    BY DEF PoweredOff, Off, Creating, Making, Running, Phase, Common
<1>4. torn = {} => flash' = flash
    BY <1>2, <1>3 DEF FlashType
<1>5. flash' \in FlashType /\ \A x \in Blocks : flash'[x] \in {flash[x], Torn}
    <2>1. \A x \in Blocks : (IF x \in torn THEN Torn ELSE flash[x]) \in DataContents \union {Sig} \union TabSet
        BY <1>3, Kinds DEF FlashType
    <2>2. flash' \in FlashType
        BY <1>2, <2>1 DEF FlashType
    <2>3. QED
        BY <1>2, <2>2
<1>6. seen.made /\ ni.up => ctx = "load" \/ ni.backup # 0
    BY <1>1 DEF OneTable
<1>7. CASE PoweredOff
    <2>1. pc = "dead"
        BY <1>1, <1>7 DEF PoweredOff, Off
    <2>2. InHand = {}
        BY <2>1 DEF InHand
    <2>3. flash' = flash
        BY <1>2, <1>4, <2>2
    <2>4. Off(flash, marked, NoInstance, "off", seen.made)
        BY <1>7 DEF PoweredOff, Off
    <2>5. QED
        BY <1>1, <2>3, <2>4, OffNext
<1>8. CASE Creating
    <2>1. Making(flash, marked, ni, pc, wr) /\ Fresh(ni) /\ Tabs(flash, marked) = {}
        BY <1>8 DEF Creating, Making
    <2>2. ni.up /\ ni.backup = 0
        BY <2>1 DEF Fresh, Instances
    <2>3. ~seen.made
        BY <1>6, <1>8, <2>2 DEF Creating
    <2>4. Tabs(flash', marked) = {}
        <3>1. Torn.kind # "table"
            BY Kinds
        <3>2. QED
            BY <1>5, <2>1, <3>1 DEF Tabs
    <2>5. CASE NoSig(flash)
        <3>1. NoSig(flash')
            BY <1>5, <2>5, Kinds DEF NoSig
        <3>2. Off(flash', marked, NoInstance, "off", seen.made)
            BY <1>3, <1>5, <2>3, <2>4, <3>1 DEF Off
        <3>3. QED
            BY <1>1, <3>2, OffNext
    <2>6. CASE pc = "create" /\ FlashOK(flash, marked, ni.sig)
        <3>1. InHand = {}
            BY <2>6 DEF InHand
        <3>2. flash' = flash
            BY <1>2, <1>4, <3>1
        <3>3. ni.sig \in Blocks
            BY <2>1 DEF Fresh, Instances
        <3>4. Off(flash, marked, NoInstance, "off", seen.made)
            BY <1>3, <2>3, <2>6, <3>3 DEF Off
        <3>5. QED
            BY <1>1, <3>2, <3>4, OffNext
    <2>7. QED
        BY <2>1, <2>5, <2>6 DEF Making
<1>9. CASE Running
    <2>1. Common(flash, marked, ni)
        BY <1>9 DEF Running, Phase
    <2>2. ni \in Instances /\ ni.sig \in Blocks /\ ni.up /\ FlashOK(flash, marked, ni.sig)
        BY <2>1 DEF Common, Areas, Instances
    <2>3. CASE torn = {}
        <3>1. seen.made => Tabs(flash, marked) # {}
            BY <1>6, <1>9, <2>2, InUse
        <3>2. Off(flash, marked, NoInstance, "off", seen.made)
            BY <1>3, <2>2, <3>1 DEF Off
        <3>3. QED
            BY <1>1, <1>4, <2>3, <3>2, OffNext
    <2>4. CASE torn # {}
        <3>1. PICK b \in InHand \ marked : torn = {b}
            BY <1>2, <2>4
        <3>2. b \in Blocks /\ b # ni.sig /\ ((ctx = "load" \/ ni.backup # 0) => Tabs(flash, marked) \ {b} # {})
            BY <1>9, <3>1, Working
        <3>3. flash' = [flash EXCEPT ![b] = Torn]
            BY <1>2, <1>3, <3>1, <3>2 DEF FlashType
        <3>4. Lost(flash, marked, flash', marked, b)
            BY <3>2, <3>3, Kinds DEF Lost
        <3>5. Noting(ni, ni, marked)
            BY <2>2 DEF Noting
        <3>6. Common(flash', marked, ni)
            BY <2>1, <3>2, <3>4, <3>5, CommonLost
        <3>7. Tabs(flash', marked) = Tabs(flash, marked) \ {b}
            BY <1>3, <3>4, LostBlock
        <3>8. seen.made => Tabs(flash', marked) # {}
            BY <1>6, <2>2, <3>2, <3>7
        <3>9. FlashOK(flash', marked, ni.sig)
            BY <3>6 DEF Common
        <3>10. Off(flash', marked, NoInstance, "off", seen.made)
            BY <1>3, <1>5, <2>2, <3>8, <3>9 DEF Off
        <3>11. QED
            BY <1>1, <3>10, OffNext
    <2>5. QED
        BY <2>3, <2>4
<1>10. QED
    BY <1>7, <1>8, <1>9

-----------------------------------------------------------------------------
(* Creating the management area: the signature, then the first table *)

LEMMA FreshNoting ==
    ASSUME NEW n, NEW n2, NEW K2, Fresh(n), Noting(n, n2, K2)
    PROVE  Fresh(n2) /\ n2.sig = n.sig
BY DEF Fresh, Noting

LEMMA SigPhase ==
    ASSUME Creating, pc = "write"
    PROVE  /\ Fresh(ni) /\ Tabs(flash, marked) = {} /\ flash \in FlashType /\ marked \in SUBSET Blocks
           /\ wr.site = "sig" /\ NoSig(flash) /\ ni.sig = 0 /\ wr \in Writes /\ wr.lim = MgmtStart
           /\ wr.ba \in MgmtStart..(NBlocks - 1)
           /\ (wr.erased => MgmtStart < wr.ba /\ wr.ba \notin marked)
           /\ ctx = "create" /\ op = NoOp /\ Down /\ ni \in Instances
BY DEF Creating, Making, Down, Fresh

LEMMA SigRange ==
    ASSUME Creating, pc = "write"
    PROVE  /\ Usable # {} => /\ Target \in Blocks /\ Target \in Int /\ MgmtStart < Target
                             /\ Target \notin marked
           /\ \A b : Noting(ni, Noted(Past(b)), marked)
           /\ Noting(ni, Noted(Span), marked)
           /\ \A b, w2 : w2 = After(b) <=> Goes(wr, b - 1, FALSE, w2)
<1>1. /\ marked \in SUBSET Blocks /\ wr.lim = MgmtStart /\ wr.ba \in MgmtStart..(NBlocks - 1) /\ Down
      /\ ni \in Instances
    BY SigPhase
<1>2. Span = (MgmtStart + 1)..wr.ba /\ Usable = (Span \ ni.bad) \ marked
    BY <1>1 DEF Span, Usable, Good
<1>3. \A x \in Span : x \in Int /\ MgmtStart < x /\ x < NBlocks /\ x \in Blocks
    <2>1. ASSUME NEW x \in Span PROVE x \in Int /\ MgmtStart < x /\ x < NBlocks
        <3>1. x \in (MgmtStart + 1)..wr.ba
            BY <1>2
        <3>2. QED
            BY <1>1, <3>1, Sizes
    <2>2. QED
        BY <2>1, Sizes
<1>4. ASSUME Usable # {}
      PROVE  Target \in Blocks /\ Target \in Int /\ MgmtStart < Target /\ Target \notin marked
    <2>1. Usable \in SUBSET Nat /\ NBlocks \in Nat /\ \A x \in Usable : x <= NBlocks
        BY <1>2, <1>3, Sizes
    <2>2. Highest(Usable) \in Usable
        BY <1>4, <2>1, HighestIn
    <2>3. Target = Highest(Usable)
        BY <1>1 DEF Target
    <2>4. QED
        BY <1>2, <1>3, <2>2, <2>3
<1>5. ASSUME NEW S \in SUBSET Blocks PROVE Noting(ni, Noted(S), marked)
    <2> DEFINE T == S \intersect marked
    <2>1. T \in SUBSET Blocks /\ T \subseteq marked /\ Noted(S) = set_bad(ni, T)
        BY DEF Noted
    <2> HIDE DEF T
    <2>2. QED
        BY <1>1, <2>1, SetBad
<1>6. Span \in SUBSET Blocks /\ \A b : Past(b) \in SUBSET Blocks
    BY <1>3 DEF Past
<1>7. \A b, w2 : w2 = After(b) <=> Goes(wr, b - 1, FALSE, w2)
    BY <1>1 DEF After, Goes
<1>8. QED
    BY <1>4, <1>5, <1>6, <1>7

(* A block was erased for the signature, or lost *)
LEMMA SigLost ==
    ASSUME NEW f \in FlashType, NEW K \in SUBSET Blocks, NEW n, NEW w \in Writes, NEW f2, NEW K2, NEW n2, NEW w2,
           NEW b, NEW x \in Int, NEW e \in BOOLEAN,
           Fresh(n), n.sig = 0, Tabs(f, K) = {}, NoSig(f), w.site = "sig", w.lim = MgmtStart,
           Lost(f, K, f2, K2, b), Noting(n, n2, K2), Goes(w, x, e, w2), MgmtStart <= x, x < NBlocks,
           e => MgmtStart < x /\ x \notin K2
    PROVE  Making(f2, K2, n2, "write", w2)
<1>1. Fresh(n2) /\ n2.sig = 0
    BY FreshNoting
<1>2. /\ f2 \in FlashType /\ K2 \in SUBSET Blocks /\ Tabs(f2, K2) = {}
      /\ (\A y \in Blocks \ {b} : f2[y] = f[y]) /\ (f2[b] # Sig \/ f2[b] = f[b])
    BY LostBlock
<1>3. NoSig(f2)
    BY <1>2 DEF NoSig
<1>4. w2 \in Writes /\ w2.site = "sig" /\ w2.lim = MgmtStart /\ w2.ba = x /\ w2.erased = e
    BY GoesTo
<1>5. x \in MgmtStart..(NBlocks - 1)
    BY Sizes
<1>6. QED
    BY <1>1, <1>2, <1>3, <1>4, <1>5 DEF Making

LEMMA SigErase ==
    ASSUME Creating, WriteErase
    PROVE  Creating'
<1>1. pc = "write" /\ Usable # {} /\ ctx' = ctx /\ op' = op
    BY DEF WriteErase
<1>2. /\ Fresh(ni) /\ Tabs(flash, marked) = {} /\ flash \in FlashType /\ marked \in SUBSET Blocks
      /\ wr.site = "sig" /\ NoSig(flash) /\ ni.sig = 0 /\ wr \in Writes /\ wr.lim = MgmtStart
      /\ ctx = "create" /\ op = NoOp
    BY <1>1, SigPhase
<1> DEFINE b == Target
           n == Noted(Past(b))
<1>3. b \in Blocks /\ b \in Int /\ MgmtStart < b /\ b \notin marked /\ Noting(ni, n, marked)
    BY <1>1, SigRange
<1>4. b < NBlocks /\ MgmtStart <= b /\ b - 1 \in Int /\ MgmtStart <= b - 1 /\ b - 1 < NBlocks
    BY <1>3, Sizes
<1>5. \/ /\ flash' = [flash EXCEPT ![b] = Erased] /\ ni' = n
         /\ wr' = [wr EXCEPT !.ba = b, !.erased = TRUE]
         /\ marked' = marked /\ pc' = pc
      \/ SkipBad(n, b, EraseFailed(b))
    BY DEF WriteErase
<1> HIDE DEF b, n
<1>6. CASE /\ flash' = [flash EXCEPT ![b] = Erased] /\ ni' = n
           /\ wr' = [wr EXCEPT !.ba = b, !.erased = TRUE]
           /\ marked' = marked /\ pc' = pc
    <2>1. Lost(flash, marked, flash', marked, b) /\ Goes(wr, b, TRUE, wr')
        BY <1>3, <1>6, Kinds DEF Lost, Goes
    <2>2. Making(flash', marked, n, "write", wr')
        BY <1>2, <1>3, <1>4, <2>1, SigLost
    <2>3. QED
        BY <1>1, <1>2, <1>6, <2>2, CreatingNext
<1>7. CASE SkipBad(n, b, EraseFailed(b))
    <2>1. EraseFailed(b) \subseteq DataContents \union {flash[b]}
        BY Kinds DEF EraseFailed
    <2>2. Lost(flash, marked, flash', marked', b) /\ Noting(ni, ni', marked') /\ pc' = pc /\ wr' = After(b)
        BY <1>2, <1>3, <1>7, <2>1, Skipped
    <2> DEFINE x == b - 1
    <2>3. x \in Int /\ MgmtStart <= x /\ x < NBlocks /\ Goes(wr, x, FALSE, wr')
        BY <1>1, <1>4, <2>2, SigRange
    <2> HIDE DEF x
    <2>4. Making(flash', marked', ni', "write", wr')
        BY <1>2, <2>2, <2>3, SigLost
    <2>5. QED
        BY <1>1, <1>2, <2>2, <2>4, CreatingNext
<1>8. QED
    BY <1>5, <1>6, <1>7

LEMMA SigProg ==
    ASSUME Creating, WriteProg
    PROVE  Creating'
<1>1. pc = "write" /\ wr.erased /\ ctx' = ctx /\ op' = op
    BY DEF WriteProg
<1>2. /\ Fresh(ni) /\ Tabs(flash, marked) = {} /\ flash \in FlashType /\ marked \in SUBSET Blocks
      /\ wr.site = "sig" /\ NoSig(flash) /\ ni.sig = 0 /\ wr \in Writes /\ wr.lim = MgmtStart
      /\ wr.ba \in MgmtStart..(NBlocks - 1) /\ MgmtStart < wr.ba /\ wr.ba \notin marked
      /\ ctx = "create" /\ op = NoOp /\ Down /\ ni \in Instances
    BY <1>1, SigPhase
<1> DEFINE b == wr.ba
<1>3. b \in Int /\ b \in Blocks /\ b < NBlocks /\ MgmtStart < b /\ b - 1 \in Int /\ MgmtStart <= b - 1
      /\ b - 1 < NBlocks /\ b \in (MgmtStart + 1)..(NBlocks - 1)
    BY <1>2, Sizes
<1>4. \/ /\ flash' = [flash EXCEPT ![b] = Sig] /\ Goto(OnWritten(ni, wr, b)) /\ marked' = marked
      \/ SkipBad(ni, b, {Torn})
    BY <1>2 DEF WriteProg
<1>5. CASE flash' = [flash EXCEPT ![b] = Sig] /\ Goto(OnWritten(ni, wr, b)) /\ marked' = marked
    <2>1. ni' = [ni EXCEPT !.sig = b] /\ pc' = "create"
        BY <1>2, <1>5 DEF OnWritten, Goto
    <2> HIDE DEF b
    <2>2. Fresh(ni') /\ ni'.sig = b
        <3>1. /\ ni' \in Instances /\ ni'.sig = b /\ ni'.main = ni.main /\ ni'.backup = ni.backup
              /\ ni'.map = ni.map /\ ni'.count = ni.count
            BY <1>2, <1>3, <2>1 DEF Instances
        <3>2. QED
            BY <1>2, <3>1 DEF Fresh
    <2>3. flash' \in FlashType /\ flash'[b] = Sig /\ \A x \in Blocks \ {b} : flash'[x] = flash[x]
        BY <1>2, <1>3, <1>5 DEF FlashType
    <2>4. Tabs(flash', marked) = {}
        <3>1. Sig.kind # "table"
            BY Kinds
        <3>2. QED
            BY <1>2, <2>3, <3>1 DEF Tabs
    <2>5. FlashOK(flash', marked, b)
        <3>1. SigOK(flash', marked, b)
            BY <1>2, <1>3, <2>3 DEF SigOK, NoSig, b
        <3>2. QED
            BY <2>4, <3>1 DEF FlashOK
    <2>6. Making(flash', marked, ni', "create", wr')
        BY <1>2, <2>2, <2>3, <2>4, <2>5 DEF Making
    <2>7. QED
        BY <1>1, <1>2, <1>5, <2>1, <2>6, CreatingNext
<1>6. CASE SkipBad(ni, b, {Torn})
    <2>1. {Torn} \subseteq DataContents \union {flash[b]} /\ Noting(ni, ni, marked)
        BY <1>2, Kinds DEF Noting
    <2> HIDE DEF b
    <2>2. Lost(flash, marked, flash', marked', b) /\ Noting(ni, ni', marked') /\ pc' = pc /\ wr' = After(b)
        BY <1>2, <1>3, <1>6, <2>1, Skipped
    <2> DEFINE x == b - 1
    <2>3. x \in Int /\ MgmtStart <= x /\ x < NBlocks /\ Goes(wr, x, FALSE, wr')
        BY <1>1, <1>3, <2>2, SigRange
    <2> HIDE DEF x
    <2>4. Making(flash', marked', ni', "write", wr')
        BY <1>2, <2>2, <2>3, SigLost
    <2>5. QED
        BY <1>1, <1>2, <2>2, <2>4, CreatingNext
<1>7. QED
    BY <1>4, <1>5, <1>6

LEMMA SigNone ==
    ASSUME Creating, WriteNone
    PROVE  Creating'
<1> DEFINE n == Noted(Span)
<1>1. /\ pc = "write" /\ ctx' = ctx /\ op' = op /\ flash' = flash /\ marked' = marked
      /\ Goto(OnExhausted(n, wr))
    BY DEF WriteNone
<1>2. /\ Fresh(ni) /\ Tabs(flash, marked) = {} /\ flash \in FlashType /\ marked \in SUBSET Blocks
      /\ wr.site = "sig" /\ NoSig(flash) /\ ni.sig = 0 /\ ctx = "create" /\ op = NoOp
    BY <1>1, SigPhase
<1>3. Noting(ni, n, marked)
    BY <1>1, SigRange
<1> HIDE DEF n
<1>4. ni' = n /\ pc' = "failed"
    BY <1>1, <1>2 DEF OnExhausted, Returning, Goto
<1>5. Fresh(n) /\ n.sig = 0
    BY <1>2, <1>3, FreshNoting
<1>6. Making(flash, marked, n, "failed", wr')
    BY <1>2, <1>5 DEF Making
<1>7. QED
    BY <1>1, <1>2, <1>4, <1>6, CreatingNext

LEMMA SigFailed ==
    ASSUME Creating, UpdateDone
    PROVE  Creating'
<1>1. pc = "failed" /\ ctx = "create" /\ op = NoOp
    BY DEF UpdateDone, Creating, Making
<1>2. ni' = ni /\ pc' = "dead" /\ ctx' = "none" /\ op' = NoOp /\ flash' = flash /\ marked' = marked
    BY <1>1 DEF UpdateDone
<1>3. Making(flash, marked, ni, "dead", wr')
    BY <1>1 DEF Creating, Making
<1>4. QED
    BY <1>2, <1>3, CreatingNext


(* nmbm_create_info_table: the first table goes under the highest spare block *)
LEMMA CreateRuns ==
    ASSUME Creating, Create, ~seen.made
    PROVE  PoweredOff' \/ Running'
<1> DEFINE spares == Good((MgmtStart + 1)..(ni.sig - 1))
           t == Highest(spares)
           n0 == [ni EXCEPT !.top = t]
           n == Generated(n0)
           m == [n EXCEPT !.main = 0, !.backup = 0, !.lo = n.top]
<1>1. /\ pc = "create" /\ flash' = flash /\ marked' = marked /\ op' = op /\ seen' = seen
    BY DEF Create, obs
<1>2. /\ Fresh(ni) /\ Tabs(flash, marked) = {} /\ flash \in FlashType /\ marked \in SUBSET Blocks
      /\ FlashOK(flash, marked, ni.sig) /\ ctx = "create" /\ op = NoOp
    BY <1>1 DEF Creating, Making
<1>3. /\ ni \in Instances /\ ni.main = 0 /\ ni.backup = 0 /\ ni.sig \in Blocks /\ ni.sig \in Nat
      /\ MgmtStart < ni.sig /\ ni.sig < NBlocks
    <2>1. ni \in Instances /\ ni.main = 0 /\ ni.backup = 0 /\ ni.sig \in (MgmtStart + 1)..(NBlocks - 1)
        BY <1>2 DEF Fresh, FlashOK, SigOK
    <2>2. QED
        BY <2>1, Sizes
<1>4. CASE spares = {}
    <2>1. pc' = "dead" /\ ni' = NoInstance
        BY <1>4 DEF Create, Dead
    <2>2. Off(flash, marked, NoInstance, "dead", seen.made)
        BY <1>2, <1>3 DEF Off
    <2>3. QED
        BY <1>1, <1>2, <2>1, <2>2, OffNext
<1>5. CASE spares # {}
    <2>1. Goto(rebuild_info_table(n)) /\ cache' = Table(n) /\ ctx' = ctx
        BY <1>5 DEF Create
    <2>2. t \in Nat /\ MgmtStart < t /\ t < ni.sig
        <3>1. \A x \in spares : x \in (MgmtStart + 1)..(ni.sig - 1)
            BY DEF Good
        <3>2. \A x \in spares : x \in Nat /\ MgmtStart < x /\ x < ni.sig /\ x <= NBlocks
            BY <1>3, <3>1, Sizes
        <3> HIDE DEF spares
        <3>3. spares \in SUBSET Nat /\ NBlocks \in Nat /\ \A x \in spares : x <= NBlocks
            BY <3>2, Sizes
        <3>4. Highest(spares) \in spares
            BY <1>5, <3>3, HighestIn
        <3>5. QED
            BY <3>2, <3>4
    <2>3. t \in Blocks
        BY <1>3, <2>2, Sizes
    <2> HIDE DEF t, spares
    <2>4. /\ n0 \in Instances /\ n0.top = t /\ n0.sig = ni.sig /\ n0.map = ni.map /\ n0.count = ni.count
          /\ n0.bad = ni.bad
        BY <1>3, <2>3 DEF Instances
    <2> HIDE DEF n0
    <2>5. /\ n \in Instances /\ n.top = t /\ n.sig = ni.sig /\ n.map = ni.map /\ n.count = ni.count
          /\ n.bad = ni.bad
        <3>1. n0.wc \in Nat /\ n0.wc + 1 \in Nat
            BY <2>4 DEF Instances
        <3>2. n = n0 \/ n = [n0 EXCEPT !.wc = n0.wc + 1]
            BY DEF Generated
        <3>3. QED
            BY <2>4, <3>1, <3>2 DEF Instances
    <2> HIDE DEF n
    <2>6. /\ m \in Instances /\ m.top = t /\ m.sig = ni.sig /\ m.map = ni.map /\ m.count = ni.count
          /\ m.bad = ni.bad /\ m.lo = t /\ m.wc = n.wc
        BY <2>3, <2>5, Sizes DEF Instances
    <2>7. m = [n EXCEPT !.main = 0, !.backup = 0, !.lo = n.top]
        OBVIOUS
    <2> HIDE DEF m
    <2>8. MapOK(m.map, m.sig, m.top)
        <3>1. MapOK(ni.map, MgmtStart, MgmtStart)
            BY <1>2 DEF Fresh
        <3>2. \A l \in LBs : ni.map[l] \in {-1} \union LBs
            BY <3>1, Sizes DEF MapOK
        <3>3. QED
            BY <2>6, <3>1, <3>2 DEF MapOK
    <2>9. Areas(m)
        BY <1>2, <2>2, <2>6, <2>8 DEF Areas, Fresh
    <2>10. Common(flash, marked, m)
        BY <1>2, <2>6, <2>9 DEF Common
    <2>11. CacheOK(flash, marked, m, Table(n))
        <3>1. Table(n) \in TabSet /\ Table(n).map = n.map /\ Table(n).wc = n.wc /\ Table(n).bad = n.bad
            BY <2>5 DEF Table, TabSet, Instances
        <3>2. QED
            BY <1>2, <2>5, <2>6, <3>1 DEF CacheOK
    <2>12. "create" \in Updating \union {"create"}
        OBVIOUS
    <2>13. Lands(flash, marked, n, rebuild_info_table(n), "create", Table(n))
        BY <1>2, <2>5, <2>7, <2>10, <2>11, <2>12, LandsRebuild
    <2>14. OpOK(n, "write", "create", NoOp)
        BY DEF OpOK, Ops, NoOp
    <2>15. QED
        BY <1>1, <1>2, <2>1, <2>13, <2>14, LandsRunning DEF Goto
<1>6. QED
    BY <1>4, <1>5


-----------------------------------------------------------------------------
(* Attaching *)

(* nmbm_build_mapping_table *)
LEMMA BuildMap ==
    ASSUME NEW bad \in SUBSET Blocks
    PROVE  /\ Cardinality(LBs \ bad) \in 0..MgmtStart
           /\ MapOK(build_mapping_table(bad), MgmtStart, MgmtStart)
           /\ \A l \in LBs : l < Cardinality(LBs \ bad) <=> build_mapping_table(bad)[l] # -1
<1> DEFINE S == LBs \ bad
           c == Cardinality(S)
           m == build_mapping_table(bad)
<1>1. IsFiniteSet(LBs) /\ Cardinality(LBs) = MgmtStart
    <2> DEFINE h == MgmtStart - 1
    <2>1. 0 \in Int /\ h \in Int /\ ~(0 > h) /\ h - 0 + 1 = MgmtStart
        BY Sizes
    <2>2. LBs = 0..h
        BY DEF LBs
    <2> HIDE DEF h
    <2>3. IsFiniteSet(0..h) /\ Cardinality(0..h) = IF 0 > h THEN 0 ELSE h - 0 + 1
        BY <2>1, FS_Interval
    <2>4. QED
        BY <2>1, <2>2, <2>3
<1>2. IsFiniteSet(S) /\ c \in Nat /\ c <= MgmtStart
    <2>1. S \in SUBSET LBs
        OBVIOUS
    <2> HIDE DEF S
    <2>2. QED
        BY <1>1, <2>1, FS_Subset, FS_CardinalityType
<1>3. S \in SUBSET Nat
    BY Sizes
<1>4. m = [l \in LBs |-> IF l < c THEN Nth(S, l) ELSE -1]
    BY DEF build_mapping_table
<1>5. \A l \in LBs : l \in Nat /\ -1 # l
    BY Sizes
<1> HIDE DEF m, c
<1>6. ASSUME NEW l \in LBs, l < c
      PROVE  m[l] \in LBs /\ Cardinality(Below(S, m[l])) = l
    <2>1. Nth(S, l) \in S /\ Cardinality(Below(S, Nth(S, l))) = l
        <3> HIDE DEF S
        <3>1. QED
            BY <1>2, <1>3, <1>5, <1>6, NthIn DEF c
    <2>2. m[l] = Nth(S, l)
        BY <1>4, <1>6
    <2>3. QED
        BY <2>1, <2>2
<1>7. ASSUME NEW l \in LBs, ~(l < c) PROVE m[l] = -1
    BY <1>4, <1>7
<1>8. \A l \in LBs : l < c <=> m[l] # -1
    BY <1>5, <1>6, <1>7
<1>9. MapOK(m, MgmtStart, MgmtStart)
    <2>1. \A l \in LBs : m[l] \in {-1} \union LBs
        BY <1>6, <1>7
    <2>2. m \in [LBs -> Blocks \union {-1}]
        BY <1>4, <2>1, Sizes
    <2>3. ASSUME NEW k \in LBs, NEW l \in LBs, k # l, m[k] # -1 PROVE m[k] # m[l]
        <3>1. k < c
            BY <1>8, <2>3
        <3>2. CASE l < c
            BY <1>6, <2>3, <3>1, <3>2
        <3>3. CASE ~(l < c)
            BY <1>7, <2>3, <3>3
        <3>4. QED
            BY <3>2, <3>3
    <2>4. ASSUME NEW k \in LBs, NEW l \in LBs, k < l, m[l] # -1 PROVE m[k] # -1
        <3>1. l < c
            BY <1>8, <2>4
        <3>2. k < c
            BY <1>2, <1>5, <2>4, <3>1
        <3>3. QED
            BY <1>8, <3>2
    <2>5. QED
        BY <2>1, <2>2, <2>3, <2>4 DEF MapOK
<1>10. c \in 0..MgmtStart
    BY <1>2, Sizes
<1>11. QED
    BY <1>8, <1>9, <1>10 DEF m, c

LEMMA NewFresh ==
    ASSUME NEW s \in Blocks, NEW bad \in SUBSET Blocks
    PROVE  Fresh(New(s, bad)) /\ New(s, bad).sig = s
<1> DEFINE n == New(s, bad)
           c == Cardinality(LBs \ bad)
           m == build_mapping_table(bad)
           ch == (bad # {})
<1>1. /\ c \in 0..MgmtStart /\ MapOK(m, MgmtStart, MgmtStart)
      /\ \A l \in LBs : l < c <=> m[l] # -1
    BY BuildMap
<1>2. n = [up |-> TRUE, sig |-> s, map |-> m, bad |-> bad,
           main |-> 0, backup |-> 0, lo |-> 0, top |-> 0, changed |-> ch,
           prot |-> FALSE, count |-> c, wc |-> 0]
    BY DEF New
<1>3. ch \in BOOLEAN /\ 0 \in Blocks /\ m \in [LBs -> Blocks \union {-1}]
    BY <1>1, Sizes DEF MapOK
<1> HIDE DEF n, c, m, ch
<1>4. n \in Instances /\ n.sig = s /\ n.main = 0 /\ n.backup = 0 /\ n.map = m /\ n.count = c
    BY <1>1, <1>2, <1>3 DEF Instances
<1>5. Fresh(n)
    BY <1>1, <1>4 DEF Fresh
<1>6. QED
    BY <1>4, <1>5 DEF n

(* The blocks above the tables up to the first mapped one *)
LEMMA TopIn ==
    ASSUME NEW t, NEW s \in Blocks, NEW b \in Nat, NEW x \in Nat, MgmtStart <= b, b <= x, x < s,
           MapOK(t.map, s, x)
    PROVE  /\ top_ba(t, b, s) \in Blocks /\ x <= top_ba(t, b, s) /\ top_ba(t, b, s) < s
           /\ MapOK(t.map, s, top_ba(t, b, s))
<1> DEFINE S == {t.map[l] : l \in {k \in LBs : t.map[k] > b}} \union {s}
           y == Lowest(S)
<1>1. s \in Nat /\ s < NBlocks /\ MgmtStart \in Nat
    BY Sizes
<1>2. \A l \in LBs : t.map[l] \in {-1} \union LBs \union ((x + 1)..(s - 1))
    BY DEF MapOK
<1>3. \A l \in LBs : t.map[l] > b => t.map[l] \in (x + 1)..(s - 1)
    BY <1>1, <1>2, Sizes
<1>4. \A v \in S : v \in Nat /\ x < v
    BY <1>1, <1>3
<1>5. S \in SUBSET Nat /\ S # {} /\ s \in S
    BY <1>4
<1>6. \A l \in LBs : t.map[l] > b => t.map[l] \in S
    OBVIOUS
<1> HIDE DEF S
<1>7. y \in S /\ \A v \in S : y <= v
    BY <1>5, LowestIn
<1>8. y \in Nat /\ x < y /\ y <= s
    BY <1>4, <1>5, <1>7
<1>9. top_ba(t, b, s) = y - 1
    BY DEF top_ba, S
<1> DEFINE z == y - 1
<1>10. z \in Nat /\ x <= z /\ z < s /\ z + 1 = y /\ z \in Blocks
    BY <1>1, <1>8, Sizes
<1>11. \A l \in LBs : t.map[l] \in {-1} \union LBs \union ((z + 1)..(s - 1))
    <2> TAKE l \in LBs
    <2>1. CASE t.map[l] \in (x + 1)..(s - 1)
        <3>1. t.map[l] \in Int /\ t.map[l] > b
            BY <1>1, <2>1
        <3>2. y <= t.map[l]
            BY <1>6, <1>7, <3>1
        <3>3. QED
            BY <1>1, <1>10, <2>1, <3>2
    <2>2. QED
        BY <1>2, <2>1
<1> HIDE DEF z, y
<1>12. MapOK(t.map, s, z)
    BY <1>11 DEF MapOK
<1>13. QED
    BY <1>9, <1>10, <1>12 DEF z

(* The logical blocks that a table maps *)
Counted(m) == Highest({0} \union {l + 1 : l \in {k \in LBs : m[k] >= 0}})

LEMMA CountIn ==
    ASSUME NEW m, NEW s, NEW x, MapOK(m, s, x)
    PROVE  Counted(m) \in 0..MgmtStart /\ \A l \in LBs : l < Counted(m) <=> m[l] # -1
<1> DEFINE S == {0} \union {l + 1 : l \in {k \in LBs : m[k] >= 0}}
           c == Highest(S)
<1>1. \A v \in S : v \in Nat /\ v <= MgmtStart
    BY Sizes
<1>2. S \in SUBSET Nat /\ S # {} /\ MgmtStart \in Nat
    BY <1>1, Sizes
<1>3. \A v \in S : v = 0 \/ \E k \in LBs : m[k] >= 0 /\ v = k + 1
    OBVIOUS
<1>4. \A l \in LBs : m[l] >= 0 => l + 1 \in S
    OBVIOUS
<1> HIDE DEF S
<1>5. c \in S /\ \A v \in S : c >= v
    BY <1>1, <1>2, HighestIn
<1>6. \A l \in LBs : m[l] \in Int /\ (m[l] >= 0 <=> m[l] # -1)
    <2> TAKE l \in LBs
    <2>1. m[l] \in Blocks \union {-1}
        BY DEF MapOK
    <2>2. QED
        BY <2>1, Sizes
<1>7. ASSUME NEW l \in LBs PROVE l < c <=> m[l] # -1
    <2>1. l \in Nat /\ c \in Nat
        BY <1>1, <1>5, Sizes
    <2>2. ASSUME l < c PROVE m[l] # -1
        <3>1. PICK k \in LBs : m[k] >= 0 /\ c = k + 1
            BY <1>3, <1>5, <2>1, <2>2
        <3>2. l = k \/ l < k
            BY <2>1, <2>2, <3>1, Sizes
        <3>3. m[k] # -1
            BY <1>6, <3>1
        <3>4. QED
            BY <3>2, <3>3 DEF MapOK
    <2>3. ASSUME m[l] # -1 PROVE l < c
        <3>1. l + 1 \in S
            BY <1>4, <1>6, <2>3
        <3>2. QED
            BY <1>5, <2>1, <3>1
    <2>4. QED
        BY <2>2, <2>3
<1>8. c \in 0..MgmtStart
    BY <1>1, <1>5, Sizes
<1>9. QED
    BY <1>7, <1>8 DEF Counted, S


(* What nmbm_find_signature and the search for info tables find *)
LEMMA Found ==
    ASSUME flash \in FlashType, marked \in SUBSET Blocks, NEW s \in Blocks, FlashOK(flash, marked, s)
    PROVE  /\ Signatures = {s} /\ Highest(Signatures) = s
           /\ Tables(s) = Tabs(flash, marked)
<1>1. /\ s \in (MgmtStart + 1)..(NBlocks - 1) /\ s \notin marked /\ flash[s] = Sig
      /\ \A b \in Blocks : flash[b] = Sig => b = s
    BY DEF FlashOK, SigOK
<1>2. Signatures = {s}
    BY <1>1 DEF Signatures
<1>3. s \in Nat /\ s < NBlocks
    BY Sizes
<1>4. Highest({s}) = s
    BY <1>3 DEF Highest
<1>5. ASSUME NEW b \in Tabs(flash, marked) PROVE b \in Tables(s)
    <2>1. TabOK(flash, marked, s, b) /\ PairOK(flash, marked, s, b, b)
        BY DEF FlashOK
    <2>2. b \in MgmtStart..(s - 2) /\ MapOK(flash[b].map, s, b + 1) /\ b \notin flash[b].bad
        BY <2>1 DEF TabOK, PairOK
    <2>3. b \notin marked /\ flash[b].kind = "table"
        BY DEF Tabs
    <2>4. ASSUME NEW l \in LBs PROVE flash[b].map[l] \notin (MgmtStart..b) \union {s}
        <3>1. flash[b].map[l] \in {-1} \union LBs \union ((b + 1 + 1)..(s - 1))
            BY <2>2 DEF MapOK
        <3>2. QED
            BY <1>1, <1>3, <2>2, <3>1, Sizes
    <2>5. QED
        BY <2>2, <2>3, <2>4 DEF Tables, Loadable
<1>6. ASSUME NEW b \in Tables(s) PROVE b \in Tabs(flash, marked)
    <2>1. b \in MgmtStart..(s - 2) /\ b \notin marked /\ flash[b].kind = "table"
        BY DEF Tables, Loadable
    <2>2. b \in Blocks
        BY <1>3, <2>1, Sizes
    <2>3. QED
        BY <2>1, <2>2 DEF Tabs
<1>7. QED
    BY <1>2, <1>4, <1>5, <1>6

(* The instance that a table and its place give *)
Taken(f, K, s, t, bd, a, b, ch) ==
    [up |-> TRUE, sig |-> s, map |-> t.map, bad |-> bd, main |-> a, backup |-> b,
     lo |-> (IF b = 0 THEN a ELSE b) + 1, top |-> top_ba(t, IF b # 0 /\ f[b].wc > f[a].wc THEN b ELSE a, s),
     changed |-> ch, prot |-> FALSE, count |-> Counted(t.map), wc |-> t.wc]

LEMMA TakenIn ==
    ASSUME NEW f, NEW K, NEW s \in Blocks, NEW t \in TabSet, NEW bd \in SUBSET Blocks, NEW a \in Blocks,
           NEW b \in Blocks, NEW ch \in BOOLEAN, NEW x \in Nat, MgmtStart <= a, b # 0 => a < b,
           x = (IF b = 0 THEN a ELSE b) + 1, x < s, MapOK(t.map, s, x), NEW n, n = Taken(f, K, s, t, bd, a, b, ch)
    PROVE  /\ Areas(n) /\ n.sig = s /\ n.map = t.map /\ n.bad = bd /\ n.main = a /\ n.backup = b
           /\ n.lo = x /\ n.changed = ch /\ n.wc = t.wc
<1> DEFINE y == IF b # 0 /\ f[b].wc > f[a].wc THEN b ELSE a
           tp == top_ba(t, y, s)
           c == Counted(t.map)
<1>1. y \in Nat /\ MgmtStart <= y /\ y <= x
    BY Sizes
<1> HIDE DEF y
<1>2. tp \in Blocks /\ x <= tp /\ tp < s /\ MapOK(t.map, s, tp)
    BY <1>1, TopIn
<1>3. c \in 0..MgmtStart /\ \A l \in LBs : l < c <=> t.map[l] # -1
    BY CountIn
<1>4. n = [up |-> TRUE, sig |-> s, map |-> t.map, bad |-> bd, main |-> a, backup |-> b,
           lo |-> x, top |-> tp, changed |-> ch, prot |-> FALSE, count |-> c, wc |-> t.wc]
    BY DEF Taken, y
<1> HIDE DEF tp, c
<1>5. x \in Blocks /\ MgmtStart < x
    BY Sizes
<1>6. t.map \in [LBs -> Blocks \union {-1}] /\ t.wc \in Nat
    BY DEF TabSet
<1>7. /\ n \in Instances /\ n.sig = s /\ n.map = t.map /\ n.bad = bd /\ n.main = a /\ n.backup = b
      /\ n.lo = x /\ n.changed = ch /\ n.wc = t.wc /\ n.top = tp /\ n.count = c
    BY <1>2, <1>3, <1>4, <1>5, <1>6 DEF Instances
<1>8. Areas(n)
    BY <1>2, <1>3, <1>5, <1>7 DEF Areas
<1>9. QED
    BY <1>7, <1>8

(* What the search found: the table used is the newer one, its mapping     *)
(* stays clear of both, and it is as it was read unless a block was noted  *)
Chosen(f, K, s, n) ==
    /\ Common(f, K, n) /\ n.sig = s /\ n.main # 0 /\ n.main < n.lo /\ MgmtStart <= n.main
    /\ Tabs(f, K) = {n.main, n.backup} \ {0}
    /\ n.backup # 0 => MainIn(K, n) /\ BackupIn(n)
    /\ n.backup # 0 => \/ f[n.backup].wc > f[n.main].wc /\ n.wc = f[n.backup].wc
                       \/ f[n.backup].wc <= f[n.main].wc /\ n.wc = f[n.main].wc
    /\ ~n.changed => \E x \in Tabs(f, K) : f[x] = Table(n)

LEMMA TableIn ==
    ASSUME NEW f \in FlashType, NEW K, NEW b \in Tabs(f, K)
    PROVE  b \in Blocks /\ f[b] \in TabSet /\ f[b].wc \in Nat /\ f[b].bad \in SUBSET Blocks
<1>1. b \in Blocks /\ f[b] \in DataContents \union {Sig} \union TabSet /\ f[b].kind = "table"
    BY DEF FlashType, Tabs
<1>2. f[b] \in TabSet
    BY <1>1, Kinds
<1>3. QED
    BY <1>1, <1>2 DEF TabSet

LEMMA SameTable ==
    ASSUME NEW t \in TabSet, NEW n, n.wc = t.wc, n.map = t.map, n.bad = t.bad
    PROVE  t = Table(n)
BY DEF TabSet, Table

(* One table *)
LEMMA ChosenOne ==
    ASSUME NEW f \in FlashType, NEW K \in SUBSET Blocks, NEW s \in Blocks, FlashOK(f, K, s),
           NEW a, Tabs(f, K) = {a}, NEW bd \in SUBSET Blocks, a \notin bd, f[a].bad \subseteq bd,
           NEW ch \in BOOLEAN, ~ch => bd = f[a].bad,
           NEW n, n = Taken(f, K, s, f[a], bd, a, 0, ch)
    PROVE  Chosen(f, K, s, n) /\ n.main = a /\ n.backup = 0 /\ n.changed = ch
<1>1. a \in Blocks /\ f[a] \in TabSet /\ f[a].wc \in Nat
    BY TableIn
<1>2. a \in MgmtStart..(s - 2) /\ MapOK(f[a].map, s, a + 1)
    BY DEF FlashOK, TabOK
<1> DEFINE x == a + 1
<1>3. x \in Nat /\ x < s /\ MgmtStart <= a /\ a \in Nat /\ a < x /\ a # 0 /\ 0 \in Blocks
    BY <1>1, <1>2, Sizes
<1> HIDE DEF x
<1>4. /\ Areas(n) /\ n.sig = s /\ n.map = f[a].map /\ n.bad = bd /\ n.main = a /\ n.backup = 0
      /\ n.lo = x /\ n.changed = ch /\ n.wc = f[a].wc
    BY <1>1, <1>2, <1>3, TakenIn DEF x
<1>5. Known(f, K, n, a)
    BY <1>1, <1>4 DEF Known
<1>6. Common(f, K, n)
    BY <1>4, <1>5 DEF Common
<1>7. ~ch => f[a] = Table(n)
    BY <1>1, <1>4, SameTable
<1>8. Tabs(f, K) = {n.main, n.backup} \ {0}
    BY <1>3, <1>4
<1>9. QED
    BY <1>3, <1>4, <1>6, <1>7, <1>8 DEF Chosen

(* Two tables, and the second is newer *)
LEMMA ChosenTwo ==
    ASSUME NEW f \in FlashType, NEW K \in SUBSET Blocks, NEW s \in Blocks, FlashOK(f, K, s),
           NEW a, NEW b, Tabs(f, K) = {a, b}, a < b, NEW t, NEW bd \in SUBSET Blocks, a \notin bd, b \notin bd,
           t.bad \subseteq bd,
           \/ t = f[b] /\ f[b].wc > f[a].wc
           \/ t = f[a] /\ f[b].wc <= f[a].wc,
           NEW ch \in BOOLEAN, ~ch => bd = t.bad,
           NEW n, n = Taken(f, K, s, t, bd, a, b, ch)
    PROVE  Chosen(f, K, s, n) /\ n.main = a /\ n.backup = b /\ n.changed = ch
<1>1. /\ a \in Blocks /\ f[a] \in TabSet /\ f[a].wc \in Nat /\ b \in Blocks /\ f[b] \in TabSet /\ f[b].wc \in Nat
      /\ t \in TabSet
    BY TableIn
<1>2. /\ TabOK(f, K, s, a) /\ TabOK(f, K, s, b) /\ PairOK(f, K, s, a, b) /\ PairOK(f, K, s, b, a)
    BY DEF FlashOK
<1>3. a \in MgmtStart..(s - 2) /\ b \in MgmtStart..(s - 2) /\ MapOK(f[b].map, s, b + 1)
    BY <1>2 DEF TabOK
<1> DEFINE x == b + 1
<1>4. x \in Nat /\ x < s /\ MgmtStart <= a /\ a \in Nat /\ b \in Nat /\ b < x /\ a < x /\ a # 0 /\ b # 0
    BY <1>1, <1>3, Sizes
<1>5. MapOK(t.map, s, x)
    BY <1>1, <1>2, <1>3 DEF PairOK
<1> HIDE DEF x
<1>6. /\ Areas(n) /\ n.sig = s /\ n.map = t.map /\ n.bad = bd /\ n.main = a /\ n.backup = b
      /\ n.lo = x /\ n.changed = ch /\ n.wc = t.wc
    BY <1>1, <1>4, <1>5, TakenIn DEF x
<1>7. Known(f, K, n, a) /\ Known(f, K, n, b)
    <2>1. f[a].wc <= t.wc /\ f[b].wc <= t.wc
        BY <1>1
    <2>2. \A c \in MgmtStart..(NBlocks - 1) : c \in f[a].bad \union f[b].bad => c \in t.bad \union K
        BY <1>1, <1>2 DEF PairOK
    <2>3. QED
        BY <1>6, <2>1, <2>2 DEF Known
<1>8. Common(f, K, n)
    BY <1>6, <1>7 DEF Common
<1>9. MainIn(K, n) /\ BackupIn(n)
    <2>1. MgmtStart..(a - 1) \subseteq K \union t.bad
        BY <1>1, <1>2 DEF PairOK
    <2>2. Gone(K, n, MgmtStart, a)
        BY <1>6, <2>1 DEF Gone
    <2>3. QED
        BY <1>4, <1>6, <2>2 DEF MainIn, BackupIn
<1>10. ~ch => t = Table(n)
    BY <1>1, <1>6, SameTable
<1>11. Tabs(f, K) = {n.main, n.backup} \ {0}
    BY <1>4, <1>6
<1>12. QED
    BY <1>4, <1>6, <1>8, <1>9, <1>10, <1>11 DEF Chosen


(* nmbm_load_info_table up to the repairs *)
LEMMA LoadChosen ==
    ASSUME flash \in FlashType, marked \in SUBSET Blocks, NEW s \in Blocks, FlashOK(flash, marked, s),
           Tabs(flash, marked) # {}
    PROVE  Chosen(flash, marked, s, load_info_table(s))
<1> DEFINE T == Tables(s)
           a == Lowest(T)
           others == {o \in (a + 1)..(s - 2) : Loadable(o, flash[a].bad, s)}
           b == IF others = {} THEN 0 ELSE Lowest(others)
           newer == b # 0 /\ flash[b].wc > flash[a].wc
           t == IF newer THEN flash[b] ELSE flash[a]
           before == Suspect(MgmtStart..(a - 1))
           between == Suspect((a + 1)..(IF b = 0 THEN s - 2 ELSE b - 1)) \ flash[a].bad
           bd == IF newer THEN t.bad ELSE t.bad \union between
           ch == (before \union between # {})
           n == load_info_table(s)
<1>1. T = Tabs(flash, marked)
    BY Found
<1>2. n = Taken(flash, marked, s, t, bd, a, b, ch)
    BY DEF load_info_table, Taken, Counted
<1>3. ch \in BOOLEAN /\ (~ch => between = {})
    OBVIOUS
<1> HIDE DEF ch, n
<1>4. a \in T /\ \A y \in T : a <= y
    <2>1. T \in SUBSET Nat /\ T # {}
        BY <1>1, Sizes DEF Tabs
    <2> HIDE DEF T
    <2>2. QED
        BY <2>1, LowestIn
<1> HIDE DEF a
<1>5. /\ s \in Nat /\ s < NBlocks /\ a \in Nat /\ MgmtStart <= a /\ a <= s - 2 /\ a \in Blocks
      /\ flash[a].bad \in SUBSET Blocks /\ a \notin flash[a].bad
    <2>1. a \in MgmtStart..(s - 2) /\ a \notin flash[a].bad
        BY <1>4 DEF Tables, Loadable
    <2>2. a \in Blocks /\ flash[a].bad \in SUBSET Blocks
        BY <1>1, <1>4, TableIn
    <2>3. QED
        BY <2>1, <2>2, Sizes
<1>6. others = T \ {a}
    <2>1. ASSUME NEW o \in others PROVE o \in T \ {a}
        <3>1. o \in (a + 1)..(s - 2) /\ Loadable(o, flash[a].bad, s)
            OBVIOUS
        <3>2. o \in MgmtStart..(s - 2) /\ o # a
            BY <1>5, <3>1, Sizes
        <3>3. Loadable(o, {}, s)
            BY <3>1 DEF Loadable
        <3>4. QED
            BY <3>2, <3>3 DEF Tables
    <2>2. ASSUME NEW o \in T \ {a} PROVE o \in others
        <3>1. o \in MgmtStart..(s - 2) /\ Loadable(o, {}, s) /\ a <= o /\ o # a
            BY <1>4 DEF Tables
        <3>2. o \in (a + 1)..(s - 2)
            BY <1>5, <3>1, Sizes
        <3>3. o \notin flash[a].bad
            BY <1>1, <1>4 DEF FlashOK, PairOK
        <3>4. Loadable(o, flash[a].bad, s)
            BY <3>1, <3>3 DEF Loadable
        <3>5. QED
            BY <3>2, <3>4
    <2>3. QED
        BY <2>1, <2>2
<1> HIDE DEF T
<1>7. CASE others = {}
    <2>1. b = 0 /\ ~newer
        BY <1>7
    <2>2. T = {a}
        BY <1>4, <1>6, <1>7
    <2>3. t = flash[a] /\ bd = flash[a].bad \union between
        BY <2>1
    <2>4. between \subseteq (a + 1)..(s - 2)
        BY <2>1 DEF Suspect
    <2>5. \A c \in (a + 1)..(s - 2) : c \in Blocks /\ c # a
        BY <1>5, Sizes
    <2> HIDE DEF others, b, newer, t, before, between
    <2>6. bd \in SUBSET Blocks /\ a \notin bd /\ flash[a].bad \subseteq bd /\ (~ch => bd = flash[a].bad)
        BY <1>3, <1>5, <2>3, <2>4, <2>5
    <2> HIDE DEF bd
    <2>7. Chosen(flash, marked, s, n)
        <3>1. n = Taken(flash, marked, s, flash[a], bd, a, 0, ch)
            BY <1>2, <2>1, <2>3
        <3>2. Tabs(flash, marked) = {a}
            BY <1>1, <2>2
        <3>3. QED
            BY <1>3, <2>6, <3>1, <3>2, ChosenOne
    <2>8. QED
        BY <2>7 DEF n
<1>8. CASE others # {}
    <2>1. b \in others
        <3>1. b = Lowest(others)
            BY <1>8
        <3>2. others \in SUBSET Nat
            BY <1>1, <1>6, Sizes DEF Tabs
        <3> HIDE DEF others
        <3>3. QED
            BY <1>8, <3>1, <3>2, LowestIn
    <2>2. b \in T /\ b # a /\ a <= b /\ b \in Nat
        BY <1>1, <1>4, <1>6, <2>1, Sizes DEF Tabs
    <2>3. b # 0 /\ a < b
        BY <1>5, <2>2, Sizes
    <2>4. T = {a, b}
        <3>1. \A x \in T : x = a \/ x = b
            BY <1>1, <1>4, <2>2 DEF FlashOK
        <3>2. QED
            BY <1>4, <2>2, <3>1
    <2>5. a \notin flash[b].bad /\ b \notin flash[b].bad /\ b \notin flash[a].bad
        BY <1>1, <1>4, <2>2 DEF FlashOK, PairOK
    <2>6. /\ flash[a].wc \in Nat /\ flash[b].wc \in Nat /\ flash[b].bad \in SUBSET Blocks /\ b < NBlocks
        BY <1>1, <1>4, <2>2, TableIn, Sizes
    <2>7. between \subseteq (a + 1)..(b - 1)
        BY <2>3 DEF Suspect
    <2>8. \A c \in (a + 1)..(b - 1) : c \in Blocks /\ c # a /\ c # b
        BY <1>5, <2>2, <2>6, Sizes
    <2>9. newer => t = flash[b] /\ bd = flash[b].bad /\ flash[b].wc > flash[a].wc
        OBVIOUS
    <2>10. ~newer => t = flash[a] /\ bd = flash[a].bad \union between /\ flash[b].wc <= flash[a].wc
        <3>1. ~newer => t = flash[a] /\ bd = flash[a].bad \union between
            OBVIOUS
        <3> HIDE DEF others, b, t, before, between, bd
        <3>2. ~newer => ~(flash[b].wc > flash[a].wc)
            BY <2>3
        <3>3. QED
            BY <2>6, <3>1, <3>2
    <2> HIDE DEF others, b, newer, t, before, between, bd
    <2>11. /\ bd \in SUBSET Blocks /\ a \notin bd /\ b \notin bd /\ t.bad \subseteq bd /\ (~ch => bd = t.bad)
           /\ \/ t = flash[b] /\ flash[b].wc > flash[a].wc
              \/ t = flash[a] /\ flash[b].wc <= flash[a].wc
        BY <1>3, <1>5, <2>5, <2>6, <2>7, <2>8, <2>9, <2>10
    <2>12. Chosen(flash, marked, s, n)
        <3>1. Tabs(flash, marked) = {a, b}
            BY <1>1, <2>4
        <3>2. QED
            BY <1>2, <1>3, <2>3, <2>11, <3>1, ChosenTwo
    <2>13. QED
        BY <2>12 DEF n
<1>9. QED
    BY <1>7, <1>8

(* nmbm_generate_info_table_cache without a change: a table is as new, and *)
(* it is the same                                                          *)
LEMMA GeneratedSame ==
    ASSUME NEW f, NEW K, NEW n, Common(f, K, n), ~n.changed, NEW x \in Tabs(f, K), f[x] = Table(n)
    PROVE  Generated(n) = n /\ CacheOK(f, K, n, Table(n))
<1>1. n \in Instances
    BY AreaTypes DEF Common
<1>2. Table(n) \in TabSet /\ Table(n).map = n.map /\ Table(n).wc = n.wc /\ Table(n).bad = n.bad
    BY <1>1 DEF Table, TabSet, Instances
<1>3. ASSUME NEW b \in Tabs(f, K), f[b].wc = n.wc PROVE f[b] = Table(n)
    BY <1>2, <1>3 DEF Common, FlashOK, PairOK
<1>4. CacheOK(f, K, n, Table(n))
    BY <1>2, <1>3 DEF CacheOK
<1>5. QED
    BY <1>4 DEF Generated

(* nmbm_load_info_table: the repairs *)
LEMMA RepairLands ==
    ASSUME NEW s, NEW n, Chosen(flash, marked, s, n)
    PROVE  Lands(flash, marked, n, RepairTables(n), "load", Table(Generated(n)))
<1> DEFINE g == Generated(n)
           ca == Table(g)
<1>1. Common(flash, marked, n)
    BY DEF Chosen
<1>2. /\ Common(flash, marked, g) /\ CacheOK(flash, marked, g, ca) /\ g.sig = n.sig /\ g.top = n.top
      /\ g.main = n.main /\ g.backup = n.backup /\ g.lo = n.lo /\ g.bad = n.bad
    <2>1. CASE n.changed
        <3>1. g.bad = n.bad
            <4>1. n \in Instances /\ g = [n EXCEPT !.wc = n.wc + 1]
                BY <1>1, <2>1, AreaTypes DEF Common, Generated
            <4> HIDE DEF g
            <4>2. QED
                BY <4>1 DEF Instances
        <3>2. QED
            BY <1>1, <2>1, <3>1, GeneratedNew
    <2>2. CASE ~n.changed
        <3>1. PICK x \in Tabs(flash, marked) : flash[x] = Table(n)
            BY <2>2 DEF Chosen
        <3>2. g = n /\ CacheOK(flash, marked, n, Table(n))
            BY <1>1, <2>2, <3>1, GeneratedSame
        <3>3. QED
            BY <1>1, <3>2
    <2>3. QED
        BY <2>1, <2>2
<1>3. /\ g.main # 0 /\ g.main < g.lo /\ MgmtStart <= g.main
      /\ Tabs(flash, marked) = {g.main, g.backup} \ {0}
      /\ g.backup # 0 => MainIn(marked, g) /\ BackupIn(g)
    BY <1>2 DEF Chosen, MainIn, BackupIn, Gone
<1> HIDE DEF g, ca
<1>4. /\ g \in Instances /\ g.main \in Nat /\ g.lo \in Nat /\ g.top \in Nat /\ g.lo <= g.top
      /\ g.backup \in Nat
    BY <1>2, AreaTypes DEF Common
<1>5. CASE n.backup = 0
    <2> DEFINE w == Begin("front", MgmtStart, g.main)
    <2>1. w.site = "front" /\ w.from = MgmtStart /\ w.lim = g.main
        BY DEF Begin
    <2>2. Tabs(flash, marked) = {g.main}
        BY <1>2, <1>3, <1>5
    <2> HIDE DEF w
    <2>3. WriteAt(flash, marked, g, w)
        BY <1>2, <1>3, <1>5, <2>1, <2>2 DEF WriteAt
    <2>4. SpanIn(g, MgmtStart, g.main)
        BY <1>3, <1>4, Sizes DEF SpanIn
    <2>5. SiteCtx("front", "load") /\ "front" \in WriteSites
        BY DEF SiteCtx, WriteSites
    <2>6. Lands(flash, marked, g, Writing(g, "front", MgmtStart, g.main), "load", ca)
        BY <1>2, <2>3, <2>4, <2>5, LandsWriting DEF w
    <2>7. RepairTables(n) = Writing(g, "front", MgmtStart, g.main)
        BY <1>5 DEF RepairTables, rescue_single_info_table, g
    <2>8. QED
        BY <1>2, <2>6, <2>7 DEF Lands, ca, g
<1>6. CASE n.backup # 0 /\ flash[n.main].wc # flash[n.backup].wc
    <2> DEFINE h == [g EXCEPT !.changed = TRUE]
    <2>1. /\ Moved(g, h) /\ h.main = g.main /\ h.backup = g.backup /\ h.lo = g.lo /\ h.top = g.top /\ h.sig = g.sig
        BY <1>4 DEF Moved, Instances
    <2>2. RepairTables(n) = update_single_info_table(h, flash[n.main].wc < n.wc)
        BY <1>6 DEF RepairTables, g
    <2> HIDE DEF h
    <2>3. Common(flash, marked, h) /\ CacheOK(flash, marked, h, ca)
        <3>1. MgmtStart < g.lo
            BY <1>2, AreaTypes DEF Common
        <3>2. QED
            BY <1>2, <1>4, <2>1, <3>1, CommonMoved, CacheMoved
    <2>4. MainIn(marked, h) /\ BackupIn(h) /\ Tabs(flash, marked) = {h.main, h.backup} /\ h.backup # 0 /\ h.main # 0
        <3>1. MainIn(marked, g) /\ BackupIn(g)
            BY <1>2, <1>3, <1>6
        <3>2. MainIn(marked, h) /\ BackupIn(h)
            BY <2>1, <3>1 DEF MainIn, BackupIn, Gone, Moved
        <3>3. QED
            BY <1>2, <1>3, <1>6, <2>1, <3>2
    <2>5. h.main \in Nat /\ h.backup \in Nat /\ h.lo \in Nat /\ h.top \in Nat /\ h.lo <= h.top
        BY <1>4, <2>1
    <2>6. SiteCtx("only_main", "load") /\ "only_main" \in WriteSites
          /\ SiteCtx("only_backup", "load") /\ "only_backup" \in WriteSites
        BY DEF SiteCtx, WriteSites
    <2>7. Lands(flash, marked, h, Writing(h, "only_main", h.main, h.backup), "load", ca)
        <3> DEFINE w == Begin("only_main", h.main, h.backup)
        <3>1. w.site = "only_main" /\ w.from = h.main /\ w.lim = h.backup
            BY DEF Begin
        <3> HIDE DEF w
        <3>2. WriteAt(flash, marked, h, w)
            BY <2>4, <3>1 DEF WriteAt
        <3>3. SpanIn(h, h.main, h.backup)
            BY <2>4, <2>5, Sizes DEF SpanIn, MainIn, BackupIn
        <3>4. QED
            BY <2>3, <2>6, <3>2, <3>3, LandsWriting DEF w
    <2>8. Lands(flash, marked, h, Writing(h, "only_backup", h.backup, h.top), "load", ca)
        <3> DEFINE w == Begin("only_backup", h.backup, h.top)
        <3>1. w.site = "only_backup" /\ w.from = h.backup /\ w.lim = h.top
            BY DEF Begin
        <3> HIDE DEF w
        <3>2. WriteAt(flash, marked, h, w)
            BY <2>4, <3>1 DEF WriteAt
        <3>3. SpanIn(h, h.backup, h.top)
            BY <2>4, <2>5, Sizes DEF SpanIn, MainIn, BackupIn
        <3>4. QED
            BY <2>3, <2>6, <3>2, <3>3, LandsWriting DEF w
    <2>9. Lands(flash, marked, h, RepairTables(n), "load", ca)
        BY <2>2, <2>7, <2>8 DEF update_single_info_table
    <2>10. QED
        BY <1>2, <2>1, <2>9 DEF Lands, ca, g
<1>7. CASE n.backup # 0 /\ flash[n.main].wc = flash[n.backup].wc
    <2>1. RepairTables(n) = Returning(g, TRUE)
        BY <1>7 DEF RepairTables, g
    <2>2. AtRest(flash, marked, g)
        BY <1>2, <1>3, <1>7 DEF AtRest
    <2>3. Lands(flash, marked, g, Returning(g, TRUE), "load", ca)
        <3>1. TRUE \in BOOLEAN /\ "load" \in Updating \union {"create", "load"}
            OBVIOUS
        <3>2. QED
            BY <1>2, <1>3, <2>2, <3>1, LandsReturning
    <2>4. QED
        BY <1>2, <2>1, <2>3 DEF Lands, ca, g
<1>8. QED
    BY <1>5, <1>6, <1>7


LEMMA AttachRuns ==
    ASSUME PoweredOff, Attach
    PROVE  /\ PoweredOff' \/ Creating' \/ Running'
           /\ ctx' = ctx \/ ctx' = "load" \/ ~seen.made
<1>1. /\ pc = "off" /\ flash' = flash /\ marked' = marked /\ op' = op /\ seen' = seen
    BY DEF Attach, obs
<1>2. /\ ni = NoInstance /\ flash \in FlashType /\ marked \in SUBSET Blocks /\ op = NoOp
      /\ (seen.made => Tabs(flash, marked) # {})
    BY DEF PoweredOff, Off
<1>3. CASE Dead
    <2>1. pc' = "dead" /\ ni' = NoInstance /\ ctx' = ctx
        BY <1>3 DEF Dead
    <2>2. Off(flash, marked, NoInstance, "dead", seen.made)
        BY DEF PoweredOff, Off
    <2>3. QED
        BY <1>1, <1>2, <2>1, <2>2, OffNext
<1>4. CASE Tabs(flash, marked) = {} /\ NoSig(flash)
    <2>1. Signatures = {}
        BY <1>4 DEF Signatures, NoSig
    <2>2. CASE ~Dead
        <3> DEFINE n == New(0, marked)
                   w == [site |-> "sig", ba |-> NBlocks - 1, lim |-> MgmtStart, from |-> NBlocks - 1,
                         erased |-> FALSE]
        <3>1. ni' = n /\ pc' = "write" /\ wr' = w /\ ctx' = "create"
            BY <2>1, <2>2 DEF Attach, Goto2, Goto, Writing
        <3>2. Fresh(n) /\ n.sig = 0
            BY <1>2, NewFresh, Sizes
        <3>3. /\ w \in Writes /\ w.site = "sig" /\ w.lim = MgmtStart /\ w.ba \in MgmtStart..(NBlocks - 1)
              /\ w.erased = FALSE
            BY Sizes DEF Writes
        <3> HIDE DEF n, w
        <3>4. Making(flash, marked, n, "write", w)
            BY <1>2, <1>4, <3>2, <3>3 DEF Making
        <3>5. Creating'
            BY <1>1, <1>2, <3>1, <3>4, CreatingNext
        <3>6. QED
            BY <1>2, <1>4, <3>5
    <2>3. QED
        BY <1>3, <2>2
<1>5. ASSUME NEW s \in Blocks, FlashOK(flash, marked, s)
      PROVE  /\ PoweredOff' \/ Creating' \/ Running'
             /\ ctx' = ctx \/ ctx' = "load" \/ ~seen.made
    <2>1. Signatures # {} /\ Highest(Signatures) = s /\ Tables(s) = Tabs(flash, marked)
        BY <1>2, <1>5, Found
    <2>2. CASE Tabs(flash, marked) # {}
        <3> DEFINE n == load_info_table(s)
                   r == RepairTables(n)
                   ca == Table(Generated(n))
        <3>1. Goto(r) /\ ctx' = "load" /\ cache' = ca
            BY <2>1, <2>2 DEF Attach, Goto2
        <3>2. Chosen(flash, marked, s, n)
            BY <1>2, <1>5, <2>2, LoadChosen
        <3> HIDE DEF n
        <3>3. Lands(flash, marked, n, r, "load", ca)
            BY <3>2, RepairLands
        <3> HIDE DEF r, ca
        <3>4. OpOK(n, "write", "load", NoOp)
            BY DEF OpOK, Ops, NoOp
        <3>5. Running'
            BY <1>1, <1>2, <3>1, <3>3, <3>4, LandsRunning DEF Goto
        <3>6. QED
            BY <3>1, <3>5
    <2>3. CASE Tabs(flash, marked) = {} /\ ~Dead
        <3> DEFINE S == marked \union Suspect(MgmtStart..(s - 2))
                   n == New(s, S)
        <3>1. ni' = n /\ pc' = "create" /\ ctx' = "create"
            BY <2>1, <2>3 DEF Attach
        <3>2. S \in SUBSET Blocks
            <4>1. Suspect(MgmtStart..(s - 2)) \subseteq MgmtStart..(s - 2)
                BY DEF Suspect
            <4>2. \A b \in MgmtStart..(s - 2) : b \in Blocks
                BY Sizes
            <4>3. QED
                BY <1>2, <4>1, <4>2
        <3> HIDE DEF S
        <3>3. Fresh(n) /\ n.sig = s
            BY <3>2, NewFresh
        <3> HIDE DEF n
        <3>4. Making(flash, marked, n, "create", wr')
            BY <1>2, <1>5, <2>3, <3>3 DEF Making
        <3>5. Creating'
            BY <1>1, <1>2, <3>1, <3>4, CreatingNext
        <3>6. QED
            BY <1>2, <2>3, <3>5
    <2>4. QED
        BY <1>3, <2>2, <2>3
<1>6. QED
    BY <1>4, <1>5 DEF PoweredOff, Off

-----------------------------------------------------------------------------
(* A new chip *)

LEMMA InitInv ==
    ASSUME Init
    PROVE  IInv
<1>1. /\ flash = [b \in Blocks |-> Erased] /\ marked \in FactoryBad /\ pc = "off" /\ ni = NoInstance
      /\ ctx = "none" /\ op = NoOp /\ want = [l \in LBs |-> AllPages("any")]
      /\ seen = [made |-> FALSE, astray |-> FALSE]
    BY DEF Init
<1>2. marked \in SUBSET Blocks
    BY <1>1, ChipAssumption DEF Blocks
<1>3. flash \in FlashType /\ \A b \in Blocks : flash[b] = Erased
    BY <1>1, Kinds DEF FlashType
<1>4. Erased # Sig /\ Erased.kind # "table"
    BY Kinds
<1>5. Tabs(flash, marked) = {} /\ NoSig(flash)
    BY <1>3, <1>4 DEF Tabs, NoSig
<1>6. ~seen.made /\ seen \in [made : BOOLEAN, astray : BOOLEAN]
    BY <1>1
<1>7. PoweredOff
    BY <1>1, <1>2, <1>3, <1>5, <1>6 DEF PoweredOff, Off
<1>8. want \in [LBs -> [PageNos -> {"any", "ff", "d"}]]
    <2>1. AllPages("any") \in [PageNos -> {"any", "ff", "d"}]
        BY DEF AllPages
    <2>2. QED
        BY <1>1, <2>1
<1>9. Observed
    BY <1>1, <1>6, <1>8 DEF Observed
<1>10. QED
    BY <1>7, <1>9 DEF IInv


-----------------------------------------------------------------------------
(* The observers, which hold even after a mapping went astray *)

SeenSet == [made : BOOLEAN, astray : BOOLEAN]
WantSet == [LBs -> [PageNos -> {"any", "ff", "d"}]]
LostSet == [LBs -> SUBSET PageNos]
Watching == want \in WantSet /\ lost \in LostSet /\ seen \in SeenSet

(* seen only grows *)
Grows == seen' \in SeenSet /\ (seen.astray => seen'.astray) /\ (seen.made => seen'.made)
(* Whoever sets seen.made has no call in progress left *)
Settled ==
    /\ ctx' = ctx \/ ctx' \notin {"create", "boot", "tail"} \/ ctx = "create"
    /\ seen'.made = seen.made \/ ctx' = "none"

LEMMA SeenAstray ==
    ASSUME Watching, NEW x, seen' = [seen EXCEPT !.astray = @ \/ x]
    PROVE  Grows /\ seen'.made = seen.made
<1> DEFINE y == (seen.astray \/ x)
<1>1. y \in BOOLEAN /\ (seen.astray => y)
    OBVIOUS
<1>2. seen' = [seen EXCEPT !.astray = y] /\ seen \in SeenSet
    BY DEF Watching
<1> HIDE DEF y
<1>3. QED
    BY <1>1, <1>2 DEF Grows, SeenSet

LEMMA SeenMade ==
    ASSUME Watching, NEW y \in BOOLEAN, seen' = [seen EXCEPT !.made = y], seen.made => y
    PROVE  Grows
<1>1. seen \in SeenSet
    BY DEF Watching
<1>2. QED
    BY <1>1 DEF Grows, SeenSet

LEMMA SeenSame ==
    ASSUME Watching, seen' = seen
    PROVE  Grows
BY DEF Watching, Grows

LEMMA Forgotten ==
    ASSUME Watching, NEW l, NEW ps
    PROVE  Forget(l, ps) \in WantSet
<1> DEFINE g == [p \in PageNos |-> IF p \in ps THEN "any" ELSE want[l][p]]
<1>1. Forget(l, ps) = [want EXCEPT ![l] = g]
    BY DEF Forget
<1>2. want \in WantSet
    BY DEF Watching
<1>3. CASE l \in LBs
    <2>1. g \in [PageNos -> {"any", "ff", "d"}]
        BY <1>2, <1>3 DEF WantSet
    <2> HIDE DEF g
    <2>2. QED
        BY <1>1, <1>2, <2>1 DEF WantSet
<1>4. CASE l \notin LBs
    <2> HIDE DEF g
    <2>1. QED
        BY <1>1, <1>2, <1>4 DEF WantSet
<1>5. QED
    BY <1>3, <1>4

LEMMA LostMore ==
    ASSUME Watching, NEW l, NEW ps \in SUBSET PageNos
    PROVE  Lose(l, ps) \in LostSet
<1>1. lost \in LostSet
    BY DEF Watching
<1>2. CASE l \in LBs
    <2>1. lost[l] \union ps \in SUBSET PageNos
        BY <1>1, <1>2 DEF LostSet
    <2>2. QED
        BY <1>1, <1>2, <2>1 DEF Lose, LostSet
<1>3. CASE l \notin LBs
    BY <1>1, <1>3 DEF Lose, LostSet
<1>4. QED
    BY <1>2, <1>3

LEMMA RemapWatched ==
    ASSUME Watching, NEW o, remap_block(o)
    PROVE  Grows /\ Settled
<1> DEFINE n == set_bad(ni, {o.old})
<1>1. \/ ctx' = ctx /\ seen' = seen
      \/ ctx' = "mapfail" /\ seen' = seen
      \/ ctx' = "remap" /\ Skips(n)
    BY DEF remap_block
<1> HIDE DEF n
<1>2. Skips(n) => Grows /\ seen'.made = seen.made
    BY SeenAstray DEF Skips
<1>3. QED
    BY <1>1, <1>2, SeenSame DEF Settled

LEMMA PageWanted ==
    ASSUME Watching, NEW l \in LBs, NEW p, NEW v \in {"any", "d"}
    PROVE  [want EXCEPT ![l][p] = v] \in WantSet
<1> DEFINE g == [want[l] EXCEPT ![p] = v]
<1>1. [want EXCEPT ![l][p] = v] = [want EXCEPT ![l] = g]
    OBVIOUS
<1>2. want \in WantSet /\ want[l] \in [PageNos -> {"any", "ff", "d"}]
    BY DEF Watching, WantSet
<1>3. g \in [PageNos -> {"any", "ff", "d"}]
    BY <1>2
<1> HIDE DEF g
<1>4. QED
    BY <1>1, <1>2, <1>3 DEF WantSet

LEMMA EraseWatched ==
    ASSUME Watching, NEW l \in Served, mtd_erase(l)
    PROVE  want' \in WantSet /\ lost' \in LostSet /\ Grows /\ Settled
<1>1. \/ want' = [want EXCEPT ![l] = AllPages("ff")] /\ lost' = [lost EXCEPT ![l] = {}] /\ Idle
      \/ want' = Forget(l, PageNos) /\ lost' = lost /\ remap_block(Op("erase", l, 0))
    BY DEF mtd_erase
<1>2. CASE want' = [want EXCEPT ![l] = AllPages("ff")] /\ lost' = [lost EXCEPT ![l] = {}] /\ Idle
    <2>1. AllPages("ff") \in [PageNos -> {"any", "ff", "d"}] /\ want \in WantSet /\ lost \in LostSet
        BY DEF AllPages, Watching
    <2>2. want' \in WantSet /\ lost' \in LostSet
        BY <1>2, <2>1 DEF WantSet, LostSet
    <2>3. QED
        BY <1>2, <2>2, SeenSame DEF Idle, Settled
<1>3. CASE want' = Forget(l, PageNos) /\ lost' = lost /\ remap_block(Op("erase", l, 0))
    BY <1>3, Forgotten, RemapWatched DEF Watching
<1>4. QED
    BY <1>1, <1>2, <1>3

LEMMA WriteWatched ==
    ASSUME Watching, NEW l \in Served, NEW p \in PageNos, mtd_write(l, p)
    PROVE  want' \in WantSet /\ lost' \in LostSet /\ Grows /\ Settled
<1> DEFINE left == IF Contents(ni.map[l])[p] = "ff" THEN lost[l] \ {p} ELSE lost[l] \union {p}
<1>1. \/ want' = [want EXCEPT ![l][p] = "d"] /\ lost' = [lost EXCEPT ![l] = left] /\ Idle
      \/ want' = Forget(l, {p}) /\ lost' = lost /\ remap_block(Op("write", l, p - 1))
    BY Zenon DEF mtd_write
<1>2. CASE want' = [want EXCEPT ![l][p] = "d"] /\ lost' = [lost EXCEPT ![l] = left] /\ Idle
    <2>1. l \in LBs /\ lost \in LostSet
        BY DEF Served, Watching
    <2>2. left \in SUBSET PageNos
        BY <2>1 DEF LostSet
    <2> HIDE DEF left
    <2>3. lost' \in LostSet
        BY <1>2, <2>1, <2>2 DEF LostSet
    <2>4. want' \in WantSet
        BY <1>2, <2>1, PageWanted
    <2>5. QED
        BY <1>2, <2>3, <2>4, SeenSame DEF Idle, Settled
<1>3. CASE want' = Forget(l, {p}) /\ lost' = lost /\ remap_block(Op("write", l, p - 1))
    BY <1>3, Forgotten, RemapWatched DEF Watching
<1>4. QED
    BY <1>1, <1>2, <1>3

LEMMA ClientWatched ==
    ASSUME Watching, Client
    PROVE  want' \in WantSet /\ lost' \in LostSet /\ Grows /\ Settled
<1>1. PICK l \in Served :
        \/ mtd_erase(l)
        \/ \E p \in PageNos : mtd_write(l, p)
        \/ \E p \in PageNos : mtd_read_fails(l, p)
        \/ \E act \in {"worn", "markbad"} : Retire(l, act)
        \/ mtd_isbad(l)
        \/ \E act \in {"repair", "mark_good"} : unmap_block(l, act)
    BY DEF Client
<1>2. CASE mtd_erase(l)
    BY <1>2, EraseWatched
<1>3. ASSUME NEW p \in PageNos, mtd_write(l, p) PROVE want' \in WantSet /\ lost' \in LostSet /\ Grows /\ Settled
    BY <1>3, WriteWatched
<1>4. ASSUME NEW p \in PageNos, mtd_read_fails(l, p) PROVE want' \in WantSet /\ lost' \in LostSet /\ Grows /\ Settled
    <2>1. want' = Forget(l, {p}) /\ lost' = lost /\ remap_block(Op("read", l, NPages))
        BY <1>4 DEF mtd_read_fails
    <2>2. QED
        BY <2>1, Forgotten, RemapWatched DEF Watching
<1>5. CASE (\E act \in {"worn", "markbad"} : Retire(l, act)) \/ mtd_isbad(l)
    <2>1. want' = want /\ lost' = lost /\ \E act : remap_block(Op(act, l, NPages))
        BY <1>5 DEF Retire, mtd_isbad
    <2>2. QED
        BY <2>1, RemapWatched DEF Watching
<1>6. ASSUME NEW act \in {"repair", "mark_good"}, unmap_block(l, act) PROVE want' \in WantSet /\ lost' \in LostSet /\ Grows /\ Settled
    <2>1. want' = want /\ (lost' = Lose(l, PageNos) \/ lost' = lost)
        BY <1>6 DEF unmap_block
    <2>2. ctx' = "unmap" /\ \E x, y : seen' = [seen EXCEPT !.astray = @ \/ x \/ y]
        BY <1>6, Zenon DEF unmap_block
    <2>3. PICK x, y : seen' = [seen EXCEPT !.astray = @ \/ x \/ y]
        BY <2>2
    <2>4. seen' = [seen EXCEPT !.astray = @ \/ (x \/ y)]
        BY <2>3
    <2> DEFINE z == (x \/ y)
    <2> HIDE DEF z
    <2>5. Grows /\ seen'.made = seen.made
        BY <2>4, SeenAstray DEF z
    <2>6. QED
        BY <2>1, <2>2, <2>5, LostMore DEF Watching, Settled
<1>7. QED
    BY <1>1, <1>2, <1>3, <1>4, <1>5, <1>6


(* bbt_nand_copy gives up pages of the logical block only *)
LEMMA CopyLoses ==
    ASSUME bbt_nand_copy
    PROVE  \E ps \in SUBSET PageNos : lost' = Lose(op.lb, ps)
<1> DEFINE NotCopied(n) == {q \in PageNos : op.dirty \/ q \in (n + 1)..op.len}
<1>1. \E n : lost' = Lose(op.lb, NotCopied(n))
    BY Zenon DEF bbt_nand_copy
<1>2. \A n : NotCopied(n) \in SUBSET PageNos
    OBVIOUS
<1> HIDE DEF NotCopied
<1>3. QED
    BY <1>1, <1>2

LEMMA DriverWatched ==
    ASSUME Watching, Driver
    PROVE  want' \in WantSet /\ lost' \in LostSet /\ Grows /\ Settled
<1> USE DEF obs
<1>1. CASE WriteTables \/ Create \/ update_info_table \/ updated_once \/ bbt_nand_erase \/ OpDone
    <2>1. want' = want /\ lost' = lost /\ seen' = seen
        BY <1>1 DEF WriteTables, WriteErase, WriteProg, WriteNone, erase_range, Create, update_info_table,
           updated_once, bbt_nand_erase, OpDone
    <2>2. ctx' = ctx
        BY <1>1 DEF WriteTables, WriteErase, WriteProg, WriteNone, erase_range, Create, Dead, update_info_table,
           updated_once, bbt_nand_erase, OpDone, ram
    <2>3. QED
        BY <2>1, <2>2, SeenSame DEF Watching, Settled
<1>2. CASE LoadDone
    <2>1. want' = want /\ lost' = lost /\ ctx' = "none" /\ seen' = [seen EXCEPT !.made = TRUE]
        BY <1>2 DEF LoadDone
    <2>2. QED
        BY <2>1, SeenMade DEF Watching, Settled
<1>3. CASE MapTail
    <2>1. want' = want /\ lost' = lost /\ ctx = "create" /\ (seen' = seen \/ Skips(ni))
        BY <1>3 DEF MapTail
    <2>2. Grows /\ seen'.made = seen.made
        BY <2>1, SeenSame, SeenAstray DEF Skips
    <2>3. QED
        BY <2>1, <2>2 DEF Watching, Settled
<1>4. CASE UpdateDone
    <2> DEFINE y == (seen.made \/ pc' = "idle")
    <2>1. want' = want /\ lost' = lost /\ ctx' = "none" /\ seen' = [seen EXCEPT !.made = y] /\ y \in BOOLEAN /\ (seen.made => y)
        BY <1>4 DEF UpdateDone
    <2> HIDE DEF y
    <2>2. QED
        BY <2>1, SeenMade DEF Watching, Settled
<1>5. CASE bbt_nand_copy
    <2>1. ctx' = ctx /\ seen' = seen /\ want' = want
        BY <1>5 DEF bbt_nand_copy
    <2>2. \E ps \in SUBSET PageNos : lost' = Lose(op.lb, ps)
        BY <1>5, CopyLoses
    <2>3. QED
        BY <2>1, <2>2, LostMore, SeenSame DEF Settled, Watching
<1>6. CASE \E l \in Served : pc = "retry" /\ (mtd_erase(l) \/ \E p \in PageNos : mtd_write(l, p))
    BY <1>6, EraseWatched, WriteWatched
<1>7. QED
    BY <1>1, <1>2, <1>3, <1>4, <1>5, <1>6 DEF Driver

LEMMA CutWatched ==
    ASSUME Watching, Cut
    PROVE  want' \in WantSet /\ lost' \in LostSet /\ Grows /\ ctx' = "none"
<1>1. seen' = seen /\ ctx' = "none" /\ (lost' = Lose(op.lb, PageNos) \/ lost' = lost)
    BY DEF Cut
<1>2. \E torn : want' = [l \in LBs |->
                IF pc = "idle" /\ l \in Served /\ ni.map[l] \in torn
                THEN AllPages("any") ELSE want[l]]
    BY Zenon DEF Cut
<1>3. AllPages("any") \in [PageNos -> {"any", "ff", "d"}]
    BY DEF AllPages
<1>4. want' \in WantSet
    BY <1>2, <1>3 DEF Watching, WantSet
<1>5. QED
    BY <1>1, <1>4, SeenSame, LostMore DEF Watching

LEMMA WatchingNext ==
    ASSUME Watching, [Next]_vars
    PROVE  Watching' /\ (seen.astray => seen'.astray) /\ (seen.made => seen'.made)
<1>1. want' \in WantSet /\ lost' \in LostSet /\ Grows
    <2>1. CASE Attach
        <3>1. want' = want /\ lost' = lost /\ seen' = seen
            BY <2>1 DEF Attach, obs
        <3>2. QED
            BY <3>1, SeenSame DEF Watching
    <2>2. CASE UNCHANGED vars
        <3>1. want' = want /\ lost' = lost /\ seen' = seen
            BY <2>2 DEF vars, obs
        <3>2. QED
            BY <3>1, SeenSame DEF Watching
    <2>3. QED
        BY <2>1, <2>2, DriverWatched, ClientWatched, CutWatched DEF Next
<1>2. QED
    BY <1>1 DEF Watching, Grows, WantSet, LostSet, SeenSet

-----------------------------------------------------------------------------
(* Every step *)

LEMMA RunningStep ==
    ASSUME Running, Watching, Driver \/ Client, ~seen'.astray
    PROVE  Running'
<1>1. seen \in [made : BOOLEAN, astray : BOOLEAN]
    BY DEF Watching, SeenSet
<1>2. pc # "create"
    BY DEF Running, Phase
<1>3. CASE WriteTables
    BY <1>3, WriteEraseRuns, WriteProgRuns, WriteNoneRuns, EraseRangeRuns DEF WriteTables
<1>4. CASE Create
    BY <1>2, <1>4 DEF Create
<1>5. CASE LoadDone \/ update_info_table \/ updated_once \/ UpdateDone
    BY <1>5, LoadDoneRuns, UpdateRuns, UpdatedOnceRuns, UpdateDoneRuns
<1>6. CASE bbt_nand_erase \/ bbt_nand_copy \/ OpDone
    BY <1>6, NewBlockErased, NewBlockCopied, OpDoneRuns
<1>7. CASE MapTail
    BY <1>1, <1>7, MapTailRuns
<1>8. ASSUME NEW l \in Served, mtd_erase(l) PROVE Running'
    BY <1>1, <1>8, EraseRuns
<1>9. ASSUME NEW l \in Served, NEW p \in PageNos, mtd_write(l, p) PROVE Running'
    BY <1>1, <1>9, WriteRuns
<1>10. ASSUME NEW l \in Served, NEW p \in PageNos, mtd_read_fails(l, p) PROVE Running'
    BY <1>1, <1>10, ReadFailsRuns
<1>11. ASSUME NEW l \in Served, (\E act \in {"worn", "markbad"} : Retire(l, act)) \/ mtd_isbad(l) PROVE Running'
    BY <1>1, <1>11, RetireRuns
<1>12. ASSUME NEW l \in Served, NEW act \in {"repair", "mark_good"}, unmap_block(l, act) PROVE Running'
    BY <1>1, <1>12, UnmapRuns
<1>13. CASE Driver
    BY <1>3, <1>4, <1>5, <1>6, <1>7, <1>8, <1>9, <1>13 DEF Driver
<1>14. CASE Client
    BY <1>8, <1>9, <1>10, <1>11, <1>12, <1>14 DEF Client
<1>15. QED
    BY <1>13, <1>14

LEMMA NoClient ==
    ASSUME pc \notin {"idle", "retry"}
    PROVE  ~Client /\ ~\E l \in Served : pc = "retry" /\ (mtd_erase(l) \/ \E p \in PageNos : mtd_write(l, p))
BY DEF Client, mtd_read_fails, Retire, mtd_isbad, unmap_block

LEMMA CreatingStep ==
    ASSUME Creating, ~seen.made \/ pc = "dead", Driver \/ Client
    PROVE  PoweredOff' \/ Creating' \/ Running'
<1>1. pc \in {"write", "failed", "dead", "create"} /\ (pc # "dead" => ctx = "create")
    BY DEF Creating, Making
<1>2. ~erase_range /\ ~LoadDone /\ ~MapTail /\ ~update_info_table /\ ~updated_once /\ ~bbt_nand_erase
      /\ ~bbt_nand_copy /\ ~OpDone
    BY <1>1 DEF erase_range, LoadDone, MapTail, update_info_table, updated_once, bbt_nand_erase, bbt_nand_copy,
       OpDone
<1>3. WriteErase \/ WriteProg \/ WriteNone \/ Create \/ UpdateDone
    BY <1>1, <1>2, NoClient DEF Driver, WriteTables
<1>4. CASE Create
    BY <1>4, CreateRuns DEF Create
<1>5. QED
    BY <1>3, <1>4, SigErase, SigProg, SigNone, SigFailed

LEMMA OffStep ==
    ASSUME PoweredOff
    PROVE  ~Driver /\ ~Client
<1>1. pc \in {"off", "dead"}
    BY DEF PoweredOff, Off
<1>2. QED
    BY <1>1, NoClient DEF Driver, WriteTables, WriteErase, WriteProg, WriteNone, erase_range, LoadDone, Create,
       MapTail, update_info_table, updated_once, UpdateDone, bbt_nand_erase, bbt_nand_copy, OpDone


LEMMA IInvNext ==
    ASSUME Watching, IInv, [Next]_vars
    PROVE  IInv'
<1>1. SUFFICES ASSUME ~seen'.astray
               PROVE  Observed' /\ (PoweredOff' \/ Creating' \/ Running')
    BY DEF IInv
<1>2. Watching' /\ ~seen.astray
    BY <1>1, WatchingNext
<1>3. Observed /\ (PoweredOff \/ Creating \/ Running)
    BY <1>2 DEF IInv
<1>4. (ctx \in {"create", "boot", "tail"} => ~seen.made) /\ seen \in [made : BOOLEAN, astray : BOOLEAN]
    BY <1>3 DEF Observed
<1>5. (ctx' \in {"create", "boot", "tail"} => ~seen'.made) => Observed'
    BY <1>2 DEF Observed, Watching, WantSet, SeenSet
<1>6. CASE UNCHANGED vars
    <2>1. /\ flash' = flash /\ marked' = marked /\ pc' = pc /\ ni' = ni /\ cache' = cache /\ wr' = wr
          /\ ctx' = ctx /\ op' = op /\ seen' = seen
        BY <1>6 DEF vars, ram, obs
    <2>2. Observed'
        BY <1>4, <1>5, <2>1
    <2>3. CASE PoweredOff
        BY <2>1, <2>2, <2>3, OffNext DEF PoweredOff
    <2>4. CASE Creating
        BY <2>1, <2>2, <2>4, CreatingNext DEF Creating
    <2>5. CASE Running
        BY <2>1, <2>2, <2>5, RunningNext DEF Running
    <2>6. QED
        BY <1>3, <2>3, <2>4, <2>5
<1>7. CASE Cut
    BY <1>3, <1>4, <1>5, <1>7, <1>2, CutWatched, CutOff
<1>8. CASE Attach
    <2>1. pc = "off" /\ seen' = seen
        BY <1>8 DEF Attach, obs
    <2>2. PoweredOff
        BY <1>3, <2>1 DEF Creating, Making, Running, Phase
    <2>3. (PoweredOff' \/ Creating' \/ Running') /\ (ctx' = ctx \/ ctx' = "load" \/ ~seen.made)
        BY <1>8, <2>2, AttachRuns
    <2>4. QED
        BY <1>4, <1>5, <2>1, <2>3
<1>9. CASE Driver \/ Client
    <2>1. Settled
        BY <1>9, DriverWatched, ClientWatched
    <2>2. Observed'
        BY <1>4, <1>5, <2>1 DEF Settled
    <2>3. CASE PoweredOff
        BY <1>9, <2>3, OffStep
    <2>4. CASE Creating
        <3>1. ~seen.made \/ pc = "dead"
            BY <1>4, <2>4 DEF Creating
        <3>2. QED
            BY <1>9, <2>2, <2>4, <3>1, CreatingStep
    <2>5. CASE Running
        BY <1>1, <1>9, <2>2, <2>5, RunningStep
    <2>6. QED
        BY <1>3, <2>3, <2>4, <2>5
<1>10. QED
    BY <1>6, <1>7, <1>8, <1>9 DEF Next

LEMMA InitWatching ==
    ASSUME Init
    PROVE  Watching
<1>1. want = [l \in LBs |-> AllPages("any")] /\ lost = [l \in LBs |-> {}] /\ seen = [made |-> FALSE, astray |-> FALSE]
    BY DEF Init
<1>2. AllPages("any") \in [PageNos -> {"any", "ff", "d"}]
    BY DEF AllPages
<1>3. QED
    BY <1>1, <1>2 DEF Watching, WantSet, LostSet, SeenSet

(* The observers have their types, and the invariant holds until a mapping *)
(* goes astray                                                             *)
THEOREM Invariance == Spec => []Watching /\ []IInv
<1>1. Init => Watching /\ IInv
    BY InitWatching, InitInv
<1>2. Watching /\ IInv /\ [Next]_vars => Watching' /\ IInv'
    BY WatchingNext, IInvNext
<1>3. QED
    BY <1>1, <1>2, PTL DEF Spec

-----------------------------------------------------------------------------
(* What the invariant gives *)

(* Where the tables are *)
LEMMA TablesPlaced ==
    ASSUME Running
    PROVE  /\ ni.main = 0 \/ (MgmtStart <= ni.main /\ ni.main <= ni.top)
           /\ ni.backup = 0 \/ (MgmtStart <= ni.backup /\ ni.backup <= ni.top)
<1>1. Areas(ni)
    BY DEF Running, Phase, Common
<1>2. /\ ni.main \in Nat /\ ni.backup \in Nat /\ ni.lo \in Nat /\ ni.top \in Nat /\ MgmtStart \in Nat
      /\ ni.lo <= ni.top
    BY <1>1, AreaTypes, Sizes
<1>3. CASE pc = "write"
    <2>1. WriteAt(flash, marked, ni, wr) /\ wr.site \in WriteSites
        BY <1>3, WritePhase
    <2>2. /\ ni.main = 0 \/ (MgmtStart <= ni.main /\ ni.main < ni.lo)
          /\ ni.backup = 0 \/ (ni.main < ni.backup /\ ni.backup < ni.lo /\ MgmtStart <= ni.main)
        BY <2>1 DEF WriteAt, WriteSites, MainIn, BackupIn
    <2>3. QED
        BY <1>2, <2>2
<1>4. CASE pc = "clean"
    <2>1. CleanAt(flash, marked, ni, wr) /\ wr.site \in {"rebuild_backup", "front", "next"}
        BY <1>4, CleanPhase
    <2>2. /\ MgmtStart <= ni.main /\ ni.main < ni.lo
          /\ ni.backup = 0 \/ (ni.main < ni.backup /\ ni.backup < ni.lo)
        BY <2>1 DEF CleanAt, MainIn, BackupIn
    <2>3. QED
        BY <1>2, <2>2
<1>5. CASE pc \notin {"write", "clean"}
    <2>1. AtRest(flash, marked, ni)
        BY <1>5, RestPhase
    <2>2. /\ ni.main = 0 \/ (MgmtStart <= ni.main /\ ni.main < ni.lo)
          /\ ni.backup = 0 \/ (ni.main < ni.backup /\ ni.backup < ni.lo /\ MgmtStart <= ni.main)
        BY <2>1 DEF AtRest, MainIn, BackupIn
    <2>3. QED
        BY <1>2, <2>2
<1>6. QED
    BY <1>3, <1>4, <1>5

LEMMA TypeHolds ==
    ASSUME Watching, IInv, ~seen.astray
    PROVE  TypeOK
<1>1. PoweredOff \/ Creating \/ Running
    BY DEF IInv
<1>2. flash \in FlashType /\ marked \in SUBSET Blocks
    BY <1>1 DEF PoweredOff, Off, Creating, Making, Running, Phase, Common
<1>3. ASSUME NEW b \in Blocks PROVE flash[b] \in DataContents \union {Sig} \/ flash[b].kind = "table"
    BY <1>2, Kinds DEF FlashType
<1>4. pc \in {"off", "dead", "create", "write", "clean", "ok", "failed", "update",
               "idle", "erase", "copy", "remapped", "refused", "retry"}
    BY <1>1 DEF PoweredOff, Off, Creating, Making, Running, Phase
<1>5. ni.up => ni \in Instances
    <2>1. ni = NoInstance \/ ni \in Instances
        BY <1>1 DEF PoweredOff, Off, Creating, Making, Fresh, Running, Phase, Common, Areas
    <2>2. ~NoInstance.up
        BY DEF NoInstance
    <2>3. QED
        BY <2>1, <2>2
<1>6. ASSUME ni \in Instances
      PROVE  /\ ni.bad \subseteq Blocks /\ ni.map \in [LBs -> Blocks \union {-1}]
             /\ {ni.main, ni.backup, ni.lo, ni.top, ni.sig} \subseteq Blocks
             /\ ni.count \in 0..MgmtStart /\ ni.wc \in Nat
    BY <1>6 DEF Instances
<1>7. QED
    BY <1>2, <1>3, <1>4, <1>5, <1>6 DEF TypeOK, Watching, WantSet, LostSet, SeenSet

LEMMA SurvivesHolds ==
    ASSUME Watching, IInv, ~seen.astray
    PROVE  TableSurvives
<1>1. Observed /\ (PoweredOff \/ Creating \/ Running)
    BY DEF IInv
<1>2. SUFFICES ASSUME seen.made, ~OneTable
               PROVE  Signatures # {} /\ Tables(Highest(Signatures)) # {}
    BY DEF TableSurvives
<1>3. ni.up => ctx = "load" \/ ni.backup # 0
    BY <1>2 DEF OneTable
<1>4. ASSUME flash \in FlashType, marked \in SUBSET Blocks, NEW s \in Blocks, FlashOK(flash, marked, s),
             Tabs(flash, marked) # {}
      PROVE  Signatures # {} /\ Tables(Highest(Signatures)) # {}
    BY <1>4, Found
<1>5. CASE PoweredOff
    <2>1. flash \in FlashType /\ marked \in SUBSET Blocks /\ Tabs(flash, marked) # {}
        BY <1>2, <1>5 DEF PoweredOff, Off
    <2>2. PICK s \in Blocks : FlashOK(flash, marked, s)
        BY <1>5, <2>1 DEF PoweredOff, Off
    <2>3. QED
        BY <1>4, <2>1, <2>2
<1>6. CASE Creating
    <2>1. ni.up /\ ni.backup = 0
        BY <1>6 DEF Creating, Making, Fresh, Instances
    <2>2. ctx \in {"create", "none"}
        BY <1>6 DEF Creating
    <2>3. QED
        BY <1>1, <1>2, <1>3, <1>6, <2>1, <2>2 DEF Observed, Creating
<1>7. CASE Running
    <2>1. Common(flash, marked, ni)
        BY <1>7 DEF Running, Phase
    <2>2. /\ flash \in FlashType /\ marked \in SUBSET Blocks /\ ni.sig \in Blocks /\ ni.up
          /\ FlashOK(flash, marked, ni.sig)
        BY <2>1 DEF Common, Areas, Instances
    <2>3. Tabs(flash, marked) # {}
        BY <1>3, <1>7, <2>2, InUse
    <2>4. QED
        BY <1>4, <2>2, <2>3
<1>8. QED
    BY <1>1, <1>5, <1>6, <1>7

LEMMA ExclusiveHolds ==
    ASSUME Watching, IInv, ~seen.astray
    PROVE  Exclusive
<1>1. Observed /\ (PoweredOff \/ Creating \/ Running)
    BY DEF IInv
<1>2. ASSUME pc \in {"write", "clean"}, wr.site # "sig", Usable # {}, ~wr.erased
      PROVE  Target \notin {ni.sig} \union {ni.map[l] : l \in Served}
    <2>1. Running
        BY <1>1, <1>2 DEF PoweredOff, Off, Creating, Making
    <2>2. /\ Common(flash, marked, ni) /\ wr \in Writes /\ wr.site \in WriteSites /\ SpanOK(ni, wr)
        BY <1>2, <2>1, WritePhase, CleanPhase DEF InWrite
    <2>3. Areas(ni)
        BY <2>2 DEF Common
    <2>4. Target \in Int /\ wr.ba <= Target /\ Target < wr.lim
        BY <1>2, <2>2, InRange
    <2>5. ni.top \in Nat /\ ni.sig \in Nat /\ ni.top < ni.sig /\ MgmtStart \in Nat
        BY <2>3, AreaTypes, Sizes
    <2>6. MgmtStart <= Target /\ Target < ni.top
        BY <2>2, <2>4, <2>5 DEF SpanOK
    <2>7. ASSUME NEW l \in Served PROVE Target # ni.map[l]
        <3>1. ni.map[l] \in LBs \union ((ni.top + 1)..(ni.sig - 1))
            BY <2>3, ServedIn DEF Served, DataBlocks
        <3>2. QED
            BY <2>4, <2>5, <2>6, <3>1, Sizes
    <2>8. QED
        BY <2>4, <2>5, <2>6, <2>7
<1>3. ASSUME ctx # "create", ni.up, NEW l \in Served
      PROVE  /\ ni.map[l] \notin {ni.main, ni.backup, ni.sig} \ {0}
             /\ \A k \in Served \ {l} : ni.map[k] # ni.map[l]
    <2>1. CASE PoweredOff
        BY <1>3, <2>1 DEF PoweredOff, Off, NoInstance
    <2>2. CASE Creating
        <3>1. ni.main = 0 /\ ni.backup = 0 /\ ni.sig = 0
            BY <1>3, <2>2 DEF Creating, Making, Fresh
        <3>2. /\ MapOK(ni.map, MgmtStart, MgmtStart)
              /\ \A k \in LBs : k < ni.count <=> ni.map[k] # -1
            BY <2>2 DEF Creating, Making, Fresh
        <3>3. \A k \in Served \ {l} : ni.map[k] # ni.map[l]
            BY <3>2 DEF MapOK, Served
        <3>4. QED
            BY <3>1, <3>3
    <2>3. CASE Running
        <3>1. Areas(ni)
            BY <2>3 DEF Running, Phase, Common
        <3>2. ni.map[l] \in LBs \union ((ni.top + 1)..(ni.sig - 1))
            BY <3>1, ServedIn DEF Served, DataBlocks
        <3>3. ni.top \in Nat /\ ni.sig \in Nat /\ ni.main \in Nat /\ ni.backup \in Nat /\ ni.top < ni.sig
              /\ MgmtStart < ni.sig
            BY <3>1, AreaTypes, Sizes
        <3>4. ni.map[l] \notin {ni.main, ni.backup, ni.sig} \ {0}
            BY <2>3, <3>2, <3>3, TablesPlaced, Sizes
        <3>5. MapOK(ni.map, ni.sig, ni.top) /\ \A k \in LBs : k < ni.count <=> ni.map[k] # -1
            BY <3>1 DEF Areas
        <3>6. \A k \in Served \ {l} : ni.map[k] # ni.map[l]
            BY <3>5 DEF MapOK, Served
        <3>7. QED
            BY <3>4, <3>6
    <2>4. QED
        BY <1>1, <2>1, <2>2, <2>3
<1>4. QED
    BY <1>2, <1>3 DEF Exclusive

(* nmbm_map_block took the block at the top each time and unmap_block_nmbm *)
(* the logical block's own one.  The properties below carry this premise   *)
(* themselves.                                                             *)
InPlace == ~seen.astray

(* The variables have their types: what nmbm_load_info_table takes from    *)
(* the flash and what the walks over the management area compute are       *)
(* blocks of the chip, on any layout                                       *)
THEOREM Types == Spec => [](InPlace => TypeOK)
<1>1. Watching /\ IInv => (InPlace => TypeOK)
    BY TypeHolds DEF InPlace
<1>2. QED
    BY <1>1, Invariance, PTL

(* A chip that was in use and is not down to one table has a signature and *)
(* a table that nmbm_load_info_table accepts at every moment of            *)
(* nmbm_update_info_table_once, nmbm_rescue_main_info_table and the        *)
(* repairs at attach, whatever fails and whenever the power goes, as long  *)
(* as nmbm_map_block passed no bad spare block                             *)
THEOREM TablesSurvive == Spec => []TableSurvives
<1>1. Watching /\ IInv => TableSurvives
    BY SurvivesHolds DEF TableSurvives
<1>2. QED
    BY <1>1, Invariance, PTL

(* nmbm_write_mgmt_range and nmbm_erase_range never touch a mapped block   *)
(* or the signature, and nmbm_map_block never gives out a block that is a  *)
(* table or serves another logical block, as long as the latter passed no  *)
(* bad spare block                                                         *)
THEOREM BlocksExclusive == Spec => []Exclusive
<1>1. Watching /\ IInv => Exclusive
    BY ExclusiveHolds DEF Exclusive
<1>2. QED
    BY <1>1, Invariance, PTL


-----------------------------------------------------------------------------
(* What is still owed to the client: what it was told and the driver did   *)
(* not give up                                                             *)
Sure == [l \in LBs |-> [p \in PageNos |-> IF p \in lost[l] THEN "any" ELSE want[l][p]]]
Fade(l, ps) == [Sure EXCEPT ![l] = [p \in PageNos |-> IF p \in ps THEN "any" ELSE @[p]]]

LEMMA SureType ==
    ASSUME Watching
    PROVE  Sure \in WantSet
<1>1. \A l \in LBs : \A p \in PageNos : want[l][p] \in {"any", "ff", "d"}
    BY DEF Watching, WantSet
<1>2. QED
    BY <1>1 DEF Sure, WantSet

LEMMA SurePage ==
    ASSUME NEW l \in LBs, NEW p \in PageNos
    PROVE  Sure[l][p] = IF p \in lost[l] THEN "any" ELSE want[l][p]
BY DEF Sure

LEMMA SureSame ==
    ASSUME want' = want, lost' = lost
    PROVE  Sure' = Sure
BY DEF Sure

(* Two observers that agree page by page are the same *)
LEMMA SurePages ==
    ASSUME NEW v \in WantSet,
           \A k \in LBs : \A q \in PageNos :
                v[k][q] = IF q \in lost'[k] THEN "any" ELSE want'[k][q]
    PROVE  Sure' = v
<1>1. \A k \in LBs : Sure'[k] = v[k]
    <2>1. SUFFICES ASSUME NEW k \in LBs PROVE Sure'[k] = v[k]
        OBVIOUS
    <2>2. Sure'[k] = [q \in PageNos |-> v[k][q]]
        BY DEF Sure
    <2>3. v[k] \in [PageNos -> {"any", "ff", "d"}]
        BY DEF WantSet
    <2>4. QED
        BY <2>2, <2>3
<1>2. Sure' = [k \in LBs |-> v[k]]
    BY <1>1 DEF Sure
<1>3. QED
    BY <1>2 DEF WantSet

LEMMA FadeType ==
    ASSUME Watching, NEW l \in LBs, NEW ps
    PROVE  /\ Fade(l, ps) \in WantSet
           /\ \A k \in LBs : \A q \in PageNos :
                Fade(l, ps)[k][q] = IF k = l /\ q \in ps THEN "any" ELSE Sure[k][q]
<1>1. Sure \in WantSet
    BY SureType
<1> DEFINE g == [p \in PageNos |-> IF p \in ps THEN "any" ELSE Sure[l][p]]
<1>2. g \in [PageNos -> {"any", "ff", "d"}] /\ \A q \in PageNos : g[q] = IF q \in ps THEN "any" ELSE Sure[l][q]
    BY <1>1 DEF WantSet
<1>3. Fade(l, ps) = [Sure EXCEPT ![l] = g]
    BY DEF Fade
<1> HIDE DEF g
<1>4. QED
    BY <1>1, <1>2, <1>3 DEF WantSet

LEMMA SureForget ==
    ASSUME Watching, NEW l \in LBs, NEW ps, want' = Forget(l, ps), lost' = lost
    PROVE  Sure' = Fade(l, ps)
<1>1. \A k \in LBs : \A q \in PageNos : want'[k][q] = IF k = l /\ q \in ps THEN "any" ELSE want[k][q]
    BY DEF Forget, Watching, WantSet
<1>2. \A k \in LBs : \A q \in PageNos : Fade(l, ps)[k][q] = IF q \in lost'[k] THEN "any" ELSE want'[k][q]
    BY <1>1, FadeType, SurePage
<1>3. QED
    BY <1>2, FadeType, SurePages

LEMMA SureLose ==
    ASSUME Watching, NEW l \in LBs, NEW ps, want' = want, lost' = Lose(l, ps)
    PROVE  Sure' = Fade(l, ps)
<1>1. \A k \in LBs : lost'[k] = IF k = l THEN lost[k] \union ps ELSE lost[k]
    BY DEF Lose, Watching, LostSet
<1>2. \A k \in LBs : \A q \in PageNos : Fade(l, ps)[k][q] = IF q \in lost'[k] THEN "any" ELSE want'[k][q]
    <2>1. SUFFICES ASSUME NEW k \in LBs, NEW q \in PageNos
                   PROVE  Fade(l, ps)[k][q] = IF q \in lost'[k] THEN "any" ELSE want[k][q]
        OBVIOUS
    <2>2. Fade(l, ps)[k][q] = IF k = l /\ q \in ps THEN "any" ELSE Sure[k][q]
        BY FadeType
    <2>3. Sure[k][q] = IF q \in lost[k] THEN "any" ELSE want[k][q]
        BY SurePage
    <2>4. QED
        BY <1>1, <2>2, <2>3
<1>3. QED
    BY <1>2, FadeType, SurePages

LEMMA SureErased ==
    ASSUME Watching, NEW l \in LBs, want' = [want EXCEPT ![l] = AllPages("ff")], lost' = [lost EXCEPT ![l] = {}]
    PROVE  Sure' = [Sure EXCEPT ![l] = AllPages("ff")]
<1> DEFINE v == [Sure EXCEPT ![l] = AllPages("ff")]
<1>1. Sure \in WantSet /\ AllPages("ff") \in [PageNos -> {"any", "ff", "d"}] /\ \A q \in PageNos : AllPages("ff")[q] = "ff"
    BY SureType DEF AllPages
<1>2. v \in WantSet /\ v[l] = AllPages("ff") /\ \A k \in LBs \ {l} : v[k] = Sure[k]
    BY <1>1 DEF WantSet
<1>3. /\ want'[l] = AllPages("ff") /\ \A k \in LBs \ {l} : want'[k] = want[k]
      /\ lost'[l] = {} /\ \A k \in LBs \ {l} : lost'[k] = lost[k]
    BY DEF Watching, WantSet, LostSet
<1> HIDE DEF v
<1>4. \A k \in LBs : \A q \in PageNos : v[k][q] = IF q \in lost'[k] THEN "any" ELSE want'[k][q]
    BY <1>1, <1>2, <1>3, SurePage
<1>5. QED
    BY <1>2, <1>4, SurePages DEF v

LEMMA SureWrote ==
    ASSUME Watching, NEW l \in LBs, NEW p \in PageNos, NEW blank \in BOOLEAN,
           want' = [want EXCEPT ![l][p] = "d"],
           lost' = [lost EXCEPT ![l] = IF blank THEN @ \ {p} ELSE @ \union {p}]
    PROVE  Sure' = [Sure EXCEPT ![l][p] = IF blank THEN "d" ELSE "any"]
<1> DEFINE u == IF blank THEN "d" ELSE "any"
           g == [Sure[l] EXCEPT ![p] = u]
           v == [Sure EXCEPT ![l] = g]
<1>1. Sure \in WantSet /\ u \in {"d", "any"}
    BY SureType
<1>2. [Sure EXCEPT ![l][p] = u] = v
    OBVIOUS
<1>3. g \in [PageNos -> {"any", "ff", "d"}] /\ g[p] = u /\ \A q \in PageNos \ {p} : g[q] = Sure[l][q]
    BY <1>1 DEF WantSet
<1> HIDE DEF g
<1>4. v \in WantSet /\ v[l] = g /\ \A k \in LBs \ {l} : v[k] = Sure[k]
    BY <1>1, <1>3 DEF WantSet
<1>5. /\ \A q \in PageNos : want'[l][q] = IF q = p THEN "d" ELSE want[l][q]
      /\ \A k \in LBs \ {l} : want'[k] = want[k]
    BY DEF Watching, WantSet
<1>6. /\ lost'[l] = IF blank THEN lost[l] \ {p} ELSE lost[l] \union {p}
      /\ \A k \in LBs \ {l} : lost'[k] = lost[k]
    BY DEF Watching, LostSet
<1> HIDE DEF v
<1>7. ASSUME NEW k \in LBs, NEW q \in PageNos
      PROVE  v[k][q] = IF q \in lost'[k] THEN "any" ELSE want'[k][q]
    <2>1. CASE k # l
        BY <1>4, <1>5, <1>6, <2>1, SurePage
    <2>2. CASE k = l /\ q # p
        BY <1>3, <1>4, <1>5, <1>6, <2>2, SurePage
    <2>3. CASE k = l /\ q = p
        BY <1>3, <1>4, <1>5, <1>6, <2>3
    <2>4. QED
        BY <2>1, <2>2, <2>3
<1>8. QED
    BY <1>2, <1>4, <1>7, SurePages

-----------------------------------------------------------------------------
(* What the blocks read as.  v stands for Sure, o for op; X are logical    *)
(* blocks that are left out.                                               *)

Cont(f, b) == IF f[b].kind = "data" THEN f[b].pages ELSE AllPages("x")
AnyOf(v, l) == \A q \in PageNos : v[l][q] = "any"
Agree(f, v, l, b) == \A q \in PageNos : v[l][q] \in {"any", Cont(f, b)[q]}

(* A mapping table by which everything can be read back *)
Reads(f, v, m, X) == \A l \in LBs \ X : m[l] # -1 => Agree(f, v, l, m[l])

(* The mapping m is an earlier one than m2: a block was only ever replaced *)
(* by a spare block below all that were mapped before                      *)
Above(m, m2, v, X) ==
    \A l \in LBs \ X :
        \/ AnyOf(v, l) \/ m[l] = m2[l] \/ m[l] \in LBs \union {-1}
        \/ m2[l] \notin LBs \union {-1} /\ m[l] > m2[l]

(* Whichever table is loaded, what it maps to can be read; and the older   *)
(* table maps to nothing that the newer one calls unmapped                 *)
Stored(f, K, v, X) ==
    /\ \A a \in Tabs(f, K) : Reads(f, v, f[a].map, X)
    /\ \A a, b \in Tabs(f, K) : f[a].wc < f[b].wc => Above(f[a].map, f[b].map, v, X)
Near(f, K, n, v, X) == \A b \in Tabs(f, K) : Above(f[b].map, n.map, v, X)

(* The tables but those at S have the mapping of the instance *)
Current(f, K, n, S) == \A b \in Tabs(f, K) \ S : f[b].map = n.map
Earlier(f, K, n, o) == \A b \in Tabs(f, K) : f[b].map = [n.map EXCEPT ![o.lb] = o.old]

Stale(n, w) ==
    IF w.site = "backup" THEN {n.main, n.backup}
    ELSE IF w.site \in {"main", "only_main"} THEN {n.main}
    ELSE IF w.site = "only_backup" THEN {n.backup} ELSE {}

Level(f, K, n, p, w, c, o) ==
    /\ p = "write" => Current(f, K, n, Stale(n, w))
    /\ p \in {"clean", "failed", "idle", "remapped", "refused", "retry"} => Current(f, K, n, {})
    /\ p = "ok" => Current(f, K, n, {}) \/ (c = "create" /\ n.changed)
    /\ p = "update" => Current(f, K, n, {}) \/ n.changed
    /\ p \in {"erase", "copy"} =>
            IF c = "remap" THEN n.changed /\ Earlier(f, K, n, o) ELSE Current(f, K, n, {})

(* nmbm_update_info_table never builds the tables from nothing *)
NoRebuild(K, n, p, w, c) ==
    /\ p \in {"write", "clean"} /\ c \in Updating =>
            /\ w.site # "rebuild_backup"
            /\ w.site = "rebuild_main" => Gone(K, n, MgmtStart, n.top)
    /\ p \notin {"write", "clean"} /\ n.main = 0 => n.prot

(* The call in progress *)
Serving(p, c) ==
    p \in {"idle", "erase", "copy", "remapped", "refused", "retry"} \/ c \in {"remap", "mapfail", "unmap"}
OpKind(p, c, o) ==
    /\ p = "idle" \/ c \in {"load", "create", "boot", "tail"} => o = NoOp
    /\ c = "unmap" => o.act \in {"repair", "mark_good"}
    /\ p \in {"erase", "copy"} /\ c = "none" => o.act = "repair"
    /\ p \in {"remapped", "refused", "retry"} \/ c \in {"remap", "mapfail"} =>
            o.act \notin {"repair", "mark_good"}
Repairing(o) == IF o.act = "repair" THEN {o.lb} ELSE {}
Absent(p, o) == IF p \in {"erase", "copy"} THEN {o.lb} ELSE Repairing(o)

(* The block that is to be copied can be read, or is known to be lost *)
Readable(f, v, o) == Agree(f, v, o.lb, o.old) \/ Cont(f, o.old)[1] = "x"
Copying(f, n, p, w, c, o, v) ==
    p \in {"erase", "copy"} \/ (c = "unmap" /\ o.act = "repair") =>
        /\ n.map[o.lb] = o.new
        /\ \/ Readable(f, v, o)
           \/ c = "unmap" /\ p = "write" /\ w.erased /\ w.ba = o.old
        /\ o.old # o.new
        /\ \A q \in PageNos : q > o.len => v[o.lb][q] \in {"ff", "any"}
        /\ p = "copy" /\ ~o.dirty => f[o.new] = Erased
OpWants(o, v) ==
    /\ o.act = "mark_good" => AnyOf(v, o.lb)
    /\ o.act = "write" =>
            \A q \in PageNos : IF q > o.len THEN v[o.lb][q] \in {"ff", "any"} ELSE v[o.lb][q] # "ff"

RunData(f, K, n, p, w, c, o, v, made) ==
    /\ c = "load" => ~n.prot
    /\ Serving(p, c) => made
    /\ Reads(f, v, n.map, Absent(p, o))
    /\ ~n.prot =>
            /\ Stored(f, K, v, Repairing(o)) /\ Near(f, K, n, v, Repairing(o))
            /\ Level(f, K, n, p, w, c, o)
    /\ NoRebuild(K, n, p, w, c)
    /\ OpKind(p, c, o) /\ OpWants(o, v) /\ Copying(f, n, p, w, c, o, v)

(* Pages are written in order *)
Ordered(v) ==
    \A l \in LBs : \A p, q \in PageNos : p < q /\ v[l][p] = "ff" => v[l][q] \in {"ff", "any"}

(* A write that is repeated leaves no erased page below it *)
InOrder ==
    /\ Ordered(want)
    /\ \A l \in LBs : \A q \in PageNos :
            op.act = "write" /\ op.lb = l /\ q <= op.len => want[l][q] # "ff"

(* What makes DataIntact inductive.  Before the driver is first attached   *)
(* nothing was written; with the power off every table on the flash leads  *)
(* to the data; and with an instance RunData holds, which says in addition *)
(* which tables are behind the instance at each point of a call, and what  *)
(* is left to be copied.                                                   *)
DInv ==
    ~seen.astray =>
        /\ ~seen.made => \A l \in LBs : AnyOf(want, l)
        /\ InOrder
        /\ PoweredOff => Stored(flash, marked, Sure, {})
        /\ Running => RunData(flash, marked, ni, pc, wr, ctx, op, Sure, seen.made)


(* Pages that need not be read back any more, and none that need to anew *)
Fades(v, v2, X) == \A l \in LBs \ X : \A q \in PageNos : v2[l][q] \in {"any", v[l][q]}

LEMMA FadedAny ==
    ASSUME NEW v, NEW v2, NEW X, Fades(v, v2, X), NEW l \in LBs \ X, AnyOf(v, l)
    PROVE  AnyOf(v2, l)
BY DEF Fades, AnyOf

(* A mapping stays readable as long as the blocks it maps to keep their    *)
(* contents, or nothing need be read from them any more                    *)
LEMMA ReadsKept ==
    ASSUME NEW f, NEW f2, NEW v, NEW v2, NEW m, NEW X, Fades(v, v2, X), Reads(f, v, m, X),
           \A l \in LBs \ X : m[l] # -1 => AnyOf(v2, l) \/ Cont(f2, m[l]) = Cont(f, m[l])
    PROVE  Reads(f2, v2, m, X)
<1>1. SUFFICES ASSUME NEW l \in LBs \ X, m[l] # -1 PROVE Agree(f2, v2, l, m[l])
    BY DEF Reads
<1>2. CASE AnyOf(v2, l)
    BY <1>2 DEF Agree, AnyOf
<1>3. CASE Cont(f2, m[l]) = Cont(f, m[l])
    <2>1. Agree(f, v, l, m[l])
        BY <1>1 DEF Reads
    <2>2. QED
        BY <1>3, <2>1 DEF Agree, Fades
<1>4. QED
    BY <1>1, <1>2, <1>3

LEMMA AboveKept ==
    ASSUME NEW m, NEW m2, NEW v, NEW v2, NEW X, Fades(v, v2, X), Above(m, m2, v, X)
    PROVE  Above(m, m2, v2, X)
BY FadedAny DEF Above

(* So do the tables on the flash when none is added                        *)
LEMMA StoredKept ==
    ASSUME NEW f, NEW K, NEW f2, NEW K2, NEW v, NEW v2, NEW X, NEW n, NEW n2,
           Fades(v, v2, X), Stored(f, K, v, X), Near(f, K, n, v, X), n2.map = n.map,
           Tabs(f2, K2) \subseteq Tabs(f, K), \A a \in Tabs(f2, K2) : f2[a] = f[a],
           \A a \in Tabs(f2, K2) : \A l \in LBs \ X :
                f[a].map[l] # -1 => AnyOf(v2, l) \/ Cont(f2, f[a].map[l]) = Cont(f, f[a].map[l])
    PROVE  Stored(f2, K2, v2, X) /\ Near(f2, K2, n2, v2, X)
<1>1. ASSUME NEW a \in Tabs(f2, K2) PROVE Reads(f2, v2, f2[a].map, X)
    <2>1. Reads(f, v, f[a].map, X)
        BY DEF Stored
    <2>2. Reads(f2, v2, f[a].map, X)
        BY <2>1, ReadsKept
    <2>3. QED
        BY <2>2
<1>2. ASSUME NEW a \in Tabs(f2, K2), NEW b \in Tabs(f2, K2), f2[a].wc < f2[b].wc
      PROVE  Above(f2[a].map, f2[b].map, v2, X)
    <2>1. f2[a] = f[a] /\ f2[b] = f[b] /\ a \in Tabs(f, K) /\ b \in Tabs(f, K)
        OBVIOUS
    <2>2. Above(f[a].map, f[b].map, v, X)
        BY <1>2, <2>1 DEF Stored
    <2>3. QED
        BY <2>1, <2>2, AboveKept
<1>3. ASSUME NEW a \in Tabs(f2, K2) PROVE Above(f2[a].map, n2.map, v2, X)
    <2>1. Above(f[a].map, n.map, v, X)
        BY DEF Near
    <2>2. QED
        BY <2>1, AboveKept
<1>4. QED
    BY <1>1, <1>2, <1>3 DEF Stored, Near

(* What the tables map to is in the data area of the instance *)
LEMMA NearIn ==
    ASSUME NEW f, NEW K, NEW n, NEW v, NEW X, Common(f, K, n), Near(f, K, n, v, X),
           NEW b \in Tabs(f, K), NEW l \in LBs \ X, f[b].map[l] # -1, ~AnyOf(v, l)
    PROVE  f[b].map[l] \in DataBlocks(n)
<1>1. Areas(n) /\ TabOK(f, K, n.sig, b)
    BY DEF Common, FlashOK
<1>2. n.top \in Nat /\ n.sig \in Nat /\ MgmtStart \in Nat
    BY <1>1, AreaTypes, Sizes
<1>3. f[b].map[l] \in LBs \/ (f[b].map[l] \in Int /\ f[b].map[l] < n.sig)
    BY <1>1, <1>2 DEF TabOK, MapOK
<1>4. n.map[l] \in {-1} \union LBs \union ((n.top + 1)..(n.sig - 1))
    BY <1>1 DEF Areas, MapOK
<1>5. \/ f[b].map[l] = n.map[l] \/ f[b].map[l] \in LBs \union {-1}
      \/ n.map[l] \notin LBs \union {-1} /\ f[b].map[l] > n.map[l]
    BY DEF Near, Above
<1>6. QED
    BY <1>2, <1>3, <1>4, <1>5 DEF DataBlocks

LEMMA MapsIn ==
    ASSUME NEW n, Areas(n), NEW l \in LBs, n.map[l] # -1
    PROVE  n.map[l] \in DataBlocks(n)
BY DEF Areas, MapOK, DataBlocks

-----------------------------------------------------------------------------
(* While tables are written *)

(* What is on the flash can be read back by way of every table and of the  *)
(* instance                                                                *)
Safe(f, K, n, v, X) ==
    /\ Reads(f, v, n.map, X)
    /\ ~n.prot => Stored(f, K, v, X) /\ Near(f, K, n, v, X)

LEMMA ContKept ==
    ASSUME NEW f, NEW f2, NEW b, f2[b] = f[b]
    PROVE  Cont(f2, b) = Cont(f, b)
BY DEF Cont

(* A block outside the data area is lost *)
LEMMA SafeLost ==
    ASSUME NEW f, NEW K, NEW n, NEW f2, NEW K2, NEW n2, NEW v, NEW X, NEW b,
           Common(f, K, n), Safe(f, K, n, v, X), Lost(f, K, f2, K2, b), b \notin DataBlocks(n),
           n2.map = n.map, n2.prot = n.prot
    PROVE  Safe(f2, K2, n2, v, X)
<1>1. f \in FlashType /\ K \in SUBSET Blocks /\ Areas(n) /\ n.sig \in Nat /\ n.top \in Nat
    BY AreaTypes DEF Common
<1>2. /\ Tabs(f2, K2) = Tabs(f, K) \ {b}
      /\ \A x \in Tabs(f2, K2) : f2[x] = f[x]
      /\ \A x \in Blocks \ {b} : f2[x] = f[x]
    BY <1>1, LostBlock
<1>3. DataBlocks(n) \subseteq Blocks
    BY <1>1, AreaTypes, Sizes DEF DataBlocks
<1>4. \A x \in DataBlocks(n) : Cont(f2, x) = Cont(f, x)
    BY <1>2, <1>3, ContKept
<1>5. Fades(v, v, X)
    BY DEF Fades
<1>6. \A l \in LBs \ X : n.map[l] # -1 => Cont(f2, n.map[l]) = Cont(f, n.map[l])
    BY <1>1, <1>4, MapsIn
<1>7. Reads(f2, v, n.map, X)
    BY <1>5, <1>6, ReadsKept DEF Safe
<1>8. ASSUME ~n.prot PROVE Stored(f2, K2, v, X) /\ Near(f2, K2, n2, v, X)
    <2>1. Stored(f, K, v, X) /\ Near(f, K, n, v, X)
        BY <1>8 DEF Safe
    <2>2. ASSUME NEW a \in Tabs(f2, K2), NEW l \in LBs \ X, f[a].map[l] # -1
          PROVE  AnyOf(v, l) \/ Cont(f2, f[a].map[l]) = Cont(f, f[a].map[l])
        <3>1. a \in Tabs(f, K)
            BY <1>2
        <3>2. ~AnyOf(v, l) => f[a].map[l] \in DataBlocks(n)
            BY <2>1, <2>2, <3>1, NearIn
        <3>3. QED
            BY <1>4, <3>2
    <2>3. Tabs(f2, K2) \subseteq Tabs(f, K)
        BY <1>2
    <2>4. QED
        BY <1>2, <1>5, <2>1, <2>2, <2>3, StoredKept
<1>9. QED
    BY <1>7, <1>8 DEF Safe

(* Noting bad blocks changes no mapping                                    *)
LEMMA SafeNoted ==
    ASSUME NEW f, NEW K, NEW n, NEW n2, NEW v, NEW X, Safe(f, K, n, v, X),
           n2.map = n.map, n.prot => n2.prot
    PROVE  Safe(f, K, n2, v, X)
BY DEF Safe, Near

LEMMA CurrentLost ==
    ASSUME NEW f, NEW K, NEW n, NEW f2, NEW K2, NEW n2, NEW b, NEW S,
           f \in FlashType, K \in SUBSET Blocks, Lost(f, K, f2, K2, b), n2.map = n.map, Current(f, K, n, S)
    PROVE  Current(f2, K2, n2, S)
<1>1. Tabs(f2, K2) = Tabs(f, K) \ {b} /\ \A x \in Tabs(f2, K2) : f2[x] = f[x]
    BY LostBlock
<1>2. QED
    BY <1>1 DEF Current

(* A block outside the data area takes the table of the instance *)
LEMMA SafePut ==
    ASSUME NEW f, NEW K, NEW n, NEW f2, NEW n2, NEW v, NEW X, NEW a \in Blocks, NEW ca,
           Common(f, K, n), Safe(f, K, n, v, X), CacheOK(f, K, n, ca), Put(f, a, ca, f2),
           a \notin K, a \notin DataBlocks(n), n2.map = n.map, n.prot => n2.prot
    PROVE  Safe(f2, K, n2, v, X)
<1>1. f \in FlashType /\ K \in SUBSET Blocks /\ Areas(n) /\ n.sig \in Nat /\ n.top \in Nat
    BY AreaTypes DEF Common
<1>2. ca \in TabSet /\ ca.map = n.map /\ ca.wc = n.wc /\ ca.kind = "table"
    BY Kinds DEF CacheOK
<1>3. f2[a] = ca /\ \A x \in Blocks \ {a} : f2[x] = f[x]
    BY <1>1 DEF Put, FlashType
<1>4. Tabs(f2, K) = Tabs(f, K) \union {a}
    BY <1>2, <1>3 DEF Tabs
<1>5. DataBlocks(n) \subseteq Blocks
    BY <1>1, AreaTypes, Sizes DEF DataBlocks
<1>6. \A x \in DataBlocks(n) : Cont(f2, x) = Cont(f, x)
    BY <1>3, <1>5, ContKept
<1>7. Fades(v, v, X)
    BY DEF Fades
<1>8. \A l \in LBs \ X : n.map[l] # -1 => Cont(f2, n.map[l]) = Cont(f, n.map[l])
    BY <1>1, <1>6, MapsIn
<1>9. Reads(f2, v, n.map, X)
    BY <1>7, <1>8, ReadsKept DEF Safe
<1>10. ASSUME ~n2.prot PROVE Stored(f2, K, v, X) /\ Near(f2, K, n2, v, X)
    <2>1. Stored(f, K, v, X) /\ Near(f, K, n, v, X)
        BY <1>10 DEF Safe
    <2>2. ASSUME NEW x \in Tabs(f, K) \ {a} PROVE Reads(f2, v, f[x].map, X)
        <3>1. ASSUME NEW l \in LBs \ X, f[x].map[l] # -1
              PROVE  AnyOf(v, l) \/ Cont(f2, f[x].map[l]) = Cont(f, f[x].map[l])
            <4>1. ~AnyOf(v, l) => f[x].map[l] \in DataBlocks(n)
                BY <2>1, <3>1, NearIn
            <4>2. QED
                BY <1>6, <4>1
        <3>2. Reads(f, v, f[x].map, X)
            BY <2>1 DEF Stored
        <3>3. QED
            BY <1>7, <3>1, <3>2, ReadsKept
    <2>3. \A x \in Tabs(f, K) \ {a} : f2[x] = f[x] /\ x \in Blocks /\ f[x].wc <= n.wc /\ f[x].wc \in Nat
        <3>1. \A x \in Tabs(f, K) : x \in Blocks /\ f[x].kind = "table" /\ f[x] \in DataContents \union {Sig} \union TabSet
            BY <1>1 DEF Tabs, FlashType
        <3>2. \A x \in Tabs(f, K) : f[x] \in TabSet
            BY <3>1, Kinds
        <3>3. \A x \in Tabs(f, K) : f[x].wc \in Nat
            BY <3>2 DEF TabSet
        <3>4. QED
            BY <1>3, <3>1, <3>3 DEF Common, Known
    <2>4. \A x \in Tabs(f, K) \ {a} : Above(f[x].map, n.map, v, X)
        BY <2>1 DEF Near
    <2>5. Above(n.map, n.map, v, X)
        BY DEF Above
    <2>6. \A x, y \in Tabs(f, K) : f[x].wc < f[y].wc => Above(f[x].map, f[y].map, v, X)
        BY <2>1 DEF Stored
    <2>7. n.wc \in Nat
        BY <1>1, AreaTypes
    <2>8. \A x \in Tabs(f2, K) : Reads(f2, v, f2[x].map, X)
        BY <1>2, <1>3, <1>4, <1>9, <2>2, <2>3
    <2>9. ASSUME NEW x \in Tabs(f2, K), NEW y \in Tabs(f2, K), f2[x].wc < f2[y].wc
          PROVE  Above(f2[x].map, f2[y].map, v, X)
        <3>1. CASE x = a
            BY <1>2, <1>3, <1>4, <2>3, <2>7, <2>9, <3>1
        <3>2. CASE x # a /\ y = a
            BY <1>2, <1>3, <1>4, <2>3, <2>4, <3>2
        <3>3. CASE x # a /\ y # a
            BY <1>4, <2>3, <2>6, <2>9, <3>3
        <3>4. QED
            BY <3>1, <3>2, <3>3
    <2>10. \A x \in Tabs(f2, K) : Above(f2[x].map, n2.map, v, X)
        BY <1>2, <1>3, <1>4, <2>3, <2>4, <2>5
    <2>11. QED
        BY <2>8, <2>9, <2>10 DEF Stored, Near
<1>11. QED
    BY <1>9, <1>10 DEF Safe

LEMMA CurrentPut ==
    ASSUME NEW f, NEW K, NEW n, NEW f2, NEW n2, NEW a \in Blocks, NEW ca, NEW S,
           f \in FlashType, CacheOK(f, K, n, ca), Put(f, a, ca, f2), a \notin K, n2.map = n.map,
           Current(f, K, n, S)
    PROVE  Current(f2, K, n2, S \ {a})
<1>1. ca.map = n.map /\ ca.kind = "table"
    BY Kinds DEF CacheOK
<1>2. f2[a] = ca /\ \A x \in Blocks \ {a} : f2[x] = f[x]
    BY DEF Put, FlashType
<1>3. Tabs(f2, K) = Tabs(f, K) \union {a} /\ \A x \in Tabs(f, K) : x \in Blocks
    BY <1>1, <1>2 DEF Tabs
<1>4. QED
    BY <1>1, <1>2, <1>3 DEF Current

DataNow == RunData(flash, marked, ni, pc, wr, ctx, op, Sure, seen.made)

LEMMA DataNext ==
    DataNow' <=> RunData(flash', marked', ni', pc', wr', ctx', op', Sure', seen'.made)
BY DEF DataNow

(* A step of a function that writes tables *)
LEMMA WriteData ==
    ASSUME DataNow, pc \in {"write", "clean", "update", "ok"},
           pc' \in {"write", "clean", "ok", "failed", "update"},
           Sure' = Sure, op' = op, ctx' = ctx, seen' = seen, ni'.map = ni.map, ctx = "load" => ~ni'.prot,
           Safe(flash', marked', ni', Sure, Repairing(op)),
           ~ni'.prot => Level(flash', marked', ni', pc', wr', ctx, op),
           NoRebuild(marked', ni', pc', wr', ctx),
           ctx = "unmap" /\ op.act = "repair" =>
                Readable(flash', Sure, op) \/ (pc' = "write" /\ wr'.erased /\ wr'.ba = op.old)
    PROVE  DataNow'
<1>1. /\ Serving(pc, ctx) => seen.made
      /\ OpKind(pc, ctx, op) /\ OpWants(op, Sure) /\ Copying(flash, ni, pc, wr, ctx, op, Sure)
    BY DEF DataNow, RunData
<1>2. Serving(pc', ctx) => seen.made
    BY <1>1 DEF Serving
<1>3. OpKind(pc', ctx, op)
    BY <1>1 DEF OpKind
<1>4. Absent(pc', op) = Repairing(op)
    BY DEF Absent
<1>5. Copying(flash', ni', pc', wr', ctx, op, Sure)
    BY <1>1 DEF Copying
<1>6. RunData(flash', marked', ni', pc', wr', ctx, op, Sure, seen.made)
    BY <1>1, <1>2, <1>3, <1>4, <1>5 DEF RunData, Safe
<1>7. QED
    BY <1>6, DataNext

LEMMA WriteSafe ==
    ASSUME DataNow, pc \notin {"erase", "copy"}
    PROVE  /\ Safe(flash, marked, ni, Sure, Repairing(op)) /\ (ctx = "load" => ~ni.prot)
           /\ ~ni.prot => Level(flash, marked, ni, pc, wr, ctx, op)
           /\ NoRebuild(marked, ni, pc, wr, ctx)
<1>1. Absent(pc, op) = Repairing(op)
    BY DEF Absent
<1>2. QED
    BY <1>1 DEF DataNow, RunData, Safe

LEMMA TableArea ==
    ASSUME NEW n, Areas(n), NEW b \in Int, MgmtStart <= b, b <= n.top
    PROVE  b \notin DataBlocks(n)
<1>1. n.top \in Nat /\ n.sig \in Nat
    BY AreaTypes
<1>2. QED
    BY <1>1, Sizes DEF DataBlocks

LEMMA CleanNotRepair ==
    ASSUME Running, DataNow, pc = "clean"
    PROVE  ctx # "unmap" /\ ctx \notin Updating
<1>1. wr.site \in {"rebuild_backup", "front", "next"} /\ SiteCtx(wr.site, ctx)
    BY CleanPhase
<1>2. NoRebuild(marked, ni, pc, wr, ctx)
    BY WriteSafe
<1>3. QED
    BY <1>1, <1>2 DEF SiteCtx, NoRebuild, Updating

(* A block is lost, or is erased, and the function goes on *)
LEMMA StayData ==
    ASSUME Running, DataNow, pc \in {"write", "clean"}, pc' = pc,
           Sure' = Sure, op' = op, ctx' = ctx, seen' = seen, NEW b \in Int, MgmtStart <= b, b <= ni.top,
           Lost(flash, marked, flash', marked', b), Noting(ni, ni', marked'), wr'.site = wr.site,
           ctx = "unmap" /\ op.act = "repair" =>
                Readable(flash', Sure, op) \/ (pc' = "write" /\ wr'.erased /\ wr'.ba = op.old)
    PROVE  DataNow'
<1>1. Common(flash, marked, ni)
    BY WritePhase, CleanPhase
<1>2. Areas(ni) /\ flash \in FlashType /\ marked \in SUBSET Blocks
    BY <1>1 DEF Common
<1>3. b \notin DataBlocks(ni)
    BY <1>2, TableArea
<1>4. /\ ni'.map = ni.map /\ ni'.prot = ni.prot /\ ni'.main = ni.main /\ ni'.backup = ni.backup
      /\ ni'.top = ni.top /\ ni.bad \subseteq ni'.bad
    BY DEF Noting
<1>5. /\ Safe(flash, marked, ni, Sure, Repairing(op)) /\ (ctx = "load" => ~ni.prot)
      /\ ~ni.prot => Level(flash, marked, ni, pc, wr, ctx, op)
      /\ NoRebuild(marked, ni, pc, wr, ctx)
    BY WriteSafe
<1>6. Safe(flash', marked', ni', Sure, Repairing(op))
    BY <1>1, <1>3, <1>4, <1>5, SafeLost
<1>7. marked \subseteq marked'
    BY <1>2, LostBlock
<1>8. NoRebuild(marked', ni', pc', wr', ctx)
    BY <1>4, <1>5, <1>7 DEF NoRebuild, Gone
<1>9. ASSUME ~ni'.prot PROVE Level(flash', marked', ni', pc', wr', ctx, op)
    <2>1. Level(flash, marked, ni, pc, wr, ctx, op)
        BY <1>4, <1>5, <1>9
    <2>2. Stale(ni', wr') = Stale(ni, wr)
        BY <1>4 DEF Stale
    <2>3. CASE pc = "write"
        <3>1. Current(flash, marked, ni, Stale(ni, wr))
            BY <2>1, <2>3 DEF Level
        <3>2. Current(flash', marked', ni', Stale(ni, wr))
            BY <1>2, <1>4, <3>1, CurrentLost
        <3>3. QED
            BY <2>2, <2>3, <3>2 DEF Level
    <2>4. CASE pc = "clean"
        <3>1. Current(flash, marked, ni, {})
            BY <2>1, <2>4 DEF Level
        <3>2. Current(flash', marked', ni', {})
            BY <1>2, <1>4, <3>1, CurrentLost
        <3>3. QED
            BY <2>4, <3>2 DEF Level
    <2>5. QED
        BY <2>3, <2>4
<1>10. QED
    BY <1>4, <1>5, <1>6, <1>8, <1>9, WriteData

LEMMA FirstPage == 1 \in PageNos /\ AllPages("x")[1] = "x" /\ Torn.kind = "data" /\ Torn.pages[1] = "x"
<1>1. 1 \in PageNos
    BY ChipAssumption DEF PageNos
<1>2. QED
    BY <1>1 DEF AllPages, Torn, Data

LEMMA ReadableKept ==
    ASSUME NEW f, NEW f2, NEW v, NEW o, Readable(f, v, o), f2[o.old] = f[o.old]
    PROVE  Readable(f2, v, o)
<1>1. Cont(f2, o.old) = Cont(f, o.old)
    BY ContKept
<1>2. QED
    BY <1>1 DEF Readable, Agree

LEMMA ReadableLost ==
    ASSUME NEW f, NEW v, NEW o, f[o.old] = Torn \/ f[o.old].kind = "table"
    PROVE  Readable(f, v, o)
<1>1. Cont(f, o.old)[1] = "x"
    BY FirstPage DEF Cont
<1>2. QED
    BY <1>1 DEF Readable

(* During the repair *)
LEMMA RepairOld ==
    ASSUME Running, DataNow, pc = "write", ctx = "unmap", op.act = "repair"
    PROVE  op.old \in Blocks /\ (Readable(flash, Sure, op) \/ (wr.erased /\ wr.ba = op.old))
<1>1. OpOK(ni, pc, ctx, op)
    BY WritePhase
<1>2. op \in Ops
    BY <1>1 DEF OpOK
<1>3. Copying(flash, ni, pc, wr, ctx, op, Sure)
    BY DEF DataNow, RunData
<1>4. QED
    BY <1>2, <1>3 DEF Copying, Ops

(* nmbm_write_mgmt_range erases the block for the table                    *)
LEMMA WriteErasedData ==
    ASSUME Running, DataNow, WriteErase
    PROVE  DataNow'
<1>1. pc = "write" /\ ~wr.erased /\ Usable # {} /\ ctx' = ctx /\ op' = op /\ Sure' = Sure /\ seen' = seen
    BY SureSame DEF WriteErase, obs
<1>2. /\ Common(flash, marked, ni) /\ InWrite(flash, marked, ni, wr) /\ wr.site \in WriteSites
    BY <1>1, WritePhase
<1>3. wr \in Writes /\ SpanOK(ni, wr) /\ Areas(ni) /\ flash \in FlashType /\ marked \in SUBSET Blocks
    BY <1>2 DEF InWrite, Common
<1> DEFINE b == Target
           n == Noted(Past(b))
<1>4. b \in Blocks /\ b \in Int /\ wr.ba <= b /\ b < wr.lim
    BY <1>1, <1>2, <1>3, InRange
<1>5. Noting(ni, n, marked)
    BY <1>2, <1>3, InRange
<1>6. \/ /\ flash' = [flash EXCEPT ![b] = Erased] /\ ni' = n
         /\ wr' = [wr EXCEPT !.ba = b, !.erased = TRUE]
         /\ marked' = marked /\ pc' = pc
      \/ SkipBad(n, b, EraseFailed(b))
    BY DEF WriteErase
<1> HIDE DEF b, n
<1>7. MgmtStart <= b /\ b <= ni.top
    <2>1. ni.top \in Nat
        BY <1>3, AreaTypes
    <2>2. QED
        BY <1>3, <1>4, <2>1, Sizes DEF SpanOK
<1>8. ctx = "unmap" /\ op.act = "repair" => Readable(flash, Sure, op) /\ op.old \in Blocks
    BY <1>1, RepairOld
<1>9. CASE /\ flash' = [flash EXCEPT ![b] = Erased] /\ ni' = n
           /\ wr' = [wr EXCEPT !.ba = b, !.erased = TRUE]
           /\ marked' = marked /\ pc' = pc
    <2>1. Lost(flash, marked, flash', marked', b) /\ Noting(ni, ni', marked')
        BY <1>4, <1>5, <1>9, Kinds DEF Lost
    <2>2. wr'.site = wr.site /\ wr'.ba = b /\ wr'.erased
        BY <1>3, <1>9 DEF Writes
    <2>3. \A x \in Blocks \ {b} : flash'[x] = flash[x]
        BY <1>3, <1>9 DEF FlashType
    <2>4. ctx = "unmap" /\ op.act = "repair" =>
                Readable(flash', Sure, op) \/ (pc' = "write" /\ wr'.erased /\ wr'.ba = op.old)
        <3>1. CASE op.old = b
            BY <1>1, <1>9, <2>2, <3>1
        <3>2. CASE op.old # b
            BY <1>8, <2>3, <3>2, ReadableKept
        <3>3. QED
            BY <3>1, <3>2
    <2>5. QED
        BY <1>1, <1>4, <1>7, <1>9, <2>1, <2>2, <2>4, StayData
<1>10. CASE SkipBad(n, b, EraseFailed(b))
    <2>1. EraseFailed(b) \subseteq DataContents \union {flash[b]}
        BY Kinds DEF EraseFailed
    <2>2. Lost(flash, marked, flash', marked', b) /\ Noting(ni, ni', marked') /\ pc' = pc /\ wr' = After(b)
        BY <1>3, <1>4, <1>5, <1>10, <2>1, Skipped
    <2>3. wr'.site = wr.site
        BY <1>3, <2>2 DEF After, Writes
    <2>4. (flash'[b] = flash[b] \/ flash'[b] = Torn) /\ \A x \in Blocks \ {b} : flash'[x] = flash[x]
        <3>1. PICK c \in EraseFailed(b) : flash' = [flash EXCEPT ![b] = c]
            BY <1>10 DEF SkipBad
        <3>2. QED
            BY <1>3, <1>4, <3>1 DEF FlashType, EraseFailed
    <2>5. ctx = "unmap" /\ op.act = "repair" => Readable(flash', Sure, op)
        <3>1. CASE op.old = b /\ flash'[b] = Torn
            BY <3>1, ReadableLost
        <3>2. CASE op.old # b \/ flash'[b] = flash[b]
            BY <1>8, <2>4, <3>2, ReadableKept
        <3>3. QED
            BY <2>4, <3>1, <3>2
    <2>6. QED
        BY <1>1, <1>4, <1>7, <2>2, <2>3, <2>5, StayData
<1>11. QED
    BY <1>6, <1>9, <1>10

(* ... and cannot write it                                                 *)
LEMMA ProgFailedData ==
    ASSUME Running, DataNow, pc = "write", wr.erased, SkipBad(ni, wr.ba, {Torn}),
           ctx' = ctx, op' = op, Sure' = Sure, seen' = seen
    PROVE  DataNow'
<1>1. /\ Common(flash, marked, ni) /\ InWrite(flash, marked, ni, wr) /\ wr.site \in WriteSites
    BY WritePhase
<1>2. /\ wr \in Writes /\ SpanOK(ni, wr) /\ Areas(ni) /\ flash \in FlashType /\ marked \in SUBSET Blocks
      /\ wr.ba < wr.lim
    BY <1>1 DEF InWrite, Common
<1> DEFINE b == wr.ba
<1>3. b \in Int /\ b \in Blocks /\ MgmtStart <= b /\ b <= ni.top
    <2>1. ni.top \in Nat /\ ni.top < ni.sig /\ ni.sig \in Nat /\ ni.sig < NBlocks
        BY <1>2, AreaTypes
    <2>2. QED
        BY <1>2, <2>1, Sizes DEF SpanOK
<1>4. {Torn} \subseteq DataContents \union {flash[b]} /\ Noting(ni, ni, marked)
    BY <1>2, Kinds DEF Noting, Areas
<1>5. Lost(flash, marked, flash', marked', b) /\ Noting(ni, ni', marked') /\ pc' = pc /\ wr' = After(b)
    BY <1>2, <1>3, <1>4, Skipped
<1>6. wr'.site = wr.site
    BY <1>2, <1>5 DEF After, Writes
<1>7. flash'[b] = Torn /\ \A x \in Blocks \ {b} : flash'[x] = flash[x]
    BY <1>2, <1>3 DEF FlashType, SkipBad
<1>8. ctx = "unmap" /\ op.act = "repair" => Readable(flash', Sure, op)
    <2>1. SUFFICES ASSUME ctx = "unmap", op.act = "repair" PROVE Readable(flash', Sure, op)
        OBVIOUS
    <2>2. op.old \in Blocks /\ (op.old # b => Readable(flash, Sure, op))
        BY <2>1, RepairOld
    <2>3. CASE op.old = b
        BY <1>7, <2>3, ReadableLost
    <2>4. CASE op.old # b
        BY <1>7, <2>2, <2>4, ReadableKept
    <2>5. QED
        BY <2>3, <2>4
<1> HIDE DEF b
<1>9. QED
    BY <1>3, <1>5, <1>6, <1>8, StayData

LEMMA CleanedBlockData ==
    ASSUME Running, DataNow, pc = "clean", Usable # {}, erase_range
    PROVE  DataNow'
<1>1. ctx' = ctx /\ op' = op /\ Sure' = Sure /\ seen' = seen
    BY SureSame DEF erase_range, obs
<1>2. /\ Common(flash, marked, ni) /\ wr \in Writes /\ SpanOK(ni, wr) /\ wr.site \in WriteSites
    BY CleanPhase
<1>3. Areas(ni) /\ flash \in FlashType /\ marked \in SUBSET Blocks
    BY <1>2 DEF Common
<1> DEFINE b == Target
           n == Noted(Past(b))
<1>4. b \in Blocks /\ b \in Int /\ wr.ba <= b /\ b < wr.lim
    BY <1>2, InRange
<1>5. Noting(ni, n, marked)
    BY <1>2, InRange
<1>6. \/ /\ flash' = [flash EXCEPT ![b] = Erased] /\ ni' = n /\ wr' = After(b)
         /\ marked' = marked /\ pc' = pc
      \/ SkipBad(n, b, EraseFailed(b))
    BY DEF erase_range
<1> HIDE DEF b, n
<1>7. MgmtStart <= b /\ b <= ni.top
    <2>1. ni.top \in Nat
        BY <1>3, AreaTypes
    <2>2. QED
        BY <1>2, <1>4, <2>1, Sizes DEF SpanOK
<1>8. Lost(flash, marked, flash', marked', b) /\ Noting(ni, ni', marked') /\ pc' = pc /\ wr' = After(b)
    <2>1. CASE /\ flash' = [flash EXCEPT ![b] = Erased] /\ ni' = n /\ wr' = After(b)
               /\ marked' = marked /\ pc' = pc
        BY <1>4, <1>5, <2>1, Kinds DEF Lost
    <2>2. CASE SkipBad(n, b, EraseFailed(b))
        <3>1. EraseFailed(b) \subseteq DataContents \union {flash[b]}
            BY Kinds DEF EraseFailed
        <3>2. QED
            BY <1>3, <1>4, <1>5, <2>2, <3>1, Skipped
    <2>3. QED
        BY <1>6, <2>1, <2>2
<1>9. wr'.site = wr.site
    BY <1>2, <1>8 DEF After, Writes
<1>10. ctx # "unmap"
    BY CleanNotRepair
<1>11. QED
    BY <1>1, <1>4, <1>7, <1>8, <1>9, <1>10, StayData

-----------------------------------------------------------------------------
(* What a function that writes tables goes on with *)

Landed(f, K, n, r, c, o) ==
    /\ r.n.map = n.map /\ (n.prot => r.n.prot) /\ (c = "load" /\ ~n.prot => ~r.n.prot)
    /\ r.pc \in {"write", "clean", "ok", "failed"}
    /\ ~r.n.prot => Level(f, K, r.n, r.pc, r.wr, c, o)
    /\ NoRebuild(K, r.n, r.pc, r.wr, c)

LEMMA CurrentMoved ==
    ASSUME NEW f, NEW K, NEW n, NEW n2, NEW S, Current(f, K, n, S), n2.map = n.map
    PROVE  Current(f, K, n2, S)
BY DEF Current

LEMMA LandedReturning ==
    ASSUME NEW f, NEW K, NEW n, NEW n2, NEW c, NEW o, NEW ok \in BOOLEAN,
           n2.map = n.map, n.prot => n2.prot, c = "load" /\ ~n.prot => ~n2.prot,
           n2.main # 0 \/ n2.prot, ~n2.prot => Current(f, K, n, {})
    PROVE  Landed(f, K, n, Returning(n2, ok), c, o)
<1> DEFINE r == Returning(n2, ok)
<1>1. r.n = n2 /\ r.pc \in {"ok", "failed"}
    BY DEF Returning
<1> HIDE DEF r
<1>2. ~n2.prot => Level(f, K, n2, r.pc, r.wr, c, o)
    BY <1>1, CurrentMoved DEF Level
<1>3. NoRebuild(K, n2, r.pc, r.wr, c)
    BY <1>1 DEF NoRebuild
<1>4. QED
    BY <1>1, <1>2, <1>3 DEF Landed, r

LEMMA LandedWriting ==
    ASSUME NEW f, NEW K, NEW n, NEW n2, NEW c, NEW o, NEW site, NEW ba, NEW lim, NEW S,
           n2.map = n.map, n2.prot = n.prot,
           ~n2.prot => Current(f, K, n, S),
           S = {} \/ (site \in {"main", "only_main"} /\ S = {n2.main}),
           c \in Updating => site # "rebuild_backup",
           c \in Updating /\ site = "rebuild_main" => Gone(K, n2, MgmtStart, n2.top)
    PROVE  Landed(f, K, n, Writing(n2, site, ba, lim), c, o)
<1> DEFINE r == Writing(n2, site, ba, lim)
<1>1. r.n = n2 /\ r.pc = "write" /\ r.wr.site = site
    BY DEF Writing
<1> HIDE DEF r
<1>2. S \subseteq Stale(n2, r.wr)
    BY <1>1 DEF Stale
<1>3. ~n2.prot => Current(f, K, n2, Stale(n2, r.wr))
    BY <1>2 DEF Current
<1>4. ~n2.prot => Level(f, K, n2, r.pc, r.wr, c, o)
    BY <1>1, <1>3 DEF Level
<1>5. NoRebuild(K, n2, r.pc, r.wr, c)
    BY <1>1 DEF NoRebuild
<1>6. QED
    BY <1>1, <1>4, <1>5 DEF Landed, r

LEMMA LandedCleaning ==
    ASSUME NEW f, NEW K, NEW n, NEW n2, NEW c, NEW o, NEW site, NEW ba, NEW lim,
           n2.map = n.map, n2.prot = n.prot, ~n2.prot => Current(f, K, n, {}), c \notin Updating
    PROVE  Landed(f, K, n, Cleaning(n2, site, ba, lim), c, o)
<1> DEFINE r == Cleaning(n2, site, ba, lim)
<1>1. r.n = n2 /\ r.pc = "clean" /\ r.wr.site = site
    BY DEF Cleaning
<1> HIDE DEF r
<1>2. ~n2.prot => Level(f, K, n2, r.pc, r.wr, c, o)
    BY <1>1, CurrentMoved DEF Level
<1>3. NoRebuild(K, n2, r.pc, r.wr, c)
    BY <1>1 DEF NoRebuild
<1>4. QED
    BY <1>1, <1>2, <1>3 DEF Landed, r

(* A block has taken the table *)
LEMMA WroteData ==
    ASSUME NEW f0, NEW f, NEW K, NEW n, NEW w, NEW ca, NEW a, NEW c, NEW o,
           Took(f0, f, K, n, w, ca, a), w.site \in WriteSites, SiteCtx(w.site, c),
           ~n.prot => Current(f, K, n, Stale(n, w) \ {a}),
           c \in Updating => w.site \notin {"rebuild_main", "rebuild_backup"}
    PROVE  Landed(f, K, n, OnWritten(n, w, a), c, o)
<1>1. /\ n \in Instances /\ a \in Blocks /\ a + 1 \in Blocks /\ a # 0 /\ 0 \in Blocks
      /\ n.main \in Blocks /\ n.backup \in Blocks /\ 1 <= MgmtStart /\ MgmtStart \in Nat
      /\ n.main \in Nat /\ n.backup \in Nat
    BY TookFacts
<1>2. /\ WriteAt(f0, K, n, w) /\ Tabs(f, K) = Tabs(f0, K) \union {a} /\ Gone(K, n, w.from, a)
      /\ a \in Int /\ w.from \in Int /\ w.from <= a
      /\ \A x \in Tabs(f, K) : x \in Int /\ x \notin K \union n.bad
    BY TookFacts DEF Took
<1>3. CASE w.site = "backup"
    <2> DEFINE m == mark_tables_clean([n EXCEPT !.backup = a, !.lo = a + 1])
    <2>1. m.map = n.map /\ m.prot = n.prot /\ m.main = n.main
        BY <1>1 DEF mark_tables_clean, Instances
    <2>2. /\ MainIn(K, n) /\ BackupIn(n) /\ w.from = n.backup
          /\ Tabs(f0, K) \subseteq {n.main, n.backup}
        BY <1>2, <1>3 DEF WriteAt
    <2>3. n.main # 0
        BY <1>1, <2>2 DEF MainIn
    <2>4. OnWritten(n, w, a) = Writing(m, "main", m.main, a)
        BY <1>3, <2>1, <2>3 DEF OnWritten, write_main_table
    <2> HIDE DEF m
    <2>5. Tabs(f, K) \subseteq {n.main, a}
        BY <1>1, <1>2, <2>2 DEF Gone
    <2>6. ~n.prot => Current(f, K, n, {m.main})
        BY <1>3, <2>1, <2>5 DEF Current, Stale
    <2>7. QED
        BY <2>1, <2>4, <2>6, LandedWriting
<1>4. CASE w.site \in {"main", "only_main"}
    <2> DEFINE main == [n EXCEPT !.main = a]
               m == mark_tables_clean(IF w.site = "main" /\ n.backup = 0 THEN [main EXCEPT !.lo = a + 1] ELSE main)
    <2>1. m.map = n.map /\ m.prot = n.prot /\ m.main = a
        BY <1>1 DEF mark_tables_clean, Instances
    <2>2. OnWritten(n, w, a) = Returning(m, TRUE)
        BY <1>4 DEF OnWritten
    <2> HIDE DEF m
    <2>3. /\ MainIn(K, n) /\ w.from = n.main /\ Tabs(f0, K) \subseteq {n.main, n.backup}
          /\ n.backup # 0 => BackupIn(n)
        BY <1>2, <1>4 DEF WriteAt
    <2>4. n.main # n.backup
        BY <1>1, <2>3 DEF MainIn, BackupIn
    <2>5. n.main \notin Tabs(f, K) \/ n.main = a
        BY <1>1, <1>2, <2>3 DEF Gone
    <2>6. ~n.prot => Current(f, K, n, {})
        BY <1>4, <2>5 DEF Current, Stale
    <2>7. QED
        BY <1>1, <2>1, <2>2, <2>6, LandedReturning
<1>5. CASE w.site = "only_backup"
    <2> DEFINE m == mark_tables_clean([n EXCEPT !.backup = a, !.lo = a + 1])
    <2>1. m.map = n.map /\ m.prot = n.prot /\ m.main = n.main
        BY <1>1 DEF mark_tables_clean, Instances
    <2>2. OnWritten(n, w, a) = Returning(m, TRUE)
        BY <1>5 DEF OnWritten
    <2> HIDE DEF m
    <2>3. MainIn(K, n) /\ BackupIn(n) /\ w.from = n.backup
        BY <1>2, <1>5 DEF WriteAt
    <2>4. n.backup \notin Tabs(f, K) \/ n.backup = a
        BY <1>1, <1>2, <2>3 DEF Gone
    <2>5. ~n.prot => Current(f, K, n, {})
        BY <1>5, <2>4 DEF Current, Stale
    <2>6. m.main # 0
        BY <1>1, <2>1, <2>3 DEF MainIn
    <2>7. QED
        BY <2>1, <2>2, <2>5, <2>6, LandedReturning
<1>6. w.site \in {"rebuild_main", "rebuild_backup", "front", "next", "tmp", "rescue_main"} =>
            (~n.prot => Current(f, K, n, {}))
    BY DEF Stale, Current
<1>7. CASE w.site = "rebuild_main"
    <2> DEFINE m == mark_tables_clean([[n EXCEPT !.main = a] EXCEPT !.lo = a + 1])
    <2>1. m.map = n.map /\ m.prot = n.prot /\ m.main = a
        BY <1>1 DEF mark_tables_clean, Instances
    <2>2. OnWritten(n, w, a) = IF Reservable(m) = {} THEN Returning(m, TRUE)
                               ELSE Writing(m, "rebuild_backup", Reserve(m), m.top)
        BY <1>7 DEF OnWritten
    <2> HIDE DEF m
    <2>3. Landed(f, K, n, Returning(m, TRUE), c, o)
        BY <1>1, <1>6, <1>7, <2>1, LandedReturning
    <2>4. Landed(f, K, n, Writing(m, "rebuild_backup", Reserve(m), m.top), c, o)
        BY <1>6, <1>7, <2>1, LandedWriting
    <2>5. QED
        BY <2>2, <2>3, <2>4
<1>8. CASE w.site \in {"rebuild_backup", "front", "next"}
    <2>1. c \notin Updating
        BY <1>8 DEF SiteCtx, Updating
    <2> DEFINE m1 == [n EXCEPT !.backup = a, !.lo = a + 1]
               m2 == mark_tables_clean([[n EXCEPT !.main = a] EXCEPT !.backup = n.main])
    <2>2. m1.map = n.map /\ m1.prot = n.prot /\ m2.map = n.map /\ m2.prot = n.prot
        BY <1>1 DEF mark_tables_clean, Instances
    <2>3. /\ w.site = "rebuild_backup" => OnWritten(n, w, a) = Cleaning(m1, w.site, n.main + 1, a)
          /\ w.site = "front" => OnWritten(n, w, a) = Cleaning(m2, w.site, a + 1, n.main)
          /\ w.site = "next" => OnWritten(n, w, a) = Cleaning(n, w.site, n.lo, a)
        BY DEF OnWritten
    <2> HIDE DEF m1, m2
    <2>4. ~n.prot => Current(f, K, n, {})
        BY <1>6, <1>8
    <2>5. /\ \A ba, lim : Landed(f, K, n, Cleaning(m1, w.site, ba, lim), c, o)
          /\ \A ba, lim : Landed(f, K, n, Cleaning(m2, w.site, ba, lim), c, o)
          /\ \A ba, lim : Landed(f, K, n, Cleaning(n, w.site, ba, lim), c, o)
        BY <2>1, <2>2, <2>4, LandedCleaning
    <2>6. QED
        BY <1>8, <2>3, <2>5
<1>9. CASE w.site = "tmp"
    <2> DEFINE m == [n EXCEPT !.lo = a + 1]
    <2>1. m.map = n.map /\ m.prot = n.prot
        BY <1>1 DEF Instances
    <2>2. OnWritten(n, w, a) = Writing(m, "rescue_main", MgmtStart, a)
        BY <1>9 DEF OnWritten
    <2> HIDE DEF m
    <2>3. QED
        BY <1>6, <1>9, <2>1, <2>2, LandedWriting
<1>10. CASE w.site = "rescue_main"
    <2> DEFINE m == mark_tables_clean([[n EXCEPT !.main = a] EXCEPT !.backup = w.lim])
    <2>1. m.map = n.map /\ m.prot = n.prot /\ m.main = a
        BY <1>1 DEF mark_tables_clean, Instances
    <2>2. OnWritten(n, w, a) = Returning(m, TRUE)
        BY <1>10 DEF OnWritten
    <2> HIDE DEF m
    <2>3. QED
        BY <1>1, <1>6, <1>10, <2>1, <2>2, LandedReturning
<1>11. QED
    BY <1>3, <1>4, <1>5, <1>7, <1>8, <1>9, <1>10 DEF WriteSites

(* No block of the range has taken it *)
LEMMA SpentData ==
    ASSUME NEW f, NEW K, NEW n, NEW w, NEW ca, NEW c, NEW o,
           Spent(f, K, n, w, ca), w.site \in WriteSites, SiteCtx(w.site, c),
           ~n.prot => Current(f, K, n, Stale(n, w)), c \in Updating => w.site # "rebuild_backup"
    PROVE  Landed(f, K, n, OnExhausted(n, w), c, o)
<1>1. /\ n \in Instances /\ n.main \in Nat /\ n.backup \in Nat /\ n.lo \in Nat /\ n.top \in Nat
      /\ n.main \in Blocks /\ n.backup \in Blocks /\ n.lo \in Blocks /\ n.top \in Blocks
      /\ MgmtStart < n.lo /\ n.lo <= n.top /\ MgmtStart \in Nat /\ 1 <= MgmtStart /\ 0 \in Blocks
      /\ \A x \in Tabs(f, K) : x \in Blocks /\ x \in Int /\ x \notin K \union n.bad /\ MgmtStart <= x
      /\ Gone(K, n, w.from, w.lim) /\ w.from \in Int /\ w.lim \in Int
    BY SpentFacts
<1>2. WriteAt(f, K, n, w)
    BY DEF Spent
<1> DEFINE bm == backup_becomes_main(n)
<1>3. bm.map = n.map /\ bm.prot = n.prot /\ bm.main = n.backup
    BY <1>1 DEF backup_becomes_main, Instances
<1>4. CASE w.site \in {"backup", "only_backup"}
    <2> DEFINE m == [n EXCEPT !.lo = n.backup, !.backup = 0]
    <2>1. m.map = n.map /\ m.prot = n.prot /\ m.main = n.main
        BY <1>1 DEF Instances
    <2>2. /\ MainIn(K, n) /\ BackupIn(n) /\ w.from = n.backup /\ w.lim = n.top
          /\ Tabs(f, K) \subseteq {n.main, n.backup}
        BY <1>2, <1>4 DEF WriteAt
    <2>3. n.main # 0 /\ n.backup < n.top /\ n.backup # n.main
        BY <1>1, <2>2 DEF MainIn, BackupIn
    <2>4. /\ w.site = "backup" => OnExhausted(n, w) = Writing(m, "main", m.main, n.top)
          /\ w.site = "only_backup" => OnExhausted(n, w) = Returning(m, FALSE)
        BY <2>1, <2>3 DEF OnExhausted, write_main_table
    <2> HIDE DEF m
    <2>5. n.backup \notin Tabs(f, K)
        BY <1>1, <2>2, <2>3 DEF Gone
    <2>6. Current(f, K, n, {m.main})
        BY <2>1, <2>2, <2>5 DEF Current
    <2>7. w.site = "only_backup" => (~n.prot => Current(f, K, n, {}))
        BY <2>5 DEF Current, Stale
    <2>8. Landed(f, K, n, Writing(m, "main", m.main, n.top), c, o)
        BY <2>1, <2>6, LandedWriting
    <2>9. w.site = "only_backup" => Landed(f, K, n, Returning(m, FALSE), c, o)
        BY <2>1, <2>3, <2>7, LandedReturning
    <2>10. QED
        BY <1>4, <2>4, <2>8, <2>9
<1>5. CASE w.site = "main"
    <2>1. /\ MainIn(K, n) /\ w.from = n.main
          /\ n.backup = 0 => w.lim = n.top
          /\ n.backup # 0 => BackupIn(n) /\ w.lim = n.backup
        BY <1>2, <1>5 DEF WriteAt
    <2>2. n.main \notin Tabs(f, K)
        BY <1>1, <2>1 DEF Gone, MainIn, BackupIn
    <2>3. ~n.prot => Current(f, K, n, {})
        BY <1>5, <2>2 DEF Current, Stale
    <2>4. CASE n.backup = 0
        <3> DEFINE m == [n EXCEPT !.main = 0, !.backup = 0, !.lo = n.top]
        <3>1. m.map = n.map /\ m.prot = n.prot /\ m.top = n.top /\ m.bad = n.bad
            BY <1>1 DEF Instances
        <3>2. OnExhausted(n, w) = Writing(m, "rebuild_main", MgmtStart, n.top)
            BY <1>5, <2>4 DEF OnExhausted, rebuild_info_table
        <3> HIDE DEF m
        <3>3. Gone(K, m, MgmtStart, m.top)
            BY <1>1, <2>1, <2>4, <3>1 DEF Gone, MainIn
        <3>4. QED
            BY <2>3, <3>1, <3>2, <3>3, LandedWriting
    <2>5. CASE n.backup # 0
        <3>1. OnExhausted(n, w) = IF Reservable(n) = {} THEN Returning(bm, TRUE)
                                  ELSE Writing(n, "tmp", Reserve(n), n.top)
            BY <1>5, <2>5 DEF OnExhausted, rescue_main_info_table
        <3> HIDE DEF bm
        <3>2. Landed(f, K, n, Returning(bm, TRUE), c, o)
            BY <1>3, <2>3, <2>5, LandedReturning
        <3>3. Landed(f, K, n, Writing(n, "tmp", Reserve(n), n.top), c, o)
            BY <2>3, LandedWriting
        <3>4. QED
            BY <3>1, <3>2, <3>3
    <2>6. QED
        BY <2>4, <2>5
<1>6. w.site \in {"rebuild_main", "rebuild_backup", "front", "next", "tmp", "rescue_main"} =>
            (~n.prot => Current(f, K, n, {}))
    BY DEF Stale
<1>7. CASE w.site = "rebuild_main"
    <2> DEFINE m == [n EXCEPT !.prot = TRUE]
    <2>1. m.map = n.map /\ m.prot
        BY <1>1 DEF Instances
    <2>2. OnExhausted(n, w) = Returning(m, FALSE)
        BY <1>7 DEF OnExhausted
    <2> HIDE DEF m
    <2>3. c # "load"
        BY <1>7 DEF SiteCtx, Updating
    <2>4. QED
        BY <2>1, <2>2, <2>3, LandedReturning
<1>8. CASE w.site \in {"rebuild_backup", "front", "next"}
    <2>1. n.main # 0
        BY <1>1, <1>2, <1>8 DEF WriteAt, MainIn
    <2>2. /\ w.site = "rebuild_backup" => OnExhausted(n, w) = Returning(n, TRUE)
          /\ w.site = "front" => OnExhausted(n, w) = IF Reservable(n) = {} THEN Returning(n, FALSE)
                                                    ELSE Writing(n, "next", Reserve(n), n.top)
          /\ w.site = "next" => OnExhausted(n, w) = IF w.from > n.lo THEN Writing(n, w.site, w.from - 1, n.top)
                                                   ELSE Returning(n, FALSE)
        BY DEF OnExhausted
    <2>3. \A ok \in BOOLEAN : Landed(f, K, n, Returning(n, ok), c, o)
        BY <1>6, <1>8, <2>1, LandedReturning
    <2>4. \A ba, lim : Landed(f, K, n, Writing(n, "next", ba, lim), c, o)
        BY <1>6, <1>8, LandedWriting
    <2>5. QED
        BY <1>8, <2>2, <2>3, <2>4
<1>9. CASE w.site = "only_main"
    <2>1. MainIn(K, n) /\ w.from = n.main /\ n.backup # 0 /\ BackupIn(n) /\ w.lim = n.backup
        BY <1>2, <1>9 DEF WriteAt
    <2>2. n.main \notin Tabs(f, K)
        BY <1>1, <2>1 DEF Gone, MainIn, BackupIn
    <2>3. ~n.prot => Current(f, K, n, {})
        BY <1>9, <2>2 DEF Current, Stale
    <2>4. OnExhausted(n, w) = Writing(bm, "front", MgmtStart, bm.main)
        BY <1>9 DEF OnExhausted, rescue_single_info_table
    <2> HIDE DEF bm
    <2>5. QED
        BY <1>3, <2>3, <2>4, LandedWriting
<1>10. CASE w.site = "tmp"
    <2>1. BackupIn(n) /\ MainIn(K, n)
        BY <1>2, <1>10 DEF WriteAt
    <2>2. n.backup # 0
        BY <1>1, <2>1 DEF BackupIn, MainIn
    <2>3. OnExhausted(n, w) = IF w.from > n.lo THEN Writing(n, w.site, w.from - 1, n.top)
                              ELSE Returning(bm, TRUE)
        BY <1>10 DEF OnExhausted
    <2> HIDE DEF bm
    <2>4. Landed(f, K, n, Returning(bm, TRUE), c, o)
        BY <1>3, <1>6, <1>10, <2>2, LandedReturning
    <2>5. \A ba, lim : Landed(f, K, n, Writing(n, w.site, ba, lim), c, o)
        BY <1>6, <1>10, LandedWriting
    <2>6. QED
        BY <2>3, <2>4, <2>5
<1>11. CASE w.site = "rescue_main"
    <2>1. BackupIn(n) /\ MainIn(K, n) /\ n.backup < w.lim /\ w.lim \in Tabs(f, K)
        BY <1>2, <1>11 DEF WriteAt
    <2>2. w.lim # 0 /\ w.lim \in Blocks
        BY <1>1, <2>1
    <2> DEFINE m == mark_tables_clean([n EXCEPT !.main = w.lim, !.backup = 0])
    <2>3. m.map = n.map /\ m.prot = n.prot /\ m.main = w.lim
        BY <1>1, <2>2 DEF mark_tables_clean, Instances
    <2>4. OnExhausted(n, w) = Returning(m, TRUE)
        BY <1>11 DEF OnExhausted
    <2> HIDE DEF m
    <2>5. QED
        BY <1>6, <1>11, <2>2, <2>3, <2>4, LandedReturning
<1>12. QED
    BY <1>4, <1>5, <1>7, <1>8, <1>9, <1>10, <1>11 DEF WriteSites

LEMMA LandedData ==
    ASSUME Running, DataNow, pc \in {"write", "clean"}, NEW n, NEW r, Landed(flash', marked', n, r, ctx, op),
           ni' = r.n, pc' = r.pc, wr' = r.wr, n.map = ni.map, n.prot = ni.prot,
           Sure' = Sure, op' = op, ctx' = ctx, seen' = seen,
           Safe(flash', marked', ni', Sure, Repairing(op)),
           ctx = "unmap" /\ op.act = "repair" => Readable(flash', Sure, op)
    PROVE  DataNow'
<1>1. ctx = "load" => ~ni.prot
    BY WriteSafe
<1>2. QED
    BY <1>1, WriteData DEF Landed

(* nmbm_write_mgmt_range writes the table                                  *)
LEMMA WriteProgData ==
    ASSUME Running, DataNow, WriteProg
    PROVE  DataNow'
<1>1. pc = "write" /\ wr.erased /\ ctx' = ctx /\ op' = op /\ Sure' = Sure /\ seen' = seen
    BY SureSame DEF WriteProg, obs
<1>2. /\ Common(flash, marked, ni) /\ CacheOK(flash, marked, ni, cache)
      /\ InWrite(flash, marked, ni, wr) /\ WriteAt(flash, marked, ni, wr)
      /\ wr.site \in WriteSites /\ SiteCtx(wr.site, ctx)
    BY <1>1, WritePhase
<1>3. /\ wr \in Writes /\ SpanOK(ni, wr) /\ wr.ba < wr.lim /\ wr.ba \notin marked \union ni.bad
      /\ Areas(ni) /\ flash \in FlashType
    BY <1>1, <1>2 DEF InWrite, Common
<1>4. ~Down
    BY <1>2, <1>3, InRange
<1>5. \/ /\ flash' = [flash EXCEPT ![wr.ba] = cache] /\ Goto(OnWritten(ni, wr, wr.ba)) /\ marked' = marked
      \/ SkipBad(ni, wr.ba, {Torn})
    BY <1>4 DEF WriteProg
<1>6. CASE /\ flash' = [flash EXCEPT ![wr.ba] = cache] /\ Goto(OnWritten(ni, wr, wr.ba)) /\ marked' = marked
    <2> DEFINE a == wr.ba
               r == OnWritten(ni, wr, a)
    <2>1. Put(flash, a, cache, flash') /\ ni' = r.n /\ pc' = r.pc /\ wr' = r.wr
        BY <1>6 DEF Put, Goto
    <2>2. a \in Int /\ a \in Blocks /\ MgmtStart <= a /\ a <= ni.top /\ a < ni.top
        <3>1. ni.top \in Nat /\ ni.top < ni.sig /\ ni.sig \in Nat /\ ni.sig < NBlocks
            BY <1>3, AreaTypes
        <3>2. QED
            BY <1>3, <3>1, Sizes DEF SpanOK
    <2>3. a \notin DataBlocks(ni)
        BY <1>3, <2>2, TableArea
    <2>4. /\ Safe(flash, marked, ni, Sure, Repairing(op)) /\ (ctx = "load" => ~ni.prot)
          /\ ~ni.prot => Level(flash, marked, ni, pc, wr, ctx, op)
          /\ NoRebuild(marked, ni, pc, wr, ctx)
        BY <1>1, WriteSafe
    <2>5. ctx \in Updating => wr.site \notin {"rebuild_main", "rebuild_backup"}
        <3>1. ni.top \in Nat /\ MgmtStart \in Nat
            BY <1>3, AreaTypes, Sizes
        <3>2. a \in MgmtStart..(ni.top - 1) /\ a \notin marked \union ni.bad
            BY <1>3, <2>2, <3>1
        <3>3. ~Gone(marked, ni, MgmtStart, ni.top)
            BY <3>2 DEF Gone
        <3>4. QED
            BY <1>1, <2>4, <3>3 DEF NoRebuild
    <2>6. Took(flash, flash', marked, ni, wr, cache, a)
        <3>1. Put(flash, wr.ba, cache, flash')
            BY <2>1
        <3>2. QED
            BY <1>1, <1>2, <3>1, Taking
    <2> HIDE DEF a, r
    <2>7. ~ni.prot => Current(flash', marked, ni, Stale(ni, wr) \ {a})
        <3>1. ~ni.prot => Current(flash, marked, ni, Stale(ni, wr))
            BY <1>1, <2>4 DEF Level
        <3>2. a \notin marked
            BY <1>3 DEF a
        <3>3. QED
            BY <1>2, <1>3, <2>1, <2>2, <3>1, <3>2, CurrentPut
    <2>8. Landed(flash', marked, ni, OnWritten(ni, wr, a), ctx, op)
        BY <1>2, <2>5, <2>6, <2>7, WroteData
    <2>9. Landed(flash', marked', ni, r, ctx, op)
        BY <1>6, <2>8 DEF r
    <2>10. Safe(flash', marked', ni', Sure, Repairing(op))
        <3>1. ni'.map = ni.map /\ (ni.prot => ni'.prot)
            BY <2>1, <2>9 DEF Landed
        <3>2. a \notin marked
            BY <1>3 DEF a
        <3>3. QED
            BY <1>2, <1>6, <2>1, <2>2, <2>3, <2>4, <3>1, <3>2, SafePut
    <2>11. ctx = "unmap" /\ op.act = "repair" => Readable(flash', Sure, op)
        <3>1. SUFFICES ASSUME ctx = "unmap", op.act = "repair" PROVE Readable(flash', Sure, op)
            OBVIOUS
        <3>2. op.old \in Blocks /\ (op.old # a => Readable(flash, Sure, op))
            BY <1>1, <3>1, RepairOld DEF a
        <3>3. cache.kind = "table"
            BY <1>2, Kinds DEF CacheOK
        <3>4. flash'[a] = cache /\ \A x \in Blocks \ {a} : flash'[x] = flash[x]
            BY <1>3, <2>1, <2>2 DEF Put, FlashType
        <3>5. CASE op.old = a
            BY <3>3, <3>4, <3>5, ReadableLost
        <3>6. CASE op.old # a
            BY <3>2, <3>4, <3>6, ReadableKept
        <3>7. QED
            BY <3>5, <3>6
    <2>12. QED
        BY <1>1, <2>1, <2>9, <2>10, <2>11, LandedData
<1>7. CASE SkipBad(ni, wr.ba, {Torn})
    BY <1>1, <1>7, ProgFailedData
<1>8. QED
    BY <1>5, <1>6, <1>7

(* No block of the range took the table                                    *)
LEMMA WriteNoneData ==
    ASSUME Running, DataNow, WriteNone
    PROVE  DataNow'
<1>1. /\ pc = "write" /\ ~wr.erased /\ Usable = {} /\ ctx' = ctx /\ op' = op /\ Sure' = Sure /\ seen' = seen
      /\ flash' = flash /\ marked' = marked
    BY SureSame DEF WriteNone, obs
<1>2. /\ Common(flash, marked, ni) /\ CacheOK(flash, marked, ni, cache)
      /\ InWrite(flash, marked, ni, wr) /\ WriteAt(flash, marked, ni, wr)
      /\ wr.site \in WriteSites /\ SiteCtx(wr.site, ctx)
    BY <1>1, WritePhase
<1>3. wr \in Writes /\ SpanOK(ni, wr) /\ Gone(marked, ni, wr.from, wr.ba)
    BY <1>1, <1>2 DEF InWrite
<1> DEFINE n == Noted(Span)
           r == OnExhausted(n, wr)
<1>4. Gone(marked, ni, wr.ba, wr.lim) /\ Noting(ni, n, marked)
    BY <1>1, <1>2, <1>3, InRange
<1>5. ni' = r.n /\ pc' = r.pc /\ wr' = r.wr
    BY DEF WriteNone, Goto
<1> HIDE DEF n, r
<1>6. /\ n.map = ni.map /\ n.prot = ni.prot /\ n.main = ni.main /\ n.backup = ni.backup
    BY <1>4 DEF Noting
<1>7. Spent(flash, marked, n, wr, cache)
    BY <1>2, <1>3, <1>4, Spending
<1>8. /\ Safe(flash, marked, ni, Sure, Repairing(op))
      /\ ~ni.prot => Level(flash, marked, ni, pc, wr, ctx, op)
      /\ NoRebuild(marked, ni, pc, wr, ctx)
    BY <1>1, WriteSafe
<1>9. ~n.prot => Current(flash, marked, n, Stale(n, wr))
    <2>1. ~n.prot => Current(flash, marked, ni, Stale(ni, wr))
        BY <1>1, <1>6, <1>8 DEF Level
    <2>2. Stale(n, wr) = Stale(ni, wr)
        BY <1>6 DEF Stale
    <2>3. QED
        BY <1>6, <2>1, <2>2, CurrentMoved
<1>10. ctx \in Updating => wr.site # "rebuild_backup"
    BY <1>1, <1>8 DEF NoRebuild
<1>11. Landed(flash', marked', n, r, ctx, op)
    BY <1>1, <1>2, <1>7, <1>9, <1>10, SpentData DEF r
<1>12. Safe(flash', marked', ni', Sure, Repairing(op))
    <2>1. ni'.map = ni.map /\ (ni.prot => ni'.prot)
        BY <1>5, <1>6, <1>11 DEF Landed
    <2>2. QED
        BY <1>1, <1>8, <2>1, SafeNoted
<1>13. ctx = "unmap" /\ op.act = "repair" => Readable(flash', Sure, op)
    BY <1>1, RepairOld
<1>14. QED
    BY <1>1, <1>5, <1>6, <1>11, <1>12, <1>13, LandedData

(* nmbm_erase_range                                                        *)
LEMMA EraseRangeData ==
    ASSUME Running, DataNow, erase_range
    PROVE  DataNow'
<1>1. pc = "clean" /\ ctx' = ctx /\ op' = op /\ Sure' = Sure /\ seen' = seen
    BY SureSame DEF erase_range, obs
<1>2. CASE Usable # {}
    BY <1>1, <1>2, CleanedBlockData
<1>3. CASE Usable = {}
    <2> DEFINE n == Noted(Span)
               r == OnCleaned(n, wr)
    <2>1. ni' = r.n /\ pc' = r.pc /\ wr' = r.wr /\ flash' = flash /\ marked' = marked
        BY <1>3 DEF erase_range, Goto
    <2>2. /\ Common(flash, marked, ni) /\ wr \in Writes /\ SpanOK(ni, wr) /\ wr.site \in WriteSites
          /\ CleanAt(flash, marked, ni, wr) /\ wr.site \in {"rebuild_backup", "front", "next"}
        BY <1>1, CleanPhase
    <2>3. Noting(ni, n, marked)
        BY <2>2, InRange
    <2> DEFINE m == IF wr.site = "next" THEN mark_tables_clean([n EXCEPT !.backup = wr.lim, !.lo = wr.lim + 1])
                    ELSE n
    <2>4. r = Returning(m, TRUE)
        BY DEF OnCleaned
    <2> HIDE DEF n, r
    <2>5. /\ n.map = ni.map /\ n.prot = ni.prot /\ n.main = ni.main /\ n \in Instances
        BY <2>3 DEF Noting
    <2>6. m.map = n.map /\ m.prot = n.prot /\ m.main = n.main
        BY <2>5 DEF mark_tables_clean, Instances
    <2>7. ni.main # 0
        <3>1. MainIn(marked, ni)
            BY <2>2 DEF CleanAt
        <3>2. QED
            BY <3>1, Sizes DEF MainIn
    <2> HIDE DEF m
    <2>8. /\ Safe(flash, marked, ni, Sure, Repairing(op))
          /\ ~ni.prot => Level(flash, marked, ni, pc, wr, ctx, op)
        BY <1>1, WriteSafe
    <2>9. ~n.prot => Current(flash, marked, n, {})
        BY <1>1, <2>5, <2>8, CurrentMoved DEF Level
    <2>10. Landed(flash, marked, n, r, ctx, op)
        BY <2>4, <2>5, <2>6, <2>7, <2>9, LandedReturning
    <2>11. Safe(flash', marked', ni', Sure, Repairing(op))
        <3>1. ni'.map = ni.map /\ (ni.prot => ni'.prot)
            BY <2>1, <2>5, <2>10 DEF Landed
        <3>2. QED
            BY <2>1, <2>8, <3>1, SafeNoted
    <2>12. ctx # "unmap"
        BY <1>1, CleanNotRepair
    <2>13. Landed(flash', marked', n, r, ctx, op)
        BY <2>1, <2>10
    <2>14. QED
        BY <1>1, <2>1, <2>5, <2>11, <2>12, <2>13, LandedData
<1>4. QED
    BY <1>2, <1>3

-----------------------------------------------------------------------------
(* Between two tables *)

LEMMA BlankSafe ==
    ASSUME NEW f, NEW K, NEW n, NEW v, NEW X, \A l \in LBs : AnyOf(v, l)
    PROVE  Safe(f, K, n, v, X)
<1>1. \A m : Reads(f, v, m, X)
    BY DEF Reads, Agree, AnyOf
<1>2. \A m, m2 : Above(m, m2, v, X)
    BY DEF Above
<1>3. QED
    BY <1>1, <1>2 DEF Safe, Stored, Near

(* With all tables up to date there is only one mapping *)
LEMMA SafeCurrent ==
    ASSUME NEW f, NEW K, NEW n, NEW v, NEW X, Reads(f, v, n.map, X), ~n.prot => Current(f, K, n, {})
    PROVE  Safe(f, K, n, v, X)
<1>1. Above(n.map, n.map, v, X)
    BY DEF Above
<1>2. ASSUME ~n.prot PROVE Stored(f, K, v, X) /\ Near(f, K, n, v, X)
    <2>1. \A b \in Tabs(f, K) : f[b].map = n.map
        BY <1>2 DEF Current
    <2>2. QED
        BY <1>1, <2>1 DEF Stored, Near
<1>3. QED
    BY <1>2 DEF Safe

LEMMA NoOpFacts == NoOp.act = "none" /\ Repairing(NoOp) = {} /\ \A p : p \notin {"erase", "copy"} => Absent(p, NoOp) = {}
BY DEF NoOp, Repairing, Absent

(* The driver is idle, or goes on with a call that has not failed *)
LEMMA IdleData ==
    ASSUME pc' = "idle", ctx' = "none", op' = NoOp, seen'.made, ~ni'.prot => Current(flash', marked', ni', {}),
           Reads(flash', Sure', ni'.map, {}), ni'.main = 0 => ni'.prot
    PROVE  DataNow'
<1>1. Safe(flash', marked', ni', Sure', {})
    BY SafeCurrent
<1>2. OpKind("idle", "none", NoOp) /\ OpWants(NoOp, Sure')
    BY NoOpFacts DEF OpKind, OpWants
<1>3. Copying(flash', ni', "idle", wr', "none", NoOp, Sure')
    BY DEF Copying
<1>4. NoRebuild(marked', ni', "idle", wr', "none")
    BY DEF NoRebuild
<1>5. Level(flash', marked', ni', "idle", wr', "none", NoOp) \/ ni'.prot
    BY DEF Level
<1>6. RunData(flash', marked', ni', "idle", wr', "none", NoOp, Sure', seen'.made)
    BY <1>1, <1>2, <1>3, <1>4, <1>5, NoOpFacts DEF RunData, Safe
<1>7. QED
    BY <1>6, DataNext

LEMMA LoadDoneData ==
    ASSUME Running, DataNow, Watching, LoadDone
    PROVE  DataNow'
<1>1. /\ ctx = "load" /\ pc \in {"ok", "failed"} /\ pc' = "idle" /\ ctx' = "none" /\ op' = op /\ Sure' = Sure
      /\ ni' = [ni EXCEPT !.prot = ni.lo = ni.top \/ pc = "failed"] /\ flash' = flash /\ marked' = marked
      /\ seen' = [seen EXCEPT !.made = TRUE]
    BY SureSame DEF LoadDone
<1>2. Common(flash, marked, ni) /\ ni.main # 0
    BY <1>1, RestPhase
<1>3. ni \in Instances
    BY <1>2, AreaTypes DEF Common
<1>4. ni'.map = ni.map /\ ni'.main = ni.main
    BY <1>1, <1>3 DEF Instances
<1>5. seen'.made
    BY <1>1 DEF Watching, SeenSet
<1>6. /\ Safe(flash, marked, ni, Sure, Repairing(op)) /\ ~ni.prot
      /\ Level(flash, marked, ni, pc, wr, ctx, op)
    BY <1>1, WriteSafe
<1>7. op = NoOp
    BY <1>1 DEF DataNow, RunData, OpKind
<1>8. Current(flash, marked, ni, {})
    BY <1>1, <1>6 DEF Level
<1>9. Current(flash', marked', ni', {})
    BY <1>1, <1>4, <1>8, CurrentMoved
<1>10. Reads(flash', Sure', ni'.map, {})
    BY <1>1, <1>4, <1>6, <1>7, NoOpFacts DEF Safe
<1>11. QED
    BY <1>1, <1>2, <1>4, <1>5, <1>7, <1>9, <1>10, IdleData

LEMMA UpdatedOnceData ==
    ASSUME Running, DataNow, updated_once
    PROVE  DataNow'
<1>1. /\ pc = "ok" /\ ctx \notin {"load", "create"} /\ pc' = "update" /\ flash' = flash /\ marked' = marked
      /\ ni' = ni /\ wr' = wr /\ ctx' = ctx /\ op' = op /\ Sure' = Sure /\ seen' = seen
    BY SureSame DEF updated_once, ram, obs
<1>2. /\ Safe(flash, marked, ni, Sure, Repairing(op)) /\ (ctx = "load" => ~ni.prot)
      /\ ~ni.prot => Level(flash, marked, ni, pc, wr, ctx, op)
      /\ NoRebuild(marked, ni, pc, wr, ctx)
    BY <1>1, WriteSafe
<1>3. ~ni.prot => Level(flash, marked, ni, "update", wr, ctx, op)
    BY <1>1, <1>2 DEF Level
<1>4. NoRebuild(marked, ni, "update", wr, ctx)
    BY <1>1, <1>2 DEF NoRebuild
<1>5. ctx = "unmap" /\ op.act = "repair" => Readable(flash, Sure, op)
    BY <1>1 DEF DataNow, RunData, Copying
<1>6. QED
    BY <1>1, <1>2, <1>3, <1>4, <1>5, WriteData

LEMMA UpdateData ==
    ASSUME Running, DataNow, update_info_table
    PROVE  DataNow'
<1> DEFINE n == Generated(ni)
           r == update_info_table_once(n)
<1>1. /\ pc = "update" /\ ~ni.prot /\ flash' = flash /\ marked' = marked
      /\ ni' = r.n /\ pc' = r.pc /\ wr' = r.wr /\ ctx' = ctx /\ op' = op /\ Sure' = Sure /\ seen' = seen
    BY SureSame DEF update_info_table, obs, Goto
<1>2. Common(flash, marked, ni) /\ AtRest(flash, marked, ni) /\ Resting(pc, ctx)
    BY <1>1, RestPhase
<1>3. ni \in Instances
    BY <1>2, AreaTypes DEF Common
<1>4. n.map = ni.map /\ n.prot = ni.prot /\ n.main = ni.main /\ n.backup = ni.backup
    BY <1>3 DEF Generated, Instances
<1>5. /\ Safe(flash, marked, ni, Sure, Repairing(op)) /\ (ctx = "load" => ~ni.prot)
      /\ NoRebuild(marked, ni, pc, wr, ctx)
    BY <1>1, WriteSafe
<1> HIDE DEF n
<1>6. ni.main # 0
    BY <1>1, <1>5 DEF NoRebuild
<1>7. \/ n.backup = 0 /\ r = Writing(n, "main", n.main, n.top)
      \/ n.backup # 0 /\ r = Writing(n, "backup", n.backup, n.top)
    BY <1>4, <1>6 DEF update_info_table_once, write_main_table
<1> HIDE DEF r
<1>8. r.n = n /\ r.pc = "write" /\ r.wr.site \in {"main", "backup"}
      /\ (r.wr.site = "main" => n.backup = 0)
    BY <1>7 DEF Writing
<1>9. Tabs(flash, marked) = {n.main, n.backup} \ {0}
    BY <1>2, <1>4 DEF AtRest
<1>10. Current(flash, marked, n, Stale(n, r.wr))
    BY <1>8, <1>9 DEF Current, Stale
<1>11. Level(flash, marked, n, r.pc, r.wr, ctx, op)
    BY <1>8, <1>10 DEF Level
<1>12. NoRebuild(marked, n, r.pc, r.wr, ctx)
    BY <1>8 DEF NoRebuild
<1>13. Safe(flash, marked, n, Sure, Repairing(op))
    BY <1>4, <1>5, SafeNoted
<1>14. ctx = "unmap" /\ op.act = "repair" => Readable(flash, Sure, op)
    BY <1>1 DEF DataNow, RunData, Copying
<1>15. QED
    BY <1>1, <1>4, <1>5, <1>8, <1>11, <1>12, <1>13, <1>14, WriteData

LEMMA RestSafe ==
    ASSUME Running, DataNow, pc \notin {"write", "clean", "erase", "copy"}
    PROVE  /\ Common(flash, marked, ni) /\ AtRest(flash, marked, ni) /\ OpOK(ni, pc, ctx, op) /\ Resting(pc, ctx)
           /\ Safe(flash, marked, ni, Sure, Repairing(op)) /\ (ctx = "load" => ~ni.prot)
           /\ ~ni.prot => Level(flash, marked, ni, pc, wr, ctx, op)
           /\ ni.main = 0 => ni.prot
           /\ ni \in Instances
           /\ OpKind(pc, ctx, op) /\ OpWants(op, Sure) /\ Copying(flash, ni, pc, wr, ctx, op, Sure)
           /\ Serving(pc, ctx) => seen.made
<1>1. /\ Common(flash, marked, ni) /\ AtRest(flash, marked, ni) /\ OpOK(ni, pc, ctx, op) /\ Resting(pc, ctx)
    BY RestPhase
<1>2. ni \in Instances
    BY <1>1, AreaTypes DEF Common
<1>3. NoRebuild(marked, ni, pc, wr, ctx)
    BY WriteSafe
<1>4. ni.main = 0 => ni.prot
    BY <1>3 DEF NoRebuild
<1>5. QED
    BY <1>1, <1>2, <1>4, WriteSafe DEF DataNow, RunData

(* Back from nmbm_update_info_table: a remap now has its table on the      *)
(* flash, a repair starts to copy                                          *)
LEMMA UpdateDoneData ==
    ASSUME Running, DataNow, Watching, UpdateDone
    PROVE  DataNow'
<1>1. /\ pc \in {"update", "failed"} /\ (pc = "update" => ni.prot \/ ~ni.changed) /\ (pc = "failed" => ctx # "load")
      /\ ni' = IF ctx \in {"mapfail", "tail"} THEN [ni EXCEPT !.top = ni.lo] ELSE ni
      /\ ctx' = "none" /\ op' = (IF pc' = "idle" THEN NoOp ELSE op)
      /\ flash' = flash /\ marked' = marked /\ Sure' = Sure /\ wr' = wr
      /\ seen' = [seen EXCEPT !.made = @ \/ pc' = "idle"]
    BY SureSame DEF UpdateDone
<1>2. /\ Resting(pc, ctx) /\ OpOK(ni, pc, ctx, op)
      /\ Safe(flash, marked, ni, Sure, Repairing(op))
      /\ ~ni.prot => Level(flash, marked, ni, pc, wr, ctx, op)
      /\ ni.main = 0 => ni.prot
      /\ ni \in Instances
      /\ OpKind(pc, ctx, op) /\ OpWants(op, Sure) /\ Copying(flash, ni, pc, wr, ctx, op, Sure)
      /\ Serving(pc, ctx) => seen.made
    BY <1>1, RestSafe
<1>3. ctx \in Updating \/ (ctx = "create" /\ pc = "failed")
    BY <1>1, <1>2 DEF Resting
<1>4. pc' = CASE ctx \in {"create", "boot"} /\ pc = "failed" -> "dead"
               [] ctx = "tail" \/ (ctx = "boot" /\ pc # "failed") -> "idle"
               [] ctx = "mapfail" -> "refused"
               [] ctx = "remap" -> "remapped"
               [] ctx = "unmap" -> IF op.act = "repair" /\ op.new # op.old THEN "erase" ELSE "idle"
    BY DEF UpdateDone
<1>5. ni'.map = ni.map /\ ni'.main = ni.main /\ ni'.prot = ni.prot
    BY <1>1, <1>2 DEF Instances
<1>6. ~ni'.prot => Current(flash', marked', ni', {})
    <2>1. ~ni.prot => Current(flash, marked, ni, {})
        BY <1>1, <1>2 DEF Level
    <2>2. QED
        BY <1>1, <1>5, <2>1, CurrentMoved
<1>7. (pc' = "idle" => seen'.made) /\ (seen.made => seen'.made)
    BY <1>1 DEF Watching, SeenSet
<1>8. Safe(flash', marked', ni', Sure', Repairing(op))
    BY <1>1, <1>2, <1>5, SafeNoted
<1>9. NoRebuild(marked', ni', pc', wr', "none") \/ pc' \in {"write", "clean"}
    BY <1>2, <1>5 DEF NoRebuild, Updating
<1>10. CASE ctx \in {"create", "boot"} /\ pc = "failed"
    <2>1. pc' = "dead"
        BY <1>4, <1>10
    <2>2. op = NoOp /\ op' = NoOp
        BY <1>1, <1>2, <1>10, <2>1 DEF OpKind
    <2>3. ~Serving("dead", "none") /\ OpKind("dead", "none", NoOp) /\ Copying(flash', ni', "dead", wr', "none", NoOp, Sure')
        BY DEF Serving, OpKind, Copying
    <2>4. Level(flash', marked', ni', "dead", wr', "none", NoOp)
        BY DEF Level
    <2>5. RunData(flash', marked', ni', "dead", wr', "none", NoOp, Sure', seen'.made)
        BY <1>1, <1>2, <1>8, <1>9, <2>1, <2>2, <2>3, <2>4, NoOpFacts DEF RunData, Safe
    <2>6. QED
        BY <1>1, <2>1, <2>2, <2>5, DataNext
<1>11. CASE ctx \in {"boot", "tail"} /\ ~(ctx = "boot" /\ pc = "failed")
    <2>1. pc' = "idle" /\ op = NoOp
        BY <1>2, <1>4, <1>11 DEF OpKind
    <2>2. Reads(flash', Sure', ni'.map, {})
        BY <1>8, <2>1, NoOpFacts DEF Safe
    <2>3. QED
        BY <1>1, <1>2, <1>5, <1>6, <1>7, <2>1, <2>2, IdleData
<1>12. CASE ctx \in {"mapfail", "remap"}
    <2>1. pc' \in {"refused", "remapped"} /\ op' = op /\ op.act \notin {"repair", "mark_good"}
        BY <1>1, <1>2, <1>4, <1>12 DEF OpKind
    <2>2. OpKind(pc', "none", op)
        BY <2>1 DEF OpKind
    <2>3. seen'.made
        BY <1>2, <1>7, <1>12 DEF Serving
    <2>4. Absent(pc', op) = Repairing(op)
        BY <2>1 DEF Absent
    <2>5. Copying(flash', ni', pc', wr', "none", op, Sure')
        BY <2>1 DEF Copying
    <2>6. ~ni'.prot => Level(flash', marked', ni', pc', wr', "none", op)
        BY <1>6, <2>1 DEF Level
    <2>7. RunData(flash', marked', ni', pc', wr', "none", op, Sure', seen'.made)
        BY <1>1, <1>2, <1>8, <1>9, <2>1, <2>2, <2>3, <2>4, <2>5, <2>6 DEF RunData, Safe
    <2>8. QED
        BY <1>1, <2>1, <2>7, DataNext
<1>13. CASE ctx = "unmap" /\ op.act = "repair"
    <2>1. /\ ni.map[op.lb] = op.new /\ op.old # op.new /\ Readable(flash, Sure, op)
          /\ \A q \in PageNos : q > op.len => Sure[op.lb][q] \in {"ff", "any"}
        BY <1>1, <1>2, <1>13 DEF Copying
    <2>2. pc' = "erase" /\ op' = op
        BY <1>1, <1>4, <1>13, <2>1
    <2>3. OpKind("erase", "none", op)
        BY <1>13 DEF OpKind
    <2>4. seen'.made
        BY <1>2, <1>7, <1>13 DEF Serving
    <2>5. Absent("erase", op) = Repairing(op)
        BY <1>13 DEF Absent, Repairing
    <2>6. Copying(flash', ni', "erase", wr', "none", op, Sure')
        BY <1>1, <1>5, <2>1 DEF Copying
    <2>7. ~ni'.prot => Level(flash', marked', ni', "erase", wr', "none", op)
        BY <1>6 DEF Level
    <2>8. RunData(flash', marked', ni', "erase", wr', "none", op, Sure', seen'.made)
        BY <1>1, <1>2, <1>8, <1>9, <2>2, <2>3, <2>4, <2>5, <2>6, <2>7 DEF RunData, Safe
    <2>9. QED
        BY <1>1, <2>2, <2>8, DataNext
<1>14. CASE ctx = "unmap" /\ op.act # "repair"
    <2>1. pc' = "idle" /\ Repairing(op) = {}
        BY <1>4, <1>14 DEF Repairing
    <2>2. Reads(flash', Sure', ni'.map, {})
        BY <1>8, <2>1 DEF Safe
    <2>3. QED
        BY <1>1, <1>2, <1>5, <1>6, <1>7, <2>1, <2>2, IdleData
<1>15. QED
    BY <1>3, <1>10, <1>11, <1>12, <1>13, <1>14 DEF Updating

(* remap_block_nmbm has returned to the mtd operation                      *)
LEMMA OpDoneData ==
    ASSUME Running, DataNow, OpDone
    PROVE  DataNow'
<1>1. /\ pc \in {"remapped", "refused"} /\ flash' = flash /\ ni' = ni /\ wr' = wr /\ ctx' = ctx
      /\ Sure' = Sure /\ seen' = seen /\ marked \subseteq marked'
      /\ \/ pc = "remapped" /\ op.act \in {"erase", "write"} /\ pc' = "retry" /\ op' = op
         \/ pc' = "idle" /\ op' = NoOp
    BY SureSame DEF OpDone, obs
<1>2. /\ Resting(pc, ctx)
      /\ Safe(flash, marked, ni, Sure, Repairing(op))
      /\ ~ni.prot => Level(flash, marked, ni, pc, wr, ctx, op)
      /\ ni.main = 0 => ni.prot
      /\ OpKind(pc, ctx, op) /\ OpWants(op, Sure)
      /\ Serving(pc, ctx) => seen.made
    BY <1>1, RestSafe
<1>3. ctx = "none" /\ seen.made /\ op.act \notin {"repair", "mark_good"} /\ Repairing(op) = {}
    BY <1>1, <1>2 DEF Resting, Serving, OpKind, Repairing
<1>4. ~ni'.prot => Current(flash', marked', ni', {})
    <2>1. Tabs(flash, marked') \subseteq Tabs(flash, marked)
        BY <1>1 DEF Tabs
    <2>2. ~ni.prot => Current(flash, marked, ni, {})
        BY <1>1, <1>2 DEF Level
    <2>3. QED
        BY <1>1, <2>1, <2>2 DEF Current
<1>5. Reads(flash', Sure', ni'.map, {})
    BY <1>1, <1>2, <1>3 DEF Safe
<1>6. CASE pc' = "idle" /\ op' = NoOp
    BY <1>1, <1>2, <1>3, <1>4, <1>5, <1>6, IdleData
<1>7. CASE pc' = "retry" /\ op' = op
    <2>1. Safe(flash', marked', ni', Sure', {})
        BY <1>4, <1>5, SafeCurrent
    <2>2. OpKind("retry", "none", op) /\ Copying(flash', ni', "retry", wr', "none", op, Sure')
        BY <1>3 DEF OpKind, Copying
    <2>3. Absent("retry", op) = {}
        BY <1>3 DEF Absent
    <2>4. ~ni'.prot => Level(flash', marked', ni', "retry", wr', "none", op)
        BY <1>4 DEF Level
    <2>5. NoRebuild(marked', ni', "retry", wr', "none")
        BY <1>1, <1>2 DEF NoRebuild
    <2>6. RunData(flash', marked', ni', "retry", wr', "none", op, Sure', seen'.made)
        BY <1>1, <1>2, <1>3, <2>1, <2>2, <2>3, <2>4, <2>5 DEF RunData, Safe
    <2>7. QED
        BY <1>1, <1>3, <1>7, <2>6, DataNext
<1>8. QED
    BY <1>1, <1>6, <1>7

(* Mapping the tail of a new chip, to which nothing was written            *)
LEMMA MapTailData ==
    ASSUME Running, DataNow, MapTail, \A l \in LBs : AnyOf(Sure, l)
    PROVE  DataNow'
<1>1. /\ ctx = "create" /\ pc = "ok" /\ flash' = flash /\ marked' = marked /\ op' = op /\ Sure' = Sure /\ wr' = wr
    BY SureSame DEF MapTail
<1>2. /\ ~ni.prot => Level(flash, marked, ni, pc, wr, ctx, op)
      /\ ni.main = 0 => ni.prot
      /\ ni \in Instances
      /\ OpKind(pc, ctx, op)
    BY <1>1, RestSafe
<1>3. op = NoOp
    BY <1>1, <1>2 DEF OpKind
<1>4. \A f, K, n, X : Safe(f, K, n, Sure, X)
    BY BlankSafe
<1>5. OpWants(NoOp, Sure) /\ \A f, n, p, w, c : p \notin {"erase", "copy"} => Copying(f, n, p, w, c, NoOp, Sure)
    BY NoOpFacts DEF OpWants, Copying
<1>6. CASE pc' = "ok" /\ ctx' = "create" /\ ni' = [map_block(ni, ni.count) EXCEPT !.count = @ + 1]
    <2>1. ni'.changed /\ ni'.prot = ni.prot /\ ni'.main = ni.main
        BY <1>2, <1>6 DEF map_block, Instances
    <2>2. ~Serving("ok", "create") /\ OpKind("ok", "create", NoOp) /\ NoRebuild(marked', ni', "ok", wr', "create")
        BY <1>2, <2>1, NoOpFacts DEF Serving, OpKind, NoRebuild
    <2>3. Level(flash', marked', ni', "ok", wr', "create", NoOp)
        BY <2>1 DEF Level
    <2>4. RunData(flash', marked', ni', "ok", wr', "create", NoOp, Sure, seen'.made)
        BY <1>4, <1>5, <2>2, <2>3, NoOpFacts DEF RunData, Safe
    <2>5. QED
        BY <1>1, <1>3, <1>6, <2>4, DataNext
<1>7. CASE pc' = "update" /\ ctx' \in {"tail", "boot"} /\ ni' = ni
    <2>1. ~Serving("update", ctx') /\ OpKind("update", ctx', NoOp) /\ NoRebuild(marked', ni', "update", wr', ctx')
        BY <1>2, <1>7, NoOpFacts DEF Serving, OpKind, NoRebuild
    <2>2. ~ni.prot => Level(flash, marked, ni, "update", wr', ctx', NoOp)
        BY <1>1, <1>2 DEF Level
    <2>3. RunData(flash', marked', ni', "update", wr', ctx', NoOp, Sure, seen'.made)
        BY <1>1, <1>4, <1>5, <1>7, <2>1, <2>2, NoOpFacts DEF RunData, Safe
    <2>4. QED
        BY <1>1, <1>3, <1>7, <2>3, DataNext
<1>8. QED
    BY <1>1, <1>6, <1>7 DEF MapTail

-----------------------------------------------------------------------------
(* The new block of a remap or a repair *)

(* Only block b, with data, changes: the tables are the same *)
LEMMA DataOnly ==
    ASSUME NEW f, NEW K, NEW n, NEW f2, NEW b \in DataBlocks(n), Common(f, K, n), AtRest(f, K, n),
           Common(f2, K, n), AtRest(f2, K, n), \A x \in Blocks \ {b} : f2[x] = f[x]
    PROVE  /\ Tabs(f2, K) = Tabs(f, K) /\ \A a \in Tabs(f, K) : f2[a] = f[a]
           /\ \A x \in Blocks : x # b => Cont(f2, x) = Cont(f, x)
<1>1. b \in Blocks /\ b \notin Tabs(f, K) /\ b \notin Tabs(f2, K)
    BY RestFacts
<1>2. Tabs(f2, K) = Tabs(f, K) /\ \A a \in Tabs(f, K) : f2[a] = f[a]
    BY <1>1 DEF Tabs
<1>3. QED
    BY <1>2, ContKept

(* The block of logical block l alone has changed *)
LEMMA ReadsOther ==
    ASSUME NEW f, NEW n, NEW f2, NEW v, NEW v2, NEW X, NEW l \in LBs, NEW b,
           Areas(n), n.map[l] = b, b # -1,
           Reads(f, v, n.map, X), \A x \in Blocks : x # b => Cont(f2, x) = Cont(f, x),
           \A k \in LBs \ {l} : v2[k] = v[k]
    PROVE  Reads(f2, v2, n.map, X \union {l})
<1>1. /\ n.map \in [LBs -> Blocks \union {-1}]
      /\ \A k, m \in LBs : k # m /\ n.map[k] # -1 => n.map[k] # n.map[m]
    BY DEF Areas, MapOK
<1>2. SUFFICES ASSUME NEW k \in LBs \ (X \union {l}), n.map[k] # -1 PROVE Agree(f2, v2, k, n.map[k])
    BY DEF Reads
<1>3. n.map[k] # b /\ n.map[k] \in Blocks
    BY <1>1, <1>2
<1>4. Cont(f2, n.map[k]) = Cont(f, n.map[k]) /\ v2[k] = v[k]
    BY <1>2, <1>3
<1>5. Agree(f, v, k, n.map[k])
    BY <1>2 DEF Reads
<1>6. QED
    BY <1>4, <1>5 DEF Agree

(* bbt_nand_copy: what is copied can be read back, and the rest is forgotten *)
LEMMA CopyAgrees ==
    ASSUME flash \in FlashType, op \in Ops, op.new \in Blocks, Watching, bbt_nand_copy,
           op.old # op.new, Readable(flash, Sure, op),
           \A q \in PageNos : q > op.len => Sure[op.lb][q] \in {"ff", "any"},
           ~op.dirty => flash[op.new] = Erased
    PROVE  /\ Agree(flash', Sure', op.lb, op.new) /\ Fades(Sure, Sure', {})
           /\ \A k \in LBs \ {op.lb} : Sure'[k] = Sure[k]
           /\ \A x \in Blocks \ {op.new} : flash'[x] = flash[x]
<1> DEFINE b == op.new
           from == Contents(op.old)
           to == Contents(b)
           S == {q \in PageNos : from[q] = "x"} \union {op.len + 1}
           readable == Lowest(S) - 1
           Page(q, n) == IF q > n THEN to[q] ELSE IF to[q] = "ff" THEN from[q] ELSE "x"
           Left(n) == {q \in PageNos : op.dirty \/ q \in (n + 1)..op.len}
           most == Smaller(readable, op.len)
<1>1. /\ op.len \in Nat /\ op.lb \in LBs /\ op.old \in Blocks /\ NPages \in Nat
      /\ from \in [PageNos -> {"ff", "d", "x"}] /\ to \in [PageNos -> {"ff", "d", "x"}]
    BY ContentsType, Sizes DEF Ops
<1>2. \/ /\ flash' = [flash EXCEPT ![b] = Data([q \in PageNos |-> Page(q, most)])]
         /\ Sure' = Fade(op.lb, Left(most))
      \/ \E n \in 0..(most - 1) :
            /\ flash' = [flash EXCEPT ![b] = Data([q \in PageNos |-> IF q = n + 1 THEN "x" ELSE Page(q, n)])]
            /\ Sure' = Fade(op.lb, Left(n))
    <2>1. \/ /\ flash' = [flash EXCEPT ![b] = Data([q \in PageNos |-> Page(q, most)])]
             /\ lost' = Lose(op.lb, Left(most))
          \/ \E n \in 0..(most - 1) :
                /\ flash' = [flash EXCEPT ![b] = Data([q \in PageNos |-> IF q = n + 1 THEN "x" ELSE Page(q, n)])]
                /\ lost' = Lose(op.lb, Left(n))
        BY Zenon DEF bbt_nand_copy
    <2>2. want' = want
        BY DEF bbt_nand_copy
    <2>3. \A ps : lost' = Lose(op.lb, ps) => Sure' = Fade(op.lb, ps)
        BY <1>1, <2>2, SureLose
    <2> HIDE DEF most, Left, Page
    <2>4. QED
        BY <2>1, <2>3
<1>3. most \in Int /\ most <= op.len /\ (from[1] = "x" => most <= 0)
    <2>1. S \in SUBSET Nat /\ op.len + 1 \in S
        BY <1>1 DEF PageNos
    <2> HIDE DEF S
    <2>2. S \in SUBSET Nat /\ S # {}
        BY <2>1
    <2>3. Lowest(S) \in S /\ \A y \in S : Lowest(S) <= y
        BY <2>2, LowestIn
    <2>4. from[1] = "x" => 1 \in S
        BY FirstPage DEF S
    <2>5. from[1] = "x" => Lowest(S) <= 1
        BY <2>3, <2>4
    <2>6. Lowest(S) \in Nat
        BY <2>2, <2>3
    <2>7. QED
        BY <1>1, <2>5, <2>6 DEF Smaller
<1> HIDE DEF most, from, to
<1>4. PICK n, g :
        /\ n \in Int /\ n <= op.len /\ (from[1] = "x" => n <= 0) /\ flash' = [flash EXCEPT ![b] = Data(g)]
        /\ Sure' = Fade(op.lb, Left(n))
        /\ \A q \in PageNos : g[q] = Page(q, n) \/ q \in (n + 1)..op.len
    <2>1. CASE /\ flash' = [flash EXCEPT ![b] = Data([q \in PageNos |-> Page(q, most)])]
               /\ Sure' = Fade(op.lb, Left(most))
        <3> DEFINE g == [q \in PageNos |-> Page(q, most)]
        <3>1. \A q \in PageNos : g[q] = Page(q, most)
            OBVIOUS
        <3>2. flash' = [flash EXCEPT ![b] = Data(g)]
            BY <2>1
        <3> HIDE DEF g, Page, Left
        <3>3. QED
            BY <1>3, <2>1, <3>1, <3>2
    <2>2. CASE \E n \in 0..(most - 1) :
            /\ flash' = [flash EXCEPT ![b] = Data([q \in PageNos |-> IF q = n + 1 THEN "x" ELSE Page(q, n)])]
            /\ Sure' = Fade(op.lb, Left(n))
        <3>1. PICK n \in 0..(most - 1) :
                /\ flash' = [flash EXCEPT ![b] = Data([q \in PageNos |-> IF q = n + 1 THEN "x" ELSE Page(q, n)])]
                /\ Sure' = Fade(op.lb, Left(n))
            BY <2>2
        <3> DEFINE g == [q \in PageNos |-> IF q = n + 1 THEN "x" ELSE Page(q, n)]
        <3>2. \A q \in PageNos : g[q] = Page(q, n) \/ q = n + 1
            OBVIOUS
        <3>3. flash' = [flash EXCEPT ![b] = Data(g)]
            BY <3>1
        <3> HIDE DEF g, Page, Left
        <3>4. n \in Int /\ n < op.len /\ (from[1] = "x" => n <= 0) /\ n + 1 \in (n + 1)..op.len
            BY <1>1, <1>3, <3>1
        <3>5. \A q \in PageNos : g[q] = Page(q, n) \/ q \in (n + 1)..op.len
            BY <3>2, <3>4
        <3>6. n <= op.len
            BY <1>1, <3>4
        <3>7. QED
            BY <3>1, <3>3, <3>4, <3>5, <3>6
    <2>3. QED
        BY <1>2, <2>1, <2>2
<1>5. /\ \A k \in LBs \ {op.lb} : Sure'[k] = Sure[k]
      /\ \A q \in PageNos : Sure'[op.lb][q] = IF q \in Left(n) THEN "any" ELSE Sure[op.lb][q]
    BY <1>1, <1>4, SureType DEF Fade, WantSet
<1>6. Fades(Sure, Sure', {})
    BY <1>5 DEF Fades
<1>7. \A x \in Blocks \ {b} : flash'[x] = flash[x]
    BY <1>4 DEF FlashType
<1>8. Cont(flash', b) = g
    BY <1>4 DEF FlashType, Data, Cont
<1>9. from = Cont(flash, op.old) /\ to = Cont(flash, b)
    BY DEF from, to, Contents, Cont
<1>10. ~op.dirty => \A q \in PageNos : to[q] = "ff"
    BY <1>9 DEF Erased, Data, AllPages, Cont
<1>11. ASSUME NEW q \in PageNos PROVE Sure'[op.lb][q] \in {"any", g[q]}
    <2>1. CASE q \in Left(n)
        BY <1>5, <2>1
    <2>2. CASE q \notin Left(n)
        <3>1. ~op.dirty /\ q \notin (n + 1)..op.len /\ Sure'[op.lb][q] = Sure[op.lb][q] /\ q \in Int /\ 1 <= q
            BY <1>5, <2>2, <1>1 DEF PageNos
        <3>2. g[q] = Page(q, n) /\ to[q] = "ff"
            BY <1>4, <1>10, <3>1
        <3>3. CASE q > n
            <4>1. q > op.len
                <5>1. n \in Int
                    BY <1>4
                <5>2. QED
                    BY <1>1, <3>1, <3>3, <5>1
            <4>2. QED
                BY <3>1, <3>2, <3>3, <4>1
        <3>4. CASE ~(q > n)
            <4>1. from[1] # "x"
                BY <1>4, <3>1, <3>4
            <4>2. Agree(flash, Sure, op.lb, op.old)
                BY <1>9, <4>1 DEF Readable
            <4>3. Sure[op.lb][q] \in {"any", from[q]}
                BY <1>9, <4>2 DEF Agree
            <4>4. QED
                BY <3>1, <3>2, <3>4, <4>3
        <3>5. QED
            BY <3>3, <3>4
    <2>3. QED
        BY <2>1, <2>2
<1>12. Agree(flash', Sure', op.lb, b)
    BY <1>8, <1>11 DEF Agree
<1>13. QED
    BY <1>5, <1>6, <1>7, <1>12

(* The new block changes, which no table that counts maps to *)
LEMMA NewBlock ==
    ASSUME Running, DataNow, pc \in {"erase", "copy"}, Common(flash', marked, ni), AtRest(flash', marked, ni),
           \A x \in Blocks \ {op.new} : flash'[x] = flash[x], Fades(Sure, Sure', {}),
           \A k \in LBs \ {op.lb} : Sure'[k] = Sure[k]
    PROVE  /\ Reads(flash', Sure', ni.map, {op.lb})
           /\ ~ni.prot =>
                /\ Stored(flash', marked, Sure', Repairing(op)) /\ Near(flash', marked, ni, Sure', Repairing(op))
                /\ IF ctx = "remap" THEN ni.changed /\ Earlier(flash', marked, ni, op)
                   ELSE Current(flash', marked, ni, {})
<1> DEFINE b == op.new
           X == Repairing(op)
<1>1. Common(flash, marked, ni) /\ AtRest(flash, marked, ni) /\ OpOK(ni, pc, ctx, op) /\ Resting(pc, ctx)
    BY RestPhase
<1>2. op \in Ops /\ b \in DataBlocks(ni) /\ ctx \in {"remap", "none"} /\ op.lb \in LBs /\ op.new # -1
    BY <1>1 DEF OpOK, Resting, Updating, Ops
<1>3. /\ Reads(flash, Sure, ni.map, {op.lb})
      /\ ~ni.prot =>
            /\ Stored(flash, marked, Sure, X) /\ Near(flash, marked, ni, Sure, X)
            /\ IF ctx = "remap" THEN ni.changed /\ Earlier(flash, marked, ni, op)
               ELSE Current(flash, marked, ni, {})
      /\ ni.map[op.lb] = b /\ op.old # b
      /\ ctx = "none" => op.act = "repair"
    BY DEF DataNow, RunData, Level, Absent, Copying, OpKind
<1>4. Areas(ni)
    BY <1>1 DEF Common
<1>5. /\ ni.map \in [LBs -> Blocks \union {-1}]
      /\ \A k, m \in LBs : k # m /\ ni.map[k] # -1 => ni.map[k] # ni.map[m]
    BY <1>4 DEF Areas, MapOK
<1>6. /\ Tabs(flash', marked) = Tabs(flash, marked) /\ \A a \in Tabs(flash, marked) : flash'[a] = flash[a]
      /\ \A x \in Blocks : x # b => Cont(flash', x) = Cont(flash, x)
    BY <1>1, <1>2, DataOnly
<1>7. Reads(flash', Sure', ni.map, {op.lb})
    <2> DEFINE l == op.lb
               Y == {op.lb}
    <2>1. /\ l \in LBs /\ ni.map[l] = b /\ b # -1 /\ Reads(flash, Sure, ni.map, Y)
          /\ \A k \in LBs \ {l} : Sure'[k] = Sure[k]
        BY <1>2, <1>3
    <2> HIDE DEF l, b, Y
    <2>2. Reads(flash', Sure', ni.map, Y \union {l})
        BY <1>4, <1>6, <2>1, ReadsOther
    <2>3. Y \union {l} = {op.lb}
        BY DEF l, Y
    <2>4. QED
        BY <2>2, <2>3
<1>8. ASSUME ~ni.prot PROVE Stored(flash', marked, Sure', X) /\ Near(flash', marked, ni, Sure', X)
    <2>1. ASSUME NEW a \in Tabs(flash, marked), NEW k \in LBs \ X, flash[a].map[k] # -1
          PROVE  Cont(flash', flash[a].map[k]) = Cont(flash, flash[a].map[k])
        <3>1. CASE ctx = "remap"
            <4>1. flash[a].map[k] = IF k = op.lb THEN op.old ELSE ni.map[k]
                BY <1>2, <1>3, <1>5, <1>8, <3>1 DEF Earlier
            <4>2. flash[a].map[k] \in Blocks /\ flash[a].map[k] # b
                BY <1>2, <1>3, <1>5, <2>1, <4>1 DEF Ops
            <4>3. QED
                BY <1>6, <4>2
        <3>2. CASE ctx = "none"
            <4>1. k # op.lb
                BY <1>3, <3>2 DEF Repairing
            <4>2. flash[a].map[k] = ni.map[k]
                BY <1>3, <1>8, <3>2 DEF Current
            <4>3. flash[a].map[k] \in Blocks /\ flash[a].map[k] # b
                BY <1>2, <1>3, <1>5, <2>1, <4>1, <4>2
            <4>4. QED
                BY <1>6, <4>3
        <3>3. QED
            BY <1>2, <3>1, <3>2
    <2>2. Fades(Sure, Sure', X)
        BY DEF Fades
    <2> HIDE DEF X
    <2>3. Stored(flash, marked, Sure, X) /\ Near(flash, marked, ni, Sure, X)
        BY <1>3, <1>8
    <2>4. Tabs(flash', marked) \subseteq Tabs(flash, marked) /\ \A a \in Tabs(flash', marked) : flash'[a] = flash[a]
        BY <1>6
    <2>5. \A a \in Tabs(flash', marked) : \A k \in LBs \ X :
             flash[a].map[k] # -1 => AnyOf(Sure', k) \/ Cont(flash', flash[a].map[k]) = Cont(flash, flash[a].map[k])
        BY <1>6, <2>1
    <2>6. QED
        BY <2>2, <2>3, <2>4, <2>5, StoredKept
<1>9. ASSUME ~ni.prot
      PROVE  IF ctx = "remap" THEN ni.changed /\ Earlier(flash', marked, ni, op)
             ELSE Current(flash', marked, ni, {})
    BY <1>3, <1>6, <1>9 DEF Earlier, Current
<1>10. QED
    BY <1>7, <1>8, <1>9

LEMMA RestThen ==
    ASSUME Running', pc' \notin {"write", "clean"}
    PROVE  Common(flash', marked', ni') /\ AtRest(flash', marked', ni')
<1>1. Phase(flash', marked', ni', pc', wr', ctx', cache')
    BY DEF Running
<1>2. QED
    BY <1>1 DEF Phase

(* bbt_nand_erase of the new block                                         *)
LEMMA NewBlockErasedData ==
    ASSUME Running, Running', DataNow, bbt_nand_erase
    PROVE  DataNow'
<1> DEFINE b == op.new
<1>1. /\ pc = "erase" /\ pc' = "copy" /\ marked' = marked /\ ni' = ni /\ ctx' = ctx /\ Sure' = Sure
      /\ seen' = seen /\ wr' = wr
      /\ \/ op' = op /\ flash' = [flash EXCEPT ![b] = Erased]
         \/ op' = [op EXCEPT !.dirty = TRUE] /\ (flash' = flash \/ \E c : flash' = [flash EXCEPT ![b] = c])
    BY SureSame DEF bbt_nand_erase, obs
<1>2. Common(flash, marked, ni) /\ AtRest(flash, marked, ni) /\ OpOK(ni, pc, ctx, op) /\ Resting(pc, ctx)
    BY <1>1, RestPhase
<1>3. op \in Ops /\ b \in DataBlocks(ni) /\ ctx \in {"remap", "none"} /\ op.old \in Blocks
    BY <1>1, <1>2 DEF OpOK, Resting, Updating, Ops
<1>4. b \in Blocks /\ flash \in FlashType
    BY <1>2, <1>3, RestFacts
<1>5. Common(flash', marked, ni) /\ AtRest(flash', marked, ni)
    BY <1>1, RestThen
<1>6. \A x \in Blocks \ {b} : flash'[x] = flash[x]
    BY <1>1, <1>4 DEF FlashType
<1>7. Fades(Sure, Sure', {}) /\ \A k \in LBs \ {op.lb} : Sure'[k] = Sure[k]
    BY <1>1 DEF Fades
<1>8. /\ Reads(flash', Sure', ni.map, {op.lb})
      /\ ~ni.prot =>
            /\ Stored(flash', marked, Sure', Repairing(op)) /\ Near(flash', marked, ni, Sure', Repairing(op))
            /\ IF ctx = "remap" THEN ni.changed /\ Earlier(flash', marked, ni, op)
               ELSE Current(flash', marked, ni, {})
    BY <1>1, <1>5, <1>6, <1>7, NewBlock
<1>9. /\ op'.act = op.act /\ op'.lb = op.lb /\ op'.old = op.old /\ op'.new = op.new /\ op'.len = op.len
      /\ op'.dirty \/ flash'[b] = Erased
    BY <1>1, <1>3, <1>4 DEF Ops, FlashType
<1>10. /\ Serving(pc, ctx) => seen.made
       /\ NoRebuild(marked, ni, pc, wr, ctx)
       /\ OpKind(pc, ctx, op) /\ OpWants(op, Sure) /\ Copying(flash, ni, pc, wr, ctx, op, Sure)
    BY DEF DataNow, RunData
<1>11. Repairing(op') = Repairing(op) /\ Absent("copy", op') = {op.lb}
    BY <1>9 DEF Repairing, Absent
<1>12. OpKind("copy", ctx, op') /\ OpWants(op', Sure)
    BY <1>1, <1>3, <1>9, <1>10 DEF OpKind, OpWants
<1>13. Copying(flash', ni, "copy", wr', ctx, op', Sure)
    <2>1. ni.map[op.lb] = op.new /\ op.old # op.new /\ Readable(flash, Sure, op)
          /\ \A q \in PageNos : q > op.len => Sure[op.lb][q] \in {"ff", "any"}
        BY <1>1, <1>10 DEF Copying
    <2>2. Readable(flash', Sure, op)
        BY <1>3, <1>6, <2>1, ReadableKept
    <2>3. Readable(flash', Sure, op')
        BY <1>9, <2>2 DEF Readable
    <2>4. QED
        BY <1>9, <2>1, <2>3 DEF Copying
<1>14. ~ni.prot => Level(flash', marked, ni, "copy", wr', ctx, op')
    BY <1>8, <1>9 DEF Level, Earlier
<1>15. NoRebuild(marked, ni, "copy", wr', ctx)
    BY <1>1, <1>10 DEF NoRebuild
<1>16. Serving("copy", ctx) /\ seen'.made
    BY <1>1, <1>10 DEF Serving
<1>17. RunData(flash', marked, ni, "copy", wr', ctx, op', Sure, seen'.made)
    BY <1>1, <1>3, <1>8, <1>11, <1>12, <1>13, <1>14, <1>15, <1>16 DEF RunData
<1>18. QED
    BY <1>1, <1>17, DataNext

(* bbt_nand_copy to the new block                                          *)
LEMMA NewBlockCopiedData ==
    ASSUME Running, Running', DataNow, Watching, bbt_nand_copy
    PROVE  DataNow'
<1> DEFINE b == op.new
           l == op.lb
<1>1. /\ pc = "copy" /\ pc' = (IF ctx = "remap" THEN "update" ELSE "idle") /\ marked' = marked /\ ni' = ni
      /\ ctx' = ctx /\ op' = (IF pc' = "idle" THEN NoOp ELSE op) /\ seen' = seen /\ wr' = wr
    BY DEF bbt_nand_copy
<1>2. Common(flash, marked, ni) /\ AtRest(flash, marked, ni) /\ OpOK(ni, pc, ctx, op) /\ Resting(pc, ctx)
    BY <1>1, RestPhase
<1>3. op \in Ops /\ b \in DataBlocks(ni) /\ ctx \in {"remap", "none"} /\ l \in LBs /\ b # -1
    BY <1>1, <1>2 DEF OpOK, Resting, Updating, Ops
<1>4. b \in Blocks /\ flash \in FlashType /\ Sure \in WantSet
    BY <1>2, <1>3, RestFacts, SureType
<1>5. /\ Serving(pc, ctx) => seen.made
      /\ NoRebuild(marked, ni, pc, wr, ctx)
      /\ OpKind(pc, ctx, op) /\ OpWants(op, Sure) /\ Copying(flash, ni, pc, wr, ctx, op, Sure)
    BY DEF DataNow, RunData
<1>6. /\ ni.map[l] = b /\ op.old # b /\ Readable(flash, Sure, op)
      /\ \A q \in PageNos : q > op.len => Sure[l][q] \in {"ff", "any"}
      /\ ~op.dirty => flash[b] = Erased
    BY <1>1, <1>5 DEF Copying
<1>7. /\ Agree(flash', Sure', l, b) /\ Fades(Sure, Sure', {})
      /\ \A k \in LBs \ {l} : Sure'[k] = Sure[k]
      /\ \A x \in Blocks \ {b} : flash'[x] = flash[x]
    BY <1>3, <1>4, <1>6, CopyAgrees
<1>8. Common(flash', marked, ni) /\ AtRest(flash', marked, ni)
    BY <1>1, RestThen
<1>9. /\ Reads(flash', Sure', ni.map, {op.lb})
      /\ ~ni.prot =>
            /\ Stored(flash', marked, Sure', Repairing(op)) /\ Near(flash', marked, ni, Sure', Repairing(op))
            /\ IF ctx = "remap" THEN ni.changed /\ Earlier(flash', marked, ni, op)
               ELSE Current(flash', marked, ni, {})
    BY <1>1, <1>7, <1>8, NewBlock
<1>10. Reads(flash', Sure', ni.map, {})
    BY <1>6, <1>7, <1>9 DEF Reads
<1>11. seen'.made /\ (ni.main = 0 => ni.prot)
    BY <1>1, <1>5 DEF Serving, NoRebuild
<1>12. CASE ctx = "none"
    BY <1>1, <1>9, <1>10, <1>11, <1>12, IdleData
<1>13. CASE ctx = "remap"
    <2>1. pc' = "update" /\ op' = op
        BY <1>1, <1>13
    <2>2. op.act \notin {"repair", "mark_good"}
        BY <1>5, <1>13 DEF OpKind
    <2>3. Repairing(op) = {} /\ Absent("update", op) = {} /\ OpKind("update", "remap", op)
        BY <2>2 DEF Repairing, Absent, OpKind
    <2>4. OpWants(op, Sure')
        BY <1>3, <1>5, <1>7, <2>2 DEF OpWants, Fades
    <2>5. Copying(flash', ni, "update", wr', "remap", op, Sure')
        BY DEF Copying
    <2>6. NoRebuild(marked, ni, "update", wr', "remap")
        BY <1>11 DEF NoRebuild
    <2>7. ~ni.prot => Level(flash', marked, ni, "update", wr', "remap", op)
        BY <1>9, <1>13 DEF Level
    <2>8. RunData(flash', marked, ni, "update", wr', "remap", op, Sure', seen'.made)
        BY <1>9, <1>10, <1>11, <2>3, <2>4, <2>5, <2>6, <2>7 DEF RunData
    <2>9. QED
        BY <1>1, <1>13, <2>1, <2>8, DataNext
<1>14. QED
    BY <1>3, <1>12, <1>13

-----------------------------------------------------------------------------
(* The mtd operations *)

(* remap_block_nmbm; flash and Sure may have changed just before *)
LEMMA RemapData ==
    ASSUME NEW o \in Ops, Common(flash', marked', ni), AtRest(flash', marked', ni), remap_block(o),
           o.lb < ni.count, o.old = ni.map[o.lb], ctx = "none", ~seen'.astray, Watching,
           seen.made, ni.main = 0 => ni.prot, o.act \notin {"repair", "mark_good"},
           Reads(flash', Sure', ni.map, {}), ~ni.prot => Current(flash', marked', ni, {}), OpWants(o, Sure'),
           \A q \in PageNos : q > o.len => Sure'[o.lb][q] \in {"ff", "any"}
    PROVE  DataNow'
<1> DEFINE b == o.old
           n == set_bad(ni, {b})
           l == o.lb
           new == IF Unmapped(n) = {} THEN -1 ELSE Highest(Unmapped(n))
<1>1. l \in LBs /\ b \in DataBlocks(ni) /\ b \in Blocks /\ b # -1
    BY ServedIn, Sizes DEF Common, Ops
<1>2. /\ op' = [o EXCEPT !.new = new]
      /\ \/ ni' = n /\ pc' = "refused" /\ ctx' = "none" /\ seen' = seen
         \/ ni' = n /\ pc' = "update" /\ ctx' = "mapfail" /\ seen' = seen
         \/ /\ Unmapped(n) # {} /\ ni' = map_block(n, l) /\ pc' = "erase" /\ ctx' = "remap" /\ Skips(n)
    BY DEF remap_block
<1>3. /\ Common(flash', marked', n) /\ n \in Instances
      /\ n.top = ni.top /\ n.map = ni.map /\ n.sig = ni.sig /\ n.main = ni.main
    <2>1. b \in DataBlocks(ni) /\ n = set_bad(ni, {b})
        BY <1>1
    <2> HIDE DEF b, n, l, new
    <2>2. QED
        BY <2>1, DataBad
<1>4. n.prot = ni.prot
    <2>1. ni \in Instances
        BY RestFacts
    <2>2. QED
        BY <2>1 DEF set_bad, Instances
<1>5. seen'.made
    BY <1>2 DEF Skips, Watching, SeenSet
<1>6. op'.act = o.act /\ op'.lb = l /\ op'.old = b /\ op'.len = o.len /\ op'.new = new
    BY <1>2 DEF Ops
<1> HIDE DEF b, n, l, new
<1>7. Safe(flash', marked', n, Sure', {}) /\ (~n.prot => Current(flash', marked', n, {}))
    <2>1. Reads(flash', Sure', n.map, {}) /\ (~n.prot => Current(flash', marked', n, {}))
        BY <1>3, <1>4, CurrentMoved
    <2>2. QED
        BY <2>1, SafeCurrent
<1>8. OpWants(op', Sure') /\ Repairing(op') = {} /\ (\A p, c : c # "unmap" /\ c # "none" => OpKind(p, c, op') \/ p = "idle" \/ c \in {"load", "create", "boot", "tail"})
    BY <1>6 DEF OpWants, Repairing, OpKind, l
<1>9. CASE ni' = n /\ ((pc' = "refused" /\ ctx' = "none") \/ (pc' = "update" /\ ctx' = "mapfail"))
    <2>1. OpKind(pc', ctx', op') /\ Absent(pc', op') = {} /\ Copying(flash', ni', pc', wr', ctx', op', Sure')
        BY <1>6, <1>8, <1>9 DEF OpKind, Absent, Copying
    <2>2. NoRebuild(marked', ni', pc', wr', ctx') /\ ctx' # "load"
        BY <1>3, <1>4, <1>9 DEF NoRebuild
    <2>3. ~n.prot => Level(flash', marked', n, pc', wr', ctx', op')
        BY <1>7, <1>9 DEF Level
    <2>4. RunData(flash', marked', ni', pc', wr', ctx', op', Sure', seen'.made)
        BY <1>5, <1>7, <1>8, <1>9, <2>1, <2>2, <2>3 DEF RunData, Safe
    <2>5. QED
        BY <2>4, DataNext
<1>10. CASE Unmapped(n) # {} /\ ni' = map_block(n, l) /\ pc' = "erase" /\ ctx' = "remap" /\ Skips(n)
    <2>1. n.top \notin n.bad /\ Areas(n)
        BY <1>3, <1>10 DEF Skips, Common, Watching, SeenSet
    <2>2. Highest(Unmapped(n)) = n.top /\ n.lo < n.top /\ n.top \in Nat /\ n.sig \in Nat /\ MgmtStart < n.lo /\ n.lo \in Nat
        BY <1>10, <2>1, TopTaken, AreaTypes
    <2>3. new = n.top
        BY <1>10, <2>2 DEF new
    <2> DEFINE m == [n.map EXCEPT ![l] = n.top]
    <2>4. n.map \in [LBs -> Blocks \union {-1}]
        BY <1>3 DEF Instances
    <2>5. m[l] = n.top /\ (\A k \in LBs \ {l} : m[k] = n.map[k]) /\ [m EXCEPT ![l] = b] = n.map
        BY <1>1, <1>3, <2>4 DEF l, b
    <2>6. ni'.map = m /\ ni'.changed /\ ni'.prot = n.prot /\ ni'.main = n.main
        BY <1>3, <1>10, <2>2 DEF map_block, Instances
    <2> HIDE DEF m
    <2>7. b # new /\ new \notin LBs \union {-1} /\ (b \in LBs \/ b > new)
        <3>1. b \in LBs \/ b \in (n.top + 1)..(n.sig - 1)
            BY <1>1, <1>3 DEF DataBlocks
        <3>2. QED
            BY <2>2, <2>3, <3>1, Sizes DEF LBs
    <2>8. Reads(flash', Sure', m, {l})
        BY <1>7, <2>5 DEF Safe, Reads
    <2>9. ~n.prot => Near(flash', marked', ni', Sure', {})
        <3>1. SUFFICES ASSUME ~n.prot, NEW a \in Tabs(flash', marked') PROVE Above(flash'[a].map, m, Sure', {})
            BY <2>6 DEF Near
        <3>2. flash'[a].map = n.map
            BY <1>7, <3>1 DEF Current
        <3>3. n.map[l] = b
            BY <1>3 DEF b, l
        <3>4. QED
            BY <2>3, <2>5, <2>7, <3>2, <3>3 DEF Above
    <2>10. ~n.prot => Earlier(flash', marked', ni', op')
        BY <1>6, <1>7, <2>5, <2>6 DEF Earlier, Current
    <2>11. ~n.prot => Level(flash', marked', ni', "erase", wr', "remap", op')
        BY <2>6, <2>10 DEF Level
    <2>12. OpKind("erase", "remap", op') /\ Absent("erase", op') = {l}
        BY <1>6, <1>8 DEF Absent, OpKind
    <2>13. NoRebuild(marked', ni', "erase", wr', "remap")
        BY <1>3, <1>4, <2>6 DEF NoRebuild
    <2>14. Copying(flash', ni', "erase", wr', "remap", op', Sure')
        <3>1. Agree(flash', Sure', l, b)
            BY <1>1, <1>3, <1>7 DEF Safe, Reads, l, b
        <3>2. Readable(flash', Sure', op')
            BY <1>6, <3>1 DEF Readable
        <3>3. QED
            BY <1>6, <2>3, <2>5, <2>6, <2>7, <3>2 DEF Copying, l
    <2>15. RunData(flash', marked', ni', "erase", wr', "remap", op', Sure', seen'.made)
        BY <1>5, <1>7, <1>8, <2>6, <2>8, <2>9, <2>11, <2>12, <2>13, <2>14 DEF RunData, Safe
    <2>16. QED
        BY <1>10, <2>15, DataNext
<1>11. QED
    BY <1>2, <1>9, <1>10 DEF l

(* A call begins, or begins again on the new block *)
LEMMA CallData ==
    ASSUME Running, DataNow, pc \in {"idle", "retry"}
    PROVE  /\ seen.made /\ (ni.main = 0 => ni.prot) /\ Reads(flash, Sure, ni.map, {})
           /\ ~ni.prot => Current(flash, marked, ni, {})
           /\ OpWants(op, Sure)
<1>1. /\ Safe(flash, marked, ni, Sure, Repairing(op))
      /\ ~ni.prot => Level(flash, marked, ni, pc, wr, ctx, op)
      /\ ni.main = 0 => ni.prot
      /\ OpKind(pc, ctx, op) /\ OpWants(op, Sure)
      /\ Serving(pc, ctx) => seen.made
    BY RestSafe
<1>2. Repairing(op) = {}
    BY <1>1, NoOpFacts DEF OpKind, Repairing
<1>3. QED
    BY <1>1, <1>2 DEF Safe, Level, Serving

(* It changes the block of logical block l alone *)
LEMMA CallChange ==
    ASSUME Running, DataNow, pc \in {"idle", "retry"}, NEW l \in LBs, l < ni.count,
           Common(flash', marked, ni), AtRest(flash', marked, ni),
           \A x \in Blocks \ {ni.map[l]} : flash'[x] = flash[x], \A k \in LBs \ {l} : Sure'[k] = Sure[k],
           Agree(flash', Sure', l, ni.map[l])
    PROVE  Reads(flash', Sure', ni.map, {}) /\ (~ni.prot => Current(flash', marked, ni, {}))
<1> DEFINE b == ni.map[l]
<1>1. Common(flash, marked, ni) /\ AtRest(flash, marked, ni)
    BY RestPhase
<1>2. b \in DataBlocks(ni) /\ b # -1 /\ Areas(ni)
    BY <1>1, ServedIn DEF Common
<1>3. Reads(flash, Sure, ni.map, {}) /\ (~ni.prot => Current(flash, marked, ni, {}))
    BY CallData
<1>4. /\ Tabs(flash', marked) = Tabs(flash, marked) /\ \A a \in Tabs(flash, marked) : flash'[a] = flash[a]
      /\ \A x \in Blocks : x # b => Cont(flash', x) = Cont(flash, x)
    BY <1>1, <1>2, DataOnly
<1>5. Reads(flash', Sure', ni.map, {} \union {l})
    <2> DEFINE Y == {}
    <2>1. Reads(flash, Sure, ni.map, Y) /\ ni.map[l] = b /\ \A k \in LBs \ {l} : Sure'[k] = Sure[k]
        BY <1>3
    <2> HIDE DEF b, Y
    <2>2. /\ Areas(ni) /\ b # -1 /\ \A x \in Blocks : x # b => Cont(flash', x) = Cont(flash, x)
        BY <1>2, <1>4
    <2>3. Reads(flash', Sure', ni.map, Y \union {l})
        BY <2>1, <2>2, ReadsOther
    <2>4. QED
        BY <2>3 DEF Y
<1>6. Reads(flash', Sure', ni.map, {})
    BY <1>5 DEF Reads
<1>7. QED
    BY <1>3, <1>4, <1>6 DEF Current

(* mtk_bmt_mtd_erase                                                       *)
LEMMA EraseData ==
    ASSUME Running, Running', DataNow, Watching, NEW l \in Served, mtd_erase(l), ~seen'.astray
    PROVE  DataNow'
<1> DEFINE b == ni.map[l]
           o == Op("erase", l, 0)
<1>1. pc \in {"idle", "retry"} /\ marked' = marked
    BY DEF mtd_erase, Started
<1>2. 0 \in 0..NPages /\ NPages \in Nat
    BY Sizes
<1>3. /\ o \in Ops /\ o.lb < ni.count /\ o.old = ni.map[o.lb] /\ ctx = "none" /\ o.lb = l /\ o.act = "erase"
      /\ b \in DataBlocks(ni) /\ b \in Blocks /\ l \in LBs /\ l < ni.count
      /\ Common(flash, marked, ni) /\ AtRest(flash, marked, ni) /\ flash \in FlashType
    BY <1>1, <1>2, OpIn
<1>4. o.len = 0
    BY DEF Op
<1>5. \/ flash' = [flash EXCEPT ![b] = Erased] /\ Sure' = [Sure EXCEPT ![l] = AllPages("ff")] /\ Idle
      \/ /\ flash' = flash \/ \E c \in {flash[b], Torn} : flash' = [flash EXCEPT ![b] = c]
         /\ Sure' = Fade(l, PageNos) /\ remap_block(o)
    <2>1. \/ /\ flash' = [flash EXCEPT ![b] = Erased] /\ Idle
             /\ want' = [want EXCEPT ![l] = AllPages("ff")] /\ lost' = [lost EXCEPT ![l] = {}]
          \/ /\ flash' = flash \/ \E c \in {flash[b], Torn} : flash' = [flash EXCEPT ![b] = c]
             /\ want' = Forget(l, PageNos) /\ lost' = lost /\ remap_block(o)
        BY DEF mtd_erase, EraseFailed
    <2>2. l \in LBs
        BY <1>3
    <2> HIDE DEF b, o
    <2>3. QED
        BY <2>1, <2>2, SureErased, SureForget
<1>6. /\ Sure \in WantSet /\ seen.made /\ (ni.main = 0 => ni.prot)
    BY <1>1, CallData, SureType
<1>7. Common(flash', marked, ni) /\ AtRest(flash', marked, ni)
    <2>1. CASE flash' = flash
        BY <1>3, <2>1
    <2>2. ASSUME NEW c \in {Erased, Torn}, flash' = [flash EXCEPT ![b] = c]
          PROVE  Common(flash', marked, ni) /\ AtRest(flash', marked, ni)
        <3>1. c \in DataContents
            BY Kinds
        <3>2. Put(flash, b, c, flash')
            BY <2>2 DEF Put
        <3>3. QED
            BY <1>3, <3>1, <3>2, DataPut
    <2>3. CASE flash' = [flash EXCEPT ![b] = flash[b]]
        <3>1. flash' = flash
            BY <1>3, <2>3 DEF FlashType
        <3>2. QED
            BY <1>3, <3>1
    <2>4. QED
        BY <1>5, <2>1, <2>2, <2>3
<1>8. /\ \A x \in Blocks \ {b} : flash'[x] = flash[x]
      /\ \A k \in LBs \ {l} : Sure'[k] = Sure[k]
    BY <1>3, <1>5, <1>6 DEF FlashType, WantSet, Fade
<1>9. CASE flash' = [flash EXCEPT ![b] = Erased] /\ Sure' = [Sure EXCEPT ![l] = AllPages("ff")] /\ Idle
    <2>1. Cont(flash', b) = AllPages("ff") /\ Sure'[l] = AllPages("ff")
        BY <1>3, <1>6, <1>9 DEF FlashType, WantSet, Erased, Data, Cont
    <2>2. Agree(flash', Sure', l, b)
        BY <2>1 DEF Agree
    <2>3. Reads(flash', Sure', ni.map, {}) /\ (~ni.prot => Current(flash', marked, ni, {}))
        BY <1>1, <1>3, <1>7, <1>8, <2>2, CallChange
    <2>4. pc' = "idle" /\ op' = NoOp /\ ni' = ni /\ ctx' = "none" /\ seen' = seen
        BY <1>3, <1>9 DEF Idle
    <2>5. QED
        BY <1>1, <1>6, <2>3, <2>4, IdleData
<1>10. CASE Sure' = Fade(l, PageNos) /\ remap_block(o)
    <2>1. \A q \in PageNos : Sure'[l][q] = "any"
        BY <1>3, <1>6, <1>10 DEF Fade, WantSet
    <2>2. Agree(flash', Sure', l, b)
        BY <2>1 DEF Agree
    <2>3. Reads(flash', Sure', ni.map, {}) /\ (~ni.prot => Current(flash', marked, ni, {}))
        BY <1>1, <1>3, <1>7, <1>8, <2>2, CallChange
    <2>4. OpWants(o, Sure')
        BY <1>3 DEF OpWants
    <2> HIDE DEF o
    <2>5. QED
        BY <1>1, <1>3, <1>6, <1>7, <1>10, <2>1, <2>3, <2>4, RemapData
<1>11. QED
    BY <1>5, <1>9, <1>10

(* The pages from p on are erased, and those before are not *)
LEMMA WriteOrder ==
    ASSUME Running, DataNow, Watching, InOrder, NEW l \in Served, NEW p \in PageNos, mtd_write(l, p)
    PROVE  /\ pc \in {"idle", "retry"}
           /\ \A q \in PageNos : IF q >= p THEN Sure[l][q] \in {"ff", "any"} ELSE Sure[l][q] # "ff"
<1>1. /\ pc = "idle" \/ (pc = "retry" /\ op.act = "write" /\ op.lb = l)
      /\ IF pc = "retry" THEN p = op.len + 1
         ELSE want[l][p] = "ff" /\ \A q \in 1..(p - 1) : want[l][q] # "ff"
    BY DEF mtd_write, Started
<1>2. p \in Int /\ 1 <= p /\ l \in LBs /\ PageNos \in SUBSET Int /\ \A q \in PageNos : 1 <= q
    BY Sizes DEF PageNos, Served
<1>3. CASE pc = "retry"
    <2>1. op \in Ops /\ OpWants(op, Sure)
        <3>1. OpOK(ni, pc, ctx, op)
            BY <1>3, RestPhase
        <3>2. QED
            BY <1>3, <3>1, CallData DEF OpOK
    <2>2. op.len \in Int
        BY <2>1, Sizes DEF Ops
    <2>3. \A q \in PageNos : IF q > op.len THEN Sure[l][q] \in {"ff", "any"} ELSE Sure[l][q] # "ff"
        BY <1>1, <1>3, <2>1 DEF OpWants
    <2>4. \A q \in PageNos : (q >= p) <=> (q > op.len)
        <3>1. p = op.len + 1
            BY <1>1, <1>3
        <3>2. SUFFICES ASSUME NEW q \in PageNos PROVE (q >= p) <=> (q > op.len)
            OBVIOUS
        <3>3. q \in Int
            BY <1>2
        <3>4. QED
            BY <2>2, <3>1, <3>3
    <2>5. QED
        BY <1>3, <2>3, <2>4
<1>4. CASE pc = "idle"
    <2>1. ASSUME NEW q \in PageNos, q >= p PROVE Sure[l][q] \in {"ff", "any"}
        <3>1. q = p \/ p < q
            BY <1>2, <2>1
        <3>2. want[l][q] \in {"ff", "any"}
            BY <1>1, <1>2, <1>4, <3>1 DEF InOrder, Ordered
        <3>3. QED
            BY <1>2, <3>2, SurePage
    <2>2. ASSUME NEW q \in PageNos, ~(q >= p) PROVE Sure[l][q] # "ff"
        <3>1. q \in 1..(p - 1)
            BY <1>2, <2>2
        <3>2. want[l][q] # "ff"
            BY <1>1, <1>4, <3>1
        <3>3. QED
            BY <1>2, <3>2, SurePage
    <2>3. QED
        BY <1>4, <2>1, <2>2
<1>5. QED
    BY <1>1, <1>3, <1>4

(* Page p of the block takes v, which is what it is to be read as, or it *)
(* need not be read                                                      *)
LEMMA PageAgrees ==
    ASSUME flash \in FlashType, NEW b \in Blocks, NEW p \in PageNos, NEW v, Sure \in WantSet, NEW l \in LBs,
           Agree(flash, Sure, l, b),
           Put(flash, b, Data([Contents(b) EXCEPT ![p] = v]), flash'),
           \A q \in PageNos : Sure'[l][q] = Sure[l][q] \/ q = p, Sure'[l][p] \in {v, "any"}
    PROVE  Agree(flash', Sure', l, b) /\ \A x \in Blocks \ {b} : flash'[x] = flash[x]
<1> DEFINE g == [Contents(b) EXCEPT ![p] = v]
<1>1. Contents(b) \in [PageNos -> {"ff", "d", "x"}] /\ Contents(b) = Cont(flash, b)
    BY ContentsType DEF Contents, Cont
<1>2. Cont(flash', b) = g
    BY DEF FlashType, Data, Cont, Put
<1>3. \A q \in PageNos : g[q] = IF q = p THEN v ELSE Cont(flash, b)[q]
    BY <1>1
<1>4. \A x \in Blocks \ {b} : flash'[x] = flash[x]
    BY DEF FlashType, Put
<1> HIDE DEF g
<1>5. \A q \in PageNos : Sure'[l][q] \in {"any", g[q]}
    BY <1>3 DEF Agree
<1>6. QED
    BY <1>2, <1>4, <1>5 DEF Agree

(* mtk_bmt_write                                                           *)
LEMMA PageData ==
    ASSUME Running, Running', DataNow, Watching, InOrder, NEW l \in Served, NEW p \in PageNos,
           mtd_write(l, p), ~seen'.astray
    PROVE  DataNow'
<1> DEFINE b == ni.map[l]
           k == p - 1
           o == Op("write", l, k)
           v == IF Contents(b)[p] = "ff" THEN "d" ELSE "x"
           u == IF Contents(b)[p] = "ff" THEN "d" ELSE "any"
<1>1. /\ pc \in {"idle", "retry"} /\ marked' = marked
      /\ \A q \in PageNos : IF q >= p THEN Sure[l][q] \in {"ff", "any"} ELSE Sure[l][q] # "ff"
    BY WriteOrder DEF mtd_write
<1>2. k \in 0..NPages /\ k \in Int /\ p \in Int /\ k = p - 1 /\ PageNos \in SUBSET Int
    BY Sizes DEF PageNos
<1> HIDE DEF k
<1>3. /\ o \in Ops /\ o.lb < ni.count /\ o.old = ni.map[o.lb] /\ ctx = "none" /\ o.lb = l /\ o.act = "write"
      /\ b \in DataBlocks(ni) /\ b \in Blocks /\ l \in LBs /\ l < ni.count /\ b # -1
      /\ Common(flash, marked, ni) /\ AtRest(flash, marked, ni) /\ flash \in FlashType
    BY <1>1, <1>2, OpIn
<1>4. o.len = k
    BY DEF Op
<1>5. \/ /\ flash' = [flash EXCEPT ![b] = Data([Contents(b) EXCEPT ![p] = v])]
         /\ Sure' = [Sure EXCEPT ![l][p] = u] /\ Idle
      \/ /\ flash' = [flash EXCEPT ![b] = Data([Contents(b) EXCEPT ![p] = "x"])]
         /\ Sure' = Fade(l, {p}) /\ remap_block(o)
    <2> DEFINE blank == Contents(b)[p] = "ff"
    <2>1. \/ /\ flash' = [flash EXCEPT ![b] = Data([Contents(b) EXCEPT ![p] = v])] /\ Idle
             /\ want' = [want EXCEPT ![l][p] = "d"]
             /\ lost' = [lost EXCEPT ![l] = IF blank THEN @ \ {p} ELSE @ \union {p}]
          \/ /\ flash' = [flash EXCEPT ![b] = Data([Contents(b) EXCEPT ![p] = "x"])]
             /\ want' = Forget(l, {p}) /\ lost' = lost /\ remap_block(o)
        BY DEF mtd_write, k
    <2>2. blank \in BOOLEAN /\ u = (IF blank THEN "d" ELSE "any")
        OBVIOUS
    <2>3. l \in LBs
        BY <1>3
    <2> HIDE DEF b, o, v, u, blank
    <2>4. QED
        BY <2>1, <2>2, <2>3, SureWrote, SureForget
<1> HIDE DEF o
<1>6. /\ Sure \in WantSet /\ seen.made /\ (ni.main = 0 => ni.prot) /\ Reads(flash, Sure, ni.map, {})
    BY <1>1, CallData, SureType
<1>7. Agree(flash, Sure, l, b)
    BY <1>3, <1>6 DEF Reads
<1>8. Common(flash', marked, ni) /\ AtRest(flash', marked, ni)
    <2>1. v \in {"ff", "d", "x"} /\ "x" \in {"ff", "d", "x"}
        OBVIOUS
    <2> HIDE DEF v, b
    <2>2. QED
        BY <1>3, <1>5, <2>1, PagePut
<1>9. CASE /\ flash' = [flash EXCEPT ![b] = Data([Contents(b) EXCEPT ![p] = v])]
           /\ Sure' = [Sure EXCEPT ![l][p] = u] /\ Idle
    <2>1. /\ \A q \in PageNos : Sure'[l][q] = Sure[l][q] \/ q = p
          /\ Sure'[l][p] = u
          /\ \A j \in LBs \ {l} : Sure'[j] = Sure[j]
        BY <1>3, <1>6, <1>9 DEF WantSet
    <2>2. u \in {v, "any"}
        OBVIOUS
    <2> HIDE DEF v, u, b
    <2>3. Agree(flash', Sure', l, b) /\ \A x \in Blocks \ {b} : flash'[x] = flash[x]
        <3>1. Put(flash, b, Data([Contents(b) EXCEPT ![p] = v]), flash')
            BY <1>9 DEF Put
        <3>2. Sure'[l][p] \in {v, "any"}
            BY <2>1, <2>2
        <3>3. QED
            BY <1>3, <1>6, <1>7, <2>1, <3>1, <3>2, PageAgrees
    <2>4. Reads(flash', Sure', ni.map, {}) /\ (~ni.prot => Current(flash', marked, ni, {}))
        BY <1>1, <1>3, <1>8, <2>1, <2>3, CallChange DEF b
    <2>5. pc' = "idle" /\ op' = NoOp /\ ni' = ni /\ ctx' = "none" /\ seen' = seen
        BY <1>3, <1>9 DEF Idle
    <2>6. QED
        BY <1>1, <1>6, <2>4, <2>5, IdleData
<1>10. CASE /\ flash' = [flash EXCEPT ![b] = Data([Contents(b) EXCEPT ![p] = "x"])]
            /\ Sure' = Fade(l, {p}) /\ remap_block(o)
    <2>1. /\ \A q \in PageNos : Sure'[l][q] = IF q = p THEN "any" ELSE Sure[l][q]
          /\ \A j \in LBs \ {l} : Sure'[j] = Sure[j]
        BY <1>3, <1>6, <1>10 DEF WantSet, Fade
    <2> HIDE DEF b
    <2>2. Agree(flash', Sure', l, b) /\ \A x \in Blocks \ {b} : flash'[x] = flash[x]
        <3>1. Put(flash, b, Data([Contents(b) EXCEPT ![p] = "x"]), flash')
            BY <1>10 DEF Put
        <3>2. Sure'[l][p] \in {"x", "any"} /\ \A q \in PageNos : Sure'[l][q] = Sure[l][q] \/ q = p
            BY <2>1
        <3>3. QED
            BY <1>3, <1>6, <1>7, <3>1, <3>2, PageAgrees
    <2>3. Reads(flash', Sure', ni.map, {}) /\ (~ni.prot => Current(flash', marked, ni, {}))
        BY <1>1, <1>3, <1>8, <2>1, <2>2, CallChange DEF b
    <2>4. \A q \in PageNos : IF q > k THEN Sure'[l][q] \in {"ff", "any"} ELSE Sure'[l][q] # "ff"
        <3>1. SUFFICES ASSUME NEW q \in PageNos
                       PROVE  IF q > k THEN Sure'[l][q] \in {"ff", "any"} ELSE Sure'[l][q] # "ff"
            OBVIOUS
        <3>2. q > k <=> q >= p
            BY <1>2
        <3>3. q = p => q >= p
            BY <1>2
        <3>4. QED
            BY <1>1, <2>1, <3>2, <3>3
    <2>5. OpWants(o, Sure') /\ \A q \in PageNos : q > o.len => Sure'[o.lb][q] \in {"ff", "any"}
        BY <1>3, <1>4, <2>4 DEF OpWants
    <2>6. QED
        BY <1>1, <1>3, <1>6, <1>8, <1>10, <2>3, <2>5, RemapData
<1>11. QED
    BY <1>5, <1>9, <1>10

(* mtk_bmt_read of a page that cannot be corrected                         *)
LEMMA ReadFailsData ==
    ASSUME Running, Running', DataNow, Watching, NEW l \in Served, NEW p \in PageNos, mtd_read_fails(l, p),
           ~seen'.astray
    PROVE  DataNow'
<1> DEFINE b == ni.map[l]
           o == Op("read", l, NPages)
<1>1. /\ pc = "idle" /\ marked' = marked /\ remap_block(o) /\ Sure' = Fade(l, {p})
      /\ flash' = [flash EXCEPT ![b] = Data([Contents(b) EXCEPT ![p] = "x"])]
    <2>1. l \in LBs
        BY DEF Served
    <2>2. want' = Forget(l, {p}) /\ lost' = lost
        BY DEF mtd_read_fails
    <2>3. QED
        BY <2>1, <2>2, SureForget DEF mtd_read_fails
<1>2. NPages \in 0..NPages
    BY Sizes
<1>3. /\ o \in Ops /\ o.lb < ni.count /\ o.old = ni.map[o.lb] /\ ctx = "none" /\ o.lb = l /\ o.act = "read"
      /\ b \in DataBlocks(ni) /\ b \in Blocks /\ l \in LBs /\ l < ni.count /\ b # -1
      /\ Common(flash, marked, ni) /\ AtRest(flash, marked, ni) /\ flash \in FlashType
    BY <1>1, <1>2, OpIn
<1>4. o.len = NPages
    BY DEF Op
<1> HIDE DEF o
<1>5. /\ Sure \in WantSet /\ seen.made /\ (ni.main = 0 => ni.prot) /\ Reads(flash, Sure, ni.map, {})
    BY <1>1, CallData, SureType
<1>6. Agree(flash, Sure, l, b)
    BY <1>3, <1>5 DEF Reads
<1>7. /\ \A q \in PageNos : Sure'[l][q] = IF q = p THEN "any" ELSE Sure[l][q]
      /\ \A j \in LBs \ {l} : Sure'[j] = Sure[j]
    BY <1>1, <1>3, <1>5 DEF WantSet, Fade
<1> HIDE DEF b
<1>8. Common(flash', marked, ni) /\ AtRest(flash', marked, ni)
    BY <1>1, <1>3, PagePut
<1>9. Agree(flash', Sure', l, b) /\ \A x \in Blocks \ {b} : flash'[x] = flash[x]
    <2>1. Put(flash, b, Data([Contents(b) EXCEPT ![p] = "x"]), flash')
        BY <1>1 DEF Put
    <2>2. Sure'[l][p] \in {"x", "any"} /\ \A q \in PageNos : Sure'[l][q] = Sure[l][q] \/ q = p
        BY <1>7
    <2>3. QED
        BY <1>3, <1>5, <1>6, <2>1, <2>2, PageAgrees
<1>10. Reads(flash', Sure', ni.map, {}) /\ (~ni.prot => Current(flash', marked, ni, {}))
    BY <1>1, <1>3, <1>7, <1>8, <1>9, CallChange DEF b
<1>11. OpWants(o, Sure') /\ \A q \in PageNos : ~(q > o.len)
    BY <1>3, <1>4, Sizes DEF OpWants, PageNos
<1>12. QED
    BY <1>1, <1>3, <1>5, <1>8, <1>10, <1>11, RemapData

(* A block that is given up with its data still readable                   *)
LEMMA RetireData ==
    ASSUME Running, Running', DataNow, Watching, NEW l \in Served,
           (\E act \in {"worn", "markbad"} : Retire(l, act)) \/ mtd_isbad(l), ~seen'.astray
    PROVE  DataNow'
<1>1. PICK act \in {"worn", "markbad", "isbad"} :
        /\ pc = "idle" /\ marked' = marked /\ flash' = flash /\ Sure' = Sure /\ remap_block(Op(act, l, NPages))
    BY SureSame DEF Retire, mtd_isbad
<1> DEFINE o == Op(act, l, NPages)
<1>2. NPages \in 0..NPages
    BY Sizes
<1>3. /\ o \in Ops /\ o.lb < ni.count /\ o.old = ni.map[o.lb] /\ ctx = "none" /\ o.act = act
      /\ Common(flash, marked, ni) /\ AtRest(flash, marked, ni)
    BY <1>1, <1>2, OpIn
<1>4. o.len = NPages
    BY DEF Op
<1>5. remap_block(o)
    BY <1>1
<1> HIDE DEF o
<1>6. OpWants(o, Sure') /\ \A q \in PageNos : ~(q > o.len)
    BY <1>3, <1>4, Sizes DEF OpWants, PageNos
<1>7. /\ seen.made /\ (ni.main = 0 => ni.prot) /\ Reads(flash, Sure, ni.map, {})
      /\ ~ni.prot => Current(flash, marked, ni, {})
    BY <1>1, CallData
<1>8. QED
    BY <1>1, <1>3, <1>5, <1>6, <1>7, RemapData

(* unmap_block_nmbm: the block is mapped back before it is copied          *)
LEMMA UnmapData ==
    ASSUME Running, Running', DataNow, Watching, NEW l \in Served, NEW act \in {"repair", "mark_good"},
           unmap_block(l, act), ~seen'.astray
    PROVE  DataNow'
<1> DEFINE start == Highest({k \in 0..l : ~Remapped(k)})
           new == ni.map[start] + (l - start)
           map == [ni.map EXCEPT ![l] = new]
           mapped == {map[k] : k \in Served} \intersect (ni.lo..(ni.sig - 1))
           top == Lowest({ni.sig} \union mapped) - 1
           bad == ni.bad \ {new}
           o == Op(act, l, NPages)
           X == Repairing(op')
<1>1. /\ pc = "idle" /\ pc' = "update" /\ ctx' = "unmap" /\ flash' = flash /\ marked' = marked /\ wr' = wr
      /\ ni' = [ni EXCEPT !.bad = bad, !.map = map, !.changed = TRUE, !.top = top]
      /\ op' = [o EXCEPT !.new = new] /\ Remapped(l)
      /\ seen' = [seen EXCEPT !.astray =
            seen.astray \/ new \notin LBs \/ \E k \in Served \ {l} : ni.map[k] = new]
      /\ want' = want /\ lost' = IF act = "mark_good" THEN Lose(l, PageNos) ELSE lost
    BY DEF unmap_block
<1> HIDE DEF start, new
<1>2. new \in LBs
    BY <1>1 DEF Watching, SeenSet
<1>3. NPages \in 0..NPages
    BY Sizes
<1>4. /\ o \in Ops /\ o.act = act /\ o.lb = l /\ o.old = ni.map[l] /\ l \in LBs /\ l < ni.count /\ ni.map[l] # -1
      /\ ni.map[l] \in Blocks
      /\ Common(flash, marked, ni) /\ AtRest(flash, marked, ni)
    BY <1>1, <1>3, OpIn
<1>5. ni \in Instances /\ ni.lo \in Nat /\ MgmtStart < ni.lo
    BY <1>4, RestFacts
<1>6. o.len = NPages
    BY DEF Op
<1>7. op'.act = act /\ op'.lb = l /\ op'.old = ni.map[l] /\ op'.len = NPages /\ op'.new = new
    BY <1>1, <1>4, <1>6 DEF Ops
<1> HIDE DEF top, bad, o
<1>8. ni'.map = map /\ ni'.changed /\ ni'.prot = ni.prot /\ ni'.main = ni.main
    BY <1>1, <1>5 DEF Instances
<1>9. map[l] = new /\ \A k \in LBs \ {l} : map[k] = ni.map[k]
    BY <1>4, <1>5 DEF Instances
<1> HIDE DEF map
<1>10. ni.map[l] # new
    BY <1>1, <1>2, <1>4, <1>5, Sizes DEF Remapped, LBs
<1>11. /\ seen.made /\ (ni.main = 0 => ni.prot) /\ Reads(flash, Sure, ni.map, {})
       /\ ~ni.prot => Current(flash, marked, ni, {})
    BY <1>1, CallData
<1>12. seen'.made
    BY <1>1, <1>11 DEF Watching, SeenSet
<1>13. /\ \A k \in LBs \ {l} : Sure'[k] = Sure[k]
       /\ act = "mark_good" => AnyOf(Sure', l)
       /\ act = "repair" => Sure' = Sure
    <2>1. act = "mark_good" => Sure' = Fade(l, PageNos)
        BY <1>1, <1>4, SureLose
    <2>2. act = "repair" => Sure' = Sure
        BY <1>1, SureSame
    <2>3. Sure \in WantSet
        BY SureType
    <2>4. QED
        BY <1>4, <2>1, <2>2, <2>3 DEF WantSet, Fade, AnyOf
<1>14. /\ act = "repair" => X = {l}
       /\ act = "mark_good" => X = {}
    BY <1>7 DEF Repairing
<1> HIDE DEF X
<1>15. Reads(flash, Sure', ni.map, {})
    <2>1. SUFFICES ASSUME NEW k \in LBs, ni.map[k] # -1 PROVE Agree(flash, Sure', k, ni.map[k])
        BY DEF Reads
    <2>2. Agree(flash, Sure, k, ni.map[k])
        BY <1>11, <2>1 DEF Reads
    <2>3. Sure'[k] = Sure[k] \/ AnyOf(Sure', k)
        BY <1>13, <2>1
    <2>4. QED
        BY <2>2, <2>3 DEF Agree, AnyOf
<1>16. Reads(flash, Sure', map, X)
    <2>1. SUFFICES ASSUME NEW k \in LBs \ X, map[k] # -1 PROVE Agree(flash, Sure', k, map[k])
        BY DEF Reads
    <2>2. CASE k = l
        BY <1>13, <1>14, <2>1, <2>2 DEF Agree, AnyOf
    <2>3. CASE k # l
        BY <1>9, <1>15, <2>1, <2>3 DEF Reads
    <2>4. QED
        BY <2>2, <2>3
<1>17. ASSUME ~ni.prot PROVE Stored(flash, marked, Sure', X) /\ Near(flash, marked, ni', Sure', X)
    <2>1. Safe(flash, marked, ni, Sure', X)
        <3>1. Reads(flash, Sure', ni.map, X)
            BY <1>15 DEF Reads
        <3>2. QED
            BY <1>11, <3>1, SafeCurrent
    <2>2. Above(ni.map, map, Sure', X)
        BY <1>9, <1>13, <1>14 DEF Above
    <2>3. Near(flash, marked, ni', Sure', X)
        BY <1>8, <1>11, <1>17, <2>2 DEF Near, Current
    <2>4. QED
        BY <1>17, <2>1, <2>3 DEF Safe
<1>18. Readable(flash, Sure', op')
    BY <1>4, <1>7, <1>15 DEF Reads, Readable
<1>19. Copying(flash, ni', "update", wr', "unmap", op', Sure')
    <2>1. \A q \in PageNos : ~(q > NPages)
        BY Sizes DEF PageNos
    <2>2. QED
        BY <1>7, <1>8, <1>9, <1>10, <1>18, <2>1 DEF Copying
<1>20. OpKind("update", "unmap", op') /\ OpWants(op', Sure') /\ Absent("update", op') = X
    BY <1>7, <1>13 DEF OpKind, OpWants, Absent, X
<1>21. NoRebuild(marked, ni', "update", wr', "unmap") /\ Level(flash, marked, ni', "update", wr', "unmap", op')
    BY <1>8, <1>11 DEF NoRebuild, Level
<1>22. RunData(flash, marked, ni', "update", wr', "unmap", op', Sure', seen'.made)
    BY <1>8, <1>12, <1>16, <1>17, <1>19, <1>20, <1>21 DEF RunData, X
<1>23. QED
    BY <1>1, <1>22, DataNext

-----------------------------------------------------------------------------
(* The first table: nothing can have been written to the chip *)

LEMMA CreateData ==
    ASSUME Creating, Create, Running', \A l \in LBs : AnyOf(Sure, l)
    PROVE  DataNow'
<1>1. /\ pc = "create" /\ flash' = flash /\ marked' = marked /\ op' = op /\ seen' = seen /\ Sure' = Sure
    BY SureSame DEF Create, obs
<1>2. ctx = "create" /\ op = NoOp /\ Tabs(flash, marked) = {}
    BY <1>1 DEF Creating, Making
<1>3. ni' # NoInstance
    <2>1. ni' \in Instances
        BY DEF Running, Phase, Common, Areas
    <2>2. ni'.up
        BY <2>1 DEF Instances
    <2>3. QED
        BY <2>2 DEF NoInstance
<1>4. pc' = "write" /\ ctx' = "create"
    <2>1. CASE Good((MgmtStart + 1)..(ni.sig - 1)) = {}
        BY <1>3, <2>1 DEF Create, Dead
    <2>2. CASE Good((MgmtStart + 1)..(ni.sig - 1)) # {}
        BY <1>2, <2>2 DEF Create, Goto, rebuild_info_table, Writing
    <2>3. QED
        BY <2>1, <2>2
<1>5. Safe(flash', marked', ni', Sure', {})
    BY <1>1, BlankSafe
<1>6. ~Serving("write", "create") /\ OpKind("write", "create", NoOp) /\ NoRebuild(marked', ni', "write", wr', "create")
    BY NoOpFacts DEF Serving, OpKind, NoRebuild, Updating
<1>7. Level(flash', marked', ni', "write", wr', "create", NoOp)
    BY <1>1, <1>2 DEF Level, Current
<1>8. OpWants(NoOp, Sure') /\ Copying(flash', ni', "write", wr', "create", NoOp, Sure')
    BY NoOpFacts DEF OpWants, Copying
<1>9. RunData(flash', marked', ni', "write", wr', "create", NoOp, Sure', seen'.made)
    BY <1>5, <1>6, <1>7, <1>8, NoOpFacts DEF RunData, Safe
<1>10. QED
    BY <1>1, <1>2, <1>4, <1>9, DataNext

-----------------------------------------------------------------------------
(* Attaching: the newest table is loaded *)

(* The instance takes the mapping and the count of a table                 *)
LEMMA LoadMap ==
    ASSUME flash \in FlashType, marked \in SUBSET Blocks, NEW s \in Blocks, FlashOK(flash, marked, s),
           Tabs(flash, marked) # {}
    PROVE  /\ \E x \in Tabs(flash, marked) :
                flash[x].map = load_info_table(s).map /\ flash[x].wc = load_info_table(s).wc
           /\ load_info_table(s).prot = FALSE
<1> DEFINE T == Tables(s)
           a == Lowest(T)
           others == {o \in (a + 1)..(s - 2) : Loadable(o, flash[a].bad, s)}
           b == IF others = {} THEN 0 ELSE Lowest(others)
           newer == b # 0 /\ flash[b].wc > flash[a].wc
           t == IF newer THEN flash[b] ELSE flash[a]
           n == load_info_table(s)
<1>1. T = Tabs(flash, marked) /\ T \in SUBSET Nat /\ T # {}
    BY Found, Sizes DEF Tabs
<1>2. n.map = t.map /\ n.wc = t.wc /\ n.prot = FALSE
    BY Zenon DEF load_info_table
<1> HIDE DEF n
<1>3. a \in T
    <2> HIDE DEF T
    <2>1. QED
        BY <1>1, LowestIn
<1>4. a \in Nat /\ MgmtStart <= a
    BY <1>1, <1>3, Sizes DEF Tables
<1> HIDE DEF a
<1>5. ASSUME others # {} PROVE b \in T
    <2>1. ASSUME NEW o \in others PROVE o \in T
        <3>1. o \in (a + 1)..(s - 2) /\ Loadable(o, flash[a].bad, s)
            OBVIOUS
        <3>2. o \in MgmtStart..(s - 2)
            BY <1>4, <3>1, Sizes
        <3>3. Loadable(o, {}, s)
            BY <3>1 DEF Loadable
        <3>4. QED
            BY <3>2, <3>3 DEF Tables
    <2>2. others \in SUBSET Nat /\ b = Lowest(others)
        BY <1>1, <1>5, <2>1
    <2> HIDE DEF others, b, T
    <2>3. b \in others
        BY <1>5, <2>2, LowestIn
    <2>4. QED
        BY <2>1, <2>3
<1>6. newer => b \in T
    <2>1. others = {} => b = 0
        OBVIOUS
    <2> HIDE DEF others, b, T
    <2>2. QED
        BY <1>5, <2>1
<1>7. \E x \in T : t = flash[x]
    <2> HIDE DEF b, T
    <2>1. QED
        BY <1>3, <1>6
<1>8. QED
    BY <1>1, <1>2, <1>7 DEF n

(* ... the newest one, by which everything stored can be read              *)
LEMMA LoadSafe ==
    ASSUME NEW f, NEW K, NEW v, NEW s, NEW n, Chosen(f, K, s, n), Stored(f, K, v, {}),
           NEW x \in Tabs(f, K), f[x].map = n.map, f[x].wc = n.wc
    PROVE  /\ Safe(f, K, n, v, {}) /\ Reads(f, v, n.map, {})
           /\ \A b \in Tabs(f, K) : f[b].wc = n.wc => f[b].map = n.map
<1>1. f \in FlashType /\ FlashOK(f, K, n.sig) /\ (\A b \in Tabs(f, K) : Known(f, K, n, b)) /\ n \in Instances
    BY AreaTypes DEF Chosen, Common
<1>2. ASSUME NEW b \in Tabs(f, K), f[b].wc = n.wc PROVE f[b].map = n.map
    <2>1. PairOK(f, K, n.sig, b, x)
        BY <1>1 DEF FlashOK
    <2>2. QED
        BY <1>2, <2>1 DEF PairOK
<1>3. Reads(f, v, n.map, {})
    <2>1. Reads(f, v, f[x].map, {})
        BY DEF Stored
    <2>2. QED
        BY <2>1
<1>4. ASSUME NEW b \in Tabs(f, K) PROVE Above(f[b].map, n.map, v, {})
    <2>1. CASE f[b].wc = n.wc
        BY <1>2, <2>1 DEF Above
    <2>2. CASE f[b].wc < n.wc
        <3>1. Above(f[b].map, f[x].map, v, {})
            BY <2>2 DEF Stored
        <3>2. QED
            BY <3>1
    <2>3. f[b].wc <= n.wc /\ f[b].wc \in Nat /\ n.wc \in Nat
        BY <1>1, TableIn DEF Known, Instances
    <2>4. QED
        BY <2>1, <2>2, <2>3
<1>5. QED
    BY <1>2, <1>3, <1>4 DEF Safe, Near

(* The repairs leave a table that is behind to be written anew             *)
LEMMA LoadedData ==
    ASSUME NEW s, NEW n, Chosen(flash, marked, s, n), Stored(flash, marked, Sure, {}), n.prot = FALSE,
           NEW x \in Tabs(flash, marked), flash[x].map = n.map, flash[x].wc = n.wc,
           NEW r, r = RepairTables(n), Goto(r), ctx' = "load", op' = NoOp,
           flash' = flash, marked' = marked, Sure' = Sure
    PROVE  DataNow'
<1> DEFINE g == Generated(n)
<1>1. /\ Safe(flash, marked, n, Sure, {}) /\ Reads(flash, Sure, n.map, {})
      /\ \A b \in Tabs(flash, marked) : flash[b].wc = n.wc => flash[b].map = n.map
    BY LoadSafe
<1>2. /\ Common(flash, marked, n) /\ n \in Instances /\ n.main # 0
      /\ Tabs(flash, marked) = {n.main, n.backup} \ {0} /\ flash \in FlashType
    BY AreaTypes DEF Chosen, Common
<1>3. g \in Instances /\ g.map = n.map /\ g.prot = FALSE /\ g.main = n.main /\ g.backup = n.backup
    <2>1. n.wc + 1 \in Nat
        BY <1>2 DEF Instances
    <2>2. QED
        BY <1>2, <2>1 DEF Generated, Instances
<1> HIDE DEF g
<1>4. ASSUME NEW h \in Instances, h.map = n.map, h.prot = FALSE, h.main = n.main, ni' = h,
             pc' = "write" \/ pc' = "ok",
             pc' = "write" => wr'.site \in {"front", "only_main", "only_backup"}
                              /\ Current(flash, marked, h, Stale(h, wr')),
             pc' = "ok" => Current(flash, marked, h, {})
      PROVE  DataNow'
    <2>1. Safe(flash, marked, h, Sure, {})
        BY <1>1, <1>4 DEF Safe, Near
    <2>2. Level(flash, marked, h, pc', wr', "load", NoOp)
        BY <1>4 DEF Level
    <2>3. NoRebuild(marked, h, pc', wr', "load")
        BY <1>2, <1>4 DEF NoRebuild, Updating
    <2>4. ~Serving(pc', "load") /\ OpKind(pc', "load", NoOp) /\ OpWants(NoOp, Sure)
          /\ Copying(flash, h, pc', wr', "load", NoOp, Sure)
        BY <1>4, NoOpFacts DEF Serving, OpKind, OpWants, Copying
    <2>5. Absent(pc', NoOp) = {} /\ Repairing(NoOp) = {}
        BY <1>4, NoOpFacts
    <2>6. RunData(flash, marked, h, pc', wr', "load", NoOp, Sure, seen'.made)
        BY <1>4, <2>1, <2>2, <2>3, <2>4, <2>5 DEF RunData, Safe
    <2>7. QED
        BY <1>4, <2>6, DataNext
<1>5. CASE n.backup = 0
    <2>1. r = Writing(g, "front", MgmtStart, g.main)
        BY <1>5 DEF RepairTables, rescue_single_info_table, g
    <2>2. ni' = g /\ pc' = "write" /\ wr'.site = "front"
        BY <2>1 DEF Goto, Writing
    <2>3. Current(flash, marked, g, {})
        <3>1. Tabs(flash, marked) = {x}
            BY <1>2, <1>5
        <3>2. QED
            BY <1>3, <3>1 DEF Current
    <2>4. Stale(g, wr') = {}
        BY <2>2 DEF Stale
    <2>5. QED
        BY <1>3, <1>4, <2>2, <2>3, <2>4
<1>6. CASE n.backup # 0 /\ flash[n.main].wc # flash[n.backup].wc
    <2> DEFINE h == [g EXCEPT !.changed = TRUE]
    <2>1. h \in Instances /\ h.map = n.map /\ h.prot = FALSE /\ h.main = n.main /\ h.backup = n.backup
        BY <1>3 DEF Instances
    <2>2. r = update_single_info_table(h, flash[n.main].wc < n.wc)
        BY <1>6 DEF RepairTables, g
    <2> HIDE DEF h
    <2>3. /\ \/ flash[n.backup].wc > flash[n.main].wc /\ n.wc = flash[n.backup].wc
             \/ flash[n.backup].wc <= flash[n.main].wc /\ n.wc = flash[n.main].wc
          /\ n.main \in Tabs(flash, marked) /\ n.backup \in Tabs(flash, marked)
        BY <1>2, <1>6 DEF Chosen
    <2>4. flash[n.main].wc \in Nat /\ flash[n.backup].wc \in Nat /\ n.wc \in Nat
        BY <1>2, <2>3, TableIn DEF Instances
    <2>5. CASE flash[n.main].wc < n.wc
        <3>1. ni' = h /\ pc' = "write" /\ wr'.site = "only_main"
            BY <2>2, <2>5 DEF update_single_info_table, Goto, Writing
        <3>2. n.wc = flash[n.backup].wc
            BY <2>3, <2>4, <2>5
        <3>3. flash[n.backup].map = h.map
            BY <1>1, <2>1, <2>3, <3>2
        <3>4. Current(flash, marked, h, {h.main})
            BY <1>2, <2>1, <3>3 DEF Current
        <3>5. Stale(h, wr') = {h.main}
            BY <3>1 DEF Stale
        <3>6. QED
            BY <1>4, <2>1, <3>1, <3>4, <3>5
    <2>6. CASE ~(flash[n.main].wc < n.wc)
        <3>1. ni' = h /\ pc' = "write" /\ wr'.site = "only_backup"
            BY <2>2, <2>6 DEF update_single_info_table, Goto, Writing
        <3>2. n.wc = flash[n.main].wc
            BY <2>3, <2>4, <2>6
        <3>3. flash[n.main].map = h.map
            BY <1>1, <2>1, <2>3, <3>2
        <3>4. Current(flash, marked, h, {h.backup})
            BY <1>2, <2>1, <3>3 DEF Current
        <3>5. Stale(h, wr') = {h.backup}
            BY <3>1 DEF Stale
        <3>6. QED
            BY <1>4, <2>1, <3>1, <3>4, <3>5
    <2>7. QED
        BY <2>5, <2>6
<1>7. CASE n.backup # 0 /\ flash[n.main].wc = flash[n.backup].wc
    <2>1. r = Returning(g, TRUE)
        BY <1>7 DEF RepairTables, g
    <2>2. ni' = g /\ pc' = "ok"
        BY <2>1 DEF Goto, Returning
    <2>3. flash[n.main].wc = n.wc /\ flash[n.backup].wc = n.wc
        BY <1>2, <1>7 DEF Chosen
    <2>4. Current(flash, marked, g, {})
        BY <1>1, <1>2, <1>3, <2>3 DEF Current
    <2>5. QED
        BY <1>3, <1>4, <2>2, <2>4
<1>8. QED
    BY <1>5, <1>6, <1>7

LEMMA AttachData ==
    ASSUME PoweredOff, Stored(flash, marked, Sure, {}), Attach, Running'
    PROVE  DataNow'
<1>1. /\ pc = "off" /\ flash' = flash /\ marked' = marked /\ op' = op /\ Sure' = Sure
    BY SureSame DEF Attach, obs
<1>2. flash \in FlashType /\ marked \in SUBSET Blocks /\ op = NoOp
    BY DEF PoweredOff, Off
<1>3. ~Dead
    <2>1. ni' \in Instances
        BY DEF Running, Phase, Common, Areas
    <2>2. ni'.up /\ ~NoInstance.up
        BY <2>1 DEF Instances, NoInstance
    <2>3. QED
        BY <2>2 DEF Dead
<1>4. ~(pc' = "create") /\ ~(pc' = "write" /\ wr'.site = "sig")
    BY DEF Running, Phase, WriteSites
<1>5. Signatures # {} /\ Tables(Highest(Signatures)) # {}
    <2>1. Signatures # {}
        BY <1>3, <1>4 DEF Attach, Goto2, Goto, Writing
    <2>2. QED
        BY <1>3, <1>4, <2>1 DEF Attach
<1>6. ~NoSig(flash)
    BY <1>5 DEF NoSig, Signatures
<1>7. PICK s \in Blocks : FlashOK(flash, marked, s)
    BY <1>6 DEF PoweredOff, Off
<1>8. Highest(Signatures) = s /\ Tables(s) = Tabs(flash, marked)
    BY <1>2, <1>7, Found
<1> DEFINE n == load_info_table(s)
<1>9. Goto(RepairTables(n)) /\ ctx' = "load"
    BY <1>5, <1>8 DEF Attach, Goto2
<1>10. Tabs(flash, marked) # {}
    BY <1>5, <1>8
<1>11. Chosen(flash, marked, s, n)
    BY <1>2, <1>7, <1>10, LoadChosen
<1>12. PICK x \in Tabs(flash, marked) : flash[x].map = n.map /\ flash[x].wc = n.wc
    BY <1>2, <1>7, <1>10, LoadMap
<1>13. n.prot = FALSE
    BY <1>2, <1>7, <1>10, LoadMap
<1> HIDE DEF n
<1>14. QED
    BY <1>1, <1>2, <1>9, <1>11, <1>12, <1>13, LoadedData

-----------------------------------------------------------------------------
(* The power goes *)

(* Blocks from which nothing need be read do not matter                    *)
LEMMA StoredForgot ==
    ASSUME NEW f, NEW K, NEW v, NEW X, Stored(f, K, v, X), \A l \in LBs \intersect X : AnyOf(v, l)
    PROVE  Stored(f, K, v, {})
<1>1. ASSUME NEW m, Reads(f, v, m, X) PROVE Reads(f, v, m, {})
    BY <1>1 DEF Reads, Agree, AnyOf
<1>2. ASSUME NEW m, NEW m2, Above(m, m2, v, X) PROVE Above(m, m2, v, {})
    BY <1>2 DEF Above
<1>3. QED
    BY <1>1, <1>2 DEF Stored

(* The block in hand is a block of the tables, or is where no table on the *)
(* flash finds anything that must be read back                             *)
LEMMA HandData ==
    ASSUME Running, DataNow, Watching, NEW b \in InHand, ~ni.prot, NEW a \in Tabs(flash, marked),
           NEW l \in LBs \ Repairing(op), flash[a].map[l] = b, ~AnyOf(Sure, l)
    PROVE  pc = "idle" /\ l \in Served /\ ni.map[l] = b
<1>1. Common(flash, marked, ni) /\ Areas(ni) /\ ni \in Instances
    BY DEF Running, Phase, Common, Areas
<1>2. /\ Near(flash, marked, ni, Sure, Repairing(op)) /\ Level(flash, marked, ni, pc, wr, ctx, op)
      /\ OpKind(pc, ctx, op) /\ Copying(flash, ni, pc, wr, ctx, op, Sure)
    BY DEF DataNow, RunData
<1>3. b \in Blocks /\ b # -1
    BY Working, Sizes
<1>4. b \in DataBlocks(ni)
    BY <1>1, <1>2, <1>3, NearIn
<1>5. pc \notin {"write", "clean"}
    <2>1. SUFFICES ASSUME pc \in {"write", "clean"} PROVE FALSE
        OBVIOUS
    <2>2. /\ wr.site \in WriteSites /\ wr \in Writes /\ SpanOK(ni, wr)
          /\ pc = "write" => InWrite(flash, marked, ni, wr)
          /\ pc = "clean" => wr.erased = FALSE
        BY <2>1, WritePhase, CleanPhase DEF InWrite
    <2>3. b \in Int /\ wr.ba <= b /\ b < wr.lim
        <3>1. CASE wr.erased
            <4>1. b = wr.ba
                BY <2>1, <2>2, <3>1 DEF InHand
            <4>2. wr.ba \in Int /\ wr.ba < wr.lim
                BY <2>1, <2>2, <3>1 DEF InWrite, SpanOK
            <4>3. QED
                BY <4>1, <4>2
        <3>2. CASE ~wr.erased
            <4>1. Usable # {} /\ b = Target
                BY <2>1, <3>2 DEF InHand
            <4>2. QED
                BY <1>1, <2>2, <4>1, InRange
        <3>3. QED
            BY <3>1, <3>2
    <2>4. MgmtStart <= b /\ b <= ni.top
        BY <1>1, <2>2, <2>3, AreaTypes, Sizes DEF SpanOK
    <2>5. QED
        BY <1>1, <1>4, <2>3, <2>4, TableArea
<1>6. pc \notin {"erase", "copy"}
    <2>1. SUFFICES ASSUME pc \in {"erase", "copy"} PROVE FALSE
        OBVIOUS
    <2>2. b = op.new /\ ni.map[op.lb] = op.new /\ op.old # op.new
        BY <1>2, <2>1 DEF InHand, Copying
    <2>3. op \in Ops /\ op.lb \in LBs
        BY <2>1, RestPhase DEF OpOK, Ops
    <2>4. /\ ni.map \in [LBs -> Blocks \union {-1}]
          /\ \A k, m \in LBs : k # m /\ ni.map[k] # -1 => ni.map[k] # ni.map[m]
        BY <1>1 DEF Areas, MapOK
    <2>5. CASE ctx = "remap"
        <3>1. flash[a].map = [ni.map EXCEPT ![op.lb] = op.old]
            BY <1>2, <2>1, <2>5 DEF Level, Earlier
        <3>2. CASE l = op.lb
            BY <2>2, <2>3, <2>4, <3>1, <3>2
        <3>3. CASE l # op.lb
            <4>1. flash[a].map[l] = ni.map[l]
                BY <2>3, <2>4, <3>1, <3>3
            <4>2. QED
                BY <1>3, <2>2, <2>3, <2>4, <3>3, <4>1
        <3>4. QED
            BY <3>2, <3>3
    <2>6. CASE ctx # "remap"
        <3>1. flash[a].map = ni.map
            BY <1>2, <2>1, <2>6 DEF Level, Current
        <3>2. ctx = "none"
            BY <2>1, <2>6, RestPhase DEF Resting
        <3>3. l # op.lb
            BY <1>2, <2>1, <3>2 DEF OpKind, Repairing
        <3>4. QED
            BY <1>3, <2>2, <2>3, <2>4, <3>1, <3>3
    <2>7. QED
        BY <2>5, <2>6
<1>7. pc = "idle"
    BY <1>5, <1>6 DEF InHand
<1>8. flash[a].map = ni.map
    BY <1>2, <1>7 DEF Level, Current
<1>9. l \in Served
    BY <1>1, <1>3, <1>8 DEF Served, Areas, Instances
<1>10. QED
    BY <1>7, <1>8, <1>9

(* Nothing is owed of a block that was in hand when the power went, nor of *)
(* one that was being repaired                                             *)
LEMMA CutOwes ==
    ASSUME Watching, Cut
    PROVE  \E torn \in {{}} \union {{b} : b \in InHand \ marked} :
            /\ flash' = [b \in Blocks |-> IF b \in torn THEN Torn ELSE flash[b]]
            /\ \A l \in LBs :
                (pc = "idle" /\ l \in Served /\ ni.map[l] \in torn) \/ (op.act = "repair" /\ op.lb = l) =>
                    AnyOf(Sure', l)
            /\ Fades(want, want', {}) /\ Fades(Sure, Sure', {})
<1>1. \A q \in PageNos : AllPages("any")[q] = "any"
    BY DEF AllPages
<1>2. op.act = "repair" => op # NoOp
    BY NoOpFacts
<1>3. PICK torn \in {{}} \union {{b} : b \in InHand \ marked} :
        /\ flash' = [b \in Blocks |-> IF b \in torn THEN Torn ELSE flash[b]]
        /\ want' = [l \in LBs |->
                IF pc = "idle" /\ l \in Served /\ ni.map[l] \in torn THEN AllPages("any") ELSE want[l]]
    BY DEF Cut
<1>4. lost' = IF op # NoOp /\ op.act = "repair" THEN Lose(op.lb, PageNos) ELSE lost
    BY DEF Cut
<1>5. ASSUME NEW l \in LBs
      PROVE  /\ want'[l] = (IF pc = "idle" /\ l \in Served /\ ni.map[l] \in torn
                            THEN AllPages("any") ELSE want[l])
             /\ lost[l] \subseteq lost'[l]
             /\ op.act = "repair" /\ op.lb = l => PageNos \subseteq lost'[l]
    <2>1. want'[l] = (IF pc = "idle" /\ l \in Served /\ ni.map[l] \in torn
                      THEN AllPages("any") ELSE want[l])
        BY <1>3
    <2>2. /\ lost[l] \subseteq lost'[l]
          /\ op.act = "repair" /\ op.lb = l => PageNos \subseteq lost'[l]
        BY <1>2, <1>4 DEF Watching, LostSet, Lose
    <2>3. QED
        BY <2>1, <2>2
<1>6. \A l \in LBs : \A q \in PageNos :
        /\ Sure[l][q] = IF q \in lost[l] THEN "any" ELSE want[l][q]
        /\ Sure'[l][q] = IF q \in lost'[l] THEN "any" ELSE want'[l][q]
    BY DEF Sure
<1>7. \A l \in LBs :
        (pc = "idle" /\ l \in Served /\ ni.map[l] \in torn) \/ (op.act = "repair" /\ op.lb = l) => AnyOf(Sure', l)
    BY <1>1, <1>5, <1>6 DEF AnyOf
<1>8. Fades(want, want', {})
    BY <1>1, <1>5 DEF Fades
<1>9. Fades(Sure, Sure', {})
    BY <1>5, <1>6, <1>8 DEF Fades
<1>10. QED
    BY <1>3, <1>7, <1>8, <1>9

(* The power goes while the driver runs                                    *)
LEMMA CutData ==
    ASSUME Running, DataNow, Watching, Cut, seen.made \/ \A l \in LBs : AnyOf(Sure, l)
    PROVE  Stored(flash', marked', Sure', {})
<1>1. marked' = marked /\ ~OneTable
    BY DEF Cut
<1>2. PICK torn \in {{}} \union {{b} : b \in InHand \ marked} :
        /\ flash' = [b \in Blocks |-> IF b \in torn THEN Torn ELSE flash[b]]
        /\ \A l \in LBs :
            (pc = "idle" /\ l \in Served /\ ni.map[l] \in torn) \/ (op.act = "repair" /\ op.lb = l) => AnyOf(Sure', l)
        /\ Fades(Sure, Sure', {})
    BY CutOwes
<1>3. CASE \A l \in LBs : AnyOf(Sure, l)
    <2>1. \A l \in LBs : AnyOf(Sure', l)
        BY <1>2, <1>3 DEF Fades, AnyOf
    <2>2. Safe(flash', marked', [prot |-> FALSE, map |-> <<>>], Sure', {})
        BY <2>1, BlankSafe
    <2>3. QED
        BY <2>2 DEF Safe
<1>4. CASE seen.made
    <2>1. Common(flash, marked, ni) /\ ni \in Instances /\ ni.up
        BY DEF Running, Phase, Common, Areas, Instances
    <2>2. ~ni.prot
        BY <1>1, <1>4, <2>1 DEF OneTable, DataNow, RunData
    <2>3. /\ Stored(flash, marked, Sure, Repairing(op)) /\ Near(flash, marked, ni, Sure, Repairing(op))
        BY <2>2 DEF DataNow, RunData
    <2>4. flash \in FlashType
        BY <2>1 DEF Common
    <2>5. \A x \in Blocks : flash'[x] \in {flash[x], Torn} /\ (x \notin torn => flash'[x] = flash[x])
        BY <1>2
    <2>6. Tabs(flash', marked') \subseteq Tabs(flash, marked) /\ \A a \in Tabs(flash', marked') : flash'[a] = flash[a]
        BY <1>1, <2>5, Kinds DEF Tabs
    <2>7. ASSUME NEW a \in Tabs(flash', marked'), NEW l \in LBs \ Repairing(op), flash[a].map[l] # -1
          PROVE  AnyOf(Sure', l) \/ Cont(flash', flash[a].map[l]) = Cont(flash, flash[a].map[l])
        <3>1. flash[a].map[l] \in Blocks
            <4>1. flash[a] \in TabSet
                BY <2>4, <2>6, TableIn
            <4>2. QED
                BY <2>7, <4>1 DEF TabSet
        <3>2. CASE flash[a].map[l] \notin torn
            BY <2>5, <3>1, <3>2, ContKept
        <3>3. CASE flash[a].map[l] \in torn
            <4> DEFINE b == flash[a].map[l]
            <4>1. b \in InHand
                BY <1>2, <3>3
            <4>2. AnyOf(Sure, l) \/ (pc = "idle" /\ l \in Served /\ ni.map[l] = b)
                BY <2>2, <2>6, <4>1, HandData
            <4>3. CASE AnyOf(Sure, l)
                BY <1>2, <4>3, FadedAny
            <4>4. CASE pc = "idle" /\ l \in Served /\ ni.map[l] = b
                <5>1. ni.map[l] \in torn
                    BY <3>3, <4>4
                <5>2. AnyOf(Sure', l)
                    BY <1>2, <4>4, <5>1, Zenon
                <5>3. QED
                    BY <5>2
            <4>5. QED
                BY <4>2, <4>3, <4>4
        <3>4. QED
            BY <3>2, <3>3
    <2>8. Fades(Sure, Sure', Repairing(op))
        BY <1>2 DEF Fades
    <2>9. Stored(flash', marked', Sure', Repairing(op))
        BY <2>3, <2>6, <2>7, <2>8, StoredKept
    <2>10. \A l \in LBs \intersect Repairing(op) : AnyOf(Sure', l)
        BY <1>2 DEF Repairing
    <2>11. QED
        BY <2>9, <2>10, StoredForgot
<1>5. QED
    BY <1>3, <1>4

(* ... or had gone already *)
LEMMA CutOffData ==
    ASSUME PoweredOff, Stored(flash, marked, Sure, {}), Watching, Cut
    PROVE  Stored(flash', marked', Sure', {})
<1>1. pc = "dead" /\ marked' = marked /\ flash \in FlashType /\ op = NoOp
    BY DEF Cut, PoweredOff, Off
<1>2. InHand = {}
    BY <1>1 DEF InHand
<1>3. flash' = flash /\ want' = want /\ lost' = lost
    <2>1. PICK torn \in {{}} \union {{b} : b \in InHand \ marked} :
            /\ flash' = [b \in Blocks |-> IF b \in torn THEN Torn ELSE flash[b]]
            /\ want' = [l \in LBs |->
                    IF pc = "idle" /\ l \in Served /\ ni.map[l] \in torn THEN AllPages("any") ELSE want[l]]
        BY DEF Cut
    <2>2. torn = {}
        BY <1>2, <2>1
    <2>3. lost' = lost
        BY <1>1 DEF Cut
    <2>4. QED
        BY <1>1, <2>1, <2>2, <2>3 DEF FlashType, Watching, WantSet
<1>4. QED
    BY <1>1, <1>3, SureSame

-----------------------------------------------------------------------------
(* Every step *)

LEMMA BlankStored ==
    ASSUME NEW f, NEW K, NEW v, \A l \in LBs : AnyOf(v, l)
    PROVE  Stored(f, K, v, {})
<1>1. \A m : Reads(f, v, m, {})
    BY DEF Reads, Agree, AnyOf
<1>2. \A m, m2 : Above(m, m2, v, {})
    BY DEF Above
<1>3. QED
    BY <1>1, <1>2 DEF Stored

LEMMA ForgetFades ==
    ASSUME Watching, NEW l, NEW ps
    PROVE  Fades(want, Forget(l, ps), {})
<1>1. want \in WantSet
    BY DEF Watching
<1>2. ASSUME NEW k \in LBs, NEW q \in PageNos PROVE Forget(l, ps)[k][q] \in {"any", want[k][q]}
    BY <1>1 DEF Forget, WantSet
<1>3. QED
    BY <1>2 DEF Fades

(* Only an erase and a write ask for anything new *)
LEMMA WantStep ==
    ASSUME Watching, [Next]_vars
    PROVE  \/ Fades(want, want', {})
           \/ /\ pc \in {"idle", "retry"}
              /\ \E l \in Served : \/ want' = [want EXCEPT ![l] = AllPages("ff")] /\ op' = NoOp
                                   \/ \E p \in PageNos : mtd_write(l, p)
<1> USE DEF obs
<1>1. want' = want => Fades(want, want', {})
    BY DEF Fades
<1>2. (\E l, ps : want' = Forget(l, ps)) => Fades(want, want', {})
    BY ForgetFades
<1>3. CASE Attach \/ UNCHANGED vars
    BY <1>1, <1>3 DEF Attach, vars
<1>4. CASE Cut
    BY <1>4, CutOwes
<1>5. CASE WriteTables \/ Create \/ update_info_table \/ updated_once \/ bbt_nand_erase \/ OpDone
           \/ LoadDone \/ MapTail \/ UpdateDone
    BY <1>1, <1>5 DEF WriteTables, WriteErase, WriteProg, WriteNone, erase_range, Create, update_info_table,
       updated_once, bbt_nand_erase, OpDone, LoadDone, MapTail, UpdateDone
<1>6. CASE bbt_nand_copy
    <2>1. want' = want
        BY <1>6, Zenon DEF bbt_nand_copy
    <2>2. QED
        BY <1>1, <2>1
<1>7. ASSUME NEW l \in Served, mtd_erase(l)
      PROVE  \/ Fades(want, want', {})
             \/ pc \in {"idle", "retry"} /\ want' = [want EXCEPT ![l] = AllPages("ff")] /\ op' = NoOp
    <2>1. \/ want' = [want EXCEPT ![l] = AllPages("ff")] /\ op' = NoOp
          \/ want' = Forget(l, PageNos)
        BY <1>7, Zenon DEF mtd_erase, Idle
    <2>2. pc \in {"idle", "retry"}
        BY <1>7 DEF mtd_erase, Started
    <2>3. QED
        BY <1>2, <2>1, <2>2
<1>8. ASSUME NEW l \in Served, NEW p \in PageNos, mtd_write(l, p) PROVE pc \in {"idle", "retry"}
    BY <1>8 DEF mtd_write, Started
<1>9. ASSUME NEW l \in Served, NEW p \in PageNos, mtd_read_fails(l, p) PROVE Fades(want, want', {})
    <2>1. want' = Forget(l, {p})
        BY <1>9 DEF mtd_read_fails
    <2>2. QED
        BY <1>2, <2>1
<1>10. ASSUME NEW l \in Served, (\E act \in {"worn", "markbad"} : Retire(l, act)) \/ mtd_isbad(l)
       PROVE  Fades(want, want', {})
    BY <1>1, <1>10 DEF Retire, mtd_isbad
<1>11. ASSUME NEW l \in Served, NEW act \in {"repair", "mark_good"}, unmap_block(l, act)
       PROVE  Fades(want, want', {})
    BY <1>1, <1>11 DEF unmap_block
<1>12. CASE Client
    BY <1>7, <1>8, <1>9, <1>10, <1>11, <1>12 DEF Client
<1>13. CASE Driver
    BY <1>5, <1>6, <1>7, <1>8, <1>13 DEF Driver
<1>14. QED
    BY <1>3, <1>4, <1>12, <1>13 DEF Next

(* A write that is to be repeated began at a page that failed              *)
LEMMA OpStep ==
    ASSUME [Next]_vars, pc = "erase" => op \in Ops
    PROVE  \/ op'.act = "write" => op.act = "write" /\ op'.lb = op.lb /\ op'.len = op.len
           \/ \E l \in Served : \E p \in PageNos : mtd_write(l, p)
<1> DEFINE Same == op'.act = "write" => op.act = "write" /\ op'.lb = op.lb /\ op'.len = op.len
<1>1. op' = op => Same
    OBVIOUS
<1>2. op' = NoOp => Same
    BY NoOpFacts
<1>3. ASSUME NEW act, NEW l, NEW len, act # "write", remap_block(Op(act, l, len)) PROVE Same
    BY <1>3 DEF remap_block, Op
<1> HIDE DEF Same
<1>4. CASE Attach \/ UNCHANGED vars \/ Cut
    BY <1>1, <1>2, <1>4 DEF Attach, vars, ram, Cut, Same
<1>5. CASE WriteTables \/ Create \/ update_info_table \/ updated_once \/ OpDone \/ LoadDone \/ MapTail
    BY <1>1, <1>2, <1>5 DEF WriteTables, WriteErase, WriteProg, WriteNone, erase_range, Create, update_info_table,
       updated_once, OpDone, LoadDone, MapTail, ram, Same
<1>6. CASE UpdateDone \/ bbt_nand_copy
    <2>1. op' = NoOp \/ op' = op
        BY <1>6, Zenon DEF UpdateDone, bbt_nand_copy
    <2>2. QED
        BY <1>1, <1>2, <2>1 DEF Same
<1>7. CASE bbt_nand_erase
    <2>1. op \in Ops /\ (op' = op \/ op' = [op EXCEPT !.dirty = TRUE])
        BY <1>7 DEF bbt_nand_erase
    <2>2. QED
        BY <2>1 DEF Ops, Same
<1>8. ASSUME NEW l \in Served, mtd_erase(l) PROVE Same
    <2>1. op' = NoOp \/ remap_block(Op("erase", l, 0))
        BY <1>8, Zenon DEF mtd_erase, Idle
    <2>2. QED
        BY <1>2, <1>3, <2>1
<1>9. ASSUME NEW l \in Served, NEW p \in PageNos, mtd_read_fails(l, p) PROVE Same
    BY <1>3, <1>9 DEF mtd_read_fails
<1>10. ASSUME NEW l \in Served, (\E act \in {"worn", "markbad"} : Retire(l, act)) \/ mtd_isbad(l) PROVE Same
    BY <1>3, <1>10 DEF Retire, mtd_isbad
<1>11. ASSUME NEW l \in Served, NEW act \in {"repair", "mark_good"}, unmap_block(l, act) PROVE Same
    <2>1. \E new : op' = [Op(act, l, NPages) EXCEPT !.new = new]
        BY <1>11, Zenon DEF unmap_block
    <2>2. QED
        BY <2>1 DEF Op, Same
<1>12. CASE Client
    BY <1>8, <1>9, <1>10, <1>11, <1>12 DEF Client, Same
<1>13. CASE Driver
    BY <1>5, <1>6, <1>7, <1>8, <1>13 DEF Driver, Same
<1>14. QED
    BY <1>4, <1>12, <1>13 DEF Next, Same

(* mtk_bmt_write writes the pages of a block in order                      *)
LEMMA OrderNext ==
    ASSUME Watching, [Next]_vars, InOrder, pc \in {"idle", "retry", "erase"} => Running
    PROVE  InOrder'
<1>1. Ordered(want) /\ \A l \in LBs : \A q \in PageNos :
            op.act = "write" /\ op.lb = l /\ q <= op.len => want[l][q] # "ff"
    BY DEF InOrder
<1>2. Fades(want, want', {}) => Ordered(want')
    BY <1>1 DEF Ordered, Fades
<1>3. ASSUME Fades(want, want', {}), op'.act = "write" => op.act = "write" /\ op'.lb = op.lb /\ op'.len = op.len
      PROVE  InOrder'
    BY <1>1, <1>2, <1>3 DEF InOrder, Fades
<1>4. ASSUME NEW l \in Served, want' = [want EXCEPT ![l] = AllPages("ff")], op' = NoOp PROVE InOrder'
    <2>1. \A k \in LBs : want'[k] = IF k = l THEN AllPages("ff") ELSE want[k]
        BY <1>4 DEF Watching, WantSet
    <2>2. \A q \in PageNos : AllPages("ff")[q] = "ff"
        BY DEF AllPages
    <2>3. Ordered(want')
        BY <1>1, <2>1, <2>2 DEF Ordered
    <2>4. QED
        BY <1>4, <2>3, NoOpFacts DEF InOrder
<1>5. ASSUME NEW l \in Served, NEW p \in PageNos, mtd_write(l, p) PROVE InOrder'
    <2>1. /\ pc = "idle" \/ (pc = "retry" /\ op.act = "write" /\ op.lb = l)
          /\ IF pc = "retry" THEN p = op.len + 1
             ELSE want[l][p] = "ff" /\ \A q \in 1..(p - 1) : want[l][q] # "ff"
        BY <1>5 DEF mtd_write, Started
    <2>2. p \in Int /\ l \in LBs /\ PageNos \in SUBSET Int /\ \A q \in PageNos : 1 <= q
        BY Sizes DEF PageNos, Served
    <2>3. pc = "retry" => op.len \in Int
        <3>1. pc = "retry" => op \in Ops
            BY RestPhase DEF OpOK
        <3>2. QED
            BY <3>1, Sizes DEF Ops
    <2>4. ASSUME NEW q \in PageNos, q < p PROVE want[l][q] # "ff"
        <3>1. CASE pc = "retry"
            BY <1>1, <2>1, <2>2, <2>3, <2>4, <3>1
        <3>2. CASE pc # "retry"
            <4>1. q \in 1..(p - 1)
                BY <2>2, <2>4
            <4>2. QED
                BY <2>1, <3>2, <4>1
        <3>3. QED
            BY <3>1, <3>2
    <2>5. \/ want' = [want EXCEPT ![l][p] = "d"] /\ op' = NoOp
          \/ want' = Forget(l, {p}) /\ remap_block(Op("write", l, p - 1))
        BY <1>5, Zenon DEF mtd_write, Idle
    <2>6. CASE want' = Forget(l, {p}) /\ remap_block(Op("write", l, p - 1))
        <3>1. Fades(want, want', {})
            BY <2>6, ForgetFades
        <3>2. op'.lb = l /\ op'.len = p - 1
            BY <2>6 DEF remap_block, Op
        <3>3. ASSUME NEW q \in PageNos, q <= op'.len PROVE want'[l][q] # "ff"
            <4>1. q < p
                BY <2>2, <3>2, <3>3
            <4>2. QED
                BY <2>2, <2>4, <3>1, <4>1 DEF Fades
        <3>4. QED
            BY <1>2, <3>1, <3>2, <3>3 DEF InOrder
    <2>7. CASE want' = [want EXCEPT ![l][p] = "d"] /\ op' = NoOp
        <3>1. /\ \A k \in LBs \ {l} : want'[k] = want[k]
              /\ \A q \in PageNos : want'[l][q] = IF q = p THEN "d" ELSE want[l][q]
            BY <2>2, <2>7 DEF Watching, WantSet
        <3>2. ASSUME NEW q \in PageNos, NEW r \in PageNos, q < r, want'[l][q] = "ff"
              PROVE  want'[l][r] \in {"ff", "any"}
            <4>1. q \in Int /\ r \in Int
                BY <2>2
            <4>2. q # p /\ want[l][q] = "ff"
                BY <3>1, <3>2
            <4>3. ~(q < p)
                BY <2>4, <4>2
            <4>4. r # p
                BY <2>2, <3>2, <4>1, <4>3
            <4>5. want[l][r] \in {"ff", "any"}
                BY <1>1, <2>2, <3>2, <4>2 DEF Ordered
            <4>6. QED
                BY <3>1, <4>4, <4>5
        <3>3. Ordered(want')
            BY <1>1, <3>1, <3>2 DEF Ordered
        <3>4. QED
            BY <2>7, <3>3, NoOpFacts DEF InOrder
    <2>8. QED
        BY <2>5, <2>6, <2>7
<1>6. pc = "erase" => op \in Ops
    BY RestPhase DEF OpOK
<1>7. QED
    BY <1>3, <1>4, <1>5, <1>6, WantStep, OpStep

(* What nobody was told is not owed                                        *)
LEMMA AnySure ==
    ASSUME NEW l \in LBs, AnyOf(want, l)
    PROVE  AnyOf(Sure, l)
BY SurePage DEF AnyOf

LEMMA AnySureNext ==
    ASSUME NEW l \in LBs, AnyOf(want', l)
    PROVE  AnyOf(Sure', l)
BY DEF AnyOf, Sure

(* Nothing is written before the driver has attached                       *)
LEMMA BlankNext ==
    ASSUME Watching, [Next]_vars, \A l \in LBs : AnyOf(want, l), pc \notin {"idle", "retry"}
    PROVE  \A l \in LBs : AnyOf(want', l)
<1>1. Fades(want, want', {})
    BY WantStep
<1>2. QED
    BY <1>1, FadedAny

(* The three kinds of states exclude each other                            *)
LEMMA ApartNext ==
    ASSUME Running'
    PROVE  ~PoweredOff' /\ ~Creating'
<1>1. ni' \in Instances /\ FlashOK(flash', marked', ni'.sig)
    BY DEF Running, Phase, Common, Areas
<1>2. ni' # NoInstance
    BY <1>1 DEF Instances, NoInstance
<1>3. ni'.sig # 0 /\ pc' # "create" /\ ~(pc' = "write" /\ wr'.site = "sig")
    BY <1>1, Sizes DEF FlashOK, SigOK, Running, Phase, WriteSites
<1>4. QED
    BY <1>2, <1>3 DEF PoweredOff, Off, Creating, Making

(* Every step of the driver with an instance                               *)
LEMMA RunningData ==
    ASSUME Running, Running', DataNow, Watching, InOrder, Driver \/ Client, ~seen'.astray,
           ctx = "create" => \A l \in LBs : AnyOf(want, l)
    PROVE  DataNow'
<1>1. pc # "create"
    BY DEF Running, Phase
<1>2. CASE WriteTables
    BY <1>2, WriteErasedData, WriteProgData, WriteNoneData, EraseRangeData DEF WriteTables
<1>3. CASE Create
    BY <1>1, <1>3 DEF Create
<1>4. CASE LoadDone \/ update_info_table \/ updated_once \/ UpdateDone
    BY <1>4, LoadDoneData, UpdateData, UpdatedOnceData, UpdateDoneData
<1>5. CASE bbt_nand_erase \/ bbt_nand_copy \/ OpDone
    BY <1>5, NewBlockErasedData, NewBlockCopiedData, OpDoneData
<1>6. CASE MapTail
    <2>1. ctx = "create"
        BY <1>6 DEF MapTail
    <2>2. \A l \in LBs : AnyOf(Sure, l)
        BY <2>1, AnySure
    <2>3. QED
        BY <1>6, <2>2, MapTailData
<1>7. ASSUME NEW l \in Served, mtd_erase(l) PROVE DataNow'
    BY <1>7, EraseData
<1>8. ASSUME NEW l \in Served, NEW p \in PageNos, mtd_write(l, p) PROVE DataNow'
    BY <1>8, PageData
<1>9. ASSUME NEW l \in Served, NEW p \in PageNos, mtd_read_fails(l, p) PROVE DataNow'
    BY <1>9, ReadFailsData
<1>10. ASSUME NEW l \in Served, (\E act \in {"worn", "markbad"} : Retire(l, act)) \/ mtd_isbad(l) PROVE DataNow'
    BY <1>10, RetireData
<1>11. ASSUME NEW l \in Served, NEW act \in {"repair", "mark_good"}, unmap_block(l, act) PROVE DataNow'
    BY <1>11, UnmapData
<1>12. CASE Driver
    BY <1>2, <1>3, <1>4, <1>5, <1>6, <1>7, <1>8, <1>12 DEF Driver
<1>13. CASE Client
    BY <1>7, <1>8, <1>9, <1>10, <1>11, <1>13 DEF Client
<1>14. QED
    BY <1>12, <1>13

(* While the management area is made there is nothing to be read back *)
LEMMA CreatingData ==
    ASSUME Creating, Driver \/ Client, Running', \A l \in LBs : AnyOf(want, l)
    PROVE  DataNow'
<1>1. pc \in {"write", "failed", "dead", "create"}
    BY DEF Creating, Making
<1>2. ~erase_range /\ ~LoadDone /\ ~MapTail /\ ~update_info_table /\ ~updated_once /\ ~bbt_nand_erase
      /\ ~bbt_nand_copy /\ ~OpDone
    BY <1>1 DEF erase_range, LoadDone, MapTail, update_info_table, updated_once, bbt_nand_erase, bbt_nand_copy,
       OpDone, Creating
<1>3. WriteErase \/ WriteProg \/ WriteNone \/ Create \/ UpdateDone
    BY <1>1, <1>2, NoClient DEF Driver, WriteTables
<1>4. ~Creating'
    BY ApartNext
<1>5. Create
    BY <1>3, <1>4, SigErase, SigProg, SigNone, SigFailed
<1>6. QED
    BY <1>5, AnySure, CreateData

(* The invariant about the data is inductive, relative to IInv             *)
LEMMA DInvNext ==
    ASSUME Watching, IInv, IInv', DInv, [Next]_vars
    PROVE  DInv'
<1>1. SUFFICES ASSUME ~seen'.astray
               PROVE  /\ ~seen'.made => \A l \in LBs : AnyOf(want', l)
                      /\ InOrder'
                      /\ PoweredOff' => Stored(flash', marked', Sure', {})
                      /\ Running' => DataNow'
    BY DataNext DEF DInv
<1>2. ~seen.astray
    BY <1>1, WatchingNext
<1>3. /\ Observed /\ (PoweredOff \/ Creating \/ Running)
      /\ ~seen.made => \A l \in LBs : AnyOf(want, l)
      /\ InOrder
      /\ PoweredOff => Stored(flash, marked, Sure, {})
      /\ Running => DataNow
    BY <1>2 DEF IInv, DInv, DataNow
<1>4. pc \in {"idle", "retry"} => Running /\ DataNow /\ seen.made
    <2>1. pc \in {"idle", "retry"} => Running
        BY <1>3 DEF PoweredOff, Off, Creating, Making
    <2>2. QED
        BY <1>3, <2>1, CallData
<1>5. InOrder'
    <2>1. pc = "erase" => Running
        BY <1>3 DEF PoweredOff, Off, Creating, Making
    <2>2. QED
        BY <1>3, <1>4, <2>1, OrderNext
<1>6. seen.made => seen'.made
    BY WatchingNext
<1>7. ~seen.made => \A l \in LBs : AnyOf(want', l)
    BY <1>3, <1>4, BlankNext
<1>8. ~seen.made => Stored(flash', marked', Sure', {})
    BY <1>7, AnySureNext, BlankStored
<1>9. ctx \in {"create", "boot", "tail"} => ~seen.made
    BY <1>3 DEF Observed
<1>10. CASE UNCHANGED vars
    <2>1. /\ flash' = flash /\ marked' = marked /\ pc' = pc /\ ni' = ni /\ cache' = cache /\ wr' = wr
          /\ ctx' = ctx /\ op' = op /\ seen' = seen /\ Sure' = Sure
        BY <1>10, SureSame DEF vars, ram, obs
    <2>2. (PoweredOff' <=> PoweredOff) /\ (Running' <=> Running)
        BY <2>1 DEF PoweredOff, Running
    <2>3. DataNow' <=> DataNow
        BY <2>1 DEF DataNow
    <2>4. QED
        BY <1>3, <1>5, <1>7, <2>1, <2>2, <2>3
<1>11. CASE Cut
    <2>1. ~Running'
        <3>1. PoweredOff'
            BY <1>3, <1>11, CutOff DEF Observed
        <3>2. QED
            BY <3>1, ApartNext
    <2>2. Stored(flash', marked', Sure', {})
        <3>1. CASE Creating
            <4>1. ni.up /\ ni.backup = 0 /\ ctx # "load"
                BY <3>1 DEF Creating, Making, Fresh, Instances
            <4>2. ~seen.made
                BY <1>11, <4>1 DEF Cut, OneTable
            <4>3. QED
                BY <1>8, <4>2
        <3>2. ~seen.made => \A l \in LBs : AnyOf(Sure, l)
            BY <1>3, AnySure
        <3>3. QED
            BY <1>3, <1>11, <3>1, <3>2, CutData, CutOffData
    <2>3. QED
        BY <1>5, <1>6, <1>7, <2>1, <2>2
<1>12. CASE Attach
    <2>1. pc = "off" /\ flash' = flash /\ marked' = marked /\ Sure' = Sure
        BY <1>12, SureSame DEF Attach, obs
    <2>2. PoweredOff
        BY <1>3, <2>1 DEF Creating, Making, Running, Phase
    <2>3. Stored(flash', marked', Sure', {})
        BY <1>3, <2>1, <2>2
    <2>4. Running' => DataNow'
        BY <1>3, <1>12, <2>2, AttachData
    <2>5. QED
        BY <1>5, <1>6, <1>7, <2>3, <2>4
<1>13. CASE Driver \/ Client
    <2>1. CASE PoweredOff
        BY <1>13, <2>1, OffStep
    <2>2. CASE Creating
        <3>1. pc # "dead"
            <4>1. pc = "dead" => ~(Driver \/ Client)
                BY NoClient DEF Driver, WriteTables, WriteErase, WriteProg, WriteNone, erase_range, LoadDone,
                   Create, MapTail, update_info_table, updated_once, UpdateDone, bbt_nand_erase, bbt_nand_copy,
                   OpDone
            <4>2. QED
                BY <1>13, <4>1
        <3>2. ~seen.made
            BY <1>9, <2>2, <3>1 DEF Creating
        <3>3. Running' => DataNow'
            BY <1>3, <1>13, <2>2, <3>2, CreatingData
        <3>4. QED
            BY <1>5, <1>7, <1>8, <3>2, <3>3
    <2>3. CASE Running
        <3>1. Running'
            BY <1>1, <1>13, <2>3, RunningStep
        <3>2. DataNow'
            BY <1>1, <1>3, <1>9, <1>13, <2>3, <3>1, RunningData
        <3>3. ~PoweredOff'
            BY <3>1, ApartNext
        <3>4. QED
            BY <1>5, <1>6, <1>7, <3>2, <3>3
    <2>4. QED
        BY <1>3, <2>1, <2>2, <2>3
<1>14. QED
    BY <1>10, <1>11, <1>12, <1>13 DEF Next

LEMMA InitData ==
    ASSUME Init
    PROVE  DInv
<1>1. want = [l \in LBs |-> AllPages("any")] /\ ni = NoInstance
    BY DEF Init
<1>2. ASSUME NEW l \in LBs, NEW q \in PageNos PROVE want[l][q] = "any"
    BY <1>1 DEF AllPages
<1>3. \A l \in LBs : AnyOf(want, l)
    BY <1>2 DEF AnyOf
<1>4. InOrder
    BY <1>2 DEF InOrder, Ordered
<1>5. ~Running
    <2>1. ~NoInstance.up
        BY DEF NoInstance
    <2>2. Running => ni.up
        BY DEF Running, Phase, Common, Areas, Instances
    <2>3. QED
        BY <1>1, <2>1, <2>2
<1>6. Stored(flash, marked, Sure, {})
    BY <1>3, AnySure, BlankStored
<1>7. QED
    BY <1>3, <1>4, <1>5, <1>6 DEF DInv

LEMMA IntactHolds ==
    ASSUME Watching, IInv, DInv
    PROVE  DataIntact
<1>1. SUFFICES ASSUME pc = "idle", ~seen.astray, NEW l \in Served, NEW p \in PageNos \ lost[l]
               PROVE  want[l][p] \in {"any", Contents(ni.map[l])[p]}
    BY DEF DataIntact
<1>2. Running
    BY <1>1 DEF IInv, PoweredOff, Off, Creating, Making
<1>3. Reads(flash, Sure, ni.map, {})
    BY <1>1, <1>2, CallData DEF DInv, DataNow
<1>4. l \in LBs /\ ni.map[l] # -1
    BY <1>2, ServedIn DEF Served, Running, Phase, Common
<1>5. Agree(flash, Sure, l, ni.map[l])
    BY <1>3, <1>4 DEF Reads
<1>6. Contents(ni.map[l]) = Cont(flash, ni.map[l])
    BY DEF Contents, Cont
<1>7. Sure[l][p] = want[l][p]
    BY <1>1, <1>4, SurePage
<1>8. QED
    BY <1>1, <1>5, <1>6, <1>7 DEF Agree

(* While the driver serves requests, what mtk_bmt_mtd_erase and            *)
(* mtk_bmt_write acknowledged, and the driver did not give up since, is    *)
(* read back where the mapping table says, across any number of failed     *)
(* blocks, remaps, repairs and power cuts.  It gives up (lost) the pages   *)
(* from the first that bbt_nand_copy could not copy, those of a block that *)
(* it copied to one that was not erased, a page that mtk_bmt_write then    *)
(* wrote there, and those of a block that mtk_bmt_debug_mark_good moved or *)
(* whose repair the power cut short; and the theorem stops where           *)
(* nmbm_map_block passes a bad spare block or unmap_block_nmbm leaves the  *)
(* data area (astray).                                                     *)
THEOREM DataHolds == Spec => []DataIntact
<1>1. Init => Watching /\ IInv /\ DInv
    BY InitWatching, InitInv, InitData
<1>2. Watching /\ IInv /\ DInv /\ [Next]_vars => Watching' /\ IInv' /\ DInv'
    BY WatchingNext, IInvNext, DInvNext
<1>3. Watching /\ IInv /\ DInv => DataIntact
    BY IntactHolds
<1>4. QED
    BY <1>1, <1>2, <1>3, PTL DEF Spec

=============================================================================
