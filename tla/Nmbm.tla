-------------------------------- MODULE Nmbm --------------------------------
(***************************************************************************)
(* NMBM, the bad block management that MediaTek targets put under their    *)
(* NAND flash: target/linux/generic/files/drivers/mtd/nand/mtk_bmt_nmbm.c  *)
(* with the mtd operations of mtk_bmt.c above it.                          *)
(*                                                                         *)
(* A chip is data blocks, then the management area: the main info table,   *)
(* spare blocks, the backup info table, unmapped spare blocks, and the     *)
(* signature in the last good block.  A logical block whose physical block *)
(* wears out is mapped to the highest spare block, and both tables are     *)
(* written again.                                                          *)
(*                                                                         *)
(* A step is one erase or one write of a block; power may go between any   *)
(* two and in the middle of one.  Every erase, write and read may fail for *)
(* good (NMBM_TRY_COUNT attempts are one).  An info table fits one block,  *)
(* as it does on every chip of up to 32k blocks.  The block the flash is   *)
(* working on, the RAM state ni and the call in progress (ctx, wr, op) are *)
(* separate: a power cut keeps the first and loses the others.             *)
(***************************************************************************)
EXTENDS Integers, FiniteSets

CONSTANTS
    NBlocks,      \* bmtd.total_blks
    MgmtStart,    \* signature.mgmt_start_pb: first block of the management area
    NPages,       \* pages of a block
    SpareBlocks,  \* info_table_spare_blocks, from nmbm_get_spare_block_count
    Users,        \* the logical blocks that are erased and written
    FactoryBad,   \* the sets of blocks that may be bad when the chip is new
    ForceCreate,  \* mediatek,bmt-force-create of those that attach: the boot
                  \* loader creates what is missing, the kernel only loads
    MaxFaults,    \* bound: factory bad blocks, flash operations that fail,
                  \* blocks that are retired, and debugfs writes
    MaxCuts       \* bound: power cuts

ASSUME ChipAssumption ==
    /\ NBlocks \in Nat /\ MgmtStart \in 1..(NBlocks - 6)
    /\ NPages \in Nat \ {0} /\ SpareBlocks \in Nat
    /\ Users \subseteq 0..(MgmtStart - 1)
    /\ ForceCreate \subseteq BOOLEAN
    /\ FactoryBad \subseteq SUBSET (0..(NBlocks - 1))
ASSUME BoundAssumption == MaxFaults \in Nat /\ MaxCuts \in Nat

Blocks == 0..(NBlocks - 1)
LBs == 0..(MgmtStart - 1)
PageNos == 1..NPages

VARIABLES
    flash,    \* what is in each block
    marked,   \* blocks with a bad block mark in their OOB area
    pc,       \* what the driver is doing; "off" without power
    ni,       \* struct nmbm_instance
    cache,    \* info_table_cache while a table is being written
    wr,       \* the nmbm_write_mgmt_range, nmbm_erase_range or signature in progress
    ctx,      \* on whose behalf tables are written
    op,       \* the mtd operation that ran into a bad block
    want,     \* observer: what the client was told each logical block reads as
    lost,     \* observer: the pages among those that the driver gave up
    seen,     \* observer: whether the chip was ever in use, and whether
              \* nmbm_map_block ever passed a bad block or unmap_block_nmbm
              \* went to a block that is not the logical block's (astray)
    used      \* bounds: faults and power cuts so far

ram  == <<ni, cache, wr, ctx, op>>
obs  == <<want, lost, seen>>
vars == <<flash, marked, pc, ram, obs, used>>

-----------------------------------------------------------------------------
(* Contents of a block: user pages ("ff" erased, "d" written, "x" cannot   *)
(* be read), a table, or the signature.                                    *)
Data(f) == [kind |-> "data", pages |-> f]
AllPages(v) == [p \in PageNos |-> v]
Erased == Data(AllPages("ff"))
Torn == Data(AllPages("x"))
Sig == [kind |-> "sig"]

Contents(b) == IF flash[b].kind = "data" THEN flash[b].pages ELSE AllPages("x")
Unreadable(b) == flash[b].kind = "data" /\ \E p \in PageNos : flash[b].pages[p] = "x"

(* After an erase that failed the old contents may still be there *)
EraseFailed(b) == {flash[b], Torn}

Lowest(S) == CHOOSE x \in S : \A y \in S : x <= y
Highest(S) == CHOOSE x \in S : \A y \in S : x >= y
Nth(S, n) == CHOOSE x \in S : Cardinality({y \in S : y < x}) = n
Smaller(m, n) == IF m < n THEN m ELSE n

(* nmbm_block_walk from ba, over the blocks S: the first good block        *)
Good(S) == S \ ni.bad

(* nmbm_try_reserve_blocks(ba, spare, 0, top - 1): as many good blocks as  *)
(* there are, at most SpareBlocks, are left free before the block returned *)
Reservable(n) == (n.lo .. (n.top - 2)) \ n.bad
Reserve(n) == Nth(Reservable(n), Smaller(SpareBlocks, Cardinality(Reservable(n)) - 1))

NoInstance == [up |-> FALSE]
NoTable == [kind |-> "none"]
NoWrite == [site |-> "none"]
NoOp == [act |-> "none"]

Table(n) == [kind |-> "table", wc |-> n.wc, bad |-> n.bad, map |-> n.map]
mark_tables_clean(n) == [n EXCEPT !.changed = FALSE]
set_bad(n, S) == [n EXCEPT !.bad = @ \union S, !.changed = @ \/ ~(S \subseteq n.bad)]

(* nmbm_generate_info_table_cache *)
Generated(n) == IF n.changed THEN [n EXCEPT !.wc = @ + 1] ELSE n

Fault == used.faults < MaxFaults /\ used' = [used EXCEPT !.faults = @ + 1]

Init ==
    /\ marked \in FactoryBad
    /\ flash = [b \in Blocks |-> Erased]
    /\ pc = "off" /\ ni = NoInstance /\ cache = NoTable
    /\ wr = NoWrite /\ ctx = "none" /\ op = NoOp
    /\ want = [l \in LBs |-> AllPages("any")]
    /\ lost = [l \in LBs |-> {}]
    /\ seen = [made |-> FALSE, astray |-> FALSE]
    /\ used = [faults |-> Cardinality(marked), cuts |-> 0]

-----------------------------------------------------------------------------
(* Writing info tables.  A function that writes a table goes on at the     *)
(* place named by site when a block has taken it, or when no block of the  *)
(* range is left: the values are the next ni, pc and wr.                   *)

Writing(n, site, ba, lim) ==
    [n |-> n, pc |-> "write",
     wr |-> [site |-> site, ba |-> ba, lim |-> lim, from |-> ba, erased |-> FALSE]]
Cleaning(n, site, ba, lim) ==
    [n |-> n, pc |-> "clean",
     wr |-> [site |-> site, ba |-> ba, lim |-> lim, from |-> ba, erased |-> FALSE]]
Returning(n, ok) == [n |-> n, pc |-> IF ok THEN "ok" ELSE "failed", wr |-> NoWrite]

(* nmbm_rebuild_info_table *)
rebuild_info_table(n) ==
    Writing([n EXCEPT !.main = 0, !.backup = 0, !.lo = n.top],
            "rebuild_main", MgmtStart, n.top)

write_main_table_unlimited(n, lim) ==   \* mutant: the main table may run into the backup
    IF n.main = 0 THEN rebuild_info_table(n) ELSE Writing(n, "main", n.main, n.top)

(* nmbm_update_info_table_once from write_main_table on, and from its start *)
write_main_table(n, lim) ==
    IF n.main = 0 THEN rebuild_info_table(n) ELSE Writing(n, "main", n.main, lim)

update_info_table_once(n) ==
    IF n.backup = 0 THEN write_main_table(n, n.top)
    ELSE Writing(n, "backup", n.backup, n.top)

(* nmbm_rescue_single_info_table: before the table there is, or after it   *)
rescue_single_info_table(n) == Writing(n, "front", MgmtStart, n.main)

(* nmbm_update_single_info_table *)
update_single_info_table(n, main) ==
    IF main THEN Writing(n, "only_main", n.main, n.backup)
    ELSE Writing(n, "only_backup", n.backup, n.top)

(* nmbm_rescue_main_info_table: a temporary table first *)
backup_becomes_main(n) == [n EXCEPT !.main = n.backup, !.backup = 0]
rescue_main_info_table(n) ==
    IF Reservable(n) = {} THEN Returning(backup_becomes_main(n), TRUE)
    ELSE Writing(n, "tmp", Reserve(n), n.top)

(* Block b has taken the table.  After "tmp" the code also provides for a  *)
(* main table that runs into the temporary one, which its limit excludes.  *)
OnWritten(n, w, b) ==
    LET main == [n EXCEPT !.main = b]
        backup == [n EXCEPT !.backup = b, !.lo = b + 1]
    IN  CASE w.site = "backup" -> write_main_table(mark_tables_clean(backup), b)
          [] w.site = "main" ->
                Returning(mark_tables_clean(
                    IF n.backup = 0 THEN [main EXCEPT !.lo = b + 1] ELSE main), TRUE)
          [] w.site = "rebuild_main" ->
                LET m == mark_tables_clean([main EXCEPT !.lo = b + 1])
                IN  IF Reservable(m) = {} THEN Returning(m, TRUE)
                    ELSE Writing(m, "rebuild_backup", Reserve(m), m.top)
          [] w.site = "rebuild_backup" -> Cleaning(backup, w.site, n.main + 1, b)
          [] w.site = "front" ->
                Cleaning(mark_tables_clean([main EXCEPT !.backup = n.main]),
                         w.site, b + 1, n.main)
          [] w.site = "next" -> Cleaning(n, w.site, n.lo, b)
          [] w.site = "only_main" -> Returning(mark_tables_clean(main), TRUE)
          [] w.site = "only_backup" -> Returning(mark_tables_clean(backup), TRUE)
          [] w.site = "tmp" -> Writing([n EXCEPT !.lo = b + 1], "rescue_main", MgmtStart, b)
          [] w.site = "rescue_main" ->
                Returning(mark_tables_clean([main EXCEPT !.backup = w.lim]), TRUE)
          [] w.site = "sig" -> [n |-> [n EXCEPT !.sig = b], pc |-> "create", wr |-> NoWrite]

(* No block of the range has taken it.  "next" and "tmp" begin again one   *)
(* block lower, as long as that is above the tables.                       *)
OnExhausted(n, w) ==
    CASE w.site = "backup" ->
            write_main_table([n EXCEPT !.lo = n.backup, !.backup = 0], n.top)
      [] w.site = "main" ->
            IF n.backup = 0 THEN rebuild_info_table(n) ELSE rescue_main_info_table(n)
      [] w.site = "rebuild_main" -> Returning([n EXCEPT !.prot = TRUE], FALSE)
      [] w.site = "rebuild_backup" -> Returning(n, TRUE)
      [] w.site = "front" ->
            IF Reservable(n) = {} THEN Returning(n, FALSE)
            ELSE Writing(n, "next", Reserve(n), n.top)
      [] w.site = "next" ->
            IF w.from > n.lo THEN Writing(n, w.site, w.from - 1, n.top)
            ELSE Returning(n, FALSE)
      [] w.site = "only_main" -> rescue_single_info_table(backup_becomes_main(n))
      [] w.site = "only_backup" ->
            Returning([n EXCEPT !.lo = n.backup, !.backup = 0], FALSE)
      [] w.site = "tmp" ->
            IF w.from > n.lo THEN Writing(n, w.site, w.from - 1, n.top)
            ELSE Returning(backup_becomes_main(n), TRUE)
      [] w.site = "rescue_main" ->
            Returning(mark_tables_clean([n EXCEPT !.main = w.lim, !.backup = 0]), TRUE)
      [] w.site = "sig" -> Returning(n, FALSE)

OnCleaned(n, w) ==
    Returning(IF w.site = "next"
              THEN mark_tables_clean([n EXCEPT !.backup = w.lim, !.lo = w.lim + 1])
              ELSE n, TRUE)

Goto(r) == ni' = r.n /\ pc' = r.pc /\ wr' = r.wr

(* nmbm_write_mgmt_range and nmbm_erase_range go up from wr.ba to wr.lim,  *)
(* nmbm_write_signature goes down.  A block with a mark in OOB that the    *)
(* state table does not know is noted on the way.                          *)
Down == wr.site = "sig"
Span == IF Down THEN (wr.lim + 1)..wr.ba ELSE wr.ba..(wr.lim - 1)
Usable == Good(Span) \ marked
Target == IF Down THEN Highest(Usable) ELSE Lowest(Usable)
Past(b) == {c \in Span : IF Down THEN c > b ELSE c < b}
After(b) == [wr EXCEPT !.ba = IF Down THEN b - 1 ELSE b + 1, !.erased = FALSE]
Noted(S) == set_bad(ni, S \intersect marked)

(* skip_bad_block: mark the block bad in OOB and in the state table *)
SkipBad(n, b, left) ==
    /\ Fault
    /\ \E c \in left : flash' = [flash EXCEPT ![b] = c]
    /\ marked' = marked \union {b}
    /\ ni' = set_bad(n, {b})
    /\ wr' = After(b)
    /\ UNCHANGED pc

WriteErase ==
    /\ pc = "write" /\ ~wr.erased /\ Usable # {}
    /\ LET b == Target  n == Noted(Past(b)) IN
        \/ /\ flash' = [flash EXCEPT ![b] = Erased]
           /\ ni' = n
           /\ wr' = [wr EXCEPT !.ba = b, !.erased = TRUE]
           /\ UNCHANGED <<marked, pc, used>>
        \/ SkipBad(n, b, EraseFailed(b))
    /\ UNCHANGED <<cache, ctx, op, obs>>

WriteProg ==
    /\ pc = "write" /\ wr.erased
    /\ \/ /\ flash' = [flash EXCEPT ![wr.ba] = IF Down THEN Sig ELSE cache]
          /\ Goto(OnWritten(ni, wr, wr.ba))
          /\ UNCHANGED <<marked, used>>
       \/ SkipBad(ni, wr.ba, {Torn})
    /\ UNCHANGED <<cache, ctx, op, obs>>

WriteNone ==
    /\ pc = "write" /\ ~wr.erased /\ Usable = {}
    /\ Goto(OnExhausted(Noted(Span), wr))
    /\ UNCHANGED <<flash, marked, cache, ctx, op, obs, used>>

erase_range ==
    /\ pc = "clean"
    /\ \/ /\ Usable = {}
          /\ Goto(OnCleaned(Noted(Span), wr))
          /\ UNCHANGED <<flash, marked, used>>
       \/ /\ Usable # {}
          /\ LET b == Target  n == Noted(Past(b)) IN
                \/ /\ flash' = [flash EXCEPT ![b] = Erased]
                   /\ ni' = n /\ wr' = After(b)
                   /\ UNCHANGED <<marked, pc, used>>
                \/ SkipBad(n, b, EraseFailed(b))
    /\ UNCHANGED <<cache, ctx, op, obs>>

WriteTables == WriteErase \/ WriteProg \/ WriteNone \/ erase_range

-----------------------------------------------------------------------------
(* Attaching *)

(* nmbm_build_mapping_table: logical blocks take the good data blocks      *)
build_mapping_table(bad) ==
    LET good == LBs \ bad
    IN  [l \in LBs |-> IF l < Cardinality(good) THEN Nth(good, l) ELSE -1]

New_whole_chip(sig, bad) ==   \* mutant: counts the management blocks as well
    [up |-> TRUE, sig |-> sig, map |-> build_mapping_table(bad), bad |-> bad,
     main |-> 0, backup |-> 0, lo |-> 0, top |-> 0, changed |-> bad # {},
     prot |-> FALSE, count |-> NBlocks - Cardinality(bad), wc |-> 0]

(* nmbm_init_structure, nmbm_scan_badblocks and nmbm_build_mapping_table;  *)
(* the state table may know other blocks already                           *)
New(sig, bad) ==
    [up |-> TRUE, sig |-> sig, map |-> build_mapping_table(bad), bad |-> bad,
     main |-> 0, backup |-> 0, lo |-> 0, top |-> 0, changed |-> bad # {},
     prot |-> FALSE, count |-> Cardinality(LBs \ bad), wc |-> 0]

(* nmbm_find_signature *)
Signatures == {b \in Blocks \ marked : flash[b] = Sig}

(* nmbm_try_load_info_table, nmbm_check_info_table: b holds a whole table  *)
(* that calls b good and maps nothing to the blocks up to b                *)
Loadable(b, bad, sig) ==
    /\ b \notin marked \union bad /\ flash[b].kind = "table"
    /\ \A l \in LBs : flash[b].map[l] \notin (MgmtStart..b) \union {sig}
    /\ b \notin flash[b].bad

(* Blocks that the search turns bad in memory *)
Suspect(S) == {b \in S : b \in marked \/ Unreadable(b)}

top_ba(table, b, sig) ==
    Lowest({table.map[l] : l \in {k \in LBs : table.map[k] > b}} \union {sig}) - 1

Tables(sig) == {b \in MgmtStart..(sig - 2) : Loadable(b, {}, sig)}

(* nmbm_load_info_table up to the repairs: the first two tables, and the   *)
(* contents of the one that was written last                               *)
load_info_table(sig) ==
    LET main == Lowest(Tables(sig))
        t1 == flash[main]
        others == {b \in (main + 1)..(sig - 2) : Loadable(b, t1.bad, sig)}
        backup == IF others = {} THEN 0 ELSE Lowest(others)
        newer == backup # 0 /\ flash[backup].wc > t1.wc
        t == IF newer THEN flash[backup] ELSE t1
        last == IF backup = 0 THEN main ELSE backup
        before == Suspect(MgmtStart..(main - 1))
        between == Suspect((main + 1)..(IF backup = 0 THEN sig - 2 ELSE backup - 1)) \ t1.bad
    IN  [up |-> TRUE, sig |-> sig, map |-> t.map,
         bad |-> IF newer THEN t.bad ELSE t.bad \union between,
         main |-> main, backup |-> backup, lo |-> last + 1,
         top |-> top_ba(t, IF newer THEN backup ELSE main, sig),
         changed |-> before \union between # {}, prot |-> FALSE,
         count |-> Highest({0} \union {l + 1 : l \in {k \in LBs : t.map[k] >= 0}}),
         wc |-> t.wc]

(* nmbm_load_info_table: the repairs *)
RepairTables(n) ==
    LET behind(b) == flash[b].wc < n.wc
    IN  IF n.backup = 0 THEN rescue_single_info_table(Generated(n))
        ELSE IF flash[n.main].wc # flash[n.backup].wc
        THEN update_single_info_table([Generated(n) EXCEPT !.changed = TRUE], behind(n.main))
        ELSE Returning(Generated(n), TRUE)

Goto2(r, c) == Goto(r) /\ ctx' = c
Dead == pc' = "dead" /\ ni' = NoInstance /\ wr' = NoWrite /\ UNCHANGED <<ctx, cache>>

(* nmbm_attach, nmbm_create_new, nmbm_load_existing *)
Attach ==
    /\ pc = "off"
    /\ \E force \in ForceCreate :
        IF Signatures = {} THEN
            IF ~force THEN Dead
            ELSE /\ Goto2(Writing(New(0, marked), "sig", NBlocks - 1, MgmtStart), "create")
                 /\ UNCHANGED cache
        ELSE
            LET sig == Highest(Signatures) IN
            IF Tables(sig) # {} THEN
                /\ Goto2(RepairTables(load_info_table(sig)), "load")
                /\ cache' = Table(Generated(load_info_table(sig)))
            ELSE IF ~force THEN Dead
            ELSE /\ pc' = "create" /\ ctx' = "create"
                 /\ ni' = New(sig, marked \union Suspect(MgmtStart..(sig - 2)))
                 /\ UNCHANGED <<wr, cache>>
    /\ UNCHANGED <<flash, marked, op, obs, used>>

LoadDone ==
    /\ ctx = "load" /\ pc \in {"ok", "failed"}
    /\ ni' = [ni EXCEPT !.prot = ni.lo = ni.top \/ pc = "failed"]
    /\ pc' = "idle" /\ ctx' = "none" /\ cache' = NoTable
    /\ seen' = [seen EXCEPT !.made = TRUE]
    /\ UNCHANGED <<flash, marked, wr, op, want, lost, used>>

(* nmbm_create_info_table: the first tables *)
Create ==
    /\ pc = "create"
    /\ LET spares == Good((MgmtStart + 1)..(ni.sig - 1)) IN
        IF spares = {} THEN Dead
        ELSE LET n == Generated([ni EXCEPT !.top = Highest(spares)]) IN
             /\ Goto(rebuild_info_table(n)) /\ cache' = Table(n) /\ UNCHANGED ctx
    /\ UNCHANGED <<flash, marked, op, obs, used>>

-----------------------------------------------------------------------------
(* nmbm_map_block takes the highest good block that is not mapped yet; the *)
(* top moves by one, however many bad blocks were passed                   *)
Unmapped(n) == ((n.lo + 1)..n.top) \ n.bad
NoSpare(n) == n.lo = n.top
Skips(n) == seen' = [seen EXCEPT !.astray = @ \/ n.top \in n.bad]
map_block_keep_top(n, l) ==   \* mutant: the next block is taken from the same place
    [n EXCEPT !.map[l] = Highest(Unmapped(n)), !.changed = TRUE]
map_block(n, l) ==
    [n EXCEPT !.map[l] = Highest(Unmapped(n)), !.top = @ - 1, !.changed = TRUE]

(* nmbm_create_info_table: bad blocks at the end of the data area, then    *)
(* nmbm_update_info_table                                                  *)
MapTail ==
    /\ ctx = "create" /\ pc = "ok"
    /\ \/ /\ ni.count < MgmtStart /\ Unmapped(ni) # {}
          /\ ni' = [map_block(ni, ni.count) EXCEPT !.count = @ + 1]
          /\ Skips(ni)
          /\ UNCHANGED <<pc, ctx>>
       \/ /\ ni.count < MgmtStart /\ ~NoSpare(ni) /\ Unmapped(ni) = {}
          /\ pc' = "update" /\ ctx' = "tail" /\ UNCHANGED <<ni, seen>>
       \/ /\ ni.count = MgmtStart \/ NoSpare(ni)
          /\ pc' = "update" /\ ctx' = "boot" /\ UNCHANGED <<ni, seen>>
    /\ UNCHANGED <<flash, marked, cache, wr, op, want, lost, used>>

(* nmbm_update_info_table *)
update_info_table ==
    /\ pc = "update" /\ ~ni.prot /\ ni.changed
    /\ Goto(update_info_table_once(Generated(ni))) /\ cache' = Table(Generated(ni))
    /\ UNCHANGED <<flash, marked, ctx, op, obs, used>>

updated_once ==
    /\ pc = "ok" /\ ctx \notin {"load", "create"}
    /\ pc' = "update"
    /\ UNCHANGED <<flash, marked, ram, obs, used>>

(* What the caller of nmbm_update_info_table does next: nmbm_map_block     *)
(* gives up the spare blocks, remap_block_nmbm ignores the result, and     *)
(* mtk_bmt_debug_repair copies the block back                              *)
UpdateDone ==
    /\ IF pc = "update" THEN ni.prot \/ ~ni.changed ELSE pc = "failed" /\ ctx # "load"
    /\ ni' = IF ctx \in {"mapfail", "tail"} THEN [ni EXCEPT !.top = ni.lo] ELSE ni
    /\ pc' = CASE ctx \in {"create", "boot"} /\ pc = "failed" -> "dead"
               [] ctx = "tail" \/ (ctx = "boot" /\ pc # "failed") -> "idle"
               [] ctx = "mapfail" -> "refused"
               [] ctx = "remap" -> "remapped"
               [] ctx = "unmap" -> IF op.act = "repair" /\ op.new # op.old THEN "erase" ELSE "idle"
    /\ ctx' = "none" /\ cache' = NoTable
    /\ op' = IF pc' = "idle" THEN NoOp ELSE op
    /\ seen' = [seen EXCEPT !.made = @ \/ pc' = "idle"]
    /\ UNCHANGED <<flash, marked, wr, want, lost, used>>

-----------------------------------------------------------------------------
(* The mtd operations of mtk_bmt.c.  A block that fails is remapped:       *)
(* remap_block_nmbm(op.lb, op.old, op.len pages to copy)                   *)

Served == {l \in LBs : ni.up /\ l < ni.count}
Op_short(act, l, len) ==   \* mutant: copies one page less
    [act |-> act, lb |-> l, old |-> ni.map[l], new |-> -1, dirty |-> FALSE,
     len |-> IF len = 0 THEN 0 ELSE len - 1]
Op(act, l, len) == [act |-> act, lb |-> l, old |-> ni.map[l], new |-> -1, len |-> len, dirty |-> FALSE]
Forget(l, ps) == [want EXCEPT ![l] = [p \in PageNos |-> IF p \in ps THEN "any" ELSE @[p]]]
Lose(l, ps) == [lost EXCEPT ![l] = @ \union ps]
Started(act, l) == pc = "idle" \/ (pc = "retry" /\ op.act = act /\ op.lb = l)

remap_block(o) ==
    LET n == set_bad(ni, {o.old}) IN
    /\ op' = [o EXCEPT !.new = IF Unmapped(n) = {} THEN -1 ELSE Highest(Unmapped(n))]
    /\ IF NoSpare(n) THEN ni' = n /\ pc' = "refused" /\ UNCHANGED <<ctx, seen>>
       ELSE IF Unmapped(n) = {} THEN ni' = n /\ pc' = "update" /\ ctx' = "mapfail" /\ UNCHANGED seen
       ELSE /\ ni' = map_block(n, o.lb) /\ pc' = "erase" /\ ctx' = "remap"
            /\ Skips(n)
    /\ UNCHANGED <<cache, wr>>

Idle == pc' = "idle" /\ op' = NoOp /\ UNCHANGED <<ni, cache, wr, ctx, seen>>

(* mtk_bmt_mtd_erase; the chip refuses to erase a block marked bad *)
mtd_erase(l) ==
    /\ Started("erase", l)
    /\ LET b == ni.map[l] IN
        \/ /\ b \notin marked
           /\ flash' = [flash EXCEPT ![b] = Erased]
           /\ want' = [want EXCEPT ![l] = AllPages("ff")]
           /\ lost' = [lost EXCEPT ![l] = {}]
           /\ Idle /\ UNCHANGED used
        \/ /\ IF b \in marked THEN UNCHANGED <<flash, used>>
              ELSE Fault /\ \E c \in EraseFailed(b) : flash' = [flash EXCEPT ![b] = c]
           /\ want' = Forget(l, PageNos) /\ UNCHANGED lost
           /\ remap_block(Op("erase", l, 0))
    /\ UNCHANGED marked

(* mtk_bmt_write: pages of an erased block are written in order; a page    *)
(* that a failed copy left programmed is acknowledged, but not as written  *)
mtd_write(l, p) ==
    /\ Started("write", l)
    /\ IF pc = "retry" THEN p = op.len + 1
       ELSE want[l][p] = "ff" /\ \A q \in 1..(p - 1) : want[l][q] # "ff"
    /\ LET b == ni.map[l]
           blank == Contents(b)[p] = "ff"
           Wrote(v) == flash' = [flash EXCEPT ![b] = Data([Contents(b) EXCEPT ![p] = v])]
       IN  \/ /\ Wrote(IF blank THEN "d" ELSE "x")
              /\ want' = [want EXCEPT ![l][p] = "d"]
              /\ lost' = [lost EXCEPT ![l] = IF blank THEN @ \ {p} ELSE @ \union {p}]
              /\ Idle /\ UNCHANGED used
           \/ /\ Fault /\ Wrote("x")
              /\ want' = Forget(l, {p}) /\ UNCHANGED lost
              /\ remap_block(Op("write", l, p - 1))
    /\ UNCHANGED marked

(* mtk_bmt_read: page p cannot be corrected any more; an erased page has   *)
(* nothing to correct                                                      *)
mtd_read_fails(l, p) ==
    /\ pc = "idle" /\ Fault /\ Contents(ni.map[l])[p] = "d"
    /\ LET b == ni.map[l] IN flash' = [flash EXCEPT ![b] = Data([Contents(b) EXCEPT ![p] = "x"])]
    /\ want' = Forget(l, {p}) /\ UNCHANGED lost
    /\ remap_block(Op("read", l, NPages))
    /\ UNCHANGED marked

(* mtk_bmt_read with bitflip_threshold bitflips, mtk_bmt_block_markbad,    *)
(* mtk_bmt_debug_mark_bad: the whole block is copied                       *)
Retire(l, act) ==
    /\ pc = "idle" /\ Fault
    /\ remap_block(Op(act, l, NPages))
    /\ UNCHANGED <<flash, marked, want, lost>>

(* mtk_bmt_block_isbad *)
mtd_isbad(l) ==
    /\ pc = "idle" /\ ni.map[l] \in marked
    /\ remap_block(Op("isbad", l, NPages))
    /\ UNCHANGED <<flash, marked, want, lost, used>>

(* bbt_nand_erase of the new block, its result ignored *)
bbt_nand_erase ==
    /\ pc = "erase" /\ pc' = "copy"
    /\ LET b == op.new IN
        \/ /\ b \notin marked
           /\ flash' = [flash EXCEPT ![b] = Erased]
           /\ UNCHANGED <<op, used>>
        \/ /\ IF b \in marked THEN UNCHANGED <<flash, used>>
              ELSE Fault /\ \E c \in EraseFailed(b) : flash' = [flash EXCEPT ![b] = c]
           /\ op' = [op EXCEPT !.dirty = TRUE]
    /\ UNCHANGED <<marked, ni, cache, wr, ctx, obs>>

(* bbt_nand_copy, its result ignored: it ends at the first page that can   *)
(* not be read or written, and the pages from there on are lost            *)
bbt_nand_copy ==
    /\ pc = "copy" /\ pc' = IF ctx = "remap" THEN "update" ELSE "idle"
    /\ LET from == Contents(op.old)
           to == Contents(op.new)
           readable == Lowest({q \in PageNos : from[q] = "x"} \union {op.len + 1}) - 1
           Page(q, n) == IF q > n THEN to[q] ELSE IF to[q] = "ff" THEN from[q] ELSE "x"
           GivenUp(n) == {q \in PageNos : op.dirty \/ q \in (n + 1)..op.len}
       IN  \/ /\ flash' = [flash EXCEPT ![op.new] = Data([q \in PageNos |-> Page(q, Smaller(readable, op.len))])]
              /\ lost' = Lose(op.lb, GivenUp(Smaller(readable, op.len)))
              /\ UNCHANGED used
           \/ \E n \in 0..(Smaller(readable, op.len) - 1) :
                /\ Fault
                /\ flash' = [flash EXCEPT ![op.new] =
                        Data([q \in PageNos |-> IF q = n + 1 THEN "x" ELSE Page(q, n)])]
                /\ lost' = Lose(op.lb, GivenUp(n))
    /\ op' = IF pc' = "idle" THEN NoOp ELSE op
    /\ UNCHANGED <<marked, ni, cache, wr, ctx, want, seen>>

(* The operation goes on after remap_block_nmbm: erase and write begin     *)
(* again on the new block, mtk_bmt_block_markbad marks the old one         *)
OpDone ==
    /\ pc \in {"remapped", "refused"}
    /\ marked' = IF op.act = "markbad" THEN marked \union {op.old} ELSE marked
    /\ IF pc = "remapped" /\ op.act \in {"erase", "write"} THEN pc' = "retry" /\ op' = op
       ELSE pc' = "idle" /\ op' = NoOp
    /\ UNCHANGED <<flash, ni, cache, wr, ctx, obs, used>>

(* unmap_block_nmbm, called by mtk_bmt_debug_repair and by                 *)
(* mtk_bmt_debug_mark_good: the block next to the one of the last logical  *)
(* block before l that was never remapped                                  *)
Remapped(k) == ni.map[k] >= ni.lo
unmap_block(l, act) ==
    /\ pc = "idle" /\ Fault
    /\ Remapped(l) /\ \E k \in 0..l : ~Remapped(k)
    /\ LET start == Highest({k \in 0..l : ~Remapped(k)})
           new == ni.map[start] + (l - start)
           map == [ni.map EXCEPT ![l] = new]
           mapped == {map[k] : k \in Served} \intersect (ni.lo..(ni.sig - 1))
       IN  /\ ni' = [ni EXCEPT !.bad = @ \ {new}, !.map = map, !.changed = TRUE,
                               !.top = Lowest({ni.sig} \union mapped) - 1]
           /\ op' = [Op(act, l, NPages) EXCEPT !.new = new]
           /\ seen' = [seen EXCEPT !.astray =
                    @ \/ new \notin LBs \/ \E k \in Served \ {l} : ni.map[k] = new]
    /\ pc' = "update" /\ ctx' = "unmap"
    /\ lost' = IF act = "mark_good" THEN Lose(l, PageNos) ELSE lost
    /\ UNCHANGED <<flash, marked, cache, wr, want>>

-----------------------------------------------------------------------------
(* The power goes: memory is lost, and the block that was being erased or  *)
(* written may be neither the old nor the new one.  A repair that has      *)
(* published its mapping and not copied the block yet loses the block.     *)
InHand ==
    CASE pc = "write" /\ wr.erased -> {wr.ba}
      [] pc \in {"write", "clean"} /\ ~wr.erased /\ Usable # {} -> {Target}
      [] pc \in {"erase", "copy"} -> {op.new}
      [] pc = "idle" -> {ni.map[l] : l \in Served}
      [] OTHER -> {}

(* In use with one info table, or with changes that are no longer written: *)
(* a power cut then may cost the table, and is not considered              *)
OneTable ==
    /\ ni.up /\ seen.made /\ ctx # "load"
    /\ ni.backup = 0 \/ ni.prot

Cut ==
    /\ pc # "off" /\ used.cuts < MaxCuts /\ ~OneTable
    /\ used' = [used EXCEPT !.cuts = @ + 1]
    /\ \E torn \in {{}} \union {{b} : b \in InHand \ marked} :
        /\ flash' = [b \in Blocks |-> IF b \in torn THEN Torn ELSE flash[b]]
        /\ want' = [l \in LBs |->
                IF pc = "idle" /\ l \in Served /\ ni.map[l] \in torn
                THEN AllPages("any") ELSE want[l]]
    /\ lost' = IF op # NoOp /\ op.act = "repair" THEN Lose(op.lb, PageNos) ELSE lost
    /\ pc' = "off" /\ ni' = NoInstance /\ cache' = NoTable
    /\ wr' = NoWrite /\ ctx' = "none" /\ op' = NoOp
    /\ UNCHANGED <<marked, seen>>

Driver ==
    \/ WriteTables \/ LoadDone \/ Create \/ MapTail
    \/ update_info_table \/ updated_once \/ UpdateDone
    \/ bbt_nand_erase \/ bbt_nand_copy \/ OpDone
    \/ \E l \in Served : pc = "retry" /\ (mtd_erase(l) \/ \E p \in PageNos : mtd_write(l, p))

Client ==
    \E l \in Served :
        \/ pc = "idle" /\ l \in Users /\ (mtd_erase(l) \/ \E p \in PageNos : mtd_write(l, p))
        \/ \E p \in PageNos : mtd_read_fails(l, p)
        \/ \E act \in {"worn", "markbad"} : Retire(l, act)
        \/ mtd_isbad(l)
        \/ \E act \in {"repair", "mark_good"} : unmap_block(l, act)

Next == Attach \/ Driver \/ Client \/ Cut

Spec == Init /\ [][Next]_vars

-----------------------------------------------------------------------------
DataContents == {Data(f) : f \in [PageNos -> {"ff", "d", "x"}]}

(* Every variable has its type *)
TypeOK ==
    /\ \A b \in Blocks : flash[b] \in DataContents \union {Sig} \/ flash[b].kind = "table"
    /\ marked \subseteq Blocks
    /\ pc \in {"off", "dead", "create", "write", "clean", "ok", "failed", "update",
               "idle", "erase", "copy", "remapped", "refused", "retry"}
    /\ ni.up => /\ ni.bad \subseteq Blocks /\ ni.map \in [LBs -> Blocks \union {-1}]
                /\ {ni.main, ni.backup, ni.lo, ni.top, ni.sig} \subseteq Blocks
                /\ ni.count \in 0..MgmtStart /\ ni.wc \in Nat
    /\ want \in [LBs -> [PageNos -> {"any", "ff", "d"}]]
    /\ lost \in [LBs -> SUBSET PageNos]
    /\ seen \in [made : BOOLEAN, astray : BOOLEAN]

(* A chip that was in use and is not down to one info table has a          *)
(* signature and a table that load at every moment, in the middle of every *)
(* update, rescue or repair: nmbm_update_info_table_once and               *)
(* nmbm_rescue_main_info_table never touch the last good copy.  Stated     *)
(* until the driver goes astray: a table written over a mapped block is    *)
(* refused by nmbm_check_info_table.                                       *)
TableSurvives ==
    seen.made /\ ~OneTable /\ ~seen.astray =>
        Signatures # {} /\ Tables(Highest(Signatures)) # {}

(* While the driver serves requests, what it acknowledged can be read back *)
(* where the mapping table says, across any number of failed blocks,       *)
(* remaps and power cuts, with these exceptions.  The client or the flash  *)
(* ended it (want is "any"): a page whose write or correction failed, a    *)
(* block whose erase failed or that was in hand when the power went.  The  *)
(* driver gave it up (lost): the pages from the first one that             *)
(* bbt_nand_copy could not copy, a block copied to one that was not        *)
(* erased, a page written there, a block that mtk_bmt_debug_mark_good      *)
(* moved, or one that the power cut in the middle of mtk_bmt_debug_repair. *)
(* And it is stated until nmbm_map_block passes a bad spare block or       *)
(* unmap_block_nmbm leaves the data area (astray): from then on two        *)
(* logical blocks may have the same block.                                 *)
DataIntact ==
    pc = "idle" /\ ~seen.astray =>
        \A l \in Served : \A p \in PageNos \ lost[l] :
            want[l][p] \in {"any", Contents(ni.map[l])[p]}

(* Tables are never written over a mapped block or the signature, and a    *)
(* remapped block never takes the place of a table or of another block,    *)
(* until nmbm_map_block or unmap_block_nmbm goes astray.                   *)
Exclusive ==
    ~seen.astray =>
    /\ pc \in {"write", "clean"} /\ wr.site # "sig" /\ Usable # {} /\ ~wr.erased =>
        Target \notin {ni.sig} \union {ni.map[l] : l \in Served}
    /\ ctx # "create" /\ ni.up =>
        \A l \in Served :
            /\ ni.map[l] \notin {ni.main, ni.backup, ni.sig} \ {0}
            /\ \A k \in Served \ {l} : ni.map[k] # ni.map[l]

=============================================================================
