--------------------------- MODULE ArrayPartition ---------------------------
(* How CACTI cuts a memory into subarrays (DynamicParameter, parameter.cc):   *)
(* for one way to cut it, the subarrays and mats there are, the mats that an  *)
(* access activates and the bits that they take and give, or that the cut is  *)
(* of no use.  What remains to be found of a cut that is, delay, area and     *)
(* power, is real arithmetic and left out.                                    *)
EXTENDS Integers, FiniteSets

CONSTANTS
  Inputs,        \* what error_checking has accepted, with what it derived
  Cuts,          \* [Ndwl, Ndbl, Nspd in eighths, Ndcm, Ndsam_lev_1, Ndsam_lev_2]
  MINSUBARRAYROWS, MAXSUBARRAYROWS, MINSUBARRAYCOLS, MAXSUBARRAYCOLS,
  SensedRows,    \* per DRAM cell type: with more on a bitline it is not sensed
  Giga           \* bits in the unit that a stacked memory is given in
\* Of what is checked the tags of a cache of sets and its data are cut on their own; a
\* stacked memory has a row at least for each subarray, and sizes are ints.
ASSUME PartitionAssumption ==
  /\ {MINSUBARRAYROWS, MAXSUBARRAYROWS, MINSUBARRAYCOLS, MAXSUBARRAYCOLS, Giga} \subseteq Nat \ {0}
  /\ \A g \in Inputs :
       /\ {g.cache_sz, g.nbanks, g.block_sz, g.tag_assoc, g.data_assoc, g.tag_w} \subseteq Nat \ {0}
       /\ g.cache_sz \div 2 ^ 30 <= 1 /\ (2 * g.tag_assoc - 1) \div 2 ^ 30 <= 1
       /\ ~(g.is_cache /\ g.pure_cam)
       /\ g.is_3d_mem =>
            LET bits == (Giga \div (g.num_die_3d * g.nbanks)) * g.cache_sz
            IN /\ ~g.fully_assoc /\ ~g.pure_cam
               /\ {g.page_sz_bits, g.num_die_3d} \subseteq Nat \ {0}
               /\ bits \div 2 ^ 30 <= 1
               /\ \A c \in Cuts : g.page_sz_bits * c.Ndbl <= bits
  /\ \A c \in Cuts : /\ {c.Ndwl, c.Ndbl} \subseteq {1, 2, 4, 8, 16, 32, 64, 128, 256, 512}
                    /\ c.Nspd \in Nat \ {0}

VARIABLES
  input, is_tag, cut,
  dyn            \* the DynamicParameter, <<>> before it is constructed
partitionVars == <<input, is_tag, cut, dyn>>

CeilDiv(a, b) == (a + b - 1) \div b
UpTo(n, unit) == unit * CeilDiv(n, unit)
Log2(n) == CHOOSE k \in 0 .. 30 : n \div 2 ^ k = 1
CeilLog2(n) == IF n = 2 ^ Log2(n) THEN Log2(n) ELSE Log2(n) + 1
AtLeast1(n) == IF n < 1 THEN 1 ELSE n
NotValid == [is_valid |-> FALSE]

ADDRESS_BITS == 42
EXTRA_TAG_BITS == 5
AddressAndExtra == ADDRESS_BITS + EXTRA_TAG_BITS
Fits(rows, cols) == /\ rows \in 1 .. MAXSUBARRAYROWS
                    /\ cols \in MINSUBARRAYCOLS .. MAXSUBARRAYCOLS
Ports(g) == [f \in {"num_rw_ports", "num_rd_ports", "num_wr_ports", "num_search_ports"}
               |-> g[f]]
WaySelects(g) == IF ~is_tag /\ g.data_assoc > 1 /\ ~g.fast_access THEN g.data_assoc ELSE 0

\* One bit more for every eight, for all data that travels on an H-tree.
OnHtrees == {"num_do_b_mat", "num_di_b_mat", "num_do_b_subbank", "num_di_b_subbank",
             "num_do_b_bank_per_port", "num_di_b_bank_per_port", "num_so_b_mat",
             "num_si_b_mat", "num_so_b_subbank", "num_si_b_subbank",
             "num_so_b_bank_per_port", "num_si_b_bank_per_port"}
ECC_adjustment(d) ==
  [f \in DOMAIN d |-> IF f \in OnHtrees THEN d[f] + CeilDiv(d[f], 8) ELSE d[f]]
Protected(g, d) == IF g.add_ecc_b_ THEN ECC_adjustment(d) ELSE d

(* ------------------- CAMs and fully associative caches ------------------- *)

Fixed == /\ cut.Ndwl = 1 /\ cut.Ndcm = 1 /\ cut.Nspd = 8
         /\ cut.Ndsam_lev_1 = 1 /\ cut.Ndsam_lev_2 = 1 /\ cut.Ndbl >= 2

\* Mats of four subarrays, in a square as far as whole numbers allow.
Root(n) == CHOOSE h \in 1 .. n : h * h <= n /\ n < (h + 1) * (h + 1)
Mats == IF cut.Ndbl = 2 THEN <<1, 1>>
        ELSE LET h == Root(cut.Ndbl \div 4) IN <<h, (cut.Ndbl \div 4) \div h>>

CamTagBits(g) == UpTo(IF g.specific_tag THEN g.tag_w ELSE AddressAndExtra, 8)
FaTagBits(g) ==
  UpTo(IF g.specific_tag THEN g.tag_w ELSE AddressAndExtra - Log2(g.block_sz), 4)

\* What the two have in common: the mats, of which one is read or written.
Searched(g, rows) ==
  LET mats == Mats[1] * Mats[2]
  IN [is_valid |-> TRUE, num_r_subarray |-> rows, num_subarrays |-> cut.Ndbl,
      num_mats_h_dir |-> Mats[1], num_mats_v_dir |-> Mats[2], num_mats |-> mats,
      num_act_mats_hor_dir |-> 1, num_act_mats_hor_dir_sl |-> Mats[1],
      number_addr_bits_mat |-> Log2(rows) + Log2(cut.Ndbl \div mats),
      number_subbanks_decode |-> Log2(mats),
      number_way_select_signals_mat |-> WaySelects(g), ports |-> Ports(g)]
With(d, e) == [f \in DOMAIN d \cup DOMAIN e |-> IF f \in DOMAIN e THEN e[f] ELSE d[f]]

init_CAM(g) ==
  LET tagbits == CamTagBits(g)
      rows == CeilDiv(8 * g.cache_sz, g.nbanks * tagbits * cut.Ndbl)
      match == CeilLog2(rows) + CeilLog2(cut.Ndbl)
  IN IF ~Fixed \/ ~Fits(rows, tagbits) THEN NotValid
     ELSE Protected(g, With(Searched(g, rows),
       [tagbits |-> tagbits, num_so_b_mat |-> match, num_so_b_subbank |-> match,
        num_so_b_bank_per_port |-> match, num_do_b_mat |-> tagbits,
        num_do_b_subbank |-> tagbits, num_do_b_bank_per_port |-> tagbits,
        num_di_b_mat |-> tagbits, num_di_b_subbank |-> tagbits,
        num_di_b_bank_per_port |-> tagbits, num_si_b_mat |-> tagbits,
        num_si_b_subbank |-> tagbits, num_si_b_bank_per_port |-> tagbits]))

init_FA(g) ==
  LET tagbits == FaTagBits(g)
      rows == g.cache_sz \div (g.nbanks * g.block_sz * cut.Ndbl)
      line == 8 * g.block_sz
  IN IF ~Fixed \/ ~Fits(rows, tagbits) \/ ~Fits(rows, line) THEN NotValid
     ELSE Protected(g, With(Searched(g, rows),
       [tagbits |-> tagbits, num_so_b_mat |-> line, num_so_b_subbank |-> line,
        num_so_b_bank_per_port |-> g.out_w, num_do_b_mat |-> line + tagbits,
        num_do_b_subbank |-> line + tagbits,
        num_do_b_bank_per_port |-> g.out_w + tagbits,
        num_di_b_mat |-> line + tagbits, num_di_b_subbank |-> line + tagbits,
        num_di_b_bank_per_port |-> g.out_w + tagbits, num_si_b_mat |-> tagbits,
        num_si_b_subbank |-> tagbits, num_si_b_bank_per_port |-> tagbits]))

(* ---------------------------- All other arrays --------------------------- *)

CellType(g) == IF is_tag THEN g.tag_arr_ram_cell_tech_type
               ELSE g.data_arr_ram_cell_tech_type
IsDram(g) == CellType(g) \in {3, 4}
TagBits(g) ==
  IF ~is_tag THEN 0
  ELSE IF g.specific_tag THEN g.tag_w
  ELSE AddressAndExtra - Log2(g.cache_sz) + Log2(2 * g.tag_assoc - 1)

Stacked(g) == g.is_3d_mem /\ ~is_tag
Assoc(g) == IF is_tag THEN g.tag_assoc ELSE g.data_assoc
WidthOfSet(g) == IF is_tag THEN TagBits(g) * g.tag_assoc ELSE 8 * g.block_sz * g.data_assoc
Cols(g) == IF Stacked(g) THEN g.page_sz_bits \div cut.Ndwl
           ELSE CeilDiv(WidthOfSet(g) * cut.Nspd, 8 * cut.Ndwl)
Rows(g) ==
  IF Stacked(g)
  THEN 2 ^ Log2(((Giga \div (g.num_die_3d * g.nbanks)) * g.cache_sz)
                  \div (Cols(g) * cut.Ndbl * cut.Ndwl))
  ELSE CeilDiv(8 * g.cache_sz,
               g.nbanks * g.block_sz * Assoc(g) * cut.Ndbl * cut.Nspd)

calc_subarr_rc(g) ==
  /\ cut.Ndwl >= 2 /\ cut.Ndbl >= 2
  /\ ~(IsDram(g) /\ ~is_tag /\ cut.Ndcm > 1)
  /\ Rows(g) >= MINSUBARRAYROWS /\ Fits(Rows(g), Cols(g))

\* The charge of a DRAM cell on a bitline that is too long for it.
Sensed(g) ==
  IsDram(g) => \/ Rows(g) <= SensedRows[CellType(g)]
               \/ CellType(g) = 4 /\ g.is_3d_mem /\ g.force_cache_config

deg_bl_muxing(g) == IF IsDram(g) THEN 1 ELSE cut.Ndcm
Across == AtLeast1(cut.Ndwl \div 2)
Down == AtLeast1(cut.Ndbl \div 2)
SubarraysPerMat == (cut.Ndwl * cut.Ndbl) \div (Across * Down)
OutOfMat(g) ==
  AtLeast1((SubarraysPerMat * Cols(g))
             \div (deg_bl_muxing(g) * cut.Ndsam_lev_1 * cut.Ndsam_lev_2))

\* The bits that are read at once, and the choice between sense amplifiers that
\* is left to the address: reading one way, the way is the rest of the choice.
Asked(g) ==
  IF is_tag THEN TagBits(g) * g.tag_assoc
  ELSE IF g.is_main_mem
  THEN IF g.is_3d_mem THEN g.page_sz_bits ELSE g.int_prefetch_w * g.out_w
  ELSE IF g.fast_access THEN g.out_w * g.data_assoc ELSE g.out_w
OneWay(g) == ~is_tag /\ ~g.is_main_mem /\ ~g.fast_access
NonAssocAllWays(g) == cut.Ndsam_lev_1
NonAssoc(g) ==
  IF OneWay(g) THEN cut.Ndsam_lev_1 \div g.data_assoc ELSE cut.Ndsam_lev_1

ActiveMats(g) ==
  LET n == Asked(g) \div OutOfMat(g) IN IF g.is_3d_mem THEN AtLeast1(n) ELSE n
\* Of a tag array the bits that are read are the hits, one for a way.
Out(g) == IF is_tag THEN g.tag_assoc \div ActiveMats(g) ELSE OutOfMat(g)
OpenedBits(g) == ActiveMats(g) * Out(g) * cut.Ndsam_lev_1 * cut.Ndsam_lev_2

Useful(g) ==
  /\ OutOfMat(g) >= SubarraysPerMat
  /\ OneWay(g) => NonAssoc(g) >= 1
  /\ is_tag => OutOfMat(g) >= TagBits(g)
  /\ ActiveMats(g) # 0
  /\ ~g.is_cache /\ g.is_main_mem => OpenedBits(g) = g.page_sz_bits
  /\ ~is_tag /\ g.is_main_mem => OpenedBits(g) >= g.out_w * g.burst_len * g.data_assoc
  /\ ActiveMats(g) <= Across

Into(g) == IF is_tag THEN TagBits(g)
           ELSE IF g.fast_access THEN OutOfMat(g) \div g.data_assoc ELSE OutOfMat(g)
ColumnBits(g) ==
  Log2(deg_bl_muxing(g)) + Log2(NonAssoc(g)) + Log2(cut.Ndsam_lev_2)
\* A DRAM takes the row and then the column on the same wires.
AddressBits(g) ==
  LET row == Log2(Rows(g)) column == ColumnBits(g)
  IN IF IsDram(g) /\ g.is_main_mem THEN IF row > column THEN row ELSE column
     ELSE row + column

Addressed(g) ==
  [is_valid |-> TRUE, tagbits |-> TagBits(g), num_r_subarray |-> Rows(g),
   num_c_subarray |-> Cols(g), num_subarrays |-> cut.Ndwl * cut.Ndbl,
   num_mats_h_dir |-> Across, num_mats_v_dir |-> Down, num_mats |-> Across * Down,
   num_act_mats_hor_dir |-> ActiveMats(g), num_do_b_mat |-> Out(g),
   num_do_b_subbank |-> IF is_tag THEN ActiveMats(g) * Out(g) ELSE Asked(g),
   num_di_b_mat |-> Into(g), num_di_b_subbank |-> Into(g) * ActiveMats(g),
   num_di_b_bank_per_port |-> IF is_tag THEN TagBits(g) ELSE g.out_w + g.data_assoc,
   num_do_b_bank_per_port |-> IF is_tag THEN g.data_assoc ELSE g.out_w,
   number_addr_bits_mat |-> AddressBits(g),
   number_subbanks_decode |-> Log2((Across * Down) \div ActiveMats(g)),
   number_way_select_signals_mat |-> WaySelects(g), ports |-> Ports(g)]

Constructed(g) ==
  IF g.pure_cam THEN init_CAM(g)
  ELSE IF g.fully_assoc THEN init_FA(g)
  ELSE IF calc_subarr_rc(g) /\ Sensed(g) /\ Useful(g) THEN Protected(g, Addressed(g))
  ELSE NotValid

\* Tag and data are cut on their own; what is searched as a whole, and what is
\* no cache, has no array of tags.
PartitionInit == /\ input \in Inputs /\ cut \in Cuts /\ dyn = <<>>
                 /\ is_tag \in BOOLEAN
                 /\ is_tag => input.is_cache /\ ~input.fully_assoc
DynamicParameter ==
  dyn = <<>> /\ dyn' = Constructed(input) /\ UNCHANGED <<input, is_tag, cut>>
PartitionNext == DynamicParameter
PartitionSpec == PartitionInit /\ [][PartitionNext]_partitionVars

(* ------------------------------- Properties ------------------------------ *)

Searchable(g) == g.pure_cam \/ g.fully_assoc
InMats(g) == Searchable(g) => cut.Ndbl \notin {128, 512}
BankBits(g) ==
  IF Stacked(g) THEN (Giga \div (g.num_die_3d * g.nbanks)) * g.cache_sz
  ELSE IF is_tag THEN dyn.tagbits * (g.cache_sz \div (g.nbanks * g.block_sz))
  ELSE (8 * g.cache_sz) \div g.nbanks
Columns(g) == IF g.pure_cam THEN dyn.tagbits
              ELSE IF g.fully_assoc THEN 8 * g.block_sz ELSE dyn.num_c_subarray

\* A cut that is valid holds the bank that it cuts: its subarrays have a place
\* for every bit of the bank, and every subarray is in a mat, of four unless
\* there are but two.  Division loses less than one line in a subarray of a
\* fully associative cache, a power of two less than half of a stacked memory;
\* and the mats of what is searched are short of 128 or 512 subarrays, of which
\* no square of mats can be made.
HoldsTheBank ==
  dyn # <<>> /\ dyn.is_valid =>
    LET g == input
        places == dyn.num_r_subarray * Columns(g) * dyn.num_subarrays
    IN /\ CASE g.fully_assoc -> places + Columns(g) * dyn.num_subarrays > BankBits(g)
            [] Stacked(g) -> places > BankBits(g) \div 2
            [] OTHER -> places >= BankBits(g)
       /\ InMats(g) => 4 * dyn.num_mats >= dyn.num_subarrays

\* What the address says to the mats and to the decoder of the subbanks tells
\* apart every access there can be, each of the bits that the active mats give
\* in every way, and no more: every bit of a bank is read by one address, if
\* its rows are a power of two.  The active mats are of one row of mats.
EachBitHasAnAddress ==
  dyn # <<>> /\ dyn.is_valid /\ ~is_tag =>
    LET addresses == 2 ^ (dyn.number_addr_bits_mat + dyn.number_subbanks_decode)
        bits == IF Searchable(input) THEN Columns(input)
                ELSE dyn.num_act_mats_hor_dir * OutOfMat(input)
                       * (IF OneWay(input) THEN input.data_assoc ELSE 1)
        all == dyn.num_r_subarray * dyn.num_subarrays * Columns(input)
        DramMemory == IsDram(input) /\ input.is_main_mem
    IN /\ ~DramMemory /\ InMats(input) => addresses * bits <= all /\ all < 2 * addresses * bits
       /\ dyn.num_act_mats_hor_dir <= dyn.num_mats_h_dir

\* A cut that DynamicParameter finds valid loses no bit of the bank, neither its
\* place nor its address.
CutIsSound == HoldsTheBank /\ EachBitHasAnAddress
=============================================================================
