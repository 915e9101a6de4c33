---------------------------- MODULE CactiConfig ----------------------------
(* How CACTI is configured (cacti-master/io.cc): parse_cfg reads a file line *)
(* by line and keeps what an option says in a field of g_ip, or one of three *)
(* cacti_interface functions copies its arguments there; error_checking then *)
(* decides, on what is in g_ip by then, whether there is anything to model.  *)
(* A line is an option with the word between its quotes, or "", and the      *)
(* number after it.  The five numbers of a list of weights count as one.     *)
EXTENDS Integers, Sequences, SequencesExt

CONSTANTS
  BaseFiles,     \* the lines that a file starts with
  Lines,         \* the lines that may follow
  MaxLines,      \* bound: how many of them do
  Arguments,     \* what the functions with many parameters are called with
  IsPrefixOf     \* pairs of words of which one begins with the other
ASSUME ConfigAssumption == MaxLines \in Nat

VARIABLES
  front,     \* "infile", or the function: "cacti3dd", "nuca", "mcpat"
  given,     \* the lines after the first that have been read
  g_ip,      \* the fields that have a value
  temp_var,  \* the word read last, <<>> before the first
  verdict    \* "reading", "checking", "accepted", "rejected", "crashed", "exit"
configVars == <<front, given, g_ip, temp_var, verdict>>

Table(S) == [o \in {p[1] : p \in S} |-> (CHOOSE p \in S : p[1] = o)[2]]
Only(g, fields) == [f \in fields |-> g[f]]

(* -------------------------------- Numbers -------------------------------- *)

ArrayNumbers == Table({
  <<"-size", "cache_sz">>, <<"-page size", "page_sz_bits">>,
  <<"-burst length", "burst_len">>, <<"-internal prefetch width", "int_prefetch_w">>,
  <<"-block size", "line_sz">>, <<"-associativity", "assoc">>,
  <<"-read-write port", "num_rw_ports">>, <<"-exclusive read port", "num_rd_ports">>,
  <<"-exclusive write port", "num_wr_ports">>,
  <<"-search port", "num_search_ports">>, <<"-UCA bank count", "nbanks">>,
  <<"-technology", "F_sz_nm">>, <<"-output/input bus width", "out_w">>,
  <<"-operating temperature", "temp">>})
StackNumbers == Table({
  <<"-burst depth", "burst_depth">>, <<"-IO width", "io_width">>,
  <<"-system frequency", "sys_freq_MHz">>, <<"-stacked die", "num_die_3d">>,
  <<"-partitioning granularity", "partition_gran">>,
  <<"-TSV projection", "TSV_proj_type">>})
WeightNumbers == Table({
  <<"-design objective", "wt">>, <<"-deviate", "dev">>,
  <<"-NUCAdesign objective", "wt_nuca">>, <<"-NUCAdeviate", "dev_nuca">>})
CoreNumbers == Table({
  <<"-Core count", "cores">>, <<"-Power Gating Performance Loss", "perfloss">>,
  <<"-Ndbl", "ndbl">>, <<"-Ndwl", "ndwl">>, <<"-Nspd", "nspd">>,
  <<"-Ndsam1", "ndsam1">>, <<"-Ndsam2", "ndsam2">>, <<"-Ndcm", "ndcm">>})
BusNumbers == Table({
  <<"-addr_timing", "addr_timing">>, <<"-bus_bw", "bus_bw">>,
  <<"-duty_cycle", "duty_cycle">>, <<"-mem_density", "mem_density">>,
  <<"-activity_dq", "activity_dq">>, <<"-activity_ca", "activity_ca">>,
  <<"-bus_freq", "bus_freq">>, <<"-num_dq", "num_dq">>, <<"-num_dqs", "num_dqs">>,
  <<"-num_ca", "num_ca">>, <<"-num_clk", "num_clk">>,
  <<"-num_mem_dq", "num_mem_dq">>, <<"-mem_data_width", "mem_data_width">>})
MemCadNumbers == Table({
  <<"-num_bobs", "num_bobs">>, <<"-capacity", "capacity">>,
  <<"-num_channels_per_bob", "num_channels_per_bob">>, <<"-load", "load">>,
  <<"-row_buffer_hit_rate", "row_buffer_hit_rate">>,
  <<"-rd_2_wr_ratio", "rd_2_wr_ratio">>})
Numbers == ArrayNumbers @@ StackNumbers @@ WeightNumbers @@ CoreNumbers
           @@ BusNumbers @@ MemCadNumbers

(* --------------------------------- Words --------------------------------- *)

\* The words that are tried, in turn, and what is taken for any other: <<value>>,
\* or nothing, and the program ends.
Exit == <<>>
Choice(field, tests, otherwise) ==
  [field |-> field, tests |-> tests, otherwise |-> otherwise]
Flag(field) == Choice(field, <<<<"true", TRUE>>>>, <<FALSE>>)
TorF(field) == Choice(field, <<<<"T", TRUE>>, <<"F", FALSE>>>>, Exit)

PeripheralTypes == <<<<"itrs-hp", 0>>, <<"itrs-lstp", 1>>, <<"itrs-lop", 2>>>>
CellTypes == PeripheralTypes \o <<<<"lp-dram", 3>>, <<"comm-dram", 4>>>>
ArrayWords == Table({
  <<"-print option", Choice("print_detail_debug", <<<<"debug detail", TRUE>>>>, <<FALSE>>)>>,
  <<"-access mode", Choice("access_mode",
     <<<<"fast", 2>>, <<"sequential", 1>>, <<"normal", 0>>>>, Exit)>>,
  <<"-Data array cell type", Choice("data_arr_ram_cell_tech_type", CellTypes, Exit)>>,
  <<"-Data array peripheral type",
    Choice("data_arr_peri_global_tech_type", PeripheralTypes, Exit)>>,
  <<"-Tag array cell type", Choice("tag_arr_ram_cell_tech_type", CellTypes, Exit)>>,
  <<"-Tag array peripheral type",
    Choice("tag_arr_peri_global_tech_type", PeripheralTypes, Exit)>>})
EdTestsShortFirst == <<<<"ED", 1>>, <<"ED^2", 2>>>>
EdTests == <<<<"ED^2", 2>>, <<"ED", 1>>>>
ModelWords == Table({
  <<"-Optimize", Choice("ed", EdTests, <<0>>)>>,
  <<"-Cache model", Choice("nuca", <<<<"UCA", 0>>>>, <<1>>)>>,
  <<"-Wire inside mat", Choice("wire_is_mat_type", <<<<"global", 2>>, <<"local", 0>>>>, <<1>>)>>,
  <<"-Wire outside mat", Choice("wire_os_mat_type", <<<<"global", 2>>>>, <<1>>)>>,
  <<"-Interconnect projection", Choice("ic_proj_type", <<<<"aggressive", 0>>>>, <<1>>)>>,
  <<"-Cache level", Choice("cache_level", <<<<"L2", 0>>>>, <<1>>)>>,
  <<"-Print level", Choice("print_detail", <<<<"DETAILED", 1>>>>, <<0>>)>>})
\* force_wiretype and wt.
Forced(words) == [i \in DOMAIN words |-> <<words[i], <<1, words[i]>>>>]
WireWords == Table({<<"-Wire signaling", Choice("wiretype",
  <<<<"default", <<0, "Global">>>>>>
    \o Forced(<<"Global_10", "Global_20", "Global_30", "Global_5", "Global",
                "fullswing", "lowswing">>), Exit)>>})
GatingWords == Table({
  <<"-Add ECC", Flag("add_ecc_b_")>>, <<"-CLDriver vertical", Flag("cl_vertical")>>,
  <<"-Array Power Gating", Flag("array_power_gated")>>,
  <<"-Bitline floating", Flag("bitline_floating")>>,
  <<"-WL Power Gating", Flag("wl_power_gated")>>,
  <<"-CL Power Gating", Flag("cl_power_gated")>>,
  <<"-Interconnect Power Gating", Flag("interconect_power_gated")>>,
  <<"-Print input parameters", Flag("print_input_args")>>,
  <<"-Force cache config", Flag("force_cache_config")>>})
\* Words that stand for themselves.
Named(words) == [i \in DOMAIN words |-> <<words[i], words[i]>>]
BusWords == Table({
  <<"-dram type", Choice("io_type",
     Named(<<"DDR3", "DDR4", "LPDDR2", "WideIO", "Low_Swing_Diff", "Serial">>), Exit)>>,
  <<"-io state", Choice("iostate", Named(<<"READ", "WRITE", "IDLE", "SLEEP">>), Exit)>>,
  <<"-dram ecc", Choice("dram_ecc", Named(<<"NO_ECC", "SECDED", "CHIP_KILL">>), Exit)>>,
  <<"-dram dimm", Choice("dram_dimm", Named(<<"UDIMM", "RDIMM", "LRDIMM">>), Exit)>>})
Metric(field) == Choice(field, Named(<<"Cost", "Energy", "Bandwidth">>), Exit)
MemCadWords == Table({
  <<"-first metric", Metric("first_metric")>>,
  <<"-second metric", Metric("second_metric")>>,
  <<"-third metric", Metric("third_metric")>>,
  <<"-DIMM model", Choice("dimm_model",
     Named(<<"JUST_UDIMM", "JUST_RDIMM", "JUST_LRDIMM", "ALL">>), Exit)>>,
  <<"-Low Power Permitted", TorF("low_power_permitted")>>,
  <<"-same_bw_in_bob", TorF("same_bw_in_bob")>>,
  <<"-mirror_in_bob", TorF("mirror_in_bob")>>,
  <<"-total_power", TorF("total_power")>>, <<"-verbose", TorF("verbose")>>})
Words == ArrayWords @@ ModelWords @@ WireWords @@ GatingWords @@ BusWords @@ MemCadWords

(* ------------------------------- A line ---------------------------------- *)

\* strncmp with the length of the test: a word matches what it begins with.
Matches(test, word) == test[1] = word \/ <<test[1], word>> \in IsPrefixOf
Taken(choice, word) ==
  LET hits == {i \in DOMAIN choice.tests : Matches(choice.tests[i], word)}
  IN IF hits = {} THEN choice.otherwise
     ELSE <<choice.tests[CHOOSE i \in hits : \A j \in hits : i <= j][2]>>

CacheType(word) ==
  LET main == word \in {"main memory", "3D memory or 2D main memory"}
  IN [is_cache |-> word = "cache", is_main_mem |-> main, pure_cam |-> word = "cam",
      is_3d_mem |-> word = "3D memory or 2D main memory",
      pure_ram |-> word = "ram" \/ main]

\* A width that is a number leaves temp_var alone, and is compared with
\* "default" all the same: the word of some line before it decides.
TagSize(l, default) ==
  IF default THEN [specific_tag |-> FALSE, tag_w |-> 42]
  ELSE IF l.word = "" THEN [specific_tag |-> TRUE, tag_w |-> l.number]
  ELSE [specific_tag |-> TRUE]
IsDefault(word) == IF word = <<>> THEN BOOLEAN ELSE {word = <<"default">>}

Refused(l) ==
  \/ l.option \in DOMAIN Words /\ Taken(Words[l.option], l.word) = Exit
  \/ l.option = "-num_clk" /\ l.number <= 0

\* Any other option is passed over.  So is -single ended read ports: its format
\* takes "ended" for the name and finds no number in "read ports".
Options == DOMAIN Numbers \cup DOMAIN Words
           \cup {"-NUCA bank count", "-cache type", "-tag size"}
Early == DOMAIN ArrayNumbers \cup DOMAIN StackNumbers
         \cup {"-cache type", "-print option", "-single ended read ports"}
Assigned(l, default) ==
  CASE l.option \in DOMAIN Numbers -> Numbers[l.option] :> l.number
    [] l.option \in DOMAIN Words ->
         Words[l.option].field :> Head(Taken(Words[l.option], l.word))
    [] l.option = "-NUCA bank count" ->
         IF l.number = 0 THEN [nuca_bank_count |-> 0]
         ELSE [nuca_bank_count |-> l.number, force_nuca_bank |-> 1]
    [] l.option = "-cache type" -> CacheType(l.word)
    [] l.option = "-tag size" -> TagSize(l, default)
    [] OTHER -> <<>>
TierSpread(l) ==
  IF l.option \in Early THEN <<>> ELSE [num_tier_row_sprd |-> 1, num_tier_col_sprd |-> 1]
NextWord(l) == IF l.word # "" /\ l.option \in Options THEN <<l.word>> ELSE temp_var

\* The constructor sets these and no others.
NewInput == [f \in {"array_power_gated", "bitline_floating", "wl_power_gated",
                    "cl_power_gated", "interconect_power_gated", "power_gating"} |-> FALSE]
            @@ [cl_vertical |-> TRUE]
AfterBase(lines) ==
  FoldLeft(LAMBDA g, l : Assigned(l, l.word = "default") @@ TierSpread(l) @@ g,
           NewInput, lines)
ConfigInit ==
  /\ given = <<>> /\ verdict = "reading"
  /\ \/ /\ front = "infile"
        /\ \E base \in BaseFiles : /\ g_ip = AfterBase(base)
                                   /\ temp_var = <<base[Len(base)].word>>
     \/ /\ front \in {"cacti3dd", "nuca", "mcpat"}
        /\ g_ip = NewInput /\ temp_var = <<>>

ReadLine ==
  /\ front = "infile" /\ verdict = "reading" /\ Len(given) < MaxLines
  /\ \E l \in Lines :
       /\ given' = Append(given, l)
       /\ temp_var' = NextWord(l)
       /\ IF Refused(l) THEN verdict' = "exit" /\ UNCHANGED g_ip
          ELSE \E default \in IsDefault(NextWord(l)) :
                 /\ g_ip' = Assigned(l, default) @@ TierSpread(l) @@ g_ip
                 /\ UNCHANGED verdict
  /\ UNCHANGED front

EndOfFile ==
  /\ front = "infile" /\ verdict = "reading"
  /\ g_ip' = [rpters_in_htree |-> TRUE] @@ g_ip
  /\ verdict' = "checking"
  /\ UNCHANGED <<front, given, temp_var>>

(* ----------------------- The functions with parameters ------------------- *)

CopiedByAll ==
  {"data_arr_ram_cell_tech_type", "data_arr_peri_global_tech_type",
   "tag_arr_ram_cell_tech_type", "tag_arr_peri_global_tech_type", "ic_proj_type",
   "wire_is_mat_type", "wire_os_mat_type", "burst_len", "int_prefetch_w",
   "page_sz_bits", "cache_sz", "line_sz", "assoc", "nbanks", "out_w", "specific_tag",
   "access_mode", "wt", "dev", "temp", "ed", "F_sz_nm", "num_rw_ports",
   "num_rd_ports", "num_wr_ports", "num_se_rd_ports", "rpters_in_htree"}
TagWidth(specific, width) == [tag_w |-> IF specific THEN width ELSE 42]
MainMem(a) == [is_main_mem |-> a.main_mem # 0, print_detail |-> 1, nuca |-> 0]

\* The wire type stays unset for a number that is none of these.
WireByDelay == Table({<<10, "Global_10">>, <<20, "Global_20">>, <<30, "Global_30">>,
                      <<5, "Global_5">>, <<0, "Low_swing">>})
WireOf(a) ==
  IF a.force_wiretype = 0 THEN [wiretype |-> <<0, "Global">>]
  ELSE IF a.wire \in DOMAIN WireByDelay THEN [wiretype |-> <<1, WireByDelay[a.wire]>>]
  ELSE <<>>
Partition == {"ndwl", "ndbl", "nspd", "ndcm", "ndsam1", "ndsam2"}
Plain(a) ==
  [is_cache |-> a.cache = 1, pure_ram |-> a.cache = 0, pure_cam |-> a.cache = 2,
   force_cache_config |-> a.force_config # 0, add_ecc_b_ |-> a.ecc # 0]
  @@ Only(a, {"num_search_ports", "ver_htree_wires_over_array",
              "broadcast_addr_din_over_ver_htrees"})
  @@ (IF a.force_config = 0 THEN <<>> ELSE Only(a, Partition))
  @@ WireOf(a) @@ TagWidth(a.specific_tag # 0, a.tag_width)
ForStacks(a) ==
  Only(a, {"num_die_3d", "is_3d_mem", "burst_depth", "io_width", "sys_freq_MHz",
           "print_detail_debug", "tsv_is_subarray_type", "tsv_os_bank_type",
           "partition_gran", "num_tier_row_sprd", "num_tier_col_sprd"})
  @@ [fine_gran_bank_lvl |-> a.partition_gran = 3]

\* The wire type and is_nuca are looked at, and then overwritten.
ForNuca(a) ==
  [is_cache |-> a.cache # 0, add_ecc_b_ |-> TRUE, force_cache_config |-> FALSE,
   wiretype |-> <<0, "Global_5">>, wt_nuca |-> a.wt_nuca,
   dev_nuca |-> [a.dev_nuca EXCEPT !.delay = a.dev.delay]]
  @@ (IF a.nuca_bank_count > 0 THEN [force_nuca_bank |-> 1] ELSE <<>>)
  @@ Only(a, {"nuca_bank_count", "cores", "cache_level", "print_input_args"})
  @@ TagWidth(a.tag_width # 0, a.tag_width)

FromArguments ==
  /\ front # "infile" /\ verdict = "reading"
  /\ \E a \in Arguments :
       LET common == Only(a, CopiedByAll) @@ MainMem(a) @@ g_ip
       IN /\ \/ front = "cacti3dd" /\ g_ip' = Plain(a) @@ ForStacks(a) @@ common
             \/ front = "mcpat" /\ g_ip' = Plain(a) @@ common
             \/ front = "nuca" /\ g_ip' = ForNuca(a) @@ common
          /\ verdict' = IF front = "nuca" /\ a.wire \notin 0 .. 6 THEN "exit"
                        ELSE "checking"
  /\ UNCHANGED <<front, given, temp_var>>

(* ------------------------------ error_checking --------------------------- *)

ReadByCheck ==
  {"access_mode", "is_main_mem", "ic_proj_type", "is_3d_mem", "line_sz", "out_w",
   "F_sz_nm", "num_rw_ports", "num_rd_ports", "num_wr_ports", "num_se_rd_ports",
   "num_search_ports", "nbanks", "cache_sz", "is_cache", "assoc", "pure_cam",
   "data_arr_ram_cell_tech_type", "tag_arr_ram_cell_tech_type",
   "data_arr_peri_global_tech_type", "tag_arr_peri_global_tech_type", "temp"}
\* A field that nobody has set holds anything.
Flags == {"is_3d_mem", "is_main_mem", "is_cache", "pure_cam"}
Missing == ReadByCheck \ DOMAIN g_ip
Filled == {flags @@ numbers @@ g_ip : flags \in [Missing \cap Flags -> BOOLEAN],
                                      numbers \in [Missing \ Flags -> {0, 1}]}

IsPow2(n) == \E k \in 0 .. 30 : n = 2 ^ k
BankOfAll(g) == g.cache_sz
Bank(g) == g.cache_sz \div g.nbanks
Full(g) == g.is_cache /\ g.assoc = 0
Cam(g) == Full(g) \/ g.pure_cam
Ways(g) == IF g.assoc = 0 THEN Bank(g) \div g.line_sz ELSE g.assoc
Sets(g) == Bank(g) \div (g.line_sz * Ways(g))

RefusedFirst(g) ==
  \/ g.is_main_mem /\ g.ic_proj_type = 0 /\ ~g.is_3d_mem
  \/ g.line_sz < 1 \/ g.line_sz * 8 < g.out_w
  \/ g.F_sz_nm \notin 1 .. 91
  \/ g.num_rw_ports + g.num_rd_ports + g.num_wr_ports < 1
  \/ ~IsPow2(g.nbanks)
  \/ Bank(g) < 64 /\ ~g.is_3d_mem
  \/ g.pure_cam /\ g.assoc # 0
  \/ g.assoc = 0 /\ ~g.pure_cam /\ ~g.is_cache
  \/ g.assoc > 1 /\ ~IsPow2(g.assoc)
CamRefused(g) ==
  /\ Cam(g)
  /\ \/ g.data_arr_ram_cell_tech_type # g.tag_arr_ram_cell_tech_type
     \/ g.data_arr_peri_global_tech_type # g.tag_arr_peri_global_tech_type
     \/ g.data_arr_ram_cell_tech_type \in {3, 4}
     \/ g.is_main_mem
     \/ g.num_search_ports < 1
\* The sets are counted before it is asked whether there are any: a fully
\* associative cache smaller than its block divides by zero.
Crashes(g) == g.line_sz * Ways(g) = 0
RefusedLast(g) ==
  \/ Sets(g) <= 1 /\ g.assoc # 0 /\ ~g.is_3d_mem
  \/ g.temp \notin 300 .. 400 \/ g.temp % 10 # 0
  \/ Sets(g) < 1 /\ ~g.is_3d_mem

Derived(g) ==
  [fully_assoc |-> Full(g), fast_access |-> g.access_mode \notin {0, 1},
   is_seq_acc |-> g.access_mode = 1, block_sz |-> g.line_sz, tag_assoc |-> Ways(g),
   data_assoc |-> IF g.access_mode = 1 \/ g.assoc = 0 THEN 1 ELSE Ways(g),
   num_rd_ports |-> IF Cam(g) /\ g.num_rw_ports = 0 /\ g.num_rd_ports = 0
                    THEN g.num_search_ports ELSE g.num_rd_ports,
   num_search_ports |-> IF Cam(g) THEN g.num_search_ports ELSE 0,
   nsets |-> Sets(g),
   power_gating |-> g.array_power_gated \/ g.bitline_floating \/ g.wl_power_gated
                    \/ g.cl_power_gated \/ g.interconect_power_gated]

ErrorChecking ==
  /\ verdict = "checking"
  /\ \E g \in Filled :
       IF RefusedFirst(g) \/ CamRefused(g) THEN verdict' = "rejected" /\ g_ip' = g
       ELSE IF Crashes(g) THEN verdict' = "crashed" /\ g_ip' = g
       ELSE IF RefusedLast(g) THEN verdict' = "rejected" /\ g_ip' = g
       ELSE verdict' = "accepted" /\ g_ip' = Derived(g) @@ g
  /\ UNCHANGED <<front, given, temp_var>>

ConfigNext == ReadLine \/ EndOfFile \/ FromArguments \/ ErrorChecking

(* ------------------------------- Properties ------------------------------ *)

\* The word for the option, whatever other words begin with it.
Meaning(choice, word) ==
  LET same == {i \in DOMAIN choice.tests : choice.tests[i][1] = word}
  IN IF same = {} THEN choice.otherwise
     ELSE <<choice.tests[CHOOSE i \in same : TRUE][2]>>
WordBefore(i) == {j \in 1 .. i - 1 : given[j].word # "" /\ given[j].option \in Options}
NoneLater(i) == \A j \in i + 1 .. Len(given) : given[j].option # given[i].option

\* What a file says of an option last is what is checked and modelled: a number
\* is kept, and a word is taken for itself and not for a shorter word that is
\* tried before it.  Of the options it is about, only a tag width that follows
\* another option's "default" is lost; the number of single-ended read ports,
\* which is lost always, is left to CheckIsSound.
MeansWhatItSays ==
  verdict \in {"reading", "checking"} =>
    \A i \in DOMAIN given : LET l == given[i] IN NoneLater(i) =>
      /\ l.option \in DOMAIN Numbers => g_ip[Numbers[l.option]] = l.number
      /\ l.option \in DOMAIN Words =>
           <<g_ip[Words[l.option].field]>> = Meaning(Words[l.option], l.word)
      /\ l.option = "-tag size" =>
           \/ l.word = "default" /\ ~g_ip.specific_tag
           \/ l.word = "" /\ g_ip.specific_tag /\ g_ip.tag_w = l.number
           \/ \E j \in WordBefore(i) : given[j].word = "default"

\* The function of CACTI-3DD sets all that error_checking reads, and a complete
\* file all but the single-ended ports; McPAT's and the one with the NUCA
\* parameters leave to chance whether the memory is stacked, and the latter
\* whether it is a CAM.
ChecksWhatIsSet ==
  verdict = "checking" =>
    Missing = CASE front = "infile" -> {"num_se_rd_ports"}
                [] front = "mcpat" -> {"is_3d_mem"}
                [] front = "nuca" -> {"is_3d_mem", "pure_cam", "num_search_ports"}
                [] OTHER -> {}

\* What is accepted fits: the sets of all banks are not more than the memory,
\* a CAM has one and everything else but a stacked memory two or more, and
\* there is a port to search a CAM by and a port to access anything by.
AcceptedFits ==
  verdict = "accepted" =>
    /\ g_ip.nbanks * g_ip.nsets * g_ip.tag_assoc * g_ip.block_sz <= g_ip.cache_sz
    /\ g_ip.assoc = 0 => g_ip.nsets = 1 /\ g_ip.num_search_ports >= 1
    /\ g_ip.assoc # 0 /\ ~g_ip.is_3d_mem => g_ip.nsets >= 2
    /\ g_ip.num_rw_ports + g_ip.num_rd_ports + g_ip.num_wr_ports >= 1

\* error_checking decides on what is set, and what it lets pass can be built.
CheckIsSound == ChecksWhatIsSet /\ AcceptedFits
=============================================================================
