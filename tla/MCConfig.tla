------------------------------ MODULE MCConfig ------------------------------
(* Files and calls for CACTI: three complete files (a cache, a CAM, a stacked *)
(* DRAM) and two lines more out of one or two for every option.               *)
EXTENDS CactiConfig

N(o, n) == [option |-> o, word |-> "", number |-> n]
W(o, w) == [option |-> o, word |-> w, number |-> 0]
Common == <<
  N("-size", 4096), N("-block size", 64), N("-read-write port", 1),
  N("-exclusive read port", 0), N("-exclusive write port", 0),
  N("-single ended read ports", 0), N("-search port", 1), N("-UCA bank count", 2),
  N("-technology", 45), N("-output/input bus width", 512),
  N("-operating temperature", 360), W("-tag size", "default"),
  W("-access mode", "normal"), W("-Interconnect projection", "conservative"),
  W("-Data array cell type", "itrs-hp"), W("-Data array peripheral type", "itrs-hp"),
  W("-Tag array cell type", "itrs-hp"), W("-Tag array peripheral type", "itrs-hp")>>
MCBaseFiles == {Common \o more : more \in {
  <<N("-associativity", 2), W("-cache type", "cache")>>,
  <<N("-associativity", 0), W("-cache type", "cam")>>,
  <<N("-associativity", 1), W("-cache type", "3D memory or 2D main memory")>>}}

MCLines ==
  {N(o, 1) : o \in DOMAIN Numbers}
  \cup {N("-size", 64), N("-size", 100), N("-block size", 0), N("-block size", 128),
        N("-associativity", 0), N("-associativity", 3), N("-read-write port", 0),
        N("-UCA bank count", 3), N("-technology", 180), N("-num_clk", 0),
        N("-output/input bus width", 2048), N("-operating temperature", 345),
        N("-search port", 0), N("-NUCA bank count", 0), N("-NUCA bank count", 4),
        N("-tag size", 45), N("-exclusive read port", 2), N("-rtt_value", 10000)}
  \cup {W(o, Words[o].tests[1][1]) : o \in DOMAIN Words}
  \cup {W(o, "other") : o \in {"-Optimize", "-Add ECC", "-verbose"}}
  \cup {W("-Optimize", "ED"), W("-Optimize", "ED^2"),
        W("-Wire signaling", "Global"), W("-Wire signaling", "Global_10"),
        W("-Data array cell type", "comm-dram"),
        W("-cache type", "ram"), W("-cache type", "main memory"), W("-cache type", "cam"),
        W("-cache type", "cache"), W("-tag size", "default"), W("-io state", "WRITE"),
        W("-dram_type", "DDR3"), W("-access mode", "sequential")}
MCIsPrefixOf ==
  {<<"ED", "ED^2">>} \cup {<<"Global", "Global_" \o d>> : d \in {"5", "10", "20", "30"}}

Filler == [f \in CopiedByAll \cup Partition |-> 0]
MCArguments ==
  {[cache |-> c, main_mem |-> m, tag_width |-> t, specific_tag |-> t,
    force_wiretype |-> IF w = 0 THEN 0 ELSE 1, wire |-> w, force_config |-> m, ecc |-> m,
    assoc |-> a, line_sz |-> b, cache_sz |-> 256, nbanks |-> n, out_w |-> 64,
    temp |-> 360, F_sz_nm |-> 45, num_rw_ports |-> 1, num_search_ports |-> s,
    access_mode |-> 1, ic_proj_type |-> 1, ver_htree_wires_over_array |-> 1,
    broadcast_addr_din_over_ver_htrees |-> 1, num_die_3d |-> 4, is_3d_mem |-> m = 1,
    burst_depth |-> 8, io_width |-> 4, sys_freq_MHz |-> 677,
    print_detail_debug |-> FALSE, tsv_is_subarray_type |-> 0, tsv_os_bank_type |-> 1,
    partition_gran |-> 3, num_tier_row_sprd |-> 1, num_tier_col_sprd |-> 1,
    wt |-> 1, wt_nuca |-> 2, dev |-> [delay |-> 20, power |-> 10],
    dev_nuca |-> [delay |-> 30, power |-> 40], nuca_bank_count |-> t, cores |-> 8,
    cache_level |-> 1, print_input_args |-> TRUE] @@ Filler :
     c \in 0 .. 2, m \in 0 .. 1, t \in 0 .. 1, w \in {0, 5, 7, 10}, a \in {0, 1, 2},
     b \in {8, 32, 256}, n \in {1, 2}, s \in 0 .. 1}

MCConfigSpec == ConfigInit /\ [][ConfigNext]_configVars
=============================================================================
