---------------------------- MODULE MCPartition ----------------------------
(* Caches, CAMs and memories that error_checking accepts, and ways to cut    *)
(* them.                                                                     *)
EXTENDS MCConfig, ArrayPartition

Memory(type, size, block, ways, banks, width) ==
  CacheType(type) @@
  [cache_sz |-> size, line_sz |-> block, assoc |-> ways, nbanks |-> banks, out_w |-> width,
   F_sz_nm |-> 45, temp |-> 360, ic_proj_type |-> 1, access_mode |-> 0,
   num_rw_ports |-> 1, num_rd_ports |-> 0, num_wr_ports |-> 0, num_se_rd_ports |-> 0,
   num_search_ports |-> 1, specific_tag |-> FALSE, tag_w |-> 42, add_ecc_b_ |-> FALSE,
   data_arr_ram_cell_tech_type |-> 0, tag_arr_ram_cell_tech_type |-> 0,
   data_arr_peri_global_tech_type |-> 0, tag_arr_peri_global_tech_type |-> 0,
   page_sz_bits |-> 8192, int_prefetch_w |-> 8, burst_len |-> 8, num_die_3d |-> 1,
   force_cache_config |-> FALSE, array_power_gated |-> FALSE, bitline_floating |-> FALSE,
   wl_power_gated |-> FALSE, cl_power_gated |-> FALSE, interconect_power_gated |-> FALSE]
InAllModes(S) == {[access_mode |-> a] @@ g : a \in 0 .. 2, g \in S}
Memories ==
  InAllModes({Memory("cache", size, 64, ways, 2, 512) :
              size \in {65536, 98304}, ways \in {1, 8}})
  \cup {[add_ecc_b_ |-> TRUE, specific_tag |-> TRUE, tag_w |-> 26]
          @@ Memory("cache", 32768, 64, 4, 1, 64),
        [data_arr_ram_cell_tech_type |-> 3, access_mode |-> 1]
          @@ Memory("cache", 1048576, 64, 8, 1, 512)}
  \cup {[specific_tag |-> s] @@ Memory(t, size, 32, 0, 2, 64) :
          s \in BOOLEAN, t \in {"cache", "cam"}, size \in {32768, 40000}}
  \cup {Memory("ram", 65536, 64, 1, 2, 64),
        [data_arr_ram_cell_tech_type |-> 4]
          @@ Memory("main memory", 134217728, 64, 1, 8, 64)}
  \cup {[data_arr_ram_cell_tech_type |-> 4, num_die_3d |-> dies, force_cache_config |-> f,
         burst_len |-> 4]
          @@ Memory("3D memory or 2D main memory", size, 8, 1, 8, 64) :
          size \in {4, 6}, dies \in {1, 4}, f \in BOOLEAN}
\* Accepted g: error_checking goes to its end on it.
Accepted(g) == ~RefusedFirst(g) /\ ~CamRefused(g) /\ ~Crashes(g) /\ ~RefusedLast(g)
MCInputs == {Derived(g) @@ g : g \in {g \in Memories : Accepted(g)}}
MCCuts ==
  [Ndwl : {1, 2, 16}, Ndbl : {2, 8, 128}, Nspd : {4, 8, 64}, Ndcm : {1, 2},
   Ndsam_lev_1 : {1, 8}, Ndsam_lev_2 : {1, 2}]
MCSensedRows == 3 :> 256 @@ 4 :> 512
=============================================================================
