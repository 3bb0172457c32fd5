---------------------------- MODULE ZfspoolMetrics ----------------------------
(***************************************************************************)
(* The metrics of a pool: src/src/ganglia/zfspool_metrics.c, the table     *)
(* zfsmon_zpool_metrics of src/src/ganglia/zfspool_gmon.c, and the getters *)
(* of src/src/zfsmon.c they call.                                          *)
(*                                                                         *)
(* A reg function tells gmond a metric's name and which field of g_val_t   *)
(* its value is in (GANGLIA_VALUE_STRING: str, GANGLIA_VALUE_DOUBLE: d).   *)
(* A get function reads one property or statistic from the store and fills *)
(* one field.  Units, titles and the formats of numbers are left out.      *)
(***************************************************************************)
EXTENDS Integers, Sequences

(* The getters: what they read.  The first three may register the pool,    *)
(* as zfsmon_db_zpool_prop_get does; the last two do not.                  *)
zfsmon_zpool_prop_str(prop)    == [table |-> "props",  column |-> prop]
zfsmon_zpool_prop_double(prop) == [table |-> "props",  column |-> prop]
zfsmon_zpool_prop_uint64(prop) == [table |-> "props",  column |-> prop]
zfsmon_zpool_iostat_bw_rd      == [table |-> "iostat", column |-> "nread"]
zfsmon_zpool_iostat_bw_wr      == [table |-> "iostat", column |-> "nwritten"]

reg_health     == [name |-> "health",     type |-> "str"]
reg_size       == [name |-> "size",       type |-> "str"]
reg_free       == [name |-> "free",       type |-> "d"]
reg_allocated  == [name |-> "allocated",  type |-> "d"]
reg_capacity   == [name |-> "capacity",   type |-> "d"]
reg_dedupratio == [name |-> "dedupratio", type |-> "d"]
reg_iostat_rd  == [name |-> "rdbw",       type |-> "d"]
reg_iostat_wr  == [name |-> "wrbw",       type |-> "d"]

get_health     == [read |-> zfsmon_zpool_prop_str("health"),        field |-> "str"]
get_size       == [read |-> zfsmon_zpool_prop_uint64("size"),       field |-> "str"]
get_free       == [read |-> zfsmon_zpool_prop_uint64("free"),       field |-> "d"]
get_allocated  == [read |-> zfsmon_zpool_prop_uint64("allocated"),  field |-> "d"]
get_capacity   == [read |-> zfsmon_zpool_prop_double("capacity"),   field |-> "d"]
get_dedupratio == [read |-> zfsmon_zpool_prop_double("dedupratio"), field |-> "d"]
get_iostat_rd  == [read |-> zfsmon_zpool_iostat_bw_rd,              field |-> "d"]
get_iostat_wr  == [read |-> zfsmon_zpool_iostat_bw_wr,              field |-> "d"]

zfsmon_zpool_metrics ==
    <<[reg |-> reg_health,     get |-> get_health],
      [reg |-> reg_size,       get |-> get_size],
      [reg |-> reg_free,       get |-> get_free],
      [reg |-> reg_allocated,  get |-> get_allocated],
      [reg |-> reg_capacity,   get |-> get_capacity],
      [reg |-> reg_dedupratio, get |-> get_dedupratio],
      [reg |-> reg_iostat_rd,  get |-> get_iostat_rd],
      [reg |-> reg_iostat_wr,  get |-> get_iostat_wr]>>

ZFS_METRICS_CNT == Len(zfsmon_zpool_metrics)

Regs == {zfsmon_zpool_metrics[k].reg : k \in 1..ZFS_METRICS_CNT}
Gets == {zfsmon_zpool_metrics[k].get : k \in 1..ZFS_METRICS_CNT}

(* The get that belongs to what gmond was told: the column of the metric's *)
(* name, in the field of its type.                                         *)
Meant(reg) ==
    [read  |-> CASE reg.name = "rdbw" -> zfsmon_zpool_iostat_bw_rd
                 [] reg.name = "wrbw" -> zfsmon_zpool_iostat_bw_wr
                 [] OTHER -> [table |-> "props", column |-> reg.name],
     field |-> reg.type]
===============================================================================
