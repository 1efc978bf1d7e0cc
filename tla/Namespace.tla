----------------------------- MODULE Namespace -----------------------------
(***************************************************************************)
(* MVCP namespaces: tools/merlin-ns (ns.c and merlin-ns.c).  A namespace   *)
(* is a configuration file; it is created from scratch, created under a    *)
(* parent, or composed from two files, and it decides which programs may   *)
(* be loaded.                                                              *)
(*                                                                         *)
(* A permission bitset is the set of its bits; Cap is the number of bits,  *)
(* ids from there on are dropped when set and absent when tested.  A name, *)
(* the magic number and the reserved words are left out: a file is a whole *)
(* configuration, or one that merlin_ns_load refuses.                      *)
(***************************************************************************)
EXTENDS Integers, FiniteSets

CONSTANTS
    Paths,       \* the files
    Ids,         \* ids of attach types, helpers and kfuncs
    Cap,         \* bits of a permission bitset
    Limited,     \* the quotas that are ever set
    MaxQuota,    \* largest quota
    WordMod,     \* quotas and usage are integers modulo this (2^64)
    Amounts,     \* memory sizes and usage counts programs come with
    FlagSets,    \* the sets of flags namespaces are created with
    MaxWrites    \* bound on the files written

Kinds  == {"attach", "helper", "kfunc"}
Quotas == {"progs", "maps", "map_mem", "prog_mem"}

ASSUME NamespaceAssumption ==
    /\ Ids \subseteq Nat
    /\ Cap \in Nat /\ MaxQuota \in Nat /\ MaxWrites \in Nat
    /\ WordMod \in Nat \ {0}
    /\ Limited \subseteq Quotas
    /\ Amounts \subseteq Nat
    /\ FlagSets \subseteq SUBSET {"INHERIT", "SEALED"}

VARIABLES
    files,     \* what each path holds
    lineage,   \* the configurations a file was derived from
    writes     \* files written so far, for the bound

vars == <<files, lineage, writes>>

(* The three values a command reads or writes: no file, a file that        *)
(* merlin_ns_load refuses, and a configuration.                            *)
NoFile == [state |-> "none"]
Torn   == [state |-> "torn"]

Config == [state : {"ok"},
           permit : [Kinds -> SUBSET {i \in Ids : i < Cap}],
           quota : [Quotas -> 0 .. MaxQuota],    \* 0 is unlimited
           parent_ns_id : {0, 1},
           flags : FlagSets]

(* The command line of merlin-ns create.                                   *)
Args == [permit : [Kinds -> SUBSET Ids],
         quota : {q \in [Quotas -> 0 .. MaxQuota] :
                      \A d \in Quotas \ Limited : q[d] = 0},
         flags : FlagSets]

TypeOK ==
    /\ files \in [Paths -> {NoFile, Torn} \cup Config]
    /\ lineage \in [Paths -> SUBSET Config]
    /\ writes \in 0 .. MaxWrites

Init ==
    /\ files = [p \in Paths |-> NoFile]
    /\ lineage = [p \in Paths |-> {}]
    /\ writes = 0

-----------------------------------------------------------------------------
(* merlin_ns_compose.                                                      *)

bitset_subset(child, parent) == child \subseteq parent

(* The child asks for a bit the parent lacks, or for more than a finite    *)
(* quota of the parent.                                                    *)
Widens(child, parent) ==
    \/ \E k \in Kinds : ~bitset_subset(child.permit[k], parent.permit[k])
    \/ \E d \in Quotas :
           parent.quota[d] # 0 /\ child.quota[d] > parent.quota[d]

(* Mutant: an unlimited child stays unlimited under a limited parent.      *)
EffectiveQuota_ChildOnly(child, parent) == child.quota

(* A quota the child leaves unlimited is the parent's.                     *)
EffectiveQuota(child, parent) == [d \in Quotas |->
    IF parent.quota[d] # 0 /\ child.quota[d] = 0 THEN parent.quota[d]
    ELSE child.quota[d]]

merlin_ns_compose(child, parent) ==
    [child EXCEPT !.quota = EffectiveQuota(child, parent),
                  !.parent_ns_id = parent.parent_ns_id]

-----------------------------------------------------------------------------
(* merlin_ns_check: the first reason to refuse a program.                  *)

merlin_ns_bit_get(bits, i) == i < Cap /\ i \in bits

(* What a load adds to each quota; a program brings its own memory, and    *)
(* maps are compared without the one to come.                              *)
Adds(prog, d) ==
    CASE d = "progs" -> 1
      [] d = "maps" -> 0
      [] d = "map_mem" -> prog.map_mem
      [] d = "prog_mem" -> prog.prog_mem

OverQuota(cfg, usage, prog, d) ==
    /\ cfg.quota[d] # 0
    /\ (usage[d] + Adds(prog, d)) % WordMod > cfg.quota[d]

merlin_ns_check(cfg, usage, prog) ==
    LET denied(k, ids) ==
            \E i \in ids : ~merlin_ns_bit_get(cfg.permit[k], i)
        over(d) == OverQuota(cfg, usage, prog, d)
    IN  IF denied("attach", {prog.attach}) THEN "attach_not_allowed"
        ELSE IF denied("helper", prog.helpers) THEN "helper_not_allowed"
        ELSE IF denied("kfunc", prog.kfuncs) THEN "kfunc_not_allowed"
        ELSE IF over("progs") THEN "quota_progs"
        ELSE IF over("maps") THEN "quota_maps"
        ELSE IF over("map_mem") THEN "quota_map_mem"
        ELSE IF over("prog_mem") THEN "quota_prog_mem"
        ELSE "OK"

-----------------------------------------------------------------------------
(* The commands.                                                           *)

IsConfig(p) == files[p].state = "ok"

(* merlin_ns_save truncates the file and writes it in one write: it ends   *)
(* up whole, or (a crash, a full disk) shorter than a configuration.       *)
merlin_ns_save(p, cfg, ancestors) ==
    /\ writes' = writes + 1
    /\ \/ /\ files' = [files EXCEPT ![p] = cfg]
          /\ lineage' = [lineage EXCEPT ![p] = ancestors]
       \/ /\ files' = [files EXCEPT ![p] = Torn]
          /\ lineage' = [lineage EXCEPT ![p] = {}]

(* Mutant: ids past the end of the bitset are set all the same.            *)
FromArgs_NoBound(a) ==
    [state |-> "ok", permit |-> a.permit, quota |-> a.quota,
     parent_ns_id |-> 0, flags |-> a.flags]

(* The configuration that the options describe; set_bits drops ids past    *)
(* the end of the bitset.                                                  *)
FromArgs(a) ==
    [state |-> "ok",
     permit |-> [k \in Kinds |-> {i \in a.permit[k] : i < Cap}],
     quota |-> a.quota, parent_ns_id |-> 0, flags |-> a.flags]

Ancestors(p) == lineage[p] \cup {files[p]}

(* merlin-ns create -o out                                                 *)
Create(out, a) == merlin_ns_save(out, FromArgs(a), {})

(* merlin-ns create --from parent -o out.  Every namespace below a root    *)
(* gets the id 1 as its parent's.                                          *)
CreateFrom(out, parent, a) ==
    /\ IsConfig(parent)
    /\ ~Widens(FromArgs(a), files[parent])
    /\ merlin_ns_save(out,
           [merlin_ns_compose(FromArgs(a), files[parent])
               EXCEPT !.parent_ns_id = IF files[parent].parent_ns_id # 0
                                       THEN files[parent].parent_ns_id
                                       ELSE 1],
           Ancestors(parent))

(* merlin-ns compose --child child --parent parent -o out                  *)
Compose(out, child, parent) ==
    /\ IsConfig(child) /\ IsConfig(parent)
    /\ ~Widens(files[child], files[parent])
    /\ merlin_ns_save(out, merlin_ns_compose(files[child], files[parent]),
                      Ancestors(child) \cup Ancestors(parent))

Next ==
    /\ writes < MaxWrites
    /\ \E out \in Paths :
         \/ \E a \in Args :
              \/ Create(out, a)
              \/ \E parent \in Paths : CreateFrom(out, parent, a)
         \/ \E child, parent \in Paths : Compose(out, child, parent)

Spec == Init /\ [][Next]_vars

-----------------------------------------------------------------------------
(* Properties.                                                             *)

(* What a program and the usage of its namespace may look like.            *)
Programs == [attach : Ids, helpers : SUBSET Ids, kfuncs : SUBSET Ids,
             map_mem : Amounts, prog_mem : Amounts]
Usages == [Quotas -> Amounts]

Admits(cfg, usage, prog) == merlin_ns_check(cfg, usage, prog) = "OK"

(* namespace.h: a child can only ever be a subset of its parent.  Along    *)
(* any chain of creations and compositions, whatever files are overwritten *)
(* or torn in between, a program that a namespace admits is admitted by    *)
(* every configuration that namespace was derived from, for the same usage.*)
(* Every id in a file is below the capacity of its bitset (TypeOK).        *)
NarrowOnly ==
    /\ TypeOK
    /\ \A p \in Paths : IsConfig(p) =>
           \A anc \in lineage[p], usage \in Usages, prog \in Programs :
               Admits(files[p], usage, prog) => Admits(anc, usage, prog)
=============================================================================
