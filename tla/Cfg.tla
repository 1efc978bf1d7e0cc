-------------------------------- MODULE Cfg ---------------------------------
(***************************************************************************)
(* The control-flow graph of the user-space verifier,                      *)
(* tools/merlin-verifier/cfg.c: leaders, blocks and their successors,      *)
(* reverse postorder, immediate dominators and back edges.                 *)
(*                                                                         *)
(* A text is a function from 0 .. n-1 to words; the instruction i is at    *)
(* byte 4 * i.  A block is named by the instruction number of its leader   *)
(* (the code numbers blocks in that order), and None is the code's -1.     *)
(***************************************************************************)
EXTENDS Decode, FiniteSets, SequencesExt

CONSTANT MAX_BLOCKS   \* MERLIN_CFG_MAX_BLOCKS

None == -1
CFG_MAX_INSNS == MAX_BLOCKS * 16

Direct(in) == in.cls \in {"BRANCH", "JAL"}
Transfer(in) == Direct(in) \/ in.cls = "JALR"
InText(text, byte) == 0 <= byte /\ byte \div 4 \in DOMAIN text

(* Both operands of the target test, for every direct transfer.            *)
TargetsInText(text) ==
    \A i \in DOMAIN text : LET in == merlin_decode(text[i])
                           IN  Direct(in) => InText(text, 4 * i + in.imm)

cfg_find_leaders(text) ==
    LET D == DOMAIN text
        decoded == [i \in D |-> merlin_decode(text[i])]
    IN  {0} \union {(4 * i + decoded[i].imm) \div 4 :
                        i \in {j \in D : Direct(decoded[j])}}
            \union {i + 1 : i \in {j \in D : Transfer(decoded[j])
                                              /\ j + 1 \in D}}

(* The last instruction of block b.                                        *)
BlockEnd(text, leaders, b) ==
    CHOOSE e \in DOMAIN text :
        /\ e >= b
        /\ \A l \in leaders : ~ (b < l /\ l <= e)
        /\ e + 1 \in DOMAIN text => e + 1 \in leaders

merlin_cfg_block_at(leaders, text_offset, pc) ==
    IF \E l \in leaders : text_offset + 4 * l = pc
    THEN CHOOSE l \in leaders : text_offset + 4 * l = pc
    ELSE None

(* succ[0] and succ[1] of a block.  A successor pc of 0 counts as "not     *)
(* set".                                                                   *)
BlockSucc(text, leaders, text_offset, b) ==
    LET e   == BlockEnd(text, leaders, b)
        in  == merlin_decode(text[e])
        fal == 4 * e + 4
        tgt == 4 * e + in.imm
        at(byte) == IF text_offset + byte = 0 THEN None
                    ELSE merlin_cfg_block_at(leaders, text_offset,
                                             text_offset + byte)
    IN  CASE in.cls = "JALR"   -> <<None, None>>
          [] in.cls = "BRANCH" -> <<at(fal), at(tgt)>>
          [] in.cls = "JAL"    -> <<at(tgt), IF in.rd # 0 /\ InText(text, fal)
                                             THEN at(fal) ELSE None>>
          [] OTHER -> <<IF e + 1 \in leaders THEN e + 1 ELSE None, None>>

cfg_build_blocks(text, leaders, text_offset) ==
    [b \in leaders |-> BlockSucc(text, leaders, text_offset, b)]

Edges(succ) == {<<b, s>> \in (DOMAIN succ) \X (DOMAIN succ) :
                    \E k \in 1 .. 2 : succ[b][k] = s}

(* Depth first; acc holds the visited blocks and the postorder so far.     *)
RECURSIVE cfg_rpo_visit(_, _, _)
cfg_rpo_visit(succ, b, acc) ==
    IF b = None \/ b \in acc.visited THEN acc
    ELSE LET a0 == [acc EXCEPT !.visited = @ \union {b}]
             a1 == cfg_rpo_visit(succ, succ[b][1], a0)
             a2 == cfg_rpo_visit(succ, succ[b][2], a1)
         IN  [a2 EXCEPT !.post = Append(@, b)]

cfg_compute_rpo(succ) ==
    Reverse(cfg_rpo_visit(succ, 0, [visited |-> {}, post |-> <<>>]).post)

RpoOf(rpo, b) == CHOOSE i \in DOMAIN rpo : rpo[i] = b

RECURSIVE cfg_intersect(_, _, _, _)
cfg_intersect(idom, rpo, b1, b2) ==
    CASE b1 = b2 -> b1
      [] RpoOf(rpo, b1) > RpoOf(rpo, b2) -> cfg_intersect(idom, rpo, idom[b1], b2)
      [] OTHER -> cfg_intersect(idom, rpo, b1, idom[b2])

(* One block of a sweep: fold its predecessors, in block order and once    *)
(* per edge, over those that have an immediate dominator already.          *)
NewIdom(succ, rpo, idom, b) ==
    LET order == SetToSortSeq(DOMAIN succ, <)
        meet(acc, j) == CASE b \notin {succ[j][1], succ[j][2]}
                                 \/ idom[j] = None -> acc
                          [] acc = None -> j
                          [] OTHER -> cfg_intersect(idom, rpo, j, acc)
        new == FoldLeft(meet, None, order)
    IN  IF new = None THEN idom[b] ELSE new

Sweep(succ, rpo, idom) ==
    FoldLeft(LAMBDA d, b : [d EXCEPT ![b] = NewIdom(succ, rpo, d, b)],
             idom, Tail(rpo))

RECURSIVE SweepUntilStable(_, _, _)
SweepUntilStable(succ, rpo, idom) ==
    LET next == Sweep(succ, rpo, idom)
    IN  IF next = idom THEN idom ELSE SweepUntilStable(succ, rpo, next)

(* Mutant: one sweep, not repeated until nothing changes.                  *)
cfg_compute_dominators_OneSweep(succ, rpo) ==
    Sweep(succ, rpo, [b \in DOMAIN succ |-> IF b = 0 THEN 0 ELSE None])

cfg_compute_dominators(succ, rpo) ==
    SweepUntilStable(succ, rpo,
                     [b \in DOMAIN succ |-> IF b = 0 THEN 0 ELSE None])

RECURSIVE cfg_dominates(_, _, _)
cfg_dominates(idom, dom, b) ==
    CASE b = None -> FALSE
      [] b = dom  -> TRUE
      [] b # dom /\ idom[b] = b -> FALSE
      [] OTHER -> cfg_dominates(idom, dom, idom[b])

cfg_find_back_edges(succ, idom) ==
    {e \in Edges(succ) : cfg_dominates(idom, e[2], e[1])}

(* A built graph; ok is FALSE where the code returns -1.                   *)
merlin_cfg_build(text, text_offset) ==
    LET leaders == cfg_find_leaders(text)
        succ == cfg_build_blocks(text, leaders, text_offset)
        rpo  == cfg_compute_rpo(succ)
        idom == cfg_compute_dominators(succ, rpo)
    IN  IF /\ Cardinality(DOMAIN text) <= CFG_MAX_INSNS
           /\ TargetsInText(text)
           /\ Cardinality(leaders) <= MAX_BLOCKS
        THEN [ok |-> TRUE, succ |-> succ, rpo |-> rpo, idom |-> idom,
              back |-> cfg_find_back_edges(succ, idom)]
        ELSE [ok |-> FALSE]
=============================================================================
