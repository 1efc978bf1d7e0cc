-------------------------------- MODULE KCfg --------------------------------
(***************************************************************************)
(* The control-flow graph of the kernel verifier, kernel/merlin/cfg.c.     *)
(* Texts, blocks and None are as in module Cfg; the depth-first search is  *)
(* the kernel's loop over an explicit stack.                               *)
(***************************************************************************)
EXTENDS KDecode, FiniteSets, SequencesExt

CONSTANT MAX_BLOCKS   \* MERLIN_CFG_MAX_BLOCKS

None == -1
CFG_MAX_INSNS == MAX_BLOCKS * 16

Direct(in) == in.cls \in {"BRANCH", "JAL"}
InText(text, byte) == 0 <= byte /\ byte \div 4 \in DOMAIN text

TargetsInText(text) ==
    \A i \in DOMAIN text : LET in == merlin_decode(text[i])
                           IN  Direct(in) => InText(text, 4 * i + in.imm)

cfg_find_leaders(text) ==
    LET D == DOMAIN text
        class(i) == merlin_decode(text[i]).cls
    IN  {0} \union {(4 * i + merlin_decode(text[i]).imm) \div 4 :
                        i \in {j \in D : class(j) \in {"BRANCH", "JAL"}}}
            \union {i \in D : i > 0 /\ class(i - 1) \in
                                           {"BRANCH", "JAL", "JALR"}}

merlin_cfg_block_at(leaders, text_offset, pc) ==
    IF \E l \in leaders : text_offset + 4 * l = pc
    THEN CHOOSE l \in leaders : text_offset + 4 * l = pc
    ELSE None

BlockEnd(text, leaders, b) ==
    CHOOSE e \in DOMAIN text :
        /\ e >= b
        /\ \A l \in leaders : ~ (b < l /\ l <= e)
        /\ e + 1 \in DOMAIN text => e + 1 \in leaders

cfg_build_blocks(text, leaders, text_offset) ==
    [b \in leaders |->
        LET e   == BlockEnd(text, leaders, b)
            in  == merlin_decode(text[e])
            fal == 4 * e + 4
            tgt == 4 * e + in.imm
            at(byte) == IF text_offset + byte = 0 THEN None
                        ELSE merlin_cfg_block_at(leaders, text_offset,
                                                 text_offset + byte)
        IN  CASE in.cls = "JALR"   -> <<None, None>>
              [] in.cls = "BRANCH" -> <<at(fal), at(tgt)>>
              [] in.cls = "JAL" ->
                     <<at(tgt), IF in.rd # 0 /\ InText(text, fal)
                                THEN at(fal) ELSE None>>
              [] OTHER -> <<IF e + 1 \in leaders THEN e + 1 ELSE None, None>>]

Edges(succ) == {<<b, s>> \in (DOMAIN succ) \X (DOMAIN succ) :
                    \E k \in 1 .. 2 : succ[b][k] = s}

(* The loop of the search.  seen is the blocks with state[b] # 0; a block  *)
(* is marked when it is on top of the stack, and leaves the stack for the  *)
(* postorder once no successor of it is unmarked.                          *)
RECURSIVE RpoLoop(_, _, _, _)
RpoLoop(succ, stack, seen, post) ==
    IF stack = <<>> THEN post
    ELSE LET b     == Last(stack)
             seenb == seen \union {b}
             fresh == SelectSeq(succ[b], LAMBDA n : n # None /\ n \notin seenb)
         IN  IF fresh # <<>>
             THEN RpoLoop(succ, Append(stack, Head(fresh)), seenb, post)
             ELSE RpoLoop(succ, Front(stack), seenb, Append(post, b))

cfg_compute_rpo(succ) == Reverse(RpoLoop(succ, <<0>>, {}, <<>>))

RpoOf(rpo, b) == CHOOSE i \in DOMAIN rpo : rpo[i] = b

RECURSIVE cfg_intersect(_, _, _, _)
cfg_intersect(idom, rpo, b1, b2) ==
    CASE b1 = b2 -> b1
      [] RpoOf(rpo, b1) > RpoOf(rpo, b2) -> cfg_intersect(idom, rpo, idom[b1], b2)
      [] OTHER -> cfg_intersect(idom, rpo, b1, idom[b2])

NewIdom(succ, rpo, idom, b) ==
    LET order == SetToSortSeq(DOMAIN succ, <)
        meet(acc, j) == CASE b \notin {succ[j][1], succ[j][2]}
                                 \/ idom[j] = None -> acc
                          [] acc = None -> j
                          [] OTHER -> cfg_intersect(idom, rpo, j, acc)
        new == FoldLeft(meet, None, order)
    IN  IF new = None THEN idom[b] ELSE new

RECURSIVE SweepUntilStable(_, _, _)
SweepUntilStable(succ, rpo, idom) ==
    LET next == FoldLeft(LAMBDA d, b : [d EXCEPT ![b] = NewIdom(succ, rpo, d, b)],
                         idom, Tail(rpo))
    IN  IF next = idom THEN idom ELSE SweepUntilStable(succ, rpo, next)

cfg_compute_dominators(succ, rpo) ==
    SweepUntilStable(succ, rpo,
                     [b \in DOMAIN succ |-> IF b = 0 THEN 0 ELSE None])

RECURSIVE cfg_dominates(_, _, _)
cfg_dominates(idom, dom, b) ==
    CASE b = None -> FALSE
      [] b = dom  -> TRUE
      [] b # dom /\ idom[b] = b -> FALSE
      [] OTHER -> cfg_dominates(idom, dom, idom[b])

cfg_find_back_edges(succ, idom) ==
    {e \in Edges(succ) : cfg_dominates(idom, e[2], e[1])}

(* With every allocation granted; a failed one makes the build fail, which *)
(* is NoMemory of module KVerify.                                          *)
merlin_cfg_build(text, text_offset) ==
    LET leaders == cfg_find_leaders(text)
        succ == cfg_build_blocks(text, leaders, text_offset)
        rpo  == cfg_compute_rpo(succ)
        idom == cfg_compute_dominators(succ, rpo)
    IN  IF /\ Cardinality(DOMAIN text) <= CFG_MAX_INSNS
           /\ TargetsInText(text)
           /\ Cardinality(leaders) <= MAX_BLOCKS
        THEN [ok |-> TRUE, succ |-> succ, rpo |-> rpo, idom |-> idom,
              back |-> cfg_find_back_edges(succ, idom)]
        ELSE [ok |-> FALSE]
=============================================================================
