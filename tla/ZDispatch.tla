------------------------------ MODULE ZDispatch ------------------------------
(***************************************************************************)
(* The helper registry of the Zephyr runtime (zephyr/merlin/src/           *)
(* dispatch.c) as helpers_sample.c fills it at start-up.                   *)
(***************************************************************************)
EXTENDS Integers, Sequences, SequencesExt, Functions

MERLIN_MAX_HELPER == 512

(* helpers maps the ids in use to their functions.                         *)
merlin_helper_register(helpers, id, fn) ==
    IF id = 0 \/ id >= MERLIN_MAX_HELPER \/ id \in DOMAIN helpers
    THEN helpers
    ELSE [i \in DOMAIN helpers \union {id} |->
              IF i = id THEN fn ELSE helpers[i]]

merlin_helpers_init ==
    FoldLeft(LAMBDA helpers, h : merlin_helper_register(helpers, h[1], h[2]),
             <<>>,
             <<<<1, "trace_printk">>, <<2, "uptime_ms">>, <<3, "rng_u32">>,
               <<4, "gpio_set">>, <<5, "gpio_get">>, <<6, "yield">>>>)

(* -1 for an id that nothing is registered for.                            *)
merlin_dispatch_helper(helpers, id) ==
    IF id = 0 \/ id >= MERLIN_MAX_HELPER \/ id \notin DOMAIN helpers
    THEN "unknown" ELSE helpers[id]
=============================================================================
