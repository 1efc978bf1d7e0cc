--------------------------- MODULE MCControlPlane ---------------------------
(***************************************************************************)
(* Instances of the control-plane tools for TLC: namespaces (Namespace),   *)
(* signing (Sign) and attestation (Attest).  The three share no file, so   *)
(* their steps commute and a behaviour of all of them is one of each: in a *)
(* behaviour here one tool acts and the others rest at their start.        *)
(***************************************************************************)
EXTENDS Namespace, Sign, Attest, TLC

allVars == <<vars, signVars, makVars>>

PlaneInit == Init /\ SignInit /\ MakInit

PlaneNext ==
    \/ SignInit /\ MakInit /\ Next /\ UNCHANGED <<signVars, makVars>>
    \/ Init /\ MakInit /\ SignNext /\ UNCHANGED <<vars, makVars>>
    \/ Init /\ SignInit /\ MakNext /\ UNCHANGED <<vars, signVars>>

PlaneSpec == PlaneInit /\ [][PlaneNext]_allVars

(* Two objects: one with an empty section, the metadata first; one with    *)
(* every kind of section in another order, two texts and a placeholder for *)
(* a signature.                                                            *)
Obj(secs) == [lsb |-> TRUE, machine |-> "riscv", secs |-> secs]
Meta == Section("meta", <<7, 1, 3>>)
License == Section("license", <<5, 0>>)

MCBuilds ==
    {Obj(<<Meta, Section("text", <<1>>), License, Section("maps", <<>>),
           Section("shstrtab", <<>>)>>),
     Obj(<<Section("text", <<2>>), License, Section("relocs", <<1, 2, 4, 1>>),
           Meta, Section("sig", <<>>), Section("text", <<1>>),
           Section("btf", <<6>>), Section("maps", <<3, 0>>),
           Section("shstrtab", <<>>)>>)}

(* Paths, object files, signing keys and commands are interchangeable.     *)
Symmetry == Permutations(Paths) \cup Permutations(Files)
            \cup Permutations(Signers) \cup Permutations(Procs)
=============================================================================
