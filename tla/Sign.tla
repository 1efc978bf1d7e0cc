-------------------------------- MODULE Sign --------------------------------
(***************************************************************************)
(* Program signing: tools/merlin-sign (merlin-sign.c and sig.c), with the  *)
(* tag that merlin-objtool shows.  Commands run beside each other and      *)
(* beside the compiler, on files that they open once per step: cmd_sign    *)
(* opens its input twice, to hash it and to copy it, and empties its       *)
(* output, which may be the input, before it writes it.  A command may be  *)
(* killed or fail between the steps.  tag, verify and dump write nothing.  *)
(*                                                                         *)
(* Two commands, or a command and the compiler, do not write one file at   *)
(* the same time: that a build has one rule per output is assumed.         *)
(***************************************************************************)
EXTENDS ObjectFile

CONSTANTS
    Files,      \* paths
    Signers,    \* key pairs
    Procs,      \* commands that may run at the same time
    Builds,     \* the objects that the compiler may write
    NoObject, EmptyFile, \* a path with no file, a file that was just truncated
    NoSigner

(* A compiler writes sections without a signature.                         *)
Signatures == [key : Signers, digest : Seq(Int), len : Nat]
Objects == [lsb : BOOLEAN, machine : STRING,
            secs : Seq([name : SectionNames, data : Seq(Int),
                        sig : Signatures \cup {NoSig}])]

ASSUME SignAssumption ==
    /\ Builds \subseteq Objects
    /\ \A o \in Builds : \A i \in DOMAIN o.secs : o.secs[i].sig = NoSig
    /\ NoObject \notin Objects /\ EmptyFile \notin Objects
    /\ NoSig \notin Signatures /\ NoSigner \notin Signers

VARIABLES
    object,     \* what each path holds
    cmd,        \* the commands that run
    clean       \* history: the key of the last signing that finished on a
                \* path, if nobody wrote its input meanwhile

signVars == <<object, cmd, clean>>

NoCmd == [pc |-> "idle"]

(* The file is an ELF file.                                                *)
Elf(f) == object[f] \notin {NoObject, EmptyFile}

(* A signature is in the last section but one of a file.                   *)
SignTypeOK ==
    /\ \A f \in Files : Elf(f) => \A i \in DOMAIN object[f].secs :
          object[f].secs[i].sig # NoSig =>
              /\ object[f].secs[i].name = "sig"
              /\ object[f].secs[i].sig.key \in Signers
              /\ i = Len(object[f].secs) - 1
    /\ \A p \in Procs : cmd[p].pc \in {"idle", "embed", "open", "write"}
    /\ clean \in [Files -> Signers \cup {NoSigner}]

SignInit ==
    /\ object = [f \in Files |-> NoObject]
    /\ cmd = [p \in Procs |-> NoCmd]
    /\ clean = [f \in Files |-> NoSigner]

(* A file is being written by a command.                                   *)
Busy(f) == \E p \in Procs : cmd[p].pc \in {"embed", "open", "write"} /\ cmd[p].out = f

(* The commands that have hashed f and not copied it yet are told (by the  *)
(* history only) that it changes.                                          *)
Disturb(f) == [p \in Procs |->
    IF cmd[p].pc = "embed" /\ cmd[p].in = f
    THEN [cmd[p] EXCEPT !.raced = TRUE] ELSE cmd[p]]

-----------------------------------------------------------------------------
(* The compiler.                                                           *)
Build(f) ==
    /\ \A p \in Procs : ~(cmd[p].pc \in {"open", "write"} /\ cmd[p].out = f)
    /\ \E o \in Builds : object' = [object EXCEPT ![f] = o]
    /\ cmd' = Disturb(f)
    /\ clean' = [clean EXCEPT ![f] = NoSigner]

(* merlin-sign sign.                                                       *)

(* The input is opened, hashed and closed, and the digest is signed.       *)
SignHash(p) ==
    /\ cmd[p].pc = "idle"
    /\ \E f \in Files, g \in Files, k \in Signers :
         /\ Elf(f) /\ ~Busy(g)
         /\ LET region == merlin_sig_hash_signed_region(object[f]) IN
            cmd' = [cmd EXCEPT ![p] =
              [pc |-> "embed", in |-> f, out |-> g, raced |-> FALSE,
               sig |-> [key |-> k, digest |-> region, len |-> Len(region)]]]
    /\ UNCHANGED <<object, clean>>

(* merlin_sig_embed opens the input again and reads all of it ...          *)
EmbedRead(p) ==
    /\ cmd[p].pc = "embed" /\ Elf(cmd[p].in)
    /\ cmd' = [cmd EXCEPT ![p] =
         [pc |-> "open", out |-> cmd[p].out, raced |-> cmd[p].raced,
          sig |-> cmd[p].sig, elf |-> object[cmd[p].in]]]
    /\ UNCHANGED <<object, clean>>

(* ... empties the output ...                                              *)
EmbedOpen(p) ==
    /\ cmd[p].pc = "open"
    /\ object' = [object EXCEPT ![cmd[p].out] = EmptyFile]
    /\ cmd' = [Disturb(cmd[p].out) EXCEPT ![p].pc = "write"]
    /\ clean' = [clean EXCEPT ![cmd[p].out] = NoSigner]

(* ... and writes the sections and the signature.                          *)
EmbedWrite(p) ==
    /\ cmd[p].pc = "write"
    /\ object' = [object EXCEPT ![cmd[p].out] =
                                   merlin_sig_embed(cmd[p].elf, cmd[p].sig)]
    /\ cmd' = [Disturb(cmd[p].out) EXCEPT ![p] = NoCmd]
    /\ clean' = [clean EXCEPT ![cmd[p].out] =
                    IF cmd[p].raced THEN NoSigner ELSE cmd[p].sig.key]

(* A command is killed, or a step of it fails: it ends with the files as   *)
(* they are.                                                               *)
Abort(p) ==
    /\ cmd[p].pc # "idle"
    /\ cmd' = [cmd EXCEPT ![p] = NoCmd]
    /\ UNCHANGED <<object, clean>>

SignNext ==
    \/ \E f \in Files : Build(f)
    \/ \E p \in Procs : \/ SignHash(p) \/ EmbedRead(p) \/ EmbedOpen(p)
                        \/ EmbedWrite(p) \/ Abort(p)

SignSpec == SignInit /\ [][SignNext]_signVars
-----------------------------------------------------------------------------
(* Properties.                                                             *)

(* A signing whose input nobody wrote between its two readings leaves a    *)
(* file that merlin-sign verify accepts with that key - also if the input  *)
(* was signed before, by the same or another key, or is the output - until *)
(* somebody writes the file again.  A signature is always where extraction *)
(* looks for it (SignTypeOK).                                              *)
SignedVerifies ==
    /\ SignTypeOK
    /\ \A f \in Files : clean[f] # NoSigner =>
           Elf(f) /\ cmd_verify(object[f], clean[f])

(* Signing keeps the tag of the object that it copies - the tag            *)
(* merlin-sign shows of the output is the one merlin-objtool showed of the *)
(* input (sig.h: "a program's "tag" (the digest) is identical regardless   *)
(* of which tool produced it") - and an object that merlin-objtool finds   *)
(* valid stays valid.                                                      *)
SigningKeeps ==
    [][\A p \in Procs :
          cmd[p].pc = "write" /\ object'[cmd[p].out] \notin {NoObject, EmptyFile} =>
          /\ merlin_sig_hash_signed_region(object'[cmd[p].out])
                 = cmd_sha256(cmd[p].elf)
          /\ run_validate(cmd[p].elf) => run_validate(object'[cmd[p].out])
      ]_signVars
=============================================================================
