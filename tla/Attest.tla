------------------------------- MODULE Attest -------------------------------
(***************************************************************************)
(* Attestation: tools/merlin-attest (mak.c and merlin-attest.c).  A host   *)
(* keeps a key pair (the MAK) and a counter in three files, and answers a  *)
(* controller's nonce with a signed quote; the controller verifies quotes  *)
(* against the public key it got once and the highest number it has seen.  *)
(*                                                                         *)
(* One command runs at a time (mak.h leaves the sequencing of concurrent   *)
(* ones to the caller), but it may be killed between any two file          *)
(* operations, a file may fail to open, and a file that was opened for     *)
(* writing may stay empty: stdio writes at fclose, whose result the code   *)
(* does not look at.  A key pair stands for its two halves and for the     *)
(* hash of the public one; a signature is the key that made it.            *)
(***************************************************************************)
EXTENDS Integers

CONSTANTS
    Keys,       \* the key pairs that EVP_PKEY_keygen may return
    Nonces,
    MaxSeq,     \* bound on the counter
    Absent,       \* no file, no key
    Blank        \* a file that was truncated and not written

ASSUME AttestAssumption ==
    /\ Absent \notin Keys /\ Blank \notin Keys /\ Absent # Blank
    /\ Absent \notin Nat /\ Blank \notin Nat
    /\ MaxSeq \in Nat

VARIABLES
    priv, pub,  \* mak.priv.pem and mak.pub.pem
    seq,        \* mak.seq
    fresh,      \* keys not generated yet
    tool,       \* the command that runs
    issued,     \* the quotes written out
    lost,       \* history: an update of the counter did not reach its file
    trusted,    \* the controller's copy of the public key
    asked,      \* the nonces it has sent
    last        \* the highest number it has accepted

hostVars == <<priv, pub, seq, fresh, tool, issued, lost>>
controllerVars == <<trusted, asked, last>>
makVars == <<hostVars, controllerVars>>

Quotes == [seq : Nat, nonce : Nonces, hash : Keys, signer : Keys]

(* pc is the next file operation; key is the pair just generated and later *)
(* the one that signs, seq and hash are the fields of the quote.           *)
PCs == {"idle", "stat", "open priv", "write priv", "open pub", "write pub",
        "sign", "open seq", "write seq", "release"}

Tools == [pc : PCs, cmd : {"init", "pub", "quote"}, nonce : Nonces \cup {Absent},
          key : Keys \cup {Absent}, hash : Keys \cup {Absent}, seq : Nat]

Idle == [pc |-> "idle", cmd |-> "init", nonce |-> Absent,
         key |-> Absent, hash |-> Absent, seq |-> 0]

MakTypeOK ==
    /\ priv \in Keys \cup {Absent, Blank}
    /\ pub \in Keys \cup {Absent, Blank}
    /\ seq \in Nat \cup {Absent, Blank}
    /\ fresh \subseteq Keys
    /\ tool \in Tools
    /\ issued \subseteq Quotes
    /\ lost \in BOOLEAN
    /\ trusted \in Keys \cup {Absent}
    /\ asked \subseteq Nonces
    /\ last \in Nat

MakInit ==
    /\ priv = Absent /\ pub = Absent /\ seq = Absent
    /\ fresh = Keys
    /\ tool = Idle
    /\ issued = {} /\ lost = FALSE
    /\ trusted = Absent /\ asked = {} /\ last = 0

-----------------------------------------------------------------------------
(* The commands, and merlin_mak_ensure.                                    *)

merlin_mak_seq_read == IF seq \in {Absent, Blank} THEN 0 ELSE seq

(* Mutant: init throws the old pair away.                                  *)
Start_Renew ==
    /\ tool = Idle
    /\ \/ /\ tool' = [Idle EXCEPT !.pc = "stat", !.cmd = "init"]
          /\ priv' = Absent /\ pub' = Absent
       \/ /\ merlin_mak_seq_read < MaxSeq
          /\ \E n \in asked :
             tool' = [Idle EXCEPT !.pc = "stat", !.cmd = "quote", !.nonce = n]
          /\ UNCHANGED <<priv, pub>>
    /\ UNCHANGED <<seq, fresh, issued, lost, controllerVars>>

(* merlin-attest init, pub and quote.                                      *)
Start ==
    /\ tool = Idle
    /\ \/ \E c \in {"init", "pub"} :
             tool' = [Idle EXCEPT !.pc = "stat", !.cmd = c]
       \/ /\ merlin_mak_seq_read < MaxSeq
          /\ \E n \in asked :
             tool' = [Idle EXCEPT !.pc = "stat", !.cmd = "quote", !.nonce = n]
    /\ UNCHANGED <<priv, pub, seq, fresh, issued, lost, controllerVars>>

(* The pair is there: init and pub are done, quote goes on.                *)
Ensured == IF tool.cmd = "quote"
           THEN [tool EXCEPT !.pc = "sign", !.key = Absent]
           ELSE Idle

(* Mutant: an empty mak.pub.pem does not count, so a pair whose public     *)
(* half was not written is replaced.                                       *)
Present_Whole == priv \in Keys /\ pub \in Keys

Present == priv # Absent /\ pub # Absent

(* Both files are looked for, and a pair is generated unless both exist.   *)
merlin_mak_ensure ==
    /\ tool.pc = "stat"
    /\ IF Present
       THEN tool' = Ensured /\ UNCHANGED fresh
       ELSE \E k \in fresh :
            /\ fresh' = fresh \ {k}
            /\ tool' = [tool EXCEPT !.pc = "open priv", !.key = k]
    /\ UNCHANGED <<priv, pub, seq, issued, lost, controllerVars>>

(* fopen(path, "w") empties the file.                                      *)
OpenPriv ==
    /\ tool.pc = "open priv"
    /\ priv' = Blank
    /\ tool' = [tool EXCEPT !.pc = "write priv"]
    /\ UNCHANGED <<pub, seq, fresh, issued, lost, controllerVars>>

(* PEM_write_PrivateKey and fclose: the command goes on whether or not the *)
(* bytes reached the file.                                                 *)
WritePriv ==
    /\ tool.pc = "write priv"
    /\ priv' \in {tool.key, Blank}
    /\ tool' = [tool EXCEPT !.pc = "open pub"]
    /\ UNCHANGED <<pub, seq, fresh, issued, lost, controllerVars>>

OpenPub ==
    /\ tool.pc = "open pub"
    /\ pub' = Blank
    /\ tool' = [tool EXCEPT !.pc = "write pub"]
    /\ UNCHANGED <<priv, seq, fresh, issued, lost, controllerVars>>

WritePub ==
    /\ tool.pc = "write pub"
    /\ pub' \in {tool.key, Blank}
    /\ tool' = Ensured
    /\ UNCHANGED <<priv, seq, fresh, issued, lost, controllerVars>>
-----------------------------------------------------------------------------
(* merlin_mak_sign_quote and cmd_quote.                                    *)

(* The hash of the public key on file; Absent if that is not a key.        *)
merlin_mak_pub_hash == IF pub \in Keys THEN pub ELSE Absent

(* The quote takes the number after the one on file and the hash of the    *)
(* public key; the private key signs it.                                   *)
merlin_mak_sign_quote ==
    /\ tool.pc = "sign"
    /\ merlin_mak_pub_hash # Absent /\ priv \in Keys
    /\ tool' = [tool EXCEPT !.pc = "open seq", !.seq = merlin_mak_seq_read + 1,
                            !.hash = merlin_mak_pub_hash, !.key = priv]
    /\ UNCHANGED <<priv, pub, seq, fresh, issued, lost, controllerVars>>

(* merlin_mak_seq_write, whose result the caller drops.                    *)
OpenSeq ==
    /\ tool.pc = "open seq"
    /\ \/ /\ seq' = Blank
          /\ tool' = [tool EXCEPT !.pc = "write seq"]
          /\ UNCHANGED lost
       \/ /\ lost' = TRUE
          /\ tool' = [tool EXCEPT !.pc = "release"]
          /\ UNCHANGED seq
    /\ UNCHANGED <<priv, pub, fresh, issued, controllerVars>>

(* Mutant: the number on file is one behind the quote's.                   *)
WriteSeq_Old ==
    /\ tool.pc = "write seq"
    /\ \/ seq' = tool.seq - 1 /\ UNCHANGED lost
       \/ lost' = TRUE /\ UNCHANGED seq
    /\ tool' = [tool EXCEPT !.pc = "release"]
    /\ UNCHANGED <<priv, pub, fresh, issued, controllerVars>>

WriteSeq ==
    /\ tool.pc = "write seq"
    /\ \/ seq' = tool.seq /\ UNCHANGED lost
       \/ lost' = TRUE /\ UNCHANGED seq
    /\ tool' = [tool EXCEPT !.pc = "release"]
    /\ UNCHANGED <<priv, pub, fresh, issued, controllerVars>>

TheQuote == [seq |-> tool.seq, nonce |-> tool.nonce,
             hash |-> tool.hash, signer |-> tool.key]

(* The quote is written out.                                               *)
cmd_quote ==
    /\ tool.pc = "release"
    /\ issued' = issued \cup {TheQuote}
    /\ tool' = Idle
    /\ UNCHANGED <<priv, pub, seq, fresh, lost, controllerVars>>

(* The command is killed, or ends because a step of it failed: a directory *)
(* that cannot be made, a file that does not open, a key that does not     *)
(* parse, an output that cannot be written.                                *)
Stop ==
    /\ tool.pc # "idle"
    /\ tool' = Idle
    /\ lost' = (lost \/ tool.pc = "write seq")
    /\ UNCHANGED <<priv, pub, seq, fresh, issued, controllerVars>>

-----------------------------------------------------------------------------
(* The controller.                                                         *)

(* It copies mak.pub.pem, once.                                            *)
Enrol ==
    /\ trusted = Absent /\ pub \in Keys
    /\ trusted' = pub
    /\ UNCHANGED <<hostVars, asked, last>>

Ask ==
    /\ \E n \in Nonces \ asked : asked' = asked \cup {n}
    /\ UNCHANGED <<hostVars, trusted, last>>

(* The checks of a quote against a key, a nonce and the last number.       *)
merlin_mak_verify_quote(q, k, n, l) ==
    /\ q.nonce = n
    /\ q.seq > l
    /\ q.signer = k

(* merlin-attest verify --last-seq, on any quote that was written: a quote *)
(* may come late, twice or out of order.                                   *)
VerifyQuote ==
    /\ trusted # Absent
    /\ \E q \in issued, n \in asked :
         /\ merlin_mak_verify_quote(q, trusted, n, last)
         /\ last' = q.seq
    /\ UNCHANGED <<hostVars, trusted, asked>>

MakNext ==
    \/ Start \/ merlin_mak_ensure \/ OpenPriv \/ WritePriv \/ OpenPub \/ WritePub
    \/ merlin_mak_sign_quote \/ OpenSeq \/ WriteSeq \/ cmd_quote \/ Stop
    \/ Enrol \/ Ask \/ VerifyQuote

MakSpec == MakInit /\ [][MakNext]_makVars

-----------------------------------------------------------------------------
(* Properties.                                                             *)

(* A public key on file belongs to the private key beside it, or that one  *)
(* cannot be read: whatever command was killed at whatever point of        *)
(* merlin_mak_ensure, and however often it was run again, no mixed pair is *)
(* left (mak.c writes the private half first, and never generates once     *)
(* both files exist).                                                      *)
KeysMatch == pub \in Keys => priv \in {pub, Blank}

(* Every quote ever written carries the hash of the key that signed it,    *)
(* and that key is still the one in mak.pub.pem and the one the controller *)
(* copied: the host never changes its identity, nor breaks its key pair.   *)
QuotesVerify ==
    /\ KeysMatch
    /\ \A q \in issued : q.hash = pub /\ q.signer = pub
    /\ trusted # Absent => pub = trusted

(* As long as every update of mak.seq has reached its file, a quote that   *)
(* is written has a number above those of all earlier quotes and above the *)
(* last one the controller accepted, so the controller does not refuse it  *)
(* as a replay.  (merlin_mak_sign_quote stores the number before it hands  *)
(* out the quote; a kill in between leaves a gap, not a repetition.)       *)
NumbersRise ==
    [][\A q \in issued' \ issued :
          ~lost => /\ q.seq > last
                   /\ \A r \in issued : r.seq < q.seq]_makVars
=============================================================================
