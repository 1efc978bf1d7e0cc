----------------------------- MODULE ObjectFile -----------------------------
(***************************************************************************)
(* Program object files, as the two tools that hash them read and write    *)
(* them: tools/merlin-sign (sig.c) and tools/merlin-objtool.               *)
(*                                                                         *)
(* An object is its byte order, its machine and its sections in header     *)
(* order.  A section has a name (every .text.merlin.* is "text"), its      *)
(* contents in words and, if it is .merlin.sig, a signature.  A SHA-256    *)
(* digest is what it was computed from, a signature is a key, a digest and *)
(* the length that the header states.                                      *)
(***************************************************************************)
EXTENDS Integers, Sequences

CONSTANTS NoSig     \* no signature, or one whose header does not parse

(* The names that a tool looks for; every other one is "other".            *)
SectionNames == {"meta", "maps", "relocs", "btf", "btf_ext", "license",
                 "text", "sig", "shstrtab", "other"}

Section(n, d) == [name |-> n, data |-> d, sig |-> NoSig]

(* The first section of a name, 0 if there is none.                        *)
First(secs, n) ==
    LET named == {i \in DOMAIN secs : secs[i].name = n}
    IN  IF named = {} THEN 0
        ELSE CHOOSE i \in named : \A j \in named : i <= j

(* The pieces one after the other, as they are fed to the hash.            *)
Joined(pieces) ==
    LET joined[n \in 0 .. Len(pieces)] ==
            IF n = 0 THEN <<>> ELSE joined[n - 1] \o pieces[n]
    IN  joined[Len(pieces)]

(* The contents of the sections whose name begins with .text.merlin.       *)
Texts(secs) == Joined([i \in 1 .. Len(secs) |->
    IF secs[i].name = "text" THEN secs[i].data ELSE <<>>])

find_named(o, n) == First(o.secs, n)

hash_section(o, i) == IF i = 0 THEN <<>> ELSE o.secs[i].data

-----------------------------------------------------------------------------
(* merlin-sign.                                                            *)

merlin_sig_canonical_fixed_sections ==
    <<"meta", "maps", "relocs", "btf", "btf_ext", "license">>

(* The fixed sections in the canonical order, then every text section in   *)
(* header order.                                                           *)
merlin_sig_hash_signed_region(o) ==
    LET Fixed == merlin_sig_canonical_fixed_sections IN
    Joined([i \in 1 .. Len(Fixed) |-> hash_section(o, find_named(o, Fixed[i]))])
        \o Texts(o.secs)

(* The sections whose name is not one of names.                            *)
Without(secs, names) ==
    LET kept[n \in 0 .. Len(secs)] ==
            IF n = 0 THEN <<>>
            ELSE IF secs[n].name \in names THEN kept[n - 1]
            ELSE Append(kept[n - 1], secs[n])
    IN  kept[Len(secs)]

(* Mutant: an old signature is carried over, too.                          *)
read_all_sections_OldSig(o) == Without(o.secs, {"shstrtab"})

(* What merlin_sig_embed carries over: all but the two it writes itself.   *)
read_all_sections(o) == Without(o.secs, {"shstrtab", "sig"})

(* Mutant: the machine is the one that signs.                              *)
merlin_sig_embed_Host(o, s) ==
    [lsb |-> TRUE, machine |-> "x86-64",
     secs |-> read_all_sections(o)
                \o <<[name |-> "sig", data |-> <<>>, sig |-> s],
                     Section("shstrtab", <<>>)>>]

(* Mutant: the signature is put in front.                                  *)
merlin_sig_embed_First(o, s) ==
    [lsb |-> TRUE, machine |-> o.machine,
     secs |-> <<[name |-> "sig", data |-> <<>>, sig |-> s]>>
                \o read_all_sections(o) \o <<Section("shstrtab", <<>>)>>]

(* The file that signing writes: the class and machine of the input, the   *)
(* byte order always little-endian.                                        *)
merlin_sig_embed(o, s) ==
    [lsb |-> TRUE, machine |-> o.machine,
     secs |-> read_all_sections(o)
                \o <<[name |-> "sig", data |-> <<>>, sig |-> s],
                     Section("shstrtab", <<>>)>>]

(* The signature of a file: NoSig if there is none or it is malformed.     *)
merlin_sig_extract(o) ==
    LET i == find_named(o, "sig") IN IF i = 0 THEN NoSig ELSE o.secs[i].sig

merlin_sig_verify_ed25519(digest, s, key) == s.key = key /\ s.digest = digest

(* merlin-sign verify.                                                     *)
cmd_verify(o, key) ==
    LET s == merlin_sig_extract(o)
        region == merlin_sig_hash_signed_region(o)
    IN  /\ s # NoSig
        /\ s.len = Len(region)
        /\ merlin_sig_verify_ed25519(region, s, key)

-----------------------------------------------------------------------------
(* merlin-objtool.                                                         *)

(* Mutant: the text is hashed after the metadata, as the comment says.     *)
cmd_sha256_TextSecond(o) ==
    LET sha256_section(n) == hash_section(o, find_named(o, n))
    IN  sha256_section("meta") \o Texts(o.secs) \o sha256_section("maps")
        \o sha256_section("relocs") \o sha256_section("btf")
        \o sha256_section("btf_ext") \o sha256_section("license")

find_section(o, n) == First(o.secs, n)

sha256_section(o, n) ==
    LET i == find_section(o, n) IN IF i = 0 THEN <<>> ELSE o.secs[i].data

(* The signed region, by the tool's own list.                              *)
cmd_sha256(o) ==
    sha256_section(o, "meta") \o sha256_section(o, "maps")
        \o sha256_section(o, "relocs") \o sha256_section(o, "btf")
        \o sha256_section(o, "btf_ext") \o sha256_section(o, "license")
        \o Texts(o.secs)

(* validate.  Here a word stands for a field: .merlin.meta starts with its *)
(* magic, version and size; a map is a type and a number of entries; a     *)
(* relocation is an offset and a type.                                     *)
META_MAGIC == 7
META_VERSION_MAJOR == 1
META_MIN == 3
MAP_TYPE_RINGBUF == 3
LAST_RELOC_TYPE == 8
FIRST_VENDOR_RELOC_TYPE == 64

validate_meta(o) ==
    /\ find_section(o, "meta") # 0
    /\ LET m == sha256_section(o, "meta") IN
       /\ Len(m) >= META_MIN
       /\ m[1] = META_MAGIC /\ m[2] = META_VERSION_MAJOR
       /\ META_MIN <= m[3] /\ m[3] <= Len(m)

(* NUL-terminated: a zero somewhere in the section.                        *)
validate_license(o) ==
    /\ find_section(o, "license") # 0
    /\ LET l == sha256_section(o, "license") IN \E i \in 1 .. Len(l) : l[i] = 0

validate_maps(o) ==
    LET m == sha256_section(o, "maps") IN
    /\ Len(m) % 2 = 0
    /\ \A i \in 1 .. Len(m) \div 2 :
         /\ m[2 * i - 1] # 0
         /\ m[2 * i] = 0 => m[2 * i - 1] = MAP_TYPE_RINGBUF

validate_relocs(o) ==
    LET r == sha256_section(o, "relocs") IN
    /\ Len(r) % 2 = 0
    /\ \A i \in 1 .. Len(r) \div 2 :
         /\ r[2 * i] # 0
         /\ ~(LAST_RELOC_TYPE < r[2 * i] /\ r[2 * i] < FIRST_VENDOR_RELOC_TYPE)
         /\ i > 1 => r[2 * i - 1] > r[2 * i - 3]

run_validate(o) ==
    /\ o.lsb
    /\ o.machine \in {"riscv", "none"}
    /\ validate_meta(o) /\ validate_license(o)
    /\ validate_maps(o) /\ validate_relocs(o)
=============================================================================
