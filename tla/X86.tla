-------------------------------- MODULE X86 ---------------------------------
(***************************************************************************)
(* The x86_64 that runs a translated program (external: the instructions   *)
(* that the two translators emit, by what they do).                        *)
(*                                                                         *)
(* rsp counts from its value at the call.  Memory is addressed through rbx *)
(* alone: regs[r] is [rbx + 8r] once rbx has the address of the frame.     *)
(***************************************************************************)
EXTENDS Values, SequencesExt

CONSTANT Regs

(* An instruction, as the sequence of it alone.                            *)
ins(i, x) == <<[i |-> i, x |-> x]>>

Caller == val("caller", 0)
Frame  == val("regs", 0)      \* &regs[0]
Helper == val("helper", 0)    \* the address of the trampoline

Entered(ctx) == [rax |-> undef, rcx |-> undef, rdi |-> ctx,
                 rbx |-> Caller, rsp |-> 0, saved |-> undef,
                 regs |-> [r \in Regs |-> undef], returned |-> FALSE]

Load(m, r) == IF m.rbx = Frame THEN m.regs[r] ELSE junk

Store(m, r, v) == IF m.rbx = Frame THEN [m EXCEPT !.regs[r] = v] ELSE m

(* The trampoline leaves result in a0 of the regs[] it is given.           *)
Call(m, result) ==
    LET after == [m EXCEPT !.rax = junk, !.rcx = junk, !.rdi = junk]
    IN  IF m.rax = Helper /\ m.rdi = Frame
        THEN [after EXCEPT !.regs[10] = result] ELSE after

Step(m, o, result) ==
    CASE o.i = "push rbx"  -> [m EXCEPT !.rsp = @ - 8, !.saved = m.rbx]
      [] o.i = "pop rbx"   -> [m EXCEPT !.rsp = @ + 8, !.rbx = m.saved]
      [] o.i = "sub rsp"   -> [m EXCEPT !.rsp = @ - o.x]
      [] o.i = "add rsp"   -> [m EXCEPT !.rsp = @ + o.x]
      [] o.i = "mov rbx rsp" -> [m EXCEPT !.rbx = Frame]
      [] o.i = "mov rdi rbx" -> [m EXCEPT !.rdi = m.rbx]
      [] o.i = "mov mem rdi" -> Store(m, o.x, m.rdi)
      [] o.i = "mov mem rax" -> Store(m, o.x, m.rax)
      [] o.i = "mov rax mem" -> [m EXCEPT !.rax = Load(m, o.x)]
      [] o.i = "mov rcx mem" -> [m EXCEPT !.rcx = Load(m, o.x)]
      [] o.i = "mov rax imm" -> [m EXCEPT !.rax = val("num", s64(o.x))]
      [] o.i = "mov rax trampoline" -> [m EXCEPT !.rax = Helper]
      [] o.i = "add rax imm" -> [m EXCEPT !.rax = Plus(@, o.x)]
      [] o.i = "xor rax rax" -> [m EXCEPT !.rax = val("num", 0)]
      [] o.i \in {"ADD", "SUB", "OR", "AND", "XOR", "MUL"} ->
             [m EXCEPT !.rax = AluOf(o.i, @, m.rcx)]
      [] o.i \in {"SLL", "SRL", "SRA"} ->
             [m EXCEPT !.rax = ShiftOf(o.i, @, o.x)]
      [] o.i = "call rax" -> Call(m, result)
      [] o.i = "ret" -> [m EXCEPT !.returned = TRUE]

Exec(m, code, result) == FoldLeft(LAMBDA s, o : Step(s, o, result), m, code)
=============================================================================
