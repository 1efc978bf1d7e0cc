------------------------------ MODULE NodeProofs ----------------------------
(***************************************************************************)
(* The theorems about a node: the Zephyr runtime and attestation.          *)
(*                                                                         *)
(* The program slots of the Zephyr runtime, for every number of threads,   *)
(* slots and text buffers: as long as each thread keeps to the programs it *)
(* loaded and the ids do not wrap, what the code does outside prog_mutex   *)
(* is safe.                                                                *)
(*                                                                         *)
(* Attestation, for any keys and nonces and any bound on the counter.  The *)
(* properties are not inductive: that a pair is never mixed needs to know  *)
(* that a command that writes one found no public key (PairInv), and that  *)
(* numbers rise needs to know what the number of a quote in the making is  *)
(* to the file while the file is empty (NumberInv).                        *)
(***************************************************************************)
EXTENDS ZephyrRuntime, Attest, TLAPS

(* Where a thread changes a slot: the slot is then its own.                *)
Working == {"install", "publish", "uninstall", "clear", "free_slot"}

(* A slot that is worked on belongs to the one thread at it, a slot in a   *)
(* handle to the one thread that has the handle.                           *)
OwnInv ==
    /\ \A t \in Threads : tpc[t] \in Working =>
           cur[t] \in Slots /\ slots[cur[t]].in_use
    /\ \A t \in Threads : tpc[t] \in {"call", "running"} =>
           \E h \in known[t] : h[1] = cur[t]
    /\ \A t, u \in Threads :
           tpc[t] \in Working /\ tpc[u] \in Working /\ cur[t] = cur[u] => t = u
    /\ \A t, u \in Threads : \A h \in known[u] :
           tpc[t] \in Working => h[1] # cur[t]
    /\ \A t, u \in Threads : \A h \in known[t], g \in known[u] :
           h[1] = g[1] => t = u

(* What the slot holds at each point of an install and an uninstall.       *)
Phase(t) ==
    /\ tpc[t] \in {"install", "free_slot"} => slots[cur[t]].text = NULL
    /\ tpc[t] \in {"publish", "uninstall"} =>
           slots[cur[t]].text # NULL /\ buf[slots[cur[t]].text] = "live"
    /\ tpc[t] = "clear" =>
           slots[cur[t]].text # NULL /\ buf[slots[cur[t]].text] = "freed"
    /\ tpc[t] = "running" => fn[t] = slots[cur[t]].fn
PhaseInv == \A t \in Threads : Phase(t)

TextInv ==
    /\ \A s \in Slots : ~slots[s].in_use => slots[s].text = NULL
    /\ \A s \in Slots : slots[s].text # NULL =>
           buf[slots[s].text] \in {"live", "freed"}
    /\ \A r, s \in Slots :
           slots[r].text = slots[s].text /\ slots[r].text # NULL => r = s
    /\ \A b \in Bufs : buf[b] = "live" => \E s \in Slots : slots[s].text = b
    /\ \A b \in Bufs : buf[b] # "double"

(* What a handle stands for.                                               *)
HandleInv == \A t \in Threads : \A h \in known[t] :
    /\ slots[h[1]].in_use /\ slots[h[1]].id = h[2]
    /\ slots[h[1]].text # NULL /\ slots[h[1]].fn = slots[h[1]].text
    /\ buf[slots[h[1]].text] = "live"

(* The ids given out so far are 1 .. Given, and every thread on its way to *)
(* the next one is a load that has not got its id: n such threads leave n  *)
(* of the loads without one.                                               *)
Given == IF nextId = 0 THEN IdMod - 1 ELSE nextId - 1
Pending == {t \in Threads : tpc[t] \in {"verify", "alloc"}}
IdInv ==
    /\ \A s \in Slots : slots[s].in_use => slots[s].id \in 1 .. Given
    /\ \A r, s \in Slots :
           slots[r].in_use /\ slots[s].in_use /\ slots[r].id = slots[s].id
               => r = s
Distinct(n, S) ==
    {g \in [1 .. n -> S] : \A i, j \in 1 .. n : g[i] = g[j] => i = j}
CountInv == \A n \in Nat : Distinct(n, Pending) # {} => Given + n <= loads

RInv == /\ RuntimeTypeOK /\ OwnInv /\ PhaseInv /\ TextInv /\ HandleInv
        /\ IdInv /\ CountInv

(* The assumptions under which the theorems hold: no thread looks up the   *)
(* program of another, and there are fewer loads than ids.                 *)
Separate == ~Sharing /\ MaxLoads < IdMod

(* struct merlin_prog, as RuntimeTypeOK has it.                            *)
Slot == [in_use : BOOLEAN, id : ProgIds,
         text : Bufs \cup {NULL}, fn : Bufs \cup {NULL}]

(* A step of t leaves alone what belongs to another thread.                *)
OnlyThread(t) == \A u \in Threads : u # t =>
    /\ tpc'[u] = tpc[u] /\ cur'[u] = cur[u]
    /\ fn'[u] = fn[u] /\ known'[u] = known[u]

-----------------------------------------------------------------------------
(* n distinct elements of a set with one more element make n + 1, and of   *)
(* any n all but one differ from a given one.                              *)
LEMMA OneMore ==
    ASSUME NEW n \in Nat, NEW S, NEW t, t \notin S, Distinct(n, S) # {}
    PROVE  Distinct(n + 1, S \cup {t}) # {}
<1>1. PICK g \in [1 .. n -> S] : \A i, j \in 1 .. n : g[i] = g[j] => i = j
  BY DEF Distinct
<1> DEFINE f == [i \in 1 .. n + 1 |-> IF i = n + 1 THEN t ELSE g[i]]
<1>2. \A i \in 1 .. n + 1 : i # n + 1 => i \in 1 .. n
  OBVIOUS
<1>3. f \in [1 .. n + 1 -> S \cup {t}]
  BY <1>1, <1>2
<1>4. \A i, j \in 1 .. n + 1 : f[i] = f[j] => i = j
  BY <1>1, <1>2
<1> QED BY <1>3, <1>4 DEF Distinct

LEMMA OneLess ==
    ASSUME NEW n \in Nat, NEW S, NEW t, Distinct(n + 1, S) # {}
    PROVE  Distinct(n, S \ {t}) # {}
<1>1. PICK g \in [1 .. n + 1 -> S] :
             \A i, j \in 1 .. n + 1 : g[i] = g[j] => i = j
  BY DEF Distinct
<1>2. \A i \in 1 .. n : i \in 1 .. n + 1 /\ i # n + 1
  OBVIOUS
<1> DEFINE f == [i \in 1 .. n |-> IF g[i] = t THEN g[n + 1] ELSE g[i]]
<1>3. n + 1 \in 1 .. n + 1
  OBVIOUS
<1>4. \A i \in 1 .. n : f[i] \in S /\ f[i] # t
  BY <1>1, <1>2, <1>3
<1>5. f \in [1 .. n -> S \ {t}]
  BY <1>4
<1>6. \A i, j \in 1 .. n : f[i] = f[j] => i = j
  BY <1>1, <1>2, <1>3
<1> QED BY <1>5, <1>6 DEF Distinct

(* What a step of t does to the count of the loads without an id: nothing  *)
(* if no such load is added, and else one more, or one less.               *)
LEMMA CountKept ==
    ASSUME CountInv, NEW t \in Threads, OnlyThread(t),
           t \in Pending' => t \in Pending,
           Given' = Given, loads' = loads
    PROVE  CountInv'
<1>1. Pending' \subseteq Pending
  BY DEF Pending, OnlyThread
<1>2. \A n \in Nat : Distinct(n, Pending') # {} => Distinct(n, Pending) # {}
  BY <1>1 DEF Distinct
<1> QED BY <1>2 DEF CountInv, Distinct

LEMMA CountLoad ==
    ASSUME CountInv, NEW t \in Threads, OnlyThread(t),
           Given \in Nat, loads \in Nat, Given <= loads,
           t \notin Pending, Given' = Given, loads' = loads + 1
    PROVE  CountInv'
<1>1. Pending' \ {t} \subseteq Pending
  BY DEF Pending, OnlyThread
<1> DEFINE P == Pending'
<1>2. ASSUME NEW n \in Nat, Distinct(n, P) # {}
      PROVE  Given + n <= loads + 1
  <2>1. CASE n = 0
    BY <2>1
  <2>2. CASE n # 0
    <3>1. n - 1 \in Nat /\ (n - 1) + 1 = n
      BY <2>2
    <3> HIDE DEF P
    <3>2. Distinct(n - 1, P \ {t}) # {}
      BY <1>2, <3>1, OneLess
    <3>3. Distinct(n - 1, Pending) # {}
      BY <1>1, <3>2 DEF Distinct, P
    <3>4. Given + (n - 1) <= loads
      BY <3>1, <3>3 DEF CountInv
    <3> QED BY <3>1, <3>4
  <2> QED BY <2>1, <2>2
<1> QED BY <1>2 DEF CountInv, Distinct

LEMMA CountGiven ==
    ASSUME CountInv, NEW t \in Threads, OnlyThread(t), Given \in Nat,
           loads \in Nat, t \in Pending, t \notin Pending',
           Given' = Given + 1, loads' = loads
    PROVE  CountInv'
<1>1. t \notin Pending' /\ Pending' \cup {t} \subseteq Pending
  BY DEF Pending, OnlyThread
<1> DEFINE P == Pending'
<1>2. ASSUME NEW n \in Nat, Distinct(n, P) # {}
      PROVE  (Given + 1) + n <= loads
  <2> HIDE DEF P
  <2>1. Distinct(n + 1, P \cup {t}) # {}
    BY <1>1, <1>2, OneMore DEF P
  <2>2. Distinct(n + 1, Pending) # {}
    BY <1>1, <2>1 DEF Distinct, P
  <2>3. n + 1 \in Nat
    OBVIOUS
  <2>4. Given + (n + 1) <= loads
    BY <2>2, <2>3 DEF CountInv
  <2> QED BY <2>4
<1> QED BY <1>2 DEF CountInv, Distinct

(* So the ids given out are fewer than the loads while one waits for its.  *)
LEMMA GivenBound ==
    ASSUME RInv
    PROVE  /\ Given \in Nat /\ loads \in Nat /\ Given <= loads
           /\ \A t \in Pending : Given + 1 <= loads
<1>1. Given \in Nat /\ loads \in Nat
  BY RuntimeAssumption DEF Given, RInv, RuntimeTypeOK, ProgIds
<1>2. Distinct(0, Pending) # {}
  <2>1. [i \in 1 .. 0 |-> 0] \in Distinct(0, Pending)
    BY DEF Distinct
  <2> QED BY <2>1
<1>3. Given + 0 <= loads
  BY <1>2 DEF RInv, CountInv
<1>4. ASSUME NEW t \in Pending
      PROVE  Distinct(1, Pending) # {}
  <2>1. [i \in 1 .. 1 |-> t] \in Distinct(1, Pending)
    BY DEF Distinct
  <2> QED BY <2>1
<1> QED BY <1>1, <1>3, <1>4 DEF RInv, CountInv

LEMMA RInvStutter ==
    ASSUME RInv, UNCHANGED runtimeVars
    PROVE  RInv'
<1> USE DEF runtimeVars
<1>1. RuntimeTypeOK'
  BY DEF RInv, RuntimeTypeOK
<1>2. OwnInv'
  BY DEF RInv, OwnInv
<1>3. PhaseInv' /\ HandleInv'
  BY DEF RInv, PhaseInv, Phase, HandleInv
<1>4. TextInv' /\ IdInv' /\ CountInv'
  BY DEF RInv, TextInv, IdInv, CountInv, Given, Pending, Distinct
<1> QED BY <1>1, <1>2, <1>3, <1>4 DEF RInv

(* The steps that change neither a slot nor a buffer.                      *)
LEMMA SlotsUntouched ==
    ASSUME RInv, UNCHANGED <<slots, buf, nextId>>
    PROVE  TextInv' /\ IdInv'
  BY DEF RInv, TextInv, IdInv, Given

(* There only the thread itself may be in another phase.                   *)
LEMMA PhaseKept ==
    ASSUME RInv, NEW t \in Threads, OnlyThread(t), UNCHANGED <<slots, buf>>,
           Phase(t)'
    PROVE  PhaseInv'
<1> SUFFICES ASSUME NEW u \in Threads, u # t PROVE Phase(u)'
  BY DEF PhaseInv
<1>1. Phase(u)
  BY DEF RInv, PhaseInv
<1>2. tpc'[u] = tpc[u] /\ cur'[u] = cur[u] /\ fn'[u] = fn[u]
  BY DEF OnlyThread
<1> QED BY <1>1, <1>2 DEF Phase

(* The steps that take no slot and give no handle.                         *)
LEMMA OwnersKept ==
    ASSUME RInv, NEW t \in Threads, OnlyThread(t), UNCHANGED <<slots, known>>,
           tpc'[t] \in Working => tpc[t] \in Working /\ cur'[t] = cur[t],
           tpc'[t] \in {"call", "running"} =>
               \E h \in known[t] : h[1] = cur'[t]
    PROVE  OwnInv'
<1>1. \A u \in Threads :
          tpc'[u] \in Working => tpc[u] \in Working /\ cur'[u] = cur[u]
  BY DEF OnlyThread
<1>2. \A u \in Threads : tpc'[u] \in {"call", "running"} =>
          \E h \in known[u] : h[1] = cur'[u]
  BY DEF OnlyThread, RInv, OwnInv
<1> QED BY <1>1, <1>2 DEF RInv, OwnInv

LEMMA LoadStep ==
    ASSUME RInv, NEW t \in Threads, Load(t)
    PROVE  RInv'
<1> USE DEF Load, Proceed
<1>1. OnlyThread(t) /\ tpc[t] = "idle" /\ tpc'[t] = "verify"
  BY DEF RInv, RuntimeTypeOK, OnlyThread
<1>2. RuntimeTypeOK'
  BY RuntimeAssumption DEF RInv, RuntimeTypeOK
<1>3. OwnInv'
  BY <1>1, OwnersKept DEF Working
<1>4. PhaseInv'
  <2>1. Phase(t)'
    BY <1>1 DEF RInv, PhaseInv, Phase
  <2> QED BY <1>1, <2>1, PhaseKept
<1>5. TextInv' /\ IdInv' /\ HandleInv'
  BY SlotsUntouched DEF RInv, HandleInv
<1>6. CountInv'
  <2>1. Given' = Given /\ loads' = loads + 1
    BY DEF Given
  <2>2. t \notin Pending
    BY <1>1 DEF Pending
  <2> QED BY <1>1, <2>1, <2>2, CountLoad, GivenBound DEF RInv
<1> QED BY <1>2, <1>3, <1>4, <1>5, <1>6 DEF RInv

LEMMA LoadVerifyStep ==
    ASSUME RInv, NEW t \in Threads, LoadVerify(t)
    PROVE  RInv'
<1> USE DEF LoadVerify, Proceed
<1>1. OnlyThread(t) /\ tpc[t] = "verify" /\ tpc'[t] \in {"alloc", "idle"}
  BY DEF RInv, RuntimeTypeOK, OnlyThread
<1>2. RuntimeTypeOK'
  BY DEF RInv, RuntimeTypeOK
<1>3. OwnInv'
  BY <1>1, OwnersKept DEF Working
<1>4. PhaseInv'
  <2>1. Phase(t)'
    BY <1>1 DEF RInv, PhaseInv, Phase
  <2> QED BY <1>1, <2>1, PhaseKept
<1>5. TextInv' /\ IdInv' /\ HandleInv'
  BY SlotsUntouched DEF RInv, HandleInv
<1>6. CountInv'
  <2>1. Given' = Given /\ loads' = loads
    BY DEF Given
  <2>2. t \in Pending
    BY <1>1 DEF Pending
  <2> QED BY <1>1, <2>1, <2>2, CountKept DEF RInv
<1> QED BY <1>2, <1>3, <1>4, <1>5, <1>6 DEF RInv

(* The slot taken was nobody's, and the id it gets was never given out.    *)
LEMMA AllocSlotStep ==
    ASSUME RInv, Separate, NEW t \in Threads, AllocSlot(t)
    PROVE  RInv'
<1>1. PICK s \in Slots :
        /\ ~slots[s].in_use
        /\ slots' = [slots EXCEPT ![s] =
                        [Zeroed EXCEPT !.in_use = TRUE, !.id = nextId]]
        /\ nextId' = (nextId + 1) % IdMod
        /\ Proceed(t, "alloc", "install")
        /\ cur' = [cur EXCEPT ![t] = s]
        /\ UNCHANGED <<loads, buf, fn, known>>
  BY Zenon DEF AllocSlot
<1> USE DEF Proceed
<1>2. /\ OnlyThread(t)
      /\ tpc[t] = "alloc" /\ tpc'[t] = "install" /\ cur'[t] = s
  BY <1>1 DEF RInv, RuntimeTypeOK, OnlyThread
<1>3. /\ slots'[s].in_use /\ slots'[s].id = nextId
      /\ slots'[s].text = NULL /\ slots'[s].fn = NULL
      /\ \A r \in Slots : r # s => slots'[r] = slots[r]
  BY <1>1 DEF RInv, RuntimeTypeOK, Zeroed
<1>4. Given \in Nat /\ Given + 1 <= loads /\ loads < IdMod
  <2>1. t \in Pending
    BY <1>2 DEF Pending
  <2>2. loads <= MaxLoads
    BY RuntimeAssumption DEF RInv, RuntimeTypeOK
  <2> QED BY <2>1, <2>2, GivenBound, RuntimeAssumption DEF Separate
<1>5. nextId = Given + 1 /\ Given' = Given + 1 /\ nextId' \in ProgIds
  <2>1. /\ nextId \in 0 .. IdMod - 1
        /\ IdMod \in Nat /\ IdMod > 1 /\ loads \in Nat
    BY RuntimeAssumption DEF RInv, RuntimeTypeOK, ProgIds
  <2>2. nextId # 0 /\ nextId = Given + 1
    BY <1>4, <2>1 DEF Given
  <2>3. nextId' = IF nextId + 1 = IdMod THEN 0 ELSE nextId + 1
    BY <1>1, <2>1
  <2> QED BY <2>1, <2>2, <2>3 DEF Given, ProgIds
<1>6. RuntimeTypeOK'
  <2>1. [Zeroed EXCEPT !.in_use = TRUE, !.id = nextId] \in
            [in_use : BOOLEAN, id : ProgIds,
             text : Bufs \cup {NULL}, fn : Bufs \cup {NULL}]
    BY DEF Zeroed, RInv, RuntimeTypeOK
  <2> QED BY <1>1, <1>5, <2>1 DEF RInv, RuntimeTypeOK
<1>7. /\ \A u \in Threads : tpc[u] \in Working => cur[u] # s
      /\ \A u \in Threads : \A h \in known[u] : h[1] # s
  BY <1>1 DEF RInv, OwnInv, HandleInv
<1>8. OwnInv'
  BY <1>1, <1>2, <1>3, <1>7 DEF RInv, RuntimeTypeOK, OwnInv, Working, OnlyThread
<1>9. \A u \in Threads : \A h \in known[u] : h[1] \in Slots
  BY DEF RInv, RuntimeTypeOK
<1>10. PhaseInv'
  <2> SUFFICES ASSUME NEW u \in Threads, u # t PROVE Phase(u)'
    BY <1>2, <1>3 DEF PhaseInv, Phase
  <2>1. tpc[u] \in Working \cup {"running"} => cur[u] \in Slots /\ cur[u] # s
    BY <1>7, <1>9 DEF RInv, OwnInv
  <2>9. Phase(u)
    BY DEF RInv, PhaseInv
  <2> QED BY <1>1, <1>2, <1>3, <2>1, <2>9 DEF Phase, OnlyThread, Working
<1>11. TextInv'
  <2>1. slots[s].text = NULL
    BY <1>1 DEF RInv, TextInv
  <2>2. \A r \in Slots : slots'[r].text = slots[r].text
    BY <1>3, <2>1
  <2>3. \A r \in Slots : ~slots'[r].in_use => ~slots[r].in_use
    BY <1>3
  <2>4. NULL \notin Bufs
    BY RuntimeAssumption
  <2> QED BY <1>1, <2>2, <2>3, <2>4 DEF RInv, TextInv
<1>12. HandleInv'
  BY <1>1, <1>3, <1>7, <1>9 DEF RInv, HandleInv
<1>13. IdInv'
  BY <1>3, <1>4, <1>5 DEF RInv, IdInv
<1>14. CountInv'
  <2>1. t \in Pending /\ t \notin Pending'
    BY <1>2 DEF Pending
  <2> QED BY <1>1, <1>2, <1>5, <2>1, CountGiven, GivenBound DEF RInv
<1> QED BY <1>6, <1>8, <1>10, <1>11, <1>12, <1>13, <1>14 DEF RInv

LEMMA AllocSlotFailStep ==
    ASSUME RInv, NEW t \in Threads, AllocSlotFail(t)
    PROVE  RInv'
<1> USE DEF AllocSlotFail, Proceed
<1>1. OnlyThread(t) /\ tpc[t] = "alloc" /\ tpc'[t] = "idle"
  BY DEF RInv, RuntimeTypeOK, OnlyThread
<1>2. RuntimeTypeOK'
  BY DEF RInv, RuntimeTypeOK
<1>3. OwnInv'
  BY <1>1, OwnersKept DEF Working
<1>4. PhaseInv'
  <2>1. Phase(t)'
    BY <1>1 DEF RInv, PhaseInv, Phase
  <2> QED BY <1>1, <2>1, PhaseKept
<1>5. TextInv' /\ IdInv' /\ HandleInv'
  BY SlotsUntouched DEF RInv, HandleInv
<1>6. CountInv'
  <2>1. Given' = Given /\ loads' = loads
    BY DEF Given
  <2>2. t \in Pending
    BY <1>1 DEF Pending
  <2> QED BY <1>1, <2>1, <2>2, CountKept DEF RInv
<1> QED BY <1>2, <1>3, <1>4, <1>5, <1>6 DEF RInv

-----------------------------------------------------------------------------
(* The steps that wait for no id: the count of ids is as it was.           *)
LEMMA CountUntouched ==
    ASSUME RInv, NEW t \in Threads, OnlyThread(t),
           UNCHANGED <<nextId, loads>>,
           t \notin Pending, t \notin Pending'
    PROVE  CountInv'
<1>1. Given' = Given
  BY DEF Given
<1> QED BY <1>1, CountKept DEF RInv

(* A buffer nobody has becomes the text of a slot that has none.           *)
LEMMA InstallStep ==
    ASSUME RInv, NEW t \in Threads, Install(t)
    PROVE  RInv'
<1>1. PICK b \in Bufs :
        /\ buf[b] = "none"
        /\ Proceed(t, "install", "publish")
        /\ buf' = [buf EXCEPT ![b] = "live"]
        /\ slots' = [slots EXCEPT ![cur[t]].text = b]
        /\ UNCHANGED <<nextId, loads, cur, fn, known>>
  BY Zenon DEF Install
<1> USE DEF Proceed
<1> DEFINE c == cur[t]
<1>2. OnlyThread(t) /\ tpc[t] = "install" /\ tpc'[t] = "publish"
  BY <1>1 DEF RInv, RuntimeTypeOK, OnlyThread
<1>3. /\ c \in Slots /\ slots[c].in_use
      /\ slots[c].text = NULL /\ NULL \notin Bufs
  BY <1>2, RuntimeAssumption DEF RInv, OwnInv, PhaseInv, Phase, Working
<1>4. /\ \A s \in Slots : /\ slots'[s].in_use = slots[s].in_use
                          /\ slots'[s].id = slots[s].id
                          /\ slots'[s].fn = slots[s].fn
                          /\ s # c => slots'[s].text = slots[s].text
      /\ slots'[c].text = b
  BY <1>1, <1>3 DEF RInv, RuntimeTypeOK
<1>5. \A s \in Slots : slots[s].text # b
  BY <1>1, <1>3 DEF RInv, TextInv
<1>6. /\ buf'[b] = "live"
      /\ \A a \in Bufs : a # b => buf'[a] = buf[a]
      /\ \A s \in Slots : slots[s].text \in Bufs \cup {NULL}
  BY <1>1 DEF RInv, RuntimeTypeOK
<1>7. RuntimeTypeOK'
  <2>1. \A q \in Slot : [q EXCEPT !.text = b] \in Slot
    BY DEF Slot
  <2>2. slots' \in [Slots -> Slot]
    BY <1>1, <1>3, <2>1 DEF RInv, RuntimeTypeOK, Slot
  <2>3. /\ buf' \in [Bufs -> {"none", "live", "freed", "double"}]
        /\ tpc' \in [Threads -> {"idle", "verify", "alloc", "install",
                                "publish", "free_slot", "uninstall",
                                "clear", "call", "running"}]
    BY <1>1 DEF RInv, RuntimeTypeOK
  <2> QED BY <1>1, <2>2, <2>3 DEF RInv, RuntimeTypeOK, Slot
<1>8. OwnInv'
  BY <1>1, <1>2, <1>3, <1>4 DEF RInv, OwnInv, Working, OnlyThread
<1>9. PhaseInv'
  <2>1. Phase(t)'
    BY <1>1, <1>2, <1>3, <1>4, <1>6 DEF Phase
  <2> SUFFICES ASSUME NEW u \in Threads, u # t PROVE Phase(u)'
    BY <2>1 DEF PhaseInv, Phase
  <2>2. tpc'[u] = tpc[u] /\ cur'[u] = cur[u] /\ fn'[u] = fn[u]
    BY <1>2 DEF OnlyThread
  <2>3. tpc[u] \in Working => cur[u] \in Slots /\ cur[u] # c
    BY <1>2 DEF RInv, OwnInv, Working
  <2>4. tpc[u] = "running" => cur[u] \in Slots
    BY DEF RInv, OwnInv, RuntimeTypeOK
  <2>9. Phase(u)
    BY DEF RInv, PhaseInv
  <2> QED BY <1>4, <1>5, <1>6, <2>2, <2>3, <2>4, <2>9 DEF Phase, Working
<1>10. TextInv'
  <2>1. \A s \in Slots : ~slots'[s].in_use => slots'[s].text = NULL
    BY <1>3, <1>4 DEF RInv, TextInv
  <2>2. \A s \in Slots : slots'[s].text # NULL =>
            buf'[slots'[s].text] \in {"live", "freed"}
    BY <1>4, <1>5, <1>6 DEF RInv, TextInv
  <2>3. \A r, s \in Slots :
            slots'[r].text = slots'[s].text /\ slots'[r].text # NULL => r = s
    BY <1>4, <1>5 DEF RInv, TextInv
  <2>4. \A a \in Bufs : buf'[a] = "live" => \E s \in Slots : slots'[s].text = a
    BY <1>3, <1>4, <1>6 DEF RInv, TextInv
  <2>5. \A a \in Bufs : buf'[a] # "double"
    BY <1>6 DEF RInv, TextInv
  <2> QED BY <2>1, <2>2, <2>3, <2>4, <2>5 DEF TextInv
<1>11. HandleInv'
  <2>1. \A u \in Threads : \A h \in known[u] : h[1] \in Slots /\ h[1] # c
    BY <1>2 DEF RInv, RuntimeTypeOK, OwnInv, Working
  <2> QED BY <1>1, <1>4, <1>5, <1>6, <2>1 DEF RInv, HandleInv
<1>12. IdInv'
  BY <1>1, <1>4 DEF RInv, IdInv, Given
<1>13. CountInv'
  BY <1>1, <1>2, CountUntouched DEF Pending
<1> QED BY <1>7, <1>8, <1>9, <1>10, <1>11, <1>12, <1>13 DEF RInv

LEMMA InstallFailStep ==
    ASSUME RInv, NEW t \in Threads, InstallFail(t)
    PROVE  RInv'
<1> USE DEF InstallFail, Proceed
<1>1. OnlyThread(t) /\ tpc[t] = "install" /\ tpc'[t] = "free_slot"
  BY DEF RInv, RuntimeTypeOK, OnlyThread
<1>2. RuntimeTypeOK'
  BY DEF RInv, RuntimeTypeOK
<1>3. OwnInv'
  BY <1>1, OwnersKept DEF Working
<1>4. PhaseInv'
  <2>1. Phase(t)'
    BY <1>1 DEF RInv, PhaseInv, Phase
  <2> QED BY <1>1, <2>1, PhaseKept
<1>5. TextInv' /\ IdInv' /\ HandleInv'
  BY SlotsUntouched DEF RInv, HandleInv
<1>6. CountInv'
  BY <1>1, CountUntouched DEF Pending
<1> QED BY <1>2, <1>3, <1>4, <1>5, <1>6 DEF RInv

(* The slot worked on becomes a slot in a handle.                          *)
LEMMA PublishStep ==
    ASSUME RInv, NEW t \in Threads, Publish(t)
    PROVE  RInv'
<1> USE DEF Publish, Finish, Proceed
<1> DEFINE c == cur[t]
           n == <<c, slots[c].id>>
<1>1. /\ OnlyThread(t) /\ tpc[t] = "publish" /\ tpc'[t] = "idle"
      /\ known'[t] = known[t] \cup {n}
  BY DEF RInv, RuntimeTypeOK, OnlyThread
<1>2. /\ c \in Slots /\ slots[c].in_use
      /\ slots[c].text # NULL /\ buf[slots[c].text] = "live"
  BY <1>1 DEF RInv, OwnInv, PhaseInv, Phase, Working
<1>3. /\ \A s \in Slots : /\ slots'[s].in_use = slots[s].in_use
                          /\ slots'[s].id = slots[s].id
                          /\ slots'[s].text = slots[s].text
                          /\ s # c => slots'[s].fn = slots[s].fn
      /\ slots'[c].fn = slots[c].text
  BY <1>2 DEF RInv, RuntimeTypeOK
<1>4. n \in Slots \X ProgIds /\ n[1] = c /\ n[2] = slots[c].id
  BY <1>2 DEF RInv, RuntimeTypeOK
<1>5. RuntimeTypeOK'
  BY <1>2, <1>4 DEF RInv, RuntimeTypeOK
<1>6. \A u \in Threads : \A h \in known[u] : h[1] \in Slots /\ h[1] # c
  BY <1>1 DEF RInv, RuntimeTypeOK, OwnInv, Working
<1>7. OwnInv'
  <2>1. \A u \in Threads : tpc'[u] \in Working =>
            /\ u # t /\ tpc[u] \in Working /\ cur'[u] = cur[u]
            /\ cur[u] \in Slots /\ slots'[cur[u]].in_use /\ cur[u] # c
    BY <1>1, <1>3 DEF RInv, OwnInv, Working, OnlyThread
  <2>2. \A u \in Threads : tpc'[u] \in {"call", "running"} =>
            \E h \in known'[u] : h[1] = cur'[u]
    BY <1>1 DEF RInv, OwnInv, OnlyThread
  <2>3. \A u \in Threads : \A h \in known'[u] :
            h \in known[u] \/ (u = t /\ h[1] = c)
    BY <1>1, <1>4 DEF OnlyThread
  <2>4. \A u, v \in Threads :
            tpc'[u] \in Working /\ tpc'[v] \in Working /\ cur'[u] = cur'[v]
                => u = v
    BY <2>1 DEF RInv, OwnInv
  <2>5. \A u, v \in Threads : \A h \in known'[v] :
            tpc'[u] \in Working => h[1] # cur'[u]
    BY <2>1, <2>3 DEF RInv, OwnInv
  <2>6. \A u, v \in Threads : \A h \in known'[u], g \in known'[v] :
            h[1] = g[1] => u = v
    BY <1>6, <2>3 DEF RInv, OwnInv
  <2> QED BY <2>1, <2>2, <2>4, <2>5, <2>6 DEF OwnInv
<1>8. PhaseInv'
  <2> SUFFICES ASSUME NEW u \in Threads, u # t PROVE Phase(u)'
    BY <1>1 DEF PhaseInv, Phase
  <2>1. tpc'[u] = tpc[u] /\ cur'[u] = cur[u] /\ fn'[u] = fn[u]
    BY <1>1 DEF OnlyThread
  <2>2. tpc[u] \in Working => cur[u] \in Slots
    BY DEF RInv, OwnInv
  <2>3. tpc[u] = "running" => cur[u] \in Slots /\ cur[u] # c
    BY <1>6 DEF RInv, OwnInv
  <2>9. Phase(u)
    BY DEF RInv, PhaseInv
  <2> QED BY <1>3, <2>1, <2>2, <2>3, <2>9 DEF Phase, Working
<1>9. TextInv'
  BY <1>3 DEF RInv, TextInv
<1>10. HandleInv'
  <2>1. \A u \in Threads : \A h \in known'[u] : h \in known[u] \/ h = n
    BY <1>1 DEF OnlyThread
  <2>2. \A u \in Threads : \A h \in known[u] :
            /\ slots'[h[1]].in_use /\ slots'[h[1]].id = h[2]
            /\ slots'[h[1]].text # NULL /\ slots'[h[1]].fn = slots'[h[1]].text
            /\ buf'[slots'[h[1]].text] = "live"
    BY <1>3, <1>6 DEF RInv, HandleInv
  <2>3. /\ slots'[n[1]].in_use /\ slots'[n[1]].id = n[2]
        /\ slots'[n[1]].text # NULL /\ slots'[n[1]].fn = slots'[n[1]].text
        /\ buf'[slots'[n[1]].text] = "live"
    BY <1>2, <1>3, <1>4
  <2> QED BY <2>1, <2>2, <2>3 DEF HandleInv
<1>11. IdInv'
  BY <1>3 DEF RInv, IdInv, Given
<1>12. CountInv'
  BY <1>1, CountUntouched DEF Pending
<1> QED BY <1>5, <1>7, <1>8, <1>9, <1>10, <1>11, <1>12 DEF RInv

-----------------------------------------------------------------------------
(* The handle goes and its slot becomes the slot worked on: no other       *)
(* thread has a handle to it, and t itself runs nothing.                   *)
LEMMA UnloadStep ==
    ASSUME RInv, NEW t \in Threads, NEW h \in known[t], Unload(t, h)
    PROVE  RInv'
<1> USE DEF Unload, Proceed
<1>1. h[1] \in Slots /\ slots[h[1]].in_use
  BY DEF RInv, RuntimeTypeOK, HandleInv
<1>2. /\ OnlyThread(t) /\ tpc[t] = "idle" /\ tpc'[t] = "uninstall"
      /\ cur'[t] = h[1] /\ known'[t] = known[t] \ {h}
  BY <1>1 DEF RInv, RuntimeTypeOK, OnlyThread
<1>3. RuntimeTypeOK'
  BY <1>1 DEF RInv, RuntimeTypeOK
<1>4. \A u \in Threads : tpc[u] \in Working => cur[u] # h[1]
  BY DEF RInv, OwnInv
<1>5. \A u \in Threads : \A g \in known'[u] : g \in known[u] /\ g[1] # h[1]
  <2>1. \A u \in Threads : \A g \in known'[u] : g \in known[u]
    BY <1>2 DEF OnlyThread
  <2>2. \A u \in Threads : \A g \in known'[u] : g[1] = h[1] => u = t
    BY <2>1 DEF RInv, OwnInv
  <2>3. \A g \in known[t] : g[1] = h[1] => g = h
    <3>1. \A g \in known[t] : g = <<g[1], g[2]>> /\ slots[g[1]].id = g[2]
      BY DEF RInv, RuntimeTypeOK, HandleInv
    <3> QED BY <3>1
  <2> QED BY <1>2, <2>1, <2>2, <2>3
<1>6. OwnInv'
  <2>1. \A u \in Threads : tpc'[u] \in Working =>
            cur'[u] \in Slots /\ slots'[cur'[u]].in_use
    BY <1>1, <1>2 DEF RInv, OwnInv, OnlyThread
  <2>2. \A u \in Threads : tpc'[u] \in {"call", "running"} =>
            \E g \in known'[u] : g[1] = cur'[u]
    BY <1>2 DEF RInv, OwnInv, OnlyThread
  <2>3. \A u, v \in Threads :
            tpc'[u] \in Working /\ tpc'[v] \in Working /\ cur'[u] = cur'[v]
                => u = v
    BY <1>2, <1>4 DEF RInv, OwnInv, OnlyThread
  <2>4. \A u, v \in Threads : \A g \in known'[v] :
            tpc'[u] \in Working => g[1] # cur'[u]
    BY <1>2, <1>5 DEF RInv, OwnInv, OnlyThread
  <2>5. \A u, v \in Threads : \A f \in known'[u], g \in known'[v] :
            f[1] = g[1] => u = v
    BY <1>5 DEF RInv, OwnInv
  <2> QED BY <2>1, <2>2, <2>3, <2>4, <2>5 DEF OwnInv
<1>7. PhaseInv'
  <2>1. slots[h[1]].text # NULL /\ buf[slots[h[1]].text] = "live"
    BY DEF RInv, HandleInv
  <2>2. Phase(t)'
    BY <1>2, <2>1 DEF Phase
  <2> SUFFICES ASSUME NEW u \in Threads, u # t PROVE Phase(u)'
    BY <2>2 DEF PhaseInv, Phase
  <2>3. tpc'[u] = tpc[u] /\ cur'[u] = cur[u] /\ fn'[u] = fn[u]
    BY <1>2 DEF OnlyThread
  <2>9. Phase(u)
    BY DEF RInv, PhaseInv
  <2> QED BY <2>3, <2>9 DEF Phase
<1>8. TextInv' /\ IdInv'
  BY SlotsUntouched
<1>9. HandleInv'
  BY <1>5 DEF RInv, HandleInv
<1>10. CountInv'
  BY <1>2, CountUntouched DEF Pending
<1> QED BY <1>3, <1>6, <1>7, <1>8, <1>9, <1>10 DEF RInv

(* The text freed is in no handle, so no run is in it.                     *)
LEMMA UninstallStep ==
    ASSUME RInv, NEW t \in Threads, Uninstall(t)
    PROVE  RInv'
<1> USE DEF Uninstall, Proceed
<1> DEFINE c == cur[t]
           b == slots[c].text
<1>1. OnlyThread(t) /\ tpc[t] = "uninstall" /\ tpc'[t] = "clear"
  BY DEF RInv, RuntimeTypeOK, OnlyThread
<1>2. c \in Slots /\ b \in Bufs /\ b # NULL /\ buf[b] = "live"
  BY <1>1 DEF RInv, RuntimeTypeOK, OwnInv, PhaseInv, Phase, Working
<1>3. buf' = [buf EXCEPT ![b] = "freed"]
  BY <1>2
<1>4. buf'[b] = "freed" /\ \A a \in Bufs : a # b => buf'[a] = buf[a]
  BY <1>2, <1>3 DEF RInv, RuntimeTypeOK
<1>5. RuntimeTypeOK'
  BY <1>3 DEF RInv, RuntimeTypeOK
<1>6. OwnInv'
  BY <1>1, OwnersKept DEF Working
<1>7. \A s \in Slots : /\ slots[s].text \in Bufs \cup {NULL}
                       /\ s # c => slots[s].text # b
  BY <1>2 DEF RInv, RuntimeTypeOK, TextInv
<1>8. PhaseInv'
  <2>1. Phase(t)'
    BY <1>1, <1>2, <1>4 DEF Phase
  <2> SUFFICES ASSUME NEW u \in Threads, u # t PROVE Phase(u)'
    BY <2>1 DEF PhaseInv, Phase
  <2>2. tpc'[u] = tpc[u] /\ cur'[u] = cur[u] /\ fn'[u] = fn[u]
    BY <1>1 DEF OnlyThread
  <2>3. tpc[u] \in Working => cur[u] \in Slots /\ cur[u] # c
    BY <1>1 DEF RInv, OwnInv, Working
  <2>9. Phase(u)
    BY DEF RInv, PhaseInv
  <2> QED BY <1>4, <1>7, <2>2, <2>3, <2>9 DEF Phase, Working
<1>9. TextInv'
  <2>1. \A s \in Slots : slots[s].text # NULL =>
            buf'[slots[s].text] \in {"live", "freed"}
    BY <1>4, <1>7 DEF RInv, TextInv
  <2>2. \A a \in Bufs : /\ buf'[a] = "live" => buf[a] = "live"
                        /\ buf'[a] # "double"
    BY <1>4 DEF RInv, TextInv
  <2> QED BY <2>1, <2>2 DEF RInv, TextInv
<1>10. HandleInv'
  <2>1. \A u \in Threads : \A h \in known[u] : h[1] \in Slots /\ h[1] # c
    BY <1>1 DEF RInv, RuntimeTypeOK, OwnInv, Working
  <2>2. known' = known /\ slots' = slots
    OBVIOUS
  <2>3. \A u \in Threads : \A h \in known[u] :
            /\ slots[h[1]].in_use /\ slots[h[1]].id = h[2]
            /\ slots[h[1]].text # NULL /\ slots[h[1]].fn = slots[h[1]].text
            /\ buf[slots[h[1]].text] = "live"
    BY DEF RInv, HandleInv
  <2>4. \A u \in Threads : \A h \in known[u] :
            buf'[slots[h[1]].text] = buf[slots[h[1]].text]
    BY <1>4, <1>7, <2>1, <2>3
  <2> QED BY <2>2, <2>3, <2>4 DEF HandleInv
<1>11. IdInv'
  BY DEF RInv, IdInv, Given
<1>12. CountInv'
  BY <1>1, CountUntouched DEF Pending
<1> QED BY <1>5, <1>6, <1>8, <1>9, <1>10, <1>11, <1>12 DEF RInv

LEMMA ClearStep ==
    ASSUME RInv, NEW t \in Threads, Clear(t)
    PROVE  RInv'
<1> DEFINE c == cur[t]
           r == [slots[c] EXCEPT !.text = NULL, !.fn = NULL]
<1>1. /\ OnlyThread(t) /\ tpc[t] = "clear" /\ tpc'[t] = "free_slot"
      /\ UNCHANGED <<nextId, loads, buf, cur, fn, known>>
  BY DEF Clear, Proceed, RInv, RuntimeTypeOK, OnlyThread
<1>2. /\ c \in Slots /\ slots[c].in_use
      /\ slots[c].text # NULL /\ buf[slots[c].text] = "freed"
  BY <1>1 DEF RInv, OwnInv, PhaseInv, Phase, Working
<1>3. /\ \A s \in Slots : /\ slots'[s].in_use = slots[s].in_use
                          /\ slots'[s].id = slots[s].id
                          /\ s # c => slots'[s] = slots[s]
      /\ slots'[c].text = NULL /\ slots'[c].fn = NULL
  BY <1>2 DEF Clear, RInv, RuntimeTypeOK
<1>4. RuntimeTypeOK'
  <2>1. slots' = [slots EXCEPT ![c] = r]
    BY <1>2 DEF Clear, RInv, RuntimeTypeOK
  <2>2. r \in Slot
    <3>1. \A q \in Slot : [q EXCEPT !.text = NULL, !.fn = NULL] \in Slot
      BY DEF Slot
    <3>2. slots[c] \in Slot
      BY <1>2 DEF RInv, RuntimeTypeOK, Slot
    <3> QED BY <3>1, <3>2
  <2>3. slots' \in [Slots -> Slot]
    BY <2>1, <2>2 DEF RInv, RuntimeTypeOK, Slot
  <2> QED BY <1>1, <2>3 DEF Clear, Proceed, RInv, RuntimeTypeOK, Slot
<1> HIDE DEF r
<1>5. OwnInv'
  <2>1. \A u \in Threads : /\ tpc'[u] \in Working <=> tpc[u] \in Working
                           /\ tpc'[u] \in {"call", "running"} <=>
                                  tpc[u] \in {"call", "running"}
    BY <1>1 DEF Working, OnlyThread
  <2>2. \A u \in Threads : tpc[u] \in Working =>
            cur[u] \in Slots /\ slots'[cur[u]].in_use
    BY <1>3 DEF RInv, OwnInv
  <2>3. \A u \in Threads : tpc[u] \in {"call", "running"} =>
            \E h \in known[u] : h[1] = cur[u]
    BY DEF RInv, OwnInv
  <2>4. \A u, v \in Threads :
            tpc[u] \in Working /\ tpc[v] \in Working /\ cur[u] = cur[v] => u = v
    BY DEF RInv, OwnInv
  <2>5. /\ \A u, v \in Threads : \A h \in known[v] :
               tpc[u] \in Working => h[1] # cur[u]
        /\ \A u, v \in Threads : \A h \in known[u], g \in known[v] :
               h[1] = g[1] => u = v
    BY DEF RInv, OwnInv
  <2>6. /\ \A u \in Threads : tpc'[u] \in Working =>
               cur'[u] \in Slots /\ slots'[cur'[u]].in_use
        /\ \A u \in Threads : tpc'[u] \in {"call", "running"} =>
               \E h \in known'[u] : h[1] = cur'[u]
    BY <1>1, <2>1, <2>2, <2>3
  <2>7. \A u, v \in Threads :
            tpc'[u] \in Working /\ tpc'[v] \in Working /\ cur'[u] = cur'[v]
                => u = v
    BY <1>1, <2>1, <2>4
  <2>8. /\ \A u, v \in Threads : \A h \in known'[v] :
               tpc'[u] \in Working => h[1] # cur'[u]
        /\ \A u, v \in Threads : \A h \in known'[u], g \in known'[v] :
               h[1] = g[1] => u = v
    BY <1>1, <2>1, <2>5
  <2> QED BY <2>6, <2>7, <2>8 DEF OwnInv
<1>6. \A u \in Threads : \A h \in known[u] : h[1] \in Slots /\ h[1] # c
  BY <1>1 DEF RInv, RuntimeTypeOK, OwnInv, Working
<1>7. PhaseInv'
  <2>1. Phase(t)'
    BY <1>1, <1>3 DEF PhaseInv, Phase
  <2> SUFFICES ASSUME NEW u \in Threads, u # t PROVE Phase(u)'
    BY <2>1 DEF PhaseInv, Phase
  <2>2. tpc'[u] = tpc[u] /\ cur'[u] = cur[u] /\ fn'[u] = fn[u]
    BY <1>1 DEF OnlyThread
  <2>3. tpc[u] \in Working => cur[u] \in Slots /\ cur[u] # c
    BY <1>1 DEF RInv, OwnInv, Working
  <2>4. tpc[u] = "running" => cur[u] \in Slots /\ cur[u] # c
    BY <1>6 DEF RInv, OwnInv
  <2>9. Phase(u)
    BY DEF RInv, PhaseInv
  <2> QED BY <1>1, <1>3, <2>2, <2>3, <2>4, <2>9 DEF Phase, Working
<1>8. TextInv'
  <2>1. \A b \in Bufs : buf[b] = "live" => b # slots[c].text
    BY <1>2
  <2>2. \A s \in Slots : ~slots'[s].in_use => slots'[s].text = NULL
    BY <1>3 DEF RInv, TextInv
  <2>3. \A s \in Slots : slots'[s].text # NULL => slots'[s] = slots[s]
    BY <1>3
  <2>4. \A b \in Bufs : buf[b] = "live" => \E s \in Slots : slots'[s].text = b
    BY <1>3, <2>1 DEF RInv, TextInv
  <2>5. /\ \A s \in Slots : slots'[s].text # NULL =>
               buf[slots'[s].text] \in {"live", "freed"}
        /\ \A q, s \in Slots :
               slots'[q].text = slots'[s].text /\ slots'[q].text # NULL => q = s
    BY <2>3 DEF RInv, TextInv
  <2>6. \A b \in Bufs : buf[b] # "double"
    BY DEF RInv, TextInv
  <2> QED BY <1>1, <2>2, <2>4, <2>5, <2>6 DEF TextInv
<1>9. HandleInv'
  <2>1. \A u \in Threads : \A h \in known[u] : slots'[h[1]] = slots[h[1]]
    BY <1>3, <1>6
  <2>2. \A u \in Threads : \A h \in known[u] :
            /\ slots[h[1]].in_use /\ slots[h[1]].id = h[2]
            /\ slots[h[1]].text # NULL /\ slots[h[1]].fn = slots[h[1]].text
            /\ buf[slots[h[1]].text] = "live"
    BY DEF RInv, HandleInv
  <2>3. known' = known /\ buf' = buf
    BY <1>1
  <2> QED BY <2>1, <2>2, <2>3 DEF HandleInv
<1>10. IdInv'
  BY <1>1, <1>3 DEF RInv, IdInv, Given
<1>11. CountInv'
  BY <1>1, CountUntouched DEF Pending
<1> QED BY <1>4, <1>5, <1>7, <1>8, <1>9, <1>10, <1>11 DEF RInv

LEMMA FreeSlotStep ==
    ASSUME RInv, NEW t \in Threads, FreeSlot(t)
    PROVE  RInv'
<1> USE DEF FreeSlot, Finish, Proceed
<1> DEFINE c == cur[t]
<1>1. OnlyThread(t) /\ tpc[t] = "free_slot" /\ tpc'[t] = "idle"
  BY DEF RInv, RuntimeTypeOK, OnlyThread
<1>2. c \in Slots /\ slots[c].text = NULL
  BY <1>1 DEF RInv, OwnInv, PhaseInv, Phase, Working
<1>3. /\ \A s \in Slots : /\ slots'[s].text = slots[s].text
                          /\ slots'[s].fn = slots[s].fn
                          /\ slots'[s].id = slots[s].id
                          /\ s # c => slots'[s].in_use = slots[s].in_use
      /\ ~slots'[c].in_use
  <2>1. /\ slots \in [Slots -> Slot]
        /\ slots' = [slots EXCEPT ![c].in_use = FALSE]
    BY DEF RInv, RuntimeTypeOK, Slot
  <2>2. \A s \in Slots : slots'[s] =
            IF s = c THEN [slots[s] EXCEPT !.in_use = FALSE] ELSE slots[s]
    BY <1>2, <2>1
  <2> QED BY <1>2, <2>1, <2>2 DEF Slot
<1>4. RuntimeTypeOK'
  <2>1. \A q \in Slot : [q EXCEPT !.in_use = FALSE] \in Slot
    BY DEF Slot
  <2>2. slots' \in [Slots -> Slot]
    BY <1>2, <2>1 DEF RInv, RuntimeTypeOK, Slot
  <2> QED BY <2>2 DEF RInv, RuntimeTypeOK, Slot
<1>5. /\ \A u \in Threads : \A h \in known[u] : h[1] \in Slots /\ h[1] # c
      /\ \A u \in Threads : tpc[u] \in Working /\ u # t =>
             cur[u] \in Slots /\ cur[u] # c
  BY <1>1 DEF RInv, RuntimeTypeOK, OwnInv, Working
<1>6. OwnInv'
  BY <1>1, <1>3, <1>5 DEF RInv, OwnInv, Working, OnlyThread
<1>7. PhaseInv'
  <2> SUFFICES ASSUME NEW u \in Threads, u # t PROVE Phase(u)'
    BY <1>1 DEF PhaseInv, Phase
  <2>1. tpc'[u] = tpc[u] /\ cur'[u] = cur[u] /\ fn'[u] = fn[u]
    BY <1>1 DEF OnlyThread
  <2>2. tpc[u] \in Working \cup {"running"} => cur[u] \in Slots
    BY <1>5 DEF RInv, OwnInv
  <2>9. Phase(u)
    BY DEF RInv, PhaseInv
  <2> QED BY <1>3, <2>1, <2>2, <2>9 DEF Phase, Working
<1>8. TextInv'
  BY <1>2, <1>3 DEF RInv, TextInv
<1>9. HandleInv'
  BY <1>3, <1>5 DEF RInv, HandleInv
<1>10. IdInv'
  BY <1>3 DEF RInv, IdInv, Given
<1>11. CountInv'
  BY <1>1, CountUntouched DEF Pending
<1> QED BY <1>4, <1>6, <1>7, <1>8, <1>9, <1>10, <1>11 DEF RInv

-----------------------------------------------------------------------------
LEMMA RunStep ==
    ASSUME RInv, NEW t \in Threads, NEW h \in known[t], Run(t, h)
    PROVE  RInv'
<1> USE DEF Run, Proceed
<1>1. /\ OnlyThread(t) /\ tpc[t] = "idle" /\ tpc'[t] = "call"
      /\ cur'[t] = h[1]
  BY DEF RInv, RuntimeTypeOK, OnlyThread
<1>2. RuntimeTypeOK'
  BY DEF RInv, RuntimeTypeOK
<1>3. OwnInv'
  BY <1>1, OwnersKept DEF Working
<1>4. PhaseInv'
  <2>1. Phase(t)'
    BY <1>1 DEF RInv, PhaseInv, Phase
  <2> QED BY <1>1, <2>1, PhaseKept
<1>5. TextInv' /\ IdInv' /\ HandleInv'
  BY SlotsUntouched DEF RInv, HandleInv
<1>6. CountInv'
  BY <1>1, CountUntouched DEF Pending
<1> QED BY <1>2, <1>3, <1>4, <1>5, <1>6 DEF RInv

LEMMA CallStep ==
    ASSUME RInv, NEW t \in Threads, Call(t)
    PROVE  RInv'
<1> USE DEF Call, Proceed
<1>1. /\ OnlyThread(t) /\ tpc[t] = "call" /\ tpc'[t] = "running"
      /\ fn'[t] = slots[cur[t]].fn
  BY DEF RInv, RuntimeTypeOK, OnlyThread
<1>2. cur[t] \in Slots
  BY <1>1 DEF RInv, RuntimeTypeOK, OwnInv
<1>3. RuntimeTypeOK'
  BY <1>2 DEF RInv, RuntimeTypeOK
<1>4. OwnInv'
  <2>1. \E h \in known[t] : h[1] = cur[t]
    BY <1>1 DEF RInv, OwnInv
  <2> QED BY <1>1, <2>1, OwnersKept DEF Working
<1>5. PhaseInv'
  <2>1. Phase(t)'
    BY <1>1 DEF RInv, PhaseInv, Phase
  <2> QED BY <1>1, <2>1, PhaseKept
<1>6. TextInv' /\ IdInv' /\ HandleInv'
  BY SlotsUntouched DEF RInv, HandleInv
<1>7. CountInv'
  BY <1>1, CountUntouched DEF Pending
<1> QED BY <1>3, <1>4, <1>5, <1>6, <1>7 DEF RInv

LEMMA RunDoneStep ==
    ASSUME RInv, NEW t \in Threads, RunDone(t)
    PROVE  RInv'
<1> USE DEF RunDone, Finish, Proceed
<1>1. OnlyThread(t) /\ tpc[t] = "running" /\ tpc'[t] = "idle"
  BY DEF RInv, RuntimeTypeOK, OnlyThread
<1>2. RuntimeTypeOK'
  BY DEF RInv, RuntimeTypeOK
<1>3. OwnInv'
  BY <1>1, OwnersKept DEF Working
<1>4. PhaseInv'
  <2>1. Phase(t)'
    BY <1>1 DEF RInv, PhaseInv, Phase
  <2> QED BY <1>1, <2>1, PhaseKept
<1>5. TextInv' /\ IdInv' /\ HandleInv'
  BY SlotsUntouched DEF RInv, HandleInv
<1>6. CountInv'
  BY <1>1, CountUntouched DEF Pending
<1> QED BY <1>2, <1>3, <1>4, <1>5, <1>6 DEF RInv

(* The lookup of an own id finds the handle the thread already has.        *)
LEMMA GetByIdStep ==
    ASSUME RInv, Separate, NEW t \in Threads, NEW i \in ProgIds, RuntimeGetById(t, i)
    PROVE  RInv'
<1>1. PICK s \in Slots :
        /\ \E h \in known[t] : h[2] = i
        /\ slots[s].in_use /\ slots[s].id = i
        /\ known' = [known EXCEPT ![t] = @ \cup {<<s, i>>}]
        /\ UNCHANGED <<slots, nextId, loads, buf, tpc, cur, fn>>
  BY DEF RuntimeGetById, Separate
<1>2. PICK h \in known[t] : h[2] = i
  BY <1>1
<1>3. h \in Slots \X ProgIds /\ slots[h[1]].in_use /\ slots[h[1]].id = i
  BY <1>2 DEF RInv, RuntimeTypeOK, HandleInv
<1>4. h[1] = s
  BY <1>1, <1>3 DEF RInv, IdInv
<1>5. <<s, i>> \in known[t]
  BY <1>2, <1>3, <1>4
<1>6. known' = known
  BY <1>1, <1>5 DEF RInv, RuntimeTypeOK
<1> QED BY <1>1, <1>6, RInvStutter DEF runtimeVars

-----------------------------------------------------------------------------
LEMMA RInvInit ==
    ASSUME RuntimeInit
    PROVE  RInv
<1> USE DEF RuntimeInit
<1>1. RuntimeTypeOK
  BY RuntimeAssumption DEF RuntimeTypeOK, Zeroed, ProgIds
<1>2. OwnInv /\ PhaseInv /\ HandleInv
  BY DEF OwnInv, PhaseInv, Phase, HandleInv, Working
<1>3. TextInv
  BY DEF TextInv, Zeroed
<1>4. IdInv
  BY DEF IdInv, Zeroed
<1>5. CountInv
  <2>1. Pending = {} /\ Given = 0
    BY DEF Pending, Given
  <2>2. \A n \in Nat : Distinct(n, Pending) # {} => n = 0
    <3>1. \A n \in Nat : n # 0 => 1 \in 1 .. n
      OBVIOUS
    <3> QED BY <2>1, <3>1 DEF Distinct
  <2> QED BY <2>1, <2>2 DEF CountInv
<1> QED BY <1>1, <1>2, <1>3, <1>4, <1>5 DEF RInv

LEMMA RInvNext ==
    ASSUME RInv, Separate, [RuntimeNext]_runtimeVars
    PROVE  RInv'
<1>1. CASE UNCHANGED runtimeVars
  BY <1>1, RInvStutter
<1>2. CASE RuntimeNext
  <2>1. PICK t \in Threads : Step(t)
    BY <1>2 DEF RuntimeNext
  <2> QED BY <2>1, LoadStep, LoadVerifyStep, AllocSlotStep, AllocSlotFailStep,
             InstallStep, InstallFailStep, PublishStep, UnloadStep,
             UninstallStep, ClearStep, FreeSlotStep, RunStep, CallStep,
             RunDoneStep, GetByIdStep DEF Step
<1> QED BY <1>1, <1>2

(* What the invariant is for.                                              *)
LEMMA RInvSafe ==
    ASSUME RInv
    PROVE  TextOutlivesRun /\ HandleStable /\ TextOwned
<1>1. TextOutlivesRun
  <2> SUFFICES ASSUME NEW t \in Threads, tpc[t] = "running"
               PROVE  fn[t] # NULL /\ buf[fn[t]] = "live"
    BY DEF TextOutlivesRun
  <2>1. PICK h \in known[t] : h[1] = cur[t]
    BY DEF RInv, OwnInv
  <2>2. fn[t] = slots[cur[t]].fn
    BY DEF RInv, PhaseInv, Phase
  <2>3. /\ slots[cur[t]].text # NULL /\ slots[cur[t]].fn = slots[cur[t]].text
        /\ buf[slots[cur[t]].text] = "live"
    BY <2>1 DEF RInv, HandleInv
  <2> QED BY <2>2, <2>3
<1>2. HandleStable
  <2>1. \A t \in Threads : \A h \in known[t] : h[1] \in Slots
    BY DEF RInv, RuntimeTypeOK
  <2> QED BY <2>1 DEF RInv, HandleInv, IdInv, HandleStable
<1>3. TextOwned
  <2>1. \A b \in Bufs : b # NULL
    BY RuntimeAssumption
  <2>2. \A b \in Bufs : buf[b] = "live" =>
            \E s \in Slots : /\ slots[s].in_use /\ slots[s].text = b
                             /\ \A r \in Slots \ {s} : slots[r].text # b
    BY <2>1 DEF RInv, RuntimeTypeOK, TextInv
  <2> QED BY <2>2 DEF RInv, TextInv, TextOwned
<1> QED BY <1>1, <1>2, <1>3

(* merlin_prog_unload never frees the text that merlin_prog_run executes:  *)
(* for any number of threads, slots and buffers, although neither takes    *)
(* prog_mutex there, as long as threads do not share programs and fewer    *)
(* programs are loaded than there are ids.                                 *)
THEOREM RunsKeepTheirText ==
    ASSUME ~Sharing, MaxLoads < IdMod
    PROVE  RuntimeSpec => []TextOutlivesRun
<1>1. Separate
  BY DEF Separate
<1>2. RInv /\ [RuntimeNext]_runtimeVars => RInv'
  BY <1>1, RInvNext
<1>3. RInv => TextOutlivesRun
  BY RInvSafe
<1> QED BY <1>2, <1>3, RInvInit, PTL DEF RuntimeSpec

(* Under the same assumptions a handle from merlin_prog_load designates    *)
(* its program, installed and with an id of its own, until the thread      *)
(* unloads it.                                                             *)
THEOREM HandlesStayValid ==
    ASSUME ~Sharing, MaxLoads < IdMod
    PROVE  RuntimeSpec => []HandleStable
<1>1. Separate
  BY DEF Separate
<1>2. RInv /\ [RuntimeNext]_runtimeVars => RInv'
  BY <1>1, RInvNext
<1>3. RInv => HandleStable
  BY RInvSafe
<1> QED BY <1>2, <1>3, RInvInit, PTL DEF RuntimeSpec

(* Under the same assumptions merlin_runtime_install and                   *)
(* merlin_runtime_uninstall lose no text buffer, free none twice and never *)
(* give one to two slots.                                                  *)
THEOREM TextNeverLeaks ==
    ASSUME ~Sharing, MaxLoads < IdMod
    PROVE  RuntimeSpec => []TextOwned
<1>1. Separate
  BY DEF Separate
<1>2. RInv /\ [RuntimeNext]_runtimeVars => RInv'
  BY <1>1, RInvNext
<1>3. RInv => TextOwned
  BY RInvSafe
<1> QED BY <1>2, <1>3, RInvInit, PTL DEF RuntimeSpec
-----------------------------------------------------------------------------
(* Attestation.                                                            *)

(* The stages of a command.                                                *)
Generating == {"open priv", "write priv", "open pub", "write pub"}
Quoting == {"open seq", "write seq", "release"}

(* A command that generates a pair has seen no mak.pub.pem; one that makes *)
(* a quote holds the pair of the files.                                    *)
PairInv ==
    /\ pub # Absent => priv # Absent
    /\ tool.pc \in Generating => tool.key \in Keys
    /\ tool.pc \in {"open priv", "write priv", "open pub"} => pub = Absent
    /\ tool.pc \in {"open pub", "write pub"} => priv \in {tool.key, Blank}
    /\ tool.pc = "write pub" => pub = Blank
    /\ tool.pc \in {"stat"} \cup Generating /\ tool.cmd = "quote"
          => tool.nonce \in Nonces
    /\ tool.pc \in {"sign"} \cup Quoting => tool.nonce \in Nonces
    /\ tool.pc \in Quoting => /\ pub \in Keys
                              /\ tool.hash = pub
                              /\ tool.key = pub

(* The number that all quotes written so far are at most.                  *)
Bound == IF tool.pc \in Quoting THEN tool.seq - 1 ELSE merlin_mak_seq_read

(* While no update is lost, the file holds the number of the newest quote  *)
(* except between its truncation and its write.                            *)
NumberInv ==
    /\ tool.pc \in Quoting => tool.seq >= 1
    /\ ~lost =>
        /\ tool.pc = "write seq" \/ seq # Blank
        /\ tool.pc = "open seq" => tool.seq = merlin_mak_seq_read + 1
        /\ tool.pc = "release" => seq = tool.seq
        /\ last <= Bound
        /\ \A q \in issued : q.seq <= Bound

MakInv == MakTypeOK /\ KeysMatch /\ QuotesVerify /\ PairInv /\ NumberInv

(* No command runs.                                                        *)
LEMMA IdleFacts == Idle \in Tools /\ Idle.pc = "idle"
BY DEF Idle, Tools, PCs

(* The counter is read as a number whatever the file holds.                *)
LEMMA CounterIsNat ==
    ASSUME MakInv
    PROVE  merlin_mak_seq_read \in Nat
BY DEF MakInv, MakTypeOK, merlin_mak_seq_read

LEMMA InitInv == MakInit => MakInv
<1> USE AttestAssumption
<1> SUFFICES ASSUME MakInit PROVE MakInv
  OBVIOUS
<1>1. tool \in Tools /\ tool.pc = "idle"
  BY IdleFacts DEF MakInit
<1>2. MakTypeOK /\ KeysMatch /\ QuotesVerify
  BY <1>1 DEF MakInit, MakTypeOK, KeysMatch, QuotesVerify
<1>3. PairInv
  BY <1>1 DEF MakInit, PairInv, Generating, Quoting
<1>4. NumberInv
  BY <1>1 DEF MakInit, NumberInv, Bound, Quoting, merlin_mak_seq_read
<1> QED BY <1>2, <1>3, <1>4 DEF MakInv

(* A command that starts, that finds the files, or that ends.              *)
LEMMA StartStep ==
    ASSUME MakInv, Start
    PROVE  MakInv'
<1> USE AttestAssumption DEF controllerVars
<1>1. /\ tool' \in Tools /\ tool'.pc = "stat"
      /\ tool'.cmd = "quote" => tool'.nonce \in Nonces
  <2>1. ASSUME NEW c \in {"init", "pub"},
               tool' = [Idle EXCEPT !.pc = "stat", !.cmd = c]
        PROVE  tool' \in Tools /\ tool'.pc = "stat" /\ tool'.cmd # "quote"
    BY <2>1 DEF Idle, Tools, PCs
  <2>2. ASSUME NEW n \in asked,
               tool' = [Idle EXCEPT !.pc = "stat", !.cmd = "quote", !.nonce = n]
        PROVE  tool' \in Tools /\ tool'.pc = "stat" /\ tool'.nonce \in Nonces
    <3>1. n \in Nonces
      BY DEF MakInv, MakTypeOK
    <3> QED BY <2>2, <3>1 DEF Idle, Tools, PCs
  <2> QED BY <2>1, <2>2 DEF Start
<1>2. UNCHANGED <<priv, pub, seq, fresh, issued, lost, trusted, asked, last>>
  BY DEF Start
<1>3. tool.pc = "idle"
  BY DEF Start, Idle
<1>4. MakTypeOK' /\ KeysMatch' /\ QuotesVerify'
  BY <1>1, <1>2 DEF MakInv, MakTypeOK, KeysMatch, QuotesVerify
<1>5. PairInv'
  BY <1>1, <1>2 DEF MakInv, PairInv, Generating, Quoting
<1>6. NumberInv'
  BY <1>1, <1>2, <1>3
     DEF MakInv, NumberInv, Bound, Quoting, merlin_mak_seq_read
<1> QED BY <1>4, <1>5, <1>6 DEF MakInv

(* After the pair is ensured, the command is done or about to sign.        *)
LEMMA EnsuredFacts ==
    ASSUME tool \in Tools
    PROVE  /\ Ensured \in Tools
           /\ \/ Ensured.pc = "idle"
              \/ Ensured.pc = "sign" /\ tool.cmd = "quote"
                                     /\ Ensured.nonce = tool.nonce
<1>1. CASE tool.cmd = "quote"
  BY <1>1 DEF Ensured, Tools, PCs
<1>2. CASE tool.cmd # "quote"
  BY <1>2, IdleFacts DEF Ensured
<1> QED BY <1>1, <1>2

LEMMA EnsureStep ==
    ASSUME MakInv, merlin_mak_ensure
    PROVE  MakInv'
<1> USE AttestAssumption DEF controllerVars
<1>1. tool.pc = "stat" /\ tool \in Tools
  BY DEF merlin_mak_ensure, MakInv, MakTypeOK
<1>2. /\ UNCHANGED <<priv, pub, seq, issued, lost, trusted, asked, last>>
      /\ fresh' \subseteq Keys
  BY DEF merlin_mak_ensure, MakInv, MakTypeOK
<1>3. /\ tool' \in Tools
      /\ \/ tool'.pc = "idle"
         \/ tool'.pc = "sign" /\ tool.cmd = "quote" /\ tool'.nonce = tool.nonce
         \/ /\ tool'.pc = "open priv" /\ pub = Absent
            /\ tool'.key \in Keys
            /\ tool'.cmd = tool.cmd /\ tool'.nonce = tool.nonce
  <2>1. CASE Present
    BY <1>1, <2>1, EnsuredFacts DEF merlin_mak_ensure
  <2>2. CASE ~Present
    <3>1. pub = Absent
      BY <2>2 DEF Present, MakInv, PairInv
    <3>2. PICK k \in Keys : tool' = [tool EXCEPT !.pc = "open priv", !.key = k]
      BY <2>2 DEF merlin_mak_ensure, MakInv, MakTypeOK
    <3> QED BY <1>1, <3>1, <3>2 DEF Tools, PCs
  <2> QED BY <2>1, <2>2
<1>4. MakTypeOK' /\ KeysMatch' /\ QuotesVerify'
  BY <1>2, <1>3 DEF MakInv, MakTypeOK, KeysMatch, QuotesVerify
<1>5. PairInv'
  BY <1>1, <1>2, <1>3 DEF MakInv, PairInv, Generating, Quoting
<1>6. NumberInv'
  BY <1>1, <1>2, <1>3
     DEF MakInv, NumberInv, Bound, Quoting, merlin_mak_seq_read
<1> QED BY <1>4, <1>5, <1>6 DEF MakInv

LEMMA StopStep ==
    ASSUME MakInv, Stop
    PROVE  MakInv'
<1> USE AttestAssumption DEF controllerVars
<1>1. /\ UNCHANGED <<priv, pub, seq, fresh, issued, trusted, asked, last>>
      /\ lost' = (lost \/ tool.pc = "write seq")
      /\ tool \in Tools
      /\ tool' \in Tools /\ tool'.pc = "idle"
  BY IdleFacts DEF Stop, MakInv, MakTypeOK
<1>2. lost' \in BOOLEAN
  BY <1>1, Zenon
<1>3. MakTypeOK' /\ KeysMatch' /\ QuotesVerify'
  BY <1>1, <1>2 DEF MakInv, MakTypeOK, KeysMatch, QuotesVerify
<1>4. PairInv'
  BY <1>1 DEF MakInv, PairInv, Generating, Quoting
<1>5. NumberInv'
  <2>1. ~lost' => ~lost /\ tool.pc # "write seq"
    BY <1>1
  <2>2. ASSUME ~lost' PROVE Bound <= Bound' /\ Bound \in Int /\ Bound' \in Int
    <3>1. Bound' = merlin_mak_seq_read /\ merlin_mak_seq_read \in Nat
      BY <1>1, CounterIsNat DEF Bound, Quoting, merlin_mak_seq_read
    <3>2. tool.seq \in Nat
      BY <1>1 DEF Tools
    <3>3. CASE tool.pc = "open seq"
      <4>1. Bound = tool.seq - 1
        BY <3>3 DEF Bound, Quoting
      <4>2. tool.seq = merlin_mak_seq_read + 1
        BY <2>1, <2>2, <3>3 DEF MakInv, NumberInv
      <4> QED BY <3>1, <3>2, <4>1, <4>2
    <3>4. CASE tool.pc = "release"
      <4>1. merlin_mak_seq_read = tool.seq
        BY <2>1, <2>2, <3>2, <3>4 DEF MakInv, NumberInv, merlin_mak_seq_read
      <4>2. Bound = tool.seq - 1
        BY <3>4 DEF Bound, Quoting
      <4> QED BY <3>1, <3>2, <4>1, <4>2
    <3>5. CASE tool.pc \notin Quoting
      <4>1. Bound = merlin_mak_seq_read
        BY <3>5 DEF Bound
      <4> QED BY <3>1, <4>1
    <3> QED BY <2>1, <2>2, <3>3, <3>4, <3>5 DEF Quoting
  <2>3. ASSUME ~lost', NEW q \in issued PROVE q.seq \in Nat /\ q.seq <= Bound
    BY <2>1, <2>3 DEF MakInv, MakTypeOK, NumberInv, Quotes
  <2>4. ASSUME ~lost' PROVE last <= Bound' /\ \A q \in issued : q.seq <= Bound'
    <3>1. last \in Nat /\ last <= Bound
      BY <2>1, <2>4 DEF MakInv, MakTypeOK, NumberInv
    <3> QED BY <2>2, <2>3, <2>4, <3>1
  <2> QED BY <1>1, <2>1, <2>4 DEF MakInv, NumberInv, Quoting
<1> QED BY <1>3, <1>4, <1>5 DEF MakInv

-----------------------------------------------------------------------------
(* The writing of a pair.                                                  *)

(* A step outside the making of a quote leaves the numbers alone.          *)
LEMMA NumbersKept ==
    ASSUME MakInv, UNCHANGED <<seq, issued, lost, last>>,
           tool.pc \notin Quoting, tool'.pc \notin Quoting
    PROVE  NumberInv'
BY DEF MakInv, NumberInv, Bound, Quoting, merlin_mak_seq_read

LEMMA OpenPrivStep ==
    ASSUME MakInv, OpenPriv
    PROVE  MakInv'
<1> USE AttestAssumption DEF controllerVars
<1>1. /\ tool.pc = "open priv" /\ tool \in Tools /\ pub = Absent
      /\ tool' = [tool EXCEPT !.pc = "write priv"]
      /\ priv' = Blank
      /\ UNCHANGED <<pub, seq, fresh, issued, lost, trusted, asked, last>>
  BY DEF OpenPriv, MakInv, MakTypeOK, PairInv
<1>2. /\ tool' \in Tools /\ tool'.pc = "write priv"
      /\ tool'.key = tool.key /\ tool'.cmd = tool.cmd /\ tool'.nonce = tool.nonce
  BY <1>1 DEF Tools, PCs
<1>3. MakTypeOK' /\ KeysMatch' /\ QuotesVerify'
  BY <1>1, <1>2 DEF MakInv, MakTypeOK, KeysMatch, QuotesVerify
<1>4. PairInv'
  BY <1>1, <1>2 DEF MakInv, PairInv, Generating, Quoting
<1>5. NumberInv'
  BY <1>1, <1>2, NumbersKept DEF Quoting
<1> QED BY <1>3, <1>4, <1>5 DEF MakInv

LEMMA WritePrivStep ==
    ASSUME MakInv, WritePriv
    PROVE  MakInv'
<1> USE AttestAssumption DEF controllerVars
<1>1. /\ tool.pc = "write priv" /\ tool \in Tools /\ pub = Absent
      /\ tool.key \in Keys
      /\ tool' = [tool EXCEPT !.pc = "open pub"]
      /\ priv' \in {tool.key, Blank}
      /\ UNCHANGED <<pub, seq, fresh, issued, lost, trusted, asked, last>>
  BY DEF WritePriv, MakInv, MakTypeOK, PairInv, Generating
<1>2. /\ tool' \in Tools /\ tool'.pc = "open pub"
      /\ tool'.key = tool.key /\ tool'.cmd = tool.cmd /\ tool'.nonce = tool.nonce
  BY <1>1 DEF Tools, PCs
<1>3. MakTypeOK' /\ KeysMatch' /\ QuotesVerify'
  BY <1>1, <1>2 DEF MakInv, MakTypeOK, KeysMatch, QuotesVerify
<1>4. PairInv'
  BY <1>1, <1>2 DEF MakInv, PairInv, Generating, Quoting
<1>5. NumberInv'
  BY <1>1, <1>2, NumbersKept DEF Quoting
<1> QED BY <1>3, <1>4, <1>5 DEF MakInv

(* No quote was written and nothing was copied while there was no public   *)
(* key.                                                                    *)
LEMMA NoQuoteYet ==
    ASSUME MakInv, pub \notin Keys
    PROVE  issued = {} /\ trusted = Absent
BY AttestAssumption DEF MakInv, MakTypeOK, QuotesVerify, Quotes

LEMMA OpenPubStep ==
    ASSUME MakInv, OpenPub
    PROVE  MakInv'
<1> USE AttestAssumption DEF controllerVars
<1>1. /\ tool.pc = "open pub" /\ tool \in Tools /\ pub = Absent
      /\ tool.key \in Keys /\ priv \in {tool.key, Blank}
      /\ tool' = [tool EXCEPT !.pc = "write pub"]
      /\ pub' = Blank
      /\ UNCHANGED <<priv, seq, fresh, issued, lost, trusted, asked, last>>
  BY DEF OpenPub, MakInv, MakTypeOK, PairInv, Generating
<1>2. /\ tool' \in Tools /\ tool'.pc = "write pub"
      /\ tool'.key = tool.key /\ tool'.cmd = tool.cmd /\ tool'.nonce = tool.nonce
  BY <1>1 DEF Tools, PCs
<1>3. MakTypeOK' /\ KeysMatch' /\ QuotesVerify'
  BY <1>1, <1>2, NoQuoteYet DEF MakInv, MakTypeOK, KeysMatch, QuotesVerify
<1>4. PairInv'
  BY <1>1, <1>2 DEF MakInv, PairInv, Generating, Quoting
<1>5. NumberInv'
  BY <1>1, <1>2, NumbersKept DEF Quoting
<1> QED BY <1>3, <1>4, <1>5 DEF MakInv

LEMMA WritePubStep ==
    ASSUME MakInv, WritePub
    PROVE  MakInv'
<1> USE AttestAssumption DEF controllerVars
<1>1. /\ tool.pc = "write pub" /\ tool \in Tools /\ pub = Blank
      /\ tool.key \in Keys /\ priv \in {tool.key, Blank}
      /\ tool' = Ensured
      /\ pub' \in {tool.key, Blank}
      /\ UNCHANGED <<priv, seq, fresh, issued, lost, trusted, asked, last>>
  BY DEF WritePub, MakInv, MakTypeOK, PairInv, Generating
<1>2. /\ tool' \in Tools
      /\ \/ tool'.pc = "idle"
         \/ tool'.pc = "sign" /\ tool.cmd = "quote" /\ tool'.nonce = tool.nonce
  BY <1>1, EnsuredFacts
<1>3. MakTypeOK' /\ KeysMatch' /\ QuotesVerify'
  BY <1>1, <1>2, NoQuoteYet DEF MakInv, MakTypeOK, KeysMatch, QuotesVerify
<1>4. PairInv'
  BY <1>1, <1>2 DEF MakInv, PairInv, Generating, Quoting
<1>5. NumberInv'
  BY <1>1, <1>2, NumbersKept DEF Quoting
<1> QED BY <1>3, <1>4, <1>5 DEF MakInv

-----------------------------------------------------------------------------
(* The making of a quote, and the controller.                              *)

LEMMA SignStep ==
    ASSUME MakInv, merlin_mak_sign_quote
    PROVE  MakInv'
<1> USE AttestAssumption DEF controllerVars
<1>a. pub \in Keys /\ merlin_mak_pub_hash = pub
  BY DEF merlin_mak_sign_quote, merlin_mak_pub_hash
<1>1. /\ tool.pc = "sign" /\ tool \in Tools
      /\ pub \in Keys /\ priv = pub
      /\ tool' = [tool EXCEPT !.pc = "open seq", !.seq = merlin_mak_seq_read + 1,
                              !.hash = pub, !.key = priv]
      /\ UNCHANGED <<priv, pub, seq, fresh, issued, lost, trusted, asked, last>>
  BY <1>a DEF merlin_mak_sign_quote, MakInv, MakTypeOK, KeysMatch
<1>2. /\ tool' \in Tools /\ tool'.pc = "open seq"
      /\ tool'.seq = merlin_mak_seq_read + 1
      /\ tool'.hash = pub /\ tool'.key = pub /\ tool'.nonce = tool.nonce
  <2>1. PICK n \in Nat : n = merlin_mak_seq_read + 1
    BY CounterIsNat
  <2>2. PICK k \in Keys : k = pub
    BY <1>1
  <2>3. tool' = [tool EXCEPT !.pc = "open seq", !.seq = n, !.hash = k, !.key = k]
    BY <1>1, <2>1, <2>2
  <2>4. /\ tool' \in Tools /\ tool'.pc = "open seq" /\ tool'.seq = n
        /\ tool'.hash = k /\ tool'.key = k /\ tool'.nonce = tool.nonce
    BY <1>1, <2>3 DEF Tools, PCs
  <2> QED BY <2>1, <2>2, <2>4
<1>3. MakTypeOK' /\ KeysMatch' /\ QuotesVerify'
  BY <1>1, <1>2 DEF MakInv, MakTypeOK, KeysMatch, QuotesVerify
<1>4. PairInv'
  BY <1>1, <1>2 DEF MakInv, PairInv, Generating, Quoting
<1>5. merlin_mak_seq_read' = merlin_mak_seq_read
  BY <1>1 DEF merlin_mak_seq_read
<1>6. Bound = merlin_mak_seq_read
  BY <1>1 DEF Bound, Quoting
<1>7. Bound' = merlin_mak_seq_read
  <2>1. Bound' = tool'.seq - 1
    BY <1>2 DEF Bound, Quoting
  <2>2. merlin_mak_seq_read \in Nat /\ tool'.seq = merlin_mak_seq_read + 1
    BY <1>2, CounterIsNat
  <2> HIDE DEF Bound, merlin_mak_seq_read
  <2> QED BY <2>1, <2>2
<1>8. NumberInv'
  BY <1>1, <1>2, <1>5, <1>6, <1>7, CounterIsNat DEF MakInv, NumberInv, Quoting
<1> QED BY <1>3, <1>4, <1>8 DEF MakInv

(* The steps of a quote keep what the command holds.                       *)
LEMMA NextStage ==
    ASSUME MakInv, tool.pc \in Quoting, NEW stage \in Quoting,
           tool' = [tool EXCEPT !.pc = stage],
           UNCHANGED <<priv, pub, fresh, issued, trusted, asked, last>>,
           seq' \in Nat \cup {Absent, Blank}, lost' \in BOOLEAN
    PROVE  /\ MakTypeOK' /\ KeysMatch' /\ QuotesVerify' /\ PairInv'
           /\ tool'.pc = stage /\ tool'.seq = tool.seq /\ tool'.seq >= 1
           /\ Bound = tool.seq - 1 /\ Bound' = Bound /\ tool.seq \in Nat
<1> USE AttestAssumption
<1>1. tool \in Tools
  BY DEF MakInv, MakTypeOK
<1>2. /\ tool' \in Tools /\ tool'.pc = stage /\ tool'.seq = tool.seq
      /\ tool.seq \in Nat
      /\ tool'.hash = tool.hash /\ tool'.key = tool.key
      /\ tool'.nonce = tool.nonce
  BY <1>1 DEF Tools, PCs, Quoting
<1>3. MakTypeOK' /\ KeysMatch' /\ QuotesVerify'
  BY <1>2 DEF MakInv, MakTypeOK, KeysMatch, QuotesVerify
<1>4. PairInv'
  BY <1>2 DEF MakInv, PairInv, Generating, Quoting
<1>5. tool.seq >= 1
  BY DEF MakInv, NumberInv
<1>6. Bound = tool.seq - 1 /\ Bound' = tool'.seq - 1
  BY <1>2 DEF Bound
<1> QED BY <1>2, <1>3, <1>4, <1>5, <1>6

LEMMA OpenSeqStep ==
    ASSUME MakInv, OpenSeq
    PROVE  MakInv'
<1> USE AttestAssumption DEF controllerVars
<1>1. /\ tool.pc = "open seq"
      /\ UNCHANGED <<priv, pub, fresh, issued, trusted, asked, last>>
      /\ seq \in Nat \cup {Absent, Blank} /\ lost \in BOOLEAN
  BY DEF OpenSeq, MakInv, MakTypeOK
<1>2. CASE /\ seq' = Blank
           /\ tool' = [tool EXCEPT !.pc = "write seq"]
           /\ UNCHANGED lost
  <2>1. /\ MakTypeOK' /\ KeysMatch' /\ QuotesVerify' /\ PairInv'
        /\ tool'.pc = "write seq" /\ tool'.seq >= 1 /\ Bound' = Bound
    BY <1>1, <1>2, NextStage DEF Quoting
  <2>2. NumberInv'
    BY <1>1, <1>2, <2>1 DEF MakInv, NumberInv
  <2> QED BY <2>1, <2>2 DEF MakInv
<1>3. CASE /\ lost' = TRUE
           /\ tool' = [tool EXCEPT !.pc = "release"]
           /\ UNCHANGED seq
  <2>1. /\ MakTypeOK' /\ KeysMatch' /\ QuotesVerify' /\ PairInv'
        /\ tool'.pc = "release" /\ tool'.seq >= 1
    BY <1>1, <1>3, NextStage DEF Quoting
  <2>2. NumberInv'
    BY <1>3, <2>1 DEF NumberInv
  <2> QED BY <2>1, <2>2 DEF MakInv
<1> QED BY <1>2, <1>3 DEF OpenSeq

LEMMA WriteSeqStep ==
    ASSUME MakInv, WriteSeq
    PROVE  MakInv'
<1> USE AttestAssumption DEF controllerVars
<1>1. /\ tool.pc = "write seq" /\ tool.seq \in Nat
      /\ tool' = [tool EXCEPT !.pc = "release"]
      /\ UNCHANGED <<priv, pub, fresh, issued, trusted, asked, last>>
      /\ seq' \in Nat \cup {Absent, Blank} /\ lost' \in BOOLEAN
      /\ \/ seq' = tool.seq /\ UNCHANGED lost
         \/ lost' = TRUE
  BY DEF WriteSeq, MakInv, MakTypeOK, Tools
<1>2. /\ MakTypeOK' /\ KeysMatch' /\ QuotesVerify' /\ PairInv'
      /\ tool'.pc = "release" /\ tool'.seq = tool.seq /\ tool'.seq >= 1
      /\ Bound' = Bound
  BY <1>1, NextStage DEF Quoting
<1>3. NumberInv'
  <2>1. CASE lost'
    BY <1>2, <2>1 DEF NumberInv
  <2>2. CASE ~lost'
    <3>1. ~lost /\ seq' = tool.seq /\ seq' # Blank
      <4>1. CASE lost' = TRUE
        BY <2>2, <4>1
      <4>2. CASE seq' = tool.seq /\ UNCHANGED lost
        <5>1. seq' # Blank
          BY <1>1, <4>2
        <5> QED BY <2>2, <4>2, <5>1, Zenon
      <4> QED BY <1>1, <4>1, <4>2
    <3>2. last' <= Bound' /\ \A q \in issued' : q.seq <= Bound'
      BY <1>1, <1>2, <3>1 DEF MakInv, NumberInv
    <3> QED BY <1>2, <3>1, <3>2 DEF NumberInv
  <2> QED BY <2>1, <2>2
<1> QED BY <1>2, <1>3 DEF MakInv

LEMMA QuoteStep ==
    ASSUME MakInv, cmd_quote
    PROVE  /\ MakInv'
           /\ \A q \in issued' \ issued :
                 ~lost => q.seq > last /\ \A r \in issued : r.seq < q.seq
<1> USE AttestAssumption DEF controllerVars
<1>1. /\ tool.pc = "release" /\ tool \in Tools /\ tool.seq \in Nat
      /\ tool.nonce \in Nonces /\ pub \in Keys
      /\ tool.hash = pub /\ tool.key = pub
      /\ tool' \in Tools /\ tool'.pc = "idle"
      /\ UNCHANGED <<priv, pub, seq, fresh, lost, trusted, asked, last>>
  BY IdleFacts DEF cmd_quote, MakInv, MakTypeOK, PairInv, Quoting, Tools
<1>2. PICK t \in Quotes : /\ t.seq = tool.seq /\ t.hash = pub /\ t.signer = pub
                          /\ issued' = issued \cup {t}
  BY <1>1 DEF cmd_quote, TheQuote, Quotes
<1>3. MakTypeOK' /\ KeysMatch' /\ QuotesVerify'
  BY <1>1, <1>2 DEF MakInv, MakTypeOK, KeysMatch, QuotesVerify
<1>4. PairInv'
  BY <1>1 DEF MakInv, PairInv, Generating, Quoting
<1>5. Bound = tool.seq - 1
  BY <1>1 DEF Bound, Quoting
<1>6. ASSUME ~lost
      PROVE  /\ seq = tool.seq /\ last \in Nat /\ last <= tool.seq - 1
             /\ \A r \in issued : r.seq \in Nat /\ r.seq <= tool.seq - 1
  BY <1>1, <1>5, <1>6 DEF MakInv, MakTypeOK, NumberInv, Quotes
<1>7. NumberInv'
  <2>1. tool'.pc \notin Quoting /\ Bound' = merlin_mak_seq_read'
    BY <1>1 DEF Bound, Quoting
  <2>2. ASSUME ~lost PROVE Bound' = tool.seq /\ seq # Blank
    BY <1>1, <1>6, <2>1, <2>2 DEF merlin_mak_seq_read
  <2>3. ASSUME ~lost PROVE last <= Bound' /\ \A q \in issued' : q.seq <= Bound'
    BY <1>1, <1>2, <1>6, <2>2, <2>3
  <2> QED BY <1>1, <2>1, <2>2, <2>3 DEF NumberInv
<1>8. ASSUME ~lost, NEW q \in issued' \ issued
      PROVE  q.seq > last /\ \A r \in issued : r.seq < q.seq
  BY <1>1, <1>2, <1>6, <1>8
<1> QED BY <1>3, <1>4, <1>7, <1>8 DEF MakInv

LEMMA ControllerStep ==
    ASSUME MakInv, Enrol \/ Ask \/ VerifyQuote
    PROVE  MakInv'
<1> USE AttestAssumption DEF hostVars
<1>1. /\ UNCHANGED <<priv, pub, seq, fresh, tool, issued, lost>>
      /\ asked' \subseteq Nonces
      /\ trusted' = trusted \/ (trusted' = pub /\ pub \in Keys)
      /\ last' = last \/ \E q \in issued : last' = q.seq
  BY DEF Enrol, Ask, VerifyQuote, MakInv, MakTypeOK
<1>2. MakTypeOK' /\ KeysMatch' /\ QuotesVerify'
  BY <1>1 DEF MakInv, MakTypeOK, KeysMatch, QuotesVerify, Quotes
<1>3. PairInv'
  BY <1>1 DEF MakInv, PairInv
<1>4. NumberInv'
  <2>1. Bound' = Bound /\ merlin_mak_seq_read' = merlin_mak_seq_read
    BY <1>1 DEF Bound, merlin_mak_seq_read
  <2> QED BY <1>1, <2>1 DEF MakInv, NumberInv
<1> QED BY <1>2, <1>3, <1>4 DEF MakInv
-----------------------------------------------------------------------------
(* The theorems.                                                           *)

LEMMA StutterStep ==
    ASSUME MakInv, UNCHANGED makVars
    PROVE  MakInv'
<1>1. UNCHANGED <<priv, pub, seq, fresh, tool, issued, lost, trusted, asked,
                  last>>
  BY DEF makVars, hostVars, controllerVars
<1>2. MakTypeOK' /\ KeysMatch' /\ QuotesVerify'
  BY <1>1 DEF MakInv, MakTypeOK, KeysMatch, QuotesVerify
<1>3. PairInv'
  BY <1>1 DEF MakInv, PairInv
<1>4. NumberInv'
  <2>1. Bound' = Bound /\ merlin_mak_seq_read' = merlin_mak_seq_read
    BY <1>1 DEF Bound, merlin_mak_seq_read
  <2> QED BY <1>1, <2>1 DEF MakInv, NumberInv
<1> QED BY <1>2, <1>3, <1>4 DEF MakInv

LEMMA NextInv == MakInv /\ [MakNext]_makVars => MakInv'
BY StartStep, EnsureStep, StopStep, OpenPrivStep, WritePrivStep, OpenPubStep,
   WritePubStep, SignStep, OpenSeqStep, WriteSeqStep, QuoteStep,
   ControllerStep, StutterStep DEF MakNext

(* The reachable states satisfy the inductive invariant.                   *)
THEOREM MakInvariant == MakSpec => []MakInv
BY InitInv, NextInv, PTL DEF MakSpec

(* merlin_mak_ensure never leaves a public key beside another private key, *)
(* wherever it is killed and whichever write is lost.                      *)
THEOREM PairsMatch == MakSpec => []KeysMatch
<1>1. MakInv => KeysMatch
  BY DEF MakInv
<1> QED BY <1>1, MakInvariant, PTL

(* Every quote written verifies for ever with the public key on file and   *)
(* with the controller's copy of it.                                       *)
THEOREM QuotesStayValid == MakSpec => []QuotesVerify
<1>1. MakInv => QuotesVerify
  BY DEF MakInv
<1> QED BY <1>1, MakInvariant, PTL

(* Only cmd_quote writes a quote.                                          *)
LEMMA NumbersStep ==
    ASSUME MakInv, [MakNext]_makVars
    PROVE  [\A q \in issued' \ issued :
               ~lost => /\ q.seq > last
                        /\ \A r \in issued : r.seq < q.seq]_makVars
<1>1. CASE cmd_quote
  BY <1>1, QuoteStep
<1>2. CASE ~cmd_quote
  <2>1. issued' = issued
    BY <1>2 DEF MakNext, makVars, hostVars, controllerVars, Start,
       merlin_mak_ensure, OpenPriv, WritePriv, OpenPub, WritePub,
       merlin_mak_sign_quote, OpenSeq, WriteSeq, Stop, Enrol, Ask, VerifyQuote
  <2> QED BY <2>1
<1> QED BY <1>1, <1>2

(* Numbers rise, and above what the controller accepted, as long as the    *)
(* updates of mak.seq reach the file.                                      *)
THEOREM QuoteNumbersRise == MakSpec => NumbersRise
BY MakInvariant, NumbersStep, PTL DEF MakSpec, NumbersRise
=============================================================================
