----------------------------- MODULE SignProofs -----------------------------
(***************************************************************************)
(* The theorems about Sign, for any files, keys, commands and objects with *)
(* any number of sections in any order.                                    *)
(*                                                                         *)
(* First what signing does to one object.  What merlin_sig_embed carries   *)
(* over is, by induction over the sections, every section but the old      *)
(* signature and the name table; so the region that is hashed and the      *)
(* sections that are looked up stay the same (EmbedKeeps).                 *)
(*                                                                         *)
(* Then the commands beside each other.  That a finished signing verifies  *)
(* is not inductive: SignInv relates the signature that a running command  *)
(* carries to its input, while nobody has written it, and to the copy it   *)
(* made.                                                                   *)
(***************************************************************************)
EXTENDS Sign, LoopInduction

-----------------------------------------------------------------------------
(* Sections.                                                               *)

Sec == [name : SectionNames, data : Seq(Int), sig : Signatures \cup {NoSig}]

(* The search for a name ends at the first section that has it.            *)
LEMMA FirstCases ==
    ASSUME NEW secs \in Seq(Sec), NEW n
    PROVE  \/ /\ First(secs, n) = 0
              /\ \A i \in 1 .. Len(secs) : secs[i].name # n
           \/ /\ First(secs, n) \in 1 .. Len(secs)
              /\ secs[First(secs, n)].name = n
              /\ \A i \in 1 .. Len(secs) : secs[i].name = n => First(secs, n) <= i
<1> DEFINE named == {i \in DOMAIN secs : secs[i].name = n}
<1>1. DOMAIN secs = 1 .. Len(secs) /\ named \in SUBSET Nat
  OBVIOUS
<1>2. CASE named = {}
  BY <1>1, <1>2 DEF First
<1>3. CASE named # {}
  <2>1. First(secs, n) = CHOOSE i \in named : \A j \in named : i <= j
    BY <1>3 DEF First
  <2> HIDE DEF named
  <2>2. \E i \in named : \A j \in named : i <= j
    BY <1>1, <1>3, LeastElement
  <2>3. First(secs, n) \in named /\ \A j \in named : First(secs, n) <= j
    BY <2>1, <2>2
  <2> QED BY <1>1, <2>3 DEF named
<1> QED BY <1>2, <1>3

(* No section, no section of that name.                                    *)
LEMMA FirstEmpty ==
    ASSUME NEW secs \in Seq(Sec), Len(secs) = 0, NEW n
    PROVE  First(secs, n) = 0
<1>1. ~(First(secs, n) \in 1 .. Len(secs))
  OBVIOUS
<1> QED BY <1>1, FirstCases

(* A section behind the others is found only if none of them has the name. *)
LEMMA FirstAppend ==
    ASSUME NEW secs \in Seq(Sec), NEW s \in Sec, NEW n
    PROVE  First(Append(secs, s), n) =
               IF First(secs, n) # 0 THEN First(secs, n)
               ELSE IF s.name = n THEN Len(secs) + 1 ELSE 0
<1> DEFINE more == Append(secs, s)
<1>1. /\ more \in Seq(Sec) /\ Len(more) = Len(secs) + 1
      /\ \A i \in 1 .. Len(secs) : more[i] = secs[i]
      /\ more[Len(secs) + 1] = s
      /\ Len(secs) \in Nat
  OBVIOUS
<1> HIDE DEF more
<1>2. \/ /\ First(more, n) = 0
         /\ \A i \in 1 .. Len(more) : more[i].name # n
      \/ /\ First(more, n) \in 1 .. Len(more)
         /\ more[First(more, n)].name = n
         /\ \A i \in 1 .. Len(more) : more[i].name = n => First(more, n) <= i
  BY <1>1, FirstCases
<1>3. \/ /\ First(secs, n) = 0
         /\ \A i \in 1 .. Len(secs) : secs[i].name # n
      \/ /\ First(secs, n) \in 1 .. Len(secs)
         /\ secs[First(secs, n)].name = n
         /\ \A i \in 1 .. Len(secs) : secs[i].name = n => First(secs, n) <= i
  BY FirstCases
<1>4. First(more, n) = IF First(secs, n) # 0 THEN First(secs, n)
                       ELSE IF s.name = n THEN Len(secs) + 1 ELSE 0
  <2>1. CASE First(secs, n) # 0
    <3>1. more[First(secs, n)].name = n /\ First(secs, n) \in 1 .. Len(more)
      BY <1>1, <1>3, <2>1
    <3>2. First(more, n) \in 1 .. Len(secs) /\ First(more, n) <= First(secs, n)
      BY <1>1, <1>2, <1>3, <2>1, <3>1
    <3>3. First(secs, n) <= First(more, n)
      BY <1>1, <1>2, <1>3, <2>1, <3>2
    <3> QED BY <1>3, <2>1, <3>2, <3>3
  <2>2. CASE First(secs, n) = 0 /\ s.name = n
    <3>1. \A i \in 1 .. Len(secs) : more[i].name # n
      BY <1>1, <1>3, <2>2
    <3>2. First(more, n) \in 1 .. Len(more) /\ more[First(more, n)].name = n
      BY <1>1, <1>2, <2>2
    <3> QED BY <1>1, <2>2, <3>1, <3>2
  <2>3. CASE First(secs, n) = 0 /\ s.name # n
    <3>1. \A i \in 1 .. Len(more) : more[i].name # n
      BY <1>1, <1>3, <2>3
    <3> QED BY <1>2, <2>3, <3>1
  <2> QED BY <2>1, <2>2, <2>3
<1> QED BY <1>4 DEF more

-----------------------------------------------------------------------------
(* What is hashed.                                                         *)

(* Concatenation, as an operator the provers need not look into.           *)
Cat(x, y) == x \o y

(* d gives what is joined after each piece.                                *)
IsJoin(d, pieces) ==
    /\ d \in [0 .. Len(pieces) -> Seq(Int)]
    /\ d[0] = <<>>
    /\ \A n \in 1 .. Len(pieces) : d[n] = Cat(d[n - 1], pieces[n])

(* Joined is such a d after the last piece.                                *)
LEMMA JoinRuns ==
    ASSUME NEW pieces \in Seq(Seq(Int))
    PROVE  \E d : IsJoin(d, pieces) /\ Joined(pieces) = d[Len(pieces)]
<1> DEFINE N == Len(pieces)
           S == Seq(Int)
           F(d) == [n \in 0 .. N |->
                      IF n = 0 THEN <<>> ELSE Cat(d[n - 1], pieces[n])]
           G == [n \in 1 .. N |-> [x \in S |-> Cat(x, pieces[n])]]
           D == CHOOSE d : d = F(d)
<1>1. N \in Nat /\ \A n \in 1 .. N : pieces[n] \in S
  OBVIOUS
<1>2. <<>> \in S /\ \A x, y \in S : Cat(x, y) \in S
  BY DEF Cat
<1>3. Joined(pieces) = D[N]
  BY DEF Joined, Cat
<1> HIDE DEF N, S
<1>4. G \in [1 .. N -> [S -> S]]
  BY <1>1, <1>2
<1>5. \A x \in S, n \in 1 .. N : G[n][x] = Cat(x, pieces[n])
  OBVIOUS
<1> HIDE DEF G
<1>6. PICK f : IsRun(f, S, <<>>, N, G)
  BY <1>1, <1>2, <1>4, LoopRuns
<1>7. \A n \in 1 .. N : n - 1 \in 0 .. N /\ n \in 0 .. N
  BY <1>1
<1>8. /\ f \in [0 .. N -> S] /\ f[0] = <<>>
      /\ \A n \in 1 .. N : f[n] = Cat(f[n - 1], pieces[n])
  BY <1>5, <1>6, <1>7 DEF IsRun
<1>9. \A n \in 0 .. N : f[n] = F(f)[n]
  <2>1. 0 \in 0 .. N /\ \A n \in 0 .. N : n # 0 => n \in 1 .. N
    BY <1>1
  <2>2. F(f)[0] = <<>>
    BY <2>1
  <2>3. \A n \in 1 .. N : F(f)[n] = Cat(f[n - 1], pieces[n])
    BY <1>7
  <2> HIDE DEF F
  <2> QED BY <1>8, <2>1, <2>2, <2>3
<1>10. f = F(f)
  BY <1>8, <1>9
<1>11. D = F(D)
  BY <1>10
<1> HIDE DEF D
<1>12. D[0] = <<>> /\ \A n \in 1 .. N : D[n] = Cat(D[n - 1], pieces[n])
  BY <1>1, <1>7, <1>11
<1>13. 0 .. N \subseteq {n \in 0 .. N : D[n] \in S}
  <2> DEFINE P == {n \in 0 .. N : D[n] \in S}
  <2>1. 0 \in P
    BY <1>1, <1>2, <1>12
  <2>2. ASSUME NEW n \in 0 .. N, n # 0, n - 1 \in P
        PROVE  n \in P
    <3>1. n \in 1 .. N /\ D[n - 1] \in S
      BY <1>1, <2>2
    <3>2. D[n] = Cat(D[n - 1], pieces[n]) /\ pieces[n] \in S
      BY <1>1, <1>12, <3>1
    <3> QED BY <1>2, <3>1, <3>2
  <2> HIDE DEF P
  <2>3. 0 .. N \subseteq P
    BY <1>1, <2>1, <2>2, UpTo
  <2> QED BY <2>3 DEF P
<1>14. D \in [0 .. N -> S]
  BY <1>11, <1>13
<1> QED BY <1>3, <1>12, <1>14 DEF N, S, IsJoin

(* Pieces that begin alike are joined alike so far.                        *)
LEMMA JoinPrefix ==
    ASSUME NEW a \in Seq(Seq(Int)), NEW b \in Seq(Seq(Int)), NEW d, NEW e,
           IsJoin(d, a), IsJoin(e, b), Len(a) <= Len(b),
           \A n \in 1 .. Len(a) : a[n] = b[n]
    PROVE  d[Len(a)] = e[Len(a)]
<1> DEFINE N == Len(a)
           P == {n \in 0 .. N : d[n] = e[n]}
<1>1. N \in Nat /\ Len(b) \in Nat /\ N <= Len(b)
  OBVIOUS
<1>2. 0 \in P
  BY <1>1 DEF IsJoin
<1>3. ASSUME NEW n \in 0 .. N, n # 0, n - 1 \in P
      PROVE  n \in P
  <2>1. n \in 1 .. Len(a) /\ n \in 1 .. Len(b)
    BY <1>1, <1>3
  <2>2. d[n] = Cat(d[n - 1], a[n]) /\ e[n] = Cat(e[n - 1], b[n]) /\ a[n] = b[n]
    BY <2>1 DEF IsJoin
  <2> QED BY <1>3, <2>2
<1> HIDE DEF P, N
<1>4. 0 .. N \subseteq P
  BY <1>1, <1>2, <1>3, UpTo
<1>5. N \in P
  BY <1>1, <1>4
<1> QED BY <1>5 DEF N, P

(* A further piece comes last.                                             *)
LEMMA JoinedAppend ==
    ASSUME NEW pieces \in Seq(Seq(Int)), NEW x \in Seq(Int)
    PROVE  Joined(Append(pieces, x)) = Cat(Joined(pieces), x)
<1> DEFINE more == Append(pieces, x)
<1>1. /\ more \in Seq(Seq(Int)) /\ Len(more) = Len(pieces) + 1
      /\ \A i \in 1 .. Len(pieces) : more[i] = pieces[i]
      /\ more[Len(pieces) + 1] = x
      /\ Len(pieces) \in Nat
  OBVIOUS
<1> HIDE DEF more
<1>2. PICK d : IsJoin(d, pieces) /\ Joined(pieces) = d[Len(pieces)]
  BY JoinRuns
<1>3. PICK e : IsJoin(e, more) /\ Joined(more) = e[Len(more)]
  BY <1>1, JoinRuns
<1>4. d[Len(pieces)] = e[Len(pieces)]
  <2>0. Len(pieces) <= Len(more)
    BY <1>1
  <2>1. \A i \in 1 .. Len(pieces) : pieces[i] = more[i]
    BY <1>1
  <2>2. more \in Seq(Seq(Int)) /\ IsJoin(d, pieces) /\ IsJoin(e, more)
    BY <1>1, <1>2, <1>3
  <2> QED BY <2>0, <2>1, <2>2, JoinPrefix
<1>5. e[Len(more)] = Cat(e[Len(pieces)], x)
  <2>1. Len(more) \in 1 .. Len(more) /\ Len(more) - 1 = Len(pieces)
    BY <1>1
  <2>2. \A n \in 1 .. Len(more) : e[n] = Cat(e[n - 1], more[n])
    BY <1>3 DEF IsJoin
  <2>3. more[Len(more)] = x
    BY <1>1
  <2> QED BY <2>1, <2>2, <2>3
<1> QED BY <1>2, <1>3, <1>4, <1>5 DEF more

(* Nothing joined is nothing.                                              *)
LEMMA JoinedEmpty ==
    ASSUME NEW pieces \in Seq(Seq(Int)), Len(pieces) = 0
    PROVE  Joined(pieces) = <<>>
<1>1. PICK d : IsJoin(d, pieces) /\ Joined(pieces) = d[Len(pieces)]
  BY JoinRuns
<1> QED BY <1>1 DEF IsJoin

(* What is joined is a sequence of words.                                  *)
LEMMA JoinedTyped ==
    ASSUME NEW pieces \in Seq(Seq(Int))
    PROVE  Joined(pieces) \in Seq(Int)
<1>1. PICK d : IsJoin(d, pieces) /\ Joined(pieces) = d[Len(pieces)]
  BY JoinRuns
<1>2. Len(pieces) \in 0 .. Len(pieces)
  OBVIOUS
<1> QED BY <1>1, <1>2 DEF IsJoin

TextOf(s) == IF s.name = "text" THEN s.data ELSE <<>>
Pieces(secs) == [i \in 1 .. Len(secs) |->
    IF secs[i].name = "text" THEN secs[i].data ELSE <<>>]

(* A text section gives its contents, any other nothing.                   *)
LEMMA TextOfTyped ==
    ASSUME NEW s \in Sec
    PROVE  TextOf(s) \in Seq(Int)
<1>1. s.data \in Seq(Int) /\ <<>> \in Seq(Int)
  BY DEF Sec
<1> QED BY <1>1 DEF TextOf

(* There is one piece for every section.                                   *)
LEMMA PiecesTyped ==
    ASSUME NEW secs \in Seq(Sec)
    PROVE  /\ Pieces(secs) \in Seq(Seq(Int)) /\ Len(Pieces(secs)) = Len(secs)
           /\ \A i \in 1 .. Len(secs) : Pieces(secs)[i] = TextOf(secs[i])
           /\ Texts(secs) = Joined(Pieces(secs))
<1>1. \A i \in 1 .. Len(secs) : TextOf(secs[i]) \in Seq(Int)
  BY TextOfTyped
<1>2. Pieces(secs) = [i \in 1 .. Len(secs) |-> TextOf(secs[i])]
  BY DEF Pieces, TextOf
<1>3. Texts(secs) = Joined(Pieces(secs))
  BY DEF Texts, Pieces
<1> QED BY <1>1, <1>2, <1>3

(* A further section is a further piece.                                   *)
LEMMA PiecesAppend ==
    ASSUME NEW secs \in Seq(Sec), NEW s \in Sec
    PROVE  Pieces(Append(secs, s)) = Append(Pieces(secs), TextOf(s))
<1> DEFINE more == Append(secs, s)
           a == Pieces(more)
           b == Append(Pieces(secs), TextOf(s))
<1>1. /\ more \in Seq(Sec) /\ Len(more) = Len(secs) + 1
      /\ \A i \in 1 .. Len(secs) : more[i] = secs[i]
      /\ more[Len(secs) + 1] = s /\ Len(secs) \in Nat
  OBVIOUS
<1>2. TextOf(s) \in Seq(Int)
  BY TextOfTyped
<1> HIDE DEF more
<1>3. /\ a \in Seq(Seq(Int)) /\ Len(a) = Len(more)
      /\ \A i \in 1 .. Len(more) : a[i] = TextOf(more[i])
  BY <1>1, PiecesTyped
<1>4. /\ Pieces(secs) \in Seq(Seq(Int)) /\ Len(Pieces(secs)) = Len(secs)
      /\ \A i \in 1 .. Len(secs) : Pieces(secs)[i] = TextOf(secs[i])
  BY PiecesTyped
<1>5. /\ b \in Seq(Seq(Int)) /\ Len(b) = Len(secs) + 1
      /\ \A i \in 1 .. Len(secs) : b[i] = TextOf(secs[i])
      /\ b[Len(secs) + 1] = TextOf(s)
  BY <1>1, <1>2, <1>4
<1> HIDE DEF a, b
<1>6. \A i \in 1 .. Len(secs) + 1 : a[i] = b[i]
  <2> SUFFICES ASSUME NEW i \in 1 .. Len(secs) + 1
               PROVE  a[i] = b[i]
    OBVIOUS
  <2>1. a[i] = TextOf(more[i])
    BY <1>1, <1>3
  <2>2. CASE i = Len(secs) + 1
    BY <1>1, <1>5, <2>1, <2>2
  <2>3. CASE i \in 1 .. Len(secs)
    BY <1>1, <1>5, <2>1, <2>3
  <2> QED BY <1>1, <2>2, <2>3
<1>7. Len(a) = Len(b) /\ \A i \in 1 .. Len(a) : a[i] = b[i]
  BY <1>1, <1>3, <1>5, <1>6
<1>8. a = b
  BY <1>3, <1>5, <1>7
<1> QED BY <1>8 DEF a, b, more

(* The text of a further section comes last.                               *)
LEMMA TextsAppend ==
    ASSUME NEW secs \in Seq(Sec), NEW s \in Sec
    PROVE  Texts(Append(secs, s)) = Cat(Texts(secs), TextOf(s))
<1>1. Append(secs, s) \in Seq(Sec)
  OBVIOUS
<1>2. TextOf(s) \in Seq(Int)
  BY TextOfTyped
<1>3. Texts(Append(secs, s)) = Joined(Append(Pieces(secs), TextOf(s)))
  BY <1>1, PiecesTyped, PiecesAppend
<1> QED BY <1>2, <1>3, PiecesTyped, JoinedAppend

(* A section without contents adds nothing to the hash.                    *)
LEMMA CatEmpty ==
    ASSUME NEW x \in Seq(Int)
    PROVE  Cat(x, <<>>) = x
  BY DEF Cat

(* d gives what read_all_sections has kept after each section.             *)
Keep(kept, s, names) == IF s.name \in names THEN kept ELSE Append(kept, s)

IsKept(d, secs, names) ==
    /\ d \in [0 .. Len(secs) -> Seq(Sec)]
    /\ d[0] = <<>>
    /\ \A n \in 1 .. Len(secs) : d[n] = Keep(d[n - 1], secs[n], names)

(* Without is such a d after the last section.                             *)
LEMMA KeepRuns ==
    ASSUME NEW secs \in Seq(Sec), NEW names
    PROVE  \E d : IsKept(d, secs, names) /\ Without(secs, names) = d[Len(secs)]
<1> DEFINE N == Len(secs)
           S == Seq(Sec)
           F(d) == [n \in 0 .. N |->
                      IF n = 0 THEN <<>> ELSE Keep(d[n - 1], secs[n], names)]
           G == [n \in 1 .. N |-> [x \in S |-> Keep(x, secs[n], names)]]
           D == CHOOSE d : d = F(d)
<1>1. N \in Nat /\ \A n \in 1 .. N : secs[n] \in Sec
  OBVIOUS
<1>2. <<>> \in S /\ \A x \in S, y \in Sec : Keep(x, y, names) \in S
  BY DEF Keep
<1>3. Without(secs, names) = D[N]
  BY DEF Without, Keep
<1> HIDE DEF N, S
<1>4. G \in [1 .. N -> [S -> S]]
  BY <1>1, <1>2
<1>5. \A x \in S, n \in 1 .. N : G[n][x] = Keep(x, secs[n], names)
  OBVIOUS
<1> HIDE DEF G
<1>6. PICK f : IsRun(f, S, <<>>, N, G)
  BY <1>1, <1>2, <1>4, LoopRuns
<1>7. \A n \in 1 .. N : n - 1 \in 0 .. N /\ n \in 0 .. N
  BY <1>1
<1>8. /\ f \in [0 .. N -> S] /\ f[0] = <<>>
      /\ \A n \in 1 .. N : f[n] = Keep(f[n - 1], secs[n], names)
  BY <1>5, <1>6, <1>7 DEF IsRun
<1>9. \A n \in 0 .. N : f[n] = F(f)[n]
  <2>1. 0 \in 0 .. N /\ \A n \in 0 .. N : n # 0 => n \in 1 .. N
    BY <1>1
  <2>2. F(f)[0] = <<>>
    BY <2>1
  <2>3. \A n \in 1 .. N : F(f)[n] = Keep(f[n - 1], secs[n], names)
    BY <1>7
  <2> HIDE DEF F
  <2> QED BY <1>8, <2>1, <2>2, <2>3
<1>10. f = F(f)
  BY <1>8, <1>9
<1>11. D = F(D)
  BY <1>10
<1> HIDE DEF D
<1>12. D[0] = <<>> /\ \A n \in 1 .. N : D[n] = Keep(D[n - 1], secs[n], names)
  BY <1>1, <1>7, <1>11
<1>13. 0 .. N \subseteq {n \in 0 .. N : D[n] \in S}
  <2> DEFINE P == {n \in 0 .. N : D[n] \in S}
  <2>1. 0 \in P
    BY <1>1, <1>2, <1>12
  <2>2. \A n \in 0 .. N : n # 0 /\ n - 1 \in P => n \in P
    BY <1>1, <1>2, <1>12
  <2> HIDE DEF P
  <2>3. 0 .. N \subseteq P
    BY <1>1, <2>1, <2>2, UpTo
  <2> QED BY <2>3 DEF P
<1>14. D \in [0 .. N -> S]
  BY <1>11, <1>13
<1> QED BY <1>3, <1>12, <1>14 DEF N, S, IsKept

(* Leaving out sections that are not text does not change the text.        *)
LEMMA WithoutTexts ==
    ASSUME NEW secs \in Seq(Sec), NEW names, "text" \notin names
    PROVE  Texts(Without(secs, names)) = Texts(secs)
<1> DEFINE N == Len(secs)
           pieces == Pieces(secs)
<1>1. /\ N \in Nat /\ pieces \in Seq(Seq(Int)) /\ Len(pieces) = N
      /\ \A i \in 1 .. N : secs[i] \in Sec /\ pieces[i] = TextOf(secs[i])
      /\ Texts(secs) = Joined(pieces)
  BY PiecesTyped
<1>2. PICK d : IsKept(d, secs, names) /\ Without(secs, names) = d[N]
  BY KeepRuns
<1> HIDE DEF pieces
<1>3. PICK e : IsJoin(e, pieces) /\ Joined(pieces) = e[N]
  BY <1>1, JoinRuns
<1> HIDE DEF N
<1>4. /\ d \in [0 .. N -> Seq(Sec)] /\ d[0] = <<>>
      /\ \A n \in 1 .. N : d[n] = Keep(d[n - 1], secs[n], names)
  BY <1>2 DEF IsKept, N
<1>5. /\ e \in [0 .. N -> Seq(Int)] /\ e[0] = <<>>
      /\ \A n \in 1 .. N : e[n] = Cat(e[n - 1], TextOf(secs[n]))
  BY <1>1, <1>3 DEF IsJoin
<1> DEFINE P == {n \in 0 .. N : Texts(d[n]) = e[n]}
<1>6. 0 \in P
  <2>1. <<>> \in Seq(Sec) /\ Len(<<>>) = 0
    OBVIOUS
  <2>2. Texts(<<>>) = <<>>
    BY <2>1, PiecesTyped, JoinedEmpty
  <2> QED BY <1>1, <1>4, <1>5, <2>2
<1>7. ASSUME NEW n \in 0 .. N, n # 0, n - 1 \in P
      PROVE  n \in P
  <2>1. /\ n \in 1 .. N /\ n - 1 \in 0 .. N
        /\ Texts(d[n - 1]) = e[n - 1]
    BY <1>1, <1>7
  <2>2. /\ d[n - 1] \in Seq(Sec) /\ e[n - 1] \in Seq(Int) /\ secs[n] \in Sec
        /\ d[n] = Keep(d[n - 1], secs[n], names)
        /\ e[n] = Cat(e[n - 1], TextOf(secs[n]))
    BY <1>1, <1>4, <1>5, <2>1
  <2>3. CASE secs[n].name \in names
    <3>1. TextOf(secs[n]) = <<>>
      BY <2>3 DEF TextOf
    <3>2. e[n] = e[n - 1]
      BY <2>2, <3>1, CatEmpty
    <3> QED BY <2>1, <2>2, <2>3, <3>2 DEF Keep
  <2>4. CASE secs[n].name \notin names
    <3>1. d[n] = Append(d[n - 1], secs[n])
      BY <2>2, <2>4 DEF Keep
    <3>2. Texts(d[n]) = Cat(Texts(d[n - 1]), TextOf(secs[n]))
      BY <2>2, <3>1, TextsAppend
    <3> QED BY <2>1, <2>2, <3>2
  <2> QED BY <2>3, <2>4
<1> HIDE DEF P
<1>8. 0 .. N \subseteq P
  BY <1>1, <1>6, <1>7, UpTo
<1>9. N \in P
  BY <1>1, <1>8
<1> QED BY <1>1, <1>2, <1>3, <1>9 DEF P

(* What is kept are sections of other names, among them the first of each. *)
LEMMA WithoutFirst ==
    ASSUME NEW secs \in Seq(Sec), NEW names, NEW nm, nm \notin names
    PROVE  LET kept == Without(secs, names)
               f == First(secs, nm)
               k == First(kept, nm)
           IN  /\ f = 0 => k = 0
               /\ f # 0 => k # 0 /\ kept[k] = secs[f]
<1> DEFINE N == Len(secs)
           f == First(secs, nm)
<1>1. N \in Nat /\ \A i \in 1 .. N : secs[i] \in Sec
  OBVIOUS
<1>2. PICK d : IsKept(d, secs, names) /\ Without(secs, names) = d[N]
  BY KeepRuns
<1>3. \/ f = 0 /\ \A i \in 1 .. N : secs[i].name # nm
      \/ /\ f \in 1 .. N /\ secs[f].name = nm
         /\ \A i \in 1 .. N : secs[i].name = nm => f <= i
  BY FirstCases
<1>4. /\ d \in [0 .. N -> Seq(Sec)] /\ d[0] = <<>>
      /\ \A n \in 1 .. N : d[n] = Keep(d[n - 1], secs[n], names)
  BY <1>2 DEF IsKept
<1> HIDE DEF N, f
<1> DEFINE Same(n) == LET k == First(d[n], nm) IN
                      /\ f = 0 \/ f > n => k = 0
                      /\ f # 0 /\ f <= n => k # 0 /\ d[n][k] = secs[f]
           P == {n \in 0 .. N : Same(n)}
<1>5. 0 \in P
  <2>1. <<>> \in Seq(Sec) /\ Len(<<>>) = 0
    OBVIOUS
  <2>2. First(<<>>, nm) = 0
    BY <2>1, FirstEmpty
  <2>3. f # 0 => f > 0
    BY <1>3
  <2> QED BY <1>1, <1>3, <1>4, <2>2, <2>3
<1>6. ASSUME NEW n \in 0 .. N, n # 0, n - 1 \in P
      PROVE  n \in P
  <2> DEFINE t == d[n - 1]
             j == First(t, nm)
             s == secs[n]
             k == First(d[n], nm)
  <2>1. n \in 1 .. N /\ n - 1 \in 0 .. N /\ f \in Nat /\ n \in Nat
    BY <1>1, <1>3, <1>6
  <2>2. /\ f = 0 \/ f > n - 1 => j = 0
        /\ f # 0 /\ f <= n - 1 => j # 0 /\ t[j] = secs[f]
    BY <1>6
  <2>3. t \in Seq(Sec) /\ s \in Sec /\ d[n] = Keep(t, s, names)
    BY <1>1, <1>4, <2>1
  <2>4. j # 0 => j \in 1 .. Len(t)
    BY <2>3, FirstCases
  <2>5. s.name = nm => f # 0 /\ f <= n
    BY <1>3, <2>1
  <2>6. f = n => s.name = nm
    BY <1>3, <2>1
  <2>7. CASE s.name \in names
    <3>1. d[n] = t /\ f # n
      BY <2>3, <2>6, <2>7 DEF Keep
    <3> HIDE DEF t, s
    <3>2. k = j
      BY <3>1
    <3>3. f = 0 \/ f > n => k = 0
      BY <2>1, <2>2, <3>2
    <3>4. f # 0 /\ f <= n => k # 0 /\ d[n][k] = secs[f]
      BY <2>1, <2>2, <3>1, <3>2
    <3> QED BY <3>3, <3>4
  <2>8. CASE s.name \notin names
    <3>1. d[n] = Append(t, s)
      BY <2>3, <2>8 DEF Keep
    <3>2. k = IF j # 0 THEN j ELSE IF s.name = nm THEN Len(t) + 1 ELSE 0
      BY <2>3, <3>1, FirstAppend
    <3>3. /\ \A i \in 1 .. Len(t) : d[n][i] = t[i]
          /\ d[n][Len(t) + 1] = s /\ Len(t) + 1 # 0
      BY <2>3, <3>1
    <3> HIDE DEF t, j, k
    <3>4. CASE j # 0
      <4>1. f # 0 /\ f <= n - 1
        BY <2>1, <2>2, <3>4
      <4>2. k = j /\ d[n][k] = secs[f]
        BY <2>2, <2>4, <3>2, <3>3, <3>4, <4>1
      <4>3. ~(f = 0 \/ f > n)
        BY <2>1, <4>1
      <4> QED BY <3>4, <4>2, <4>3 DEF k
    <3>5. CASE j = 0 /\ s.name = nm
      <4>1. f = n
        BY <2>1, <2>2, <2>5, <3>5
      <4>2. k = Len(t) + 1 /\ k # 0 /\ d[n][k] = secs[f]
        BY <3>2, <3>3, <3>5, <4>1
      <4>3. ~(f = 0 \/ f > n)
        BY <2>1, <4>1
      <4> QED BY <4>2, <4>3 DEF k
    <3>6. CASE j = 0 /\ s.name # nm
      <4>1. k = 0 /\ f # n
        BY <2>6, <3>2, <3>6
      <4>2. ~(f # 0 /\ f <= n)
        BY <2>1, <2>2, <3>6, <4>1
      <4> QED BY <4>1, <4>2 DEF k
    <3> QED BY <3>4, <3>5, <3>6
  <2> QED BY <2>7, <2>8
<1> HIDE DEF P
<1>7. 0 .. N \subseteq P
  BY <1>1, <1>5, <1>6, UpTo
<1>8. N \in P
  BY <1>1, <1>7
<1>9. f # 0 => f <= N
  BY <1>1, <1>3
<1> QED BY <1>2, <1>8, <1>9 DEF P, f

(* What is left has none of the names and comes from the object.           *)
LEMMA WithoutNames ==
    ASSUME NEW secs \in Seq(Sec), NEW names
    PROVE  LET kept == Without(secs, names)
           IN  /\ kept \in Seq(Sec)
               /\ \A i \in 1 .. Len(kept) : kept[i].name \notin names
               /\ \A i \in 1 .. Len(kept) :
                      \E j \in 1 .. Len(secs) : kept[i] = secs[j]
<1> DEFINE N == Len(secs)
           Good(t) == \A i \in 1 .. Len(t) :
                          /\ t[i].name \notin names
                          /\ \E j \in 1 .. N : t[i] = secs[j]
<1>1. N \in Nat /\ \A i \in 1 .. N : secs[i] \in Sec
  OBVIOUS
<1>2. PICK d : IsKept(d, secs, names) /\ Without(secs, names) = d[N]
  BY KeepRuns
<1>3. /\ d \in [0 .. N -> Seq(Sec)] /\ d[0] = <<>>
      /\ \A n \in 1 .. N : d[n] = Keep(d[n - 1], secs[n], names)
  BY <1>2 DEF IsKept
<1> HIDE DEF N
<1> DEFINE P == {n \in 0 .. N : Good(d[n])}
<1>4. 0 \in P
  <2>1. Len(<<>>) = 0
    OBVIOUS
  <2> QED BY <1>1, <1>3, <2>1
<1>5. ASSUME NEW n \in 0 .. N, n # 0, n - 1 \in P
      PROVE  n \in P
  <2> DEFINE t == d[n - 1]
             s == secs[n]
  <2>1. n \in 1 .. N /\ n - 1 \in 0 .. N
    BY <1>1, <1>5
  <2>2. Good(t)
    BY <1>5
  <2>3. t \in Seq(Sec) /\ s \in Sec /\ d[n] = Keep(t, s, names)
    BY <1>1, <1>3, <2>1
  <2>4. CASE s.name \in names
    <3>1. d[n] = t
      BY <2>3, <2>4 DEF Keep
    <3> QED BY <2>2, <3>1
  <2>5. CASE s.name \notin names
    <3>1. d[n] = Append(t, s)
      BY <2>3, <2>5 DEF Keep
    <3>2. /\ Len(d[n]) = Len(t) + 1 /\ Len(t) \in Nat
          /\ \A i \in 1 .. Len(t) : d[n][i] = t[i]
          /\ d[n][Len(t) + 1] = s
      BY <2>3, <3>1
    <3>3. ASSUME NEW i \in 1 .. Len(d[n])
          PROVE  d[n][i].name \notin names /\ \E j \in 1 .. N : d[n][i] = secs[j]
      <4>1. CASE i = Len(t) + 1
        BY <2>1, <2>5, <3>2, <4>1
      <4>2. CASE i \in 1 .. Len(t)
        BY <2>2, <3>2, <4>2
      <4> QED BY <3>2, <3>3, <4>1, <4>2
    <3> QED BY <3>3
  <2> QED BY <2>4, <2>5
<1> HIDE DEF P
<1>6. 0 .. N \subseteq P
  BY <1>1, <1>4, <1>5, UpTo
<1>7. N \in P /\ N \in 0 .. N
  BY <1>1, <1>6
<1> QED BY <1>2, <1>3, <1>7 DEF P, N

-----------------------------------------------------------------------------
(* The two tools agree on an object and on its signed copy.                *)

SigSec(s) == [name |-> "sig", data |-> <<>>, sig |-> s]
Shstrtab == Section("shstrtab", <<>>)

(* The two sections that merlin_sig_embed writes itself.                   *)
LEMMA OwnSections ==
    ASSUME NEW s \in Signatures
    PROVE  /\ SigSec(s) \in Sec /\ SigSec(s).name = "sig" /\ SigSec(s).sig = s
           /\ Shstrtab \in Sec /\ Shstrtab.name = "shstrtab"
           /\ Shstrtab.sig = NoSig
<1>1. <<>> \in Seq(Int) /\ "sig" \in SectionNames /\ "shstrtab" \in SectionNames
  BY DEF SectionNames
<1>2. \A n \in SectionNames, d \in Seq(Int), x \in Signatures \cup {NoSig} :
          LET a == [name |-> n, data |-> d, sig |-> x]
          IN  a \in Sec /\ a.name = n /\ a.sig = x
  BY DEF Sec
<1>3. SigSec(s) \in Sec /\ SigSec(s).name = "sig" /\ SigSec(s).sig = s
  BY <1>1, <1>2 DEF SigSec
<1>4. /\ Shstrtab \in Sec /\ Shstrtab.name = "shstrtab"
      /\ Shstrtab.sig = NoSig
  BY <1>1, <1>2 DEF Shstrtab, Section
<1> QED BY <1>3, <1>4

(* The sections of a signed file.                                          *)
LEMMA EmbedSections ==
    ASSUME NEW o \in Objects, NEW s \in Signatures
    PROVE  LET e == merlin_sig_embed(o, s)
               kept == read_all_sections(o)
           IN  /\ o.secs \in Seq(Sec) /\ kept \in Seq(Sec)
               /\ e.secs = Append(Append(kept, SigSec(s)), Shstrtab)
               /\ e \in Objects /\ e.lsb /\ e.machine = o.machine
<1> DEFINE kept == read_all_sections(o)
           e == merlin_sig_embed(o, s)
<1>1. o.secs \in Seq(Sec) /\ o.machine \in STRING
  BY DEF Objects, Sec
<1>2. kept \in Seq(Sec)
  BY <1>1, WithoutNames DEF read_all_sections
<1>3. SigSec(s) \in Sec /\ Shstrtab \in Sec
  BY OwnSections
<1>4. e = [lsb |-> TRUE, machine |-> o.machine,
           secs |-> kept \o <<SigSec(s), Shstrtab>>]
  BY DEF merlin_sig_embed, SigSec, Shstrtab
<1> HIDE DEF kept, e
<1>5. \A x, y \in Sec : kept \o <<x, y>> = Append(Append(kept, x), y)
  BY <1>2
<1>6. \A x, y \in Sec : Append(Append(kept, x), y) \in Seq(Sec)
  BY <1>2
<1>7. e.secs = Append(Append(kept, SigSec(s)), Shstrtab) /\ e.secs \in Seq(Sec)
  BY <1>3, <1>4, <1>5, <1>6
<1>8. e \in Objects /\ e.lsb /\ e.machine = o.machine
  BY <1>1, <1>4, <1>7 DEF Objects, Sec
<1> QED BY <1>1, <1>2, <1>7, <1>8 DEF kept, e

(* Each section that is hashed has the same contents in the copy.          *)
LEMMA EmbedData ==
    ASSUME NEW o \in Objects, NEW s \in Signatures,
           NEW nm, nm \notin {"shstrtab", "sig"}
    PROVE  LET e == merlin_sig_embed(o, s)
               f == First(o.secs, nm)
               k == First(e.secs, nm)
           IN  /\ f = 0 <=> k = 0
               /\ f # 0 => e.secs[k] = o.secs[f]
<1> DEFINE e == merlin_sig_embed(o, s)
           kept == read_all_sections(o)
           one == Append(kept, SigSec(s))
           f == First(o.secs, nm)
           j == First(kept, nm)
           k == First(e.secs, nm)
<1>1. /\ o.secs \in Seq(Sec) /\ kept \in Seq(Sec)
      /\ e.secs = Append(one, Shstrtab)
  BY EmbedSections
<1>2. /\ f = 0 => j = 0
      /\ f # 0 => j # 0 /\ kept[j] = o.secs[f]
  BY <1>1, WithoutFirst DEF read_all_sections
<1>3. j # 0 => j \in 1 .. Len(kept)
  BY <1>1, FirstCases
<1> HIDE DEF kept, e
<1>4. /\ SigSec(s) \in Sec /\ SigSec(s).name # nm
      /\ Shstrtab \in Sec /\ Shstrtab.name # nm
  BY OwnSections
<1>5. one \in Seq(Sec) /\ First(one, nm) = j
  <2>1. one \in Seq(Sec)
    BY <1>1, <1>4
  <2>2. First(one, nm) = IF j # 0 THEN j ELSE
                         IF SigSec(s).name = nm THEN Len(kept) + 1 ELSE 0
    BY <1>1, <1>4, FirstAppend
  <2> QED BY <1>4, <2>1, <2>2
<1>6. j # 0 => one[j] = kept[j] /\ j \in 1 .. Len(one)
  BY <1>1, <1>3, <1>4
<1> HIDE DEF one, j
<1>7. k = j
  <2>1. k = IF First(one, nm) # 0 THEN First(one, nm) ELSE
            IF Shstrtab.name = nm THEN Len(one) + 1 ELSE 0
    BY <1>1, <1>4, <1>5, FirstAppend
  <2> QED BY <1>4, <1>5, <2>1
<1>8. j # 0 => e.secs[j] = one[j]
  BY <1>1, <1>4, <1>5, <1>6
<1> HIDE DEF f, k
<1> QED BY <1>2, <1>6, <1>7, <1>8 DEF f, k, e

(* Neither of them, nor what is left out, is text.                         *)
LEMMA EmbedTexts ==
    ASSUME NEW o \in Objects, NEW s \in Signatures
    PROVE  Texts(merlin_sig_embed(o, s).secs) = Texts(o.secs)
<1> DEFINE kept == read_all_sections(o)
           one == Append(kept, SigSec(s))
<1>1. /\ o.secs \in Seq(Sec) /\ kept \in Seq(Sec)
      /\ merlin_sig_embed(o, s).secs = Append(one, Shstrtab)
  BY EmbedSections
<1>2. Texts(kept) = Texts(o.secs)
  BY <1>1, WithoutTexts DEF read_all_sections
<1> HIDE DEF kept
<1>3. /\ SigSec(s) \in Sec /\ TextOf(SigSec(s)) = <<>>
      /\ Shstrtab \in Sec /\ TextOf(Shstrtab) = <<>>
  BY OwnSections DEF TextOf
<1>4. \A t \in Seq(Sec), x \in Sec :
          TextOf(x) = <<>> => Append(t, x) \in Seq(Sec) /\ Texts(Append(t, x)) = Texts(t)
  <2> SUFFICES ASSUME NEW t \in Seq(Sec), NEW x \in Sec, TextOf(x) = <<>>
               PROVE  Append(t, x) \in Seq(Sec) /\ Texts(Append(t, x)) = Texts(t)
    OBVIOUS
  <2>1. Texts(t) \in Seq(Int)
    BY PiecesTyped, JoinedTyped
  <2>2. Texts(Append(t, x)) = Cat(Texts(t), <<>>)
    BY TextsAppend
  <2> QED BY <2>1, <2>2, CatEmpty
<1>5. one \in Seq(Sec) /\ Texts(one) = Texts(kept)
  BY <1>1, <1>3, <1>4
<1>6. Texts(Append(one, Shstrtab)) = Texts(one)
  <2> HIDE DEF one
  <2> QED BY <1>3, <1>4, <1>5
<1> QED BY <1>1, <1>2, <1>5, <1>6

-----------------------------------------------------------------------------
(* Signing.                                                                *)

Region(o) == merlin_sig_hash_signed_region(o)

(* The commands of merlin-sign that write, before and after the input was  *)
(* read for the copy.                                                      *)
Hashed == [pc : {"embed"}, in : Files, out : Files, raced : BOOLEAN,
           sig : Signatures]
Copied == [pc : {"open", "write"}, out : Files, raced : BOOLEAN,
           sig : Signatures, elf : Objects]

(* A signature is in the last section but one.                             *)
Placed(o) == \A i \in DOMAIN o.secs : o.secs[i].sig # NoSig =>
    o.secs[i].name = "sig" /\ i = Len(o.secs) - 1

(* The signature a command carries is of the region it hashed, and that is *)
(* still the region of what it will write unless the input was changed.    *)
CmdInv(p) ==
    /\ cmd[p] \in Hashed =>
          /\ cmd[p].sig.len = Len(cmd[p].sig.digest)
          /\ ~cmd[p].raced => /\ Elf(cmd[p].in)
                              /\ Region(object[cmd[p].in]) = cmd[p].sig.digest
    /\ cmd[p] \in Copied =>
          /\ cmd[p].sig.len = Len(cmd[p].sig.digest)
          /\ Placed(cmd[p].elf)
          /\ ~cmd[p].raced => Region(cmd[p].elf) = cmd[p].sig.digest
          /\ cmd[p].pc = "write" => object[cmd[p].out] = EmptyFile

(* One command writes a file at a time.                                    *)
OneWriter == \A p, q \in Procs :
    p # q /\ cmd[p] # NoCmd /\ cmd[q] # NoCmd => cmd[p].out # cmd[q].out

SignInv ==
    /\ object \in [Files -> Objects \cup {NoObject, EmptyFile}]
    /\ cmd \in [Procs -> {NoCmd} \cup Hashed \cup Copied]
    /\ clean \in [Files -> Signers \cup {NoSigner}]
    /\ \A f \in Files : Elf(f) => Placed(object[f])
    /\ \A f \in Files : clean[f] # NoSigner =>
           Elf(f) /\ cmd_verify(object[f], clean[f])
    /\ \A p \in Procs : CmdInv(p)
    /\ OneWriter

(* The contents of the first section of a name, as both tools read them.   *)
Contents(o, nm) == hash_section(o, find_named(o, nm))

(* Both tools find the same contents.                                      *)
LEMMA ContentsTyped ==
    ASSUME NEW o \in Objects, NEW nm
    PROVE  Contents(o, nm) \in Seq(Int) /\ sha256_section(o, nm) = Contents(o, nm)
<1>1. o.secs \in Seq(Sec)
  BY DEF Objects, Sec
<1>2. First(o.secs, nm) # 0 => o.secs[First(o.secs, nm)] \in Sec
  BY <1>1, FirstCases
<1>3. First(o.secs, nm) # 0 => o.secs[First(o.secs, nm)].data \in Seq(Int)
  BY <1>2 DEF Sec
<1> QED BY <1>3 DEF Contents, hash_section, find_named, sha256_section,
                    find_section

(* The six fixed sections, then the text.                                  *)
LEMMA RegionParts ==
    ASSUME NEW o \in Objects
    PROVE  /\ Region(o) = cmd_sha256(o)
           /\ Region(o) \in Seq(Int)
<1> DEFINE c(nm) == Contents(o, nm)
           p == [i \in 1 .. 6 |->
                   c(merlin_sig_canonical_fixed_sections[i])]
           T == Texts(o.secs)
<1>1. /\ Len(merlin_sig_canonical_fixed_sections) = 6
      /\ merlin_sig_canonical_fixed_sections[1] = "meta"
      /\ merlin_sig_canonical_fixed_sections[2] = "maps"
      /\ merlin_sig_canonical_fixed_sections[3] = "relocs"
      /\ merlin_sig_canonical_fixed_sections[4] = "btf"
      /\ merlin_sig_canonical_fixed_sections[5] = "btf_ext"
      /\ merlin_sig_canonical_fixed_sections[6] = "license"
  BY DEF merlin_sig_canonical_fixed_sections
<1>2. Region(o) = Joined(p) \o T
  BY <1>1 DEF Region, merlin_sig_hash_signed_region, Contents
<1>3. \A nm : c(nm) \in Seq(Int)
  BY ContentsTyped
<1>4. T \in Seq(Int)
  <2>1. o.secs \in Seq(Sec)
    BY DEF Objects, Sec
  <2> QED BY <2>1, PiecesTyped, JoinedTyped
<1>5. cmd_sha256(o) = c("meta") \o c("maps") \o c("relocs") \o c("btf")
                      \o c("btf_ext") \o c("license") \o T
  BY ContentsTyped DEF cmd_sha256
<1> HIDE DEF c
<1>6. /\ p \in Seq(Seq(Int)) /\ Len(p) = 6
      /\ p[1] = c("meta") /\ p[2] = c("maps") /\ p[3] = c("relocs")
      /\ p[4] = c("btf") /\ p[5] = c("btf_ext") /\ p[6] = c("license")
  BY <1>1, <1>3
<1> HIDE DEF p, T
<1>7. PICK d : IsJoin(d, p) /\ Joined(p) = d[6]
  BY <1>6, JoinRuns
<1>8. /\ d[0] = <<>> /\ \A n \in 1 .. 6 : d[n] = Cat(d[n - 1], p[n])
  BY <1>6, <1>7 DEF IsJoin
<1>9. /\ d[1] = Cat(d[0], p[1]) /\ d[2] = Cat(d[1], p[2])
      /\ d[3] = Cat(d[2], p[3]) /\ d[4] = Cat(d[3], p[4])
      /\ d[5] = Cat(d[4], p[5]) /\ d[6] = Cat(d[5], p[6])
  BY <1>8
<1>10. Cat(<<>>, c("meta")) = c("meta")
  BY <1>3 DEF Cat
<1>11. d[6] = c("meta") \o c("maps") \o c("relocs") \o c("btf")
              \o c("btf_ext") \o c("license")
  <2>1. d[1] = c("meta")
    BY <1>6, <1>8, <1>9, <1>10
  <2>2. d[2] = Cat(c("meta"), c("maps"))
    BY <1>6, <1>9, <2>1
  <2>3. d[3] = Cat(Cat(c("meta"), c("maps")), c("relocs"))
    BY <1>6, <1>9, <2>2
  <2>4. d[4] = Cat(Cat(Cat(c("meta"), c("maps")), c("relocs")), c("btf"))
    BY <1>6, <1>9, <2>3
  <2>5. d[5] = Cat(Cat(Cat(Cat(c("meta"), c("maps")), c("relocs")), c("btf")),
                   c("btf_ext"))
    BY <1>6, <1>9, <2>4
  <2>6. d[6] = Cat(Cat(Cat(Cat(Cat(c("meta"), c("maps")), c("relocs")),
                           c("btf")), c("btf_ext")), c("license"))
    BY <1>6, <1>9, <2>5
  <2> QED BY Zenon, <2>6 DEF Cat
<1>12. Joined(p) \in Seq(Int)
  BY <1>6, JoinedTyped
<1> QED BY <1>2, <1>4, <1>5, <1>7, <1>11, <1>12

(* Signing does not change what is hashed, and the file it writes carries  *)
(* the signature where extraction finds it.                                *)
LEMMA EmbedKeeps ==
    ASSUME NEW o \in Objects, NEW s \in Signatures
    PROVE  LET e == merlin_sig_embed(o, s)
           IN  /\ Region(e) = Region(o)
               /\ merlin_sig_extract(e) = s
               /\ \A nm : nm \notin {"shstrtab", "sig"} =>
                      /\ find_section(e, nm) # 0 <=> find_section(o, nm) # 0
                      /\ sha256_section(e, nm) = sha256_section(o, nm)
<1> DEFINE e == merlin_sig_embed(o, s)
           kept == read_all_sections(o)
           one == Append(kept, SigSec(s))
<1>1. /\ o.secs \in Seq(Sec) /\ kept \in Seq(Sec)
      /\ e.secs = Append(one, Shstrtab) /\ e \in Objects
  BY EmbedSections
<1>2. ASSUME NEW nm, nm \notin {"shstrtab", "sig"}
      PROVE  /\ find_section(e, nm) # 0 <=> find_section(o, nm) # 0
             /\ sha256_section(e, nm) = sha256_section(o, nm)
  <2>1. /\ First(o.secs, nm) = 0 <=> First(e.secs, nm) = 0
        /\ First(o.secs, nm) # 0 =>
               e.secs[First(e.secs, nm)] = o.secs[First(o.secs, nm)]
    BY <1>2, EmbedData
  <2> HIDE DEF e
  <2> QED BY <2>1 DEF find_section, sha256_section
<1>3. Texts(e.secs) = Texts(o.secs)
  BY EmbedTexts
<1>4. merlin_sig_extract(e) = s
  <2>1. First(kept, "sig") = 0
    <3>1. \A i \in 1 .. Len(kept) : kept[i].name # "sig"
      BY <1>1, WithoutNames DEF read_all_sections
    <3> HIDE DEF kept
    <3> QED BY <1>1, <3>1, FirstCases
  <2>2. /\ SigSec(s) \in Sec /\ SigSec(s).name = "sig" /\ SigSec(s).sig = s
        /\ Shstrtab \in Sec
    BY OwnSections
  <2> HIDE DEF kept
  <2>3. /\ one \in Seq(Sec) /\ First(one, "sig") = Len(kept) + 1
        /\ one[Len(kept) + 1] = SigSec(s) /\ Len(one) = Len(kept) + 1
        /\ Len(kept) \in Nat
    BY <1>1, <2>1, <2>2, FirstAppend
  <2> HIDE DEF one
  <2>4. First(Append(one, Shstrtab), "sig") = Len(kept) + 1
    BY <2>2, <2>3, FirstAppend
  <2>5. Append(one, Shstrtab)[Len(kept) + 1] = SigSec(s)
    BY <2>2, <2>3
  <2> HIDE DEF e
  <2> QED BY <1>1, <2>2, <2>3, <2>4, <2>5 DEF merlin_sig_extract, find_named
<1>5. Region(e) = Region(o)
  <2>1. Region(e) = cmd_sha256(e) /\ Region(o) = cmd_sha256(o)
    BY <1>1, RegionParts
  <2> HIDE DEF e
  <2>2. cmd_sha256(e) = cmd_sha256(o)
    <3> DEFINE Same(nm) == sha256_section(e, nm) = sha256_section(o, nm)
    <3>1. \A nm \in {"meta", "maps", "relocs", "btf", "btf_ext", "license"} :
              Same(nm)
      BY <1>2
    <3>2. /\ Same("meta") /\ Same("maps") /\ Same("relocs") /\ Same("btf")
          /\ Same("btf_ext") /\ Same("license")
      BY <3>1
    <3> QED BY Zenon, <1>3, <3>2 DEF cmd_sha256
  <2> QED BY <2>1, <2>2
<1> QED BY <1>2, <1>4, <1>5

(* The signature is put where extraction finds it and nowhere else.        *)
LEMMA EmbedPlaced ==
    ASSUME NEW o \in Objects, Placed(o), NEW s \in Signatures
    PROVE  Placed(merlin_sig_embed(o, s))
<1> DEFINE e == merlin_sig_embed(o, s)
           kept == read_all_sections(o)
           one == Append(kept, SigSec(s))
<1>1. /\ o.secs \in Seq(Sec) /\ kept \in Seq(Sec)
      /\ e.secs = Append(one, Shstrtab)
  BY EmbedSections
<1>2. /\ SigSec(s) \in Sec /\ SigSec(s).name = "sig"
      /\ Shstrtab \in Sec /\ Shstrtab.sig = NoSig
  BY OwnSections
<1>3. \A i \in 1 .. Len(kept) : kept[i].sig = NoSig
  <2>1. \A i \in 1 .. Len(kept) :
            kept[i].name # "sig" /\ \E j \in 1 .. Len(o.secs) : kept[i] = o.secs[j]
    BY <1>1, WithoutNames DEF read_all_sections
  <2>2. \A j \in 1 .. Len(o.secs) : o.secs[j].sig # NoSig => o.secs[j].name = "sig"
    BY <1>1 DEF Placed
  <2> QED BY <2>1, <2>2
<1> HIDE DEF kept, e
<1>4. /\ Len(kept) \in Nat /\ e.secs \in Seq(Sec) /\ Len(e.secs) = Len(kept) + 2
      /\ \A i \in 1 .. Len(kept) : e.secs[i] = kept[i]
      /\ e.secs[Len(kept) + 1] = SigSec(s)
      /\ e.secs[Len(kept) + 2] = Shstrtab
  BY <1>1, <1>2
<1> HIDE DEF one
<1>5. ASSUME NEW i \in DOMAIN e.secs, e.secs[i].sig # NoSig
      PROVE  e.secs[i].name = "sig" /\ i = Len(e.secs) - 1
  <2>1. i \in 1 .. Len(kept) + 2
    BY <1>4
  <2>2. CASE i \in 1 .. Len(kept)
    BY <1>3, <1>4, <1>5, <2>2
  <2>3. CASE i = Len(kept) + 1
    BY <1>2, <1>4, <2>3
  <2>4. CASE i = Len(kept) + 2
    BY <1>2, <1>4, <1>5, <2>4
  <2> QED BY <1>4, <2>1, <2>2, <2>3, <2>4
<1> QED BY <1>5 DEF Placed, e

(* A signature of what was hashed verifies in the file that signing wrote. *)
LEMMA EmbedVerifies ==
    ASSUME NEW o \in Objects, NEW s \in Signatures,
           s.digest = Region(o), s.len = Len(s.digest)
    PROVE  cmd_verify(merlin_sig_embed(o, s), s.key)
<1>1. /\ Region(merlin_sig_embed(o, s)) = Region(o)
      /\ merlin_sig_extract(merlin_sig_embed(o, s)) = s
  BY EmbedKeeps
<1>2. s # NoSig
  BY SignAssumption
<1> QED BY <1>1, <1>2 DEF cmd_verify, Region, merlin_sig_verify_ed25519

-----------------------------------------------------------------------------
(* The steps of the commands.                                              *)

Cmds == {NoCmd} \cup Hashed \cup Copied

(* The stage of a command tells which of its fields there are.             *)
LEMMA CmdShapes ==
    ASSUME NEW c \in Cmds
    PROVE  /\ c = NoCmd <=> c.pc = "idle"
           /\ c \in Hashed <=> c.pc = "embed"
           /\ c \in Copied <=> c.pc \in {"open", "write"}
<1>1. NoCmd.pc = "idle"
  BY DEF NoCmd
<1>2. c \in Hashed => c.pc = "embed"
  BY DEF Hashed
<1>3. c \in Copied => c.pc \in {"open", "write"}
  BY DEF Copied
<1> QED BY <1>1, <1>2, <1>3 DEF Cmds

(* A write to f only marks the commands that have hashed f.                *)
LEMMA DisturbFields ==
    ASSUME cmd \in [Procs -> Cmds], NEW f, NEW p \in Procs
    PROVE  LET c == Disturb(f)[p]
           IN  /\ c \in Cmds
               /\ ~(cmd[p] \in Hashed /\ cmd[p].in = f) => c = cmd[p]
               /\ cmd[p] \in Hashed /\ cmd[p].in = f =>
                      /\ c \in Hashed /\ c.raced /\ c.in = cmd[p].in
                      /\ c.out = cmd[p].out /\ c.sig = cmd[p].sig
<1>1. cmd[p] \in Cmds
  OBVIOUS
<1>2. cmd[p] \in Hashed <=> cmd[p].pc = "embed"
  BY <1>1, CmdShapes
<1>3. Disturb(f)[p] = IF cmd[p].pc = "embed" /\ cmd[p].in = f
                      THEN [cmd[p] EXCEPT !.raced = TRUE] ELSE cmd[p]
  BY DEF Disturb
<1>4. \A c \in Hashed, b \in BOOLEAN :
          LET a == [c EXCEPT !.raced = b]
          IN  /\ a \in Hashed /\ a.raced = b /\ a.in = c.in
              /\ a.out = c.out /\ a.sig = c.sig
  BY DEF Hashed
<1>5. CASE cmd[p] \in Hashed /\ cmd[p].in = f
  <2>1. Disturb(f)[p] = [cmd[p] EXCEPT !.raced = TRUE]
    BY <1>2, <1>3, <1>5
  <2> QED BY <1>4, <1>5, <2>1 DEF Cmds
<1>6. CASE ~(cmd[p] \in Hashed /\ cmd[p].in = f)
  <2>1. Disturb(f)[p] = cmd[p]
    BY <1>2, <1>3, <1>6
  <2> QED BY <1>1, <1>6, <2>1
<1> QED BY <1>5, <1>6

Stored == Objects \cup {NoObject, EmptyFile}

(* A file that is there and not empty is an object.                        *)
LEMMA ElfObject ==
    ASSUME object \in [Files -> Stored], NEW f \in Files
    PROVE  Elf(f) <=> object[f] \in Objects
  BY SignAssumption DEF Elf, Stored

(* A file that somebody writes: the commands that have hashed it are told, *)
(* and nobody else depends on it.                                          *)
LEMMA WriteStep ==
    ASSUME SignInv, NEW f \in Files, NEW x \in Stored,
           object' = [object EXCEPT ![f] = x], NEW p \in Procs,
           cmd'[p] = Disturb(f)[p],
           cmd[p].pc = "write" => cmd[p].out # f
    PROVE  CmdInv(p)'
<1>1. /\ object \in [Files -> Stored] /\ cmd \in [Procs -> Cmds] /\ CmdInv(p)
      /\ cmd[p] \in Cmds
  BY DEF SignInv, Stored, Cmds
<1>2. CASE cmd[p] \in Hashed /\ cmd[p].in = f
  <2>1. /\ cmd'[p] \in Hashed /\ cmd'[p].raced /\ cmd'[p].sig = cmd[p].sig
    BY <1>1, <1>2, DisturbFields
  <2>2. cmd'[p] \notin Copied
    BY <2>1, CmdShapes DEF Cmds
  <2> QED BY <1>1, <1>2, <2>1, <2>2 DEF CmdInv
<1>3. CASE ~(cmd[p] \in Hashed /\ cmd[p].in = f)
  <2>1. cmd'[p] = cmd[p]
    BY <1>1, <1>3, DisturbFields
  <2>2. cmd[p] \in Hashed =>
            /\ object'[cmd[p].in] = object[cmd[p].in] /\ cmd[p].in \in Files
    BY <1>1, <1>3 DEF Hashed
  <2>3. cmd[p] \in Copied /\ cmd[p].pc = "write" =>
            object'[cmd[p].out] = object[cmd[p].out]
    BY <1>1 DEF Copied
  <2> QED BY <1>1, <2>1, <2>2, <2>3 DEF CmdInv, Elf
<1> QED BY <1>2, <1>3

(* A command whose state and input stay as they are.                       *)
LEMMA OtherStep ==
    ASSUME NEW p \in Procs, CmdInv(p), object' = object, cmd'[p] = cmd[p]
    PROVE  CmdInv(p)'
  BY DEF CmdInv, Elf

(* No file and no command yet.                                             *)
LEMMA SignInvInit ==
    ASSUME SignInit
    PROVE  SignInv
<1>1. \A p \in Procs : cmd[p] = NoCmd
  BY DEF SignInit
<1>2. NoCmd \notin Hashed /\ NoCmd \notin Copied
  BY CmdShapes DEF Cmds, NoCmd
<1>3. \A f \in Files : ~Elf(f)
  BY DEF SignInit, Elf
<1>4. \A p \in Procs : CmdInv(p)
  BY <1>1, <1>2 DEF CmdInv
<1> QED BY <1>1, <1>3, <1>4 DEF SignInit, SignInv, OneWriter

(* The compiler writes f: a command that has hashed f is marked, and none  *)
(* has opened f for writing.                                               *)
LEMMA BuildStep ==
    ASSUME SignInv, NEW f \in Files, Build(f)
    PROVE  SignInv'
<1>1. PICK o \in Builds : object' = [object EXCEPT ![f] = o]
  BY DEF Build
<1>2. /\ object \in [Files -> Stored] /\ cmd \in [Procs -> Cmds]
      /\ clean \in [Files -> Signers \cup {NoSigner}]
  BY DEF SignInv, Stored, Cmds
<1>3. o \in Objects /\ Placed(o)
  BY SignAssumption DEF Placed
<1>4. cmd' = Disturb(f) /\ clean' = [clean EXCEPT ![f] = NoSigner]
  BY DEF Build
<1>5. object' \in [Files -> Stored]
  BY <1>1, <1>2, <1>3 DEF Stored
<1>6. cmd' \in [Procs -> Cmds]
  <2>1. cmd' = [p \in Procs |-> Disturb(f)[p]]
    BY <1>4 DEF Disturb
  <2>2. \A p \in Procs : Disturb(f)[p] \in Cmds
    BY <1>2, DisturbFields
  <2> QED BY <2>1, <2>2
<1>7. clean' \in [Files -> Signers \cup {NoSigner}]
  BY <1>2, <1>4
<1>8. \A g \in Files : Elf(g)' => Placed(object'[g])
  BY <1>1, <1>2, <1>3 DEF SignInv, Elf
<1>9. \A g \in Files : clean'[g] # NoSigner =>
          Elf(g)' /\ cmd_verify(object'[g], clean'[g])
  <2> SUFFICES ASSUME NEW g \in Files, clean'[g] # NoSigner
               PROVE  Elf(g)' /\ cmd_verify(object'[g], clean'[g])
    OBVIOUS
  <2>1. g # f
    BY <1>2, <1>4
  <2>2. object'[g] = object[g] /\ clean'[g] = clean[g]
    BY <1>1, <1>2, <1>4, <2>1
  <2> QED BY <2>2 DEF SignInv, Elf
<1>10. \A p \in Procs : CmdInv(p)'
  <2> SUFFICES ASSUME NEW p \in Procs
               PROVE  CmdInv(p)'
    OBVIOUS
  <2>1. cmd[p].pc = "write" => cmd[p].out # f
    BY DEF Build
  <2>2. o \in Stored
    BY <1>3 DEF Stored
  <2> QED BY <1>1, <1>4, <2>1, <2>2, WriteStep
<1>11. OneWriter'
  <2> SUFFICES ASSUME NEW p \in Procs, NEW q \in Procs, p # q,
                      cmd'[p] # NoCmd, cmd'[q] # NoCmd
               PROVE  cmd'[p].out # cmd'[q].out
    BY DEF OneWriter
  <2>1. \A r \in Procs : cmd'[r] # NoCmd =>
            cmd[r] # NoCmd /\ cmd'[r].out = cmd[r].out
    BY <1>2, <1>4, DisturbFields, CmdShapes
  <2> QED BY <2>1 DEF SignInv, OneWriter
<1> QED BY <1>5, <1>6, <1>7, <1>8, <1>9, <1>10, <1>11
        DEF SignInv, Stored, Cmds

(* What a step that leaves the files alone has to show of the commands.    *)
LEMMA CmdOnlyStep ==
    ASSUME SignInv, UNCHANGED <<object, clean>>, NEW p \in Procs, NEW c \in Cmds,
           cmd' = [cmd EXCEPT ![p] = c], CmdInv(p)',
           \A q \in Procs \ {p} : c # NoCmd /\ cmd[q] # NoCmd => cmd[q].out # c.out
    PROVE  SignInv'
<1>1. cmd \in [Procs -> Cmds]
  BY DEF SignInv, Cmds
<1>2. cmd' \in [Procs -> Cmds]
  BY <1>1
<1>3. /\ cmd'[p] = c
      /\ \A q \in Procs \ {p} : cmd'[q] = cmd[q]
  BY <1>1
<1>4. \A q \in Procs : CmdInv(q)'
  BY <1>3, OtherStep DEF SignInv
<1>5. OneWriter'
  BY <1>3 DEF SignInv, OneWriter
<1> QED BY <1>2, <1>4, <1>5 DEF SignInv, Cmds, Elf

(* The signature is of the file as it is now; the output is free.          *)
LEMMA HashStep ==
    ASSUME SignInv, NEW p \in Procs, SignHash(p)
    PROVE  SignInv'
<1>1. /\ object \in [Files -> Stored] /\ cmd \in [Procs -> Cmds]
      /\ UNCHANGED <<object, clean>>
  BY DEF SignInv, Stored, Cmds, SignHash
<1>2. PICK f \in Files, g \in Files, k \in Signers :
        /\ Elf(f) /\ ~Busy(g)
        /\ cmd' = [cmd EXCEPT ![p] =
             [pc |-> "embed", in |-> f, out |-> g, raced |-> FALSE,
              sig |-> [key |-> k, digest |-> Region(object[f]),
                       len |-> Len(Region(object[f]))]]]
  BY Zenon DEF SignHash, Region
<1> DEFINE s == [key |-> k, digest |-> Region(object[f]),
                 len |-> Len(Region(object[f]))]
           c == [pc |-> "embed", in |-> f, out |-> g, raced |-> FALSE, sig |-> s]
<1>3. object[f] \in Objects
  BY <1>1, <1>2, ElfObject
<1>4. Region(object[f]) \in Seq(Int)
  BY <1>3, RegionParts
<1>5. s \in Signatures /\ s.len = Len(s.digest) /\ s.digest = Region(object[f])
  BY <1>4 DEF Signatures
<1> HIDE DEF s
<1>6. /\ c \in Hashed /\ c.in = f /\ c.out = g /\ c.sig = s
  BY <1>5 DEF Hashed
<1>7. c \in Cmds
  BY <1>6 DEF Cmds
<1>8. cmd' = [cmd EXCEPT ![p] = c]
  BY <1>2 DEF s
<1> HIDE DEF c
<1>9. cmd'[p] = c
  BY <1>1, <1>8
<1>10. c \notin Copied
  BY <1>6, <1>7, CmdShapes
<1>11. CmdInv(p)'
  BY <1>1, <1>2, <1>5, <1>6, <1>9, <1>10 DEF CmdInv, Elf
<1>12. ASSUME NEW q \in Procs \ {p}, cmd[q] # NoCmd
       PROVE  cmd[q].out # c.out
  <2>1. cmd[q] \in Cmds
    BY <1>1
  <2>2. cmd[q].pc \in {"embed", "open", "write"}
    BY <1>12, <2>1, CmdShapes DEF Cmds
  <2> QED BY <1>2, <1>6, <2>2 DEF Busy
<1> QED BY <1>1, <1>7, <1>8, <1>11, <1>12, CmdOnlyStep

(* The copy is of the file that was hashed, unless that was marked.        *)
LEMMA ReadStep ==
    ASSUME SignInv, NEW p \in Procs, EmbedRead(p)
    PROVE  SignInv'
<1> DEFINE c == [pc |-> "open", out |-> cmd[p].out, raced |-> cmd[p].raced,
                 sig |-> cmd[p].sig, elf |-> object[cmd[p].in]]
<1>1. /\ object \in [Files -> Stored] /\ cmd \in [Procs -> Cmds]
      /\ UNCHANGED <<object, clean>> /\ CmdInv(p)
      /\ cmd[p].pc = "embed" /\ Elf(cmd[p].in)
      /\ cmd' = [cmd EXCEPT ![p] = c]
  BY DEF SignInv, Stored, Cmds, EmbedRead
<1>2. cmd[p] \in Hashed
  BY <1>1, CmdShapes
<1>3. /\ cmd[p].in \in Files /\ cmd[p].out \in Files
      /\ cmd[p].raced \in BOOLEAN /\ cmd[p].sig \in Signatures
  BY <1>2 DEF Hashed
<1>4. object[cmd[p].in] \in Objects /\ Placed(object[cmd[p].in])
  BY <1>1, <1>3, ElfObject DEF SignInv
<1>5. /\ c \in Copied /\ c.pc = "open" /\ c.out = cmd[p].out
      /\ c.raced = cmd[p].raced /\ c.sig = cmd[p].sig
      /\ c.elf = object[cmd[p].in]
  BY <1>3, <1>4 DEF Copied
<1> HIDE DEF c
<1>6. c \in Cmds /\ c \notin Hashed
  BY <1>5, CmdShapes DEF Cmds
<1>7. cmd'[p] = c
  BY <1>1
<1>8. CmdInv(p)'
  <2>1. /\ c.sig.len = Len(c.sig.digest)
        /\ ~c.raced => Region(c.elf) = c.sig.digest
    BY <1>1, <1>2, <1>5 DEF CmdInv
  <2> QED BY <1>4, <1>5, <1>6, <1>7, <2>1 DEF CmdInv
<1>9. cmd[p] # NoCmd
  BY <1>1 DEF NoCmd
<1>10. \A q \in Procs \ {p} : cmd[q] # NoCmd => cmd[q].out # c.out
  BY <1>5, <1>9 DEF SignInv, OneWriter
<1> QED BY <1>1, <1>6, <1>8, <1>10, CmdOnlyStep

(* A command that ends leaves nothing to keep.                             *)
LEMMA AbortStep ==
    ASSUME SignInv, NEW p \in Procs, Abort(p)
    PROVE  SignInv'
<1>1. /\ cmd \in [Procs -> Cmds] /\ UNCHANGED <<object, clean>>
      /\ cmd' = [cmd EXCEPT ![p] = NoCmd]
  BY DEF SignInv, Cmds, Abort
<1>2. NoCmd \in Cmds /\ NoCmd \notin Hashed /\ NoCmd \notin Copied
  BY CmdShapes DEF Cmds, NoCmd
<1>3. CmdInv(p)'
  BY <1>1, <1>2 DEF CmdInv
<1> QED BY <1>1, <1>2, <1>3, CmdOnlyStep

(* The two steps of a command that write its output: x is what the file    *)
(* holds then, c the command and k the history.                            *)
LEMMA OutputStep ==
    ASSUME SignInv, NEW p \in Procs, cmd[p] \in Copied,
           NEW x \in Stored, NEW c \in Cmds, NEW k \in Signers \cup {NoSigner},
           object' = [object EXCEPT ![cmd[p].out] = x],
           cmd' = [Disturb(cmd[p].out) EXCEPT ![p] = c],
           clean' = [clean EXCEPT ![cmd[p].out] = k],
           x \in Objects => Placed(x),
           k # NoSigner => x \in Objects /\ cmd_verify(x, k),
           c # NoCmd => c.out = cmd[p].out,
           CmdInv(p)'
    PROVE  SignInv'
<1> DEFINE f == cmd[p].out
<1>1. /\ object \in [Files -> Stored] /\ cmd \in [Procs -> Cmds]
      /\ clean \in [Files -> Signers \cup {NoSigner}]
  BY DEF SignInv, Stored, Cmds
<1>2. f \in Files /\ cmd[p] # NoCmd
  BY CmdShapes DEF Copied, Cmds, NoCmd
<1> HIDE DEF f
<1>3. /\ object' = [object EXCEPT ![f] = x]
      /\ cmd' = [Disturb(f) EXCEPT ![p] = c]
      /\ clean' = [clean EXCEPT ![f] = k]
  BY DEF f
<1>4. object' \in [Files -> Stored] /\ clean' \in [Files -> Signers \cup {NoSigner}]
  <2>1. object' \in [Files -> Stored]
    BY <1>1, <1>2, <1>3
  <2>2. clean' \in [Files -> Signers \cup {NoSigner}]
    BY <1>1, <1>2, <1>3
  <2> QED BY <2>1, <2>2
<1>5. Disturb(f) \in [Procs -> Cmds]
  <2>1. Disturb(f) = [q \in Procs |-> Disturb(f)[q]]
    BY DEF Disturb
  <2>2. \A q \in Procs : Disturb(f)[q] \in Cmds
    BY <1>1, DisturbFields
  <2> QED BY <2>1, <2>2
<1>6. /\ cmd' \in [Procs -> Cmds] /\ cmd'[p] = c
      /\ \A q \in Procs \ {p} : cmd'[q] = Disturb(f)[q]
  BY <1>3, <1>5
<1>7. \A g \in Files : /\ g = f => object'[g] = x /\ clean'[g] = k
                       /\ g # f => object'[g] = object[g] /\ clean'[g] = clean[g]
  BY <1>1, <1>2, <1>3
<1>8. x \notin {NoObject, EmptyFile} <=> x \in Objects
  BY SignAssumption DEF Stored
<1>9. \A g \in Files : Elf(g)' => Placed(object'[g])
  BY <1>7, <1>8 DEF SignInv, Elf
<1>10. \A g \in Files : clean'[g] # NoSigner =>
          Elf(g)' /\ cmd_verify(object'[g], clean'[g])
  BY <1>7, <1>8 DEF SignInv, Elf
<1>11. ASSUME NEW q \in Procs \ {p}
       PROVE  CmdInv(q)'
  <2>1. cmd[q].pc = "write" => cmd[q].out # f
    <3>1. cmd[q].pc = "write" => cmd[q] # NoCmd
      BY DEF NoCmd
    <3> QED BY <1>2, <3>1 DEF SignInv, OneWriter, f
  <2> QED BY <1>2, <1>3, <1>6, <2>1, WriteStep
<1>12. \A q \in Procs \ {p} : cmd'[q] # NoCmd =>
           cmd[q] # NoCmd /\ cmd'[q].out = cmd[q].out
  <2> SUFFICES ASSUME NEW q \in Procs \ {p}, cmd'[q] # NoCmd
               PROVE  cmd[q] # NoCmd /\ cmd'[q].out = cmd[q].out
    OBVIOUS
  <2>1. cmd[q] \in Hashed => cmd[q] # NoCmd
    BY DEF Hashed, NoCmd
  <2>2. cmd'[q] = Disturb(f)[q]
    BY <1>6
  <2>3. CASE cmd[q] \in Hashed /\ cmd[q].in = f
    <3>1. Disturb(f)[q].out = cmd[q].out
      BY <1>1, <2>3, DisturbFields
    <3> QED BY <2>1, <2>2, <2>3, <3>1
  <2>4. CASE ~(cmd[q] \in Hashed /\ cmd[q].in = f)
    <3>1. Disturb(f)[q] = cmd[q]
      BY <1>1, <2>4, DisturbFields
    <3> QED BY <2>2, <3>1
  <2> QED BY <2>3, <2>4
<1>13. OneWriter'
  <2> SUFFICES ASSUME NEW q \in Procs, NEW r \in Procs, q # r,
                      cmd'[q] # NoCmd, cmd'[r] # NoCmd
               PROVE  cmd'[q].out # cmd'[r].out
    BY DEF OneWriter
  <2>1. \A t \in Procs : cmd'[t] # NoCmd =>
            cmd[t] # NoCmd /\ cmd'[t].out = cmd[t].out
    BY <1>2, <1>6, <1>12
  <2> QED BY <2>1 DEF SignInv, OneWriter
<1> QED BY <1>4, <1>6, <1>9, <1>10, <1>11, <1>13 DEF SignInv, Stored, Cmds

(* The output is emptied: it is not signed any more.                       *)
LEMMA OpenStep ==
    ASSUME SignInv, NEW p \in Procs, EmbedOpen(p)
    PROVE  SignInv'
<1> DEFINE f == cmd[p].out
           c == [cmd[p] EXCEPT !.pc = "write"]
<1>1. /\ object \in [Files -> Stored] /\ cmd \in [Procs -> Cmds] /\ CmdInv(p)
      /\ cmd[p].pc = "open"
  BY DEF SignInv, Stored, Cmds, EmbedOpen
<1>2. cmd[p] \in Copied /\ cmd[p] \notin Hashed
  BY <1>1, CmdShapes
<1>3. Disturb(f)[p] = cmd[p]
  BY <1>1, <1>2, DisturbFields
<1>4. /\ object' = [object EXCEPT ![f] = EmptyFile]
      /\ cmd' = [Disturb(f) EXCEPT ![p] = c]
      /\ clean' = [clean EXCEPT ![f] = NoSigner]
  <2>1. cmd' = [Disturb(f) EXCEPT ![p] = [Disturb(f)[p] EXCEPT !.pc = "write"]]
    BY DEF EmbedOpen
  <2> QED BY <1>3, <2>1 DEF EmbedOpen
<1>5. \A d \in Copied : LET a == [d EXCEPT !.pc = "write"] IN
          /\ a \in Copied /\ a.pc = "write" /\ a.out = d.out /\ a.raced = d.raced
          /\ a.sig = d.sig /\ a.elf = d.elf
  BY DEF Copied
<1>6. /\ c \in Copied /\ c.pc = "write" /\ c.out = f /\ c.raced = cmd[p].raced
      /\ c.sig = cmd[p].sig /\ c.elf = cmd[p].elf
  BY <1>2, <1>5
<1> HIDE DEF c
<1>7. c \in Cmds /\ c \notin Hashed /\ EmptyFile \in Stored
  BY <1>6, CmdShapes DEF Cmds, Stored
<1>8. f \in Files
  BY <1>2 DEF Copied
<1>9. cmd'[p] = c
  BY <1>4 DEF Disturb
<1>10. object'[c.out] = EmptyFile
  BY <1>1, <1>4, <1>6, <1>8
<1>11. CmdInv(p)'
  BY <1>1, <1>2, <1>6, <1>7, <1>9, <1>10 DEF CmdInv
<1>12. EmptyFile \notin Objects
  BY SignAssumption
<1> QED BY <1>2, <1>4, <1>6, <1>7, <1>11, <1>12, OutputStep

(* The output is written: it is the copy with its signature.               *)
LEMMA WriteOutStep ==
    ASSUME SignInv, NEW p \in Procs, EmbedWrite(p)
    PROVE  SignInv'
<1> DEFINE x == merlin_sig_embed(cmd[p].elf, cmd[p].sig)
           k == IF cmd[p].raced THEN NoSigner ELSE cmd[p].sig.key
<1>1. /\ cmd \in [Procs -> Cmds] /\ CmdInv(p) /\ cmd[p].pc = "write"
      /\ object' = [object EXCEPT ![cmd[p].out] = x]
      /\ cmd' = [Disturb(cmd[p].out) EXCEPT ![p] = NoCmd]
      /\ clean' = [clean EXCEPT ![cmd[p].out] = k]
  BY DEF SignInv, Cmds, EmbedWrite
<1>2. cmd[p] \in Copied
  BY <1>1, CmdShapes
<1>3. cmd[p].elf \in Objects /\ cmd[p].sig \in Signatures
  BY <1>2 DEF Copied
<1>4. /\ cmd[p].sig.len = Len(cmd[p].sig.digest) /\ Placed(cmd[p].elf)
      /\ ~cmd[p].raced => Region(cmd[p].elf) = cmd[p].sig.digest
  BY <1>1, <1>2 DEF CmdInv
<1>5. x \in Objects /\ Placed(x)
  BY <1>3, <1>4, EmbedSections, EmbedPlaced
<1>6. cmd[p].sig.key \in Signers
  BY <1>3 DEF Signatures
<1>7. k \in Signers \cup {NoSigner}
  BY <1>6
<1>8. k # NoSigner => cmd_verify(x, k)
  BY <1>3, <1>4, EmbedVerifies
<1> HIDE DEF x, k
<1>9. NoCmd \in Cmds /\ NoCmd \notin Hashed /\ NoCmd \notin Copied
  BY CmdShapes DEF Cmds, NoCmd
<1>10. cmd'[p] = NoCmd
  BY <1>1 DEF Disturb
<1>11. CmdInv(p)'
  BY <1>9, <1>10 DEF CmdInv
<1>12. x \in Stored
  BY <1>5 DEF Stored
<1> QED BY <1>1, <1>2, <1>5, <1>7, <1>8, <1>9, <1>11, <1>12, OutputStep

(* One step per action.                                                    *)
LEMMA SignInvNext ==
    ASSUME SignInv, [SignNext]_signVars
    PROVE  SignInv'
<1>1. CASE UNCHANGED signVars
  BY <1>1 DEF signVars, SignInv, CmdInv, OneWriter, Elf
<1>2. ASSUME NEW f \in Files, Build(f)
      PROVE  SignInv'
  BY <1>2, BuildStep
<1>3. ASSUME NEW p \in Procs,
             \/ SignHash(p) \/ EmbedRead(p) \/ EmbedOpen(p)
             \/ EmbedWrite(p) \/ Abort(p)
      PROVE  SignInv'
  BY <1>3, HashStep, ReadStep, OpenStep, WriteOutStep, AbortStep
<1> QED BY <1>1, <1>2, <1>3 DEF SignNext

(* SignInv holds whatever cmd_sign, the compiler and the failures of both  *)
(* do in any order.                                                        *)
THEOREM SignInvariant == SignSpec => []SignInv
<1>1. SignInit => SignInv
  BY SignInvInit
<1>2. SignInv /\ [SignNext]_signVars => SignInv'
  BY SignInvNext
<1> QED BY <1>1, <1>2, PTL DEF SignSpec

(* A file that a signing finished on, with an input that nobody wrote      *)
(* between the two readings of cmd_sign, is accepted by cmd_verify with    *)
(* that key until somebody writes it again - for every set of files, keys, *)
(* objects and commands that run beside each other; and a signature is     *)
(* always in the one section where merlin_sig_extract looks for it.        *)
THEOREM SignedStaysVerified == SignSpec => []SignedVerifies
<1>1. SignInv => SignedVerifies
  <2> SUFFICES ASSUME SignInv
               PROVE  SignedVerifies
    OBVIOUS
  <2>1. /\ object \in [Files -> Stored] /\ cmd \in [Procs -> Cmds]
    BY DEF SignInv, Stored, Cmds
  <2>2. ASSUME NEW f \in Files, Elf(f), NEW i \in DOMAIN object[f].secs,
               object[f].secs[i].sig # NoSig
        PROVE  /\ object[f].secs[i].name = "sig"
               /\ object[f].secs[i].sig.key \in Signers
               /\ i = Len(object[f].secs) - 1
    <3>1. object[f].secs \in Seq(Sec)
      BY <2>1, <2>2, ElfObject DEF Objects, Sec
    <3>2. object[f].secs[i] \in Sec
      BY <3>1
    <3>3. object[f].secs[i].sig \in Signatures
      BY <2>2, <3>2 DEF Sec
    <3>4. object[f].secs[i].sig.key \in Signers
      BY <3>3 DEF Signatures
    <3> QED BY <2>2, <3>4 DEF SignInv, Placed
  <2>3. \A p \in Procs : cmd[p].pc \in {"idle", "embed", "open", "write"}
    BY <2>1, CmdShapes DEF Cmds
  <2>4. SignTypeOK
    BY <2>2, <2>3 DEF SignTypeOK, SignInv
  <2> QED BY <2>4 DEF SignedVerifies, SignInv
<1> QED BY <1>1, SignInvariant, PTL

(* merlin-objtool validate reads only sections that are carried over.      *)
LEMMA EmbedValid ==
    ASSUME NEW o \in Objects, NEW s \in Signatures, run_validate(o)
    PROVE  run_validate(merlin_sig_embed(o, s))
<1> DEFINE e == merlin_sig_embed(o, s)
<1>1. ASSUME NEW nm \in {"meta", "license", "maps", "relocs"}
      PROVE  /\ find_section(e, nm) # 0 <=> find_section(o, nm) # 0
             /\ sha256_section(e, nm) = sha256_section(o, nm)
  BY EmbedKeeps
<1>2. e.lsb /\ e.machine = o.machine
  BY DEF merlin_sig_embed
<1> HIDE DEF e
<1>3. validate_meta(e) /\ validate_license(e)
  BY <1>1 DEF run_validate, validate_meta, validate_license
<1>4. validate_maps(e) /\ validate_relocs(e)
  BY <1>1 DEF run_validate, validate_maps, validate_relocs
<1> QED BY <1>2, <1>3, <1>4 DEF run_validate, e

(* merlin_sig_embed keeps the tag and the validity of the object that it   *)
(* copies: the region that merlin-sign hashes of the output is the one     *)
(* that merlin-objtool's own list, cmd_sha256, gives of the input, and an  *)
(* object that run_validate accepts is still accepted - for every object,  *)
(* in any order of its sections and with an old signature or without.      *)
THEOREM SigningKeepsTag == SignSpec => SigningKeeps
<1> DEFINE Kept(p) ==
      cmd[p].pc = "write" /\ object'[cmd[p].out] \notin {NoObject, EmptyFile} =>
          /\ merlin_sig_hash_signed_region(object'[cmd[p].out])
                 = cmd_sha256(cmd[p].elf)
          /\ run_validate(cmd[p].elf) => run_validate(object'[cmd[p].out])
<1>1. ASSUME SignInv, SignNext, NEW p \in Procs, cmd[p].pc = "write",
             object'[cmd[p].out] \notin {NoObject, EmptyFile}
      PROVE  Kept(p)
  <2>1. /\ object \in [Files -> Stored] /\ cmd \in [Procs -> Cmds] /\ CmdInv(p)
    BY <1>1 DEF SignInv, Stored, Cmds
  <2>2. cmd[p] \in Copied
    BY <1>1, <2>1, CmdShapes
  <2>3. /\ cmd[p].out \in Files /\ cmd[p].sig \in Signatures
        /\ cmd[p].elf \in Objects
    BY <2>2 DEF Copied
  <2>4. object[cmd[p].out] = EmptyFile
    BY <1>1, <2>1, <2>2 DEF CmdInv
  <2>5. object' # object
    BY <1>1, <2>4
  <2>6. ASSUME NEW f \in Files, Build(f)
        PROVE  FALSE
    <3>1. cmd[p].out # f
      BY <1>1, <2>6 DEF Build
    <3>2. object'[cmd[p].out] = object[cmd[p].out]
      BY <2>1, <2>3, <2>6, <3>1 DEF Build
    <3> QED BY <1>1, <2>4, <3>2
  <2>7. ASSUME NEW q \in Procs, EmbedOpen(q)
        PROVE  FALSE
    <3>1. object' = [object EXCEPT ![cmd[q].out] = EmptyFile]
      BY <2>7 DEF EmbedOpen
    <3>2. object'[cmd[p].out] \in {object[cmd[p].out], EmptyFile}
      BY <2>1, <2>3, <3>1
    <3> QED BY <1>1, <2>4, <3>2
  <2>8. PICK q \in Procs : EmbedWrite(q)
    BY <1>1, <2>5, <2>6, <2>7 DEF SignNext, SignHash, EmbedRead, Abort
  <2>9. object' = [object EXCEPT ![cmd[q].out] =
                                    merlin_sig_embed(cmd[q].elf, cmd[q].sig)]
    BY <2>8 DEF EmbedWrite
  <2>10. q = p
    <3> SUFFICES ASSUME q # p
                 PROVE  FALSE
      OBVIOUS
    <3>1. cmd[q] # NoCmd /\ cmd[p] # NoCmd
      BY <1>1, <2>8 DEF EmbedWrite, NoCmd
    <3>2. cmd[q].out # cmd[p].out
      BY <1>1, <3>1 DEF SignInv, OneWriter
    <3>3. object'[cmd[p].out] = object[cmd[p].out]
      BY <2>1, <2>3, <2>9, <3>2
    <3> QED BY <1>1, <2>4, <3>3
  <2>11. object'[cmd[p].out] = merlin_sig_embed(cmd[p].elf, cmd[p].sig)
    BY <2>1, <2>3, <2>9, <2>10
  <2>12. Region(object'[cmd[p].out]) = cmd_sha256(cmd[p].elf)
    BY <2>3, <2>11, EmbedKeeps, RegionParts
  <2> QED BY <2>3, <2>11, <2>12, EmbedValid DEF Region
<1>2. SignInv /\ [SignNext]_signVars => [\A p \in Procs : Kept(p)]_signVars
  BY <1>1
<1>3. ([][\A p \in Procs : Kept(p)]_signVars) <=> SigningKeeps
  BY DEF SigningKeeps
<1> HIDE DEF Kept
<1> QED BY <1>2, <1>3, SignInvariant, PTL DEF SignSpec
=============================================================================
