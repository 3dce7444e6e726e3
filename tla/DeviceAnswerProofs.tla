------------------------- MODULE DeviceAnswerProofs -------------------------
(***************************************************************************)
(* AnswerIsTrue, InStep and OutputIsWhole, for any files, features, inputs *)
(* and numbers of calls.                                                   *)
(* The replies of the service are followed word by word from where it      *)
(* writes them to where the client reads them, however the channel cuts    *)
(* them into chunks: what is on its way is always what the client has yet  *)
(* to read of the answer to the call it is making, or, when the service    *)
(* has gone, the beginning of that.  For a command what is on its way is   *)
(* what of the frames it has written the client has yet to parse.          *)
(***************************************************************************)
EXTENDS DeviceProofs, FiniteSetTheorems, WellFoundedInduction

-----------------------------------------------------------------------------
(* Induction on natural numbers for a set of them, which follows from the   *)
(* least element of such a set, and what FlattenSeq computes for every      *)
(* sequence of sequences, proved by it.                                     *)
(* A set of natural numbers has a least element. *)
LEMMA Least ==
    ASSUME NEW T, T \subseteq Nat, T # {}
    PROVE  \E x \in T : \A y \in T : x <= y
<1> DEFINE R == OpToRel(<, Nat)
<1>1. IsWellFoundedOn(R, Nat)
  BY NatLessThanWellFounded
<1>2. \E x \in T : \A y \in T : ~(<<y, x>> \in R)
  <2> HIDE DEF R
  <2> QED BY <1>1, WFMin
<1>3. \A x, y \in Nat : <<y, x>> \in R <=> y < x
  BY DEF OpToRel
<1> HIDE DEF R
<1>4. PICK x \in T : \A y \in T : ~(<<y, x>> \in R)
  BY <1>2
<1>5. \A y \in T : x <= y
  <2> SUFFICES ASSUME NEW y \in T PROVE x <= y
    OBVIOUS
  <2>1. ~(y < x)
    BY <1>3, <1>4
  <2> QED BY <2>1
<1> QED BY <1>5

(* A set that has 0 and with k also k + 1 has every natural number. *)
LEMMA Induction ==
    ASSUME NEW T, 0 \in T, \A k \in Nat : k \in T => k + 1 \in T
    PROVE  \A k \in Nat : k \in T
<1> SUFFICES ASSUME NEW k \in Nat, k \notin T PROVE FALSE
  OBVIOUS
<1> DEFINE U == {x \in Nat : x \notin T}
<1>1. PICK x \in U : \A y \in U : x <= y
  <2> U # {} /\ U \subseteq Nat OBVIOUS
  <2> HIDE DEF U
  <2> QED BY Least
<1>2. x # 0 OBVIOUS
<1>3. x - 1 \in Nat /\ x - 1 \notin U
  BY <1>1, <1>2
<1>4. x - 1 \in T BY <1>3
<1> QED BY <1>3, <1>4

-----------------------------------------------------------------------------
(* The sums of the first i of s, for i up to k. *)
Sums(f, s, k) == f = [i \in 1 .. k |-> IF i = 1 THEN s[i] ELSE f[i - 1] \o s[i]]

LEMMA SumsAt ==
    ASSUME NEW f, NEW s, NEW k \in Nat, Sums(f, s, k), NEW j \in 1 .. k
    PROVE  f[j] = IF j = 1 THEN s[j] ELSE f[j - 1] \o s[j]
<1>1. f = [i \in 1 .. k |-> IF i = 1 THEN s[i] ELSE f[i - 1] \o s[i]]
  BY DEF Sums
<1> QED BY <1>1

(* They exist. *)
LEMMA SumsExist == ASSUME NEW s, NEW k \in Nat PROVE \E f : Sums(f, s, k)
<1> DEFINE T == {j \in Nat : \E f : Sums(f, s, j)}
<1>1. 0 \in T
  <2>1. PICK f : f = [i \in 1 .. 0 |-> s[i]]
    OBVIOUS
  <2>2. Sums(f, s, 0)
    BY <2>1 DEF Sums
  <2> QED BY <2>2
<1>2. ASSUME NEW j \in Nat, j \in T PROVE j + 1 \in T
  <2>1. PICK f : Sums(f, s, j)
    BY <1>2
  <2>2. PICK g : g = [i \in 1 .. j + 1 |->
                         IF i = 1 THEN s[i] ELSE f[i - 1] \o s[i]]
    OBVIOUS
  <2>3. \A i \in 1 .. j : g[i] = f[i]
    <3> SUFFICES ASSUME NEW i \in 1 .. j PROVE g[i] = f[i]
      OBVIOUS
    <3>1. f[i] = IF i = 1 THEN s[i] ELSE f[i - 1] \o s[i]
      BY <2>1, SumsAt
    <3>2. g[i] = IF i = 1 THEN s[i] ELSE f[i - 1] \o s[i]
      BY <2>2
    <3> QED BY <3>1, <3>2
  <2>4. \A i \in 1 .. j + 1 : i # 1 => f[i - 1] = g[i - 1]
    BY <2>3
  <2>5. g = [i \in 1 .. j + 1 |-> IF i = 1 THEN s[i] ELSE g[i - 1] \o s[i]]
    BY <2>2, <2>4
  <2>6. Sums(g, s, j + 1)
    BY <2>5 DEF Sums
  <2> QED BY <2>6
<1> QED
  <2> HIDE DEF T
  <2>1. \A j \in Nat : j \in T
    BY <1>1, <1>2, Induction
  <2> QED BY <2>1 DEF T

(* And depend on nothing but the sequences they are the sums of. *)
LEMMA SumsAgree ==
    ASSUME NEW s, NEW t, NEW k \in Nat, NEW m \in Nat, k <= m,
           NEW f, Sums(f, s, k), NEW g, Sums(g, t, m),
           \A i \in 1 .. k : s[i] = t[i]
    PROVE  \A i \in 1 .. k : f[i] = g[i]
<1> DEFINE T == {j \in Nat : j \in 1 .. k => f[j] = g[j]}
<1>1. 0 \in T OBVIOUS
<1>2. ASSUME NEW j \in Nat, j \in T PROVE j + 1 \in T
  <2> SUFFICES ASSUME j + 1 \in 1 .. k PROVE f[j + 1] = g[j + 1]
    OBVIOUS
  <2>1. f[j + 1] = IF j + 1 = 1 THEN s[j + 1] ELSE f[j] \o s[j + 1]
    <3>1. f[j + 1] = IF j + 1 = 1 THEN s[j + 1] ELSE f[j + 1 - 1] \o s[j + 1]
      BY SumsAt
    <3> QED BY <3>1
  <2>2. j + 1 \in 1 .. m /\ s[j + 1] = t[j + 1]
    OBVIOUS
  <2>3. g[j + 1] = IF j + 1 = 1 THEN t[j + 1] ELSE g[j] \o t[j + 1]
    <3>1. g[j + 1] = IF j + 1 = 1 THEN t[j + 1] ELSE g[j + 1 - 1] \o t[j + 1]
      BY <2>2, SumsAt
    <3> QED BY <3>1
  <2>4. j + 1 # 1 => f[j] = g[j]
    BY <1>2
  <2> QED BY <2>1, <2>2, <2>3, <2>4
<1> QED
  <2> HIDE DEF T
  <2>1. \A j \in Nat : j \in T
    BY <1>1, <1>2, Induction
  <2> QED BY <2>1 DEF T

LEMMA SumsType ==
    ASSUME NEW S, NEW s \in Seq(Seq(S)), NEW f, Sums(f, s, Len(s))
    PROVE  \A i \in 1 .. Len(s) : f[i] \in Seq(S)
<1> DEFINE T == {j \in Nat : j \in 1 .. Len(s) => f[j] \in Seq(S)}
<1>1. 0 \in T OBVIOUS
<1>2. ASSUME NEW j \in Nat, j \in T PROVE j + 1 \in T
  <2> SUFFICES ASSUME j + 1 \in 1 .. Len(s) PROVE f[j + 1] \in Seq(S)
    OBVIOUS
  <2>1. f[j + 1] = IF j + 1 = 1 THEN s[j + 1] ELSE f[j] \o s[j + 1]
    <3>1. f[j + 1] = IF j + 1 = 1 THEN s[j + 1] ELSE f[j + 1 - 1] \o s[j + 1]
      BY SumsAt
    <3> QED BY <3>1
  <2>2. s[j + 1] \in Seq(S)
    OBVIOUS
  <2>3. j + 1 # 1 => f[j] \in Seq(S)
    BY <1>2
  <2> QED BY <2>1, <2>2, <2>3
<1> QED
  <2> HIDE DEF T
  <2>1. \A j \in Nat : j \in T
    BY <1>1, <1>2, Induction
  <2> QED BY <2>1 DEF T

(* The last of the sums is what FlattenSeq returns. *)
LEMMA FlatIs ==
    ASSUME NEW S, NEW s \in Seq(Seq(S)), s # <<>>, NEW f, Sums(f, s, Len(s))
    PROVE  FlattenSeq(s) = f[Len(s)]
<1>1. Len(s) # 0 /\ Len(s) \in Nat /\ Len(s) \in 1 .. Len(s)
  OBVIOUS
<1>2. \E g : Sums(g, s, Len(s)) /\ FlattenSeq(s) = g[Len(s)]
  BY <1>1 DEF FlattenSeq, Sums
<1>3. PICK g : Sums(g, s, Len(s)) /\ FlattenSeq(s) = g[Len(s)]
  BY <1>2
<1>4. f[Len(s)] = g[Len(s)]
  BY <1>1, <1>3, SumsAgree
<1> QED BY <1>3, <1>4

LEMMA FlatEmpty == FlattenSeq(<<>>) = <<>>
  BY DEF FlattenSeq

LEMMA FlatType ==
    ASSUME NEW S, NEW s \in Seq(Seq(S))
    PROVE  FlattenSeq(s) \in Seq(S)
<1>1. CASE s = <<>>
  <2>1. FlattenSeq(s) = <<>>
    BY <1>1, FlatEmpty
  <2> QED BY <2>1
<1>2. CASE s # <<>>
  <2>1. Len(s) \in Nat /\ Len(s) \in 1 .. Len(s)
    BY <1>2
  <2>2. PICK f : Sums(f, s, Len(s))
    BY <2>1, SumsExist
  <2>3. FlattenSeq(s) = f[Len(s)]
    BY <1>2, <2>2, FlatIs
  <2> QED BY <2>1, <2>2, <2>3, SumsType
<1> QED BY <1>1, <1>2

(* One sequence more at the end. *)
LEMMA FlatAppend ==
    ASSUME NEW S, NEW s \in Seq(Seq(S)), NEW x \in Seq(S)
    PROVE  FlattenSeq(Append(s, x)) = FlattenSeq(s) \o x
<1>1. PICK t : t = Append(s, x)
  OBVIOUS
<1>2. /\ t \in Seq(Seq(S)) /\ t # <<>> /\ Len(t) = Len(s) + 1
      /\ Len(s) \in Nat /\ t[Len(t)] = x
      /\ \A i \in 1 .. Len(s) : t[i] = s[i]
  BY <1>1
<1>3. PICK f : Sums(f, t, Len(t))
  <2>1. Len(t) \in Nat BY <1>2
  <2> QED BY <2>1, SumsExist
<1>4. FlattenSeq(t) = f[Len(t)]
  BY <1>2, <1>3, FlatIs
<1>5. CASE s = <<>>
  <2>1. Len(s) = 0 /\ Len(t) = 1
    BY <1>2, <1>5
  <2>2. f[1] = t[1]
    BY <1>3, <2>1 DEF Sums
  <2>3. FlattenSeq(t) = x
    BY <1>2, <1>4, <2>1, <2>2
  <2>4. FlattenSeq(s) \o x = x
    BY <1>5, FlatEmpty
  <2> QED BY <1>1, <2>3, <2>4
<1>6. CASE s # <<>>
  <2>1. Len(s) \in 1 .. Len(s) /\ Len(t) \in 1 .. Len(t) /\ Len(t) # 1
    BY <1>2, <1>6
  <2>2. f[Len(t)] = f[Len(t) - 1] \o t[Len(t)]
    BY <1>3, <2>1 DEF Sums
  <2>3. f[Len(t)] = f[Len(s)] \o x
    BY <1>2, <2>2
  <2>4. PICK g : Sums(g, s, Len(s))
    BY <1>2, SumsExist
  <2>5. g[Len(s)] = f[Len(s)]
    <3>1. Len(t) \in Nat /\ Len(s) <= Len(t) /\ \A i \in 1 .. Len(s) : s[i] = t[i]
      BY <1>2
    <3>2. \A i \in 1 .. Len(s) : g[i] = f[i]
      <4>1. PICK k \in Nat, m \in Nat : k = Len(s) /\ m = Len(t)
        BY <1>2, <3>1
      <4>2. k <= m
        BY <3>1, <4>1
      <4>3. \A i \in 1 .. k : s[i] = t[i]
        BY <3>1, <4>1
      <4>5. Sums(g, s, k)
        BY <2>4, <4>1
      <4>6. Sums(f, t, m)
        BY <1>3, <4>1
      <4>4. \A i \in 1 .. k : g[i] = f[i]
        BY <4>2, <4>3, <4>5, <4>6, SumsAgree, SMTT(60)
      <4> QED BY <4>1, <4>4
    <3> QED BY <2>1, <3>2
  <2>6. FlattenSeq(s) = g[Len(s)]
    BY <1>6, <2>4, FlatIs
  <2> QED BY <1>1, <1>4, <2>3, <2>5, <2>6
<1> QED BY <1>5, <1>6

-----------------------------------------------------------------------------
(* Concatenation, and what is at an end of a sequence. *)
LEMMA CatAssoc ==
    ASSUME NEW S, NEW a \in Seq(S), NEW b \in Seq(S), NEW c \in Seq(S)
    PROVE  (a \o b) \o c = a \o (b \o c)
<1>1. (a \o b) \o c \in Seq(S) /\ a \o (b \o c) \in Seq(S)
  OBVIOUS
<1>2. Len((a \o b) \o c) = Len(a \o (b \o c))
  OBVIOUS
<1>3. \A i \in 1 .. Len((a \o b) \o c) : ((a \o b) \o c)[i] = (a \o (b \o c))[i]
  OBVIOUS
<1> QED BY <1>1, <1>2, <1>3

Assoc(a, b, c) == (a \o b) \o c = a \o (b \o c)

LEMMA CatIsAssoc ==
    ASSUME NEW S, NEW a \in Seq(S), NEW b \in Seq(S), NEW c \in Seq(S)
    PROVE  Assoc(a, b, c)
<1>1. (a \o b) \o c = a \o (b \o c)
  BY CatAssoc
<1> QED BY <1>1 DEF Assoc

LEMMA AppendCat ==
    ASSUME NEW S, NEW s \in Seq(S), NEW t \in Seq(S), NEW x \in S
    PROVE  s \o Append(t, x) = Append(s \o t, x) /\ s \o t \in Seq(S)
  OBVIOUS

LEMMA CatEmpty ==
    ASSUME NEW S, NEW a \in Seq(S)
    PROVE  a \o <<>> = a /\ <<>> \o a = a
  OBVIOUS

LEMMA AsAppended ==
    ASSUME NEW S, NEW s \in Seq(S), s # <<>>
    PROVE  \E front \in Seq(S), x \in S :
              s = Append(front, x) /\ Len(s) = Len(front) + 1 /\ x = s[Len(s)]
<1>1. PICK front : front = [i \in 1 .. Len(s) - 1 |-> s[i]]
  OBVIOUS
<1>0. Len(s) \in Nat /\ Len(s) # 0
  OBVIOUS
<1>5. \A i \in 1 .. Len(s) - 1 : s[i] \in S
  BY <1>0
<1>2. front \in Seq(S) /\ Len(front) = Len(s) - 1
  BY <1>0, <1>1, <1>5
<1>3. s[Len(s)] \in S
  OBVIOUS
<1>4. s = Append(front, s[Len(s)])
  BY <1>1, <1>2
<1> QED BY <1>2, <1>3, <1>4

LEMMA AsHeaded ==
    ASSUME NEW S, NEW s \in Seq(S), s # <<>>
    PROVE  /\ Head(s) \in S /\ Tail(s) \in Seq(S) /\ Len(Tail(s)) = Len(s) - 1
           /\ s = <<Head(s)>> \o Tail(s)
  OBVIOUS

LEMMA FlatSingle ==
    ASSUME NEW S, NEW x \in Seq(S)
    PROVE  FlattenSeq(<<x>>) = x
<1>1. <<>> \in Seq(Seq(S)) /\ <<x>> = Append(<<>>, x)
  OBVIOUS
<1>2. FlattenSeq(<<x>>) = FlattenSeq(<<>>) \o x
  BY <1>1, FlatAppend
<1> QED BY <1>2, FlatEmpty

(* A sequence of sequences after another. *)
LEMMA FlatCatOne ==
    ASSUME NEW S, NEW s \in Seq(Seq(S)), NEW t \in Seq(Seq(S)), NEW x \in Seq(S),
           FlattenSeq(s \o t) = FlattenSeq(s) \o FlattenSeq(t)
    PROVE  FlattenSeq(s \o Append(t, x)) = FlattenSeq(s) \o FlattenSeq(Append(t, x))
<1>1. PICK a \in Seq(S), c \in Seq(S) : a = FlattenSeq(s) /\ c = FlattenSeq(t)
  BY FlatType
<1>2. s \o Append(t, x) = Append(s \o t, x) /\ s \o t \in Seq(Seq(S))
  <2>1. PICK A : A = Seq(S)
    OBVIOUS
  <2>2. s \in Seq(A) /\ t \in Seq(A) /\ x \in A
    BY <2>1
  <2>3. s \o Append(t, x) = Append(s \o t, x) /\ s \o t \in Seq(A)
    BY <2>2, AppendCat, SMT
  <2> QED BY <2>1, <2>3
<1>3. FlattenSeq(s \o Append(t, x)) = FlattenSeq(s \o t) \o x
  BY <1>2, FlatAppend
<1>4. FlattenSeq(Append(t, x)) = FlattenSeq(t) \o x
  BY FlatAppend
<1>5. (a \o c) \o x = a \o (c \o x)
  <2>1. Assoc(a, c, x)
    BY CatIsAssoc
  <2> QED BY <2>1 DEF Assoc
<1> QED BY <1>1, <1>3, <1>4, <1>5

LEMMA FlatCat ==
    ASSUME NEW S, NEW s \in Seq(Seq(S)), NEW t \in Seq(Seq(S))
    PROVE  FlattenSeq(s \o t) = FlattenSeq(s) \o FlattenSeq(t)
<1> DEFINE T == {j \in Nat : \A u \in Seq(Seq(S)) :
                    Len(u) = j => FlattenSeq(s \o u) = FlattenSeq(s) \o FlattenSeq(u)}
<1>1. 0 \in T
  <2> SUFFICES ASSUME NEW u \in Seq(Seq(S)), Len(u) = 0
               PROVE  FlattenSeq(s \o u) = FlattenSeq(s) \o FlattenSeq(u)
    OBVIOUS
  <2>1. u = <<>> /\ s \o u = s
    OBVIOUS
  <2>2. FlattenSeq(s) \o <<>> = FlattenSeq(s)
    BY FlatType, CatEmpty
  <2> QED BY <2>1, <2>2, FlatEmpty
<1>2. ASSUME NEW j \in Nat, j \in T PROVE j + 1 \in T
  <2> SUFFICES ASSUME NEW u \in Seq(Seq(S)), Len(u) = j + 1
               PROVE  FlattenSeq(s \o u) = FlattenSeq(s) \o FlattenSeq(u)
    OBVIOUS
  <2>1. u # <<>>
    OBVIOUS
  <2>2. PICK front \in Seq(Seq(S)), x \in Seq(S) :
            u = Append(front, x) /\ Len(u) = Len(front) + 1
    BY <2>1, AsAppended
  <2>3. FlattenSeq(s \o front) = FlattenSeq(s) \o FlattenSeq(front)
    BY <1>2, <2>2
  <2> QED BY <2>2, <2>3, FlatCatOne
<1> QED
  <2> HIDE DEF T
  <2>1. \A j \in Nat : j \in T
    BY <1>1, <1>2, Induction
  <2>2. Len(t) \in T
    BY <2>1
  <2> QED BY <2>2 DEF T

(* The first of the sequences, and the others. *)
LEMMA FlatHead ==
    ASSUME NEW S, NEW s \in Seq(Seq(S)), s # <<>>
    PROVE  FlattenSeq(s) = Head(s) \o FlattenSeq(Tail(s))
<1>1. PICK x \in Seq(S), t \in Seq(Seq(S)) : x = Head(s) /\ t = Tail(s) /\ s = <<x>> \o t
  BY AsHeaded
<1>2. <<x>> \in Seq(Seq(S))
  OBVIOUS
<1>3. FlattenSeq(<<x>> \o t) = FlattenSeq(<<x>>) \o FlattenSeq(t)
  BY <1>2, FlatCat
<1> QED BY <1>1, <1>3, FlatSingle

-----------------------------------------------------------------------------
(* What goes over the channel. *)
Stuff == Content \cup UNION {Range(Files0[p].body) : p \in Names}
Ids == {"STAT", "STA2", "DENT", "DNT2", "DATA", "DONE", "FAIL", "OKAY"}
Kinds == Outputs \cup Ignored \cup Unknown
Units == {Id(x) : x \in Ids} \cup {Id(x) : x \in Kinds \cup {"Exit"}}
         \cup {Num(k) : k \in Nat} \cup Stuff
         \cup {Piece(x) : x \in Names \cup Nat \cup {"no such file"}}

(* What is on its way to the client: buffered, in chunks, not yet written.  *)
Joined(b, d, o) == (b \o FlattenSeq(d)) \o o

(* s is w, or the beginning of it. *)
PartOf(s, w, whole) ==
    /\ Len(w) \in Nat /\ Len(s) <= Len(w)
    /\ \A i \in 1 .. Len(s) : s[i] = w[i]
    /\ whole => Len(s) = Len(w)

LEMMA PartWhole == ASSUME NEW w, NEW whole, Len(w) \in Nat PROVE PartOf(w, w, whole)
  BY DEF PartOf

LEMMA PartEmpty ==
    ASSUME NEW S, NEW s \in Seq(S), NEW whole, PartOf(s, <<>>, whole)
    PROVE  s = <<>>
  BY DEF PartOf

LEMMA PartRead ==
    ASSUME NEW S, NEW g \in Seq(S), NEW s \in Seq(S), NEW h \in Seq(S), NEW t \in Seq(S),
           NEW whole, Len(g) = Len(h), PartOf(g \o s, h \o t, whole)
    PROVE  g = h /\ PartOf(s, t, whole)
<1>1. /\ Len(g) \in Nat /\ Len(h) \in Nat /\ Len(s) \in Nat /\ Len(t) \in Nat
      /\ Len(g \o s) = Len(g) + Len(s) /\ Len(h \o t) = Len(h) + Len(t)
  BY Put
<1>2. \A i \in 1 .. Len(g) : (g \o s)[i] = g[i] /\ (h \o t)[i] = h[i]
  <2>1. \A i \in 1 .. Len(g) : (g \o s)[i] = g[i]
    BY Put
  <2>2. \A i \in 1 .. Len(h) : (h \o t)[i] = h[i]
    BY Put
  <2> QED BY <2>1, <2>2
<1>3. \A i \in 1 .. Len(g) : g[i] = h[i]
  <2> SUFFICES ASSUME NEW i \in 1 .. Len(g) PROVE g[i] = h[i]
    OBVIOUS
  <2>1. \A j \in 1 .. Len(g \o s) : (g \o s)[j] = (h \o t)[j]
    BY DEF PartOf
  <2>2. i \in 1 .. Len(g \o s)
    BY <1>1
  <2>3. (g \o s)[i] = (h \o t)[i]
    BY <2>1, <2>2
  <2> QED BY <1>2, <2>3
<1>4. g = h
  BY <1>3, Same
<1>5. ASSUME NEW i \in 1 .. Len(s) PROVE s[i] = t[i]
  <2>1. (g \o s)[Len(g) + i] = s[i]
    BY Put
  <2>2. Len(s) <= Len(t)
    BY <1>1 DEF PartOf
  <2>3. i \in 1 .. Len(t)
    BY <1>1, <2>2
  <2>4. (h \o t)[Len(h) + i] = t[i]
    BY <2>3, Put
  <2>5. Len(g) + i \in 1 .. Len(g \o s)
    BY <1>1
  <2> QED BY <2>1, <2>4, <2>5 DEF PartOf
<1>6. Len(s) <= Len(t) /\ (whole => Len(s) = Len(t))
  BY <1>1 DEF PartOf
<1> QED BY <1>4, <1>5, <1>6 DEF PartOf

LEMMA PartCut ==
    ASSUME NEW S, NEW s \in Seq(S), NEW x \in Seq(S), NEW w, NEW whole,
           PartOf(s \o x, w, whole)
    PROVE  PartOf(s, w, FALSE)
<1>1. /\ Len(s) \in Nat /\ Len(x) \in Nat /\ Len(s \o x) = Len(s) + Len(x)
      /\ \A i \in 1 .. Len(s) : (s \o x)[i] = s[i]
  BY Put
<1>2. \A i \in 1 .. Len(s) : i \in 1 .. Len(s \o x)
  BY <1>1
<1> QED BY <1>1, <1>2 DEF PartOf

LEMMA UnitsAssoc ==
    ASSUME NEW a \in Seq(Units), NEW b \in Seq(Units), NEW c \in Seq(Units)
    PROVE  (a \o b) \o c = a \o (b \o c)
  BY CatAssoc

LEMMA JoinedType ==
    ASSUME NEW b \in Seq(Units), NEW d \in Seq(Seq(Units)), NEW o \in Seq(Units)
    PROVE  Joined(b, d, o) \in Seq(Units) /\ FlattenSeq(d) \in Seq(Units)
<1>1. FlattenSeq(d) \in Seq(Units)
  BY FlatType
<1> QED BY <1>1 DEF Joined

(* A chunk goes from the channel to the buffer. *)
LEMMA JoinedFill ==
    ASSUME NEW b \in Seq(Units), NEW d \in Seq(Seq(Units)), NEW o \in Seq(Units), d # <<>>
    PROVE  Joined(b \o Head(d), Tail(d), o) = Joined(b, d, o)
<1>1. PICK h \in Seq(Units), t \in Seq(Seq(Units)) : h = Head(d) /\ t = Tail(d)
  BY AsHeaded
<1>2. FlattenSeq(d) = h \o FlattenSeq(t)
  BY <1>1, FlatHead
<1>3. FlattenSeq(t) \in Seq(Units)
  BY FlatType
<1>4. (b \o h) \o FlattenSeq(t) = b \o (h \o FlattenSeq(t))
  BY <1>3, UnitsAssoc, Zenon
<1> QED BY <1>1, <1>2, <1>4 DEF Joined

(* A chunk of the output is written. *)
LEMMA JoinedFlush ==
    ASSUME NEW b \in Seq(Units), NEW d \in Seq(Seq(Units)), NEW f \in Seq(Units), NEW r \in Seq(Units)
    PROVE  Joined(b, Append(d, f), r) = Joined(b, d, f \o r)
<1>1. FlattenSeq(Append(d, f)) = FlattenSeq(d) \o f /\ FlattenSeq(d) \in Seq(Units)
  BY FlatAppend, FlatType
<1>2. PICK m \in Seq(Units) : m = FlattenSeq(d)
  BY <1>1
<1>3. b \o (m \o f) = (b \o m) \o f /\ b \o m \in Seq(Units)
  <2>1. (b \o m) \o f = b \o (m \o f)
    BY UnitsAssoc, Zenon
  <2> QED BY <2>1
<1>4. ((b \o m) \o f) \o r = (b \o m) \o (f \o r)
  BY <1>3, UnitsAssoc, Zenon
<1> QED BY <1>1, <1>2, <1>3, <1>4 DEF Joined

(* The service replies. *)
LEMMA JoinedReply ==
    ASSUME NEW b \in Seq(Units), NEW d \in Seq(Seq(Units)), NEW o \in Seq(Units), NEW r \in Seq(Units)
    PROVE  Joined(b, d, o \o r) = Joined(b, d, o) \o r
<1>1. PICK m \in Seq(Units) : m = FlattenSeq(d)
  BY FlatType
<1>2. b \o m \in Seq(Units)
  OBVIOUS
<1>3. PICK p \in Seq(Units) : p = b \o m
  BY <1>2
<1>4. (p \o o) \o r = p \o (o \o r)
  BY UnitsAssoc, Zenon
<1> QED BY <1>1, <1>3, <1>4 DEF Joined

(* The client reads from its buffer. *)
LEMMA JoinedRead ==
    ASSUME NEW g \in Seq(Units), NEW r \in Seq(Units), NEW d \in Seq(Seq(Units)), NEW o \in Seq(Units)
    PROVE  Joined(g \o r, d, o) = g \o Joined(r, d, o)
<1>1. PICK m \in Seq(Units) : m = FlattenSeq(d)
  BY FlatType
<1>2. (g \o r) \o m = g \o (r \o m) /\ r \o m \in Seq(Units)
  <2>1. (g \o r) \o m = g \o (r \o m)
    BY UnitsAssoc, Zenon
  <2> QED BY <2>1
<1>3. PICK p \in Seq(Units) : p = r \o m
  BY <1>2
<1>4. (g \o p) \o o = g \o (p \o o)
  <2>1. Assoc(g, p, o)
    BY CatIsAssoc
  <2> QED BY <2>1 DEF Assoc
<1> QED BY <1>1, <1>2, <1>3, <1>4 DEF Joined

(* Nothing is on its way: then it is nowhere. *)
LEMMA JoinedEmpty ==
    ASSUME NEW b \in Seq(Units), NEW d \in Seq(Seq(Units)), NEW o \in Seq(Units),
           Joined(b, d, o) = <<>>
    PROVE  b = <<>> /\ o = <<>> /\ FlattenSeq(d) = <<>>
<1>1. PICK m \in Seq(Units) : m = FlattenSeq(d)
  BY FlatType
<1>2. Len((b \o m) \o o) = Len(b) + Len(m) + Len(o)
      /\ Len(b) \in Nat /\ Len(m) \in Nat /\ Len(o) \in Nat
  BY Put
<1>3. (b \o m) \o o = <<>>
  BY <1>1 DEF Joined
<1>4. Len(b) = 0 /\ Len(m) = 0 /\ Len(o) = 0
  BY <1>2, <1>3
<1> QED BY <1>1, <1>4

LEMMA FlatNothing ==
    ASSUME NEW S, NEW d \in Seq(Seq(S)), \A i \in 1 .. Len(d) : d[i] # <<>>,
           FlattenSeq(d) = <<>>
    PROVE  d = <<>>
<1> SUFFICES ASSUME d # <<>> PROVE FALSE
  OBVIOUS
<1>1. PICK h \in Seq(S), t \in Seq(Seq(S)) : h = Head(d) /\ t = Tail(d)
  BY AsHeaded
<1>2. h = d[1] /\ h # <<>>
  BY <1>1
<1>3. FlattenSeq(d) = h \o FlattenSeq(t) /\ FlattenSeq(t) \in Seq(S)
  BY <1>1, FlatHead, FlatType
<1>4. PICK u \in Seq(S) : u = FlattenSeq(t)
  BY <1>3
<1>5. h \o u = <<>>
  BY <1>3, <1>4
<1>6. Len(h) + Len(u) = 0 /\ Len(h) \in Nat /\ Len(u) \in Nat
  BY <1>5
<1> QED BY <1>2, <1>6

(* A sequence is its beginning and the rest. *)
LEMMA FirstRest ==
    ASSUME NEW S, NEW s \in Seq(S), NEW k \in 0 .. Len(s)
    PROVE  /\ First(s, k) \in Seq(S) /\ Rest(s, k) \in Seq(S)
           /\ Len(First(s, k)) = k /\ Len(Rest(s, k)) = Len(s) - k
           /\ \A i \in 1 .. k : First(s, k)[i] = s[i]
           /\ \A i \in 1 .. Len(s) - k : Rest(s, k)[i] = s[k + i]
           /\ First(s, k) \o Rest(s, k) = s
<1>0. Len(s) \in Nat
  OBVIOUS
<1>1. CASE k = 0
  <2>1. First(s, k) = <<>>
    BY <1>1 DEF First
  <2>2. Rest(s, k) = s
    BY <1>0, <1>1 DEF Rest
  <2>3. <<>> \in Seq(S) /\ Len(<<>>) = 0 /\ <<>> \o s = s
    BY CatEmpty
  <2>4. /\ \A i \in 1 .. k : First(s, k)[i] = s[i]
        /\ \A i \in 1 .. Len(s) - k : Rest(s, k)[i] = s[k + i]
    BY <1>0, <1>1, <2>2
  <2>5. Len(First(s, k)) = k /\ Len(Rest(s, k)) = Len(s) - k
    BY <1>0, <1>1, <2>1, <2>2, <2>3
  <2> QED BY <2>1, <2>2, <2>3, <2>4, <2>5
<1>2. CASE k # 0
  <2>1. k \in 1 .. Len(s)
    BY <1>0, <1>2
  <2>2. /\ First(s, k) \in Seq(S) /\ Rest(s, k) \in Seq(S)
        /\ Len(First(s, k)) = k /\ Len(Rest(s, k)) = Len(s) - k
        /\ \A i \in 1 .. k : First(s, k)[i] = s[i]
        /\ \A i \in 1 .. Len(s) - k : Rest(s, k)[i] = s[k + i]
    BY <2>1, Parted DEF First, Rest
  <2>3. (<<>> \o First(s, k)) \o Rest(s, k) = <<>> \o s
    <3>1. <<>> \in Seq(S)
      OBVIOUS
    <3> QED BY <2>1, <3>1, ReadOn DEF First, Rest
  <2>4. <<>> \o First(s, k) = First(s, k) /\ <<>> \o s = s
    BY <2>2, CatEmpty
  <2> QED BY <2>2, <2>3, <2>4
<1> QED BY <1>1, <1>2
-----------------------------------------------------------------------------
(* The conversation of a sync client with its service, as long as no call   *)
(* on the channel was given up or went wrong.                               *)

(* What the client has yet to read, wherever it is. *)
Stream == Joined(buf, down, out)

(* It is w, or what of it was written before the service went away. *)
Comes(w) == PartOf(Stream, w, peer = "open")

(* A listing: the entries that have been read, the words of those after the *)
(* first i, and the header it ends with.                                    *)
DentName == IF "ls_v2" \in feats THEN "DNT2" ELSE "DENT"
DentWords(p) == StatLayout(DentName, fs[p]) \o <<Num(1), Piece(p)>>
Final(word) == [StatLayout(DentName, Absent) \o <<Num(0)>> EXCEPT ![1] = Id(word)]
Dents(i) == FlattenSeq([j \in 1 .. Len(Present) - i |-> DentWords(Present[i + j])])
EntryOf(p) == <<StatOf(fs[p], 0), Piece(p)>>
Entries(i) == FlattenSeq([j \in 1 .. i |-> EntryOf(Present[j])])

ListDue(w) ==
    \/ pc = "entry" /\ acc = <<>> /\ w = Final("FAIL")
    \/ /\ pc = "entry"
       /\ \E i \in 0 .. Len(Present) : acc = Entries(i) /\ w = Dents(i) \o Final("DONE")
    \/ /\ pc = "name" /\ n = 1
       /\ \E i \in 0 .. Len(Present) - 1 :
             /\ acc = Append(Entries(i), StatOf(fs[Present[i + 1]], 0))
             /\ w = <<Piece(Present[i + 1])>> \o (Dents(i + 1) \o Final("DONE"))

(* A pull: what there is of the file, what is left of it, the length of the *)
(* next chunk, and what comes after that.                                   *)
Body == fs[call.path].body
Left == Rest(Body, Len(acc))
Least2(a, b) == IF a < b THEN a ELSE b
Size(max) == Least2(max, Len(Left))
Done0 == <<Id("DONE"), Num(0)>>
After(max) == DataOf(Rest(Left, Size(max)), max) \o Done0

PullDue(w) ==
    /\ Exists(fs[call.path]) /\ Len(acc) \in 0 .. Len(Body) /\ acc = First(Body, Len(acc))
    /\ \E max \in DevMaxes :
          \/ pc = "chunk" /\ w = DataOf(Left, max) \o Done0
          \/ /\ pc = "len" /\ Left # <<>>
             /\ w = <<Num(Size(max))>> \o (First(Left, Size(max)) \o After(max))
          \/ /\ pc = "body" /\ Left # <<>> /\ n = Size(max)
             /\ w = First(Left, Size(max)) \o After(max)

(* A push that the device has stored, and a pull or push it refuses. *)
Stored == /\ fs[call.path].mode = call.mode /\ fs[call.path].mtime = Now
          /\ fs[call.path].body \in Bodies /\ source = <<>>
Refused == IF call.op = "pull" THEN ~Exists(fs[call.path]) ELSE call.path \in ReadOnly
Complete == IF call.op = "pull" THEN Exists(fs[call.path]) /\ acc = Body ELSE Stored

(* What is still to come of the reply when the client waits at pc. *)
Due(w) ==
    \/ pc \in {"idle", "return"} /\ w = <<>>
    \/ pc = "stat" /\ w = StatLayout(StatId, fs[call.path])
    \/ pc \in {"entry", "name"} /\ ListDue(w)
    \/ pc \in {"chunk", "len", "body"} /\ PullDue(w)
    \/ pc = "chunk" /\ acc = <<>> /\ Refused /\ w = Failed
    \/ pc = "status" /\ Stored /\ w = <<Id("OKAY"), Num(0)>>
    \/ pc = "status" /\ Refused /\ w = Failed
    \/ pc = "end" /\ Complete /\ w = <<Num(0)>>
    \/ pc = "fail_len" /\ Refused /\ w = <<Num(1), FailText>>
    \/ pc = "fail_msg" /\ Refused /\ n = 1 /\ w = <<FailText>>

(* A push on its way: the requests with its path and mode, data, and DONE.  *)
DataFrom(k) ==
    /\ pc = "status" => Len(Queue) > k
    /\ \A i \in 1 .. Len(Queue) : i > k =>
          IF pc = "status" /\ i = Len(Queue) THEN Queue[i] = Word("DONE", Now)
                                             ELSE Queue[i].id = "DATA"
Sending ==
    \/ /\ dev = Idle /\ Len(Queue) >= 2 /\ DataFrom(2)
       /\ Queue[1] = Request("SND2", call.path) /\ Queue[2] = Word("SND2", call.mode)
    \/ /\ dev = Idle /\ Len(Queue) >= 1 /\ DataFrom(1)
       /\ Queue[1] = Message("SEND", call.path, call.mode, <<>>)
    \/ /\ dev = Service("send", call.path, 0, <<>>) /\ Len(Queue) >= 1 /\ DataFrom(1)
       /\ Queue[1] = Word("SND2", call.mode)
    \/ dev.st = "data" /\ dev.path = call.path /\ dev.mode = call.mode /\ DataFrom(0)

(* The requests that the service has yet to serve, and how far it is. *)
Owed ==
    \/ pc \in {"stat", "entry", "chunk"} /\ dev = Idle /\ Queue = RequestOf(call)
    \/ pc = "chunk" /\ dev = Service("recv", call.path, 0, <<>>) /\ Queue = <<Word("RCV2", 0)>>
    \/ pc \in {"source", "status"} /\ Sending
    \/ pc = "quit" /\ dev = Idle /\ Queue = <<Word("QUIT", 0)>>
    \/ pc = "quit" /\ dev.st = "done" /\ Queue = <<>>

Unserved == /\ pc \in {"stat", "entry", "chunk", "source", "status", "quit"}
            /\ Stream = <<>>
            /\ peer = "open" => Owed
            /\ pc \in {"entry", "chunk"} => acc = <<>>
Served == /\ peer = "open" => Queue = <<>> /\ dev = Idle
          /\ \E w \in Seq(Units) : Due(w) /\ Comes(w)

OfCall ==
    /\ pc = "stat" => call.op = "stat"
    /\ pc \in {"entry", "name"} => call.op = "list"
    /\ pc \in {"chunk", "len", "body"} => call.op = "pull"
    /\ pc \in {"source", "status"} => call.op = "push"
    /\ pc \in {"end", "fail_len", "fail_msg"} => call.op \in {"pull", "push"}
    /\ pc = "status" => source = <<>>
    /\ pc \in {"idle", "return", "quit", "source"} \cup Reading

Stage == OfCall /\ (Unserved \/ Served)

(* Nothing has gone wrong on the channel. *)
Steady == own = "open" /\ clean /\ user # "shell"
          /\ (pc = "return" => res \in {"ok", "remote"})

Chunked == buf \in Seq(Units) /\ out \in Seq(Units) /\ down \in Seq(Seq(Units))
Typed ==
    /\ buf \in Seq(Units) /\ out \in Seq(Units) /\ down \in Seq(Seq(Units))
    /\ \A i \in 1 .. Len(down) : down[i] # <<>>
    /\ call \in SyncCalls /\ peer \in {"open", "finished"}

Conversation == Steady => Typed /\ Stage

FilesTyped == fs \in [Names -> [mode : Nat, mtime : Nat, body : Seq(Stuff)]]

(* Who is where: a command only in a shell call, a channel in every call.   *)
Apart ==
    /\ pc \in {"frames", "drain"} => user = "shell"
    /\ user = "shell" /\ own = "open" => call.op \notin SyncOps
    /\ pc # "idle" => own = "open"

(* The inductive invariant.  AnswerIsTrue alone is not inductive: whether    *)
(* the next word makes an answer true depends on every word between the two *)
(* ends, which Conversation gives for each point a call may be at.          *)
Talking == FilesTyped /\ Apart /\ Conversation /\ AnswerIsTrue
TalkInv == IInv /\ Talking

-----------------------------------------------------------------------------
(* Words are told apart. *)
LEMMA Tokens ==
    /\ \A x, y : Id(x) = Id(y) => x = y
    /\ \A k : Number(Num(k)) = k
    /\ \A x \in Ids : Id(x) \in Units
    /\ \A k \in Nat : Num(k) \in Units
    /\ \A x \in Names \cup Nat \cup {"no such file"} : Piece(x) \in Units
  BY DEF Id, Num, Number, Piece, Units

LEMMA StuffIsUnits == ASSUME NEW s \in Seq(Stuff) PROVE s \in Seq(Units)
<1>1. Stuff \subseteq Units
  BY DEF Units
<1>2. \A i \in 1 .. Len(s) : s[i] \in Units
  BY <1>1
<1> QED BY <1>2

(* What the moves of words do to the stream. *)
LEMMA StreamType ==
    ASSUME Typed
    PROVE  Stream \in Seq(Units) /\ Len(Stream) \in Nat /\ FlattenSeq(down) \in Seq(Units)
  BY JoinedType DEF Typed, Stream

LEMMA StreamEmpty ==
    ASSUME Typed, Stream = <<>>
    PROVE  buf = <<>> /\ Len(buf) = 0 /\ down = <<>> /\ out = <<>>
<1>1. buf = <<>> /\ out = <<>> /\ FlattenSeq(down) = <<>>
  BY JoinedEmpty DEF Typed, Stream
<1> QED BY <1>1, FlatNothing DEF Typed

LEMMA StreamFilled ==
    ASSUME Chunked, down # <<>>, down' = Tail(down), buf' = buf \o Head(down), out' = out
    PROVE  Stream' = Stream /\ Chunked'
<1>1. Stream' = Stream
  BY JoinedFill DEF Chunked, Stream
<1>2. Head(down) \in Seq(Units) /\ Tail(down) \in Seq(Seq(Units))
  BY DEF Chunked
<1> QED BY <1>1, <1>2 DEF Chunked

LEMMA StreamFlushed ==
    ASSUME Chunked, NEW k \in 1 .. Len(out), down' = Append(down, First(out, k)),
           out' = Rest(out, k), buf' = buf
    PROVE  Stream' = Stream /\ Chunked' /\ First(out, k) # <<>>
<1>1. /\ First(out, k) \in Seq(Units) /\ Rest(out, k) \in Seq(Units)
      /\ First(out, k) \o Rest(out, k) = out /\ Len(First(out, k)) = k
  <2>1. out \in Seq(Units) /\ k \in 0 .. Len(out)
    BY DEF Chunked
  <2> QED BY <2>1, FirstRest
<1>2. PICK f \in Seq(Units), r \in Seq(Units) :
          f = First(out, k) /\ r = Rest(out, k) /\ f \o r = out /\ f # <<>>
  BY <1>1
<1>3. Joined(buf, Append(down, f), r) = Joined(buf, down, f \o r)
  BY JoinedFlush DEF Chunked
<1>4. Stream' = Stream
  BY <1>2, <1>3 DEF Stream
<1>5. Chunked'
  BY <1>2 DEF Chunked
<1> QED BY <1>2, <1>4, <1>5

LEMMA StreamReplied ==
    ASSUME Chunked, NEW r \in Seq(Units), out' = out \o r, UNCHANGED <<buf, down>>
    PROVE  Stream' = Stream \o r /\ Chunked'
<1>0. buf \in Seq(Units) /\ down \in Seq(Seq(Units)) /\ out \in Seq(Units)
  BY DEF Chunked
<1>3. Joined(buf, down, out \o r) = Joined(buf, down, out) \o r
  BY <1>0, JoinedReply, Zenon
<1>1. Stream' = Stream \o r
  BY <1>0, <1>3 DEF Stream
<1>2. out' \in Seq(Units)
  BY DEF Chunked
<1> QED BY <1>1, <1>2 DEF Chunked

LEMMA StreamParts ==
    ASSUME Chunked, NEW g \in Seq(Units), NEW r \in Seq(Units)
    PROVE  Joined(g \o r, down, out) = g \o Joined(r, down, out)
<1>1. down \in Seq(Seq(Units)) /\ out \in Seq(Units)
  BY DEF Chunked
<1>2. \A d \in Seq(Seq(Units)), o \in Seq(Units) : Joined(g \o r, d, o) = g \o Joined(r, d, o)
  BY JoinedRead
<1> QED BY <1>1, <1>2

(* The client reads k words, of what is to come the first part h. *)
LEMMA StreamRead ==
    ASSUME Chunked, NEW h \in Seq(Units), NEW t \in Seq(Units), Comes(h \o t),
           NEW k \in Nat, k <= Len(buf), Len(h) = k,
           buf' = Rest(buf, k), UNCHANGED <<down, out, peer>>
    PROVE  First(buf, k) = h /\ Comes(t)' /\ Chunked' /\ \A i \in 1 .. k : buf[i] = h[i]
<1>1. /\ First(buf, k) \in Seq(Units) /\ Rest(buf, k) \in Seq(Units)
      /\ First(buf, k) \o Rest(buf, k) = buf /\ Len(First(buf, k)) = k
      /\ \A i \in 1 .. k : First(buf, k)[i] = buf[i]
  <2>1. buf \in Seq(Units) /\ k \in 0 .. Len(buf)
    BY DEF Chunked
  <2> QED BY <2>1, FirstRest
<1>2. PICK g \in Seq(Units), r \in Seq(Units) :
          /\ g = First(buf, k) /\ r = Rest(buf, k) /\ g \o r = buf /\ Len(g) = k
          /\ \A i \in 1 .. k : g[i] = buf[i]
  BY <1>1
<1>0. down \in Seq(Seq(Units)) /\ out \in Seq(Units)
  BY DEF Chunked
<1>3. Joined(g \o r, down, out) = g \o Joined(r, down, out)
  BY StreamParts
<1>10. Joined(r, down, out) \in Seq(Units)
  BY <1>0, JoinedType
<1>4. PICK s \in Seq(Units) : s = Stream' /\ Stream = g \o s
  BY <1>2, <1>3, <1>10 DEF Stream
<1>5. PICK whole : whole = (peer = "open")
  OBVIOUS
<1>6. PartOf(g \o s, h \o t, whole)
  BY <1>4, <1>5 DEF Comes
<1>7. g = h /\ PartOf(s, t, whole)
  BY <1>2, <1>6, PartRead
<1>8. Comes(t)'
  BY <1>4, <1>5, <1>7 DEF Comes
<1>9. Chunked'
  BY <1>2 DEF Chunked
<1> QED BY <1>2, <1>7, <1>8, <1>9

(* The same for the chunks of a sync channel. *)
LEMMA TypedChunks == ASSUME Typed PROVE Chunked
  BY DEF Typed, Chunked

LEMMA Filled ==
    ASSUME Typed, down # <<>>, down' = Tail(down), buf' = buf \o Head(down),
           out' = out, call' = call, peer' = peer
    PROVE  Stream' = Stream /\ Typed'
<1>1. Stream' = Stream /\ Chunked'
  BY TypedChunks, StreamFilled
<1>2. \A i \in 1 .. Len(Tail(down)) : Tail(down)[i] = down[i + 1] /\ i + 1 \in 1 .. Len(down)
  BY DEF Typed
<1> QED BY <1>1, <1>2 DEF Typed, Chunked

LEMMA Flushed ==
    ASSUME Typed, NEW k \in 1 .. Len(out), down' = Append(down, First(out, k)),
           out' = Rest(out, k), buf' = buf, call' = call, peer' = peer
    PROVE  Stream' = Stream /\ Typed'
<1>1. Stream' = Stream /\ Chunked' /\ First(out, k) # <<>>
  BY TypedChunks, StreamFlushed
<1>2. \A i \in 1 .. Len(down') : down'[i] # <<>>
  <2>1. PICK f : f = First(out, k)
    OBVIOUS
  <2>2. down \in Seq(Seq(Units)) /\ \A i \in 1 .. Len(down) : down[i] # <<>>
    BY DEF Typed
  <2>3. down' = Append(down, f) /\ f # <<>>
    BY <1>1, <2>1
  <2> QED BY <2>2, <2>3
<1> QED BY <1>1, <1>2 DEF Typed, Chunked

LEMMA Replied ==
    ASSUME Typed, NEW r \in Seq(Units), out' = out \o r,
           UNCHANGED <<buf, down, call, peer>>
    PROVE  Stream' = Stream \o r /\ Typed'
<1>1. Stream' = Stream \o r /\ Chunked'
  BY TypedChunks, StreamReplied
<1> QED BY <1>1 DEF Typed, Chunked

LEMMA Gets ==
    ASSUME Typed, NEW h \in Seq(Units), NEW t \in Seq(Units), Comes(h \o t),
           NEW k \in Nat, k <= Len(buf), Len(h) = k,
           buf' = Rest(buf, k), UNCHANGED <<down, out, call, peer>>
    PROVE  First(buf, k) = h /\ Comes(t)' /\ Typed' /\ \A i \in 1 .. k : buf[i] = h[i]
<1>1. First(buf, k) = h /\ Comes(t)' /\ Chunked' /\ \A i \in 1 .. k : buf[i] = h[i]
  BY TypedChunks, StreamRead
<1> QED BY <1>1 DEF Typed, Chunked
-----------------------------------------------------------------------------
(* The words of the replies. *)
Meta == [mode : Nat, mtime : Nat, body : Seq(Stuff)]

LEMMA OneWord ==
    ASSUME NEW a \in Units
    PROVE  <<a>> \in Seq(Units) /\ Len(<<a>>) = 1 /\ <<a>>[1] = a
  OBVIOUS

LEMMA Ahead ==
    ASSUME NEW a \in Units, NEW s \in Seq(Units)
    PROVE  /\ <<a>> \o s \in Seq(Units) /\ Len(<<a>> \o s) = Len(s) + 1
           /\ (<<a>> \o s)[1] = a
           /\ \A i \in 1 .. Len(s) : (<<a>> \o s)[1 + i] = s[i]
<1>1. PICK x : x = <<a>>
  OBVIOUS
<1>2. x \in Seq(Units)
  BY <1>1, OneWord
<1>3. Len(x) = 1 /\ x[1] = a
  BY <1>1, OneWord
<1>4. /\ x \o s \in Seq(Units) /\ Len(x \o s) = Len(x) + Len(s)
      /\ Len(x) \in Nat /\ Len(s) \in Nat
      /\ \A i \in 1 .. Len(x) : (x \o s)[i] = x[i]
      /\ \A i \in 1 .. Len(s) : (x \o s)[Len(x) + i] = s[i]
  BY <1>2, Put
<1> QED BY <1>1, <1>3, <1>4

LEMMA Pair ==
    ASSUME NEW a \in Units, NEW b \in Units
    PROVE  <<a, b>> = <<a>> \o <<b>>
<1>1. PICK x, y, z : x = <<a>> /\ y = <<b>> /\ z = <<a, b>>
  OBVIOUS
<1>2. x \in Seq(Units)
  BY <1>1, OneWord
<1>3. y \in Seq(Units)
  BY <1>1, OneWord
<1>4. z \in Seq(Units)
  BY <1>1
<1>5. Len(z) = 2 /\ z[1] = a /\ z[2] = b
  BY <1>1
<1>6. Len(x) = 1 /\ x[1] = a /\ Len(y) = 1 /\ y[1] = b
  BY <1>1, OneWord
<1>7. /\ x \o y \in Seq(Units) /\ Len(x \o y) = Len(x) + Len(y)
      /\ \A j \in 1 .. Len(x) : (x \o y)[j] = x[j]
      /\ \A j \in 1 .. Len(y) : (x \o y)[Len(x) + j] = y[j]
  BY <1>2, <1>3, Put
<1>8. PICK v : v = x \o y
  OBVIOUS
<1>9. v \in Seq(Units)
  BY <1>7, <1>8
<1>10. Len(v) = 2 /\ v[1] = a /\ v[2] = b
  BY <1>6, <1>7, <1>8
<1>11. z = v
  BY <1>4, <1>5, <1>9, <1>10, Same
<1> QED BY <1>1, <1>8, <1>11

LEMMA Layouts ==
    ASSUME NEW a \in Units, NEW e \in Units, NEW m \in Units, NEW l \in Units, NEW t \in Units,
           NEW w, NEW v, w = <<a>> \o <<e>> \o <<m, l, t>>, v = <<a>> \o <<>> \o <<m, l, t>>
    PROVE  /\ w \in Seq(Units) /\ Len(w) = 5
           /\ w[1] = a /\ w[2] = e /\ w[3] = m /\ w[4] = l /\ w[5] = t
           /\ v \in Seq(Units) /\ Len(v) = 4
           /\ v[1] = a /\ v[2] = m /\ v[3] = l /\ v[4] = t
<1>1. PICK s : s = <<m, l, t>>
  OBVIOUS
<1>2. s \in Seq(Units)
  BY <1>1
<1>3. Len(s) = 3 /\ s[1] = m /\ s[2] = l /\ s[3] = t
  BY <1>1
<1>4. PICK x : x = <<a>>
  OBVIOUS
<1>5. x \in Seq(Units)
  BY <1>4
<1>6. Len(x) = 1 /\ x[1] = a /\ x \o <<>> = x
  BY <1>4, <1>5, CatEmpty
<1>7. PICK y : y = <<e>>
  OBVIOUS
<1>8. y \in Seq(Units)
  BY <1>7
<1>9. Len(y) = 1 /\ y[1] = e
  BY <1>7
<1>10. PICK z : z = x \o y
  OBVIOUS
<1>11. z \in Seq(Units)
  BY <1>5, <1>8, <1>10
<1>12. Len(z) = 2 /\ z[1] = a /\ z[2] = e
  <2>1. /\ Len(x \o y) = Len(x) + Len(y)
        /\ \A i \in 1 .. Len(x) : (x \o y)[i] = x[i]
        /\ \A i \in 1 .. Len(y) : (x \o y)[Len(x) + i] = y[i]
    BY <1>5, <1>8, Put
  <2> QED BY <2>1, <1>6, <1>9, <1>10
<1>13. w = z \o s /\ v = x \o s
  BY <1>1, <1>4, <1>6, <1>7, <1>10
<1>14. /\ z \o s \in Seq(Units) /\ Len(z \o s) = Len(z) + Len(s)
       /\ \A i \in 1 .. Len(z) : (z \o s)[i] = z[i]
       /\ \A i \in 1 .. Len(s) : (z \o s)[Len(z) + i] = s[i]
  BY <1>2, <1>11, Put
<1>15. /\ x \o s \in Seq(Units) /\ Len(x \o s) = Len(x) + Len(s)
       /\ \A i \in 1 .. Len(x) : (x \o s)[i] = x[i]
       /\ \A i \in 1 .. Len(s) : (x \o s)[Len(x) + i] = s[i]
  BY <1>2, <1>5, Put
<1>16. /\ 1 \in 1 .. 3 /\ 2 \in 1 .. 3 /\ 3 \in 1 .. 3
       /\ 2 + 1 = 3 /\ 2 + 2 = 4 /\ 2 + 3 = 5 /\ 1 + 1 = 2 /\ 1 + 2 = 3 /\ 1 + 3 = 4
  OBVIOUS
<1>17. Len(w) = 5 /\ w[1] = a /\ w[2] = e /\ w[3] = m /\ w[4] = l /\ w[5] = t
  BY <1>3, <1>12, <1>13, <1>14, <1>16
<1>18. Len(v) = 4 /\ v[1] = a /\ v[2] = m /\ v[3] = l /\ v[4] = t
  BY <1>3, <1>6, <1>13, <1>15, <1>16
<1> QED BY <1>13, <1>14, <1>15, <1>17, <1>18

LEMMA StatWords ==
    ASSUME NEW id \in Ids, NEW f \in Meta, NEW w, w = StatLayout(id, f)
    PROVE  /\ w \in Seq(Units) /\ w[1] = Id(id)
           /\ id \in {"STA2", "DNT2"} =>
                /\ Len(w) = 5 /\ w[2] = Num(IF Exists(f) THEN 0 ELSE ENOENT)
                /\ w[3] = Num(f.mode) /\ w[4] = Num(Len(f.body)) /\ w[5] = Num(f.mtime)
           /\ id \notin {"STA2", "DNT2"} =>
                /\ Len(w) = 4
                /\ w[2] = Num(f.mode) /\ w[3] = Num(Len(f.body)) /\ w[4] = Num(f.mtime)
<1>1. Len(f.body) \in Nat /\ f.mode \in Nat /\ f.mtime \in Nat
  BY DEF Meta
<1>2. PICK a, e, m, l, t :
          /\ a = Id(id) /\ e = Num(IF Exists(f) THEN 0 ELSE ENOENT)
          /\ m = Num(f.mode) /\ l = Num(Len(f.body)) /\ t = Num(f.mtime)
  OBVIOUS
<1>3. a \in Units /\ e \in Units /\ m \in Units /\ l \in Units /\ t \in Units
  BY <1>1, <1>2, Tokens DEF ENOENT
<1>4. PICK w5, w4 : w5 = <<a>> \o <<e>> \o <<m, l, t>> /\ w4 = <<a>> \o <<>> \o <<m, l, t>>
  OBVIOUS
<1>5. /\ w5 \in Seq(Units) /\ Len(w5) = 5
      /\ w5[1] = a /\ w5[2] = e /\ w5[3] = m /\ w5[4] = l /\ w5[5] = t
      /\ w4 \in Seq(Units) /\ Len(w4) = 4
      /\ w4[1] = a /\ w4[2] = m /\ w4[3] = l /\ w4[4] = t
  BY <1>3, <1>4, Layouts
<1>6. /\ id \in {"STA2", "DNT2"} => w = w5
      /\ id \notin {"STA2", "DNT2"} => w = w4
  BY <1>2, <1>4 DEF StatLayout
<1> QED BY <1>2, <1>5, <1>6

LEMMA AbsentIsMeta == Absent \in Meta
  BY DEF Absent, File, Meta

LEMMA ParsedAt ==
    ASSUME NEW b \in Seq(Units), NEW k \in {4, 5}, k <= Len(b)
    PROVE  Parsed(First(b, k)) = [mode |-> Number(b[k - 2]), size |-> Number(b[k - 1]),
                                  mtime |-> Number(b[k]),
                                  error |-> IF k = 5 THEN Number(b[2]) ELSE 0]
<1>1. PICK g : g = First(b, k)
  OBVIOUS
<1>2. k \in 0 .. Len(b)
  OBVIOUS
<1>3. Len(g) = k /\ \A i \in 1 .. k : g[i] = b[i]
  BY <1>1, <1>2, FirstRest
<1>4. g[k] = b[k] /\ g[k - 1] = b[k - 1] /\ g[k - 2] = b[k - 2] /\ g[2] = b[2]
  BY <1>3
<1> QED BY <1>1, <1>3, <1>4 DEF Parsed

(* What the client makes of the reply to a stat. *)
LEMMA StatReply ==
    ASSUME NEW f \in Meta, NEW w, w = StatLayout(StatId, f)
    PROVE  /\ w \in Seq(Units) /\ Len(w) = StatLen /\ StatLen \in {4, 5}
           /\ w[1] = Id(StatId)
           /\ Parsed(First(w, StatLen)) = StatOf(f, ErrorOf(f, "stat_v2" \in feats))
<1>1. StatId \in Ids /\ (StatId \in {"STA2", "DNT2"} <=> "stat_v2" \in feats)
  BY DEF StatId, Ids
<1>2. /\ w \in Seq(Units) /\ w[1] = Id(StatId)
      /\ "stat_v2" \in feats =>
           /\ Len(w) = 5 /\ w[2] = Num(IF Exists(f) THEN 0 ELSE ENOENT)
           /\ w[3] = Num(f.mode) /\ w[4] = Num(Len(f.body)) /\ w[5] = Num(f.mtime)
      /\ "stat_v2" \notin feats =>
           /\ Len(w) = 4
           /\ w[2] = Num(f.mode) /\ w[3] = Num(Len(f.body)) /\ w[4] = Num(f.mtime)
  BY <1>1, StatWords
<1>3. Len(w) = StatLen /\ StatLen \in {4, 5} /\ (StatLen = 5 <=> "stat_v2" \in feats)
  BY <1>2 DEF StatLen
<1>4. w \in Seq(Units)
  BY <1>2
<1>5. Parsed(First(w, StatLen))
         = [mode |-> Number(w[StatLen - 2]), size |-> Number(w[StatLen - 1]),
            mtime |-> Number(w[StatLen]),
            error |-> IF StatLen = 5 THEN Number(w[2]) ELSE 0]
  BY <1>3, <1>4, ParsedAt
<1>6. \A k : Number(Num(k)) = k
  BY Tokens
<1> QED BY <1>2, <1>3, <1>5, <1>6 DEF StatOf, ErrorOf
-----------------------------------------------------------------------------
(* The words of a listing. *)
LEMMA PresentIs ==
    /\ Present \in Seq(Names) /\ Len(Present) \in Nat
    /\ \A i \in 1 .. Len(Present) : Present[i] \in Names /\ Exists(fs[Present[i]])
<1> DEFINE there == {p \in Names : Exists(fs[p])}
<1>1. IsFiniteSet(there)
  BY SyncAssumption, FS_Subset
<1>2. Cardinality(there) \in Nat
  BY <1>1, FS_CardinalityType
<1>3. \E f : f \in Bijection(1 .. Cardinality(there), there)
  BY <1>1, FS_CardinalityType DEF ExistsBijection
<1>4. \E f \in [1 .. Cardinality(there) -> there] : IsInjective(f)
  BY <1>3 DEF Bijection, Injection
<1>5. Present \in [1 .. Cardinality(there) -> there]
  BY <1>4 DEF Present, SetToSeq
<1>6. Present \in Seq(there)
  <2>1. PICK c, T : c \in Nat /\ c = Cardinality(there) /\ T = there
    BY <1>2
  <2>2. c \in Nat
    BY <2>1
  <2>3. PICK s : s = Present
    OBVIOUS
  <2>4. s \in [1 .. c -> T]
    BY <1>5, <2>1, <2>3
  <2>5. s \in Seq(T)
    BY <2>2, <2>4
  <2> QED BY <2>1, <2>3, <2>5
<1>7. Len(Present) \in Nat /\ \A i \in 1 .. Len(Present) : Present[i] \in there
  BY <1>6
<1>8. Present \in Seq(Names)
  BY <1>6, <1>7
<1> QED BY <1>7, <1>8

LEMMA Listed ==
    ASSUME FilesTyped, NEW i \in 1 .. Len(Present)
    PROVE  /\ Present[i] \in Names /\ fs[Present[i]] \in Meta /\ Exists(fs[Present[i]])
           /\ Piece(Present[i]) \in Units
  BY PresentIs, Tokens DEF FilesTyped, Meta

LEMMA DentNames == DentName \in {"DENT", "DNT2"} /\ DentId = Id(DentName) /\ DentName \in Ids
                   /\ (DentName \in {"STA2", "DNT2"} <=> "ls_v2" \in feats)
  BY DEF DentName, DentId, Ids

(* An entry, up to its name. *)
DentHead(f, k) == StatLayout(DentName, f) \o <<Num(k)>>

LEMMA HeadWords ==
    ASSUME NEW f \in Meta, NEW k \in Nat, NEW w, w = DentHead(f, k)
    PROVE  /\ w \in Seq(Units) /\ Len(w) = DentLen /\ DentLen \in {5, 6}
           /\ w[1] = DentId /\ w[DentLen] = Num(k)
           /\ Exists(f) => Parsed(First(w, DentLen - 1)) = StatOf(f, 0)
<1>1. PICK s : s = StatLayout(DentName, f)
  OBVIOUS
<1>2. /\ s \in Seq(Units) /\ s[1] = DentId
      /\ "ls_v2" \in feats =>
           /\ Len(s) = 5 /\ s[2] = Num(IF Exists(f) THEN 0 ELSE ENOENT)
           /\ s[3] = Num(f.mode) /\ s[4] = Num(Len(f.body)) /\ s[5] = Num(f.mtime)
      /\ "ls_v2" \notin feats =>
           /\ Len(s) = 4
           /\ s[2] = Num(f.mode) /\ s[3] = Num(Len(f.body)) /\ s[4] = Num(f.mtime)
  BY <1>1, DentNames, StatWords
<1>3. Len(s) = DentLen - 1 /\ DentLen \in {5, 6} /\ (DentLen = 6 <=> "ls_v2" \in feats)
  <2>1. CASE "ls_v2" \in feats
    <3>1. DentLen = 6
      BY <2>1 DEF DentLen
    <3>2. Len(s) = 5
      BY <1>2, <2>1
    <3> QED BY <2>1, <3>1, <3>2
  <2>2. CASE "ls_v2" \notin feats
    <3>1. DentLen = 5
      BY <2>2 DEF DentLen
    <3>2. Len(s) = 4
      BY <1>2, <2>2
    <3> QED BY <2>2, <3>1, <3>2
  <2> QED BY <2>1, <2>2
<1>4. PICK x : x = <<Num(k)>>
  OBVIOUS
<1>5. Num(k) \in Units
  BY Tokens
<1>6. x \in Seq(Units)
  BY <1>4, <1>5, OneWord
<1>7. Len(x) = 1 /\ x[1] = Num(k)
  BY <1>4, <1>5, OneWord
<1>8. s \in Seq(Units)
  BY <1>2
<1>9. /\ s \o x \in Seq(Units) /\ Len(s \o x) = Len(s) + Len(x)
      /\ \A i \in 1 .. Len(s) : (s \o x)[i] = s[i]
      /\ \A i \in 1 .. Len(x) : (s \o x)[Len(s) + i] = x[i]
  BY <1>6, <1>8, Put
<1>10. w = s \o x
  BY <1>1, <1>4 DEF DentHead
<1>11. Len(w) = DentLen /\ w[DentLen] = Num(k) /\ \A i \in 1 .. DentLen - 1 : w[i] = s[i]
  BY <1>3, <1>7, <1>9, <1>10
<1>12. w \in Seq(Units)
  BY <1>9, <1>10
<1>13. ASSUME Exists(f) PROVE Parsed(First(w, DentLen - 1)) = StatOf(f, 0)
  <2>1. DentLen - 1 \in {4, 5} /\ DentLen - 1 <= Len(w)
    BY <1>3, <1>11
  <2>2. Parsed(First(w, DentLen - 1))
         = [mode |-> Number(w[DentLen - 1 - 2]), size |-> Number(w[DentLen - 1 - 1]),
            mtime |-> Number(w[DentLen - 1]),
            error |-> IF DentLen - 1 = 5 THEN Number(w[2]) ELSE 0]
    BY <1>12, <2>1, ParsedAt
  <2>3. \A j : Number(Num(j)) = j
    BY Tokens
  <2>4. CASE "ls_v2" \in feats
    <3>1. DentLen = 6 /\ w[2] = Num(0) /\ w[3] = Num(f.mode)
          /\ w[4] = Num(Len(f.body)) /\ w[5] = Num(f.mtime)
      BY <1>2, <1>3, <1>11, <1>13, <2>4
    <3> QED BY <2>2, <2>3, <3>1 DEF StatOf
  <2>5. CASE "ls_v2" \notin feats
    <3>1. DentLen = 5 /\ w[2] = Num(f.mode)
          /\ w[3] = Num(Len(f.body)) /\ w[4] = Num(f.mtime)
      BY <1>2, <1>3, <1>11, <2>5
    <3> QED BY <2>2, <2>3, <3>1 DEF StatOf
  <2> QED BY <2>4, <2>5
<1>14. w[1] = DentId
  BY <1>2, <1>3, <1>11
<1> QED BY <1>3, <1>11, <1>12, <1>13, <1>14

LEMMA FinalWords ==
    ASSUME NEW word \in {"DONE", "FAIL"}
    PROVE  /\ Final(word) \in Seq(Units) /\ Len(Final(word)) = DentLen /\ DentLen \in {5, 6}
           /\ Final(word)[1] = Id(word)
<1>1. PICK w : w = DentHead(Absent, 0)
  OBVIOUS
<1>2. w \in Seq(Units)
  BY <1>1, AbsentIsMeta, HeadWords
<1>3. Len(w) = DentLen /\ DentLen \in {5, 6}
  BY <1>1, AbsentIsMeta, HeadWords
<1>4. Final(word) = [w EXCEPT ![1] = Id(word)]
  BY <1>1 DEF Final, DentHead
<1>5. Id(word) \in Units
  BY Tokens DEF Ids
<1>6. PICK v : v = [w EXCEPT ![1] = Id(word)]
  OBVIOUS
<1>7. v \in Seq(Units) /\ Len(v) = Len(w) /\ v[1] = Id(word)
  BY <1>2, <1>3, <1>5, <1>6
<1> QED BY <1>3, <1>4, <1>6, <1>7

LEMMA DentSplit ==
    ASSUME FilesTyped, NEW i \in 1 .. Len(Present), NEW p, p = Present[i]
    PROVE  /\ DentWords(p) \in Seq(Units)
           /\ DentHead(fs[p], 1) \in Seq(Units) /\ <<Piece(p)>> \in Seq(Units)
           /\ DentWords(p) = DentHead(fs[p], 1) \o <<Piece(p)>>
<1>1. fs[p] \in Meta /\ Piece(p) \in Units
  BY Listed
<1>2. PICK s : s = StatLayout(DentName, fs[p])
  OBVIOUS
<1>3. s \in Seq(Units)
  BY <1>1, <1>2, DentNames, StatWords
<1>4. Num(1) \in Units
  BY Tokens
<1>5. PICK x, y : x = <<Num(1)>> /\ y = <<Piece(p)>>
  OBVIOUS
<1>6. x \in Seq(Units)
  BY <1>4, <1>5, OneWord
<1>7. y \in Seq(Units)
  BY <1>1, <1>5, OneWord
<1>8. <<Num(1), Piece(p)>> = x \o y
  BY <1>1, <1>4, <1>5, Pair
<1>9. (s \o x) \o y = s \o (x \o y)
  BY <1>3, <1>6, <1>7, CatAssoc
<1>10. s \o x \in Seq(Units)
  BY <1>3, <1>6
<1>11. (s \o x) \o y \in Seq(Units)
  BY <1>7, <1>10
<1> QED BY <1>2, <1>5, <1>7, <1>8, <1>9, <1>10, <1>11 DEF DentWords, DentHead

(* A listing that begins with an entry. *)
LEMMA DentsStep ==
    ASSUME FilesTyped, NEW i \in 0 .. Len(Present)
    PROVE  /\ Dents(i) \in Seq(Units)
           /\ i = Len(Present) => Dents(i) = <<>>
           /\ i < Len(Present) => Dents(i) = DentWords(Present[i + 1]) \o Dents(i + 1)
<1>0. PICK m : m = Len(Present) /\ m \in Nat
  BY PresentIs
<1>1. \A j \in 1 .. m : DentWords(Present[j]) \in Seq(Units)
  BY <1>0, DentSplit
<1>2. ASSUME NEW k \in 0 .. m
      PROVE  [j \in 1 .. m - k |-> DentWords(Present[k + j])] \in Seq(Seq(Units))
  <2>1. m - k \in Nat /\ \A j \in 1 .. m - k : k + j \in 1 .. m
    BY <1>0
  <2>2. \A j \in 1 .. m - k : DentWords(Present[k + j]) \in Seq(Units)
    BY <1>1, <2>1
  <2> QED BY <2>1, <2>2
<1>3. PICK s : s = [j \in 1 .. m - i |-> DentWords(Present[i + j])]
  OBVIOUS
<1>4. s \in Seq(Seq(Units))
  BY <1>0, <1>2, <1>3
<1>5. Dents(i) = FlattenSeq(s)
  BY <1>0, <1>3 DEF Dents
<1>6. Dents(i) \in Seq(Units)
  BY <1>4, <1>5, FlatType
<1>7. CASE i = m
  <2>1. s = <<>>
    BY <1>0, <1>3, <1>7
  <2> QED BY <1>0, <1>5, <1>6, <1>7, <2>1, FlatEmpty
<1>8. CASE i < m
  <2>1. PICK t : t = [j \in 1 .. m - (i + 1) |-> DentWords(Present[(i + 1) + j])]
    OBVIOUS
  <2>2. i + 1 \in 0 .. m
    BY <1>0, <1>8
  <2>3. t \in Seq(Seq(Units))
    BY <1>2, <2>1, <2>2
  <2>4. Dents(i + 1) = FlattenSeq(t)
    BY <1>0, <2>1 DEF Dents
  <2>5. m - i \in Nat /\ m - i >= 1 /\ m - (i + 1) = m - i - 1
    BY <1>0, <1>8
  <2>6. Len(s) = m - i /\ Len(t) = m - i - 1
    BY <1>3, <2>1, <2>5
  <2>7. s # <<>>
    BY <2>5, <2>6
  <2>8. Head(s) = DentWords(Present[i + 1])
    <3>1. 1 \in 1 .. m - i
      BY <2>5
    <3>2. s[1] = DentWords(Present[i + 1])
      BY <1>3, <3>1
    <3> QED BY <1>4, <2>7, <3>2, Taken
  <2>9. Tail(s) = t
    <3>1. /\ Tail(s) \in Seq(Seq(Units)) /\ Len(Tail(s)) = Len(s) - 1
          /\ \A j \in 1 .. Len(s) - 1 : Tail(s)[j] = s[j + 1]
      BY <1>4, <2>7, Taken
    <3>2. ASSUME NEW j \in 1 .. m - i - 1 PROVE s[j + 1] = t[j]
      <4>1. j + 1 \in 1 .. m - i /\ j \in 1 .. m - (i + 1) /\ i + (j + 1) = (i + 1) + j
        BY <1>0, <2>5
      <4>2. s[j + 1] = DentWords(Present[i + (j + 1)])
        BY <1>3, <4>1
      <4>3. t[j] = DentWords(Present[(i + 1) + j])
        BY <2>1, <4>1
      <4> QED BY <4>1, <4>2, <4>3
    <3>3. PICK u \in Seq(Seq(Units)) : u = Tail(s)
      BY <3>1
    <3>4. Len(u) = Len(t) /\ \A j \in 1 .. Len(u) : u[j] = t[j]
      BY <2>6, <3>1, <3>2, <3>3
    <3>5. u = t
      BY <2>3, <3>4, Same
    <3> QED BY <3>3, <3>5
  <2>10. FlattenSeq(s) = Head(s) \o FlattenSeq(Tail(s))
    BY <1>4, <2>7, FlatHead
  <2>11. Dents(i) = DentWords(Present[i + 1]) \o Dents(i + 1)
    BY <1>5, <2>4, <2>8, <2>9, <2>10, Zenon
  <2> QED BY <1>0, <1>6, <1>8, <2>11
<1> QED BY <1>0, <1>7, <1>8

Known == {StatOf(fs[p], 0) : p \in Names} \cup {Piece(p) : p \in Names}

(* An entry more in what the client has collected. *)
LEMMA EntriesStep ==
    ASSUME NEW i \in 0 .. Len(Present)
    PROVE  /\ Entries(i) \in Seq(Known)
           /\ i = 0 => Entries(i) = <<>>
           /\ i < Len(Present) =>
                Entries(i + 1) = Append(Append(Entries(i), StatOf(fs[Present[i + 1]], 0)),
                                        Piece(Present[i + 1]))
<1>0. PICK m : m = Len(Present) /\ m \in Nat
  BY PresentIs
<1>1. ASSUME NEW j \in 1 .. m PROVE EntryOf(Present[j]) \in Seq(Known)
  <2>1. Present[j] \in Names
    BY <1>0, PresentIs
  <2>2. StatOf(fs[Present[j]], 0) \in Known /\ Piece(Present[j]) \in Known
    BY <2>1 DEF Known
  <2>3. PICK a, b : a = StatOf(fs[Present[j]], 0) /\ b = Piece(Present[j])
    OBVIOUS
  <2>4. a \in Known /\ b \in Known
    BY <2>2, <2>3
  <2>5. <<a, b>> \in Seq(Known)
    BY <2>4
  <2> QED BY <2>3, <2>5 DEF EntryOf
<1>2. ASSUME NEW k \in 0 .. m
      PROVE  [j \in 1 .. k |-> EntryOf(Present[j])] \in Seq(Seq(Known))
  <2>1. k \in Nat /\ \A j \in 1 .. k : j \in 1 .. m
    BY <1>0
  <2>2. \A j \in 1 .. k : EntryOf(Present[j]) \in Seq(Known)
    BY <1>1, <2>1
  <2> QED BY <2>1, <2>2
<1>3. PICK s : s = [j \in 1 .. i |-> EntryOf(Present[j])]
  OBVIOUS
<1>4. s \in Seq(Seq(Known))
  BY <1>0, <1>2, <1>3
<1>5. Entries(i) = FlattenSeq(s)
  BY <1>3 DEF Entries
<1>6. Entries(i) \in Seq(Known)
  BY <1>4, <1>5, FlatType
<1>7. ASSUME i = 0 PROVE Entries(i) = <<>>
  <2>1. s = <<>>
    BY <1>3, <1>7
  <2> QED BY <1>5, <2>1, FlatEmpty
<1>8. ASSUME i < m
      PROVE  Entries(i + 1) = Append(Append(Entries(i), StatOf(fs[Present[i + 1]], 0)),
                                     Piece(Present[i + 1]))
  <2>1. PICK t : t = [j \in 1 .. i + 1 |-> EntryOf(Present[j])]
    OBVIOUS
  <2>2. i + 1 \in 0 .. m /\ i + 1 \in 1 .. m /\ i \in Nat
    BY <1>0, <1>8
  <2>3. t \in Seq(Seq(Known))
    BY <1>2, <2>1, <2>2
  <2>4. Entries(i + 1) = FlattenSeq(t)
    BY <2>1 DEF Entries
  <2>5. PICK x \in Seq(Known) : x = EntryOf(Present[i + 1])
    BY <1>1, <2>2
  <2>6. t = Append(s, x)
    <3>1. Append(s, x) \in Seq(Seq(Known)) /\ Len(Append(s, x)) = Len(s) + 1
          /\ Append(s, x)[Len(s) + 1] = x
          /\ \A j \in 1 .. Len(s) : Append(s, x)[j] = s[j]
      BY <1>4
    <3>2. Len(s) = i /\ Len(t) = i + 1
      BY <1>3, <2>1, <2>2
    <3>3. ASSUME NEW j \in 1 .. i + 1 PROVE t[j] = Append(s, x)[j]
      <4>1. t[j] = EntryOf(Present[j])
        BY <2>1
      <4>2. CASE j = i + 1
        BY <2>5, <3>1, <3>2, <4>1, <4>2
      <4>3. CASE j # i + 1
        <5>1. j \in 1 .. i
          BY <2>2, <4>3
        <5>2. s[j] = EntryOf(Present[j])
          BY <1>3, <5>1
        <5> QED BY <3>1, <3>2, <4>1, <5>1, <5>2
      <4> QED BY <4>2, <4>3
    <3>4. PICK u \in Seq(Seq(Known)) : u = Append(s, x)
      BY <3>1
    <3>5. Len(t) = Len(u) /\ \A j \in 1 .. Len(t) : t[j] = u[j]
      BY <3>1, <3>2, <3>3, <3>4
    <3>6. t = u
      BY <2>3, <3>5, Same
    <3> QED BY <3>4, <3>6
  <2>7. FlattenSeq(Append(s, x)) = FlattenSeq(s) \o x
    BY <1>4, FlatAppend
  <2>8. PICK e \in Seq(Known) : e = Entries(i)
    BY <1>6
  <2>9. PICK a, b : a = StatOf(fs[Present[i + 1]], 0) /\ b = Piece(Present[i + 1])
    OBVIOUS
  <2>10. a \in Known /\ b \in Known
    BY <1>0, <2>2, <2>9, PresentIs DEF Known
  <2>11. x = <<a, b>>
    BY <2>5, <2>9 DEF EntryOf
  <2>12. e \o x = Append(Append(e, a), b)
    <3>1. Len(x) = 2 /\ x[1] = a /\ x[2] = b
      BY <2>11
    <3>2. PICK v : v = Append(Append(e, a), b)
      OBVIOUS
    <3>3. v \in Seq(Known)
      BY <2>10, <3>2
    <3>4. Len(v) = Len(e) + 2 /\ v[Len(e) + 1] = a /\ v[Len(e) + 2] = b
          /\ \A j \in 1 .. Len(e) : v[j] = e[j]
      BY <2>10, <3>2
    <3>5. /\ e \o x \in Seq(Known) /\ Len(e \o x) = Len(e) + Len(x)
          /\ \A j \in 1 .. Len(e) : (e \o x)[j] = e[j]
          /\ \A j \in 1 .. Len(x) : (e \o x)[Len(e) + j] = x[j]
      BY Put
    <3>6. PICK u \in Seq(Known) : u = e \o x
      BY <3>5
    <3>7. Len(u) = Len(e) + 2 /\ u[Len(e) + 1] = a /\ u[Len(e) + 2] = b
          /\ \A j \in 1 .. Len(e) : u[j] = e[j]
      BY <3>1, <3>5, <3>6
    <3>8. Len(e) \in Nat
      OBVIOUS
    <3>9. ASSUME NEW j \in 1 .. Len(u) PROVE u[j] = v[j]
      <4>1. j \in 1 .. Len(e) \/ j = Len(e) + 1 \/ j = Len(e) + 2
        BY <3>7, <3>8
      <4> QED BY <4>1, <3>4, <3>7
    <3>10. Len(u) = Len(v)
      BY <3>4, <3>7
    <3>11. u = v
      BY <3>3, <3>9, <3>10, Same
    <3> QED BY <3>2, <3>6, <3>11
  <2> QED BY <1>5, <2>4, <2>5, <2>6, <2>7, <2>8, <2>9, <2>12
<1> QED BY <1>0, <1>6, <1>7, <1>8

-----------------------------------------------------------------------------
(* The words of a file. *)
Chunks(l, max) == (l + max - 1) \div max

LEMMA ChunkCount ==
    ASSUME NEW max \in Nat \ {0}, NEW l \in Nat
    PROVE  /\ Chunks(l, max) \in Nat
           /\ l = 0 => Chunks(l, max) = 0
           /\ l # 0 /\ l <= max => Chunks(l, max) = 1
           /\ l > max => Chunks(l - max, max) = Chunks(l, max) - 1 /\ Chunks(l, max) >= 1
<1>1. Chunks(l, max) \in Nat
  BY DEF Chunks
<1>2. l = 0 => Chunks(l, max) = 0
  BY DEF Chunks
<1>3. l # 0 /\ l <= max => Chunks(l, max) = 1
  BY DEF Chunks
<1>4. l > max => Chunks(l - max, max) = Chunks(l, max) - 1
  BY DEF Chunks
<1>5. l > max => Chunks(l, max) >= 1
  BY DEF Chunks
<1> QED BY <1>1, <1>2, <1>3, <1>4, <1>5

(* The i-th chunk of b, and the words it is sent in. *)
ChunkOf(b, max, i) == SubSeq(b, (i - 1) * max + 1, Least2(i * max, Len(b)))
DataWords(c) == <<Id("DATA"), Num(Len(c))>> \o c

LEMMA DataIs ==
    ASSUME NEW b, NEW max
    PROVE  DataOf(b, max) = FlattenSeq([i \in 1 .. Chunks(Len(b), max) |->
                                           DataWords(ChunkOf(b, max, i))])
  BY DEF DataOf, Chunks, ChunkOf, DataWords, Least2

LEMMA ChunkIs ==
    ASSUME NEW b \in Seq(Stuff), NEW max \in Nat \ {0}, NEW i \in Nat \ {0}
    PROVE  /\ ChunkOf(b, max, i) \in Seq(Stuff) /\ ChunkOf(b, max, i) \in Seq(Units)
           /\ i = 1 => ChunkOf(b, max, i) = First(b, Least2(max, Len(b)))
<1>1. Len(b) \in Nat /\ \A j \in 1 .. Len(b) : b[j] \in Stuff
  OBVIOUS
<1>2. PICK lo, hi : lo = (i - 1) * max + 1 /\ hi = Least2(i * max, Len(b))
  OBVIOUS
<1>3. (i - 1) * max \in Nat /\ i * max \in Nat
  OBVIOUS
<1>4. lo \in Nat /\ hi \in Nat /\ lo >= 1 /\ hi <= Len(b)
  BY <1>1, <1>2, <1>3 DEF Least2
<1>5. PICK c : c = SubSeq(b, lo, hi)
  OBVIOUS
<1>6. c \in Seq(Stuff)
  BY <1>1, <1>4, <1>5
<1>7. c = ChunkOf(b, max, i)
  BY <1>2, <1>5 DEF ChunkOf
<1>8. c \in Seq(Units)
  BY <1>6, StuffIsUnits
<1>9. i = 1 => ChunkOf(b, max, i) = First(b, Least2(max, Len(b)))
  <2>1. (1 - 1) * max + 1 = 1 /\ 1 * max = max
    OBVIOUS
  <2> QED BY <2>1 DEF ChunkOf, First
<1> QED BY <1>6, <1>7, <1>8, <1>9

LEMMA DataWordsAre ==
    ASSUME NEW c \in Seq(Units)
    PROVE  /\ DataWords(c) \in Seq(Units)
           /\ <<Num(Len(c))>> \o c \in Seq(Units)
           /\ DataWords(c) = <<Id("DATA")>> \o (<<Num(Len(c))>> \o c)
<1>0. Len(c) \in Nat /\ "DATA" \in Ids
  BY DEF Ids
<1>1. Id("DATA") \in Units /\ Num(Len(c)) \in Units
  BY <1>0, Tokens
<1>2. PICK x, y : x = <<Id("DATA")>> /\ y = <<Num(Len(c))>>
  OBVIOUS
<1>3. x \in Seq(Units)
  BY <1>1, <1>2, OneWord
<1>4. y \in Seq(Units)
  BY <1>1, <1>2, OneWord
<1>5. <<Id("DATA"), Num(Len(c))>> = x \o y
  BY <1>1, <1>2, Pair
<1>6. (x \o y) \o c = x \o (y \o c)
  BY <1>3, <1>4, CatAssoc
<1>7. y \o c \in Seq(Units)
  BY <1>4
<1>8. x \o (y \o c) \in Seq(Units)
  BY <1>3, <1>7
<1> QED BY <1>2, <1>5, <1>6, <1>7, <1>8 DEF DataWords

(* The chunks of what follows the first are those that follow it. *)
LEMMA ChunkNext ==
    ASSUME NEW b \in Seq(Stuff), NEW max \in Nat \ {0}, Len(b) > max, NEW i \in Nat \ {0}
    PROVE  ChunkOf(Rest(b, max), max, i) = ChunkOf(b, max, i + 1)
<1>1. Len(b) \in Nat /\ max \in 0 .. Len(b)
  OBVIOUS
<1>2. PICK r, l : r = Rest(b, max) /\ l = Len(b)
  OBVIOUS
<1>3. r \in Seq(Stuff)
  BY <1>1, <1>2, FirstRest
<1>4. Len(r) = l - max /\ \A j \in 1 .. l - max : r[j] = b[max + j]
  BY <1>1, <1>2, FirstRest
<1>5. PICK x \in Nat, y \in Nat : x = (i - 1) * max /\ y = i * max
  OBVIOUS
<1>6. (i + 1) * max = y + max /\ (i + 1 - 1) * max = x + max
  BY <1>5
<1>7. PICK hi : hi = Least2(y, l - max)
  OBVIOUS
<1>8. l \in Nat /\ l > max
  BY <1>1, <1>2
<1>9. hi \in Nat /\ hi <= l - max /\ Least2(y + max, l) = hi + max
  BY <1>7, <1>8 DEF Least2
<1>10. PICK c, d : c = SubSeq(r, x + 1, hi) /\ d = SubSeq(b, x + max + 1, hi + max)
  OBVIOUS
<1>11. c \in Seq(Stuff) /\ d \in Seq(Stuff) /\ Len(c) = Len(d)
       /\ \A j \in 1 .. Len(c) : c[j] = d[j]
  <2>1. CASE x + 1 <= hi
    <3>1. \A j \in x + 1 .. hi : r[j] \in Stuff
      BY <1>3, <1>4, <1>8, <1>9
    <3>2. \A j \in x + max + 1 .. hi + max : b[j] \in Stuff
      BY <1>2, <1>8, <1>9
    <3>3. /\ c = [j \in 1 .. hi - x |-> r[x + j]] /\ Len(c) = hi - x /\ c \in Seq(Stuff)
      <4>1. hi - x \in Nat /\ hi - (x + 1) + 1 = hi - x
        BY <1>9, <2>1
      <4>2. \A j \in 1 .. hi - x : x + j \in x + 1 .. hi /\ x + 1 + j - 1 = x + j
        BY <1>9, <2>1
      <4>3. c = [j \in 1 .. hi - (x + 1) + 1 |-> r[x + 1 + j - 1]]
        BY <1>9, <1>10
      <4>4. c = [j \in 1 .. hi - x |-> r[x + j]]
        BY <4>1, <4>2, <4>3
      <4>5. Len(c) = hi - x /\ c \in Seq(Stuff)
        BY <3>1, <4>1, <4>2, <4>4
      <4> QED BY <4>4, <4>5
    <3>4. /\ d = [j \in 1 .. hi - x |-> b[x + max + j]] /\ Len(d) = hi - x /\ d \in Seq(Stuff)
      <4>1. hi - x \in Nat /\ hi + max - (x + max + 1) + 1 = hi - x
        BY <1>9, <2>1
      <4>2. \A j \in 1 .. hi - x : x + max + j \in x + max + 1 .. hi + max
                                   /\ x + max + 1 + j - 1 = x + max + j
        BY <1>9, <2>1
      <4>3. d = [j \in 1 .. hi + max - (x + max + 1) + 1 |-> b[x + max + 1 + j - 1]]
        BY <1>9, <1>10
      <4>4. d = [j \in 1 .. hi - x |-> b[x + max + j]]
        BY <4>1, <4>2, <4>3
      <4>5. Len(d) = hi - x /\ d \in Seq(Stuff)
        BY <3>2, <4>1, <4>2, <4>4
      <4> QED BY <4>4, <4>5
    <3>5. ASSUME NEW j \in 1 .. hi - x PROVE r[x + j] = b[x + max + j]
      <4>1. x + j \in 1 .. l - max /\ max + (x + j) = x + max + j
        BY <1>8, <1>9, <2>1
      <4> QED BY <1>4, <4>1
    <3> QED BY <3>3, <3>4, <3>5
  <2>2. CASE x + 1 > hi
    <3>1. c = <<>> /\ d = <<>>
      BY <1>9, <1>10, <2>2
    <3> QED BY <3>1
  <2> QED BY <1>9, <2>1, <2>2
<1>12. c = d
  BY <1>11, Same
<1>13. ChunkOf(r, max, i) = c
  BY <1>4, <1>5, <1>7, <1>10 DEF ChunkOf
<1>14. ChunkOf(b, max, i + 1) = d
  BY <1>2, <1>6, <1>9, <1>10 DEF ChunkOf
<1> QED BY <1>2, <1>12, <1>13, <1>14

LEMMA DataTyped ==
    ASSUME NEW b \in Seq(Stuff), NEW max \in Nat \ {0}, NEW m, m = Chunks(Len(b), max),
           NEW s, s = [i \in 1 .. m |-> DataWords(ChunkOf(b, max, i))]
    PROVE  /\ m \in Nat /\ s \in Seq(Seq(Units)) /\ Len(s) = m
           /\ DataOf(b, max) = FlattenSeq(s) /\ DataOf(b, max) \in Seq(Units)
<1>1. Len(b) \in Nat
  OBVIOUS
<1>2. m \in Nat
  BY <1>1, ChunkCount
<1>3. \A i \in 1 .. m : DataWords(ChunkOf(b, max, i)) \in Seq(Units)
  <2> SUFFICES ASSUME NEW i \in 1 .. m PROVE DataWords(ChunkOf(b, max, i)) \in Seq(Units)
    OBVIOUS
  <2>1. i \in Nat \ {0}
    BY <1>2
  <2>2. ChunkOf(b, max, i) \in Seq(Units)
    BY <2>1, ChunkIs
  <2> QED BY <2>2, DataWordsAre
<1>4. s \in Seq(Seq(Units)) /\ Len(s) = m
  <2>1. PICK words : words = [i \in 1 .. m |-> DataWords(ChunkOf(b, max, i))]
    OBVIOUS
  <2>2. \A i \in 1 .. m : words[i] \in Seq(Units)
    BY <1>3, <2>1
  <2>3. words = [i \in 1 .. m |-> words[i]]
    BY <2>1
  <2>4. words \in [1 .. m -> Seq(Units)]
    BY <2>2, <2>3
  <2>5. \A A : \A q \in [1 .. m -> A] : q \in Seq(A) /\ Len(q) = m
    BY <1>2
  <2> QED BY <2>1, <2>4, <2>5
<1>5. DataOf(b, max) = FlattenSeq(s)
  BY DataIs
<1>6. FlattenSeq(s) \in Seq(Units)
  BY <1>4, FlatType
<1> QED BY <1>2, <1>4, <1>5, <1>6

LEMMA DataStep ==
    ASSUME NEW b \in Seq(Stuff), NEW max \in Nat \ {0}, b # <<>>,
           NEW k, k = Least2(max, Len(b))
    PROVE  /\ k \in 1 .. Len(b) /\ First(b, k) \in Seq(Stuff) /\ Rest(b, k) \in Seq(Stuff)
           /\ DataOf(b, max) = DataWords(First(b, k)) \o DataOf(Rest(b, k), max)
<1>1. Len(b) \in Nat /\ Len(b) # 0
  OBVIOUS
<1>2. k \in 1 .. Len(b) /\ k \in 0 .. Len(b)
  BY <1>1 DEF Least2
<1>3. PICK m, s : /\ m = Chunks(Len(b), max)
                  /\ s = [i \in 1 .. m |-> DataWords(ChunkOf(b, max, i))]
  OBVIOUS
<1>4. /\ m \in Nat /\ s \in Seq(Seq(Units)) /\ Len(s) = m
      /\ DataOf(b, max) = FlattenSeq(s)
  BY <1>3, DataTyped
<1>5. m >= 1
  BY <1>1, <1>3, ChunkCount
<1>6. s # <<>>
  BY <1>4, <1>5
<1>7. Head(s) = DataWords(First(b, k))
  <2>1. 1 \in 1 .. m /\ 1 \in Nat \ {0}
    BY <1>4, <1>5
  <2>2. s[1] = DataWords(ChunkOf(b, max, 1))
    BY <1>3, <2>1
  <2>3. ChunkOf(b, max, 1) = First(b, k)
    BY <2>1, ChunkIs
  <2> QED BY <1>4, <1>6, <2>2, <2>3, Taken
<1>8. First(b, k) \in Seq(Stuff) /\ Rest(b, k) \in Seq(Stuff)
      /\ Len(Rest(b, k)) = Len(b) - k
  BY <1>2, FirstRest
<1>9. PICK r \in Seq(Stuff) : r = Rest(b, k) /\ Len(r) = Len(b) - k
  BY <1>8
<1>10. PICK q, t : /\ q = Chunks(Len(r), max)
                   /\ t = [i \in 1 .. q |-> DataWords(ChunkOf(r, max, i))]
  OBVIOUS
<1>11. /\ q \in Nat /\ t \in Seq(Seq(Units)) /\ Len(t) = q
       /\ DataOf(r, max) = FlattenSeq(t)
  BY <1>10, DataTyped
<1>12. q = m - 1
  <2>1. CASE Len(b) > max
    <3>1. k = max
      BY <1>1, <2>1 DEF Least2
    <3> QED BY <1>1, <1>3, <1>9, <1>10, <2>1, <3>1, ChunkCount
  <2>2. CASE Len(b) <= max
    <3>1. k = Len(b)
      BY <1>1, <2>2 DEF Least2
    <3>2. Len(r) = 0
      BY <1>1, <1>9, <3>1
    <3>3. q = 0
      BY <1>10, <3>2, ChunkCount
    <3>4. m = 1
      BY <1>1, <1>3, <2>2, ChunkCount
    <3> QED BY <3>3, <3>4
  <2> QED BY <1>1, <2>1, <2>2
<1>13. Tail(s) = t
  <2>1. /\ Tail(s) \in Seq(Seq(Units)) /\ Len(Tail(s)) = Len(s) - 1
        /\ \A i \in 1 .. Len(s) - 1 : Tail(s)[i] = s[i + 1]
    BY <1>4, <1>6, Taken
  <2>2. ASSUME NEW i \in 1 .. m - 1 PROVE s[i + 1] = t[i]
    <3>1. i + 1 \in 1 .. m /\ i \in 1 .. q /\ i \in Nat \ {0}
      BY <1>4, <1>12
    <3>2. s[i + 1] = DataWords(ChunkOf(b, max, i + 1))
      BY <1>3, <3>1
    <3>3. t[i] = DataWords(ChunkOf(r, max, i))
      BY <1>10, <3>1
    <3>4. Len(b) > max
      <4>1. q >= 1
        BY <1>11, <3>1
      <4>2. Len(b) <= max => m = 1
        BY <1>1, <1>3, ChunkCount
      <4> QED BY <1>1, <1>12, <4>1, <4>2
    <3>5. k = max
      BY <1>1, <3>4 DEF Least2
    <3>6. ChunkOf(Rest(b, max), max, i) = ChunkOf(b, max, i + 1)
      BY <3>1, <3>4, ChunkNext
    <3> QED BY <1>9, <3>2, <3>3, <3>5, <3>6
  <2>3. PICK u \in Seq(Seq(Units)) : u = Tail(s)
    BY <2>1
  <2>4. Len(u) = Len(t) /\ \A i \in 1 .. Len(u) : u[i] = t[i]
    BY <1>4, <1>11, <1>12, <2>1, <2>2, <2>3
  <2>5. u = t
    BY <1>11, <2>4, Same
  <2> QED BY <2>3, <2>5
<1>14. FlattenSeq(s) = Head(s) \o FlattenSeq(Tail(s))
  BY <1>4, <1>6, FlatHead
<1>15. DataOf(b, max) = DataWords(First(b, k)) \o DataOf(r, max)
  BY <1>4, <1>7, <1>11, <1>13, <1>14, Zenon
<1> QED BY <1>2, <1>8, <1>9, <1>15

LEMMA DataNone == ASSUME NEW max \in Nat \ {0} PROVE DataOf(<<>>, max) = <<>>
<1>1. PICK m, s : m = Chunks(0, max) /\ s = [i \in 1 .. m |-> DataWords(ChunkOf(<<>>, max, i))]
  OBVIOUS
<1>2. m = 0
  BY <1>1, ChunkCount
<1>3. s = <<>>
  BY <1>1, <1>2
<1>4. DataOf(<<>>, max) = FlattenSeq(s)
  <2>1. Len(<<>>) = 0
    OBVIOUS
  <2> QED BY <1>1, <2>1, DataIs
<1> QED BY <1>3, <1>4, FlatEmpty
-----------------------------------------------------------------------------
(* The steps. *)
LEMMA FirstAll ==
    ASSUME NEW s \in Seq(Units)
    PROVE  First(s, Len(s)) = s
<1>1. Len(s) \in 0 .. Len(s)
  OBVIOUS
<1>2. PICK f : f = First(s, Len(s))
  OBVIOUS
<1>3. f \in Seq(Units)
  BY <1>1, <1>2, FirstRest
<1>4. Len(f) = Len(s) /\ \A i \in 1 .. Len(f) : f[i] = s[i]
  BY <1>1, <1>2, FirstRest
<1>5. f = s
  BY <1>3, <1>4, Same
<1> QED BY <1>2, <1>5

LEMMA EmptyWord == <<>> \in Seq(Units) /\ Len(<<>>) = 0
  OBVIOUS

(* A call that has not returned, or whose channel is out of step, has no    *)
(* answer to be true.                                                       *)
LEMMA Unanswered ==
    ASSUME \/ pc' \notin {"return", "quit", "idle"} \/ ~clean'
           \/ call'.op \notin SyncOps
           \/ res' \notin {"ok", "remote", "protocol"}
    PROVE  AnswerIsTrue'
  BY DEF AnswerIsTrue, Returned, SyncOps

(* An answer stays what it is. *)
LEMMA SameAnswer ==
    ASSUME AnswerIsTrue, UNCHANGED <<fs, feats, source, call, acc, res>>,
           clean' => clean, pc \in {"return", "quit", "idle"},
           pc' = "return" => pc = "return" /\ n' = n
    PROVE  AnswerIsTrue'
<1>1. Present' = Present
  BY DEF Present
<1>2. Listing' = Listing
  BY <1>1 DEF Listing
<1> QED BY <1>2 DEF AnswerIsTrue, Returned

LEMMA SameStream == ASSUME UNCHANGED <<buf, down, out>> PROVE Stream' = Stream
  BY DEF Stream

LEMMA SameComes ==
    ASSUME Stream' = Stream, peer' = peer, NEW w, Comes(w)
    PROVE  Comes(w)'
  BY DEF Comes

LEMMA SameDue ==
    ASSUME UNCHANGED <<pc, n, acc, call, fs, feats, source>>, NEW w, Due(w)
    PROVE  Due(w)'
<1>1. UNCHANGED <<Present, DentName, Body, Left, StatId>>
  BY DEF Present, DentName, Body, Left, StatId
<1>2. /\ \A word : Final(word)' = Final(word)
      /\ \A i : Dents(i)' = Dents(i) /\ Entries(i)' = Entries(i)
  BY <1>1 DEF Final, Dents, Entries, DentWords, EntryOf
<1>3. ListDue(w) => ListDue(w)'
  BY <1>1, <1>2 DEF ListDue
<1>4. \A max : Size(max)' = Size(max) /\ After(max)' = After(max)
  BY <1>1 DEF Size, After
<1>5. PullDue(w) => PullDue(w)'
  BY <1>1, <1>4 DEF PullDue
<1>6. UNCHANGED <<Stored, Refused, Complete>>
  BY <1>1 DEF Stored, Refused, Complete
<1> QED BY <1>1, <1>3, <1>5, <1>6 DEF Due

LEMMA SameOwed ==
    ASSUME UNCHANGED <<pc, call, feats, dev>>, Queue' = Queue, Owed
    PROVE  Owed'
<1>1. \A k : DataFrom(k) => DataFrom(k)'
  BY DEF DataFrom
<1>2. Sending => Sending'
  BY <1>1 DEF Sending
<1>3. RequestOf(call)' = RequestOf(call)
  BY DEF RequestOf, StatId, ListId, RecvRequest, SendRequest
<1> QED BY <1>2, <1>3 DEF Owed

LEMMA SameStage ==
    ASSUME UNCHANGED <<pc, n, acc, call, fs, feats, source, dev, peer>>,
           Stream' = Stream, Queue' = Queue, Stage
    PROVE  Stage'
<1>1. OfCall'
  BY DEF Stage, OfCall
<1>2. CASE Unserved
  BY <1>1, <1>2, SameOwed DEF Unserved, Stage
<1>3. CASE Served
  <2>1. PICK w \in Seq(Units) : Due(w) /\ Comes(w)
    BY <1>3 DEF Served
  <2>2. Due(w)' /\ Comes(w)'
    BY <2>1, SameDue, SameComes
  <2> QED BY <1>1, <1>3, <2>2 DEF Served, Stage
<1> QED BY <1>2, <1>3 DEF Stage

LEMMA SameFiles == ASSUME FilesTyped, fs' = fs PROVE FilesTyped'
  BY DEF FilesTyped

(* Words go on their way, and nobody notices. *)
LEMMA Kept ==
    ASSUME TalkInv, Steady => Typed' /\ Stream' = Stream, Queue' = Queue,
           UNCHANGED <<pc, n, acc, res, call, fs, feats, source, dev, peer, own, clean, user>>
    PROVE  Talking'
<1>1. FilesTyped'
  BY SameFiles DEF TalkInv, Talking
<1>2. Apart'
  BY DEF TalkInv, Talking, Apart
<1>3. Conversation'
  BY SameStage DEF TalkInv, Talking, Conversation, Steady
<1>4. AnswerIsTrue'
  <2>1. CASE pc \in {"return", "quit", "idle"}
    BY <2>1, SameAnswer DEF TalkInv, Talking
  <2>2. CASE pc \notin {"return", "quit", "idle"}
    BY <2>2, Unanswered
  <2> QED BY <2>1, <2>2
<1> QED BY <1>1, <1>2, <1>3, <1>4 DEF Talking
-----------------------------------------------------------------------------
(* The client reads. *)
LEMMA GotIt ==
    ASSUME TalkInv, NEW p \in Reading, Got(p), UNCHANGED <<shellVars, deviceVars>>
    PROVE  /\ pc = p /\ own = "open" /\ own' = own /\ buf' = Rest(buf, Need) /\ Need <= Len(buf)
           /\ UNCHANGED <<down, out, call, peer>>
           /\ UNCHANGED <<dev, fs, feats, source, clean, user>>
           /\ Queue' = Queue
           /\ FilesTyped /\ FilesTyped'
           /\ user = "shell" => call.op \notin SyncOps
           /\ clean /\ user # "shell" => Steady
           /\ Steady => Typed /\ OfCall /\ (peer = "open" => Queue = <<>> /\ dev = Idle)
                        /\ \E w \in Seq(Units) : Due(w) /\ Comes(w)
<1>1. /\ pc = p /\ todo = <<>> /\ Len(buf) >= Need /\ buf' = Rest(buf, Need)
      /\ UNCHANGED <<up, down, peer, own, out, dev, call, todo, fs, feats, source, clean, user>>
  BY DEF Got, Take, channelVars, syncVars, deviceVars
<1>2. p \notin {"idle", "return", "quit", "source", "frames", "drain"}
  BY DEF Reading
<1>3. own = "open"
  BY <1>1, <1>2 DEF TalkInv, Talking, Apart
<1>4. user = "shell" => call.op \notin SyncOps
  BY <1>1, <1>2 DEF TalkInv, IInv, Owner
<1>5. clean /\ user # "shell" => Steady
  BY <1>1, <1>2, <1>3 DEF Steady
<1>6. FilesTyped /\ FilesTyped'
  BY <1>1, SameFiles DEF TalkInv, Talking
<1>7. Queue' = Queue
  BY <1>1 DEF Queue
<1>8. ASSUME Steady, Unserved PROVE FALSE
  <2>1. Typed /\ pc \in {"stat", "entry", "chunk", "status"} /\ Stream = <<>>
    BY <1>1, <1>2, <1>8 DEF TalkInv, Talking, Conversation, Unserved
  <2>2. Len(buf) = 0
    BY <2>1, StreamEmpty
  <2>3. Need \in Nat \ {0}
    BY <2>1 DEF Need, StatLen, DentLen
  <2> QED BY <1>1, <2>2, <2>3
<1>9. Steady => Typed /\ OfCall /\ Served
  BY <1>8 DEF TalkInv, Talking, Conversation, Stage
<1> QED BY <1>1, <1>3, <1>4, <1>5, <1>6, <1>7, <1>9 DEF Served

(* What it has read is what was due, and the rest is due next. *)
LEMMA ReadOnward ==
    ASSUME TalkInv, NEW p \in Reading, Got(p), UNCHANGED <<shellVars, deviceVars>>, Steady,
           NEW h \in Seq(Units), NEW t \in Seq(Units), Comes(h \o t), Len(h) = Need
    PROVE  /\ First(buf, Need) = h /\ \A i \in 1 .. Need : buf[i] = h[i]
           /\ Typed' /\ (OfCall' /\ Due(t)' => Conversation')
<1>1. /\ buf' = Rest(buf, Need) /\ Need <= Len(buf) /\ Typed
      /\ UNCHANGED <<down, out, call, peer>> /\ Queue' = Queue /\ dev' = dev
      /\ (peer = "open" => Queue = <<>> /\ dev = Idle)
  BY GotIt
<1>2. PICK k : k = Need
  OBVIOUS
<1>3. k \in Nat /\ Len(h) = k
  BY <1>2
<1>4. k <= Len(buf) /\ buf' = Rest(buf, k)
  BY <1>1, <1>2
<1>5. First(buf, k) = h /\ Comes(t)' /\ Typed' /\ \A i \in 1 .. k : buf[i] = h[i]
  BY <1>1, <1>3, <1>4, Gets
<1>6. ASSUME OfCall', Due(t)' PROVE Conversation'
  <2>1. Served'
    BY <1>1, <1>5, <1>6 DEF Served
  <2> QED BY <1>5, <1>6, <2>1 DEF Conversation, Stage
<1> QED BY <1>2, <1>5, <1>6

(* A reading step keeps the rest if it does when all is in order. *)
LEMMA ReadKeeps ==
    ASSUME TalkInv, NEW p \in Reading, Got(p), UNCHANGED <<shellVars, deviceVars>>,
           pc' \in Reading \cup {"return"},
           Steady => AnswerIsTrue' /\ Conversation'
    PROVE  Talking'
<1>1. /\ own = "open" /\ own' = own /\ UNCHANGED <<call, clean, user>> /\ FilesTyped'
      /\ user = "shell" => call.op \notin SyncOps
      /\ clean /\ user # "shell" => Steady
  BY GotIt
<1>2. Apart'
  <2>1. pc' \notin {"frames", "drain", "idle"}
    BY DEF Reading
  <2> QED BY <1>1, <2>1 DEF Apart
<1>3. CASE Steady
  BY <1>1, <1>2, <1>3 DEF Talking
<1>4. CASE ~Steady
  <2>1. AnswerIsTrue'
    BY <1>1, <1>4, Unanswered
  <2>2. ~Steady'
    BY <1>1, <1>4 DEF Steady
  <2> QED BY <1>1, <1>2, <2>1, <2>2 DEF Talking, Conversation
<1> QED BY <1>3, <1>4

LEMMA CallPath ==
    ASSUME FilesTyped, call \in SyncCalls, call.op \in {"stat", "pull", "push"}
    PROVE  call.path \in Names /\ fs[call.path] \in Meta
  BY DEF FilesTyped, SyncCalls, Meta

LEMMA ReadStatTalk ==
    ASSUME TalkInv, ReadStat, UNCHANGED <<shellVars, deviceVars>>
    PROVE  Talking'
<1>1. Got("stat") /\ "stat" \in Reading /\ pc' = "return"
  BY DEF ReadStat, Reading, OutOfPlace, Returns
<1>2. ASSUME Steady PROVE AnswerIsTrue' /\ Conversation'
  <2>1. /\ pc = "stat" /\ Typed /\ OfCall /\ FilesTyped
        /\ UNCHANGED <<fs, feats, call, clean>>
    BY <1>1, <1>2, GotIt
  <2>2. PICK w \in Seq(Units) : Due(w) /\ Comes(w)
    BY <1>1, <1>2, GotIt
  <2>3. w = StatLayout(StatId, fs[call.path]) /\ call.op = "stat" /\ call \in SyncCalls
    BY <2>1, <2>2 DEF Due, OfCall, Typed
  <2>4. fs[call.path] \in Meta
    BY <2>1, <2>3, CallPath
  <2>5. /\ Len(w) = StatLen /\ w[1] = Id(StatId) /\ StatLen \in {4, 5}
        /\ Parsed(First(w, StatLen)) = StatOf(fs[call.path], ErrorOf(fs[call.path], "stat_v2" \in feats))
    BY <2>3, <2>4, StatReply
  <2>6. Need = StatLen /\ Len(w) = Need
    BY <2>1, <2>5 DEF Need
  <2>7. Comes(w \o <<>>) /\ <<>> \in Seq(Units)
    BY <2>2, CatEmpty
  <2>8. /\ First(buf, Need) = w /\ \A i \in 1 .. Need : buf[i] = w[i]
        /\ OfCall' /\ Due(<<>>)' => Conversation'
    BY <1>1, <1>2, <2>6, <2>7, ReadOnward
  <2>9. buf[1] = Id(StatId)
    BY <2>5, <2>6, <2>8
  <2>10. acc' = <<Parsed(First(buf, StatLen))>> /\ res' = "ok"
    BY <2>9 DEF ReadStat, OutOfPlace
  <2>11. First(w, StatLen) = w
    BY <2>5, FirstAll
  <2>12. acc' = <<StatOf(fs[call.path], ErrorOf(fs[call.path], "stat_v2" \in feats))>>
    BY <2>5, <2>6, <2>8, <2>10, <2>11
  <2>13. OfCall' /\ Due(<<>>)'
    BY <1>1 DEF OfCall, Due
  <2>14. acc'[1] = StatOf(fs[call.path], ErrorOf(fs[call.path], "stat_v2" \in feats))
    BY <2>12
  <2>15. StatExists(acc'[1]) <=> Exists(fs[call.path])
    BY <2>14 DEF StatExists, StatOf, ErrorOf, Exists, ENOENT
  <2>16. AnswerIsTrue'
    BY <1>1, <2>1, <2>3, <2>10, <2>12, <2>15 DEF AnswerIsTrue, Returned
  <2> QED BY <2>8, <2>13, <2>16
<1> QED BY <1>1, <1>2, ReadKeeps

LEMMA ListingIs == Listing = Entries(Len(Present))
<1>1. DOMAIN Present = 1 .. Len(Present)
  BY PresentIs
<1> QED BY <1>1 DEF Listing, Entries, EntryOf

LEMMA IdsApart ==
    /\ Id("DATA") \notin {Id("DONE"), Id("FAIL")} /\ Id("DONE") # Id("FAIL")
    /\ Id("OKAY") # Id("FAIL") /\ DentId \notin {Id("DONE"), Id("FAIL")}
  BY DEF Id, DentId

(* What the client waits for in a listing. *)
LEMMA EntryDue ==
    ASSUME FilesTyped, NEW w, ListDue(w), pc = "entry"
    PROVE  \/ w = Final("FAIL") /\ acc = <<>>
           \/ w = Final("DONE") /\ acc = Listing
           \/ \E i \in 0 .. Len(Present) - 1 :
                 /\ acc = Entries(i)
                 /\ w = DentWords(Present[i + 1]) \o Dents(i + 1) \o Final("DONE")
<1>1. CASE acc = <<>> /\ w = Final("FAIL")
  BY <1>1
<1>2. CASE \E i \in 0 .. Len(Present) : acc = Entries(i) /\ w = Dents(i) \o Final("DONE")
  <2>1. PICK i \in 0 .. Len(Present) : acc = Entries(i) /\ w = Dents(i) \o Final("DONE")
    BY <1>2
  <2>2. Len(Present) \in Nat
    BY PresentIs
  <2>3. CASE i = Len(Present)
    <3>1. Dents(i) = <<>>
      BY <2>3, DentsStep
    <3>2. <<>> \o Final("DONE") = Final("DONE")
      BY FinalWords, CatEmpty
    <3> QED BY <2>1, <2>3, <3>1, <3>2, ListingIs
  <2>4. CASE i < Len(Present)
    <3>1. Dents(i) = DentWords(Present[i + 1]) \o Dents(i + 1)
      BY <2>4, DentsStep
    <3>2. i \in 0 .. Len(Present) - 1
      BY <2>2, <2>4
    <3> QED BY <2>1, <3>1, <3>2
  <2>5. i = Len(Present) \/ i < Len(Present)
    BY <2>2
  <2> QED BY <2>3, <2>4, <2>5
<1> QED BY <1>1, <1>2 DEF ListDue

LEMMA EntrySplit ==
    ASSUME FilesTyped, NEW i \in 0 .. Len(Present) - 1, NEW p, p = Present[i + 1]
    PROVE  /\ DentHead(fs[p], 1) \in Seq(Units) /\ <<Piece(p)>> \in Seq(Units)
           /\ Dents(i + 1) \o Final("DONE") \in Seq(Units)
           /\ <<Piece(p)>> \o (Dents(i + 1) \o Final("DONE")) \in Seq(Units)
           /\ (DentWords(p) \o Dents(i + 1)) \o Final("DONE")
                = DentHead(fs[p], 1) \o (<<Piece(p)>> \o (Dents(i + 1) \o Final("DONE")))
<1>1. i + 1 \in 1 .. Len(Present) /\ i + 1 \in 0 .. Len(Present)
  BY PresentIs
<1>2. PICK h, x, d, f : /\ h = DentHead(fs[p], 1) /\ x = <<Piece(p)>>
                        /\ d = Dents(i + 1) /\ f = Final("DONE")
  OBVIOUS
<1>3. h \in Seq(Units)
  BY <1>1, <1>2, DentSplit
<1>4. x \in Seq(Units)
  BY <1>1, <1>2, DentSplit
<1>5. d \in Seq(Units)
  BY <1>1, <1>2, DentsStep
<1>6. f \in Seq(Units)
  BY <1>2, FinalWords
<1>7. DentWords(p) = h \o x
  BY <1>1, <1>2, DentSplit
<1>8. (h \o x) \o d = h \o (x \o d)
  BY <1>3, <1>4, <1>5, CatAssoc
<1>9. x \o d \in Seq(Units)
  BY <1>4, <1>5
<1>10. (h \o (x \o d)) \o f = h \o ((x \o d) \o f)
  <2>1. PICK z \in Seq(Units) : z = x \o d
    BY <1>9
  <2>2. (h \o z) \o f = h \o (z \o f)
    BY <1>3, <1>6, CatAssoc
  <2> QED BY <2>1, <2>2
<1>11. (x \o d) \o f = x \o (d \o f)
  BY <1>4, <1>5, <1>6, CatAssoc
<1>12. d \o f \in Seq(Units)
  BY <1>5, <1>6
<1>13. x \o (d \o f) \in Seq(Units)
  BY <1>4, <1>12
<1> QED BY <1>2, <1>3, <1>4, <1>7, <1>8, <1>10, <1>11, <1>12, <1>13

LEMMA ReadEntryTalk ==
    ASSUME TalkInv, ReadEntry, UNCHANGED <<shellVars, deviceVars>>
    PROVE  Talking'
<1>1. Got("entry") /\ "entry" \in Reading /\ pc' \in {"name", "return"}
  BY DEF ReadEntry, Reading, OutOfPlace, Returns
<1>2. ASSUME Steady PROVE AnswerIsTrue' /\ Conversation'
  <2>1. /\ pc = "entry" /\ Typed /\ OfCall /\ FilesTyped
        /\ UNCHANGED <<fs, feats, call, clean, source>>
    BY <1>1, <1>2, GotIt
  <2>2. PICK w \in Seq(Units) : Due(w) /\ Comes(w)
    BY <1>1, <1>2, GotIt
  <2>3. ListDue(w) /\ call.op = "list"
    BY <2>1, <2>2 DEF Due, OfCall
  <2>4. Need = DentLen
    BY <2>1 DEF Need
  <2>5. UNCHANGED <<Present, Listing>>
    <3>1. Present' = Present
      BY <2>1 DEF Present
    <3> QED BY <2>1, <3>1 DEF Listing
  <2>6. CASE \E word \in {"DONE", "FAIL"} :
                w = Final(word) /\ (word = "DONE" => acc = Listing)
    <3>1. PICK word \in {"DONE", "FAIL"} :
                w = Final(word) /\ (word = "DONE" => acc = Listing)
      BY <2>6
    <3>2. Len(w) = DentLen /\ DentLen \in {5, 6} /\ w[1] = Id(word)
      BY <3>1, FinalWords
    <3>3. Comes(w \o <<>>) /\ <<>> \in Seq(Units) /\ Len(w) = Need
      BY <2>2, <2>4, <3>2, CatEmpty
    <3>4. /\ \A i \in 1 .. Need : buf[i] = w[i]
          /\ OfCall' /\ Due(<<>>)' => Conversation'
      BY <1>1, <1>2, <3>3, ReadOnward
    <3>5. buf[1] = Id(word)
      BY <2>4, <3>2, <3>4
    <3>6. pc' = "return" /\ acc' = acc /\ res' = IF word = "DONE" THEN "ok" ELSE "remote"
      BY <3>1, <3>5, IdsApart DEF ReadEntry, OutOfPlace, Returns
    <3>7. OfCall' /\ Due(<<>>)'
      BY <3>6 DEF OfCall, Due
    <3>8. AnswerIsTrue'
      BY <2>1, <2>3, <2>5, <3>1, <3>6 DEF AnswerIsTrue, Returned
    <3> QED BY <3>4, <3>7, <3>8
  <2>7. CASE \E i \in 0 .. Len(Present) - 1 :
                 /\ acc = Entries(i)
                 /\ w = DentWords(Present[i + 1]) \o Dents(i + 1) \o Final("DONE")
    <3>1. PICK i \in 0 .. Len(Present) - 1 :
                 /\ acc = Entries(i)
                 /\ w = DentWords(Present[i + 1]) \o Dents(i + 1) \o Final("DONE")
      BY <2>7
    <3>2. PICK p : p = Present[i + 1]
      OBVIOUS
    <3>3. PICK h, t : h = DentHead(fs[p], 1) /\ t = <<Piece(p)>> \o (Dents(i + 1) \o Final("DONE"))
      OBVIOUS
    <3>4. h \in Seq(Units) /\ t \in Seq(Units) /\ w = h \o t
      BY <2>1, <3>1, <3>2, <3>3, EntrySplit
    <3>5. i + 1 \in 1 .. Len(Present)
      BY PresentIs
    <3>6. fs[p] \in Meta /\ Exists(fs[p])
      BY <2>1, <3>2, <3>5, Listed
    <3>7. /\ Len(h) = DentLen /\ DentLen \in {5, 6} /\ h[1] = DentId /\ h[DentLen] = Num(1)
          /\ Parsed(First(h, DentLen - 1)) = StatOf(fs[p], 0)
      BY <3>3, <3>6, HeadWords
    <3>8. h \in Seq(Units)
      BY <3>4
    <3>9. t \in Seq(Units)
      BY <3>4
    <3>10. Comes(h \o t) /\ Len(h) = Need
      BY <2>2, <2>4, <3>4, <3>7
    <3>11. /\ First(buf, Need) = h /\ \A j \in 1 .. Need : buf[j] = h[j]
           /\ OfCall' /\ Due(t)' => Conversation'
      BY <1>1, <1>2, <3>8, <3>9, <3>10, ReadOnward
    <3>12. buf[1] = DentId /\ buf[DentLen] = Num(1)
      BY <2>4, <3>7, <3>11
    <3>13. First(buf, DentLen - 1) = First(h, DentLen - 1)
      <4>1. Len(buf) >= DentLen
        BY <1>1, <2>4, GotIt
      <4>2. DentLen - 1 \in 0 .. Len(buf) /\ DentLen - 1 \in 0 .. Len(h)
            /\ buf \in Seq(Units)
        BY <2>1, <3>7, <4>1 DEF Typed
      <4>3. buf \in Seq(Units)
        BY <4>2
      <4>4. PICK a, b : a = First(buf, DentLen - 1) /\ b = First(h, DentLen - 1)
        OBVIOUS
      <4>5. a \in Seq(Units)
        BY <4>2, <4>3, <4>4, FirstRest
      <4>6. b \in Seq(Units)
        BY <3>8, <4>2, <4>4, FirstRest
      <4>7. Len(a) = DentLen - 1 /\ \A j \in 1 .. DentLen - 1 : a[j] = buf[j]
        BY <4>2, <4>3, <4>4, FirstRest
      <4>8. Len(b) = DentLen - 1 /\ \A j \in 1 .. DentLen - 1 : b[j] = h[j]
        BY <3>8, <4>2, <4>4, FirstRest
      <4>9. \A j \in 1 .. Len(a) : a[j] = b[j]
        BY <2>4, <3>7, <3>11, <4>7, <4>8
      <4>10. a = b
        BY <4>5, <4>6, <4>7, <4>8, <4>9, Same
      <4> QED BY <4>4, <4>10
    <3>14. /\ acc' = Append(acc, Parsed(First(buf, DentLen - 1)))
           /\ n' = Number(buf[DentLen]) /\ pc' = "name"
      BY <3>12, IdsApart DEF ReadEntry, OutOfPlace
    <3>15. acc' = Append(Entries(i), StatOf(fs[p], 0)) /\ n' = 1
      BY <3>1, <3>7, <3>12, <3>13, <3>14, Tokens
    <3>16. OfCall'
      BY <2>1, <2>3, <3>14 DEF OfCall, Reading
    <3>17. Due(t)'
      <4>1. Entries(i)' = Entries(i) /\ Dents(i + 1)' = Dents(i + 1)
            /\ Final("DONE")' = Final("DONE")
        BY <2>1, <2>5 DEF Entries, EntryOf, Dents, DentWords, DentName, Final
      <4>2. acc' = Append(Entries(i)', StatOf(fs'[Present'[i + 1]], 0))
            /\ t = <<Piece(Present'[i + 1])>> \o (Dents(i + 1)' \o Final("DONE")')
        BY <2>1, <2>5, <3>2, <3>3, <3>15, <4>1
      <4>3. i \in 0 .. Len(Present') - 1
        BY <2>5
      <4>4. ListDue(t)'
        BY <3>14, <3>15, <4>2, <4>3 DEF ListDue
      <4> QED BY <3>14, <4>4 DEF Due
    <3>18. AnswerIsTrue'
      BY <3>14, Unanswered
    <3> QED BY <3>11, <3>16, <3>17, <3>18
  <2>8. \/ w = Final("FAIL") /\ acc = <<>>
        \/ w = Final("DONE") /\ acc = Listing
        \/ \E i \in 0 .. Len(Present) - 1 :
              /\ acc = Entries(i)
              /\ w = DentWords(Present[i + 1]) \o Dents(i + 1) \o Final("DONE")
    BY <2>1, <2>3, EntryDue
  <2> QED BY <2>6, <2>7, <2>8
<1>3. pc' \in Reading \cup {"return"}
  BY <1>1 DEF Reading
<1> QED BY <1>1, <1>2, <1>3, ReadKeeps

LEMMA ReadNameTalk ==
    ASSUME TalkInv, ReadName, UNCHANGED <<shellVars, deviceVars>>
    PROVE  Talking'
<1>1. Got("name") /\ "name" \in Reading /\ pc' = "entry" /\ acc' = Append(acc, buf[1])
  BY DEF ReadName, Reading
<1>2. ASSUME Steady PROVE AnswerIsTrue' /\ Conversation'
  <2>1. /\ pc = "name" /\ Typed /\ OfCall /\ FilesTyped
        /\ UNCHANGED <<fs, feats, call, clean, source>>
    BY <1>1, <1>2, GotIt
  <2>2. PICK w \in Seq(Units) : Due(w) /\ Comes(w)
    BY <1>1, <1>2, GotIt
  <2>3. ListDue(w) /\ call.op = "list"
    BY <2>1, <2>2 DEF Due, OfCall
  <2>4. PICK i \in 0 .. Len(Present) - 1 :
             /\ acc = Append(Entries(i), StatOf(fs[Present[i + 1]], 0))
             /\ w = <<Piece(Present[i + 1])>> \o (Dents(i + 1) \o Final("DONE"))
    BY <2>1, <2>3 DEF ListDue
  <2>5. n = 1 /\ Need = 1
    BY <2>1, <2>3 DEF ListDue, Need
  <2>6. PICK p : p = Present[i + 1]
    OBVIOUS
  <2>7. PICK h, t : h = <<Piece(p)>> /\ t = Dents(i + 1) \o Final("DONE")
    OBVIOUS
  <2>8. h \in Seq(Units)
    BY <2>1, <2>6, <2>7, EntrySplit
  <2>9. t \in Seq(Units)
    BY <2>1, <2>6, <2>7, EntrySplit
  <2>10. Len(h) = 1 /\ h[1] = Piece(p)
    BY <2>7
  <2>11. Comes(h \o t) /\ Len(h) = Need
    BY <2>2, <2>4, <2>5, <2>6, <2>7, <2>10
  <2>12. /\ \A j \in 1 .. Need : buf[j] = h[j]
         /\ OfCall' /\ Due(t)' => Conversation'
    BY <1>1, <1>2, <2>8, <2>9, <2>11, ReadOnward
  <2>13. acc' = Append(Append(Entries(i), StatOf(fs[Present[i + 1]], 0)), Piece(Present[i + 1]))
    BY <1>1, <2>4, <2>5, <2>6, <2>10, <2>12
  <2>14. i \in 0 .. Len(Present) /\ i < Len(Present) /\ i + 1 \in 0 .. Len(Present)
    BY PresentIs
  <2>15. acc' = Entries(i + 1)
    BY <2>13, <2>14, EntriesStep
  <2>16. OfCall'
    BY <1>1, <2>1, <2>3 DEF OfCall, Reading
  <2>17. Due(t)'
    <3>1. Present' = Present
      BY <2>1 DEF Present
    <3>2. Entries(i + 1)' = Entries(i + 1) /\ Dents(i + 1)' = Dents(i + 1)
          /\ Final("DONE")' = Final("DONE")
      BY <2>1, <3>1 DEF Entries, EntryOf, Dents, DentWords, DentName, Final
    <3>3. ListDue(t)'
      BY <1>1, <2>7, <2>14, <2>15, <3>1, <3>2 DEF ListDue
    <3> QED BY <1>1, <3>3 DEF Due
  <2>18. AnswerIsTrue'
    BY <1>1, Unanswered
  <2> QED BY <2>12, <2>16, <2>17, <2>18
<1>3. pc' \in Reading \cup {"return"}
  BY <1>1 DEF Reading
<1> QED BY <1>1, <1>2, <1>3, ReadKeeps

LEMMA Singles ==
    ASSUME NEW x \in Ids \ {"OKAY"}
    PROVE  /\ Id(x) \in Units /\ <<Id(x)>> \in Seq(Units)
           /\ Len(<<Id(x)>>) = 1 /\ <<Id(x)>>[1] = Id(x)
  BY Tokens, OneWord

LEMMA Tails ==
    /\ <<Num(0)>> \in Seq(Units) /\ Len(<<Num(0)>>) = 1
    /\ <<Id("OKAY")>> \in Seq(Units) /\ Len(<<Id("OKAY")>>) = 1 /\ <<Id("OKAY")>>[1] = Id("OKAY")
    /\ <<Id("FAIL")>> \in Seq(Units) /\ Len(<<Id("FAIL")>>) = 1 /\ <<Id("FAIL")>>[1] = Id("FAIL")
    /\ <<Num(1)>> \in Seq(Units) /\ Len(<<Num(1)>>) = 1 /\ <<Num(1)>>[1] = Num(1)
    /\ <<FailText>> \in Seq(Units) /\ Len(<<FailText>>) = 1
    /\ <<Num(1), FailText>> \in Seq(Units)
    /\ <<Num(1), FailText>> = <<Num(1)>> \o <<FailText>>
    /\ Done0 = <<Id("DONE")>> \o <<Num(0)>> /\ Done0 \in Seq(Units)
    /\ <<Id("OKAY"), Num(0)>> = <<Id("OKAY")>> \o <<Num(0)>>
    /\ <<Id("OKAY"), Num(0)>> \in Seq(Units)
    /\ Failed = <<Id("FAIL")>> \o <<Num(1), FailText>> /\ Failed \in Seq(Units)
<1>1. /\ Num(0) \in Units /\ Num(1) \in Units /\ FailText \in Units
      /\ Id("OKAY") \in Units /\ Id("FAIL") \in Units /\ Id("DONE") \in Units
  BY Tokens DEF Ids, FailText
<1>2. PICK a, b, c, d, e : /\ a = Id("FAIL") /\ b = Num(1) /\ c = FailText
                           /\ d = Id("OKAY") /\ e = Num(0)
  OBVIOUS
<1>3. a \in Units /\ b \in Units /\ c \in Units /\ d \in Units /\ e \in Units
  BY <1>1, <1>2
<1>4. PICK x, y, f : x = <<a>> /\ y = <<b, c>> /\ f = <<a, b, c>>
  OBVIOUS
<1>5. x \in Seq(Units)
  BY <1>3, <1>4
<1>6. y \in Seq(Units)
  BY <1>3, <1>4
<1>7. f \in Seq(Units)
  BY <1>3, <1>4
<1>8. Len(f) = 3 /\ f[1] = a /\ f[2] = b /\ f[3] = c
  BY <1>4
<1>9. Len(x) = 1 /\ x[1] = a /\ Len(y) = 2 /\ y[1] = b /\ y[2] = c
  BY <1>4
<1>10. /\ x \o y \in Seq(Units) /\ Len(x \o y) = Len(x) + Len(y)
       /\ \A j \in 1 .. Len(x) : (x \o y)[j] = x[j]
       /\ \A j \in 1 .. Len(y) : (x \o y)[Len(x) + j] = y[j]
  BY <1>5, <1>6, Put
<1>11. PICK v : v = x \o y
  OBVIOUS
<1>12. v \in Seq(Units)
  BY <1>10, <1>11
<1>13. Len(v) = 3 /\ v[1] = a
  BY <1>9, <1>10, <1>11
<1>14. v[2] = b /\ v[3] = c
  <2>1. 1 \in 1 .. 2 /\ 2 \in 1 .. 2 /\ 1 + 1 = 2 /\ 1 + 2 = 3
    OBVIOUS
  <2> QED BY <2>1, <1>9, <1>10, <1>11
<1>15. f = v
  BY <1>7, <1>8, <1>12, <1>13, <1>14, Same
<1>16. Failed = <<Id("FAIL")>> \o <<Num(1), FailText>> /\ Failed \in Seq(Units)
  BY <1>2, <1>4, <1>7, <1>11, <1>15 DEF Failed
<1>17. <<Num(1), FailText>> = <<Num(1)>> \o <<FailText>>
  BY <1>1, Pair
<1>18. <<Id("OKAY"), Num(0)>> = <<Id("OKAY")>> \o <<Num(0)>>
  BY <1>1, Pair
<1>19. Done0 = <<Id("DONE")>> \o <<Num(0)>>
  BY <1>1, Pair DEF Done0
<1>20. /\ <<Num(0)>> \in Seq(Units) /\ <<Num(1)>> \in Seq(Units) /\ <<FailText>> \in Seq(Units)
       /\ <<Id("OKAY")>> \in Seq(Units) /\ <<Id("FAIL")>> \in Seq(Units)
  BY <1>1, OneWord
<1>21. /\ Done0 \in Seq(Units) /\ <<Id("OKAY"), Num(0)>> \in Seq(Units)
       /\ <<Num(1), FailText>> \in Seq(Units)
  BY <1>1 DEF Done0
<1>22. /\ Len(<<Num(0)>>) = 1 /\ Len(<<FailText>>) = 1
       /\ Len(<<Id("OKAY")>>) = 1 /\ <<Id("OKAY")>>[1] = Id("OKAY")
       /\ Len(<<Id("FAIL")>>) = 1 /\ <<Id("FAIL")>>[1] = Id("FAIL")
       /\ Len(<<Num(1)>>) = 1 /\ <<Num(1)>>[1] = Num(1)
  OBVIOUS
<1> QED BY <1>16, <1>17, <1>18, <1>19, <1>20, <1>21, <1>22

(* The chunks that follow, and DONE. *)
ChunkLen(l, max) == Least2(max, Len(l))
AfterOf(l, max) == DataOf(Rest(l, ChunkLen(l, max)), max) \o Done0
NextOf(l, max) == <<Num(ChunkLen(l, max))>> \o (First(l, ChunkLen(l, max)) \o AfterOf(l, max))

LEMMA ChunkWords ==
    ASSUME NEW l \in Seq(Stuff), NEW max \in Nat \ {0}, l # <<>>
    PROVE  /\ ChunkLen(l, max) \in 1 .. Len(l) /\ Num(ChunkLen(l, max)) \in Units
           /\ First(l, ChunkLen(l, max)) \in Seq(Units)
           /\ Len(First(l, ChunkLen(l, max))) = ChunkLen(l, max)
           /\ AfterOf(l, max) \in Seq(Units)
           /\ First(l, ChunkLen(l, max)) \o AfterOf(l, max) \in Seq(Units)
           /\ NextOf(l, max) \in Seq(Units)
           /\ DataOf(l, max) \o Done0 = <<Id("DATA")>> \o NextOf(l, max)
<1>0. PICK k, after, t : /\ k = ChunkLen(l, max) /\ after = AfterOf(l, max) /\ t = NextOf(l, max)
  OBVIOUS
<1>1. /\ k \in 1 .. Len(l) /\ First(l, k) \in Seq(Stuff) /\ Rest(l, k) \in Seq(Stuff)
      /\ DataOf(l, max) = DataWords(First(l, k)) \o DataOf(Rest(l, k), max)
  BY <1>0, DataStep DEF ChunkLen
<1>2. Num(k) \in Units /\ k \in 0 .. Len(l)
  <2>1. k \in Nat /\ k \in 0 .. Len(l)
    BY <1>1
  <2> QED BY <2>1, Tokens
<1>3. Len(First(l, k)) = k
  BY <1>2, FirstRest
<1>4. PICK c, r : c = First(l, k) /\ r = DataOf(Rest(l, k), max)
  OBVIOUS
<1>5. c \in Seq(Units) /\ Len(c) = k
  BY <1>1, <1>3, <1>4, StuffIsUnits
<1>6. c \in Seq(Units)
  BY <1>5
<1>7. r \in Seq(Units)
  BY <1>1, <1>4, DataTyped
<1>8. PICK x, y, z : x = <<Id("DATA")>> /\ y = <<Num(k)>> /\ z = Done0
  OBVIOUS
<1>9. x \in Seq(Units)
  BY <1>8, Singles DEF Ids
<1>10. y \in Seq(Units)
  BY <1>2, <1>8, OneWord
<1>11. z \in Seq(Units)
  BY <1>8, Tails
<1>12. after = r \o z
  BY <1>0, <1>4, <1>8 DEF AfterOf
<1>13. r \o z \in Seq(Units)
  BY <1>7, <1>11
<1>14. after \in Seq(Units)
  BY <1>12, <1>13
<1>15. c \o after \in Seq(Units)
  BY <1>6, <1>14
<1>16. y \o (c \o after) \in Seq(Units)
  BY <1>10, <1>15
<1>17. y \o c \in Seq(Units) /\ DataWords(c) = x \o (y \o c)
  BY <1>5, <1>6, <1>8, DataWordsAre
<1>18. PICK v \in Seq(Units) : v = y \o c
  BY <1>17
<1>19. PICK u \in Seq(Units) : u = x \o v
  <2>1. x \o v \in Seq(Units)
    BY <1>9
  <2> QED BY <2>1
<1>20. DataOf(l, max) = u \o r
  BY <1>1, <1>4, <1>17, <1>18, <1>19
<1>21. (u \o r) \o z = u \o (r \o z)
  BY <1>7, <1>11, UnitsAssoc, Zenon
<1>22. (x \o v) \o after = x \o (v \o after)
  BY <1>9, <1>14, UnitsAssoc, Zenon
<1>23. (y \o c) \o after = y \o (c \o after)
  BY <1>6, <1>10, <1>14, UnitsAssoc, Zenon
<1>24. (u \o r) \o z = x \o (y \o (c \o after))
  BY <1>12, <1>18, <1>19, <1>21, <1>22, <1>23
<1>25. DataOf(l, max) \o Done0 = x \o (y \o (c \o after))
  BY <1>8, <1>20, <1>24
<1>26. First(l, k) \in Seq(Stuff)
  BY <1>1
<1>27. t = y \o (c \o after)
  BY <1>0, <1>4, <1>8 DEF NextOf
<1> QED BY <1>0, <1>1, <1>2, <1>4, <1>5, <1>8, <1>14, <1>15, <1>16, <1>25, <1>26, <1>27

LEMMA PullEmpty == ASSUME NEW max \in Nat \ {0} PROVE DataOf(<<>>, max) \o Done0 = Done0
<1>1. DataOf(<<>>, max) = <<>>
  BY DataNone
<1>2. <<>> \o Done0 = Done0
  BY Tails, CatEmpty
<1> QED BY <1>1, <1>2

LEMMA PullWhole ==
    ASSUME NEW l \in Seq(Stuff), NEW max \in Nat \ {0}
    PROVE  DataOf(l, max) \in Seq(Units) /\ DataOf(l, max) \o Done0 \in Seq(Units)
<1>1. DataOf(l, max) \in Seq(Units)
  BY DataTyped
<1>2. DataOf(l, max) \o Done0 \in Seq(Units)
  BY <1>1, Tails
<1> QED BY <1>1, <1>2

LEMMA BodyIs ==
    ASSUME FilesTyped, call \in SyncCalls, call.op = "pull", Len(acc) \in 0 .. Len(Body)
    PROVE  /\ Body \in Seq(Stuff) /\ Left \in Seq(Stuff) /\ Len(Body) \in Nat
           /\ Len(Left) = Len(Body) - Len(acc)
<1>1. Body \in Seq(Stuff)
  BY CallPath DEF Body, Meta
<1>2. Left \in Seq(Stuff) /\ Len(Left) = Len(Body) - Len(acc)
  BY <1>1, FirstRest DEF Left
<1> QED BY <1>1, <1>2

(* A part and the next part of a sequence. *)
LEMMA PartsJoin ==
    ASSUME NEW b \in Seq(Stuff), NEW i \in 0 .. Len(b), NEW k \in Nat, i + k <= Len(b)
    PROVE  /\ First(b, i) \o First(Rest(b, i), k) = First(b, i + k)
           /\ Rest(Rest(b, i), k) = Rest(b, i + k)
<1>1. Len(b) \in Nat /\ i \in Nat /\ i + k \in 0 .. Len(b)
  OBVIOUS
<1>2. PICK r : r = Rest(b, i)
  OBVIOUS
<1>3. r \in Seq(Stuff)
  BY <1>2, FirstRest
<1>4. Len(r) = Len(b) - i /\ \A j \in 1 .. Len(b) - i : r[j] = b[i + j]
  BY <1>2, FirstRest
<1>5. k \in 0 .. Len(r)
  BY <1>1, <1>4
<1>6. PICK f, g, w, v, u : /\ f = First(b, i) /\ g = First(r, k) /\ w = First(b, i + k)
                           /\ v = Rest(r, k) /\ u = Rest(b, i + k)
  OBVIOUS
<1>7. f \in Seq(Stuff)
  BY <1>6, FirstRest
<1>8. Len(f) = i /\ \A j \in 1 .. i : f[j] = b[j]
  BY <1>6, FirstRest
<1>9. g \in Seq(Stuff)
  BY <1>3, <1>5, <1>6, FirstRest
<1>10. Len(g) = k /\ \A j \in 1 .. k : g[j] = r[j]
  BY <1>3, <1>5, <1>6, FirstRest
<1>11. w \in Seq(Stuff)
  BY <1>1, <1>6, FirstRest
<1>12. Len(w) = i + k /\ \A j \in 1 .. i + k : w[j] = b[j]
  BY <1>1, <1>6, FirstRest
<1>13. v \in Seq(Stuff)
  BY <1>3, <1>5, <1>6, FirstRest
<1>14. Len(v) = Len(r) - k /\ \A j \in 1 .. Len(r) - k : v[j] = r[k + j]
  BY <1>3, <1>5, <1>6, FirstRest
<1>15. u \in Seq(Stuff)
  BY <1>1, <1>6, FirstRest
<1>16. Len(u) = Len(b) - (i + k) /\ \A j \in 1 .. Len(b) - (i + k) : u[j] = b[(i + k) + j]
  BY <1>1, <1>6, FirstRest
<1>17. /\ f \o g \in Seq(Stuff) /\ Len(f \o g) = Len(f) + Len(g)
       /\ \A j \in 1 .. Len(f) : (f \o g)[j] = f[j]
       /\ \A j \in 1 .. Len(g) : (f \o g)[Len(f) + j] = g[j]
  BY <1>7, <1>9, Put
<1>18. PICK c \in Seq(Stuff) : c = f \o g
  BY <1>17
<1>19. Len(c) = i + k
  BY <1>8, <1>10, <1>17, <1>18
<1>20. ASSUME NEW j \in 1 .. i + k PROVE c[j] = w[j]
  <2>1. CASE j <= i
    <3>1. j \in 1 .. i
      BY <1>1, <2>1
    <3> QED BY <1>8, <1>12, <1>17, <1>18, <3>1
  <2>2. CASE j > i
    <3>1. PICK m \in 1 .. k : j = i + m
      <4>1. j - i \in 1 .. k /\ j = i + (j - i)
        BY <1>1, <2>2
      <4> QED BY <4>1
    <3>2. m \in 1 .. Len(b) - i
      BY <1>1, <3>1
    <3>3. c[j] = g[m]
      BY <1>8, <1>10, <1>17, <1>18, <3>1
    <3> QED BY <1>4, <1>10, <1>12, <3>1, <3>2, <3>3
  <2> QED BY <1>1, <2>1, <2>2
<1>21. c = w
  BY <1>11, <1>12, <1>19, <1>20, Same
<1>22. ASSUME NEW j \in 1 .. Len(b) - (i + k) PROVE v[j] = u[j]
  <2>1. /\ j \in 1 .. Len(r) - k /\ k + j \in 1 .. Len(b) - i
        /\ i + (k + j) = (i + k) + j
    BY <1>1, <1>4
  <2> QED BY <1>4, <1>14, <1>16, <2>1
<1>23. Len(v) = Len(u)
  BY <1>1, <1>4, <1>14, <1>16
<1>24. v = u
  BY <1>13, <1>15, <1>16, <1>22, <1>23, Same
<1> QED BY <1>2, <1>6, <1>18, <1>21, <1>24

LEMMA ReadChunkTalk ==
    ASSUME TalkInv, ReadChunk, UNCHANGED <<shellVars, deviceVars>>
    PROVE  Talking'
<1>1. Got("chunk") /\ "chunk" \in Reading /\ pc' \in {"len", "end", "fail_len", "return"}
  BY DEF ReadChunk, Reading, OutOfPlace, Returns, WaitsFor
<1>2. ASSUME Steady PROVE AnswerIsTrue' /\ Conversation'
  <2>1. /\ pc = "chunk" /\ Typed /\ OfCall /\ FilesTyped
        /\ UNCHANGED <<fs, feats, call, clean, source>>
    BY <1>1, <1>2, GotIt
  <2>2. PICK w \in Seq(Units) : Due(w) /\ Comes(w)
    BY <1>1, <1>2, GotIt
  <2>3. call.op = "pull" /\ call \in SyncCalls /\ Need = 1
    BY <2>1 DEF OfCall, Typed, Need
  <2>4. ASSUME NEW x \in {"DATA", "DONE", "FAIL"}, NEW t \in Seq(Units), w = <<Id(x)>> \o t
        PROVE  /\ buf[1] = Id(x) /\ (OfCall' /\ Due(t)' => Conversation')
    <3>1. PICK h : h = <<Id(x)>>
      OBVIOUS
    <3>2. h \in Seq(Units)
      BY <3>1, Singles DEF Ids
    <3>3. Len(h) = 1 /\ h[1] = Id(x)
      BY <3>1
    <3>4. Comes(h \o t) /\ Len(h) = Need
      BY <2>2, <2>3, <2>4, <3>1, <3>3
    <3>5. /\ \A j \in 1 .. Need : buf[j] = h[j]
          /\ OfCall' /\ Due(t)' => Conversation'
      BY <1>1, <1>2, <3>2, <3>4, ReadOnward
    <3> QED BY <2>3, <3>3, <3>5
  <2>5. OfCall'
    BY <1>1, <2>1, <2>3 DEF OfCall, Reading
  <2>6. CASE w = Failed /\ Refused
    <3>1. w = <<Id("FAIL")>> \o <<Num(1), FailText>> /\ <<Num(1), FailText>> \in Seq(Units)
      BY <2>6, Tails
    <3>2. buf[1] = Id("FAIL") /\ (OfCall' /\ Due(<<Num(1), FailText>>)' => Conversation')
      BY <2>4, <3>1
    <3>3. pc' = "fail_len"
      BY <3>2, IdsApart DEF ReadChunk, OutOfPlace, WaitsFor
    <3>4. Due(<<Num(1), FailText>>)'
      BY <2>1, <2>6, <3>3 DEF Due, Refused
    <3>5. AnswerIsTrue'
      BY <3>3, Unanswered
    <3> QED BY <2>5, <3>2, <3>4, <3>5
  <2>7. CASE PullDue(w)
    <3>1. PICK max \in DevMaxes : w = DataOf(Left, max) \o Done0
      BY <2>1, <2>7 DEF PullDue
    <3>2. max \in Nat \ {0}
      BY SyncAssumption
    <3>3. Exists(fs[call.path]) /\ Len(acc) \in 0 .. Len(Body) /\ acc = First(Body, Len(acc))
      BY <2>7 DEF PullDue
    <3>4. /\ Body \in Seq(Stuff) /\ Left \in Seq(Stuff) /\ Len(Body) \in Nat
          /\ Len(Left) = Len(Body) - Len(acc)
      BY <2>1, <2>3, <3>3, BodyIs
    <3>5. UNCHANGED Body
      BY <2>1 DEF Body
    <3>6. CASE Left = <<>>
      <4>1. w = Done0
        BY <3>1, <3>2, <3>6, PullEmpty
      <4>2. w = <<Id("DONE")>> \o <<Num(0)>> /\ <<Num(0)>> \in Seq(Units)
        BY <4>1, Tails
      <4>3. buf[1] = Id("DONE") /\ (OfCall' /\ Due(<<Num(0)>>)' => Conversation')
        BY <2>4, <4>2
      <4>4. pc' = "end" /\ acc' = acc
        BY <4>3, IdsApart DEF ReadChunk, OutOfPlace, WaitsFor
      <4>5. acc = Body
        <5>1. Len(Left) = 0
          BY <3>6
        <5>2. Len(acc) = Len(Body)
          BY <3>3, <3>4, <5>1
        <5>3. First(Body, Len(Body)) = Body
          BY <3>4, StuffIsUnits, FirstAll
        <5> QED BY <3>3, <5>2, <5>3
      <4>6. Complete'
        BY <2>1, <2>3, <3>3, <3>5, <4>4, <4>5 DEF Complete
      <4>7. Due(<<Num(0)>>)'
        BY <4>4, <4>6 DEF Due
      <4>8. AnswerIsTrue'
        BY <4>4, Unanswered
      <4> QED BY <2>5, <4>3, <4>7, <4>8
    <3>7. CASE Left # <<>>
      <4>1. PICK t : t = <<Num(Size(max))>> \o (First(Left, Size(max)) \o After(max))
        OBVIOUS
      <4>2. t \in Seq(Units) /\ w = <<Id("DATA")>> \o t
        <5>1. Left \in Seq(Stuff) /\ Left # <<>> /\ max \in Nat \ {0}
          BY <3>2, <3>4, <3>7
        <5>2. t = NextOf(Left, max)
          BY <4>1 DEF NextOf, AfterOf, Size, After, ChunkLen
        <5>3. /\ NextOf(Left, max) \in Seq(Units)
              /\ DataOf(Left, max) \o Done0 = <<Id("DATA")>> \o NextOf(Left, max)
          BY <5>1, ChunkWords
        <5> QED BY <3>1, <5>2, <5>3
      <4>3. buf[1] = Id("DATA") /\ (OfCall' /\ Due(t)' => Conversation')
        BY <2>4, <4>2
      <4>4. pc' = "len" /\ UNCHANGED <<acc, n>>
        BY <4>3, IdsApart DEF ReadChunk, OutOfPlace, WaitsFor
      <4>5. UNCHANGED <<Left, Size(max), After(max)>>
        BY <3>5, <4>4 DEF Left, Size, After
      <4>6. PullDue(t)'
        BY <2>1, <3>3, <3>5, <3>7, <4>1, <4>4, <4>5 DEF PullDue
      <4>7. Due(t)'
        BY <4>4, <4>6 DEF Due
      <4>8. AnswerIsTrue'
        BY <4>4, Unanswered
      <4> QED BY <2>5, <4>3, <4>7, <4>8
    <3> QED BY <3>6, <3>7
  <2> QED BY <2>1, <2>2, <2>6, <2>7 DEF Due
<1>3. pc' \in Reading \cup {"return"}
  BY <1>1 DEF Reading
<1> QED BY <1>1, <1>2, <1>3, ReadKeeps

LEMMA ReadLenTalk ==
    ASSUME TalkInv, ReadLen, UNCHANGED <<shellVars, deviceVars>>
    PROVE  Talking'
<1>1. /\ Got("len") /\ "len" \in Reading /\ n' = Number(buf[1]) /\ acc' = acc
      /\ \/ pc' = "body" /\ n' <= DataMax
         \/ pc' = "return" /\ res' = "protocol" /\ n' > DataMax
  BY DEF ReadLen, Reading
<1>2. ASSUME Steady PROVE AnswerIsTrue' /\ Conversation'
  <2>1. /\ pc = "len" /\ Typed /\ OfCall /\ FilesTyped
        /\ UNCHANGED <<fs, feats, call, clean, source>>
    BY <1>1, <1>2, GotIt
  <2>2. PICK w \in Seq(Units) : Due(w) /\ Comes(w)
    BY <1>1, <1>2, GotIt
  <2>3. call.op = "pull" /\ call \in SyncCalls /\ Need = 1
    BY <2>1 DEF OfCall, Typed, Need
  <2>4. PullDue(w)
    BY <2>1, <2>2 DEF Due
  <2>5. PICK max \in DevMaxes :
            Left # <<>> /\ w = <<Num(Size(max))>> \o (First(Left, Size(max)) \o After(max))
    BY <2>1, <2>4 DEF PullDue
  <2>6. max \in Nat \ {0}
    BY SyncAssumption
  <2>7. Exists(fs[call.path]) /\ Len(acc) \in 0 .. Len(Body) /\ acc = First(Body, Len(acc))
    BY <2>4 DEF PullDue
  <2>8. Left \in Seq(Stuff)
    BY <2>1, <2>3, <2>7, BodyIs
  <2>9. PICK k, h, t : k = Size(max) /\ h = <<Num(k)>> /\ t = First(Left, k) \o After(max)
    OBVIOUS
  <2>10. Num(k) \in Units /\ t \in Seq(Units)
    <3>1. k = ChunkLen(Left, max) /\ After(max) = AfterOf(Left, max)
      BY <2>9 DEF Size, After, ChunkLen, AfterOf
    <3>2. /\ Num(ChunkLen(Left, max)) \in Units
          /\ First(Left, ChunkLen(Left, max)) \o AfterOf(Left, max) \in Seq(Units)
      BY <2>5, <2>6, <2>8, ChunkWords
    <3> QED BY <2>9, <3>1, <3>2
  <2>11. h \in Seq(Units)
    BY <2>9, <2>10, OneWord
  <2>12. t \in Seq(Units)
    BY <2>10
  <2>13. Len(h) = 1 /\ h[1] = Num(k)
    BY <2>9
  <2>14. Comes(h \o t) /\ Len(h) = Need
    BY <2>2, <2>3, <2>5, <2>9, <2>13
  <2>15. /\ \A j \in 1 .. Need : buf[j] = h[j]
         /\ OfCall' /\ Due(t)' => Conversation'
    BY <1>1, <1>2, <2>11, <2>12, <2>14, ReadOnward
  <2>16. n' = k
    <3>1. buf[1] = Num(k)
      BY <2>3, <2>13, <2>15
    <3>2. Number(Num(k)) = k
      BY Tokens
    <3> QED BY <1>1, <3>1, <3>2
  <2>17. CASE pc' = "body"
    <3>1. OfCall'
      BY <2>1, <2>3, <2>17 DEF OfCall, Reading
    <3>2. UNCHANGED <<Body, Left, Size(max), After(max)>>
      BY <1>1, <2>1 DEF Body, Left, Size, After
    <3>3. PullDue(t)'
      BY <1>1, <2>1, <2>5, <2>7, <2>9, <2>16, <2>17, <3>2 DEF PullDue
    <3>4. Due(t)'
      BY <2>17, <3>3 DEF Due
    <3>5. AnswerIsTrue'
      BY <2>17, Unanswered
    <3> QED BY <2>15, <3>1, <3>4, <3>5
  <2>18. CASE pc' = "return" /\ res' = "protocol" /\ n' > DataMax
    <3>1. ~Steady'
      BY <2>18 DEF Steady
    <3>2. AnswerIsTrue'
      BY <2>1, <2>3, <2>18 DEF AnswerIsTrue, Returned
    <3> QED BY <3>1, <3>2 DEF Conversation
  <2> QED BY <1>1, <2>17, <2>18
<1>3. pc' \in Reading \cup {"return"}
  BY <1>1 DEF Reading
<1> QED BY <1>1, <1>2, <1>3, ReadKeeps

LEMMA ReadBodyTalk ==
    ASSUME TalkInv, ReadBody, UNCHANGED <<shellVars, deviceVars>>
    PROVE  Talking'
<1>1. Got("body") /\ "body" \in Reading /\ pc' = "chunk" /\ acc' = acc \o First(buf, n)
  BY DEF ReadBody, Reading
<1>2. ASSUME Steady PROVE AnswerIsTrue' /\ Conversation'
  <2>1. /\ pc = "body" /\ Typed /\ OfCall /\ FilesTyped
        /\ UNCHANGED <<fs, feats, call, clean, source>>
    BY <1>1, <1>2, GotIt
  <2>2. PICK w \in Seq(Units) : Due(w) /\ Comes(w)
    BY <1>1, <1>2, GotIt
  <2>3. call.op = "pull" /\ call \in SyncCalls /\ Need = n
    BY <2>1 DEF OfCall, Typed, Need
  <2>4. PullDue(w)
    BY <2>1, <2>2 DEF Due
  <2>5. PICK max \in DevMaxes :
            Left # <<>> /\ n = Size(max) /\ w = First(Left, Size(max)) \o After(max)
    BY <2>1, <2>4 DEF PullDue
  <2>6. max \in Nat \ {0}
    BY SyncAssumption
  <2>7. Exists(fs[call.path]) /\ Len(acc) \in 0 .. Len(Body) /\ acc = First(Body, Len(acc))
    BY <2>4 DEF PullDue
  <2>8. /\ Body \in Seq(Stuff) /\ Left \in Seq(Stuff) /\ Len(Body) \in Nat
        /\ Len(Left) = Len(Body) - Len(acc)
    BY <2>1, <2>3, <2>7, BodyIs
  <2>9. PICK h, t : h = First(Left, n) /\ t = After(max)
    OBVIOUS
  <2>10. n \in 1 .. Len(Left) /\ h \in Seq(Units) /\ Len(h) = n /\ t \in Seq(Units)
    <3>1. n = ChunkLen(Left, max) /\ After(max) = AfterOf(Left, max)
      BY <2>5 DEF Size, After, ChunkLen, AfterOf
    <3>2. /\ ChunkLen(Left, max) \in 1 .. Len(Left)
          /\ First(Left, ChunkLen(Left, max)) \in Seq(Units)
          /\ Len(First(Left, ChunkLen(Left, max))) = ChunkLen(Left, max)
          /\ AfterOf(Left, max) \in Seq(Units)
      BY <2>5, <2>6, <2>8, ChunkWords
    <3> QED BY <2>9, <3>1, <3>2
  <2>11. h \in Seq(Units)
    BY <2>10
  <2>12. t \in Seq(Units)
    BY <2>10
  <2>13. Comes(h \o t) /\ Len(h) = Need
    BY <2>2, <2>3, <2>5, <2>9, <2>10
  <2>14. /\ First(buf, Need) = h
         /\ OfCall' /\ Due(t)' => Conversation'
    BY <1>1, <1>2, <2>11, <2>12, <2>13, ReadOnward
  <2>15. PICK i : i = Len(acc)
    OBVIOUS
  <2>16. i \in 0 .. Len(Body) /\ n \in Nat /\ i + n <= Len(Body) /\ i + n \in 0 .. Len(Body)
    BY <2>7, <2>8, <2>10, <2>15
  <2>17. /\ First(Body, i) \o First(Rest(Body, i), n) = First(Body, i + n)
         /\ Rest(Rest(Body, i), n) = Rest(Body, i + n)
    <3>1. Body \in Seq(Stuff)
      BY <2>8
    <3> QED BY <2>16, <3>1, PartsJoin
  <2>18. acc' = First(Body, i + n) /\ Rest(Left, n) = Rest(Body, i + n)
    BY <1>1, <2>3, <2>7, <2>9, <2>14, <2>15, <2>17 DEF Left
  <2>19. Len(acc') = i + n
    BY <2>8, <2>16, <2>18, FirstRest
  <2>20. Body' = Body
    BY <2>1 DEF Body
  <2>21. Left' = Rest(Left, n)
    BY <2>18, <2>19, <2>20 DEF Left
  <2>22. t = DataOf(Left', max) \o Done0
    BY <2>5, <2>9, <2>21 DEF After
  <2>23. OfCall'
    BY <1>1, <2>1, <2>3 DEF OfCall, Reading
  <2>24. PullDue(t)'
    <3>1. Exists(fs'[call'.path]) /\ Len(acc') \in 0 .. Len(Body') /\ acc' = First(Body', Len(acc'))
      BY <2>1, <2>7, <2>16, <2>18, <2>19, <2>20
    <3> QED BY <1>1, <2>22, <3>1 DEF PullDue
  <2>25. Due(t)'
    BY <1>1, <2>24 DEF Due
  <2>26. AnswerIsTrue'
    BY <1>1, Unanswered
  <2> QED BY <2>14, <2>23, <2>25, <2>26
<1>3. pc' \in Reading \cup {"return"}
  BY <1>1 DEF Reading
<1> QED BY <1>1, <1>2, <1>3, ReadKeeps

LEMMA ReadStatusTalk ==
    ASSUME TalkInv, ReadStatus, UNCHANGED <<shellVars, deviceVars>>
    PROVE  Talking'
<1>1. Got("status") /\ "status" \in Reading /\ pc' \in {"end", "fail_len", "return"}
  BY DEF ReadStatus, Reading, OutOfPlace, Returns, WaitsFor
<1>2. ASSUME Steady PROVE AnswerIsTrue' /\ Conversation'
  <2>1. /\ pc = "status" /\ Typed /\ OfCall /\ FilesTyped
        /\ UNCHANGED <<fs, feats, call, clean, source>>
    BY <1>1, <1>2, GotIt
  <2>2. PICK w \in Seq(Units) : Due(w) /\ Comes(w)
    BY <1>1, <1>2, GotIt
  <2>3. call.op = "push" /\ Need = 1
    BY <2>1 DEF OfCall, Need
  <2>4. ASSUME NEW x \in {"OKAY", "FAIL"}, NEW t \in Seq(Units), w = <<Id(x)>> \o t
        PROVE  /\ buf[1] = Id(x) /\ (OfCall' /\ Due(t)' => Conversation')
    <3>1. PICK h : h = <<Id(x)>>
      OBVIOUS
    <3>2. h \in Seq(Units)
      BY <3>1, Tails
    <3>3. Len(h) = 1 /\ h[1] = Id(x)
      BY <3>1
    <3>4. Comes(h \o t) /\ Len(h) = Need
      BY <2>2, <2>3, <2>4, <3>1, <3>3
    <3>5. /\ \A j \in 1 .. Need : buf[j] = h[j]
          /\ OfCall' /\ Due(t)' => Conversation'
      BY <1>1, <1>2, <3>2, <3>4, ReadOnward
    <3> QED BY <2>3, <3>3, <3>5
  <2>5. OfCall'
    BY <1>1, <2>1, <2>3 DEF OfCall, Reading
  <2>6. CASE w = Failed /\ Refused
    <3>1. w = <<Id("FAIL")>> \o <<Num(1), FailText>> /\ <<Num(1), FailText>> \in Seq(Units)
      BY <2>6, Tails
    <3>2. buf[1] = Id("FAIL") /\ (OfCall' /\ Due(<<Num(1), FailText>>)' => Conversation')
      BY <2>4, <3>1
    <3>3. pc' = "fail_len"
      BY <3>2, IdsApart DEF ReadStatus, OutOfPlace, WaitsFor
    <3>4. Due(<<Num(1), FailText>>)'
      BY <2>1, <2>6, <3>3 DEF Due, Refused
    <3>5. AnswerIsTrue'
      BY <3>3, Unanswered
    <3> QED BY <2>5, <3>2, <3>4, <3>5
  <2>7. CASE w = <<Id("OKAY"), Num(0)>> /\ Stored
    <3>1. w = <<Id("OKAY")>> \o <<Num(0)>> /\ <<Num(0)>> \in Seq(Units)
      BY <2>7, Tails
    <3>2. buf[1] = Id("OKAY") /\ (OfCall' /\ Due(<<Num(0)>>)' => Conversation')
      BY <2>4, <3>1
    <3>3. pc' = "end"
      BY <3>2, IdsApart DEF ReadStatus, OutOfPlace, WaitsFor
    <3>4. Complete'
      BY <2>1, <2>3, <2>7 DEF Complete, Stored
    <3>5. Due(<<Num(0)>>)'
      BY <3>3, <3>4 DEF Due
    <3>6. AnswerIsTrue'
      BY <3>3, Unanswered
    <3> QED BY <2>5, <3>2, <3>5, <3>6
  <2> QED BY <2>1, <2>2, <2>6, <2>7 DEF Due
<1>3. pc' \in Reading \cup {"return"}
  BY <1>1 DEF Reading
<1> QED BY <1>1, <1>2, <1>3, ReadKeeps

LEMMA ReadEndTalk ==
    ASSUME TalkInv, ReadEnd, UNCHANGED <<shellVars, deviceVars>>
    PROVE  Talking'
<1>1. Got("end") /\ "end" \in Reading /\ pc' = "return" /\ res' = "ok" /\ acc' = acc
  BY DEF ReadEnd, Reading, Returns
<1>2. ASSUME Steady PROVE AnswerIsTrue' /\ Conversation'
  <2>1. /\ pc = "end" /\ Typed /\ OfCall /\ FilesTyped
        /\ UNCHANGED <<fs, feats, call, clean, source>>
    BY <1>1, <1>2, GotIt
  <2>2. PICK w \in Seq(Units) : Due(w) /\ Comes(w)
    BY <1>1, <1>2, GotIt
  <2>3. call.op \in {"pull", "push"} /\ Need = 1 /\ Complete /\ w = <<Num(0)>>
    BY <2>1, <2>2 DEF OfCall, Need, Due
  <2>4. Comes(w \o <<>>) /\ <<>> \in Seq(Units) /\ Len(w) = Need
    BY <2>2, <2>3, CatEmpty, Tails
  <2>5. OfCall' /\ Due(<<>>)' => Conversation'
    BY <1>1, <1>2, <2>4, ReadOnward
  <2>6. OfCall' /\ Due(<<>>)'
    BY <1>1 DEF OfCall, Due
  <2>7. AnswerIsTrue'
    BY <1>1, <2>1, <2>3 DEF AnswerIsTrue, Returned, Complete, Stored, Body
  <2> QED BY <2>5, <2>6, <2>7
<1>3. pc' \in Reading \cup {"return"}
  BY <1>1 DEF Reading
<1> QED BY <1>1, <1>2, <1>3, ReadKeeps

LEMMA ReadFailLenTalk ==
    ASSUME TalkInv, ReadFailLen, UNCHANGED <<shellVars, deviceVars>>
    PROVE  Talking'
<1>1. Got("fail_len") /\ "fail_len" \in Reading /\ pc' = "fail_msg" /\ n' = Number(buf[1])
  BY DEF ReadFailLen, Reading
<1>2. ASSUME Steady PROVE AnswerIsTrue' /\ Conversation'
  <2>1. /\ pc = "fail_len" /\ Typed /\ OfCall /\ FilesTyped
        /\ UNCHANGED <<fs, feats, call, clean, source>>
    BY <1>1, <1>2, GotIt
  <2>2. PICK w \in Seq(Units) : Due(w) /\ Comes(w)
    BY <1>1, <1>2, GotIt
  <2>3. call.op \in {"pull", "push"} /\ Need = 1 /\ Refused /\ w = <<Num(1), FailText>>
    BY <2>1, <2>2 DEF OfCall, Need, Due
  <2>4. PICK h, t : h = <<Num(1)>> /\ t = <<FailText>>
    OBVIOUS
  <2>5. h \in Seq(Units)
    BY <2>4, Tails
  <2>6. t \in Seq(Units)
    BY <2>4, Tails
  <2>7. Comes(h \o t) /\ Len(h) = Need /\ h[1] = Num(1)
    BY <2>2, <2>3, <2>4, Tails
  <2>8. /\ \A j \in 1 .. Need : buf[j] = h[j]
        /\ OfCall' /\ Due(t)' => Conversation'
    BY <1>1, <1>2, <2>5, <2>6, <2>7, ReadOnward
  <2>9. n' = 1
    <3>1. buf[1] = Num(1)
      BY <2>3, <2>7, <2>8
    <3>2. Number(Num(1)) = 1
      BY Tokens
    <3> QED BY <1>1, <3>1, <3>2
  <2>10. OfCall'
    BY <1>1, <2>1, <2>3 DEF OfCall, Reading
  <2>11. Due(t)'
    BY <1>1, <2>1, <2>3, <2>4, <2>9 DEF Due, Refused
  <2>12. AnswerIsTrue'
    BY <1>1, Unanswered
  <2> QED BY <2>8, <2>10, <2>11, <2>12
<1>3. pc' \in Reading \cup {"return"}
  BY <1>1 DEF Reading
<1> QED BY <1>1, <1>2, <1>3, ReadKeeps

LEMMA ReadFailTalk ==
    ASSUME TalkInv, ReadFail, UNCHANGED <<shellVars, deviceVars>>
    PROVE  Talking'
<1>1. Got("fail_msg") /\ "fail_msg" \in Reading /\ pc' = "return" /\ res' = "remote"
  BY DEF ReadFail, Reading, Returns
<1>2. ASSUME Steady PROVE AnswerIsTrue' /\ Conversation'
  <2>1. /\ pc = "fail_msg" /\ Typed /\ OfCall /\ FilesTyped
        /\ UNCHANGED <<fs, feats, call, clean, source>>
    BY <1>1, <1>2, GotIt
  <2>2. PICK w \in Seq(Units) : Due(w) /\ Comes(w)
    BY <1>1, <1>2, GotIt
  <2>3. call.op \in {"pull", "push"} /\ Need = n /\ n = 1 /\ Refused /\ w = <<FailText>>
    BY <2>1, <2>2 DEF OfCall, Need, Due
  <2>4. Comes(w \o <<>>) /\ <<>> \in Seq(Units) /\ Len(w) = Need
    BY <2>2, <2>3, CatEmpty, Tails
  <2>5. OfCall' /\ Due(<<>>)' => Conversation'
    BY <1>1, <1>2, <2>4, ReadOnward
  <2>6. OfCall' /\ Due(<<>>)'
    BY <1>1 DEF OfCall, Due
  <2>7. AnswerIsTrue'
    BY <1>1, <2>1, <2>3 DEF AnswerIsTrue, Returned, Refused
  <2> QED BY <2>5, <2>6, <2>7
<1>3. pc' \in Reading \cup {"return"}
  BY <1>1 DEF Reading
<1> QED BY <1>1, <1>2, <1>3, ReadKeeps
-----------------------------------------------------------------------------
(* Words on their way, and calls that fail. *)
LEMMA FillTalk ==
    ASSUME TalkInv, ReadFills, UNCHANGED <<shellVars, deviceVars>>
    PROVE  Talking'
<1>1. /\ down # <<>> /\ down' = Tail(down) /\ buf' = buf \o Head(down)
      /\ UNCHANGED <<up, todo, out, call, peer, pc, n, acc, res, fs, feats, source, dev, own,
                     clean, user>>
  BY DEF ReadFills, Fill, Recv, syncVars, deviceVars
<1>2. Queue' = Queue
  BY <1>1 DEF Queue
<1>3. Steady => Typed' /\ Stream' = Stream
  BY <1>1, Filled DEF TalkInv, Talking, Conversation
<1> QED BY <1>1, <1>2, <1>3, Kept

LEMMA FlushTalk ==
    ASSUME TalkInv, Flush, UNCHANGED <<syncVars, shellVars, deviceVars>>
    PROVE  Talking'
<1>1. PICK k \in 1 .. Len(out) : /\ down' = Append(down, First(out, k)) /\ out' = Rest(out, k)
  BY DEF Flush, Write
<1>2. UNCHANGED <<up, todo, buf, call, peer, pc, n, acc, res, fs, feats, source, dev, own,
                  clean, user>>
  BY DEF Flush, Write, syncVars, deviceVars
<1>3. Queue' = Queue
  BY <1>2 DEF Queue
<1>4. Steady => Typed' /\ Stream' = Stream
  BY <1>1, <1>2, Flushed DEF TalkInv, Talking, Conversation
<1> QED BY <1>2, <1>3, <1>4, Kept

LEMMA PostTalk ==
    ASSUME TalkInv, Post, UNCHANGED <<syncVars, shellVars, deviceVars>>
    PROVE  Talking'
<1>1. /\ todo # <<>> /\ up' = Append(up, Head(todo)) /\ todo' = Tail(todo)
      /\ UNCHANGED <<buf, down, out, call, peer, pc, n, acc, res, fs, feats, source, dev, own,
                     clean, user>>
  BY DEF Post, Send, syncVars, deviceVars
<1>2. Queue' = Queue
  BY <1>1, HandedOver DEF TalkInv, IInv
<1>3. Stream' = Stream
  BY <1>1, SameStream
<1>4. Steady => Typed'
  BY <1>1 DEF TalkInv, Talking, Conversation, Typed
<1> QED BY <1>1, <1>2, <1>3, <1>4, Kept

(* Where nothing is steady there is nothing to keep. *)
LEMMA Unsteady ==
    ASSUME TalkInv, fs' = fs, Apart', ~Steady', AnswerIsTrue'
    PROVE  Talking'
<1>1. FilesTyped'
  BY SameFiles DEF TalkInv, Talking
<1> QED BY <1>1 DEF Talking, Conversation

LEMMA FailTalk ==
    ASSUME TalkInv, pc # "idle", pc' = "return", res' \in {"closed", "source"},
           UNCHANGED <<fs, own, user, call>>
    PROVE  Talking'
<1>1. Apart'
  BY DEF TalkInv, Talking, Apart
<1>2. ~Steady'
  BY DEF Steady
<1>3. AnswerIsTrue'
  BY Unanswered
<1> QED BY <1>1, <1>2, <1>3, Unsteady

LEMMA ReadFailsTalk ==
    ASSUME TalkInv,
           \/ (ReadFails \/ SourceFails) /\ UNCHANGED <<shellVars, deviceVars>>
           \/ PostFails /\ UNCHANGED <<syncVars, shellVars, deviceVars>>
    PROVE  Talking'
<1>1. CASE (ReadFails \/ SourceFails) /\ UNCHANGED <<shellVars, deviceVars>>
  <2>1. /\ pc # "idle" /\ pc' = "return" /\ res' \in {"closed", "source"}
        /\ UNCHANGED <<fs, own, user, call>>
    BY <1>1 DEF ReadFails, SourceFails, Returns, Reading, channelVars, syncVars, deviceVars
  <2> QED BY <2>1, FailTalk
<1>2. CASE PostFails /\ UNCHANGED <<syncVars, shellVars, deviceVars>>
  <2>1. /\ todo # <<>> /\ pc' = "return" /\ res' = "closed"
        /\ UNCHANGED <<fs, own, user, call>>
    BY <1>2 DEF PostFails, channelVars, syncVars, deviceVars
  <2>2. pc # "idle"
    BY <2>1 DEF TalkInv, IInv, Owner
  <2> QED BY <2>1, <2>2, FailTalk
<1> QED BY <1>1, <1>2

(* The service goes: what it has written may be read to its end. *)
LEMMA ComesLess ==
    ASSUME Chunked, NEW w \in Seq(Units), Comes(w), peer' # "open",
           UNCHANGED <<buf, down>>, out' = out \/ out' = <<>>
    PROVE  Comes(w)'
<1>1. CASE out' = out
  <2>1. Stream' = Stream
    BY <1>1, SameStream
  <2>2. PartOf(Stream, w, FALSE)
    BY DEF Comes, PartOf
  <2> QED BY <2>1, <2>2 DEF Comes
<1>2. CASE out' = <<>>
  <2>1. PICK b, d, o : b = buf /\ d = down /\ o = out
    OBVIOUS
  <2>2. b \in Seq(Units)
    BY <2>1 DEF Chunked
  <2>3. d \in Seq(Seq(Units))
    BY <2>1 DEF Chunked
  <2>4. o \in Seq(Units)
    BY <2>1 DEF Chunked
  <2>5. FlattenSeq(d) \in Seq(Units)
    BY <2>2, <2>3, <2>4, JoinedType
  <2>6. PICK s : s = b \o FlattenSeq(d)
    OBVIOUS
  <2>7. s \in Seq(Units)
    BY <2>2, <2>5, <2>6
  <2>8. Stream = s \o o
    BY <2>1, <2>6 DEF Stream, Joined
  <2>9. Stream' = s
    <3>1. s \o <<>> = s
      BY <2>7, CatEmpty
    <3> QED BY <1>2, <2>1, <2>6, <3>1 DEF Stream, Joined
  <2>10. PICK whole : whole = (peer = "open")
    OBVIOUS
  <2>11. PartOf(s \o o, w, whole)
    BY <2>8, <2>10 DEF Comes
  <2>12. PartOf(s, w, FALSE)
    BY <2>4, <2>7, <2>11, PartCut
  <2> QED BY <2>9, <2>12 DEF Comes
<1> QED BY <1>1, <1>2

LEMMA GoneTalk ==
    ASSUME TalkInv, peer' = "finished", out' = out \/ out' = <<>>,
           UNCHANGED <<buf, down, pc, n, acc, res, call, fs, feats, source, own, clean, user>>
    PROVE  Talking'
<1>1. FilesTyped' /\ Apart'
  BY SameFiles DEF TalkInv, Talking, Apart
<1>2. AnswerIsTrue'
  <2>1. CASE pc \in {"return", "quit", "idle"}
    BY <2>1, SameAnswer DEF TalkInv, Talking
  <2>2. CASE pc \notin {"return", "quit", "idle"}
    BY <2>2, Unanswered
  <2> QED BY <2>1, <2>2
<1>3. ASSUME Steady' PROVE Typed' /\ Stage'
  <2>1. Typed /\ Stage
    BY <1>3 DEF TalkInv, Talking, Conversation, Steady
  <2>2. Typed'
    <3>1. out' \in Seq(Units)
      BY <2>1, EmptyWord DEF Typed
    <3> QED BY <2>1, <3>1 DEF Typed
  <2>3. OfCall'
    BY <2>1 DEF Stage, OfCall
  <2>4. CASE Unserved
    <3>1. Stream = <<>>
      BY <2>4 DEF Unserved
    <3>2. out = <<>>
      BY <2>1, <3>1, StreamEmpty
    <3>3. Stream' = Stream
      BY <3>2, SameStream
    <3>4. Unserved'
      BY <2>4, <3>3 DEF Unserved
    <3> QED BY <2>2, <2>3, <3>4 DEF Stage
  <2>5. CASE Served
    <3>1. PICK w \in Seq(Units) : Due(w) /\ Comes(w)
      BY <2>5 DEF Served
    <3>2. Due(w)'
      BY <3>1, SameDue
    <3>3. Comes(w)'
      <4>1. Chunked
        BY <2>1 DEF Typed, Chunked
      <4> QED BY <3>1, <4>1, ComesLess
    <3>4. Served'
      BY <3>2, <3>3 DEF Served
    <3> QED BY <2>2, <2>3, <3>4 DEF Stage
  <2> QED BY <2>1, <2>4, <2>5 DEF Stage
<1> QED BY <1>1, <1>2, <1>3 DEF Talking, Conversation

LEMMA VanishTalk ==
    ASSUME TalkInv, Vanish \/ Hangup, UNCHANGED <<syncVars, shellVars, deviceVars>>
    PROVE  Talking'
<1>1. /\ peer' = "finished" /\ (out' = out \/ out' = <<>>)
      /\ UNCHANGED <<buf, down, pc, n, acc, res, call, fs, feats, source, own, clean, user>>
  BY DEF Vanish, Hangup, Finish, syncVars, deviceVars
<1> QED BY <1>1, GoneTalk


(* A command has nothing of this. *)
LEMMA ShellTalk ==
    ASSUME TalkInv, own = "open",
           \/ /\ call.op \notin SyncOps
              /\ (ShellTakes \/ Echo \/ Talk \/ Exit) /\ UNCHANGED <<syncVars, deviceVars>>
           \/ ShellClient /\ UNCHANGED <<syncVars, deviceVars>>
    PROVE  Talking'
<1>1. UNCHANGED <<fs, own, user, call, clean>>
  BY DEF ShellTakes, Echo, Talk, Exit, ShellClient, ParseFrame, FramesFill, FramesEnd,
     DrainFills, DrainEnd, Fill, Recv, Arrive, channelVars, syncVars, deviceVars
<1>2. pc' = pc \/ (pc \in {"frames", "drain"} /\ pc' = "return")
  BY DEF ShellTakes, Echo, Talk, Exit, ShellClient, ParseFrame, FramesFill, FramesEnd,
     DrainFills, DrainEnd, Fill
<1>3. Apart'
  BY <1>1, <1>2 DEF TalkInv, Talking, Apart
<1>4. call.op \notin SyncOps
  <2>1. ShellClient => pc \in {"frames", "drain"}
    BY DEF ShellClient, ParseFrame, FramesFill, FramesEnd, DrainFills, DrainEnd
  <2> QED BY <2>1 DEF TalkInv, Talking, Apart
<1>5. AnswerIsTrue'
  BY <1>1, <1>4, Unanswered
<1>6. ~Steady'
  <2>1. ASSUME Steady' PROVE FALSE
    <3>1. CASE Steady
      BY <1>4, <3>1 DEF TalkInv, Talking, Conversation, Typed, SyncCalls, SyncOps
    <3>2. CASE ~Steady
      <4>1. pc \in {"frames", "drain"} => user = "shell"
        BY DEF TalkInv, Talking, Apart
      <4>2. user # "shell" /\ pc' = pc
        BY <1>1, <1>2, <2>1, <4>1 DEF Steady
      <4>3. res' # res
        BY <1>1, <2>1, <3>2, <4>2 DEF Steady
      <4>4. ShellTakes \/ Echo \/ Talk \/ Exit
        BY <4>2, <4>1, <1>2 DEF ShellClient, ParseFrame, FramesFill, FramesEnd, DrainFills, DrainEnd
      <4> QED BY <4>3, <4>4 DEF ShellTakes, Echo, Talk, Exit
    <3> QED BY <3>1, <3>2
  <2> QED BY <2>1
<1> QED BY <1>1, <1>3, <1>5, <1>6, Unsteady
-----------------------------------------------------------------------------
(* The ends of calls, and their beginnings. *)

(* Between calls nothing is on its way. *)
LEMMA AtRest ==
    ASSUME TalkInv, Steady, pc \in {"idle", "return"}
    PROVE  /\ Typed /\ OfCall /\ Served /\ Stream = <<>>
           /\ buf = <<>> /\ down = <<>> /\ out = <<>>
           /\ peer = "open" => up = <<>> /\ todo = <<>> /\ Queue = <<>> /\ dev = Idle
<1>1. Typed /\ OfCall /\ Served
  BY DEF TalkInv, Talking, Conversation, Stage, Unserved
<1>2. PICK w \in Seq(Units) : Due(w) /\ Comes(w)
  BY <1>1 DEF Served
<1>3. w = <<>>
  BY <1>2 DEF Due
<1>4. Stream \in Seq(Units)
  BY <1>1, StreamType
<1>5. PICK s, whole : s = Stream /\ whole = (peer = "open")
  OBVIOUS
<1>6. s \in Seq(Units)
  BY <1>4, <1>5
<1>7. PartOf(s, <<>>, whole)
  BY <1>2, <1>3, <1>5 DEF Comes
<1>8. s = <<>>
  BY <1>6, <1>7, PartEmpty
<1>9. buf = <<>> /\ down = <<>> /\ out = <<>>
  BY <1>1, <1>5, <1>8, StreamEmpty
<1>10. ASSUME peer = "open" PROVE up = <<>> /\ todo = <<>> /\ Queue = <<>> /\ dev = Idle
  <2>1. Queue = <<>> /\ dev = Idle
    BY <1>1, <1>10 DEF Served
  <2>2. /\ up \in Seq(Sent) /\ todo \in Seq(Sent)
        /\ Len(up) \in Nat /\ Len(todo) \in Nat /\ Len(Queue) = Len(up) + Len(todo)
    BY QueueIs DEF TalkInv, IInv
  <2>3. Len(up) = 0 /\ Len(todo) = 0
    BY <2>1, <2>2
  <2> QED BY <2>1, <2>2, <2>3
<1> QED BY <1>1, <1>5, <1>8, <1>9, <1>10

LEMMA LetGoTalk ==
    ASSUME TalkInv, LetGo, fs' = fs, AnswerIsTrue'
    PROVE  Talking'
<1>1. Apart' /\ ~Steady'
  BY DEF LetGo, Apart, Steady
<1> QED BY <1>1, Unsteady

LEMMA SendQuitTalk ==
    ASSUME TalkInv, SendQuit, pc \in {"idle", "return"}, own = "open", Steady' => Steady,
           UNCHANGED <<syncVars, user, clean>>
    PROVE  Talking'
<1>1. /\ todo' = <<Word("QUIT", 0)>> /\ pc' = "quit"
      /\ UNCHANGED <<up, down, peer, own, buf, out, dev, call, n, acc, res, feats, fs, source>>
  BY DEF SendQuit, channelVars, syncVars
<1>2. FilesTyped' /\ Apart'
  BY <1>1, SameFiles DEF TalkInv, Talking, Apart
<1>3. AnswerIsTrue'
  BY <1>1, SameAnswer DEF TalkInv, Talking
<1>4. ASSUME Steady' PROVE Typed' /\ Stage'
  <2>1. Typed /\ Stream = <<>> /\ (peer = "open" => up = <<>> /\ dev = Idle)
    BY <1>4, AtRest
  <2>2. Typed'
    BY <1>1, <2>1 DEF Typed
  <2>3. Stream' = <<>>
    BY <1>1, <2>1, SameStream
  <2>4. peer = "open" => Queue' = <<Word("QUIT", 0)>>
    BY <1>1, <2>1 DEF Queue
  <2>5. Unserved' /\ OfCall'
    BY <1>1, <2>1, <2>3, <2>4 DEF Unserved, Owed, OfCall
  <2> QED BY <2>2, <2>5 DEF Stage
<1> QED BY <1>2, <1>3, <1>4 DEF Talking, Conversation

LEMMA ReturnTalk == ASSUME TalkInv, Return PROVE Talking'
<1>1. pc = "return" /\ own = "open" /\ UNCHANGED <<syncVars, shellVars, user>>
  BY DEF Return, TalkInv, Talking, Apart
<1>2. CASE /\ user = "client" /\ pc' = "idle" /\ clean' = (clean /\ res \in {"ok", "remote"})
           /\ UNCHANGED <<channelVars, buf, out, dev, call, todo, n, acc, res>>
  <2>1. UNCHANGED <<up, down, peer, own, buf, out, dev, call, todo, n, acc, res, feats, fs,
                    source, user>>
    BY <1>1, <1>2 DEF channelVars, syncVars
  <2>2. FilesTyped' /\ Apart'
    BY <1>1, <1>2, <2>1, SameFiles DEF TalkInv, Talking, Apart
  <2>3. AnswerIsTrue'
    BY <1>1, <1>2, <2>1, SameAnswer DEF TalkInv, Talking
  <2>4. ASSUME Steady' PROVE Typed' /\ Stage'
    <3>1. Steady
      BY <1>1, <1>2, <2>1, <2>4 DEF Steady
    <3>2. Typed /\ Stream = <<>> /\ (peer = "open" => Queue = <<>> /\ dev = Idle)
      BY <1>1, <3>1, AtRest
    <3>3. Typed'
      BY <2>1, <3>2 DEF Typed
    <3>4. Stream' = <<>>
      BY <2>1, <3>2, SameStream
    <3>5. Due(<<>>)' /\ OfCall'
      BY <1>2 DEF Due, OfCall
    <3>6. Comes(<<>>)'
      BY <3>4, PartWhole, EmptyWord DEF Comes
    <3>7. Served'
      BY <2>1, <3>2, <3>5, <3>6, EmptyWord DEF Served, Queue
    <3> QED BY <3>3, <3>5, <3>7 DEF Stage
  <2> QED BY <2>2, <2>3, <2>4 DEF Talking, Conversation
<1>3. CASE user # "client" /\ Politely /\ SendQuit /\ UNCHANGED clean
  <2>1. Steady' => Steady
    BY <1>1, <1>3 DEF Steady, SendQuit, channelVars, Politely
  <2> QED BY <1>1, <1>3, <2>1, SendQuitTalk
<1>4. CASE LetGo /\ UNCHANGED <<res, clean>>
  <2>1. AnswerIsTrue'
    BY <1>1, <1>4, SameAnswer DEF LetGo, TalkInv, Talking, syncVars
  <2> QED BY <1>1, <1>4, <2>1, LetGoTalk DEF syncVars
<1> QED BY <1>2, <1>3, <1>4 DEF Return

LEMMA LeaveTalk ==
    ASSUME TalkInv, BeginQuit \/ Quit \/ Dropped \/ GiveUp
    PROVE  Talking'
<1>1. CASE BeginQuit
  <2>1. Steady' => Steady
    BY <1>1 DEF BeginQuit, Steady, SendQuit, channelVars, deviceVars
  <2> QED BY <1>1, <2>1, SendQuitTalk DEF BeginQuit, deviceVars
<1>2. CASE Quit \/ Dropped
  <2>1. LetGo /\ fs' = fs /\ pc \in {"quit", "idle"}
    BY <1>2 DEF Quit, Dropped, syncVars
  <2>2. AnswerIsTrue'
    <3>1. CASE UNCHANGED res
      BY <1>2, <2>1, <3>1, SameAnswer DEF Quit, Dropped, LetGo, TalkInv, Talking, syncVars,
         deviceVars
    <3>2. CASE res' = "closed"
      BY <3>2, Unanswered
    <3> QED BY <1>2, <3>1, <3>2 DEF Quit, Dropped
  <2> QED BY <2>1, <2>2, LetGoTalk
<1>3. CASE GiveUp
  <2>1. res' = "given_up" /\ fs' = fs /\ user' = user
    BY <1>3 DEF GiveUp, syncVars
  <2>2. AnswerIsTrue'
    BY <2>1, Unanswered
  <2>3. CASE LetGo
    BY <2>1, <2>2, <2>3, LetGoTalk
  <2>4. CASE user = "client" /\ pc' = "idle" /\ clean' = FALSE
    <3>1. Apart' /\ ~Steady'
      BY <2>1, <2>4 DEF Apart, Steady
    <3> QED BY <2>1, <2>2, <3>1, Unsteady
  <2> QED BY <1>3, <2>3, <2>4 DEF GiveUp
<1> QED BY <1>1, <1>2, <1>3

LEMMA OpenFailsTalk == ASSUME TalkInv, NEW c, OpenFails(c) PROVE Talking'
<1>1. /\ res' = "refused" /\ fs' = fs /\ own' = "closed" /\ pc' = "idle"
  BY DEF OpenFails, BeginCall, channelVars, syncVars
<1>2. Apart' /\ ~Steady' /\ AnswerIsTrue'
  BY <1>1, Unanswered DEF Apart, Steady
<1> QED BY <1>1, <1>2, Unsteady

LEMMA OpenShellTalk == ASSUME TalkInv, NEW c \in ShellCalls, OpenShell(c) PROVE Talking'
<1>1. /\ user = "shell" /\ user' = user /\ fs' = fs /\ call' = c /\ pc' \in {"frames", "drain"}
      /\ own' = "open" /\ c.op \notin SyncOps
  BY DEF OpenShell, Starts, Opens, syncVars, ShellCalls, SyncOps
<1>2. Apart' /\ ~Steady' /\ AnswerIsTrue'
  BY <1>1, Unanswered DEF Apart, Steady
<1> QED BY <1>1, <1>2, Unsteady

(* A call that begins is owed an answer, and none is on its way. *)
LEMMA Asked ==
    ASSUME NEW c \in SyncCalls, NEW body, Begins(c, body), feats' = feats, Stream' = <<>>,
           peer' = "open" => up' = <<>> /\ dev' = Idle
    PROVE  Stage' /\ pc' \in {"stat", "entry", "chunk", "source"}
<1>1. /\ call' = c /\ todo' = RequestOf(c) /\ pc' = FirstWait(c) /\ acc' = <<>>
  BY DEF Begins
<1>2. \/ c.op = "stat" /\ pc' = "stat"
      \/ c.op = "list" /\ pc' = "entry"
      \/ c.op = "pull" /\ pc' = "chunk"
      \/ c.op = "push" /\ pc' = "source"
  BY <1>1 DEF SyncCalls, FirstWait
<1>3. OfCall'
  BY <1>1, <1>2 DEF OfCall, Reading
<1>4. RequestOf(call)' = RequestOf(c)
  BY <1>1 DEF RequestOf, StatId, ListId, RecvRequest, SendRequest
<1>5. ASSUME peer' = "open" PROVE Owed'
  <2>1. RequestOf(c) \in Seq(SyncMessages)
    BY CallRequests
  <2>2. Queue' = RequestOf(c) /\ dev' = Idle
    <3>1. Queue' = <<>> \o RequestOf(c)
      BY <1>1, <1>5 DEF Queue
    <3> QED BY <1>5, <2>1, <3>1
  <2>3. CASE c.op # "push"
    BY <1>2, <1>4, <2>2, <2>3 DEF Owed
  <2>4. CASE c.op = "push"
    <3>1. pc' = "source"
      BY <1>2, <2>4
    <3>2. RequestOf(c) = SendRequest(c.path, c.mode)
      BY <2>4 DEF RequestOf
    <3>3. CASE RequestOf(c) = <<Request("SND2", c.path), Word("SND2", c.mode)>>
      <4>1. Len(Queue') = 2 /\ Queue'[1] = Request("SND2", c.path)
            /\ Queue'[2] = Word("SND2", c.mode)
        BY <2>2, <3>3
      <4>2. DataFrom(2)'
        BY <3>1, <4>1 DEF DataFrom
      <4>3. Sending'
        BY <1>1, <2>2, <4>1, <4>2 DEF Sending
      <4> QED BY <3>1, <4>3 DEF Owed
    <3>4. CASE RequestOf(c) = <<Message("SEND", c.path, c.mode, <<>>)>>
      <4>1. Len(Queue') = 1 /\ Queue'[1] = Message("SEND", c.path, c.mode, <<>>)
        BY <2>2, <3>4
      <4>2. DataFrom(1)'
        BY <3>1, <4>1 DEF DataFrom
      <4>3. Sending'
        BY <1>1, <2>2, <4>1, <4>2 DEF Sending
      <4> QED BY <3>1, <4>3 DEF Owed
    <3> QED BY <3>2, <3>3, <3>4 DEF SendRequest
  <2> QED BY <2>3, <2>4
<1>6. Unserved'
  BY <1>1, <1>2, <1>5 DEF Unserved
<1> QED BY <1>2, <1>3, <1>6 DEF Stage

LEMMA OpenSyncTalk ==
    ASSUME TalkInv, NEW c \in SyncCalls, OpenSync(c) \/ NextCall(c)
    PROVE  Talking'
<1>1. PICK body : Begins(c, body)
  BY DEF OpenSync, NextCall
<1>2. /\ UNCHANGED <<feats, fs, user>> /\ user # "shell" /\ pc = "idle" /\ call' = c
      /\ own' = "open"
  BY <1>1 DEF OpenSync, NextCall, Opens, BeginCall, Begins, channelVars
<1>3. ASSUME Steady' PROVE Typed' /\ Stream' = <<>> /\ (peer' = "open" => up' = <<>> /\ dev' = Idle)
  <2>1. CASE OpenSync(c)
    <3>1. /\ up' = <<>> /\ down' = <<>> /\ peer' = "open" /\ buf' = <<>> /\ out' = <<>>
          /\ dev' = Idle
      BY <2>1 DEF OpenSync, Opens
    <3>2. Typed'
      <4>1. <<>> \in Seq(Seq(Units)) /\ Len(<<>>) = 0
        OBVIOUS
      <4> QED BY <1>2, <3>1, <4>1, EmptyWord DEF Typed
    <3>3. Stream' = <<>>
      <4>1. FlattenSeq(<<>>) = <<>>
        BY FlatEmpty
      <4>2. <<>> \o <<>> = <<>>
        BY EmptyWord, CatEmpty
      <4> QED BY <3>1, <4>1, <4>2 DEF Stream, Joined
    <3> QED BY <3>1, <3>2, <3>3
  <2>2. CASE NextCall(c)
    <3>1. UNCHANGED <<up, down, peer, own, buf, out, dev, clean>> /\ own = "open"
      BY <2>2 DEF NextCall, channelVars
    <3>2. Steady
      BY <1>2, <1>3, <3>1 DEF Steady
    <3>3. Typed /\ Stream = <<>> /\ (peer = "open" => up = <<>> /\ dev = Idle)
      BY <1>2, <3>2, AtRest
    <3>4. Typed'
      BY <1>2, <3>1, <3>3 DEF Typed
    <3> QED BY <3>1, <3>3, <3>4, SameStream
  <2> QED BY <2>1, <2>2
<1>4. ASSUME Steady' PROVE Typed' /\ Stage'
  BY <1>1, <1>2, <1>3, <1>4, Asked
<1>5. pc' \in {"stat", "entry", "chunk", "source"}
  BY <1>1 DEF Begins, FirstWait, SyncCalls
<1>6. AnswerIsTrue'
  BY <1>5, Unanswered
<1>7. FilesTyped' /\ Apart'
  BY <1>2, <1>5, SameFiles DEF TalkInv, Talking, Apart
<1> QED BY <1>4, <1>6, <1>7 DEF Talking, Conversation
-----------------------------------------------------------------------------
(* A push on its way. *)
LEMMA QueueMore ==
    ASSUME TypeOK, todo = <<>>, up' = up, NEW m, todo' = <<m>>
    PROVE  /\ Len(Queue) \in Nat /\ Len(Queue') = Len(Queue) + 1 /\ Queue'[Len(Queue) + 1] = m
           /\ \A i \in 1 .. Len(Queue) : Queue'[i] = Queue[i]
<1>1. /\ up \in Seq(Sent) /\ Len(up) \in Nat /\ Len(todo) \in Nat
      /\ Len(Queue) = Len(up) + Len(todo) /\ \A i \in 1 .. Len(up) : Queue[i] = up[i]
  BY QueueIs
<1>2. Len(todo) = 0 /\ Len(Queue) = Len(up)
  BY <1>1
<1>3. PICK S : S = Sent \cup {m}
  OBVIOUS
<1>4. up \in Seq(S)
  <2>1. Sent \subseteq S
    BY <1>3
  <2>2. \A i \in 1 .. Len(up) : up[i] \in S
    BY <1>1, <2>1
  <2> QED BY <1>1, <2>2
<1>5. PICK r : r = <<m>>
  OBVIOUS
<1>6. r \in Seq(S)
  BY <1>3, <1>5
<1>7. /\ Len(up \o r) = Len(up) + Len(r)
      /\ \A i \in 1 .. Len(up) : (up \o r)[i] = up[i]
      /\ \A i \in 1 .. Len(r) : (up \o r)[Len(up) + i] = r[i]
  BY <1>4, <1>6, Put
<1>8. Queue' = up \o r
  BY <1>5 DEF Queue
<1>9. Len(r) = 1 /\ r[1] = m
  BY <1>5
<1> QED BY <1>1, <1>2, <1>7, <1>8, <1>9

LEMMA DataMore ==
    ASSUME TypeOK, todo = <<>>, up' = up, NEW m, todo' = <<m>>, UNCHANGED <<call, dev>>,
           pc = "source",
           \/ pc' = "source" /\ m.id = "DATA"
           \/ pc' = "status" /\ m = Word("DONE", Now),
           Sending
    PROVE  Sending'
<1>1. /\ Len(Queue) \in Nat /\ Len(Queue') = Len(Queue) + 1 /\ Queue'[Len(Queue) + 1] = m
      /\ \A i \in 1 .. Len(Queue) : Queue'[i] = Queue[i]
  BY QueueMore
<1>2. ASSUME NEW k \in {0, 1, 2}, k <= Len(Queue), DataFrom(k) PROVE DataFrom(k)'
  <2>1. pc' = "status" => Len(Queue') > k
    BY <1>1, <1>2
  <2>2. ASSUME NEW i \in 1 .. Len(Queue'), i > k
        PROVE  IF pc' = "status" /\ i = Len(Queue') THEN Queue'[i] = Word("DONE", Now)
                                                    ELSE Queue'[i].id = "DATA"
    <3>1. CASE i = Len(Queue')
      BY <1>1, <2>2, <3>1
    <3>2. CASE i # Len(Queue')
      <4>1. i \in 1 .. Len(Queue)
        BY <1>1, <3>2
      <4>2. Queue[i].id = "DATA"
        BY <1>2, <2>2, <4>1 DEF DataFrom
      <4> QED BY <1>1, <3>2, <4>1, <4>2
    <3> QED BY <3>1, <3>2
  <2> QED BY <2>1, <2>2 DEF DataFrom
<1>3. CASE dev = Idle /\ Len(Queue) >= 2 /\ DataFrom(2)
           /\ Queue[1] = Request("SND2", call.path) /\ Queue[2] = Word("SND2", call.mode)
  BY <1>1, <1>2, <1>3 DEF Sending
<1>4. CASE dev = Idle /\ Len(Queue) >= 1 /\ DataFrom(1)
           /\ Queue[1] = Message("SEND", call.path, call.mode, <<>>)
  BY <1>1, <1>2, <1>4 DEF Sending
<1>5. CASE dev = Service("send", call.path, 0, <<>>) /\ Len(Queue) >= 1 /\ DataFrom(1)
           /\ Queue[1] = Word("SND2", call.mode)
  BY <1>1, <1>2, <1>5 DEF Sending
<1>6. CASE dev.st = "data" /\ dev.path = call.path /\ dev.mode = call.mode /\ DataFrom(0)
  <2>1. 0 <= Len(Queue)
    BY <1>1
  <2> QED BY <1>2, <1>6, <2>1 DEF Sending
<1> QED BY <1>3, <1>4, <1>5, <1>6 DEF Sending

LEMMA PushTalk ==
    ASSUME TalkInv, PushData \/ PushDone, UNCHANGED <<shellVars, deviceVars>>
    PROVE  Talking'
<1>1. /\ pc = "source" /\ todo = <<>> /\ pc' \in {"source", "status"}
      /\ UNCHANGED <<up, down, peer, own, buf, out, dev, call, acc, feats, fs, clean, user>>
  BY DEF PushData, PushDone, WaitsFor, channelVars, syncVars, deviceVars
<1>2. PICK m : /\ todo' = <<m>>
               /\ \/ pc' = "source" /\ m.id = "DATA"
                  \/ pc' = "status" /\ m = Word("DONE", Now) /\ source = <<>> /\ source' = source
  <2>1. CASE PushData
    BY <2>1, <1>1 DEF PushData, Message
  <2>2. CASE PushDone
    BY <2>2 DEF PushDone, WaitsFor, syncVars
  <2> QED BY <2>1, <2>2
<1>3. FilesTyped' /\ Apart'
  BY <1>1, SameFiles DEF TalkInv, Talking, Apart
<1>4. AnswerIsTrue'
  BY <1>1, Unanswered
<1>5. ASSUME Steady' PROVE Typed' /\ Stage'
  <2>1. Steady
    BY <1>1, <1>5 DEF Steady
  <2>2. Typed /\ OfCall /\ Unserved
    BY <1>1, <2>1 DEF TalkInv, Talking, Conversation, Stage, Served, Due
  <2>3. Typed'
    BY <1>1, <2>2 DEF Typed
  <2>4. Stream' = <<>>
    BY <1>1, <2>2, SameStream DEF Unserved
  <2>5. peer = "open" => Sending'
    BY <1>1, <1>2, <2>2, DataMore DEF Unserved, Owed, TalkInv, IInv
  <2>6. Unserved'
    BY <1>1, <2>4, <2>5 DEF Unserved, Owed
  <2>7. OfCall'
    BY <1>1, <1>2, <2>2 DEF OfCall, Reading
  <2> QED BY <2>3, <2>6, <2>7 DEF Stage
<1> QED BY <1>3, <1>4, <1>5 DEF Talking, Conversation
-----------------------------------------------------------------------------
(* The service. *)
LEMMA QueueLess ==
    ASSUME TypeOK, up # <<>>, up' = Tail(up), todo' = todo
    PROVE  /\ Len(Queue) \in Nat /\ Len(Queue) >= 1 /\ Queue[1] = Head(up)
           /\ Len(Queue') = Len(Queue) - 1 /\ Queue' \in Seq(Sent)
           /\ \A i \in 1 .. Len(Queue) - 1 : Queue'[i] = Queue[i + 1]
<1>1. /\ up \in Seq(Sent) /\ todo \in Seq(Sent)
      /\ Len(up) \in Nat /\ Len(todo) \in Nat /\ Len(Queue) = Len(up) + Len(todo)
      /\ \A i \in 1 .. Len(up) : Queue[i] = up[i]
      /\ \A i \in 1 .. Len(todo) : Queue[Len(up) + i] = todo[i]
  BY QueueIs
<1>2. /\ Head(up) = up[1] /\ Len(up) >= 1
      /\ up' \in Seq(Sent) /\ Len(up') = Len(up) - 1
      /\ \A i \in 1 .. Len(up) - 1 : up'[i] = up[i + 1]
  BY <1>1, Taken
<1>3. /\ Queue' \in Seq(Sent) /\ Len(Queue') = Len(up') + Len(todo)
      /\ \A i \in 1 .. Len(up') : Queue'[i] = up'[i]
      /\ \A i \in 1 .. Len(todo) : Queue'[Len(up') + i] = todo[i]
  BY <1>1, <1>2, Put DEF Queue
<1>4. ASSUME NEW i \in 1 .. Len(Queue) - 1 PROVE Queue'[i] = Queue[i + 1]
  <2>1. CASE i \in 1 .. Len(up) - 1
    <3>1. i + 1 \in 1 .. Len(up)
      BY <2>1, <1>1
    <3> QED BY <3>1, <2>1, <1>1, <1>2, <1>3
  <2>2. CASE i \in Len(up) .. Len(Queue) - 1
    <3>1. PICK j \in 1 .. Len(todo) : i = Len(up) - 1 + j
      <4>1. i - (Len(up) - 1) \in 1 .. Len(todo) /\ i = Len(up) - 1 + (i - (Len(up) - 1))
        BY <2>2, <1>1
      <4> QED BY <4>1
    <3>2. i = Len(up') + j /\ i + 1 = Len(up) + j
      BY <3>1, <1>1, <1>2
    <3> QED BY <3>1, <3>2, <1>1, <1>3
  <2> QED BY <2>1, <2>2, <1>1
<1>5. Len(Queue) \in Nat /\ Len(Queue) >= 1 /\ Len(Queue') = Len(Queue) - 1
  BY <1>1, <1>2, <1>3
<1>6. Queue[1] = Head(up)
  <2>1. 1 \in 1 .. Len(up)
    BY <1>1, <1>2
  <2> QED BY <1>1, <1>2, <2>1
<1> QED BY <1>3, <1>4, <1>5, <1>6

(* The reply is all there is to come. *)
LEMMA Answered ==
    ASSUME Typed, Stream = <<>>, OfCall, NEW r \in Seq(Units), out' = out \o r, Due(r)',
           UNCHANGED <<buf, down, call, peer, pc, source>>, Queue' = <<>>, dev' = Idle
    PROVE  Typed' /\ Stage'
<1>1. Stream' = Stream \o r /\ Typed'
  BY Replied
<1>2. <<>> \o r = r
  BY CatEmpty
<1>3. Stream' = r
  BY <1>1, <1>2
<1>4. Len(r) \in Nat
  OBVIOUS
<1>5. PICK whole : whole = (peer' = "open")
  OBVIOUS
<1>6. PartOf(r, r, whole)
  BY <1>4, PartWhole
<1>7. Comes(r)'
  BY <1>3, <1>5, <1>6 DEF Comes
<1>8. Served' /\ OfCall'
  BY <1>7 DEF Served, OfCall
<1> QED BY <1>1, <1>8 DEF Stage

(* It has taken a message and not replied. *)
LEMMA StillOwed ==
    ASSUME Typed, Stage, Unserved, UNCHANGED <<buf, down, out, call, peer, pc, acc, source>>, Owed'
    PROVE  Typed' /\ Stage'
<1>1. Typed'
  BY DEF Typed
<1>2. Stream' = <<>>
  BY SameStream DEF Unserved
<1>3. Unserved' /\ OfCall'
  BY <1>2 DEF Unserved, Stage, OfCall
<1> QED BY <1>1, <1>3 DEF Stage

(* The replies. *)
LEMMA ListRepliesAre ==
    /\ ListReplies(ListId) = {Dents(0) \o Final("DONE"), Final("FAIL")}
    /\ Entries(0) = <<>>
<1>1. (IF ListId = "LIS2" THEN "DNT2" ELSE "DENT") = DentName
  BY DEF ListId, DentName
<1>2. Len(Present) \in Nat /\ DOMAIN Present = 1 .. Len(Present)
  BY PresentIs
<1>3. Len(Present) - 0 = Len(Present) /\ \A j \in 1 .. Len(Present) : 0 + j = j
  BY <1>2
<1>4. [j \in 1 .. Len(Present) - 0 |-> DentWords(Present[0 + j])]
        = [i \in DOMAIN Present |-> DentWords(Present[i])]
  BY <1>2, <1>3
<1>5. Dents(0) = FlattenSeq([i \in DOMAIN Present |-> DentWords(Present[i])])
  BY <1>4 DEF Dents
<1>6. ListReplies(ListId) = {Dents(0) \o Final("DONE"), Final("FAIL")}
  BY <1>1, <1>5 DEF ListReplies, DentWords, Final
<1>7. Entries(0) = <<>>
  BY FlatEmpty DEF Entries
<1> QED BY <1>6, <1>7

LEMMA ListReply ==
    ASSUME FilesTyped, UNCHANGED <<fs, feats, pc, acc>>, pc = "entry", acc = <<>>,
           NEW r \in ListReplies(ListId)
    PROVE  r \in Seq(Units) /\ Due(r)'
<1>0. ListReplies(ListId) = {Dents(0) \o Final("DONE"), Final("FAIL")} /\ Entries(0) = <<>>
  BY ListRepliesAre
<1>1. UNCHANGED <<Present, DentName>>
  BY DEF Present, DentName
<1>2. /\ \A word : Final(word)' = Final(word)
      /\ \A i : Dents(i)' = Dents(i) /\ Entries(i)' = Entries(i)
  BY <1>1 DEF Final, Dents, Entries, DentWords, EntryOf
<1>3. 0 \in 0 .. Len(Present)
  BY PresentIs
<1>4. Final("DONE") \in Seq(Units) /\ Final("FAIL") \in Seq(Units)
  BY FinalWords
<1>5. CASE r = Final("FAIL")
  <2>1. ListDue(r)'
    BY <1>2, <1>5 DEF ListDue
  <2> QED BY <1>4, <1>5, <2>1 DEF Due
<1>6. CASE r = Dents(0) \o Final("DONE")
  <2>1. Dents(0) \in Seq(Units)
    BY <1>3, DentsStep
  <2>2. r \in Seq(Units)
    BY <1>4, <1>6, <2>1
  <2>3. ListDue(r)'
    BY <1>0, <1>1, <1>2, <1>3, <1>6 DEF ListDue
  <2> QED BY <2>2, <2>3 DEF Due
<1> QED BY <1>0, <1>5, <1>6

LEMMA PullReply ==
    ASSUME FilesTyped, UNCHANGED <<fs, pc, acc, call>>, pc = "chunk", acc = <<>>,
           call.op = "pull", call \in SyncCalls, NEW max \in DevMaxes,
           NEW r, r = FileReply(call.path, max)
    PROVE  r \in Seq(Units) /\ Due(r)'
<1>1. max \in Nat \ {0}
  BY SyncAssumption
<1>2. CASE ~Exists(fs[call.path])
  <2>1. r = Failed
    BY <1>2 DEF FileReply
  <2>2. r \in Seq(Units)
    BY <2>1, Tails
  <2>3. Refused'
    BY <1>2 DEF Refused
  <2>4. Due(r)'
    BY <2>1, <2>3 DEF Due
  <2> QED BY <2>2, <2>4
<1>3. CASE Exists(fs[call.path])
  <2>1. Len(acc) = 0 /\ Body \in Seq(Stuff)
    <3>1. 0 \in 0 .. Len(Body) /\ Body \in Seq(Stuff)
      BY CallPath DEF Body, Meta
    <3> QED BY <3>1, EmptyWord
  <2>2. 0 \in 0 .. Len(Body) /\ First(Body, 0) = <<>> /\ Rest(Body, 0) = Body
    <3>1. 0 \in 0 .. Len(Body)
      BY <2>1
    <3>2. PICK b, f, t : b = Body /\ f = First(b, 0) /\ t = Rest(b, 0)
      OBVIOUS
    <3>3. b \in Seq(Stuff)
      BY <2>1, <3>2
    <3>4. 0 \in 0 .. Len(b)
      BY <3>1, <3>2
    <3>5. f \in Seq(Stuff)
      BY <3>2, <3>3, <3>4, FirstRest
    <3>6. t \in Seq(Stuff)
      BY <3>2, <3>3, <3>4, FirstRest
    <3>7. Len(f) = 0 /\ Len(t) = Len(b) - 0
      BY <3>2, <3>3, <3>4, FirstRest
    <3>8. \A i \in 1 .. Len(b) - 0 : t[i] = b[0 + i]
      BY <3>2, <3>3, <3>4, FirstRest
    <3>9. f = <<>>
      BY <3>5, <3>7
    <3>10. Len(t) = Len(b) /\ \A i \in 1 .. Len(t) : t[i] = b[i]
      BY <3>3, <3>7, <3>8
    <3>11. t = b
      BY <3>3, <3>6, <3>10, Same
    <3> QED BY <3>1, <3>2, <3>9, <3>11
  <2>3. Left = Body /\ Body = fs[call.path].body
    BY <2>1, <2>2 DEF Left, Body
  <2>4. r = DataOf(Left, max) \o Done0
    BY <1>3, <2>3 DEF FileReply, Done0
  <2>5. Left \in Seq(Stuff)
    BY <2>1, <2>3
  <2>6. r \in Seq(Units)
    BY <1>1, <2>4, <2>5, PullWhole
  <2>7. UNCHANGED <<Body, Left>>
    BY DEF Body, Left
  <2>8. PullDue(r)'
    BY <1>3, <2>1, <2>2, <2>4, <2>7 DEF PullDue
  <2>9. Due(r)'
    BY <2>8 DEF Due
  <2> QED BY <2>6, <2>9
<1> QED BY <1>2, <1>3

(* What the service does with the next message, when it makes sense. *)
LEMMA Serves ==
    ASSUME TalkInv, SyncServes, UNCHANGED <<shellVars, deviceVars>>
    PROVE  /\ TypeOK /\ up # <<>> /\ up' = Tail(up) /\ peer = "open" /\ todo' = todo
           /\ UNCHANGED <<down, peer, own, buf, call, pc, n, acc, res, feats, source, clean, user>>
           /\ dev.st \in {"idle", "recv", "send", "data", "stuck"}
           /\ \/ fs' = fs
              \/ /\ dev.st = "data" /\ Head(up).id = "DONE" /\ dev.path \notin ReadOnly
                 /\ fs' = [fs EXCEPT ![dev.path] = File(dev.mode, Head(up).num, dev.body)]
<1>1. Arrive /\ TypeOK /\ dev.st \in {"idle", "recv", "send", "data", "stuck"}
  BY DEF SyncServes, TalkInv, IInv
<1>2. UNCHANGED <<buf, call, todo, pc, n, acc, res, feats, source, clean, user>>
  BY DEF SyncServes, deviceVars
<1>3. \/ fs' = fs
      \/ /\ dev.st = "data" /\ Head(up).id = "DONE" /\ dev.path \notin ReadOnly
         /\ fs' = [fs EXCEPT ![dev.path] = File(dev.mode, Head(up).num, dev.body)]
  BY DEF SyncServes
<1> QED BY <1>1, <1>2, <1>3 DEF Arrive

LEMMA ServesStat ==
    ASSUME FilesTyped, Typed, Unserved, Stage, SyncServes, UNCHANGED <<call, peer, pc, source, feats>>,
           down' = down, Queue' = <<>>, pc = "stat", dev = Idle,
           Head(up) = Request(StatId, call.path)
    PROVE  Typed' /\ Stage'
<1>1. call.op = "stat" /\ OfCall /\ Stream = <<>>
  BY DEF Stage, OfCall, Unserved
<1>2. call.path \in Names /\ fs[call.path] \in Meta
  BY <1>1, CallPath DEF Typed
<1>3. Head(up).id = StatId /\ Head(up).path = call.path /\ dev.st = "idle"
  BY DEF Request, Message, Idle, Service
<1>4. StatId \in {"STAT", "STA2"}
  BY DEF StatId
<1>5. /\ out' = out \o StatLayout(StatId, fs[call.path]) /\ UNCHANGED <<dev, fs, buf>>
  BY <1>3, <1>4 DEF SyncServes
<1>6. PICK r : r = StatLayout(StatId, fs[call.path])
  OBVIOUS
<1>7. r \in Seq(Units)
  BY <1>2, <1>6, StatReply
<1>8. Due(r)'
  BY <1>5, <1>6 DEF Due, StatId
<1> QED BY <1>1, <1>5, <1>6, <1>7, <1>8, Answered

LEMMA ServesList ==
    ASSUME FilesTyped, Typed, Unserved, Stage, SyncServes,
           UNCHANGED <<call, peer, pc, source, feats, acc>>,
           down' = down, Queue' = <<>>, pc = "entry", dev = Idle,
           Head(up) = Request(ListId, call.path)
    PROVE  Typed' /\ Stage'
<1>1. OfCall /\ Stream = <<>> /\ acc = <<>>
  BY DEF Stage, Unserved
<1>2. Head(up).id = ListId /\ dev.st = "idle"
  BY DEF Request, Message, Idle, Service
<1>3. ListId \in {"LIST", "LIS2"}
  BY DEF ListId
<1>4. PICK r \in ListReplies(ListId) : out' = out \o r /\ UNCHANGED <<dev, fs, buf>>
  BY <1>2, <1>3 DEF SyncServes
<1>5. r \in Seq(Units) /\ Due(r)'
  BY <1>1, <1>4, ListReply
<1>6. r \in Seq(Units)
  BY <1>5
<1> QED BY <1>1, <1>4, <1>5, <1>6, Answered

LEMMA ServesPull ==
    ASSUME FilesTyped, Typed, Unserved, Stage, SyncServes,
           UNCHANGED <<call, peer, pc, source, feats, acc>>,
           down' = down, pc = "chunk",
           \/ dev = Idle /\ Queue' = <<>> /\ Head(up) = Request("RECV", call.path)
           \/ /\ dev = Service("recv", call.path, 0, <<>>) /\ Queue' = <<>>
              /\ Head(up) = Word("RCV2", 0)
           \/ dev = Idle /\ Queue' = <<Word("RCV2", 0)>> /\ Head(up) = Request("RCV2", call.path)
    PROVE  Typed' /\ Stage'
<1>1. OfCall /\ Stream = <<>> /\ acc = <<>> /\ call.op = "pull" /\ call \in SyncCalls
  BY DEF Stage, Unserved, OfCall, Typed
<1>2. CASE \E max \in DevMaxes : /\ out' = out \o FileReply(call.path, max)
                                 /\ UNCHANGED <<fs, buf>> /\ dev' = Idle /\ Queue' = <<>>
  <2>1. PICK max \in DevMaxes : out' = out \o FileReply(call.path, max)
    BY <1>2
  <2>2. PICK r : r = FileReply(call.path, max)
    OBVIOUS
  <2>3. r \in Seq(Units) /\ Due(r)'
    BY <1>1, <1>2, <2>2, PullReply
  <2>4. r \in Seq(Units)
    BY <2>3
  <2> QED BY <1>1, <1>2, <2>1, <2>2, <2>3, <2>4, Answered
<1>3. CASE dev = Idle /\ Queue' = <<>> /\ Head(up) = Request("RECV", call.path)
  <2>1. Head(up).id = "RECV" /\ Head(up).path = call.path /\ dev.st = "idle"
    BY <1>3 DEF Request, Message, Idle, Service
  <2> QED BY <1>2, <1>3, <2>1 DEF SyncServes
<1>4. CASE /\ dev = Service("recv", call.path, 0, <<>>) /\ Queue' = <<>>
           /\ Head(up) = Word("RCV2", 0)
  <2>1. Head(up).path = NoName /\ dev.st = "recv" /\ dev.path = call.path
    BY <1>4 DEF Word, Message, Service
  <2> QED BY <1>2, <1>4, <2>1 DEF SyncServes
<1>5. CASE dev = Idle /\ Queue' = <<Word("RCV2", 0)>> /\ Head(up) = Request("RCV2", call.path)
  <2>1. Head(up).id = "RCV2" /\ Head(up).path = call.path /\ dev.st = "idle"
    BY <1>5 DEF Request, Message, Idle, Service
  <2>2. dev' = Service("recv", call.path, 0, <<>>) /\ UNCHANGED <<out, fs, buf>>
    BY <2>1 DEF SyncServes
  <2>3. Owed'
    BY <1>5, <2>2 DEF Owed
  <2> QED BY <2>2, <2>3, StillOwed
<1> QED BY <1>3, <1>4, <1>5

LEMMA ServesQuit ==
    ASSUME Typed, Unserved, Stage, SyncServes,
           UNCHANGED <<call, peer, pc, source, feats, acc>>,
           down' = down, Queue' = <<>>, pc = "quit", dev = Idle, Head(up) = Word("QUIT", 0)
    PROVE  Typed' /\ Stage'
<1>1. Head(up).id = "QUIT" /\ dev.st = "idle"
  BY DEF Word, Message, Idle, Service
<1>2. dev' = Service("done", NoName, 0, <<>>) /\ UNCHANGED <<out, buf>>
  BY <1>1 DEF SyncServes
<1>3. Owed'
  BY <1>2 DEF Owed, Service
<1> QED BY <1>2, <1>3, StillOwed

(* The requests of a push, one after the other. *)
LEMMA DataLess ==
    ASSUME Len(Queue) \in Nat, Len(Queue') = Len(Queue) - 1,
           \A i \in 1 .. Len(Queue) - 1 : Queue'[i] = Queue[i + 1],
           pc' = pc, NEW k \in Nat, DataFrom(k + 1)
    PROVE  DataFrom(k)'
<1>1. pc' = "status" => Len(Queue') > k
  BY DEF DataFrom
<1>2. ASSUME NEW i \in 1 .. Len(Queue'), i > k
      PROVE  IF pc' = "status" /\ i = Len(Queue') THEN Queue'[i] = Word("DONE", Now)
                                                  ELSE Queue'[i].id = "DATA"
  <2>1. i + 1 \in 1 .. Len(Queue) /\ i + 1 > k + 1 /\ i \in 1 .. Len(Queue) - 1
        /\ (i = Len(Queue') <=> i + 1 = Len(Queue))
    BY <1>2
  <2>2. IF pc = "status" /\ i + 1 = Len(Queue) THEN Queue[i + 1] = Word("DONE", Now)
                                               ELSE Queue[i + 1].id = "DATA"
    BY <2>1 DEF DataFrom
  <2> QED BY <2>1, <2>2
<1> QED BY <1>1, <1>2 DEF DataFrom

LEMMA ServesRequest ==
    ASSUME Typed, Unserved, Stage, SyncServes,
           UNCHANGED <<call, peer, pc, source, feats, acc>>, down' = down,
           pc \in {"source", "status"},
           Len(Queue) \in Nat, Len(Queue) >= 1, Queue[1] = Head(up),
           Len(Queue') = Len(Queue) - 1,
           \A i \in 1 .. Len(Queue) - 1 : Queue'[i] = Queue[i + 1],
           \/ /\ dev = Idle /\ Len(Queue) >= 2 /\ DataFrom(2)
              /\ Queue[1] = Request("SND2", call.path) /\ Queue[2] = Word("SND2", call.mode)
           \/ /\ dev = Idle /\ DataFrom(1)
              /\ Queue[1] = Message("SEND", call.path, call.mode, <<>>)
           \/ /\ dev = Service("send", call.path, 0, <<>>) /\ DataFrom(1)
              /\ Queue[1] = Word("SND2", call.mode)
    PROVE  Typed' /\ Stage'
<1>1. CASE /\ dev = Idle /\ Len(Queue) >= 2 /\ DataFrom(2)
           /\ Queue[1] = Request("SND2", call.path) /\ Queue[2] = Word("SND2", call.mode)
  <2>1. Head(up).id = "SND2" /\ Head(up).path = call.path /\ dev.st = "idle"
    BY <1>1 DEF Request, Message, Idle, Service
  <2>2. dev' = Service("send", call.path, 0, <<>>) /\ UNCHANGED <<out, buf>>
    BY <2>1 DEF SyncServes
  <2>3. DataFrom(1)'
    <3>1. 1 \in Nat /\ 1 + 1 = 2
      OBVIOUS
    <3>2. DataFrom(1 + 1)
      BY <1>1, <3>1
    <3> QED BY <3>1, <3>2, DataLess
  <2>4. Len(Queue') >= 1 /\ Queue'[1] = Word("SND2", call.mode)
    <3>1. 1 \in 1 .. Len(Queue) - 1 /\ 1 + 1 = 2
      BY <1>1
    <3> QED BY <1>1, <3>1
  <2>5. Sending'
    BY <2>2, <2>3, <2>4 DEF Sending
  <2> QED BY <2>2, <2>5, StillOwed DEF Owed
<1>2. CASE /\ dev = Idle /\ DataFrom(1)
           /\ Queue[1] = Message("SEND", call.path, call.mode, <<>>)
  <2>1. /\ Head(up).id = "SEND" /\ Head(up).path = call.path /\ Head(up).num = call.mode
        /\ dev.st = "idle"
    BY <1>2 DEF Message, Idle, Service
  <2>2. dev' = Service("data", call.path, call.mode, <<>>) /\ UNCHANGED <<out, buf>>
    BY <2>1 DEF SyncServes
  <2>3. DataFrom(0)'
    <3>1. 0 \in Nat /\ 0 + 1 = 1
      OBVIOUS
    <3>2. DataFrom(0 + 1)
      BY <1>2, <3>1
    <3> QED BY <3>1, <3>2, DataLess
  <2>4. Sending'
    BY <2>2, <2>3 DEF Sending, Service
  <2> QED BY <2>2, <2>4, StillOwed DEF Owed
<1>3. CASE /\ dev = Service("send", call.path, 0, <<>>) /\ DataFrom(1)
           /\ Queue[1] = Word("SND2", call.mode)
  <2>1. /\ Head(up).path = NoName /\ Head(up).num = call.mode
        /\ dev.st = "send" /\ dev.path = call.path
    BY <1>3 DEF Word, Message, Service
  <2>2. dev' = Service("data", call.path, call.mode, <<>>) /\ UNCHANGED <<out, buf>>
    BY <2>1 DEF SyncServes
  <2>3. DataFrom(0)'
    <3>1. 0 \in Nat /\ 0 + 1 = 1
      OBVIOUS
    <3>2. DataFrom(0 + 1)
      BY <1>3, <3>1
    <3> QED BY <3>1, <3>2, DataLess
  <2>4. Sending'
    BY <2>2, <2>3 DEF Sending, Service
  <2> QED BY <2>2, <2>4, StillOwed DEF Owed
<1> QED BY <1>1, <1>2, <1>3

LEMMA ServesData ==
    ASSUME FilesTyped, Typed, Unserved, Stage, SyncServes,
           UNCHANGED <<call, peer, pc, source, feats, acc>>, down' = down,
           pc \in {"source", "status"},
           Len(Queue) \in Nat, Len(Queue) >= 1, Queue[1] = Head(up),
           Len(Queue') = Len(Queue) - 1, Queue' \in Seq(Sent),
           \A i \in 1 .. Len(Queue) - 1 : Queue'[i] = Queue[i + 1],
           dev \in Services, Head(up).id = "DONE" => dev.body \in Bodies,
           dev.st = "data" /\ dev.path = call.path /\ dev.mode = call.mode /\ DataFrom(0)
    PROVE  Typed' /\ Stage'
<1>1. OfCall /\ Stream = <<>> /\ call.op = "push" /\ call \in SyncCalls
  BY DEF Stage, Unserved, OfCall, Typed
<1>2. IF pc = "status" /\ 1 = Len(Queue) THEN Queue[1] = Word("DONE", Now)
                                         ELSE Queue[1].id = "DATA"
  <2>1. 1 \in 1 .. Len(Queue) /\ 1 > 0
    OBVIOUS
  <2> QED BY <2>1 DEF DataFrom
<1>3. CASE pc = "status" /\ Len(Queue) = 1
  <2>1. Head(up).id = "DONE" /\ Head(up).num = Now
    BY <1>2, <1>3 DEF Word, Message
  <2>2. Queue' = <<>>
    BY <1>3
  <2>3. /\ \/ /\ dev.path \notin ReadOnly
              /\ fs' = [fs EXCEPT ![dev.path] = File(dev.mode, Head(up).num, dev.body)]
              /\ out' = out \o <<Id("OKAY"), Num(0)>>
           \/ /\ dev.path \in ReadOnly
              /\ out' = out \o Failed /\ UNCHANGED fs
        /\ dev' = Idle /\ UNCHANGED buf
    BY <2>1 DEF SyncServes
  <2>4. PICK ok : ok = <<Id("OKAY"), Num(0)>>
    OBVIOUS
  <2>5. CASE call.path \notin ReadOnly
    <3>1. /\ fs' = [fs EXCEPT ![call.path] = File(call.mode, Now, dev.body)] /\ out' = out \o ok
      BY <2>1, <2>3, <2>4, <2>5
    <3>2. call.path \in DOMAIN fs
      BY <1>1, CallPath DEF FilesTyped
    <3>3. fs'[call.path] = File(call.mode, Now, dev.body)
      BY <3>1, <3>2
    <3>4. Stored'
      BY <1>1, <1>3, <2>1, <3>3 DEF Stored, File, OfCall
    <3>5. Due(ok)'
      BY <1>3, <2>4, <3>4 DEF Due
    <3>6. ok \in Seq(Units)
      BY <2>4, Tails
    <3> QED BY <1>1, <2>2, <2>3, <3>1, <3>5, <3>6, Answered
  <2>6. CASE call.path \in ReadOnly
    <3>1. out' = out \o Failed
      BY <2>3, <2>6
    <3>2. Due(Failed)'
      BY <1>1, <1>3, <2>6 DEF Due, Refused
    <3>3. Failed \in Seq(Units)
      BY Tails
    <3> QED BY <1>1, <2>2, <2>3, <3>1, <3>2, <3>3, Answered
  <2> QED BY <2>5, <2>6
<1>4. CASE ~(pc = "status" /\ Len(Queue) = 1)
  <2>1. Head(up).id = "DATA"
    BY <1>2, <1>4
  <2>2. dev' = [dev EXCEPT !.body = @ \o Head(up).body] /\ UNCHANGED <<out, buf>>
    BY <2>1 DEF SyncServes
  <2>3. dev'.st = "data" /\ dev'.path = call.path /\ dev'.mode = call.mode
    BY <2>2 DEF Services
  <2>4. DataFrom(0)'
    <3>1. pc' = "status" => Len(Queue') > 0
      BY <1>4
    <3>2. ASSUME NEW i \in 1 .. Len(Queue')
          PROVE  IF pc' = "status" /\ i = Len(Queue') THEN Queue'[i] = Word("DONE", Now)
                                                      ELSE Queue'[i].id = "DATA"
      <4>1. i + 1 \in 1 .. Len(Queue) /\ i + 1 > 0 /\ i \in 1 .. Len(Queue) - 1
            /\ (i = Len(Queue') <=> i + 1 = Len(Queue))
        OBVIOUS
      <4>2. IF pc = "status" /\ i + 1 = Len(Queue) THEN Queue[i + 1] = Word("DONE", Now)
                                                   ELSE Queue[i + 1].id = "DATA"
        BY <4>1 DEF DataFrom
      <4> QED BY <4>1, <4>2
    <3> QED BY <3>1, <3>2 DEF DataFrom
  <2>5. Sending'
    BY <2>3, <2>4 DEF Sending
  <2> QED BY <2>2, <2>5, StillOwed DEF Owed
<1> QED BY <1>3, <1>4

LEMMA ServesStage ==
    ASSUME TalkInv, Steady, SyncServes, UNCHANGED <<shellVars, deviceVars>>
    PROVE  Typed' /\ Stage' /\ pc \notin {"idle", "return"}
           /\ (Head(up).id = "DONE" => pc # "quit")
<1>1. /\ TypeOK /\ up # <<>> /\ up' = Tail(up) /\ peer = "open" /\ todo' = todo
      /\ UNCHANGED <<down, peer, own, buf, call, pc, n, acc, res, feats, source, clean, user>>
      /\ dev.st \in {"idle", "recv", "send", "data", "stuck"}
  BY Serves
<1>2. /\ Len(Queue) \in Nat /\ Len(Queue) >= 1 /\ Queue[1] = Head(up)
      /\ Len(Queue') = Len(Queue) - 1 /\ Queue' \in Seq(Sent)
      /\ \A i \in 1 .. Len(Queue) - 1 : Queue'[i] = Queue[i + 1]
  BY <1>1, QueueLess
<1>3. Queue # <<>>
  BY <1>2
<1>4. FilesTyped /\ Typed /\ Stage /\ Unserved /\ Owed /\ OfCall
  BY <1>1, <1>3 DEF TalkInv, Talking, Conversation, Stage, Served, Unserved
<1>5. Len(Queue) = 1 => Queue' = <<>>
  BY <1>2
<1>6. pc \notin {"idle", "return"}
  BY <1>4 DEF Unserved
<1>7. CASE pc \in {"stat", "entry", "chunk"} /\ dev = Idle /\ Queue = RequestOf(call)
  <2>1. Head(up).id = "DONE" => pc # "quit"
    BY <1>7
  <2>2. CASE pc = "stat"
    <3>1. Queue = <<Request(StatId, call.path)>>
      BY <1>4, <1>7, <2>2 DEF OfCall, RequestOf
    <3>2. Queue' = <<>> /\ Head(up) = Request(StatId, call.path)
      BY <1>2, <1>5, <3>1
    <3> QED BY <1>1, <1>4, <1>6, <1>7, <2>1, <2>2, <3>2, ServesStat
  <2>3. CASE pc = "entry"
    <3>1. Queue = <<Request(ListId, call.path)>>
      BY <1>4, <1>7, <2>3 DEF OfCall, RequestOf
    <3>2. Queue' = <<>> /\ Head(up) = Request(ListId, call.path)
      BY <1>2, <1>5, <3>1
    <3> QED BY <1>1, <1>4, <1>6, <1>7, <2>1, <2>3, <3>2, ServesList
  <2>4. CASE pc = "chunk"
    <3>1. Queue = RecvRequest(call.path)
      BY <1>4, <1>7, <2>4 DEF OfCall, RequestOf
    <3>2. CASE Queue = <<Request("RECV", call.path)>>
      <4>1. Queue' = <<>> /\ Head(up) = Request("RECV", call.path)
        BY <1>2, <1>5, <3>2
      <4> QED BY <1>1, <1>4, <1>6, <1>7, <2>1, <2>4, <4>1, ServesPull
    <3>3. CASE Queue = <<Request("RCV2", call.path), Word("RCV2", 0)>>
      <4>1. Len(Queue) = 2 /\ Queue[1] = Request("RCV2", call.path) /\ Queue[2] = Word("RCV2", 0)
        BY <3>3
      <4>2. Len(Queue') = 1 /\ Queue'[1] = Word("RCV2", 0) /\ Head(up) = Request("RCV2", call.path)
        <5>1. 1 \in 1 .. Len(Queue) - 1 /\ 1 + 1 = 2
          BY <4>1
        <5> QED BY <1>2, <4>1, <5>1
      <4>3. Queue' = <<Word("RCV2", 0)>>
        BY <1>2, <4>2
      <4> QED BY <1>1, <1>4, <1>6, <1>7, <2>1, <2>4, <4>2, <4>3, ServesPull
    <3> QED BY <3>1, <3>2, <3>3 DEF RecvRequest
  <2> QED BY <1>7, <2>2, <2>3, <2>4
<1>8. CASE /\ pc = "chunk" /\ dev = Service("recv", call.path, 0, <<>>)
           /\ Queue = <<Word("RCV2", 0)>>
  <2>1. Queue' = <<>> /\ Head(up) = Word("RCV2", 0)
    BY <1>2, <1>5, <1>8
  <2> QED BY <1>1, <1>4, <1>6, <1>8, <2>1, ServesPull
<1>9. CASE pc \in {"source", "status"} /\ Sending
  <2>1. CASE dev.st = "data" /\ dev.path = call.path /\ dev.mode = call.mode /\ DataFrom(0)
    <3>1. dev \in Services
      BY <2>1 DEF TalkInv, IInv, TypeOK, Processes
    <3>2. Head(up).id = "DONE" => dev.body \in Bodies
      <4>1. 1 \in 1 .. Len(Queue)
        BY <1>2
      <4> QED BY <1>2, <2>1, <4>1 DEF TalkInv, IInv, Whole, Follows
    <3> QED BY <1>1, <1>2, <1>4, <1>6, <1>9, <2>1, <3>1, <3>2, ServesData
  <2>2. CASE ~(dev.st = "data" /\ dev.path = call.path /\ dev.mode = call.mode /\ DataFrom(0))
    BY <1>1, <1>2, <1>4, <1>6, <1>9, <2>2, ServesRequest DEF Sending
  <2> QED BY <2>1, <2>2
<1>10. CASE pc = "quit" /\ dev = Idle /\ Queue = <<Word("QUIT", 0)>>
  <2>1. Queue' = <<>> /\ Head(up) = Word("QUIT", 0)
    BY <1>2, <1>5, <1>10
  <2>2. Head(up).id # "DONE"
    BY <2>1 DEF Word, Message
  <2> QED BY <1>1, <1>4, <1>6, <1>10, <2>1, <2>2, ServesQuit
<1>11. ~(pc = "quit" /\ dev.st = "done" /\ Queue = <<>>)
  BY <1>3
<1> QED BY <1>4, <1>7, <1>8, <1>9, <1>10, <1>11 DEF Owed

LEMMA StoredTyped ==
    ASSUME FilesTyped, NEW p, NEW mode \in Nat, NEW mtime \in Nat, NEW body \in Seq(Content),
           fs' = [fs EXCEPT ![p] = File(mode, mtime, body)]
    PROVE  FilesTyped'
<1>1. body \in Seq(Stuff)
  <2>1. Content \subseteq Stuff
    BY DEF Stuff
  <2>2. \A i \in 1 .. Len(body) : body[i] \in Stuff
    BY <2>1
  <2> QED BY <2>2
<1>2. File(mode, mtime, body) \in [mode : Nat, mtime : Nat, body : Seq(Stuff)]
  BY <1>1 DEF File
<1> QED BY <1>2 DEF FilesTyped

LEMMA SyncServesTalk ==
    ASSUME TalkInv, own = "open", SyncServes, UNCHANGED <<shellVars, deviceVars>>
    PROVE  Talking'
<1>1. /\ UNCHANGED <<peer, own, call, pc, n, acc, res, feats, source, clean, user>>
      /\ TypeOK /\ up # <<>> /\ up' = Tail(up) /\ todo' = todo
      /\ dev.st \in {"idle", "recv", "send", "data", "stuck"}
      /\ \/ fs' = fs
         \/ /\ dev.st = "data" /\ Head(up).id = "DONE"
            /\ fs' = [fs EXCEPT ![dev.path] = File(dev.mode, Head(up).num, dev.body)]
  BY Serves
<1>2. FilesTyped'
  <2>1. CASE fs' = fs
    BY <2>1, SameFiles DEF TalkInv, Talking
  <2>2. CASE fs' = [fs EXCEPT ![dev.path] = File(dev.mode, Head(up).num, dev.body)]
    <3>1. dev \in Services /\ up \in Seq(SyncMessages)
      BY <1>1 DEF TypeOK, Processes
    <3>2. Head(up) \in SyncMessages
      BY <1>1, <3>1, Taken
    <3>3. dev.mode \in Nat /\ Head(up).num \in Nat /\ dev.body \in Seq(Content)
      BY <3>1, <3>2 DEF Services, SyncMessages
    <3>4. FilesTyped
      BY DEF TalkInv, Talking
    <3> QED BY <2>2, <3>3, <3>4, StoredTyped
  <2> QED BY <1>1, <2>1, <2>2
<1>3. Apart'
  BY <1>1 DEF TalkInv, Talking, Apart
<1>4. CASE Steady
  <2>1. Typed' /\ Stage' /\ pc \notin {"idle", "return"} /\ (Head(up).id = "DONE" => pc # "quit")
    BY <1>4, ServesStage
  <2>2. AnswerIsTrue'
    <3>1. CASE pc = "quit"
      <4>1. fs' = fs
        BY <1>1, <2>1, <3>1
      <4> QED BY <1>1, <3>1, <4>1, SameAnswer DEF TalkInv, Talking
    <3>2. CASE pc # "quit"
      BY <1>1, <2>1, <3>2, Unanswered
    <3> QED BY <3>1, <3>2
  <2> QED BY <1>2, <1>3, <2>1, <2>2 DEF Talking, Conversation
<1>5. CASE ~Steady
  <2>1. ~Steady'
    BY <1>1, <1>5 DEF Steady
  <2>2. AnswerIsTrue'
    <3>1. CASE user = "shell"
      BY <1>1, <3>1, Unanswered DEF TalkInv, Talking, Apart
    <3>2. CASE ~clean
      BY <1>1, <3>2, Unanswered
    <3>3. CASE pc = "return" /\ res \notin {"ok", "remote"}
      BY <1>1, <3>3 DEF AnswerIsTrue, Returned, TalkInv, Talking
    <3> QED BY <1>5, <3>1, <3>2, <3>3 DEF Steady
  <2> QED BY <1>2, <1>3, <2>1, <2>2 DEF Talking, Conversation
<1> QED BY <1>4, <1>5

-----------------------------------------------------------------------------
(* It holds at first, every step keeps it, so it always holds. *)
LEMMA TalkInitial == Init => TalkInv
<1> SUFFICES ASSUME Init PROVE TalkInv
  OBVIOUS
<1>1. fs = Files0 /\ own = "closed" /\ pc = "idle" /\ call = [op |-> "none"]
  BY DEF Init
<1>2. FilesTyped
  <2>1. ASSUME NEW p \in Names
        PROVE  Files0[p] \in [mode : Nat, mtime : Nat, body : Seq(Stuff)]
    <3>1. Files0[p] \in [mode : Nat, mtime : Nat, body : Seq(Range(Files0[p].body))]
      BY DeviceAssumption
    <3>2. PICK b : b = Files0[p].body
      OBVIOUS
    <3>3. b \in Seq(Range(b)) /\ Range(b) \subseteq Stuff
      BY <3>1, <3>2 DEF Stuff
    <3>4. b \in Seq(Stuff)
      <4>1. \A i \in 1 .. Len(b) : b[i] \in Stuff
        BY <3>3
      <4> QED BY <3>3, <4>1
    <3> QED BY <3>1, <3>2, <3>4
  <2>2. Files0 = [p \in Names |-> Files0[p]]
    BY DeviceAssumption
  <2> QED BY <1>1, <2>1, <2>2 DEF FilesTyped
<1>3. Apart /\ ~Steady
  BY <1>1 DEF Apart, Steady
<1>4. AnswerIsTrue
  BY <1>1 DEF AnswerIsTrue, Returned, SyncOps
<1> QED BY <1>2, <1>3, <1>4, DeviceInitial DEF TalkInv, Talking, Conversation

LEMMA TalkStep == ASSUME TalkInv, Next PROVE TalkInv'
<1>1. IInv'
  BY DeviceStep DEF TalkInv
<1>2. Talking'
  <2>1. CASE Caller
    <3>1. CASE \E c \in SyncCalls : OpenSync(c) \/ NextCall(c) \/ OpenFails(c)
      BY <3>1, OpenSyncTalk, OpenFailsTalk
    <3>2. CASE \E c \in ShellCalls : OpenShell(c) \/ OpenFails(c)
      BY <3>2, OpenShellTalk, OpenFailsTalk
    <3>3. CASE PushFails
      BY <3>3, ReadFailsTalk DEF PushFails
    <3> QED BY <2>1, <3>1, <3>2, <3>3, LeaveTalk DEF Caller
  <2>2. CASE CallStep
    <3>1. CASE SyncClient /\ UNCHANGED <<shellVars, deviceVars>>
      BY <3>1, ReadStatTalk, ReadEntryTalk, ReadNameTalk, ReadChunkTalk, ReadLenTalk,
         ReadBodyTalk, ReadStatusTalk, ReadEndTalk, ReadFailLenTalk, ReadFailTalk, FillTalk,
         ReadFailsTalk, PushTalk DEF SyncClient
    <3>2. CASE ShellClient /\ UNCHANGED <<syncVars, deviceVars>>
      <4>1. own = "open"
        BY <3>2 DEF ShellClient, ParseFrame, FramesFill, FramesEnd, DrainFills, DrainEnd,
           TalkInv, Talking, Apart
      <4> QED BY <3>2, <4>1, ShellTalk
    <3>3. CASE Quit
      BY <3>3, LeaveTalk
    <3> QED BY <2>2, <3>1, <3>2, <3>3, PostTalk, ReadFailsTalk, ReturnTalk DEF CallStep
  <2>3. CASE ServiceStep
    <3>1. CASE /\ call.op \in {"shell", "checked", "exec", "screencap", "stdin"}
               /\ (ShellTakes \/ Echo \/ Talk \/ Exit)
               /\ UNCHANGED <<syncVars, deviceVars>>
      <4>1. call.op \notin SyncOps
        BY <3>1 DEF SyncOps
      <4> QED BY <2>3, <3>1, <4>1, ShellTalk DEF ServiceStep
    <3> QED BY <2>3, <3>1, SyncServesTalk, FlushTalk, VanishTalk DEF ServiceStep
  <2>4. CASE Vanishes
    BY <2>4, VanishTalk DEF Vanishes
  <2> QED BY <2>1, <2>2, <2>3, <2>4 DEF Next
<1> QED BY <1>1, <1>2 DEF TalkInv

LEMMA TalkStutter == ASSUME TalkInv, UNCHANGED vars PROVE TalkInv'
<1>1. UNCHANGED <<up, down, peer, own, buf, out, dev, call, todo, pc, n, acc, res, feats, fs,
                  source, user, clean>>
  BY DEF vars, readerVars, channelVars, syncVars, deviceVars
<1>2. Queue' = Queue /\ Stream' = Stream
  BY <1>1, SameStream DEF Queue
<1>3. Steady => Typed'
  BY <1>1 DEF TalkInv, Talking, Conversation, Typed
<1>4. Talking'
  BY <1>1, <1>2, <1>3, Kept
<1> QED BY <1>4, DeviceStutter DEF TalkInv

LEMMA TalkAlways == Spec => []TalkInv
<1>1. TalkInv /\ [Next]_vars => TalkInv'
  BY TalkStep, TalkStutter
<1> QED BY <1>1, TalkInitial, PTL DEF Spec

-----------------------------------------------------------------------------
(* The theorems *)

(* A sync call that returns Ok has the device's own answer to it, of its    *)
(* path and no other and whole: a stat that of the file, a listing every    *)
(* entry in order, a pull the whole file, and a push is Ok only when the    *)
(* file is there.  A failure reported as the device's is one.  It rests on  *)
(* services/sync/mod.rs:38, "Requests are sequential", on every reply being *)
(* read to its end, FAIL's text included, and on no call having been given  *)
(* up before on the same channel.                                           *)
THEOREM AnswersAreTrue == Spec => []AnswerIsTrue
<1>1. TalkInv => AnswerIsTrue
  BY DEF TalkInv, Talking
<1> QED BY <1>1, TalkAlways, PTL

(* Between two calls on a channel nothing of the last is left on it, in     *)
(* either direction, and the service waits for a request: this is what      *)
(* lets SyncClient be used again after an Ok and after the device's FAIL.   *)
THEOREM EndsInStep == Spec => []InStep
<1>1. TalkInv => InStep
  <2> SUFFICES ASSUME TalkInv, user = "client", pc = "idle", own = "open", clean, peer = "open"
               PROVE  up = <<>> /\ down = <<>> /\ buf = <<>> /\ out = <<>> /\ dev.st = "idle"
    BY DEF InStep
  <2>1. Steady
    BY DEF Steady
  <2> QED BY <2>1, AtRest DEF Idle, Service
<1> QED BY <1>1, TalkAlways, PTL

-----------------------------------------------------------------------------
(* What a command has written, as frames, as the words of shell,v2, and as  *)
(* the bare output of the older services.                                   *)
Told == [id : Kinds, data : {<<Piece(k)>> : k \in Nat}]
WordsIn(f) == Words(f.id, f.data[1])
WordsOf(s) == FlattenSeq([i \in DOMAIN s |-> WordsIn(s[i])])
Said(s) == [i \in DOMAIN s |-> s[i].data[1]]
ExitWords == {<<Id("Exit"), Num(1), Num(x)>> : x \in ExitCodes}

LEMMA TokensOfFrames ==
    /\ \A x \in Kinds \cup {"Exit"} : Id(x) \in Units
    /\ \A k \in Nat : Num(k) \in Units /\ Piece(k) \in Units
    /\ "Exit" \notin Kinds
  BY DEF Units, Kinds, Outputs, Ignored, Unknown

LEMMA ToldIs ==
    ASSUME NEW f \in Told
    PROVE  \E k \in Nat : f = Frame(f.id, <<Piece(k)>>) /\ f.id \in Kinds
                          /\ f.data = <<Piece(k)>> /\ f.data[1] = Piece(k)
<1>1. PICK k \in Nat : f.data = <<Piece(k)>>
  BY DEF Told
<1>2. f = [id |-> f.id, data |-> f.data] /\ f.id \in Kinds
  BY DEF Told
<1> QED BY <1>1, <1>2 DEF Frame

LEMMA FrameIsTold ==
    ASSUME NEW x \in Kinds, NEW k \in Nat
    PROVE  /\ Frame(x, <<Piece(k)>>) \in Told /\ Frame(x, <<Piece(k)>>).id = x
           /\ Frame(x, <<Piece(k)>>).data[1] = Piece(k)
  BY DEF Frame, Told

LEMMA WordsInIs ==
    ASSUME NEW f \in Told
    PROVE  /\ f.data[1] \in Units
           /\ v2 => WordsIn(f) = <<Id(f.id), Num(1), f.data[1]>>
           /\ ~v2 => WordsIn(f) = <<f.data[1]>>
           /\ WordsIn(f) \in Seq(Units)
<1>1. PICK k \in Nat : f.id \in Kinds /\ f.data[1] = Piece(k)
  BY ToldIs
<1>2. PICK y : y = f.data[1]
  OBVIOUS
<1>3. y \in Units
  BY <1>1, <1>2, TokensOfFrames
<1>4. PICK i : i = Id(f.id)
  OBVIOUS
<1>5. PICK m : m = Num(1)
  OBVIOUS
<1>6. i \in Units /\ m \in Units
  BY <1>1, <1>4, <1>5, TokensOfFrames
<1>7. <<i, m, y>> \in Seq(Units) /\ <<y>> \in Seq(Units)
  BY <1>3, <1>6
<1>8. WordsIn(f) = IF v2 THEN <<i, m, y>> ELSE <<y>>
  BY <1>2, <1>4, <1>5 DEF WordsIn, Words
<1> QED BY <1>2, <1>3, <1>4, <1>5, <1>7, <1>8

(* The same of one frame more, and of the first and the others. *)
LEMMA AppendIs ==
    ASSUME NEW S, NEW s \in Seq(S), NEW x \in S
    PROVE  /\ Append(s, x) \in Seq(S) /\ Len(Append(s, x)) = Len(s) + 1 /\ Len(s) \in Nat
           /\ DOMAIN s = 1 .. Len(s) /\ DOMAIN Append(s, x) = 1 .. Len(s) + 1
           /\ \A i \in 1 .. Len(s) : Append(s, x)[i] = s[i]
           /\ Append(s, x)[Len(s) + 1] = x
  OBVIOUS

LEMMA MapSeq ==
    ASSUME NEW S, NEW k \in Nat, NEW m, DOMAIN m = 1 .. k, m = [i \in 1 .. k |-> m[i]],
           \A i \in 1 .. k : m[i] \in S
    PROVE  m \in Seq(S) /\ Len(m) = k
  OBVIOUS

LEMMA WordsOfType ==
    ASSUME NEW s \in Seq(Told), NEW m, m = [i \in DOMAIN s |-> WordsIn(s[i])]
    PROVE  /\ m \in Seq(Seq(Units)) /\ Len(m) = Len(s) /\ WordsOf(s) = FlattenSeq(m)
           /\ WordsOf(s) \in Seq(Units)
<1>1. Len(s) \in Nat /\ DOMAIN s = 1 .. Len(s) /\ \A i \in 1 .. Len(s) : s[i] \in Told
  OBVIOUS
<1>2. \A i \in 1 .. Len(s) : m[i] \in Seq(Units)
  BY <1>1, WordsInIs
<1>3. m \in Seq(Seq(Units)) /\ Len(m) = Len(s)
  BY <1>1, <1>2, MapSeq
<1>4. WordsOf(s) = FlattenSeq(m)
  BY DEF WordsOf
<1> QED BY <1>3, <1>4, FlatType

LEMMA WordsMore ==
    ASSUME NEW s \in Seq(Told), NEW f \in Told
    PROVE  WordsOf(Append(s, f)) = WordsOf(s) \o WordsIn(f)
<1>1. PICK m : m = [i \in DOMAIN s |-> WordsIn(s[i])]
  OBVIOUS
<1>2. PICK a : a = Append(s, f)
  OBVIOUS
<1>3. PICK q : q = [i \in DOMAIN a |-> WordsIn(a[i])]
  OBVIOUS
<1>4. /\ a \in Seq(Told) /\ Len(a) = Len(s) + 1 /\ Len(s) \in Nat
      /\ DOMAIN s = 1 .. Len(s) /\ DOMAIN a = 1 .. Len(s) + 1
      /\ \A i \in 1 .. Len(s) : a[i] = s[i]
      /\ a[Len(s) + 1] = f
  BY <1>2, AppendIs
<1>5. m \in Seq(Seq(Units)) /\ Len(m) = Len(s) /\ WordsOf(s) = FlattenSeq(m)
  BY <1>1, WordsOfType
<1>6. q \in Seq(Seq(Units)) /\ Len(q) = Len(a) /\ WordsOf(a) = FlattenSeq(q)
  BY <1>3, <1>4, WordsOfType
<1>7. PICK w : w = WordsIn(f)
  OBVIOUS
<1>8. w \in Seq(Units)
  BY <1>7, WordsInIs
<1>9. q = Append(m, w)
  <2>1. \A i \in 1 .. Len(s) : q[i] = m[i]
    BY <1>1, <1>3, <1>4
  <2>2. q[Len(s) + 1] = w
    BY <1>3, <1>4, <1>7
  <2>3. PICK A : A = Seq(Units)
    OBVIOUS
  <2>4. m \in Seq(A) /\ q \in Seq(A) /\ w \in A
    BY <1>5, <1>6, <1>8, <2>3
  <2>5. PICK p : p = Append(m, w)
    OBVIOUS
  <2>6. /\ p \in Seq(A) /\ Len(p) = Len(m) + 1
        /\ \A i \in 1 .. Len(m) : p[i] = m[i]
        /\ p[Len(m) + 1] = w
    BY <2>4, <2>5, AppendIs
  <2>7. ASSUME NEW i \in 1 .. Len(q) PROVE q[i] = p[i]
    <3>1. Len(q) = Len(m) + 1 /\ Len(m) = Len(s) /\ Len(s) \in Nat
      BY <1>4, <1>5, <1>6
    <3>2. CASE i = Len(s) + 1
      BY <2>2, <2>6, <3>1, <3>2
    <3>3. CASE i \in 1 .. Len(s)
      BY <2>1, <2>6, <3>1, <3>3
    <3> QED BY <3>1, <3>2, <3>3
  <2> QED BY <1>4, <1>5, <1>6, <2>4, <2>5, <2>6, <2>7, Same
<1>10. FlattenSeq(Append(m, w)) = FlattenSeq(m) \o w
  BY <1>5, <1>8, FlatAppend
<1> QED BY <1>2, <1>5, <1>6, <1>7, <1>9, <1>10

LEMMA WordsFirst ==
    ASSUME NEW s \in Seq(Told), s # <<>>
    PROVE  /\ WordsOf(s) = WordsIn(Head(s)) \o WordsOf(Tail(s))
           /\ Head(s) \in Told /\ Tail(s) \in Seq(Told)
<1>1. PICK t : t = Tail(s)
  OBVIOUS
<1>2. PICK m : m = [i \in DOMAIN s |-> WordsIn(s[i])]
  OBVIOUS
<1>3. PICK q : q = [i \in DOMAIN t |-> WordsIn(t[i])]
  OBVIOUS
<1>4. /\ Len(s) \in Nat /\ Len(s) >= 1 /\ Head(s) = s[1] /\ s[1] \in Told
      /\ t \in Seq(Told) /\ Len(t) = Len(s) - 1
      /\ \A i \in 1 .. Len(s) - 1 : t[i] = s[i + 1]
  BY <1>1, Taken
<1>5. m \in Seq(Seq(Units)) /\ Len(m) = Len(s) /\ WordsOf(s) = FlattenSeq(m)
  BY <1>2, WordsOfType
<1>6. q \in Seq(Seq(Units)) /\ Len(q) = Len(t) /\ WordsOf(t) = FlattenSeq(q)
  BY <1>3, <1>4, WordsOfType
<1>7. m # <<>>
  BY <1>4, <1>5
<1>8. FlattenSeq(m) = Head(m) \o FlattenSeq(Tail(m))
  BY <1>5, <1>7, FlatHead
<1>9. Head(m) = WordsIn(Head(s)) /\ Tail(m) = q
  <2>1. PICK A : A = Seq(Units)
    OBVIOUS
  <2>2. m \in Seq(A) /\ q \in Seq(A)
    BY <1>5, <1>6, <2>1
  <2>3. PICK p : p = Tail(m)
    OBVIOUS
  <2>4. /\ Head(m) = m[1] /\ p \in Seq(A) /\ Len(p) = Len(m) - 1
        /\ \A i \in 1 .. Len(m) - 1 : p[i] = m[i + 1]
    BY <1>7, <2>2, <2>3, Taken
  <2>5. m[1] = WordsIn(s[1])
    BY <1>2, <1>4
  <2>6. ASSUME NEW i \in 1 .. Len(q) PROVE p[i] = q[i]
    <3>1. i \in 1 .. Len(m) - 1 /\ i \in DOMAIN t /\ i + 1 \in DOMAIN s
      BY <1>4, <1>5, <1>6
    <3>2. p[i] = WordsIn(s[i + 1])
      BY <1>2, <2>4, <3>1
    <3>3. q[i] = WordsIn(t[i]) /\ t[i] = s[i + 1]
      BY <1>3, <1>4, <1>5, <3>1
    <3> QED BY <3>2, <3>3
  <2>7. Len(p) = Len(q)
    BY <1>4, <1>5, <1>6, <2>4
  <2>8. p = q
    BY <2>2, <2>4, <2>6, <2>7, Same
  <2> QED BY <1>4, <2>3, <2>4, <2>5, <2>8
<1> QED BY <1>1, <1>4, <1>5, <1>6, <1>8, <1>9

LEMMA ShownType ==
    ASSUME NEW s \in Seq(Told), NEW m, m = [i \in DOMAIN s |-> Shown(s[i])]
    PROVE  /\ m \in Seq(Seq(Told)) /\ Len(m) = Len(s) /\ OutputsOf(s) = FlattenSeq(m)
           /\ OutputsOf(s) \in Seq(Told)
<1>1. Len(s) \in Nat /\ DOMAIN s = 1 .. Len(s) /\ \A i \in 1 .. Len(s) : s[i] \in Told
  OBVIOUS
<1>2. \A i \in 1 .. Len(s) : m[i] \in Seq(Told)
  <2> SUFFICES ASSUME NEW i \in 1 .. Len(s) PROVE m[i] \in Seq(Told)
    OBVIOUS
  <2>1. PICK f \in Told : f = s[i]
    BY <1>1
  <2>2. <<f>> \in Seq(Told) /\ <<>> \in Seq(Told)
    OBVIOUS
  <2>3. m[i] = Shown(f)
    BY <1>1, <2>1
  <2> QED BY <2>2, <2>3 DEF Shown
<1>3. m \in Seq(Seq(Told)) /\ Len(m) = Len(s)
  BY <1>1, <1>2, MapSeq
<1>4. OutputsOf(s) = FlattenSeq(m)
  BY DEF OutputsOf
<1> QED BY <1>3, <1>4, FlatType

LEMMA ShownIs == ASSUME NEW f \in Told PROVE Shown(f) \in Seq(Told)
<1>1. <<f>> \in Seq(Told) /\ <<>> \in Seq(Told)
  OBVIOUS
<1> QED BY <1>1 DEF Shown

LEMMA ShownMore ==
    ASSUME NEW s \in Seq(Told), NEW f \in Told
    PROVE  OutputsOf(Append(s, f)) = OutputsOf(s) \o Shown(f)
<1>1. PICK m : m = [i \in DOMAIN s |-> Shown(s[i])]
  OBVIOUS
<1>2. PICK a : a = Append(s, f)
  OBVIOUS
<1>3. PICK q : q = [i \in DOMAIN a |-> Shown(a[i])]
  OBVIOUS
<1>4. /\ a \in Seq(Told) /\ Len(a) = Len(s) + 1 /\ Len(s) \in Nat
      /\ DOMAIN s = 1 .. Len(s) /\ DOMAIN a = 1 .. Len(s) + 1
      /\ \A i \in 1 .. Len(s) : a[i] = s[i]
      /\ a[Len(s) + 1] = f
  BY <1>2, AppendIs
<1>5. m \in Seq(Seq(Told)) /\ Len(m) = Len(s) /\ OutputsOf(s) = FlattenSeq(m)
  BY <1>1, ShownType
<1>6. q \in Seq(Seq(Told)) /\ Len(q) = Len(a) /\ OutputsOf(a) = FlattenSeq(q)
  BY <1>3, <1>4, ShownType
<1>7. PICK w : w = Shown(f)
  OBVIOUS
<1>8. w \in Seq(Told)
  BY <1>7, ShownIs
<1>9. q = Append(m, w)
  <2>1. \A i \in 1 .. Len(s) : q[i] = m[i]
    BY <1>1, <1>3, <1>4
  <2>2. q[Len(s) + 1] = w
    BY <1>3, <1>4, <1>7
  <2>3. PICK A : A = Seq(Told)
    OBVIOUS
  <2>4. m \in Seq(A) /\ q \in Seq(A) /\ w \in A
    BY <1>5, <1>6, <1>8, <2>3
  <2>5. PICK p : p = Append(m, w)
    OBVIOUS
  <2>6. /\ p \in Seq(A) /\ Len(p) = Len(m) + 1
        /\ \A i \in 1 .. Len(m) : p[i] = m[i]
        /\ p[Len(m) + 1] = w
    BY <2>4, <2>5, AppendIs
  <2>7. ASSUME NEW i \in 1 .. Len(q) PROVE q[i] = p[i]
    <3>1. Len(q) = Len(m) + 1 /\ Len(m) = Len(s) /\ Len(s) \in Nat
      BY <1>4, <1>5, <1>6
    <3>2. CASE i = Len(s) + 1
      BY <2>2, <2>6, <3>1, <3>2
    <3>3. CASE i \in 1 .. Len(s)
      BY <2>1, <2>6, <3>1, <3>3
    <3> QED BY <3>1, <3>2, <3>3
  <2> QED BY <1>4, <1>5, <1>6, <2>4, <2>5, <2>6, <2>7, Same
<1>10. FlattenSeq(Append(m, w)) = FlattenSeq(m) \o w
  BY <1>5, <1>8, FlatAppend
<1> QED BY <1>2, <1>5, <1>6, <1>7, <1>9, <1>10

LEMMA SaidMore ==
    ASSUME NEW s \in Seq(Told), NEW f \in Told
    PROVE  /\ Said(s) \in Seq(Units) /\ Len(Said(s)) = Len(s)
           /\ Said(Append(s, f)) = Said(s) \o <<f.data[1]>>
<1>1. PICK m : m = Said(s)
  OBVIOUS
<1>2. PICK a : a = Append(s, f)
  OBVIOUS
<1>3. /\ a \in Seq(Told) /\ Len(a) = Len(s) + 1 /\ Len(s) \in Nat
      /\ DOMAIN s = 1 .. Len(s) /\ DOMAIN a = 1 .. Len(s) + 1
      /\ \A i \in 1 .. Len(s) : a[i] = s[i]
      /\ a[Len(s) + 1] = f
  BY <1>2, AppendIs
<1>4. \A i \in 1 .. Len(s) : s[i] \in Told
  OBVIOUS
<1>5. m = [i \in 1 .. Len(s) |-> s[i].data[1]]
  BY <1>1, <1>3 DEF Said
<1>6. \A i \in 1 .. Len(s) : m[i] \in Units
  BY <1>4, <1>5, WordsInIs
<1>7. m \in Seq(Units) /\ Len(m) = Len(s)
  BY <1>3, <1>5, <1>6, MapSeq
<1>8. PICK x : x = f.data[1]
  OBVIOUS
<1>9. x \in Units
  BY <1>8, WordsInIs
<1>10. Said(a) = [i \in 1 .. Len(s) + 1 |-> a[i].data[1]]
  BY <1>3 DEF Said
<1>11. Said(a) = Append(m, x)
  <2>1. \A i \in 1 .. Len(s) : Said(a)[i] = m[i]
    BY <1>3, <1>5, <1>10
  <2>2. Said(a)[Len(s) + 1] = x
    BY <1>3, <1>8, <1>10
  <2>3. PICK p : p = Append(m, x)
    OBVIOUS
  <2>4. /\ p \in Seq(Units) /\ Len(p) = Len(m) + 1
        /\ \A i \in 1 .. Len(m) : p[i] = m[i]
        /\ p[Len(m) + 1] = x
    BY <1>7, <1>9, <2>3, AppendIs
  <2>5. PICK r : r = Said(a)
    OBVIOUS
  <2>6. r \in Seq(Units) /\ Len(r) = Len(s) + 1
    <3>1. ASSUME NEW i \in 1 .. Len(s) + 1 PROVE r[i] \in Units
      BY <1>3, <1>6, <1>9, <2>1, <2>2, <2>5
    <3>2. Len(s) + 1 \in Nat
      BY <1>3
    <3>3. DOMAIN r = 1 .. Len(s) + 1 /\ r = [i \in 1 .. Len(s) + 1 |-> r[i]]
      BY <1>10, <2>5
    <3> QED BY <3>1, <3>2, <3>3, MapSeq
  <2>7. ASSUME NEW i \in 1 .. Len(r) PROVE r[i] = p[i]
    <3>1. Len(m) = Len(s) /\ Len(s) \in Nat
      BY <1>3, <1>7
    <3>2. CASE i = Len(s) + 1
      BY <2>2, <2>4, <2>5, <3>1, <3>2
    <3>3. CASE i \in 1 .. Len(s)
      BY <2>1, <2>4, <2>5, <3>1, <3>3
    <3> QED BY <2>6, <3>1, <3>2, <3>3
  <2> QED BY <1>3, <1>7, <2>3, <2>4, <2>5, <2>6, <2>7, Same
<1>12. Append(m, x) = m \o <<x>>
  BY <1>7, <1>9
<1> QED BY <1>1, <1>2, <1>7, <1>8, <1>11, <1>12

LEMMA ShownCat ==
    ASSUME NEW s \in Seq(Told), NEW t \in Seq(Told)
    PROVE  OutputsOf(s \o t) = OutputsOf(s) \o OutputsOf(t)
<1>1. PICK a : a = s \o t
  OBVIOUS
<1>2. PICK m : m = [i \in DOMAIN s |-> Shown(s[i])]
  OBVIOUS
<1>3. PICK n0 : n0 = [i \in DOMAIN t |-> Shown(t[i])]
  OBVIOUS
<1>4. PICK q : q = [i \in DOMAIN a |-> Shown(a[i])]
  OBVIOUS
<1>5. /\ a \in Seq(Told) /\ Len(a) = Len(s) + Len(t) /\ Len(s) \in Nat /\ Len(t) \in Nat
      /\ \A i \in 1 .. Len(s) : a[i] = s[i]
      /\ \A i \in 1 .. Len(t) : a[Len(s) + i] = t[i]
  BY <1>1, Put
<1>6. m \in Seq(Seq(Told)) /\ Len(m) = Len(s) /\ OutputsOf(s) = FlattenSeq(m)
  BY <1>2, ShownType
<1>7. n0 \in Seq(Seq(Told)) /\ Len(n0) = Len(t) /\ OutputsOf(t) = FlattenSeq(n0)
  BY <1>3, ShownType
<1>8. q \in Seq(Seq(Told)) /\ Len(q) = Len(a) /\ OutputsOf(a) = FlattenSeq(q)
  BY <1>4, <1>5, ShownType
<1>9. q = m \o n0
  <2>1. PICK A : A = Seq(Told)
    OBVIOUS
  <2>2. m \in Seq(A) /\ n0 \in Seq(A) /\ q \in Seq(A)
    BY <1>6, <1>7, <1>8, <2>1
  <2>3. PICK p : p = m \o n0
    OBVIOUS
  <2>4. /\ p \in Seq(A) /\ Len(p) = Len(m) + Len(n0)
        /\ \A i \in 1 .. Len(m) : p[i] = m[i]
        /\ \A i \in 1 .. Len(n0) : p[Len(m) + i] = n0[i]
    BY <2>2, <2>3, Put
  <2>5. DOMAIN s = 1 .. Len(s) /\ DOMAIN t = 1 .. Len(t) /\ DOMAIN a = 1 .. Len(a)
    BY <1>5
  <2>6. ASSUME NEW i \in 1 .. Len(q) PROVE p[i] = q[i]
    <3>1. CASE i \in 1 .. Len(s)
      <4>1. i \in DOMAIN a /\ q[i] = Shown(a[i]) /\ a[i] = s[i]
        BY <1>4, <1>5, <2>5, <3>1
      <4>2. p[i] = m[i] /\ m[i] = Shown(s[i])
        BY <1>2, <1>6, <2>4, <2>5, <3>1
      <4> QED BY <4>1, <4>2
    <3>2. CASE i \in Len(s) + 1 .. Len(a)
      <4>1. PICK j \in 1 .. Len(t) : i = Len(s) + j
        <5>1. i - Len(s) \in 1 .. Len(t) /\ i = Len(s) + (i - Len(s))
          BY <1>5, <3>2
        <5> QED BY <5>1
      <4>2. i \in DOMAIN a /\ q[i] = Shown(a[i]) /\ a[i] = t[j]
        BY <1>4, <1>5, <1>8, <2>5, <4>1
      <4>3. p[i] = n0[j] /\ n0[j] = Shown(t[j])
        BY <1>3, <1>6, <1>7, <2>4, <2>5, <4>1
      <4> QED BY <4>2, <4>3
    <3> QED BY <1>5, <1>8, <3>1, <3>2
  <2>7. Len(p) = Len(q)
    BY <1>5, <1>6, <1>7, <1>8, <2>4
  <2> QED BY <2>2, <2>3, <2>4, <2>6, <2>7, Same
<1>10. FlattenSeq(m \o n0) = FlattenSeq(m) \o FlattenSeq(n0)
  BY <1>6, <1>7, FlatCat
<1> QED BY <1>1, <1>6, <1>7, <1>8, <1>9, <1>10

(* The beginnings of a sequence that grows. *)
LEMMA FirstOfMore ==
    ASSUME NEW s \in Seq(Told), NEW f \in Told, NEW k \in 0 .. Len(s)
    PROVE  /\ k \in 0 .. Len(Append(s, f))
           /\ First(Append(s, f), k) = First(s, k)
           /\ Rest(Append(s, f), k) = Append(Rest(s, k), f)
<1>1. PICK a : a = Append(s, f)
  OBVIOUS
<1>2. /\ a \in Seq(Told) /\ Len(a) = Len(s) + 1 /\ Len(s) \in Nat
      /\ \A i \in 1 .. Len(s) : a[i] = s[i]
      /\ a[Len(s) + 1] = f
  BY <1>1, AppendIs
<1>3. k \in 0 .. Len(a) /\ k \in Nat /\ k <= Len(s)
  BY <1>2
<1>4. PICK b, c, x, y : b = First(s, k) /\ c = Rest(s, k) /\ x = First(a, k) /\ y = Rest(a, k)
  OBVIOUS
<1>5. /\ b \in Seq(Told) /\ c \in Seq(Told) /\ Len(b) = k /\ Len(c) = Len(s) - k
      /\ \A i \in 1 .. k : b[i] = s[i]
      /\ \A i \in 1 .. Len(s) - k : c[i] = s[k + i]
  BY <1>4, FirstRest
<1>6. /\ x \in Seq(Told) /\ y \in Seq(Told) /\ Len(x) = k /\ Len(y) = Len(a) - k
      /\ \A i \in 1 .. k : x[i] = a[i]
      /\ \A i \in 1 .. Len(a) - k : y[i] = a[k + i]
  BY <1>2, <1>3, <1>4, FirstRest
<1>7. x = b
  <2>1. ASSUME NEW i \in 1 .. Len(x) PROVE x[i] = b[i]
    <3>1. i \in 1 .. k /\ i \in 1 .. Len(s)
      BY <1>2, <1>3, <1>6
    <3> QED BY <1>2, <1>5, <1>6, <3>1
  <2> QED BY <1>5, <1>6, <2>1, Same
<1>8. y = Append(c, f)
  <2>1. PICK z : z = Append(c, f)
    OBVIOUS
  <2>2. /\ z \in Seq(Told) /\ Len(z) = Len(c) + 1
        /\ \A i \in 1 .. Len(c) : z[i] = c[i]
        /\ z[Len(c) + 1] = f
    BY <1>5, <2>1, AppendIs
  <2>3. Len(y) = Len(z) /\ Len(z) = Len(s) - k + 1
    BY <1>2, <1>3, <1>5, <1>6, <2>2
  <2>4. ASSUME NEW i \in 1 .. Len(y) PROVE y[i] = z[i]
    <3>1. y[i] = a[k + i]
      BY <1>2, <1>3, <1>6
    <3>2. CASE i \in 1 .. Len(s) - k
      <4>1. k + i \in 1 .. Len(s) /\ i \in 1 .. Len(c)
        BY <1>2, <1>3, <1>5, <3>2
      <4> QED BY <1>2, <1>5, <2>2, <3>1, <3>2, <4>1
    <3>3. CASE i = Len(s) - k + 1
      <4>1. k + i = Len(s) + 1 /\ i = Len(c) + 1
        BY <1>2, <1>3, <1>5, <3>3
      <4> QED BY <1>2, <2>2, <3>1, <4>1
    <3> QED BY <1>2, <1>3, <2>3, <3>2, <3>3
  <2> QED BY <1>6, <2>1, <2>2, <2>3, <2>4, Same
<1> QED BY <1>1, <1>3, <1>4, <1>7, <1>8

(* One frame more of a sequence is taken. *)
LEMMA FirstStep ==
    ASSUME NEW s \in Seq(Told), NEW k \in 0 .. Len(s), k < Len(s)
    PROVE  /\ k + 1 \in 0 .. Len(s) /\ Rest(s, k) # <<>> /\ Rest(s, k) \in Seq(Told)
           /\ Head(Rest(s, k)) \in Told
           /\ First(s, k) \in Seq(Told)
           /\ First(s, k + 1) = Append(First(s, k), Head(Rest(s, k)))
           /\ Rest(s, k + 1) = Tail(Rest(s, k))
<1>1. Len(s) \in Nat /\ k \in Nat /\ k + 1 \in 0 .. Len(s)
  OBVIOUS
<1>2. PICK b, c, x, y : b = First(s, k) /\ c = Rest(s, k)
                        /\ x = First(s, k + 1) /\ y = Rest(s, k + 1)
  OBVIOUS
<1>3. /\ b \in Seq(Told) /\ c \in Seq(Told) /\ Len(b) = k /\ Len(c) = Len(s) - k
      /\ \A i \in 1 .. k : b[i] = s[i]
      /\ \A i \in 1 .. Len(s) - k : c[i] = s[k + i]
  BY <1>2, FirstRest
<1>4. PICK j : j = k + 1
  OBVIOUS
<1>5. /\ x \in Seq(Told) /\ y \in Seq(Told) /\ Len(x) = j /\ Len(y) = Len(s) - j
      /\ \A i \in 1 .. j : x[i] = s[i]
      /\ \A i \in 1 .. Len(s) - j : y[i] = s[j + i]
  BY <1>1, <1>2, <1>4, FirstRest
<1>6. c # <<>> /\ Len(c) >= 1
  BY <1>1, <1>3
<1>7. PICK h, t : h = Head(c) /\ t = Tail(c)
  OBVIOUS
<1>8. /\ h \in Told /\ h = c[1] /\ t \in Seq(Told) /\ Len(t) = Len(c) - 1
      /\ \A i \in 1 .. Len(c) - 1 : t[i] = c[i + 1]
  BY <1>3, <1>6, <1>7, Taken
<1>9. x = Append(b, h)
  <2>1. PICK z : z = Append(b, h)
    OBVIOUS
  <2>2. /\ z \in Seq(Told) /\ Len(z) = Len(b) + 1
        /\ \A i \in 1 .. Len(b) : z[i] = b[i]
        /\ z[Len(b) + 1] = h
    BY <1>3, <1>8, <2>1, AppendIs
  <2>3. ASSUME NEW i \in 1 .. Len(x) PROVE x[i] = z[i]
    <3>1. CASE i \in 1 .. k
      BY <1>1, <1>3, <1>4, <1>5, <2>2, <3>1
    <3>2. CASE i = k + 1
      <4>1. 1 \in 1 .. Len(s) - k
        BY <1>1
      <4>2. c[1] = s[k + 1]
        BY <1>3, <4>1
      <4> QED BY <1>3, <1>4, <1>5, <1>8, <2>2, <3>2, <4>2
    <3> QED BY <1>1, <1>4, <1>5, <3>1, <3>2
  <2> QED BY <1>1, <1>3, <1>4, <1>5, <2>1, <2>2, <2>3, Same
<1>10. y = t
  <2>1. Len(y) = Len(t)
    BY <1>1, <1>3, <1>4, <1>5, <1>8
  <2>2. ASSUME NEW i \in 1 .. Len(y) PROVE y[i] = t[i]
    <3>1. y[i] = s[j + i]
      BY <1>5
    <3>2. i \in 1 .. Len(c) - 1 /\ i + 1 \in 1 .. Len(s) - k
      BY <1>1, <1>3, <1>4, <1>5
    <3>3. t[i] = s[k + (i + 1)]
      BY <1>3, <1>8, <3>2
    <3>4. k + (i + 1) = j + i
      BY <1>1, <1>4, <3>2
    <3> QED BY <3>1, <3>3, <3>4
  <2> QED BY <1>5, <1>8, <2>1, <2>2, Same
<1> QED BY <1>1, <1>2, <1>3, <1>6, <1>7, <1>8, <1>9, <1>10

(* The command that is still at work; ExitWords are the last it says.       *)
Working == {"run", "eof"}
ExitDue(e) ==
    \/ e = <<>>
    \/ e \in ExitWords /\ code = <<>> /\ dev.st \notin Working

(* The first k frames have been taken; only the last of a command's words   *)
(* tell of its exit.                                                        *)
Shows(k) ==
    /\ acc = OutputsOf(First(emitted, k))
    /\ code # <<>> => k = Len(emitted) /\ dev.st \notin Working
Unparsed(k) ==
    \E e \in {<<>>} \cup ExitWords :
        ExitDue(e) /\ Comes(WordsOf(Rest(emitted, k)) \o e)
ByFrames == \E k \in 0 .. Len(emitted) : Shows(k) /\ (pc = "frames" => Unparsed(k))

(* Without frames all that comes is what it has said. *)
Bare ==
    /\ pc = "drain" => Comes(Said(emitted))
    /\ res \in {"ok", "parse"} => Len(acc) \in Nat /\ PartOf(acc, Said(emitted), FALSE)

CommandRuns ==
    /\ emitted \in Seq(Told) /\ v2 \in BOOLEAN
    /\ pc \in {"idle", "frames", "drain", "return"}
    /\ pc = "frames" => v2
    /\ pc = "drain" => ~v2
    /\ own = "open" => Chunked
    /\ own = "open" /\ dev.st \in Working => peer = "open"
    /\ v2 => ByFrames
    /\ ~v2 => Bare

(* Where no command is run nothing is said of one. *)
NoCommand ==
    /\ ~v2
    /\ own = "open" => call.op \in SyncOps
    /\ call.op \notin SyncOps => res \notin {"ok", "parse"}

OutInv == IF user = "shell" THEN CommandRuns ELSE NoCommand
-----------------------------------------------------------------------------
LEMMA Nothing0 == WordsOf(<<>>) = <<>> /\ OutputsOf(<<>>) = <<>> /\ Said(<<>>) = <<>>
<1>1. DOMAIN <<>> = 1 .. 0 /\ <<>> \in Seq(Told) /\ Len(<<>>) = 0
  OBVIOUS
<1>2. PICK m : m = [i \in DOMAIN <<>> |-> WordsIn(<<>>[i])]
  OBVIOUS
<1>3. PICK a : a = [i \in DOMAIN <<>> |-> Shown(<<>>[i])]
  OBVIOUS
<1>4. m = <<>> /\ a = <<>> /\ Said(<<>>) = <<>>
  <2>1. m = [i \in 1 .. 0 |-> m[i]] /\ a = [i \in 1 .. 0 |-> a[i]]
    BY <1>1, <1>2, <1>3
  <2>2. PICK s : s = Said(<<>>)
    OBVIOUS
  <2>3. s = [i \in 1 .. 0 |-> s[i]]
    BY <1>1, <2>2 DEF Said
  <2> QED BY <2>1, <2>2, <2>3
<1>5. WordsOf(<<>>) = FlattenSeq(m) /\ OutputsOf(<<>>) = FlattenSeq(a)
  BY <1>2, <1>3 DEF WordsOf, OutputsOf
<1> QED BY <1>4, <1>5, FlatEmpty

LEMMA ExitWordsAre ==
    ASSUME NEW e \in {<<>>} \cup ExitWords
    PROVE  /\ e \in Seq(Units)
           /\ e # <<>> => \E x \in ExitCodes : e = <<Id("Exit"), Num(1), Num(x)>>
<1>1. ASSUME NEW x \in ExitCodes PROVE <<Id("Exit"), Num(1), Num(x)>> \in Seq(Units)
  <2>1. x \in Nat
    BY ShellAssumption
  <2>2. PICK i, m, y : i = Id("Exit") /\ m = Num(1) /\ y = Num(x)
    OBVIOUS
  <2>3. i \in Units /\ m \in Units /\ y \in Units
    BY <2>1, <2>2, TokensOfFrames
  <2>4. <<i, m, y>> \in Seq(Units)
    BY <2>3
  <2> QED BY <2>2, <2>4
<1>2. CASE e = <<>>
  BY <1>2, EmptyWord
<1>3. CASE e \in ExitWords
  BY <1>1, <1>3 DEF ExitWords
<1> QED BY <1>2, <1>3

(* What has come to the buffer is the beginning of what comes. *)
LEMMA BufferIs ==
    ASSUME Chunked, NEW w, Comes(w)
    PROVE  /\ PartOf(buf, w, FALSE)
           /\ \A i \in 1 .. Len(buf) : buf[i] = w[i]
           /\ Len(buf) \in Nat /\ Len(w) \in Nat /\ Len(buf) <= Len(w)
<1>1. PICK b, f, o : b = buf /\ f = FlattenSeq(down) /\ o = out
  OBVIOUS
<1>2. b \in Seq(Units)
  BY <1>1 DEF Chunked
<1>3. o \in Seq(Units)
  BY <1>1 DEF Chunked
<1>4. f \in Seq(Units)
  <2>1. down \in Seq(Seq(Units))
    BY DEF Chunked
  <2> QED BY <1>1, <2>1, FlatType
<1>5. PICK x : x = f \o o
  OBVIOUS
<1>6. x \in Seq(Units) /\ (b \o f) \o o = b \o x
  BY <1>2, <1>3, <1>4, <1>5, UnitsAssoc
<1>7. PICK whole : whole = (peer = "open")
  OBVIOUS
<1>8. PartOf(b \o x, w, whole)
  BY <1>1, <1>6, <1>7 DEF Comes, Stream, Joined
<1>9. PartOf(b, w, FALSE)
  BY <1>2, <1>6, <1>8, PartCut
<1>10. Len(b) \in Nat
  BY <1>2
<1> QED BY <1>1, <1>9, <1>10 DEF PartOf

(* A sequence of words and the first of three. *)
LEMMA ThreeAnd ==
    ASSUME NEW a \in Units, NEW b \in Units, NEW c \in Units, NEW t \in Seq(Units)
    PROVE  /\ <<a, b, c>> \in Seq(Units) /\ Len(<<a, b, c>>) = 3
           /\ <<a, b, c>>[1] = a /\ <<a, b, c>>[2] = b /\ <<a, b, c>>[3] = c
           /\ (<<a, b, c>> \o t)[1] = a /\ (<<a, b, c>> \o t)[2] = b
           /\ (<<a, b, c>> \o t)[3] = c
<1>1. PICK g : g = <<a, b, c>>
  OBVIOUS
<1>2. g \in Seq(Units) /\ Len(g) = 3 /\ g[1] = a /\ g[2] = b /\ g[3] = c
  BY <1>1
<1>3. \A i \in 1 .. Len(g) : (g \o t)[i] = g[i]
  BY <1>2, Put
<1>4. 1 \in 1 .. Len(g) /\ 2 \in 1 .. Len(g) /\ 3 \in 1 .. Len(g)
  BY <1>2
<1> QED BY <1>1, <1>2, <1>3, <1>4

LEMMA OneOf ==
    ASSUME NEW q \in Seq(Units), 3 <= Len(q)
    PROVE  SubSeq(q, 3, 3) = <<q[3]>>
<1>1. q[3] \in Units /\ Len(q) \in Nat
  OBVIOUS
<1>2. PICK s : s = SubSeq(q, 3, 3)
  OBVIOUS
<1>3. s = [i \in 1 .. 1 |-> q[i + 2]]
  BY <1>1, <1>2
<1>4. Len(s) = 1 /\ s[1] = q[3]
  BY <1>1, <1>3
<1>5. s \in Seq(Units)
  <2>1. \A i \in 1 .. 1 : s[i] \in Units
    BY <1>1, <1>4
  <2> QED BY <1>3, <2>1, MapSeq
<1>6. <<q[3]>> \in Seq(Units) /\ Len(<<q[3]>>) = 1 /\ <<q[3]>>[1] = q[3]
  BY <1>1, OneWord
<1>7. \A i \in 1 .. Len(s) : s[i] = <<q[3]>>[i]
  BY <1>4, <1>6
<1> QED BY <1>2, <1>4, <1>5, <1>6, <1>7, Same

(* A whole frame is at the front of what comes: the parser takes it, and    *)
(* nothing of the next.                                                     *)
LEMMA TakesFrame ==
    ASSUME Chunked, NEW x \in Kinds \cup {"Exit"}, NEW y \in Units, NEW t \in Seq(Units),
           Comes(<<Id(x), Num(1), y>> \o t), Parsable
    PROVE  /\ buf[1] = Id(x) /\ buf[1][2] = x
           /\ KnownFrame <=> x \in Outputs \cup Ignored \cup {"Exit"}
           /\ KnownFrame => /\ HeaderLen + Number(buf[2]) = 3
                            /\ 3 <= Len(buf)
                            /\ SubSeq(buf, HeaderLen + 1, 3) = <<y>>
<1>1. PICK a, b, w : a = Id(x) /\ b = Num(1) /\ w = <<a, b, y>> \o t
  OBVIOUS
<1>2. a \in Units /\ b \in Units
  BY <1>1, TokensOfFrames
<1>3. w[1] = a /\ w[2] = b /\ w[3] = y
  BY <1>1, <1>2, ThreeAnd
<1>4. /\ \A i \in 1 .. Len(buf) : buf[i] = w[i]
      /\ Len(buf) \in Nat
  BY <1>1, BufferIs
<1>5. Len(buf) >= 2
  BY DEF Parsable, HeaderLen
<1>6. buf[1] = a /\ buf[2] = b
  BY <1>3, <1>4, <1>5
<1>7. KnownFrame <=> x \in Outputs \cup Ignored \cup {"Exit"}
  BY <1>1, <1>6, Tokens DEF KnownFrame, Id
<1>8. buf[1][2] = x
  BY <1>1, <1>6 DEF Id
<1>9. Number(buf[2]) = 1
  BY <1>1, <1>6, Tokens
<1>10. ASSUME KnownFrame PROVE 3 <= Len(buf) /\ SubSeq(buf, HeaderLen + 1, 3) = <<y>>
  <2>1. Len(buf) >= 3
    BY <1>9, <1>10 DEF Parsable, Framed, HeaderLen
  <2>2. buf[3] = y
    BY <1>3, <1>4, <2>1
  <2>3. PICK q : q = buf
    OBVIOUS
  <2>4. q \in Seq(Units)
    BY <2>3 DEF Chunked
  <2>5. SubSeq(q, 3, 3) = <<q[3]>>
    BY <2>1, <2>3, <2>4, OneOf
  <2> QED BY <2>1, <2>2, <2>3, <2>5 DEF HeaderLen
<1> QED BY <1>1, <1>6, <1>7, <1>8, <1>9, <1>10 DEF HeaderLen
-----------------------------------------------------------------------------
(* What a step leaves as it is. *)
LEMMA ParsedStays ==
    ASSUME UNCHANGED <<acc, emitted, code, v2>>, dev'.st \in Working => dev.st \in Working,
           NEW k, Shows(k)
    PROVE  Shows(k)'
  BY DEF Shows

LEMMA WordsStay == ASSUME v2' = v2, NEW s PROVE WordsOf(s)' = WordsOf(s)
  BY DEF WordsOf, WordsIn, Words

LEMMA UnparsedStays ==
    ASSUME UNCHANGED <<emitted, code, v2, peer>>, dev'.st \in Working => dev.st \in Working,
           Stream' = Stream, NEW k, Unparsed(k)
    PROVE  Unparsed(k)'
<1>1. PICK e \in {<<>>} \cup ExitWords : ExitDue(e) /\ Comes(WordsOf(Rest(emitted, k)) \o e)
  BY DEF Unparsed
<1>2. ExitDue(e)'
  BY <1>1 DEF ExitDue
<1>3. PICK w : w = WordsOf(Rest(emitted, k)) \o e
  OBVIOUS
<1>4. PICK r : r = Rest(emitted, k)
  OBVIOUS
<1>5. Rest(emitted', k) = r /\ WordsOf(r)' = WordsOf(r)
  BY <1>4, WordsStay
<1>6. Comes(w)'
  BY <1>1, <1>3 DEF Comes
<1>7. Comes(WordsOf(r) \o e)'
  <2>1. w = WordsOf(r) \o e
    BY <1>3, <1>4
  <2>2. (WordsOf(r) \o e)' = w
    BY <1>5, <2>1
  <2> QED BY <1>6, <2>2 DEF Comes
<1> QED BY <1>2, <1>4, <1>5, <1>7 DEF Unparsed

(* The call goes on with nothing of the command's words moved but between   *)
(* the ends of the channel, or it returns.                                  *)
LEMMA OutputStays ==
    ASSUME TalkInv, OutInv, user = "shell", UNCHANGED <<user, acc, emitted, code, v2>>,
           dev'.st \in Working => dev.st \in Working,
           \/ own' = own /\ peer' = peer /\ (Chunked => Chunked')
           \/ own' = "closed",
           \/ pc' = pc /\ res' = res /\ peer' = peer /\ Stream' = Stream
           \/ pc' \in {"return", "idle"} /\ (v2 \/ res' = res \/ res' \notin {"ok", "parse"})
    PROVE  OutInv'
<1>1. CommandRuns
  BY DEF OutInv
<1>2. ASSUME v2 PROVE ByFrames'
  <2>1. PICK k \in 0 .. Len(emitted) : Shows(k) /\ (pc = "frames" => Unparsed(k))
    BY <1>1, <1>2 DEF CommandRuns, ByFrames
  <2>2. Shows(k)'
    BY <2>1, ParsedStays
  <2>3. pc' = "frames" => Unparsed(k)'
    BY <2>1, UnparsedStays
  <2>4. k \in 0 .. Len(emitted')
    BY <2>1
  <2> QED BY <2>2, <2>3, <2>4 DEF ByFrames
<1>3. ASSUME ~v2 PROVE Bare'
  <2>1. Bare
    BY <1>1, <1>3 DEF CommandRuns
  <2>2. Said(emitted)' = Said(emitted)
    OBVIOUS
  <2> QED BY <1>3, <2>1, <2>2 DEF Bare, Comes
<1>4. CommandRuns'
  BY <1>1, <1>2, <1>3 DEF CommandRuns
<1> QED BY <1>4 DEF OutInv

(* Parser::push, one frame. *)
LEMMA ParseFrameOut ==
    ASSUME TalkInv, OutInv, ParseFrame, UNCHANGED <<syncVars, deviceVars>>
    PROVE  OutInv'
<1>1. user = "shell" /\ CommandRuns /\ v2 /\ Chunked
  BY DEF ParseFrame, TalkInv, Talking, Apart, OutInv, CommandRuns
<1>2. PICK k \in 0 .. Len(emitted) : Shows(k) /\ Unparsed(k)
  BY <1>1 DEF ParseFrame, CommandRuns, ByFrames
<1>3. PICK e \in {<<>>} \cup ExitWords : ExitDue(e) /\ Comes(WordsOf(Rest(emitted, k)) \o e)
  BY <1>2 DEF Unparsed
<1>4. /\ UNCHANGED <<up, down, out, peer, own, dev, call, todo, n, v2, emitted, user>>
      /\ Parsable
  BY DEF ParseFrame, channelVars, deviceVars
<1>5. PICK r : r = Rest(emitted, k)
  OBVIOUS
<1>6. emitted \in Seq(Told) /\ r \in Seq(Told) /\ Len(r) = Len(emitted) - k /\ Len(emitted) \in Nat
  <2>1. emitted \in Seq(Told)
    BY <1>1 DEF CommandRuns
  <2> QED BY <1>5, <2>1, FirstRest
<1>7. e \in Seq(Units)
  BY ExitWordsAre
<1>8. CASE ~KnownFrame
  <2>1. pc' = "return" /\ UNCHANGED <<buf, acc, code>>
    BY <1>8 DEF ParseFrame
  <2>2. Chunked'
    BY <1>1, <1>4, <2>1 DEF Chunked
  <2> QED BY <1>1, <1>4, <2>1, <2>2, OutputStays
<1>9. CASE KnownFrame
  <2>1. LET end == HeaderLen + Number(buf[2])
        IN  /\ Apply(buf[1][2], SubSeq(buf, HeaderLen + 1, end))
            /\ buf' = Rest(buf, end) /\ pc' = pc /\ res' = res
    BY <1>9 DEF ParseFrame, Take
  <2>2. CASE r # <<>>
    <3>1. PICK f \in Told, t \in Seq(Told) :
              f = Head(r) /\ t = Tail(r) /\ WordsOf(r) = WordsIn(f) \o WordsOf(t)
      BY <1>6, <2>2, WordsFirst
    <3>2. PICK y \in Units, c \in Nat :
              y = f.data[1] /\ f = Frame(f.id, <<y>>) /\ f.id \in Kinds /\ y = Piece(c)
      <4>1. PICK c \in Nat : f = Frame(f.id, <<Piece(c)>>) /\ f.id \in Kinds /\ f.data[1] = Piece(c)
        BY ToldIs
      <4> QED BY <4>1, TokensOfFrames
    <3>3. PICK a, b : a = Id(f.id) /\ b = Num(1)
      OBVIOUS
    <3>4. a \in Units /\ b \in Units
      BY <3>2, <3>3, TokensOfFrames
    <3>5. PICK h : h = <<a, b, y>>
      OBVIOUS
    <3>6. h \in Seq(Units) /\ Len(h) = 3 /\ WordsIn(f) = h
      <4>1. WordsIn(f) = <<Id(f.id), Num(1), f.data[1]>>
        BY <1>1, WordsInIs
      <4>2. WordsIn(f) = h
        BY <3>2, <3>3, <3>5, <4>1
      <4>3. h \in Seq(Units) /\ Len(h) = 3
        BY <3>4, <3>5
      <4> QED BY <4>2, <4>3
    <3>7. PICK w \in Seq(Units) : w = WordsOf(t)
      <4>1. PICK m : m = [i \in DOMAIN t |-> WordsIn(t[i])]
        OBVIOUS
      <4> QED BY <4>1, WordsOfType
    <3>8. PICK x \in Seq(Units) : x = w \o e
      <4>1. w \o e \in Seq(Units)
        BY <1>7
      <4> QED BY <4>1
    <3>9. (h \o w) \o e = h \o x
      BY <1>7, <3>6, <3>8, UnitsAssoc
    <3>10. Comes(h \o x)
      BY <1>3, <1>5, <3>1, <3>6, <3>7, <3>9
    <3>11. /\ buf[1][2] = f.id /\ f.id \in Outputs \cup Ignored \cup {"Exit"}
           /\ HeaderLen + Number(buf[2]) = 3 /\ 3 <= Len(buf)
           /\ SubSeq(buf, HeaderLen + 1, 3) = <<y>>
      <4>1. f.id \in Kinds \cup {"Exit"} /\ Comes(<<Id(f.id), Num(1), y>> \o x)
        BY <3>2, <3>3, <3>5, <3>10
      <4> QED BY <1>1, <1>4, <1>9, <4>1, TakesFrame
    <3>12. Apply(f.id, <<y>>) /\ buf' = Rest(buf, 3) /\ pc' = pc /\ res' = res
      BY <2>1, <3>11
    <3>13. Comes(x)' /\ Chunked'
      <4>1. 3 \in Nat
        OBVIOUS
      <4> QED BY <1>1, <1>4, <3>6, <3>10, <3>11, <3>12, <4>1, StreamRead
    <3>14. acc' = acc \o Shown(f) /\ code' = code
      <4>1. f.id # "Exit"
        BY <3>2, TokensOfFrames
      <4>2. acc \in Seq(Told)
        <5>1. PICK g : g = First(emitted, k)
          OBVIOUS
        <5>2. g \in Seq(Told)
          BY <1>6, <5>1, FirstRest
        <5>3. PICK m : m = [i \in DOMAIN g |-> Shown(g[i])]
          OBVIOUS
        <5>4. OutputsOf(g) \in Seq(Told)
          BY <5>2, <5>3, ShownType
        <5> QED BY <1>2, <5>1, <5>4 DEF Shows
      <4>3. Frame(f.id, <<y>>) = f
        BY <3>2
      <4>4. acc' = IF f.id \in Outputs THEN Append(acc, f) ELSE acc
        BY <3>12, <4>3 DEF Apply
      <4>5. Append(acc, f) = acc \o <<f>> /\ acc \o <<>> = acc
        BY <4>2, CatEmpty
      <4> QED BY <3>12, <4>1, <4>4, <4>5 DEF Apply, Shown
    <3>15. k < Len(emitted) /\ code = <<>>
      <4>1. Len(r) # 0
        BY <1>6, <2>2
      <4>2. k < Len(emitted)
        BY <1>6, <4>1
      <4> QED BY <1>2, <4>2 DEF Shows
    <3>16. /\ k + 1 \in 0 .. Len(emitted) /\ First(emitted, k) \in Seq(Told)
           /\ First(emitted, k + 1) = Append(First(emitted, k), f)
           /\ Rest(emitted, k + 1) = t
      BY <1>5, <1>6, <3>1, <3>15, FirstStep
    <3>17. acc' = OutputsOf(First(emitted, k + 1))
      <4>1. OutputsOf(Append(First(emitted, k), f)) = OutputsOf(First(emitted, k)) \o Shown(f)
        BY <3>16, ShownMore
      <4> QED BY <1>2, <3>14, <3>16, <4>1 DEF Shows
    <3>18. Shows(k + 1)'
      BY <1>4, <3>14, <3>15, <3>17 DEF Shows
    <3>19. Unparsed(k + 1)'
      <4>1. ExitDue(e)'
        BY <1>3, <1>4, <3>14 DEF ExitDue
      <4>2. WordsOf(t)' = WordsOf(t)
        BY <1>4, WordsStay
      <4>3. (WordsOf(t) \o e)' = x
        BY <3>7, <3>8, <4>2
      <4>4. Comes(WordsOf(t) \o e)'
        BY <3>13, <4>3 DEF Comes
      <4>5. Rest(emitted, k + 1)' = t
        BY <1>4, <3>16
      <4> QED BY <4>1, <4>4, <4>5 DEF Unparsed
    <3>20. ByFrames'
      BY <1>4, <3>16, <3>18, <3>19 DEF ByFrames
    <3>21. CommandRuns'
      BY <1>1, <1>4, <3>12, <3>13, <3>20 DEF CommandRuns
    <3> QED BY <1>1, <1>4, <3>21 DEF OutInv
  <2>3. CASE r = <<>>
    <3>1. Comes(e)
      <4>1. WordsOf(r) = <<>> /\ <<>> \o e = e
        BY <1>7, <2>3, Nothing0, CatEmpty
      <4> QED BY <1>3, <1>5, <4>1
    <3>2. e # <<>>
      <4>1. Len(buf) >= 2 /\ Len(buf) \in Nat /\ Len(buf) <= Len(e)
        BY <1>1, <1>4, <3>1, BufferIs DEF Parsable, HeaderLen
      <4>2. Len(<<>>) = 0
        OBVIOUS
      <4> QED BY <4>1, <4>2
    <3>3. PICK c \in ExitCodes : e = <<Id("Exit"), Num(1), Num(c)>>
      BY <3>2, ExitWordsAre
    <3>4. PICK y \in Units : y = Num(c)
      <4>1. c \in Nat
        BY ShellAssumption
      <4> QED BY <4>1, TokensOfFrames
    <3>5. e \o <<>> = e /\ <<>> \in Seq(Units)
      BY <1>7, CatEmpty
    <3>6. Comes(<<Id("Exit"), Num(1), y>> \o <<>>)
      BY <3>1, <3>3, <3>4, <3>5
    <3>7. /\ buf[1][2] = "Exit"
          /\ HeaderLen + Number(buf[2]) = 3 /\ 3 <= Len(buf)
          /\ SubSeq(buf, HeaderLen + 1, 3) = <<y>>
      BY <1>1, <1>4, <1>9, <3>5, <3>6, TakesFrame
    <3>8. Apply("Exit", <<y>>) /\ buf' = Rest(buf, 3) /\ pc' = pc /\ res' = res
      BY <2>1, <3>7
    <3>9. Comes(<<>>)' /\ Chunked'
      <4>1. 3 \in Nat /\ Len(e) = 3
        BY <3>3
      <4>2. Comes(e \o <<>>)
        BY <3>1, <3>5
      <4> QED BY <1>1, <1>4, <1>7, <3>5, <3>7, <3>8, <4>1, <4>2, StreamRead
    <3>10. acc' = acc
      BY <3>8 DEF Apply, Outputs
    <3>11. k = Len(emitted) /\ dev.st \notin Working
      <4>1. Len(r) = 0
        BY <2>3
      <4>2. k = Len(emitted)
        BY <1>6, <4>1
      <4> QED BY <1>3, <3>2, <4>2 DEF ExitDue
    <3>12. Shows(k)'
      BY <1>2, <1>4, <3>10, <3>11 DEF Shows
    <3>13. Unparsed(k)'
      <4>1. ExitDue(<<>>)'
        BY DEF ExitDue
      <4>2. WordsOf(r)' = <<>>
        BY <1>4, <2>3, Nothing0, WordsStay
      <4>3. (WordsOf(r) \o <<>>)' = <<>>
        BY <4>2
      <4>4. Comes(WordsOf(r) \o <<>>)'
        BY <3>9, <4>3 DEF Comes
      <4>5. Rest(emitted, k)' = r
        BY <1>4, <1>5
      <4> QED BY <4>1, <4>4, <4>5 DEF Unparsed
    <3>14. ByFrames'
      BY <1>4, <3>12, <3>13 DEF ByFrames
    <3>15. CommandRuns'
      BY <1>1, <1>4, <3>8, <3>9, <3>14 DEF CommandRuns
    <3> QED BY <1>1, <1>4, <3>15 DEF OutInv
  <2> QED BY <2>2, <2>3
<1> QED BY <1>8, <1>9

LEMMA FillOut ==
    ASSUME TalkInv, OutInv, FramesFill \/ DrainFills, UNCHANGED <<syncVars, deviceVars>>
    PROVE  OutInv'
<1>1. /\ down # <<>> /\ down' = Tail(down) /\ buf' = buf \o Head(down)
      /\ UNCHANGED <<out, dev, own, peer, pc, acc, res, v2, code, emitted, user>>
      /\ pc \in {"frames", "drain"}
  BY DEF FramesFill, DrainFills, Fill, Recv, shellVars, deviceVars
<1>2. user = "shell" /\ Chunked
  BY <1>1 DEF TalkInv, Talking, Apart, OutInv, CommandRuns
<1>3. Stream' = Stream /\ Chunked'
  BY <1>1, <1>2, StreamFilled
<1> QED BY <1>1, <1>2, <1>3, OutputStays

LEMMA FramesEndOut ==
    ASSUME TalkInv, OutInv, FramesEnd, UNCHANGED <<syncVars, deviceVars>>
    PROVE  OutInv'
<1>1. /\ pc = "frames" /\ pc' = "return"
      /\ UNCHANGED <<buf, down, out, dev, own, peer, acc, v2, code, emitted, user>>
  BY DEF FramesEnd, channelVars, shellVars, deviceVars
<1>2. user = "shell" /\ v2
  BY <1>1 DEF TalkInv, Talking, Apart, OutInv, CommandRuns
<1>3. Chunked => Chunked'
  BY <1>1 DEF Chunked
<1> QED BY <1>1, <1>2, <1>3, OutputStays

(* drain returns what it has, all of it or not. *)
LEMMA DrainEndOut ==
    ASSUME TalkInv, OutInv, DrainEnd, UNCHANGED <<syncVars, deviceVars>>
    PROVE  OutInv'
<1>1. /\ pc = "drain" /\ pc' = "return" /\ acc' = buf /\ buf' = <<>>
      /\ UNCHANGED <<down, out, dev, own, peer, v2, code, emitted, user>>
  BY DEF DrainEnd, channelVars, shellVars, deviceVars
<1>2. user = "shell" /\ CommandRuns /\ ~v2 /\ Chunked /\ Comes(Said(emitted))
  BY <1>1 DEF TalkInv, Talking, Apart, OutInv, CommandRuns, Bare
<1>3. PartOf(buf, Said(emitted), FALSE) /\ Len(buf) \in Nat
  BY <1>2, BufferIs
<1>4. Bare'
  BY <1>1, <1>3 DEF Bare
<1>5. Chunked'
  BY <1>1, <1>2, EmptyWord DEF Chunked
<1>6. CommandRuns'
  BY <1>1, <1>2, <1>4, <1>5 DEF CommandRuns
<1> QED BY <1>1, <1>2, <1>6 DEF OutInv

(* A Device used for anything else, or a client. *)
LEMMA NoCommandStays ==
    ASSUME OutInv, user # "shell", UNCHANGED <<user, v2, call>>,
           own' = "open" => own = "open",
           own = "open" \/ res' = res
    PROVE  OutInv'
  BY DEF OutInv, NoCommand

LEMMA PostOut ==
    ASSUME TalkInv, OutInv, Post \/ PostFails, UNCHANGED <<syncVars, shellVars, deviceVars>>
    PROVE  OutInv'
<1>1. /\ todo # <<>>
      /\ UNCHANGED <<buf, down, out, dev, own, peer, call, acc, v2, code, emitted, user>>
      /\ \/ pc' = pc /\ res' = res
         \/ pc' = "return" /\ res' = "closed"
  BY DEF Post, PostFails, Send, channelVars, shellVars, deviceVars
<1>2. own = "open"
  BY <1>1 DEF TalkInv, IInv, Owner, Talking, Apart
<1>3. Stream' = Stream /\ (Chunked => Chunked')
  BY <1>1, SameStream DEF Chunked
<1>4. CASE user = "shell"
  BY <1>1, <1>3, <1>4, OutputStays
<1>5. CASE user # "shell"
  BY <1>1, <1>2, <1>5, NoCommandStays
<1> QED BY <1>4, <1>5

(* The end of a call, by its return or without it. *)
LEMMA LeaveOut ==
    ASSUME TalkInv, OutInv, Return \/ GiveUp \/ Quit \/ BeginQuit \/ Dropped
    PROVE  OutInv'
<1>1. /\ own = "open" /\ UNCHANGED <<acc, emitted, code, v2, user, call>>
      /\ own' \in {own, "closed"}
  <2>1. own = "open"
    BY DEF Return, GiveUp, Quit, BeginQuit, Dropped, TalkInv, Talking, Apart
  <2>2. UNCHANGED <<acc, emitted, code, v2, user, call>> /\ own' \in {own, "closed"}
    BY DEF Return, GiveUp, Quit, BeginQuit, Dropped, SendQuit, LetGo, channelVars, shellVars,
           deviceVars
  <2> QED BY <2>1, <2>2
<1>2. CASE user = "shell"
  <2>1. call.op \notin SyncOps /\ pc # "quit"
    BY <1>1, <1>2 DEF TalkInv, Talking, Apart, OutInv, CommandRuns
  <2>2. ~Politely
    BY <2>1 DEF Politely, SyncOps
  <2>3. LetGo /\ (res' = res \/ res' = "given_up")
    BY <1>2, <2>1, <2>2 DEF Return, GiveUp, Quit, BeginQuit, Dropped
  <2>4. own' = "closed" /\ pc' = "idle" /\ dev'.st \notin Working
    BY <2>3 DEF LetGo, Idle, Service, Working
  <2> QED BY <1>1, <1>2, <2>3, <2>4, OutputStays
<1>3. CASE user # "shell"
  <2>1. own' = "open" => own = "open"
    BY <1>1
  <2> QED BY <1>1, <1>3, <2>1, NoCommandStays
<1> QED BY <1>2, <1>3

(* A call begins. *)
LEMMA SyncBeginsOut ==
    ASSUME TalkInv, OutInv, NEW c \in SyncCalls, OpenSync(c) \/ NextCall(c)
    PROVE  OutInv'
<1>1. user # "shell" /\ user' = user /\ v2' = v2 /\ call' = c
  BY DEF OpenSync, NextCall, Begins, shellVars
<1>2. c.op \in SyncOps
  BY DEF SyncCalls, SyncOps
<1> QED BY <1>1, <1>2 DEF OutInv, NoCommand

LEMMA OpenFailsOut ==
    ASSUME TalkInv, OutInv, NEW c, OpenFails(c)
    PROVE  OutInv'
<1>1. /\ pc = "idle" /\ own = "closed" /\ res' = "refused"
      /\ acc' = <<>> /\ code' = <<>> /\ emitted' = <<>>
      /\ UNCHANGED <<pc, own, v2, user>>
  BY DEF OpenFails, BeginCall, channelVars
<1>2. CASE user # "shell"
  BY <1>1, <1>2 DEF OutInv, NoCommand
<1>3. CASE user = "shell"
  <2>1. v2 \in BOOLEAN
    BY <1>3 DEF OutInv, CommandRuns
  <2>2. First(<<>>, 0) = <<>> /\ <<>> \in Seq(Told) /\ 0 \in 0 .. Len(<<>>)
    BY DEF First
  <2>3. Shows(0)'
    BY <1>1, <2>2, Nothing0 DEF Shows
  <2>4. ByFrames'
    BY <1>1, <2>2, <2>3 DEF ByFrames
  <2>5. Bare'
    BY <1>1 DEF Bare
  <2>6. CommandRuns'
    BY <1>1, <2>1, <2>2, <2>4, <2>5 DEF CommandRuns
  <2> QED BY <1>1, <1>3, <2>6 DEF OutInv
<1> QED BY <1>2, <1>3

LEMMA OpenShellOut ==
    ASSUME TalkInv, OutInv, NEW c \in ShellCalls, OpenShell(c)
    PROVE  OutInv'
<1>1. /\ user = "shell" /\ user' = user /\ own' = "open" /\ peer' = "open"
      /\ down' = <<>> /\ buf' = <<>> /\ out' = <<>>
      /\ acc' = <<>> /\ code' = <<>> /\ emitted' = <<>> /\ res' = "pending"
      /\ v2' \in BOOLEAN /\ pc' = IF v2' THEN "frames" ELSE "drain"
  BY DEF OpenShell, Opens, Starts, HasV2
<1>2. First(<<>>, 0) = <<>> /\ Rest(<<>>, 0) = <<>> /\ <<>> \in Seq(Told) /\ 0 \in 0 .. Len(<<>>)
  BY DEF First, Rest
<1>3. Chunked'
  BY <1>1, EmptyWord DEF Chunked
<1>4. Comes(<<>>)'
  <2>1. Stream' = <<>>
    <3>1. FlattenSeq(<<>>) = <<>> /\ <<>> \o <<>> = <<>>
      BY FlatEmpty
    <3> QED BY <1>1, <3>1 DEF Stream, Joined
  <2>2. Len(<<>>) \in Nat
    OBVIOUS
  <2> QED BY <2>1, <2>2, PartWhole DEF Comes
<1>5. Shows(0)'
  BY <1>1, <1>2, Nothing0 DEF Shows
<1>6. Unparsed(0)'
  <2>1. ExitDue(<<>>)'
    BY DEF ExitDue
  <2>2. WordsOf(<<>>)' = <<>>
    <3>1. PICK m : m = [i \in DOMAIN <<>> |-> WordsIn(<<>>[i])']
      OBVIOUS
    <3>2. m = <<>>
      <4>1. m = [i \in 1 .. 0 |-> m[i]]
        BY <3>1
      <4> QED BY <4>1
    <3>3. WordsOf(<<>>)' = FlattenSeq(m)
      BY <3>1 DEF WordsOf
    <3> QED BY <3>2, <3>3, FlatEmpty
  <2>3. (WordsOf(Rest(emitted, 0)) \o <<>>)' = <<>>
    BY <1>1, <1>2, <2>2
  <2>4. Comes(WordsOf(Rest(emitted, 0)) \o <<>>)'
    BY <1>4, <2>3 DEF Comes
  <2> QED BY <2>1, <2>4 DEF Unparsed
<1>7. ByFrames'
  BY <1>1, <1>2, <1>5, <1>6 DEF ByFrames
<1>8. Bare'
  <2>1. Said(emitted)' = <<>>
    BY <1>1, Nothing0
  <2> QED BY <1>1, <1>4, <2>1 DEF Bare, Comes
<1>9. CommandRuns'
  BY <1>1, <1>2, <1>3, <1>7, <1>8 DEF CommandRuns
<1> QED BY <1>1, <1>9 DEF OutInv
-----------------------------------------------------------------------------
(* The command and its service. *)
LEMMA FlushOut ==
    ASSUME TalkInv, OutInv, own = "open", Flush, UNCHANGED <<syncVars, shellVars, deviceVars>>
    PROVE  OutInv'
<1>1. PICK k \in 1 .. Len(out) : /\ down' = Append(down, First(out, k)) /\ out' = Rest(out, k)
  BY DEF Flush, Write
<1>2. UNCHANGED <<buf, dev, own, peer, pc, call, acc, res, v2, code, emitted, user>>
  BY DEF Flush, Write, shellVars, deviceVars
<1>3. CASE user # "shell"
  BY <1>2, <1>3, NoCommandStays
<1>4. CASE user = "shell"
  <2>1. Chunked
    BY <1>4 DEF OutInv, CommandRuns
  <2>2. Stream' = Stream /\ Chunked'
    BY <1>1, <1>2, <2>1, StreamFlushed
  <2> QED BY <1>2, <1>4, <2>2, OutputStays
<1> QED BY <1>3, <1>4

LEMMA TakesOut ==
    ASSUME TalkInv, OutInv, user = "shell", ShellTakes, UNCHANGED <<syncVars, deviceVars>>
    PROVE  OutInv'
<1>1. /\ UNCHANGED <<buf, down, out, own, peer, pc, acc, res, v2, code, emitted, user>>
      /\ dev.st \in Working
  BY DEF ShellTakes, Arrive, shellVars, deviceVars, Working
<1>2. Stream' = Stream /\ (Chunked => Chunked')
  BY <1>1, SameStream DEF Chunked
<1> QED BY <1>1, <1>2, OutputStays

(* More comes, at the end of all that has been written. *)
LEMMA MoreComes ==
    ASSUME Chunked, peer = "open", peer' = peer, NEW r \in Seq(Units), out' = out \o r,
           UNCHANGED <<buf, down>>, NEW w \in Seq(Units), Comes(w)
    PROVE  Comes(w \o r)' /\ Chunked'
<1>1. Stream' = Stream \o r /\ Chunked'
  BY StreamReplied
<1>2. PICK s : s = Stream
  OBVIOUS
<1>3. s \in Seq(Units)
  BY <1>2, JoinedType DEF Chunked, Stream
<1>4. PartOf(s, w, TRUE)
  BY <1>2 DEF Comes
<1>5. s = w
  BY <1>3, <1>4, Same DEF PartOf
<1>6. Len(w \o r) \in Nat
  OBVIOUS
<1>7. PICK x, whole : x = w \o r /\ whole = (peer' = "open")
  OBVIOUS
<1>8. PartOf(x, x, whole)
  BY <1>6, <1>7, PartWhole
<1>9. Stream' = x
  BY <1>1, <1>2, <1>5, <1>7
<1> QED BY <1>1, <1>7, <1>8, <1>9 DEF Comes

LEMMA PartMore ==
    ASSUME NEW S, NEW a, NEW w \in Seq(S), NEW r \in Seq(S), Len(a) \in Nat,
           PartOf(a, w, FALSE)
    PROVE  PartOf(a, w \o r, FALSE)
<1>1. /\ Len(w \o r) = Len(w) + Len(r) /\ Len(w) \in Nat /\ Len(r) \in Nat
      /\ \A i \in 1 .. Len(w) : (w \o r)[i] = w[i]
  BY Put
<1>2. \A i \in 1 .. Len(a) : i \in 1 .. Len(w)
  BY <1>1 DEF PartOf
<1> QED BY <1>1, <1>2 DEF PartOf

(* What Comes is said of, as words. *)
LEMMA RestWords ==
    ASSUME emitted \in Seq(Told), NEW k \in 0 .. Len(emitted),
           NEW e \in {<<>>} \cup ExitWords
    PROVE  /\ Rest(emitted, k) \in Seq(Told)
           /\ WordsOf(Rest(emitted, k)) \in Seq(Units)
           /\ e \in Seq(Units)
           /\ WordsOf(Rest(emitted, k)) \o e \in Seq(Units)
<1>1. PICK r : r = Rest(emitted, k)
  OBVIOUS
<1>2. r \in Seq(Told)
  BY <1>1, FirstRest
<1>3. PICK m : m = [i \in DOMAIN r |-> WordsIn(r[i])]
  OBVIOUS
<1>4. WordsOf(r) \in Seq(Units)
  BY <1>2, <1>3, WordsOfType
<1>5. e \in Seq(Units)
  BY ExitWordsAre
<1> QED BY <1>1, <1>2, <1>4, <1>5

(* The command writes: what it has written is what is to be shown. *)
LEMMA EmitsOut ==
    ASSUME TalkInv, OutInv, user = "shell", own = "open", dev.st \in Working, dev'.st = dev.st,
           NEW x \in Kinds, NEW j \in Nat, Emits(x, Piece(j)),
           UNCHANGED <<buf, down, own, peer, pc, acc, res, v2, code, user>>
    PROVE  OutInv'
<1>1. CommandRuns /\ Chunked /\ peer = "open" /\ emitted \in Seq(Told)
  BY DEF OutInv, CommandRuns
<1>2. PICK f : f = Frame(x, <<Piece(j)>>)
  OBVIOUS
<1>3. f \in Told /\ f.id = x /\ f.data[1] = Piece(j)
  BY <1>2, FrameIsTold
<1>4. PICK r : r = WordsIn(f)
  OBVIOUS
<1>5. r \in Seq(Units) /\ out' = out \o r /\ emitted' = Append(emitted, f)
  <2>1. r \in Seq(Units)
    BY <1>3, <1>4, WordsInIs
  <2> QED BY <1>2, <1>3, <1>4, <2>1 DEF Emits, WordsIn
<1>6. Chunked'
  BY <1>1, <1>5, StreamReplied
<1>7. emitted' \in Seq(Told)
  BY <1>1, <1>3, <1>5, AppendIs
<1>8. ASSUME v2 PROVE ByFrames'
  <2>1. PICK k \in 0 .. Len(emitted) : Shows(k) /\ (pc = "frames" => Unparsed(k))
    BY <1>1, <1>8 DEF CommandRuns, ByFrames
  <2>2. /\ k \in 0 .. Len(emitted')
        /\ First(emitted', k) = First(emitted, k)
        /\ Rest(emitted', k) = Append(Rest(emitted, k), f)
    BY <1>1, <1>3, <1>5, <2>1, FirstOfMore
  <2>3. code = <<>>
    BY <2>1 DEF Shows
  <2>4. Shows(k)'
    BY <2>1, <2>2, <2>3 DEF Shows
  <2>5. ASSUME pc = "frames" PROVE Unparsed(k)'
    <3>1. PICK e \in {<<>>} \cup ExitWords : ExitDue(e) /\ Comes(WordsOf(Rest(emitted, k)) \o e)
      BY <2>1, <2>5 DEF Unparsed
    <3>2. e = <<>>
      BY <3>1 DEF ExitDue
    <3>3. PICK q, w : q = Rest(emitted, k) /\ w = WordsOf(q)
      OBVIOUS
    <3>4. q \in Seq(Told) /\ w \in Seq(Units)
      BY <1>1, <2>1, <3>3, RestWords
    <3>5. w \o <<>> = w
      BY <3>4, CatEmpty
    <3>6. Comes(w)
      BY <3>1, <3>2, <3>3, <3>5
    <3>7. Comes(w \o r)'
      BY <1>1, <1>5, <3>4, <3>6, MoreComes
    <3>8. WordsOf(Append(q, f)) = w \o r
      BY <1>3, <1>4, <3>3, <3>4, WordsMore
    <3>9. PICK p : p = w \o r
      OBVIOUS
    <3>10. p \in Seq(Units) /\ p \o <<>> = p
      <4>1. p \in Seq(Units)
        BY <1>5, <3>4, <3>9
      <4> QED BY <4>1, CatEmpty
    <3>11. PICK a : a = Append(q, f)
      OBVIOUS
    <3>12. WordsOf(a)' = p
      <4>1. WordsOf(a)' = WordsOf(a)
        BY WordsStay
      <4> QED BY <3>8, <3>9, <3>11, <4>1
    <3>13. Rest(emitted', k) = a
      BY <2>2, <3>3, <3>11
    <3>14. (WordsOf(Rest(emitted, k)) \o <<>>)' = p
      BY <3>10, <3>12, <3>13
    <3>15. Comes(WordsOf(Rest(emitted, k)) \o <<>>)'
      BY <3>7, <3>9, <3>14 DEF Comes
    <3>16. ExitDue(<<>>)'
      BY DEF ExitDue
    <3> QED BY <3>15, <3>16 DEF Unparsed
  <2> QED BY <2>2, <2>4, <2>5 DEF ByFrames
<1>9. ASSUME ~v2 PROVE Bare'
  <2>1. PICK s : s = Said(emitted)
    OBVIOUS
  <2>2. r = <<f.data[1]>>
    BY <1>3, <1>4, <1>9, WordsInIs
  <2>3. s \in Seq(Units) /\ Said(emitted') = s \o r
    BY <1>1, <1>3, <1>5, <2>1, <2>2, SaidMore
  <2>4. ASSUME pc = "drain" PROVE Comes(Said(emitted))'
    <3>1. Comes(s)
      BY <1>1, <1>9, <2>1, <2>4 DEF CommandRuns, Bare
    <3>2. Comes(s \o r)'
      BY <1>1, <1>5, <2>3, <3>1, MoreComes
    <3> QED BY <2>3, <3>2 DEF Comes
  <2>5. ASSUME res \in {"ok", "parse"} 
        PROVE  Len(acc) \in Nat /\ PartOf(acc, s \o r, FALSE)
    <3>1. Len(acc) \in Nat /\ PartOf(acc, s, FALSE)
      BY <1>1, <1>9, <2>1, <2>5 DEF CommandRuns, Bare
    <3> QED BY <1>5, <2>3, <3>1, PartMore
  <2> QED BY <2>3, <2>4, <2>5 DEF Bare
<1>10. CommandRuns'
  BY <1>1, <1>6, <1>7, <1>8, <1>9 DEF CommandRuns
<1> QED BY <1>10 DEF OutInv

LEMMA AProcess ==
    ASSUME TalkInv, dev.st \in Working
    PROVE  dev \in Processes
  BY DEF TalkInv, IInv, TypeOK, Services, Working

LEMMA WritesOut ==
    ASSUME TalkInv, OutInv, user = "shell", own = "open", Echo \/ Talk,
           UNCHANGED <<syncVars, deviceVars>>
    PROVE  OutInv'
<1>1. /\ UNCHANGED <<buf, down, own, peer, pc, acc, res, v2, code, user>>
      /\ dev.st \in Working
  BY DEF Echo, Talk, channelVars, deviceVars, Working
<1>2. dev \in Processes
  BY <1>1, AProcess
<1>3. CASE Echo
  <2>1. dev'.st = dev.st
    BY <1>2, <1>3 DEF Echo, Processes
  <2>2. PICK j \in Nat : j = Head(dev.pipe)
    BY <1>2, <1>3 DEF Echo, Processes
  <2>3. "Stdout" \in Kinds /\ Emits("Stdout", Piece(j))
    BY <1>3, <2>2 DEF Echo, Kinds, Outputs
  <2> QED BY <1>1, <2>1, <2>3, EmitsOut
<1>4. CASE Talk
  <2>1. PICK x \in Kinds : Emits(x, Piece(Len(emitted) + 1)) /\ dev' = dev
    BY <1>4 DEF Talk, Kinds
  <2>2. Len(emitted) + 1 \in Nat
    <3>1. emitted \in Seq(Told)
      BY DEF OutInv, CommandRuns
    <3> QED BY <3>1
  <2> QED BY <1>1, <2>1, <2>2, EmitsOut
<1> QED BY <1>3, <1>4

(* The exit code is the last thing it says. *)
LEMMA ExitOut ==
    ASSUME TalkInv, OutInv, user = "shell", own = "open", Exit,
           UNCHANGED <<syncVars, deviceVars>>
    PROVE  OutInv'
<1>1. /\ UNCHANGED <<buf, down, own, peer, pc, acc, res, v2, code, emitted, user>>
      /\ dev.st \in Working
  BY DEF Exit, channelVars, shellVars, deviceVars, Working
<1>2. dev'.st \notin Working
  <2>1. dev \in Processes
    BY <1>1, AProcess
  <2> QED BY <2>1 DEF Exit, Processes, Working
<1>3. CommandRuns /\ Chunked /\ peer = "open" /\ emitted \in Seq(Told)
  BY <1>1 DEF OutInv, CommandRuns
<1>4. CASE ~v2
  <2>1. out' = out
    BY <1>4 DEF Exit
  <2>2. Stream' = Stream /\ Chunked'
    BY <1>1, <1>3, <2>1, SameStream DEF Chunked
  <2> QED BY <1>1, <1>2, <2>2, OutputStays
<1>5. CASE v2
  <2>1. PICK g \in ExitWords : out' = out \o g
    BY <1>5 DEF Exit, ExitWords
  <2>2. g \in Seq(Units)
    BY ExitWordsAre
  <2>3. Chunked'
    BY <1>1, <1>3, <2>1, <2>2, StreamReplied
  <2>4. PICK k \in 0 .. Len(emitted) : Shows(k) /\ (pc = "frames" => Unparsed(k))
    BY <1>3, <1>5 DEF CommandRuns, ByFrames
  <2>5. Shows(k)' /\ code = <<>>
    BY <1>1, <1>2, <2>4 DEF Shows
  <2>6. ASSUME pc = "frames" PROVE Unparsed(k)'
    <3>1. PICK e \in {<<>>} \cup ExitWords : ExitDue(e) /\ Comes(WordsOf(Rest(emitted, k)) \o e)
      BY <2>4, <2>6 DEF Unparsed
    <3>2. e = <<>>
      BY <1>1, <3>1 DEF ExitDue
    <3>3. PICK q, w : q = Rest(emitted, k) /\ w = WordsOf(q)
      OBVIOUS
    <3>4. q \in Seq(Told) /\ w \in Seq(Units)
      BY <1>3, <2>4, <3>3, RestWords
    <3>5. w \o <<>> = w
      BY <3>4, CatEmpty
    <3>6. Comes(w)
      BY <3>1, <3>2, <3>3, <3>5
    <3>7. Comes(w \o g)'
      BY <1>1, <1>3, <2>1, <2>2, <3>4, <3>6, MoreComes
    <3>8. WordsOf(q)' = w
      BY <1>1, <3>3, WordsStay
    <3>9. (WordsOf(Rest(emitted, k)) \o g)' = w \o g
      BY <1>1, <3>3, <3>8
    <3>10. Comes(WordsOf(Rest(emitted, k)) \o g)'
      BY <3>7, <3>9 DEF Comes
    <3>11. ExitDue(g)'
      BY <1>1, <1>2, <2>5 DEF ExitDue
    <3> QED BY <3>10, <3>11 DEF Unparsed
  <2>7. ByFrames'
    BY <1>1, <2>4, <2>5, <2>6 DEF ByFrames
  <2>8. CommandRuns'
    BY <1>1, <1>2, <1>3, <1>5, <2>3, <2>7 DEF CommandRuns
  <2> QED BY <1>1, <2>8 DEF OutInv
<1> QED BY <1>4, <1>5

(* The stream ends, and what had not been written is lost. *)
LEMMA GoneOut ==
    ASSUME TalkInv, OutInv, own = "open", Vanish \/ Hangup,
           UNCHANGED <<syncVars, shellVars, deviceVars>>
    PROVE  OutInv'
<1>1. /\ UNCHANGED <<buf, down, own, pc, call, acc, res, v2, code, emitted, user>>
      /\ peer' = "finished" /\ (out' = out \/ out' = <<>>)
      /\ \/ dev' = dev /\ dev.st = "done"
         \/ dev' = [dev EXCEPT !.st = "gone"]
  BY DEF Vanish, Hangup, Finish, shellVars, deviceVars
<1>2. dev'.st \notin Working
  <2>1. dev \in Processes \/ dev \in Services
    BY DEF TalkInv, IInv, TypeOK
  <2> QED BY <1>1, <2>1 DEF Working, Processes, Services
<1>3. CASE user # "shell"
  BY <1>1, <1>3, NoCommandStays
<1>4. CASE user = "shell"
  <2>1. CommandRuns /\ Chunked /\ emitted \in Seq(Told)
    BY <1>4 DEF OutInv, CommandRuns
  <2>2. Chunked'
    BY <1>1, <2>1, EmptyWord DEF Chunked
  <2>3. ASSUME v2 PROVE ByFrames'
    <3>1. PICK k \in 0 .. Len(emitted) : Shows(k) /\ (pc = "frames" => Unparsed(k))
      BY <2>1, <2>3 DEF CommandRuns, ByFrames
    <3>2. Shows(k)'
      BY <1>1, <1>2, <3>1 DEF Shows
    <3>3. ASSUME pc = "frames" PROVE Unparsed(k)'
      <4>1. PICK e \in {<<>>} \cup ExitWords : ExitDue(e) /\ Comes(WordsOf(Rest(emitted, k)) \o e)
        BY <3>1, <3>3 DEF Unparsed
      <4>2. PICK q, w : q = Rest(emitted, k) /\ w = WordsOf(q) \o e
        OBVIOUS
      <4>3. w \in Seq(Units) /\ Comes(w)
        BY <2>1, <3>1, <4>1, <4>2, RestWords
      <4>4. Comes(w)'
        BY <1>1, <2>1, <4>3, ComesLess
      <4>5. WordsOf(q)' = WordsOf(q)
        BY <1>1, WordsStay
      <4>6. (WordsOf(Rest(emitted, k)) \o e)' = w
        BY <1>1, <4>2, <4>5
      <4>7. Comes(WordsOf(Rest(emitted, k)) \o e)'
        BY <4>4, <4>6 DEF Comes
      <4>8. ExitDue(e)'
        BY <1>1, <1>2, <4>1 DEF ExitDue
      <4> QED BY <4>7, <4>8 DEF Unparsed
    <3> QED BY <1>1, <3>1, <3>2, <3>3 DEF ByFrames
  <2>4. ASSUME ~v2 PROVE Bare'
    <3>1. Bare
      BY <2>1, <2>4 DEF CommandRuns
    <3>2. PICK s : s = Said(emitted)
      OBVIOUS
    <3>3. s \in Seq(Units) /\ Said(emitted') = s
      <4>1. PICK f \in Told : TRUE
        <5>1. "Stdout" \in Kinds /\ 0 \in Nat
          BY DEF Kinds, Outputs
        <5> QED BY <5>1, FrameIsTold
      <4> QED BY <1>1, <2>1, <3>2, <4>1, SaidMore
    <3>4. ASSUME pc = "drain" PROVE Comes(s)'
      BY <1>1, <2>1, <3>1, <3>2, <3>3, <3>4, ComesLess DEF Bare
    <3> QED BY <1>1, <3>1, <3>2, <3>3, <3>4 DEF Bare, Comes
  <2>5. CommandRuns'
    BY <1>1, <1>2, <2>1, <2>2, <2>3, <2>4 DEF CommandRuns
  <2> QED BY <1>1, <1>4, <2>5 DEF OutInv
<1> QED BY <1>3, <1>4

(* A sync service and its client have no part in it. *)
LEMMA SyncClientOut ==
    ASSUME TalkInv, OutInv, SyncClient \/ SourceFails, UNCHANGED <<shellVars, deviceVars>>
    PROVE  OutInv'
<1>1. pc \in Reading \cup {"source"}
  BY DEF SyncClient, ReadStat, ReadEntry, ReadName, ReadChunk, ReadLen, ReadBody, ReadStatus,
     ReadEnd, ReadFailLen, ReadFail, ReadFills, ReadFails, PushData, PushDone, SourceFails, Got,
     Reading
<1>2. UNCHANGED <<call, own, v2, user>>
  BY DEF SyncClient, ReadStat, ReadEntry, ReadName, ReadChunk, ReadLen, ReadBody, ReadStatus,
     ReadEnd, ReadFailLen, ReadFail, ReadFills, ReadFails, PushData, PushDone, SourceFails, Got,
     Fill, Recv, channelVars, shellVars, deviceVars
<1>3. pc \notin {"idle", "frames", "drain", "return"}
  BY <1>1 DEF Reading
<1>4. own = "open" /\ user # "shell"
  BY <1>3 DEF TalkInv, Talking, Apart, OutInv, CommandRuns
<1> QED BY <1>2, <1>4, NoCommandStays

LEMMA SyncServesOut ==
    ASSUME TalkInv, OutInv, own = "open", call.op \in SyncOps, SyncServes,
           UNCHANGED <<shellVars, deviceVars>>
    PROVE  OutInv'
<1>1. UNCHANGED <<call, own, v2, user>>
  BY Serves DEF shellVars
<1>2. user # "shell"
  BY DEF TalkInv, Talking, Apart
<1> QED BY <1>1, <1>2, NoCommandStays

LEMMA OutInitial == Init => OutInv
<1> SUFFICES ASSUME Init PROVE OutInv
  OBVIOUS
<1>1. /\ pc = "idle" /\ own = "closed" /\ res = "none" /\ ~v2 /\ v2 \in BOOLEAN
      /\ emitted = <<>>
  BY DEF Init
<1>2. emitted \in Seq(Told)
  BY <1>1
<1> QED BY <1>1, <1>2 DEF OutInv, CommandRuns, NoCommand, Bare

LEMMA OutStep == ASSUME TalkInv, OutInv, Next PROVE OutInv'
<1>1. CASE Caller
  <2>1. CASE \E c \in SyncCalls : OpenSync(c) \/ NextCall(c) \/ OpenFails(c)
    BY <2>1, SyncBeginsOut, OpenFailsOut
  <2>2. CASE \E c \in ShellCalls : OpenShell(c) \/ OpenFails(c)
    BY <2>2, OpenShellOut, OpenFailsOut
  <2>3. CASE PushFails
    BY <2>3, SyncClientOut DEF PushFails
  <2> QED BY <1>1, <2>1, <2>2, <2>3, LeaveOut DEF Caller
<1>2. CASE CallStep
  <2>1. CASE SyncClient /\ UNCHANGED <<shellVars, deviceVars>>
    BY <2>1, SyncClientOut
  <2>2. CASE ShellClient /\ UNCHANGED <<syncVars, deviceVars>>
    BY <2>2, ParseFrameOut, FillOut, FramesEndOut, DrainEndOut DEF ShellClient
  <2> QED BY <1>2, <2>1, <2>2, PostOut, LeaveOut DEF CallStep
<1>3. CASE ServiceStep
  <2>1. own = "open"
    BY <1>3 DEF ServiceStep
  <2>2. CASE /\ call.op \in {"shell", "checked", "exec", "screencap", "stdin"}
             /\ (ShellTakes \/ Echo \/ Talk \/ Exit)
             /\ UNCHANGED <<syncVars, deviceVars>>
    <3>1. user = "shell"
      BY <2>1, <2>2 DEF OutInv, NoCommand, SyncOps
    <3> QED BY <2>1, <2>2, <3>1, TakesOut, WritesOut, ExitOut
  <2>3. CASE /\ call.op \in {"stat", "list", "pull", "push"}
             /\ SyncServes
             /\ UNCHANGED <<shellVars, deviceVars>>
    BY <2>1, <2>3, SyncServesOut DEF SyncOps
  <2>4. CASE (Flush \/ Hangup) /\ UNCHANGED <<syncVars, shellVars, deviceVars>>
    BY <2>1, <2>4, FlushOut, GoneOut
  <2> QED BY <1>3, <2>2, <2>3, <2>4 DEF ServiceStep
<1>4. CASE Vanishes
  BY <1>4, GoneOut DEF Vanishes
<1> QED BY <1>1, <1>2, <1>3, <1>4 DEF Next

LEMMA OutStutter == ASSUME TalkInv, OutInv, UNCHANGED vars PROVE OutInv'
<1>1. UNCHANGED <<buf, down, out, dev, own, peer, pc, call, acc, res, v2, code, emitted, user>>
  BY DEF vars, readerVars, channelVars, shellVars, deviceVars
<1>2. Stream' = Stream /\ (Chunked => Chunked')
  BY <1>1, SameStream DEF Chunked
<1>3. CASE user = "shell"
  BY <1>1, <1>2, <1>3, OutputStays
<1>4. CASE user # "shell"
  BY <1>1, <1>4, NoCommandStays
<1> QED BY <1>3, <1>4

LEMMA OutAlways == Spec => []OutInv
<1>1. TalkInv /\ OutInv /\ [Next]_vars => OutInv'
  BY OutStep, OutStutter
<1> QED BY <1>1, OutInitial, TalkAlways, PTL DEF Spec

(* What a prefix is. *)
LEMMA PartPrefix ==
    ASSUME NEW s, NEW w, Len(s) \in Nat, PartOf(s, w, FALSE)
    PROVE  IsPrefix(s, w)
<1>1. SubSeq(s, 1, Len(s)) = SubSeq(w, 1, Len(s))
  BY DEF PartOf
<1> QED BY <1>1 DEF PartOf, IsPrefix

LEMMA CatPrefix ==
    ASSUME NEW S, NEW s \in Seq(S), NEW t \in Seq(S)
    PROVE  IsPrefix(s, s \o t)
<1>1. /\ Len(s \o t) = Len(s) + Len(t) /\ Len(s) \in Nat /\ Len(t) \in Nat
      /\ \A i \in 1 .. Len(s) : (s \o t)[i] = s[i]
  BY Put
<1>2. PartOf(s, s \o t, FALSE)
  BY <1>1 DEF PartOf
<1> QED BY <1>1, <1>2, PartPrefix

LEMMA OutWhole == OutInv => OutputIsWhole
<1> SUFFICES ASSUME OutInv PROVE OutputIsWhole
  OBVIOUS
<1>1. ASSUME v2 PROVE IsPrefix(acc, OutputsOf(emitted)) /\ (code # <<>> => acc = OutputsOf(emitted))
  <2>1. CommandRuns
    BY <1>1 DEF OutInv, NoCommand
  <2>2. PICK k \in 0 .. Len(emitted) : Shows(k)
    BY <1>1, <2>1 DEF CommandRuns, ByFrames
  <2>3. PICK f, r : f = First(emitted, k) /\ r = Rest(emitted, k)
    OBVIOUS
  <2>4. f \in Seq(Told) /\ r \in Seq(Told) /\ f \o r = emitted
        /\ Len(r) = Len(emitted) - k /\ Len(emitted) \in Nat
    <3>1. PICK s : s = emitted
      OBVIOUS
    <3>2. s \in Seq(Told) /\ k \in 0 .. Len(s)
      BY <2>1, <3>1 DEF CommandRuns
    <3>3. /\ First(s, k) \in Seq(Told) /\ Rest(s, k) \in Seq(Told)
          /\ Len(Rest(s, k)) = Len(s) - k /\ First(s, k) \o Rest(s, k) = s
      BY <3>2, FirstRest
    <3>4. Len(s) \in Nat
      BY <3>2
    <3> QED BY <2>3, <3>1, <3>3, <3>4
  <2>5. OutputsOf(emitted) = OutputsOf(f) \o OutputsOf(r)
    BY <2>4, ShownCat
  <2>6. OutputsOf(f) \in Seq(Told) /\ OutputsOf(r) \in Seq(Told)
    <3>1. PICK a, b : a = [i \in DOMAIN f |-> Shown(f[i])] /\ b = [i \in DOMAIN r |-> Shown(r[i])]
      OBVIOUS
    <3> QED BY <2>4, <3>1, ShownType
  <2>7. acc = OutputsOf(f)
    BY <2>2, <2>3 DEF Shows
  <2>8. IsPrefix(acc, OutputsOf(emitted))
    BY <2>5, <2>6, <2>7, CatPrefix
  <2>9. ASSUME code # <<>> PROVE acc = OutputsOf(emitted)
    <3>1. k = Len(emitted)
      BY <2>2, <2>9 DEF Shows
    <3>2. r = <<>>
      BY <2>4, <3>1
    <3>3. OutputsOf(r) = <<>>
      BY <3>2, Nothing0
    <3> QED BY <2>5, <2>6, <2>7, <3>3, CatEmpty
  <2> QED BY <2>8, <2>9
<1>2. ASSUME res \in {"ok", "parse"}, ~v2, call.op \in {"shell", "exec", "screencap"}
      PROVE  IsPrefix(acc, [i \in DOMAIN emitted |-> emitted[i].data[1]])
  <2>1. CommandRuns
    BY <1>2 DEF OutInv, NoCommand, SyncOps
  <2>2. Len(acc) \in Nat /\ PartOf(acc, Said(emitted), FALSE)
    BY <1>2, <2>1 DEF CommandRuns, Bare
  <2>3. IsPrefix(acc, Said(emitted))
    BY <2>2, PartPrefix
  <2> QED BY <2>3 DEF Said
<1> QED BY <1>1, <1>2 DEF OutputIsWhole

(* The output of a command is whole: over shell,v2 what the caller has is   *)
(* what the command wrote, frame by frame and in order, and once there is   *)
(* an exit code, all of it (shell_v2.rs, Parser::push and collect_v2); the  *)
(* older services return what came before the end of the stream, which is   *)
(* the beginning of it (shell.rs, drain).  However the stream is cut.       *)
THEOREM OutputsAreWhole == Spec => []OutputIsWhole
BY OutWhole, OutAlways, PTL

=============================================================================
