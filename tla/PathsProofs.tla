---------------------------- MODULE PathsProofs ----------------------------
(***************************************************************************)
(* The helpers of path.c and canon.c do to the characters of a path what   *)
(* they mean on the list of its components: the proof of PathsExact for    *)
(* every alphabet, every length of a path and every PATH_MAX.              *)
(*                                                                         *)
(* The lemmas are about sequences of anything: "/" is the only character   *)
(* that counts.  What is shown of every path is shown by adding one        *)
(* character at its end (Growth).                                          *)
(***************************************************************************)
EXTENDS Paths, Lemmas, SequenceTheorems

-----------------------------------------------------------------------------
(***************************************************************************)
(* Induction over paths.                                                   *)
(***************************************************************************)
LEMMA Growth ==
    ASSUME NEW S, NEW P \in SUBSET Seq(S), <<>> \in P,
           \A p \in P : \A c \in S : Append(p, c) \in P
    PROVE  P = Seq(S)
<1> DEFINE N == {n \in Nat : \A p \in Seq(S) : Len(p) = n => p \in P}
<1>1. 0 \in N
    <2>1. \A p \in Seq(S) : Len(p) = 0 => p = <<>>
        OBVIOUS
    <2> QED BY <2>1
<1>2. ASSUME NEW n \in N
      PROVE  n + 1 \in N
    <2>1. SUFFICES ASSUME NEW p \in Seq(S), Len(p) = n + 1
                   PROVE  p \in P
        OBVIOUS
    <2>2. n \in Nat /\ p # <<>>
        BY <2>1
    <2>3. PICK q \in Seq(S), c \in S : p = Append(q, c)
        BY <2>2, SequenceEmptyOrAppend
    <2>4. Len(q) = n
        BY <2>1, <2>2, <2>3
    <2>5. q \in P
        BY <2>4
    <2> QED BY <2>3, <2>5
<1> HIDE DEF N
<1>3. N \in SUBSET Nat
    BY DEF N
<1>4. N = Nat
    BY <1>1, <1>2, <1>3, InductionOverNat
<1>5. ASSUME NEW p \in Seq(S)
      PROVE  p \in P
    <2>1. Len(p) \in N
        BY <1>4
    <2> QED BY <2>1 DEF N
<1> QED BY <1>5

LEMMA EmptyOrGrown ==
    ASSUME NEW S, NEW p \in Seq(S)
    PROVE  p = <<>> \/ \E q \in Seq(S), c \in S : p = Append(q, c)
BY SequenceEmptyOrAppend

LEMMA AppendConcat ==
    ASSUME NEW S, NEW p \in Seq(S), NEW q \in Seq(S), NEW c \in S
    PROVE  p \o Append(q, c) = Append(p \o q, c)
<1> DEFINE l == p \o Append(q, c)
           r == Append(p \o q, c)
<1>1. l \in Seq(S) /\ r \in Seq(S) /\ Len(l) = Len(r)
    OBVIOUS
<1>2. \A n \in 1..Len(l) : l[n] = r[n]
    OBVIOUS
<1> HIDE DEF l, r
<1> QED BY <1>1, <1>2, SeqEqual DEF l, r

(***************************************************************************)
(* Cutting a path.                                                         *)
(***************************************************************************)
Cuts(S) == [done : Seq(Seq(S)), name : Seq(S)]
NothingCut == [done |-> <<>>, name |-> <<>>]

LEMMA CutTyped ==
    ASSUME NEW S, NEW cut \in Cuts(S), NEW c \in S
    PROVE  CutEnd(cut) \in Seq(Seq(S)) /\ CutMore(cut, c) \in Cuts(S)
<1>1. cut.done \in Seq(Seq(S)) /\ cut.name \in Seq(S)
    BY DEF Cuts
<1>2. CutEnd(cut) \in Seq(Seq(S))
    BY <1>1 DEF CutEnd
<1>3. CASE c = "/"
    <2>1. CutMore(cut, c) = [done |-> CutEnd(cut), name |-> <<>>]
        BY <1>3 DEF CutMore
    <2> QED BY <1>2, <2>1 DEF Cuts
<1>4. CASE c # "/"
    <2>1. CutMore(cut, c) = [done |-> cut.done, name |-> Append(cut.name, c)]
        BY <1>4 DEF CutMore
    <2> QED BY <1>1, <1>2, <2>1 DEF Cuts
<1> QED BY <1>3, <1>4

\* The states of the cutting, one for each character.
IsCutting(f, p) ==
    /\ f[0] = NothingCut
    /\ \A n \in 1..Len(p) : f[n] = CutMore(f[n - 1], p[n])

LEMMA CuttingGoes ==
    ASSUME NEW S, NEW p \in Seq(S)
    PROVE  \E f \in [0..Len(p) -> Cuts(S)] : IsCutting(f, p) /\ CutUp(p) = f[Len(p)]
<1> DEFINE l == Len(p)
           Next_(n, x) == CutMore(x, p[n])
           step == [z \in (1..l) \X Cuts(S) |-> Next_(z[1], z[2])]
           Is(f) == f = [n \in 0..l |-> IF n = 0 THEN NothingCut ELSE Next_(n, f[n - 1])]
           w == CHOOSE g : Is(g)
<1>1. NothingCut \in Cuts(S)
    BY DEF NothingCut, Cuts
<1>2. l \in Nat /\ \A n \in 1..l : \A x \in Cuts(S) : Next_(n, x) \in Cuts(S)
    BY CutTyped
<1>7. CutUp(p) = w[l]
    BY DEF CutUp, NothingCut
<1> HIDE DEF l, Next_
<1>3. step \in [(1..l) \X Cuts(S) -> Cuts(S)]
    BY <1>2
<1>4. PICK f \in [0..l -> Cuts(S)] : IsLoop(f, l, NothingCut, step)
    <2> HIDE DEF step
    <2> QED BY <1>1, <1>2, <1>3, LoopExists
<1>5. \A n \in 0..l : f[n] = IF n = 0 THEN NothingCut ELSE Next_(n, f[n - 1])
    <2> SUFFICES ASSUME NEW n \in 0..l, n # 0
                 PROVE  f[n] = Next_(n, f[n - 1])
        BY <1>4 DEF IsLoop
    <2>1. n \in 1..l /\ f[n - 1] \in Cuts(S)
        BY <1>2, <1>4
    <2> QED BY <2>1, <1>4 DEF IsLoop
<1>6. Is(f)
    BY <1>4, <1>5
<1>8. Is(w)
    BY <1>6
<1> HIDE DEF w
<1> DEFINE T == {n \in 0..l : w[n] = f[n]}
<1>9. \A n \in 0..l : n \in T
    <2>1. 0 \in T
        BY <1>2, <1>5, <1>8
    <2>2. ASSUME NEW n \in 0..(l - 1), n \in T
          PROVE  n + 1 \in T
        BY <1>2, <1>5, <1>8, <2>2
    <2> HIDE DEF T
    <2> QED BY <1>2, <2>1, <2>2, InductionUpTo
<1>10. w = f
    BY <1>4, <1>8, <1>9
<1>11. w[0] = NothingCut /\ \A n \in 1..l : w[n] = Next_(n, w[n - 1])
    BY <1>2, <1>8
<1>12. IsCutting(f, p)
    BY <1>10, <1>11 DEF IsCutting, Next_, l
<1> QED BY <1>4, <1>7, <1>10, <1>12 DEF l

LEMMA CutNone == CutUp(<<>>) = NothingCut
<1>1. <<>> \in Seq({}) /\ Len(<<>>) = 0
    OBVIOUS
<1>2. PICK f \in [0..0 -> Cuts({})] : IsCutting(f, <<>>) /\ CutUp(<<>>) = f[0]
    BY <1>1, CuttingGoes
<1> QED BY <1>2 DEF IsCutting

LEMMA CutOne ==
    ASSUME NEW S, NEW p \in Seq(S), NEW c \in S
    PROVE  CutUp(Append(p, c)) = CutMore(CutUp(p), c)
<1> DEFINE q == Append(p, c)
           l == Len(p)
<1>1. /\ q \in Seq(S) /\ Len(q) = l + 1 /\ q[l + 1] = c /\ l \in Nat
      /\ \A n \in 1..l : q[n] = p[n]
    OBVIOUS
<1>2. PICK f \in [0..l -> Cuts(S)] : IsCutting(f, p) /\ CutUp(p) = f[l]
    BY CuttingGoes
<1>3. PICK g \in [0..(l + 1) -> Cuts(S)] : IsCutting(g, q) /\ CutUp(q) = g[l + 1]
    <2>1. \E g \in [0..Len(q) -> Cuts(S)] : IsCutting(g, q) /\ CutUp(q) = g[Len(q)]
        BY <1>1, CuttingGoes
    <2> HIDE DEF q, l
    <2> QED BY <1>1, <2>1
<1> HIDE DEF q
<1> DEFINE T == {n \in 0..l : f[n] = g[n]}
<1>4. 0 \in T
    BY <1>1, <1>2, <1>3 DEF IsCutting
<1>5. ASSUME NEW n \in 0..(l - 1), n \in T
      PROVE  n + 1 \in T
    <2>1. n + 1 \in 1..l /\ n + 1 \in 1..(l + 1) /\ (n + 1) - 1 = n
        BY <1>1
    <2>2. f[n + 1] = CutMore(f[n], p[n + 1])
        BY <1>2, <2>1 DEF IsCutting
    <2>3. g[n + 1] = CutMore(g[n], q[n + 1])
        BY <1>1, <1>3, <2>1 DEF IsCutting
    <2> QED BY <1>1, <1>5, <2>1, <2>2, <2>3
<1> HIDE DEF T
<1>6. \A n \in 0..l : n \in T
    BY <1>1, <1>4, <1>5, InductionUpTo
<1>7. f[l] = g[l]
    BY <1>1, <1>6 DEF T
<1>8. g[l + 1] = CutMore(g[l], c)
    <2>1. l + 1 \in 1..(l + 1) /\ (l + 1) - 1 = l
        BY <1>1
    <2> QED BY <1>1, <1>3, <2>1 DEF IsCutting
<1> QED BY <1>2, <1>3, <1>7, <1>8 DEF q

LEMMA CutIs ==
    ASSUME NEW S, NEW p \in Seq(S)
    PROVE  /\ CutUp(p) \in Cuts(S) /\ CutUp(p).name \in Seq(S) /\ CutUp(p).done \in Seq(Seq(S))
           /\ Components(p) \in Seq(Seq(S))
<1>1. PICK f \in [0..Len(p) -> Cuts(S)] : CutUp(p) = f[Len(p)]
    BY CuttingGoes
<1>2. CutUp(p) \in Cuts(S)
    BY <1>1
<1>3. CutEnd(CutUp(p)) \in Seq(Seq(S))
    BY <1>2 DEF CutEnd, Cuts
<1> QED BY <1>2, <1>3 DEF Components, Cuts

\* No name is being read when nothing is or after a separator.
LEMMA NoNameRead ==
    ASSUME NEW S, NEW p \in Seq(S)
    PROVE  CutUp(p).name = <<>> <=> (p = <<>> \/ EndsWith(p, "/"))
<1>1. CASE p = <<>>
    BY <1>1, CutNone DEF NothingCut
<1>2. ASSUME NEW q \in Seq(S), NEW c \in S, p = Append(q, c)
      PROVE  CutUp(p).name = <<>> <=> EndsWith(p, "/")
    <2>1. CutUp(p) = CutMore(CutUp(q), c) /\ CutUp(q).name \in Seq(S)
        BY <1>2, CutOne, CutIs
    <2>2. EndsWith(p, "/") <=> c = "/"
        BY <1>2 DEF EndsWith, Last
    <2>3. Append(CutUp(q).name, c) # <<>>
        BY <2>1
    <2>4. CASE c = "/"
        BY <2>1, <2>2, <2>4 DEF CutMore
    <2>5. CASE c # "/"
        BY <2>1, <2>2, <2>3, <2>5 DEF CutMore
    <2> QED BY <2>4, <2>5
<1>3. p # <<>> => EndsWith(p, "/") \/ ~EndsWith(p, "/")
    OBVIOUS
<1> QED BY <1>1, <1>2, EmptyOrGrown

\* Behind a separator the cutting begins anew.
LEMMA CutAnew ==
    ASSUME NEW S, NEW p \in Seq(S), NEW q \in Seq(S), CutUp(p).name = <<>>
    PROVE  CutUp(p \o q) = [done |-> CutUp(p).done \o CutUp(q).done, name |-> CutUp(q).name]
<1> DEFINE d == CutUp(p).done
           R(x) == CutUp(p \o x) = [done |-> d \o CutUp(x).done, name |-> CutUp(x).name]
           P == {x \in Seq(S) : R(x)}
<1>1. d \in Seq(Seq(S)) /\ CutUp(p) = [done |-> d, name |-> <<>>]
    BY CutIs DEF Cuts
<1>2. <<>> \in P
    <2>1. p \o <<>> = p /\ d \o <<>> = d /\ <<>> \in Seq(S)
        BY <1>1
    <2> HIDE DEF d
    <2>2. R(<<>>)
        BY <1>1, <2>1, CutNone DEF NothingCut
    <2> QED BY <2>1, <2>2
<1>3. ASSUME NEW x \in P, NEW c \in S
      PROVE  Append(x, c) \in P
    <2>7. x \in Seq(S) /\ R(x)
        OBVIOUS
    <2>1. x \in Seq(S) /\ R(x) /\ p \o x \in Seq(S) /\ Append(x, c) \in Seq(S)
        <3> HIDE DEF R
        <3> QED BY <2>7
    <2>2. CutUp(p \o Append(x, c)) = CutMore(CutUp(p \o x), c)
        <3> HIDE DEF R
        <3>1. p \o Append(x, c) = Append(p \o x, c)
            BY <2>1, AppendConcat
        <3>2. CutUp(Append(p \o x, c)) = CutMore(CutUp(p \o x), c)
            BY <2>1, CutOne
        <3> QED BY <3>1, <3>2
    <2>3. CutUp(Append(x, c)) = CutMore(CutUp(x), c)
        BY <2>1, CutOne
    <2>4. CutUp(x).done \in Seq(Seq(S)) /\ CutUp(x).name \in Seq(S)
        BY <2>1, CutIs
    <2> HIDE DEF d
    <2>5. CASE c = "/"
        <3>1. /\ CutMore(CutUp(x), c).done = CutEnd(CutUp(x))
              /\ CutMore(CutUp(x), c).name = <<>>
              /\ CutMore(CutUp(p \o x), c) = [done |-> CutEnd(CutUp(p \o x)), name |-> <<>>]
            BY <2>5 DEF CutMore
        <3>2. CutEnd(CutUp(p \o x)) = d \o CutEnd(CutUp(x))
            <4>1. CutUp(p \o x).done = d \o CutUp(x).done /\ CutUp(p \o x).name = CutUp(x).name
                BY <2>1
            <4>2. d \o Append(CutUp(x).done, CutUp(x).name) = Append(d \o CutUp(x).done, CutUp(x).name)
                <5> DEFINE u == CutUp(x).done
                           v == CutUp(x).name
                           D == Seq(S)
                <5>1. d \in Seq(D) /\ u \in Seq(D) /\ v \in D
                    BY <1>1, <2>4
                <5> HIDE DEF P, R, u, v, D
                <5>2. d \o Append(u, v) = Append(d \o u, v)
                    BY <5>1
                <5> QED BY <5>2 DEF u, v
            <4> QED BY <4>1, <4>2 DEF CutEnd
        <3> QED BY <2>1, <2>2, <2>3, <3>1, <3>2
    <2>6. CASE c # "/"
        <3>1. /\ CutMore(CutUp(x), c).done = CutUp(x).done
              /\ CutMore(CutUp(x), c).name = Append(CutUp(x).name, c)
              /\ CutMore(CutUp(p \o x), c) = [done |-> CutUp(p \o x).done, name |-> Append(CutUp(p \o x).name, c)]
            BY <2>6 DEF CutMore
        <3>2. CutUp(p \o x).done = d \o CutUp(x).done /\ CutUp(p \o x).name = CutUp(x).name
            BY <2>1
        <3>3. R(Append(x, c))
            <4>1. CutUp(p \o Append(x, c)) = [done |-> d \o CutUp(x).done, name |-> Append(CutUp(x).name, c)]
                BY <2>2, <3>1, <3>2
            <4> QED BY <2>3, <3>1, <4>1
        <3> HIDE DEF R
        <3> QED BY <2>1, <3>3
    <2> QED BY <2>5, <2>6
<1>4. P \in SUBSET Seq(S)
    OBVIOUS
<1> HIDE DEF P
<1>5. P = Seq(S)
    BY <1>2, <1>3, <1>4, Growth
<1>6. R(q)
    BY <1>5 DEF P
<1> QED BY <1>6

LEMMA ComponentsAnew ==
    ASSUME NEW S, NEW p \in Seq(S), NEW q \in Seq(S), p = <<>> \/ EndsWith(p, "/")
    PROVE  Components(p \o q) = Components(p) \o Components(q)
<1>1. CutUp(p).name = <<>>
    BY NoNameRead
<1>2. CutUp(p \o q) = [done |-> CutUp(p).done \o CutUp(q).done, name |-> CutUp(q).name]
    BY <1>1, CutAnew
<1>3. Components(p) = CutUp(p).done
    BY <1>1 DEF Components, CutEnd
<1>4. /\ CutUp(p).done \in Seq(Seq(S)) /\ CutUp(q).done \in Seq(Seq(S)) /\ CutUp(q).name \in Seq(S)
    BY CutIs
<1> DEFINE d == CutUp(p).done
           e == CutUp(q).done
           n == CutUp(q).name
<1>5. d \o Append(e, n) = Append(d \o e, n)
    <2> DEFINE D == Seq(S)
    <2>1. d \in Seq(D) /\ e \in Seq(D) /\ n \in D
        BY <1>4
    <2> HIDE DEF d, e, n, D
    <2>2. \A f, g \in Seq(D) : \A m \in D : f \o Append(g, m) = Append(f \o g, m)
        OBVIOUS
    <2> QED BY <2>1, <2>2
<1>6. Components(p \o q) = IF n = <<>> THEN d \o e ELSE Append(d \o e, n)
    BY <1>2 DEF Components, CutEnd
<1>7. Components(q) = IF n = <<>> THEN e ELSE Append(e, n)
    BY DEF Components, CutEnd
<1> QED BY <1>3, <1>5, <1>6, <1>7

LEMMA ComponentsOfSlash ==
    ASSUME NEW S, "/" \in S, NEW p \in Seq(S)
    PROVE  Components(p \o Root) = Components(p)
<1>1. p \o Root = Append(p, "/")
    BY AppendIsConcat DEF Root
<1>2. CutUp(Append(p, "/")) = [done |-> CutEnd(CutUp(p)), name |-> <<>>]
    BY CutOne DEF CutMore
<1> DEFINE e == CutEnd(CutUp(p))
<1>3. Components(Append(p, "/")) = e
    <2>1. CutUp(Append(p, "/")).done = e /\ CutUp(Append(p, "/")).name = <<>>
        BY <1>2
    <2> HIDE DEF e
    <2> QED BY <2>1 DEF Components, CutEnd
<1> QED BY <1>1, <1>3 DEF Components

LEMMA ComponentsOfNone == Components(<<>>) = <<>>
BY CutNone DEF Components, CutEnd, NothingCut

LEMMA ComponentsOfRoot == Components(Root) = <<>>
<1>1. <<>> \in Seq({"/"}) /\ <<>> \o Root = Root
    BY DEF Root
<1> QED BY <1>1, ComponentsOfSlash, ComponentsOfNone

\* A separator stands between the components of two paths.
LEMMA ComponentsApart ==
    ASSUME NEW S, "/" \in S, NEW p \in Seq(S), NEW q \in Seq(S)
    PROVE  /\ Components(p \o Root \o q) = Components(p) \o Components(q)
           /\ Components(Root \o q) = Components(q)
<1>1. Root \in Seq(S) /\ p \o Root \in Seq(S) /\ EndsWith(p \o Root, "/") /\ EndsWith(Root, "/")
    BY DEF Root, EndsWith, Last
<1>2. Components(p \o Root \o q) = Components(p \o Root) \o Components(q)
    BY <1>1, ComponentsAnew
<1>3. Components(Root \o q) = Components(Root) \o Components(q)
    BY <1>1, ComponentsAnew
<1>4. Components(q) \in Seq(Seq(S))
    BY CutIs
<1>5. <<>> \o Components(q) = Components(q)
    BY <1>4, ConcatEmptySeq
<1>6. Components(p \o Root) = Components(p)
    BY ComponentsOfSlash
<1> QED BY <1>2, <1>3, <1>5, <1>6, ComponentsOfRoot

(***************************************************************************)
(* Joining.                                                                *)
(***************************************************************************)
LEMMA FirstOfConcat ==
    ASSUME NEW S, NEW p \in Seq(S), NEW q \in Seq(S), p # <<>>
    PROVE  p \o q # <<>> /\ Head(p \o q) = Head(p)
<1>1. Len(p) \in Nat \ {0}
    OBVIOUS
<1>2. Len(p \o q) = Len(p) + Len(q) /\ (p \o q)[1] = p[1] /\ p \o q \in Seq(S)
    BY <1>1, ConcatProperties
<1>3. p \o q # <<>>
    BY <1>1, <1>2
<1> QED BY <1>1, <1>2, <1>3, HeadTailProperties

LEMMA SeparatorsOfConcat ==
    ASSUME NEW S, NEW p \in Seq(S), NEW q \in Seq(S),
           SingleSeparators(p), SingleSeparators(q), ~(EndsWith(p, "/") /\ IsAbsolute(q))
    PROVE  SingleSeparators(p \o q)
<1> DEFINE j == p \o q
           l == Len(p)
           m == Len(q)
<1>1. /\ Len(j) = l + m /\ l \in Nat /\ m \in Nat
      /\ \A i \in 1..(l + m) : j[i] = IF i <= l THEN p[i] ELSE q[i - l]
    BY ConcatProperties
<1>2. \A i \in 1..(l - 1) : ~(p[i] = "/" /\ p[i + 1] = "/")
    BY DEF SingleSeparators
<1>3. \A i \in 1..(m - 1) : ~(q[i] = "/" /\ q[i + 1] = "/")
    BY DEF SingleSeparators
<1>4. l # 0 /\ m # 0 => ~(p[l] = "/" /\ q[1] = "/")
    <2>1. l # 0 => p # <<>>
        OBVIOUS
    <2>2. m # 0 => q # <<>> /\ Head(q) = q[1]
        OBVIOUS
    <2> QED BY <2>1, <2>2 DEF EndsWith, IsAbsolute, Last
<1> HIDE DEF j, l, m
<1>5. ASSUME NEW i \in 1..(Len(j) - 1)
      PROVE  ~(j[i] = "/" /\ j[i + 1] = "/")
    <2>1. i \in 1..(l + m) /\ i + 1 \in 1..(l + m) /\ i \in Nat
        BY <1>1
    <2>2. CASE i + 1 <= l
        <3>1. j[i] = p[i] /\ j[i + 1] = p[i + 1] /\ i \in 1..(l - 1)
            BY <1>1, <2>1, <2>2
        <3> QED BY <1>2, <3>1
    <2>3. CASE i = l
        <3>1. j[i] = p[l] /\ j[i + 1] = q[(i + 1) - l] /\ (i + 1) - l = 1 /\ l # 0 /\ m # 0
            BY <1>1, <2>1, <2>3
        <3> QED BY <1>4, <3>1
    <2>4. CASE i > l
        <3>1. j[i] = q[i - l] /\ j[i + 1] = q[(i + 1) - l] /\ (i + 1) - l = (i - l) + 1 /\ i - l \in 1..(m - 1)
            BY <1>1, <2>1, <2>4
        <3> QED BY <1>3, <3>1
    <2> QED BY <1>1, <2>1, <2>2, <2>3, <2>4
<1> QED BY <1>5 DEF SingleSeparators, j

LEMMA AbsoluteIs ==
    ASSUME NEW S, NEW p \in Seq(S), IsAbsolute(p)
    PROVE  /\ p # <<>> /\ Len(p) \in Nat \ {0} /\ p[1] = "/" /\ "/" \in S
           /\ Tail(p) \in Seq(S) /\ p = Root \o Tail(p)
           /\ SingleSeparators(p) => SingleSeparators(Tail(p)) /\ ~IsAbsolute(Tail(p))
<1>1. p # <<>> /\ Head(p) = "/"
    BY DEF IsAbsolute
<1>2. /\ Tail(p) \in Seq(S) /\ Len(Tail(p)) = Len(p) - 1 /\ Len(p) \in Nat \ {0} /\ p[1] = "/"
      /\ \A i \in 1..Len(Tail(p)) : Tail(p)[i] = p[i + 1]
    BY <1>1, HeadTailProperties
<1>3. "/" \in S
    BY <1>2
<1>4. p = Root \o Tail(p)
    <2> DEFINE r == Root \o Tail(p)
    <2>1. Root \in Seq(S) /\ Len(Root) = 1 /\ Root[1] = "/"
        BY <1>3 DEF Root
    <2>2. /\ r \in Seq(S) /\ Len(r) = 1 + Len(Tail(p))
          /\ \A i \in 1..(1 + Len(Tail(p))) : r[i] = IF i <= 1 THEN Root[i] ELSE Tail(p)[i - 1]
        <3>1. /\ r \in Seq(S) /\ Len(r) = Len(Root) + Len(Tail(p))
              /\ \A i \in 1..(Len(Root) + Len(Tail(p))) : r[i] = IF i <= Len(Root) THEN Root[i] ELSE Tail(p)[i - Len(Root)]
            BY <1>2, <2>1, ConcatProperties
        <3> HIDE DEF r
        <3> QED BY <2>1, <3>1
    <2> HIDE DEF r
    <2>3. ASSUME NEW i \in 1..Len(p)
          PROVE  p[i] = r[i]
        <3>1. CASE i = 1
            BY <1>2, <2>1, <2>2, <3>1
        <3>2. CASE i # 1
            <4>1. i - 1 \in 1..Len(Tail(p)) /\ (i - 1) + 1 = i /\ ~(i <= 1) /\ i \in 1..(1 + Len(Tail(p)))
                BY <1>2, <3>2
            <4> QED BY <1>2, <2>2, <4>1
        <3> QED BY <3>1, <3>2
    <2>4. Len(p) = Len(r)
        BY <1>2, <2>2
    <2>5. p = r
        BY <2>2, <2>3, <2>4, SeqEqual
    <2> QED BY <2>5 DEF r
<1>5. ASSUME SingleSeparators(p)
      PROVE  SingleSeparators(Tail(p)) /\ ~IsAbsolute(Tail(p))
    <2>1. \A i \in 1..(Len(p) - 1) : ~(p[i] = "/" /\ p[i + 1] = "/")
        BY <1>5 DEF SingleSeparators
    <2> DEFINE t == Tail(p)
    <2>2. t \in Seq(S) /\ Len(t) = Len(p) - 1 /\ \A i \in 1..Len(t) : t[i] = p[i + 1]
        BY <1>2
    <2> HIDE DEF t
    <2>3. ASSUME NEW i \in 1..(Len(t) - 1)
          PROVE  ~(t[i] = "/" /\ t[i + 1] = "/")
        <3>1. i + 1 \in 1..(Len(p) - 1) /\ i \in 1..Len(t) /\ i + 1 \in 1..Len(t)
            BY <1>2, <2>2
        <3>2. t[i] = p[i + 1] /\ t[i + 1] = p[(i + 1) + 1]
            BY <2>2, <3>1
        <3> QED BY <2>1, <3>1, <3>2
    <2>4. ASSUME t # <<>>
          PROVE  Head(t) # "/"
        <3>1. Head(t) = t[1] /\ 1 \in 1..Len(t) /\ 1 \in 1..(Len(p) - 1)
            BY <1>2, <2>2, <2>4
        <3>2. t[1] = p[1 + 1]
            BY <2>2, <3>1
        <3> QED BY <1>2, <2>1, <3>1, <3>2
    <2> QED BY <2>3, <2>4 DEF SingleSeparators, IsAbsolute, t
<1> QED BY <1>1, <1>2, <1>3, <1>4, <1>5

Joint(a, b) ==
    CASE a # <<>> /\ ~EndsWith(a, "/") /\ ~IsAbsolute(b) -> a \o Root \o b
      [] EndsWith(a, "/") /\ IsAbsolute(b) -> a \o Tail(b)
      [] OTHER -> a \o b

LEMMA JoinIs ==
    ASSUME NEW a, NEW b
    PROVE  /\ join_paths(a, b) = IF Len(Joint(a, b)) + 1 >= PATH_MAX THEN TooLong ELSE Joint(a, b)
           /\ a # <<>> /\ ~EndsWith(a, "/") /\ ~IsAbsolute(b) => Joint(a, b) = a \o Root \o b
           /\ EndsWith(a, "/") /\ IsAbsolute(b) => Joint(a, b) = a \o Tail(b)
           /\ ~(a # <<>> /\ ~EndsWith(a, "/") /\ ~IsAbsolute(b)) /\ ~(EndsWith(a, "/") /\ IsAbsolute(b))
              => Joint(a, b) = a \o b
<1>1. join_paths(a, b) = IF Len(Joint(a, b)) + 1 >= PATH_MAX THEN TooLong ELSE Joint(a, b)
    BY DEF join_paths, Joint
<1>2. a # <<>> /\ ~EndsWith(a, "/") /\ ~IsAbsolute(b) => Joint(a, b) = a \o Root \o b
    BY DEF Joint
<1>3. EndsWith(a, "/") /\ IsAbsolute(b) => Joint(a, b) = a \o Tail(b)
    BY DEF Joint
<1>4. ~(a # <<>> /\ ~EndsWith(a, "/") /\ ~IsAbsolute(b)) /\ ~(EndsWith(a, "/") /\ IsAbsolute(b))
              => Joint(a, b) = a \o b
    BY DEF Joint
<1> QED BY <1>1, <1>2, <1>3, <1>4

LEMMA JointSays ==
    ASSUME NEW S, "/" \in S, NEW a \in Seq(S), NEW b \in Seq(S)
    PROVE  /\ Joint(a, b) \in Seq(S)
           /\ SingleSeparators(a) /\ SingleSeparators(b) => SingleSeparators(Joint(a, b))
           /\ a # <<>> => /\ Components(Joint(a, b)) = Components(a) \o Components(b)
                          /\ IsAbsolute(Joint(a, b)) <=> IsAbsolute(a)
<1> DEFINE j == Joint(a, b)
<1>1. Root \in Seq(S) /\ a \o Root \in Seq(S) /\ SingleSeparators(Root) /\ Root # <<>> /\ Head(Root) = "/"
    BY DEF Root, SingleSeparators
<1>2. ASSUME NEW r \in Seq(S), a # <<>>
      PROVE  IsAbsolute(a \o r) <=> IsAbsolute(a)
    BY <1>2, FirstOfConcat DEF IsAbsolute
<1>3. CASE a # <<>> /\ ~EndsWith(a, "/") /\ ~IsAbsolute(b)
    <2>1. j = a \o Root \o b
        BY <1>3, JoinIs
    <2>2. j = a \o (Root \o b) /\ Root \o b \in Seq(S)
        BY <1>1, <2>1, ConcatAssociative
    <2>3. IsAbsolute(j) <=> IsAbsolute(a)
        BY <1>2, <1>3, <2>2
    <2>4. Components(j) = Components(a) \o Components(b)
        BY <2>1, ComponentsApart
    <2>5. ASSUME SingleSeparators(a), SingleSeparators(b)
          PROVE  SingleSeparators(j)
        <3>1. SingleSeparators(a \o Root)
            BY <1>1, <1>3, <2>5, SeparatorsOfConcat
        <3> QED BY <1>1, <1>3, <2>1, <2>5, <3>1, SeparatorsOfConcat
    <2>6. j \in Seq(S)
        BY <1>1, <2>1
    <2> HIDE DEF j
    <2> QED BY <2>3, <2>4, <2>5, <2>6 DEF j
<1>4. CASE EndsWith(a, "/") /\ IsAbsolute(b)
    <2> DEFINE t == Tail(b)
    <2>1. j = a \o t /\ t \in Seq(S) /\ b = Root \o t /\ a # <<>>
        BY <1>4, JoinIs, AbsoluteIs DEF EndsWith
    <2>2. SingleSeparators(b) => SingleSeparators(t) /\ ~IsAbsolute(t)
        BY <1>4, AbsoluteIs
    <2> HIDE DEF t, j
    <2>3. Components(j) = Components(a) \o Components(t)
        BY <1>4, <2>1, ComponentsAnew
    <2>4. Components(b) = Components(t)
        BY <2>1, ComponentsApart
    <2>5. IsAbsolute(j) <=> IsAbsolute(a)
        BY <1>2, <2>1
    <2>6. SingleSeparators(a) /\ SingleSeparators(b) => SingleSeparators(j)
        BY <2>1, <2>2, SeparatorsOfConcat
    <2>7. j \in Seq(S)
        BY <2>1
    <2> QED BY <2>3, <2>4, <2>5, <2>6, <2>7 DEF j
<1>5. CASE /\ ~(a # <<>> /\ ~EndsWith(a, "/") /\ ~IsAbsolute(b))
           /\ ~(EndsWith(a, "/") /\ IsAbsolute(b))
    <2>1. j = a \o b
        BY <1>5, JoinIs
    <2> HIDE DEF j
    <2>2. a # <<>> => (IsAbsolute(j) <=> IsAbsolute(a))
        BY <1>2, <2>1
    <2>3. SingleSeparators(a) /\ SingleSeparators(b) => SingleSeparators(j)
        BY <1>5, <2>1, SeparatorsOfConcat
    <2>7. j \in Seq(S)
        BY <2>1
    <2>4. CASE a = <<>>
        BY <2>2, <2>3, <2>4, <2>7 DEF j
    <2>5. CASE EndsWith(a, "/")
        <3>1. Components(j) = Components(a) \o Components(b)
            BY <2>1, <2>5, ComponentsAnew
        <3> QED BY <2>2, <2>3, <2>7, <3>1 DEF j
    <2>6. CASE a # <<>> /\ ~EndsWith(a, "/")
        <3> DEFINE t == Tail(b)
        <3>1. b = Root \o t /\ t \in Seq(S)
            BY <1>5, <2>6, AbsoluteIs
        <3> HIDE DEF t
        <3>2. j = a \o Root \o t
            <4>1. a \in Seq(S) /\ Root \in Seq(S) /\ t \in Seq(S)
                BY <1>1, <3>1 DEF Root
            <4>2. \A x, y, z \in Seq(S) : x \o (y \o z) = (x \o y) \o z
                OBVIOUS
            <4>3. a \o (Root \o t) = (a \o Root) \o t
                BY <4>1, <4>2
            <4> QED BY <2>1, <3>1, <4>3
        <3>3. Components(j) = Components(a) \o Components(b)
            <4>1. Components(a \o Root \o t) = Components(a) \o Components(t) /\ Components(Root \o t) = Components(t)
                BY <3>1, ComponentsApart
            <4> QED BY <3>1, <3>2, <4>1
        <3> QED BY <2>2, <2>3, <2>7, <3>3 DEF j
    <2> QED BY <2>4, <2>5, <2>6
<1> HIDE DEF j
<1> QED BY <1>3, <1>4, <1>5 DEF j

LEMMA JoinSays ==
    ASSUME NEW S, "/" \in S, NEW a \in Seq(S), NEW b \in Seq(S), join_paths(a, b) # TooLong
    PROVE  /\ join_paths(a, b) = Joint(a, b)
           /\ Joint(a, b) \in Seq(S) /\ Len(Joint(a, b)) + 1 < PATH_MAX
           /\ SingleSeparators(a) /\ SingleSeparators(b) => SingleSeparators(Joint(a, b))
           /\ a # <<>> => /\ Components(Joint(a, b)) = Components(a) \o Components(b)
                          /\ IsAbsolute(Joint(a, b)) <=> IsAbsolute(a)
<1>1. join_paths(a, b) = IF Len(Joint(a, b)) + 1 >= PATH_MAX THEN TooLong ELSE Joint(a, b)
    BY JoinIs
<1>2. ~(Len(Joint(a, b)) + 1 >= PATH_MAX) /\ join_paths(a, b) = Joint(a, b)
    BY <1>1
<1>3. Joint(a, b) \in Seq(S)
    BY JointSays
<1>4. Len(Joint(a, b)) + 1 < PATH_MAX
    BY <1>2, <1>3, PathsAssumption
<1> QED BY <1>2, <1>3, <1>4, JointSays

(***************************************************************************)
(* A final "/" or "/.".                                                    *)
(***************************************************************************)
LEMMA LastName ==
    ASSUME NEW S, NEW q \in Seq(S), NEW c \in S, c # "/"
    PROVE  /\ CutUp(q).done \in Seq(Seq(S)) /\ Append(CutUp(q).name, c) \in Seq(S)
           /\ Components(Append(q, c)) = Append(CutUp(q).done, Append(CutUp(q).name, c))
           /\ Components(Append(q, c)) # <<>>
           /\ Last(Components(Append(q, c))) = Append(CutUp(q).name, c)
           /\ Front(Components(Append(q, c))) = CutUp(q).done
           /\ EndsWith(q, "/") => CutUp(q).name = <<>> /\ Components(q) = CutUp(q).done
           /\ CutUp(q).name = <<>> => q = <<>> \/ EndsWith(q, "/")
<1> DEFINE d == CutUp(q).done
           n == Append(CutUp(q).name, c)
           a == Append(d, n)
<1>1. d \in Seq(Seq(S)) /\ CutUp(q).name \in Seq(S)
    BY CutIs
<1>2. n \in Seq(S) /\ n # <<>>
    BY <1>1, AppendProperties
<1>3. CutUp(Append(q, c)) = [done |-> d, name |-> n]
    BY CutOne DEF CutMore
<1>4. Components(Append(q, c)) = a
    BY <1>2, <1>3 DEF Components, CutEnd
<1>5. EndsWith(q, "/") => CutUp(q).name = <<>> /\ Components(q) = d
    BY NoNameRead DEF Components, CutEnd
<1>6. CutUp(q).name = <<>> => q = <<>> \/ EndsWith(q, "/")
    BY NoNameRead
<1> HIDE DEF d, n
<1>7. a # <<>> /\ a \in Seq(Seq(S)) /\ Len(a) = Len(d) + 1 /\ Len(d) \in Nat /\ a[Len(d) + 1] = n
      /\ \A i \in 1..Len(d) : a[i] = d[i]
    BY <1>1, <1>2, AppendProperties
<1> HIDE DEF a
<1>8. Last(a) = n
    BY <1>7 DEF Last
<1>9. Front(a) = d
    <2>1. Front(a) = SubSeq(a, 1, Len(d))
        BY <1>7 DEF Front
    <2>2. \A i \in 1..Len(d) : a[i] \in Seq(S)
        BY <1>1, <1>7
    <2>3. SubSeq(a, 1, Len(d)) \in Seq(Seq(S)) /\ Len(SubSeq(a, 1, Len(d))) = (IF 1 <= Len(d) THEN Len(d) - 1 + 1 ELSE 0)
          /\ \A i \in 1..(Len(d) - 1 + 1) : SubSeq(a, 1, Len(d))[i] = a[1 + i - 1]
        BY <1>7, <2>2, SubSeqProperties
    <2> DEFINE f == SubSeq(a, 1, Len(d))
    <2>4. Len(f) = Len(d) /\ f \in Seq(Seq(S)) /\ \A i \in 1..Len(f) : f[i] = d[i]
        BY <1>7, <2>3
    <2> HIDE DEF f
    <2>5. f = d
        BY <1>1, <2>4, SeqEqual
    <2> QED BY <2>1, <2>5 DEF f
<1> QED BY <1>1, <1>2, <1>4, <1>5, <1>6, <1>7, <1>8, <1>9 DEF d, n, a

\* The first n characters.
LEMMA UptoIs ==
    ASSUME NEW S, NEW p \in Seq(S), NEW n \in 0..Len(p)
    PROVE  /\ Upto(p, n) \in Seq(S) /\ Len(Upto(p, n)) = n
           /\ \A i \in 1..n : Upto(p, n)[i] = p[i]
<1>1. n \in Int /\ Len(p) \in Nat /\ n >= 0 /\ \A i \in 1..n : p[i] \in S
    OBVIOUS
<1> DEFINE u == SubSeq(p, 1, n)
<1>2. /\ u \in Seq(S) /\ Len(u) = (IF 1 <= n THEN n - 1 + 1 ELSE 0)
      /\ \A i \in 1..(n - 1 + 1) : u[i] = p[1 + i - 1]
    BY <1>1, SubSeqProperties
<1> HIDE DEF u
<1>3. Len(u) = n /\ \A i \in 1..n : u[i] = p[i]
    BY <1>1, <1>2
<1> QED BY <1>2, <1>3 DEF Upto, u

LEMMA UptoNext ==
    ASSUME NEW S, NEW p \in Seq(S), NEW n \in 0..(Len(p) - 1)
    PROVE  Upto(p, n + 1) = Append(Upto(p, n), p[n + 1])
<1>1. n + 1 \in 0..Len(p) /\ n \in 0..Len(p) /\ n + 1 \in 1..Len(p) /\ n \in Nat /\ p[n + 1] \in S
    OBVIOUS
<1> DEFINE u == Upto(p, n + 1)
           v == Upto(p, n)
           w == Append(v, p[n + 1])
<1>2. u \in Seq(S) /\ Len(u) = n + 1 /\ \A i \in 1..(n + 1) : u[i] = p[i]
    BY <1>1, UptoIs
<1>3. v \in Seq(S) /\ Len(v) = n /\ \A i \in 1..n : v[i] = p[i]
    BY <1>1, UptoIs
<1> HIDE DEF u, v
<1>4. w \in Seq(S) /\ Len(w) = n + 1 /\ w[n + 1] = p[n + 1] /\ \A i \in 1..n : w[i] = v[i]
    BY <1>1, <1>3, AppendProperties
<1> HIDE DEF w
<1>5. ASSUME NEW i \in 1..Len(u)
      PROVE  u[i] = w[i]
    <2>1. i \in 1..(n + 1) /\ (i \in 1..n \/ i = n + 1)
        BY <1>1, <1>2
    <2>2. CASE i \in 1..n
        BY <1>2, <1>3, <1>4, <2>1, <2>2
    <2>3. CASE i = n + 1
        BY <1>2, <1>4, <2>1, <2>3
    <2> QED BY <2>1, <2>2, <2>3
<1>6. u = w
    BY <1>2, <1>4, <1>5, SeqEqual
<1> QED BY <1>6 DEF u, v, w

LEMMA UptoAll ==
    ASSUME NEW S, NEW p \in Seq(S)
    PROVE  Upto(p, Len(p)) = p /\ Upto(p, 0) = <<>>
BY SubSeqFull, SubSeqEmpty DEF Upto

\* Beginnings of canonical paths.
LEMMA CanonicalUpto ==
    ASSUME NEW S, NEW p \in Seq(S), Canonical(p), NEW n \in 1..Len(p), n > 1 => p[n] # "/"
    PROVE  Canonical(Upto(p, n))
<1> DEFINE u == Upto(p, n)
<1>1. u \in Seq(S) /\ Len(u) = n /\ \A i \in 1..n : u[i] = p[i]
    BY UptoIs
<1>2. p[1] = "/" /\ \A i \in 1..(Len(p) - 1) : ~(p[i] = "/" /\ p[i + 1] = "/")
    BY AbsoluteIs DEF Canonical, SingleSeparators
<1> HIDE DEF u
<1>3. u # <<>> /\ Head(u) = u[1] /\ u[1] = "/"
    BY <1>1, <1>2
<1>4. Len(u) > 1 => Last(u) # "/"
    BY <1>1 DEF Last
<1>5. ASSUME NEW i \in 1..(Len(u) - 1)
      PROVE  ~(u[i] = "/" /\ u[i + 1] = "/")
    <2>1. i \in 1..(Len(p) - 1) /\ i \in 1..n /\ i + 1 \in 1..n
        BY <1>1
    <2>2. u[i] = p[i] /\ u[i + 1] = p[i + 1]
        BY <1>1, <2>1
    <2> QED BY <1>2, <2>1, <2>2
<1>6. Canonical(u)
    BY <1>3, <1>4, <1>5 DEF Canonical, IsAbsolute, SingleSeparators
<1> QED BY <1>6 DEF u

\* A canonical path is "/" or ends with a character of a name.
LEMMA CanonicalEnds ==
    ASSUME NEW S, NEW p \in Seq(S), Canonical(p)
    PROVE  /\ "/" \in S /\ Len(p) \in Nat \ {0} /\ p # <<>> /\ p[1] = "/"
           /\ p = Root \/ (Len(p) > 1 /\ p[Len(p)] # "/" /\ ~EndsWith(p, "/"))
           /\ Len(p) = 1 <=> p = Root
<1>1. p # <<>> /\ Len(p) \in Nat \ {0} /\ p[1] = "/" /\ "/" \in S
    BY AbsoluteIs DEF Canonical
<1>2. Len(p) = 1 => p = Root
    <2>1. ASSUME Len(p) = 1
          PROVE  p = Root
        <3>1. Root \in Seq(S) /\ Len(Root) = 1 /\ Root[1] = "/"
            BY <1>1 DEF Root
        <3>2. \A i \in 1..Len(p) : p[i] = Root[i]
            BY <1>1, <2>1, <3>1
        <3> QED BY <2>1, <3>1, <3>2, SeqEqual
    <2> QED BY <2>1
<1>3. Len(p) > 1 => p[Len(p)] # "/" /\ ~EndsWith(p, "/")
    BY DEF Canonical, Last, EndsWith
<1>4. Len(Root) = 1
    BY DEF Root
<1>6. Len(p) \in Nat \ {0}
    BY <1>1
<1>7. \A k \in Nat \ {0} : k = 1 \/ k > 1
    OBVIOUS
<1>5. Len(p) = 1 \/ Len(p) > 1
    BY <1>6, <1>7
<1> QED BY <1>1, <1>2, <1>3, <1>4, <1>5

LEMMA ChopSays ==
    ASSUME NEW S, NEW p \in Seq(S), Canonical(p)
    PROVE  LET names == Components(p)
               out == chop_finality(p)
           IN  /\ names # <<>> /\ EndsWith(Last(names), ".") /\ Last(names) = <<".">>
                  => Components(out) = Front(names) /\ Canonical(out)
               /\ ~(names # <<>> /\ EndsWith(Last(names), ".")) => Components(out) = names /\ Canonical(out)
<1> DEFINE names == Components(p)
           out == chop_finality(p)
           l == Len(p)
<1>1. "/" \in S /\ l \in Nat \ {0} /\ p # <<>> /\ p[1] = "/" /\ (l = 1 <=> p = Root)
      /\ (p = Root \/ (l > 1 /\ p[l] # "/" /\ ~EndsWith(p, "/")))
    BY CanonicalEnds
<1>2. ~EndsWith(p, ".") => out = p
    <2>1. EndsWith(p, "/") /\ l > 1 => FALSE
        <3>1. l > 1 => l # 1
            <4> HIDE DEF l
            <4> QED OBVIOUS
        <3> HIDE DEF l
        <3> QED BY <1>1, <3>1
    <2> QED BY <2>1 DEF chop_finality
<1>3. CASE p = Root
    <2>1. names = <<>> /\ ~EndsWith(p, ".")
        BY <1>3, ComponentsOfRoot DEF EndsWith, Last, Root
    <2> QED BY <1>2, <2>1
<1>4. CASE p # Root
    <2>1. l > 1 /\ p[l] # "/"
        BY <1>1, <1>4
    <2>2. PICK q \in Seq(S), c \in S : p = Append(q, c)
        BY <1>1, EmptyOrGrown
    <2>3. Len(q) = l - 1 /\ p[l] = c /\ c # "/" /\ q # <<>> /\ \A i \in 1..(l - 1) : p[i] = q[i]
        BY <1>1, <2>1, <2>2
    <2>4. /\ names # <<>> /\ Last(names) = Append(CutUp(q).name, c) /\ Front(names) = CutUp(q).done
          /\ EndsWith(q, "/") => CutUp(q).name = <<>> /\ Components(q) = CutUp(q).done
          /\ CutUp(q).name = <<>> => q = <<>> \/ EndsWith(q, "/")
          /\ CutUp(q).name \in Seq(S)
        BY <2>2, <2>3, LastName, CutIs
    <2>5. EndsWith(Last(names), ".") <=> c = "."
        <3>1. Append(CutUp(q).name, c) # <<>> /\ Append(CutUp(q).name, c)[Len(Append(CutUp(q).name, c))] = c
            BY <2>2, <2>4
        <3> QED BY <2>4, <3>1 DEF EndsWith, Last
    <2>6. EndsWith(p, ".") <=> c = "."
        BY <1>1, <2>3 DEF EndsWith, Last
    <2>7. CASE c # "."
        BY <1>2, <2>5, <2>6, <2>7
    <2>8. ASSUME c = ".", Last(names) = <<".">>
          PROVE  Components(out) = Front(names) /\ Canonical(out)
        <3>1. CutUp(q).name = <<>>
            <4>1. Len(Append(CutUp(q).name, c)) = 1
                BY <2>4, <2>8
            <4> QED BY <2>4, <4>1
        <3>2. EndsWith(q, "/") /\ Components(q) = Front(names)
            BY <2>3, <2>4, <3>1
        <3>3. q[l - 1] = "/" /\ p[l - 1] = "/"
            BY <2>1, <2>3, <3>2 DEF EndsWith, Last
        <3>4. out = Upto(p, IF l = 2 THEN 1 ELSE l - 2)
            BY <2>6, <2>8 DEF chop_finality
        <3>5. CASE l = 2
            <4>1. out = Upto(p, 1) /\ 1 \in 0..l /\ 1 \in 1..l
                BY <3>4, <3>5
            <4>2. Canonical(out) /\ out \in Seq(S) /\ Len(out) = 1
                <5> HIDE DEF out
                <5>1. Canonical(Upto(p, 1)) /\ Upto(p, 1) \in Seq(S) /\ Len(Upto(p, 1)) = 1
                    <6>1. 1 \in 1..Len(p) /\ 1 \in 0..Len(p) /\ ~(1 > 1)
                        BY <4>1
                    <6>2. Canonical(Upto(p, 1))
                        BY <6>1, CanonicalUpto
                    <6> QED BY <6>1, <6>2, UptoIs
                <5> QED BY <4>1, <5>1
            <4>3. out = Root
                <5> HIDE DEF out
                <5> QED BY <4>2, CanonicalEnds
            <4>4. q = Root
                <5>1. Len(q) = 1 /\ q[1] = "/" /\ Root \in Seq(S) /\ Len(Root) = 1 /\ Root[1] = "/"
                    BY <1>1, <2>3, <3>3, <3>5 DEF Root
                <5>2. \A i \in 1..Len(q) : q[i] = Root[i]
                    BY <5>1
                <5> QED BY <5>1, <5>2, SeqEqual
            <4> HIDE DEF out
            <4> QED BY <3>2, <4>2, <4>3, <4>4
        <3>6. CASE l # 2
            <4>1. l - 2 \in 0..l /\ l - 2 \in 1..l /\ l - 1 \in 1..l /\ l - 2 \in 0..(Len(q) - 1) /\ (l - 2) + 1 = l - 1
                  /\ l - 2 \in 1..(l - 1)
                BY <1>1, <2>1, <2>3, <3>6
            <4>2. p[l - 2] # "/"
                <5>1. \A i \in 1..(l - 1) : ~(p[i] = "/" /\ p[i + 1] = "/")
                    BY DEF Canonical, SingleSeparators
                <5> QED BY <3>3, <4>1, <5>1
            <4>3. Canonical(out) /\ out \in Seq(S)
                <5>1. out = Upto(p, l - 2)
                    BY <3>4, <3>6
                <5> HIDE DEF out
                <5> QED BY <4>1, <4>2, <5>1, CanonicalUpto, UptoIs
            <4>4. q = out \o Root
                <5>1. Upto(q, Len(q)) = Append(Upto(q, l - 2), "/")
                    BY <2>3, <3>3, <4>1, UptoNext
                <5>2. Upto(q, l - 2) = Upto(p, l - 2)
                    <6>1. l - 2 \in 0..Len(q)
                        BY <2>3, <4>1
                    <6>2. Upto(q, l - 2) \in Seq(S) /\ Len(Upto(q, l - 2)) = l - 2
                          /\ \A i \in 1..(l - 2) : Upto(q, l - 2)[i] = q[i]
                        BY <6>1, UptoIs
                    <6>3. Upto(p, l - 2) \in Seq(S) /\ Len(Upto(p, l - 2)) = l - 2
                          /\ \A i \in 1..(l - 2) : Upto(p, l - 2)[i] = p[i]
                        BY <4>1, UptoIs
                    <6>4. \A i \in 1..(l - 2) : q[i] = p[i]
                        BY <1>1, <2>3
                    <6> QED BY <6>2, <6>3, <6>4, SeqEqual
                <5>3. out = Upto(p, l - 2)
                    BY <3>4, <3>6
                <5>4. Append(out, "/") = out \o Root
                    BY <1>1, <4>3, AppendIsConcat DEF Root
                <5>5. Upto(q, Len(q)) = q
                    BY UptoAll
                <5> HIDE DEF out
                <5> QED BY <5>1, <5>2, <5>3, <5>4, <5>5
            <4>5. Components(out \o Root) = Components(out)
                BY <1>1, <4>3, ComponentsOfSlash
            <4> HIDE DEF out
            <4> QED BY <3>2, <4>3, <4>4, <4>5
        <3> QED BY <3>5, <3>6
    <2> QED BY <2>4, <2>5, <2>7, <2>8
<1> HIDE DEF names, out
<1>5. /\ names # <<>> /\ EndsWith(Last(names), ".") /\ Last(names) = <<".">>
                  => Components(out) = Front(names) /\ Canonical(out)
      /\ ~(names # <<>> /\ EndsWith(Last(names), ".")) => Components(out) = names /\ Canonical(out)
    BY <1>3, <1>4 DEF names, out
<1> QED BY <1>5 DEF names, out

(***************************************************************************)
(* A canonical path is its components with a separator before each: two    *)
(* canonical paths are told apart by their components, and one is a        *)
(* beginning of the other, up to a separator, when its components are.     *)
(***************************************************************************)
Spell(p, name) == p \o Root \o name

Spelled(names) ==
    LET spelled[n \in 0..Len(names)] == IF n = 0 THEN <<>> ELSE Spell(spelled[n - 1], names[n])
    IN  spelled[Len(names)]

IsSpelling(f, names) ==
    /\ f[0] = <<>>
    /\ \A n \in 1..Len(names) : f[n] = Spell(f[n - 1], names[n])

LEMMA SpellTyped ==
    ASSUME NEW S, "/" \in S, NEW p \in Seq(S), NEW name \in Seq(S)
    PROVE  Spell(p, name) \in Seq(S)
<1>1. Root \in Seq(S)
    BY DEF Root
<1> QED BY <1>1 DEF Spell

LEMMA SpellingGoes ==
    ASSUME NEW S, "/" \in S, NEW names \in Seq(Seq(S))
    PROVE  \E f \in [0..Len(names) -> Seq(S)] : IsSpelling(f, names) /\ Spelled(names) = f[Len(names)]
<1> DEFINE l == Len(names)
           Next_(n, x) == Spell(x, names[n])
           step == [z \in (1..l) \X Seq(S) |-> Next_(z[1], z[2])]
           Is(f) == f = [n \in 0..l |-> IF n = 0 THEN <<>> ELSE Next_(n, f[n - 1])]
           w == CHOOSE g : Is(g)
<1>1. <<>> \in Seq(S)
    OBVIOUS
<1>2. l \in Nat /\ \A n \in 1..l : \A x \in Seq(S) : Next_(n, x) \in Seq(S)
    BY SpellTyped
<1>7. Spelled(names) = w[l]
    BY DEF Spelled
<1> HIDE DEF l, Next_
<1>3. step \in [(1..l) \X Seq(S) -> Seq(S)]
    BY <1>2
<1>4. PICK f \in [0..l -> Seq(S)] : IsLoop(f, l, <<>>, step)
    <2> HIDE DEF step
    <2> QED BY <1>1, <1>2, <1>3, LoopExists
<1>5. \A n \in 0..l : f[n] = IF n = 0 THEN <<>> ELSE Next_(n, f[n - 1])
    <2> SUFFICES ASSUME NEW n \in 0..l, n # 0
                 PROVE  f[n] = Next_(n, f[n - 1])
        BY <1>4 DEF IsLoop
    <2>1. n \in 1..l /\ f[n - 1] \in Seq(S)
        BY <1>2, <1>4
    <2> QED BY <2>1, <1>4 DEF IsLoop
<1>6. Is(f)
    BY <1>4, <1>5
<1>8. Is(w)
    BY <1>6
<1> HIDE DEF w
<1> DEFINE T == {n \in 0..l : w[n] = f[n]}
<1>9. \A n \in 0..l : n \in T
    <2>1. 0 \in T
        BY <1>2, <1>5, <1>8
    <2>2. ASSUME NEW n \in 0..(l - 1), n \in T
          PROVE  n + 1 \in T
        <3>1. n + 1 \in 0..l /\ n + 1 # 0 /\ (n + 1) - 1 = n /\ n \in 0..l /\ w[n] = f[n]
            BY <1>2, <2>2
        <3>2. f[n + 1] = Next_(n + 1, f[n])
            BY <1>5, <3>1
        <3>3. w[n + 1] = Next_(n + 1, w[n])
            BY <1>8, <3>1
        <3> QED BY <3>1, <3>2, <3>3
    <2> HIDE DEF T
    <2> QED BY <1>2, <2>1, <2>2, InductionUpTo
<1>10. w = f
    BY <1>4, <1>8, <1>9
<1>11. w[0] = <<>> /\ \A n \in 1..l : w[n] = Next_(n, w[n - 1])
    BY <1>2, <1>8
<1>12. IsSpelling(f, names)
    BY <1>10, <1>11 DEF IsSpelling, Next_, l
<1> QED BY <1>4, <1>7, <1>10, <1>12 DEF l

LEMMA SpelledNone == Spelled(<<>>) = <<>>
<1>1. <<>> \in Seq(Seq({"/"})) /\ Len(<<>>) = 0
    OBVIOUS
<1>2. PICK f \in [0..0 -> Seq({"/"})] : IsSpelling(f, <<>>) /\ Spelled(<<>>) = f[0]
    BY <1>1, SpellingGoes
<1> QED BY <1>2 DEF IsSpelling

LEMMA SpelledOne ==
    ASSUME NEW S, "/" \in S, NEW p \in Seq(Seq(S)), NEW c \in Seq(S)
    PROVE  Spelled(Append(p, c)) = Spell(Spelled(p), c)
<1> DEFINE q == Append(p, c)
           l == Len(p)
<1>1. /\ q \in Seq(Seq(S)) /\ Len(q) = l + 1 /\ q[l + 1] = c /\ l \in Nat
      /\ \A n \in 1..l : q[n] = p[n]
    BY AppendProperties
<1>2. PICK f \in [0..l -> Seq(S)] : IsSpelling(f, p) /\ Spelled(p) = f[l]
    BY SpellingGoes
<1>3. PICK g \in [0..(l + 1) -> Seq(S)] : IsSpelling(g, q) /\ Spelled(q) = g[l + 1]
    <2>1. \E g \in [0..Len(q) -> Seq(S)] : IsSpelling(g, q) /\ Spelled(q) = g[Len(q)]
        BY <1>1, SpellingGoes
    <2> HIDE DEF q, l
    <2> QED BY <1>1, <2>1
<1> HIDE DEF q
<1> DEFINE T == {n \in 0..l : f[n] = g[n]}
<1>4. 0 \in T
    BY <1>1, <1>2, <1>3 DEF IsSpelling
<1>5. ASSUME NEW n \in 0..(l - 1), n \in T
      PROVE  n + 1 \in T
    <2>1. n + 1 \in 1..l /\ n + 1 \in 1..(l + 1) /\ (n + 1) - 1 = n
        BY <1>1
    <2>2. f[n + 1] = Spell(f[n], p[n + 1])
        BY <1>2, <2>1 DEF IsSpelling
    <2>3. g[n + 1] = Spell(g[n], q[n + 1])
        BY <1>1, <1>3, <2>1 DEF IsSpelling
    <2> QED BY <1>1, <1>5, <2>1, <2>2, <2>3
<1> HIDE DEF T
<1>6. \A n \in 0..l : n \in T
    BY <1>1, <1>4, <1>5, InductionUpTo
<1>7. f[l] = g[l]
    BY <1>1, <1>6 DEF T
<1>8. g[l + 1] = Spell(g[l], c)
    <2>1. l + 1 \in 1..(l + 1) /\ (l + 1) - 1 = l
        BY <1>1
    <2> QED BY <1>1, <1>3, <2>1 DEF IsSpelling
<1> QED BY <1>2, <1>3, <1>7, <1>8 DEF q

LEMMA SpelledIs ==
    ASSUME NEW S, "/" \in S, NEW names \in Seq(Seq(S))
    PROVE  Spelled(names) \in Seq(S)
<1>1. PICK f \in [0..Len(names) -> Seq(S)] : Spelled(names) = f[Len(names)]
    BY SpellingGoes
<1> QED BY <1>1

LEMMA SpelledStarts ==
    ASSUME NEW S, "/" \in S, NEW names \in Seq(Seq(S))
    PROVE  Spelled(names) = <<>> \/ IsAbsolute(Spelled(names))
<1> DEFINE R(x) == Spelled(x) = <<>> \/ IsAbsolute(Spelled(x))
           P == {x \in Seq(Seq(S)) : R(x)}
<1>1. <<>> \in P
    BY SpelledNone
<1>2. ASSUME NEW x \in P, NEW c \in Seq(S)
      PROVE  Append(x, c) \in P
    <2>1. x \in Seq(Seq(S)) /\ R(x)
        OBVIOUS
    <2> DEFINE s == Spelled(x)
    <2>2. s \in Seq(S) /\ (s = <<>> \/ IsAbsolute(s)) /\ Root \in Seq(S)
        BY <2>1, SpelledIs DEF Root
    <2>3. Spelled(Append(x, c)) = s \o Root \o c
        BY <2>1, SpelledOne DEF Spell
    <2> HIDE DEF s
    <2>9. \A y, z, w \in Seq(S) : (y \o z) \o w = y \o (z \o w) /\ z \o w \in Seq(S)
        OBVIOUS
    <2>4. s \o Root \o c = s \o (Root \o c) /\ Root \o c \in Seq(S)
        BY <2>2, <2>9
    <2>5. IsAbsolute(Root \o c)
        BY <2>2, FirstOfConcat DEF Root, IsAbsolute
    <2>6. IsAbsolute(s \o (Root \o c))
        <3>1. CASE s = <<>>
            BY <2>2, <2>4, <2>5, <3>1
        <3>2. CASE s # <<>>
            BY <2>2, <2>4, <3>2, FirstOfConcat DEF IsAbsolute
        <3> QED BY <3>1, <3>2
    <2>7. Append(x, c) \in Seq(Seq(S))
        BY <2>1
    <2> QED BY <2>3, <2>4, <2>6, <2>7
<1>3. P \in SUBSET Seq(Seq(S))
    OBVIOUS
<1> HIDE DEF P
<1>4. P = Seq(Seq(S))
    BY <1>1, <1>2, <1>3, Growth
<1>5. R(names)
    BY <1>4 DEF P
<1> QED BY <1>5

LEMMA SpelledJoins ==
    ASSUME NEW S, "/" \in S
    PROVE  \A a, b \in Seq(Seq(S)) : Spelled(a \o b) = Spelled(a) \o Spelled(b)
<1>7. \A p \in Seq(S), q \in Seq(S), name \in Seq(S) : Spell(p \o q, name) = p \o Spell(q, name)
    <2> SUFFICES ASSUME NEW p \in Seq(S), NEW q \in Seq(S), NEW name \in Seq(S)
                 PROVE  Spell(p \o q, name) = p \o Spell(q, name)
        OBVIOUS
    <2> DEFINE u == q \o Root
    <2>1. (p \o q) \o Root = p \o u /\ u \in Seq(S)
        BY ConcatAssociative DEF Root
    <2> HIDE DEF u
    <2>2. (p \o u) \o name = p \o (u \o name)
        BY <2>1, ConcatAssociative
    <2> QED BY <2>1, <2>2 DEF u, Spell
<1> SUFFICES ASSUME NEW a \in Seq(Seq(S)), NEW b \in Seq(Seq(S))
             PROVE  Spelled(a \o b) = Spelled(a) \o Spelled(b)
    OBVIOUS
<1> DEFINE R(x) == Spelled(a \o x) = Spelled(a) \o Spelled(x)
           P == {x \in Seq(Seq(S)) : R(x)}
<1>1. Spelled(a) \in Seq(S) /\ Root \in Seq(S)
    BY SpelledIs DEF Root
<1>2. <<>> \in P
    <2>1. R(<<>>)
        BY <1>1, SpelledNone
    <2> QED BY <2>1
<1>3. ASSUME NEW x \in P, NEW c \in Seq(S)
      PROVE  Append(x, c) \in P
    <2>1. x \in Seq(Seq(S)) /\ Append(x, c) \in Seq(Seq(S)) /\ a \o x \in Seq(Seq(S))
        OBVIOUS
    <2>9. R(x)
        OBVIOUS
    <2>2. Spelled(a \o Append(x, c)) = Spell(Spelled(a \o x), c)
        <3>1. a \o Append(x, c) = Append(a \o x, c)
            BY <2>1, AppendConcat
        <3> QED BY <2>1, <3>1, SpelledOne
    <2>3. Spelled(Append(x, c)) = Spell(Spelled(x), c) /\ Spelled(x) \in Seq(S)
        BY <2>1, SpelledOne, SpelledIs
    <2>4. Spell(Spelled(a) \o Spelled(x), c) = Spelled(a) \o Spell(Spelled(x), c)
        <3> DEFINE s == Spelled(a)
                   t == Spelled(x)
        <3>1. s \in Seq(S) /\ t \in Seq(S)
            BY <1>1, <2>3
        <3> HIDE DEF s, t, R, P
        <3>2. Spell(s \o t, c) = s \o Spell(t, c)
            BY <1>7, <3>1
        <3> QED BY <3>2 DEF s, t
    <2>5. R(Append(x, c))
        BY <2>2, <2>3, <2>4, <2>9
    <2> HIDE DEF R
    <2> QED BY <2>1, <2>5
<1>4. P \in SUBSET Seq(Seq(S))
    OBVIOUS
<1> HIDE DEF P
<1>5. P = Seq(Seq(S))
    BY <1>2, <1>3, <1>4, Growth
<1>6. R(b)
    BY <1>5 DEF P
<1> QED BY <1>6

\* What is spelled of a path without double separators is the path, but for a
\* final separator.
Whole(p) == p = Spelled(Components(p)) \o (IF EndsWith(p, "/") THEN Root ELSE <<>>)

LEMMA SpelledMore ==
    ASSUME NEW S, "/" \in S, NEW q \in Seq(S), NEW c \in S, q # <<>>, Whole(q),
           ~(EndsWith(q, "/") /\ c = "/")
    PROVE  Whole(Append(q, c))
<1> DEFINE p == Append(q, c)
           s == Spelled(Components(q))
           d == CutUp(q).done
           n == CutUp(q).name
<1>1. /\ d \in Seq(Seq(S)) /\ n \in Seq(S) /\ s \in Seq(S) /\ Components(q) \in Seq(Seq(S))
      /\ Root \in Seq(S) /\ p = q \o <<c>> /\ <<c>> \in Seq(S)
    BY CutIs, SpelledIs, AppendIsConcat DEF Root
<1>2. EndsWith(p, "/") <=> c = "/"
    BY DEF EndsWith, Last
<1>3. CASE c = "/"
    <2>1. q = s
        BY <1>1, <1>3, ConcatEmptySeq DEF Whole
    <2>2. Components(p) = Components(q)
        BY <1>1, <1>3, ComponentsOfSlash DEF Root
    <2>3. p = s \o Root
        BY <1>1, <1>3, <2>1 DEF Root
    <2> QED BY <1>2, <1>3, <2>2, <2>3 DEF Whole
<1>4. CASE c # "/" /\ EndsWith(q, "/")
    <2>1. q = s \o Root
        BY <1>4 DEF Whole
    <2>2. Components(p) = Append(d, Append(n, c)) /\ n = <<>> /\ Components(q) = d
        BY <1>4, LastName
    <2>3. Append(n, c) = <<c>>
        BY <2>2
    <2>4. Spelled(Components(p)) = s \o Root \o <<c>>
        BY <1>1, <2>2, <2>3, SpelledOne DEF Spell
    <2>5. p = s \o Root \o <<c>>
        BY <1>1, <2>1
    <2>6. s \o Root \o <<c>> \in Seq(S)
        BY <1>1
    <2>7. (s \o Root \o <<c>>) \o <<>> = s \o Root \o <<c>>
        BY <2>6, ConcatEmptySeq
    <2> HIDE DEF p, s
    <2> QED BY <1>2, <1>4, <2>4, <2>5, <2>7 DEF Whole, p
<1>5. CASE c # "/" /\ ~EndsWith(q, "/")
    <2>1. q = s
        BY <1>1, <1>5, ConcatEmptySeq DEF Whole
    <2>2. Components(p) = Append(d, Append(n, c)) /\ Append(n, c) \in Seq(S) /\ n # <<>>
        BY <1>5, LastName
    <2>3. Components(q) = Append(d, n)
        BY <2>2 DEF Components, CutEnd
    <2>4. s = Spelled(d) \o Root \o n /\ Spelled(d) \in Seq(S)
        BY <1>1, <2>3, SpelledOne, SpelledIs DEF Spell
    <2>5. Spelled(Components(p)) = Spelled(d) \o Root \o Append(n, c)
        BY <1>1, <2>2, SpelledOne DEF Spell
    <2> DEFINE e == Spelled(d) \o Root
    <2>6. e \in Seq(S) /\ e \o Append(n, c) = Append(e \o n, c)
        <3>1. e \in Seq(S)
            BY <1>1, <2>4
        <3> HIDE DEF e, n
        <3> QED BY <1>1, <3>1, AppendConcat
    <2>7. Spelled(Components(p)) = p
        BY <2>1, <2>4, <2>5, <2>6
    <2>8. p \in Seq(S) /\ p \o <<>> = p
        BY ConcatEmptySeq
    <2> HIDE DEF p
    <2> QED BY <1>2, <1>5, <2>7, <2>8 DEF Whole, p
<1> QED BY <1>3, <1>4, <1>5

LEMMA WholePath ==
    ASSUME NEW S, NEW p \in Seq(S), IsAbsolute(p), SingleSeparators(p)
    PROVE  Whole(p)
<1>1. p # <<>> /\ Len(p) \in Nat \ {0} /\ p[1] = "/" /\ "/" \in S
    BY AbsoluteIs
<1> DEFINE l == Len(p) - 1
           T == {n \in Nat : n <= l => Whole(Upto(p, n + 1))}
<1>2. l \in Nat /\ Len(p) = l + 1
    BY <1>1
<1>3. 0 \in T
    <2>1. Upto(p, 1) = Root
        <3>1. Upto(p, 0 + 1) = Append(Upto(p, 0), p[0 + 1])
            BY <1>1, UptoNext
        <3>2. Append(<<>>, "/") = Root
            BY DEF Root
        <3> QED BY <1>1, <3>1, <3>2, UptoAll
    <2>2. EndsWith(Root, "/") /\ <<>> \o Root = Root
        BY DEF Root, EndsWith, Last
    <2>3. Whole(Root)
        BY <2>2, ComponentsOfRoot, SpelledNone DEF Whole
    <2> QED BY <2>1, <2>3
<1> HIDE DEF l
<1>4. ASSUME NEW n \in T
      PROVE  n + 1 \in T
    <2>1. SUFFICES ASSUME n + 1 <= l
                   PROVE  Whole(Upto(p, (n + 1) + 1))
        OBVIOUS
    <2>2. n \in Nat /\ n <= l /\ n + 1 \in 0..(Len(p) - 1) /\ n + 1 \in 0..Len(p) /\ n + 1 \in 1..(Len(p) - 1)
          /\ (n + 1) + 1 \in 1..Len(p)
        BY <1>2, <2>1
    <2> DEFINE q == Upto(p, n + 1)
               c == p[(n + 1) + 1]
    <2>3. Whole(q)
        BY <2>2
    <2>4. Upto(p, (n + 1) + 1) = Append(q, c)
        BY <2>2, UptoNext
    <2>5. q \in Seq(S) /\ Len(q) = n + 1 /\ q[n + 1] = p[n + 1] /\ c \in S
        <3>1. q \in Seq(S) /\ Len(q) = n + 1 /\ \A i \in 1..(n + 1) : q[i] = p[i]
            BY <2>2, UptoIs
        <3>2. c \in S
            BY <2>2
        <3>3. n + 1 \in 1..(n + 1)
            BY <2>2
        <3> HIDE DEF q, c
        <3> QED BY <3>1, <3>2, <3>3
    <2> HIDE DEF q
    <2>6. q # <<>> /\ (EndsWith(q, "/") <=> p[n + 1] = "/")
        BY <2>2, <2>5 DEF EndsWith, Last
    <2>7. ~(p[n + 1] = "/" /\ c = "/")
        BY <2>2 DEF SingleSeparators
    <2> HIDE DEF c
    <2>8. Whole(Append(q, c))
        BY <1>1, <2>3, <2>5, <2>6, <2>7, SpelledMore
    <2> QED BY <2>4, <2>8
<1> HIDE DEF T
<1>5. T \in SUBSET Nat
    BY DEF T
<1>6. T = Nat
    BY <1>3, <1>4, <1>5, InductionOverNat
<1>7. Whole(Upto(p, l + 1))
    <2>1. l \in T /\ l <= l
        BY <1>2, <1>6
    <2> QED BY <2>1 DEF T
<1> QED BY <1>2, <1>7, UptoAll

LEMMA PrefixIsPointwise ==
    ASSUME NEW S, NEW s \in Seq(S), NEW t \in Seq(S)
    PROVE  IsPrefix(s, t) <=> Len(s) <= Len(t) /\ \A i \in 1..Len(s) : s[i] = t[i]
<1> DEFINE u == Upto(s, Len(s))
           v == Upto(t, Len(s))
<1>1. IsPrefix(s, t) <=> Len(s) <= Len(t) /\ u = v
    BY DEF IsPrefix, Upto
<1>2. ASSUME Len(s) <= Len(t)
      PROVE  u = v <=> \A i \in 1..Len(s) : s[i] = t[i]
    <2>1. Len(s) \in 0..Len(s) /\ Len(s) \in 0..Len(t)
        BY <1>2
    <2>2. u \in Seq(S) /\ Len(u) = Len(s) /\ \A i \in 1..Len(s) : u[i] = s[i]
        BY <2>1, UptoIs
    <2>3. v \in Seq(S) /\ Len(v) = Len(s) /\ \A i \in 1..Len(s) : v[i] = t[i]
        BY <2>1, UptoIs
    <2> HIDE DEF u, v
    <2>4. ASSUME \A i \in 1..Len(s) : s[i] = t[i]
          PROVE  u = v
        BY <2>2, <2>3, <2>4, SeqEqual
    <2>5. ASSUME u = v
          PROVE  \A i \in 1..Len(s) : s[i] = t[i]
        BY <2>2, <2>3, <2>5
    <2> QED BY <2>4, <2>5
<1> HIDE DEF u, v
<1> QED BY <1>1, <1>2

LEMMA PrefixOfConcat ==
    ASSUME NEW S, NEW s \in Seq(S), NEW t \in Seq(S)
    PROVE  IsPrefix(s, s \o t)
<1> DEFINE j == s \o t
<1>1. j \in Seq(S) /\ Len(j) = Len(s) + Len(t) /\ \A i \in 1..Len(s) : s[i] = j[i]
    BY ConcatProperties
<1> HIDE DEF j
<1>2. Len(s) <= Len(j)
    BY <1>1
<1>3. IsPrefix(s, j)
    BY <1>1, <1>2, PrefixIsPointwise
<1> QED BY <1>3 DEF j

\* The rest behind a prefix.
LEMMA RestOfPrefix ==
    ASSUME NEW S, NEW s \in Seq(S), NEW t \in Seq(S), IsPrefix(s, t)
    PROVE  From(t, Len(s)) \in Seq(S) /\ t = s \o From(t, Len(s))
<1>1. Len(s) <= Len(t) /\ \A i \in 1..Len(s) : s[i] = t[i]
    BY PrefixIsPointwise
<1> DEFINE r == SubSeq(t, Len(s) + 1, Len(t))
           j == s \o r
<1>2. \A i \in (Len(s) + 1)..Len(t) : t[i] \in S
    OBVIOUS
<1>3. /\ r \in Seq(S) /\ Len(r) = (IF Len(s) + 1 <= Len(t) THEN Len(t) - (Len(s) + 1) + 1 ELSE 0)
      /\ \A i \in 1..(Len(t) - (Len(s) + 1) + 1) : r[i] = t[(Len(s) + 1) + i - 1]
    BY <1>2, SubSeqProperties
<1> HIDE DEF r
<1>4. Len(r) = Len(t) - Len(s) /\ \A i \in 1..Len(r) : r[i] = t[Len(s) + i]
    <2>1. Len(r) = Len(t) - Len(s)
        BY <1>1, <1>3
    <2>2. \A i \in 1..Len(r) : i \in 1..(Len(t) - (Len(s) + 1) + 1) /\ (Len(s) + 1) + i - 1 = Len(s) + i
        BY <2>1
    <2> QED BY <1>3, <2>1, <2>2
<1>5. /\ j \in Seq(S) /\ Len(j) = Len(s) + Len(r)
      /\ \A i \in 1..(Len(s) + Len(r)) : j[i] = IF i <= Len(s) THEN s[i] ELSE r[i - Len(s)]
    BY <1>3, ConcatProperties
<1> HIDE DEF j
<1>6. Len(j) = Len(t)
    BY <1>1, <1>4, <1>5
<1>7. ASSUME NEW i \in 1..Len(t)
      PROVE  j[i] = t[i]
    <2>1. CASE i <= Len(s)
        BY <1>1, <1>4, <1>5, <1>6, <1>7, <2>1
    <2>2. CASE ~(i <= Len(s))
        <3>1. i - Len(s) \in 1..Len(r) /\ Len(s) + (i - Len(s)) = i /\ i \in 1..(Len(s) + Len(r))
            BY <1>1, <1>4, <1>7, <2>2
        <3> QED BY <1>4, <1>5, <2>2, <3>1
    <2> QED BY <2>1, <2>2
<1>8. j = t
    BY <1>5, <1>6, <1>7, SeqEqual
<1> QED BY <1>3, <1>8 DEF From, j, r

LEMMA ComponentsOnward ==
    ASSUME NEW S, "/" \in S, NEW p \in Seq(S), NEW r \in Seq(S), r = <<>> \/ IsAbsolute(r)
    PROVE  Components(p \o r) = Components(p) \o Components(r)
<1>1. CASE r = <<>>
    <2>1. p \o r = p
        BY <1>1
    <2>2. Components(p) \in Seq(Seq(S)) /\ Components(r) = <<>>
        BY <1>1, CutIs, ComponentsOfNone
    <2> QED BY <2>1, <2>2
<1>2. CASE IsAbsolute(r)
    <2> DEFINE t == Tail(r)
    <2>1. r = Root \o t /\ t \in Seq(S) /\ Root \in Seq(S)
        BY <1>2, AbsoluteIs DEF Root
    <2> HIDE DEF t
    <2>2. p \o r = p \o Root \o t
        BY <2>1, ConcatAssociative
    <2>3. Components(p \o Root \o t) = Components(p) \o Components(t) /\ Components(Root \o t) = Components(t)
        BY <2>1, ComponentsApart
    <2> QED BY <2>1, <2>2, <2>3
<1> QED BY <1>1, <1>2

\* A canonical path without the separator that "/" ends with.
Stem(p) == IF p = Root THEN <<>> ELSE p

LEMMA StemIs ==
    ASSUME NEW S, NEW p \in Seq(S), Canonical(p)
    PROVE  /\ "/" \in S /\ Stem(p) \in Seq(S)
           /\ Stem(p) = Spelled(Components(p)) /\ Components(Stem(p)) = Components(p)
           /\ Components(p) \in Seq(Seq(S))
<1>1. "/" \in S /\ Components(p) \in Seq(Seq(S))
    BY CanonicalEnds, CutIs
<1>2. Components(Stem(p)) = Components(p) /\ Stem(p) \in Seq(S)
    BY ComponentsOfNone, ComponentsOfRoot DEF Stem
<1>3. Whole(p)
    BY WholePath DEF Canonical
<1>4. CASE p = Root
    BY <1>1, <1>2, <1>4, ComponentsOfRoot, SpelledNone DEF Stem
<1>5. CASE p # Root
    <2>1. ~EndsWith(p, "/")
        BY <1>5, CanonicalEnds
    <2>2. p = Spelled(Components(p)) \o <<>> /\ Spelled(Components(p)) \in Seq(S)
        BY <1>1, <1>3, <2>1, SpelledIs DEF Whole
    <2>3. p = Spelled(Components(p))
        <3> DEFINE s == Spelled(Components(p))
        <3>1. p = s \o <<>> /\ s \in Seq(S)
            BY <2>2
        <3> HIDE DEF s
        <3>2. p = s
            BY <3>1
        <3> QED BY <3>2 DEF s
    <2> QED BY <1>1, <1>2, <1>5, <2>3 DEF Stem
<1> QED BY <1>4, <1>5

\* What comes behind a path whose components come first.
LEMMA BehindPrefix ==
    ASSUME NEW S, NEW a \in Seq(S), NEW b \in Seq(S), Canonical(a), Canonical(b),
           IsPrefix(Components(a), Components(b))
    PROVE  \E r \in Seq(S) :
              /\ Stem(b) = Stem(a) \o r /\ (r = <<>> \/ IsAbsolute(r))
              /\ Components(r) = From(Components(b), Len(Components(a)))
<1> DEFINE ca == Components(a)
           cb == Components(b)
           ds == From(cb, Len(ca))
           r == Spelled(ds)
<1>1. /\ "/" \in S /\ ca \in Seq(Seq(S)) /\ cb \in Seq(Seq(S)) /\ Stem(a) \in Seq(S)
      /\ Stem(a) = Spelled(ca) /\ Stem(b) = Spelled(cb) /\ Components(Stem(a)) = ca /\ Components(Stem(b)) = cb
    BY StemIs
<1>2. ds \in Seq(Seq(S)) /\ cb = ca \o ds
    <2>1. IsPrefix(ca, cb)
        OBVIOUS
    <2> HIDE DEF ca, cb
    <2> QED BY <1>1, <2>1, RestOfPrefix
<1> HIDE DEF ds
<1>3. Spelled(cb) = Spelled(ca) \o r
    <2> HIDE DEF ca, cb, r
    <2>1. Spelled(ca \o ds) = Spelled(ca) \o Spelled(ds)
        BY <1>1, <1>2, SpelledJoins
    <2> QED BY <1>2, <2>1 DEF r
<1>4. r \in Seq(S) /\ (r = <<>> \/ IsAbsolute(r))
    BY <1>1, <1>2, SpelledIs, SpelledStarts
<1> HIDE DEF r
<1>5. cb = ca \o Components(r)
    <2>1. Components(Stem(a) \o r) = Components(Stem(a)) \o Components(r)
        BY <1>1, <1>4, ComponentsOnward
    <2>2. Stem(b) = Stem(a) \o r
        BY <1>1, <1>3
    <2> HIDE DEF ca, cb
    <2> QED BY <1>1, <2>1, <2>2
<1>6. Components(r) = ds
    <2> DEFINE cr == Components(r)
    <2>1. cr \in Seq(Seq(S))
        BY <1>4, CutIs
    <2> HIDE DEF ca, cb, cr
    <2>2. ca \o ds = ca \o cr
        BY <1>2, <1>5 DEF cr
    <2>3. ds = cr
        BY <1>1, <1>2, <2>1, <2>2, ConcatSimplifications
    <2> QED BY <2>3 DEF cr
<1> QED BY <1>1, <1>3, <1>4, <1>6 DEF ds

LEMMA PrefixIs ==
    ASSUME NEW S, NEW a \in Seq(S), NEW b \in Seq(S), Canonical(a), Canonical(b)
    PROVE  LET A == Stem(a)
               B == Stem(b)
           IN  IsPrefix(Components(a), Components(b)) <=>
                   /\ Len(A) <= Len(B) /\ \A i \in 1..Len(A) : A[i] = B[i]
                   /\ Len(A) < Len(B) => B[Len(A) + 1] = "/"
<1> DEFINE A == Stem(a)
           B == Stem(b)
           ca == Components(a)
           cb == Components(b)
<1>1. /\ "/" \in S /\ A \in Seq(S) /\ B \in Seq(S) /\ Components(A) = ca /\ Components(B) = cb
      /\ ca \in Seq(Seq(S)) /\ cb \in Seq(Seq(S))
    BY StemIs
<1>2. ASSUME IsPrefix(ca, cb)
      PROVE  /\ Len(A) <= Len(B) /\ \A i \in 1..Len(A) : A[i] = B[i]
             /\ Len(A) < Len(B) => B[Len(A) + 1] = "/"
    <2>1. PICK r \in Seq(S) : B = A \o r /\ (r = <<>> \/ IsAbsolute(r))
        BY <1>2, BehindPrefix
    <2> HIDE DEF A, B
    <2>2. /\ Len(B) = Len(A) + Len(r) /\ Len(A) \in Nat /\ Len(r) \in Nat
          /\ \A i \in 1..(Len(A) + Len(r)) : B[i] = IF i <= Len(A) THEN A[i] ELSE r[i - Len(A)]
        BY <1>1, <2>1, ConcatProperties
    <2>3. \A i \in 1..Len(A) : A[i] = B[i]
        BY <2>2
    <2>4. ASSUME Len(A) < Len(B)
          PROVE  B[Len(A) + 1] = "/"
        <3>1. Len(r) # 0 /\ Len(A) + 1 \in 1..(Len(A) + Len(r)) /\ (Len(A) + 1) - Len(A) = 1 /\ ~(Len(A) + 1 <= Len(A))
            BY <2>2, <2>4
        <3>2. B[Len(A) + 1] = r[1]
            BY <2>2, <3>1
        <3>3. IsAbsolute(r)
            BY <2>1, <3>1
        <3> QED BY <3>2, <3>3, AbsoluteIs
    <2> QED BY <2>2, <2>3, <2>4
<1>3. ASSUME Len(A) <= Len(B), \A i \in 1..Len(A) : A[i] = B[i],
             Len(A) < Len(B) => B[Len(A) + 1] = "/"
      PROVE  IsPrefix(ca, cb)
    <2> DEFINE r == From(B, Len(A))
    <2> HIDE DEF A, B
    <2>1. IsPrefix(A, B)
        BY <1>1, <1>3, PrefixIsPointwise
    <2>2. r \in Seq(S) /\ B = A \o r
        BY <1>1, <2>1, RestOfPrefix
    <2> HIDE DEF r
    <2>3. /\ Len(B) = Len(A) + Len(r) /\ Len(A) \in Nat /\ Len(r) \in Nat
          /\ \A i \in 1..(Len(A) + Len(r)) : B[i] = IF i <= Len(A) THEN A[i] ELSE r[i - Len(A)]
        BY <1>1, <2>2, ConcatProperties
    <2>4. r = <<>> \/ IsAbsolute(r)
        <3>1. SUFFICES ASSUME r # <<>>
                       PROVE  IsAbsolute(r)
            OBVIOUS
        <3>2. Len(r) # 0
            BY <2>2, <3>1
        <3>3. Len(A) < Len(B) /\ Len(A) + 1 \in 1..(Len(A) + Len(r)) /\ (Len(A) + 1) - Len(A) = 1 /\ ~(Len(A) + 1 <= Len(A))
            BY <2>3, <3>2
        <3>4. r[1] = "/"
            BY <1>3, <2>3, <3>3
        <3> QED BY <2>2, <3>1, <3>4 DEF IsAbsolute
    <2>5. cb = ca \o Components(r)
        <3>1. Components(A \o r) = Components(A) \o Components(r)
            BY <1>1, <2>2, <2>4, ComponentsOnward
        <3> HIDE DEF ca, cb
        <3> QED BY <1>1, <2>2, <3>1
    <2>6. Components(r) \in Seq(Seq(S))
        BY <2>2, CutIs
    <2> DEFINE cr == Components(r)
    <2>7. cb = ca \o cr /\ cr \in Seq(Seq(S)) /\ ca \in Seq(Seq(S))
        BY <1>1, <2>5, <2>6
    <2> HIDE DEF ca, cb, cr
    <2> QED BY <2>7, PrefixOfConcat
<1> QED BY <1>2, <1>3

(***************************************************************************)
(* Comparing canonical paths.                                              *)
(***************************************************************************)
LEMMA StemLength ==
    ASSUME NEW S, NEW p \in Seq(S), Canonical(p)
    PROVE  /\ Len(Stem(p)) \in Nat
           /\ (IF EndsWith(p, "/") THEN Len(p) - 1 ELSE Len(p)) = Len(Stem(p))
           /\ Len(Stem(p)) <= Len(p) /\ \A i \in 1..Len(Stem(p)) : Stem(p)[i] = p[i] /\ p[i] \in S
           /\ p[1] = "/" /\ Len(p) \in Nat \ {0}
           /\ p # Root => Stem(p) = p
           /\ p = Root => Len(Stem(p)) = 0 /\ Len(p) = 1
<1>1. p[1] = "/" /\ Len(p) \in Nat \ {0} /\ (Len(p) = 1 <=> p = Root)
      /\ (p = Root \/ (Len(p) > 1 /\ p[Len(p)] # "/" /\ ~EndsWith(p, "/")))
    BY CanonicalEnds
<1>2. CASE p = Root
    <2>1. Stem(p) = <<>> /\ Len(p) = 1 /\ EndsWith(p, "/")
        BY <1>2 DEF Stem, Root, EndsWith, Last
    <2> QED BY <1>1, <1>2, <2>1
<1>3. CASE p # Root
    <2>1. Stem(p) = p /\ ~EndsWith(p, "/")
        BY <1>1, <1>3 DEF Stem
    <2>2. \A i \in 1..Len(p) : p[i] \in S
        OBVIOUS
    <2> QED BY <1>1, <1>3, <2>1, <2>2
<1> QED BY <1>2, <1>3

\* compare_paths in terms of what is compared.
Compares(a, b, l1, l2, min, sentinel) ==
    compare_paths(a, b) =
        IF sentinel \notin {"/", "0"} \/ Upto(a, min) # Upto(b, min) THEN "PATHS_ARE_NOT_COMPARABLE"
        ELSE IF l1 = l2 THEN "PATHS_ARE_EQUAL"
        ELSE IF l1 < l2 THEN "PATH1_IS_PREFIX" ELSE "PATH2_IS_PREFIX"

LEMMA CompareIs ==
    ASSUME NEW S, NEW a \in Seq(S), NEW b \in Seq(S), Canonical(a), Canonical(b)
    PROVE  LET l1 == Len(Stem(a))
               l2 == Len(Stem(b))
               min == IF l1 < l2 THEN l1 ELSE l2
           IN  Compares(a, b, l1, l2, min, IF l1 < l2 THEN Char(b, min) ELSE Char(a, min))
<1>1. (IF EndsWith(a, "/") THEN Len(a) - 1 ELSE Len(a)) = Len(Stem(a))
    BY StemLength
<1>2. (IF EndsWith(b, "/") THEN Len(b) - 1 ELSE Len(b)) = Len(Stem(b))
    BY StemLength
<1> QED BY <1>1, <1>2 DEF Compares, compare_paths

LEMMA UptoEqual ==
    ASSUME NEW S, NEW a \in Seq(S), NEW b \in Seq(S), NEW n \in Nat, n <= Len(a), n <= Len(b)
    PROVE  Upto(a, n) = Upto(b, n) <=> \A i \in 1..n : a[i] = b[i]
<1> DEFINE u == Upto(a, n)
           v == Upto(b, n)
<1>1. n \in 0..Len(a) /\ n \in 0..Len(b)
    OBVIOUS
<1>2. u \in Seq(S) /\ Len(u) = n /\ \A i \in 1..n : u[i] = a[i]
    BY <1>1, UptoIs
<1>3. v \in Seq(S) /\ Len(v) = n /\ \A i \in 1..n : v[i] = b[i]
    BY <1>1, UptoIs
<1> HIDE DEF u, v
<1>4. ASSUME \A i \in 1..n : a[i] = b[i]
      PROVE  u = v
    BY <1>2, <1>3, <1>4, SeqEqual
<1>5. ASSUME u = v
      PROVE  \A i \in 1..n : a[i] = b[i]
    BY <1>2, <1>3, <1>5
<1> QED BY <1>4, <1>5 DEF u, v

\* The character of a path behind the stem of a shorter one.
LEMMA CharBehind ==
    ASSUME NEW S, "0" \notin S, NEW b \in Seq(S), Canonical(b), NEW n \in Nat, n < Len(Stem(b))
    PROVE  Char(b, n) \in {"/", "0"} <=> Stem(b)[n + 1] = "/"
<1>1. n < Len(b) /\ n + 1 \in 1..Len(Stem(b))
    BY StemLength
<1>2. Char(b, n) = b[n + 1] /\ Stem(b)[n + 1] = b[n + 1] /\ b[n + 1] \in S
    BY <1>1, StemLength DEF Char
<1> QED BY <1>2

LEMMA CompareSays ==
    ASSUME NEW S, "0" \notin S, NEW a \in Seq(S), NEW b \in Seq(S), Canonical(a), Canonical(b)
    PROVE  LET ca == Components(a)
               cb == Components(b)
           IN  compare_paths(a, b) = CASE ca = cb -> "PATHS_ARE_EQUAL"
                                       [] ca # cb /\ IsPrefix(ca, cb) -> "PATH1_IS_PREFIX"
                                       [] ca # cb /\ IsPrefix(cb, ca) -> "PATH2_IS_PREFIX"
                                       [] OTHER -> "PATHS_ARE_NOT_COMPARABLE"
<1> DEFINE ca == Components(a)
           cb == Components(b)
           A == Stem(a)
           B == Stem(b)
           l1 == Len(A)
           l2 == Len(B)
           out == compare_paths(a, b)
           Agree(n) == \A i \in 1..n : A[i] = B[i]
<1>1. /\ A \in Seq(S) /\ B \in Seq(S) /\ A = Spelled(ca) /\ B = Spelled(cb)
      /\ Components(A) = ca /\ Components(B) = cb
    BY StemIs
<1>2. ca = cb <=> A = B
    BY <1>1
<1>3. IsPrefix(ca, cb) <=> l1 <= l2 /\ Agree(l1) /\ (l1 < l2 => B[l1 + 1] = "/")
    BY PrefixIs
<1>4. IsPrefix(cb, ca) <=> l2 <= l1 /\ Agree(l2) /\ (l2 < l1 => A[l2 + 1] = "/")
    <2>1. IsPrefix(cb, ca) <=> l2 <= l1 /\ (\A i \in 1..l2 : B[i] = A[i]) /\ (l2 < l1 => A[l2 + 1] = "/")
        BY PrefixIs
    <2>2. (\A i \in 1..l2 : B[i] = A[i]) <=> Agree(l2)
        OBVIOUS
    <2> HIDE DEF Agree, ca, cb, A, B
    <2> QED BY <2>1, <2>2
<1>5. l1 \in Nat /\ l2 \in Nat /\ l1 <= Len(a) /\ l2 <= Len(b)
    BY StemLength
<1>6. A = B <=> l1 = l2 /\ Agree(l1)
    <2> HIDE DEF A, B
    <2>1. l1 = l2 /\ Agree(l1) => A = B
        BY <1>1, SeqEqual
    <2> QED BY <2>1
<1>7. ASSUME NEW n \in Nat, n <= l1, n <= l2
      PROVE  Upto(a, n) = Upto(b, n) <=> Agree(n)
    <2>1. n <= Len(a) /\ n <= Len(b)
        BY <1>5, <1>7
    <2>2. Upto(a, n) = Upto(b, n) <=> \A i \in 1..n : a[i] = b[i]
        BY <2>1, UptoEqual
    <2>3. \A i \in 1..n : i \in 1..l1 /\ i \in 1..l2
        BY <1>5, <1>7
    <2>4. \A i \in 1..l1 : A[i] = a[i]
        BY StemLength
    <2>5. \A i \in 1..l2 : B[i] = b[i]
        BY StemLength
    <2> HIDE DEF A, B, l1, l2
    <2> QED BY <2>2, <2>3, <2>4, <2>5
<1>8. CASE l1 < l2
    <2>1. Compares(a, b, l1, l2, l1, Char(b, l1))
        BY <1>8, CompareIs
    <2>2. Char(b, l1) \in {"/", "0"} <=> B[l1 + 1] = "/"
        BY <1>5, <1>8, CharBehind
    <2>3. Upto(a, l1) = Upto(b, l1) <=> Agree(l1)
        BY <1>5, <1>7, <1>8
    <2>4. ca # cb /\ ~IsPrefix(cb, ca) /\ (IsPrefix(ca, cb) <=> Agree(l1) /\ B[l1 + 1] = "/")
        <3> HIDE DEF Agree, ca, cb, A, B, l1, l2
        <3> QED BY <1>2, <1>3, <1>4, <1>5, <1>6, <1>8
    <2>5. l1 # l2
        BY <1>5, <1>8
    <2> HIDE DEF Agree, A, B, l1, l2, ca, cb, out
    <2>6. out = IF IsPrefix(ca, cb) THEN "PATH1_IS_PREFIX" ELSE "PATHS_ARE_NOT_COMPARABLE"
        BY <1>8, <2>1, <2>2, <2>3, <2>4, <2>5 DEF Compares, out
    <2> QED BY <2>4, <2>6 DEF ca, cb, out
<1>9. CASE l2 < l1
    <2>1. Compares(a, b, l1, l2, l2, Char(a, l2)) /\ ~(l1 < l2) /\ l1 # l2
        <3>1. ~(l1 < l2) /\ l1 # l2
            BY <1>5, <1>9
        <3> QED BY <3>1, CompareIs
    <2>2. Char(a, l2) \in {"/", "0"} <=> A[l2 + 1] = "/"
        BY <1>5, <1>9, CharBehind
    <2>3. Upto(a, l2) = Upto(b, l2) <=> Agree(l2)
        BY <1>5, <1>7, <1>9
    <2>4. ca # cb /\ ~IsPrefix(ca, cb) /\ (IsPrefix(cb, ca) <=> Agree(l2) /\ A[l2 + 1] = "/")
        <3> HIDE DEF Agree, ca, cb, A, B, l1, l2
        <3> QED BY <1>2, <1>3, <1>4, <1>5, <1>6, <1>9
    <2> HIDE DEF Agree, A, B, l1, l2, ca, cb, out
    <2>6. out = IF IsPrefix(cb, ca) THEN "PATH2_IS_PREFIX" ELSE "PATHS_ARE_NOT_COMPARABLE"
        BY <1>9, <2>1, <2>2, <2>3, <2>4 DEF Compares, out
    <2> QED BY <2>4, <2>6 DEF ca, cb, out
<1>10. CASE l1 = l2
    <2>1. Compares(a, b, l1, l2, l1, Char(a, l1)) /\ ~(l1 < l2)
        <3>1. ~(l1 < l2)
            BY <1>5, <1>10
        <3> QED BY <1>10, <3>1, CompareIs
    <2>2. Char(a, l1) \in {"/", "0"}
        <3>1. CASE a = Root
            <4>1. l1 = 0 /\ Len(a) = 1 /\ a[1] = "/"
                BY <3>1, StemLength
            <4> QED BY <4>1 DEF Char
        <3>2. CASE a # Root
            <4>1. l1 = Len(a)
                BY <3>2, StemLength
            <4>2. ~(Len(a) < Len(a))
                OBVIOUS
            <4> HIDE DEF l1
            <4> QED BY <4>1, <4>2 DEF Char
        <3> QED BY <3>1, <3>2
    <2>3. Upto(a, l1) = Upto(b, l1) <=> Agree(l1)
        BY <1>5, <1>7, <1>10
    <2>4. /\ ca = cb <=> Agree(l1)
          /\ IsPrefix(ca, cb) <=> Agree(l1)
          /\ IsPrefix(cb, ca) <=> Agree(l1)
        <3> HIDE DEF Agree, ca, cb, A, B, l1, l2
        <3> QED BY <1>2, <1>3, <1>4, <1>5, <1>6, <1>10
    <2> HIDE DEF Agree, A, B, l1, l2, ca, cb, out
    <2>6. out = IF ca = cb THEN "PATHS_ARE_EQUAL" ELSE "PATHS_ARE_NOT_COMPARABLE"
        BY <1>10, <2>1, <2>2, <2>3, <2>4 DEF Compares, out
    <2> QED BY <2>4, <2>6 DEF ca, cb, out
<1>11. l1 < l2 \/ l2 < l1 \/ l1 = l2
    BY <1>5
<1> QED BY <1>8, <1>9, <1>10, <1>11

(***************************************************************************)
(* Moving a path from one side of a binding to the other.                  *)
(***************************************************************************)
LEMMA SubstituteIs ==
    ASSUME NEW p, NEW n, NEW new
    PROVE  LET out == substitute_path_prefix(p, n, new)
               long == Len(new) # 1 /\ Len(new) + Len(p) - (IF n = 1 THEN 0 ELSE n) >= PATH_MAX
           IN  /\ long => out = p
               /\ ~long /\ Len(new) = 1 /\ Len(p) = n => out = Root
               /\ ~long /\ Len(new) = 1 /\ Len(p) # n => out = From(p, n)
               /\ ~long /\ Len(new) # 1 /\ n = 1 /\ Len(p) > 1 => out = new \o p
               /\ ~long /\ Len(new) # 1 /\ n = 1 /\ ~(Len(p) > 1) => out = new
               /\ ~long /\ Len(new) # 1 /\ n # 1 => out = new \o From(p, n)
<1> DEFINE out == substitute_path_prefix(p, n, new)
           long == Len(new) # 1 /\ Len(new) + Len(p) - (IF n = 1 THEN 0 ELSE n) >= PATH_MAX
           q == CASE Len(new) = 1 -> IF Len(p) = n THEN Root ELSE From(p, n)
                  [] Len(new) # 1 /\ n = 1 -> IF Len(p) > 1 THEN new \o p ELSE new
                  [] OTHER -> new \o From(p, n)
<1>1. out = IF long THEN p ELSE q
    BY DEF substitute_path_prefix
<1>2. Len(new) = 1 => q = IF Len(p) = n THEN Root ELSE From(p, n)
    OBVIOUS
<1>3. Len(new) # 1 /\ n = 1 => q = IF Len(p) > 1 THEN new \o p ELSE new
    OBVIOUS
<1>4. Len(new) # 1 /\ n # 1 => q = new \o From(p, n)
    OBVIOUS
<1> HIDE DEF out, long, q
<1>5. /\ long => out = p
      /\ ~long /\ Len(new) = 1 /\ Len(p) = n => out = Root
      /\ ~long /\ Len(new) = 1 /\ Len(p) # n => out = From(p, n)
      /\ ~long /\ Len(new) # 1 /\ n = 1 /\ Len(p) > 1 => out = new \o p
      /\ ~long /\ Len(new) # 1 /\ n = 1 /\ ~(Len(p) > 1) => out = new
      /\ ~long /\ Len(new) # 1 /\ n # 1 => out = new \o From(p, n)
    BY <1>1, <1>2, <1>3, <1>4
<1> QED BY <1>5 DEF out, long

\* What follows a stem is a canonical path when the whole is.
LEMMA RestCanonical ==
    ASSUME NEW S, NEW p \in Seq(S), NEW s \in Seq(S), NEW r \in Seq(S), Canonical(p), p # Root,
           p = s \o r, IsAbsolute(r)
    PROVE  Canonical(r) /\ r # Root
<1>1. Len(r) \in Nat \ {0} /\ r[1] = "/"
    BY AbsoluteIs
<1>2. /\ Len(p) = Len(s) + Len(r) /\ Len(s) \in Nat
      /\ \A i \in 1..(Len(s) + Len(r)) : p[i] = IF i <= Len(s) THEN s[i] ELSE r[i - Len(s)]
    BY ConcatProperties
<1>3. \A i \in 1..Len(r) : Len(s) + i \in 1..(Len(s) + Len(r)) /\ ~(Len(s) + i <= Len(s)) /\ (Len(s) + i) - Len(s) = i
    BY <1>2
<1>4. \A i \in 1..Len(r) : p[Len(s) + i] = r[i]
    BY <1>2, <1>3
<1>5. p[Len(p)] # "/" /\ \A i \in 1..(Len(p) - 1) : ~(p[i] = "/" /\ p[i + 1] = "/")
    BY CanonicalEnds DEF Canonical, SingleSeparators
<1>6. r[Len(r)] # "/"
    BY <1>1, <1>2, <1>4, <1>5
<1>7. ASSUME NEW i \in 1..(Len(r) - 1)
      PROVE  ~(r[i] = "/" /\ r[i + 1] = "/")
    <2>1. i \in 1..Len(r) /\ i + 1 \in 1..Len(r) /\ Len(s) + i \in 1..(Len(p) - 1) /\ Len(s) + (i + 1) = (Len(s) + i) + 1
        BY <1>1, <1>2
    <2> QED BY <1>4, <1>5, <2>1
<1>8. Canonical(r)
    BY <1>6, <1>7 DEF Canonical, SingleSeparators, Last
<1>9. r # Root
    BY <1>1, <1>6 DEF Root
<1> QED BY <1>8, <1>9

\* A canonical path behind the stem of another one.
LEMMA JoinedCanonical ==
    ASSUME NEW S, "/" \in S, NEW p \in Seq(S), NEW r \in Seq(S), Canonical(p), p # Root, Canonical(r), r # Root
    PROVE  /\ Canonical(p \o r) /\ p \o r \in Seq(S)
           /\ Components(p \o r) = Components(p) \o Components(r)
<1> DEFINE j == p \o r
<1>1. j \in Seq(S) /\ Components(j) = Components(p) \o Components(r)
    BY ComponentsOnward DEF Canonical
<1>2. SingleSeparators(j)
    <2>1. ~EndsWith(p, "/")
        BY CanonicalEnds
    <2> QED BY <2>1, SeparatorsOfConcat DEF Canonical
<1>3. IsAbsolute(j)
    <2>1. p # <<>> /\ IsAbsolute(p)
        BY DEF Canonical, IsAbsolute
    <2> QED BY <2>1, FirstOfConcat DEF IsAbsolute
<1>4. Last(j) # "/"
    <2>1. Len(r) \in Nat \ {0} /\ r[Len(r)] # "/"
        BY CanonicalEnds
    <2>2. /\ Len(j) = Len(p) + Len(r) /\ Len(p) \in Nat
          /\ \A i \in 1..(Len(p) + Len(r)) : j[i] = IF i <= Len(p) THEN p[i] ELSE r[i - Len(p)]
        BY ConcatProperties
    <2> HIDE DEF j
    <2>3. Len(j) \in 1..(Len(p) + Len(r)) /\ ~(Len(j) <= Len(p)) /\ Len(j) - Len(p) = Len(r)
        BY <2>1, <2>2
    <2>4. j[Len(j)] = r[Len(r)]
        BY <2>2, <2>3
    <2> QED BY <2>1, <2>4 DEF Last
<1> HIDE DEF j
<1>5. Canonical(j)
    BY <1>2, <1>3, <1>4 DEF Canonical
<1> QED BY <1>1, <1>5 DEF j

LEMMA FromBehind ==
    ASSUME NEW S, NEW s \in Seq(S), NEW r \in Seq(S)
    PROVE  From(s \o r, Len(s)) = r
<1> DEFINE j == s \o r
           f == From(j, Len(s))
<1>1. j \in Seq(S) /\ IsPrefix(s, j)
    BY PrefixOfConcat
<1>2. f \in Seq(S) /\ j = s \o f
    <2> HIDE DEF j
    <2> QED BY <1>1, RestOfPrefix
<1> HIDE DEF f
<1>3. s \o r = s \o f
    BY <1>2
<1>4. r = f
    BY <1>2, <1>3, ConcatSimplifications
<1> QED BY <1>4 DEF f, j

\* A canonical path and what comes behind its stem.
LEMMA Moved ==
    ASSUME NEW S, NEW new \in Seq(S), NEW r \in Seq(S), Canonical(new), new # Root,
           r = <<>> \/ (Canonical(r) /\ r # Root)
    PROVE  Canonical(new \o r) /\ Components(new \o r) = Components(new) \o Components(r)
<1>1. "/" \in S
    BY CanonicalEnds
<1>2. CASE r = <<>>
    <2>1. new \o r = new
        BY <1>2
    <2>2. Components(new) \in Seq(Seq(S)) /\ Components(r) = <<>>
        BY <1>2, CutIs, ComponentsOfNone
    <2> DEFINE cn == Components(new)
    <2>3. cn \o <<>> = cn
        <3>1. cn \in Seq(Seq(S))
            BY <2>2
        <3> HIDE DEF cn
        <3> QED BY <3>1
    <2> QED BY <2>1, <2>2, <2>3
<1>3. CASE Canonical(r) /\ r # Root
    BY <1>1, <1>3, JoinedCanonical
<1> QED BY <1>2, <1>3

LEMMA SubstituteSays ==
    ASSUME NEW S, NEW p \in Seq(S), NEW old \in Seq(S), NEW new \in Seq(S),
           Canonical(p), Canonical(old), Canonical(new), Under(p, old), old # new
    PROVE  LET out == substitute_path_prefix(p, Len(old), new)
           IN  \/ /\ Canonical(out)
                  /\ Components(out) = Components(new) \o From(Components(p), Len(Components(old)))
               \/ out = p /\ Len(p) + Len(new) >= PATH_MAX
<1> DEFINE n == Len(old)
           out == substitute_path_prefix(p, n, new)
           rest == From(Components(p), Len(Components(old)))
           long == Len(new) # 1 /\ Len(new) + Len(p) - (IF n = 1 THEN 0 ELSE n) >= PATH_MAX
           Moves == Canonical(out) /\ Components(out) = Components(new) \o rest
<1>1. /\ "/" \in S /\ (Len(new) = 1 <=> new = Root) /\ (n = 1 <=> old = Root) /\ (Len(p) = 1 <=> p = Root)
      /\ n \in Nat \ {0} /\ Len(p) \in Nat \ {0} /\ Len(new) \in Nat \ {0}
    BY CanonicalEnds
<1>2. PICK r \in Seq(S) : Stem(p) = Stem(old) \o r /\ (r = <<>> \/ IsAbsolute(r)) /\ Components(r) = rest
    BY BehindPrefix DEF Under
<1>3. /\ long => out = p
      /\ ~long /\ Len(new) = 1 /\ Len(p) = n => out = Root
      /\ ~long /\ Len(new) = 1 /\ Len(p) # n => out = From(p, n)
      /\ ~long /\ Len(new) # 1 /\ n = 1 /\ Len(p) > 1 => out = new \o p
      /\ ~long /\ Len(new) # 1 /\ n = 1 /\ ~(Len(p) > 1) => out = new
      /\ ~long /\ Len(new) # 1 /\ n # 1 => out = new \o From(p, n)
    BY SubstituteIs
<1>4. long => Len(p) + Len(new) >= PATH_MAX
    <2> HIDE DEF n
    <2>1. \A x, y, m \in Nat : (x + y - (IF m = 1 THEN 0 ELSE m) >= PATH_MAX) => y + x >= PATH_MAX
        BY PathsAssumption
    <2> QED BY <1>1, <2>1
<1> HIDE DEF long, out, rest
<1>5. CASE long
    BY <1>3, <1>4, <1>5 DEF out
<1>6. ASSUME old # Root
      PROVE  p # Root /\ p = old \o r /\ From(p, n) = r /\ (r = <<>> \/ (Canonical(r) /\ r # Root))
             /\ (Len(p) = n <=> r = <<>>)
    <2>1. Stem(old) = old /\ old \o r \in Seq(S)
        BY <1>6 DEF Stem
    <2>2. Len(old \o r) = n + Len(r) /\ Len(r) \in Nat
        OBVIOUS
    <2>3. p # Root
        <3>1. ASSUME p = Root
              PROVE  FALSE
            <4>1. old \o r = <<>>
                BY <1>2, <2>1, <3>1 DEF Stem
            <4>2. Len(old \o r) = 0
                BY <4>1
            <4> HIDE DEF n
            <4> QED BY <1>1, <2>2, <4>2
        <3> QED BY <3>1
    <2>4. p = old \o r
        BY <1>2, <2>1, <2>3 DEF Stem
    <2>5. From(p, n) = r
        BY <2>4, FromBehind
    <2>6. r = <<>> \/ (Canonical(r) /\ r # Root)
        BY <1>2, <2>3, <2>4, RestCanonical
    <2>7. Len(p) = n <=> Len(r) = 0
        <3>1. Len(p) = n + Len(r)
            BY <2>2, <2>4
        <3> HIDE DEF n
        <3> QED BY <1>1, <2>2, <3>1
    <2>8. Len(r) = 0 <=> r = <<>>
        OBVIOUS
    <2> QED BY <2>3, <2>4, <2>5, <2>6, <2>7, <2>8
<1>7. CASE ~long /\ new = Root
    <2>1. old # Root
        BY <1>7
    <2>2. Components(r) \in Seq(Seq(S))
        BY CutIs
    <2> DEFINE cr == Components(r)
    <2>3. <<>> \o cr = cr
        <3>1. cr \in Seq(Seq(S))
            BY <2>2
        <3> HIDE DEF cr
        <3> QED BY <3>1, ConcatEmptySeq
    <2>4. Components(new) \o rest = Components(r)
        BY <1>2, <1>7, <2>3, ComponentsOfRoot
    <2>5. CASE r = <<>>
        <3>1. out = Root /\ Components(r) = <<>>
            BY <1>1, <1>3, <1>6, <1>7, <2>1, <2>5, ComponentsOfNone
        <3>2. Canonical(Root)
            BY <1>7
        <3> QED BY <2>4, <3>1, <3>2, ComponentsOfRoot DEF out, rest
    <2>6. CASE r # <<>>
        <3>1. out = r
            BY <1>1, <1>3, <1>6, <1>7, <2>1, <2>6
        <3>2. Canonical(r)
            BY <1>6, <2>1, <2>6
        <3>3. Moves
            BY <2>4, <3>1, <3>2
        <3> QED BY <3>3 DEF out, rest
    <2> QED BY <2>5, <2>6
<1>8. CASE ~long /\ new # Root /\ old # Root
    <2>1. out = new \o r
        BY <1>1, <1>3, <1>6, <1>8
    <2>2. Canonical(new \o r) /\ Components(new \o r) = Components(new) \o Components(r)
        BY <1>6, <1>8, Moved
    <2>3. Moves
        BY <1>2, <2>1, <2>2
    <2> QED BY <2>3 DEF out, rest
<1>9. CASE ~long /\ new # Root /\ old = Root
    <2>1. Stem(old) = <<>> /\ n = 1 /\ Len(new) # 1
        BY <1>1, <1>9 DEF Stem
    <2>2. Stem(p) = r
        BY <1>2, <2>1
    <2>3. CASE p = Root
        <3>1. r = <<>> /\ new \o r = new
            BY <2>2, <2>3 DEF Stem
        <3>2. out = new
            <4>1. ~(Len(p) > 1)
                BY <2>3 DEF Root
            <4> QED BY <1>3, <1>9, <2>1, <4>1
        <3>3. Canonical(new \o r) /\ Components(new \o r) = Components(new) \o Components(r)
            BY <1>9, <3>1, Moved
        <3>4. Moves
            BY <1>2, <3>1, <3>2, <3>3
        <3> QED BY <3>4 DEF out, rest
    <2>4. CASE p # Root
        <3>1. r = p
            BY <2>2, <2>4 DEF Stem
        <3>2. out = new \o p
            <4>1. Len(p) > 1
                <5>1. \A k \in Nat \ {0} : k = 1 \/ k > 1
                    OBVIOUS
                <5> QED BY <1>1, <2>4, <5>1
            <4> QED BY <1>3, <1>9, <2>1, <4>1
        <3>3. Canonical(new \o r) /\ Components(new \o r) = Components(new) \o Components(r)
            BY <1>9, <2>4, <3>1, Moved
        <3>4. Moves
            BY <1>2, <3>1, <3>2, <3>3
        <3> QED BY <3>4 DEF out, rest
    <2> QED BY <2>3, <2>4
<1> QED BY <1>5, <1>7, <1>8, <1>9

(***************************************************************************)
(* One component of a path, where the walk of canonicalize reads it.       *)
(***************************************************************************)
LEMMA SkipIs ==
    ASSUME NEW S, NEW p \in Seq(S), NEW T, NEW i \in 1..(Len(p) + 1)
    PROVE  /\ SkipTo(p, i, T) \in i..(Len(p) + 1)
           /\ \A m \in i..(SkipTo(p, i, T) - 1) : p[m] \in T
           /\ SkipTo(p, i, T) <= Len(p) => p[SkipTo(p, i, T)] \notin T
<1> DEFINE n == SkipTo(p, i, T)
           l == Len(p)
           Stops(k) == p[k] \notin T /\ \A m \in i..(k - 1) : p[m] \in T
<1>1. l \in Nat /\ i \in Nat /\ i <= l + 1
    OBVIOUS
<1>2. CASE \A k \in i..l : p[k] \in T
    <2>1. n = l + 1
        BY <1>2 DEF SkipTo
    <2>2. (l + 1) - 1 = l /\ l + 1 \in i..(l + 1) /\ ~(l + 1 <= l)
        BY <1>1
    <2> HIDE DEF n, l
    <2> QED BY <1>2, <2>1, <2>2 DEF n, l
<1>3. CASE ~(\A k \in i..l : p[k] \in T)
    <2> DEFINE B == {k \in i..l : p[k] \notin T}
    <2>1. B \in SUBSET Nat /\ B # {}
        BY <1>1, <1>3
    <2>2. PICK k \in B : \A m \in B : k <= m
        <3> HIDE DEF B
        <3> QED BY <2>1, LeastNumber
    <2>3. k \in i..l /\ Stops(k)
        BY <1>1, <2>2
    <2>4. n = CHOOSE x \in i..l : Stops(x)
        BY <1>3 DEF SkipTo
    <2>5. n \in i..l /\ Stops(n)
        <3> HIDE DEF Stops, n
        <3> QED BY <2>3, <2>4
    <2> HIDE DEF n
    <2> QED BY <1>1, <2>5 DEF n
<1> QED BY <1>2, <1>3

\* A name is one component.
LEMMA OneName ==
    ASSUME NEW S, NEW r \in Seq(S), \A i \in 1..Len(r) : r[i] # "/"
    PROVE  Components(r) = IF r = <<>> THEN <<>> ELSE <<r>>
<1> DEFINE Pure(x) == \A i \in 1..Len(x) : x[i] # "/"
           R(x) == Pure(x) => CutUp(x).done = <<>> /\ CutUp(x).name = x
           P == {x \in Seq(S) : R(x)}
<1>1. <<>> \in P
    BY CutNone DEF NothingCut
<1>2. ASSUME NEW x \in P, NEW c \in S
      PROVE  Append(x, c) \in P
    <2>1. x \in Seq(S) /\ Append(x, c) \in Seq(S)
        OBVIOUS
    <2>2. R(x)
        OBVIOUS
    <2>3. ASSUME Pure(Append(x, c))
          PROVE  Pure(x) /\ c # "/"
        <3>1. /\ Len(Append(x, c)) = Len(x) + 1 /\ Append(x, c)[Len(x) + 1] = c /\ Len(x) \in Nat
              /\ \A i \in 1..Len(x) : Append(x, c)[i] = x[i]
            BY <2>1, AppendProperties
        <3>2. \A i \in 1..Len(x) : i \in 1..(Len(x) + 1)
            BY <3>1
        <3>3. Len(x) + 1 \in 1..(Len(x) + 1)
            BY <3>1
        <3> QED BY <2>3, <3>1, <3>2, <3>3
    <2>4. CutUp(Append(x, c)) = CutMore(CutUp(x), c)
        BY <2>1, CutOne
    <2>5. c # "/" => CutMore(CutUp(x), c) = [done |-> CutUp(x).done, name |-> Append(CutUp(x).name, c)]
        BY DEF CutMore
    <2> HIDE DEF Pure
    <2>6. R(Append(x, c))
        BY <2>2, <2>3, <2>4, <2>5
    <2> HIDE DEF R
    <2> QED BY <2>1, <2>6
<1>3. P \in SUBSET Seq(S)
    OBVIOUS
<1> HIDE DEF P
<1>4. P = Seq(S)
    BY <1>1, <1>2, <1>3, Growth
<1>5. R(r)
    BY <1>4 DEF P
<1>6. CutUp(r).done = <<>> /\ CutUp(r).name = r
    BY <1>5
<1>7. Append(<<>>, r) = <<r>>
    OBVIOUS
<1> QED BY <1>6, <1>7 DEF Components, CutEnd

\* Separators behind a beginning of a path change nothing.
LEMMA MoreSlashes ==
    ASSUME NEW S, "/" \in S, NEW p \in Seq(S), NEW i \in 0..Len(p), NEW j \in i..Len(p),
           \A m \in (i + 1)..j : p[m] = "/"
    PROVE  /\ Components(Upto(p, j)) = Components(Upto(p, i))
           /\ j > i => EndsWith(Upto(p, j), "/")
<1> DEFINE d == j - i
           R(k) == Components(Upto(p, i + k)) = Components(Upto(p, i)) /\ (k > 0 => EndsWith(Upto(p, i + k), "/"))
           T == {k \in Nat : R(k)}
<1>1. d \in Nat /\ i \in Nat /\ j \in Nat /\ i + d = j /\ j <= Len(p) /\ (d > 0 <=> j > i) /\ Len(p) \in Nat
    OBVIOUS
<1>2. 0 \in T
    <2>1. i + 0 = i /\ ~(0 > 0)
        BY <1>1
    <2>2. R(0)
        BY <2>1
    <2> HIDE DEF R
    <2> QED BY <2>2
<1> HIDE DEF d
<1>3. ASSUME NEW k \in 0..(d - 1), k \in T
      PROVE  k + 1 \in T
    <2>1. k \in Nat /\ i + k \in 0..(Len(p) - 1) /\ i + k \in 0..Len(p) /\ (i + k) + 1 \in (i + 1)..j
          /\ i + (k + 1) = (i + k) + 1
        BY <1>1
    <2> DEFINE u == Upto(p, i + k)
               v == Upto(p, i + (k + 1))
    <2>2. v = Append(u, "/")
        <3>1. Upto(p, (i + k) + 1) = Append(Upto(p, i + k), p[(i + k) + 1])
            BY <2>1, UptoNext
        <3>2. p[(i + k) + 1] = "/"
            BY <2>1
        <3> QED BY <2>1, <3>1, <3>2
    <2>3. u \in Seq(S)
        BY <2>1, UptoIs
    <2>4. Components(u) = Components(Upto(p, i))
        BY <1>3
    <2> HIDE DEF u, v
    <2>5. v = u \o Root
        BY <2>2, <2>3, AppendIsConcat DEF Root
    <2>6. Components(v) = Components(u)
        BY <2>3, <2>5, ComponentsOfSlash
    <2>7. EndsWith(v, "/")
        BY <2>2, <2>3 DEF EndsWith, Last
    <2>8. R(k + 1)
        BY <2>4, <2>6, <2>7 DEF v
    <2> HIDE DEF R
    <2> QED BY <2>1, <2>8
<1> HIDE DEF T
<1>4. \A k \in 0..d : k \in T
    BY <1>1, <1>2, <1>3, InductionUpTo
<1>5. d \in T
    BY <1>1, <1>4
<1>6. R(d)
    BY <1>5 DEF T
<1> QED BY <1>1, <1>6

LEMMA SliceIs ==
    ASSUME NEW S, NEW p \in Seq(S), NEW i \in 0..Len(p), NEW j \in i..Len(p)
    PROVE  /\ SubSeq(p, i + 1, j) \in Seq(S) /\ Len(SubSeq(p, i + 1, j)) = j - i
           /\ \A m \in 1..(j - i) : SubSeq(p, i + 1, j)[m] = p[i + m]
           /\ Upto(p, j) = Upto(p, i) \o SubSeq(p, i + 1, j)
<1> DEFINE r == SubSeq(p, i + 1, j)
           u == Upto(p, i)
           v == Upto(p, j)
           w == u \o r
<1>1. i \in Nat /\ j \in Nat /\ i <= j /\ j <= Len(p) /\ j \in 0..Len(p)
    OBVIOUS
<1>2. \A m \in (i + 1)..j : p[m] \in S
    BY <1>1
<1>3. /\ r \in Seq(S) /\ Len(r) = (IF i + 1 <= j THEN j - (i + 1) + 1 ELSE 0)
      /\ \A m \in 1..(j - (i + 1) + 1) : r[m] = p[(i + 1) + m - 1]
    BY <1>1, <1>2, SubSeqProperties
<1> HIDE DEF r
<1>4. Len(r) = j - i /\ \A m \in 1..(j - i) : r[m] = p[i + m]
    <2>1. Len(r) = j - i /\ j - (i + 1) + 1 = j - i
        BY <1>1, <1>3
    <2>2. \A m \in 1..(j - i) : (i + 1) + m - 1 = i + m
        BY <1>1
    <2> QED BY <1>3, <2>1, <2>2
<1>5. u \in Seq(S) /\ Len(u) = i /\ \A m \in 1..i : u[m] = p[m]
    BY UptoIs
<1>6. v \in Seq(S) /\ Len(v) = j /\ \A m \in 1..j : v[m] = p[m]
    BY <1>1, UptoIs
<1> HIDE DEF u, v
<1>7. /\ w \in Seq(S) /\ Len(w) = Len(u) + Len(r)
      /\ \A m \in 1..(Len(u) + Len(r)) : w[m] = IF m <= Len(u) THEN u[m] ELSE r[m - Len(u)]
    BY <1>3, <1>5, ConcatProperties
<1> HIDE DEF w
<1>8. Len(w) = j
    BY <1>1, <1>4, <1>5, <1>7
<1>9. ASSUME NEW m \in 1..j
      PROVE  v[m] = w[m]
    <2>1. CASE m <= i
        <3>1. m \in 1..i /\ m \in 1..(Len(u) + Len(r)) /\ m <= Len(u)
            BY <1>1, <1>4, <1>5, <2>1
        <3>2. w[m] = u[m]
            BY <1>7, <3>1
        <3> QED BY <1>5, <1>6, <3>1, <3>2
    <2>2. CASE ~(m <= i)
        <3>1. m - i \in 1..(j - i) /\ i + (m - i) = m
            BY <1>1, <2>2
        <3> QED BY <1>4, <1>5, <1>6, <1>7, <1>8, <2>2, <3>1
    <2> QED BY <2>1, <2>2
<1>10. v = w
    BY <1>6, <1>7, <1>8, <1>9, SeqEqual
<1> QED BY <1>3, <1>4, <1>10 DEF r, u, v, w

LEMMA SliceBehind ==
    ASSUME NEW S, NEW p \in Seq(S), NEW i \in 0..Len(p), NEW j \in i..Len(p)
    PROVE  Upto(p, j) = Upto(p, i) \o SubSeq(p, i + 1, j)
<1> DEFINE u == Upto(p, j)
           v == Upto(p, i) \o SubSeq(p, i + 1, j)
<1>1. u = v
    BY SliceIs
<1> QED BY <1>1

\* Where a component may be read.
AtStart(p, i) == Upto(p, i - 1) = <<>> \/ EndsWith(Upto(p, i - 1), "/")

\* A component, and what has been read of the path behind it.
ReadName(p, i, c) == c.component # <<>>
                     /\ Components(Upto(p, c.cursor - 1)) = Append(Components(Upto(p, i - 1)), c.component)
ReadNothing(p, i, c) == c.component = <<>>
                        /\ Components(Upto(p, c.cursor - 1)) = Components(Upto(p, i - 1))

LEMMA NextComponentSays ==
    ASSUME NEW p \in Seq(Chars), NEW i \in 1..(Len(p) + 1), AtStart(p, i)
    PROVE  LET c == next_component(p, i)
           IN  /\ c.component \in Seq(Chars) /\ \A m \in 1..Len(c.component) : c.component[m] # "/"
               /\ c.cursor \in i..(Len(p) + 1)
               /\ c.finality \in {"NOT_FINAL", "FINAL_SLASH", "FINAL_NORMAL"}
               /\ ReadName(p, i, c) \/ ReadNothing(p, i, c)
               /\ c.finality = "NOT_FINAL" => ReadName(p, i, c) /\ c.cursor > i /\ AtStart(p, c.cursor)
               /\ c.finality # "NOT_FINAL" => c.cursor = Len(p) + 1
<1> DEFINE l == Len(p)
           start == SkipTo(p, i, {"/"})
           end == SkipTo(p, start, Names)
           next == SkipTo(p, end, {"/"})
           name == SubSeq(p, start, end - 1)
           fin == IF next <= l THEN "NOT_FINAL" ELSE IF end <= l THEN "FINAL_SLASH" ELSE "FINAL_NORMAL"
           c == next_component(p, i)
<1>1. c = [component |-> name, cursor |-> next, finality |-> fin]
    BY DEF next_component
<1>2. l \in Nat /\ i \in Nat \ {0} /\ i <= l + 1 /\ "/" \in Chars /\ "/" \notin Names
      /\ \A m \in 1..l : p[m] \in Chars
    BY PathsAssumption DEF Chars
<1>3. /\ start \in i..(l + 1) /\ (\A m \in i..(start - 1) : p[m] = "/")
      /\ start <= l => p[start] # "/"
    <2>1. /\ start \in i..(l + 1) /\ (\A m \in i..(start - 1) : p[m] \in {"/"})
          /\ start <= l => p[start] \notin {"/"}
        BY SkipIs
    <2> HIDE DEF start
    <2> QED BY <2>1
<1> HIDE DEF start
<1>4. start \in 1..(l + 1)
    BY <1>2, <1>3
<1>5. /\ end \in start..(l + 1) /\ (\A m \in start..(end - 1) : p[m] \in Names)
      /\ end <= l => p[end] \notin Names
    BY <1>4, SkipIs
<1> HIDE DEF end
<1>6. end \in 1..(l + 1)
    BY <1>2, <1>4, <1>5
<1>7. /\ next \in end..(l + 1) /\ (\A m \in end..(next - 1) : p[m] = "/")
      /\ next <= l => p[next] # "/"
    <2>1. /\ next \in end..(l + 1) /\ (\A m \in end..(next - 1) : p[m] \in {"/"})
          /\ next <= l => p[next] \notin {"/"}
        BY <1>6, SkipIs
    <2> HIDE DEF next
    <2> QED BY <2>1
<1> HIDE DEF next
<1>8. /\ i - 1 \in 0..l /\ start - 1 \in (i - 1)..l /\ start - 1 \in 0..l
      /\ end - 1 \in (start - 1)..l /\ end - 1 \in 0..l /\ next - 1 \in (end - 1)..l
      /\ (i - 1) + 1 = i /\ (start - 1) + 1 = start /\ (end - 1) + 1 = end
    BY <1>2, <1>3, <1>5, <1>6, <1>7
<1> DEFINE u == Upto(p, i - 1)
           A == Upto(p, start - 1)
           B == Upto(p, end - 1)
           C == Upto(p, next - 1)
<1>9. Components(A) = Components(u) /\ (A = <<>> \/ EndsWith(A, "/"))
    <2>1. \A m \in ((i - 1) + 1)..(start - 1) : p[m] = "/"
        BY <1>3, <1>8
    <2>2. Components(A) = Components(u) /\ (start - 1 > i - 1 => EndsWith(A, "/"))
        BY <1>2, <1>8, <2>1, MoreSlashes
    <2>3. start - 1 > i - 1 \/ start - 1 = i - 1
        BY <1>2, <1>3
    <2> QED BY <2>2, <2>3 DEF AtStart
<1>10. /\ name \in Seq(Chars) /\ Len(name) = (end - 1) - (start - 1) /\ B = A \o name /\ A \in Seq(Chars)
       /\ \A m \in 1..Len(name) : name[m] # "/"
    <2>0. ASSUME NEW a \in 0..l, NEW b \in a..l
          PROVE  /\ SubSeq(p, a + 1, b) \in Seq(Chars) /\ Len(SubSeq(p, a + 1, b)) = b - a
                 /\ \A m \in 1..(b - a) : SubSeq(p, a + 1, b)[m] = p[a + m]
                 /\ Upto(p, b) = Upto(p, a) \o SubSeq(p, a + 1, b)
        BY SliceIs
    <2> DEFINE a == start - 1
               b == end - 1
    <2>7. a \in 0..l /\ b \in a..l
        BY <1>8
    <2> HIDE DEF a, b
    <2>8. /\ SubSeq(p, a + 1, b) \in Seq(Chars) /\ Len(SubSeq(p, a + 1, b)) = b - a
          /\ \A m \in 1..(b - a) : SubSeq(p, a + 1, b)[m] = p[a + m]
          /\ Upto(p, b) = Upto(p, a) \o SubSeq(p, a + 1, b)
        BY <2>0, <2>7
    <2>1. /\ SubSeq(p, (start - 1) + 1, end - 1) \in Seq(Chars)
          /\ Len(SubSeq(p, (start - 1) + 1, end - 1)) = (end - 1) - (start - 1)
          /\ \A m \in 1..((end - 1) - (start - 1)) : SubSeq(p, (start - 1) + 1, end - 1)[m] = p[(start - 1) + m]
          /\ B = A \o SubSeq(p, (start - 1) + 1, end - 1)
        BY <2>8 DEF a, b
    <2>2. A \in Seq(Chars)
        BY <1>8, UptoIs
    <2>3. name = SubSeq(p, (start - 1) + 1, end - 1)
        BY <1>8
    <2> HIDE DEF name, A, B
    <2>4. Len(name) = (end - 1) - (start - 1) /\ \A m \in 1..((end - 1) - (start - 1)) : name[m] = p[(start - 1) + m]
        BY <2>1, <2>3
    <2>5. \A m \in 1..((end - 1) - (start - 1)) : (start - 1) + m \in start..(end - 1)
        BY <1>4, <1>6
    <2>6. \A m \in 1..Len(name) : name[m] # "/"
        BY <1>2, <1>5, <2>4, <2>5
    <2> QED BY <2>1, <2>2, <2>3, <2>4, <2>6
<1>11. Components(C) = Components(B) /\ (next > end => EndsWith(C, "/"))
    <2>1. \A m \in ((end - 1) + 1)..(next - 1) : p[m] = "/"
        BY <1>7, <1>8
    <2>2. Components(C) = Components(B) /\ (next - 1 > end - 1 => EndsWith(C, "/"))
        BY <1>2, <1>8, <2>1, MoreSlashes
    <2>3. next > end => next - 1 > end - 1
        BY <1>6, <1>7
    <2> QED BY <2>2, <2>3
<1> HIDE DEF name, A, B, C
<1>12. Components(B) = Components(A) \o Components(name)
    BY <1>9, <1>10, ComponentsAnew
<1>13. Components(name) = IF name = <<>> THEN <<>> ELSE <<name>>
    BY <1>10, OneName
<1>14. Components(A) \in Seq(Seq(Chars))
    BY <1>10, CutIs
<1>15. Components(C) = IF name = <<>> THEN Components(u) ELSE Append(Components(u), name)
    <2> DEFINE ca == Components(A)
    <2>1. ca \o <<>> = ca /\ ca \o <<name>> = Append(ca, name)
        <3>1. ca \in Seq(Seq(Chars)) /\ name \in Seq(Chars)
            BY <1>10, <1>14
        <3> HIDE DEF ca
        <3> QED BY <3>1, AppendIsConcat
    <2> HIDE DEF ca
    <2>2. Components(C) = IF name = <<>> THEN ca ELSE Append(ca, name)
        BY <1>11, <1>12, <1>13, <2>1 DEF ca
    <2> QED BY <1>9, <2>2 DEF ca
<1>16. ASSUME next <= l
       PROVE  name # <<>> /\ next > end /\ next > i
    <2>1. start <= l /\ end <= l
        BY <1>4, <1>5, <1>6, <1>7, <1>16
    <2>2. p[start] \in Names
        <3>1. start \in 1..l
            BY <1>4, <2>1
        <3> QED BY <1>2, <1>3, <2>1, <3>1 DEF Chars
    <2>3. end # start
        BY <1>5, <2>1, <2>2
    <2>4. Len(name) # 0
        BY <1>4, <1>5, <1>6, <1>10, <2>3
    <2>5. p[end] = "/"
        <3>1. end \in 1..l
            BY <1>6, <2>1
        <3> QED BY <1>2, <1>5, <2>1, <3>1 DEF Chars
    <2>6. next # end
        BY <1>7, <1>16, <2>5
    <2>7. next > end
        BY <1>6, <1>7, <2>6
    <2>8. next > i
        BY <1>2, <1>3, <1>5, <1>6, <1>7, <2>7
    <2>9. name # <<>>
        BY <2>4
    <2> QED BY <2>7, <2>8, <2>9
<1>17. next \in i..(l + 1)
    BY <1>2, <1>3, <1>5, <1>6, <1>7
<1>18. ~(next <= l) => next = l + 1
    BY <1>2, <1>17
<1>19. c.component = name /\ c.cursor = next /\ c.finality = fin
    BY <1>1
<1>20. /\ fin \in {"NOT_FINAL", "FINAL_SLASH", "FINAL_NORMAL"}
       /\ fin = "NOT_FINAL" <=> next <= l
    OBVIOUS
<1> HIDE DEF c, fin, l
<1>21. c.finality = "NOT_FINAL" => c.cursor > i /\ AtStart(p, c.cursor) /\ name # <<>>
    BY <1>11, <1>16, <1>19, <1>20 DEF AtStart, C
<1>22. ReadName(p, i, c) \/ ReadNothing(p, i, c)
    BY <1>15, <1>19 DEF ReadName, ReadNothing, C
<1>23. name # <<>> => ReadName(p, i, c)
    BY <1>15, <1>19 DEF ReadName, C
<1>24. c.finality # "NOT_FINAL" => c.cursor = l + 1
    BY <1>18, <1>19, <1>20
<1> QED BY <1>10, <1>17, <1>19, <1>20, <1>21, <1>22, <1>23, <1>24 DEF c, l

(***************************************************************************)
(* Going up one directory.                                                 *)
(***************************************************************************)
\* A canonical path cut at its last separator.
LEMMA CutAtLast ==
    ASSUME NEW S, NEW p \in Seq(S), Canonical(p), NEW k \in 1..(Len(p) - 1), p[k] = "/",
           \A m \in (k + 1)..Len(p) : p[m] # "/"
    PROVE  LET q == Upto(p, IF k = 1 THEN 1 ELSE k - 1)
           IN  /\ Canonical(q) /\ q \in Seq(S)
               /\ Components(p) = Append(Components(q), SubSeq(p, k + 1, Len(p)))
<1> DEFINE l == Len(p)
           j == IF k = 1 THEN 1 ELSE k - 1
           q == Upto(p, j)
           A == Upto(p, k)
           name == SubSeq(p, k + 1, l)
<1>1. /\ l \in Nat /\ k \in Nat /\ 1 <= k /\ k < l /\ k \in 0..l /\ j \in 1..l /\ j \in 0..l /\ l \in k..l /\ k \in j..l
      /\ "/" \in S
    BY CanonicalEnds
<1>2. j > 1 => p[j] # "/"
    <2>1. \A i \in 1..(l - 1) : ~(p[i] = "/" /\ p[i + 1] = "/")
        BY DEF Canonical, SingleSeparators
    <2>2. ASSUME j > 1
          PROVE  j = k - 1 /\ j \in 1..(l - 1) /\ j + 1 = k
        BY <1>1, <2>2
    <2> QED BY <2>1, <2>2
<1>3. Canonical(q) /\ q \in Seq(S)
    <2> HIDE DEF j
    <2> QED BY <1>1, <1>2, CanonicalUpto, UptoIs
<1>4. Components(A) = Components(q)
    <2>1. \A m \in (j + 1)..k : p[m] = "/"
        BY <1>1
    <2> HIDE DEF j
    <2> QED BY <1>1, <2>1, MoreSlashes
<1>5. A \in Seq(S) /\ A # <<>> /\ EndsWith(A, "/")
    <2>1. A \in Seq(S) /\ Len(A) = k /\ \A i \in 1..k : A[i] = p[i]
        BY <1>1, UptoIs
    <2> HIDE DEF A
    <2>2. A # <<>> /\ k \in 1..k
        BY <1>1, <2>1
    <2> QED BY <2>1, <2>2 DEF EndsWith, Last
<1>6. /\ name \in Seq(S) /\ Len(name) = l - k /\ \A m \in 1..(l - k) : name[m] = p[k + m]
      /\ p = A \o name
    <2>1. Upto(p, l) = p
        BY UptoAll
    <2>2. /\ SubSeq(p, k + 1, l) \in Seq(S) /\ Len(SubSeq(p, k + 1, l)) = l - k
          /\ \A m \in 1..(l - k) : SubSeq(p, k + 1, l)[m] = p[k + m]
          /\ Upto(p, l) = Upto(p, k) \o SubSeq(p, k + 1, l)
        <3>1. ASSUME NEW a \in 0..l, NEW b \in a..l
              PROVE  /\ SubSeq(p, a + 1, b) \in Seq(S) /\ Len(SubSeq(p, a + 1, b)) = b - a
                     /\ \A m \in 1..(b - a) : SubSeq(p, a + 1, b)[m] = p[a + m]
                     /\ Upto(p, b) = Upto(p, a) \o SubSeq(p, a + 1, b)
            <4>1. a \in 0..Len(p) /\ b \in a..Len(p)
                OBVIOUS
            <4> HIDE DEF l, A, name, q, j
            <4>2. SubSeq(p, a + 1, b) \in Seq(S) /\ Len(SubSeq(p, a + 1, b)) = b - a
                BY <4>1, SliceIs
            <4>3. \A m \in 1..(b - a) : SubSeq(p, a + 1, b)[m] = p[a + m]
                BY <4>1, SliceIs
            <4>4. Upto(p, b) = Upto(p, a) \o SubSeq(p, a + 1, b)
                BY <4>1, SliceBehind
            <4> QED BY <4>2, <4>3, <4>4
        <3> HIDE DEF l
        <3> QED BY <1>1, <3>1
    <2> HIDE DEF l
    <2> QED BY <2>1, <2>2
<1> HIDE DEF A, name, q, j
<1>7. Components(p) = Components(A) \o Components(name)
    BY <1>5, <1>6, ComponentsAnew
<1>8. name # <<>> /\ \A m \in 1..Len(name) : name[m] # "/"
    <2>1. \A m \in 1..(l - k) : k + m \in (k + 1)..l
        BY <1>1
    <2>2. Len(name) # 0
        BY <1>1, <1>6
    <2> QED BY <1>6, <2>1, <2>2
<1>9. Components(name) = <<name>>
    BY <1>6, <1>8, OneName
<1> DEFINE cq == Components(q)
<1>10. cq \in Seq(Seq(S))
    BY <1>3, CutIs
<1> HIDE DEF cq
<1>11. cq \o <<name>> = Append(cq, name)
    BY <1>6, <1>10, AppendIsConcat
<1>12. Components(p) = Append(cq, name)
    BY <1>4, <1>7, <1>9, <1>11 DEF cq
<1> QED BY <1>3, <1>12 DEF cq, q, name, j

\* Skip of pop_component.
Back(p, k, T) ==
    IF \E n \in 2..k : p[n + 1] \notin T
    THEN CHOOSE n \in 2..k : p[n + 1] \notin T /\ \A m \in (n + 1)..k : p[m + 1] \in T
    ELSE 1

LEMMA BackIs ==
    ASSUME NEW p, NEW T, NEW k \in Nat \ {0}
    PROVE  /\ Back(p, k, T) \in 1..k
           /\ \A m \in (Back(p, k, T) + 1)..k : p[m + 1] \in T
           /\ Back(p, k, T) # 1 => p[Back(p, k, T) + 1] \notin T
<1> DEFINE n == Back(p, k, T)
           Stops(x) == p[x + 1] \notin T /\ \A m \in (x + 1)..k : p[m + 1] \in T
<1>1. CASE ~(\E x \in 2..k : p[x + 1] \notin T)
    <2>1. n = 1
        BY <1>1 DEF Back
    <2>2. \A m \in (1 + 1)..k : p[m + 1] \in T
        BY <1>1
    <2> HIDE DEF n
    <2> QED BY <2>1, <2>2 DEF n
<1>2. CASE \E x \in 2..k : p[x + 1] \notin T
    <2> DEFINE B == {d \in 0..k : k - d \in 2..k /\ p[(k - d) + 1] \notin T}
    <2>1. B \in SUBSET Nat /\ B # {}
        <3>1. PICK x \in 2..k : p[x + 1] \notin T
            BY <1>2
        <3>2. k - x \in 0..k /\ k - (k - x) = x
            OBVIOUS
        <3> DEFINE y == k - x
        <3>3. y \in 0..k /\ k - y \in 2..k /\ k - y = x
            BY <3>2
        <3> HIDE DEF y
        <3>4. p[(k - y) + 1] \notin T
            BY <3>1, <3>3
        <3>5. y \in B
            BY <3>3, <3>4
        <3> QED BY <3>5
    <2>2. PICK d \in B : \A m \in B : d <= m
        <3> HIDE DEF B
        <3> QED BY <2>1, LeastNumber
    <2> DEFINE x == k - d
    <2>3. x \in 2..k /\ p[x + 1] \notin T /\ d = k - x
        BY <2>2
    <2>4. ASSUME NEW m \in (x + 1)..k, p[m + 1] \notin T
          PROVE  FALSE
        <3>1. k - m \in 0..k /\ k - (k - m) = m /\ m \in 2..k /\ k - m < d
            BY <2>3
        <3> DEFINE y == k - m
        <3>4. y \in 0..k /\ k - y \in 2..k /\ k - y = m
            BY <3>1
        <3> HIDE DEF y
        <3>5. p[(k - y) + 1] \notin T
            BY <2>4, <3>4
        <3>2. y \in B
            BY <3>4, <3>5
        <3>3. d <= k - m
            BY <2>2, <3>2 DEF y
        <3> QED BY <2>3, <3>1, <3>3
    <2> HIDE DEF x
    <2>5. Stops(x)
        BY <2>3, <2>4
    <2>6. n = CHOOSE y \in 2..k : Stops(y)
        BY <1>2 DEF Back
    <2>7. n \in 2..k /\ Stops(n)
        <3> HIDE DEF Stops, n
        <3> QED BY <2>3, <2>5, <2>6
    <2> HIDE DEF n
    <2>8. n \in 1..k
        BY <2>7
    <2> QED BY <2>7, <2>8 DEF n
<1> QED BY <1>1, <1>2

LEMMA PopIs ==
    ASSUME NEW p
    PROVE  /\ Len(p) = 1 => pop_component(p) = p
           /\ LET slash == IF Len(p) = 2 THEN 1 ELSE Back(p, Len(p) - 1, {"/"})
              IN  Len(p) # 1 =>
                     pop_component(p) = Upto(p, IF slash = 1 THEN 1 ELSE Back(p, slash, Names))
BY DEF pop_component, Back

LEMMA PopSays ==
    ASSUME NEW p \in Seq(Chars), Canonical(p)
    PROVE  LET q == pop_component(p)
           IN  /\ Canonical(q) /\ q \in Seq(Chars)
               /\ p = Root => q = p
               /\ p # Root => \E name \in Seq(Chars) : Components(p) = Append(Components(q), name)
<1> DEFINE l == Len(p)
           q == pop_component(p)
           slash == IF l = 2 THEN 1 ELSE Back(p, l - 1, {"/"})
           n == IF slash = 1 THEN 1 ELSE Back(p, slash, Names)
<1>1. /\ l \in Nat \ {0} /\ p[1] = "/" /\ (l = 1 <=> p = Root)
      /\ (p = Root \/ (l > 1 /\ p[l] # "/"))
    BY CanonicalEnds
<1>2. CASE p = Root
    <2>1. q = p
        BY <1>1, <1>2, PopIs
    <2> HIDE DEF q
    <2> QED BY <1>2, <2>1 DEF q
<1>3. CASE p # Root
    <2>1. l > 1 /\ p[l] # "/" /\ l # 1
        BY <1>1, <1>3
    <2>2. q = Upto(p, n)
        BY <2>1, PopIs
    <2>3. slash = l - 1
        <3>1. CASE l = 2
            BY <3>1
        <3>2. CASE l # 2
            <4> DEFINE b == Back(p, l - 1, {"/"})
            <4>1. l - 1 \in Nat \ {0}
                BY <1>1, <2>1
            <4>2. b \in 1..(l - 1) /\ \A m \in (b + 1)..(l - 1) : p[m + 1] \in {"/"}
                <5> DEFINE k == l - 1
                <5>1. k \in Nat \ {0}
                    BY <4>1
                <5> HIDE DEF k
                <5>2. Back(p, k, {"/"}) \in 1..k /\ \A m \in (Back(p, k, {"/"}) + 1)..k : p[m + 1] \in {"/"}
                    BY <5>1, BackIs
                <5> QED BY <5>2 DEF k
            <4> HIDE DEF b
            <4>3. b = l - 1
                <5>1. ASSUME b # l - 1
                      PROVE  FALSE
                    <6>1. l - 1 \in (b + 1)..(l - 1) /\ (l - 1) + 1 = l
                        BY <1>1, <2>1, <4>2, <5>1
                    <6> QED BY <2>1, <4>2, <6>1
                <5> QED BY <5>1
            <4> QED BY <3>2, <4>3 DEF b
        <3> QED BY <3>1, <3>2
    <2> HIDE DEF slash
    <2>4. slash \in Nat \ {0}
        BY <1>1, <2>1, <2>3
    <2>5. /\ n \in 1..slash
          /\ n # 1 => p[n + 1] \notin Names
          /\ \A m \in (n + 1)..slash : p[m + 1] \in Names
        <3>1. CASE slash = 1
            <4>1. n = 1
                BY <3>1
            <4>2. \A m \in (1 + 1)..1 : FALSE
                OBVIOUS
            <4> HIDE DEF n
            <4> QED BY <3>1, <4>1, <4>2
        <3>2. CASE slash # 1
            <4>1. n = Back(p, slash, Names)
                BY <3>2
            <4> HIDE DEF n
            <4> QED BY <2>4, <4>1, BackIs
        <3> QED BY <3>1, <3>2
    <2> HIDE DEF n
    <2>6. "/" \notin Names /\ \A m \in 1..l : p[m] \in Chars
        BY PathsAssumption
    <2> DEFINE k == IF n = 1 THEN 1 ELSE n + 1
    <2>15. l \in Nat /\ l > 1 /\ n \in Nat \ {0} /\ n <= l - 1
        BY <1>1, <2>1, <2>3, <2>5
    <2>16. (n = 1 => k = 1) /\ (n # 1 => k = n + 1)
        OBVIOUS
    <2>7. k \in 1..l /\ n = (IF k = 1 THEN 1 ELSE k - 1)
        <3> HIDE DEF k, l
        <3> QED BY <2>15, <2>16
    <2>8. p[k] = "/"
        <3>1. CASE n = 1
            BY <1>1, <3>1
        <3>2. CASE n # 1
            <4>1. n + 1 \in 1..l /\ p[n + 1] \notin Names /\ k = n + 1
                <5> HIDE DEF k, l
                <5> QED BY <2>5, <2>15, <2>16, <3>2
            <4> QED BY <2>6, <4>1 DEF Chars
        <3> QED BY <3>1, <3>2
    <2>9. \A m \in (k + 1)..l : p[m] # "/"
        <3>1. SUFFICES ASSUME NEW m \in (k + 1)..l
                       PROVE  p[m] # "/"
            OBVIOUS
        <3>2. CASE m >= n + 2
            <4>1. m - 1 \in (n + 1)..slash /\ (m - 1) + 1 = m
                <5> HIDE DEF k, l
                <5> QED BY <2>3, <2>7, <2>15, <3>1, <3>2
            <4> QED BY <2>5, <2>6, <4>1
        <3>3. CASE ~(m >= n + 2)
            <4>1. n = 1 /\ m = 2 /\ 1 \in 1..(l - 1)
                <5> HIDE DEF k, l
                <5> QED BY <2>7, <2>15, <2>16, <3>1, <3>3
            <4>2. ~(p[1] = "/" /\ p[1 + 1] = "/")
                BY <4>1 DEF Canonical, SingleSeparators
            <4> QED BY <1>1, <4>1, <4>2
        <3> QED BY <3>2, <3>3
    <2>10. k \in 1..(l - 1)
        <3>1. k # l
            BY <2>1, <2>8
        <3> QED BY <1>1, <2>7, <3>1
    <2> HIDE DEF k
    <2> DEFINE r == Upto(p, IF k = 1 THEN 1 ELSE k - 1)
               name == SubSeq(p, k + 1, l)
    <2>11. Canonical(r) /\ r \in Seq(Chars) /\ Components(p) = Append(Components(r), name)
        BY <2>8, <2>9, <2>10, CutAtLast
    <2>12. r = q
        BY <2>2, <2>7
    <2>13. name \in Seq(Chars)
        BY <1>1, <2>7, SliceIs
    <2> HIDE DEF r, name, q
    <2>14. \E x \in Seq(Chars) : Components(p) = Append(Components(q), x)
        BY <2>11, <2>12, <2>13
    <2> QED BY <1>3, <2>11, <2>12, <2>14 DEF q
<1> QED BY <1>2, <1>3

(***************************************************************************)
(* Where a list of components leads.                                       *)
(***************************************************************************)
LEMMA FollowIs ==
    ASSUME NEW S, NEW names \in Seq(S), NEW name \in S
    PROVE  /\ Follow(names, name) \in Seq(S)
           /\ name = <<".">> => Follow(names, name) = names
           /\ name = <<".", ".">> =>
                 Follow(names, name) = IF names = <<>> THEN names ELSE Front(names)
           /\ name \notin {<<".">>, <<".", ".">>} => Follow(names, name) = Append(names, name)
<1>1. <<".">> # <<".", ".">>
    OBVIOUS
<1>2. name = <<".">> => Follow(names, name) = names
    BY DEF Follow
<1>3. name = <<".", ".">> => Follow(names, name) = IF names = <<>> THEN names ELSE Front(names)
    BY <1>1 DEF Follow
<1>4. name \notin {<<".">>, <<".", ".">>} => Follow(names, name) = Append(names, name)
    BY DEF Follow
<1>5. names # <<>> => Front(names) \in Seq(S)
    BY DEF Front
<1> QED BY <1>2, <1>3, <1>4, <1>5

IsFollowing(f, b, names) ==
    /\ f[0] = b
    /\ \A n \in 1..Len(names) : f[n] = Follow(f[n - 1], names[n])

LEMMA FollowingGoes ==
    ASSUME NEW S, NEW b \in Seq(S), NEW names \in Seq(S)
    PROVE  \E f \in [0..Len(names) -> Seq(S)] : IsFollowing(f, b, names) /\ FollowAll(b, names) = f[Len(names)]
<1> DEFINE l == Len(names)
           Next_(n, x) == Follow(x, names[n])
           step == [z \in (1..l) \X Seq(S) |-> Next_(z[1], z[2])]
           Is(f) == f = [n \in 0..l |-> IF n = 0 THEN b ELSE Next_(n, f[n - 1])]
           w == CHOOSE g : Is(g)
<1>2. l \in Nat /\ \A n \in 1..l : \A x \in Seq(S) : Next_(n, x) \in Seq(S)
    <2>1. l \in Nat /\ \A n \in 1..l : names[n] \in S
        OBVIOUS
    <2> HIDE DEF l
    <2> QED BY <2>1, FollowIs
<1>7. FollowAll(b, names) = w[l]
    BY DEF FollowAll
<1> HIDE DEF l, Next_
<1>3. step \in [(1..l) \X Seq(S) -> Seq(S)]
    BY <1>2
<1>4. PICK f \in [0..l -> Seq(S)] : IsLoop(f, l, b, step)
    <2> HIDE DEF step
    <2> QED BY <1>2, <1>3, LoopExists
<1>5. \A n \in 0..l : f[n] = IF n = 0 THEN b ELSE Next_(n, f[n - 1])
    <2> SUFFICES ASSUME NEW n \in 0..l, n # 0
                 PROVE  f[n] = Next_(n, f[n - 1])
        BY <1>4 DEF IsLoop
    <2>1. n \in 1..l /\ f[n - 1] \in Seq(S)
        BY <1>2, <1>4
    <2> QED BY <2>1, <1>4 DEF IsLoop
<1>6. Is(f)
    BY <1>4, <1>5
<1>8. Is(w)
    BY <1>6
<1> HIDE DEF w
<1> DEFINE T == {n \in 0..l : w[n] = f[n]}
<1>9. \A n \in 0..l : n \in T
    <2>1. 0 \in T
        BY <1>2, <1>5, <1>8
    <2>2. ASSUME NEW n \in 0..(l - 1), n \in T
          PROVE  n + 1 \in T
        <3>1. n + 1 \in 0..l /\ n + 1 # 0 /\ (n + 1) - 1 = n /\ n \in 0..l /\ w[n] = f[n]
            BY <1>2, <2>2
        <3>2. f[n + 1] = Next_(n + 1, f[n])
            BY <1>5, <3>1
        <3>3. w[n + 1] = Next_(n + 1, w[n])
            BY <1>8, <3>1
        <3> QED BY <3>1, <3>2, <3>3
    <2> HIDE DEF T
    <2> QED BY <1>2, <2>1, <2>2, InductionUpTo
<1>10. w = f
    BY <1>4, <1>8, <1>9
<1>11. w[0] = b /\ \A n \in 1..l : w[n] = Next_(n, w[n - 1])
    BY <1>2, <1>8
<1>12. IsFollowing(f, b, names)
    BY <1>10, <1>11 DEF IsFollowing, Next_, l
<1> QED BY <1>4, <1>7, <1>10, <1>12 DEF l

LEMMA FollowedNone ==
    ASSUME NEW S, NEW b \in Seq(S)
    PROVE  FollowAll(b, <<>>) = b
<1>1. <<>> \in Seq(S) /\ Len(<<>>) = 0
    OBVIOUS
<1>2. PICK f \in [0..0 -> Seq(S)] : IsFollowing(f, b, <<>>) /\ FollowAll(b, <<>>) = f[0]
    BY <1>1, FollowingGoes
<1> QED BY <1>2 DEF IsFollowing

LEMMA FollowedOne ==
    ASSUME NEW S, NEW b \in Seq(S), NEW p \in Seq(S), NEW c \in S
    PROVE  FollowAll(b, Append(p, c)) = Follow(FollowAll(b, p), c)
<1> DEFINE q == Append(p, c)
           l == Len(p)
<1>1. /\ q \in Seq(S) /\ Len(q) = l + 1 /\ q[l + 1] = c /\ l \in Nat
      /\ \A n \in 1..l : q[n] = p[n]
    BY AppendProperties
<1>2. PICK f \in [0..l -> Seq(S)] : IsFollowing(f, b, p) /\ FollowAll(b, p) = f[l]
    BY FollowingGoes
<1>3. PICK g \in [0..(l + 1) -> Seq(S)] : IsFollowing(g, b, q) /\ FollowAll(b, q) = g[l + 1]
    <2>1. \E g \in [0..Len(q) -> Seq(S)] : IsFollowing(g, b, q) /\ FollowAll(b, q) = g[Len(q)]
        BY <1>1, FollowingGoes
    <2> HIDE DEF q, l
    <2> QED BY <1>1, <2>1
<1> HIDE DEF q
<1> DEFINE T == {n \in 0..l : f[n] = g[n]}
<1>4. 0 \in T
    BY <1>1, <1>2, <1>3 DEF IsFollowing
<1>5. ASSUME NEW n \in 0..(l - 1), n \in T
      PROVE  n + 1 \in T
    <2>1. n + 1 \in 1..l /\ n + 1 \in 1..(l + 1) /\ (n + 1) - 1 = n
        BY <1>1
    <2>2. f[n + 1] = Follow(f[n], p[n + 1])
        BY <1>2, <2>1 DEF IsFollowing
    <2>3. g[n + 1] = Follow(g[n], q[n + 1])
        BY <1>1, <1>3, <2>1 DEF IsFollowing
    <2> QED BY <1>1, <1>5, <2>1, <2>2, <2>3
<1> HIDE DEF T
<1>6. \A n \in 0..l : n \in T
    BY <1>1, <1>4, <1>5, InductionUpTo
<1>7. f[l] = g[l]
    BY <1>1, <1>6 DEF T
<1>8. g[l + 1] = Follow(g[l], c)
    <2>1. l + 1 \in 1..(l + 1) /\ (l + 1) - 1 = l
        BY <1>1
    <2> QED BY <1>1, <1>3, <2>1 DEF IsFollowing
<1> QED BY <1>2, <1>3, <1>7, <1>8 DEF q

LEMMA FollowedIs ==
    ASSUME NEW S, NEW b \in Seq(S), NEW names \in Seq(S)
    PROVE  FollowAll(b, names) \in Seq(S)
<1>1. PICK f \in [0..Len(names) -> Seq(S)] : FollowAll(b, names) = f[Len(names)]
    BY FollowingGoes
<1> QED BY <1>1

\* Neither "." nor ".." among the names.
PlainNames(names) == \A n \in 1..Len(names) : names[n] \notin {<<".">>, <<".", ".">>}

LEMMA PlainIs ==
    ASSUME NEW S, NEW p \in Seq(S)
    PROVE  Plain(p) <=> PlainNames(Components(p))
<1> DEFINE c == Components(p)
<1>1. c \in Seq(Seq(S))
    BY CutIs
<1> HIDE DEF c
<1>2. ToSet(c) = {c[i] : i \in 1..Len(c)}
    <2>1. DOMAIN c = 1..Len(c)
        BY <1>1
    <2> QED BY <2>1 DEF ToSet
<1>3. (\A name \in ToSet(c) : name \notin {<<".">>, <<".", ".">>}) <=> PlainNames(c)
    BY <1>2 DEF PlainNames
<1> QED BY <1>3 DEF Plain, c

LEMMA PlainNamesGo ==
    ASSUME NEW S, NEW names \in Seq(S), NEW name \in S, PlainNames(names)
    PROVE  /\ name \notin {<<".">>, <<".", ".">>} => PlainNames(Append(names, name))
           /\ names # <<>> => PlainNames(Front(names))
           /\ names # <<>> => Last(names) # <<".">>
<1>1. \A n \in 1..Len(names) : names[n] \notin {<<".">>, <<".", ".">>}
    BY DEF PlainNames
<1>2. ASSUME name \notin {<<".">>, <<".", ".">>}
      PROVE  PlainNames(Append(names, name))
    <2> DEFINE a == Append(names, name)
    <2>1. /\ Len(a) = Len(names) + 1 /\ a[Len(names) + 1] = name /\ Len(names) \in Nat
          /\ \A i \in 1..Len(names) : a[i] = names[i]
        BY AppendProperties
    <2> HIDE DEF a
    <2>2. \A i \in 1..Len(a) : i \in 1..Len(names) \/ i = Len(names) + 1
        BY <2>1
    <2>3. PlainNames(a)
        BY <1>1, <1>2, <2>1, <2>2 DEF PlainNames
    <2> QED BY <2>3 DEF a
<1>3. ASSUME names # <<>>
      PROVE  PlainNames(Front(names)) /\ Last(names) # <<".">>
    <2>1. Len(names) \in Nat \ {0}
        BY <1>3
    <2> DEFINE f == Upto(names, Len(names) - 1)
    <2>2. Len(names) - 1 \in 0..Len(names)
        BY <2>1
    <2>3. Len(f) = Len(names) - 1 /\ \A i \in 1..(Len(names) - 1) : f[i] = names[i]
        BY <2>2, UptoIs
    <2>4. Front(names) = f
        BY DEF Front, Upto
    <2> HIDE DEF f
    <2>5. \A i \in 1..Len(f) : i \in 1..Len(names) /\ f[i] = names[i]
        BY <2>1, <2>3
    <2>6. PlainNames(f)
        BY <1>1, <2>5 DEF PlainNames
    <2>7. Last(names) # <<".">>
        <3>1. Len(names) \in 1..Len(names)
            BY <2>1
        <3> QED BY <1>1, <3>1 DEF Last
    <2> QED BY <2>4, <2>6, <2>7
<1> QED BY <1>2, <1>3

LEMMA FrontOfAppend ==
    ASSUME NEW S, NEW q \in Seq(S), NEW c \in S
    PROVE  Append(q, c) # <<>> /\ Front(Append(q, c)) = q /\ Last(Append(q, c)) = c
<1> DEFINE a == Append(q, c)
<1>1. a \in Seq(S) /\ Len(a) = Len(q) + 1 /\ Len(q) \in Nat /\ a[Len(q) + 1] = c /\ \A i \in 1..Len(q) : a[i] = q[i]
    BY AppendProperties
<1> HIDE DEF a
<1>2. a # <<>> /\ Last(a) = c
    BY <1>1 DEF Last
<1>3. Front(a) = Upto(a, Len(q))
    BY <1>1 DEF Front, Upto
<1>4. Len(q) \in 0..Len(a)
    BY <1>1
<1>5. Upto(a, Len(q)) \in Seq(S) /\ Len(Upto(a, Len(q))) = Len(q) /\ \A i \in 1..Len(q) : Upto(a, Len(q))[i] = a[i]
    BY <1>1, <1>4, UptoIs
<1> DEFINE u == Upto(a, Len(q))
<1>6. u \in Seq(S) /\ Len(u) = Len(q) /\ \A i \in 1..Len(u) : u[i] = q[i]
    BY <1>1, <1>5
<1> HIDE DEF u
<1>7. u = q
    BY <1>6, SeqEqual
<1> QED BY <1>2, <1>3, <1>7 DEF a, u

(***************************************************************************)
(* One step of the walk of canonicalize.                                   *)
(***************************************************************************)
LEMMA LastOfConcat ==
    ASSUME NEW S, NEW p \in Seq(S), NEW q \in Seq(S), q # <<>>
    PROVE  Last(p \o q) = Last(q)
<1>1. Len(q) \in Nat \ {0}
    OBVIOUS
<1> DEFINE j == p \o q
<1>2. /\ Len(j) = Len(p) + Len(q) /\ Len(p) \in Nat
      /\ \A i \in 1..(Len(p) + Len(q)) : j[i] = IF i <= Len(p) THEN p[i] ELSE q[i - Len(p)]
    BY ConcatProperties
<1> HIDE DEF j
<1>3. Len(j) \in 1..(Len(p) + Len(q)) /\ ~(Len(j) <= Len(p)) /\ Len(j) - Len(p) = Len(q)
    BY <1>1, <1>2
<1>4. j[Len(j)] = q[Len(q)]
    BY <1>2, <1>3
<1> QED BY <1>4 DEF Last, j

LEMMA NameJoined ==
    ASSUME NEW p \in Seq(Chars), Canonical(p), NEW name \in Seq(Chars),
           \A i \in 1..Len(name) : name[i] # "/", join_paths(p, name) # TooLong
    PROVE  LET j == join_paths(p, name)
           IN  /\ j \in Seq(Chars) /\ IsAbsolute(j)
               /\ name = <<>> => Components(j) = Components(p)
               /\ name # <<>> => Canonical(j) /\ Components(j) = Append(Components(p), name)
<1> DEFINE j == join_paths(p, name)
           cp == Components(p)
<1>1. "/" \in Chars /\ p # <<>> /\ IsAbsolute(p) /\ SingleSeparators(p)
    BY CanonicalEnds DEF Canonical
<1>2. SingleSeparators(name) /\ ~IsAbsolute(name)
    <2>1. \A i \in 1..(Len(name) - 1) : i \in 1..Len(name)
        OBVIOUS
    <2>2. name # <<>> => Head(name) = name[1] /\ 1 \in 1..Len(name)
        OBVIOUS
    <2> QED BY <2>1, <2>2 DEF SingleSeparators, IsAbsolute
<1>3. /\ j = Joint(p, name) /\ Joint(p, name) \in Seq(Chars)
      /\ SingleSeparators(Joint(p, name))
      /\ Components(Joint(p, name)) = cp \o Components(name)
      /\ IsAbsolute(Joint(p, name))
    BY <1>1, <1>2, JoinSays
<1>4. cp \in Seq(Seq(Chars))
    BY CutIs
<1>5. Components(name) = IF name = <<>> THEN <<>> ELSE <<name>>
    BY OneName
<1>6. j \in Seq(Chars) /\ SingleSeparators(j) /\ IsAbsolute(j) /\ Components(j) = cp \o Components(name)
    BY <1>3
<1>7. ASSUME name # <<>>
      PROVE  Last(j) # "/"
    <2>1. Last(name) # "/"
        <3>1. Len(name) \in 1..Len(name)
            BY <1>7
        <3> QED BY <3>1 DEF Last
    <2>2. p \o Root \in Seq(Chars)
        BY <1>1 DEF Root
    <2>3. Joint(p, name) = p \o name \/ Joint(p, name) = p \o Root \o name
        BY <1>1, <1>2, JoinIs
    <2>4. Last(p \o name) = Last(name) /\ Last(p \o Root \o name) = Last(name)
        BY <1>7, <2>2, LastOfConcat
    <2> HIDE DEF j
    <2> QED BY <1>3, <2>1, <2>3, <2>4 DEF j
<1> HIDE DEF j, cp
<1>8. CASE name = <<>>
    <2>1. cp \o <<>> = cp
        BY <1>4
    <2> QED BY <1>5, <1>6, <1>8, <2>1 DEF j, cp
<1>9. CASE name # <<>>
    <2>1. cp \o <<name>> = Append(cp, name)
        BY <1>4, AppendIsConcat
    <2>2. Components(j) = Append(cp, name)
        BY <1>5, <1>6, <1>9, <2>1
    <2>3. Canonical(j)
        BY <1>6, <1>7, <1>9 DEF Canonical
    <2> QED BY <1>6, <1>9, <2>2, <2>3 DEF j, cp
<1> QED BY <1>8, <1>9

StartNames(base, user) == IF IsAbsolute(user) THEN <<>> ELSE Components(base)

Walks(user) ==
    [path : Seq(Chars) \cup {TooLong}, cursor : 1..(Len(user) + 1),
     finality : {"NOT_FINAL", "FINAL_NORMAL", "FINAL_SLASH", "FINAL_DOT"}]

\* How far the path of a walk has come, and what its components are.
Follows(base, user, path, cursor) ==
    /\ path \in Seq(Chars) /\ IsAbsolute(path)
    /\ PlainNames(Components(path))
    /\ Components(path) = FollowAll(StartNames(base, user), Components(Upto(user, cursor - 1)))

Good(base, user, s) ==
    s.path # TooLong =>
        /\ Follows(base, user, s.path, s.cursor)
        /\ s.finality = "NOT_FINAL" => Canonical(s.path) /\ AtStart(user, s.cursor)
        /\ s.finality # "NOT_FINAL" => s.cursor = Len(user) + 1

\* What a component does to the path.
Walked(path, name) ==
    CASE name = <<".">> -> path
      [] name = <<".", ".">> -> pop_component(path)
      [] OTHER -> join_paths(path, name)

LEMMA WalkedSays ==
    ASSUME NEW p \in Seq(Chars), Canonical(p), PlainNames(Components(p)), NEW name \in Seq(Chars),
           \A i \in 1..Len(name) : name[i] # "/", Walked(p, name) # TooLong
    PROVE  LET q == Walked(p, name)
           IN  /\ q \in Seq(Chars) /\ IsAbsolute(q) /\ PlainNames(Components(q))
               /\ name # <<>> => Canonical(q) /\ Components(q) = Follow(Components(p), name)
               /\ name = <<>> => Components(q) = Components(p)
<1> DEFINE q == Walked(p, name)
           cp == Components(p)
           cq == Components(q)
<1>1. cp \in Seq(Seq(Chars)) /\ IsAbsolute(p) /\ PlainNames(cp)
    BY CutIs DEF Canonical
<1>2. <<".">> # <<".", ".">> /\ <<>> # <<".">> /\ <<>> # <<".", ".">>
    OBVIOUS
<1>3. CASE name = <<".">>
    <2>1. q = p
        BY <1>3 DEF Walked
    <2>2. Follow(cp, name) = cp
        BY <1>3 DEF Follow
    <2> HIDE DEF q
    <2>3. q \in Seq(Chars) /\ IsAbsolute(q) /\ PlainNames(Components(q)) /\ Canonical(q)
          /\ Components(q) = Follow(cp, name) /\ name # <<>>
        BY <1>1, <1>2, <1>3, <2>1, <2>2
    <2> QED BY <2>3 DEF q
<1>4. CASE name = <<".", ".">>
    <2>1. q = pop_component(p)
        BY <1>2, <1>4 DEF Walked
    <2>2. /\ Canonical(pop_component(p)) /\ pop_component(p) \in Seq(Chars)
          /\ p = Root => pop_component(p) = p
          /\ p # Root => \E n \in Seq(Chars) : cp = Append(Components(pop_component(p)), n)
        BY PopSays
    <2>3. Follow(cp, name) = IF cp = <<>> THEN cp ELSE Front(cp)
        BY <1>2, <1>4 DEF Follow
    <2> HIDE DEF q
    <2>4. Canonical(q) /\ q \in Seq(Chars) /\ IsAbsolute(q) /\ cq \in Seq(Seq(Chars))
        BY <2>1, <2>2, CutIs DEF Canonical
    <2> HIDE DEF cp, cq
    <2>5. cq = Follow(cp, name) /\ PlainNames(cq)
        <3>1. CASE p = Root
            <4>1. q = p /\ cp = <<>>
                BY <2>1, <2>2, <3>1, ComponentsOfRoot DEF cp
            <4> QED BY <1>1, <2>3, <4>1 DEF cp, cq
        <3>2. CASE p # Root
            <4>1. PICK n \in Seq(Chars) : cp = Append(cq, n)
                BY <2>1, <2>2, <3>2 DEF cq
            <4>2. cp # <<>> /\ Front(cp) = cq
                BY <2>4, <4>1, FrontOfAppend
            <4>3. PlainNames(Front(cp))
                BY <1>1, <4>2, PlainNamesGo
            <4> QED BY <2>3, <4>2, <4>3
        <3> QED BY <3>1, <3>2
    <2>6. name # <<>>
        BY <1>2, <1>4
    <2> QED BY <2>4, <2>5, <2>6 DEF q, cp, cq
<1>5. CASE name \notin {<<".">>, <<".", ".">>}
    <2>1. q = join_paths(p, name)
        BY <1>5 DEF Walked
    <2>2. join_paths(p, name) # TooLong
        BY <2>1
    <2>3. /\ join_paths(p, name) \in Seq(Chars) /\ IsAbsolute(join_paths(p, name))
          /\ name = <<>> => Components(join_paths(p, name)) = cp
          /\ name # <<>> => Canonical(join_paths(p, name)) /\ Components(join_paths(p, name)) = Append(cp, name)
        BY <2>2, NameJoined
    <2> HIDE DEF q
    <2>4. /\ q \in Seq(Chars) /\ IsAbsolute(q)
          /\ name = <<>> => cq = cp
          /\ name # <<>> => Canonical(q) /\ cq = Append(cp, name)
        BY <2>1, <2>3
    <2> HIDE DEF cp, cq
    <2>5. Follow(cp, name) = Append(cp, name)
        BY <1>5 DEF Follow
    <2>6. PlainNames(Append(cp, name))
        BY <1>1, <1>5, PlainNamesGo
    <2>7. PlainNames(cq)
        BY <1>1, <2>4, <2>6
    <2> QED BY <2>4, <2>5, <2>7 DEF q, cp, cq
<1> QED BY <1>3, <1>4, <1>5

\* Where a component leads, unless it is too long itself.
Reached(p, name) == IF Len(name) >= NAME_MAX THEN TooLong ELSE Walked(p, name)

\* The states of a step.
LEMMA StepIs ==
    ASSUME NEW user, NEW s
    PROVE  /\ s.finality # "NOT_FINAL" \/ s.path = TooLong => canonicalize_step(user, s) = s
           /\ LET c == next_component(user, s.cursor)
                  t == canonicalize_step(user, s)
              IN  s.finality = "NOT_FINAL" /\ s.path # TooLong =>
                     /\ t = [path |-> Reached(s.path, c.component), cursor |-> c.cursor, finality |-> t.finality]
                     /\ t.finality = IF c.component = <<".">> /\ c.finality # "NOT_FINAL" THEN "FINAL_DOT"
                                     ELSE IF c.component = <<".", ".">> /\ c.finality # "NOT_FINAL" THEN "FINAL_SLASH"
                                     ELSE c.finality
<1> DEFINE c == next_component(user, s.cursor)
           t == canonicalize_step(user, s)
           fin == IF c.component = <<".">> /\ c.finality # "NOT_FINAL" THEN "FINAL_DOT"
                  ELSE IF c.component = <<".", ".">> /\ c.finality # "NOT_FINAL" THEN "FINAL_SLASH"
                  ELSE c.finality
<1>1. s.finality # "NOT_FINAL" \/ s.path = TooLong => t = s
    BY DEF canonicalize_step
<1>2. ASSUME s.finality = "NOT_FINAL", s.path # TooLong
      PROVE  t = [path |-> Reached(s.path, c.component), cursor |-> c.cursor, finality |-> fin]
    <2>1. t = IF Len(c.component) >= NAME_MAX
              THEN [path |-> TooLong, cursor |-> c.cursor, finality |-> c.finality]
              ELSE canonicalize_component(s, c)
        BY <1>2 DEF canonicalize_step
    <2> HIDE DEF c, t
    <2>2. <<".">> # <<".", ".">> /\ ~(Len(<<".">>) >= NAME_MAX) /\ ~(Len(<<".", ".">>) >= NAME_MAX)
        BY PathsAssumption
    <2>6. CASE Len(c.component) >= NAME_MAX
        <3>1. c.component # <<".">> /\ c.component # <<".", ".">>
            BY <2>2, <2>6
        <3>2. t = [path |-> TooLong, cursor |-> c.cursor, finality |-> c.finality]
            BY <2>1, <2>6
        <3>3. Reached(s.path, c.component) = TooLong
            BY <2>6 DEF Reached
        <3> QED BY <3>1, <3>2, <3>3
    <2>3. CASE c.component = <<".">>
        <3>1. t = [path |-> s.path, cursor |-> c.cursor,
                   finality |-> IF c.finality # "NOT_FINAL" THEN "FINAL_DOT" ELSE "NOT_FINAL"]
            BY <2>1, <2>2, <2>3 DEF canonicalize_component
        <3>2. Reached(s.path, c.component) = s.path
            BY <2>2, <2>3 DEF Reached, Walked
        <3> QED BY <2>2, <2>3, <3>1, <3>2
    <2>4. CASE c.component = <<".", ".">>
        <3>1. t = [path |-> pop_component(s.path), cursor |-> c.cursor,
                   finality |-> IF c.finality # "NOT_FINAL" THEN "FINAL_SLASH" ELSE "NOT_FINAL"]
            BY <2>1, <2>2, <2>4 DEF canonicalize_component
        <3>2. Reached(s.path, c.component) = pop_component(s.path)
            BY <2>2, <2>4 DEF Reached, Walked
        <3> QED BY <2>2, <2>4, <3>1, <3>2
    <2>5. CASE c.component # <<".">> /\ c.component # <<".", ".">> /\ ~(Len(c.component) >= NAME_MAX)
        <3>1. t = [path |-> join_paths(s.path, c.component), cursor |-> c.cursor, finality |-> c.finality]
            BY <2>1, <2>5 DEF canonicalize_component
        <3>2. Reached(s.path, c.component) = join_paths(s.path, c.component)
            BY <2>5 DEF Reached, Walked
        <3> QED BY <2>5, <3>1, <3>2
    <2> QED BY <2>3, <2>4, <2>5, <2>6
<1> DEFINE x == Reached(s.path, c.component)
<1> HIDE DEF c, t, fin, x
<1>3. s.finality = "NOT_FINAL" /\ s.path # TooLong => t = [path |-> x, cursor |-> c.cursor, finality |-> fin]
    BY <1>2 DEF x
<1>4. s.finality = "NOT_FINAL" /\ s.path # TooLong => t = [path |-> x, cursor |-> c.cursor, finality |-> t.finality] /\ t.finality = fin
    BY <1>3
<1> QED BY <1>1, <1>4 DEF c, t, fin, x

LEMMA StepSays ==
    ASSUME NEW base \in Seq(Chars), NEW user \in Seq(Chars), NEW s \in Walks(user), Good(base, user, s)
    PROVE  LET t == canonicalize_step(user, s)
           IN  /\ t \in Walks(user) /\ Good(base, user, t)
               /\ s.finality = "NOT_FINAL" /\ s.path # TooLong /\ t.finality = "NOT_FINAL" => t.cursor > s.cursor
               /\ s.finality # "NOT_FINAL" \/ s.path = TooLong => t = s
<1> DEFINE t == canonicalize_step(user, s)
           c == next_component(user, s.cursor)
           b == StartNames(base, user)
           u == Components(Upto(user, s.cursor - 1))
           v == Components(Upto(user, c.cursor - 1))
           name == c.component
           p == s.path
           q == Reached(p, name)
<1>1. /\ s.path \in Seq(Chars) \cup {TooLong} /\ s.cursor \in 1..(Len(user) + 1)
      /\ s.finality \in {"NOT_FINAL", "FINAL_NORMAL", "FINAL_SLASH", "FINAL_DOT"}
    BY DEF Walks
<1>2. CASE s.finality # "NOT_FINAL" \/ s.path = TooLong
    <2>1. t = s
        BY <1>2, StepIs
    <2> HIDE DEF t
    <2> QED BY <1>2, <2>1 DEF t
<1>3. CASE s.finality = "NOT_FINAL" /\ s.path # TooLong
    <2>1. /\ p \in Seq(Chars) /\ Canonical(p) /\ PlainNames(Components(p)) /\ AtStart(user, s.cursor)
          /\ Components(p) = FollowAll(b, u)
        BY <1>3 DEF Good, Follows
    <2>2. /\ name \in Seq(Chars) /\ \A m \in 1..Len(name) : name[m] # "/"
          /\ c.cursor \in s.cursor..(Len(user) + 1)
          /\ c.finality \in {"NOT_FINAL", "FINAL_SLASH", "FINAL_NORMAL"}
          /\ ReadName(user, s.cursor, c) \/ ReadNothing(user, s.cursor, c)
          /\ c.finality = "NOT_FINAL" => ReadName(user, s.cursor, c) /\ c.cursor > s.cursor /\ AtStart(user, c.cursor)
          /\ c.finality # "NOT_FINAL" => c.cursor = Len(user) + 1
        BY <1>1, <2>1, NextComponentSays
    <2>3. /\ t = [path |-> q, cursor |-> c.cursor, finality |-> t.finality]
          /\ t.finality = IF name = <<".">> /\ c.finality # "NOT_FINAL" THEN "FINAL_DOT"
                          ELSE IF name = <<".", ".">> /\ c.finality # "NOT_FINAL" THEN "FINAL_SLASH"
                          ELSE c.finality
        BY <1>3, StepIs
    <2> DEFINE fin == t.finality
    <2>4. /\ fin = "NOT_FINAL" <=> c.finality = "NOT_FINAL"
          /\ fin \in {"NOT_FINAL", "FINAL_NORMAL", "FINAL_SLASH", "FINAL_DOT"}
        BY <2>2, <2>3
    <2>5. c.cursor \in 1..(Len(user) + 1)
        BY <1>1, <2>2
    <2>6. t.path = q /\ t.cursor = c.cursor
        BY <2>3
    <2>7. (name # <<>> /\ v = Append(u, name)) \/ (name = <<>> /\ v = u)
        <3>1. ReadName(user, s.cursor, c) \/ ReadNothing(user, s.cursor, c)
            BY <2>2
        <3> HIDE DEF c
        <3>2. ReadName(user, s.cursor, c) => name # <<>> /\ v = Append(u, name)
            BY DEF ReadName
        <3>3. ReadNothing(user, s.cursor, c) => name = <<>> /\ v = u
            BY DEF ReadNothing
        <3> HIDE DEF name, u, v
        <3> QED BY <3>1, <3>2, <3>3
    <2>8. c.finality = "NOT_FINAL" => name # <<>>
        BY <2>2 DEF ReadName
    <2>9. b \in Seq(Seq(Chars)) /\ u \in Seq(Seq(Chars))
        <3>1. Components(base) \in Seq(Seq(Chars)) /\ <<>> \in Seq(Seq(Chars))
            BY CutIs
        <3>2. Upto(user, s.cursor - 1) \in Seq(Chars)
            <4>1. s.cursor - 1 \in 0..Len(user)
                BY <1>1
            <4> QED BY <4>1, UptoIs
        <3> QED BY <3>1, <3>2, CutIs DEF StartNames
    <2> DEFINE cp == Components(p)
    <2>11. ASSUME q # TooLong
           PROVE  /\ q \in Seq(Chars) /\ IsAbsolute(q) /\ PlainNames(Components(q))
                  /\ name # <<>> => Canonical(q) /\ Components(q) = Follow(cp, name)
                  /\ name = <<>> => Components(q) = cp
        <3>1. q = Walked(p, name)
            BY <2>11 DEF Reached
        <3> QED BY <2>1, <2>2, <2>11, <3>1, WalkedSays
    <2> HIDE DEF p, q, u, v, b, c, t, name, cp
    <2>10. FollowAll(b, Append(u, name)) = Follow(FollowAll(b, u), name)
        BY <2>2, <2>9, FollowedOne
    <2>12. ASSUME q # TooLong
           PROVE  Components(q) = FollowAll(b, v)
        BY <2>1, <2>7, <2>10, <2>11, <2>12 DEF cp
    <2>13. q # TooLong => Follows(base, user, q, c.cursor)
        BY <2>11, <2>12 DEF Follows, b, v
    <2>14. Good(base, user, t)
        BY <2>2, <2>4, <2>6, <2>8, <2>11, <2>13 DEF Good
    <2>15. t \in Walks(user)
        <3>1. q \in Seq(Chars) \cup {TooLong}
            BY <2>11
        <3> QED BY <2>3, <2>4, <2>5, <3>1 DEF Walks
    <2>16. t.finality = "NOT_FINAL" => t.cursor > s.cursor
        BY <2>2, <2>4, <2>6
    <2> QED BY <1>3, <2>14, <2>15, <2>16 DEF t
<1> QED BY <1>1, <1>2, <1>3

(***************************************************************************)
(* The walk.                                                               *)
(***************************************************************************)
GoodWalks(base, user) == {s \in Walks(user) : Good(base, user, s)}

WalkStart(base, user) ==
    [path |-> IF IsAbsolute(user) THEN Root ELSE base, cursor |-> 1, finality |-> "NOT_FINAL"]

LEMMA WalkStarts ==
    ASSUME NEW base \in Seq(Chars), NEW user \in Seq(Chars), Canonical(base), Plain(base)
    PROVE  WalkStart(base, user) \in GoodWalks(base, user)
<1> DEFINE p == IF IsAbsolute(user) THEN Root ELSE base
           b == StartNames(base, user)
<1>1. "/" \in Chars /\ Len(user) \in Nat /\ 1 \in 1..(Len(user) + 1) /\ Upto(user, 0) = <<>> /\ 1 - 1 = 0
    BY UptoAll DEF Chars
<1>2. PlainNames(Components(base))
    BY PlainIs
<1>3. Components(p) = b /\ PlainNames(b)
    <2>1. PlainNames(<<>>)
        BY DEF PlainNames
    <2> QED BY <1>2, <2>1, ComponentsOfRoot DEF StartNames
<1>4. Canonical(p) /\ p \in Seq(Chars)
    <2>1. Canonical(Root) /\ Root \in Seq(Chars)
        BY <1>1 DEF Canonical, Root, IsAbsolute, SingleSeparators
    <2> QED BY <2>1
<1> HIDE DEF p
<1>5. b \in Seq(Seq(Chars))
    <2>1. Components(base) \in Seq(Seq(Chars)) /\ <<>> \in Seq(Seq(Chars))
        BY CutIs
    <2> QED BY <2>1 DEF StartNames
<1>6. FollowAll(b, Components(<<>>)) = b
    <2> HIDE DEF b
    <2> QED BY <1>5, ComponentsOfNone, FollowedNone
<1> DEFINE s == [path |-> p, cursor |-> 1, finality |-> "NOT_FINAL"]
<1>7. s.path = p /\ s.cursor = 1 /\ s.finality = "NOT_FINAL"
    OBVIOUS
<1>8. s \in Walks(user)
    BY <1>1, <1>4 DEF Walks
<1> HIDE DEF s
<1>9. Follows(base, user, p, 1)
    BY <1>1, <1>3, <1>4, <1>6 DEF Follows, Canonical
<1>10. AtStart(user, 1)
    BY <1>1 DEF AtStart
<1>11. Good(base, user, s)
    BY <1>4, <1>7, <1>9, <1>10 DEF Good
<1>12. s \in GoodWalks(base, user)
    BY <1>8, <1>11 DEF GoodWalks
<1> QED BY <1>12 DEF s, p, WalkStart

LEMMA WalkGoes ==
    ASSUME NEW base \in Seq(Chars), NEW user \in Seq(Chars), Canonical(base), Plain(base)
    PROVE  \E f \in [0..(MaxPath + 1) -> GoodWalks(base, user)] :
              /\ f[0] = WalkStart(base, user)
              /\ \A n \in 1..(MaxPath + 1) : f[n] = canonicalize_step(user, f[n - 1])
              /\ canonicalize(base, user) =
                    IF Len(base) >= PATH_MAX THEN TooLong ELSE canonicalize_end(f[MaxPath + 1])
<1> DEFINE l == MaxPath + 1
           G == GoodWalks(base, user)
           b == WalkStart(base, user)
           step == [z \in (1..l) \X G |-> canonicalize_step(user, z[2])]
           Is(f) == f = [n \in 0..l |-> IF n = 0 THEN b ELSE canonicalize_step(user, f[n - 1])]
           w == CHOOSE g : Is(g)
<1>1. b \in G
    BY WalkStarts
<1>2. l \in Nat /\ \A x \in G : canonicalize_step(user, x) \in G
    BY PathsAssumption, StepSays DEF GoodWalks
<1>7. canonicalize(base, user) = IF Len(base) >= PATH_MAX THEN TooLong ELSE canonicalize_end(w[l])
    BY DEF canonicalize, WalkStart
<1> HIDE DEF l, G, b
<1>3. step \in [(1..l) \X G -> G]
    BY <1>2
<1>4. PICK f \in [0..l -> G] : IsLoop(f, l, b, step)
    <2> HIDE DEF step
    <2> QED BY <1>1, <1>2, <1>3, LoopExists
<1>5. \A n \in 0..l : f[n] = IF n = 0 THEN b ELSE canonicalize_step(user, f[n - 1])
    <2> SUFFICES ASSUME NEW n \in 0..l, n # 0
                 PROVE  f[n] = canonicalize_step(user, f[n - 1])
        BY <1>4 DEF IsLoop
    <2>1. n \in 1..l /\ f[n - 1] \in G
        BY <1>2, <1>4
    <2> QED BY <2>1, <1>4 DEF IsLoop
<1>6. Is(f)
    BY <1>4, <1>5
<1>8. Is(w)
    BY <1>6
<1> HIDE DEF w
<1> DEFINE T == {n \in 0..l : w[n] = f[n]}
<1>9. \A n \in 0..l : n \in T
    <2>1. 0 \in T
        BY <1>2, <1>5, <1>8
    <2>2. ASSUME NEW n \in 0..(l - 1), n \in T
          PROVE  n + 1 \in T
        <3>1. n + 1 \in 0..l /\ n + 1 # 0 /\ (n + 1) - 1 = n /\ n \in 0..l /\ w[n] = f[n]
            BY <1>2, <2>2
        <3>2. f[n + 1] = canonicalize_step(user, f[n])
            BY <1>5, <3>1
        <3>3. w[n + 1] = canonicalize_step(user, w[n])
            BY <1>8, <3>1
        <3> QED BY <3>1, <3>2, <3>3
    <2> HIDE DEF T
    <2> QED BY <1>2, <2>1, <2>2, InductionUpTo
<1>10. w = f
    BY <1>4, <1>8, <1>9
<1>11. f[0] = b /\ \A n \in 1..l : f[n] = canonicalize_step(user, f[n - 1])
    BY <1>2, <1>8, <1>10
<1> QED BY <1>4, <1>7, <1>10, <1>11 DEF l, G, b

\* The walk ends: each of its steps reads at least one character.
LEMMA WalkEnds ==
    ASSUME NEW base \in Seq(Chars), NEW user \in Seq(Chars), Len(user) <= MaxPath,
           NEW f \in [0..(MaxPath + 1) -> GoodWalks(base, user)],
           \A n \in 1..(MaxPath + 1) : f[n] = canonicalize_step(user, f[n - 1])
    PROVE  f[MaxPath + 1].finality # "NOT_FINAL" \/ f[MaxPath + 1].path = TooLong
<1> DEFINE m == MaxPath + 1
           On(s) == s.finality = "NOT_FINAL" /\ s.path # TooLong
           T == {n \in 0..m : On(f[n]) => f[n].cursor >= n + 1}
<1>1. m \in Nat /\ m > Len(user) /\ Len(user) \in Nat
    BY PathsAssumption
<1>2. \A n \in 0..m : f[n] \in Walks(user) /\ Good(base, user, f[n]) /\ f[n].cursor \in 1..(Len(user) + 1)
    BY DEF GoodWalks, Walks
<1> HIDE DEF m
<1>3. 0 \in T
    BY <1>1, <1>2
<1>4. ASSUME NEW n \in 0..(m - 1), n \in T
      PROVE  n + 1 \in T
    <2>1. n \in 0..m /\ n + 1 \in 0..m /\ n + 1 \in 1..m /\ (n + 1) - 1 = n /\ n \in Nat
        BY <1>1
    <2> DEFINE s == f[n]
               t == f[n + 1]
    <2>2. t = canonicalize_step(user, s)
        <3>1. f[n + 1] = canonicalize_step(user, f[(n + 1) - 1])
            BY <2>1 DEF m
        <3> QED BY <2>1, <3>1
    <2>3. s \in Walks(user) /\ Good(base, user, s) /\ t.cursor \in 1..(Len(user) + 1) /\ s.cursor \in 1..(Len(user) + 1)
          /\ (On(s) => s.cursor >= n + 1)
        BY <1>2, <1>4, <2>1
    <2> HIDE DEF s, t
    <2>4. /\ On(s) /\ t.finality = "NOT_FINAL" => t.cursor > s.cursor
          /\ ~On(s) => t = s
        BY <2>2, <2>3, StepSays
    <2>5. On(t) => On(s) /\ t.cursor > s.cursor
        BY <2>4
    <2>6. On(t) => t.cursor >= (n + 1) + 1
        <3> HIDE DEF On
        <3> QED BY <1>1, <2>1, <2>3, <2>5
    <2> QED BY <2>1, <2>6 DEF t
<1> HIDE DEF T
<1>5. \A n \in 0..m : n \in T
    BY <1>1, <1>3, <1>4, InductionUpTo
<1>6. m \in T /\ m \in 0..m
    BY <1>1, <1>5
<1>7. On(f[m]) => f[m].cursor >= m + 1
    BY <1>6 DEF T
<1>8. ~On(f[m])
    <2> HIDE DEF On
    <2> QED BY <1>1, <1>2, <1>6, <1>7
<1> QED BY <1>8 DEF m

LEMMA CanonicalizeSays ==
    ASSUME NEW base \in Seq(Chars), NEW user \in Seq(Chars), Len(user) <= MaxPath,
           Canonical(base), Plain(base), canonicalize(base, user) # TooLong
    PROVE  LET out == canonicalize(base, user)
               names == Components(out)
               plain == IF names # <<>> /\ Last(names) = <<".">> THEN Front(names) ELSE names
           IN  IsAbsolute(out) /\ plain = Lexical(base, user)
<1> DEFINE out == canonicalize(base, user)
           m == MaxPath + 1
           names == Components(out)
           plain == IF names # <<>> /\ Last(names) = <<".">> THEN Front(names) ELSE names
           lex == Lexical(base, user)
<1>1. PICK f \in [0..m -> GoodWalks(base, user)] :
          /\ \A n \in 1..m : f[n] = canonicalize_step(user, f[n - 1])
          /\ out = IF Len(base) >= PATH_MAX THEN TooLong ELSE canonicalize_end(f[m])
    BY WalkGoes
<1> DEFINE e == f[m]
           p == e.path
           cp == Components(p)
<1>2. out = canonicalize_end(e)
    BY <1>1
<1>3. e.finality # "NOT_FINAL" \/ e.path = TooLong
    BY <1>1, WalkEnds
<1>4. e \in Walks(user) /\ Good(base, user, e)
    <2>1. m \in 0..m
        BY PathsAssumption
    <2> HIDE DEF m
    <2> QED BY <2>1 DEF GoodWalks
<1>5. p # TooLong
    <2>1. p = TooLong => canonicalize_end(e) = TooLong
        BY DEF canonicalize_end
    <2> QED BY <1>2, <2>1
<1> HIDE DEF e
<1>6. /\ p \in Seq(Chars) /\ IsAbsolute(p) /\ PlainNames(cp)
      /\ cp = FollowAll(StartNames(base, user), Components(Upto(user, e.cursor - 1)))
      /\ e.cursor = Len(user) + 1
    BY <1>3, <1>4, <1>5 DEF Good, Follows
<1>7. cp = lex
    <2>1. e.cursor - 1 = Len(user)
        BY <1>6
    <2>2. Upto(user, e.cursor - 1) = user
        BY <2>1, UptoAll
    <2> QED BY <1>6, <2>2 DEF Lexical, StartNames
<1> DEFINE S == Chars \cup {"."}
<1>8. "/" \in S /\ "." \in S /\ p \in Seq(S) /\ p # <<>> /\ <<>> \in Seq(S) /\ <<".">> \in Seq(S)
    <2>1. \A i \in 1..Len(p) : p[i] \in S
        BY <1>6
    <2>2. p \in Seq(S)
        BY <1>6, <2>1
    <2> QED BY <1>6, <2>2 DEF Chars, IsAbsolute
<1>9. cp \in Seq(Seq(S))
    BY <1>8, CutIs
<1> HIDE DEF S
<1>10. cp # <<>> => Last(cp) # <<".">>
    <2> HIDE DEF cp
    <2> QED BY <1>6, <1>8, <1>9, PlainNamesGo
<1>11. ASSUME NEW r \in Seq(S), out = join_paths(p, r)
       PROVE  names = cp \o Components(r) /\ IsAbsolute(out)
    <2>1. join_paths(p, r) # TooLong
        BY <1>11
    <2>2. /\ join_paths(p, r) = Joint(p, r)
          /\ Components(Joint(p, r)) = cp \o Components(r)
          /\ IsAbsolute(Joint(p, r))
        BY <1>6, <1>8, <2>1, JoinSays
    <2> HIDE DEF out
    <2> QED BY <1>11, <2>2
<1>12. cp \o <<>> = cp /\ cp \o <<<<".">>>> = Append(cp, <<".">>)
    <2> HIDE DEF cp
    <2> QED BY <1>8, <1>9, AppendIsConcat
<1>13. Components(<<".">>) = <<<<".">>>>
    <2>1. Len(<<".">>) = 1 /\ <<".">>[1] = "." /\ <<".">> # <<>>
        OBVIOUS
    <2>2. \A i \in 1..Len(<<".">>) : <<".">>[i] # "/"
        BY <2>1
    <2> QED BY <1>8, <2>1, <2>2, OneName
<1>14. CASE e.finality = "FINAL_DOT"
    <2>1. out = join_paths(p, <<".">>)
        BY <1>2, <1>5, <1>14 DEF canonicalize_end
    <2>2. names = Append(cp, <<".">>) /\ IsAbsolute(out)
        BY <1>8, <1>11, <1>12, <1>13, <2>1
    <2> HIDE DEF names, cp, out
    <2>3. names # <<>> /\ Front(names) = cp /\ Last(names) = <<".">>
        BY <1>8, <1>9, <2>2, FrontOfAppend
    <2>4. plain = lex
        BY <1>7, <2>3
    <2> QED BY <2>2, <2>4 DEF names, out
<1>15. CASE e.finality # "FINAL_DOT"
    <2>1. names = cp /\ IsAbsolute(out)
        <3>1. CASE e.finality = "FINAL_SLASH"
            <4>1. out = join_paths(p, <<>>)
                BY <1>2, <1>5, <3>1 DEF canonicalize_end
            <4> QED BY <1>8, <1>11, <1>12, <4>1, ComponentsOfNone
        <3>2. CASE e.finality # "FINAL_SLASH"
            <4>1. out = p
                BY <1>2, <1>15, <3>2 DEF canonicalize_end
            <4> HIDE DEF out
            <4> QED BY <1>6, <4>1
        <3> QED BY <3>1, <3>2
    <2> HIDE DEF names, cp, out
    <2>2. plain = lex
        BY <1>7, <1>10, <2>1
    <2> QED BY <2>1, <2>2 DEF names, out
<1> QED BY <1>14, <1>15

(***************************************************************************)
(* Where a path given to a system call starts from.                        *)
(***************************************************************************)
StartOf(user, fd, link, cwd) ==
    CASE IsAbsolute(user) -> Root
      [] ~IsAbsolute(user) /\ fd = "fd" -> link
      [] OTHER -> cwd

LEMMA TranslateSays ==
    ASSUME NEW S, "/" \in S, NEW user \in Seq(S), NEW link \in Seq(S), NEW cwd \in Seq(S),
           NEW fd \in {"AT_FDCWD", "fd"}
    PROVE  LET out == translate_path(user, fd, link, cwd)
               start == StartOf(user, fd, link, cwd)
           IN  /\ IsAbsolute(out) => IsAbsolute(start) /\ Components(out) = Components(start) \o Components(user)
               /\ ~IsAbsolute(out) /\ out # TooLong => ~IsAbsolute(user) /\ ~IsAbsolute(start)
<1> DEFINE out == translate_path(user, fd, link, cwd)
           start == StartOf(user, fd, link, cwd)
           from == IF IsAbsolute(user) THEN Root ELSE start_of(fd, link, cwd)
<1>1. Root \in Seq(S) /\ IsAbsolute(Root)
    BY DEF Root, IsAbsolute
<1>2. ~IsAbsolute(TooLong) /\ ~IsAbsolute(NotOpen) /\ ~IsAbsolute(NotDirectory) /\ ~IsAbsolute(CallFailed)
    BY DEF IsAbsolute, TooLong, NotOpen, NotDirectory, CallFailed
<1>3. from = start \/ (~IsAbsolute(from) /\ (from = TooLong \/ (~IsAbsolute(user) /\ ~IsAbsolute(start))))
    <2>1. CASE IsAbsolute(user)
        BY <2>1 DEF StartOf
    <2>2. CASE ~IsAbsolute(user) /\ fd = "AT_FDCWD"
        BY <2>2 DEF StartOf, start_of
    <2>3. CASE ~IsAbsolute(user) /\ fd = "fd"
        <3>1. start = link /\ from = start_of(fd, link, cwd)
            BY <2>3 DEF StartOf
        <3>2. from = IF readlink_proc_pid_fd(link) \in {NotOpen, TooLong} \/ IsAbsolute(readlink_proc_pid_fd(link))
                     THEN readlink_proc_pid_fd(link) ELSE NotDirectory
            BY <2>3, <3>1 DEF start_of
        <3>3. readlink_proc_pid_fd(link) = IF link = CallFailed THEN NotOpen
                                           ELSE IF Len(link) >= PATH_MAX THEN TooLong ELSE link
            BY DEF readlink_proc_pid_fd
        <3> HIDE DEF from, start
        <3> QED BY <1>2, <2>3, <3>1, <3>2, <3>3
    <2> QED BY <2>1, <2>2, <2>3
<1>4. out = IF IsAbsolute(from) THEN join_paths(from, user) ELSE from
    BY DEF translate_path
<1>5. start \in Seq(S)
    BY <1>1 DEF StartOf
<1>6. IsAbsolute(start) => start # <<>>
    BY DEF IsAbsolute
<1>7. IsAbsolute(user) => start = Root
    BY DEF StartOf
<1>9. ASSUME IsAbsolute(start), join_paths(start, user) # TooLong
      PROVE  /\ Components(join_paths(start, user)) = Components(start) \o Components(user)
             /\ IsAbsolute(join_paths(start, user))
    <2> HIDE DEF start
    <2> QED BY <1>5, <1>6, <1>9, JoinSays
<1> HIDE DEF out, start, from
<1>8. IsAbsolute(out) => IsAbsolute(start) /\ Components(out) = Components(start) \o Components(user)
    BY <1>2, <1>3, <1>4, <1>9
<1>10. ~IsAbsolute(out) /\ out # TooLong => ~IsAbsolute(user) /\ ~IsAbsolute(start)
    BY <1>1, <1>2, <1>3, <1>4, <1>7, <1>9
<1> QED BY <1>8, <1>10 DEF out, start

(***************************************************************************)
(* The calls.                                                              *)
(***************************************************************************)
LEMMA StringsAre ==
    /\ "/" \in Chars /\ "0" \notin Chars
    /\ \A p \in Strings : p \in Seq(Chars) /\ Len(p) <= MaxPath
<1>1. "/" \in Chars /\ "0" \notin Chars
    BY PathsAssumption DEF Chars
<1>2. MaxPath \in Nat
    BY PathsAssumption
<1>3. \A n \in Nat : \A p \in [1..n -> Chars] : p \in Seq(Chars) /\ Len(p) = n
    OBVIOUS
<1>4. ASSUME NEW p \in Strings
      PROVE  p \in Seq(Chars) /\ Len(p) <= MaxPath
    <2>1. PICK n \in 0..MaxPath : p \in [1..n -> Chars]
        BY DEF Strings
    <2>2. n \in Nat /\ n <= MaxPath
        BY <1>2
    <2> QED BY <1>3, <2>1, <2>2
<1> QED BY <1>1, <1>4

\* A trial of one helper says nothing about the others.
LEMMA OtherHelpers ==
    /\ trial'.op = "join" /\ JoinExact' => PathsExact'
    /\ trial'.op = "compare" /\ CompareExact' => PathsExact'
    /\ trial'.op = "substitute" /\ SubstituteExact' => PathsExact'
    /\ trial'.op = "chop" /\ ChopExact' => PathsExact'
    /\ trial'.op = "canonicalize" /\ CanonicalizeExact' => PathsExact'
    /\ trial'.op = "translate" /\ TranslateStarts' => PathsExact'
<1>1. trial'.op # "join" => JoinExact'
    BY DEF JoinExact
<1>2. trial'.op # "compare" => CompareExact'
    BY DEF CompareExact
<1>3. trial'.op # "substitute" => SubstituteExact'
    BY DEF SubstituteExact
<1>4. trial'.op # "chop" => ChopExact'
    BY DEF ChopExact
<1>5. trial'.op # "canonicalize" => CanonicalizeExact'
    BY DEF CanonicalizeExact
<1>6. trial'.op # "translate" => TranslateStarts'
    BY DEF TranslateStarts
<1> QED BY <1>1, <1>2, <1>3, <1>4, <1>5, <1>6 DEF PathsExact

LEMMA JoinIsExact == Join => PathsExact'
<1> SUFFICES ASSUME Join
             PROVE  PathsExact'
    OBVIOUS
<1>1. PICK a \in Strings, b \in Strings : Try("join", [a |-> a, b |-> b], join_paths(a, b))
    BY DEF Join
<1> DEFINE out == join_paths(a, b)
<1>2. trial' = [op |-> "join", in |-> [a |-> a, b |-> b], out |-> out]
    BY <1>1 DEF Try
<1>3. a \in Seq(Chars) /\ b \in Seq(Chars) /\ "/" \in Chars
    BY StringsAre
<1>4. ASSUME out # TooLong
      PROVE  /\ Len(out) + 1 < PATH_MAX
             /\ SingleSeparators(a) /\ SingleSeparators(b) => SingleSeparators(out)
             /\ a # <<>> => /\ Components(out) = Components(a) \o Components(b)
                            /\ IsAbsolute(out) <=> IsAbsolute(a)
    BY <1>3, <1>4, JoinSays
<1> HIDE DEF out
<1>5. trial'.op = "join" /\ trial'.in.a = a /\ trial'.in.b = b /\ trial'.out = out
    BY <1>2
<1>6. JoinExact'
    BY <1>4, <1>5 DEF JoinExact
<1> QED BY <1>5, <1>6, OtherHelpers

LEMMA ChopIsExact == Chop => PathsExact'
<1> SUFFICES ASSUME Chop
             PROVE  PathsExact'
    OBVIOUS
<1>1. PICK p \in Strings \ {<<>>, <<".">>} : Try("chop", [a |-> p], chop_finality(p))
    BY DEF Chop
<1> DEFINE out == chop_finality(p)
           names == Components(p)
<1>2. trial' = [op |-> "chop", in |-> [a |-> p], out |-> out]
    BY <1>1 DEF Try
<1>3. p \in Seq(Chars)
    BY StringsAre
<1>4. ASSUME Canonical(p)
      PROVE  /\ names # <<>> /\ EndsWith(Last(names), ".") /\ Last(names) = <<".">>
                => Components(out) = Front(names) /\ Canonical(out)
             /\ ~(names # <<>> /\ EndsWith(Last(names), ".")) => Components(out) = names /\ Canonical(out)
    BY <1>3, <1>4, ChopSays
<1> HIDE DEF out
<1>5. trial'.op = "chop" /\ trial'.in.a = p /\ trial'.out = out
    BY <1>2
<1>6. ChopExact'
    BY <1>4, <1>5 DEF ChopExact
<1> QED BY <1>5, <1>6, OtherHelpers

LEMMA CompareIsExact == Compare => PathsExact'
<1> SUFFICES ASSUME Compare
             PROVE  PathsExact'
    OBVIOUS
<1>1. PICK a \in Strings \ {<<>>}, b \in Strings \ {<<>>} :
          Try("compare", [a |-> a, b |-> b], compare_paths(a, b))
    BY DEF Compare
<1> DEFINE out == compare_paths(a, b)
           ca == Components(a)
           cb == Components(b)
           Says_ == out = CASE ca = cb -> "PATHS_ARE_EQUAL"
                           [] ca # cb /\ IsPrefix(ca, cb) -> "PATH1_IS_PREFIX"
                           [] ca # cb /\ IsPrefix(cb, ca) -> "PATH2_IS_PREFIX"
                           [] OTHER -> "PATHS_ARE_NOT_COMPARABLE"
<1>2. trial' = [op |-> "compare", in |-> [a |-> a, b |-> b], out |-> out]
    BY <1>1 DEF Try
<1>3. a \in Seq(Chars) /\ b \in Seq(Chars) /\ "0" \notin Chars
    BY StringsAre
<1>4. Canonical(a) /\ Canonical(b) => Says_
    BY <1>3, CompareSays
<1> HIDE DEF out
<1>5. trial'.op = "compare" /\ trial'.in.a = a /\ trial'.in.b = b /\ trial'.out = out
    BY <1>2
<1>6. CompareExact'
    BY <1>4, <1>5 DEF CompareExact
<1> QED BY <1>5, <1>6, OtherHelpers

LEMMA SubstituteIsExact == Substitute => PathsExact'
<1> SUFFICES ASSUME Substitute
             PROVE  PathsExact'
    OBVIOUS
<1>1. PICK p \in {s \in Strings : Canonical(s)}, old \in {s \in Strings : Canonical(s)},
           new \in {s \in Strings : Canonical(s)} :
          /\ Under(p, old) /\ old # new
          /\ Try("substitute", [a |-> p, b |-> new, old |-> old], substitute_path_prefix(p, Len(old), new))
    BY DEF Substitute
<1> DEFINE out == substitute_path_prefix(p, Len(old), new)
<1>2. trial' = [op |-> "substitute", in |-> [a |-> p, b |-> new, old |-> old], out |-> out]
    BY <1>1 DEF Try
<1>3. /\ p \in Seq(Chars) /\ old \in Seq(Chars) /\ new \in Seq(Chars)
      /\ Canonical(p) /\ Canonical(old) /\ Canonical(new)
    BY StringsAre
<1>4. \/ /\ Canonical(out)
         /\ Components(out) = Components(new) \o From(Components(p), Len(Components(old)))
      \/ out = p /\ Len(p) + Len(new) >= PATH_MAX
    BY <1>1, <1>3, SubstituteSays
<1> HIDE DEF out
<1>5. /\ trial'.op = "substitute" /\ trial'.in.a = p /\ trial'.in.b = new /\ trial'.in.old = old
      /\ trial'.out = out
    BY <1>2
<1>6. SubstituteExact'
    BY <1>4, <1>5 DEF SubstituteExact
<1> QED BY <1>5, <1>6, OtherHelpers

LEMMA CanonicalizeIsExact == Canonicalize => PathsExact'
<1> SUFFICES ASSUME Canonicalize
             PROVE  PathsExact'
    OBVIOUS
<1>1. PICK base \in {s \in Strings : Canonical(s) /\ Plain(s)}, user \in Strings :
          Try("canonicalize", [a |-> base, b |-> user], canonicalize(base, user))
    BY DEF Canonicalize
<1> DEFINE out == canonicalize(base, user)
           names == Components(out)
           plain == IF names # <<>> /\ Last(names) = <<".">> THEN Front(names) ELSE names
<1>2. trial' = [op |-> "canonicalize", in |-> [a |-> base, b |-> user], out |-> out]
    BY <1>1 DEF Try
<1>3. /\ base \in Seq(Chars) /\ user \in Seq(Chars) /\ Len(user) <= MaxPath
      /\ Canonical(base) /\ Plain(base)
    BY StringsAre
<1>4. out # TooLong => IsAbsolute(out) /\ plain = Lexical(base, user)
    BY <1>3, CanonicalizeSays
<1> HIDE DEF out
<1>5. trial'.op = "canonicalize" /\ trial'.in.a = base /\ trial'.in.b = user /\ trial'.out = out
    BY <1>2
<1>6. CanonicalizeExact'
    BY <1>4, <1>5 DEF CanonicalizeExact
<1> QED BY <1>5, <1>6, OtherHelpers

LEMMA TranslateIsExact == Translate => PathsExact'
<1> SUFFICES ASSUME Translate
             PROVE  PathsExact'
    OBVIOUS
<1>1. PICK user \in Strings, fd \in {"AT_FDCWD", "fd"}, link \in {<<"/", "a">>, <<"a">>, CallFailed},
           tracer \in {Root, <<"/", "a">>, CallFailed}, tracee \in {Root, <<"/", "a">>} :
          Try("translate", [a |-> user, fd |-> fd, link |-> link, tracer |-> tracer, tracee |-> tracee],
              translate_path(user, fd, link, tracer))
    BY DEF Translate
<1> DEFINE out == translate_path(user, fd, link, tracer)
           start == StartOf(user, fd, link, tracer)
           S == Chars \cup {"a", "-errno"}
<1>2. trial' = [op |-> "translate",
                in |-> [a |-> user, fd |-> fd, link |-> link, tracer |-> tracer, tracee |-> tracee], out |-> out]
    BY <1>1 DEF Try
<1>3. /\ user \in Seq(S) /\ link \in Seq(S) /\ tracer \in Seq(S) /\ "/" \in S
    <2>1. user \in Seq(Chars) /\ "/" \in Chars
        BY StringsAre
    <2>2. \A i \in 1..Len(user) : user[i] \in S
        BY <2>1
    <2>3. "/" \in S /\ "a" \in S /\ "-errno" \in S /\ user \in Seq(S)
        BY <2>1, <2>2
    <2> HIDE DEF S
    <2>4. <<"/", "a">> \in Seq(S) /\ <<"a">> \in Seq(S) /\ Root \in Seq(S) /\ CallFailed \in Seq(S)
        BY <2>3 DEF Root, CallFailed
    <2> QED BY <2>3, <2>4
<1> HIDE DEF S
<1>4. /\ IsAbsolute(out) => IsAbsolute(start) /\ Components(out) = Components(start) \o Components(user)
      /\ ~IsAbsolute(out) /\ out # TooLong => ~IsAbsolute(user) /\ ~IsAbsolute(start)
    BY <1>3, TranslateSays
<1> HIDE DEF out
<1>5. /\ trial'.op = "translate" /\ trial'.in.a = user /\ trial'.in.tracer = tracer /\ trial'.in.fd = fd
      /\ trial'.in.link = link /\ trial'.out = out
    BY <1>2
<1>6. TranslateStarts'
    BY <1>4, <1>5 DEF TranslateStarts, StartOf
<1> QED BY <1>5, <1>6, OtherHelpers

\* path.c and canon.c: each helper does to the characters of a path what it
\* means on the list of its components, whatever the alphabet, the paths,
\* PATH_MAX and NAME_MAX.  Of translate_path, which the tracer's working
\* directory and not the tracee's is part of, it says what the code does.
THEOREM PathsExactHolds == PathsSpec => []PathsExact
<1>1. TrialInit => PathsExact
    BY DEF TrialInit, NoTrial, PathsExact, JoinExact, CompareExact, SubstituteExact, ChopExact,
           CanonicalizeExact, TranslateStarts
<1>2. PathsExact /\ [PathsNext]_trial => PathsExact'
    <2>1. ASSUME PathsExact, UNCHANGED trial
          PROVE  PathsExact'
        <3>1. JoinExact'
            BY <2>1 DEF PathsExact, JoinExact
        <3>2. CompareExact'
            BY <2>1 DEF PathsExact, CompareExact
        <3>3. SubstituteExact'
            BY <2>1 DEF PathsExact, SubstituteExact
        <3>4. ChopExact'
            BY <2>1 DEF PathsExact, ChopExact
        <3>5. CanonicalizeExact'
            BY <2>1 DEF PathsExact, CanonicalizeExact
        <3>6. TranslateStarts'
            BY <2>1 DEF PathsExact, TranslateStarts
        <3> QED BY <3>1, <3>2, <3>3, <3>4, <3>5, <3>6 DEF PathsExact
    <2>2. ASSUME PathsNext
          PROVE  PathsExact'
        BY <2>2, JoinIsExact, ChopIsExact, CompareIsExact, SubstituteIsExact, CanonicalizeIsExact,
           TranslateIsExact DEF PathsNext
    <2> QED BY <2>1, <2>2
<1> QED
    BY <1>1, <1>2, PTL DEF PathsSpec

=============================================================================
