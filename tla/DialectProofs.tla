--------------------------- MODULE DialectProofs ----------------------------
(***************************************************************************)
(* Sequences of any length, by induction, what the translation makes of    *)
(* conversations that are sequences, and what of them a target takes.      *)
(***************************************************************************)
EXTENDS DialectForms, WellFoundedInduction, TLAPS

LEMMA Least ==
  ASSUME NEW T, T \subseteq Nat, T # {}
  PROVE  \E n \in T : \A m \in T : n <= m
<1> DEFINE R == {p \in Nat \X Nat : p[1] < p[2]}
<1>1. IsWellFoundedOn(R, Nat)
  BY NatLessThanWellFounded DEF OpToRel
<1>2. PICK n \in T : \A m \in T : ~(<<m, n>> \in R)
  <2> HIDE DEF R
  <2> QED  BY <1>1, WFMin
<1>3. ASSUME NEW m \in T PROVE n <= m
  <2>1. m \in Nat /\ n \in Nat /\ ~(<<m, n>> \in R)
    BY <1>2
  <2>2. <<m, n>> \in Nat \X Nat /\ <<m, n>>[1] = m /\ <<m, n>>[2] = n
    BY <2>1
  <2>3. ~(m < n)
    BY <2>1, <2>2
  <2> QED  BY <2>1, <2>3
<1> QED  BY <1>3

LEMMA Induct ==
  ASSUME NEW S, 0 \in S, \A n \in Nat : n \in S => n + 1 \in S
  PROVE  Nat \subseteq S
<1> SUFFICES ASSUME Nat \ S # {} PROVE FALSE
  OBVIOUS
<1>1. PICK n \in Nat \ S : \A m \in Nat \ S : n <= m
  BY Least
<1>2. n # 0 /\ n - 1 \in Nat /\ n - 1 \notin Nat \ S
  BY <1>1
<1> QED  BY <1>2

-----------------------------------------------------------------------------
LEMMA Sequential ==
  ASSUME NEW S, NEW s \in Seq(S)
  PROVE  IsSeq(s)
<1>1. s \in [1..Len(s) -> {s[i] : i \in DOMAIN s}] /\ Len(s) \in Nat
  OBVIOUS
<1> QED  BY <1>1 DEF IsSeq

LEMMA SeqIs ==
  ASSUME NEW s, IsSeq(s)
  PROVE  /\ Len(s) \in Nat /\ DOMAIN s = 1..Len(s)
         /\ s = [i \in 1..Len(s) |-> s[i]]
  BY DEF IsSeq

LEMMA Listing ==
  ASSUME NEW n \in Nat, NEW s, s = [i \in 1..n |-> s[i]]
  PROVE  IsSeq(s) /\ Len(s) = n
<1>1. s \in [1..n -> {s[i] : i \in DOMAIN s}]
  OBVIOUS
<1>2. s \in Seq({s[i] : i \in DOMAIN s})
  BY <1>1
<1>3. DOMAIN s = 1..n
  OBVIOUS
<1> QED  BY <1>2, <1>3 DEF IsSeq

LEMMA Joined ==
  ASSUME NEW s, NEW t, IsSeq(s), IsSeq(t)
  PROVE  /\ IsSeq(s \o t) /\ Len(s \o t) = Len(s) + Len(t)
         /\ \A i \in 1..Len(s) : (s \o t)[i] = s[i]
         /\ \A i \in 1..Len(t) : (s \o t)[Len(s) + i] = t[i]
         /\ \A i \in 1..Len(s) + Len(t) :
              (s \o t)[i] = IF i <= Len(s) THEN s[i] ELSE t[i - Len(s)]
<1> DEFINE S == {s[i] : i \in DOMAIN s}
           T == {t[i] : i \in DOMAIN t}
<1>1. s \in Seq(S \cup T) /\ t \in Seq(S \cup T)
  <2>1. s \in Seq(S) /\ t \in Seq(T)
    BY DEF IsSeq
  <2> HIDE DEF S, T
  <2> QED  BY <2>1
<1> HIDE DEF S, T
<1>2. s \o t \in Seq(S \cup T)
  BY <1>1
<1>3. IsSeq(s \o t)
  BY <1>2, Sequential
<1> QED  BY <1>1, <1>3

LEMMA Alike ==
  ASSUME NEW s, NEW t, IsSeq(s), IsSeq(t), Len(s) = Len(t),
         \A i \in 1..Len(s) : s[i] = t[i]
  PROVE  s = t
  BY SeqIs

LEMMA Associates ==
  ASSUME NEW s, NEW t, NEW u, IsSeq(s), IsSeq(t), IsSeq(u)
  PROVE  (s \o t) \o u = s \o (t \o u)
<1>1. /\ IsSeq(s \o t) /\ IsSeq(t \o u) /\ Len(s \o t) = Len(s) + Len(t)
      /\ Len(t \o u) = Len(t) + Len(u)
  BY Joined
<1>2. /\ IsSeq((s \o t) \o u) /\ IsSeq(s \o (t \o u))
      /\ Len((s \o t) \o u) = Len(s) + Len(t) + Len(u)
      /\ Len(s \o (t \o u)) = Len(s) + (Len(t) + Len(u))
  BY <1>1, Joined
<1>3. Len(s) \in Nat /\ Len(t) \in Nat /\ Len(u) \in Nat
  BY SeqIs
<1>4. ASSUME NEW i \in 1..Len((s \o t) \o u)
      PROVE  ((s \o t) \o u)[i] = (s \o (t \o u))[i]
  <2>1. i \in 1..Len(s) + Len(t) + Len(u)
    BY <1>2
  <2>2. ((s \o t) \o u)[i] = IF i <= Len(s) + Len(t) THEN (s \o t)[i] ELSE u[i - (Len(s) + Len(t))]
    BY <1>1, <1>3, <2>1, Joined
  <2>3. i <= Len(s) + Len(t) => (s \o t)[i] = IF i <= Len(s) THEN s[i] ELSE t[i - Len(s)]
    BY <1>3, <2>1, Joined
  <2>4. (s \o (t \o u))[i] = IF i <= Len(s) THEN s[i] ELSE (t \o u)[i - Len(s)]
    BY <1>1, <1>3, <2>1, Joined
  <2>5. i > Len(s) => (t \o u)[i - Len(s)]
                        = IF i - Len(s) <= Len(t) THEN t[i - Len(s)] ELSE u[i - Len(s) - Len(t)]
    BY <1>3, <2>1, Joined
  <2> QED  BY <1>3, <2>1, <2>2, <2>3, <2>4, <2>5
<1> QED  BY <1>2, <1>3, <1>4, Alike

LEMMA Empty ==
  /\ IsSeq(<<>>) /\ Len(<<>>) = 0
  /\ \A s : IsSeq(s) => s \o <<>> = s /\ <<>> \o s = s /\ (s = <<>> <=> Len(s) = 0)
<1>1. IsSeq(<<>>) /\ Len(<<>>) = 0
  <2>1. <<>> \in Seq({}) /\ Len(<<>>) = 0
    OBVIOUS
  <2> QED  BY <2>1, Sequential
<1>2. ASSUME NEW s, IsSeq(s) PROVE s \o <<>> = s /\ <<>> \o s = s /\ (s = <<>> <=> Len(s) = 0)
  BY <1>2 DEF IsSeq
<1> QED  BY <1>1, <1>2

LEMMA One ==
  ASSUME NEW x
  PROVE  IsSeq(<<x>>) /\ Len(<<x>>) = 1 /\ <<x>>[1] = x
<1>1. <<x>> \in Seq({x})
  OBVIOUS
<1> QED  BY <1>1, Sequential

LEMMA Appended ==
  ASSUME NEW s, IsSeq(s), NEW x
  PROVE  Append(s, x) = s \o <<x>> /\ IsSeq(Append(s, x))
<1> DEFINE S == {s[i] : i \in DOMAIN s} \cup {x}
<1>1. s \in Seq(S)
  <2>1. s \in Seq({s[i] : i \in DOMAIN s})
    BY DEF IsSeq
  <2> QED  BY <2>1
<1>2. x \in S
  OBVIOUS
<1> HIDE DEF S
<1>3. Append(s, x) = s \o <<x>> /\ Append(s, x) \in Seq(S)
  BY <1>1, <1>2
<1> QED  BY <1>3, Sequential

LEMMA ButLast ==
  ASSUME NEW s, IsSeq(s), s # <<>>
  PROVE  /\ IsSeq(Front(s)) /\ s = Front(s) \o <<Last(s)>>
         /\ Len(s) \in Nat \ {0} /\ Len(Front(s)) = Len(s) - 1
         /\ Last(s) = s[Len(s)] /\ \A i \in 1..Len(s) - 1 : Front(s)[i] = s[i]
<1>1. Len(s) \in Nat \ {0} /\ Last(s) = s[Len(s)]
  BY SeqIs, Empty DEF Last
<1>2. Front(s) = [i \in 1..Len(s) - 1 |-> s[i]]
  <2>1. Front(s) = SubSeq(s, 1, Len(s) - 1)
    BY DEF Front
  <2> QED  BY <1>1, <2>1 DEF IsSeq
<1>3. IsSeq(Front(s)) /\ Len(Front(s)) = Len(s) - 1
  <2> DEFINE f == [i \in 1..Len(s) - 1 |-> s[i]]
             n == Len(s) - 1
  <2>1. n \in Nat /\ f = [i \in 1..n |-> f[i]]
    BY <1>1
  <2> HIDE DEF f, n
  <2>2. IsSeq(f) /\ Len(f) = n
    BY <2>1, Listing
  <2> QED  BY <1>2, <2>2 DEF f, n
<1>4. \A i \in 1..Len(s) - 1 : Front(s)[i] = s[i]
  BY <1>2
<1>5. s = Front(s) \o <<Last(s)>>
  <2>1. /\ IsSeq(Front(s) \o <<Last(s)>>) /\ Len(Front(s) \o <<Last(s)>>) = Len(s) - 1 + 1
        /\ \A i \in 1..Len(s) - 1 + 1 : (Front(s) \o <<Last(s)>>)[i]
             = IF i <= Len(s) - 1 THEN Front(s)[i] ELSE <<Last(s)>>[i - (Len(s) - 1)]
    BY <1>3, One, Joined
  <2>2. \A i \in 1..Len(s) : (Front(s) \o <<Last(s)>>)[i] = s[i]
    <3> TAKE i \in 1..Len(s)
    <3>1. CASE i = Len(s)
      BY <1>1, <2>1, <3>1
    <3>2. CASE i # Len(s)
      BY <1>1, <1>4, <2>1, <3>2
    <3> QED  BY <3>1, <3>2
  <2>3. Len(Front(s) \o <<Last(s)>>) = Len(s) /\ IsSeq(Front(s) \o <<Last(s)>>)
    BY <1>1, <2>1
  <2> QED  BY <2>2, <2>3, Alike
<1> QED  BY <1>1, <1>3, <1>4, <1>5

Lists(ss) == IsSeq(ss) /\ \A i \in 1..Len(ss) : IsSeq(ss[i])

LEMMA PrefixesExist ==
  ASSUME NEW s, NEW n \in Nat
  PROVE  \E f : f = [i \in 1..n |-> IF i = 1 THEN s[i] ELSE f[i - 1] \o s[i]]
<1> DEFINE S == {k \in Nat : \E f : f = [i \in 1..k |-> IF i = 1 THEN s[i]
                                                         ELSE f[i - 1] \o s[i]]}
<1>1. 0 \in S
  <2> DEFINE f == [i \in 1..0 |-> s[i]]
  <2>1. f = [i \in 1..0 |-> IF i = 1 THEN s[i] ELSE f[i - 1] \o s[i]]
    OBVIOUS
  <2> QED  BY <2>1
<1>2. ASSUME NEW k \in Nat, k \in S PROVE k + 1 \in S
  <2>1. PICK f : f = [i \in 1..k |-> IF i = 1 THEN s[i] ELSE f[i - 1] \o s[i]]
    BY <1>2
  <2>2. PICK g : g = [i \in 1..k + 1 |->
                        IF i = k + 1 THEN (IF i = 1 THEN s[i] ELSE f[i - 1] \o s[i])
                          ELSE f[i]]
    OBVIOUS
  <2>3. ASSUME NEW i \in 1..k + 1
        PROVE  g[i] = IF i = 1 THEN s[i] ELSE g[i - 1] \o s[i]
    <3>1. i # 1 => g[i - 1] = f[i - 1]
      BY <2>2
    <3>2. CASE i = k + 1
      BY <2>2, <3>1, <3>2
    <3>3. CASE i # k + 1
      <4>1. i \in 1..k
        BY <3>3
      <4> QED  BY <2>1, <2>2, <3>1, <3>3, <4>1
    <3> QED  BY <3>2, <3>3
  <2>4. g = [i \in 1..k + 1 |-> IF i = 1 THEN s[i] ELSE g[i - 1] \o s[i]]
    BY <2>2, <2>3
  <2>5. \E h : h = [i \in 1..k + 1 |-> IF i = 1 THEN s[i] ELSE h[i - 1] \o s[i]]
    BY <2>4
  <2>6. k + 1 \in Nat
    OBVIOUS
  <2> QED  BY <2>5, <2>6, Zenon
<1> HIDE DEF S
<1>3. n \in S
  BY <1>1, <1>2, Induct
<1> QED  BY <1>3 DEF S

LEMMA Prefixed ==
  ASSUME NEW ss, Len(ss) \in Nat \ {0}
  PROVE  \E f : /\ f = [i \in 1..Len(ss) |-> IF i = 1 THEN ss[i] ELSE f[i - 1] \o ss[i]]
                /\ Concat(ss) = f[Len(ss)]
<1> DEFINE f == CHOOSE f : f = [i \in 1..Len(ss) |-> IF i = 1 THEN ss[i] ELSE f[i - 1] \o ss[i]]
<1>1. Concat(ss) = f[Len(ss)]
  BY DEF Concat, FlattenSeq
<1>2. \E g : g = [i \in 1..Len(ss) |-> IF i = 1 THEN ss[i] ELSE g[i - 1] \o ss[i]]
  BY PrefixesExist
<1>3. f = [i \in 1..Len(ss) |-> IF i = 1 THEN ss[i] ELSE f[i - 1] \o ss[i]]
  BY <1>2, Zenon
<1> QED  BY <1>1, <1>3

LEMMA NoLists == Concat(<<>>) = <<>>
  BY Empty DEF Concat, FlattenSeq

LEMMA ConcatIs ==
  ASSUME NEW ss, Lists(ss), NEW f, f[0] = <<>>,
         \A k \in 1..Len(ss) : f[k] = f[k - 1] \o ss[k]
  PROVE  Concat(ss) = f[Len(ss)] /\ \A k \in 0..Len(ss) : IsSeq(f[k])
<1>1. IsSeq(ss) /\ Len(ss) \in Nat
  BY SeqIs DEF Lists
<1>2. \A k \in 0..Len(ss) : IsSeq(f[k])
  <2> DEFINE S == {k \in Nat : k <= Len(ss) => IsSeq(f[k])}
  <2>1. 0 \in S
    BY Empty
  <2>2. ASSUME NEW k \in Nat, k \in S PROVE k + 1 \in S
    <3> SUFFICES ASSUME k + 1 <= Len(ss) PROVE IsSeq(f[k + 1])
      OBVIOUS
    <3>1. IsSeq(f[k]) /\ k + 1 \in 1..Len(ss) /\ k + 1 - 1 = k
      BY <1>1, <2>2
    <3>2. PICK j \in 1..Len(ss) : j = k + 1 /\ j - 1 = k
      BY <3>1
    <3>3. f[k + 1] = f[k] \o ss[j] /\ IsSeq(ss[j])
      BY <3>2 DEF Lists
    <3> QED  BY <3>1, <3>2, <3>3, Joined
  <2> HIDE DEF S
  <2>3. Nat \subseteq S
    BY <2>1, <2>2, Induct
  <2> QED  BY <1>1, <2>3 DEF S
<1>3. CASE Len(ss) = 0
  BY <1>1, <1>3, Empty, NoLists
<1>4. CASE Len(ss) # 0
  <2>1. PICK g : /\ g = [i \in 1..Len(ss) |-> IF i = 1 THEN ss[i] ELSE g[i - 1] \o ss[i]]
                 /\ Concat(ss) = g[Len(ss)]
    BY <1>1, <1>4, Prefixed
  <2> DEFINE S == {k \in Nat : k \in 1..Len(ss) => g[k] = f[k]}
  <2>2. 0 \in S
    OBVIOUS
  <2>3. ASSUME NEW k \in Nat, k \in S PROVE k + 1 \in S
    <3> SUFFICES ASSUME k + 1 \in 1..Len(ss) PROVE g[k + 1] = f[k + 1]
      OBVIOUS
    <3>1. PICK j \in 1..Len(ss) : j = k + 1 /\ j - 1 = k
      OBVIOUS
    <3>2. f[j] = f[k] \o ss[j] /\ IsSeq(ss[j])
      BY <3>1 DEF Lists
    <3>3. g[j] = IF j = 1 THEN ss[j] ELSE g[j - 1] \o ss[j]
      BY <2>1
    <3>4. CASE k = 0
      <4>1. f[j] = ss[j]
        BY <3>2, <3>4, Empty
      <4> QED  BY <3>1, <3>3, <3>4, <4>1
    <3>5. CASE k # 0
      <4>1. g[k] = f[k]
        BY <1>1, <2>3, <3>5
      <4>2. j # 1
        BY <3>1, <3>5
      <4>3. g[j] = g[k] \o ss[j]
        BY <3>1, <3>3, <4>2
      <4> QED  BY <3>1, <3>2, <4>1, <4>3
    <3> QED  BY <3>4, <3>5
  <2> HIDE DEF S
  <2>4. Len(ss) \in S
    BY <1>1, <2>2, <2>3, Induct
  <2>5. Len(ss) \in 1..Len(ss)
    BY <1>1, <1>4
  <2>6. g[Len(ss)] = f[Len(ss)]
    BY <2>4, <2>5 DEF S
  <2> QED  BY <1>2, <2>1, <2>6
<1> QED  BY <1>3, <1>4

LEMMA Grown ==
  ASSUME NEW ss, Lists(ss)
  PROVE  \E f : /\ f[0] = <<>> /\ \A k \in 1..Len(ss) : f[k] = f[k - 1] \o ss[k]
                /\ Concat(ss) = f[Len(ss)]
                /\ \A k \in 0..Len(ss) : IsSeq(f[k])
<1>1. IsSeq(ss) /\ Len(ss) \in Nat
  BY SeqIs DEF Lists
<1>2. PICK g : g = [i \in 1..Len(ss) |-> IF i = 1 THEN ss[i] ELSE g[i - 1] \o ss[i]]
  BY <1>1, PrefixesExist
<1> DEFINE f == [k \in 0..Len(ss) |-> IF k = 0 THEN <<>> ELSE g[k]]
<1>3. f[0] = <<>>
  BY <1>1
<1>4. ASSUME NEW k \in 1..Len(ss) PROVE f[k] = f[k - 1] \o ss[k]
  <2>1. CASE k = 1
    <3>1. f[k] = ss[k] /\ f[k - 1] = <<>>
      BY <1>1, <1>2, <2>1
    <3>2. IsSeq(ss[k])
      BY DEF Lists
    <3> HIDE DEF f
    <3> QED  BY <3>1, <3>2, Empty
  <2>2. CASE k # 1
    <3>1. k - 1 \in 1..Len(ss) /\ k \in 0..Len(ss) /\ k - 1 \in 0..Len(ss) /\ k # 0
      BY <1>1, <2>2
    <3>2. f[k] = g[k] /\ f[k - 1] = g[k - 1]
      BY <3>1
    <3>3. g[k] = g[k - 1] \o ss[k]
      BY <1>2, <2>2
    <3> HIDE DEF f
    <3> QED  BY <3>2, <3>3
  <2> QED  BY <2>1, <2>2
<1> HIDE DEF f
<1> QED  BY <1>3, <1>4, ConcatIs

LEMMA ConcatSeq ==
  ASSUME NEW ss, Lists(ss)
  PROVE  IsSeq(Concat(ss))
<1>1. IsSeq(ss) /\ Len(ss) \in Nat
  BY SeqIs DEF Lists
<1>2. PICK f : Concat(ss) = f[Len(ss)] /\ \A k \in 0..Len(ss) : IsSeq(f[k])
  BY Grown
<1>3. Len(ss) \in 0..Len(ss)
  BY <1>1
<1> QED  BY <1>2, <1>3

LEMMA ListsJoined ==
  ASSUME NEW ss, NEW tt, Lists(ss), Lists(tt)
  PROVE  Lists(ss \o tt)
<1>1. IsSeq(ss) /\ IsSeq(tt) /\ Len(ss) \in Nat /\ Len(tt) \in Nat
  BY SeqIs DEF Lists
<1> QED  BY <1>1, Joined DEF Lists

LEMMA ConcatJoin ==
  ASSUME NEW ss, NEW tt, Lists(ss), Lists(tt)
  PROVE  Concat(ss \o tt) = Concat(ss) \o Concat(tt)
<1>1. IsSeq(ss) /\ IsSeq(tt) /\ Len(ss) \in Nat /\ Len(tt) \in Nat
  BY SeqIs DEF Lists
<1>0. \A x, y, z : IsSeq(x) /\ IsSeq(y) /\ IsSeq(z) => (x \o y) \o z = x \o (y \o z)
  <2> TAKE x, y, z
  <2> HAVE IsSeq(x) /\ IsSeq(y) /\ IsSeq(z)
  <2> QED  BY Associates, SMTT(20)
<1> SUFFICES ASSUME NEW m \in Nat, NEW n \in Nat, m = Len(ss), n = Len(tt)
             PROVE  Concat(ss \o tt) = Concat(ss) \o Concat(tt)
  BY <1>1
<1>2. PICK f : /\ f[0] = <<>> /\ \A k \in 1..m : f[k] = f[k - 1] \o ss[k]
               /\ Concat(ss) = f[m] /\ \A k \in 0..m : IsSeq(f[k])
  BY Grown
<1>3. PICK g : /\ g[0] = <<>> /\ \A k \in 1..n : g[k] = g[k - 1] \o tt[k]
               /\ Concat(tt) = g[n] /\ \A k \in 0..n : IsSeq(g[k])
  BY Grown
<1>4. PICK uu : uu = ss \o tt
  OBVIOUS
<1>5. Lists(uu) /\ Len(uu) = m + n
  BY <1>1, <1>4, Joined, ListsJoined
<1>6. (\A i \in 1..m : uu[i] = ss[i]) /\ (\A i \in 1..n : uu[m + i] = tt[i])
  BY <1>1, <1>4, Joined
<1>7. PICK a : a = f[m] /\ IsSeq(a)
  BY <1>2
<1>8. \A i \in 1..n : IsSeq(tt[i])
  BY DEF Lists
<1>9. PICK h : h = [k \in 0..m + n |-> IF k <= m THEN f[k] ELSE a \o g[k - m]]
  OBVIOUS
<1>10. \A k \in 0..m : h[k] = f[k]
  BY <1>9
<1>11. ASSUME NEW k \in 0..n PROVE h[m + k] = a \o g[k]
  <2>1. m + k \in 0..m + n /\ m + k - m = k /\ (m + k <= m <=> k = 0)
    OBVIOUS
  <2>2. CASE k = 0
    <3>1. m + k = m /\ m \in 0..m
      BY <2>2
    <3>2. h[m + k] = a
      BY <1>7, <1>10, <3>1
    <3>3. a \o g[k] = a
      BY <1>3, <1>7, <2>2, Empty
    <3> QED  BY <3>2, <3>3
  <2>3. CASE k # 0
    <3>1. h[m + k] = IF m + k <= m THEN f[m + k] ELSE a \o g[m + k - m]
      BY <1>9, <2>1
    <3> QED  BY <2>1, <2>3, <3>1
  <2> QED  BY <2>2, <2>3
<1>12. ASSUME NEW k \in 1..m + n PROVE h[k] = h[k - 1] \o uu[k]
  <2>1. CASE k <= m
    <3>1. k \in 1..m /\ k \in 0..m /\ k - 1 \in 0..m
      BY <2>1
    <3>2. f[k] = f[k - 1] \o ss[k]
      BY <1>2, <3>1
    <3>3. h[k] = f[k] /\ h[k - 1] = f[k - 1] /\ uu[k] = ss[k]
      BY <1>6, <1>10, <3>1
    <3> QED  BY <3>2, <3>3
  <2>2. CASE k > m
    <3>1. PICK j \in 1..n : k = m + j /\ k - 1 = m + (j - 1) /\ j - 1 \in 0..n /\ j \in 0..n
      <4>1. k - m \in 1..n /\ k = m + (k - m) /\ k - 1 = m + (k - m - 1) /\ k - m - 1 \in 0..n
            /\ k - m \in 0..n
        BY <2>2
      <4> QED  BY <4>1
    <3>2. h[k] = a \o g[j]
      BY <1>11, <3>1
    <3>3. h[k - 1] = a \o g[j - 1] /\ uu[k] = tt[j]
      BY <1>6, <1>11, <3>1
    <3>4. PICK b, c : b = g[j - 1] /\ c = tt[j] /\ IsSeq(b) /\ IsSeq(c) /\ g[j] = b \o c
      BY <1>3, <1>8, <3>1
    <3>5. (a \o b) \o c = a \o (b \o c)
      <4>1. IsSeq(a) /\ IsSeq(b) /\ IsSeq(c)
        BY <1>7, <3>4
      <4> QED  BY <1>0, <4>1, SMTT(40)
    <3> QED  BY <3>2, <3>3, <3>4, <3>5
  <2>3. k <= m \/ k > m
    OBVIOUS
  <2> QED  BY <2>1, <2>2, <2>3
<1>13. h[0] = <<>> /\ h[m + n] = a \o g[n]
  BY <1>2, <1>10, <1>11
<1>14. Concat(uu) = h[m + n]
  BY <1>5, <1>12, <1>13, ConcatIs
<1> QED  BY <1>2, <1>3, <1>4, <1>7, <1>13, <1>14

LEMMA ConcatOne ==
  ASSUME NEW s, IsSeq(s)
  PROVE  Lists(<<s>>) /\ Concat(<<s>>) = s
<1>1. Lists(<<s>>)
  BY One DEF Lists
<1>2. PICK f : f = [k \in 0..1 |-> IF k = 0 THEN <<>> ELSE s]
  OBVIOUS
<1>3. f[0] = <<>> /\ f[1] = s
  BY <1>2
<1>4. f[1] = f[0] \o s
  BY <1>3, Empty
<1>5. \A k \in 1..Len(<<s>>) : f[k] = f[k - 1] \o <<s>>[k]
  <2>1. \A k \in 1..1 : k = 1 /\ k - 1 = 0
    OBVIOUS
  <2> QED  BY <1>4, <2>1, One
<1>6. Concat(<<s>>) = f[Len(<<s>>)]
  BY <1>1, <1>3, <1>5, ConcatIs
<1> QED  BY <1>1, <1>3, <1>6, One

-----------------------------------------------------------------------------
(* A sequence whose items are computed from those of another.              *)
LEMMA Imaged ==
  ASSUME NEW s, IsSeq(s), NEW t, DOMAIN t = DOMAIN s, t = [i \in DOMAIN t |-> t[i]]
  PROVE  IsSeq(t) /\ Len(t) = Len(s) /\ DOMAIN t = 1..Len(s)
<1>1. Len(s) \in Nat /\ DOMAIN s = 1..Len(s)
  BY SeqIs
<1>2. t = [i \in 1..Len(s) |-> t[i]]
  BY <1>1
<1> QED  BY <1>1, <1>2, Listing

LEMMA JoinedItems ==
  ASSUME NEW s, NEW t, IsSeq(s), IsSeq(t), NEW T,
         \A i \in 1..Len(s) : s[i] \in T, \A i \in 1..Len(t) : t[i] \in T
  PROVE  \A i \in 1..Len(s \o t) : (s \o t)[i] \in T
<1>1. Len(s) \in Nat /\ Len(t) \in Nat
  BY SeqIs
<1>2. PICK u : u = s \o t
  OBVIOUS
<1>3. Len(u) = Len(s) + Len(t)
  BY <1>2, Joined
<1>4. \A i \in 1..Len(s) + Len(t) : u[i] = IF i <= Len(s) THEN s[i] ELSE t[i - Len(s)]
  BY <1>2, Joined
<1>5. ASSUME NEW i \in 1..Len(u) PROVE u[i] \in T
  <2>1. CASE i <= Len(s)
    <3>1. i \in 1..Len(s) /\ u[i] = s[i]
      BY <1>1, <1>3, <1>4, <2>1
    <3> QED  BY <3>1
  <2>2. CASE ~(i <= Len(s))
    <3>1. i - Len(s) \in 1..Len(t) /\ u[i] = t[i - Len(s)]
      BY <1>1, <1>3, <1>4, <2>2
    <3> QED  BY <3>1
  <2> QED  BY <2>1, <2>2
<1> QED  BY <1>2, <1>5

(* A chain of sequences, each item of which is in some member's.           *)
LEMMA Gathered ==
  ASSUME NEW ss, Lists(ss), NEW T,
         \A i \in 1..Len(ss) : \A j \in 1..Len(ss[i]) : ss[i][j] \in T
  PROVE  \A j \in 1..Len(Concat(ss)) : Concat(ss)[j] \in T
<1>1. IsSeq(ss) /\ Len(ss) \in Nat
  BY SeqIs DEF Lists
<1>2. PICK f : /\ f[0] = <<>> /\ \A k \in 1..Len(ss) : f[k] = f[k - 1] \o ss[k]
               /\ Concat(ss) = f[Len(ss)] /\ \A k \in 0..Len(ss) : IsSeq(f[k])
  BY Grown
<1> DEFINE S == {k \in Nat : k <= Len(ss) => \A j \in 1..Len(f[k]) : f[k][j] \in T}
<1>3. 0 \in S
  BY <1>2, Empty
<1>4. ASSUME NEW k \in Nat, k \in S PROVE k + 1 \in S
  <2> SUFFICES ASSUME k + 1 <= Len(ss), NEW j \in 1..Len(f[k + 1]) PROVE f[k + 1][j] \in T
    OBVIOUS
  <2>1. PICK n \in 1..Len(ss) : n = k + 1 /\ n - 1 = k
    BY <1>1
  <2>2. PICK a, b : a = f[k] /\ b = ss[n] /\ IsSeq(a) /\ IsSeq(b) /\ f[n] = a \o b
    <3>1. k \in 0..Len(ss)
      BY <1>1
    <3> QED  BY <1>2, <2>1, <3>1 DEF Lists
  <2>3. \A i \in 1..Len(a) : a[i] \in T
    BY <1>1, <1>4, <2>2
  <2>4. \A i \in 1..Len(b) : b[i] \in T
    BY <2>2
  <2>5. IsSeq(a) /\ IsSeq(b)
    BY <2>2
  <2>6. \A i \in 1..Len(a \o b) : (a \o b)[i] \in T
    BY <2>3, <2>4, <2>5, JoinedItems
  <2>7. j \in 1..Len(a \o b) /\ f[k + 1] = a \o b
    BY <2>1, <2>2
  <2> QED  BY <2>6, <2>7
<1> HIDE DEF S
<1>5. Len(ss) \in S
  BY <1>1, <1>3, <1>4, Induct
<1> QED  BY <1>1, <1>2, <1>5 DEF S

-----------------------------------------------------------------------------
(* The items at some of the places of a sequence, in its order.            *)
AtPlaces(s, K) == [i \in DOMAIN s |-> IF i \in K THEN <<s[i]>> ELSE <<>>]
Picked(s, K) == Concat(AtPlaces(s, K))

LEMMA PickedLists ==
  ASSUME NEW s, IsSeq(s), NEW K
  PROVE  /\ Lists(AtPlaces(s, K)) /\ Len(AtPlaces(s, K)) = Len(s)
         /\ \A i \in 1..Len(s) : AtPlaces(s, K)[i] = IF i \in K THEN <<s[i]>> ELSE <<>>
<1>1. Len(s) \in Nat /\ DOMAIN s = 1..Len(s)
  BY SeqIs
<1>2. PICK t : t = AtPlaces(s, K)
  OBVIOUS
<1>3. \A i \in 1..Len(s) : t[i] = IF i \in K THEN <<s[i]>> ELSE <<>>
  BY <1>1, <1>2 DEF AtPlaces
<1>4. IsSeq(t) /\ Len(t) = Len(s)
  BY <1>1, <1>2, Listing DEF AtPlaces
<1>5. \A i \in 1..Len(s) : IsSeq(t[i])
  BY <1>3, One, Empty
<1> QED  BY <1>2, <1>3, <1>4, <1>5 DEF Lists

LEMMA PickedFrom ==
  ASSUME NEW s, IsSeq(s), NEW K
  PROVE  /\ IsSeq(Picked(s, K))
         /\ \A j \in 1..Len(Picked(s, K)) : \E i \in K \cap 1..Len(s) : Picked(s, K)[j] = s[i]
<1> DEFINE ss == AtPlaces(s, K)
           T == {s[i] : i \in K \cap 1..Len(s)}
<1>1. /\ Lists(ss) /\ Len(ss) = Len(s)
      /\ \A i \in 1..Len(s) : ss[i] = IF i \in K THEN <<s[i]>> ELSE <<>>
  BY PickedLists
<1>2. \A i \in 1..Len(ss) : \A j \in 1..Len(ss[i]) : ss[i][j] \in T
  <2> SUFFICES ASSUME NEW i \in 1..Len(s), NEW j \in 1..Len(ss[i]) PROVE ss[i][j] \in T
    BY <1>1
  <2>1. CASE i \in K
    <3>1. ss[i] = <<s[i]>>
      BY <1>1, <2>1
    <3> HIDE DEF ss
    <3>2. j = 1 /\ ss[i][j] = s[i]
      BY <3>1, One
    <3> QED  BY <2>1, <3>2
  <2>2. CASE i \notin K
    <3>1. ss[i] = <<>>
      BY <1>1, <2>2
    <3> HIDE DEF ss
    <3> QED  BY <3>1, Empty
  <2> QED  BY <2>1, <2>2
<1> HIDE DEF ss, T
<1>3. IsSeq(Concat(ss)) /\ \A j \in 1..Len(Concat(ss)) : Concat(ss)[j] \in T
  BY <1>1, <1>2, ConcatSeq, Gathered
<1> QED  BY <1>3 DEF Picked, ss, T

-----------------------------------------------------------------------------
(* What a part, a content and a turn say are sequences.                    *)
LEMMA TextsSeq ==
  ASSUME NEW by, NEW text, IsSeq(text)
  PROVE  IsSeq(Texts(by, text))
<1>1. PICK t : t = Texts(by, text)
  OBVIOUS
<1>2. DOMAIN t = DOMAIN text /\ t = [i \in DOMAIN t |-> t[i]]
  BY <1>1 DEF Texts, Each
<1> QED  BY <1>1, <1>2, Imaged

TextItems(parts) == Each(LAMBDA p : p.text, parts)

LEMMA TextOfSeq ==
  ASSUME NEW c, IsSeq(c.parts), \A i \in DOMAIN c.parts : IsSeq(c.parts[i].text)
  PROVE  IsSeq(TextOf(c)) /\ Lists(TextItems(c.parts))
<1>1. PICK t : t = TextItems(c.parts)
  OBVIOUS
<1>2. /\ DOMAIN t = DOMAIN c.parts /\ t = [i \in DOMAIN t |-> t[i]]
      /\ \A i \in DOMAIN t : t[i] = c.parts[i].text
  BY <1>1 DEF TextItems, Each
<1>3. IsSeq(t) /\ DOMAIN t = 1..Len(t)
  BY <1>2, Imaged, SeqIs
<1>4. Lists(t)
  BY <1>2, <1>3 DEF Lists
<1>5. TextOf(c) = Concat(t)
  BY <1>1 DEF TextOf, TextItems
<1> QED  BY <1>1, <1>4, <1>5, ConcatSeq

LEMMA TextOfStr ==
  ASSUME NEW text, IsSeq(text)
  PROVE  /\ TextOf(Str(text)) = text /\ Content(Str(text))
         /\ PlainParts(Str(text).parts) /\ Str(text).form = "string"
<1>1. PICK p : p = [is |-> "text", text |-> text]
  OBVIOUS
<1>2. PICK ps : ps = <<p>> /\ IsSeq(ps) /\ Len(ps) = 1 /\ ps[1] = p /\ DOMAIN ps = 1..1
  BY One, SeqIs
<1>3. Str(text) = [form |-> "string", parts |-> ps]
  BY <1>1, <1>2 DEF Str
<1>4. TextItems(ps) = <<text>>
  <2>1. PICK t : t = TextItems(ps)
    OBVIOUS
  <2>2. t = [i \in 1..1 |-> ps[i].text]
    BY <1>2, <2>1 DEF TextItems, Each
  <2>3. IsSeq(t) /\ Len(t) = 1 /\ t[1] = text
    <3>1. t = [i \in 1..1 |-> t[i]] /\ 1 \in Nat
      BY <2>2
    <3>2. IsSeq(t) /\ Len(t) = 1
      BY <3>1, Listing
    <3> QED  BY <1>1, <1>2, <2>2, <3>2
  <2>4. IsSeq(<<text>>) /\ Len(<<text>>) = 1 /\ <<text>>[1] = text
    BY One
  <2>5. \A i \in 1..Len(t) : t[i] = <<text>>[i]
    BY <2>3, <2>4
  <2>6. t = <<text>>
    BY <2>3, <2>4, <2>5, Alike
  <2> QED  BY <2>1, <2>6
<1>5. TextOf(Str(text)) = text
  BY <1>3, <1>4, ConcatOne DEF TextOf, TextItems
<1>6. PlainForm(p)
  BY <1>1 DEF PlainForm
<1> QED  BY <1>1, <1>2, <1>3, <1>5, <1>6 DEF Content, PlainParts

LEMMA AbsentSays ==
  Content(Absent) /\ PlainParts(Absent.parts) /\ Absent.form = "absent" /\ Absent.parts = <<>>
<1>1. \A i \in DOMAIN <<>> : PlainForm(<<>>[i])
  OBVIOUS
<1> QED  BY <1>1, Empty DEF Absent, Content, PlainParts

LEMMA PartsContent ==
  ASSUME NEW parts
  PROVE  Content(Parts(parts)) /\ Parts(parts).parts = parts /\ Parts(parts).form = "parts"
BY DEF Parts, Content

LEMMA PartsPlain ==
  ASSUME NEW parts, PartsForm(parts)
  PROVE  PlainParts(parts)
BY DEF PartsForm, PlainParts, PartForm

LEMMA UtteranceSeq ==
  ASSUME NEW by, NEW p, PlainForm(p)
  PROVE  IsSeq(Utterance(by, p))
<1>1. CASE p.is \in {"text", "input_text", "output_text"}
  <2>1. Utterance(by, p) = Texts(by, p.text)
    BY <1>1 DEF Utterance
  <2> QED  BY <1>1, <2>1, TextsSeq DEF PlainForm
<1>2. CASE p.is \notin {"text", "input_text", "output_text"}
  <2>1. \E x : Utterance(by, p) = <<x>>
    BY <1>2, Zenon DEF Utterance, Shows, Calls, Results
  <2> QED  BY <2>1, One
<1> QED  BY <1>1, <1>2

Uttered(by, parts) == Each(LAMBDA p : Utterance(by, p), parts)

LEMMA UtteredLists ==
  ASSUME NEW by, NEW parts, PlainParts(parts)
  PROVE  /\ Lists(Uttered(by, parts)) /\ Len(Uttered(by, parts)) = Len(parts)
         /\ \A i \in 1..Len(parts) : Uttered(by, parts)[i] = Utterance(by, parts[i])
<1>1. PICK t : t = Uttered(by, parts)
  OBVIOUS
<1>2. /\ DOMAIN t = DOMAIN parts /\ t = [i \in DOMAIN t |-> t[i]]
      /\ \A i \in DOMAIN t : t[i] = Utterance(by, parts[i])
  BY <1>1 DEF Uttered, Each
<1>3. IsSeq(parts) /\ \A i \in DOMAIN parts : PlainForm(parts[i])
  BY DEF PlainParts
<1>4. IsSeq(t) /\ DOMAIN t = 1..Len(t) /\ Len(t) = Len(parts)
  BY <1>2, <1>3, Imaged, SeqIs
<1>5. Lists(t)
  BY <1>2, <1>3, <1>4, UtteranceSeq DEF Lists
<1> QED  BY <1>1, <1>2, <1>4, <1>5

LEMMA SpokeSeq ==
  ASSUME NEW by, NEW parts, PlainParts(parts)
  PROVE  Spoke(by, parts) = Concat(Uttered(by, parts)) /\ IsSeq(Spoke(by, parts))
<1>1. Spoke(by, parts) = Concat(Uttered(by, parts))
  BY DEF Spoke, Uttered
<1> QED  BY <1>1, UtteredLists, ConcatSeq

LEMMA Fits ==
  ASSUME NEW t, NEW u, NEW v, IsSeq(t), IsSeq(u), IsSeq(v), Len(v) = Len(t) + Len(u),
         \A i \in 1..Len(t) : v[i] = t[i], \A i \in 1..Len(u) : v[Len(t) + i] = u[i]
  PROVE  v = t \o u
<1>1. Len(t) \in Nat /\ Len(u) \in Nat
  BY SeqIs
<1>2. PICK w : w = t \o u
  OBVIOUS
<1>3. IsSeq(w) /\ Len(w) = Len(t) + Len(u)
  BY <1>2, Joined
<1>4. \A i \in 1..Len(t) + Len(u) : w[i] = IF i <= Len(t) THEN t[i] ELSE u[i - Len(t)]
  BY <1>2, Joined
<1>5. ASSUME NEW i \in 1..Len(t) + Len(u) PROVE v[i] = w[i]
  <2>1. CASE i <= Len(t)
    BY <1>1, <1>4, <2>1
  <2>2. CASE ~(i <= Len(t))
    <3>1. PICK j \in 1..Len(u) : i = Len(t) + j /\ i - Len(t) = j
      <4>1. i - Len(t) \in 1..Len(u) /\ i = Len(t) + (i - Len(t))
        BY <1>1, <2>2
      <4> QED  BY <4>1
    <3> QED  BY <1>1, <1>4, <2>2, <3>1
  <2> QED  BY <2>1, <2>2
<1>6. \A i \in 1..Len(v) : v[i] = w[i]
  BY <1>5
<1>7. v = w
  BY <1>3, <1>6, Alike
<1> QED  BY <1>2, <1>7

LEMMA SpokeNone ==
  ASSUME NEW by
  PROVE  Spoke(by, <<>>) = <<>>
<1>1. PICK t : t = Uttered(by, <<>>)
  OBVIOUS
<1>2. t = [i \in 1..0 |-> t[i]]
  BY <1>1 DEF Uttered, Each
<1>3. IsSeq(t) /\ Len(t) = 0
  BY <1>2, Listing
<1>4. t = <<>>
  BY <1>3, Empty
<1>5. Spoke(by, <<>>) = Concat(t)
  BY <1>1 DEF Spoke, Uttered
<1> QED  BY <1>4, <1>5, NoLists

LEMMA SpokeOne ==
  ASSUME NEW by, NEW p, PlainForm(p)
  PROVE  Spoke(by, <<p>>) = Utterance(by, p) /\ PlainParts(<<p>>)
<1>1. PICK q : q = <<p>> /\ IsSeq(q) /\ Len(q) = 1 /\ q[1] = p /\ DOMAIN q = 1..1
  BY One, SeqIs
<1>2. PlainParts(q)
  BY <1>1 DEF PlainParts
<1>3. PICK t : t = Uttered(by, q)
  OBVIOUS
<1>4. Lists(t) /\ Len(t) = 1 /\ t[1] = Utterance(by, p)
  BY <1>1, <1>2, <1>3, UtteredLists
<1>5. IsSeq(t) /\ IsSeq(<<t[1]>>) /\ Len(<<t[1]>>) = 1 /\ <<t[1]>>[1] = t[1]
  BY <1>4, One DEF Lists
<1>6. t = <<t[1]>>
  BY <1>4, <1>5, Alike
<1>7. IsSeq(t[1])
  BY <1>4 DEF Lists
<1>8. Concat(t) = t[1]
  BY <1>6, <1>7, ConcatOne
<1>9. Spoke(by, q) = Concat(t)
  BY <1>3 DEF Spoke, Uttered
<1> QED  BY <1>1, <1>2, <1>4, <1>8, <1>9

LEMMA PartsJoined ==
  ASSUME NEW ps, NEW qs, PlainParts(ps), PlainParts(qs)
  PROVE  PlainParts(ps \o qs)
<1>1. IsSeq(ps) /\ IsSeq(qs) /\ DOMAIN ps = 1..Len(ps) /\ DOMAIN qs = 1..Len(qs)
  BY SeqIs DEF PlainParts
<1> DEFINE T == {p \in {ps[i] : i \in 1..Len(ps)} \cup {qs[i] : i \in 1..Len(qs)} : PlainForm(p)}
<1>2. (\A i \in 1..Len(ps) : ps[i] \in T) /\ (\A i \in 1..Len(qs) : qs[i] \in T)
  BY <1>1 DEF PlainParts
<1>3. \A p \in T : PlainForm(p)
  OBVIOUS
<1> HIDE DEF T
<1>4. PICK rs : rs = ps \o qs
  OBVIOUS
<1>5. IsSeq(rs) /\ \A i \in 1..Len(rs) : rs[i] \in T
  BY <1>1, <1>2, <1>4, Joined, JoinedItems
<1>6. DOMAIN rs = 1..Len(rs)
  BY <1>5, SeqIs
<1> QED  BY <1>3, <1>4, <1>5, <1>6 DEF PlainParts

LEMMA SpokeJoin ==
  ASSUME NEW by, NEW ps, NEW qs, PlainParts(ps), PlainParts(qs)
  PROVE  Spoke(by, ps \o qs) = Spoke(by, ps) \o Spoke(by, qs)
<1>1. PICK rs : rs = ps \o qs
  OBVIOUS
<1>2. PlainParts(rs)
  BY <1>1, PartsJoined
<1>3. PICK t, u, v : t = Uttered(by, ps) /\ u = Uttered(by, qs) /\ v = Uttered(by, rs)
  OBVIOUS
<1>4. /\ Lists(t) /\ Len(t) = Len(ps) /\ \A i \in 1..Len(ps) : t[i] = Utterance(by, ps[i])
      /\ Lists(u) /\ Len(u) = Len(qs) /\ \A i \in 1..Len(qs) : u[i] = Utterance(by, qs[i])
      /\ Lists(v) /\ Len(v) = Len(rs) /\ \A i \in 1..Len(rs) : v[i] = Utterance(by, rs[i])
  BY <1>2, <1>3, UtteredLists
<1>5. IsSeq(ps) /\ IsSeq(qs) /\ Len(ps) \in Nat /\ Len(qs) \in Nat
  BY SeqIs DEF PlainParts
<1>6. /\ Len(rs) = Len(ps) + Len(qs) /\ \A i \in 1..Len(ps) : rs[i] = ps[i]
      /\ \A i \in 1..Len(qs) : rs[Len(ps) + i] = qs[i]
  BY <1>1, <1>5, Joined
<1>7. v = t \o u
  <2>1. IsSeq(t) /\ IsSeq(u) /\ IsSeq(v)
    BY <1>4 DEF Lists
  <2>2. \A i \in 1..Len(t) : v[i] = t[i]
    <3>1. \A i \in 1..Len(ps) : i \in 1..Len(rs)
      BY <1>5, <1>6
    <3> QED  BY <1>4, <1>6, <3>1
  <2>3. \A i \in 1..Len(u) : v[Len(t) + i] = u[i]
    <3>1. \A i \in 1..Len(qs) : Len(ps) + i \in 1..Len(rs)
      BY <1>5, <1>6
    <3> QED  BY <1>4, <1>6, <3>1
  <2>4. Len(v) = Len(t) + Len(u)
    BY <1>4, <1>6
  <2> QED  BY <2>1, <2>2, <2>3, <2>4, Fits
<1>8. Concat(v) = Concat(t) \o Concat(u)
  BY <1>4, <1>7, ConcatJoin
<1> QED  BY <1>1, <1>3, <1>8 DEF Spoke, Uttered

-----------------------------------------------------------------------------
(* What calls, a message and a run of messages say.                        *)
Called(calls) == Each(Calls, calls)

LEMMA CalledLists ==
  ASSUME NEW calls, IsSeq(calls)
  PROVE  /\ Lists(Called(calls)) /\ Len(Called(calls)) = Len(calls)
         /\ \A i \in 1..Len(calls) : Called(calls)[i] = Calls(calls[i])
         /\ IsSeq(Concat(Called(calls)))
<1>1. PICK t : t = Called(calls)
  OBVIOUS
<1>2. /\ DOMAIN t = DOMAIN calls /\ t = [i \in DOMAIN t |-> t[i]]
      /\ \A i \in DOMAIN t : t[i] = Calls(calls[i])
  BY <1>1 DEF Called, Each
<1>3. IsSeq(t) /\ DOMAIN t = 1..Len(t) /\ Len(t) = Len(calls)
  BY <1>2, Imaged, SeqIs
<1>4. \A c : IsSeq(Calls(c))
  BY One DEF Calls
<1>5. Lists(t)
  BY <1>2, <1>3, <1>4 DEF Lists
<1> QED  BY <1>1, <1>2, <1>3, <1>5, ConcatSeq

LEMMA CalledNone == Concat(Called(<<>>)) = <<>>
<1>1. PICK t : t = Called(<<>>)
  OBVIOUS
<1>2. IsSeq(t) /\ Len(t) = 0
  BY <1>1, CalledLists, Empty DEF Lists
<1>3. t = <<>>
  BY <1>2, Empty
<1> QED  BY <1>1, <1>3, NoLists

SpeakerOf(m) == IF m.name = "" THEN Speaker(m.role) ELSE Speaker(m.role) \o m.name

LEMMA ChatTurnSays ==
  ASSUME NEW m, ChatForm(m)
  PROVE  /\ m.role = "tool" => ChatTurn(m) = Results(m.id, TextOf(m.content))
         /\ m.role # "tool" => ChatTurn(m) = Spoke(SpeakerOf(m), m.content.parts)
                                               \o Concat(Called(m.calls))
         /\ IsSeq(ChatTurn(m))
<1>1. /\ m.role = "tool" => ChatTurn(m) = Results(m.id, TextOf(m.content))
      /\ m.role # "tool" => ChatTurn(m) = Spoke(SpeakerOf(m), m.content.parts)
                                            \o Concat(Called(m.calls))
  BY Zenon DEF ChatTurn, SpeakerOf, Called
<1>2. PICK a, b : a = Spoke(SpeakerOf(m), m.content.parts) /\ b = Concat(Called(m.calls))
  OBVIOUS
<1>3. IsSeq(a) /\ IsSeq(b)
  BY <1>2, SpokeSeq, CalledLists DEF ChatForm
<1>4. IsSeq(a \o b)
  BY <1>3, Joined
<1>5. CASE m.role = "tool"
  BY <1>1, <1>5, One DEF Results
<1>6. CASE m.role # "tool"
  BY <1>1, <1>2, <1>4, <1>6
<1> QED  BY <1>1, <1>5, <1>6

ChatForms(ms) == IsSeq(ms) /\ \A i \in 1..Len(ms) : ChatForm(ms[i])
Told(ms) == Each(ChatTurn, ms)

LEMMA ToldLists ==
  ASSUME NEW ms, ChatForms(ms)
  PROVE  /\ Lists(Told(ms)) /\ Len(Told(ms)) = Len(ms)
         /\ \A i \in 1..Len(ms) : Told(ms)[i] = ChatTurn(ms[i])
         /\ IsSeq(Concat(Told(ms)))
<1>1. PICK t : t = Told(ms)
  OBVIOUS
<1>2. /\ DOMAIN t = DOMAIN ms /\ t = [i \in DOMAIN t |-> t[i]]
      /\ \A i \in DOMAIN t : t[i] = ChatTurn(ms[i])
  BY <1>1 DEF Told, Each
<1>3. IsSeq(t) /\ DOMAIN t = 1..Len(t) /\ Len(t) = Len(ms)
  BY <1>2, Imaged, SeqIs DEF ChatForms
<1>4. Lists(t)
  BY <1>2, <1>3, ChatTurnSays DEF Lists, ChatForms
<1> QED  BY <1>1, <1>2, <1>3, <1>4, ConcatSeq

-----------------------------------------------------------------------------
(* Messages made one after the other, some of which may be refused.        *)
Hub(ms) == IsSeq(ms) /\ \A i \in 1..Len(ms) : ms[i] = Bad \/ ChatForm(ms[i])

LEMMA BadPart == ASSUME NEW s, IsSeq(s) PROVE AnyBad(s) <=> \E i \in 1..Len(s) : s[i] = Bad
BY SeqIs DEF AnyBad

LEMMA HubGood ==
  ASSUME NEW ms, Hub(ms), ~AnyBad(ms)
  PROVE  ChatForms(ms)
BY BadPart DEF Hub, ChatForms

LEMMA FormsAreHub ==
  ASSUME NEW ms, ChatForms(ms)
  PROVE  Hub(ms) /\ ~AnyBad(ms)
<1>1. \A m : ChatForm(m) => m # Bad
  BY DEF ChatForm, Message, Bad
<1> QED  BY <1>1, BadPart DEF Hub, ChatForms

LEMMA HubJoined ==
  ASSUME NEW ms, NEW ns, Hub(ms), Hub(ns)
  PROVE  Hub(ms \o ns)
<1>1. IsSeq(ms) /\ IsSeq(ns)
  BY DEF Hub
<1> DEFINE T == {m \in {ms[i] : i \in 1..Len(ms)} \cup {ns[i] : i \in 1..Len(ns)} :
                   m = Bad \/ ChatForm(m)}
<1>2. (\A i \in 1..Len(ms) : ms[i] \in T) /\ (\A i \in 1..Len(ns) : ns[i] \in T)
  BY DEF Hub
<1>3. \A m \in T : m = Bad \/ ChatForm(m)
  OBVIOUS
<1> HIDE DEF T
<1>4. IsSeq(ms \o ns) /\ \A i \in 1..Len(ms \o ns) : (ms \o ns)[i] \in T
  BY <1>1, <1>2, Joined, JoinedItems
<1> QED  BY <1>3, <1>4 DEF Hub

LEMMA HubOne ==
  ASSUME NEW m, m = Bad \/ ChatForm(m)
  PROVE  Hub(<<m>>)
<1>1. PICK q : q = <<m>> /\ IsSeq(q) /\ Len(q) = 1 /\ q[1] = m
  BY One
<1> QED  BY <1>1 DEF Hub

LEMMA HubNone == Hub(<<>>)
BY Empty DEF Hub

LEMMA HubAppended ==
  ASSUME NEW ms, Hub(ms), NEW m, m = Bad \/ ChatForm(m)
  PROVE  Hub(Append(ms, m)) /\ Append(ms, m) = ms \o <<m>>
BY HubOne, HubJoined, Appended DEF Hub

LEMMA HubGathered ==
  ASSUME NEW ss, Lists(ss), \A i \in 1..Len(ss) : Hub(ss[i])
  PROVE  Hub(Concat(ss))
<1> DEFINE T == {m \in UNION {{ss[i][j] : j \in 1..Len(ss[i])} : i \in 1..Len(ss)} :
                   m = Bad \/ ChatForm(m)}
<1>1. \A i \in 1..Len(ss) : \A j \in 1..Len(ss[i]) : ss[i][j] \in T
  BY DEF Hub
<1>2. \A m \in T : m = Bad \/ ChatForm(m)
  OBVIOUS
<1> HIDE DEF T
<1>3. IsSeq(Concat(ss)) /\ \A j \in 1..Len(Concat(ss)) : Concat(ss)[j] \in T
  BY <1>1, ConcatSeq, Gathered
<1> QED  BY <1>2, <1>3 DEF Hub

LEMMA FrontForms ==
  ASSUME NEW ms, ChatForms(ms), ms # <<>>
  PROVE  ChatForms(Front(ms)) /\ ChatForm(Last(ms)) /\ ms = Front(ms) \o <<Last(ms)>>
<1>1. /\ IsSeq(Front(ms)) /\ ms = Front(ms) \o <<Last(ms)>> /\ Len(ms) \in Nat \ {0}
      /\ Len(Front(ms)) = Len(ms) - 1 /\ Last(ms) = ms[Len(ms)]
      /\ \A i \in 1..Len(ms) - 1 : Front(ms)[i] = ms[i]
  BY ButLast DEF ChatForms
<1>2. Len(ms) \in 1..Len(ms) /\ \A i \in 1..Len(ms) - 1 : i \in 1..Len(ms)
  BY <1>1
<1> QED  BY <1>1, <1>2 DEF ChatForms

(* What is told of joined runs of messages is joined.                      *)
LEMMA ToldJoin ==
  ASSUME NEW ms, NEW ns, ChatForms(ms), ChatForms(ns)
  PROVE  /\ ChatForms(ms \o ns)
         /\ Concat(Told(ms \o ns)) = Concat(Told(ms)) \o Concat(Told(ns))
<1>1. PICK rs : rs = ms \o ns
  OBVIOUS
<1>2. ChatForms(rs)
  <2>1. Hub(rs) /\ IsSeq(ms) /\ IsSeq(ns)
    BY <1>1, FormsAreHub, HubJoined DEF ChatForms
  <2> DEFINE T == {m \in {ms[i] : i \in 1..Len(ms)} \cup {ns[i] : i \in 1..Len(ns)} : ChatForm(m)}
  <2>2. (\A i \in 1..Len(ms) : ms[i] \in T) /\ (\A i \in 1..Len(ns) : ns[i] \in T)
    BY DEF ChatForms
  <2>3. \A m \in T : ChatForm(m)
    OBVIOUS
  <2> HIDE DEF T
  <2>4. \A i \in 1..Len(rs) : rs[i] \in T
    BY <1>1, <2>1, <2>2, JoinedItems
  <2> QED  BY <2>1, <2>3, <2>4 DEF ChatForms, Hub
<1>3. PICK t, u, v : t = Told(ms) /\ u = Told(ns) /\ v = Told(rs)
  OBVIOUS
<1>4. /\ Lists(t) /\ Len(t) = Len(ms) /\ \A i \in 1..Len(ms) : t[i] = ChatTurn(ms[i])
      /\ Lists(u) /\ Len(u) = Len(ns) /\ \A i \in 1..Len(ns) : u[i] = ChatTurn(ns[i])
      /\ Lists(v) /\ Len(v) = Len(rs) /\ \A i \in 1..Len(rs) : v[i] = ChatTurn(rs[i])
  BY <1>2, <1>3, ToldLists
<1>5. IsSeq(ms) /\ IsSeq(ns) /\ Len(ms) \in Nat /\ Len(ns) \in Nat
  BY SeqIs DEF ChatForms
<1>6. /\ Len(rs) = Len(ms) + Len(ns) /\ \A i \in 1..Len(ms) : rs[i] = ms[i]
      /\ \A i \in 1..Len(ns) : rs[Len(ms) + i] = ns[i]
  BY <1>1, <1>5, Joined
<1>7. v = t \o u
  <2>1. IsSeq(t) /\ IsSeq(u) /\ IsSeq(v)
    BY <1>4 DEF Lists
  <2>2. \A i \in 1..Len(t) : v[i] = t[i]
    <3>1. \A i \in 1..Len(ms) : i \in 1..Len(rs)
      BY <1>5, <1>6
    <3> QED  BY <1>4, <1>6, <3>1
  <2>3. \A i \in 1..Len(u) : v[Len(t) + i] = u[i]
    <3>1. \A i \in 1..Len(ns) : Len(ms) + i \in 1..Len(rs)
      BY <1>5, <1>6
    <3> QED  BY <1>4, <1>6, <3>1
  <2>4. Len(v) = Len(t) + Len(u)
    BY <1>4, <1>6
  <2> QED  BY <2>1, <2>2, <2>3, <2>4, Fits
<1>8. Concat(v) = Concat(t) \o Concat(u)
  BY <1>4, <1>7, ConcatJoin
<1> QED  BY <1>1, <1>2, <1>3, <1>8

LEMMA ToldOne ==
  ASSUME NEW m, ChatForm(m)
  PROVE  Concat(Told(<<m>>)) = ChatTurn(m) /\ ChatForms(<<m>>)
<1>1. PICK q : q = <<m>> /\ IsSeq(q) /\ Len(q) = 1 /\ q[1] = m
  BY One
<1>2. ChatForms(q)
  BY <1>1 DEF ChatForms
<1>3. PICK t : t = Told(q)
  OBVIOUS
<1>4. Lists(t) /\ Len(t) = 1 /\ t[1] = ChatTurn(m)
  BY <1>1, <1>2, <1>3, ToldLists
<1>5. IsSeq(t) /\ IsSeq(<<t[1]>>) /\ Len(<<t[1]>>) = 1 /\ <<t[1]>>[1] = t[1]
  BY <1>4, One DEF Lists
<1>6. t = <<t[1]>>
  BY <1>4, <1>5, Alike
<1>7. IsSeq(t[1])
  BY <1>4 DEF Lists
<1>8. Concat(t) = t[1]
  BY <1>6, <1>7, ConcatOne
<1> QED  BY <1>1, <1>2, <1>3, <1>4, <1>8

LEMMA ToldNone == Concat(Told(<<>>)) = <<>> /\ ChatForms(<<>>)
<1>1. PICK t : t = Told(<<>>)
  OBVIOUS
<1>2. ChatForms(<<>>)
  BY Empty DEF ChatForms
<1>3. IsSeq(t) /\ Len(t) = 0
  BY <1>1, <1>2, ToldLists, Empty DEF Lists
<1>4. t = <<>>
  BY <1>3, Empty
<1> QED  BY <1>1, <1>2, <1>4, NoLists

LEMMA MergeTells ==
  ASSUME NEW ms, ChatForms(ms), NEW role, NEW extended, NEW message, NEW extra, IsSeq(extra),
         ChatForm(message), ChatTurn(message) = extra,
         (ms # <<>> /\ Last(ms).role = role) =>
           (ChatForm(extended) /\ ChatTurn(extended) = ChatTurn(Last(ms)) \o extra)
  PROVE  /\ ChatForms(Merge(ms, role, extended, message))
         /\ Concat(Told(Merge(ms, role, extended, message))) = Concat(Told(ms)) \o extra
<1>1. CASE ms # <<>> /\ Last(ms).role = role
  <2>1. Merge(ms, role, extended, message) = Append(Front(ms), extended)
    BY <1>1 DEF Merge
  <2>2. PICK fs, l : fs = Front(ms) /\ l = Last(ms)
    OBVIOUS
  <2>3. ChatForms(fs) /\ ChatForm(l) /\ ms = fs \o <<l>>
    BY <1>1, <2>2, FrontForms
  <2>4. Append(fs, extended) = fs \o <<extended>>
    BY <2>3, Appended DEF ChatForms
  <2>5. ChatForm(extended) /\ ChatTurn(extended) = ChatTurn(l) \o extra
    BY <1>1, <2>2
  <2>6. PICK a, b : a = Concat(Told(fs)) /\ b = ChatTurn(l) /\ IsSeq(a) /\ IsSeq(b)
    BY <2>3, ToldLists, ChatTurnSays
  <2>7. Concat(Told(ms)) = a \o b
    BY <2>3, <2>6, ToldOne, ToldJoin
  <2>8. /\ ChatForms(fs \o <<extended>>)
        /\ Concat(Told(fs \o <<extended>>)) = a \o (b \o extra)
    BY <2>3, <2>5, <2>6, ToldOne, ToldJoin, ZenonT(30)
  <2>9. (a \o b) \o extra = a \o (b \o extra)
    BY <2>6, Associates
  <2> QED  BY <2>1, <2>2, <2>4, <2>7, <2>8, <2>9
<1>2. CASE ~(ms # <<>> /\ Last(ms).role = role)
  <2>1. Merge(ms, role, extended, message) = Append(ms, message)
    BY <1>2 DEF Merge
  <2>2. Append(ms, message) = ms \o <<message>>
    BY Appended DEF ChatForms
  <2>3. ChatForms(<<message>>) /\ Concat(Told(<<message>>)) = extra
    BY ToldOne
  <2>4. /\ ChatForms(ms \o <<message>>)
        /\ Concat(Told(ms \o <<message>>)) = Concat(Told(ms)) \o extra
    BY <2>3, ToldJoin
  <2> QED  BY <2>1, <2>2, <2>4
<1> QED  BY <1>1, <1>2

LEMMA AppendTells ==
  ASSUME NEW ms, ChatForms(ms), NEW m, ChatForm(m)
  PROVE  /\ ChatForms(Append(ms, m))
         /\ Concat(Told(Append(ms, m))) = Concat(Told(ms)) \o ChatTurn(m)
<1>1. Append(ms, m) = ms \o <<m>>
  BY Appended DEF ChatForms
<1> QED  BY <1>1, ToldOne, ToldJoin

(* Contents whose parts say the same, one by one, say the same.            *)
LEMMA SpokeAlike ==
  ASSUME NEW by, NEW ps, NEW qs, PlainParts(ps), PlainParts(qs), Len(ps) = Len(qs),
         \A i \in 1..Len(ps) : Utterance(by, ps[i]) = Utterance(by, qs[i])
  PROVE  Spoke(by, ps) = Spoke(by, qs)
<1>1. PICK t, u : t = Uttered(by, ps) /\ u = Uttered(by, qs)
  OBVIOUS
<1>2. IsSeq(t) /\ IsSeq(u) /\ Len(t) = Len(ps) /\ Len(u) = Len(ps)
  BY <1>1, UtteredLists DEF Lists
<1>3. \A i \in 1..Len(ps) : t[i] = u[i]
  BY <1>1, UtteredLists
<1>4. t = u
  BY <1>2, <1>3, Alike
<1> QED  BY <1>1, <1>4 DEF Spoke, Uttered

LEMMA NamelessSays ==
  ASSUME NEW role, role # "tool", NEW c, Content(c), PlainParts(c.parts)
  PROVE  /\ ChatForm(Nameless(role, c))
         /\ ChatTurn(Nameless(role, c)) = Spoke(Speaker(role), c.parts)
<1>1. PICK m : m = Nameless(role, c)
  OBVIOUS
<1>2. /\ m = Message(role, c, <<>>, "", "") /\ m.role = role /\ m.content = c
      /\ m.calls = <<>> /\ m.id = "" /\ m.name = ""
  BY <1>1 DEF Nameless, Message
<1>3. ChatForm(m)
  BY <1>2, Empty DEF ChatForm
<1>4. SpeakerOf(m) = Speaker(role)
  BY <1>2 DEF SpeakerOf
<1>5. PICK a : a = Spoke(Speaker(role), c.parts) /\ IsSeq(a)
  BY SpokeSeq
<1>6. ChatTurn(m) = a \o <<>>
  BY <1>2, <1>3, <1>4, <1>5, ChatTurnSays, CalledNone
<1>7. a \o <<>> = a
  BY <1>5, Empty
<1> QED  BY <1>1, <1>3, <1>5, <1>6, <1>7

LEMMA ResultSays ==
  ASSUME NEW id, NEW name, NEW text, IsSeq(text)
  PROVE  /\ ChatForm(Result(id, name, Str(text)))
         /\ ChatTurn(Result(id, name, Str(text))) = Results(id, text)
<1>1. PICK m : m = Result(id, name, Str(text))
  OBVIOUS
<1>2. /\ m = Message("tool", Str(text), <<>>, id, name) /\ m.role = "tool"
      /\ m.content = Str(text) /\ m.calls = <<>> /\ m.id = id /\ m.name = name
  BY <1>1 DEF Result, Message
<1>3. ChatForm(m)
  BY <1>2, Empty, TextOfStr DEF ChatForm
<1>4. ChatTurn(m) = Results(id, text)
  BY <1>2, <1>3, ChatTurnSays, TextOfStr
<1> QED  BY <1>1, <1>3, <1>4

LEMMA CalledJoin ==
  ASSUME NEW calls, NEW more, IsSeq(calls), IsSeq(more)
  PROVE  Concat(Called(calls \o more)) = Concat(Called(calls)) \o Concat(Called(more))
<1>1. PICK rs : rs = calls \o more
  OBVIOUS
<1>2. IsSeq(rs)
  BY <1>1, Joined
<1>3. PICK t, u, v : t = Called(calls) /\ u = Called(more) /\ v = Called(rs)
  OBVIOUS
<1>4. /\ Lists(t) /\ Len(t) = Len(calls) /\ \A i \in 1..Len(calls) : t[i] = Calls(calls[i])
      /\ Lists(u) /\ Len(u) = Len(more) /\ \A i \in 1..Len(more) : u[i] = Calls(more[i])
      /\ Lists(v) /\ Len(v) = Len(rs) /\ \A i \in 1..Len(rs) : v[i] = Calls(rs[i])
  BY <1>2, <1>3, CalledLists
<1>5. Len(calls) \in Nat /\ Len(more) \in Nat
  BY SeqIs
<1>6. /\ Len(rs) = Len(calls) + Len(more) /\ \A i \in 1..Len(calls) : rs[i] = calls[i]
      /\ \A i \in 1..Len(more) : rs[Len(calls) + i] = more[i]
  BY <1>1, Joined
<1>7. v = t \o u
  <2>1. IsSeq(t) /\ IsSeq(u) /\ IsSeq(v)
    BY <1>4 DEF Lists
  <2>2. \A i \in 1..Len(t) : v[i] = t[i]
    <3>1. \A i \in 1..Len(calls) : i \in 1..Len(rs)
      BY <1>5, <1>6
    <3> QED  BY <1>4, <1>6, <3>1
  <2>3. \A i \in 1..Len(u) : v[Len(t) + i] = u[i]
    <3>1. \A i \in 1..Len(more) : Len(calls) + i \in 1..Len(rs)
      BY <1>5, <1>6
    <3> QED  BY <1>4, <1>6, <3>1
  <2>4. Len(v) = Len(t) + Len(u)
    BY <1>4, <1>6
  <2> QED  BY <2>1, <2>2, <2>3, <2>4, Fits
<1>8. Concat(v) = Concat(t) \o Concat(u)
  BY <1>4, <1>7, ConcatJoin
<1> QED  BY <1>1, <1>3, <1>8

LEMMA CalledOne ==
  ASSUME NEW c
  PROVE  Concat(Called(<<c>>)) = Calls(c) /\ IsSeq(Calls(c))
<1>1. PICK q : q = <<c>> /\ IsSeq(q) /\ Len(q) = 1 /\ q[1] = c
  BY One
<1>2. PICK t : t = Called(q)
  OBVIOUS
<1>3. Lists(t) /\ Len(t) = 1 /\ t[1] = Calls(c)
  BY <1>1, <1>2, CalledLists
<1>4. IsSeq(t) /\ IsSeq(<<t[1]>>) /\ Len(<<t[1]>>) = 1 /\ <<t[1]>>[1] = t[1]
  BY <1>3, One DEF Lists
<1>5. t = <<t[1]>>
  BY <1>3, <1>4, Alike
<1>6. IsSeq(t[1])
  BY <1>3 DEF Lists
<1>7. Concat(t) = t[1]
  BY <1>5, <1>6, ConcatOne
<1> QED  BY <1>1, <1>2, <1>3, <1>6, <1>7

-----------------------------------------------------------------------------
(* The items of a sequence, each made a sequence by g, and these joined.   *)
Chain(s, g) == [i \in DOMAIN s |-> g[s[i]]]
Chained(s, g) == Concat(Chain(s, g))

LEMMA ChainLists ==
  ASSUME NEW s, IsSeq(s), NEW g, \A i \in 1..Len(s) : IsSeq(g[s[i]])
  PROVE  /\ Lists(Chain(s, g)) /\ Len(Chain(s, g)) = Len(s)
         /\ \A i \in 1..Len(s) : Chain(s, g)[i] = g[s[i]]
         /\ IsSeq(Chained(s, g))
<1>1. PICK t : t = Chain(s, g)
  OBVIOUS
<1>2. /\ DOMAIN t = DOMAIN s /\ t = [i \in DOMAIN t |-> t[i]]
      /\ \A i \in DOMAIN s : t[i] = g[s[i]]
  BY <1>1 DEF Chain
<1>3. IsSeq(t) /\ Len(t) = Len(s) /\ DOMAIN s = 1..Len(s)
  BY <1>2, Imaged, SeqIs
<1>4. Lists(t)
  BY <1>2, <1>3 DEF Lists
<1>5. IsSeq(Concat(t))
  BY <1>4, ConcatSeq
<1> QED  BY <1>1, <1>2, <1>3, <1>4, <1>5 DEF Chained

LEMMA ChainNone ==
  ASSUME NEW g
  PROVE  Chained(<<>>, g) = <<>>
<1>1. PICK t : t = Chain(<<>>, g)
  OBVIOUS
<1>2. t = [i \in 1..0 |-> t[i]]
  BY <1>1 DEF Chain
<1>3. t = <<>>
  BY <1>2, Listing, Empty
<1> QED  BY <1>1, <1>3, NoLists DEF Chained

LEMMA ChainOne ==
  ASSUME NEW x, NEW g, IsSeq(g[x])
  PROVE  Chained(<<x>>, g) = g[x]
<1>1. PICK q : q = <<x>> /\ IsSeq(q) /\ Len(q) = 1 /\ q[1] = x
  BY One
<1>2. PICK t : t = Chain(q, g)
  OBVIOUS
<1>3. Lists(t) /\ Len(t) = 1 /\ t[1] = g[x]
  <2>1. \A i \in 1..Len(q) : IsSeq(g[q[i]])
    BY <1>1
  <2> QED  BY <1>1, <1>2, <2>1, ChainLists
<1>4. IsSeq(t) /\ IsSeq(<<t[1]>>) /\ Len(<<t[1]>>) = 1 /\ <<t[1]>>[1] = t[1]
  BY <1>3, One DEF Lists
<1>5. t = <<t[1]>>
  BY <1>3, <1>4, Alike
<1>6. Concat(t) = t[1]
  BY <1>3, <1>5, ConcatOne
<1> QED  BY <1>1, <1>2, <1>3, <1>6 DEF Chained

LEMMA ChainJoin ==
  ASSUME NEW s, NEW t, IsSeq(s), IsSeq(t), NEW g,
         \A i \in 1..Len(s) : IsSeq(g[s[i]]), \A i \in 1..Len(t) : IsSeq(g[t[i]])
  PROVE  Chained(s \o t, g) = Chained(s, g) \o Chained(t, g)
<1>1. PICK r : r = s \o t
  OBVIOUS
<1>2. /\ IsSeq(r) /\ Len(r) = Len(s) + Len(t) /\ \A i \in 1..Len(s) : r[i] = s[i]
      /\ \A i \in 1..Len(t) : r[Len(s) + i] = t[i]
  BY <1>1, Joined
<1>3. \A i \in 1..Len(r) : IsSeq(g[r[i]])
  <2> DEFINE T == {x \in {s[i] : i \in 1..Len(s)} \cup {t[i] : i \in 1..Len(t)} : IsSeq(g[x])}
  <2>1. (\A i \in 1..Len(s) : s[i] \in T) /\ (\A i \in 1..Len(t) : t[i] \in T)
    OBVIOUS
  <2>2. \A x \in T : IsSeq(g[x])
    OBVIOUS
  <2> HIDE DEF T
  <2>3. \A i \in 1..Len(r) : r[i] \in T
    BY <1>1, <2>1, JoinedItems
  <2> QED  BY <2>2, <2>3
<1>4. PICK a, b, c : a = Chain(s, g) /\ b = Chain(t, g) /\ c = Chain(r, g)
  OBVIOUS
<1>5. Lists(a) /\ Len(a) = Len(s) /\ \A i \in 1..Len(s) : a[i] = g[s[i]]
  BY <1>4, ChainLists
<1>6. Lists(b) /\ Len(b) = Len(t) /\ \A i \in 1..Len(t) : b[i] = g[t[i]]
  BY <1>4, ChainLists
<1>7. Lists(c) /\ Len(c) = Len(r) /\ \A i \in 1..Len(r) : c[i] = g[r[i]]
  BY <1>2, <1>3, <1>4, ChainLists
<1>8. Len(s) \in Nat /\ Len(t) \in Nat
  BY SeqIs
<1>9. c = a \o b
  <2>1. IsSeq(a) /\ IsSeq(b) /\ IsSeq(c)
    BY <1>5, <1>6, <1>7 DEF Lists
  <2>2. \A i \in 1..Len(a) : c[i] = a[i]
    <3>1. \A i \in 1..Len(s) : i \in 1..Len(r)
      BY <1>2, <1>8
    <3> QED  BY <1>2, <1>5, <1>7, <3>1
  <2>3. \A i \in 1..Len(b) : c[Len(a) + i] = b[i]
    <3>1. \A i \in 1..Len(t) : Len(s) + i \in 1..Len(r)
      BY <1>2, <1>8
    <3> QED  BY <1>2, <1>5, <1>6, <1>7, <3>1
  <2>4. Len(c) = Len(a) + Len(b)
    BY <1>2, <1>5, <1>6, <1>7
  <2> QED  BY <2>1, <2>2, <2>3, <2>4, Fits
<1>10. Concat(c) = Concat(a) \o Concat(b)
  BY <1>5, <1>6, <1>9, ConcatJoin
<1> QED  BY <1>1, <1>4, <1>10 DEF Chained

LEMMA ChainConcat ==
  ASSUME NEW ss, Lists(ss), NEW g,
         \A i \in 1..Len(ss) : \A j \in 1..Len(ss[i]) : IsSeq(g[ss[i][j]])
  PROVE  /\ Chained(Concat(ss), g) = Concat([i \in DOMAIN ss |-> Chained(ss[i], g)])
         /\ Lists([i \in DOMAIN ss |-> Chained(ss[i], g)])
<1>1. IsSeq(ss) /\ Len(ss) \in Nat /\ DOMAIN ss = 1..Len(ss)
  BY SeqIs DEF Lists
<1>2. PICK f : /\ f[0] = <<>> /\ \A k \in 1..Len(ss) : f[k] = f[k - 1] \o ss[k]
               /\ Concat(ss) = f[Len(ss)] /\ \A k \in 0..Len(ss) : IsSeq(f[k])
  BY Grown
<1> DEFINE T == {x \in UNION {{ss[i][j] : j \in 1..Len(ss[i])} : i \in 1..Len(ss)} : IsSeq(g[x])}
<1>3. \A i \in 1..Len(ss) : \A j \in 1..Len(ss[i]) : ss[i][j] \in T
  OBVIOUS
<1>4. \A x \in T : IsSeq(g[x])
  OBVIOUS
<1> HIDE DEF T
<1> DEFINE S == {k \in Nat : k <= Len(ss) => \A j \in 1..Len(f[k]) : f[k][j] \in T}
<1>5. 0 \in S
  BY <1>2, Empty
<1>6. ASSUME NEW k \in Nat, k \in S PROVE k + 1 \in S
  <2> SUFFICES ASSUME k + 1 <= Len(ss), NEW j \in 1..Len(f[k + 1]) PROVE f[k + 1][j] \in T
    OBVIOUS
  <2>1. PICK n \in 1..Len(ss) : n = k + 1 /\ n - 1 = k
    BY <1>1
  <2>2. PICK a, b : a = f[k] /\ b = ss[n] /\ IsSeq(a) /\ IsSeq(b) /\ f[n] = a \o b
    <3>1. k \in 0..Len(ss)
      BY <1>1
    <3> QED  BY <1>2, <2>1, <3>1 DEF Lists
  <2>3. \A i \in 1..Len(a) : a[i] \in T
    BY <1>1, <1>6, <2>2
  <2>4. \A i \in 1..Len(b) : b[i] \in T
    BY <1>3, <2>2
  <2>5. IsSeq(a) /\ IsSeq(b)
    BY <2>2
  <2>6. \A i \in 1..Len(a \o b) : (a \o b)[i] \in T
    BY <2>3, <2>4, <2>5, JoinedItems
  <2>7. j \in 1..Len(a \o b) /\ f[k + 1] = a \o b
    BY <2>1, <2>2
  <2> QED  BY <2>6, <2>7
<1>7. Nat \subseteq S
  <2> HIDE DEF S
  <2> QED  BY <1>5, <1>6, Induct
<1>8. \A k \in 0..Len(ss) : \A j \in 1..Len(f[k]) : IsSeq(g[f[k][j]])
  <2> TAKE k \in 0..Len(ss)
  <2>1. k \in S /\ k <= Len(ss)
    BY <1>1, <1>7
  <2> QED  BY <1>4, <2>1
<1> HIDE DEF S
<1>9. PICK tt : tt = [i \in DOMAIN ss |-> Chained(ss[i], g)]
  OBVIOUS
<1>10. IsSeq(tt) /\ Len(tt) = Len(ss) /\ \A i \in 1..Len(ss) : tt[i] = Chained(ss[i], g)
  <2>1. DOMAIN tt = DOMAIN ss /\ tt = [i \in DOMAIN tt |-> tt[i]]
    BY <1>9
  <2> QED  BY <1>1, <1>9, <2>1, Imaged
<1>11. Lists(tt)
  <2>1. ASSUME NEW i \in 1..Len(ss) PROVE IsSeq(Chained(ss[i], g))
    <3>1. IsSeq(ss[i])
      BY DEF Lists
    <3> QED  BY <3>1, ChainLists
  <2> QED  BY <1>10, <2>1 DEF Lists
<1>12. PICK h : h = [k \in 0..Len(ss) |-> Chained(f[k], g)]
  OBVIOUS
<1>13. h[0] = <<>>
  BY <1>1, <1>2, <1>12, ChainNone
<1>14. \A k \in 1..Len(tt) : h[k] = h[k - 1] \o tt[k]
  <2> SUFFICES ASSUME NEW k \in 1..Len(ss) PROVE h[k] = h[k - 1] \o tt[k]
    BY <1>10
  <2>1. PICK n \in 0..Len(ss) : n = k - 1
    BY <1>1
  <2>2. PICK a, b : a = f[n] /\ b = ss[k] /\ IsSeq(a) /\ IsSeq(b) /\ f[k] = a \o b
    BY <1>2, <2>1 DEF Lists
  <2>3. (\A j \in 1..Len(a) : IsSeq(g[a[j]])) /\ (\A j \in 1..Len(b) : IsSeq(g[b[j]]))
    BY <1>8, <2>2
  <2>4. Chained(a \o b, g) = Chained(a, g) \o Chained(b, g)
    BY <2>2, <2>3, ChainJoin, SMTT(30)
  <2>5. h[k] = Chained(a \o b, g) /\ h[n] = Chained(a, g) /\ tt[k] = Chained(b, g)
    <3>1. k \in 0..Len(ss)
      BY <1>1
    <3> QED  BY <1>10, <1>12, <2>2, <3>1
  <2> QED  BY <2>1, <2>4, <2>5
<1>15. Concat(tt) = h[Len(tt)]
  BY <1>11, <1>13, <1>14, ConcatIs
<1>16. h[Len(tt)] = Chained(Concat(ss), g)
  BY <1>1, <1>2, <1>10, <1>12
<1> QED  BY <1>9, <1>11, <1>15, <1>16

-----------------------------------------------------------------------------
(* Sequences that are joined, some of them left out.                       *)
Masked(ss, K) == [i \in DOMAIN ss |-> IF i \in K THEN ss[i] ELSE <<>>]

LEMMA MaskedLists ==
  ASSUME NEW ss, Lists(ss), NEW K
  PROVE  /\ Lists(Masked(ss, K)) /\ Len(Masked(ss, K)) = Len(ss)
         /\ \A i \in 1..Len(ss) : Masked(ss, K)[i] = IF i \in K THEN ss[i] ELSE <<>>
<1>1. PICK t : t = Masked(ss, K)
  OBVIOUS
<1>2. DOMAIN t = DOMAIN ss /\ t = [i \in DOMAIN t |-> t[i]] /\ IsSeq(ss)
  BY <1>1 DEF Masked, Lists
<1>3. IsSeq(t) /\ Len(t) = Len(ss) /\ DOMAIN ss = 1..Len(ss)
  BY <1>2, Imaged, SeqIs
<1>4. \A i \in 1..Len(ss) : t[i] = IF i \in K THEN ss[i] ELSE <<>>
  BY <1>1, <1>3 DEF Masked
<1>5. Lists(t)
  BY <1>3, <1>4, Empty DEF Lists
<1> QED  BY <1>1, <1>3, <1>4, <1>5

LEMMA Blank ==
  ASSUME NEW ss, Lists(ss), \A i \in 1..Len(ss) : ss[i] = <<>>
  PROVE  Concat(ss) = <<>>
<1>1. PICK f : f = [k \in 0..Len(ss) |-> <<>>]
  OBVIOUS
<1>2. Len(ss) \in Nat
  BY SeqIs DEF Lists
<1>3. f[0] = <<>> /\ f[Len(ss)] = <<>>
  BY <1>1, <1>2
<1>4. \A k \in 1..Len(ss) : f[k] = f[k - 1] \o ss[k]
  <2> TAKE k \in 1..Len(ss)
  <2>1. f[k] = <<>> /\ f[k - 1] = <<>> /\ ss[k] = <<>>
    BY <1>1, <1>2
  <2> QED  BY <2>1, Empty
<1> QED  BY <1>3, <1>4, ConcatIs

LEMMA MaskSplit ==
  ASSUME NEW ss, Lists(ss), NEW n \in 0..Len(ss)
  PROVE  Concat(ss) = Concat(Masked(ss, 1..n)) \o Concat(Masked(ss, 1..Len(ss) \ 1..n))
<1>0. \A x, y, z : IsSeq(x) /\ IsSeq(y) /\ IsSeq(z) => (x \o y) \o z = x \o (y \o z)
  <2> TAKE x, y, z
  <2> HAVE IsSeq(x) /\ IsSeq(y) /\ IsSeq(z)
  <2> QED  BY Associates, SMTT(20)
<1>1. IsSeq(ss) /\ Len(ss) \in Nat /\ n \in Nat /\ n <= Len(ss)
  BY SeqIs DEF Lists
<1>2. PICK f : /\ f[0] = <<>> /\ \A k \in 1..Len(ss) : f[k] = f[k - 1] \o ss[k]
               /\ Concat(ss) = f[Len(ss)] /\ \A k \in 0..Len(ss) : IsSeq(f[k])
  BY Grown
<1>3. PICK t, u : t = Masked(ss, 1..n) /\ u = Masked(ss, 1..Len(ss) \ 1..n)
  OBVIOUS
<1>4. /\ Lists(t) /\ Len(t) = Len(ss)
      /\ \A i \in 1..Len(ss) : t[i] = IF i \in 1..n THEN ss[i] ELSE <<>>
  BY <1>3, MaskedLists
<1>5. /\ Lists(u) /\ Len(u) = Len(ss)
      /\ \A i \in 1..Len(ss) : u[i] = IF i \in 1..Len(ss) \ 1..n THEN ss[i] ELSE <<>>
  BY <1>3, MaskedLists
<1>6. Concat(t) = f[n]
  <2>1. PICK h : h = [k \in 0..Len(ss) |-> IF k <= n THEN f[k] ELSE f[n]]
    OBVIOUS
  <2>2. h[0] = <<>> /\ h[Len(ss)] = f[n]
    BY <1>1, <1>2, <2>1
  <2>3. \A k \in 1..Len(t) : h[k] = h[k - 1] \o t[k]
    <3> SUFFICES ASSUME NEW k \in 1..Len(ss) PROVE h[k] = h[k - 1] \o t[k]
      BY <1>4
    <3>1. CASE k <= n
      <4>1. h[k] = f[k] /\ h[k - 1] = f[k - 1] /\ t[k] = ss[k]
        BY <1>1, <1>4, <2>1, <3>1
      <4> QED  BY <1>2, <4>1
    <3>2. CASE k > n
      <4>1. h[k] = f[n] /\ h[k - 1] = f[n] /\ t[k] = <<>>
        BY <1>1, <1>4, <2>1, <3>2
      <4> QED  BY <1>2, <4>1, Empty
    <3>3. k <= n \/ k > n
      BY <1>1
    <3> QED  BY <3>1, <3>2, <3>3
  <2>4. Concat(t) = h[Len(t)]
    BY <1>4, <2>2, <2>3, ConcatIs
  <2> QED  BY <1>4, <2>2, <2>4
<1>7. PICK g : /\ g[0] = <<>> /\ \A k \in 1..Len(u) : g[k] = g[k - 1] \o u[k]
               /\ Concat(u) = g[Len(u)] /\ \A k \in 0..Len(u) : IsSeq(g[k])
  BY <1>5, Grown
<1>a. PICK h : h = [k \in 0..Len(ss) |-> f[n] \o g[k]]
  OBVIOUS
<1> DEFINE S == {k \in Nat : k <= Len(ss) => ((k <= n => g[k] = <<>>) /\ (k > n => f[k] = h[k]))}
<1>8. 0 \in S
  BY <1>1, <1>7
<1>9. ASSUME NEW k \in Nat, k \in S PROVE k + 1 \in S
  <2> SUFFICES ASSUME k + 1 <= Len(ss)
               PROVE  /\ k + 1 <= n => g[k + 1] = <<>>
                      /\ k + 1 > n => f[k + 1] = h[k + 1]
    OBVIOUS
  <2>1. PICK j \in 1..Len(ss) : j = k + 1 /\ j - 1 = k
    BY <1>1
  <2>2. g[j] = g[k] \o u[j] /\ f[j] = f[k] \o ss[j]
    BY <1>2, <1>5, <1>7, <2>1
  <2>3. PICK a, b, c : a = f[n] /\ b = g[k] /\ c = ss[j] /\ IsSeq(a) /\ IsSeq(b) /\ IsSeq(c)
    <3>1. k \in 0..Len(ss)
      BY <1>1
    <3> QED  BY <1>2, <1>5, <1>7, <3>1 DEF Lists
  <2>4. CASE k + 1 <= n
    <3>1. g[k] = <<>> /\ u[j] = <<>>
      BY <1>1, <1>5, <1>9, <2>1, <2>4
    <3>2. g[j] = <<>>
      BY <2>2, <3>1, Empty
    <3>3. ~(k + 1 > n)
      BY <1>1, <2>4
    <3> QED  BY <2>1, <3>2, <3>3
  <2>5. CASE k + 1 > n
    <3>1. u[j] = c
      BY <1>1, <1>5, <2>1, <2>3, <2>5
    <3>2. f[k] = a \o b
      <4>1. CASE k <= n
        <5>1. k = n /\ b = <<>>
          BY <1>1, <1>9, <2>3, <2>5, <4>1
        <5> QED  BY <2>3, <5>1, Empty
      <4>2. CASE k > n
        <5>1. f[k] = h[k] /\ k \in 0..Len(ss)
          BY <1>1, <1>9, <4>2
        <5> QED  BY <1>a, <2>3, <5>1
      <4> QED  BY <1>1, <4>1, <4>2
    <3>3. (a \o b) \o c = a \o (b \o c)
      <4>1. IsSeq(a) /\ IsSeq(b) /\ IsSeq(c)
        BY <2>3
      <4> QED  BY <1>0, <4>1, SMTT(40)
    <3>4. f[j] = a \o g[j]
      BY <2>2, <2>3, <3>1, <3>2, <3>3
    <3>5. h[j] = a \o g[j]
      <4>1. j \in 0..Len(ss)
        BY <1>1
      <4> QED  BY <1>a, <2>3, <4>1
    <3> QED  BY <1>1, <2>1, <2>5, <3>4, <3>5
  <2> QED  BY <1>1, <2>4, <2>5
<1>10. Len(ss) \in S
  <2>1. Nat \subseteq S
    <3> HIDE DEF S
    <3> QED  BY <1>8, <1>9, Induct
  <2> QED  BY <1>1, <2>1
<1>11. f[Len(ss)] = f[n] \o g[Len(ss)]
  <2>1. CASE Len(ss) <= n
    <3>1. n = Len(ss) /\ g[Len(ss)] = <<>>
      BY <1>1, <1>10, <2>1
    <3> QED  BY <1>2, <3>1, Empty
  <2>2. CASE Len(ss) > n
    <3>1. f[Len(ss)] = h[Len(ss)] /\ Len(ss) \in 0..Len(ss)
      BY <1>1, <1>10, <2>2
    <3> QED  BY <1>a, <3>1
  <2>3. Len(ss) <= n \/ Len(ss) > n
    BY <1>1
  <2> QED  BY <2>1, <2>2, <2>3
<1> QED  BY <1>2, <1>3, <1>5, <1>6, <1>7, <1>11

(* Those that come first, and the rest.                                    *)
LEMMA Sorted ==
  ASSUME NEW ss, Lists(ss), NEW K,
         \A i, j \in 1..Len(ss) : i < j /\ j \in K => i \in K
  PROVE  Concat(ss) = Concat(Masked(ss, K)) \o Concat(Masked(ss, 1..Len(ss) \ K))
<1>1. IsSeq(ss) /\ Len(ss) \in Nat /\ DOMAIN ss = 1..Len(ss)
  BY SeqIs DEF Lists
<1>2. PICK n \in 0..Len(ss) : K \cap 1..Len(ss) = 1..n
  <2> DEFINE T == {i \in Nat : i + 1 \notin K \cap 1..Len(ss)}
  <2>1. Len(ss) \in T
    BY <1>1
  <2>2. PICK n \in T : \A i \in T : n <= i
    <3> HIDE DEF T
    <3>1. T \subseteq Nat /\ T # {}
      BY <2>1 DEF T
    <3> QED  BY <3>1, Least
  <2>3. n \in 0..Len(ss)
    BY <1>1, <2>1, <2>2
  <2>4. \A i \in 1..n : i \in K
    <3> TAKE i \in 1..n
    <3>1. i - 1 \in Nat /\ ~(n <= i - 1) /\ i - 1 + 1 = i
      BY <2>3
    <3> QED  BY <2>2, <3>1
  <2>5. \A i \in 1..Len(ss) : i \in K => i <= n
    <3> SUFFICES ASSUME NEW i \in 1..Len(ss), i \in K, i > n PROVE FALSE
      BY <1>1, <2>3
    <3>1. n + 1 \in 1..Len(ss) /\ n + 1 \notin K
      BY <1>1, <2>2, <2>3
    <3>2. i > n + 1
      BY <1>1, <2>3, <3>1
    <3> QED  BY <3>1, <3>2
  <2>6. 1..n \subseteq K \cap 1..Len(ss)
    BY <1>1, <2>3, <2>4
  <2>7. K \cap 1..Len(ss) \subseteq 1..n
    BY <1>1, <2>3, <2>5
  <2> QED  BY <2>3, <2>6, <2>7
<1>3. Masked(ss, K) = Masked(ss, 1..n)
  BY <1>1, <1>2 DEF Masked
<1>4. Masked(ss, 1..Len(ss) \ K) = Masked(ss, 1..Len(ss) \ 1..n)
  BY <1>1, <1>2 DEF Masked
<1> QED  BY <1>3, <1>4, MaskSplit

LEMMA PickedChain ==
  ASSUME NEW s, IsSeq(s), NEW g, \A i \in 1..Len(s) : IsSeq(g[s[i]]), NEW K
  PROVE  Chained(Picked(s, K), g) = Concat(Masked(Chain(s, g), K))
<1>1. PICK ss : ss = AtPlaces(s, K)
  OBVIOUS
<1>2. /\ Lists(ss) /\ Len(ss) = Len(s) /\ DOMAIN ss = 1..Len(s) /\ DOMAIN s = 1..Len(s)
      /\ \A i \in 1..Len(s) : ss[i] = IF i \in K THEN <<s[i]>> ELSE <<>>
  <2>1. /\ Lists(ss) /\ Len(ss) = Len(s)
        /\ \A i \in 1..Len(s) : ss[i] = IF i \in K THEN <<s[i]>> ELSE <<>>
    BY <1>1, PickedLists
  <2> QED  BY <2>1, SeqIs DEF Lists
<1>3. \A i \in 1..Len(ss) : \A j \in 1..Len(ss[i]) : IsSeq(g[ss[i][j]])
  <2> SUFFICES ASSUME NEW i \in 1..Len(s), NEW j \in 1..Len(ss[i]) PROVE IsSeq(g[ss[i][j]])
    BY <1>2
  <2>1. CASE i \in K
    <3>1. ss[i] = <<s[i]>>
      BY <1>2, <2>1
    <3>2. j = 1 /\ ss[i][j] = s[i]
      BY <3>1, One
    <3> QED  BY <3>2
  <2>2. CASE i \notin K
    BY <1>2, <2>2, Empty
  <2> QED  BY <2>1, <2>2
<1>4. Chained(Concat(ss), g) = Concat([i \in DOMAIN ss |-> Chained(ss[i], g)])
  BY <1>2, <1>3, ChainConcat
<1>5. [i \in DOMAIN ss |-> Chained(ss[i], g)] = Masked(Chain(s, g), K)
  <2>1. DOMAIN Chain(s, g) = 1..Len(s) /\ \A i \in 1..Len(s) : Chain(s, g)[i] = g[s[i]]
    BY <1>2 DEF Chain
  <2>2. \A i \in 1..Len(s) : Chained(ss[i], g) = IF i \in K THEN g[s[i]] ELSE <<>>
    BY <1>2, ChainOne, ChainNone
  <2> QED  BY <1>2, <2>1, <2>2 DEF Masked
<1> QED  BY <1>1, <1>4, <1>5 DEF Picked

-----------------------------------------------------------------------------
(* Messages, and parts, as such a chain.                                   *)
LEMMA ToldChain ==
  ASSUME NEW ms, ChatForms(ms), NEW T, \A i \in 1..Len(ms) : ms[i] \in T,
         NEW g, g = [m \in T |-> ChatTurn(m)]
  PROVE  Told(ms) = Chain(ms, g) /\ \A i \in 1..Len(ms) : IsSeq(g[ms[i]])
<1>1. \A i \in 1..Len(ms) : g[ms[i]] = ChatTurn(ms[i])
  OBVIOUS
<1>2. DOMAIN ms = 1..Len(ms)
  BY SeqIs DEF ChatForms
<1>3. Told(ms) = Chain(ms, g)
  BY <1>1, <1>2 DEF Told, Each, Chain
<1>4. \A i \in 1..Len(ms) : IsSeq(g[ms[i]])
  BY <1>1, ChatTurnSays DEF ChatForms
<1> QED  BY <1>3, <1>4

LEMMA ToldConcat ==
  ASSUME NEW ss, Lists(ss), \A i \in 1..Len(ss) : ChatForms(ss[i])
  PROVE  /\ ChatForms(Concat(ss))
         /\ Concat(Told(Concat(ss))) = Concat([i \in DOMAIN ss |-> Concat(Told(ss[i]))])
         /\ Lists([i \in DOMAIN ss |-> Concat(Told(ss[i]))])
<1> DEFINE T == {m \in UNION {{ss[i][j] : j \in 1..Len(ss[i])} : i \in 1..Len(ss)} : ChatForm(m)}
<1>1. \A i \in 1..Len(ss) : \A j \in 1..Len(ss[i]) : ss[i][j] \in T
  BY DEF ChatForms
<1>2. \A m \in T : ChatForm(m)
  OBVIOUS
<1> HIDE DEF T
<1>3. IsSeq(Concat(ss)) /\ \A j \in 1..Len(Concat(ss)) : Concat(ss)[j] \in T
  BY <1>1, ConcatSeq, Gathered
<1>4. ChatForms(Concat(ss))
  BY <1>2, <1>3 DEF ChatForms
<1>5. PICK g : g = [m \in T |-> ChatTurn(m)]
  OBVIOUS
<1>6. Told(Concat(ss)) = Chain(Concat(ss), g)
  BY <1>3, <1>4, <1>5, ToldChain
<1>7. \A i \in 1..Len(ss) : Told(ss[i]) = Chain(ss[i], g) /\ \A j \in 1..Len(ss[i]) : IsSeq(g[ss[i][j]])
  BY <1>1, <1>5, ToldChain
<1>8. /\ Chained(Concat(ss), g) = Concat([i \in DOMAIN ss |-> Chained(ss[i], g)])
      /\ Lists([i \in DOMAIN ss |-> Chained(ss[i], g)])
  BY <1>7, ChainConcat
<1>9. [i \in DOMAIN ss |-> Chained(ss[i], g)] = [i \in DOMAIN ss |-> Concat(Told(ss[i]))]
  <2>1. DOMAIN ss = 1..Len(ss)
    BY SeqIs DEF Lists
  <2> QED  BY <1>7, <2>1 DEF Chained
<1> QED  BY <1>4, <1>6, <1>8, <1>9 DEF Chained

LEMMA ToldPicked ==
  ASSUME NEW ms, ChatForms(ms), NEW K
  PROVE  /\ ChatForms(Picked(ms, K))
         /\ Concat(Told(Picked(ms, K))) = Concat(Masked(Told(ms), K))
<1> DEFINE T == {m \in {ms[i] : i \in 1..Len(ms)} : ChatForm(m)}
<1>1. \A i \in 1..Len(ms) : ms[i] \in T
  BY DEF ChatForms
<1>2. \A m \in T : ChatForm(m)
  OBVIOUS
<1> HIDE DEF T
<1>3. IsSeq(ms)
  BY DEF ChatForms
<1>4. IsSeq(Picked(ms, K)) /\ \A j \in 1..Len(Picked(ms, K)) : Picked(ms, K)[j] \in T
  BY <1>1, <1>3, PickedFrom
<1>5. ChatForms(Picked(ms, K))
  BY <1>2, <1>4 DEF ChatForms
<1>6. PICK g : g = [m \in T |-> ChatTurn(m)]
  OBVIOUS
<1>7. Told(Picked(ms, K)) = Chain(Picked(ms, K), g)
  BY <1>4, <1>5, <1>6, ToldChain
<1>8. Told(ms) = Chain(ms, g) /\ \A i \in 1..Len(ms) : IsSeq(g[ms[i]])
  BY <1>1, <1>6, ToldChain
<1>9. Chained(Picked(ms, K), g) = Concat(Masked(Chain(ms, g), K))
  BY <1>3, <1>8, PickedChain
<1> QED  BY <1>5, <1>7, <1>8, <1>9 DEF Chained

LEMMA UtteredChain ==
  ASSUME NEW by, NEW ps, PlainParts(ps), NEW T, \A i \in 1..Len(ps) : ps[i] \in T,
         NEW g, g = [p \in T |-> Utterance(by, p)]
  PROVE  Uttered(by, ps) = Chain(ps, g) /\ \A i \in 1..Len(ps) : IsSeq(g[ps[i]])
<1>1. \A i \in 1..Len(ps) : g[ps[i]] = Utterance(by, ps[i])
  OBVIOUS
<1>2. DOMAIN ps = 1..Len(ps)
  BY SeqIs DEF PlainParts
<1>3. Uttered(by, ps) = Chain(ps, g)
  BY <1>1, <1>2 DEF Uttered, Each, Chain
<1>4. \A i \in 1..Len(ps) : IsSeq(g[ps[i]])
  BY <1>1, <1>2, UtteranceSeq DEF PlainParts
<1> QED  BY <1>3, <1>4

LEMMA PickedPlain ==
  ASSUME NEW ps, PlainParts(ps), NEW K
  PROVE  PlainParts(Picked(ps, K))
<1>1. IsSeq(ps) /\ DOMAIN ps = 1..Len(ps)
  BY SeqIs DEF PlainParts
<1>2. PICK qs : qs = Picked(ps, K)
  OBVIOUS
<1>3. IsSeq(qs) /\ \A j \in 1..Len(qs) : \E i \in K \cap 1..Len(ps) : qs[j] = ps[i]
  BY <1>1, <1>2, PickedFrom
<1>4. DOMAIN qs = 1..Len(qs)
  BY <1>3, SeqIs
<1> QED  BY <1>1, <1>2, <1>3, <1>4 DEF PlainParts

LEMMA SpokePicked ==
  ASSUME NEW by, NEW ps, PlainParts(ps), NEW K
  PROVE  Spoke(by, Picked(ps, K)) = Concat(Masked(Uttered(by, ps), K))
<1> DEFINE T == {ps[i] : i \in 1..Len(ps)}
<1>1. \A i \in 1..Len(ps) : ps[i] \in T
  OBVIOUS
<1> HIDE DEF T
<1>2. IsSeq(ps) /\ PlainParts(Picked(ps, K))
  BY PickedPlain DEF PlainParts
<1>3. \A j \in 1..Len(Picked(ps, K)) : Picked(ps, K)[j] \in T
  BY <1>1, <1>2, PickedFrom
<1>4. PICK g : g = [p \in T |-> Utterance(by, p)]
  OBVIOUS
<1>5. Uttered(by, Picked(ps, K)) = Chain(Picked(ps, K), g)
  BY <1>2, <1>3, <1>4, UtteredChain
<1>6. Uttered(by, ps) = Chain(ps, g) /\ \A i \in 1..Len(ps) : IsSeq(g[ps[i]])
  BY <1>1, <1>4, UtteredChain
<1>7. Chained(Picked(ps, K), g) = Concat(Masked(Chain(ps, g), K))
  BY <1>2, <1>6, PickedChain
<1>8. Spoke(by, Picked(ps, K)) = Concat(Uttered(by, Picked(ps, K)))
  BY <1>2, SpokeSeq
<1> QED  BY <1>5, <1>6, <1>7, <1>8 DEF Chained

-----------------------------------------------------------------------------
(* The utterances of some kinds.                                           *)
Kind(speech, kinds) ==
  Concat([i \in DOMAIN speech |-> IF speech[i].is \in kinds THEN <<speech[i]>> ELSE <<>>])
Telling == {"text", "image"}
Dealing == {"call", "result"}

LEMMA ProseIs ==
  ASSUME NEW speech
  PROVE  Prose(speech) = Kind(speech, Telling) /\ Traffic(speech) = Kind(speech, Dealing)
BY DEF Prose, Traffic, With, Each, Kind, Telling, Dealing

LEMMA KindChain ==
  ASSUME NEW s, IsSeq(s), NEW T, \A i \in 1..Len(s) : s[i] \in T, NEW kinds,
         NEW g, g = [u \in T |-> IF u.is \in kinds THEN <<u>> ELSE <<>>]
  PROVE  /\ Kind(s, kinds) = Chained(s, g) /\ \A i \in 1..Len(s) : IsSeq(g[s[i]])
         /\ IsSeq(Kind(s, kinds))
<1>1. \A i \in 1..Len(s) : g[s[i]] = IF s[i].is \in kinds THEN <<s[i]>> ELSE <<>>
  OBVIOUS
<1>2. DOMAIN s = 1..Len(s)
  BY SeqIs
<1>3. Kind(s, kinds) = Chained(s, g)
  BY <1>1, <1>2 DEF Kind, Chained, Chain
<1>4. \A i \in 1..Len(s) : IsSeq(g[s[i]])
  BY <1>1, One, Empty
<1> QED  BY <1>3, <1>4, ChainLists

LEMMA KindJoin ==
  ASSUME NEW s, NEW t, IsSeq(s), IsSeq(t), NEW kinds
  PROVE  /\ Kind(s \o t, kinds) = Kind(s, kinds) \o Kind(t, kinds)
         /\ IsSeq(Kind(s, kinds)) /\ IsSeq(Kind(t, kinds))
<1> DEFINE T == {s[i] : i \in 1..Len(s)} \cup {t[i] : i \in 1..Len(t)}
<1>1. (\A i \in 1..Len(s) : s[i] \in T) /\ (\A i \in 1..Len(t) : t[i] \in T)
  OBVIOUS
<1> HIDE DEF T
<1>2. PICK r : r = s \o t /\ IsSeq(r)
  BY Joined
<1>3. \A i \in 1..Len(r) : r[i] \in T
  BY <1>1, <1>2, JoinedItems
<1>4. PICK g : g = [u \in T |-> IF u.is \in kinds THEN <<u>> ELSE <<>>]
  OBVIOUS
<1>5. /\ Kind(s, kinds) = Chained(s, g) /\ \A i \in 1..Len(s) : IsSeq(g[s[i]])
      /\ IsSeq(Kind(s, kinds))
  BY <1>1, <1>4, KindChain
<1>6. /\ Kind(t, kinds) = Chained(t, g) /\ \A i \in 1..Len(t) : IsSeq(g[t[i]])
      /\ IsSeq(Kind(t, kinds))
  BY <1>1, <1>4, KindChain
<1>7. Kind(r, kinds) = Chained(r, g)
  BY <1>2, <1>3, <1>4, KindChain
<1>8. Chained(s \o t, g) = Chained(s, g) \o Chained(t, g)
  BY <1>5, <1>6, ChainJoin
<1> QED  BY <1>2, <1>5, <1>6, <1>7, <1>8

LEMMA KindConcat ==
  ASSUME NEW ss, Lists(ss), NEW kinds
  PROVE  /\ Kind(Concat(ss), kinds) = Concat([i \in DOMAIN ss |-> Kind(ss[i], kinds)])
         /\ Lists([i \in DOMAIN ss |-> Kind(ss[i], kinds)])
<1> DEFINE T == UNION {{ss[i][j] : j \in 1..Len(ss[i])} : i \in 1..Len(ss)}
<1>1. \A i \in 1..Len(ss) : \A j \in 1..Len(ss[i]) : ss[i][j] \in T
  OBVIOUS
<1> HIDE DEF T
<1>2. IsSeq(Concat(ss)) /\ \A j \in 1..Len(Concat(ss)) : Concat(ss)[j] \in T
  BY <1>1, ConcatSeq, Gathered
<1>3. PICK g : g = [u \in T |-> IF u.is \in kinds THEN <<u>> ELSE <<>>]
  OBVIOUS
<1>4. Kind(Concat(ss), kinds) = Chained(Concat(ss), g)
  BY <1>2, <1>3, KindChain
<1>5. \A i \in 1..Len(ss) : /\ Kind(ss[i], kinds) = Chained(ss[i], g)
                            /\ \A j \in 1..Len(ss[i]) : IsSeq(g[ss[i][j]])
  <2> TAKE i \in 1..Len(ss)
  <2>1. IsSeq(ss[i]) /\ \A j \in 1..Len(ss[i]) : ss[i][j] \in T
    BY <1>1 DEF Lists
  <2> QED  BY <1>3, <2>1, KindChain
<1>6. /\ Chained(Concat(ss), g) = Concat([i \in DOMAIN ss |-> Chained(ss[i], g)])
      /\ Lists([i \in DOMAIN ss |-> Chained(ss[i], g)])
  BY <1>5, ChainConcat
<1>7. [i \in DOMAIN ss |-> Chained(ss[i], g)] = [i \in DOMAIN ss |-> Kind(ss[i], kinds)]
  <2>1. DOMAIN ss = 1..Len(ss)
    BY SeqIs DEF Lists
  <2> QED  BY <1>5, <2>1
<1> QED  BY <1>4, <1>6, <1>7

LEMMA KindNone ==
  ASSUME NEW kinds
  PROVE  Kind(<<>>, kinds) = <<>>
<1>1. PICK g : g = [u \in {} |-> IF u.is \in kinds THEN <<u>> ELSE <<>>]
  OBVIOUS
<1>2. IsSeq(<<>>) /\ \A i \in 1..Len(<<>>) : <<>>[i] \in {}
  BY Empty
<1>3. Kind(<<>>, kinds) = Chained(<<>>, g)
  BY <1>1, <1>2, KindChain
<1> QED  BY <1>3, ChainNone

LEMMA KindOne ==
  ASSUME NEW u, NEW kinds
  PROVE  Kind(<<u>>, kinds) = IF u.is \in kinds THEN <<u>> ELSE <<>>
<1>1. PICK g : g = [v \in {u} |-> IF v.is \in kinds THEN <<v>> ELSE <<>>]
  OBVIOUS
<1>2. IsSeq(<<u>>) /\ \A i \in 1..Len(<<u>>) : <<u>>[i] \in {u}
  <2>1. IsSeq(<<u>>) /\ Len(<<u>>) = 1 /\ <<u>>[1] = u
    BY One
  <2>2. \A i \in 1..1 : i = 1
    OBVIOUS
  <2> QED  BY <2>1, <2>2
<1>3. Kind(<<u>>, kinds) = Chained(<<u>>, g)
  BY <1>1, <1>2, KindChain, ZenonT(30)
<1>4. g[u] = IF u.is \in kinds THEN <<u>> ELSE <<>>
  BY <1>1
<1>5. IsSeq(g[u])
  BY <1>4, One, Empty
<1> QED  BY <1>3, <1>4, <1>5, ChainOne

-----------------------------------------------------------------------------
(* The three translations that look at what they have made so far.         *)
Step(kind, made, x) ==
  CASE kind = "items" -> responses_item_to_chat(made, x)
    [] kind = "parts" -> anthropic_user_part_to_openai(made, x)
    [] kind = "messages" -> convert_openai_message(made, x)

Steps(kind, before, items, f, n) ==
  /\ f = [i \in 0..n |-> f[i]] /\ f[0] = before
  /\ \A i \in 1..n : f[i] = Step(kind, f[i - 1], items[i])

LEMMA StepsExist ==
  ASSUME NEW kind, NEW before, NEW items, NEW n \in Nat
  PROVE  \E f : Steps(kind, before, items, f, n)
<1> DEFINE S == {k \in Nat : \E f : Steps(kind, before, items, f, k)}
<1>1. 0 \in S
  <2> DEFINE f == [i \in 0..0 |-> before]
  <2>1. Steps(kind, before, items, f, 0)
    BY DEF Steps
  <2> QED  BY <2>1
<1>2. ASSUME NEW k \in Nat, k \in S PROVE k + 1 \in S
  <2>1. PICK f : Steps(kind, before, items, f, k)
    BY <1>2
  <2>2. PICK g : g = [i \in 0..k + 1 |-> IF i = k + 1 THEN Step(kind, f[k], items[i]) ELSE f[i]]
    OBVIOUS
  <2>3. g = [i \in 0..k + 1 |-> g[i]] /\ g[0] = before
    BY <2>1, <2>2 DEF Steps
  <2>4. ASSUME NEW i \in 1..k + 1
        PROVE  g[i] = Step(kind, g[i - 1], items[i])
    <3>1. g[i - 1] = f[i - 1]
      BY <2>2
    <3>2. CASE i = k + 1
      <4>1. i - 1 = k
        BY <3>2
      <4> QED  BY <2>2, <3>1, <3>2, <4>1
    <3>3. CASE i # k + 1
      <4>1. i \in 1..k
        BY <3>3
      <4>2. g[i] = f[i]
        BY <2>2, <3>3
      <4>3. f[i] = Step(kind, f[i - 1], items[i])
        BY <2>1, <4>1 DEF Steps
      <4> QED  BY <3>1, <4>2, <4>3
    <3> QED  BY <3>2, <3>3
  <2>5. Steps(kind, before, items, g, k + 1)
    BY <2>3, <2>4 DEF Steps
  <2>6. k + 1 \in Nat
    OBVIOUS
  <2> QED  BY <2>5, <2>6
<1> HIDE DEF S
<1>3. n \in S
  BY <1>1, <1>2, Induct
<1> QED  BY <1>3 DEF S

LEMMA ItemsFolded ==
  ASSUME NEW before, NEW items, Len(items) \in Nat
  PROVE  \E made : /\ made[0] = before
                   /\ \A n \in 1..Len(items) :
                        made[n] = responses_item_to_chat(made[n - 1], items[n])
                   /\ responses_input_to_chat(items, before) = made[Len(items)]
<1> DEFINE made == CHOOSE f : f = [n \in 0..Len(items) |-> IF n = 0 THEN before
                                      ELSE responses_item_to_chat(f[n - 1], items[n])]
<1>1. responses_input_to_chat(items, before) = made[Len(items)]
  BY DEF responses_input_to_chat, Folded
<1>2. \E f : f = [n \in 0..Len(items) |-> IF n = 0 THEN before
                    ELSE responses_item_to_chat(f[n - 1], items[n])]
  <2>1. \A m, x : Step("items", m, x) = responses_item_to_chat(m, x)
    BY Zenon DEF Step
  <2>2. PICK f : Steps("items", before, items, f, Len(items))
    BY StepsExist
  <2>3. f = [n \in 0..Len(items) |-> IF n = 0 THEN before
               ELSE responses_item_to_chat(f[n - 1], items[n])]
    BY <2>1, <2>2 DEF Steps
  <2> QED  BY <2>3
<1>3. made = [n \in 0..Len(items) |-> IF n = 0 THEN before
                ELSE responses_item_to_chat(made[n - 1], items[n])]
  BY <1>2, Zenon
<1> HIDE DEF made
<1>4. made[0] = before /\ \A n \in 1..Len(items) :
        made[n] = responses_item_to_chat(made[n - 1], items[n])
  BY <1>3
<1> QED  BY <1>1, <1>4

LEMMA PartsFolded ==
  ASSUME NEW before, NEW items, Len(items) \in Nat
  PROVE  \E made : /\ made[0] = before
                   /\ \A n \in 1..Len(items) :
                        made[n] = anthropic_user_part_to_openai(made[n - 1], items[n])
                   /\ Folded(anthropic_user_part_to_openai, before, items) = made[Len(items)]
<1> DEFINE made == CHOOSE f : f = [n \in 0..Len(items) |-> IF n = 0 THEN before
                                      ELSE anthropic_user_part_to_openai(f[n - 1], items[n])]
<1>1. Folded(anthropic_user_part_to_openai, before, items) = made[Len(items)]
  BY DEF Folded
<1>2. \E f : f = [n \in 0..Len(items) |-> IF n = 0 THEN before
                    ELSE anthropic_user_part_to_openai(f[n - 1], items[n])]
  <2>1. \A m, x : Step("parts", m, x) = anthropic_user_part_to_openai(m, x)
    BY Zenon DEF Step
  <2>2. PICK f : Steps("parts", before, items, f, Len(items))
    BY StepsExist
  <2>3. f = [n \in 0..Len(items) |-> IF n = 0 THEN before
               ELSE anthropic_user_part_to_openai(f[n - 1], items[n])]
    BY <2>1, <2>2 DEF Steps
  <2> QED  BY <2>3
<1>3. made = [n \in 0..Len(items) |-> IF n = 0 THEN before
                ELSE anthropic_user_part_to_openai(made[n - 1], items[n])]
  BY <1>2, Zenon
<1> HIDE DEF made
<1>4. made[0] = before /\ \A n \in 1..Len(items) :
        made[n] = anthropic_user_part_to_openai(made[n - 1], items[n])
  BY <1>3
<1> QED  BY <1>1, <1>4

LEMMA MessagesFolded ==
  ASSUME NEW before, NEW items, Len(items) \in Nat
  PROVE  \E made : /\ made[0] = before
                   /\ \A n \in 1..Len(items) :
                        made[n] = convert_openai_message(made[n - 1], items[n])
                   /\ Folded(convert_openai_message, before, items) = made[Len(items)]
<1> DEFINE made == CHOOSE f : f = [n \in 0..Len(items) |-> IF n = 0 THEN before
                                      ELSE convert_openai_message(f[n - 1], items[n])]
<1>1. Folded(convert_openai_message, before, items) = made[Len(items)]
  BY DEF Folded
<1>2. \E f : f = [n \in 0..Len(items) |-> IF n = 0 THEN before
                    ELSE convert_openai_message(f[n - 1], items[n])]
  <2>1. \A m, x : Step("messages", m, x) = convert_openai_message(m, x)
    BY Zenon DEF Step
  <2>2. PICK f : Steps("messages", before, items, f, Len(items))
    BY StepsExist
  <2>3. f = [n \in 0..Len(items) |-> IF n = 0 THEN before
               ELSE convert_openai_message(f[n - 1], items[n])]
    BY <2>1, <2>2 DEF Steps
  <2> QED  BY <2>3
<1>3. made = [n \in 0..Len(items) |-> IF n = 0 THEN before
                ELSE convert_openai_message(made[n - 1], items[n])]
  BY <1>2, Zenon
<1> HIDE DEF made
<1>4. made[0] = before /\ \A n \in 1..Len(items) :
        made[n] = convert_openai_message(made[n - 1], items[n])
  BY <1>3
<1> QED  BY <1>1, <1>4

-----------------------------------------------------------------------------
(* A message the hub was given by another dialect: its results are texts,  *)
(* and no speaker is labelled.                                             *)
Tidy(m) == /\ m.role = "tool" => m.content.form # "parts"
           /\ m.role # "tool" => m.name = ""
AllTidy(ms) == \A i \in 1..Len(ms) : ms[i] = Bad \/ Tidy(ms[i])

LEMMA TidyAppended ==
  ASSUME NEW ms, IsSeq(ms), AllTidy(ms), NEW m, m = Bad \/ Tidy(m)
  PROVE  AllTidy(Append(ms, m))
<1> DEFINE T == {x \in {ms[i] : i \in 1..Len(ms)} \cup {m} : x = Bad \/ Tidy(x)}
<1>1. \A i \in 1..Len(ms) : ms[i] \in T
  BY DEF AllTidy
<1>2. m \in T /\ \A x \in T : x = Bad \/ Tidy(x)
  OBVIOUS
<1> HIDE DEF T
<1>3. IsSeq(<<m>>) /\ \A i \in 1..Len(<<m>>) : <<m>>[i] \in T
  <2>1. \A i \in 1..1 : i = 1
    OBVIOUS
  <2> QED  BY <1>2, <2>1, One
<1>4. \A i \in 1..Len(ms \o <<m>>) : (ms \o <<m>>)[i] \in T
  BY <1>1, <1>3, JoinedItems
<1>5. Append(ms, m) = ms \o <<m>>
  BY Appended
<1> QED  BY <1>2, <1>4, <1>5 DEF AllTidy

LEMMA TidyFront ==
  ASSUME NEW ms, IsSeq(ms), AllTidy(ms), ms # <<>>
  PROVE  AllTidy(Front(ms)) /\ IsSeq(Front(ms)) /\ (Last(ms) = Bad \/ Tidy(Last(ms)))
<1>1. /\ IsSeq(Front(ms)) /\ Len(ms) \in Nat \ {0}
      /\ Len(Front(ms)) = Len(ms) - 1 /\ Last(ms) = ms[Len(ms)]
      /\ \A i \in 1..Len(ms) - 1 : Front(ms)[i] = ms[i]
  BY ButLast
<1>2. Len(ms) \in 1..Len(ms) /\ \A i \in 1..Len(ms) - 1 : i \in 1..Len(ms)
  BY <1>1
<1> QED  BY <1>1, <1>2 DEF AllTidy

LEMMA TidyMerged ==
  ASSUME NEW ms, IsSeq(ms), AllTidy(ms), NEW role, NEW extended, NEW message, Tidy(message),
         (ms # <<>> /\ Last(ms).role = role) => Tidy(extended)
  PROVE  AllTidy(Merge(ms, role, extended, message))
<1>1. CASE ms # <<>> /\ Last(ms).role = role
  <2>1. Merge(ms, role, extended, message) = Append(Front(ms), extended)
    BY <1>1 DEF Merge
  <2> QED  BY <1>1, <2>1, TidyFront, TidyAppended
<1>2. CASE ~(ms # <<>> /\ Last(ms).role = role)
  <2>1. Merge(ms, role, extended, message) = Append(ms, message)
    BY <1>2 DEF Merge
  <2> QED  BY <2>1, TidyAppended
<1> QED  BY <1>1, <1>2

(* One item of Responses, after messages none of which was refused.        *)
LEMMA ResponsesContent ==
  ASSUME NEW c, Content(c), PlainParts(c.parts), NEW role, NEW by,
         NEW h, h = responses_content_to_chat(c, role), ~AnyBad(h.parts)
  PROVE  /\ Content(h) /\ PlainParts(h.parts)
         /\ Spoke(by, h.parts) = Spoke(by, c.parts)
<1>1. /\ h.form = c.form /\ h = [form |-> h.form, parts |-> h.parts]
      /\ DOMAIN h.parts = DOMAIN c.parts /\ h.parts = [i \in DOMAIN h.parts |-> h.parts[i]]
  BY DEF responses_content_to_chat, Content, Each
<1>2. IsSeq(c.parts) /\ DOMAIN c.parts = 1..Len(c.parts)
  BY SeqIs DEF PlainParts
<1>3. IsSeq(h.parts) /\ Len(h.parts) = Len(c.parts) /\ DOMAIN h.parts = 1..Len(c.parts)
  BY <1>1, <1>2, Imaged
<1>4. ASSUME NEW i \in 1..Len(c.parts)
      PROVE  /\ PlainForm(h.parts[i]) /\ Utterance(by, h.parts[i]) = Utterance(by, c.parts[i])
             /\ c.form = "string" => h.parts[i] = c.parts[i]
  <2>1. PICK p, q : p = c.parts[i] /\ q = h.parts[i] /\ PlainForm(p) /\ q # Bad
    BY <1>2, <1>3 DEF PlainParts, AnyBad
  <2>2. q = CASE p.is \in {"input_text", "output_text"} -> [is |-> "text", text |-> p.text]
              [] p.is = "text" /\ c.form = "string" -> p
              [] p.is = "input_image" /\ role = "user" ->
                   [is |-> "image_url", url |-> p.url, detail |-> p.detail]
              [] OTHER -> Bad
    BY <1>2, <2>1 DEF responses_content_to_chat, Content, Each
  <2>3. CASE p.is \in {"input_text", "output_text"}
    <3>1. q = [is |-> "text", text |-> p.text]
      BY <2>2, <2>3
    <3>2. Utterance(by, q) = Texts(by, q.text) /\ Utterance(by, p) = Texts(by, p.text)
      BY <2>3, <3>1 DEF Utterance
    <3>3. c.form # "string"
      BY <1>2, <2>1, <2>3, One DEF Content
    <3> QED  BY <2>1, <2>3, <3>1, <3>2, <3>3 DEF PlainForm
  <2>4. CASE p.is = "text" /\ c.form = "string"
    BY <2>1, <2>2, <2>4
  <2>5. CASE p.is = "input_image" /\ role = "user"
    <3>1. q = [is |-> "image_url", url |-> p.url, detail |-> p.detail]
      BY <2>2, <2>5
    <3>2. Utterance(by, q) = Shows(by, q.url.form, q.url.ref, q.detail, "")
      BY <3>1 DEF Utterance
    <3>3. Utterance(by, p) = Shows(by, p.url.form, p.url.ref, p.detail, "")
      BY <2>5 DEF Utterance
    <3>4. c.form # "string"
      BY <1>2, <2>1, <2>5, One DEF Content
    <3>5. q.url = p.url /\ q.detail = p.detail /\ q.is = "image_url"
      BY <3>1
    <3>6. Utterance(by, q) = Utterance(by, p)
      BY <3>2, <3>3, <3>5
    <3>7. PlainForm(q)
      BY <2>1, <2>5, <3>5 DEF PlainForm
    <3> QED  BY <2>1, <3>4, <3>6, <3>7
  <2>6. CASE ~(p.is \in {"input_text", "output_text"}) /\ ~(p.is = "text" /\ c.form = "string")
             /\ ~(p.is = "input_image" /\ role = "user")
    BY <2>1, <2>2, <2>6
  <2> QED  BY <2>3, <2>4, <2>5, <2>6
<1>5. PlainParts(h.parts)
  BY <1>3, <1>4 DEF PlainParts
<1>6. Spoke(by, h.parts) = Spoke(by, c.parts)
  BY <1>3, <1>4, <1>5, SpokeAlike
<1>7. Content(h)
  <2>1. CASE c.form = "parts"
    BY <1>1, <2>1 DEF Content
  <2>2. CASE c.form # "parts"
    <3>1. \A i \in 1..Len(c.parts) : h.parts[i] = c.parts[i]
      <4>1. c.form = "absent" => Len(c.parts) = 0
        BY <1>2, Empty DEF Content
      <4> QED  BY <1>4, <2>2, <4>1 DEF Content
    <3>2. h.parts = c.parts
      BY <1>2, <1>3, <3>1, Alike
    <3> QED  BY <1>1, <2>2, <3>2 DEF Content
  <2> QED  BY <2>1, <2>2
<1> QED  BY <1>5, <1>6, <1>7

LEMMA NotBad == ASSUME NEW m, ChatForm(m) PROVE m # Bad
BY DEF ChatForm, Message, Bad

LEMMA BadLast ==
  ASSUME NEW ms, Hub(ms)
  PROVE  Hub(Append(ms, Bad)) /\ AnyBad(Append(ms, Bad))
<1>1. PICK ns : ns = Append(ms, Bad) /\ ns = ms \o <<Bad>> /\ Hub(ns)
  BY HubAppended
<1>2. IsSeq(ms) /\ IsSeq(<<Bad>>) /\ Len(<<Bad>>) = 1 /\ <<Bad>>[1] = Bad /\ Len(ms) \in Nat
  BY One, SeqIs DEF Hub
<1>3. Len(ns) = Len(ms) + 1 /\ ns[Len(ms) + 1] = Bad
  <2>1. Len(ns) = Len(ms) + Len(<<Bad>>)
    BY <1>1, <1>2, Joined
  <2>2. \A i \in 1..Len(<<Bad>>) : ns[Len(ms) + i] = <<Bad>>[i]
    BY <1>1, <1>2, Joined
  <2>3. 1 \in 1..Len(<<Bad>>)
    BY <1>2
  <2> QED  BY <1>2, <2>1, <2>2, <2>3
<1>4. Len(ms) + 1 \in 1..Len(ns) /\ IsSeq(ns)
  BY <1>1, <1>2, <1>3 DEF Hub
<1>5. AnyBad(ns)
  BY <1>3, <1>4, BadPart
<1> QED  BY <1>1, <1>5

LEMMA CallsAlone ==
  ASSUME NEW call, NEW m, m = Message("assistant", Absent, <<call>>, "", "")
  PROVE  ChatForm(m) /\ ChatTurn(m) = Calls(call)
<1>1. /\ m.role = "assistant" /\ m.content = Absent /\ m.calls = <<call>> /\ m.id = ""
      /\ m.name = "" /\ m = Message(m.role, m.content, m.calls, m.id, m.name)
  BY DEF Message
<1>2. IsSeq(<<call>>)
  BY One
<1>3. ChatForm(m)
  BY <1>1, <1>2, AbsentSays DEF ChatForm
<1>4. PICK b : b = Calls(call) /\ IsSeq(b) /\ Concat(Called(m.calls)) = b
  BY <1>1, CalledOne
<1>5. Spoke(SpeakerOf(m), m.content.parts) = <<>>
  BY <1>1, AbsentSays, SpokeNone
<1>6. ChatTurn(m) = <<>> \o b
  BY <1>1, <1>3, <1>4, <1>5, ChatTurnSays
<1> QED  BY <1>3, <1>4, <1>6, Empty

LEMMA Unlabelled ==
  ASSUME NEW m, m.name = ""
  PROVE  SpeakerOf(m) = Speaker(m.role)
BY Zenon DEF SpeakerOf

LEMMA CallAdded ==
  ASSUME NEW m, ChatForm(m), Tidy(m), m.role = "assistant", NEW call,
         NEW l, l = [m EXCEPT !.calls = Append(@, call)]
  PROVE  ChatForm(l) /\ ChatTurn(l) = ChatTurn(m) \o Calls(call) /\ Tidy(l)
<1>1. /\ m = Message(m.role, m.content, m.calls, m.id, m.name)
      /\ Content(m.content) /\ PlainParts(m.content.parts) /\ IsSeq(m.calls)
  BY DEF ChatForm
<1>2. /\ l.role = m.role /\ l.content = m.content /\ l.calls = Append(m.calls, call)
      /\ l.id = m.id /\ l.name = m.name /\ l = Message(l.role, l.content, l.calls, l.id, l.name)
  BY <1>1 DEF Message
<1>3. l.calls = m.calls \o <<call>> /\ IsSeq(l.calls)
  BY <1>1, <1>2, Appended, ZenonT(30)
<1>4. ChatForm(l) /\ Tidy(l)
  BY <1>1, <1>2, <1>3 DEF ChatForm, Tidy
<1>5. PICK a, b, c : /\ a = Spoke(SpeakerOf(m), m.content.parts) /\ b = Concat(Called(m.calls))
                     /\ c = Calls(call) /\ IsSeq(a) /\ IsSeq(b) /\ IsSeq(c)
  BY <1>1, SpokeSeq, CalledLists, CalledOne, ZenonT(30)
<1>6. Concat(Called(l.calls)) = b \o c
  <2>1. IsSeq(<<call>>) /\ Concat(Called(<<call>>)) = c
    BY <1>5, One, CalledOne
  <2> QED  BY <1>1, <1>3, <1>5, <2>1, CalledJoin
<1>7. Spoke(SpeakerOf(l), l.content.parts) = a
  <2>1. SpeakerOf(l) = SpeakerOf(m)
    <3>1. m.name = "" /\ l.name = "" /\ l.role = m.role
      BY <1>2 DEF Tidy
    <3> QED  BY <3>1, Unlabelled
  <2> QED  BY <1>2, <1>5, <2>1
<1>8. ChatTurn(l) = a \o (b \o c)
  BY <1>2, <1>4, <1>6, <1>7, ChatTurnSays
<1>9. ChatTurn(m) = a \o b
  BY <1>5, ChatTurnSays
<1>10. (a \o b) \o c = a \o (b \o c)
  BY <1>5, Associates
<1> QED  BY <1>4, <1>5, <1>8, <1>9, <1>10

LEMMA ResponsesItem ==
  ASSUME NEW ms, Hub(ms), ~AnyBad(ms), AllTidy(ms), NEW item, ItemForm(item),
         NEW ns, ns = responses_item_to_chat(ms, item)
  PROVE  /\ Hub(ns) /\ AllTidy(ns) /\ IsSeq(ResponsesTurn(item))
         /\ ~AnyBad(ns) => Concat(Told(ns)) = Concat(Told(ms)) \o ResponsesTurn(item)
<1>1. ChatForms(ms) /\ IsSeq(ms)
  BY HubGood DEF Hub
<1>2. CASE item.is = "message"
  <2>1. PICK c : c = responses_content_to_chat(item.content, item.role)
    OBVIOUS
  <2>2. ns = Append(ms, IF AnyBad(c.parts) THEN Bad ELSE Nameless(item.role, c))
    BY <1>2, <2>1 DEF responses_item_to_chat
  <2>3. ResponsesTurn(item) = Spoke(Speaker(item.role), item.content.parts)
    BY <1>2 DEF ResponsesTurn
  <2>4. Content(item.content) /\ PlainParts(item.content.parts) /\ item.role # "tool"
    BY <1>2 DEF ItemForm
  <2>5. IsSeq(ResponsesTurn(item))
    BY <2>3, <2>4, SpokeSeq
  <2>6. CASE AnyBad(c.parts)
    <3>1. ns = Append(ms, Bad)
      BY <2>2, <2>6
    <3>2. Hub(ns) /\ AllTidy(ns) /\ AnyBad(ns)
      BY <1>1, <3>1, BadLast, TidyAppended
    <3> QED  BY <2>5, <3>2
  <2>7. CASE ~AnyBad(c.parts)
    <3>1. PICK m : m = Nameless(item.role, c) /\ ns = Append(ms, m)
      BY <2>2, <2>7
    <3>2. /\ Content(c) /\ PlainParts(c.parts)
          /\ Spoke(Speaker(item.role), c.parts) = Spoke(Speaker(item.role), item.content.parts)
      BY <2>1, <2>4, <2>7, ResponsesContent
    <3>3. ChatForm(m) /\ ChatTurn(m) = ResponsesTurn(item)
      BY <2>3, <2>4, <3>1, <3>2, NamelessSays
    <3>4. Tidy(m)
      BY <2>4, <3>1 DEF Tidy, Nameless, Message
    <3>5. ChatForms(ns) /\ Concat(Told(ns)) = Concat(Told(ms)) \o ResponsesTurn(item)
      BY <1>1, <3>1, <3>3, AppendTells
    <3>6. AllTidy(ns)
      BY <1>1, <3>1, <3>4, TidyAppended
    <3> QED  BY <2>5, <3>5, <3>6, FormsAreHub
  <2> QED  BY <2>6, <2>7
<1>3. CASE item.is = "function_call"
  <2>1. PICK call : call = Call(item.id, item.name, item.args)
    OBVIOUS
  <2>2. PICK message : message = Message("assistant", Absent, <<call>>, "", "")
    OBVIOUS
  <2>3. PICK extended : extended = [Last(ms) EXCEPT !.calls = Append(@, call)]
    OBVIOUS
  <2>4. ns = Merge(ms, "assistant", extended, message)
    BY <1>3, <2>1, <2>2, <2>3 DEF responses_item_to_chat
  <2>5. ResponsesTurn(item) = Calls(item) /\ Calls(item) = Calls(call) /\ IsSeq(Calls(call))
    BY <1>3, <2>1, CalledOne DEF ResponsesTurn, Calls, Call
  <2>6. ChatForm(message) /\ ChatTurn(message) = Calls(call) /\ Tidy(message)
    BY <2>2, CallsAlone DEF Tidy, Message
  <2>7. ASSUME ms # <<>>, Last(ms).role = "assistant"
        PROVE  /\ ChatForm(extended) /\ ChatTurn(extended) = ChatTurn(Last(ms)) \o Calls(call)
               /\ Tidy(extended)
    <3>1. PICK l : l = Last(ms) /\ ChatForm(l) /\ Tidy(l)
      <4>1. ChatForm(Last(ms))
        BY <1>1, <2>7, FrontForms
      <4>2. Tidy(Last(ms))
        BY <1>1, <2>7, <4>1, TidyFront, NotBad
      <4> QED  BY <4>1, <4>2
    <3>2. extended = [l EXCEPT !.calls = Append(@, call)]
      BY <2>3, <3>1
    <3> QED  BY <2>7, <3>1, <3>2, CallAdded
  <2>8. ChatForms(ns) /\ Concat(Told(ns)) = Concat(Told(ms)) \o Calls(call)
    BY <1>1, <2>4, <2>5, <2>6, <2>7, MergeTells
  <2>9. AllTidy(ns)
    BY <1>1, <2>4, <2>6, <2>7, TidyMerged
  <2> QED  BY <2>5, <2>8, <2>9, FormsAreHub
<1>4. CASE item.is = "function_call_output"
  <2>1. PICK m : m = Result(item.id, "", Str(item.text)) /\ ns = Append(ms, m)
    BY <1>4 DEF responses_item_to_chat
  <2>2. ResponsesTurn(item) = Results(item.id, item.text) /\ IsSeq(item.text)
    BY <1>4 DEF ResponsesTurn, ItemForm
  <2>3. ChatForm(m) /\ ChatTurn(m) = ResponsesTurn(item) /\ IsSeq(ResponsesTurn(item))
    BY <2>1, <2>2, ResultSays, ChatTurnSays
  <2>4. Tidy(m)
    BY <2>1 DEF Tidy, Result, Message, Str
  <2>5. ChatForms(ns) /\ Concat(Told(ns)) = Concat(Told(ms)) \o ResponsesTurn(item)
    BY <1>1, <2>1, <2>3, AppendTells
  <2>6. AllTidy(ns)
    BY <1>1, <2>1, <2>4, TidyAppended
  <2> QED  BY <2>3, <2>5, <2>6, FormsAreHub
<1>5. CASE item.is \notin {"message", "function_call", "function_call_output"}
  <2>1. ns = Append(ms, Bad)
    BY <1>5 DEF responses_item_to_chat
  <2>2. Hub(ns) /\ AllTidy(ns) /\ AnyBad(ns)
    BY <1>1, <2>1, BadLast, TidyAppended
  <2>3. \E x : ResponsesTurn(item) = <<x>>
    BY <1>5 DEF ResponsesTurn
  <2> QED  BY <2>2, <2>3, One
<1> QED  BY <1>2, <1>3, <1>4, <1>5

(* Messages of the hub that tell a speech, unless one was refused.         *)
Tells(ms, told) ==
  Hub(ms) /\ AllTidy(ms) /\ (~AnyBad(ms) => Concat(Told(ms)) = told)

LEMMA ItemTold ==
  ASSUME NEW ms, NEW told, IsSeq(told), Tells(ms, told), NEW item, ItemForm(item)
  PROVE  Tells(responses_item_to_chat(ms, item), told \o ResponsesTurn(item))
<1>1. CASE AnyBad(ms)
  <2>1. responses_item_to_chat(ms, item) = ms
    BY <1>1 DEF responses_item_to_chat
  <2> QED  BY <1>1, <2>1 DEF Tells
<1>2. CASE ~AnyBad(ms)
  <2>1. PICK ns : ns = responses_item_to_chat(ms, item)
    OBVIOUS
  <2>2. Hub(ms) /\ AllTidy(ms) /\ Concat(Told(ms)) = told
    BY <1>2 DEF Tells
  <2>3. /\ Hub(ns) /\ AllTidy(ns)
        /\ ~AnyBad(ns) => Concat(Told(ns)) = Concat(Told(ms)) \o ResponsesTurn(item)
    BY <1>2, <2>1, <2>2, ResponsesItem
  <2> QED  BY <2>1, <2>2, <2>3 DEF Tells
<1> QED  BY <1>1, <1>2

LEMMA ItemTurnSeq ==
  ASSUME NEW item, ItemForm(item)
  PROVE  IsSeq(ResponsesTurn(item))
<1>1. Hub(<<>>) /\ ~AnyBad(<<>>) /\ AllTidy(<<>>)
  BY HubNone, Empty DEF AnyBad, AllTidy
<1>2. PICK ns : ns = responses_item_to_chat(<<>>, item)
  OBVIOUS
<1> QED  BY <1>1, <1>2, ResponsesItem

Turned(items) == Each(ResponsesTurn, items)
LEMMA TurnedLists ==
  ASSUME NEW items, IsSeq(items), \A i \in 1..Len(items) : ItemForm(items[i])
  PROVE  /\ Lists(Turned(items)) /\ Len(Turned(items)) = Len(items)
         /\ \A i \in 1..Len(items) : Turned(items)[i] = ResponsesTurn(items[i])
<1>1. DOMAIN items = 1..Len(items)
  BY SeqIs
<1>2. PICK tt : tt = Turned(items)
  OBVIOUS
<1>3. DOMAIN tt = DOMAIN items /\ tt = [i \in DOMAIN tt |-> tt[i]]
      /\ \A i \in DOMAIN items : tt[i] = ResponsesTurn(items[i])
  BY <1>2 DEF Turned, Each
<1>4. IsSeq(tt) /\ Len(tt) = Len(items) /\ DOMAIN tt = 1..Len(items)
  BY <1>3, Imaged
<1>5. \A i \in 1..Len(items) : tt[i] = ResponsesTurn(items[i]) /\ IsSeq(tt[i])
  BY <1>1, <1>3, ItemTurnSeq
<1> QED  BY <1>2, <1>4, <1>5 DEF Lists

LEMMA Stretched ==
  ASSUME NEW s1, NEW s2, NEW s3, NEW s4, IsSeq(s1), IsSeq(s2), IsSeq(s3), s4 = s2 \o s3
  PROVE  s1 \o s4 = (s1 \o s2) \o s3 /\ IsSeq(s1 \o s2)
<1>1. (s1 \o s2) \o s3 = s1 \o (s2 \o s3)
  BY Associates
<1>2. IsSeq(s1 \o s2)
  BY Joined
<1> QED  BY <1>1, <1>2

(* What is told as one list after the other is added.                      *)
Spinning(h, aa, rr) ==
  /\ h[0] = aa /\ h[Len(rr)] = aa \o Concat(rr)
  /\ \A n \in 1..Len(rr) : IsSeq(h[n - 1]) /\ h[n] = h[n - 1] \o rr[n]
LEMMA Spun ==
  ASSUME NEW aa, IsSeq(aa), NEW rr, Lists(rr)
  PROVE  \E h : Spinning(h, aa, rr)
<1>1. Len(rr) \in Nat
  BY SeqIs DEF Lists
<1>2. PICK f : /\ f[0] = <<>> /\ \A k \in 1..Len(rr) : f[k] = f[k - 1] \o rr[k]
               /\ Concat(rr) = f[Len(rr)]
               /\ \A k \in 0..Len(rr) : IsSeq(f[k])
  BY Grown
<1>3. PICK h : h = [k \in Nat |-> aa \o f[k]]
  OBVIOUS
<1>4. h[0] = aa /\ h[Len(rr)] = aa \o Concat(rr)
  BY <1>1, <1>2, <1>3, Empty
<1>5. ASSUME NEW m \in 1..Len(rr)
      PROVE  IsSeq(h[m - 1]) /\ h[m] = h[m - 1] \o rr[m]
  <2>1. PICK n : n = m - 1 /\ n \in Nat /\ n \in 0..Len(rr) /\ m \in Nat
    BY <1>1
  <2>2. h[n] = aa \o f[n] /\ h[m] = aa \o f[m] /\ f[m] = f[n] \o rr[m]
    BY <1>2, <1>3, <2>1
  <2>3. PICK u, v : u = f[n] /\ v = rr[m] /\ IsSeq(u) /\ IsSeq(v)
    BY <1>2, <2>1 DEF Lists
  <2>4. PICK w : w = f[m] /\ w = u \o v
    BY <2>2, <2>3
  <2>5. aa \o w = (aa \o u) \o v /\ IsSeq(aa \o u)
    <3>1. IsSeq(aa) /\ IsSeq(u) /\ IsSeq(v) /\ w = u \o v
      BY <2>3, <2>4
    <3>2. aa \o w = (aa \o u) \o v
      BY <3>1, Stretched
    <3>3. IsSeq(aa \o u)
      BY <3>1, Joined
    <3> QED  BY <3>2, <3>3
  <2> QED  BY <2>1, <2>2, <2>3, <2>4, <2>5
<1> QED  BY <1>4, <1>5 DEF Spinning

(* Messages made one after the other, each telling its part of a speech.   *)
Narrates(made, ss) ==
  \A n \in 1..Len(ss) : \A t :
    IsSeq(t) /\ Tells(made[n - 1], t) => Tells(made[n], t \o ss[n])
LEMMA FoldTold ==
  ASSUME NEW b, IsSeq(b), NEW ss, Lists(ss), NEW made, Tells(made[0], b),
         Narrates(made, ss)
  PROVE  Tells(made[Len(ss)], b \o Concat(ss))
<1>1. Len(ss) \in Nat
  BY SeqIs DEF Lists
<1>2. PICK h : Spinning(h, b, ss)
  BY Spun
<1>7. /\ h[0] = b /\ h[Len(ss)] = b \o Concat(ss)
      /\ \A n \in 1..Len(ss) : IsSeq(h[n - 1]) /\ h[n] = h[n - 1] \o ss[n]
  BY <1>2 DEF Spinning
<1> DEFINE S == {n \in Nat : n <= Len(ss) => Tells(made[n], h[n])}
<1> HIDE DEF S
<1>3. 0 \in S
  BY <1>7 DEF S
<1>4. ASSUME NEW n \in Nat, n \in S PROVE n + 1 \in S
  <2>1. SUFFICES ASSUME n + 1 <= Len(ss) PROVE Tells(made[n + 1], h[n + 1])
    BY DEF S
  <2>2. PICK m : m = n + 1 /\ m - 1 = n /\ m \in 1..Len(ss) /\ n <= Len(ss)
    BY <1>1, <2>1
  <2>3. Tells(made[m - 1], h[m - 1])
    BY <1>4, <2>2 DEF S
  <2>4. IsSeq(h[m - 1]) /\ h[m] = h[m - 1] \o ss[m]
    BY <1>7, <2>2
  <2>5. Tells(made[m], h[m - 1] \o ss[m])
    BY <2>2, <2>3, <2>4 DEF Narrates
  <2> QED  BY <2>2, <2>4, <2>5
<1>5. Nat \subseteq S
  BY <1>3, <1>4, Induct
<1>6. Tells(made[Len(ss)], h[Len(ss)])
  BY <1>1, <1>5 DEF S
<1> QED  BY <1>7, <1>6

LEMMA ItemsTold ==
  ASSUME NEW before, ChatForms(before), AllTidy(before),
         NEW items, IsSeq(items), \A i \in 1..Len(items) : ItemForm(items[i])
  PROVE  Tells(responses_input_to_chat(items, before),
               Concat(Told(before)) \o Concat(Turned(items)))
<1>1. Len(items) \in Nat
  BY SeqIs
<1>2. PICK ss : ss = Turned(items)
  OBVIOUS
<1>3. Lists(ss) /\ Len(ss) = Len(items) /\ \A i \in 1..Len(items) : ss[i] = ResponsesTurn(items[i])
  BY <1>2, TurnedLists
<1>4. PICK made : /\ made[0] = before
                  /\ \A n \in 1..Len(items) :
                       made[n] = responses_item_to_chat(made[n - 1], items[n])
                  /\ responses_input_to_chat(items, before) = made[Len(items)]
  BY <1>1, ItemsFolded
<1>5. PICK b : b = Concat(Told(before)) /\ IsSeq(b)
  BY ToldLists
<1>6. Tells(made[0], b)
  BY <1>4, <1>5, FormsAreHub DEF Tells
<1>7. ASSUME NEW n \in 1..Len(ss), NEW t, IsSeq(t), Tells(made[n - 1], t)
      PROVE  Tells(made[n], t \o ss[n])
  <2>1. PICK x : x = items[n] /\ ItemForm(x) /\ ss[n] = ResponsesTurn(x)
    BY <1>3, <1>7
  <2>2. made[n] = responses_item_to_chat(made[n - 1], x)
    BY <1>3, <1>4, <1>7, <2>1
  <2> QED  BY <1>7, <2>1, <2>2, ItemTold
<1>8. Tells(made[Len(ss)], b \o Concat(ss))
  <2>1. Narrates(made, ss)
    BY <1>7 DEF Narrates
  <2> QED  BY <1>3, <1>5, <1>6, <2>1, FoldTold
<1> QED  BY <1>2, <1>3, <1>4, <1>5, <1>8

(* The instructions of Responses become messages of the developer.         *)
LEMMA StrSays ==
  ASSUME NEW role, role # "tool", NEW text, IsSeq(text),
         NEW m, m = Nameless(role, Str(text))
  PROVE  ChatForm(m) /\ ChatTurn(m) = Texts(Speaker(role), text) /\ Tidy(m) /\ IsSeq(ChatTurn(m))
<1>1. PICK c : c = Str(text) /\ Content(c) /\ PlainParts(c.parts)
  BY TextOfStr
<1>2. ChatForm(m) /\ ChatTurn(m) = Spoke(Speaker(role), c.parts)
  BY <1>1, NamelessSays
<1>3. PICK p : p = [is |-> "text", text |-> text] /\ c.parts = <<p>>
  BY <1>1 DEF Str
<1>4. PlainForm(p) /\ Utterance(Speaker(role), p) = Texts(Speaker(role), text)
  <2>1. p.is = "text" /\ p.text = text
    BY <1>3
  <2> QED  BY <2>1 DEF PlainForm, Utterance
<1>5. Spoke(Speaker(role), c.parts) = Texts(Speaker(role), text)
  BY <1>3, <1>4, SpokeOne
<1>6. Tidy(m)
  BY <1>1 DEF Tidy, Nameless, Message
<1> QED  BY <1>2, <1>5, <1>6, ChatTurnSays

Instructed(system) == Each(LAMBDA t : Texts("system", t), system)
Instructions(system) == Each(LAMBDA text : Nameless("developer", Str(text)), system)
LEMMA InstructionsTold ==
  ASSUME NEW system, IsSeq(system), \A i \in DOMAIN system : IsSeq(system[i])
  PROVE  /\ ChatForms(Instructions(system)) /\ AllTidy(Instructions(system))
         /\ Concat(Told(Instructions(system))) = Concat(Instructed(system))
         /\ IsSeq(Concat(Instructed(system)))
<1>1. DOMAIN system = 1..Len(system) /\ Len(system) \in Nat
  BY SeqIs
<1>2. PICK ms : ms = Instructions(system)
  OBVIOUS
<1>3. DOMAIN ms = DOMAIN system /\ ms = [i \in DOMAIN ms |-> ms[i]]
      /\ \A i \in DOMAIN system : ms[i] = Nameless("developer", Str(system[i]))
  BY <1>2 DEF Instructions, Each
<1>4. IsSeq(ms) /\ Len(ms) = Len(system)
  BY <1>3, Imaged
<1>5. \A i \in 1..Len(system) :
        ChatForm(ms[i]) /\ ChatTurn(ms[i]) = Texts("system", system[i]) /\ Tidy(ms[i])
  <2>1. Speaker("developer") = "system"
    BY DEF Speaker
  <2> QED  BY <1>1, <1>3, <2>1, StrSays
<1>6. ChatForms(ms) /\ AllTidy(ms)
  BY <1>4, <1>5 DEF ChatForms, AllTidy
<1>7. PICK tt : tt = Instructed(system)
  OBVIOUS
<1>8. DOMAIN tt = DOMAIN system /\ tt = [i \in DOMAIN tt |-> tt[i]]
      /\ \A i \in DOMAIN system : tt[i] = Texts("system", system[i])
  BY <1>7 DEF Instructed, Each
<1>9. IsSeq(tt) /\ Len(tt) = Len(system)
  BY <1>8, Imaged
<1>10. PICK uu : /\ uu = Told(ms) /\ IsSeq(uu) /\ Len(uu) = Len(ms) /\ IsSeq(Concat(uu))
                 /\ \A i \in 1..Len(ms) : uu[i] = ChatTurn(ms[i])
  BY <1>6, ToldLists DEF Lists
<1>11. uu = tt
  BY <1>1, <1>4, <1>5, <1>8, <1>9, <1>10, Alike
<1> QED  BY <1>2, <1>6, <1>7, <1>10, <1>11

(* A Responses document, heard through the hub.                            *)
LEMMA ResponsesTold ==
  ASSUME NEW d, Worded("responses", d)
  PROVE  Tells(responses_input_to_chat(d.turns, Instructions(d.system)), Speech("responses", d))
<1>1. /\ IsSeq(d.turns) /\ \A i \in DOMAIN d.turns : TurnForm("responses", d.turns[i])
      /\ IsSeq(d.system) /\ \A i \in DOMAIN d.system : IsSeq(d.system[i])
  BY DEF Worded
<1>2. \A i \in 1..Len(d.turns) : ItemForm(d.turns[i])
  <2>1. \A t : TurnForm("responses", t) => ItemForm(t)
    BY DEF TurnForm
  <2>2. DOMAIN d.turns = 1..Len(d.turns)
    BY <1>1, SeqIs
  <2> QED  BY <1>1, <2>1, <2>2
<1>3. Tells(responses_input_to_chat(d.turns, Instructions(d.system)),
            Concat(Told(Instructions(d.system))) \o Concat(Turned(d.turns)))
  BY <1>1, <1>2, InstructionsTold, ItemsTold
<1>4. Concat(Told(Instructions(d.system))) = Concat(Instructed(d.system))
  BY <1>1, InstructionsTold
<1>5. Turned(d.turns) = Each(LAMBDA t : Turn("responses", t), d.turns)
  <2>1. \A t : Turn("responses", t) = ResponsesTurn(t)
    BY DEF Turn
  <2> QED  BY <2>1 DEF Turned, Each
<1>6. Speech("responses", d) = Concat(Instructed(d.system)) \o Concat(Turned(d.turns))
  <2>1. Speech("responses", d) = Concat(Each(LAMBDA t : Texts("system", t), d.system))
          \o Concat(Each(LAMBDA t : Turn("responses", t), d.turns))
    BY Zenon DEF Speech
  <2>2. Instructed(d.system) = Each(LAMBDA t : Texts("system", t), d.system)
    BY DEF Instructed
  <2> QED  BY <1>5, <2>1, <2>2
<1> QED  BY <1>3, <1>4, <1>6

-----------------------------------------------------------------------------
(* Anthropic: a part is said alike, and a message whose parts are one text *)
(* is a string that says it.                                               *)
LEMMA Collapsed ==
  ASSUME NEW parts, PlainParts(parts), NEW by, NEW c, c = collapse_text_parts(parts)
  PROVE  Content(c) /\ PlainParts(c.parts) /\ Spoke(by, c.parts) = Spoke(by, parts)
<1>1. CASE Len(parts) = 1 /\ parts[1].is = "text"
  <2>1. PICK p : p = parts[1] /\ p.is = "text" /\ PlainForm(p) /\ parts = <<p>>
    <3>1. IsSeq(parts) /\ DOMAIN parts = 1..Len(parts)
      BY SeqIs DEF PlainParts
    <3>2. PICK p : p = parts[1]
      OBVIOUS
    <3>3. IsSeq(<<p>>) /\ Len(<<p>>) = 1 /\ <<p>>[1] = p
      BY One
    <3>4. \A i \in 1..Len(parts) : parts[i] = <<p>>[i]
      BY <1>1, <3>2, <3>3
    <3>5. parts = <<p>>
      BY <1>1, <3>1, <3>3, <3>4, Alike
    <3> QED  BY <1>1, <3>1, <3>2, <3>5 DEF PlainParts
  <2>2. c = Str(p.text) /\ IsSeq(p.text)
    BY <1>1, <2>1 DEF collapse_text_parts, PlainForm
  <2>3. PICK q : q = [is |-> "text", text |-> p.text] /\ c.parts = <<q>>
    BY <2>2 DEF Str
  <2>4. PlainForm(q) /\ Utterance(by, q) = Texts(by, p.text) /\ Utterance(by, p) = Texts(by, p.text)
    <3>1. q.is = "text" /\ q.text = p.text
      BY <2>3
    <3> QED  BY <2>1, <2>2, <3>1 DEF PlainForm, Utterance
  <2>5. Spoke(by, c.parts) = Spoke(by, parts)
    BY <2>1, <2>3, <2>4, SpokeOne
  <2> QED  BY <2>2, <2>5, TextOfStr
<1>2. CASE ~(Len(parts) = 1 /\ parts[1].is = "text")
  <2>1. c = Parts(parts)
    BY <1>2 DEF collapse_text_parts
  <2> QED  BY <2>1, PartsContent
<1> QED  BY <1>1, <1>2

LEMMA AnthropicPart ==
  ASSUME NEW p, PlainForm(p), NEW by, NEW q, q = anthropic_part_to_openai(p), q # Bad
  PROVE  PlainForm(q) /\ Utterance(by, q) = Utterance(by, p)
<1>1. CASE p.is = "text"
  BY <1>1 DEF anthropic_part_to_openai
<1>2. CASE p.is = "image" /\ p.source \in {"url", "base64"}
  <2>1. q = [is |-> "image_url", detail |-> "unset",
             url |-> [form |-> IF p.source = "url" THEN "web" ELSE "data", ref |-> p.ref]]
    BY <1>2 DEF anthropic_part_to_openai
  <2>2. /\ q.is = "image_url" /\ q.detail = "unset" /\ q.url.ref = p.ref
        /\ q.url.form = IF p.source = "url" THEN "web" ELSE "data"
    BY <2>1
  <2>3. Utterance(by, q) = Shows(by, q.url.form, q.url.ref, q.detail, "")
    BY <2>2 DEF Utterance
  <2>4. Utterance(by, p) = Shows(by, IF p.source = "url" THEN "web" ELSE "data", p.ref, "unset", "")
    BY <1>2 DEF Utterance
  <2>5. PlainForm(q)
    BY <2>2 DEF PlainForm, References
  <2>6. Utterance(by, q) = Utterance(by, p)
    BY <2>2, <2>3, <2>4
  <2> QED  BY <2>5, <2>6
<1>3. CASE p.is # "text" /\ ~(p.is = "image" /\ p.source \in {"url", "base64"})
  BY <1>3 DEF anthropic_part_to_openai
<1> QED  BY <1>1, <1>2, <1>3

LEMMA TidyResult ==
  ASSUME NEW id, NEW name, NEW text
  PROVE  Tidy(Result(id, name, Str(text)))
BY DEF Tidy, Result, Message, Str

(* A result is refused or is told.                                         *)
LEMMA AnthropicResult ==
  ASSUME NEW p, PartForm(p), p.is = "tool_result", NEW by,
         NEW m, m = convert_anthropic_tool_result(p), m # Bad
  PROVE  ChatForm(m) /\ Tidy(m) /\ ChatTurn(m) = Utterance(by, p)
<1>1. PICK c : c = p.content /\ Content(c) /\ PlainParts(c.parts)
  BY DEF PartForm
<1>2. (\A i \in DOMAIN c.parts : c.parts[i].is = "text") /\ m = Result(p.id, "", Str(TextOf(c)))
  BY <1>1 DEF convert_anthropic_tool_result
<1>3. IsSeq(TextOf(c))
  <2>1. IsSeq(c.parts) /\ \A i \in DOMAIN c.parts : IsSeq(c.parts[i].text)
    BY <1>1, <1>2 DEF PlainParts, PlainForm
  <2> QED  BY <2>1, TextOfSeq
<1>4. Utterance(by, p) = Results(p.id, TextOf(c))
  BY <1>1 DEF Utterance
<1>5. Tidy(m)
  BY <1>2, TidyResult
<1> QED  BY <1>2, <1>3, <1>4, <1>5, ResultSays

LEMMA TellsAppended ==
  ASSUME NEW ms, NEW told, Tells(ms, told), ~AnyBad(ms),
         NEW m, (m # Bad) => (ChatForm(m) /\ Tidy(m)), NEW more, (m # Bad) => (ChatTurn(m) = more)
  PROVE  Tells(Append(ms, m), told \o more)
<1>1. Hub(ms) /\ AllTidy(ms) /\ IsSeq(ms) /\ ChatForms(ms) /\ Concat(Told(ms)) = told
  BY HubGood DEF Tells, Hub
<1>2. AllTidy(Append(ms, m))
  BY <1>1, TidyAppended
<1>3. CASE m = Bad
  BY <1>1, <1>2, <1>3, BadLast DEF Tells
<1>4. CASE m # Bad
  <2>1. ChatForms(Append(ms, m)) /\ Concat(Told(Append(ms, m))) = Concat(Told(ms)) \o ChatTurn(m)
    BY <1>1, <1>4, AppendTells
  <2> QED  BY <1>1, <1>2, <1>4, <2>1, FormsAreHub DEF Tells
<1> QED  BY <1>3, <1>4

(* A part the user says is added to the user's last message.               *)
LEMMA PartAdded ==
  ASSUME NEW m, ChatForm(m), Tidy(m), m.role = "user", NEW part, PlainForm(part),
         NEW l, l = [m EXCEPT !.content = Parts(Append(@.parts, part))]
  PROVE  ChatForm(l) /\ ChatTurn(l) = ChatTurn(m) \o Utterance("user", part) /\ Tidy(l)
<1>1. /\ m = Message(m.role, m.content, m.calls, m.id, m.name)
      /\ Content(m.content) /\ PlainParts(m.content.parts) /\ m.calls = <<>> /\ m.name = ""
  BY DEF ChatForm, Tidy
<1>2. PICK ps, qs : ps = m.content.parts /\ PlainParts(ps) /\ qs = Append(ps, part)
  BY <1>1
<1>3. /\ l.role = m.role /\ l.content = Parts(qs) /\ l.calls = m.calls /\ l.id = m.id
      /\ l.name = m.name /\ l = Message(l.role, l.content, l.calls, l.id, l.name)
  BY <1>1, <1>2 DEF Message
<1>4. qs = ps \o <<part>> /\ PlainParts(<<part>>)
  BY <1>2, Appended, SpokeOne DEF PlainParts
<1>5. PlainParts(qs)
  BY <1>2, <1>4, PartsJoined
<1>6. l.content.parts = qs /\ Content(l.content)
  BY <1>3, PartsContent
<1>7. ChatForm(l) /\ Tidy(l)
  BY <1>1, <1>3, <1>5, <1>6, Empty DEF ChatForm, Tidy
<1>8. SpeakerOf(m) = "user" /\ SpeakerOf(l) = "user"
  <2>1. Speaker("user") = "user"
    BY DEF Speaker
  <2>2. m.name = "" /\ l.name = "" /\ m.role = "user" /\ l.role = "user"
    BY <1>1, <1>3
  <2> QED  BY <2>1, <2>2, Unlabelled
<1>9. Spoke("user", qs) = Spoke("user", ps) \o Utterance("user", part)
  <2>1. Spoke("user", <<part>>) = Utterance("user", part)
    BY SpokeOne
  <2>2. Spoke("user", ps \o <<part>>) = Spoke("user", ps) \o Spoke("user", <<part>>)
    BY <1>2, <1>4, SpokeJoin
  <2> QED  BY <1>4, <2>1, <2>2
<1>10. ChatTurn(l) = Spoke("user", qs)
  <2>1. ChatTurn(l) = Spoke("user", qs) \o Concat(Called(l.calls))
    BY <1>3, <1>6, <1>7, <1>8, ChatTurnSays
  <2>2. IsSeq(Spoke("user", qs)) /\ Concat(Called(l.calls)) = <<>>
    BY <1>1, <1>3, <1>5, SpokeSeq, CalledNone
  <2> QED  BY <2>1, <2>2, Empty
<1>11. ChatTurn(m) = Spoke("user", ps)
  <2>1. ChatTurn(m) = Spoke("user", ps) \o Concat(Called(m.calls))
    BY <1>2, <1>8, ChatTurnSays
  <2>2. IsSeq(Spoke("user", ps)) /\ Concat(Called(m.calls)) = <<>>
    BY <1>1, <1>2, SpokeSeq, CalledNone
  <2> QED  BY <2>1, <2>2, Empty
<1> QED  BY <1>7, <1>9, <1>10, <1>11

LEMMA PartAlone ==
  ASSUME NEW part, PlainForm(part), NEW m, m = Nameless("user", Parts(<<part>>))
  PROVE  ChatForm(m) /\ Tidy(m) /\ ChatTurn(m) = Utterance("user", part)
<1>1. PICK c : c = Parts(<<part>>) /\ Content(c) /\ c.parts = <<part>> /\ PlainParts(c.parts)
  BY PartsContent, SpokeOne
<1>2. Speaker("user") = "user"
  BY DEF Speaker
<1>3. Tidy(m)
  BY DEF Tidy, Nameless, Message
<1>4. ChatForm(m) /\ ChatTurn(m) = Spoke("user", c.parts)
  BY <1>1, <1>2, NamelessSays
<1> QED  BY <1>1, <1>3, <1>4, SpokeOne

LEMMA LastTidy ==
  ASSUME NEW ms, NEW told, Tells(ms, told), ~AnyBad(ms), ms # <<>>
  PROVE  ChatForm(Last(ms)) /\ Tidy(Last(ms))
<1>1. IsSeq(ms) /\ ChatForms(ms) /\ AllTidy(ms)
  BY HubGood DEF Tells, Hub
<1>2. ChatForm(Last(ms))
  BY <1>1, FrontForms
<1> QED  BY <1>1, <1>2, TidyFront, NotBad

Adds(old, more, new) ==
  ChatForm(new) /\ Tidy(new) /\ ChatTurn(new) = ChatTurn(old) \o more
LEMMA TellsMerged ==
  ASSUME NEW ms, NEW told, Tells(ms, told), ~AnyBad(ms), NEW role, NEW extended, NEW message,
         NEW more, IsSeq(more), ChatForm(message), Tidy(message), ChatTurn(message) = more,
         (ms # <<>> /\ Last(ms).role = role) => Adds(Last(ms), more, extended)
  PROVE  Tells(Merge(ms, role, extended, message), told \o more)
<1>1. Hub(ms) /\ AllTidy(ms) /\ IsSeq(ms) /\ ChatForms(ms) /\ Concat(Told(ms)) = told
  BY HubGood DEF Tells, Hub
<1>2. (ms # <<>> /\ Last(ms).role = role) =>
        (ChatForm(extended) /\ ChatTurn(extended) = ChatTurn(Last(ms)) \o more)
  BY DEF Adds
<1>3. PICK ns : ns = Merge(ms, role, extended, message)
  OBVIOUS
<1>4. ChatForms(ns) /\ Concat(Told(ns)) = Concat(Told(ms)) \o more
  BY <1>1, <1>2, <1>3, MergeTells, SMTT(30)
<1>5. AllTidy(ns)
  <2>1. (ms # <<>> /\ Last(ms).role = role) => Tidy(extended)
    BY DEF Adds
  <2> QED  BY <1>1, <1>3, <2>1, TidyMerged
<1> QED  BY <1>1, <1>3, <1>4, <1>5, FormsAreHub DEF Tells

LEMMA UserPartTold ==
  ASSUME NEW ms, NEW told, IsSeq(told), Tells(ms, told), NEW p, PartForm(p)
  PROVE  Tells(anthropic_user_part_to_openai(ms, p), told \o Utterance("user", p))
<1>1. PICK part : part = anthropic_part_to_openai(p)
  OBVIOUS
<1>2. CASE AnyBad(ms)
  <2>1. anthropic_user_part_to_openai(ms, p) = ms
    BY <1>2 DEF anthropic_user_part_to_openai
  <2> QED  BY <1>2, <2>1 DEF Tells
<1>3. CASE ~AnyBad(ms) /\ p.is = "tool_result"
  <2>1. PICK m : m = convert_anthropic_tool_result(p)
    OBVIOUS
  <2>2. anthropic_user_part_to_openai(ms, p) = Append(ms, m)
    BY <1>3, <2>1 DEF anthropic_user_part_to_openai
  <2>3. (m # Bad) => (ChatForm(m) /\ Tidy(m) /\ ChatTurn(m) = Utterance("user", p))
    BY <1>3, <2>1, AnthropicResult
  <2> QED  BY <1>3, <2>2, <2>3, TellsAppended
<1>4. CASE ~AnyBad(ms) /\ p.is # "tool_result" /\ part # Bad
  <2>1. PICK extended : extended = [Last(ms) EXCEPT !.content = Parts(Append(@.parts, part))]
    OBVIOUS
  <2>2. PICK message : message = Nameless("user", Parts(<<part>>))
    OBVIOUS
  <2>3. anthropic_user_part_to_openai(ms, p) = Merge(ms, "user", extended, message)
    BY <1>1, <1>4, <2>1, <2>2 DEF anthropic_user_part_to_openai
  <2>4. PlainForm(p)
    BY DEF PartForm
  <2>5. PICK u : u = Utterance("user", p) /\ IsSeq(u) /\ Utterance("user", part) = u /\ PlainForm(part)
    BY <1>1, <1>4, <2>4, AnthropicPart, UtteranceSeq
  <2>6. ChatForm(message) /\ Tidy(message) /\ ChatTurn(message) = u
    BY <2>2, <2>5, PartAlone
  <2>7. ASSUME ms # <<>>, Last(ms).role = "user" PROVE Adds(Last(ms), u, extended)
    <3>1. PICK l : l = Last(ms) /\ ChatForm(l) /\ Tidy(l)
      BY <1>4, <2>7, LastTidy
    <3>2. extended = [l EXCEPT !.content = Parts(Append(@.parts, part))]
      BY <2>1, <3>1
    <3>3. ChatForm(extended) /\ ChatTurn(extended) = ChatTurn(l) \o u /\ Tidy(extended)
      BY <2>5, <2>7, <3>1, <3>2, PartAdded
    <3> QED  BY <3>1, <3>3 DEF Adds
  <2>8. Tells(Merge(ms, "user", extended, message), told \o u)
    BY <1>4, <2>5, <2>6, <2>7, TellsMerged
  <2> QED  BY <2>3, <2>5, <2>8
<1>5. CASE ~AnyBad(ms) /\ p.is # "tool_result" /\ part = Bad
  <2>1. anthropic_user_part_to_openai(ms, p) = Append(ms, Bad)
    BY <1>1, <1>5 DEF anthropic_user_part_to_openai
  <2> QED  BY <1>5, <2>1, TellsAppended
<1> QED  BY <1>2, <1>3, <1>4, <1>5

(* Messages each of which is another in a different layout.                *)
LEMMA Retold ==
  ASSUME NEW ms, NEW told, Tells(ms, told), NEW ns, IsSeq(ns), Len(ns) = Len(ms),
         \A i \in 1..Len(ms) :
           /\ ms[i] = Bad => ns[i] = Bad
           /\ (ms[i] # Bad /\ ChatForm(ms[i]) /\ Tidy(ms[i])) =>
                (ChatForm(ns[i]) /\ Tidy(ns[i]) /\ ChatTurn(ns[i]) = ChatTurn(ms[i]))
  PROVE  Tells(ns, told)
<1>1. Hub(ms) /\ AllTidy(ms) /\ IsSeq(ms)
  BY DEF Tells, Hub
<1>2. Hub(ns) /\ AllTidy(ns)
  BY <1>1 DEF Hub, AllTidy
<1>3. CASE AnyBad(ns)
  BY <1>2, <1>3 DEF Tells
<1>4. CASE ~AnyBad(ns)
  <2>1. ~AnyBad(ms)
    BY <1>1, <1>4, BadPart
  <2>2. ChatForms(ms) /\ ChatForms(ns) /\ Concat(Told(ms)) = told
    BY <1>1, <1>2, <1>4, <2>1, HubGood DEF Tells
  <2>3. PICK tt : /\ tt = Told(ms) /\ IsSeq(tt) /\ Len(tt) = Len(ms)
                  /\ \A i \in 1..Len(ms) : tt[i] = ChatTurn(ms[i])
    BY <2>2, ToldLists DEF Lists
  <2>4. PICK uu : /\ uu = Told(ns) /\ IsSeq(uu) /\ Len(uu) = Len(ns)
                  /\ \A i \in 1..Len(ns) : uu[i] = ChatTurn(ns[i])
    BY <2>2, ToldLists DEF Lists
  <2>5. \A i \in 1..Len(ms) : ms[i] # Bad /\ ChatForm(ms[i]) /\ Tidy(ms[i])
    BY <1>1, <2>1, <2>2, BadPart DEF ChatForms, AllTidy
  <2>6. uu = tt
    BY <2>3, <2>4, <2>5, Alike
  <2> QED  BY <1>2, <2>2, <2>3, <2>4, <2>6 DEF Tells
<1> QED  BY <1>3, <1>4

LEMMA FlushTold ==
  ASSUME NEW m, ChatForm(m), Tidy(m), NEW l, l = flush_user_parts(m)
  PROVE  ChatForm(l) /\ Tidy(l) /\ ChatTurn(l) = ChatTurn(m)
<1>1. CASE m.role = "user"
  <2>1. /\ m = Message(m.role, m.content, m.calls, m.id, m.name)
        /\ Content(m.content) /\ PlainParts(m.content.parts) /\ IsSeq(m.calls)
        /\ m.calls = <<>> /\ m.name = ""
    BY <1>1 DEF ChatForm, Tidy
  <2>2. PICK c : c = collapse_text_parts(m.content.parts) /\ l = [m EXCEPT !.content = c]
    BY <1>1, NotBad DEF flush_user_parts
  <2>3. /\ l.role = m.role /\ l.content = c /\ l.calls = m.calls /\ l.id = m.id
        /\ l.name = m.name /\ l = Message(l.role, l.content, l.calls, l.id, l.name)
    BY <2>1, <2>2 DEF Message
  <2>4. Content(c) /\ PlainParts(c.parts) /\ Spoke("user", c.parts) = Spoke("user", m.content.parts)
    BY <2>1, <2>2, Collapsed
  <2>5. ChatForm(l) /\ Tidy(l)
    BY <1>1, <2>1, <2>3, <2>4 DEF ChatForm, Tidy
  <2>6. SpeakerOf(m) = "user" /\ SpeakerOf(l) = "user"
    <3>1. Speaker("user") = "user"
      BY DEF Speaker
    <3>2. m.name = "" /\ l.name = "" /\ m.role = "user" /\ l.role = "user"
      BY <1>1, <2>1, <2>3
    <3> QED  BY <3>1, <3>2, Unlabelled
  <2>7. /\ ChatTurn(l) = Spoke("user", c.parts) \o Concat(Called(m.calls))
        /\ ChatTurn(m) = Spoke("user", m.content.parts) \o Concat(Called(m.calls))
    BY <1>1, <2>3, <2>5, <2>6, ChatTurnSays
  <2> QED  BY <2>4, <2>5, <2>7
<1>2. CASE m.role # "user"
  <2>1. l = m
    BY <1>2 DEF flush_user_parts
  <2> QED  BY <2>1
<1> QED  BY <1>1, <1>2

(* What a user says and the results of a message, through the hub.         *)
LEMMA UserPartsTold ==
  ASSUME NEW parts, PartsForm(parts)
  PROVE  Tells(Each(flush_user_parts, Folded(anthropic_user_part_to_openai, <<>>, parts)),
               Spoke("user", parts))
<1>1. IsSeq(parts) /\ Len(parts) \in Nat /\ PlainParts(parts) /\ DOMAIN parts = 1..Len(parts)
  BY PartsPlain, SeqIs DEF PartsForm
<1>2. PICK ss : ss = Uttered("user", parts)
  OBVIOUS
<1>3. /\ Lists(ss) /\ Len(ss) = Len(parts) /\ Spoke("user", parts) = Concat(ss)
      /\ \A i \in 1..Len(parts) : ss[i] = Utterance("user", parts[i])
  BY <1>1, <1>2, UtteredLists, SpokeSeq
<1>4. PICK made : /\ made[0] = <<>>
                  /\ \A n \in 1..Len(parts) :
                       made[n] = anthropic_user_part_to_openai(made[n - 1], parts[n])
                  /\ Folded(anthropic_user_part_to_openai, <<>>, parts) = made[Len(parts)]
  BY <1>1, PartsFolded, ZenonT(30)
<1>5. Tells(made[0], <<>>)
  <2>1. AllTidy(<<>>)
    BY Empty DEF AllTidy
  <2> QED  BY <1>4, <2>1, ToldNone, HubNone DEF Tells
<1>6. Narrates(made, ss)
  <2>1. ASSUME NEW n \in 1..Len(ss), NEW t, IsSeq(t), Tells(made[n - 1], t)
        PROVE  Tells(made[n], t \o ss[n])
    <3>1. PICK x : x = parts[n] /\ PartForm(x) /\ ss[n] = Utterance("user", x)
      BY <1>1, <1>3, <2>1 DEF PartsForm
    <3>2. made[n] = anthropic_user_part_to_openai(made[n - 1], x)
      BY <1>3, <1>4, <2>1, <3>1
    <3> QED  BY <2>1, <3>1, <3>2, UserPartTold
  <2> QED  BY <2>1 DEF Narrates
<1>7. Tells(made[Len(ss)], <<>> \o Concat(ss))
  BY <1>3, <1>5, <1>6, Empty, FoldTold
<1>8. <<>> \o Concat(ss) = Concat(ss)
  BY <1>3, ConcatSeq, Empty
<1>9. PICK out : out = made[Len(ss)] /\ Tells(out, Concat(ss))
  BY <1>7, <1>8
<1>10. PICK ns : ns = Each(flush_user_parts, out)
  OBVIOUS
<1>11. Tells(ns, Concat(ss))
  <2>1. IsSeq(out) /\ DOMAIN out = 1..Len(out)
    BY <1>9, SeqIs DEF Tells, Hub
  <2>2. DOMAIN ns = DOMAIN out /\ ns = [i \in DOMAIN ns |-> ns[i]]
        /\ \A i \in DOMAIN out : ns[i] = flush_user_parts(out[i])
    BY <1>10 DEF Each
  <2>3. IsSeq(ns) /\ Len(ns) = Len(out)
    BY <2>1, <2>2, Imaged
  <2>4. ASSUME NEW i \in 1..Len(out)
        PROVE  /\ out[i] = Bad => ns[i] = Bad
               /\ (out[i] # Bad /\ ChatForm(out[i]) /\ Tidy(out[i])) =>
                    (ChatForm(ns[i]) /\ Tidy(ns[i]) /\ ChatTurn(ns[i]) = ChatTurn(out[i]))
    <3>1. PICK m, l : m = out[i] /\ l = ns[i] /\ l = flush_user_parts(m)
      BY <2>1, <2>2
    <3>2. m = Bad => l = Bad
      BY <3>1 DEF flush_user_parts
    <3> QED  BY <3>1, <3>2, FlushTold
  <2> QED  BY <1>9, <2>3, <2>4, Retold
<1> QED  BY <1>3, <1>4, <1>9, <1>10, <1>11

LEMMA TellsOne ==
  ASSUME NEW m, ChatForm(m), Tidy(m)
  PROVE  Tells(<<m>>, ChatTurn(m))
<1>1. ChatForms(<<m>>) /\ Concat(Told(<<m>>)) = ChatTurn(m)
  BY ToldOne
<1>2. AllTidy(<<m>>)
  <2>1. \A i \in 1..1 : i = 1
    OBVIOUS
  <2> QED  BY <2>1, One DEF AllTidy
<1> QED  BY <1>1, <1>2, FormsAreHub DEF Tells

LEMMA TellsBad ==
  ASSUME NEW told
  PROVE  Tells(<<Bad>>, told)
<1>1. Hub(<<Bad>>) /\ AnyBad(<<Bad>>)
  <2>1. IsSeq(<<Bad>>) /\ Len(<<Bad>>) = 1 /\ <<Bad>>[1] = Bad /\ Hub(<<Bad>>)
    BY One, HubOne
  <2>2. 1 \in 1..Len(<<Bad>>)
    BY <2>1
  <2> QED  BY <2>1, <2>2, BadPart
<1>2. AllTidy(<<Bad>>)
  <2>1. \A i \in 1..1 : i = 1
    OBVIOUS
  <2> QED  BY <2>1, One DEF AllTidy
<1> QED  BY <1>1, <1>2 DEF Tells

LEMMA NamelessTidy ==
  ASSUME NEW role, role # "tool", NEW c
  PROVE  Tidy(Nameless(role, c))
BY DEF Tidy, Nameless, Message

LEMMA AnthropicUserTold ==
  ASSUME NEW c, Content(c), PartsForm(c.parts)
  PROVE  Tells(anthropic_user_to_openai(c), Spoke("user", c.parts))
<1>1. PlainParts(c.parts) /\ Speaker("user") = "user"
  BY PartsPlain DEF Speaker
<1>2. CASE c.form = "string"
  <2>1. PICK m : m = Nameless("user", c)
    OBVIOUS
  <2>2. anthropic_user_to_openai(c) = <<m>>
    BY <1>2, <2>1 DEF anthropic_user_to_openai
  <2>3. ChatForm(m) /\ ChatTurn(m) = Spoke("user", c.parts)
    BY <1>1, <2>1, NamelessSays
  <2>4. Tidy(m)
    BY <2>1 DEF Tidy, Nameless, Message
  <2>5. Tells(<<m>>, ChatTurn(m))
    BY <2>3, <2>4, TellsOne
  <2> QED  BY <2>2, <2>3, <2>5
<1>3. CASE c.form # "string"
  <2>1. PICK out : out = Each(flush_user_parts,
                              Folded(anthropic_user_part_to_openai, <<>>, c.parts))
    OBVIOUS
  <2>2. Tells(out, Spoke("user", c.parts))
    BY <2>1, UserPartsTold
  <2>3. CASE out = <<>>
    <3>1. PICK m : m = Nameless("user", Parts(<<>>))
      OBVIOUS
    <3>2. anthropic_user_to_openai(c) = <<m>>
      BY <1>3, <2>1, <2>3, <3>1 DEF anthropic_user_to_openai
    <3>3. Spoke("user", c.parts) = <<>>
      <4>1. ~AnyBad(<<>>)
        BY Empty DEF AnyBad
      <4> QED  BY <2>2, <2>3, <4>1, ToldNone DEF Tells
    <3>4. PlainParts(<<>>)
      BY Empty DEF PlainParts
    <3>5. ChatForm(m) /\ ChatTurn(m) = <<>>
      <4>1. PICK p : p = Parts(<<>>) /\ Content(p) /\ p.parts = <<>>
        BY PartsContent
      <4>2. ChatForm(m) /\ ChatTurn(m) = Spoke("user", p.parts)
        BY <1>1, <3>1, <3>4, <4>1, NamelessSays
      <4> QED  BY <4>1, <4>2, SpokeNone
    <3>6. Tidy(m)
      BY <3>1 DEF Tidy, Nameless, Message
    <3>7. Tells(<<m>>, ChatTurn(m))
      BY <3>5, <3>6, TellsOne
    <3> QED  BY <3>2, <3>3, <3>5, <3>7
  <2>4. CASE out # <<>>
    <3>1. anthropic_user_to_openai(c) = out
      BY <1>3, <2>1, <2>4 DEF anthropic_user_to_openai
    <3> QED  BY <2>2, <3>1
  <2> QED  BY <2>3, <2>4
<1> QED  BY <1>2, <1>3

-----------------------------------------------------------------------------
(* Speeches of the same prose and the same traffic.                        *)
Rearranged(heard, said) == Prose(heard) = Prose(said) /\ Traffic(heard) = Traffic(said)

LEMMA KindBlank ==
  ASSUME NEW s, IsSeq(s), NEW kinds, \A i \in 1..Len(s) : s[i].is \notin kinds
  PROVE  Kind(s, kinds) = <<>>
<1>1. PICK ss : ss = [i \in DOMAIN s |-> IF s[i].is \in kinds THEN <<s[i]>> ELSE <<>>]
  OBVIOUS
<1>2. DOMAIN s = 1..Len(s)
  BY SeqIs
<1>3. DOMAIN ss = DOMAIN s /\ ss = [i \in DOMAIN ss |-> ss[i]]
      /\ \A i \in 1..Len(s) : ss[i] = <<>>
  BY <1>1, <1>2
<1>4. Lists(ss) /\ \A i \in 1..Len(ss) : ss[i] = <<>>
  BY <1>3, Imaged, Empty DEF Lists
<1> QED  BY <1>1, <1>4, Blank DEF Kind

LEMMA Unshuffled ==
  ASSUME NEW ss, Lists(ss), NEW K, NEW kinds,
         \/ \A i \in 1..Len(ss) \ K : Kind(ss[i], kinds) = <<>>
         \/ \A i \in K \cap 1..Len(ss) : Kind(ss[i], kinds) = <<>>
  PROVE  Kind(Concat(Masked(ss, K)) \o Concat(Masked(ss, 1..Len(ss) \ K)), kinds)
           = Kind(Concat(ss), kinds)
<1>1. PICK mm : /\ mm = Masked(ss, K) /\ Lists(mm) /\ Len(mm) = Len(ss)
                /\ \A i \in 1..Len(ss) : mm[i] = IF i \in K THEN ss[i] ELSE <<>>
  BY MaskedLists
<1>2. PICK nn : /\ nn = Masked(ss, 1..Len(ss) \ K) /\ Lists(nn) /\ Len(nn) = Len(ss)
                /\ \A i \in 1..Len(ss) : nn[i] = IF i \in 1..Len(ss) \ K THEN ss[i] ELSE <<>>
  BY MaskedLists
<1>3. PICK kk : /\ kk = [i \in DOMAIN mm |-> Kind(mm[i], kinds)]
                /\ Kind(Concat(mm), kinds) = Concat(kk) /\ Lists(kk)
  BY <1>1, KindConcat
<1>4. PICK ll : /\ ll = [i \in DOMAIN nn |-> Kind(nn[i], kinds)]
                /\ Kind(Concat(nn), kinds) = Concat(ll) /\ Lists(ll)
  BY <1>2, KindConcat
<1>5. PICK bb : /\ bb = [i \in DOMAIN ss |-> Kind(ss[i], kinds)]
                /\ Kind(Concat(ss), kinds) = Concat(bb) /\ Lists(bb)
  BY KindConcat
<1>6. /\ DOMAIN ss = 1..Len(ss) /\ DOMAIN mm = 1..Len(ss) /\ DOMAIN nn = 1..Len(ss)
      /\ IsSeq(kk) /\ IsSeq(ll) /\ IsSeq(bb) /\ IsSeq(ss)
  BY <1>1, <1>2, <1>3, <1>4, <1>5, SeqIs DEF Lists
<1>7. Len(kk) = Len(ss) /\ Len(ll) = Len(ss) /\ Len(bb) = Len(ss)
  <2>1. DOMAIN kk = DOMAIN ss /\ kk = [i \in DOMAIN kk |-> kk[i]]
    BY <1>3, <1>6
  <2>2. DOMAIN ll = DOMAIN ss /\ ll = [i \in DOMAIN ll |-> ll[i]]
    BY <1>4, <1>6
  <2>3. DOMAIN bb = DOMAIN ss /\ bb = [i \in DOMAIN bb |-> bb[i]]
    BY <1>5
  <2> QED  BY <1>6, <2>1, <2>2, <2>3, Imaged
<1>8. \A i \in 1..Len(ss) :
        /\ kk[i] = Kind(mm[i], kinds) /\ ll[i] = Kind(nn[i], kinds) /\ bb[i] = Kind(ss[i], kinds)
        /\ Kind(<<>>, kinds) = <<>>
  BY <1>3, <1>4, <1>5, <1>6, KindNone
<1>9. Kind(Concat(mm) \o Concat(nn), kinds) = Concat(kk) \o Concat(ll)
  <2>1. IsSeq(Concat(mm)) /\ IsSeq(Concat(nn))
    BY <1>1, <1>2, ConcatSeq
  <2>2. Kind(Concat(mm) \o Concat(nn), kinds) = Kind(Concat(mm), kinds) \o Kind(Concat(nn), kinds)
    BY <2>1, KindJoin
  <2> QED  BY <1>3, <1>4, <2>2
<1>10. IsSeq(Concat(bb))
  BY <1>5, ConcatSeq
<1>11. CASE \A i \in 1..Len(ss) \ K : Kind(ss[i], kinds) = <<>>
  <2>1. ASSUME NEW i \in 1..Len(ss) PROVE kk[i] = bb[i] /\ ll[i] = <<>>
    <3>1. CASE i \in K
      <4>1. mm[i] = ss[i] /\ nn[i] = <<>>
        BY <1>1, <1>2, <3>1
      <4> QED  BY <1>8, <1>11, <3>1, <4>1
    <3>2. CASE i \notin K
      <4>1. mm[i] = <<>> /\ nn[i] = ss[i]
        BY <1>1, <1>2, <3>2
      <4> QED  BY <1>8, <1>11, <3>2, <4>1
    <3> QED  BY <3>1, <3>2
  <2>2. kk = bb /\ Concat(ll) = <<>>
    BY <1>4, <1>6, <1>7, <2>1, Alike, Blank
  <2> QED  BY <1>1, <1>2, <1>5, <1>9, <1>10, <2>2, Empty
<1>12. CASE \A i \in K \cap 1..Len(ss) : Kind(ss[i], kinds) = <<>>
  <2>1. ASSUME NEW i \in 1..Len(ss) PROVE ll[i] = bb[i] /\ kk[i] = <<>>
    <3>1. CASE i \in K
      <4>1. mm[i] = ss[i] /\ nn[i] = <<>>
        BY <1>1, <1>2, <3>1
      <4> QED  BY <1>8, <1>12, <3>1, <4>1
    <3>2. CASE i \notin K
      <4>1. mm[i] = <<>> /\ nn[i] = ss[i]
        BY <1>1, <1>2, <3>2
      <4> QED  BY <1>8, <1>12, <3>2, <4>1
    <3> QED  BY <3>1, <3>2
  <2>2. ll = bb /\ Concat(kk) = <<>>
    BY <1>3, <1>6, <1>7, <2>1, Alike, Blank
  <2> QED  BY <1>1, <1>2, <1>5, <1>9, <1>10, <2>2, Empty
<1> QED  BY <1>11, <1>12

(* What a part says is of one kind.                                        *)
LEMMA TextKind ==
  ASSUME NEW by, NEW p, PlainForm(p), p.is \in {"text", "input_text", "output_text"}
  PROVE  Kind(Utterance(by, p), Dealing) = <<>>
<1>1. PICK s, text : s = Utterance(by, p) /\ s = Texts(by, text) /\ IsSeq(s) /\ IsSeq(text)
  BY UtteranceSeq DEF Utterance, PlainForm
<1>2. \A i \in 1..Len(s) : s[i].is = "text"
  <2>1. s = [i \in DOMAIN text |-> [by |-> by, is |-> "text", text |-> text[i]]]
    BY <1>1 DEF Texts, Each
  <2>2. DOMAIN s = DOMAIN text
    BY <2>1
  <2>3. DOMAIN s = 1..Len(s)
    BY <1>1, SeqIs
  <2> QED  BY <2>1, <2>2, <2>3
<1> QED  BY <1>1, <1>2, KindBlank DEF Dealing

LEMMA ShownKind ==
  ASSUME NEW by, NEW p,
         p.is \in {"image_url", "input_image", "image", "inlineData", "fileData"}
  PROVE  Kind(Utterance(by, p), Dealing) = <<>>
<1>1. PICK u : u.is = "image" /\ Utterance(by, p) = <<u>>
  <2>1. PICK how, ref, detail, mime : Utterance(by, p) = Shows(by, how, ref, detail, mime)
    <3>1. CASE p.is \in {"image_url", "input_image"}
      BY <3>1 DEF Utterance
    <3>2. CASE p.is = "image"
      BY <3>2 DEF Utterance
    <3>3. CASE p.is = "inlineData"
      BY <3>3 DEF Utterance
    <3>4. CASE p.is = "fileData"
      BY <3>4 DEF Utterance
    <3> QED  BY <3>1, <3>2, <3>3, <3>4
  <2> QED  BY <2>1 DEF Shows
<1> QED  BY <1>1, KindOne DEF Dealing

LEMMA DealtKind ==
  ASSUME NEW by, NEW p, p.is \in {"tool_use", "functionCall", "tool_result", "functionResponse"}
  PROVE  Kind(Utterance(by, p), Telling) = <<>>
<1>1. PICK u : u.is \in {"call", "result"} /\ Utterance(by, p) = <<u>>
  <2>1. CASE p.is \in {"tool_use", "functionCall"}
    <3>1. Utterance(by, p) = Calls(p)
      BY <2>1 DEF Utterance
    <3> QED  BY <3>1 DEF Calls
  <2>2. CASE p.is = "tool_result"
    <3>1. Utterance(by, p) = Results(p.id, TextOf(p.content))
      BY <2>2 DEF Utterance
    <3> QED  BY <3>1 DEF Results
  <2>3. CASE p.is = "functionResponse"
    <3>1. PICK text : Utterance(by, p) = Results(p.id, text)
      BY <2>3 DEF Utterance
    <3> QED  BY <3>1 DEF Results
  <2> QED  BY <2>1, <2>2, <2>3
<1> QED  BY <1>1, KindOne DEF Telling

(* An assistant's calls, as the parts that make them say.                  *)
LEMMA CallsSaid ==
  ASSUME NEW by, NEW uu, PlainParts(uu), NEW calls, IsSeq(calls), Len(calls) = Len(uu),
         \A i \in 1..Len(uu) : Calls(calls[i]) = Utterance(by, uu[i])
  PROVE  Concat(Called(calls)) = Spoke(by, uu)
<1>1. PICK cc : /\ cc = Called(calls) /\ IsSeq(cc) /\ Len(cc) = Len(calls)
                /\ \A i \in 1..Len(calls) : cc[i] = Calls(calls[i])
  BY CalledLists DEF Lists
<1>2. PICK tt : /\ tt = Uttered(by, uu) /\ IsSeq(tt) /\ Len(tt) = Len(uu)
                /\ \A i \in 1..Len(uu) : tt[i] = Utterance(by, uu[i])
  BY UtteredLists DEF Lists
<1>3. cc = tt
  BY <1>1, <1>2, Alike
<1> QED  BY <1>1, <1>2, <1>3, SpokeSeq

Where(parts, kinds) == {i \in DOMAIN parts : parts[i].is \in kinds}

LEMMA UsesCalled ==
  ASSUME NEW uu, PlainParts(uu), \A i \in 1..Len(uu) : uu[i].is = "tool_use",
         NEW calls, calls = Each(convert_anthropic_tool_use, uu), ~AnyBad(calls)
  PROVE  IsSeq(calls) /\ Concat(Called(calls)) = Spoke("assistant", uu)
<1>1. IsSeq(uu) /\ DOMAIN uu = 1..Len(uu)
  BY SeqIs DEF PlainParts
<1>2. DOMAIN calls = DOMAIN uu /\ calls = [i \in DOMAIN calls |-> calls[i]]
      /\ \A i \in DOMAIN uu : calls[i] = convert_anthropic_tool_use(uu[i])
  BY DEF Each
<1>3. IsSeq(calls) /\ Len(calls) = Len(uu) /\ DOMAIN calls = 1..Len(uu)
  BY <1>1, <1>2, Imaged
<1>4. ASSUME NEW i \in 1..Len(uu) PROVE Calls(calls[i]) = Utterance("assistant", uu[i])
  <2>1. PICK p : p = uu[i] /\ p.is = "tool_use" /\ calls[i] = convert_anthropic_tool_use(p)
                 /\ calls[i] # Bad
    BY <1>1, <1>2, <1>3 DEF AnyBad
  <2>2. calls[i] = Call(p.id, p.name, p.args)
    BY <2>1 DEF convert_anthropic_tool_use
  <2>3. Utterance("assistant", p) = Calls(p)
    BY <2>1 DEF Utterance
  <2> QED  BY <2>1, <2>2, <2>3 DEF Calls, Call
<1> QED  BY <1>3, <1>4, CallsSaid

(* An assistant's message: its texts, then its calls.                      *)
LEMMA AnthropicAssistantTold ==
  ASSUME NEW c, Content(c), PartsForm(c.parts),
         NEW m, m = anthropic_assistant_to_openai(c), m # Bad
  PROVE  /\ ChatForm(m) /\ Tidy(m)
         /\ Rearranged(ChatTurn(m), Spoke("assistant", c.parts))
         /\ (\A j, k \in DOMAIN c.parts :
               j < k => ~(c.parts[j].is = "tool_use" /\ c.parts[k].is = "text"))
              => ChatTurn(m) = Spoke("assistant", c.parts)
<1>1. PICK parts : parts = c.parts /\ PlainParts(parts)
  BY PartsPlain
<1>2. CASE c.form = "string"
  <2>1. m = Nameless("assistant", c)
    BY <1>2 DEF anthropic_assistant_to_openai
  <2>2. Speaker("assistant") = "assistant"
    BY DEF Speaker
  <2>3. ChatForm(m) /\ ChatTurn(m) = Spoke("assistant", parts)
    BY <1>1, <2>1, <2>2, NamelessSays
  <2>4. Tidy(m)
    BY <2>1, NamelessTidy
  <2> QED  BY <1>1, <2>3, <2>4 DEF Rearranged
<1>3. CASE c.form # "string"
  <2>1. PICK K, U : K = Where(parts, {"text"}) /\ U = Where(parts, {"tool_use"})
    OBVIOUS
  <2>2. PICK texts, uu : texts = Picked(parts, K) /\ uu = Picked(parts, U)
    OBVIOUS
  <2>3. /\ With(parts, LAMBDA p : p.is = "text") = texts
        /\ With(parts, LAMBDA p : p.is = "tool_use") = uu
    <3>1. /\ With(parts, LAMBDA p : p.is = "text")
               = Concat([i \in DOMAIN parts |-> IF parts[i].is = "text" THEN <<parts[i]>> ELSE <<>>])
          /\ With(parts, LAMBDA p : p.is = "tool_use")
               = Concat([i \in DOMAIN parts |->
                          IF parts[i].is = "tool_use" THEN <<parts[i]>> ELSE <<>>])
      BY Zenon DEF With, Each
    <3>2. AtPlaces(parts, K)
            = [i \in DOMAIN parts |-> IF parts[i].is = "text" THEN <<parts[i]>> ELSE <<>>]
      BY <2>1 DEF AtPlaces, Where
    <3>3. AtPlaces(parts, U)
            = [i \in DOMAIN parts |-> IF parts[i].is = "tool_use" THEN <<parts[i]>> ELSE <<>>]
      BY <2>1 DEF AtPlaces, Where
    <3> QED  BY <2>2, <3>1, <3>2, <3>3 DEF Picked
  <2>4. PICK calls : calls = Each(convert_anthropic_tool_use, uu)
    OBVIOUS
  <2>5. /\ \A i \in DOMAIN parts : parts[i].is \in {"text", "tool_use"}
        /\ ~AnyBad(calls)
        /\ m = Message("assistant", IF texts = <<>> THEN Absent ELSE collapse_text_parts(texts),
                       calls, "", "")
    BY <1>1, <1>3, <2>3, <2>4, Zenon DEF anthropic_assistant_to_openai
  <2>6. PlainParts(texts) /\ PlainParts(uu)
    BY <1>1, <2>2, PickedPlain
  <2>7. IsSeq(parts) /\ DOMAIN parts = 1..Len(parts) /\ Len(parts) \in Nat
    BY <1>1, SeqIs DEF PlainParts
  <2>8. \A i \in 1..Len(uu) : uu[i].is = "tool_use"
    BY <2>1, <2>2, <2>7, PickedFrom DEF Where
  <2>9. IsSeq(calls) /\ Concat(Called(calls)) = Spoke("assistant", uu)
    BY <2>4, <2>5, <2>6, <2>8, UsesCalled
  <2>10. PICK h : /\ h = IF texts = <<>> THEN Absent ELSE collapse_text_parts(texts)
                  /\ Content(h) /\ PlainParts(h.parts) /\ h.form # "bad"
                  /\ Spoke("assistant", h.parts) = Spoke("assistant", texts)
    <3>1. CASE texts = <<>>
      BY <3>1, AbsentSays
    <3>2. CASE texts # <<>>
      <4>1. PICK h : h = collapse_text_parts(texts)
        OBVIOUS
      <4>2. Content(h) /\ PlainParts(h.parts) /\ Spoke("assistant", h.parts) = Spoke("assistant", texts)
        BY <2>6, <4>1, Collapsed
      <4>3. h.form # "bad"
        BY <4>2 DEF Content
      <4> QED  BY <3>2, <4>1, <4>2, <4>3
    <3> QED  BY <3>1, <3>2
  <2>11. /\ m.role = "assistant" /\ m.content = h /\ m.calls = calls /\ m.name = "" /\ m.id = ""
         /\ m = Message(m.role, m.content, m.calls, m.id, m.name)
    <3>1. PICK l : l = Message("assistant", h, calls, "", "")
      OBVIOUS
    <3>2. l.role = "assistant" /\ l.content = h /\ l.calls = calls /\ l.name = "" /\ l.id = ""
      BY <3>1 DEF Message
    <3>3. m = l
      BY <2>5, <2>10, <3>1
    <3> QED  BY <3>1, <3>2, <3>3
  <2>12. ChatForm(m) /\ Tidy(m)
    BY <2>9, <2>10, <2>11 DEF ChatForm, Tidy
  <2>13. ChatTurn(m) = Spoke("assistant", texts) \o Spoke("assistant", uu)
    <3>1. SpeakerOf(m) = "assistant"
      <4>1. Speaker("assistant") = "assistant"
        BY DEF Speaker
      <4>2. m.name = "" /\ m.role = "assistant"
        BY <2>11
      <4> QED  BY <4>1, <4>2, Unlabelled
    <3>2. ChatTurn(m) = Spoke("assistant", h.parts) \o Concat(Called(calls))
      BY <2>11, <2>12, <3>1, ChatTurnSays
    <3> QED  BY <2>9, <2>10, <3>2
  <2>14. PICK ss : /\ ss = Uttered("assistant", parts) /\ Lists(ss) /\ Len(ss) = Len(parts)
                   /\ Spoke("assistant", parts) = Concat(ss)
                   /\ \A i \in 1..Len(parts) : ss[i] = Utterance("assistant", parts[i])
    BY <1>1, UtteredLists, SpokeSeq
  <2>15. U = 1..Len(ss) \ K
    BY <2>1, <2>5, <2>7, <2>14 DEF Where
  <2>16. ChatTurn(m) = Concat(Masked(ss, K)) \o Concat(Masked(ss, 1..Len(ss) \ K))
    <3>1. /\ Spoke("assistant", texts) = Concat(Masked(ss, K))
          /\ Spoke("assistant", uu) = Concat(Masked(ss, U))
      BY <1>1, <2>2, <2>14, SpokePicked
    <3> QED  BY <2>13, <2>15, <3>1
  <2>17. \A i \in K \cap 1..Len(ss) : Kind(ss[i], Dealing) = <<>>
    <3>1. ASSUME NEW i \in K \cap 1..Len(ss) PROVE Kind(ss[i], Dealing) = <<>>
      <4>1. PICK p : p = parts[i] /\ p.is = "text" /\ PlainForm(p)
                     /\ ss[i] = Utterance("assistant", p)
        BY <1>1, <2>1, <2>7, <2>14, <3>1 DEF Where, PlainParts
      <4> QED  BY <4>1, TextKind
    <3> QED  BY <3>1
  <2>18. \A i \in 1..Len(ss) \ K : Kind(ss[i], Telling) = <<>>
    <3>1. ASSUME NEW i \in 1..Len(ss) \ K PROVE Kind(ss[i], Telling) = <<>>
      <4>1. PICK p : p = parts[i] /\ p.is = "tool_use" /\ ss[i] = Utterance("assistant", p)
        BY <2>1, <2>5, <2>7, <2>14, <3>1 DEF Where
      <4> QED  BY <4>1, DealtKind
    <3> QED  BY <3>1
  <2>19. Rearranged(ChatTurn(m), Concat(ss))
    <3>1. Kind(ChatTurn(m), Telling) = Kind(Concat(ss), Telling)
      BY <2>14, <2>16, <2>18, Unshuffled
    <3>2. Kind(ChatTurn(m), Dealing) = Kind(Concat(ss), Dealing)
      BY <2>14, <2>16, <2>17, Unshuffled, SMTT(30)
    <3> QED  BY <3>1, <3>2, ProseIs DEF Rearranged
  <2>20. ASSUME \A j, k \in DOMAIN parts :
                  j < k => ~(parts[j].is = "tool_use" /\ parts[k].is = "text")
         PROVE  ChatTurn(m) = Concat(ss)
    <3>1. \A i, j \in 1..Len(ss) : i < j /\ j \in K => i \in K
      BY <2>1, <2>5, <2>7, <2>14, <2>20 DEF Where
    <3> QED  BY <2>14, <2>16, <3>1, Sorted
  <2> QED  BY <1>1, <2>12, <2>14, <2>19, <2>20
<1> QED  BY <1>2, <1>3

-----------------------------------------------------------------------------
(* Messages joined tell what each of them tells.                           *)
LEMMA BadJoined ==
  ASSUME NEW ms, NEW ns, IsSeq(ms), IsSeq(ns), ~AnyBad(ms \o ns)
  PROVE  ~AnyBad(ms) /\ ~AnyBad(ns)
<1>1. PICK l : /\ l = ms \o ns /\ IsSeq(l) /\ Len(l) = Len(ms) + Len(ns)
               /\ \A i \in 1..Len(ms) : l[i] = ms[i]
               /\ \A i \in 1..Len(ns) : l[Len(ms) + i] = ns[i]
  <2>1. PICK l : l = ms \o ns
    OBVIOUS
  <2>2. IsSeq(l) /\ Len(l) = Len(ms) + Len(ns)
    BY <2>1, Joined
  <2>3. \A i \in 1..Len(ms) : l[i] = ms[i]
    BY <2>1, Joined
  <2>4. \A i \in 1..Len(ns) : l[Len(ms) + i] = ns[i]
    BY <2>1, Joined
  <2> QED  BY <2>1, <2>2, <2>3, <2>4
<1>2. Len(ms) \in Nat /\ Len(ns) \in Nat
  BY SeqIs
<1>3. \A i \in 1..Len(l) : l[i] # Bad
  BY <1>1, BadPart
<1>4. \A i \in 1..Len(ms) : i \in 1..Len(l)
  BY <1>1, <1>2
<1>5. \A i \in 1..Len(ns) : Len(ms) + i \in 1..Len(l)
  BY <1>1, <1>2
<1>6. ~AnyBad(ms)
  BY <1>1, <1>3, <1>4, BadPart
<1>7. ~AnyBad(ns)
  BY <1>1, <1>3, <1>5, BadPart
<1> QED  BY <1>6, <1>7

LEMMA TellsJoin ==
  ASSUME NEW ms, NEW told, Tells(ms, told), NEW ns, NEW more, Tells(ns, more)
  PROVE  Tells(ms \o ns, told \o more)
<1>1. Hub(ms) /\ Hub(ns) /\ AllTidy(ms) /\ AllTidy(ns) /\ IsSeq(ms) /\ IsSeq(ns)
  BY DEF Tells, Hub
<1>2. PICK l : l = ms \o ns /\ Hub(l)
  BY <1>1, HubJoined
<1>3. AllTidy(l)
  <2> DEFINE T == {x \in {ms[i] : i \in 1..Len(ms)} \cup {ns[i] : i \in 1..Len(ns)} :
                     x = Bad \/ Tidy(x)}
  <2>1. (\A i \in 1..Len(ms) : ms[i] \in T) /\ (\A i \in 1..Len(ns) : ns[i] \in T)
    BY <1>1 DEF AllTidy
  <2>2. \A x \in T : x = Bad \/ Tidy(x)
    OBVIOUS
  <2> HIDE DEF T
  <2>3. \A i \in 1..Len(ms \o ns) : (ms \o ns)[i] \in T
    BY <1>1, <2>1, JoinedItems
  <2> QED  BY <1>2, <2>2, <2>3 DEF AllTidy
<1>4. CASE AnyBad(l)
  BY <1>2, <1>3, <1>4 DEF Tells
<1>5. CASE ~AnyBad(l)
  <2>1. ~AnyBad(ms) /\ ~AnyBad(ns)
    BY <1>1, <1>2, <1>5, BadJoined
  <2>2. ChatForms(ms) /\ ChatForms(ns) /\ Concat(Told(ms)) = told /\ Concat(Told(ns)) = more
    BY <1>1, <2>1, HubGood DEF Tells
  <2>3. Concat(Told(ms \o ns)) = Concat(Told(ms)) \o Concat(Told(ns))
    BY <2>2, ToldJoin
  <2>4. Concat(Told(l)) = told \o more
    BY <1>2, <2>2, <2>3
  <2> QED  BY <1>2, <1>3, <2>4 DEF Tells
<1> QED  BY <1>4, <1>5

LEMMA TellsNone == Tells(<<>>, <<>>)
<1>1. AllTidy(<<>>)
  BY Empty DEF AllTidy
<1> QED  BY <1>1, ToldNone, HubNone DEF Tells

LEMMA TellsConcat ==
  ASSUME NEW ss, Lists(ss), NEW tt, Lists(tt), Len(tt) = Len(ss),
         \A i \in 1..Len(ss) : Tells(ss[i], tt[i])
  PROVE  Tells(Concat(ss), Concat(tt))
<1>1. PICK f : /\ f[0] = <<>> /\ \A k \in 1..Len(ss) : f[k] = f[k - 1] \o ss[k]
               /\ Concat(ss) = f[Len(ss)]
  BY Grown
<1>2. Tells(f[0], <<>>)
  BY <1>1, TellsNone
<1>3. Narrates(f, tt)
  <2>1. ASSUME NEW n \in 1..Len(tt), NEW t, IsSeq(t), Tells(f[n - 1], t)
        PROVE  Tells(f[n], t \o tt[n])
    <3>1. f[n] = f[n - 1] \o ss[n] /\ Tells(ss[n], tt[n])
      BY <1>1, <2>1
    <3> QED  BY <2>1, <3>1, TellsJoin
  <2> QED  BY <2>1 DEF Narrates
<1>4. Tells(f[Len(tt)], <<>> \o Concat(tt))
  BY <1>2, <1>3, Empty, FoldTold
<1>5. <<>> \o Concat(tt) = Concat(tt)
  BY ConcatSeq, Empty
<1> QED  BY <1>1, <1>4, <1>5

LEMMA RearrangedConcat ==
  ASSUME NEW ss, Lists(ss), NEW tt, Lists(tt), Len(tt) = Len(ss),
         \A i \in 1..Len(ss) : Rearranged(tt[i], ss[i])
  PROVE  Rearranged(Concat(tt), Concat(ss))
<1>1. ASSUME NEW kinds, \A i \in 1..Len(ss) : Kind(tt[i], kinds) = Kind(ss[i], kinds)
      PROVE  Kind(Concat(tt), kinds) = Kind(Concat(ss), kinds)
  <2>1. DOMAIN ss = 1..Len(ss) /\ DOMAIN tt = 1..Len(ss)
    BY SeqIs DEF Lists
  <2>2. PICK kk : /\ kk = [i \in DOMAIN tt |-> Kind(tt[i], kinds)]
                  /\ Kind(Concat(tt), kinds) = Concat(kk)
    BY KindConcat
  <2>3. PICK ll : /\ ll = [i \in DOMAIN ss |-> Kind(ss[i], kinds)]
                  /\ Kind(Concat(ss), kinds) = Concat(ll)
    BY KindConcat
  <2>4. kk = ll
    BY <1>1, <2>1, <2>2, <2>3
  <2> QED  BY <2>2, <2>3, <2>4
<1>2. \A i \in 1..Len(ss) : Kind(tt[i], Telling) = Kind(ss[i], Telling)
                              /\ Kind(tt[i], Dealing) = Kind(ss[i], Dealing)
  BY ProseIs DEF Rearranged
<1>3. /\ Kind(Concat(tt), Telling) = Kind(Concat(ss), Telling)
      /\ Kind(Concat(tt), Dealing) = Kind(Concat(ss), Dealing)
  BY <1>1, <1>2
<1> QED  BY <1>3, ProseIs DEF Rearranged

(* Messages that tell a speech in another order.                           *)
Loosely(ms, said) ==
  Hub(ms) /\ AllTidy(ms) /\ (~AnyBad(ms) => Rearranged(Concat(Told(ms)), said))

LEMMA TellsLoosely ==
  ASSUME NEW ms, NEW said, Tells(ms, said)
  PROVE  Loosely(ms, said)
BY DEF Tells, Loosely, Rearranged

LEMMA LooselyJoin ==
  ASSUME NEW ms, NEW told, Tells(ms, told), NEW ns, NEW said, IsSeq(said), IsSeq(told),
         Loosely(ns, said)
  PROVE  Loosely(ms \o ns, told \o said)
<1>1. PICK h : h = IF AnyBad(ns) THEN said ELSE Concat(Told(ns))
  OBVIOUS
<1>2. Tells(ns, h) /\ Rearranged(h, said) /\ IsSeq(h)
  <2>1. CASE AnyBad(ns)
    BY <1>1, <2>1 DEF Tells, Loosely, Rearranged
  <2>2. CASE ~AnyBad(ns)
    <3>1. IsSeq(Concat(Told(ns)))
      BY <2>2, HubGood, ToldLists DEF Loosely
    <3> QED  BY <1>1, <2>2, <3>1 DEF Tells, Loosely
  <2> QED  BY <2>1, <2>2
<1>3. Tells(ms \o ns, told \o h)
  BY <1>2, TellsJoin
<1>4. Rearranged(told \o h, told \o said)
  <2>1. \A kinds : Kind(told \o h, kinds) = Kind(told, kinds) \o Kind(h, kinds)
                     /\ Kind(told \o said, kinds) = Kind(told, kinds) \o Kind(said, kinds)
    BY <1>2, KindJoin
  <2>2. Kind(h, Telling) = Kind(said, Telling) /\ Kind(h, Dealing) = Kind(said, Dealing)
    BY <1>2, ProseIs DEF Rearranged
  <2>3. /\ Kind(told \o h, Telling) = Kind(told \o said, Telling)
        /\ Kind(told \o h, Dealing) = Kind(told \o said, Dealing)
    BY <2>1, <2>2
  <2> QED  BY <2>3, ProseIs DEF Rearranged
<1>5. PICK l, a, b : l = ms \o ns /\ a = told \o h /\ b = told \o said
  OBVIOUS
<1>6. Loosely(l, b)
  BY <1>3, <1>4, <1>5 DEF Loosely, Tells
<1> QED  BY <1>5, <1>6

LEMMA LooselyConcat ==
  ASSUME NEW ss, Lists(ss), NEW tt, Lists(tt), Len(tt) = Len(ss),
         \A i \in 1..Len(ss) : Loosely(ss[i], tt[i])
  PROVE  Loosely(Concat(ss), Concat(tt))
<1>1. IsSeq(ss) /\ DOMAIN ss = 1..Len(ss) /\ DOMAIN tt = 1..Len(ss)
  BY SeqIs DEF Lists
<1>2. PICK hh : hh = [i \in DOMAIN ss |-> IF AnyBad(ss[i]) THEN tt[i] ELSE Concat(Told(ss[i]))]
  OBVIOUS
<1>3. IsSeq(hh) /\ Len(hh) = Len(ss)
  <2>1. DOMAIN hh = DOMAIN ss /\ hh = [i \in DOMAIN hh |-> hh[i]]
    BY <1>2
  <2> QED  BY <1>1, <2>1, Imaged
<1>4. ASSUME NEW i \in 1..Len(ss)
      PROVE  Tells(ss[i], hh[i]) /\ Rearranged(hh[i], tt[i]) /\ IsSeq(hh[i])
  <2>1. PICK ns, said, h : /\ ns = ss[i] /\ said = tt[i] /\ h = hh[i] /\ Loosely(ns, said)
                           /\ h = IF AnyBad(ns) THEN said ELSE Concat(Told(ns))
                           /\ IsSeq(said)
    BY <1>1, <1>2 DEF Lists
  <2>2. CASE AnyBad(ns)
    BY <2>1, <2>2 DEF Tells, Loosely, Rearranged
  <2>3. CASE ~AnyBad(ns)
    <3>1. IsSeq(Concat(Told(ns)))
      BY <2>1, <2>3, HubGood, ToldLists DEF Loosely
    <3> QED  BY <2>1, <2>3, <3>1 DEF Tells, Loosely
  <2> QED  BY <2>2, <2>3
<1>5. Lists(hh)
  BY <1>3, <1>4 DEF Lists
<1>6. Tells(Concat(ss), Concat(hh))
  BY <1>3, <1>4, <1>5, TellsConcat
<1>7. Rearranged(Concat(hh), Concat(tt))
  BY <1>3, <1>4, <1>5, RearrangedConcat
<1> QED  BY <1>6, <1>7 DEF Loosely, Tells

(* A message of Anthropic, and a document of them, through the hub.        *)
InOrder(parts) ==
  \A j, k \in DOMAIN parts : j < k => ~(parts[j].is = "tool_use" /\ parts[k].is = "text")

LEMMA AnthropicMessageTold ==
  ASSUME NEW t, Content(t.content), PartsForm(t.content.parts),
         NEW ms, ms = convert_anthropic_message(t)
  PROVE  /\ Loosely(ms, Spoke(t.role, t.content.parts))
         /\ InOrder(t.content.parts) => Tells(ms, Spoke(t.role, t.content.parts))
<1>1. PICK c : c = t.content /\ Content(c) /\ PartsForm(c.parts)
  OBVIOUS
<1>2. CASE t.role = "user"
  <2>1. ms = anthropic_user_to_openai(c)
    BY <1>1, <1>2 DEF convert_anthropic_message
  <2>2. Tells(anthropic_user_to_openai(c), Spoke("user", c.parts))
    BY <1>1, AnthropicUserTold
  <2> QED  BY <1>1, <1>2, <2>1, <2>2, TellsLoosely
<1>3. CASE t.role = "assistant"
  <2>1. PICK m : m = anthropic_assistant_to_openai(c)
    OBVIOUS
  <2>2. ms = <<m>>
    BY <1>1, <1>3, <2>1 DEF convert_anthropic_message
  <2>3. CASE m = Bad
    BY <1>1, <1>3, <2>2, <2>3, TellsBad, TellsLoosely
  <2>4. CASE m # Bad
    <3>1. PICK said : said = Spoke("assistant", c.parts)
      OBVIOUS
    <3>2. /\ ChatForm(m) /\ Tidy(m) /\ Rearranged(ChatTurn(m), said)
          /\ InOrder(c.parts) => ChatTurn(m) = said
      BY <1>1, <2>1, <2>4, <3>1, AnthropicAssistantTold DEF InOrder
    <3>3. Tells(ms, ChatTurn(m))
      BY <2>2, <3>2, TellsOne
    <3>4. Loosely(ms, said)
      BY <3>2, <3>3 DEF Tells, Loosely
    <3>5. InOrder(c.parts) => Tells(ms, said)
      BY <3>2, <3>3
    <3> QED  BY <1>1, <1>3, <3>1, <3>4, <3>5
  <2> QED  BY <2>3, <2>4
<1>4. CASE t.role \notin {"user", "assistant"}
  <2>1. ms = <<Bad>>
    BY <1>4 DEF convert_anthropic_message
  <2> QED  BY <2>1, TellsBad, TellsLoosely
<1> QED  BY <1>2, <1>3, <1>4

(* The system prompt becomes the first message.                            *)
Prompt(system) ==
  CASE system = <<>> -> <<>>
    [] AnyBad(Each(push_system_parts, system)) -> <<Bad>>
    [] OTHER -> <<Nameless("system", collapse_text_parts(system))>>

LEMMA PromptTold ==
  ASSUME NEW system, PlainParts(system)
  PROVE  Tells(Prompt(system), Spoke("system", system)) /\ IsSeq(Spoke("system", system))
<1>1. IsSeq(Spoke("system", system))
  BY SpokeSeq
<1>2. CASE system = <<>>
  <2>1. ~AnyBad(Each(push_system_parts, system))
    BY <1>2, Empty DEF AnyBad, Each
  <2>2. Prompt(system) = <<>>
    BY <1>2, <2>1 DEF Prompt
  <2> QED  BY <1>1, <1>2, <2>2, TellsNone, SpokeNone
<1>3. CASE system # <<>> /\ AnyBad(Each(push_system_parts, system))
  <2>1. Prompt(system) = <<Bad>>
    BY <1>3 DEF Prompt
  <2> QED  BY <1>1, <2>1, TellsBad
<1>4. CASE system # <<>> /\ ~AnyBad(Each(push_system_parts, system))
  <2>1. PICK c : c = collapse_text_parts(system)
    OBVIOUS
  <2>2. PICK m : m = Nameless("system", c)
    OBVIOUS
  <2>3. Prompt(system) = <<m>>
    BY <1>4, <2>1, <2>2 DEF Prompt
  <2>4. Content(c) /\ PlainParts(c.parts) /\ Spoke("system", c.parts) = Spoke("system", system)
    BY <2>1, Collapsed
  <2>5. Speaker("system") = "system"
    BY DEF Speaker
  <2>6. ChatForm(m) /\ ChatTurn(m) = Spoke("system", system) /\ Tidy(m)
    BY <2>2, <2>4, <2>5, NamelessSays, NamelessTidy
  <2>7. Tells(<<m>>, ChatTurn(m))
    BY <2>6, TellsOne
  <2> QED  BY <1>1, <2>3, <2>6, <2>7
<1> QED  BY <1>2, <1>3, <1>4

LEMMA EachLists ==
  ASSUME NEW s, IsSeq(s), NEW t, DOMAIN t = DOMAIN s, t = [i \in DOMAIN t |-> t[i]],
         \A i \in DOMAIN s : IsSeq(t[i])
  PROVE  Lists(t) /\ Len(t) = Len(s)
BY Imaged, SeqIs DEF Lists

AnthropicHub(d) == Prompt(d.system) \o Concat(Each(convert_anthropic_message, d.turns))

LEMMA AnthropicTold ==
  ASSUME NEW d, Worded("anthropic", d)
  PROVE  /\ Loosely(AnthropicHub(d), Speech("anthropic", d))
         /\ (\A i \in DOMAIN d.turns : InOrder(d.turns[i].content.parts))
              => Tells(AnthropicHub(d), Speech("anthropic", d))
<1>1. /\ IsSeq(d.turns) /\ PlainParts(d.system)
      /\ \A i \in DOMAIN d.turns :
           Content(d.turns[i].content) /\ PartsForm(d.turns[i].content.parts)
  BY DEF Worded, TurnForm
<1>2. PICK ss : ss = Each(convert_anthropic_message, d.turns)
  OBVIOUS
<1>3. PICK tt : tt = Each(LAMBDA t : Turn("anthropic", t), d.turns)
  OBVIOUS
<1>4. /\ DOMAIN ss = DOMAIN d.turns /\ ss = [i \in DOMAIN ss |-> ss[i]]
      /\ \A i \in DOMAIN d.turns : ss[i] = convert_anthropic_message(d.turns[i])
  BY <1>2 DEF Each
<1>5. /\ DOMAIN tt = DOMAIN d.turns /\ tt = [i \in DOMAIN tt |-> tt[i]]
      /\ \A i \in DOMAIN d.turns : tt[i] = Turn("anthropic", d.turns[i])
  BY <1>3 DEF Each
<1>6. ASSUME NEW i \in DOMAIN d.turns
      PROVE  /\ Loosely(ss[i], tt[i]) /\ IsSeq(ss[i]) /\ IsSeq(tt[i])
             /\ InOrder(d.turns[i].content.parts) => Tells(ss[i], tt[i])
  <2>1. PICK t, ms, said : /\ t = d.turns[i] /\ ms = ss[i] /\ said = tt[i]
                           /\ Content(t.content) /\ PartsForm(t.content.parts)
                           /\ ms = convert_anthropic_message(t) /\ said = Turn("anthropic", t)
    BY <1>1, <1>4, <1>5
  <2>2. said = Spoke(t.role, t.content.parts)
    BY <2>1 DEF Turn
  <2>3. /\ Loosely(ms, said) /\ (InOrder(t.content.parts) => Tells(ms, said))
    BY <2>1, <2>2, AnthropicMessageTold
  <2>4. IsSeq(said)
    BY <2>1, <2>2, PartsPlain, SpokeSeq
  <2>5. IsSeq(ms)
    BY <2>3 DEF Loosely, Hub
  <2> QED  BY <2>1, <2>3, <2>4, <2>5
<1>7. /\ Lists(ss) /\ Lists(tt) /\ Len(ss) = Len(d.turns) /\ Len(tt) = Len(ss)
      /\ DOMAIN d.turns = 1..Len(ss)
  BY <1>1, <1>4, <1>5, <1>6, EachLists, SeqIs
<1>8. Tells(Prompt(d.system), Spoke("system", d.system)) /\ IsSeq(Spoke("system", d.system))
  BY <1>1, PromptTold
<1>9. Speech("anthropic", d) = Spoke("system", d.system) \o Concat(tt)
  <2>1. Speech("anthropic", d) = Spoke("system", d.system)
          \o Concat(Each(LAMBDA t : Turn("anthropic", t), d.turns))
    BY Zenon DEF Speech
  <2> QED  BY <1>3, <2>1
<1>10. AnthropicHub(d) = Prompt(d.system) \o Concat(ss)
  BY <1>2 DEF AnthropicHub
<1>11. IsSeq(Concat(tt))
  BY <1>7, ConcatSeq
<1>12. Loosely(AnthropicHub(d), Speech("anthropic", d))
  <2>1. Loosely(Concat(ss), Concat(tt))
    BY <1>6, <1>7, LooselyConcat
  <2> QED  BY <1>8, <1>9, <1>10, <1>11, <2>1, LooselyJoin
<1>13. ASSUME \A i \in DOMAIN d.turns : InOrder(d.turns[i].content.parts)
       PROVE  Tells(AnthropicHub(d), Speech("anthropic", d))
  <2>1. Tells(Concat(ss), Concat(tt))
    BY <1>6, <1>7, <1>13, TellsConcat
  <2> QED  BY <1>8, <1>9, <1>10, <2>1, TellsJoin
<1> QED  BY <1>12, <1>13

-----------------------------------------------------------------------------
(* Gemini: a part is said alike, unless the type of a file is lost.        *)
LEMMA GeminiPart ==
  ASSUME NEW p, PlainForm(p), NEW by, NEW q, q = gemini_part_to_chat(p), q # Bad
  PROVE  /\ PlainForm(q)
         /\ ((p.is = "fileData") => (p.mime = "")) => (Utterance(by, q) = Utterance(by, p))
         /\ p.is \in {"text", "inlineData", "fileData"}
<1>1. CASE p.is = "text"
  BY <1>1 DEF gemini_part_to_chat
<1>2. CASE p.is = "inlineData"
  <2>1. PICK r : r = [is |-> "image_url", detail |-> "unset",
                      url |-> [form |-> "data", ref |-> p.ref]]
    OBVIOUS
  <2>6. r.is = "image_url" /\ r.detail = "unset" /\ r.url.form = "data" /\ r.url.ref = p.ref
    BY <2>1
  <2>7. q = r
    BY <1>2, <2>1 DEF gemini_part_to_chat
  <2>2. q.is = "image_url" /\ q.detail = "unset" /\ q.url.form = "data" /\ q.url.ref = p.ref
    BY <2>6, <2>7
  <2>3. Utterance(by, q) = Shows(by, q.url.form, q.url.ref, q.detail, "")
    BY <2>2 DEF Utterance
  <2>4. Utterance(by, p) = Shows(by, "data", p.ref, "unset", "")
    BY <1>2 DEF Utterance
  <2>5. PlainForm(q)
    BY <2>2 DEF PlainForm, References
  <2> QED  BY <1>2, <2>2, <2>3, <2>4, <2>5
<1>3. CASE p.is = "fileData"
  <2>1. PICK r : r = [is |-> "image_url", detail |-> "unset", url |-> p.uri]
    OBVIOUS
  <2>6. r.is = "image_url" /\ r.detail = "unset" /\ r.url = p.uri
    BY <2>1
  <2>7. q = r
    BY <1>3, <2>1 DEF gemini_part_to_chat
  <2>2. q.is = "image_url" /\ q.detail = "unset" /\ q.url = p.uri
    BY <2>6, <2>7
  <2>3. Utterance(by, q) = Shows(by, q.url.form, q.url.ref, q.detail, "")
    BY <2>2 DEF Utterance
  <2>4. Utterance(by, p) = Shows(by, p.uri.form, p.uri.ref, "unset", p.mime)
    BY <1>3 DEF Utterance
  <2>5. PlainForm(q)
    <3>1. p.uri.form \in References
      BY <1>3 DEF PlainForm
    <3> QED  BY <2>2, <3>1 DEF PlainForm
  <2> QED  BY <1>3, <2>2, <2>3, <2>4, <2>5
<1>4. CASE p.is \notin {"text", "inlineData", "fileData"}
  BY <1>4 DEF gemini_part_to_chat
<1> QED  BY <1>1, <1>2, <1>3, <1>4

Typeless(parts) == \A i \in DOMAIN parts : parts[i].is = "fileData" => parts[i].mime = ""

LEMMA GeminiSaid ==
  ASSUME NEW by, NEW ps, PlainParts(ps),
         NEW qs, qs = Each(gemini_part_to_chat, ps), ~AnyBad(qs)
  PROVE  /\ PlainParts(qs) /\ Len(qs) = Len(ps)
         /\ Typeless(ps) => Spoke(by, qs) = Spoke(by, ps)
         /\ \A i \in 1..Len(ps) : ps[i].is \in {"text", "inlineData", "fileData"}
<1>1. IsSeq(ps) /\ DOMAIN ps = 1..Len(ps)
  BY SeqIs DEF PlainParts
<1>2. DOMAIN qs = DOMAIN ps /\ qs = [i \in DOMAIN qs |-> qs[i]]
      /\ \A i \in DOMAIN ps : qs[i] = gemini_part_to_chat(ps[i])
  BY DEF Each
<1>3. IsSeq(qs) /\ Len(qs) = Len(ps) /\ DOMAIN qs = 1..Len(ps)
  BY <1>1, <1>2, Imaged
<1>4. ASSUME NEW i \in 1..Len(ps)
      PROVE  /\ PlainForm(qs[i])
             /\ Typeless(ps) => Utterance(by, qs[i]) = Utterance(by, ps[i])
             /\ ps[i].is \in {"text", "inlineData", "fileData"}
  <2>0. i \in DOMAIN ps /\ i \in DOMAIN qs
    BY <1>1, <1>3
  <2>1. PICK p, q : /\ p = ps[i] /\ q = qs[i] /\ q = gemini_part_to_chat(p) /\ q # Bad
                    /\ PlainForm(p) /\ (Typeless(ps) => (p.is = "fileData" => p.mime = ""))
    <3>1. PlainForm(ps[i]) /\ (Typeless(ps) => (ps[i].is = "fileData" => ps[i].mime = ""))
      BY <2>0 DEF PlainParts, Typeless
    <3>2. qs[i] = gemini_part_to_chat(ps[i])
      BY <1>2, <2>0
    <3>3. qs[i] # Bad
      BY <2>0 DEF AnyBad
    <3> QED  BY <3>1, <3>2, <3>3
  <2> QED  BY <2>1, GeminiPart
<1>5. PlainParts(qs)
  BY <1>3, <1>4 DEF PlainParts
<1>6. Typeless(ps) => Spoke(by, qs) = Spoke(by, ps)
  BY <1>3, <1>4, <1>5, SpokeAlike
<1> QED  BY <1>3, <1>4, <1>5, <1>6

LEMMA GeminiCalled ==
  ASSUME NEW uu, PlainParts(uu), \A i \in 1..Len(uu) : uu[i].is = "functionCall",
         NEW calls, calls = Each(LAMBDA p : Call(p.id, p.name, p.args), uu)
  PROVE  /\ IsSeq(calls) /\ Concat(Called(calls)) = Spoke("assistant", uu)
         /\ Len(calls) = Len(uu)
<1>1. IsSeq(uu) /\ DOMAIN uu = 1..Len(uu)
  BY SeqIs DEF PlainParts
<1>2. DOMAIN calls = DOMAIN uu /\ calls = [i \in DOMAIN calls |-> calls[i]]
      /\ \A i \in DOMAIN uu : calls[i] = Call(uu[i].id, uu[i].name, uu[i].args)
  BY DEF Each
<1>3. IsSeq(calls) /\ Len(calls) = Len(uu) /\ DOMAIN calls = 1..Len(uu)
  BY <1>1, <1>2, Imaged
<1>4. ASSUME NEW i \in 1..Len(uu) PROVE Calls(calls[i]) = Utterance("assistant", uu[i])
  <2>1. PICK p : p = uu[i] /\ p.is = "functionCall" /\ calls[i] = Call(p.id, p.name, p.args)
    BY <1>1, <1>2
  <2>2. Utterance("assistant", p) = Calls(p)
    BY <2>1 DEF Utterance
  <2>3. PICK k : k = Call(p.id, p.name, p.args)
    OBVIOUS
  <2>4. k.id = p.id /\ k.name = p.name /\ k.args = p.args
    BY <2>3 DEF Call
  <2>5. Calls(k) = Calls(p)
    BY <2>4 DEF Calls
  <2> QED  BY <2>1, <2>2, <2>3, <2>5
<1> QED  BY <1>3, <1>4, CallsSaid

LEMMA GeminiResults ==
  ASSUME NEW by, NEW uu, PlainParts(uu),
         \A i \in 1..Len(uu) : uu[i].is = "functionResponse" /\ PartForm(uu[i]),
         NEW ms, ms = Each(LAMBDA p : Result(p.id, p.name, Str(Json(p.response))), uu)
  PROVE  Tells(ms, Spoke(by, uu)) /\ ~AnyBad(ms)
<1>1. IsSeq(uu) /\ DOMAIN uu = 1..Len(uu)
  BY SeqIs DEF PlainParts
<1>2. DOMAIN ms = DOMAIN uu /\ ms = [i \in DOMAIN ms |-> ms[i]]
      /\ \A i \in DOMAIN uu : ms[i] = Result(uu[i].id, uu[i].name, Str(Json(uu[i].response)))
  BY DEF Each
<1>3. IsSeq(ms) /\ Len(ms) = Len(uu) /\ DOMAIN ms = 1..Len(uu)
  BY <1>1, <1>2, Imaged
<1>4. ASSUME NEW i \in 1..Len(uu)
      PROVE  ChatForm(ms[i]) /\ Tidy(ms[i]) /\ ChatTurn(ms[i]) = Utterance(by, uu[i])
  <2>1. PICK p, text : /\ p = uu[i] /\ p.is = "functionResponse" /\ PartForm(p)
                       /\ text = Json(p.response) /\ ms[i] = Result(p.id, p.name, Str(text))
    <3>1. i \in DOMAIN uu
      BY <1>1
    <3>2. ms[i] = Result(uu[i].id, uu[i].name, Str(Json(uu[i].response)))
      BY <1>2, <3>1
    <3> QED  BY <3>2
  <2>2. IsSeq(text)
    BY <2>1, One DEF Json
  <2>3. Utterance(by, p) = Results(p.id, text)
    <3>1. p.response = [json |-> p.response.json]
      BY <2>1 DEF PartForm
    <3>2. "json" \in DOMAIN p.response
      BY <3>1
    <3> QED  BY <2>1, <3>2 DEF Utterance
  <2> QED  BY <2>1, <2>2, <2>3, ResultSays, TidyResult
<1>5. ChatForms(ms) /\ AllTidy(ms)
  BY <1>3, <1>4 DEF ChatForms, AllTidy
<1>6. PICK tt : /\ tt = Told(ms) /\ IsSeq(tt) /\ Len(tt) = Len(ms)
                /\ \A i \in 1..Len(ms) : tt[i] = ChatTurn(ms[i])
  BY <1>5, ToldLists DEF Lists
<1>7. PICK vv : /\ vv = Uttered(by, uu) /\ IsSeq(vv) /\ Len(vv) = Len(uu)
                /\ \A i \in 1..Len(uu) : vv[i] = Utterance(by, uu[i])
  BY UtteredLists DEF Lists
<1>8. tt = vv
  <2>1. \A i \in 1..Len(tt) : tt[i] = vv[i]
    BY <1>3, <1>4, <1>6, <1>7, ZenonT(30)
  <2>2. Len(tt) = Len(vv) /\ IsSeq(tt) /\ IsSeq(vv)
    BY <1>3, <1>6, <1>7
  <2> QED  BY <2>1, <2>2, Alike
<1>9. Concat(Told(ms)) = Spoke(by, uu)
  BY <1>6, <1>7, <1>8, SpokeSeq
<1> QED  BY <1>5, <1>9, FormsAreHub DEF Tells

(* A content of Gemini: its results, then what is said, then its calls.    *)
Sequenced(parts) ==
  \A j, k \in DOMAIN parts :
    j < k => /\ parts[k].is = "functionResponse" => parts[j].is = "functionResponse"
             /\ parts[j].is = "functionCall" => parts[k].is = "functionCall"

LEMMA GeminiPicks ==
  ASSUME NEW parts,
         NEW R, R = Where(parts, {"functionResponse"}),
         NEW C, C = Where(parts, {"functionCall"}), NEW S, S = DOMAIN parts \ (R \cup C)
  PROVE  /\ With(parts, LAMBDA p : p.is = "functionResponse") = Picked(parts, R)
         /\ With(parts, LAMBDA p : p.is = "functionCall") = Picked(parts, C)
         /\ With(parts, LAMBDA p : p.is \notin {"functionCall", "functionResponse"})
              = Picked(parts, S)
<1>1. /\ With(parts, LAMBDA p : p.is = "functionResponse")
           = Concat([i \in DOMAIN parts |->
                      IF parts[i].is = "functionResponse" THEN <<parts[i]>> ELSE <<>>])
      /\ With(parts, LAMBDA p : p.is = "functionCall")
           = Concat([i \in DOMAIN parts |->
                      IF parts[i].is = "functionCall" THEN <<parts[i]>> ELSE <<>>])
      /\ With(parts, LAMBDA p : p.is \notin {"functionCall", "functionResponse"})
           = Concat([i \in DOMAIN parts |->
                      IF parts[i].is \notin {"functionCall", "functionResponse"}
                        THEN <<parts[i]>> ELSE <<>>])
  BY Zenon DEF With, Each
<1>2. AtPlaces(parts, R)
        = [i \in DOMAIN parts |-> IF parts[i].is = "functionResponse" THEN <<parts[i]>> ELSE <<>>]
  BY DEF AtPlaces, Where
<1>3. AtPlaces(parts, C)
        = [i \in DOMAIN parts |-> IF parts[i].is = "functionCall" THEN <<parts[i]>> ELSE <<>>]
  BY DEF AtPlaces, Where
<1>4. AtPlaces(parts, S)
        = [i \in DOMAIN parts |-> IF parts[i].is \notin {"functionCall", "functionResponse"}
                                    THEN <<parts[i]>> ELSE <<>>]
  BY DEF AtPlaces, Where
<1> QED  BY <1>1, <1>2, <1>3, <1>4 DEF Picked

(* What one kind of parts does not tell and the others do not deal in can   *)
(* be told before them.                                                    *)
LEMMA Unmixed ==
  ASSUME NEW ss, Lists(ss), NEW K,
         \/ /\ \A i \in 1..Len(ss) \ K : Kind(ss[i], Telling) = <<>>
            /\ \A i \in K \cap 1..Len(ss) : Kind(ss[i], Dealing) = <<>>
         \/ /\ \A i \in 1..Len(ss) \ K : Kind(ss[i], Dealing) = <<>>
            /\ \A i \in K \cap 1..Len(ss) : Kind(ss[i], Telling) = <<>>
  PROVE  Rearranged(Concat(Masked(ss, K)) \o Concat(Masked(ss, 1..Len(ss) \ K)), Concat(ss))
<1>1. \/ \A i \in 1..Len(ss) \ K : Kind(ss[i], Telling) = <<>>
      \/ \A i \in K \cap 1..Len(ss) : Kind(ss[i], Telling) = <<>>
  OBVIOUS
<1>2. \/ \A i \in 1..Len(ss) \ K : Kind(ss[i], Dealing) = <<>>
      \/ \A i \in K \cap 1..Len(ss) : Kind(ss[i], Dealing) = <<>>
  OBVIOUS
<1>3. Kind(Concat(Masked(ss, K)) \o Concat(Masked(ss, 1..Len(ss) \ K)), Telling)
        = Kind(Concat(ss), Telling)
  BY <1>1, Unshuffled
<1>4. Kind(Concat(Masked(ss, K)) \o Concat(Masked(ss, 1..Len(ss) \ K)), Dealing)
        = Kind(Concat(ss), Dealing)
  BY <1>2, Unshuffled
<1> QED  BY <1>3, <1>4, ProseIs DEF Rearranged

LEMMA GeminiArranged ==
  ASSUME NEW t, ContentForm(t), t.role \in {"user", "model"},
         NEW by, by = Speaker(t.role),
         NEW R, R = Where(t.parts, {"functionResponse"}),
         NEW C, C = Where(t.parts, {"functionCall"}), NEW S, S = DOMAIN t.parts \ (R \cup C),
         \A i \in S : t.parts[i].is \in {"text", "inlineData", "fileData"},
         NEW told, told = Spoke(by, Picked(t.parts, R))
                            \o (Spoke(by, Picked(t.parts, S)) \o Spoke(by, Picked(t.parts, C)))
  PROVE  /\ Rearranged(told, Spoke(by, t.parts))
         /\ Sequenced(t.parts) => told = Spoke(by, t.parts)
<1>1. PICK parts : parts = t.parts /\ PlainParts(parts) /\ PartsForm(parts)
  BY PartsPlain DEF ContentForm
<1>2. IsSeq(parts) /\ DOMAIN parts = 1..Len(parts) /\ Len(parts) \in Nat
  BY <1>1, SeqIs DEF PlainParts
<1>3. PICK ss : /\ ss = Uttered(by, parts) /\ Lists(ss) /\ Len(ss) = Len(parts)
                /\ Spoke(by, parts) = Concat(ss)
                /\ \A i \in 1..Len(parts) : ss[i] = Utterance(by, parts[i])
  BY <1>1, UtteredLists, SpokeSeq
<1>4. PICK r, s, c : /\ r = Concat(Masked(ss, R)) /\ s = Concat(Masked(ss, S))
                     /\ c = Concat(Masked(ss, C)) /\ IsSeq(r) /\ IsSeq(s) /\ IsSeq(c)
  BY <1>3, MaskedLists, ConcatSeq
<1>5. told = r \o (s \o c)
  <2>1. Spoke(by, Picked(parts, R)) = r /\ Spoke(by, Picked(parts, S)) = s
          /\ Spoke(by, Picked(parts, C)) = c
    BY <1>1, <1>3, <1>4, SpokePicked
  <2> QED  BY <1>1, <2>1
<1>6. \A i \in R \cup C : i \in 1..Len(ss) => Kind(ss[i], Telling) = <<>>
  <2>1. ASSUME NEW i \in R \cup C, i \in 1..Len(ss) PROVE Kind(ss[i], Telling) = <<>>
    <3>1. PICK p : /\ p = parts[i] /\ p.is \in {"functionResponse", "functionCall"}
                   /\ ss[i] = Utterance(by, p)
      <4>1. parts[i].is \in {"functionResponse", "functionCall"}
        BY <1>1, <2>1 DEF Where
      <4>2. ss[i] = Utterance(by, parts[i])
        BY <1>3, <2>1
      <4> QED  BY <4>1, <4>2
    <3> QED  BY <3>1, DealtKind
  <2> QED  BY <2>1
<1>7. \A i \in S : i \in 1..Len(ss) => Kind(ss[i], Dealing) = <<>>
  <2>1. ASSUME NEW i \in S, i \in 1..Len(ss) PROVE Kind(ss[i], Dealing) = <<>>
    <3>1. PICK p : /\ p = parts[i] /\ p.is \in {"text", "inlineData", "fileData"}
                   /\ PlainForm(p) /\ ss[i] = Utterance(by, p)
      BY <1>1, <1>2, <1>3, <2>1 DEF PlainParts
    <3> QED  BY <3>1, TextKind, ShownKind
  <2> QED  BY <2>1
<1>8. CASE t.role = "user"
  <2>1. C = {} /\ S = 1..Len(ss) \ R
    BY <1>1, <1>2, <1>3, <1>8 DEF ContentForm, Where
  <2>2. c = <<>>
    <3>1. PICK mm : /\ mm = Masked(ss, C) /\ Lists(mm) /\ Len(mm) = Len(ss)
                    /\ \A i \in 1..Len(ss) : mm[i] = IF i \in C THEN ss[i] ELSE <<>>
      BY <1>3, MaskedLists
    <3>2. \A i \in 1..Len(mm) : mm[i] = <<>>
      BY <2>1, <3>1
    <3> QED  BY <1>4, <3>1, <3>2, Blank
  <2>3. told = r \o s
    <3>1. s \o c = s
      BY <1>4, <2>2, Empty
    <3> QED  BY <1>5, <3>1
  <2>4. told = Concat(Masked(ss, R)) \o Concat(Masked(ss, 1..Len(ss) \ R))
    BY <1>4, <2>1, <2>3
  <2>5. \A i \in R \cap 1..Len(ss) : Kind(ss[i], Telling) = <<>>
    BY <1>6
  <2>6. \A i \in 1..Len(ss) \ R : Kind(ss[i], Dealing) = <<>>
    BY <1>7, <2>1
  <2>7. Rearranged(told, Concat(ss))
    BY <1>3, <2>4, <2>5, <2>6, Unmixed
  <2>8. ASSUME Sequenced(parts) PROVE told = Concat(ss)
    <3>1. ASSUME NEW i \in 1..Len(ss), NEW j \in 1..Len(ss), i < j, j \in R
          PROVE  i \in R
      <4>1. i \in DOMAIN parts /\ j \in DOMAIN parts /\ parts[j].is = "functionResponse"
        BY <1>1, <1>2, <1>3, <3>1 DEF Where
      <4>2. parts[i].is = "functionResponse"
        BY <2>8, <3>1, <4>1 DEF Sequenced
      <4> QED  BY <1>1, <4>1, <4>2 DEF Where
    <3> QED  BY <1>3, <2>4, <3>1, Sorted
  <2> QED  BY <1>1, <1>3, <2>7, <2>8
<1>9. CASE t.role = "model"
  <2>1. R = {} /\ C = 1..Len(ss) \ S
    BY <1>1, <1>2, <1>3, <1>9 DEF ContentForm, Where
  <2>2. r = <<>>
    <3>1. PICK mm : /\ mm = Masked(ss, R) /\ Lists(mm) /\ Len(mm) = Len(ss)
                    /\ \A i \in 1..Len(ss) : mm[i] = IF i \in R THEN ss[i] ELSE <<>>
      BY <1>3, MaskedLists
    <3>2. \A i \in 1..Len(mm) : mm[i] = <<>>
      BY <2>1, <3>1
    <3> QED  BY <1>4, <3>1, <3>2, Blank
  <2>3. told = s \o c
    <3>1. IsSeq(s \o c)
      BY <1>4, Joined
    <3> QED  BY <1>5, <2>2, <3>1, Empty
  <2>4. told = Concat(Masked(ss, S)) \o Concat(Masked(ss, 1..Len(ss) \ S))
    BY <1>4, <2>1, <2>3
  <2>5. \A i \in S \cap 1..Len(ss) : Kind(ss[i], Dealing) = <<>>
    BY <1>7
  <2>6. \A i \in 1..Len(ss) \ S : Kind(ss[i], Telling) = <<>>
    BY <1>6, <2>1
  <2>7. Rearranged(told, Concat(ss))
    BY <1>3, <2>4, <2>5, <2>6, Unmixed
  <2>8. ASSUME Sequenced(parts) PROVE told = Concat(ss)
    <3>1. ASSUME NEW i \in 1..Len(ss), NEW j \in 1..Len(ss), i < j, j \in S
          PROVE  i \in S
      <4>1. i \in DOMAIN parts /\ j \in DOMAIN parts /\ j \notin C
        BY <1>2, <1>3, <3>1
      <4>2. parts[j].is # "functionCall"
        BY <1>1, <4>1 DEF Where
      <4>3. parts[i].is # "functionCall"
        <5>1. parts[i].is = "functionCall" => parts[j].is = "functionCall"
          BY <2>8, <3>1, <4>1, Zenon DEF Sequenced
        <5> QED  BY <4>2, <5>1, Zenon
      <4>4. i \notin C
        BY <1>1, <4>3 DEF Where
      <4> QED  BY <1>1, <2>1, <4>1, <4>4
    <3> QED  BY <1>3, <2>4, <3>1, Sorted, ZenonT(30)
  <2> QED  BY <1>1, <1>3, <2>7, <2>8
<1> QED  BY <1>8, <1>9

(* A content becomes its results and then one message of the rest.         *)
HubRole(role) == IF role = "model" THEN "assistant" ELSE "user"
GoodContent(t, said) ==
  /\ t.role \in {"user", "model"} /\ ~AnyBad(said)
  /\ \A i \in DOMAIN t.parts : t.parts[i].is = "functionCall" => t.parts[i].args = "object"
GeminiHub(t, said, calls, results) ==
  CASE ~GoodContent(t, said) -> <<Bad>>
    [] GoodContent(t, said) /\ said = <<>> /\ calls = <<>> -> results
    [] OTHER -> Append(results,
                       Message(HubRole(t.role),
                               collapse_text_parts(said), calls, "", ""))

LEMMA GeminiContent ==
  ASSUME NEW t,
         NEW R, R = Where(t.parts, {"functionResponse"}),
         NEW C, C = Where(t.parts, {"functionCall"}), NEW S, S = DOMAIN t.parts \ (R \cup C)
  PROVE  gemini_content_to_chat(t)
           = GeminiHub(t, Each(gemini_part_to_chat, Picked(t.parts, S)),
                       Each(LAMBDA p : Call(p.id, p.name, p.args), Picked(t.parts, C)),
                       Each(LAMBDA p : Result(p.id, p.name, Str(Json(p.response))),
                            Picked(t.parts, R)))
<1>1. /\ With(t.parts, LAMBDA p : p.is = "functionResponse") = Picked(t.parts, R)
      /\ With(t.parts, LAMBDA p : p.is = "functionCall") = Picked(t.parts, C)
      /\ With(t.parts, LAMBDA p : p.is \notin {"functionCall", "functionResponse"})
           = Picked(t.parts, S)
  BY GeminiPicks
<1>2. gemini_content_to_chat(t)
        = GeminiHub(t,
            Each(gemini_part_to_chat,
                 With(t.parts, LAMBDA p : p.is \notin {"functionCall", "functionResponse"})),
            Each(LAMBDA p : Call(p.id, p.name, p.args),
                 With(t.parts, LAMBDA p : p.is = "functionCall")),
            Each(LAMBDA p : Result(p.id, p.name, Str(Json(p.response))),
                 With(t.parts, LAMBDA p : p.is = "functionResponse")))
  BY Zenon DEF gemini_content_to_chat, GeminiHub, GoodContent, HubRole
<1> QED  BY <1>1, <1>2, Zenon

(* The last message of a content: what is said, and the calls.             *)
Voices(m, by, said, calls) == ChatTurn(m) = Spoke(by, said) \o Concat(Called(calls))
LEMMA GeminiMessage ==
  ASSUME NEW role, role \in {"user", "model"}, NEW said, PlainParts(said),
         NEW calls, IsSeq(calls), (calls # <<>>) => (role = "model"),
         NEW m, m = Message(HubRole(role), collapse_text_parts(said), calls, "", "")
  PROVE  /\ ChatForm(m) /\ Tidy(m)
         /\ Voices(m, Speaker(role), said, calls)
<1>1. PICK c : c = collapse_text_parts(said)
  OBVIOUS
<1>2. /\ Content(c) /\ PlainParts(c.parts)
      /\ Spoke(Speaker(role), c.parts) = Spoke(Speaker(role), said)
  BY <1>1, Collapsed
<1>3. PICK r : r = HubRole(role)
  OBVIOUS
<1>12. r # "tool" /\ Speaker(r) = Speaker(role)
  BY <1>3 DEF HubRole, Speaker
<1>4. PICK l : l = Message(r, c, calls, "", "")
  OBVIOUS
<1>5. m = l
  BY <1>1, <1>3, <1>4
<1>6. /\ l.role = r /\ l.content = c /\ l.calls = calls /\ l.id = "" /\ l.name = ""
      /\ l = Message(l.role, l.content, l.calls, l.id, l.name)
  BY <1>4 DEF Message
<1>7. ChatForm(l)
  <2>1. calls # <<>> => r = "assistant"
    BY <1>3 DEF HubRole
  <2> QED  BY <1>2, <1>6, <2>1 DEF ChatForm
<1>8. Tidy(l)
  BY <1>6, <1>12 DEF Tidy
<1>10. ChatTurn(l) = Spoke(SpeakerOf(l), c.parts) \o Concat(Called(calls))
  BY <1>6, <1>7, <1>12, ChatTurnSays
<1>11. SpeakerOf(l) = Speaker(role)
  BY <1>6, <1>12, Unlabelled
<1> QED  BY <1>2, <1>5, <1>7, <1>8, <1>10, <1>11 DEF Voices

(* Every item at a picked place is picked.                                 *)
LEMMA PickedHas ==
  ASSUME NEW s, IsSeq(s), NEW K, NEW i \in K \cap 1..Len(s)
  PROVE  \E j \in 1..Len(Picked(s, K)) : Picked(s, K)[j] = s[i]
<1>1. PICK ss : /\ ss = AtPlaces(s, K) /\ Lists(ss) /\ Len(ss) = Len(s) /\ Picked(s, K) = Concat(ss)
                /\ \A k \in 1..Len(s) : ss[k] = IF k \in K THEN <<s[k]>> ELSE <<>>
  BY PickedLists DEF Picked
<1>2. PICK f : /\ f[0] = <<>> /\ \A k \in 1..Len(ss) : f[k] = f[k - 1] \o ss[k]
               /\ Concat(ss) = f[Len(ss)] /\ \A k \in 0..Len(ss) : IsSeq(f[k])
  BY <1>1, Grown
<1>3. Len(s) \in Nat /\ i \in 1..Len(s) /\ i \in K
  BY SeqIs
<1> DEFINE T == {n \in Nat : i + n <= Len(s) => \E j \in 1..Len(f[i + n]) : f[i + n][j] = s[i]}
<1> HIDE DEF T
<1>4. 0 \in T
  <2>1. ss[i] = <<s[i]>> /\ IsSeq(f[i - 1]) /\ f[i] = f[i - 1] \o ss[i]
    <3>1. i \in 1..Len(ss) /\ i - 1 \in 0..Len(ss)
      BY <1>1, <1>3
    <3>2. ss[i] = <<s[i]>>
      BY <1>1, <1>3
    <3> QED  BY <1>2, <3>1, <3>2
  <2>2. IsSeq(<<s[i]>>) /\ Len(<<s[i]>>) = 1 /\ <<s[i]>>[1] = s[i]
    BY One
  <2>3. PICK n : n = Len(f[i - 1]) /\ n \in Nat
    BY <2>1, SeqIs
  <2>4. Len(f[i]) = n + 1 /\ f[i][n + 1] = s[i]
    <3>1. Len(f[i - 1] \o <<s[i]>>) = n + 1
      BY <2>1, <2>2, <2>3, Joined
    <3>2. \A k \in 1..1 : (f[i - 1] \o <<s[i]>>)[n + k] = <<s[i]>>[k]
      BY <2>1, <2>2, <2>3, Joined
    <3> QED  BY <2>1, <2>2, <3>1, <3>2
  <2>5. n + 1 \in 1..Len(f[i]) /\ i + 0 = i
    BY <1>3, <2>3, <2>4
  <2> QED  BY <2>4, <2>5 DEF T
<1>5. ASSUME NEW n \in Nat, n \in T PROVE n + 1 \in T
  <2>1. CASE ~(i + (n + 1) <= Len(s))
    BY <2>1 DEF T
  <2>2. CASE i + (n + 1) <= Len(s)
    <3>1. PICK j : j \in 1..Len(f[i + n]) /\ f[i + n][j] = s[i]
      <4>1. i + n <= Len(s)
        BY <1>3, <2>2
      <4> QED  BY <1>5, <4>1 DEF T
    <3>2. PICK k : k = i + (n + 1) /\ k \in 1..Len(ss) /\ k - 1 = i + n /\ k - 1 \in 0..Len(ss)
      BY <1>1, <1>3, <2>2
    <3>3. IsSeq(f[k - 1]) /\ IsSeq(ss[k]) /\ f[k] = f[k - 1] \o ss[k]
      BY <1>1, <1>2, <3>2 DEF Lists
    <3>4. PICK u, v, w : /\ u = f[k - 1] /\ v = ss[k] /\ w = f[k] /\ w = u \o v
                         /\ IsSeq(u) /\ IsSeq(v)
      BY <3>3
    <3>5. /\ \A x \in 1..Len(u) : w[x] = u[x]
          /\ Len(w) = Len(u) + Len(v)
      <4>0. IsSeq(u) /\ IsSeq(v)
        BY <3>4
      <4>1. \A x \in 1..Len(u) : (u \o v)[x] = u[x]
        BY <4>0, Joined
      <4>2. Len(u \o v) = Len(u) + Len(v)
        BY <4>0, Joined
      <4> QED  BY <3>4, <4>1, <4>2
    <3>9. Len(u) \in Nat /\ Len(v) \in Nat /\ j \in 1..Len(u) /\ u[j] = s[i]
      BY <3>1, <3>2, <3>4, SeqIs
    <3>6. j \in 1..Len(w) /\ w[j] = s[i]
      BY <3>5, <3>9
    <3>7. i + (n + 1) = k
      BY <3>2
    <3>8. \E x \in 1..Len(f[i + (n + 1)]) : f[i + (n + 1)][x] = s[i]
      BY <3>4, <3>6, <3>7
    <3> QED  BY <3>8 DEF T
  <2> QED  BY <2>1, <2>2
<1>6. Nat \subseteq T
  BY <1>4, <1>5, Induct
<1>7. PICK n : n = Len(s) - i /\ n \in Nat /\ i + n = Len(s)
  BY <1>3
<1>8. \E j \in 1..Len(f[i + n]) : f[i + n][j] = s[i]
  <2>1. n \in T
    BY <1>6, <1>7
  <2>2. i + n <= Len(s)
    BY <1>3, <1>7
  <2> QED  BY <2>1, <2>2 DEF T
<1> QED  BY <1>1, <1>2, <1>7, <1>8

LEMMA GeminiContentTold ==
  ASSUME NEW t, ContentForm(t), NEW ms, ms = gemini_content_to_chat(t),
         NEW spoken, spoken = Spoke(Speaker(t.role), t.parts)
  PROVE  /\ Hub(ms) /\ AllTidy(ms) /\ IsSeq(spoken)
         /\ Typeless(t.parts) => Loosely(ms, spoken)
         /\ (Typeless(t.parts) /\ Sequenced(t.parts)) => Tells(ms, spoken)
<1>1. PICK parts, by : parts = t.parts /\ by = Speaker(t.role) /\ PlainParts(parts) /\ PartsForm(parts)
  BY PartsPlain DEF ContentForm
<1>2. PICK R, C, S : /\ R = Where(parts, {"functionResponse"})
                     /\ C = Where(parts, {"functionCall"}) /\ S = DOMAIN parts \ (R \cup C)
  OBVIOUS
<1>3. IsSeq(parts) /\ DOMAIN parts = 1..Len(parts) /\ Len(parts) \in Nat
  BY <1>1, SeqIs DEF PlainParts
<1>4. PICK pr, pc, ps : /\ pr = Picked(parts, R) /\ pc = Picked(parts, C) /\ ps = Picked(parts, S)
                        /\ PlainParts(pr) /\ PlainParts(pc) /\ PlainParts(ps)
  BY <1>1, PickedPlain
<1>5. PICK said, calls, results :
        /\ said = Each(gemini_part_to_chat, ps)
        /\ calls = Each(LAMBDA p : Call(p.id, p.name, p.args), pc)
        /\ results = Each(LAMBDA p : Result(p.id, p.name, Str(Json(p.response))), pr)
  OBVIOUS
<1>6. ms = GeminiHub(t, said, calls, results)
  BY <1>1, <1>2, <1>4, <1>5, GeminiContent
<1>7. \A i \in 1..Len(pc) : pc[i].is = "functionCall" /\ t.role = "model"
  <2>1. ASSUME NEW j \in 1..Len(pc) PROVE pc[j].is = "functionCall" /\ t.role = "model"
    <3>1. PICK i : i \in C \cap 1..Len(parts) /\ pc[j] = parts[i]
      BY <1>3, <1>4, <2>1, PickedFrom
    <3>2. parts[i].is = "functionCall" /\ i \in DOMAIN t.parts
      BY <1>1, <1>2, <3>1 DEF Where
    <3> QED  BY <1>1, <3>1, <3>2 DEF ContentForm
  <2> QED  BY <2>1
<1>8. \A i \in 1..Len(pr) : pr[i].is = "functionResponse" /\ PartForm(pr[i])
  <2>1. ASSUME NEW j \in 1..Len(pr) PROVE pr[j].is = "functionResponse" /\ PartForm(pr[j])
    <3>1. PICK i : i \in R \cap 1..Len(parts) /\ pr[j] = parts[i]
      BY <1>3, <1>4, <2>1, PickedFrom
    <3> QED  BY <1>1, <1>2, <3>1 DEF Where, PartsForm
  <2> QED  BY <2>1
<1>9. IsSeq(calls) /\ Concat(Called(calls)) = Spoke("assistant", pc) /\ Len(calls) = Len(pc)
  BY <1>4, <1>5, <1>7, GeminiCalled
<1>10. Tells(results, Spoke(by, pr)) /\ ~AnyBad(results)
  BY <1>4, <1>5, <1>8, GeminiResults
<1>11. (calls # <<>>) => (t.role = "model")
  <2>1. ASSUME calls # <<>> PROVE t.role = "model"
    <3>1. Len(calls) # 0 /\ Len(calls) \in Nat
      BY <1>9, <2>1, Empty, SeqIs
    <3>2. 1 \in 1..Len(pc)
      BY <1>9, <3>1
    <3> QED  BY <1>7, <3>2
  <2> QED  BY <2>1
<1>12. IsSeq(spoken) /\ spoken = Spoke(by, parts)
  BY <1>1, SpokeSeq
<1>13. ~AnyBad(said) =>
         /\ PlainParts(said) /\ Len(said) = Len(ps)
         /\ Typeless(ps) => Spoke(by, said) = Spoke(by, ps)
         /\ \A i \in 1..Len(ps) : ps[i].is \in {"text", "inlineData", "fileData"}
  BY <1>4, <1>5, GeminiSaid
<1>14. CASE ~GoodContent(t, said)
  <2>1. ms = <<Bad>>
    BY <1>6, <1>14 DEF GeminiHub
  <2>2. Tells(ms, spoken)
    BY <2>1, TellsBad
  <2> QED  BY <1>12, <2>2, TellsLoosely DEF Tells
<1> DEFINE told == Spoke(by, pr) \o (Spoke(by, ps) \o Spoke(by, pc))
<1> HIDE DEF told
<1>15. ASSUME t.role \in {"user", "model"}, ~AnyBad(said)
       PROVE  Rearranged(told, spoken) /\ (Sequenced(t.parts) => told = spoken)
  <2>1. \A i \in S : t.parts[i].is \in {"text", "inlineData", "fileData"}
    <3>1. ASSUME NEW i \in S PROVE parts[i].is \in {"text", "inlineData", "fileData"}
      <4>1. i \in S \cap 1..Len(parts)
        BY <1>2, <1>3, <3>1
      <4>2. PICK j \in 1..Len(ps) : ps[j] = parts[i]
        BY <1>3, <1>4, <4>1, PickedHas
      <4> QED  BY <1>13, <1>15, <4>2
    <3> QED  BY <1>1, <3>1
  <2>2. /\ R = Where(t.parts, {"functionResponse"}) /\ C = Where(t.parts, {"functionCall"})
        /\ S = DOMAIN t.parts \ (R \cup C)
    BY <1>1, <1>2
  <2>3. PICK w : /\ w = Spoke(by, Picked(t.parts, R))
                          \o (Spoke(by, Picked(t.parts, S)) \o Spoke(by, Picked(t.parts, C)))
                 /\ w = told
    BY <1>1, <1>4 DEF told
  <2>4. /\ Rearranged(w, Spoke(by, t.parts))
        /\ Sequenced(t.parts) => w = Spoke(by, t.parts)
    BY <1>1, <1>15, <2>1, <2>2, <2>3, GeminiArranged
  <2> QED  BY <1>1, <2>3, <2>4
<1>16. Typeless(parts) => Typeless(ps)
  <2>1. ASSUME Typeless(parts), NEW j \in DOMAIN ps, ps[j].is = "fileData" PROVE ps[j].mime = ""
    <3>1. j \in 1..Len(ps)
      BY <1>4, <2>1, SeqIs DEF PlainParts
    <3>2. PICK i : i \in S \cap 1..Len(parts) /\ ps[j] = parts[i]
      BY <1>3, <1>4, <3>1, PickedFrom
    <3> QED  BY <1>3, <2>1, <3>2 DEF Typeless
  <2> QED  BY <2>1 DEF Typeless
<1>17. ASSUME GoodContent(t, said), t.role \in {"user", "model"}, ~AnyBad(said)
       PROVE  Tells(ms, Spoke(by, pr) \o (Spoke(by, said) \o Concat(Called(calls))))
  <2>0. IsSeq(Spoke(by, pr)) /\ PlainParts(said)
    BY <1>4, <1>13, <1>17, SpokeSeq
  <2>1. CASE said = <<>> /\ calls = <<>>
    <3>1. ms = results
      BY <1>6, <1>17, <2>1 DEF GeminiHub
    <3>2. Spoke(by, said) = <<>> /\ Concat(Called(calls)) = <<>>
      BY <2>1, SpokeNone, CalledNone
    <3>3. <<>> \o <<>> = <<>>
      BY Empty
    <3>4. Spoke(by, pr) \o (Spoke(by, said) \o Concat(Called(calls))) = Spoke(by, pr)
      BY <2>0, <3>2, <3>3, Empty
    <3> QED  BY <1>10, <3>1, <3>4
  <2>2. CASE ~(said = <<>> /\ calls = <<>>)
    <3>1. PICK m : m = Message(HubRole(t.role), collapse_text_parts(said), calls, "", "")
      OBVIOUS
    <3>2. ms = Append(results, m)
      BY <1>6, <1>17, <2>2, <3>1 DEF GeminiHub
    <3>3. /\ ChatForm(m) /\ Tidy(m)
          /\ ChatTurn(m) = Spoke(by, said) \o Concat(Called(calls))
      <4>1. /\ t.role \in {"user", "model"} /\ PlainParts(said) /\ IsSeq(calls)
            /\ (calls # <<>>) => (t.role = "model")
        BY <1>9, <1>11, <1>17, <2>0
      <4>2. ChatForm(m) /\ Tidy(m) /\ Voices(m, Speaker(t.role), said, calls)
        BY <3>1, <4>1, GeminiMessage
      <4> QED  BY <1>1, <4>2 DEF Voices
    <3>4. Tells(Append(results, m), Spoke(by, pr) \o ChatTurn(m))
      BY <1>10, <3>3, TellsAppended
    <3> QED  BY <3>2, <3>3, <3>4
  <2> QED  BY <2>1, <2>2
<1>18. ASSUME GoodContent(t, said), t.role \in {"user", "model"}, ~AnyBad(said), Typeless(parts)
       PROVE  Tells(ms, told)
  <2>1. Spoke(by, said) = Spoke(by, ps)
    BY <1>13, <1>16, <1>18
  <2>2. Concat(Called(calls)) = Spoke(by, pc)
    <3>1. CASE calls = <<>>
      <4>1. pc = <<>>
        BY <1>4, <1>9, <3>1, Empty DEF PlainParts
      <4> QED  BY <3>1, <4>1, SpokeNone, CalledNone
    <3>2. CASE calls # <<>>
      <4>1. by = "assistant"
        BY <1>1, <1>11, <3>2 DEF Speaker
      <4> QED  BY <1>9, <4>1
    <3> QED  BY <3>1, <3>2
  <2> QED  BY <1>17, <1>18, <2>1, <2>2 DEF told
<1>19. CASE GoodContent(t, said)
  <2>0. t.role \in {"user", "model"} /\ ~AnyBad(said)
    BY <1>19 DEF GoodContent
  <2>1. Hub(ms) /\ AllTidy(ms)
    BY <1>17, <1>19, <2>0 DEF Tells
  <2>2. ASSUME Typeless(t.parts) PROVE Tells(ms, told) /\ Rearranged(told, spoken)
    BY <1>1, <1>15, <1>18, <1>19, <2>0, <2>2
  <2>3. ASSUME Typeless(t.parts) PROVE Loosely(ms, spoken)
    BY <2>2, <2>3 DEF Tells, Loosely
  <2> QED  BY <1>12, <1>15, <1>19, <2>0, <2>1, <2>2, <2>3
<1> QED  BY <1>14, <1>19

GeminiDoc(d) == Prompt(d.system) \o Concat(Each(gemini_content_to_chat, d.turns))

LEMMA GeminiTold ==
  ASSUME NEW d, Worded("gemini", d)
  PROVE  /\ Hub(GeminiDoc(d))
         /\ (\A i \in DOMAIN d.turns : Typeless(d.turns[i].parts))
              => Loosely(GeminiDoc(d), Speech("gemini", d))
         /\ (\A i \in DOMAIN d.turns :
                Typeless(d.turns[i].parts) /\ Sequenced(d.turns[i].parts))
              => Tells(GeminiDoc(d), Speech("gemini", d))
<1>1. /\ IsSeq(d.turns) /\ PlainParts(d.system)
      /\ \A i \in DOMAIN d.turns :
           ContentForm(d.turns[i])
  BY DEF Worded, TurnForm
<1>2. PICK ss : ss = Each(gemini_content_to_chat, d.turns)
  OBVIOUS
<1>3. PICK tt : tt = Each(LAMBDA t : Turn("gemini", t), d.turns)
  OBVIOUS
<1>4. /\ DOMAIN ss = DOMAIN d.turns /\ ss = [i \in DOMAIN ss |-> ss[i]]
      /\ \A i \in DOMAIN d.turns : ss[i] = gemini_content_to_chat(d.turns[i])
  BY <1>2 DEF Each
<1>5. /\ DOMAIN tt = DOMAIN d.turns /\ tt = [i \in DOMAIN tt |-> tt[i]]
      /\ \A i \in DOMAIN d.turns : tt[i] = Turn("gemini", d.turns[i])
  BY <1>3 DEF Each
<1>6. ASSUME NEW i \in DOMAIN d.turns
      PROVE  /\ Hub(ss[i]) /\ IsSeq(ss[i]) /\ IsSeq(tt[i])
             /\ Typeless(d.turns[i].parts) => Loosely(ss[i], tt[i])
             /\ (Typeless(d.turns[i].parts) /\ Sequenced(d.turns[i].parts)) => Tells(ss[i], tt[i])
  <2>1. PICK t, ms, said : /\ t = d.turns[i] /\ ms = ss[i] /\ said = tt[i]
                           /\ ContentForm(t)
                           /\ ms = gemini_content_to_chat(t) /\ said = Turn("gemini", t)
    BY <1>1, <1>4, <1>5
  <2>2. said = Spoke(Speaker(t.role), t.parts)
    BY <2>1 DEF Turn
  <2>3. /\ Hub(ms) /\ AllTidy(ms) /\ IsSeq(said)
        /\ Typeless(t.parts) => Loosely(ms, said)
        /\ (Typeless(t.parts) /\ Sequenced(t.parts)) => Tells(ms, said)
    BY <2>1, <2>2, GeminiContentTold
  <2>5. IsSeq(ms)
    BY <2>3 DEF Hub
  <2> QED  BY <2>1, <2>3, <2>5
<1>7. /\ Lists(ss) /\ Lists(tt) /\ Len(ss) = Len(d.turns) /\ Len(tt) = Len(ss)
      /\ DOMAIN d.turns = 1..Len(ss)
  BY <1>1, <1>4, <1>5, <1>6, EachLists, SeqIs
<1>8. Tells(Prompt(d.system), Spoke("system", d.system)) /\ IsSeq(Spoke("system", d.system))
  BY <1>1, PromptTold
<1>9. Speech("gemini", d) = Spoke("system", d.system) \o Concat(tt)
  <2>1. Speech("gemini", d) = Spoke("system", d.system)
          \o Concat(Each(LAMBDA t : Turn("gemini", t), d.turns))
    BY Zenon DEF Speech
  <2> QED  BY <1>3, <2>1
<1>10. GeminiDoc(d) = Prompt(d.system) \o Concat(ss)
  BY <1>2 DEF GeminiDoc
<1>11. IsSeq(Concat(tt))
  BY <1>7, ConcatSeq
<1>12. Hub(GeminiDoc(d))
  <2>1. Hub(Concat(ss))
    BY <1>6, <1>7, HubGathered
  <2>2. Hub(Prompt(d.system))
    BY <1>8 DEF Tells
  <2> QED  BY <1>10, <2>1, <2>2, HubJoined
<1>13. ASSUME \A i \in DOMAIN d.turns : Typeless(d.turns[i].parts)
       PROVE  Loosely(GeminiDoc(d), Speech("gemini", d))
  <2>1. Loosely(Concat(ss), Concat(tt))
    BY <1>6, <1>7, <1>13, LooselyConcat
  <2> QED  BY <1>8, <1>9, <1>10, <1>11, <2>1, LooselyJoin
<1>14. ASSUME \A i \in DOMAIN d.turns :
                Typeless(d.turns[i].parts) /\ Sequenced(d.turns[i].parts)
       PROVE  Tells(GeminiDoc(d), Speech("gemini", d))
  <2>1. Tells(Concat(ss), Concat(tt))
    BY <1>6, <1>7, <1>14, TellsConcat
  <2> QED  BY <1>8, <1>9, <1>10, <2>1, TellsJoin
<1> QED  BY <1>12, <1>13, <1>14

-----------------------------------------------------------------------------
(* The turns of any dialect, one after the other.                          *)
Voiced(f, ts) == Each(LAMBDA t : Turn(f, t), ts)
Heard(f, ts) == Concat(Voiced(f, ts))
Vocal(f, ts) == IsSeq(ts) /\ \A i \in 1..Len(ts) : IsSeq(Turn(f, ts[i]))

LEMMA VoicedLists ==
  ASSUME NEW f, NEW ts, Vocal(f, ts)
  PROVE  /\ Lists(Voiced(f, ts)) /\ Len(Voiced(f, ts)) = Len(ts)
         /\ \A i \in 1..Len(ts) : Voiced(f, ts)[i] = Turn(f, ts[i])
         /\ IsSeq(Heard(f, ts))
<1>1. IsSeq(ts) /\ DOMAIN ts = 1..Len(ts)
  BY SeqIs DEF Vocal
<1>2. PICK vv : vv = Voiced(f, ts)
  OBVIOUS
<1>3. /\ DOMAIN vv = DOMAIN ts /\ vv = [i \in DOMAIN vv |-> vv[i]]
      /\ \A i \in DOMAIN ts : vv[i] = Turn(f, ts[i])
  BY <1>2 DEF Voiced, Each
<1>4. IsSeq(vv) /\ Len(vv) = Len(ts)
  BY <1>1, <1>3, Imaged
<1>5. Lists(vv)
  BY <1>1, <1>3, <1>4 DEF Lists, Vocal
<1> QED  BY <1>1, <1>2, <1>3, <1>4, <1>5, ConcatSeq DEF Heard

LEMMA VoicedChain ==
  ASSUME NEW f, NEW ts, Vocal(f, ts), NEW T, \A i \in 1..Len(ts) : ts[i] \in T,
         NEW g, g = [t \in T |-> Turn(f, t)]
  PROVE  Voiced(f, ts) = Chain(ts, g) /\ \A i \in 1..Len(ts) : IsSeq(g[ts[i]])
<1>1. \A i \in 1..Len(ts) : g[ts[i]] = Turn(f, ts[i])
  OBVIOUS
<1>2. DOMAIN ts = 1..Len(ts)
  BY SeqIs DEF Vocal
<1>3. Voiced(f, ts) = Chain(ts, g)
  BY <1>1, <1>2 DEF Voiced, Each, Chain
<1>4. \A i \in 1..Len(ts) : IsSeq(g[ts[i]])
  BY <1>1 DEF Vocal
<1> QED  BY <1>3, <1>4

LEMMA VoicedJoin ==
  ASSUME NEW f, NEW ts, NEW us, Vocal(f, ts), Vocal(f, us)
  PROVE  Vocal(f, ts \o us) /\ Heard(f, ts \o us) = Heard(f, ts) \o Heard(f, us)
<1> DEFINE T == {t \in {ts[i] : i \in 1..Len(ts)} \cup {us[i] : i \in 1..Len(us)} :
                   IsSeq(Turn(f, t))}
<1>1. (\A i \in 1..Len(ts) : ts[i] \in T) /\ (\A i \in 1..Len(us) : us[i] \in T)
  BY DEF Vocal
<1>2. \A t \in T : IsSeq(Turn(f, t))
  OBVIOUS
<1> HIDE DEF T
<1>3. IsSeq(ts) /\ IsSeq(us)
  BY DEF Vocal
<1>4. PICK rs : rs = ts \o us
  OBVIOUS
<1>5. IsSeq(rs) /\ \A i \in 1..Len(rs) : rs[i] \in T
  BY <1>1, <1>3, <1>4, Joined, JoinedItems
<1>6. Vocal(f, rs)
  BY <1>2, <1>5 DEF Vocal
<1>7. PICK g : g = [t \in T |-> Turn(f, t)]
  OBVIOUS
<1>8. /\ Heard(f, ts) = Chained(ts, g) /\ \A i \in 1..Len(ts) : IsSeq(g[ts[i]])
      /\ Heard(f, us) = Chained(us, g) /\ \A i \in 1..Len(us) : IsSeq(g[us[i]])
      /\ Heard(f, rs) = Chained(rs, g)
  BY <1>1, <1>5, <1>6, <1>7, VoicedChain DEF Heard, Chained
<1>9. Chained(ts \o us, g) = Chained(ts, g) \o Chained(us, g)
  BY <1>3, <1>8, ChainJoin
<1> QED  BY <1>4, <1>6, <1>8, <1>9

LEMMA VoicedConcat ==
  ASSUME NEW f, NEW ss, Lists(ss), \A i \in 1..Len(ss) : Vocal(f, ss[i])
  PROVE  /\ Vocal(f, Concat(ss))
         /\ Heard(f, Concat(ss)) = Concat([i \in DOMAIN ss |-> Heard(f, ss[i])])
         /\ Lists([i \in DOMAIN ss |-> Heard(f, ss[i])])
<1> DEFINE T == {t \in UNION {{ss[i][j] : j \in 1..Len(ss[i])} : i \in 1..Len(ss)} :
                   IsSeq(Turn(f, t))}
<1>1. \A i \in 1..Len(ss) : \A j \in 1..Len(ss[i]) : ss[i][j] \in T
  BY DEF Vocal
<1>2. \A t \in T : IsSeq(Turn(f, t))
  OBVIOUS
<1> HIDE DEF T
<1>3. IsSeq(Concat(ss)) /\ \A j \in 1..Len(Concat(ss)) : Concat(ss)[j] \in T
  BY <1>1, ConcatSeq, Gathered
<1>4. Vocal(f, Concat(ss))
  BY <1>2, <1>3 DEF Vocal
<1>5. PICK g : g = [t \in T |-> Turn(f, t)]
  OBVIOUS
<1>6. Voiced(f, Concat(ss)) = Chain(Concat(ss), g)
  BY <1>3, <1>4, <1>5, VoicedChain
<1>7. \A i \in 1..Len(ss) :
        Voiced(f, ss[i]) = Chain(ss[i], g) /\ \A j \in 1..Len(ss[i]) : IsSeq(g[ss[i][j]])
  BY <1>1, <1>5, VoicedChain
<1>8. /\ Chained(Concat(ss), g) = Concat([i \in DOMAIN ss |-> Chained(ss[i], g)])
      /\ Lists([i \in DOMAIN ss |-> Chained(ss[i], g)])
  BY <1>7, ChainConcat
<1>9. [i \in DOMAIN ss |-> Chained(ss[i], g)] = [i \in DOMAIN ss |-> Heard(f, ss[i])]
  <2>1. DOMAIN ss = 1..Len(ss)
    BY SeqIs DEF Lists
  <2> QED  BY <1>7, <2>1 DEF Chained, Heard
<1> QED  BY <1>4, <1>6, <1>8, <1>9 DEF Chained, Heard

LEMMA VoicedOne ==
  ASSUME NEW f, NEW t, IsSeq(Turn(f, t))
  PROVE  Vocal(f, <<t>>) /\ Heard(f, <<t>>) = Turn(f, t)
<1>1. PICK q : q = <<t>> /\ IsSeq(q) /\ Len(q) = 1 /\ q[1] = t
  BY One
<1>2. Vocal(f, q)
  BY <1>1 DEF Vocal
<1>3. PICK v : v = Voiced(f, q)
  OBVIOUS
<1>4. Lists(v) /\ Len(v) = 1 /\ v[1] = Turn(f, t)
  BY <1>1, <1>2, <1>3, VoicedLists
<1>5. IsSeq(v) /\ IsSeq(<<v[1]>>) /\ Len(<<v[1]>>) = 1 /\ <<v[1]>>[1] = v[1]
  BY <1>4, One DEF Lists
<1>6. v = <<v[1]>>
  BY <1>4, <1>5, Alike
<1>7. IsSeq(v[1])
  BY <1>4
<1>8. Concat(v) = v[1]
  BY <1>6, <1>7, ConcatOne
<1> QED  BY <1>1, <1>2, <1>3, <1>4, <1>8 DEF Heard

LEMMA VoicedNone ==
  ASSUME NEW f
  PROVE  Vocal(f, <<>>) /\ Heard(f, <<>>) = <<>>
<1>1. PICK v : v = Voiced(f, <<>>)
  OBVIOUS
<1>2. Vocal(f, <<>>)
  BY Empty DEF Vocal
<1>3. Lists(v) /\ Len(v) = 0 /\ IsSeq(v)
  BY <1>1, <1>2, VoicedLists, Empty DEF Lists
<1>4. v = <<>>
  BY <1>3, Empty
<1> QED  BY <1>1, <1>2, <1>4, NoLists DEF Heard

-----------------------------------------------------------------------------
(* The hub's parts, as Anthropic has them.                                 *)
LEMMA PartToAnthropic ==
  ASSUME NEW p, PlainForm(p), NEW inside, NEW by,
         NEW q, q = openai_part_to_anthropic(p, inside), q # Bad
  PROVE  /\ PlainForm(q) /\ Utterance(by, q) = Utterance(by, p)
         /\ p.is = "text" => q = p
         /\ inside => p.is = "text"
<1>1. CASE p.is = "text"
  BY <1>1 DEF openai_part_to_anthropic
<1>2. CASE p.is = "image_url" /\ ~inside
  <2>1. q = openai_image_to_anthropic(p)
    BY <1>2 DEF openai_part_to_anthropic
  <2>2. p.detail \in {"unset", "auto"} /\ p.url.form \in {"web", "data"}
    BY <1>2, <2>1 DEF openai_image_to_anthropic, PlainForm, References
  <2>3. PICK r : r = [is |-> "image", ref |-> p.url.ref,
                      source |-> IF p.url.form = "web" THEN "url" ELSE "base64"]
    OBVIOUS
  <2>4. q = r
    BY <2>1, <2>2, <2>3 DEF openai_image_to_anthropic
  <2>5. /\ q.is = "image" /\ q.ref = p.url.ref
        /\ q.source = IF p.url.form = "web" THEN "url" ELSE "base64"
    BY <2>3, <2>4
  <2>6. Utterance(by, q) = Shows(by, IF q.source = "url" THEN "web" ELSE "data", q.ref, "unset", "")
    BY <2>5 DEF Utterance
  <2>7. Utterance(by, p) = Shows(by, p.url.form, p.url.ref, p.detail, "")
    BY <1>2 DEF Utterance
  <2>8. (IF q.source = "url" THEN "web" ELSE "data") = p.url.form
    BY <2>2, <2>5
  <2>9. Shows(by, p.url.form, p.url.ref, p.detail, "")
          = Shows(by, p.url.form, p.url.ref, "unset", "")
    BY <2>2 DEF Shows
  <2>10. PlainForm(q)
    BY <2>5 DEF PlainForm
  <2> QED  BY <1>2, <2>5, <2>6, <2>7, <2>8, <2>9, <2>10
<1>3. CASE ~(p.is = "text") /\ ~(p.is = "image_url" /\ ~inside)
  BY <1>3 DEF openai_part_to_anthropic
<1> QED  BY <1>1, <1>2, <1>3

LEMMA ContentToAnthropic ==
  ASSUME NEW c, Content(c), PlainParts(c.parts), NEW inside,
         NEW h, h = openai_content_to_anthropic(c, inside), ~AnyBad(h.parts)
  PROVE  /\ Content(h) /\ PlainParts(h.parts) /\ h.form = c.form
         /\ \A by : Spoke(by, h.parts) = Spoke(by, c.parts)
         /\ inside => h.parts = c.parts /\ \A i \in 1..Len(c.parts) : c.parts[i].is = "text"
<1>1. /\ h.form = c.form /\ h = [form |-> h.form, parts |-> h.parts]
      /\ DOMAIN h.parts = DOMAIN c.parts /\ h.parts = [i \in DOMAIN h.parts |-> h.parts[i]]
      /\ \A i \in DOMAIN c.parts : h.parts[i] = openai_part_to_anthropic(c.parts[i], inside)
  BY DEF openai_content_to_anthropic, Content, Each
<1>2. IsSeq(c.parts) /\ DOMAIN c.parts = 1..Len(c.parts)
  BY SeqIs DEF PlainParts
<1>3. IsSeq(h.parts) /\ Len(h.parts) = Len(c.parts) /\ DOMAIN h.parts = 1..Len(c.parts)
  BY <1>1, <1>2, Imaged
<1>4. ASSUME NEW i \in 1..Len(c.parts), NEW by
      PROVE  /\ PlainForm(h.parts[i]) /\ Utterance(by, h.parts[i]) = Utterance(by, c.parts[i])
             /\ c.parts[i].is = "text" => h.parts[i] = c.parts[i]
             /\ inside => c.parts[i].is = "text"
  <2>1. PICK p, q : /\ p = c.parts[i] /\ q = h.parts[i] /\ PlainForm(p) /\ q # Bad
                    /\ q = openai_part_to_anthropic(p, inside)
    BY <1>1, <1>2, <1>3 DEF PlainParts, AnyBad
  <2> QED  BY <2>1, PartToAnthropic
<1>5. PlainParts(h.parts)
  BY <1>3, <1>4 DEF PlainParts
<1>6. ASSUME NEW by PROVE Spoke(by, h.parts) = Spoke(by, c.parts)
  BY <1>3, <1>4, <1>5, SpokeAlike
<1>7. Content(h)
  <2>1. CASE c.form = "parts"
    BY <1>1, <2>1 DEF Content
  <2>2. CASE c.form # "parts"
    <3>1. \A i \in 1..Len(c.parts) : h.parts[i] = c.parts[i]
      <4>1. c.form = "absent" => Len(c.parts) = 0
        BY <1>2, Empty DEF Content
      <4>2. c.form = "string" => \A i \in 1..Len(c.parts) : c.parts[i].is = "text"
        <5>1. ASSUME c.form = "string" PROVE \A i \in 1..Len(c.parts) : c.parts[i].is = "text"
          <6>1. PICK x : c.parts = <<x>> /\ x.is = "text"
            BY <5>1 DEF Content
          <6> QED  BY <6>1, One
        <5> QED  BY <5>1
      <4> QED  BY <1>4, <2>2, <4>1, <4>2 DEF Content
    <3>2. h.parts = c.parts
      BY <1>2, <1>3, <3>1, Alike
    <3> QED  BY <1>1, <2>2, <3>2 DEF Content
  <2> QED  BY <2>1, <2>2
<1>8. ASSUME inside
      PROVE  h.parts = c.parts /\ \A i \in 1..Len(c.parts) : c.parts[i].is = "text"
  <2>1. \A i \in 1..Len(c.parts) : h.parts[i] = c.parts[i] /\ c.parts[i].is = "text"
    BY <1>4, <1>8
  <2> QED  BY <1>2, <1>3, <2>1, Alike
<1> QED  BY <1>1, <1>5, <1>6, <1>7, <1>8

(* The calls of a message become uses, if their arguments are objects.     *)
LEMMA CallsToUses ==
  ASSUME NEW calls, IsSeq(calls),
         NEW uu, uu = convert_openai_tool_calls(calls), ~AnyBad(uu), NEW by
  PROVE  /\ PlainParts(uu) /\ Len(uu) = Len(calls)
         /\ \A i \in 1..Len(uu) : uu[i].is = "tool_use"
         /\ Concat(Called(calls)) = Spoke(by, uu)
<1>1. DOMAIN uu = DOMAIN calls /\ uu = [i \in DOMAIN uu |-> uu[i]]
  BY DEF convert_openai_tool_calls, Each
<1>2. DOMAIN calls = 1..Len(calls)
  BY SeqIs
<1>3. IsSeq(uu) /\ Len(uu) = Len(calls) /\ DOMAIN uu = 1..Len(calls)
  BY <1>1, Imaged
<1>4. ASSUME NEW i \in 1..Len(calls)
      PROVE  /\ uu[i].is = "tool_use" /\ PlainForm(uu[i])
             /\ Calls(calls[i]) = Utterance(by, uu[i])
  <2>1. uu[i] # Bad
    BY <1>3 DEF AnyBad
  <2>2. uu[i] = IF calls[i].args # "object" THEN Bad
                  ELSE [is |-> "tool_use", id |-> calls[i].id, name |-> calls[i].name,
                        args |-> calls[i].args]
    BY <1>2 DEF convert_openai_tool_calls, Each
  <2>3. PICK c, u : /\ c = calls[i] /\ u = uu[i]
                    /\ u = [is |-> "tool_use", id |-> c.id, name |-> c.name, args |-> c.args]
    BY <2>1, <2>2
  <2>4. u.is = "tool_use" /\ u.id = c.id /\ u.name = c.name /\ u.args = c.args
    BY <2>3
  <2>5. PlainForm(u)
    BY <2>4 DEF PlainForm
  <2>6. Utterance(by, u) = Calls(u)
    BY <2>4 DEF Utterance
  <2>7. Calls(u) = Calls(c)
    BY <2>4 DEF Calls
  <2> QED  BY <2>3, <2>4, <2>5, <2>6, <2>7
<1>5. PlainParts(uu)
  BY <1>3, <1>4 DEF PlainParts
<1> QED  BY <1>3, <1>4, <1>5, CallsSaid

-----------------------------------------------------------------------------
(* The messages of Anthropic so far: they alternate, and tell what the     *)
(* hub's messages told.                                                    *)
AnthropicTurn(t) ==
  /\ t = [role |-> t.role, content |-> t.content] /\ t.role \in {"user", "assistant"}
  /\ PlainParts(t.content.parts)
AnthropicTurns(ts) == IsSeq(ts) /\ \A i \in 1..Len(ts) : AnthropicTurn(ts[i])
Alternates(ts) == \A i \in 1..Len(ts) - 1 : ts[i].role # ts[i + 1].role
Tracks(ts, told) ==
  /\ IsSeq(ts)
  /\ ~AnyBad(ts) => AnthropicTurns(ts) /\ Alternates(ts) /\ Heard("anthropic", ts) = told

LEMMA AnthropicTurnSays ==
  ASSUME NEW t, AnthropicTurn(t)
  PROVE  /\ Turn("anthropic", t) = Spoke(t.role, t.content.parts)
         /\ IsSeq(Turn("anthropic", t)) /\ t # Bad
<1>1. Turn("anthropic", t) = Spoke(t.role, t.content.parts)
  BY DEF Turn
<1>2. IsSeq(Spoke(t.role, t.content.parts))
  BY SpokeSeq DEF AnthropicTurn
<1>3. t # Bad
  <2>1. DOMAIN t = {"role", "content"}
    BY DEF AnthropicTurn
  <2>2. DOMAIN Bad = {"is"}
    BY DEF Bad
  <2> QED  BY <2>1, <2>2
<1> QED  BY <1>1, <1>2, <1>3

LEMMA AnthropicVocal ==
  ASSUME NEW ts, AnthropicTurns(ts)
  PROVE  Vocal("anthropic", ts) /\ ~AnyBad(ts)
<1>1. Vocal("anthropic", ts)
  BY AnthropicTurnSays DEF AnthropicTurns, Vocal
<1>2. ~AnyBad(ts)
  BY AnthropicTurnSays, BadPart DEF AnthropicTurns
<1> QED  BY <1>1, <1>2

(* A turn is put after the others.                                         *)
LEMMA TurnPut ==
  ASSUME NEW ts, AnthropicTurns(ts), NEW t, AnthropicTurn(t)
  PROVE  /\ AnthropicTurns(Append(ts, t))
         /\ Heard("anthropic", Append(ts, t)) = Heard("anthropic", ts) \o Turn("anthropic", t)
         /\ Len(Append(ts, t)) = Len(ts) + 1 /\ Append(ts, t)[Len(ts) + 1] = t
         /\ \A i \in 1..Len(ts) : Append(ts, t)[i] = ts[i]
<1>1. IsSeq(ts) /\ Len(ts) \in Nat
  BY SeqIs DEF AnthropicTurns
<1>2. PICK n : n = Append(ts, t) /\ n = ts \o <<t>> /\ IsSeq(n)
  BY <1>1, Appended
<1>3. IsSeq(<<t>>) /\ Len(<<t>>) = 1 /\ <<t>>[1] = t
  BY One
<1>4. Len(n) = Len(ts) + 1 /\ n[Len(ts) + 1] = t /\ \A i \in 1..Len(ts) : n[i] = ts[i]
  <2>1. Len(ts \o <<t>>) = Len(ts) + 1
    BY <1>1, <1>3, Joined
  <2>2. \A i \in 1..1 : (ts \o <<t>>)[Len(ts) + i] = <<t>>[i]
    BY <1>1, <1>3, Joined
  <2>3. \A i \in 1..Len(ts) : (ts \o <<t>>)[i] = ts[i]
    BY <1>1, <1>3, Joined
  <2> QED  BY <1>2, <1>3, <2>1, <2>2, <2>3
<1>5. AnthropicTurns(n)
  <2>1. ASSUME NEW i \in 1..Len(n) PROVE AnthropicTurn(n[i])
    <3>1. i \in 1..Len(ts) \/ i = Len(ts) + 1
      BY <1>1, <1>4, <2>1
    <3> QED  BY <1>4, <3>1 DEF AnthropicTurns
  <2> QED  BY <1>2, <2>1 DEF AnthropicTurns
<1>6. Heard("anthropic", n) = Heard("anthropic", ts) \o Turn("anthropic", t)
  <2>1. Vocal("anthropic", ts)
    BY AnthropicVocal
  <2>2. Vocal("anthropic", <<t>>) /\ Heard("anthropic", <<t>>) = Turn("anthropic", t)
    BY AnthropicTurnSays, VoicedOne
  <2>3. Heard("anthropic", ts \o <<t>>) = Heard("anthropic", ts) \o Heard("anthropic", <<t>>)
    BY <2>1, <2>2, VoicedJoin
  <2> QED  BY <1>2, <2>2, <2>3
<1> QED  BY <1>2, <1>4, <1>5, <1>6

LEMMA TurnsFront ==
  ASSUME NEW ts, AnthropicTurns(ts), ts # <<>>
  PROVE  /\ AnthropicTurns(Front(ts)) /\ AnthropicTurn(Last(ts))
         /\ Heard("anthropic", ts) = Heard("anthropic", Front(ts)) \o Turn("anthropic", Last(ts))
<1>1. /\ IsSeq(ts) /\ IsSeq(Front(ts)) /\ ts = Front(ts) \o <<Last(ts)>>
      /\ Len(ts) \in Nat \ {0} /\ Len(Front(ts)) = Len(ts) - 1
      /\ Last(ts) = ts[Len(ts)] /\ \A i \in 1..Len(ts) - 1 : Front(ts)[i] = ts[i]
  BY ButLast DEF AnthropicTurns
<1>2. AnthropicTurns(Front(ts)) /\ AnthropicTurn(Last(ts))
  BY <1>1 DEF AnthropicTurns
<1>3. Append(Front(ts), Last(ts)) = ts
  BY <1>1, Appended
<1> QED  BY <1>2, <1>3, TurnPut

SaysMore(ns, ts, more) == Heard("anthropic", ns) = Heard("anthropic", ts) \o more

LEMMA Pushed ==
  ASSUME NEW ts, AnthropicTurns(ts), Alternates(ts), NEW role \in {"user", "assistant"},
         NEW c, PlainParts(c.parts), NEW ns, ns = push_anthropic_message(ts, role, c)
  PROVE  AnthropicTurns(ns) /\ Alternates(ns) /\ SaysMore(ns, ts, Spoke(role, c.parts))
<1>1. IsSeq(ts) /\ Len(ts) \in Nat
  BY SeqIs DEF AnthropicTurns
<1>2. CASE ts # <<>> /\ Last(ts).role = role
  <2>1. PICK last, front : last = Last(ts) /\ front = Front(ts)
    OBVIOUS
  <2>2. /\ AnthropicTurns(front) /\ AnthropicTurn(last)
        /\ Heard("anthropic", ts) = Heard("anthropic", front) \o Turn("anthropic", last)
    BY <1>2, <2>1, TurnsFront
  <2>3. /\ Len(ts) \in Nat \ {0} /\ Len(front) = Len(ts) - 1
        /\ last = ts[Len(ts)] /\ \A i \in 1..Len(ts) - 1 : front[i] = ts[i]
    BY <1>1, <1>2, <2>1, ButLast
  <2>4. PICK ps : ps = last.content.parts \o c.parts /\ PlainParts(ps)
    BY <2>2, PartsJoined DEF AnthropicTurn
  <2>5. PICK l : l = [role |-> role, content |-> Parts(ps)]
    OBVIOUS
  <2>6. ns = Append(front, l)
    BY <1>2, <2>1, <2>4, <2>5 DEF push_anthropic_message, Merge
  <2>7. l.role = role /\ l.content = Parts(ps) /\ l.content.parts = ps
    BY <2>5, PartsContent
  <2>8. AnthropicTurn(l)
    BY <2>4, <2>5, <2>7 DEF AnthropicTurn
  <2>9. Turn("anthropic", l) = Turn("anthropic", last) \o Spoke(role, c.parts)
    <3>1. Spoke(role, last.content.parts \o c.parts)
            = Spoke(role, last.content.parts) \o Spoke(role, c.parts)
      BY <2>2, SpokeJoin DEF AnthropicTurn
    <3>2. Turn("anthropic", l) = Spoke(role, ps)
      BY <2>7, <2>8, AnthropicTurnSays
    <3>3. Turn("anthropic", last) = Spoke(role, last.content.parts)
      BY <1>2, <2>1, <2>2, AnthropicTurnSays
    <3> QED  BY <2>4, <3>1, <3>2, <3>3
  <2>10. /\ AnthropicTurns(ns)
         /\ Heard("anthropic", ns) = Heard("anthropic", front) \o Turn("anthropic", l)
         /\ Len(ns) = Len(front) + 1 /\ ns[Len(front) + 1] = l
         /\ \A i \in 1..Len(front) : ns[i] = front[i]
    <3>1. AnthropicTurns(front) /\ AnthropicTurn(l)
      BY <2>2, <2>8
    <3>2. AnthropicTurns(Append(front, l))
      BY <3>1, TurnPut
    <3>3. Heard("anthropic", Append(front, l)) = Heard("anthropic", front) \o Turn("anthropic", l)
      BY <3>1, TurnPut
    <3>4. Len(Append(front, l)) = Len(front) + 1 /\ Append(front, l)[Len(front) + 1] = l
      BY <3>1, TurnPut
    <3>5. \A i \in 1..Len(front) : Append(front, l)[i] = front[i]
      BY <3>1, TurnPut
    <3> QED  BY <2>6, <3>2, <3>3, <3>4, <3>5
  <2>11. Alternates(ns)
    <3>1. ASSUME NEW i \in 1..Len(ns) - 1 PROVE ns[i].role # ns[i + 1].role
      <4>1. i \in 1..Len(ts) - 1 /\ ns[i] = ts[i]
        <5>1. Len(ns) - 1 = Len(front) /\ Len(front) = Len(ts) - 1
          BY <2>3, <2>10
        <5>2. i \in 1..Len(front)
          BY <3>1, <5>1
        <5> QED  BY <2>3, <2>10, <5>1, <5>2
      <4>2. ns[i + 1].role = ts[i + 1].role
        <5>1. CASE i + 1 = Len(ts)
          BY <1>2, <2>1, <2>3, <2>7, <2>10, <5>1
        <5>2. CASE i + 1 # Len(ts)
          <6>1. i + 1 \in 1..Len(front) /\ i + 1 \in 1..Len(ts) - 1
            BY <2>3, <4>1, <5>2
          <6> QED  BY <2>3, <2>10, <6>1
        <5> QED  BY <5>1, <5>2
      <4> QED  BY <4>1, <4>2 DEF Alternates
    <3> QED  BY <3>1 DEF Alternates
  <2>12. Heard("anthropic", ns) = Heard("anthropic", ts) \o Spoke(role, c.parts)
    <3>1. PICK x, y, z : /\ x = Heard("anthropic", front) /\ y = Turn("anthropic", last)
                         /\ z = Spoke(role, c.parts) /\ IsSeq(x) /\ IsSeq(y) /\ IsSeq(z)
      BY <2>2, AnthropicVocal, VoicedLists, AnthropicTurnSays, SpokeSeq
    <3>2. (x \o y) \o z = x \o (y \o z)
      BY <3>1, Associates, SMTT(20)
    <3> QED  BY <2>2, <2>9, <2>10, <3>1, <3>2
  <2> QED  BY <2>10, <2>11, <2>12 DEF SaysMore
<1>3. CASE ~(ts # <<>> /\ Last(ts).role = role)
  <2>1. PICK l : l = [role |-> role, content |-> c]
    OBVIOUS
  <2>2. ns = Append(ts, l)
    BY <1>3, <2>1 DEF push_anthropic_message, Merge
  <2>3. AnthropicTurn(l) /\ l.role = role /\ Turn("anthropic", l) = Spoke(role, c.parts)
    BY <2>1, AnthropicTurnSays DEF AnthropicTurn
  <2>4. /\ AnthropicTurns(ns)
        /\ Heard("anthropic", ns) = Heard("anthropic", ts) \o Turn("anthropic", l)
        /\ Len(ns) = Len(ts) + 1 /\ ns[Len(ts) + 1] = l /\ \A i \in 1..Len(ts) : ns[i] = ts[i]
    BY <2>2, <2>3, TurnPut
  <2>5. Alternates(ns)
    <3>1. ASSUME NEW i \in 1..Len(ns) - 1 PROVE ns[i].role # ns[i + 1].role
      <4>1. i \in 1..Len(ts) /\ ns[i] = ts[i]
        BY <1>1, <2>4, <3>1
      <4>2. CASE i = Len(ts)
        <5>1. ts # <<>>
          <6>1. Len(ts) # 0
            BY <1>1, <4>1
          <6> QED  BY <6>1, Empty
        <5>2. Last(ts) = ts[Len(ts)]
          BY <1>1, <5>1, ButLast
        <5> QED  BY <1>3, <2>3, <2>4, <4>1, <4>2, <5>1, <5>2
      <4>3. CASE i # Len(ts)
        <5>1. i + 1 \in 1..Len(ts) /\ i \in 1..Len(ts) - 1
          BY <1>1, <4>1, <4>3
        <5> QED  BY <2>4, <4>1, <5>1 DEF Alternates
      <4> QED  BY <4>2, <4>3
    <3> QED  BY <3>1 DEF Alternates
  <2> QED  BY <2>3, <2>4, <2>5 DEF SaysMore
<1> QED  BY <1>2, <1>3

-----------------------------------------------------------------------------
(* A hub's message, as Anthropic has it.                                   *)
SaidParts(m, content) ==
  (IF m.content = Str(<<>>) THEN <<>> ELSE content.parts) \o convert_openai_tool_calls(m.calls)
PushedOr(ms, role, c) ==
  IF AnyBad(c.parts) THEN Append(ms, Bad) ELSE push_anthropic_message(ms, role, c)
AnthropicStep(ms, m, content, parts) ==
  CASE AnyBad(ms) -> ms
    [] ~AnyBad(ms) /\ m.role = "user" /\ m.content.form \notin {"absent", "null"} /\ m.name = "" ->
         PushedOr(ms, "user", content)
    [] ~AnyBad(ms) /\ m.role = "assistant" /\ m.name = "" /\ parts # <<>> ->
         PushedOr(ms, "assistant", IF m.calls = <<>> THEN collapse_text_parts(parts)
                                     ELSE Parts(parts))
    [] ~AnyBad(ms) /\ m.role = "tool" /\ ~AnyBad(content.parts) ->
         PushedOr(ms, "user", Parts(<<[is |-> "tool_result", id |-> m.id, error |-> FALSE,
                                       content |-> IF m.content \in {Absent, Null} THEN Str(<<>>)
                                                     ELSE content]>>))
    [] OTHER -> Append(ms, Bad)

LEMMA AnthropicStepIs ==
  ASSUME NEW ms, NEW m,
         NEW content, content = openai_content_to_anthropic(m.content, m.role = "tool")
  PROVE  convert_openai_message(ms, m) = AnthropicStep(ms, m, content, SaidParts(m, content))
BY Zenon DEF convert_openai_message, AnthropicStep, SaidParts, PushedOr

LEMMA TracksBad ==
  ASSUME NEW ms, IsSeq(ms), NEW told
  PROVE  Tracks(Append(ms, Bad), told)
<1>1. Append(ms, Bad) = ms \o <<Bad>> /\ IsSeq(Append(ms, Bad))
  BY Appended
<1>2. IsSeq(<<Bad>>) /\ Len(<<Bad>>) = 1 /\ <<Bad>>[1] = Bad
  BY One
<1>3. Len(ms) \in Nat
  BY SeqIs
<1>4. (ms \o <<Bad>>)[Len(ms) + 1] = <<Bad>>[1]
  BY <1>2, Joined
<1>5. Len(ms \o <<Bad>>) = Len(ms) + 1
  BY <1>2, Joined
<1>6. AnyBad(Append(ms, Bad))
  <2>1. PICK ns : ns = ms \o <<Bad>>
    OBVIOUS
  <2>2. IsSeq(ns) /\ Len(ns) = Len(ms) + 1 /\ ns[Len(ms) + 1] = Bad
    BY <1>1, <1>2, <1>4, <1>5, <2>1
  <2>3. Len(ms) + 1 \in 1..Len(ns)
    BY <1>3, <2>2
  <2> QED  BY <1>1, <2>1, <2>2, <2>3, BadPart
<1> QED  BY <1>1, <1>6 DEF Tracks

LEMMA TracksPushed ==
  ASSUME NEW ms, NEW told, Tracks(ms, told), ~AnyBad(ms), NEW role \in {"user", "assistant"},
         NEW c, IsSeq(c.parts), NEW more, (~AnyBad(c.parts)) => PlainParts(c.parts),
         (~AnyBad(c.parts)) => (Spoke(role, c.parts) = more)
  PROVE  Tracks(PushedOr(ms, role, c), told \o more)
<1>1. IsSeq(ms) /\ AnthropicTurns(ms) /\ Alternates(ms) /\ Heard("anthropic", ms) = told
  BY DEF Tracks
<1>2. CASE AnyBad(c.parts)
  BY <1>1, <1>2, TracksBad DEF PushedOr
<1>3. CASE ~AnyBad(c.parts)
  <2>1. PICK ns : ns = push_anthropic_message(ms, role, c)
    OBVIOUS
  <2>2. AnthropicTurns(ns) /\ Alternates(ns)
    BY <1>1, <1>3, <2>1, Pushed
  <2>3. SaysMore(ns, ms, Spoke(role, c.parts))
    BY <1>1, <1>3, <2>1, Pushed
  <2>4. Heard("anthropic", ns) = told \o more
    BY <1>1, <1>3, <2>3 DEF SaysMore
  <2>5. Tracks(ns, told \o more)
    BY <2>2, <2>4 DEF Tracks, AnthropicTurns
  <2> QED  BY <1>3, <2>1, <2>5 DEF PushedOr
<1> QED  BY <1>2, <1>3

(* The empty string says nothing.                                          *)
LEMMA SilentStr ==
  ASSUME NEW by
  PROVE  Spoke(by, Str(<<>>).parts) = <<>>
<1>1. PICK p : p = [is |-> "text", text |-> <<>>]
  OBVIOUS
<1>2. p.is = "text" /\ p.text = <<>> /\ Str(<<>>).parts = <<p>>
  BY <1>1 DEF Str
<1>3. PlainForm(p)
  BY <1>2, Empty DEF PlainForm
<1>4. Utterance(by, p) = Texts(by, <<>>)
  BY <1>2 DEF Utterance
<1>5. Texts(by, <<>>) = <<>>
  <2>1. PICK s : s = Texts(by, <<>>)
    OBVIOUS
  <2>2. DOMAIN s = DOMAIN <<>> /\ s = [i \in DOMAIN s |-> s[i]]
    BY <2>1 DEF Texts, Each
  <2>3. IsSeq(<<>>) /\ Len(<<>>) = 0
    BY Empty
  <2>4. IsSeq(s) /\ Len(s) = Len(<<>>)
    BY <2>2, <2>3, Imaged
  <2> QED  BY <2>1, <2>3, <2>4, Empty
<1> QED  BY <1>2, <1>3, <1>4, <1>5, SpokeOne

LEMMA ContentOutside ==
  ASSUME NEW c, Content(c), PlainParts(c.parts), NEW by,
         NEW h, h = openai_content_to_anthropic(c, FALSE), ~AnyBad(h.parts)
  PROVE  PlainParts(h.parts) /\ Spoke(by, h.parts) = Spoke(by, c.parts)
<1>1. PlainParts(h.parts) /\ \A b : Spoke(b, h.parts) = Spoke(b, c.parts)
  BY ContentToAnthropic, ZenonT(30)
<1> QED  BY <1>1

LEMMA TextAlone ==
  ASSUME NEW s, IsSeq(s), Len(s) = 1, s[1].is = "text"
  PROVE  ~AnyBad(s)
<1>1. \A x : x.is = "text" => x # Bad
  BY DEF Bad
<1>2. \A i \in 1..Len(s) : s[i] # Bad
  BY <1>1
<1> QED  BY <1>2, BadPart

LEMMA PartsMapped ==
  ASSUME NEW c, PlainParts(c.parts), NEW inside,
         NEW h, h = openai_content_to_anthropic(c, inside), Content(c)
  PROVE  IsSeq(h.parts) /\ Len(h.parts) = Len(c.parts) /\ h.form = c.form
<1>1. /\ h.form = c.form
      /\ DOMAIN h.parts = DOMAIN c.parts /\ h.parts = [i \in DOMAIN h.parts |-> h.parts[i]]
  BY DEF openai_content_to_anthropic, Content, Each
<1> QED  BY <1>1, Imaged DEF PlainParts

LEMMA UserTracks ==
  ASSUME NEW ms, NEW told, Tracks(ms, told), ~AnyBad(ms), NEW m, ChatForm(m),
         m.role = "user", m.name = "",
         NEW c, c = openai_content_to_anthropic(m.content, FALSE)
  PROVE  Tracks(PushedOr(ms, "user", c), told \o ChatTurn(m))
<1>1. Content(m.content) /\ PlainParts(m.content.parts) /\ m.calls = <<>>
  BY DEF ChatForm
<1>2. IsSeq(c.parts)
  BY <1>1, PartsMapped
<1>3. ASSUME ~AnyBad(c.parts)
      PROVE  PlainParts(c.parts) /\ Spoke("user", c.parts) = ChatTurn(m)
  <2>1. PlainParts(c.parts) /\ Spoke("user", c.parts) = Spoke("user", m.content.parts)
    BY <1>1, <1>3, ContentOutside
  <2>2. ChatTurn(m) = Spoke(SpeakerOf(m), m.content.parts) \o Concat(Called(m.calls))
    BY ChatTurnSays
  <2>3. SpeakerOf(m) = "user"
    BY Unlabelled DEF Speaker
  <2>4. Concat(Called(m.calls)) = <<>>
    BY <1>1, CalledNone
  <2>5. IsSeq(Spoke("user", m.content.parts))
    BY <1>1, SpokeSeq
  <2>6. ChatTurn(m) = Spoke("user", m.content.parts) \o <<>>
    BY <2>2, <2>3, <2>4
  <2> QED  BY <2>1, <2>5, <2>6, Empty
<1> QED  BY <1>2, <1>3, TracksPushed

LEMMA AssistantTracks ==
  ASSUME NEW ms, NEW told, Tracks(ms, told), ~AnyBad(ms), NEW m, ChatForm(m),
         m.role = "assistant", m.name = "",
         NEW c, c = openai_content_to_anthropic(m.content, FALSE),
         NEW parts, parts = SaidParts(m, c),
         NEW d, d = IF m.calls = <<>> THEN collapse_text_parts(parts) ELSE Parts(parts)
  PROVE  Tracks(PushedOr(ms, "assistant", d), told \o ChatTurn(m))
<1>1. Content(m.content) /\ PlainParts(m.content.parts) /\ IsSeq(m.calls)
  BY DEF ChatForm
<1>2. PICK spoken : spoken = IF m.content = Str(<<>>) THEN <<>> ELSE c.parts
  OBVIOUS
<1>3. PICK uses : uses = convert_openai_tool_calls(m.calls)
  OBVIOUS
<1>4. parts = spoken \o uses
  BY <1>2, <1>3 DEF SaidParts
<1>5. IsSeq(c.parts) /\ IsSeq(spoken)
  BY <1>1, <1>2, PartsMapped, Empty
<1>6. IsSeq(uses)
  <2>1. DOMAIN uses = DOMAIN m.calls /\ uses = [i \in DOMAIN uses |-> uses[i]]
    BY <1>3 DEF convert_openai_tool_calls, Each
  <2> QED  BY <1>1, <2>1, Imaged
<1>7. IsSeq(parts)
  <2>1. IsSeq(spoken \o uses)
    BY <1>5, <1>6, Joined
  <2> QED  BY <1>4, <2>1
<1>8. IsSeq(d.parts) /\ (~AnyBad(d.parts) => ~AnyBad(parts))
  <2>1. CASE m.calls = <<>> /\ Len(parts) = 1 /\ parts[1].is = "text"
    <3>1. d.parts = <<[is |-> "text", text |-> parts[1].text]>>
      BY <2>1 DEF collapse_text_parts, Str
    <3>3. ~AnyBad(parts)
      BY <1>7, <2>1, TextAlone
    <3> QED  BY <3>1, <3>3, One
  <2>2. CASE ~(m.calls = <<>> /\ Len(parts) = 1 /\ parts[1].is = "text")
    <3>1. d.parts = parts
      BY <2>2 DEF collapse_text_parts, Parts
    <3> QED  BY <1>7, <3>1
  <2> QED  BY <2>1, <2>2
<1>9. ASSUME ~AnyBad(d.parts)
      PROVE  PlainParts(d.parts) /\ Spoke("assistant", d.parts) = ChatTurn(m)
  <2>1. ~AnyBad(parts)
    BY <1>8, <1>9
  <2>2. ~AnyBad(spoken) /\ ~AnyBad(uses)
    BY <1>4, <1>5, <1>6, <2>1, BadJoined
  <2>3. PlainParts(spoken) /\ Spoke("assistant", spoken) = Spoke("assistant", m.content.parts)
    <3>1. CASE m.content = Str(<<>>)
      <4>1. PlainParts(<<>>)
        BY AbsentSays
      <4>2. spoken = <<>>
        BY <1>2, <3>1
      <4>3. Spoke("assistant", m.content.parts) = <<>>
        BY <3>1, SilentStr
      <4> QED  BY <4>1, <4>2, <4>3, SpokeNone
    <3>2. CASE m.content # Str(<<>>)
      <4>1. spoken = c.parts
        BY <1>2, <3>2
      <4>2. PlainParts(c.parts) /\ Spoke("assistant", c.parts) = Spoke("assistant", m.content.parts)
        BY <1>1, <2>2, <4>1, ContentOutside
      <4> QED  BY <4>1, <4>2
    <3> QED  BY <3>1, <3>2
  <2>4. PlainParts(uses) /\ Concat(Called(m.calls)) = Spoke("assistant", uses)
    BY <1>1, <1>3, <2>2, CallsToUses
  <2>5. PlainParts(parts)
    BY <1>4, <2>3, <2>4, PartsJoined
  <2>6. Spoke("assistant", spoken \o uses)
          = Spoke("assistant", spoken) \o Spoke("assistant", uses)
    BY <2>3, <2>4, SpokeJoin
  <2>7. ChatTurn(m) = Spoke(SpeakerOf(m), m.content.parts) \o Concat(Called(m.calls))
    BY ChatTurnSays
  <2>8. SpeakerOf(m) = "assistant"
    BY Unlabelled DEF Speaker
  <2>9. ChatTurn(m) = Spoke("assistant", parts)
    BY <1>4, <2>3, <2>4, <2>6, <2>7, <2>8
  <2>10. PlainParts(d.parts) /\ Spoke("assistant", d.parts) = Spoke("assistant", parts)
    <3>1. CASE m.calls = <<>>
      BY <2>5, <3>1, Collapsed
    <3>2. CASE m.calls # <<>>
      BY <2>5, <3>2, PartsContent
    <3> QED  BY <3>1, <3>2
  <2> QED  BY <2>9, <2>10
<1> QED  BY <1>8, <1>9, TracksPushed

LEMMA TextOfNone ==
  ASSUME NEW c, c.parts = <<>>
  PROVE  TextOf(c) = <<>>
<1>1. PICK s : s = TextItems(c.parts)
  OBVIOUS
<1>2. DOMAIN s = DOMAIN <<>> /\ s = [i \in DOMAIN s |-> s[i]]
  BY <1>1 DEF TextItems, Each
<1>3. IsSeq(<<>>) /\ Len(<<>>) = 0
  BY Empty
<1>4. IsSeq(s) /\ Len(s) = Len(<<>>)
  BY <1>2, <1>3, Imaged
<1>5. s = <<>>
  BY <1>3, <1>4, Empty
<1>6. TextOf(c) = Concat(s)
  BY <1>1 DEF TextOf, TextItems
<1> QED  BY <1>5, <1>6, NoLists

LEMMA ToolTracks ==
  ASSUME NEW ms, NEW told, Tracks(ms, told), ~AnyBad(ms), NEW m, ChatForm(m),
         m.role = "tool",
         NEW c, c = openai_content_to_anthropic(m.content, TRUE), ~AnyBad(c.parts),
         NEW d, d = Parts(<<[is |-> "tool_result", id |-> m.id, error |-> FALSE,
                             content |-> IF m.content \in {Absent, Null} THEN Str(<<>>) ELSE c]>>)
  PROVE  Tracks(PushedOr(ms, "user", d), told \o ChatTurn(m))
<1>1. Content(m.content) /\ PlainParts(m.content.parts)
  BY DEF ChatForm
<1>2. PICK e : e = IF m.content \in {Absent, Null} THEN Str(<<>>) ELSE c
  OBVIOUS
<1>3. PICK p : p = [is |-> "tool_result", id |-> m.id, error |-> FALSE, content |-> e]
  OBVIOUS
<1>4. d = Parts(<<p>>) /\ d.parts = <<p>>
  BY <1>2, <1>3, PartsContent
<1>5. p.is = "tool_result" /\ p.id = m.id /\ p.content = e
  BY <1>3
<1>6. TextOf(e) = TextOf(m.content)
  <2>1. CASE m.content \in {Absent, Null}
    <3>1. TextOf(m.content) = <<>>
      BY <2>1, TextOfNone DEF Absent, Null
    <3>2. TextOf(Str(<<>>)) = <<>>
      BY TextOfStr, Empty
    <3> QED  BY <1>2, <2>1, <3>1, <3>2
  <2>2. CASE m.content \notin {Absent, Null}
    <3>1. e = c /\ c.parts = m.content.parts
      BY <1>1, <1>2, <2>2, ContentToAnthropic
    <3> QED  BY <3>1 DEF TextOf
  <2> QED  BY <2>1, <2>2
<1>7. PlainForm(p)
  BY <1>5 DEF PlainForm
<1>8. Utterance("user", p) = Results(m.id, TextOf(e))
  BY <1>5 DEF Utterance
<1>9. ChatTurn(m) = Results(m.id, TextOf(m.content))
  BY ChatTurnSays
<1>10. PlainParts(<<p>>) /\ Spoke("user", <<p>>) = Utterance("user", p)
  BY <1>7, SpokeOne
<1>11. IsSeq(d.parts) /\ PlainParts(d.parts) /\ Spoke("user", d.parts) = ChatTurn(m)
  BY <1>4, <1>6, <1>8, <1>9, <1>10, One
<1> QED  BY <1>11, TracksPushed

LEMMA MessageTracks ==
  ASSUME NEW ms, NEW told, Tracks(ms, told), NEW m, ChatForm(m)
  PROVE  Tracks(convert_openai_message(ms, m), told \o ChatTurn(m))
<1>1. PICK c : c = openai_content_to_anthropic(m.content, m.role = "tool")
  OBVIOUS
<1>2. PICK parts : parts = SaidParts(m, c)
  OBVIOUS
<1>3. convert_openai_message(ms, m) = AnthropicStep(ms, m, c, parts)
  BY <1>1, <1>2, AnthropicStepIs
<1>4. PICK ns : ns = AnthropicStep(ms, m, c, parts)
  OBVIOUS
<1>5. PICK more : more = told \o ChatTurn(m)
  OBVIOUS
<1> SUFFICES Tracks(ns, more)
  BY <1>3, <1>4, <1>5
<1>6. IsSeq(ms)
  BY DEF Tracks
<1>7. CASE AnyBad(ms)
  <2>1. ns = ms
    BY <1>4, <1>7 DEF AnthropicStep
  <2> QED  BY <1>6, <1>7, <2>1 DEF Tracks
<1>8. CASE ~AnyBad(ms) /\ m.role = "user" /\ m.content.form \notin {"absent", "null"} /\ m.name = ""
  <2>1. ns = PushedOr(ms, "user", c)
    BY <1>4, <1>8 DEF AnthropicStep
  <2>2. c = openai_content_to_anthropic(m.content, FALSE)
    BY <1>1, <1>8
  <2>3. Tracks(PushedOr(ms, "user", c), told \o ChatTurn(m))
    BY <1>8, <2>2, UserTracks
  <2> QED  BY <1>5, <2>1, <2>3
<1>9. CASE ~AnyBad(ms) /\ m.role = "assistant" /\ m.name = "" /\ parts # <<>>
  <2>1. PICK d : d = IF m.calls = <<>> THEN collapse_text_parts(parts) ELSE Parts(parts)
    OBVIOUS
  <2>2. ns = PushedOr(ms, "assistant", d)
    BY <1>4, <1>9, <2>1 DEF AnthropicStep
  <2>3. c = openai_content_to_anthropic(m.content, FALSE)
    BY <1>1, <1>9
  <2>4. Tracks(PushedOr(ms, "assistant", d), told \o ChatTurn(m))
    BY <1>2, <1>9, <2>1, <2>3, AssistantTracks
  <2> QED  BY <1>5, <2>2, <2>4
<1>10. CASE ~AnyBad(ms) /\ m.role = "tool" /\ ~AnyBad(c.parts)
  <2>1. PICK d : d = Parts(<<[is |-> "tool_result", id |-> m.id, error |-> FALSE,
                             content |-> IF m.content \in {Absent, Null} THEN Str(<<>>) ELSE c]>>)
    OBVIOUS
  <2>2. ns = PushedOr(ms, "user", d)
    BY <1>4, <1>10, <2>1 DEF AnthropicStep
  <2>3. c = openai_content_to_anthropic(m.content, TRUE)
    BY <1>1, <1>10
  <2>4. Tracks(PushedOr(ms, "user", d), told \o ChatTurn(m))
    BY <1>10, <2>1, <2>3, ToolTracks
  <2> QED  BY <1>5, <2>2, <2>4
<1>11. CASE /\ ~AnyBad(ms)
            /\ ~(m.role = "user" /\ m.content.form \notin {"absent", "null"} /\ m.name = "")
            /\ ~(m.role = "assistant" /\ m.name = "" /\ parts # <<>>)
            /\ ~(m.role = "tool" /\ ~AnyBad(c.parts))
  <2>1. ns = Append(ms, Bad)
    BY <1>4, <1>11 DEF AnthropicStep
  <2> QED  BY <1>5, <1>6, <2>1, TracksBad
<1> QED  BY <1>7, <1>8, <1>9, <1>10, <1>11

-----------------------------------------------------------------------------
(* The messages one after the other.                                       *)
Follows(made, ss) ==
  \A n \in 1..Len(ss) : \A t : Tracks(made[n - 1], t) => Tracks(made[n], t \o ss[n])

LEMMA FoldTracked ==
  ASSUME NEW b, IsSeq(b), NEW ss, Lists(ss), NEW made, Tracks(made[0], b), Follows(made, ss)
  PROVE  Tracks(made[Len(ss)], b \o Concat(ss))
<1>1. Len(ss) \in Nat
  BY SeqIs DEF Lists
<1>2. PICK h : Spinning(h, b, ss)
  BY Spun
<1>7. /\ h[0] = b /\ h[Len(ss)] = b \o Concat(ss)
      /\ \A n \in 1..Len(ss) : IsSeq(h[n - 1]) /\ h[n] = h[n - 1] \o ss[n]
  BY <1>2 DEF Spinning
<1> DEFINE S == {n \in Nat : n <= Len(ss) => Tracks(made[n], h[n])}
<1> HIDE DEF S
<1>3. 0 \in S
  BY <1>7 DEF S
<1>4. ASSUME NEW n \in Nat, n \in S PROVE n + 1 \in S
  <2>1. SUFFICES ASSUME n + 1 <= Len(ss) PROVE Tracks(made[n + 1], h[n + 1])
    BY DEF S
  <2>2. PICK m : m = n + 1 /\ m - 1 = n /\ m \in 1..Len(ss) /\ n <= Len(ss)
    BY <1>1, <2>1
  <2>3. Tracks(made[m - 1], h[m - 1])
    BY <1>4, <2>2 DEF S
  <2>4. IsSeq(h[m - 1]) /\ h[m] = h[m - 1] \o ss[m]
    BY <1>7, <2>2
  <2>5. Tracks(made[m], h[m - 1] \o ss[m])
    BY <2>2, <2>3, <2>4 DEF Follows
  <2> QED  BY <2>2, <2>4, <2>5
<1>5. Nat \subseteq S
  BY <1>3, <1>4, Induct
<1>6. Tracks(made[Len(ss)], h[Len(ss)])
  BY <1>1, <1>5 DEF S
<1> QED  BY <1>6, <1>7

LEMMA MessagesTracked ==
  ASSUME NEW ms, ChatForms(ms)
  PROVE  Tracks(Folded(convert_openai_message, <<>>, ms), Concat(Told(ms)))
<1>1. Len(ms) \in Nat
  BY SeqIs DEF ChatForms
<1>2. PICK ss : ss = Told(ms)
  OBVIOUS
<1>3. Lists(ss) /\ Len(ss) = Len(ms) /\ \A i \in 1..Len(ms) : ss[i] = ChatTurn(ms[i])
  BY <1>2, ToldLists
<1>4. PICK made : /\ made[0] = <<>>
                  /\ \A n \in 1..Len(ms) :
                       made[n] = convert_openai_message(made[n - 1], ms[n])
                  /\ Folded(convert_openai_message, <<>>, ms) = made[Len(ms)]
  <2>1. \A before, items : Len(items) \in Nat =>
          \E made : /\ made[0] = before
                    /\ \A n \in 1..Len(items) :
                         made[n] = convert_openai_message(made[n - 1], items[n])
                    /\ Folded(convert_openai_message, before, items) = made[Len(items)]
    BY MessagesFolded, Zenon
  <2> QED  BY <1>1, <2>1, ZenonT(30)
<1>5. Tracks(<<>>, <<>>)
  <2>1. IsSeq(<<>>) /\ Len(<<>>) = 0
    BY Empty
  <2>2. AnthropicTurns(<<>>) /\ Alternates(<<>>)
    BY <2>1 DEF AnthropicTurns, Alternates
  <2> QED  BY <2>1, <2>2, VoicedNone DEF Tracks
<1>6. Follows(made, ss)
  <2>1. ASSUME NEW n \in 1..Len(ss), NEW t, Tracks(made[n - 1], t)
        PROVE  Tracks(made[n], t \o ss[n])
    <3>1. PICK x : x = ms[n] /\ ChatForm(x) /\ ss[n] = ChatTurn(x)
      BY <1>3 DEF ChatForms
    <3>2. made[n] = convert_openai_message(made[n - 1], x)
      BY <1>3, <1>4, <3>1
    <3> QED  BY <2>1, <3>1, <3>2, MessageTracks
  <2> QED  BY <2>1 DEF Follows
<1>7. Tracks(made[Len(ss)], <<>> \o Concat(ss))
  BY <1>3, <1>4, <1>5, <1>6, Empty, FoldTracked
<1>8. <<>> \o Concat(ss) = Concat(ss)
  BY <1>3, ConcatSeq, Empty
<1> QED  BY <1>2, <1>3, <1>4, <1>7, <1>8

-----------------------------------------------------------------------------
(* What comes first, and what is said after it.                            *)
LEMMA BadGathered ==
  ASSUME NEW ss, Lists(ss), ~AnyBad(Concat(ss))
  PROVE  \A i \in 1..Len(ss) : ~AnyBad(ss[i])
<1>1. PICK f : /\ f[0] = <<>> /\ \A k \in 1..Len(ss) : f[k] = f[k - 1] \o ss[k]
               /\ Concat(ss) = f[Len(ss)] /\ \A k \in 0..Len(ss) : IsSeq(f[k])
  BY Grown
<1>2. Len(ss) \in Nat
  BY SeqIs DEF Lists
<1> DEFINE T == {n \in Nat : (n <= Len(ss) /\ ~AnyBad(f[n])) =>
                               \A i \in 1..n : ~AnyBad(ss[i])}
<1> HIDE DEF T
<1>3. 0 \in T
  BY DEF T
<1>4. ASSUME NEW n \in Nat, n \in T PROVE n + 1 \in T
  <2>1. SUFFICES ASSUME n + 1 <= Len(ss), ~AnyBad(f[n + 1])
                 PROVE  \A i \in 1..n + 1 : ~AnyBad(ss[i])
    BY DEF T
  <2>2. PICK m : m = n + 1 /\ m - 1 = n /\ m \in 1..Len(ss) /\ n \in 0..Len(ss)
    BY <1>2, <2>1
  <2>3. IsSeq(f[m - 1]) /\ IsSeq(ss[m]) /\ f[m] = f[m - 1] \o ss[m]
    BY <1>1, <2>2 DEF Lists
  <2>4. ~AnyBad(f[m - 1]) /\ ~AnyBad(ss[m])
    BY <2>1, <2>2, <2>3, BadJoined
  <2>5. \A i \in 1..n : ~AnyBad(ss[i])
    BY <1>2, <1>4, <2>2, <2>4 DEF T
  <2>6. \A i \in 1..n + 1 : i \in 1..n \/ i = n + 1
    OBVIOUS
  <2> QED  BY <2>2, <2>4, <2>5, <2>6
<1>5. Nat \subseteq T
  BY <1>3, <1>4, Induct
<1>6. Len(ss) \in T
  BY <1>2, <1>5
<1> QED  BY <1>1, <1>2, <1>6 DEF T

LEMMA SpokeConcat ==
  ASSUME NEW by, NEW ss, Lists(ss), \A i \in 1..Len(ss) : PlainParts(ss[i])
  PROVE  /\ PlainParts(Concat(ss))
         /\ Spoke(by, Concat(ss)) = Concat([i \in DOMAIN ss |-> Spoke(by, ss[i])])
         /\ Lists([i \in DOMAIN ss |-> Spoke(by, ss[i])])
<1> DEFINE T == {p \in UNION {{ss[i][j] : j \in 1..Len(ss[i])} : i \in 1..Len(ss)} :
                   PlainForm(p)}
<1>1. \A i \in 1..Len(ss) : \A j \in 1..Len(ss[i]) : ss[i][j] \in T
  <2>1. ASSUME NEW i \in 1..Len(ss), NEW j \in 1..Len(ss[i]) PROVE PlainForm(ss[i][j])
    BY <2>1, SeqIs DEF PlainParts
  <2> QED  BY <2>1
<1>2. \A p \in T : PlainForm(p)
  OBVIOUS
<1> HIDE DEF T
<1>3. IsSeq(Concat(ss)) /\ \A j \in 1..Len(Concat(ss)) : Concat(ss)[j] \in T
  BY <1>1, ConcatSeq, Gathered
<1>4. PlainParts(Concat(ss))
  BY <1>2, <1>3, SeqIs DEF PlainParts
<1>5. PICK g : g = [p \in T |-> Utterance(by, p)]
  OBVIOUS
<1>6. Uttered(by, Concat(ss)) = Chain(Concat(ss), g)
  BY <1>3, <1>4, <1>5, UtteredChain
<1>7. \A i \in 1..Len(ss) :
        Uttered(by, ss[i]) = Chain(ss[i], g) /\ \A j \in 1..Len(ss[i]) : IsSeq(g[ss[i][j]])
  BY <1>1, <1>5, UtteredChain
<1>8. /\ Chained(Concat(ss), g) = Concat([i \in DOMAIN ss |-> Chained(ss[i], g)])
      /\ Lists([i \in DOMAIN ss |-> Chained(ss[i], g)])
  BY <1>7, ChainConcat
<1>9. [i \in DOMAIN ss |-> Chained(ss[i], g)] = [i \in DOMAIN ss |-> Spoke(by, ss[i])]
  <2>1. DOMAIN ss = 1..Len(ss)
    BY SeqIs DEF Lists
  <2>2. \A i \in 1..Len(ss) : Chained(ss[i], g) = Spoke(by, ss[i])
    BY <1>7, SpokeSeq DEF Chained
  <2> QED  BY <2>1, <2>2
<1>10. Spoke(by, Concat(ss)) = Chained(Concat(ss), g)
  BY <1>4, <1>6, SpokeSeq DEF Chained
<1> QED  BY <1>4, <1>8, <1>9, <1>10

Systems(ms) == {i \in DOMAIN ms : IsSystem(ms[i])}
SystemPart(m) ==
  IF m.content.form \in {"absent", "null"} THEN <<Bad>> ELSE Each(push_system_parts, m.content.parts)

LEMMA SystemIs ==
  ASSUME NEW ms
  PROVE  /\ SystemParts(ms) = Concat(Each(SystemPart, Picked(ms, Systems(ms))))
         /\ Spoken(ms) = Picked(ms, DOMAIN ms \ Systems(ms))
<1>1. SystemParts(ms) = Concat(Each(SystemPart, With(ms, IsSystem)))
  BY Zenon DEF SystemParts, SystemPart
<1>2. With(ms, IsSystem) = Concat([i \in DOMAIN ms |-> IF IsSystem(ms[i]) THEN <<ms[i]>> ELSE <<>>])
  BY Zenon DEF With, Each
<1>3. Spoken(ms) = Concat([i \in DOMAIN ms |-> IF ~IsSystem(ms[i]) THEN <<ms[i]>> ELSE <<>>])
  BY Zenon DEF Spoken, With, Each
<1>4. AtPlaces(ms, Systems(ms))
        = [i \in DOMAIN ms |-> IF IsSystem(ms[i]) THEN <<ms[i]>> ELSE <<>>]
  BY DEF AtPlaces, Systems
<1>5. AtPlaces(ms, DOMAIN ms \ Systems(ms))
        = [i \in DOMAIN ms |-> IF ~IsSystem(ms[i]) THEN <<ms[i]>> ELSE <<>>]
  BY DEF AtPlaces, Systems
<1> QED  BY <1>1, <1>2, <1>3, <1>4, <1>5 DEF Picked

LEMMA BadAlone == AnyBad(<<Bad>>)
<1>1. PICK s : s = <<Bad>> /\ IsSeq(s) /\ Len(s) = 1 /\ s[1] = Bad
  BY One
<1>2. 1 \in 1..Len(s)
  BY <1>1
<1> QED  BY <1>1, <1>2, BadPart

LEMMA SystemPartSays ==
  ASSUME NEW m, ChatForm(m), IsSystem(m), m.name = "", NEW ps, ps = SystemPart(m), ~AnyBad(ps)
  PROVE  PlainParts(ps) /\ Spoke("system", ps) = ChatTurn(m)
<1>1. Content(m.content) /\ PlainParts(m.content.parts) /\ m.calls = <<>> /\ m.role # "tool"
  BY DEF ChatForm, IsSystem
<1>2. m.content.form \notin {"absent", "null"}
  <2>1. SUFFICES ASSUME m.content.form \in {"absent", "null"} PROVE FALSE
    OBVIOUS
  <2>2. ps = <<Bad>>
    BY <2>1 DEF SystemPart
  <2> QED  BY <2>2, BadAlone
<1>3. PICK qs : qs = m.content.parts /\ PlainParts(qs)
  BY <1>1
<1>4. DOMAIN ps = DOMAIN qs /\ ps = [i \in DOMAIN ps |-> ps[i]]
      /\ \A i \in DOMAIN qs : ps[i] = push_system_parts(qs[i])
  BY <1>2, <1>3 DEF SystemPart, Each
<1>5. IsSeq(qs) /\ IsSeq(ps) /\ Len(ps) = Len(qs)
  <2>1. IsSeq(qs)
    BY <1>3 DEF PlainParts
  <2> QED  BY <1>4, <2>1, Imaged
<1>6. \A i \in 1..Len(qs) : ps[i] = qs[i]
  <2>1. ASSUME NEW i \in 1..Len(qs) PROVE ps[i] = qs[i]
    <3>1. ps[i] # Bad
      BY <1>5, BadPart
    <3>2. ps[i] = push_system_parts(qs[i])
      BY <1>4, <1>5, SeqIs
    <3> QED  BY <3>1, <3>2 DEF push_system_parts
  <2> QED  BY <2>1
<1>7. ps = qs
  BY <1>5, <1>6, Alike
<1>8. ChatTurn(m) = Spoke(SpeakerOf(m), m.content.parts) \o Concat(Called(m.calls))
  BY <1>1, ChatTurnSays
<1>9. SpeakerOf(m) = "system"
  BY Unlabelled DEF Speaker, IsSystem
<1>10. ChatTurn(m) = Spoke("system", qs) \o <<>>
  BY <1>1, <1>3, <1>8, <1>9, CalledNone
<1>11. IsSeq(Spoke("system", qs))
  BY <1>3, SpokeSeq
<1> QED  BY <1>3, <1>7, <1>10, <1>11, Empty

LEMMA PickedAll ==
  ASSUME NEW s, IsSeq(s), NEW K, NEW T, \A i \in 1..Len(s) : i \in K => s[i] \in T
  PROVE  \A j \in 1..Len(Picked(s, K)) : Picked(s, K)[j] \in T
<1> QED  BY PickedFrom

(* The prompts of a conversation, and what is said after them.             *)
LEMMA SystemsTold ==
  ASSUME NEW ms, ChatForms(ms), \A i \in Systems(ms) : ms[i].name = "",
         NEW sys, sys = SystemParts(ms), ~AnyBad(sys)
  PROVE  /\ PlainParts(sys)
         /\ Spoke("system", sys) = Concat(Masked(Told(ms), Systems(ms)))
<1>1. PICK K : K = Systems(ms)
  OBVIOUS
<1>2. PICK ps : ps = Picked(ms, K)
  OBVIOUS
<1>3. IsSeq(ms) /\ ChatForms(ps) /\ Concat(Told(ps)) = Concat(Masked(Told(ms), K))
  BY <1>2, ToldPicked DEF ChatForms
<1>4. PICK ss : ss = Each(SystemPart, ps)
  OBVIOUS
<1>5. sys = Concat(ss)
  BY <1>1, <1>2, <1>4, SystemIs
<1>6. IsSeq(ps)
  BY <1>3 DEF ChatForms
<1>7. /\ DOMAIN ss = DOMAIN ps /\ ss = [i \in DOMAIN ss |-> ss[i]]
      /\ \A i \in DOMAIN ps : ss[i] = SystemPart(ps[i])
  BY <1>4 DEF Each
<1>8. \A i \in 1..Len(ps) : ChatForm(ps[i]) /\ IsSystem(ps[i]) /\ ps[i].name = ""
  <2>1. PICK T : T = {m \in {ms[i] : i \in 1..Len(ms)} : IsSystem(m) /\ m.name = ""}
    OBVIOUS
  <2>2. \A i \in 1..Len(ms) : i \in K => ms[i] \in T
    BY <1>1, <2>1 DEF Systems
  <2>3. IsSeq(ms)
    BY DEF ChatForms
  <2>4. \A j \in 1..Len(Picked(ms, K)) : Picked(ms, K)[j] \in T
    BY <2>2, <2>3, PickedAll
  <2> QED  BY <1>2, <1>3, <2>1, <2>4 DEF ChatForms
<1>9. \A i \in DOMAIN ps : IsSeq(ss[i])
  <2>1. ASSUME NEW i \in DOMAIN ps PROVE IsSeq(SystemPart(ps[i]))
    <3>1. PICK m : m = ps[i] /\ ChatForm(m)
      BY <1>6, <1>8, SeqIs
    <3>2. CASE m.content.form \in {"absent", "null"}
      BY <3>1, <3>2, One DEF SystemPart
    <3>3. CASE m.content.form \notin {"absent", "null"}
      <4>1. PICK qs, rs : qs = m.content.parts /\ rs = SystemPart(m)
        OBVIOUS
      <4>2. DOMAIN rs = DOMAIN qs /\ rs = [k \in DOMAIN rs |-> rs[k]]
        BY <3>3, <4>1 DEF SystemPart, Each
      <4>3. IsSeq(qs)
        BY <3>1, <4>1 DEF ChatForm, PlainParts
      <4>4. IsSeq(rs)
        BY <4>2, <4>3, Imaged
      <4> QED  BY <3>1, <4>1, <4>4
    <3> QED  BY <3>2, <3>3
  <2> QED  BY <1>7, <2>1
<1>10. Lists(ss) /\ Len(ss) = Len(ps)
  BY <1>6, <1>7, <1>9, EachLists
<1>11. \A i \in 1..Len(ss) : ~AnyBad(ss[i])
  BY <1>5, <1>10, BadGathered
<1>12. \A i \in 1..Len(ss) : PlainParts(ss[i]) /\ Spoke("system", ss[i]) = ChatTurn(ps[i])
  <2>1. ASSUME NEW i \in 1..Len(ss)
        PROVE  PlainParts(ss[i]) /\ Spoke("system", ss[i]) = ChatTurn(ps[i])
    <3>1. PICK m, q : /\ m = ps[i] /\ ChatForm(m) /\ IsSystem(m) /\ m.name = ""
                      /\ q = ss[i] /\ q = SystemPart(m) /\ ~AnyBad(q)
      BY <1>6, <1>7, <1>8, <1>10, <1>11, SeqIs
    <3> QED  BY <3>1, SystemPartSays
  <2> QED  BY <2>1
<1>13. PlainParts(Concat(ss))
  BY <1>10, <1>12, SpokeConcat
<1>14. Spoke("system", Concat(ss)) = Concat([i \in DOMAIN ss |-> Spoke("system", ss[i])])
  BY <1>10, <1>12, SpokeConcat
<1>15. [i \in DOMAIN ss |-> Spoke("system", ss[i])] = Told(ps)
  <2>1. PICK t : t = Told(ps)
    OBVIOUS
  <2>2. DOMAIN t = DOMAIN ps /\ t = [i \in DOMAIN ps |-> ChatTurn(ps[i])]
    BY <2>1 DEF Told, Each
  <2>3. DOMAIN ss = 1..Len(ss)
    BY <1>10, SeqIs DEF Lists
  <2> QED  BY <1>7, <1>12, <2>1, <2>2, <2>3
<1> QED  BY <1>1, <1>3, <1>5, <1>13, <1>14, <1>15

LEMMA SystemSplit ==
  ASSUME NEW ms, ChatForms(ms), SystemFirst(ms),
         \A i \in Systems(ms) : ms[i].name = "",
         NEW sys, sys = SystemParts(ms), ~AnyBad(sys)
  PROVE  /\ PlainParts(sys) /\ ChatForms(Spoken(ms))
         /\ Concat(Told(ms)) = Spoke("system", sys) \o Concat(Told(Spoken(ms)))
<1>1. PICK K : K = Systems(ms)
  OBVIOUS
<1>2. IsSeq(ms) /\ DOMAIN ms = 1..Len(ms)
  BY SeqIs DEF ChatForms
<1>3. PlainParts(sys) /\ Spoke("system", sys) = Concat(Masked(Told(ms), K))
  BY <1>1, SystemsTold
<1>4. PICK L : L = 1..Len(ms) \ K
  OBVIOUS
<1>5. Spoken(ms) = Picked(ms, L)
  BY <1>1, <1>2, <1>4, SystemIs
<1>6. ChatForms(Spoken(ms)) /\ Concat(Told(Spoken(ms))) = Concat(Masked(Told(ms), L))
  BY <1>5, ToldPicked
<1>7. Lists(Told(ms)) /\ Len(Told(ms)) = Len(ms)
  BY ToldLists
<1>8. \A i, j \in 1..Len(Told(ms)) : i < j /\ j \in K => i \in K
  BY <1>1, <1>2, <1>7 DEF SystemFirst, Systems
<1>9. Concat(Told(ms))
        = Concat(Masked(Told(ms), K)) \o Concat(Masked(Told(ms), 1..Len(Told(ms)) \ K))
  BY <1>7, <1>8, Sorted
<1> QED  BY <1>3, <1>4, <1>6, <1>7, <1>9

LEMMA AnthropicHeard ==
  ASSUME NEW ms, ChatForms(ms), NEW h, h = convert_openai_messages(ms),
         ~AnyBad(h.system), ~AnyBad(h.messages)
  PROVE  /\ PlainParts(h.system) /\ AnthropicTurns(h.messages) /\ Alternates(h.messages)
         /\ Spoke("system", h.system) \o Heard("anthropic", h.messages) = Concat(Told(ms))
<1>1. /\ h.system = IF \E i \in DOMAIN ms : Labelled(ms[i]) THEN <<Bad>> ELSE SystemParts(ms)
      /\ h.messages = IF ~SystemFirst(ms) THEN <<Bad>>
                        ELSE Folded(convert_openai_message, <<>>, Spoken(ms))
  BY Zenon DEF convert_openai_messages
<1>2. (\A i \in DOMAIN ms : ~Labelled(ms[i])) /\ h.system = SystemParts(ms)
  BY <1>1, BadAlone
<1>3. SystemFirst(ms) /\ h.messages = Folded(convert_openai_message, <<>>, Spoken(ms))
  BY <1>1, BadAlone
<1>4. \A i \in Systems(ms) : ms[i].name = ""
  BY <1>2 DEF Systems, Labelled
<1>5. PICK sys : sys = SystemParts(ms) /\ ~AnyBad(sys) /\ sys = h.system
  BY <1>2
<1>6. PlainParts(sys) /\ ChatForms(Spoken(ms))
  BY <1>3, <1>4, <1>5, SystemSplit
<1>7. Concat(Told(ms)) = Spoke("system", sys) \o Concat(Told(Spoken(ms)))
  BY <1>3, <1>4, <1>5, SystemSplit
<1>8. Tracks(h.messages, Concat(Told(Spoken(ms))))
  BY <1>3, <1>6, MessagesTracked
<1>9. /\ AnthropicTurns(h.messages) /\ Alternates(h.messages)
      /\ Heard("anthropic", h.messages) = Concat(Told(Spoken(ms)))
  BY <1>8 DEF Tracks
<1> QED  BY <1>5, <1>6, <1>7, <1>9

-----------------------------------------------------------------------------
(* A hub's message, as Gemini has it.                                      *)
ToGeminiPart(p) ==
  CASE p.is = "text" -> p
    [] p.is = "image_url" /\ p.detail \in {"unset", "auto"} -> openai_image_url_to_gemini(p.url)
    [] OTHER -> Bad
ToGeminiCall(c) ==
  IF c.args # "object" THEN Bad
    ELSE [is |-> "functionCall", id |-> c.id, name |-> c.name, args |-> c.args]
GeminiParts(m) == chat_content_to_gemini(m.content, FALSE) \o Each(ToGeminiCall, m.calls)
GeminiResponse(m) ==
  [is |-> "functionResponse", id |-> m.id, name |-> m.name,
   response |-> Response(IF m.content.form = "string" THEN TextOf(m.content) ELSE <<>>)]
GeminiTurn(m) ==
  CASE m.role = "tool" /\ m.name # "" -> [role |-> "user", parts |-> <<GeminiResponse(m)>>]
    [] m.role \in {"user", "assistant"} /\ GeminiParts(m) # <<>> /\ ~AnyBad(GeminiParts(m)) ->
         [role |-> IF m.role = "user" THEN "user" ELSE "model", parts |-> GeminiParts(m)]
    [] OTHER -> Bad

LEMMA GeminiTurnIs ==
  ASSUME NEW m
  PROVE  chat_message_to_gemini(m) = GeminiTurn(m)
<1> QED  BY Zenon DEF chat_message_to_gemini, GeminiTurn, GeminiParts, GeminiResponse, ToGeminiCall

LEMMA ToGeminiPartSays ==
  ASSUME NEW p, PlainForm(p), NEW by, NEW q, q = ToGeminiPart(p), q # Bad
  PROVE  /\ PlainForm(q) /\ Utterance(by, q) = Utterance(by, p)
         /\ q.is \in {"text", "inlineData", "fileData"}
<1>1. CASE p.is = "text"
  BY <1>1 DEF ToGeminiPart
<1>2. CASE p.is = "image_url"
  <2>1. p.detail \in {"unset", "auto"} /\ q = openai_image_url_to_gemini(p.url)
    BY <1>2 DEF ToGeminiPart
  <2>2. PICK u : u = p.url /\ u.form \in References
    BY <1>2 DEF PlainForm
  <2>3. Utterance(by, p) = Shows(by, u.form, u.ref, p.detail, "")
    BY <1>2, <2>2 DEF Utterance
  <2>4. Shows(by, u.form, u.ref, p.detail, "") = Shows(by, u.form, u.ref, "unset", "")
    BY <2>1 DEF Shows
  <2>5. CASE u.form = "data"
    <3>1. q = [is |-> "inlineData", ref |-> u.ref]
      BY <2>1, <2>2, <2>5 DEF openai_image_url_to_gemini
    <3>2. q.is = "inlineData" /\ q.ref = u.ref
      BY <3>1
    <3>3. Utterance(by, q) = Shows(by, "data", u.ref, "unset", "")
      BY <3>2 DEF Utterance
    <3>4. PlainForm(q)
      BY <3>2 DEF PlainForm
    <3> QED  BY <2>3, <2>4, <2>5, <3>2, <3>3, <3>4
  <2>6. CASE u.form # "data"
    <3>1. q = [is |-> "fileData", uri |-> u, mime |-> ""]
      BY <2>1, <2>2, <2>6 DEF openai_image_url_to_gemini
    <3>5. PICK l : l = [is |-> "fileData", uri |-> u, mime |-> ""]
      OBVIOUS
    <3>6. l.is = "fileData" /\ l.uri = u /\ l.mime = ""
      BY <3>5
    <3>2. q.is = "fileData" /\ q.uri = u /\ q.mime = ""
      BY <3>1, <3>5, <3>6
    <3>3. Utterance(by, q) = Shows(by, u.form, u.ref, "unset", "")
      BY <3>2 DEF Utterance
    <3>4. PlainForm(q)
      BY <2>2, <3>2 DEF PlainForm
    <3> QED  BY <2>3, <2>4, <3>2, <3>3, <3>4
  <2> QED  BY <2>5, <2>6
<1>3. CASE p.is # "text" /\ p.is # "image_url"
  BY <1>3 DEF ToGeminiPart
<1> QED  BY <1>1, <1>2, <1>3

LEMMA ContentToGemini ==
  ASSUME NEW c, PlainParts(c.parts),
         NEW qs, qs = chat_content_to_gemini(c, FALSE)
  PROVE  /\ IsSeq(qs) /\ Len(qs) = Len(c.parts)
         /\ ~AnyBad(qs) => /\ PlainParts(qs) /\ \A by : Spoke(by, qs) = Spoke(by, c.parts)
                           /\ \A i \in 1..Len(qs) : qs[i].is \in {"text", "inlineData", "fileData"}
<1>1. qs = [i \in DOMAIN c.parts |-> ToGeminiPart(c.parts[i])]
  BY DEF chat_content_to_gemini, ToGeminiPart, Each
<1>2. PICK ps : ps = c.parts /\ PlainParts(ps)
  OBVIOUS
<1>3. /\ DOMAIN qs = DOMAIN ps /\ qs = [i \in DOMAIN qs |-> qs[i]]
      /\ \A i \in DOMAIN ps : qs[i] = ToGeminiPart(ps[i])
  BY <1>1, <1>2
<1>4. IsSeq(ps)
  BY <1>2 DEF PlainParts
<1>5. IsSeq(qs) /\ Len(qs) = Len(ps)
  BY <1>3, <1>4, Imaged
<1>6. ASSUME ~AnyBad(qs)
      PROVE  /\ PlainParts(qs) /\ \A by : Spoke(by, qs) = Spoke(by, ps)
             /\ \A i \in 1..Len(qs) : qs[i].is \in {"text", "inlineData", "fileData"}
  <2>1. ASSUME NEW i \in 1..Len(ps), NEW by
        PROVE  /\ PlainForm(qs[i]) /\ Utterance(by, qs[i]) = Utterance(by, ps[i])
               /\ qs[i].is \in {"text", "inlineData", "fileData"}
    <3>1. PICK p, q : p = ps[i] /\ q = qs[i]
      OBVIOUS
    <3>2. PlainForm(p)
      BY <1>2, <1>4, <3>1, SeqIs DEF PlainParts
    <3>3. q = ToGeminiPart(p)
      BY <1>3, <1>4, <3>1, SeqIs
    <3>4. q # Bad
      BY <1>5, <1>6, <3>1, BadPart
    <3> QED  BY <3>1, <3>2, <3>3, <3>4, ToGeminiPartSays
  <2>2. PlainParts(qs)
    BY <1>5, <2>1, SeqIs DEF PlainParts
  <2>3. ASSUME NEW by PROVE Spoke(by, qs) = Spoke(by, ps)
    <3>1. \A i \in 1..Len(ps) : Utterance(by, qs[i]) = Utterance(by, ps[i])
      BY <2>1
    <3> QED  BY <1>2, <1>5, <2>2, <3>1, SpokeAlike
  <2> QED  BY <1>5, <2>1, <2>2, <2>3
<1> QED  BY <1>2, <1>5, <1>6

LEMMA CallsToGemini ==
  ASSUME NEW calls, IsSeq(calls), NEW uu, uu = Each(ToGeminiCall, calls)
  PROVE  /\ IsSeq(uu) /\ Len(uu) = Len(calls)
         /\ ~AnyBad(uu) => /\ PlainParts(uu) /\ \A i \in 1..Len(uu) : uu[i].is = "functionCall"
                           /\ \A by : Concat(Called(calls)) = Spoke(by, uu)
<1>1. /\ DOMAIN uu = DOMAIN calls /\ uu = [i \in DOMAIN uu |-> uu[i]]
      /\ \A i \in DOMAIN calls : uu[i] = ToGeminiCall(calls[i])
  BY DEF Each
<1>2. IsSeq(uu) /\ Len(uu) = Len(calls) /\ DOMAIN calls = 1..Len(calls)
  BY <1>1, Imaged, SeqIs
<1>3. ASSUME ~AnyBad(uu)
      PROVE  /\ PlainParts(uu) /\ \A i \in 1..Len(uu) : uu[i].is = "functionCall"
             /\ \A by : Concat(Called(calls)) = Spoke(by, uu)
  <2>1. ASSUME NEW i \in 1..Len(calls), NEW by
        PROVE  /\ uu[i].is = "functionCall" /\ PlainForm(uu[i])
               /\ Calls(calls[i]) = Utterance(by, uu[i])
    <3>1. PICK c, u : c = calls[i] /\ u = uu[i]
      OBVIOUS
    <3>2. u # Bad /\ u = ToGeminiCall(c)
      BY <1>1, <1>2, <1>3, <3>1, BadPart
    <3>3. u = [is |-> "functionCall", id |-> c.id, name |-> c.name, args |-> c.args]
      BY <3>2 DEF ToGeminiCall
    <3>4. u.is = "functionCall" /\ u.id = c.id /\ u.name = c.name /\ u.args = c.args
      BY <3>3
    <3>5. PlainForm(u)
      BY <3>4 DEF PlainForm
    <3>6. Utterance(by, u) = Calls(u)
      BY <3>4 DEF Utterance
    <3>7. Calls(u) = Calls(c)
      BY <3>4 DEF Calls
    <3> QED  BY <3>1, <3>4, <3>5, <3>6, <3>7
  <2>2. PlainParts(uu)
    BY <1>2, <2>1, SeqIs DEF PlainParts
  <2>3. ASSUME NEW by PROVE Concat(Called(calls)) = Spoke(by, uu)
    <3>1. \A i \in 1..Len(uu) : Calls(calls[i]) = Utterance(by, uu[i])
      BY <1>2, <2>1
    <3> QED  BY <1>2, <2>2, <3>1, CallsSaid
  <2> QED  BY <1>2, <2>1, <2>2, <2>3
<1> QED  BY <1>2, <1>3

(* A result is spelt as an object, or held by one.                         *)
LEMMA ResponseSays ==
  ASSUME NEW text, NEW r, r = Response(text)
  PROVE  (IF "json" \in DOMAIN r THEN Json(r) ELSE r.output) = text
<1>1. CASE text = <<"{json}">>
  <2>1. PICK x : x = text[1] /\ x = "{json}"
    BY <1>1, One
  <2>2. r = [json |-> x]
    BY <1>1, <2>1 DEF Response
  <2>3. "json" \in DOMAIN r /\ Json(r) = <<x>>
    BY <2>2 DEF Json
  <2> QED  BY <1>1, <2>1, <2>3
<1>2. CASE text # <<"{json}">>
  <2>1. r = [output |-> text]
    BY <1>2 DEF Response
  <2>2. "json" \notin DOMAIN r /\ r.output = text
    BY <2>1
  <2> QED  BY <2>2
<1> QED  BY <1>1, <1>2

(* A content of Gemini the vendor accepts.                                 *)
GeminiGood(t) ==
  /\ t.parts # <<>> /\ PlainParts(t.parts)
  /\ \A j \in DOMAIN t.parts : t.parts[j].is = "functionResponse" => t.parts[j].name # ""

LEMMA GeminiTurnSays ==
  ASSUME NEW m, ChatForm(m), NEW t, t = chat_message_to_gemini(m), t # Bad
  PROVE  /\ GeminiGood(t) /\ t.role \in {"user", "model"}
         /\ Tidy(m) => Turn("gemini", t) = ChatTurn(m)
         /\ m.role = "assistant" =>
              t.role = "model" /\ PartsForm(t.parts)
                /\ \A i \in 1..Len(t.parts) : t.parts[i].is # "functionResponse"
<1>1. t = GeminiTurn(m)
  BY GeminiTurnIs
<1>2. Content(m.content) /\ PlainParts(m.content.parts) /\ IsSeq(m.calls)
  BY DEF ChatForm
<1>4. CASE m.role = "tool"
  <2>1. PICK p : p = GeminiResponse(m)
    OBVIOUS
  <2>2. m.name # "" /\ t = [role |-> "user", parts |-> <<p>>]
    BY <1>1, <1>4, <2>1 DEF GeminiTurn
  <2>20. PICK ps : ps = <<p>>
    OBVIOUS
  <2>21. PICK l : l = [role |-> "user", parts |-> ps]
    OBVIOUS
  <2>22. l.role = "user" /\ l.parts = ps
    BY <2>21
  <2>3. t.role = "user" /\ t.parts = ps
    BY <2>2, <2>20, <2>21, <2>22
  <2>4. PICK r, text : r = Response(text)
                       /\ text = IF m.content.form = "string" THEN TextOf(m.content) ELSE <<>>
    OBVIOUS
  <2>5. p = [is |-> "functionResponse", id |-> m.id, name |-> m.name, response |-> r]
    BY <2>1, <2>4 DEF GeminiResponse
  <2>6. p.is = "functionResponse" /\ p.id = m.id /\ p.name = m.name /\ p.response = r
    BY <2>5
  <2>7. PlainForm(p)
    BY <2>6 DEF PlainForm
  <2>8. PlainParts(<<p>>) /\ Spoke("user", <<p>>) = Utterance("user", p)
    BY <2>7, SpokeOne
  <2>9. IsSeq(ps) /\ Len(ps) = 1 /\ ps[1] = p
    BY <2>20, One
  <2>10. ps # <<>> /\ DOMAIN ps = 1..1
    BY <2>9, Empty, SeqIs
  <2>11. GeminiGood(t)
    <3>1. PlainParts(ps)
      BY <2>8, <2>20
    <3>2. p.name # ""
      BY <2>2, <2>6
    <3>3. \A j \in DOMAIN ps : ps[j].name # ""
      <4>1. ASSUME NEW j \in DOMAIN ps PROVE j = 1
        BY <2>10, <4>1
      <4> QED  BY <2>9, <3>2, <4>1
    <3> QED  BY <2>3, <2>10, <3>1, <3>3 DEF GeminiGood
  <2>12. ASSUME Tidy(m) PROVE Turn("gemini", t) = ChatTurn(m)
    <3>1. text = TextOf(m.content)
      <4>1. CASE m.content.form = "string"
        BY <2>4, <4>1
      <4>2. CASE m.content.form # "string"
        <5>1. m.content.parts = <<>>
          BY <1>2, <1>4, <2>12, <4>2 DEF Content, Tidy
        <5> QED  BY <2>4, <4>2, <5>1, TextOfNone
      <4> QED  BY <4>1, <4>2
    <3>2. (IF "json" \in DOMAIN r THEN Json(r) ELSE r.output) = text
      BY <2>4, ResponseSays
    <3>3. Utterance("user", p) = Results(p.id, IF "json" \in DOMAIN p.response
                                                  THEN Json(p.response) ELSE p.response.output)
      BY <2>6 DEF Utterance
    <3>4. Utterance("user", p) = Results(m.id, text)
      BY <2>6, <3>2, <3>3
    <3>5. Turn("gemini", t) = Spoke(Speaker(t.role), t.parts)
      BY DEF Turn
    <3>6. Speaker(t.role) = "user"
      BY <2>3 DEF Speaker
    <3>7. ChatTurn(m) = Results(m.id, TextOf(m.content))
      BY <1>4, ChatTurnSays
    <3> QED  BY <2>3, <2>8, <2>20, <3>1, <3>4, <3>5, <3>6, <3>7
  <2> QED  BY <1>4, <2>3, <2>11, <2>12
<1>5. CASE m.role # "tool"
  <2>1. PICK qs, uu : /\ qs = chat_content_to_gemini(m.content, FALSE)
                      /\ uu = Each(ToGeminiCall, m.calls)
    OBVIOUS
  <2>2. PICK ps : ps = qs \o uu /\ ps = GeminiParts(m)
    BY <2>1 DEF GeminiParts
  <2>3. /\ m.role \in {"user", "assistant"} /\ ps # <<>> /\ ~AnyBad(ps)
        /\ t = [role |-> IF m.role = "user" THEN "user" ELSE "model", parts |-> ps]
    BY <1>1, <1>5, <2>2 DEF GeminiTurn
  <2>4. t.parts = ps /\ t.role = IF m.role = "user" THEN "user" ELSE "model"
    BY <2>3
  <2>5. IsSeq(qs) /\ IsSeq(uu)
    BY <1>2, <2>1, ContentToGemini, CallsToGemini
  <2>6. ~AnyBad(qs) /\ ~AnyBad(uu)
    BY <2>2, <2>3, <2>5, BadJoined
  <2>7. /\ PlainParts(qs) /\ \A by : Spoke(by, qs) = Spoke(by, m.content.parts)
        /\ \A i \in 1..Len(qs) : qs[i].is \in {"text", "inlineData", "fileData"}
    BY <1>2, <2>1, <2>6, ContentToGemini
  <2>8. /\ PlainParts(uu) /\ \A i \in 1..Len(uu) : uu[i].is = "functionCall"
        /\ \A by : Concat(Called(m.calls)) = Spoke(by, uu)
    BY <1>2, <2>1, <2>6, CallsToGemini
  <2>9. PlainParts(ps)
    BY <2>2, <2>7, <2>8, PartsJoined
  <2>10. ASSUME NEW i \in 1..Len(ps)
         PROVE  ps[i].is \in {"text", "inlineData", "fileData", "functionCall"}
    <3>1. PICK T : T = {p \in {qs[j] : j \in 1..Len(qs)} \cup {uu[j] : j \in 1..Len(uu)} :
                          p.is \in {"text", "inlineData", "fileData", "functionCall"}}
      OBVIOUS
    <3>2. (\A j \in 1..Len(qs) : qs[j] \in T) /\ (\A j \in 1..Len(uu) : uu[j] \in T)
      BY <2>7, <2>8, <3>1
    <3>3. \A j \in 1..Len(qs \o uu) : (qs \o uu)[j] \in T
      BY <2>5, <3>2, JoinedItems
    <3>4. ps[i] \in T
      BY <2>2, <2>10, <3>3
    <3> QED  BY <3>1, <3>4
  <2>11. IsSeq(ps) /\ DOMAIN ps = 1..Len(ps)
    BY <2>9, SeqIs DEF PlainParts
  <2>12. GeminiGood(t)
    BY <2>3, <2>4, <2>9, <2>10, <2>11 DEF GeminiGood
  <2>13. Turn("gemini", t) = Spoke(Speaker(t.role), ps)
    BY <2>4 DEF Turn
  <2>14. Tidy(m) => Turn("gemini", t) = ChatTurn(m)
    <3>1. SUFFICES ASSUME Tidy(m) PROVE Turn("gemini", t) = ChatTurn(m)
      OBVIOUS
    <3>2. PICK by : by = Speaker(t.role)
      OBVIOUS
    <3>3. SpeakerOf(m) = Speaker(m.role)
      BY <1>5, <3>1, Unlabelled DEF Tidy
    <3>4. Speaker(m.role) = by
      BY <2>3, <2>4, <3>2 DEF Speaker
    <3>5. ChatTurn(m) = Spoke(SpeakerOf(m), m.content.parts) \o Concat(Called(m.calls))
      BY <1>5, ChatTurnSays
    <3>6. Spoke(by, qs \o uu) = Spoke(by, qs) \o Spoke(by, uu)
      BY <2>7, <2>8, SpokeJoin
    <3>7. ChatTurn(m) = Spoke(by, qs) \o Spoke(by, uu)
      BY <2>7, <2>8, <3>3, <3>4, <3>5
    <3> QED  BY <2>2, <2>13, <3>2, <3>6, <3>7
  <2>15. PartsForm(ps)
    <3>1. \A i \in DOMAIN ps : PartForm(ps[i])
      BY <2>9, <2>10, <2>11 DEF PartForm, PlainParts
    <3> QED  BY <2>11, <3>1 DEF PartsForm
  <2> QED  BY <2>3, <2>4, <2>10, <2>12, <2>14, <2>15
<1> QED  BY <1>4, <1>5

LEMMA GeminiHeard ==
  ASSUME NEW ms, ChatForms(ms), NEW h, h = chat_messages_to_gemini(ms),
         ~AnyBad(h.system), ~AnyBad(h.contents)
  PROVE  /\ IsSeq(h.contents) /\ \A i \in 1..Len(h.contents) : GeminiGood(h.contents[i])
         /\ AllTidy(ms) =>
              Spoke("system", h.system) \o Heard("gemini", h.contents) = Concat(Told(ms))
<1>1. /\ h.system = SystemParts(ms)
      /\ h.contents = IF ~SystemFirst(ms) THEN <<Bad>>
                        ELSE Each(chat_message_to_gemini, Spoken(ms))
  BY Zenon DEF chat_messages_to_gemini
<1>2. SystemFirst(ms) /\ h.contents = Each(chat_message_to_gemini, Spoken(ms))
  BY <1>1, BadAlone
<1>3. PICK ns, ts : ns = Spoken(ms) /\ ts = h.contents
  OBVIOUS
<1>4. IsSeq(ms) /\ DOMAIN ms = 1..Len(ms)
  BY SeqIs DEF ChatForms
<1>5. PICK K : K = DOMAIN ms \ Systems(ms)
  OBVIOUS
<1>6. ns = Picked(ms, K) /\ ChatForms(ns)
  BY <1>3, <1>5, SystemIs, ToldPicked
<1>7. IsSeq(ns)
  BY <1>6 DEF ChatForms
<1>8. /\ DOMAIN ts = DOMAIN ns /\ ts = [i \in DOMAIN ts |-> ts[i]]
      /\ \A i \in DOMAIN ns : ts[i] = chat_message_to_gemini(ns[i])
  BY <1>2, <1>3 DEF Each
<1>9. IsSeq(ts) /\ Len(ts) = Len(ns)
  BY <1>7, <1>8, Imaged
<1>10. ASSUME NEW i \in 1..Len(ts)
       PROVE  /\ GeminiGood(ts[i]) /\ ChatForm(ns[i])
              /\ Tidy(ns[i]) => Turn("gemini", ts[i]) = ChatTurn(ns[i])
  <2>1. PICK m, t : m = ns[i] /\ t = ts[i]
    OBVIOUS
  <2>2. ChatForm(m) /\ t = chat_message_to_gemini(m)
    BY <1>6, <1>7, <1>8, <1>9, <2>1, SeqIs DEF ChatForms
  <2>3. t # Bad
    BY <1>3, <1>9, <2>1, BadPart
  <2> QED  BY <2>1, <2>2, <2>3, GeminiTurnSays
<1>11. ASSUME AllTidy(ms)
       PROVE  Spoke("system", h.system) \o Heard("gemini", ts) = Concat(Told(ms))
  <2>1. \A i \in 1..Len(ms) : Tidy(ms[i])
    BY <1>11, NotBad DEF AllTidy, ChatForms
  <2>2. \A i \in Systems(ms) : ms[i].name = ""
    BY <1>4, <2>1 DEF Systems, Tidy, IsSystem
  <2>3. PICK sys : sys = SystemParts(ms) /\ ~AnyBad(sys) /\ sys = h.system
    BY <1>1
  <2>4. Concat(Told(ms)) = Spoke("system", sys) \o Concat(Told(Spoken(ms)))
    BY <1>2, <2>2, <2>3, SystemSplit
  <2>5. \A i \in 1..Len(ns) : Tidy(ns[i])
    <3>1. PICK T : T = {m \in {ms[i] : i \in 1..Len(ms)} : Tidy(m)}
      OBVIOUS
    <3>2. \A i \in 1..Len(ms) : i \in K => ms[i] \in T
      BY <2>1, <3>1
    <3>3. \A j \in 1..Len(Picked(ms, K)) : Picked(ms, K)[j] \in T
      BY <1>4, <3>2, PickedAll
    <3> QED  BY <1>6, <3>1, <3>3
  <2>6. \A i \in 1..Len(ts) : Turn("gemini", ts[i]) = ChatTurn(ns[i])
    BY <1>9, <1>10, <2>5
  <2>7. Voiced("gemini", ts) = Told(ns)
    <3>1. PICK v, w : v = Voiced("gemini", ts) /\ w = Told(ns)
      OBVIOUS
    <3>2. /\ DOMAIN v = DOMAIN ts /\ v = [i \in DOMAIN ts |-> Turn("gemini", ts[i])]
          /\ DOMAIN w = DOMAIN ns /\ w = [i \in DOMAIN ns |-> ChatTurn(ns[i])]
      BY <3>1 DEF Voiced, Told, Each
    <3>3. DOMAIN ts = 1..Len(ts)
      BY <1>9, SeqIs
    <3> QED  BY <1>8, <2>6, <3>1, <3>2, <3>3
  <2>8. Heard("gemini", ts) = Concat(Told(ns))
    BY <2>7 DEF Heard
  <2> QED  BY <1>3, <2>3, <2>4, <2>8
<1>12. \A i \in 1..Len(ts) : GeminiGood(ts[i])
  BY <1>10
<1> QED  BY <1>3, <1>9, <1>11, <1>12

-----------------------------------------------------------------------------
(* A hub's message, as Responses has it: what is said, and every call, an  *)
(* item of its own.                                                        *)
ToResponsesCall(c) ==
  [is |-> "function_call", id |-> c.id, name |-> c.name, args |-> c.args]
SaidItems(m, content) ==
  CASE m.content.form \in {"absent", "null"} -> <<>>
    [] m.content.form \notin {"absent", "null"} /\ AnyBad(content.parts) -> <<Bad>>
    [] OTHER -> <<[is |-> "message", role |-> m.role, content |-> content]>>
ResponsesItems(m) ==
  CASE m.role = "tool" ->
         <<[is |-> "function_call_output", id |-> m.id,
            text |-> IF m.content.form = "string" THEN TextOf(m.content) ELSE <<>>]>>
    [] m.role \in {"system", "developer", "user", "assistant"}
         /\ (m.content.form # "absent" \/ m.calls # <<>>) ->
         SaidItems(m, chat_content_to_responses(m.content, m.role))
           \o Each(ToResponsesCall, m.calls)
    [] OTHER -> <<Bad>>

LEMMA ResponsesItemsAre ==
  ASSUME NEW ms
  PROVE  chat_messages_to_responses(ms) = Concat(Each(ResponsesItems, ms))
<1> QED  BY Zenon DEF chat_messages_to_responses, ResponsesItems, SaidItems, ToResponsesCall

LEMMA ToResponsesContent ==
  ASSUME NEW c, PlainParts(c.parts), NEW role,
         NEW h, h = chat_content_to_responses(c, role)
  PROVE  /\ IsSeq(h.parts)
         /\ ~AnyBad(h.parts) => /\ Content(h) /\ PlainParts(h.parts)
                                /\ \A by : Spoke(by, h.parts) = Spoke(by, c.parts)
<1>1. PICK ps : ps = c.parts /\ PlainParts(ps)
  OBVIOUS
<1>2. PICK kind : kind = IF role = "assistant" THEN "output_text" ELSE "input_text"
  OBVIOUS
<1>3. h = Parts([i \in DOMAIN ps |->
                   CASE ps[i].is = "text" -> [is |-> kind, text |-> ps[i].text]
                     [] ps[i].is = "image_url" /\ role = "user" ->
                          [is |-> "input_image", url |-> ps[i].url, detail |-> ps[i].detail]
                     [] OTHER -> Bad])
  BY <1>1, <1>2, Zenon DEF chat_content_to_responses, Each
<1>4. PICK qs : qs = h.parts
  OBVIOUS
<1>5. qs = [i \in DOMAIN ps |->
              CASE ps[i].is = "text" -> [is |-> kind, text |-> ps[i].text]
                [] ps[i].is = "image_url" /\ role = "user" ->
                     [is |-> "input_image", url |-> ps[i].url, detail |-> ps[i].detail]
                [] OTHER -> Bad]
  BY <1>3, <1>4 DEF Parts
<1>6. IsSeq(ps) /\ DOMAIN qs = DOMAIN ps /\ qs = [i \in DOMAIN qs |-> qs[i]]
  BY <1>1, <1>5 DEF PlainParts
<1>7. IsSeq(qs) /\ Len(qs) = Len(ps)
  BY <1>6, Imaged
<1>8. ASSUME ~AnyBad(qs)
      PROVE  PlainParts(qs) /\ \A by : Spoke(by, qs) = Spoke(by, ps)
  <2>1. ASSUME NEW i \in 1..Len(ps), NEW by
        PROVE  PlainForm(qs[i]) /\ Utterance(by, qs[i]) = Utterance(by, ps[i])
    <3>1. PICK p, q : p = ps[i] /\ q = qs[i]
      OBVIOUS
    <3>2. PlainForm(p)
      BY <1>1, <1>6, <3>1, SeqIs DEF PlainParts
    <3>3. q # Bad
      BY <1>7, <1>8, <3>1, BadPart
    <3>4. i \in DOMAIN ps
      BY <1>6, SeqIs
    <3>5. q = CASE p.is = "text" -> [is |-> kind, text |-> p.text]
                [] p.is = "image_url" /\ role = "user" ->
                     [is |-> "input_image", url |-> p.url, detail |-> p.detail]
                [] OTHER -> Bad
      BY <1>5, <3>1, <3>4
    <3>6. CASE p.is = "text"
      <4>1. q = [is |-> kind, text |-> p.text]
        BY <3>5, <3>6
      <4>2. q.is = kind /\ q.text = p.text
        BY <4>1
      <4>3. q.is \in {"output_text", "input_text"}
        BY <1>2, <4>2
      <4>4. PlainForm(q)
        BY <3>2, <3>6, <4>2, <4>3 DEF PlainForm
      <4>5. Utterance(by, q) = Texts(by, q.text)
        BY <4>3 DEF Utterance
      <4>6. Utterance(by, p) = Texts(by, p.text)
        BY <3>6 DEF Utterance
      <4> QED  BY <3>1, <4>2, <4>4, <4>5, <4>6
    <3>7. CASE p.is # "text"
      <4>1. /\ p.is = "image_url"
            /\ q = [is |-> "input_image", url |-> p.url, detail |-> p.detail]
        BY <3>3, <3>5, <3>7
      <4>2. q.is = "input_image" /\ q.url = p.url /\ q.detail = p.detail
        BY <4>1
      <4>3. PlainForm(q)
        BY <3>2, <4>1, <4>2 DEF PlainForm
      <4>4. Utterance(by, q) = Shows(by, q.url.form, q.url.ref, q.detail, "")
        BY <4>2 DEF Utterance
      <4>5. Utterance(by, p) = Shows(by, p.url.form, p.url.ref, p.detail, "")
        BY <4>1 DEF Utterance
      <4> QED  BY <3>1, <4>2, <4>3, <4>4, <4>5
    <3> QED  BY <3>6, <3>7
  <2>2. PlainParts(qs)
    BY <1>7, <2>1, SeqIs DEF PlainParts
  <2>3. ASSUME NEW by PROVE Spoke(by, qs) = Spoke(by, ps)
    <3>1. \A i \in 1..Len(ps) : Utterance(by, qs[i]) = Utterance(by, ps[i])
      BY <2>1
    <3> QED  BY <1>1, <1>7, <2>2, <3>1, SpokeAlike
  <2> QED  BY <2>2, <2>3
<1>9. Content(h)
  BY <1>3, PartsContent
<1> QED  BY <1>1, <1>4, <1>7, <1>8, <1>9

LEMMA CallItems ==
  ASSUME NEW calls, IsSeq(calls), NEW ii, ii = Each(ToResponsesCall, calls)
  PROVE  /\ IsSeq(ii) /\ Len(ii) = Len(calls) /\ Vocal("responses", ii)
         /\ Heard("responses", ii) = Concat(Called(calls))
         /\ \A i \in 1..Len(ii) : ItemForm(ii[i])
<1>1. /\ DOMAIN ii = DOMAIN calls /\ ii = [i \in DOMAIN ii |-> ii[i]]
      /\ \A i \in DOMAIN calls : ii[i] = ToResponsesCall(calls[i])
  BY DEF Each
<1>2. IsSeq(ii) /\ Len(ii) = Len(calls) /\ DOMAIN calls = 1..Len(calls) /\ DOMAIN ii = 1..Len(calls)
  BY <1>1, Imaged, SeqIs
<1>3. ASSUME NEW i \in 1..Len(calls)
      PROVE  /\ Turn("responses", ii[i]) = Calls(calls[i]) /\ IsSeq(Turn("responses", ii[i]))
             /\ ItemForm(ii[i])
  <2>1. PICK c, u : c = calls[i] /\ u = ii[i] /\ u = ToResponsesCall(c)
    BY <1>1, <1>2
  <2>2. u = [is |-> "function_call", id |-> c.id, name |-> c.name, args |-> c.args]
    BY <2>1 DEF ToResponsesCall
  <2>3. u.is = "function_call" /\ u.id = c.id /\ u.name = c.name /\ u.args = c.args
    BY <2>2
  <2>4. Turn("responses", u) = ResponsesTurn(u)
    BY DEF Turn
  <2>5. ResponsesTurn(u) = Calls(u)
    BY <2>3 DEF ResponsesTurn
  <2>6. Calls(u) = Calls(c)
    BY <2>3 DEF Calls
  <2>7. IsSeq(Calls(c))
    BY CalledOne
  <2>8. ItemForm(u)
    BY <2>3 DEF ItemForm
  <2> QED  BY <2>1, <2>4, <2>5, <2>6, <2>7, <2>8
<1>4. Vocal("responses", ii)
  BY <1>2, <1>3 DEF Vocal
<1>5. Voiced("responses", ii) = Called(calls)
  <2>1. PICK v, w : v = Voiced("responses", ii) /\ w = Called(calls)
    OBVIOUS
  <2>2. /\ DOMAIN v = DOMAIN ii /\ v = [i \in DOMAIN ii |-> Turn("responses", ii[i])]
        /\ DOMAIN w = DOMAIN calls /\ w = [i \in DOMAIN calls |-> Calls(calls[i])]
    BY <2>1 DEF Voiced, Called, Each
  <2> QED  BY <1>2, <1>3, <2>1, <2>2
<1> QED  BY <1>2, <1>3, <1>4, <1>5 DEF Heard

LEMMA ResponsesItemsSeq ==
  ASSUME NEW m, ChatForm(m)
  PROVE  IsSeq(ResponsesItems(m))
<1>1. PICK ii : ii = ResponsesItems(m)
  OBVIOUS
<1>2. CASE m.role = "tool"
  <2>1. PICK x : ii = <<x>>
    BY <1>1, <1>2 DEF ResponsesItems
  <2> QED  BY <1>1, <2>1, One
<1>3. CASE /\ m.role \in {"system", "developer", "user", "assistant"}
           /\ m.content.form # "absent" \/ m.calls # <<>>
  <2>1. PICK content : content = chat_content_to_responses(m.content, m.role)
    OBVIOUS
  <2>2. PICK a, b : a = SaidItems(m, content) /\ b = Each(ToResponsesCall, m.calls)
    OBVIOUS
  <2>3. IsSeq(b)
    BY <2>2, CallItems DEF ChatForm
  <2>4. IsSeq(a)
    <3>1. CASE m.content.form \in {"absent", "null"}
      BY <2>2, <3>1, Empty DEF SaidItems
    <3>2. CASE m.content.form \notin {"absent", "null"} /\ AnyBad(content.parts)
      <4>1. a = <<Bad>>
        BY <2>2, <3>2 DEF SaidItems
      <4> QED  BY <4>1, One
    <3>3. CASE ~(m.content.form \in {"absent", "null"}) /\ ~AnyBad(content.parts)
      <4>1. PICK x : x = [is |-> "message", role |-> m.role, content |-> content]
        OBVIOUS
      <4>2. a = <<x>>
        BY <2>2, <3>3, <4>1 DEF SaidItems
      <4> QED  BY <4>2, One
    <3> QED  BY <3>1, <3>2, <3>3
  <2>5. IsSeq(a \o b)
    BY <2>3, <2>4, Joined
  <2>6. ii = a \o b
    BY <1>1, <1>3, <2>1, <2>2 DEF ResponsesItems
  <2> QED  BY <1>1, <2>5, <2>6
<1>4. CASE /\ m.role # "tool"
           /\ ~ /\ m.role \in {"system", "developer", "user", "assistant"}
                /\ m.content.form # "absent" \/ m.calls # <<>>
  <2>1. ii = <<Bad>>
    BY <1>1, <1>4 DEF ResponsesItems
  <2> QED  BY <1>1, <2>1, One
<1> QED  BY <1>2, <1>3, <1>4

LEMMA ResultItem ==
  ASSUME NEW m, ChatForm(m), Tidy(m), m.role = "tool"
  PROVE  Vocal("responses", ResponsesItems(m)) /\ Heard("responses", ResponsesItems(m)) = ChatTurn(m)
<1>1. PICK text : text = IF m.content.form = "string" THEN TextOf(m.content) ELSE <<>>
  OBVIOUS
<1>2. PICK x : x = [is |-> "function_call_output", id |-> m.id, text |-> text]
  OBVIOUS
<1>3. x.is = "function_call_output" /\ x.id = m.id /\ x.text = text
  BY <1>2
<1>4. ResponsesItems(m) = <<x>>
  BY <1>1, <1>2 DEF ResponsesItems
<1>5. Turn("responses", x) = ResponsesTurn(x)
  BY DEF Turn
<1>6. ResponsesTurn(x) = Results(m.id, text)
  BY <1>3 DEF ResponsesTurn
<1>7. text = TextOf(m.content)
  <2>1. CASE m.content.form = "string"
    BY <1>1, <2>1
  <2>2. CASE m.content.form # "string"
    <3>1. m.content.parts = <<>>
      BY <2>2 DEF ChatForm, Content, Tidy
    <3> QED  BY <1>1, <2>2, <3>1, TextOfNone
  <2> QED  BY <2>1, <2>2
<1>8. ChatTurn(m) = Results(m.id, TextOf(m.content)) /\ IsSeq(ChatTurn(m))
  BY ChatTurnSays
<1>9. Turn("responses", x) = ChatTurn(m) /\ IsSeq(Turn("responses", x))
  BY <1>5, <1>6, <1>7, <1>8
<1> QED  BY <1>4, <1>9, VoicedOne

LEMMA SpokenItems ==
  ASSUME NEW m, ChatForm(m), Tidy(m), m.role # "tool",
         NEW ii, ii = ResponsesItems(m), ~AnyBad(ii)
  PROVE  Vocal("responses", ii) /\ Heard("responses", ii) = ChatTurn(m)
<1>1. PICK content : content = chat_content_to_responses(m.content, m.role)
  OBVIOUS
<1>2. PICK a, b : a = SaidItems(m, content) /\ b = Each(ToResponsesCall, m.calls)
  OBVIOUS
<1>3. Content(m.content) /\ PlainParts(m.content.parts) /\ IsSeq(m.calls)
  BY DEF ChatForm
<1>4. /\ m.role \in {"system", "developer", "user", "assistant"}
      /\ m.content.form # "absent" \/ m.calls # <<>>
  <2>1. SUFFICES ASSUME ~ /\ m.role \in {"system", "developer", "user", "assistant"}
                          /\ m.content.form # "absent" \/ m.calls # <<>>
                 PROVE  FALSE
    OBVIOUS
  <2>2. ii = <<Bad>>
    BY <2>1 DEF ResponsesItems
  <2> QED  BY <2>2, BadAlone
<1>5. ii = a \o b
  BY <1>1, <1>2, <1>4 DEF ResponsesItems
<1>6. IsSeq(b) /\ Vocal("responses", b) /\ Heard("responses", b) = Concat(Called(m.calls))
  BY <1>2, <1>3, CallItems
<1>7. PICK by : by = Speaker(m.role)
  OBVIOUS
<1>8. ASSUME IsSeq(a) /\ ~AnyBad(a)
      PROVE  Vocal("responses", a) /\ Heard("responses", a) = Spoke(by, m.content.parts)
  <2>1. CASE m.content.form \in {"absent", "null"}
    <3>1. a = <<>> /\ m.content.parts = <<>>
      BY <1>2, <1>3, <2>1 DEF SaidItems, Content
    <3> QED  BY <3>1, VoicedNone, SpokeNone
  <2>2. CASE m.content.form \notin {"absent", "null"}
    <3>1. ~AnyBad(content.parts)
      <4>1. SUFFICES ASSUME AnyBad(content.parts) PROVE FALSE
        OBVIOUS
      <4>2. a = <<Bad>>
        BY <1>2, <2>2, <4>1 DEF SaidItems
      <4> QED  BY <1>8, <4>2, BadAlone
    <3>2. PICK x : x = [is |-> "message", role |-> m.role, content |-> content]
      OBVIOUS
    <3>3. a = <<x>>
      BY <1>2, <2>2, <3>1, <3>2 DEF SaidItems
    <3>4. x.is = "message" /\ x.role = m.role /\ x.content = content
      BY <3>2
    <3>5. PlainParts(content.parts) /\ \A bb : Spoke(bb, content.parts) = Spoke(bb, m.content.parts)
      BY <1>1, <1>3, <3>1, ToResponsesContent
    <3>6. Turn("responses", x) = ResponsesTurn(x)
      BY DEF Turn
    <3>7. ResponsesTurn(x) = Spoke(by, content.parts)
      BY <1>7, <3>4 DEF ResponsesTurn
    <3>8. IsSeq(Spoke(by, content.parts)) /\ Spoke(by, content.parts) = Spoke(by, m.content.parts)
      BY <3>5, SpokeSeq
    <3>9. IsSeq(Turn("responses", x)) /\ Turn("responses", x) = Spoke(by, m.content.parts)
      BY <3>6, <3>7, <3>8
    <3> QED  BY <3>3, <3>9, VoicedOne
  <2> QED  BY <2>1, <2>2
<1>9. IsSeq(a)
  <2>1. CASE m.content.form \in {"absent", "null"}
    BY <1>2, <2>1, Empty DEF SaidItems
  <2>2. CASE m.content.form \notin {"absent", "null"} /\ AnyBad(content.parts)
    <3>1. a = <<Bad>>
      BY <1>2, <2>2 DEF SaidItems
    <3> QED  BY <3>1, One
  <2>3. CASE ~(m.content.form \in {"absent", "null"}) /\ ~AnyBad(content.parts)
    <3>1. PICK x : x = [is |-> "message", role |-> m.role, content |-> content]
      OBVIOUS
    <3>2. a = <<x>>
      BY <1>2, <2>3, <3>1 DEF SaidItems
    <3> QED  BY <3>2, One
  <2> QED  BY <2>1, <2>2, <2>3
<1>10. ~AnyBad(a)
  BY <1>5, <1>6, <1>9, BadJoined
<1>11. Vocal("responses", a) /\ Heard("responses", a) = Spoke(by, m.content.parts)
  BY <1>8, <1>9, <1>10
<1>12. Vocal("responses", a \o b)
  BY <1>6, <1>11, VoicedJoin
<1>13. Heard("responses", a \o b) = Heard("responses", a) \o Heard("responses", b)
  BY <1>6, <1>11, VoicedJoin
<1>14. ChatTurn(m) = Spoke(SpeakerOf(m), m.content.parts) \o Concat(Called(m.calls))
  BY ChatTurnSays
<1>15. SpeakerOf(m) = by
  BY <1>7, Unlabelled DEF Tidy
<1> QED  BY <1>5, <1>6, <1>11, <1>12, <1>13, <1>14, <1>15

LEMMA ResponsesHeard ==
  ASSUME NEW ms, ChatForms(ms), NEW ts, ts = chat_messages_to_responses(ms), ~AnyBad(ts)
  PROVE  /\ IsSeq(ts)
         /\ AllTidy(ms) => Heard("responses", ts) = Concat(Told(ms))
<1>1. IsSeq(ms) /\ DOMAIN ms = 1..Len(ms)
  BY SeqIs DEF ChatForms
<1>2. PICK ss : ss = Each(ResponsesItems, ms)
  OBVIOUS
<1>3. ts = Concat(ss)
  BY <1>2, ResponsesItemsAre
<1>4. /\ DOMAIN ss = DOMAIN ms /\ ss = [i \in DOMAIN ss |-> ss[i]]
      /\ \A i \in DOMAIN ms : ss[i] = ResponsesItems(ms[i])
  BY <1>2 DEF Each
<1>5. \A i \in DOMAIN ms : IsSeq(ss[i])
  BY <1>1, <1>4, ResponsesItemsSeq DEF ChatForms
<1>6. Lists(ss) /\ Len(ss) = Len(ms)
  BY <1>1, <1>4, <1>5, EachLists
<1>7. IsSeq(ts)
  BY <1>3, <1>6, ConcatSeq
<1>8. \A i \in 1..Len(ss) : ~AnyBad(ss[i])
  BY <1>3, <1>6, BadGathered
<1>9. ASSUME AllTidy(ms) PROVE Heard("responses", ts) = Concat(Told(ms))
  <2>1. ASSUME NEW i \in 1..Len(ms)
        PROVE  Vocal("responses", ss[i]) /\ Heard("responses", ss[i]) = ChatTurn(ms[i])
    <3>1. PICK m, ii : /\ m = ms[i] /\ ii = ss[i] /\ ii = ResponsesItems(m)
                       /\ ChatForm(m) /\ ~AnyBad(ii)
      BY <1>1, <1>4, <1>6, <1>8 DEF ChatForms
    <3>2. Tidy(m)
      BY <1>9, <3>1, NotBad DEF AllTidy
    <3>3. CASE m.role = "tool"
      BY <3>1, <3>2, <3>3, ResultItem
    <3>4. CASE m.role # "tool"
      BY <3>1, <3>2, <3>4, SpokenItems
    <3> QED  BY <3>1, <3>3, <3>4
  <2>2. Heard("responses", Concat(ss)) = Concat([i \in DOMAIN ss |-> Heard("responses", ss[i])])
    BY <1>6, <2>1, VoicedConcat
  <2>3. [i \in DOMAIN ss |-> Heard("responses", ss[i])] = Told(ms)
    <3>1. PICK t : t = Told(ms)
      OBVIOUS
    <3>2. DOMAIN t = DOMAIN ms /\ t = [i \in DOMAIN ms |-> ChatTurn(ms[i])]
      BY <3>1 DEF Told, Each
    <3> QED  BY <1>1, <1>4, <2>1, <3>1, <3>2
  <2> QED  BY <1>3, <2>2, <2>3
<1> QED  BY <1>7, <1>9

-----------------------------------------------------------------------------
(* What an upstream takes, as a list of messages grows: one more message   *)
(* that suits it leaves a document it took a document it takes.            *)

LEMMA AppendedIs ==
  ASSUME NEW s, IsSeq(s), NEW x
  PROVE  /\ IsSeq(Append(s, x)) /\ Len(Append(s, x)) = Len(s) + 1 /\ Len(s) \in Nat
         /\ Append(s, x)[Len(s) + 1] = x /\ \A i \in 1..Len(s) : Append(s, x)[i] = s[i]
<1>0. PICK t : t = Append(s, x)
  OBVIOUS
<1>1. t = s \o <<x>> /\ IsSeq(t)
  BY <1>0, Appended
<1>2. PICK y : y = <<x>>
  OBVIOUS
<1>3. IsSeq(y) /\ Len(y) = 1 /\ y[1] = x
  BY <1>2, One
<1>4. Len(t) = Len(s) + Len(y) /\ \A i \in 1..Len(s) : t[i] = s[i]
  BY <1>1, <1>2, <1>3, Joined
<1>5. \A i \in 1..Len(y) : t[Len(s) + i] = y[i]
  BY <1>1, <1>2, <1>3, Joined
<1>6. Len(s) \in Nat
  BY SeqIs
<1> QED  BY <1>0, <1>1, <1>3, <1>4, <1>5, <1>6

(***************************************************************************)
(* A conversation that has been translated and grows by a message.  The    *)
(* picks and the folds grow at their end.                                  *)
LEMMA PickedMore ==
  ASSUME NEW s, IsSeq(s), NEW x, NEW K, NEW J, \A i \in 1..Len(s) : i \in K <=> i \in J
  PROVE  Picked(Append(s, x), J)
           = IF Len(s) + 1 \in J THEN Append(Picked(s, K), x) ELSE Picked(s, K)
<1>0. PICK t : t = Append(s, x)
  OBVIOUS
<1>1. /\ IsSeq(t) /\ Len(t) = Len(s) + 1 /\ Len(s) \in Nat
      /\ t[Len(s) + 1] = x /\ \A i \in 1..Len(s) : t[i] = s[i]
  BY <1>0, AppendedIs
<1>2. PICK last : last = IF Len(s) + 1 \in J THEN <<x>> ELSE <<>>
  OBVIOUS
<1>3. PICK aa, bb, cc : aa = AtPlaces(s, K) /\ bb = <<last>> /\ cc = AtPlaces(t, J)
  OBVIOUS
<1>4. /\ Lists(aa) /\ Len(aa) = Len(s)
      /\ \A i \in 1..Len(s) : aa[i] = IF i \in K THEN <<s[i]>> ELSE <<>>
  BY <1>3, PickedLists
<1>5. /\ Lists(cc) /\ Len(cc) = Len(t)
      /\ \A i \in 1..Len(t) : cc[i] = IF i \in J THEN <<t[i]>> ELSE <<>>
  <2>1. IsSeq(t)
    BY <1>1
  <2>3. \A u : IsSeq(u) => /\ Lists(AtPlaces(u, J)) /\ Len(AtPlaces(u, J)) = Len(u)
          /\ \A i \in 1..Len(u) : AtPlaces(u, J)[i] = IF i \in J THEN <<u[i]>> ELSE <<>>
    BY PickedLists
  <2>2. /\ Lists(AtPlaces(t, J)) /\ Len(AtPlaces(t, J)) = Len(t)
        /\ \A i \in 1..Len(t) : AtPlaces(t, J)[i] = IF i \in J THEN <<t[i]>> ELSE <<>>
    BY <2>1, <2>3
  <2> QED  BY <1>3, <2>2
<1>6. IsSeq(last)
  BY <1>2, One, Empty
<1>7. Lists(bb) /\ Concat(bb) = last /\ IsSeq(bb) /\ Len(bb) = 1 /\ bb[1] = last
  BY <1>3, <1>6, ConcatOne, One
<1>8. cc = aa \o bb
  <2>1. IsSeq(aa) /\ IsSeq(cc)
    BY <1>4, <1>5 DEF Lists
  <2>2. \A i \in 1..Len(aa) : cc[i] = aa[i]
    <3> TAKE i \in 1..Len(aa)
    <3>1. i \in 1..Len(s) /\ i \in 1..Len(t) /\ t[i] = s[i]
      BY <1>1, <1>4
    <3> QED  BY <1>4, <1>5, <3>1
  <2>3. \A i \in 1..Len(bb) : cc[Len(aa) + i] = bb[i]
    <3>1. cc[Len(s) + 1] = last
      <4>1. Len(s) + 1 \in 1..Len(t)
        BY <1>1
      <4> QED  BY <1>1, <1>2, <1>5, <4>1
    <3> QED  BY <1>4, <1>7, <3>1
  <2>4. Len(cc) = Len(aa) + Len(bb)
    BY <1>1, <1>4, <1>5, <1>7
  <2> QED  BY <1>7, <2>1, <2>2, <2>3, <2>4, Fits
<1>9. Concat(cc) = Concat(aa) \o last /\ IsSeq(Concat(aa))
  BY <1>4, <1>7, <1>8, ConcatJoin, ConcatSeq
<1>10. CASE Len(s) + 1 \in J
  BY <1>0, <1>2, <1>3, <1>9, <1>10, Appended DEF Picked
<1>11. CASE Len(s) + 1 \notin J
  BY <1>0, <1>2, <1>3, <1>9, <1>11, Empty DEF Picked
<1> QED  BY <1>10, <1>11

ToTurns(ms) == Folded(convert_openai_message, <<>>, ms)

LEMMA ToTurnsIs ==
  ASSUME NEW ms, Len(ms) \in Nat
  PROVE  \E made : /\ made[0] = <<>>
                   /\ \A n \in 1..Len(ms) :
                        made[n] = convert_openai_message(made[n - 1], ms[n])
                   /\ ToTurns(ms) = made[Len(ms)]
<1> DEFINE Made(before, items) ==
             \E made : /\ made[0] = before
                       /\ \A n \in 1..Len(items) :
                            made[n] = convert_openai_message(made[n - 1], items[n])
                       /\ Folded(convert_openai_message, before, items) = made[Len(items)]
<1>1. \A before, items : Len(items) \in Nat => Made(before, items)
  BY MessagesFolded, Zenon
<1>2. Made(<<>>, ms)
  <2> HIDE DEF Made
  <2> QED  BY <1>1, Zenon
<1>3. PICK made : /\ made[0] = <<>>
                  /\ \A n \in 1..Len(ms) :
                       made[n] = convert_openai_message(made[n - 1], ms[n])
                  /\ Folded(convert_openai_message, <<>>, ms) = made[Len(ms)]
  BY <1>2, Zenon
<1>4. ToTurns(ms) = made[Len(ms)]
  BY <1>3, Zenon DEF ToTurns
<1> QED  BY <1>3, <1>4, Zenon

LEMMA ToTurnsMore ==
  ASSUME NEW ms, IsSeq(ms), NEW m
  PROVE  ToTurns(Append(ms, m)) = convert_openai_message(ToTurns(ms), m)
<1>0. PICK ns : ns = Append(ms, m)
  OBVIOUS
<1>1. /\ IsSeq(ns) /\ Len(ns) = Len(ms) + 1 /\ Len(ms) \in Nat
      /\ ns[Len(ms) + 1] = m /\ \A i \in 1..Len(ms) : ns[i] = ms[i]
  BY <1>0, AppendedIs
<1>2. PICK f : /\ f[0] = <<>>
               /\ \A n \in 1..Len(ms) : f[n] = convert_openai_message(f[n - 1], ms[n])
               /\ ToTurns(ms) = f[Len(ms)]
  BY <1>1, ToTurnsIs
<1>3. Len(ns) \in Nat
  BY <1>1
<1>4. PICK g : /\ g[0] = <<>>
               /\ \A n \in 1..Len(ns) : g[n] = convert_openai_message(g[n - 1], ns[n])
               /\ ToTurns(ns) = g[Len(ns)]
  BY <1>3, ToTurnsIs
<1> DEFINE S == {k \in Nat : k <= Len(ms) => f[k] = g[k]}
<1>5. 0 \in S
  BY <1>2, <1>4
<1>6. ASSUME NEW k \in Nat, k \in S PROVE k + 1 \in S
  <2> SUFFICES ASSUME k + 1 <= Len(ms) PROVE f[k + 1] = g[k + 1]
    OBVIOUS
  <2>1. k + 1 \in 1..Len(ms) /\ k + 1 \in 1..Len(ns) /\ k + 1 - 1 = k
    BY <1>1
  <2>2. f[k] = g[k]
    BY <1>6, <2>1
  <2>3. f[k + 1] = convert_openai_message(f[k], ms[k + 1])
    BY <1>2, <2>1
  <2>4. g[k + 1] = convert_openai_message(g[k], ns[k + 1])
    BY <1>4, <2>1
  <2>5. ns[k + 1] = ms[k + 1]
    BY <1>1, <2>1
  <2> QED  BY <2>2, <2>3, <2>4, <2>5
<1>7. Len(ms) \in S
  <2> HIDE DEF S
  <2>1. Nat \subseteq S
    BY <1>5, <1>6, Induct
  <2> QED  BY <1>1, <2>1
<1>8. g[Len(ns)] = convert_openai_message(g[Len(ms)], m)
  <2>1. Len(ms) + 1 \in 1..Len(ns) /\ Len(ms) + 1 - 1 = Len(ms)
    BY <1>1
  <2>2. g[Len(ms) + 1] = convert_openai_message(g[Len(ms) + 1 - 1], ns[Len(ms) + 1])
    BY <1>4, <2>1
  <2> QED  BY <1>1, <2>1, <2>2
<1> QED  BY <1>0, <1>1, <1>2, <1>4, <1>7, <1>8

Unlabelable(ms) == \A i \in DOMAIN ms : ~Labelled(ms[i])

LEMMA SystemMore ==
  ASSUME NEW ms, IsSeq(ms), NEW m, ~IsSystem(m)
  PROVE  /\ SystemParts(Append(ms, m)) = SystemParts(ms)
         /\ Spoken(Append(ms, m)) = Append(Spoken(ms), m)
         /\ SystemFirst(Append(ms, m)) <=> SystemFirst(ms)
         /\ Unlabelable(Append(ms, m)) <=> Unlabelable(ms)
<1>0. PICK ns : ns = Append(ms, m)
  OBVIOUS
<1>1. /\ IsSeq(ns) /\ Len(ns) = Len(ms) + 1 /\ Len(ms) \in Nat
      /\ ns[Len(ms) + 1] = m /\ \A i \in 1..Len(ms) : ns[i] = ms[i]
  BY <1>0, AppendedIs
<1>2. DOMAIN ns = 1..Len(ms) + 1 /\ DOMAIN ms = 1..Len(ms)
  BY <1>1, SeqIs
<1>3. PICK K, J, A, B : /\ K = Systems(ms) /\ J = Systems(ns)
                        /\ A = DOMAIN ms \ K /\ B = DOMAIN ns \ J
  OBVIOUS
<1>4. \A i \in 1..Len(ms) : (i \in K <=> i \in J) /\ (i \in A <=> i \in B)
  BY <1>1, <1>2, <1>3 DEF Systems
<1>5. Len(ms) + 1 \notin J /\ Len(ms) + 1 \in B
  BY <1>1, <1>2, <1>3 DEF Systems
<1>6. Picked(ns, J) = Picked(ms, K)
  BY <1>0, <1>1, <1>4, <1>5, PickedMore
<1>7. Picked(ns, B) = Append(Picked(ms, A), m)
  BY <1>0, <1>1, <1>4, <1>5, PickedMore
<1>8. /\ SystemParts(ms) = Concat(Each(SystemPart, Picked(ms, Systems(ms))))
      /\ Spoken(ms) = Picked(ms, DOMAIN ms \ Systems(ms))
  BY SystemIs
<1>9. /\ SystemParts(ns) = Concat(Each(SystemPart, Picked(ns, Systems(ns))))
      /\ Spoken(ns) = Picked(ns, DOMAIN ns \ Systems(ns))
  BY SystemIs
<1>10. Spoken(ns) = Append(Spoken(ms), m)
  BY <1>3, <1>7, <1>8, <1>9
<1>11. SystemParts(ns) = SystemParts(ms)
  BY <1>3, <1>6, <1>8, <1>9, Zenon
<1>12. SystemFirst(ns) <=> SystemFirst(ms)
  <2>1. \A i \in DOMAIN ms : i \in DOMAIN ns /\ ns[i] = ms[i]
    BY <1>1, <1>2
  <2>2. \A j \in DOMAIN ns : IsSystem(ns[j]) => j \in DOMAIN ms
    BY <1>1, <1>2
  <2>3. \A i, j \in DOMAIN ns : i < j /\ j \in DOMAIN ms => i \in DOMAIN ms
    BY <1>1, <1>2
  <2>4. ASSUME SystemFirst(ms) PROVE SystemFirst(ns)
    BY <2>1, <2>2, <2>3, <2>4 DEF SystemFirst
  <2>5. ASSUME SystemFirst(ns) PROVE SystemFirst(ms)
    BY <2>1, <2>5 DEF SystemFirst
  <2> QED  BY <2>4, <2>5
<1>13. Unlabelable(ns) <=> Unlabelable(ms)
  <2>1. \A i \in DOMAIN ms : i \in DOMAIN ns /\ ns[i] = ms[i]
    BY <1>1, <1>2
  <2>2. \A i \in DOMAIN ns : i \in DOMAIN ms \/ ns[i] = m
    BY <1>1, <1>2
  <2>3. ~Labelled(m)
    BY Zenon DEF Labelled
  <2> QED  BY <2>1, <2>2, <2>3 DEF Unlabelable
<1> QED  BY <1>0, <1>10, <1>11, <1>12, <1>13

(* What a target takes of the hub's messages.                              *)
TakesAnthropic(ms) ==
  /\ SystemFirst(ms) /\ Unlabelable(ms) /\ ~AnyBad(SystemParts(ms))
  /\ ~AnyBad(ToTurns(Spoken(ms))) /\ ToTurns(Spoken(ms)) # <<>>

TakesGemini(ms) ==
  /\ SystemFirst(ms) /\ ~AnyBad(SystemParts(ms))
  /\ \A i \in DOMAIN Spoken(ms) : chat_message_to_gemini(Spoken(ms)[i]) # Bad

TakesResponses(ms) == \A i \in DOMAIN ms : ~AnyBad(ResponsesItems(ms[i]))

LEMMA AnthropicTakes ==
  ASSUME NEW ms, NEW h, h = convert_openai_messages(ms)
  PROVE  (~AnyBad(h.system) /\ ~AnyBad(h.messages) /\ h.messages # <<>>) <=> TakesAnthropic(ms)
<1>1. /\ h.system = IF \E i \in DOMAIN ms : Labelled(ms[i]) THEN <<Bad>> ELSE SystemParts(ms)
      /\ h.messages = IF ~SystemFirst(ms) THEN <<Bad>> ELSE ToTurns(Spoken(ms))
  BY Zenon DEF convert_openai_messages, ToTurns
<1>2. ASSUME ~AnyBad(h.system), ~AnyBad(h.messages), h.messages # <<>>
      PROVE  TakesAnthropic(ms)
  <2>1. Unlabelable(ms) /\ h.system = SystemParts(ms)
    BY <1>1, <1>2, BadAlone DEF Unlabelable
  <2>2. SystemFirst(ms) /\ h.messages = ToTurns(Spoken(ms))
    BY <1>1, <1>2, BadAlone
  <2> QED  BY <1>2, <2>1, <2>2 DEF TakesAnthropic
<1>3. ASSUME TakesAnthropic(ms)
      PROVE  ~AnyBad(h.system) /\ ~AnyBad(h.messages) /\ h.messages # <<>>
  BY <1>1, <1>3, Zenon DEF TakesAnthropic, Unlabelable
<1> QED  BY <1>2, <1>3

LEMMA GeminiTakes ==
  ASSUME NEW ms, NEW h, h = chat_messages_to_gemini(ms)
  PROVE  (~AnyBad(h.system) /\ ~AnyBad(h.contents)) <=> TakesGemini(ms)
<1>1. /\ h.system = SystemParts(ms)
      /\ h.contents = IF ~SystemFirst(ms) THEN <<Bad>>
                        ELSE Each(chat_message_to_gemini, Spoken(ms))
  BY Zenon DEF chat_messages_to_gemini
<1>2. CASE ~SystemFirst(ms)
  BY <1>1, <1>2, BadAlone DEF TakesGemini
<1>3. CASE SystemFirst(ms)
  <2>1. PICK ss : ss = Spoken(ms)
    OBVIOUS
  <2>2. h.contents = [i \in DOMAIN ss |-> chat_message_to_gemini(ss[i])]
    BY <1>1, <1>3, <2>1, Zenon DEF Each
  <2>3. AnyBad(h.contents) <=> \E i \in DOMAIN ss : chat_message_to_gemini(ss[i]) = Bad
    BY <2>2 DEF AnyBad
  <2> QED  BY <1>1, <1>3, <2>1, <2>3 DEF TakesGemini
<1> QED  BY <1>2, <1>3

LEMMA ResponsesTakes ==
  ASSUME NEW ms, ChatForms(ms), NEW ts, ts = chat_messages_to_responses(ms)
  PROVE  ~AnyBad(ts) <=> TakesResponses(ms)
<1>1. PICK ss : ss = Each(ResponsesItems, ms)
  OBVIOUS
<1>2. ts = Concat(ss)
  BY <1>1, ResponsesItemsAre
<1>3. IsSeq(ms) /\ DOMAIN ms = 1..Len(ms) /\ \A i \in 1..Len(ms) : ChatForm(ms[i])
  BY SeqIs DEF ChatForms
<1>4. DOMAIN ss = DOMAIN ms /\ ss = [i \in DOMAIN ss |-> ss[i]]
      /\ \A i \in DOMAIN ms : ss[i] = ResponsesItems(ms[i])
  BY <1>1, Zenon DEF Each
<1>5. \A i \in DOMAIN ms : IsSeq(ss[i])
  BY <1>3, <1>4, ResponsesItemsSeq
<1>6. Lists(ss) /\ Len(ss) = Len(ms)
  BY <1>3, <1>4, <1>5, EachLists
<1>7. ASSUME ~AnyBad(ts) PROVE TakesResponses(ms)
  BY <1>2, <1>3, <1>4, <1>6, <1>7, BadGathered DEF TakesResponses
<1>8. ASSUME TakesResponses(ms) PROVE ~AnyBad(ts)
  <2> DEFINE T == UNION {{ss[i][j] : j \in 1..Len(ss[i])} : i \in 1..Len(ss)}
             U == T \ {Bad}
  <2>1. \A i \in 1..Len(ss) : \A j \in 1..Len(ss[i]) : ss[i][j] \in U
    <3> TAKE i \in 1..Len(ss)
    <3> TAKE j \in 1..Len(ss[i])
    <3>1. ~AnyBad(ss[i]) /\ IsSeq(ss[i])
      BY <1>3, <1>4, <1>5, <1>6, <1>8 DEF TakesResponses
    <3>2. ss[i][j] # Bad
      BY <3>1, BadPart
    <3> QED  BY <3>2
  <2> HIDE DEF T
  <2>2. \A j \in 1..Len(ts) : ts[j] \in U
    <3> HIDE DEF U
    <3> QED  BY <1>2, <1>6, <2>1, Gathered
  <2>3. IsSeq(ts)
    BY <1>2, <1>6, ConcatSeq
  <2> QED  BY <2>2, <2>3, BadPart
<1> QED  BY <1>7, <1>8

LEMMA Nonempty ==
  ASSUME NEW s, IsSeq(s), NEW x
  PROVE  Append(s, x) # <<>>
<1>0. PICK t : t = Append(s, x)
  OBVIOUS
<1>1. IsSeq(t) /\ Len(t) = Len(s) + 1 /\ Len(s) \in Nat
  BY <1>0, AppendedIs
<1>2. Len(t) # 0
  BY <1>1
<1> QED  BY <1>0, <1>1, <1>2, Empty

LEMMA LastGrown ==
  ASSUME NEW s, IsSeq(s), s # <<>>
  PROVE  IsSeq(Front(s)) /\ s = Append(Front(s), Last(s)) /\ Last(s) = s[Len(s)]
<1>1. IsSeq(Front(s)) /\ s = Front(s) \o <<Last(s)>> /\ Last(s) = s[Len(s)]
  BY ButLast
<1>2. \A t, x : IsSeq(t) => Append(t, x) = t \o <<x>>
  BY Appended
<1> QED  BY <1>1, <1>2

LEMMA PushedGood ==
  ASSUME NEW ts, AnthropicTurns(ts), Alternates(ts), NEW role \in {"user", "assistant"},
         NEW c, PlainParts(c.parts), NEW ns, ns = push_anthropic_message(ts, role, c)
  PROVE  ~AnyBad(ns) /\ ns # <<>>
<1>1. AnthropicTurns(ns)
  BY Pushed
<1>2. ~AnyBad(ns)
  BY <1>1, AnthropicVocal
<1>3. ns # <<>>
  <2>1. IsSeq(ts)
    BY DEF AnthropicTurns
  <2>2. CASE ts # <<>> /\ Last(ts).role = role
    <3>1. IsSeq(Front(ts))
      BY <2>1, <2>2, ButLast
    <3>2. \E x : ns = Append(Front(ts), x)
      BY <2>2, Zenon DEF push_anthropic_message, Merge
    <3> QED  BY <3>1, <3>2, Nonempty
  <2>3. CASE ~(ts # <<>> /\ Last(ts).role = role)
    <3>2. \E x : ns = Append(ts, x)
      BY <2>3, Zenon DEF push_anthropic_message, Merge
    <3> QED  BY <2>1, <3>2, Nonempty
  <2> QED  BY <2>2, <2>3
<1> QED  BY <1>2, <1>3

(* What Anthropic's turns take: a result of texts, or words and calls of   *)
(* the assistant.                                                          *)
SaidHere(m) == SaidParts(m, openai_content_to_anthropic(m.content, FALSE))
SuitsAnthropic(m) ==
  \/ m.role = "tool" /\ ~AnyBad(openai_content_to_anthropic(m.content, TRUE).parts)
  \/ m.role = "assistant" /\ m.name = "" /\ SaidHere(m) # <<>> /\ ~AnyBad(SaidHere(m))

LEMMA SaidIsSeq ==
  ASSUME NEW m, ChatForm(m)
  PROVE  IsSeq(SaidHere(m)) /\ (~AnyBad(SaidHere(m)) => PlainParts(SaidHere(m)))
<1>1. Content(m.content) /\ PlainParts(m.content.parts) /\ IsSeq(m.calls)
  BY DEF ChatForm
<1>2. PICK c : c = openai_content_to_anthropic(m.content, FALSE)
  OBVIOUS
<1>3. PICK spoken : spoken = IF m.content = Str(<<>>) THEN <<>> ELSE c.parts
  OBVIOUS
<1>4. PICK uses : uses = convert_openai_tool_calls(m.calls)
  OBVIOUS
<1>5. SaidHere(m) = spoken \o uses
  BY <1>2, <1>3, <1>4 DEF SaidParts, SaidHere
<1>6. IsSeq(c.parts) /\ IsSeq(spoken)
  BY <1>1, <1>2, <1>3, PartsMapped, Empty
<1>7. IsSeq(uses)
  <2>1. DOMAIN uses = DOMAIN m.calls /\ uses = [i \in DOMAIN uses |-> uses[i]]
    BY <1>4 DEF convert_openai_tool_calls, Each
  <2> QED  BY <1>1, <2>1, Imaged
<1>8. PICK parts : parts = spoken \o uses
  OBVIOUS
<1>9. IsSeq(parts)
  BY <1>6, <1>7, <1>8, Joined
<1>10. ASSUME ~AnyBad(parts) PROVE PlainParts(parts)
  <2>1. ~AnyBad(spoken) /\ ~AnyBad(uses)
    BY <1>6, <1>7, <1>8, <1>10, BadJoined
  <2>2. PlainParts(spoken)
    <3>1. PlainParts(<<>>)
      BY AbsentSays
    <3>2. CASE m.content = Str(<<>>)
      BY <1>3, <3>1, <3>2
    <3>3. CASE m.content # Str(<<>>)
      BY <1>1, <1>2, <1>3, <2>1, <3>3, ContentOutside
    <3> QED  BY <3>2, <3>3
  <2>3. PlainParts(uses)
    BY <1>1, <1>4, <2>1, CallsToUses
  <2> QED  BY <1>8, <2>2, <2>3, PartsJoined
<1> QED  BY <1>5, <1>8, <1>9, <1>10

LEMMA SaidPushed ==
  ASSUME NEW m, ChatForm(m), NEW parts, parts = SaidHere(m),
         NEW d, d = IF m.calls = <<>> THEN collapse_text_parts(parts) ELSE Parts(parts)
  PROVE  (~AnyBad(d.parts) <=> ~AnyBad(parts)) /\ (~AnyBad(parts) => PlainParts(d.parts))
<1>1. IsSeq(parts) /\ (~AnyBad(parts) => PlainParts(parts))
  BY SaidIsSeq
<1>2. CASE m.calls = <<>> /\ Len(parts) = 1 /\ parts[1].is = "text"
  <2>1. d.parts = <<[is |-> "text", text |-> parts[1].text]>>
    BY <1>2 DEF collapse_text_parts, Str
  <2>2. ~AnyBad(parts)
    BY <1>1, <1>2, TextAlone
  <2>3. PICK p : p = [is |-> "text", text |-> parts[1].text]
    OBVIOUS
  <2>4. IsSeq(d.parts) /\ Len(d.parts) = 1 /\ d.parts[1].is = "text"
    <3>1. d.parts = <<p>> /\ p.is = "text"
      BY <2>1, <2>3
    <3> QED  BY <3>1, One
  <2>5. ~AnyBad(d.parts)
    BY <2>4, TextAlone
  <2>6. PlainParts(d.parts)
    <3>1. d = collapse_text_parts(parts)
      BY <1>2
    <3> QED  BY <1>1, <2>2, <3>1, Collapsed
  <2> QED  BY <2>2, <2>5, <2>6
<1>3. CASE ~(m.calls = <<>> /\ Len(parts) = 1 /\ parts[1].is = "text")
  <2>1. d.parts = parts
    BY <1>3 DEF collapse_text_parts, Parts
  <2> QED  BY <1>1, <2>1
<1> QED  BY <1>2, <1>3

(* What convert_openai_message makes of turns that have no error is        *)
(* without error when the message suits Anthropic.                         *)
LEMMA AnthropicSuits ==
  ASSUME NEW ts, AnthropicTurns(ts), Alternates(ts), NEW m, ChatForm(m), SuitsAnthropic(m),
         NEW ns, ns = convert_openai_message(ts, m)
  PROVE  ~AnyBad(ns) /\ ns # <<>>
<1>1. ~AnyBad(ts)
  BY AnthropicVocal
<1>2. CASE m.role = "tool" /\ ~AnyBad(openai_content_to_anthropic(m.content, TRUE).parts)
  <2>1. PICK c : c = openai_content_to_anthropic(m.content, m.role = "tool")
    OBVIOUS
  <2>2. c = openai_content_to_anthropic(m.content, TRUE)
    BY <1>2, <2>1
  <2>3. PICK p : p = [is |-> "tool_result", id |-> m.id, error |-> FALSE,
                      content |-> IF m.content \in {Absent, Null} THEN Str(<<>>) ELSE c]
    OBVIOUS
  <2>4. PICK d : d = Parts(<<p>>)
    OBVIOUS
  <2>5. d.parts = <<p>> /\ p.is = "tool_result"
    BY <2>3, <2>4, PartsContent
  <2>6. PlainForm(p)
    BY <2>5 DEF PlainForm
  <2>7. PlainParts(d.parts) /\ ~AnyBad(d.parts)
    <3>1. PlainParts(<<p>>)
      BY <2>6, SpokeOne
    <3>2. IsSeq(<<p>>) /\ Len(<<p>>) = 1 /\ <<p>>[1] = p
      BY One
    <3>3. p # Bad
      BY <2>5 DEF Bad
    <3> QED  BY <2>5, <3>1, <3>2, <3>3, BadPart
  <2>8. ns = AnthropicStep(ts, m, c, SaidParts(m, c))
    BY <2>1, AnthropicStepIs
  <2>9. ns = PushedOr(ts, "user", d)
    BY <1>1, <1>2, <2>2, <2>3, <2>4, <2>8, Zenon DEF AnthropicStep
  <2>10. ns = push_anthropic_message(ts, "user", d)
    BY <2>7, <2>9 DEF PushedOr
  <2> QED  BY <2>7, <2>10, PushedGood
<1>3. CASE m.role = "assistant" /\ m.name = "" /\ SaidHere(m) # <<>> /\ ~AnyBad(SaidHere(m))
  <2>1. PICK c : c = openai_content_to_anthropic(m.content, m.role = "tool")
    OBVIOUS
  <2>2. PICK parts : parts = SaidParts(m, c)
    OBVIOUS
  <2>3. parts = SaidHere(m)
    <3>1. (m.role = "tool") = FALSE
      BY <1>3
    <3> QED  BY <2>1, <2>2, <3>1 DEF SaidHere
  <2>4. PICK d : d = IF m.calls = <<>> THEN collapse_text_parts(parts) ELSE Parts(parts)
    OBVIOUS
  <2>5. ~AnyBad(d.parts) /\ PlainParts(d.parts)
    BY <1>3, <2>3, <2>4, SaidPushed
  <2>6. ns = AnthropicStep(ts, m, c, SaidParts(m, c))
    BY <2>1, AnthropicStepIs
  <2>7. ns = PushedOr(ts, "assistant", d)
    BY <1>1, <1>3, <2>2, <2>3, <2>4, <2>6, Zenon DEF AnthropicStep
  <2>8. ns = push_anthropic_message(ts, "assistant", d)
    BY <2>5, <2>7 DEF PushedOr
  <2> QED  BY <2>5, <2>8, PushedGood
<1> QED  BY <1>2, <1>3 DEF SuitsAnthropic

(* What convert_openai_message has taken of an assistant suits Anthropic.  *)
LEMMA AnthropicTook ==
  ASSUME NEW ts, AnthropicTurns(ts), NEW m, ChatForm(m), m.role = "assistant",
         ~AnyBad(convert_openai_message(ts, m))
  PROVE  SuitsAnthropic(m)
<1>1. ~AnyBad(ts) /\ IsSeq(ts)
  BY AnthropicVocal DEF AnthropicTurns
<1>2. PICK c : c = openai_content_to_anthropic(m.content, m.role = "tool")
  OBVIOUS
<1>3. PICK parts : parts = SaidParts(m, c)
  OBVIOUS
<1>4. parts = SaidHere(m)
  <2>1. (m.role = "tool") = FALSE
    OBVIOUS
  <2> QED  BY <1>2, <1>3, <2>1 DEF SaidHere
<1>5. PICK ns : ns = convert_openai_message(ts, m)
  OBVIOUS
<1>6. ns = AnthropicStep(ts, m, c, SaidParts(m, c))
  BY <1>2, <1>5, AnthropicStepIs
<1>7. AnyBad(Append(ts, Bad))
  <2>1. PICK t : t = Append(ts, Bad)
    OBVIOUS
  <2>2. IsSeq(t) /\ Len(t) = Len(ts) + 1 /\ Len(ts) \in Nat /\ t[Len(ts) + 1] = Bad
    BY <1>1, <2>1, AppendedIs
  <2>3. Len(ts) + 1 \in 1..Len(t)
    BY <2>2
  <2> QED  BY <2>1, <2>2, <2>3, BadPart
<1>8. m.name = "" /\ parts # <<>>
  <2>1. SUFFICES ASSUME ~(m.name = "" /\ parts # <<>>) PROVE FALSE
    OBVIOUS
  <2>2. m.role # "user" /\ m.role # "tool"
    OBVIOUS
  <2>3. ns = Append(ts, Bad)
    BY <1>1, <1>3, <1>6, <2>1, <2>2, Zenon DEF AnthropicStep
  <2> QED  BY <1>5, <1>7, <2>3
<1>9. ~AnyBad(parts)
  <2>1. PICK d : d = IF m.calls = <<>> THEN collapse_text_parts(parts) ELSE Parts(parts)
    OBVIOUS
  <2>2. m.role # "user" /\ m.role # "tool"
    OBVIOUS
  <2>3. ns = PushedOr(ts, "assistant", d)
    BY <1>1, <1>3, <1>6, <1>8, <2>1, <2>2, Zenon DEF AnthropicStep
  <2>4. ~AnyBad(d.parts)
    <3>1. SUFFICES ASSUME AnyBad(d.parts) PROVE FALSE
      OBVIOUS
    <3>2. ns = Append(ts, Bad)
      BY <2>3, <3>1, Zenon DEF PushedOr
    <3> QED  BY <1>5, <1>7, <3>2
  <2> QED  BY <1>4, <2>1, <2>4, SaidPushed
<1> QED  BY <1>4, <1>8, <1>9, Zenon DEF SuitsAnthropic

LEMMA GoodJoined ==
  ASSUME NEW s, NEW t, IsSeq(s), IsSeq(t), ~AnyBad(s), ~AnyBad(t)
  PROVE  IsSeq(s \o t) /\ ~AnyBad(s \o t)
<1>1. PICK T : T = ({s[i] : i \in 1..Len(s)} \cup {t[i] : i \in 1..Len(t)}) \ {Bad}
  OBVIOUS
<1>2. \A i \in 1..Len(s) : s[i] \in T
  BY <1>1, BadPart
<1>3. \A i \in 1..Len(t) : t[i] \in T
  BY <1>1, BadPart
<1>4. PICK r : r = s \o t
  OBVIOUS
<1>5. IsSeq(r)
  BY <1>4, Joined
<1>6. \A i \in 1..Len(s \o t) : (s \o t)[i] \in T
  BY <1>2, <1>3, JoinedItems
<1>7. \A i \in 1..Len(r) : r[i] # Bad
  BY <1>1, <1>4, <1>6
<1> QED  BY <1>4, <1>5, <1>7, BadPart

LEMMA SpokenForms ==
  ASSUME NEW ms, ChatForms(ms)
  PROVE  /\ ChatForms(Spoken(ms))
         /\ ~AnyBad(ToTurns(Spoken(ms))) =>
              AnthropicTurns(ToTurns(Spoken(ms))) /\ Alternates(ToTurns(Spoken(ms)))
<1>1. PICK ss : ss = Spoken(ms)
  OBVIOUS
<1>2. \A K : ChatForms(Picked(ms, K))
  BY ToldPicked
<1>3. ss = Picked(ms, DOMAIN ms \ Systems(ms))
  BY <1>1, SystemIs
<1>4. ChatForms(ss)
  BY <1>2, <1>3
<1>5. Tracks(ToTurns(ss), Concat(Told(ss)))
  <2>1. \A ns : ChatForms(ns) => Tracks(ToTurns(ns), Concat(Told(ns)))
    BY MessagesTracked, Zenon DEF ToTurns
  <2> QED  BY <1>4, <2>1
<1> QED  BY <1>1, <1>4, <1>5 DEF Tracks

(* What suits a dialect, when it is said next, and what it takes.          *)
Suits(u, m) ==
  /\ ChatForm(m) /\ ~IsSystem(m)
  /\ u = "responses" => ~AnyBad(ResponsesItems(m))
  /\ u = "anthropic" => SuitsAnthropic(m)
  /\ u = "gemini" => chat_message_to_gemini(m) # Bad

Takes(u, ms) ==
  /\ ChatForms(ms)
  /\ u = "responses" => TakesResponses(ms)
  /\ u = "anthropic" => TakesAnthropic(ms)
  /\ u = "gemini" => TakesGemini(ms)

LEMMA FormsMore ==
  ASSUME NEW ms, ChatForms(ms), NEW m, ChatForm(m)
  PROVE  ChatForms(Append(ms, m))
<1>0. PICK ns : ns = Append(ms, m)
  OBVIOUS
<1>1. IsSeq(ms)
  BY DEF ChatForms
<1>2. /\ IsSeq(ns) /\ Len(ns) = Len(ms) + 1 /\ Len(ms) \in Nat
      /\ ns[Len(ms) + 1] = m /\ \A i \in 1..Len(ms) : ns[i] = ms[i]
  BY <1>0, <1>1, AppendedIs
<1>3. \A i \in 1..Len(ns) : i \in 1..Len(ms) \/ i = Len(ms) + 1
  BY <1>2
<1>4. ChatForms(ns)
  BY <1>2, <1>3 DEF ChatForms
<1> QED  BY <1>0, <1>4

(* An upstream that takes a document takes it with one more message that   *)
(* suits it.                                                               *)
LEMMA TakesMore ==
  ASSUME NEW u, NEW ms, Takes(u, ms), NEW m, Suits(u, m)
  PROVE  Takes(u, Append(ms, m))
<1>0. PICK ns : ns = Append(ms, m)
  OBVIOUS
<1>1. ChatForms(ms) /\ IsSeq(ms) /\ ChatForm(m) /\ ~IsSystem(m)
  BY DEF Takes, Suits, ChatForms
<1>2. /\ IsSeq(ns) /\ Len(ns) = Len(ms) + 1 /\ Len(ms) \in Nat
      /\ ns[Len(ms) + 1] = m /\ \A i \in 1..Len(ms) : ns[i] = ms[i]
  BY <1>0, <1>1, AppendedIs
<1>3. DOMAIN ns = 1..Len(ms) + 1 /\ DOMAIN ms = 1..Len(ms)
  BY <1>1, <1>2, SeqIs
<1>4. ChatForms(ns)
  BY <1>0, <1>1, FormsMore
<1>5. /\ SystemParts(ns) = SystemParts(ms)
      /\ Spoken(ns) = Append(Spoken(ms), m)
      /\ SystemFirst(ns) <=> SystemFirst(ms)
      /\ Unlabelable(ns) <=> Unlabelable(ms)
  BY <1>0, <1>1, SystemMore
<1>6. PICK ss : ss = Spoken(ms)
  OBVIOUS
<1>7. ChatForms(ss) /\ IsSeq(ss) /\ Spoken(ns) = Append(ss, m)
  BY <1>1, <1>5, <1>6, SpokenForms DEF ChatForms
<1>8. ASSUME u = "responses" PROVE TakesResponses(ns)
  BY <1>2, <1>3, <1>8 DEF Takes, Suits, TakesResponses
<1>9. ASSUME u = "anthropic" PROVE TakesAnthropic(ns)
  <2>1. TakesAnthropic(ms) /\ SuitsAnthropic(m)
    BY <1>9 DEF Takes, Suits
  <2>2. PICK ts : ts = ToTurns(ss)
    OBVIOUS
  <2>3. ~AnyBad(ts) /\ AnthropicTurns(ts) /\ Alternates(ts)
    BY <1>1, <1>6, <2>1, <2>2, SpokenForms DEF TakesAnthropic
  <2>4. ToTurns(Append(ss, m)) = convert_openai_message(ts, m)
    BY <1>7, <2>2, ToTurnsMore
  <2>5. PICK xs : xs = convert_openai_message(ts, m)
    OBVIOUS
  <2>6. ~AnyBad(xs) /\ xs # <<>>
    BY <1>1, <2>1, <2>3, <2>5, AnthropicSuits
  <2>7. ToTurns(Spoken(ns)) = xs
    BY <1>7, <2>4, <2>5
  <2> QED  BY <1>5, <2>1, <2>6, <2>7, Zenon DEF TakesAnthropic
<1>10. ASSUME u = "gemini" PROVE TakesGemini(ns)
  <2>1. TakesGemini(ms) /\ chat_message_to_gemini(m) # Bad
    BY <1>10 DEF Takes, Suits
  <2>2. PICK ps : ps = Spoken(ns)
    OBVIOUS
  <2>3. /\ IsSeq(ps) /\ Len(ps) = Len(ss) + 1 /\ Len(ss) \in Nat
        /\ ps[Len(ss) + 1] = m /\ \A i \in 1..Len(ss) : ps[i] = ss[i]
    BY <1>7, <2>2, AppendedIs
  <2>4. DOMAIN ps = 1..Len(ss) + 1 /\ DOMAIN ss = 1..Len(ss)
    BY <1>7, <2>3, SeqIs
  <2>5. \A i \in DOMAIN ps : chat_message_to_gemini(ps[i]) # Bad
    <3>1. \A i \in DOMAIN ss : chat_message_to_gemini(ss[i]) # Bad
      BY <1>6, <2>1 DEF TakesGemini
    <3> TAKE i \in DOMAIN ps
    <3>2. CASE i \in 1..Len(ss)
      <4>1. ps[i] = ss[i] /\ i \in DOMAIN ss
        BY <2>3, <2>4, <3>2
      <4> QED  BY <3>1, <4>1
    <3>3. CASE i \notin 1..Len(ss)
      <4>1. i = Len(ss) + 1
        BY <2>3, <2>4, <3>3
      <4>2. ps[i] = m
        BY <2>3, <4>1
      <4> QED  BY <2>1, <4>2
    <3> QED  BY <3>2, <3>3
  <2> QED  BY <1>5, <2>1, <2>2, <2>5 DEF TakesGemini
<1>11. Takes(u, ns)
  BY <1>4, <1>8, <1>9, <1>10 DEF Takes
<1> QED  BY <1>0, <1>11

(* An upstream that takes a document takes it with any number of such      *)
(* messages.                                                               *)
LEMMA TakesAll ==
  ASSUME NEW u, NEW ms, Takes(u, ms), NEW ns, IsSeq(ns), \A i \in 1..Len(ns) : Suits(u, ns[i])
  PROVE  Takes(u, ms \o ns)
<1> DEFINE Good(s) == IsSeq(s) /\ \A i \in 1..Len(s) : Suits(u, s[i])
           S == {n \in Nat : \A s : Good(s) /\ Len(s) = n => Takes(u, ms \o s)}
<1>0. IsSeq(ms)
  BY DEF Takes, ChatForms
<1>1. 0 \in S
  <2>1. ASSUME NEW s, Good(s), Len(s) = 0 PROVE Takes(u, ms \o s)
    <3>1. ms \o <<>> = ms
      BY <1>0, Empty
    <3>2. s = <<>>
      BY <2>1, Empty
    <3> QED  BY <3>1, <3>2
  <2> HIDE DEF Good
  <2> QED  BY <2>1
<1>2. ASSUME NEW n \in Nat, n \in S PROVE n + 1 \in S
  <2>1. ASSUME NEW s, Good(s), Len(s) = n + 1 PROVE Takes(u, ms \o s)
    <3>1. s # <<>>
      <4>1. Len(s) # 0
        BY <2>1
      <4> QED  BY <4>1, Empty
    <3>2. PICK t, x : t = Front(s) /\ x = Last(s)
      OBVIOUS
    <3>3. /\ IsSeq(t) /\ s = t \o <<x>> /\ Len(t) = Len(s) - 1 /\ x = s[Len(s)]
          /\ \A i \in 1..Len(s) - 1 : t[i] = s[i]
      BY <2>1, <3>1, <3>2, ButLast
    <3>4. Len(t) = n /\ Len(s) \in 1..Len(s) /\ \A i \in 1..Len(t) : i \in 1..Len(s) /\ t[i] = s[i]
      BY <2>1, <3>3
    <3>5. Good(t) /\ Suits(u, x)
      BY <2>1, <3>3, <3>4
    <3>6. Takes(u, ms \o t)
      <4> HIDE DEF Good
      <4> QED  BY <1>2, <3>4, <3>5
    <3>7. PICK r : r = ms \o t
      OBVIOUS
    <3>8. IsSeq(r)
      BY <1>0, <3>3, <3>7, Joined
    <3>9. Takes(u, Append(r, x))
      BY <3>5, <3>6, <3>7, TakesMore
    <3>10. Append(r, x) = r \o <<x>>
      BY <3>8, Appended
    <3>11. (ms \o t) \o <<x>> = ms \o (t \o <<x>>)
      <4>1. PICK y : y = <<x>>
        OBVIOUS
      <4>2. IsSeq(y)
        BY <4>1, One
      <4>3. (ms \o t) \o y = ms \o (t \o y)
        BY <1>0, <3>3, <4>2, Associates
      <4> QED  BY <4>1, <4>3
    <3> QED  BY <3>3, <3>7, <3>9, <3>10, <3>11
  <2> HIDE DEF Good
  <2> QED  BY <2>1
<1>3. Len(ns) \in S
  <2> HIDE DEF S
  <2>1. Nat \subseteq S
    BY <1>1, <1>2, Induct
  <2> QED  BY <2>1, SeqIs
<1>4. Good(ns)
  OBVIOUS
<1> HIDE DEF Good
<1> QED  BY <1>3, <1>4

LEMMA JoinedNone ==
  ASSUME NEW s, NEW t, IsSeq(s), IsSeq(t)
  PROVE  s \o t = <<>> <=> s = <<>> /\ t = <<>>
<1>1. PICK r : r = s \o t
  OBVIOUS
<1>2. IsSeq(r) /\ Len(r) = Len(s) + Len(t)
  BY <1>1, Joined
<1>3. Len(s) \in Nat /\ Len(t) \in Nat
  BY SeqIs
<1>4. Len(r) = 0 <=> Len(s) = 0 /\ Len(t) = 0
  BY <1>2, <1>3
<1> QED  BY <1>1, <1>2, <1>4, Empty

(* Calls whose arguments are objects are the ones that cross.              *)
ObjectCalls(calls) == \A i \in DOMAIN calls : calls[i].args = "object"

LEMMA UsesGood ==
  ASSUME NEW calls, IsSeq(calls), NEW uu, uu = convert_openai_tool_calls(calls)
  PROVE  /\ IsSeq(uu) /\ Len(uu) = Len(calls)
         /\ ~AnyBad(uu) <=> ObjectCalls(calls)
<1>1. /\ DOMAIN uu = DOMAIN calls /\ uu = [i \in DOMAIN uu |-> uu[i]]
      /\ \A i \in DOMAIN calls :
           uu[i] = IF calls[i].args # "object" THEN Bad
                     ELSE [is |-> "tool_use", id |-> calls[i].id, name |-> calls[i].name,
                           args |-> calls[i].args]
  BY DEF convert_openai_tool_calls, Each
<1>2. IsSeq(uu) /\ Len(uu) = Len(calls)
  BY <1>1, Imaged
<1>3. \A i \in DOMAIN calls : uu[i] = Bad <=> calls[i].args # "object"
  <2> TAKE i \in DOMAIN calls
  <2>1. PICK p : p = [is |-> "tool_use", id |-> calls[i].id, name |-> calls[i].name,
                      args |-> calls[i].args]
    OBVIOUS
  <2>2. p # Bad
    <3>1. p.is = "tool_use"
      BY <2>1
    <3> QED  BY <3>1 DEF Bad
  <2> QED  BY <1>1, <2>1, <2>2
<1> QED  BY <1>1, <1>2, <1>3 DEF AnyBad, ObjectCalls

LEMMA GeminiCallsGood ==
  ASSUME NEW calls, IsSeq(calls), NEW uu, uu = Each(ToGeminiCall, calls)
  PROVE  /\ IsSeq(uu) /\ Len(uu) = Len(calls)
         /\ ~AnyBad(uu) <=> ObjectCalls(calls)
<1>1. /\ DOMAIN uu = DOMAIN calls /\ uu = [i \in DOMAIN uu |-> uu[i]]
      /\ \A i \in DOMAIN calls : uu[i] = ToGeminiCall(calls[i])
  BY DEF Each
<1>2. IsSeq(uu) /\ Len(uu) = Len(calls)
  BY <1>1, Imaged
<1>3. \A i \in DOMAIN calls : uu[i] = Bad <=> calls[i].args # "object"
  <2> TAKE i \in DOMAIN calls
  <2>1. PICK p : p = [is |-> "functionCall", id |-> calls[i].id, name |-> calls[i].name,
                      args |-> calls[i].args]
    OBVIOUS
  <2>2. p # Bad
    <3>1. p.is = "functionCall"
      BY <2>1
    <3> QED  BY <3>1 DEF Bad
  <2>3. uu[i] = IF calls[i].args # "object" THEN Bad ELSE p
    BY <1>1, <2>1 DEF ToGeminiCall
  <2> QED  BY <2>2, <2>3
<1> QED  BY <1>1, <1>2, <1>3 DEF AnyBad, ObjectCalls

LEMMA ResponsesCallsGood ==
  ASSUME NEW calls, IsSeq(calls), NEW uu, uu = Each(ToResponsesCall, calls)
  PROVE  IsSeq(uu) /\ Len(uu) = Len(calls) /\ ~AnyBad(uu)
<1>1. /\ DOMAIN uu = DOMAIN calls /\ uu = [i \in DOMAIN uu |-> uu[i]]
      /\ \A i \in DOMAIN calls : uu[i] = ToResponsesCall(calls[i])
  BY DEF Each
<1>2. IsSeq(uu) /\ Len(uu) = Len(calls)
  BY <1>1, Imaged
<1>3. \A i \in DOMAIN calls : uu[i] # Bad
  <2> TAKE i \in DOMAIN calls
  <2>1. PICK p : p = [is |-> "function_call", id |-> calls[i].id, name |-> calls[i].name,
                      args |-> calls[i].args]
    OBVIOUS
  <2>2. p # Bad
    <3>1. p.is = "function_call"
      BY <2>1
    <3> QED  BY <3>1 DEF Bad
  <2> QED  BY <1>1, <2>1, <2>2 DEF ToResponsesCall
<1> QED  BY <1>1, <1>2, <1>3 DEF AnyBad

LEMMA CallsMore ==
  ASSUME NEW calls, IsSeq(calls), NEW call, NEW more, more = Append(calls, call)
  PROVE  /\ IsSeq(more) /\ more # <<>>
         /\ ObjectCalls(more) <=> ObjectCalls(calls) /\ call.args = "object"
<1>1. /\ IsSeq(more) /\ Len(more) = Len(calls) + 1 /\ Len(calls) \in Nat
      /\ more[Len(calls) + 1] = call /\ \A i \in 1..Len(calls) : more[i] = calls[i]
  BY AppendedIs
<1>2. DOMAIN more = 1..Len(calls) + 1 /\ DOMAIN calls = 1..Len(calls)
  BY <1>1, SeqIs
<1>3. more # <<>>
  BY Nonempty
<1>4. ASSUME ObjectCalls(more) PROVE ObjectCalls(calls) /\ call.args = "object"
  <2>1. \A i \in 1..Len(calls) : calls[i].args = "object"
    BY <1>1, <1>2, <1>4 DEF ObjectCalls
  <2>2. Len(calls) + 1 \in DOMAIN more
    BY <1>1, <1>2
  <2> QED  BY <1>1, <1>2, <1>4, <2>1, <2>2 DEF ObjectCalls
<1>5. ASSUME ObjectCalls(calls), call.args = "object" PROVE ObjectCalls(more)
  <2>1. \A i \in DOMAIN more : i \in DOMAIN calls \/ i = Len(calls) + 1
    BY <1>1, <1>2
  <2> QED  BY <1>1, <1>2, <1>5, <2>1 DEF ObjectCalls
<1> QED  BY <1>1, <1>3, <1>4, <1>5

(* What an assistant's message has to say for each dialect.                *)
LEMMA AnthropicNeeds ==
  ASSUME NEW m, ChatForm(m), NEW c, c = openai_content_to_anthropic(m.content, FALSE)
  PROVE  /\ ~AnyBad(SaidHere(m)) <=>
              (m.content = Str(<<>>) \/ ~AnyBad(c.parts)) /\ ObjectCalls(m.calls)
         /\ SaidHere(m) # <<>> <=>
              (m.content # Str(<<>>) /\ m.content.parts # <<>>) \/ m.calls # <<>>
<1>1. Content(m.content) /\ PlainParts(m.content.parts) /\ IsSeq(m.calls)
  BY DEF ChatForm
<1>3. PICK spoken : spoken = IF m.content = Str(<<>>) THEN <<>> ELSE c.parts
  OBVIOUS
<1>4. PICK uses : uses = convert_openai_tool_calls(m.calls)
  OBVIOUS
<1>5. SaidHere(m) = spoken \o uses
  BY <1>3, <1>4 DEF SaidParts, SaidHere
<1>6. IsSeq(c.parts) /\ IsSeq(spoken) /\ Len(c.parts) = Len(m.content.parts)
  BY <1>1, <1>3, PartsMapped, Empty
<1>7. IsSeq(uses) /\ Len(uses) = Len(m.calls) /\ (~AnyBad(uses) <=> ObjectCalls(m.calls))
  BY <1>1, <1>4, UsesGood
<1>8. ~AnyBad(spoken \o uses) <=> ~AnyBad(spoken) /\ ~AnyBad(uses)
  BY <1>6, <1>7, BadJoined, GoodJoined
<1>9. ~AnyBad(spoken) <=> m.content = Str(<<>>) \/ ~AnyBad(c.parts)
  <2>1. ~AnyBad(<<>>)
    BY Empty, BadPart
  <2> QED  BY <1>3, <2>1
<1>10. spoken = <<>> <=> m.content = Str(<<>>) \/ m.content.parts = <<>>
  <2>1. IsSeq(m.content.parts)
    BY <1>1 DEF PlainParts
  <2>2. c.parts = <<>> <=> m.content.parts = <<>>
    BY <1>6, <2>1, Empty
  <2> QED  BY <1>3, <2>2
<1>11. uses = <<>> <=> m.calls = <<>>
  BY <1>1, <1>7, Empty
<1>12. spoken \o uses = <<>> <=> spoken = <<>> /\ uses = <<>>
  BY <1>6, <1>7, JoinedNone
<1> QED  BY <1>5, <1>7, <1>8, <1>9, <1>10, <1>11, <1>12

LEMMA GeminiNeeds ==
  ASSUME NEW m, ChatForm(m), m.role = "assistant",
         NEW qs, qs = chat_content_to_gemini(m.content, FALSE)
  PROVE  chat_message_to_gemini(m) # Bad <=>
           /\ m.content.parts # <<>> \/ m.calls # <<>>
           /\ ~AnyBad(qs) /\ ObjectCalls(m.calls)
<1>1. Content(m.content) /\ PlainParts(m.content.parts) /\ IsSeq(m.calls)
  BY DEF ChatForm
<1>2. PICK uu : uu = Each(ToGeminiCall, m.calls)
  OBVIOUS
<1>3. IsSeq(uu) /\ Len(uu) = Len(m.calls) /\ (~AnyBad(uu) <=> ObjectCalls(m.calls))
  BY <1>1, <1>2, GeminiCallsGood
<1>4. IsSeq(qs) /\ Len(qs) = Len(m.content.parts)
  BY <1>1, ContentToGemini
<1>5. PICK ps : ps = qs \o uu /\ ps = GeminiParts(m)
  BY <1>2 DEF GeminiParts
<1>6. ~AnyBad(ps) <=> ~AnyBad(qs) /\ ~AnyBad(uu)
  BY <1>3, <1>4, <1>5, BadJoined, GoodJoined
<1>7. ps = <<>> <=> m.content.parts = <<>> /\ m.calls = <<>>
  <2>1. IsSeq(m.content.parts)
    BY <1>1 DEF PlainParts
  <2>2. qs \o uu = <<>> <=> qs = <<>> /\ uu = <<>>
    BY <1>3, <1>4, JoinedNone
  <2> QED  BY <1>1, <1>3, <1>4, <1>5, <2>1, <2>2, Empty
<1>8. chat_message_to_gemini(m) = GeminiTurn(m)
  BY GeminiTurnIs
<1>9. GeminiTurn(m) # Bad <=> ps # <<>> /\ ~AnyBad(ps)
  <2>1. PICK t : t = [role |-> "model", parts |-> ps]
    OBVIOUS
  <2>2. t # Bad
    BY <2>1 DEF Bad
  <2>3. m.role # "tool" /\ m.role # "user"
    OBVIOUS
  <2>4. CASE ps # <<>> /\ ~AnyBad(ps)
    <3>1. GeminiTurn(m) = t
      BY <1>5, <2>1, <2>3, <2>4, Zenon DEF GeminiTurn
    <3> QED  BY <2>2, <2>4, <3>1
  <2>5. CASE ~(ps # <<>> /\ ~AnyBad(ps))
    <3>1. GeminiTurn(m) = Bad
      BY <1>5, <2>3, <2>5, Zenon DEF GeminiTurn
    <3> QED  BY <2>5, <3>1
  <2> QED  BY <2>4, <2>5
<1> QED  BY <1>3, <1>6, <1>7, <1>8, <1>9

LEMMA ResponsesNeeds ==
  ASSUME NEW m, ChatForm(m), m.role = "assistant",
         NEW h, h = chat_content_to_responses(m.content, m.role), ~AnyBad(h.parts),
         m.content.form # "absent" \/ m.calls # <<>>
  PROVE  ~AnyBad(ResponsesItems(m))
<1>1. Content(m.content) /\ PlainParts(m.content.parts) /\ IsSeq(m.calls)
  BY DEF ChatForm
<1>2. PICK a, b : a = SaidItems(m, h) /\ b = Each(ToResponsesCall, m.calls)
  OBVIOUS
<1>3. ResponsesItems(m) = a \o b
  BY <1>2 DEF ResponsesItems
<1>4. IsSeq(b) /\ ~AnyBad(b)
  BY <1>1, <1>2, ResponsesCallsGood
<1>5. IsSeq(a) /\ ~AnyBad(a)
  <2>1. CASE m.content.form \in {"absent", "null"}
    <3>1. a = <<>>
      BY <1>2, <2>1 DEF SaidItems
    <3> QED  BY <3>1, Empty, BadPart
  <2>2. CASE m.content.form \notin {"absent", "null"}
    <3>1. PICK x : x = [is |-> "message", role |-> m.role, content |-> h]
      OBVIOUS
    <3>2. a = <<x>> /\ x.is = "message"
      BY <1>2, <2>2, <3>1 DEF SaidItems
    <3>3. x # Bad
      BY <3>2 DEF Bad
    <3>4. IsSeq(a) /\ Len(a) = 1 /\ a[1] = x
      BY <3>2, One
    <3> QED  BY <3>3, <3>4, BadPart
  <2> QED  BY <2>1, <2>2
<1>6. PICK r : r = a \o b
  OBVIOUS
<1>7. ~AnyBad(r)
  BY <1>4, <1>5, <1>6, GoodJoined
<1> QED  BY <1>3, <1>6, <1>7

-----------------------------------------------------------------------------
(* What a target has said suits every target it is given back to.          *)

(* What a target has said, as the hub has it: texts - or, of Gemini, also  *)
(* pictures - and calls.                                                   *)
SaidPlainly(u, p) ==
  p.is = "text" \/ (u = "gemini" /\ p.is = "image_url" /\ p.detail \in {"unset", "auto"})
HubMessage(u, m) ==
  /\ ChatForm(m) /\ Tidy(m) /\ m.role = "assistant"
  /\ \A i \in DOMAIN m.content.parts : SaidPlainly(u, m.content.parts[i])
  /\ u \in {"anthropic", "gemini"} => ObjectCalls(m.calls)
Says(m) == m.calls # <<>> \/ (m.content # Str(<<>>) /\ m.content.parts # <<>>)

LEMMA SpeaksSays ==
  ASSUME NEW m, ChatForm(m), m.role = "assistant", ChatTurn(m) # <<>>
  PROVE  Says(m)
<1>1. Content(m.content) /\ PlainParts(m.content.parts) /\ IsSeq(m.calls)
  BY DEF ChatForm
<1>2. ChatTurn(m) = Spoke(SpeakerOf(m), m.content.parts) \o Concat(Called(m.calls))
  BY ChatTurnSays
<1>3. SUFFICES ASSUME m.calls = <<>>, m.content = Str(<<>>) \/ m.content.parts = <<>>
               PROVE  FALSE
  BY DEF Says
<1>4. Concat(Called(m.calls)) = <<>>
  BY <1>3, CalledNone
<1>5. Spoke(SpeakerOf(m), m.content.parts) = <<>>
  BY <1>3, SilentStr, SpokeNone
<1>6. <<>> \o <<>> = <<>>
  BY Empty
<1> QED  BY <1>2, <1>4, <1>5, <1>6

LEMMA TextsCross ==
  ASSUME NEW c, PlainParts(c.parts), Content(c), \A i \in DOMAIN c.parts : c.parts[i].is = "text"
  PROVE  /\ ~AnyBad(openai_content_to_anthropic(c, FALSE).parts)
         /\ \A role : ~AnyBad(chat_content_to_responses(c, role).parts)
<1>1. ~AnyBad(openai_content_to_anthropic(c, FALSE).parts)
  <2>1. PICK h : h = openai_content_to_anthropic(c, FALSE)
    OBVIOUS
  <2>2. c = [form |-> c.form, parts |-> c.parts]
    BY DEF Content
  <2>3. h.parts = [i \in DOMAIN c.parts |-> openai_part_to_anthropic(c.parts[i], FALSE)]
    BY <2>1, <2>2 DEF openai_content_to_anthropic, Each
  <2>4. \A i \in DOMAIN c.parts : openai_part_to_anthropic(c.parts[i], FALSE) = c.parts[i]
    BY DEF openai_part_to_anthropic
  <2>5. \A i \in DOMAIN c.parts : c.parts[i] # Bad
    BY DEF Bad
  <2> QED  BY <2>1, <2>3, <2>4, <2>5 DEF AnyBad
<1>2. ASSUME NEW role PROVE ~AnyBad(chat_content_to_responses(c, role).parts)
  <2>1. PICK h : h = chat_content_to_responses(c, role)
    OBVIOUS
  <2>2. PICK kind : kind = IF role = "assistant" THEN "output_text" ELSE "input_text"
    OBVIOUS
  <2>3. PICK qs : qs = h.parts
    OBVIOUS
  <2>4. /\ DOMAIN qs = DOMAIN c.parts
        /\ \A i \in DOMAIN c.parts : qs[i] = [is |-> kind, text |-> c.parts[i].text]
    BY <2>1, <2>2, <2>3 DEF chat_content_to_responses, Each, Parts
  <2>5. \A i \in DOMAIN c.parts : qs[i] # Bad
    <3> TAKE i \in DOMAIN c.parts
    <3>1. PICK q : q = [is |-> kind, text |-> c.parts[i].text]
      OBVIOUS
    <3>2. q.is # "bad"
      BY <2>2, <3>1
    <3>3. q # Bad
      BY <3>2 DEF Bad
    <3> QED  BY <2>4, <3>1, <3>3
  <2> QED  BY <2>1, <2>3, <2>4, <2>5 DEF AnyBad
<1> QED  BY <1>1, <1>2

LEMMA PartsCrossToGemini ==
  ASSUME NEW c, \A i \in DOMAIN c.parts : SaidPlainly("gemini", c.parts[i])
  PROVE  ~AnyBad(chat_content_to_gemini(c, FALSE))
<1>1. PICK qs : qs = chat_content_to_gemini(c, FALSE)
  OBVIOUS
<1>2. qs = [i \in DOMAIN c.parts |-> ToGeminiPart(c.parts[i])]
  BY <1>1 DEF chat_content_to_gemini, ToGeminiPart, Each
<1>3. ASSUME NEW i \in DOMAIN c.parts PROVE ToGeminiPart(c.parts[i]) # Bad
  <2>1. PICK p : p = c.parts[i]
    OBVIOUS
  <2>2. SaidPlainly("gemini", p)
    BY <2>1
  <2>3. CASE p.is = "text"
    <3>1. ToGeminiPart(p) = p
      BY <2>3 DEF ToGeminiPart
    <3> QED  BY <2>1, <2>3, <3>1 DEF Bad
  <2>4. CASE p.is = "image_url" /\ p.detail \in {"unset", "auto"}
    <3>1. ToGeminiPart(p) = openai_image_url_to_gemini(p.url)
      BY <2>4 DEF ToGeminiPart
    <3>2. openai_image_url_to_gemini(p.url).is \in {"inlineData", "fileData"}
      BY DEF openai_image_url_to_gemini
    <3>3. PICK q : q = openai_image_url_to_gemini(p.url)
      OBVIOUS
    <3>4. q # Bad
      BY <3>2, <3>3 DEF Bad
    <3> QED  BY <2>1, <3>1, <3>3, <3>4
  <2> QED  BY <2>2, <2>3, <2>4 DEF SaidPlainly
<1> QED  BY <1>1, <1>2, <1>3 DEF AnyBad

(* What one target has said suits every other, if it says anything at all. *)
LEMMA UttersSuits ==
  ASSUME NEW u \in Format, NEW m, HubMessage(u, m), Says(m)
  PROVE  Suits(u, m)
<1>1. /\ ChatForm(m) /\ Tidy(m) /\ m.role = "assistant"
      /\ \A i \in DOMAIN m.content.parts : SaidPlainly(u, m.content.parts[i])
      /\ u \in {"anthropic", "gemini"} => ObjectCalls(m.calls)
  BY DEF HubMessage
<1>2. Content(m.content) /\ PlainParts(m.content.parts) /\ IsSeq(m.calls)
  BY <1>1 DEF ChatForm
<1>3. ~IsSystem(m)
  BY <1>1 DEF IsSystem
<1>4. u # "gemini" => \A i \in DOMAIN m.content.parts : m.content.parts[i].is = "text"
  BY <1>1 DEF SaidPlainly
<1>5. ASSUME u = "responses" PROVE ~AnyBad(ResponsesItems(m))
  <2>1. PICK h : h = chat_content_to_responses(m.content, m.role)
    OBVIOUS
  <2>2. ~AnyBad(h.parts)
    BY <1>2, <1>4, <1>5, <2>1, TextsCross
  <2>3. m.content.form # "absent" \/ m.calls # <<>>
    BY <1>2 DEF Says, Content
  <2> QED  BY <1>1, <2>1, <2>2, <2>3, ResponsesNeeds
<1>6. ASSUME u = "anthropic" PROVE SuitsAnthropic(m)
  <2>1. PICK c : c = openai_content_to_anthropic(m.content, FALSE)
    OBVIOUS
  <2>2. ~AnyBad(c.parts)
    BY <1>2, <1>4, <1>6, <2>1, TextsCross
  <2>3. ObjectCalls(m.calls)
    BY <1>1, <1>6
  <2>4. ~AnyBad(SaidHere(m))
    BY <1>1, <2>1, <2>2, <2>3, AnthropicNeeds
  <2>5. SaidHere(m) # <<>>
    BY <1>1, <2>1, AnthropicNeeds DEF Says
  <2>6. m.name = ""
    BY <1>1 DEF Tidy
  <2> QED  BY <1>1, <2>4, <2>5, <2>6, Zenon DEF SuitsAnthropic
<1>7. ASSUME u = "gemini" PROVE chat_message_to_gemini(m) # Bad
  <2>1. PICK qs : qs = chat_content_to_gemini(m.content, FALSE)
    OBVIOUS
  <2>2. ~AnyBad(qs)
    BY <1>1, <1>7, <2>1, PartsCrossToGemini
  <2>3. m.content.parts # <<>> \/ m.calls # <<>>
    BY DEF Says
  <2> QED  BY <1>1, <1>7, <2>1, <2>2, <2>3, GeminiNeeds
<1> QED  BY <1>1, <1>3, <1>5, <1>6, <1>7 DEF Suits

Callable(u, name) == u = "gemini" => name # ""

(* The result of a call suits every target but a Gemini that is not told   *)
(* its function.                                                           *)
LEMMA ResultSuits ==
  ASSUME NEW u, NEW id, NEW name, Callable(u, name), NEW text, IsSeq(text),
         NEW m, m = Result(id, name, Str(text))
  PROVE  Suits(u, m)
<1>1. ChatForm(m)
  BY ResultSays
<1>2. m.role = "tool" /\ m.content = Str(text) /\ m.id = id /\ m.name = name
  BY DEF Result, Message
<1>3. ~IsSystem(m)
  BY <1>2 DEF IsSystem
<1>4. ~AnyBad(ResponsesItems(m))
  <2>1. PICK x : x = [is |-> "function_call_output", id |-> m.id,
            text |-> IF m.content.form = "string" THEN TextOf(m.content) ELSE <<>>]
    OBVIOUS
  <2>2. ResponsesItems(m) = <<x>>
    BY <1>2, <2>1 DEF ResponsesItems
  <2>3. x # Bad
    <3>1. x.is = "function_call_output"
      BY <2>1
    <3> QED  BY <3>1 DEF Bad
  <2>4. PICK ii : ii = <<x>>
    OBVIOUS
  <2>5. IsSeq(ii) /\ Len(ii) = 1 /\ ii[1] = x
    BY <2>4, One
  <2> QED  BY <2>2, <2>3, <2>4, <2>5, BadPart
<1>5. SuitsAnthropic(m)
  <2>1. PICK p : p = [is |-> "text", text |-> text]
    OBVIOUS
  <2>2. PICK c : c = Str(text)
    OBVIOUS
  <2>3. c.parts = <<p>> /\ c = [form |-> c.form, parts |-> c.parts] /\ p.is = "text"
    BY <2>1, <2>2 DEF Str
  <2>4. PICK h : h = openai_content_to_anthropic(c, TRUE)
    OBVIOUS
  <2>5. h.parts = [i \in DOMAIN c.parts |-> openai_part_to_anthropic(c.parts[i], TRUE)]
    BY <2>3, <2>4 DEF openai_content_to_anthropic, Each
  <2>6. IsSeq(c.parts) /\ Len(c.parts) = 1 /\ c.parts[1] = p
    BY <2>3, One
  <2>7. \A i \in DOMAIN c.parts : i = 1
    BY <2>6, SeqIs
  <2>8. openai_part_to_anthropic(p, TRUE) = p /\ p # Bad
    BY <2>3 DEF openai_part_to_anthropic, Bad
  <2>9. ~AnyBad(h.parts)
    BY <2>5, <2>6, <2>7, <2>8 DEF AnyBad
  <2> QED  BY <1>2, <2>2, <2>4, <2>9 DEF SuitsAnthropic
<1>6. ASSUME u = "gemini" PROVE chat_message_to_gemini(m) # Bad
  <2>1. PICK t : t = [role |-> "user", parts |-> <<GeminiResponse(m)>>]
    OBVIOUS
  <2>2. t # Bad
    BY <2>1 DEF Bad
  <2>3. name # ""
    BY <1>6, Zenon DEF Callable
  <2>4. GeminiTurn(m) = t
    BY <1>2, <2>1, <2>3, Zenon DEF GeminiTurn
  <2>5. chat_message_to_gemini(m) = GeminiTurn(m)
    BY GeminiTurnIs
  <2> QED  BY <2>2, <2>4, <2>5
<1> QED  BY <1>1, <1>3, <1>4, <1>5, <1>6 DEF Suits

(* A message of the assistant may take one more call.                      *)
LEMMA SuitsCall ==
  ASSUME NEW m, ChatForm(m), Tidy(m), m.role = "assistant", NEW call, call.args = "object",
         NEW l, l = [m EXCEPT !.calls = Append(@, call)]
  PROVE  /\ SuitsAnthropic(m) => SuitsAnthropic(l)
         /\ chat_message_to_gemini(m) # Bad => chat_message_to_gemini(l) # Bad
<1>1. Content(m.content) /\ PlainParts(m.content.parts) /\ IsSeq(m.calls)
      /\ m = Message(m.role, m.content, m.calls, m.id, m.name)
  BY DEF ChatForm
<1>2. ChatForm(l) /\ Tidy(l)
  BY CallAdded
<1>3. l.role = m.role /\ l.content = m.content /\ l.calls = Append(m.calls, call)
  BY <1>1 DEF Message
<1>4. PICK calls, more : calls = m.calls /\ more = l.calls
  OBVIOUS
<1>5. more # <<>> /\ (ObjectCalls(more) <=> ObjectCalls(calls))
  BY <1>1, <1>3, <1>4, CallsMore
<1>6. ASSUME SuitsAnthropic(m) PROVE SuitsAnthropic(l)
  <2>1. ~AnyBad(SaidHere(m))
    BY <1>6, Zenon DEF SuitsAnthropic
  <2>2. PICK c : c = openai_content_to_anthropic(m.content, FALSE)
    OBVIOUS
  <2>3. (m.content = Str(<<>>) \/ ~AnyBad(c.parts)) /\ ObjectCalls(m.calls)
    BY <2>1, <2>2, AnthropicNeeds
  <2>4. c = openai_content_to_anthropic(l.content, FALSE)
    BY <1>3, <2>2
  <2>5. ~AnyBad(SaidHere(l)) /\ SaidHere(l) # <<>>
    BY <1>2, <1>3, <1>4, <1>5, <2>3, <2>4, AnthropicNeeds
  <2>6. l.name = "" /\ l.role = "assistant"
    BY <1>2, <1>3 DEF Tidy
  <2> QED  BY <2>5, <2>6, Zenon DEF SuitsAnthropic
<1>7. ASSUME chat_message_to_gemini(m) # Bad PROVE chat_message_to_gemini(l) # Bad
  <2>1. PICK qs : qs = chat_content_to_gemini(m.content, FALSE)
    OBVIOUS
  <2>2. ~AnyBad(qs) /\ ObjectCalls(m.calls)
    BY <1>7, <2>1, GeminiNeeds
  <2>3. qs = chat_content_to_gemini(l.content, FALSE) /\ l.role = "assistant"
    BY <1>3, <2>1
  <2> QED  BY <1>2, <1>4, <1>5, <2>2, <2>3, GeminiNeeds
<1> QED  BY <1>6, <1>7

LEMMA StaysBad ==
  ASSUME NEW ts, AnyBad(ts), NEW m
  PROVE  convert_openai_message(ts, m) = ts
<1>1. PICK c : c = openai_content_to_anthropic(m.content, m.role = "tool")
  OBVIOUS
<1>2. convert_openai_message(ts, m) = AnthropicStep(ts, m, c, SaidParts(m, c))
  BY <1>1, AnthropicStepIs
<1> QED  BY <1>2 DEF AnthropicStep

(* The last message, an assistant's, may take one more call.               *)
LEMMA TakesCall ==
  ASSUME NEW u, u # "responses", NEW ms, Takes(u, ms), AllTidy(ms), ms # <<>>,
         Last(ms).role = "assistant", NEW call, u # "chat" => call.args = "object",
         u \in Format, NEW l, l = [Last(ms) EXCEPT !.calls = Append(@, call)]
  PROVE  Takes(u, Append(Front(ms), l))
<1>1. PICK ft, z : ft = Front(ms) /\ z = Last(ms)
  OBVIOUS
<1>2. ChatForms(ms)
  BY DEF Takes
<1>3. IsSeq(ms)
  BY <1>2 DEF ChatForms
<1>4. ms = Append(ft, z) /\ IsSeq(ft)
  BY <1>1, <1>3, LastGrown
<1>5. ChatForms(ft) /\ ChatForm(z) /\ z.role = "assistant"
  BY <1>1, <1>2, FrontForms
<1>6. Tidy(z)
  BY <1>1, <1>3, <1>5, TidyFront, NotBad
<1>7. l = [z EXCEPT !.calls = Append(@, call)]
  BY <1>1
<1>8. ChatForm(l) /\ Tidy(l)
  BY <1>5, <1>6, <1>7, CallAdded
<1>9. l.role = "assistant"
  BY <1>5, <1>7 DEF ChatForm, Message
<1>10. ~IsSystem(z) /\ ~IsSystem(l)
  BY <1>5, <1>9 DEF IsSystem
<1>11. PICK ns : ns = Append(ft, l)
  OBVIOUS
<1>12. PICK ss : ss = Spoken(ft)
  OBVIOUS
<1>13. /\ SystemParts(ms) = SystemParts(ft) /\ Spoken(ms) = Append(ss, z)
       /\ SystemFirst(ms) <=> SystemFirst(ft)
       /\ Unlabelable(ms) <=> Unlabelable(ft)
  BY <1>4, <1>10, <1>12, SystemMore
<1>14. /\ SystemParts(ns) = SystemParts(ft) /\ Spoken(ns) = Append(ss, l)
       /\ SystemFirst(ns) <=> SystemFirst(ft)
       /\ Unlabelable(ns) <=> Unlabelable(ft)
  <2>1. ASSUME NEW x, ~IsSystem(x), NEW xs, xs = Append(ft, x)
        PROVE  /\ SystemParts(xs) = SystemParts(ft) /\ Spoken(xs) = Append(ss, x)
               /\ SystemFirst(xs) <=> SystemFirst(ft)
               /\ Unlabelable(xs) <=> Unlabelable(ft)
    BY <1>4, <1>12, <2>1, SystemMore
  <2> QED  BY <1>10, <1>11, <2>1
<1>15. ChatForms(ss) /\ IsSeq(ss)
  BY <1>5, <1>12, SpokenForms DEF ChatForms
<1>16. ChatForms(ns)
  BY <1>5, <1>8, <1>11, FormsMore
<1>17. ASSUME u # "chat"
       PROVE  /\ SuitsAnthropic(z) => SuitsAnthropic(l)
              /\ chat_message_to_gemini(z) # Bad => chat_message_to_gemini(l) # Bad
  <2>1. call.args = "object"
    BY <1>17
  <2>2. ASSUME NEW x, x = [z EXCEPT !.calls = Append(@, call)]
        PROVE  /\ SuitsAnthropic(z) => SuitsAnthropic(x)
               /\ chat_message_to_gemini(z) # Bad => chat_message_to_gemini(x) # Bad
    BY <1>5, <1>6, <2>1, <2>2, SuitsCall
  <2> QED  BY <1>7, <2>2, Zenon
<1>18. ASSUME u = "anthropic" PROVE TakesAnthropic(ns)
  <2>1. TakesAnthropic(ms)
    BY <1>18 DEF Takes
  <2>2. PICK ts : ts = ToTurns(ss)
    OBVIOUS
  <2>3. ToTurns(Append(ss, z)) = convert_openai_message(ts, z)
        /\ ToTurns(Append(ss, l)) = convert_openai_message(ts, l)
    BY <1>15, <2>2, ToTurnsMore
  <2>4. ~AnyBad(convert_openai_message(ts, z))
    BY <1>13, <2>1, <2>3 DEF TakesAnthropic
  <2>5. ~AnyBad(ts)
    BY <2>4, StaysBad
  <2>6. AnthropicTurns(ts) /\ Alternates(ts)
    BY <1>5, <1>12, <2>2, <2>5, SpokenForms
  <2>7. SuitsAnthropic(l)
    BY <1>5, <1>17, <1>18, <2>4, <2>6, AnthropicTook
  <2>8. PICK us : us = convert_openai_message(ts, l)
    OBVIOUS
  <2>9. ~AnyBad(us) /\ us # <<>>
    BY <1>8, <2>6, <2>7, <2>8, AnthropicSuits
  <2> QED  BY <1>13, <1>14, <2>1, <2>3, <2>8, <2>9 DEF TakesAnthropic
<1>19. ASSUME u = "gemini" PROVE TakesGemini(ns)
  <2>1. TakesGemini(ms)
    BY <1>19 DEF Takes
  <2>2. PICK ps, qs : ps = Append(ss, z) /\ qs = Append(ss, l)
    OBVIOUS
  <2>3. /\ IsSeq(ps) /\ Len(ps) = Len(ss) + 1 /\ Len(ss) \in Nat
        /\ ps[Len(ss) + 1] = z /\ \A i \in 1..Len(ss) : ps[i] = ss[i]
    BY <1>15, <2>2, AppendedIs
  <2>4. /\ IsSeq(qs) /\ Len(qs) = Len(ss) + 1
        /\ qs[Len(ss) + 1] = l /\ \A i \in 1..Len(ss) : qs[i] = ss[i]
    BY <1>15, <2>2, AppendedIs
  <2>5. DOMAIN ps = 1..Len(ss) + 1 /\ DOMAIN qs = 1..Len(ss) + 1
    BY <2>3, <2>4, SeqIs
  <2>6. \A i \in DOMAIN ps : chat_message_to_gemini(ps[i]) # Bad
    BY <1>13, <2>1, <2>2 DEF TakesGemini
  <2>7. chat_message_to_gemini(z) # Bad
    BY <2>3, <2>5, <2>6
  <2>8. chat_message_to_gemini(l) # Bad
    BY <1>17, <1>19, <2>7
  <2>9. \A i \in DOMAIN qs : chat_message_to_gemini(qs[i]) # Bad
    BY <2>3, <2>4, <2>5, <2>6, <2>8
  <2> QED  BY <1>13, <1>14, <2>1, <2>2, <2>9 DEF TakesGemini
<1> QED  BY <1>1, <1>11, <1>16, <1>18, <1>19 DEF Takes

-----------------------------------------------------------------------------
(* The items of a Responses document, one at a time: those that go on      *)
(* what was carried are carried too.                                       *)

LEMMA ItemsMore ==
  ASSUME NEW before, NEW items, IsSeq(items), NEW x
  PROVE  responses_input_to_chat(Append(items, x), before)
           = responses_item_to_chat(responses_input_to_chat(items, before), x)
<1>0. PICK ns : ns = Append(items, x)
  OBVIOUS
<1>1. /\ IsSeq(ns) /\ Len(ns) = Len(items) + 1 /\ Len(items) \in Nat
      /\ ns[Len(items) + 1] = x /\ \A i \in 1..Len(items) : ns[i] = items[i]
  BY <1>0, AppendedIs
<1> DEFINE Made(s) ==
             \E f : /\ f[0] = before
                    /\ \A n \in 1..Len(s) : f[n] = responses_item_to_chat(f[n - 1], s[n])
                    /\ responses_input_to_chat(s, before) = f[Len(s)]
<1>2. Made(items) /\ Made(ns)
  <2>1. \A s : Len(s) \in Nat => Made(s)
    BY ItemsFolded, Zenon
  <2>2. Len(ns) \in Nat /\ Len(items) \in Nat
    BY <1>1
  <2> HIDE DEF Made
  <2> QED  BY <2>1, <2>2, Zenon
<1>3. PICK f : /\ f[0] = before
               /\ \A n \in 1..Len(items) : f[n] = responses_item_to_chat(f[n - 1], items[n])
               /\ responses_input_to_chat(items, before) = f[Len(items)]
  BY <1>2, Zenon
<1>4. PICK g : /\ g[0] = before
               /\ \A n \in 1..Len(ns) : g[n] = responses_item_to_chat(g[n - 1], ns[n])
               /\ responses_input_to_chat(ns, before) = g[Len(ns)]
  BY <1>2, Zenon
<1> HIDE DEF Made
<1> DEFINE S == {k \in Nat : k <= Len(items) => f[k] = g[k]}
<1>5. 0 \in S
  BY <1>3, <1>4
<1>6. ASSUME NEW k \in Nat, k \in S PROVE k + 1 \in S
  <2> SUFFICES ASSUME k + 1 <= Len(items) PROVE f[k + 1] = g[k + 1]
    OBVIOUS
  <2>1. k + 1 \in 1..Len(items) /\ k + 1 \in 1..Len(ns) /\ k + 1 - 1 = k
    BY <1>1
  <2>2. f[k] = g[k]
    BY <1>6, <2>1
  <2>3. f[k + 1] = responses_item_to_chat(f[k], items[k + 1])
    BY <1>3, <2>1
  <2>4. g[k + 1] = responses_item_to_chat(g[k], ns[k + 1])
    BY <1>4, <2>1
  <2>5. ns[k + 1] = items[k + 1]
    BY <1>1, <2>1
  <2> QED  BY <2>2, <2>3, <2>4, <2>5
<1>7. Len(items) \in S
  <2> HIDE DEF S
  <2>1. Nat \subseteq S
    BY <1>5, <1>6, Induct
  <2> QED  BY <1>1, <2>1
<1>8. g[Len(ns)] = responses_item_to_chat(g[Len(items)], x)
  <2>1. Len(items) + 1 \in 1..Len(ns) /\ Len(items) + 1 - 1 = Len(items)
    BY <1>1
  <2>2. g[Len(items) + 1] = responses_item_to_chat(g[Len(items) + 1 - 1], ns[Len(items) + 1])
    BY <1>4, <2>1
  <2> QED  BY <1>1, <2>1, <2>2
<1> QED  BY <1>0, <1>1, <1>3, <1>4, <1>7, <1>8

(* The items a Responses client adds: the texts and the calls of an answer *)
(* and the results of the calls.                                           *)
ItemGoesOn(u, item) ==
  \/ /\ item.is = "message" /\ item.role = "assistant" /\ IsSeq(item.content.parts[1].text)
     /\ item.content = Parts(<<[is |-> "output_text", text |-> item.content.parts[1].text]>>)
  \/ item.is = "function_call" /\ (u # "chat" => item.args = "object")
  \/ item.is = "function_call_output" /\ IsSeq(item.text) /\ u # "gemini"
Carries(u, ms) == Takes(u, ms) /\ AllTidy(ms)

LEMMA NamelessIs ==
  ASSUME NEW role, NEW c
  PROVE  /\ Nameless(role, c).role = role /\ Nameless(role, c).content = c
         /\ Nameless(role, c).calls = <<>>
<1>1. Nameless(role, c).role = role
  BY Zenon DEF Nameless, Message
<1>2. Nameless(role, c).content = c
  BY Zenon DEF Nameless, Message
<1>3. Nameless(role, c).calls = <<>>
  BY Zenon DEF Nameless, Message
<1> QED  BY <1>1, <1>2, <1>3

LEMMA WordsSuit ==
  ASSUME NEW u \in Format, NEW text, IsSeq(text),
         NEW m, m = Nameless("assistant", Parts(<<[is |-> "text", text |-> text]>>))
  PROVE  Suits(u, m)
<1>1. PICK p : p = [is |-> "text", text |-> text]
  OBVIOUS
<1>2. PlainForm(p) /\ p.is = "text"
  BY <1>1 DEF PlainForm
<1>3. PICK ps : ps = <<p>>
  OBVIOUS
<1>4. IsSeq(ps) /\ Len(ps) = 1 /\ ps[1] = p
  BY <1>3, One
<1>5. PlainParts(ps)
  <2>1. DOMAIN ps = 1..1
    BY <1>4, SeqIs
  <2> QED  BY <1>2, <1>4, <2>1 DEF PlainParts
<1>6. PICK c : c = Parts(ps)
  OBVIOUS
<1>7. Content(c) /\ c.parts = ps /\ c.form = "parts"
  BY <1>6, PartsContent
<1>8. m = Nameless("assistant", c)
  BY <1>1, <1>3, <1>6
<1>9. ChatForm(m) /\ Tidy(m)
  BY <1>5, <1>7, <1>8, NamelessSays, NamelessTidy
<1>10. m.role = "assistant" /\ m.content = c /\ m.calls = <<>>
  BY <1>8, NamelessIs
<1>11. \A i \in DOMAIN m.content.parts : SaidPlainly(u, m.content.parts[i])
  <2>1. DOMAIN ps = 1..1
    BY <1>4, SeqIs
  <2> QED  BY <1>2, <1>4, <1>7, <1>10, <2>1 DEF SaidPlainly
<1>12. ObjectCalls(m.calls)
  BY <1>10 DEF ObjectCalls
<1>13. HubMessage(u, m)
  BY <1>9, <1>10, <1>11, <1>12 DEF HubMessage
<1>14. Says(m)
  <2>1. ps # <<>>
    BY <1>4, Empty
  <2>2. c # Str(<<>>)
    BY <1>7 DEF Str
  <2> QED  BY <1>7, <1>10, <2>1, <2>2 DEF Says
<1> QED  BY <1>13, <1>14, UttersSuits

OfOneCall(call) == Message("assistant", Absent, <<call>>, "", "")

LEMMA CallSuits ==
  ASSUME NEW u \in Format, NEW call, u # "chat" => call.args = "object",
         NEW m, m = OfOneCall(call)
  PROVE  Suits(u, m)
<1>1. ChatForm(m)
  BY CallsAlone DEF OfOneCall
<1>2. m.role = "assistant" /\ m.content = Absent /\ m.calls = <<call>>
  BY Zenon DEF Message, OfOneCall
<1>3. Tidy(m)
  <2>1. m.name = ""
    BY Zenon DEF Message, OfOneCall
  <2> QED  BY <1>2, <2>1 DEF Tidy
<1>4. PICK cc : cc = m.calls
  OBVIOUS
<1>5. IsSeq(cc) /\ Len(cc) = 1 /\ cc[1] = call
  BY <1>2, <1>4, One
<1>6. DOMAIN cc = 1..1 /\ cc # <<>>
  BY <1>5, SeqIs, Empty
<1>7. u # "chat" => ObjectCalls(cc)
  BY <1>5, <1>6 DEF ObjectCalls
<1>8. Says(m)
  BY <1>4, <1>6 DEF Says
<1>9. \A i \in DOMAIN m.content.parts : SaidPlainly(u, m.content.parts[i])
  BY <1>2, AbsentSays
<1>10. HubMessage(u, m)
  BY <1>1, <1>2, <1>3, <1>4, <1>7, <1>9 DEF HubMessage
<1> QED  BY <1>8, <1>10, UttersSuits

(* responses_input_to_chat merges neighbours: an item that goes on leaves  *)
(* what it adds to fit for the target.                                     *)
LEMMA ItemTaken ==
  ASSUME NEW u \in Format, u # "responses", NEW ms, Carries(u, ms), NEW item, ItemForm(item),
         ItemGoesOn(u, item), NEW ns, ns = responses_item_to_chat(ms, item)
  PROVE  Carries(u, ns)
<1>1. Takes(u, ms) /\ AllTidy(ms)
  BY DEF Carries
<1>2. ChatForms(ms)
  BY <1>1 DEF Takes
<1>3. Hub(ms) /\ ~AnyBad(ms)
  BY <1>2, FormsAreHub
<1>4. AllTidy(ns)
  BY <1>1, <1>3, ResponsesItem
<1>5. CASE /\ item.is = "message" /\ item.role = "assistant" /\ IsSeq(item.content.parts[1].text)
           /\ item.content = Parts(<<[is |-> "output_text", text |-> item.content.parts[1].text]>>)
  <2>1. PICK c : c = responses_content_to_chat(item.content, item.role)
    OBVIOUS
  <2>2. PICK text : text = item.content.parts[1].text
    OBVIOUS
  <2>3. PICK q, p : q = [is |-> "output_text", text |-> text] /\ p = [is |-> "text", text |-> text]
    OBVIOUS
  <2>4. PICK qs, ps : qs = <<q>> /\ ps = <<p>>
    OBVIOUS
  <2>5. item.content = Parts(qs) /\ IsSeq(text)
    BY <1>5, <2>2, <2>3, <2>4
  <2>6. /\ IsSeq(qs) /\ Len(qs) = 1 /\ qs[1] = q
        /\ IsSeq(ps) /\ Len(ps) = 1 /\ ps[1] = p
    BY <2>4, One
  <2>7. DOMAIN qs = 1..1 /\ DOMAIN ps = 1..1
    BY <2>6, SeqIs
  <2>8. c.form = "parts" /\ c = [form |-> c.form, parts |-> c.parts]
    <3>1. PICK d : d = item.content
      BY Zenon
    <3>2. d.form = "parts" /\ Content(d)
      BY <2>5, <3>1, PartsContent
    <3>3. c = responses_content_to_chat(d, item.role)
      BY <2>1, <3>1
    <3> QED  BY <3>2, <3>3 DEF responses_content_to_chat, Content
  <2>9. PICK rs : rs = c.parts
    BY Zenon
  <2>10. DOMAIN rs = DOMAIN qs /\ rs = [i \in DOMAIN rs |-> rs[i]] /\ rs[1] = p
    BY <2>1, <2>3, <2>5, <2>6, <2>7, <2>9 DEF responses_content_to_chat, Parts, Each
  <2>11. IsSeq(rs) /\ Len(rs) = 1
    BY <2>6, <2>10, Imaged
  <2>12. rs = ps
    BY <2>6, <2>10, <2>11, Alike
  <2>13. c = Parts(ps)
    BY <2>8, <2>9, <2>12 DEF Parts
  <2>14. p # Bad
    <3>1. p.is = "text"
      BY <2>3
    <3> QED  BY <3>1 DEF Bad
  <2>15. ~AnyBad(c.parts)
    BY <2>6, <2>7, <2>9, <2>12, <2>14 DEF AnyBad
  <2>16. PICK m : m = Nameless("assistant", c)
    OBVIOUS
  <2>17. ns = Append(ms, m)
    BY <1>3, <1>5, <2>1, <2>15, <2>16 DEF responses_item_to_chat
  <2>18. m = Nameless("assistant", Parts(<<[is |-> "text", text |-> text]>>))
    BY <2>3, <2>4, <2>13, <2>16
  <2>19. Suits(u, m)
    BY <2>5, <2>18, WordsSuit
  <2>20. Takes(u, ns)
    BY <1>1, <2>17, <2>19, TakesMore
  <2> QED  BY <1>4, <2>20 DEF Carries
<1>6. CASE item.is = "function_call" /\ (u # "chat" => item.args = "object")
  <2>1. PICK call : call = Call(item.id, item.name, item.args)
    OBVIOUS
  <2>2. PICK message : message = Message("assistant", Absent, <<call>>, "", "")
    OBVIOUS
  <2>3. PICK extended : extended = [Last(ms) EXCEPT !.calls = Append(@, call)]
    OBVIOUS
  <2>4. ns = Merge(ms, "assistant", extended, message)
    BY <1>3, <1>6, <2>1, <2>2, <2>3 DEF responses_item_to_chat
  <2>5. u # "chat" => call.args = "object"
    BY <1>6, <2>1 DEF Call
  <2>6. CASE ms # <<>> /\ Last(ms).role = "assistant"
    <3>1. ns = Append(Front(ms), extended)
      BY <2>4, <2>6 DEF Merge
    <3>2. Takes(u, Append(Front(ms), extended))
      BY <1>1, <2>3, <2>5, <2>6, TakesCall
    <3> QED  BY <1>4, <3>1, <3>2 DEF Carries
  <2>7. CASE ~(ms # <<>> /\ Last(ms).role = "assistant")
    <3>1. ns = Append(ms, message)
      BY <2>4, <2>7 DEF Merge
    <3>2. message = OfOneCall(call)
      BY <2>2 DEF OfOneCall
    <3>4. Suits(u, message)
      BY <2>5, <3>2, CallSuits
    <3>3. Takes(u, ns)
      BY <1>1, <3>1, <3>4, TakesMore
    <3> QED  BY <1>4, <3>3 DEF Carries
  <2> QED  BY <2>6, <2>7
<1>7. CASE item.is = "function_call_output" /\ IsSeq(item.text) /\ u # "gemini"
  <2>1. PICK name : name = ""
    OBVIOUS
  <2>2. PICK m : m = Result(item.id, name, Str(item.text)) /\ ns = Append(ms, m)
    BY <1>3, <1>7, <2>1 DEF responses_item_to_chat
  <2>3. Callable(u, name)
    BY <1>7 DEF Callable
  <2>4. Suits(u, m)
    BY <1>7, <2>2, <2>3, ResultSuits
  <2>5. Takes(u, ns)
    BY <1>1, <2>2, <2>4, TakesMore
  <2> QED  BY <1>4, <2>5 DEF Carries
<1> QED  BY <1>5, <1>6, <1>7 DEF ItemGoesOn

(* The same of any number of items.                                        *)
LEMMA ItemsTaken ==
  ASSUME NEW u \in Format, u # "responses", NEW before, NEW items, IsSeq(items),
         Carries(u, responses_input_to_chat(items, before)),
         NEW ns, IsSeq(ns), \A i \in 1..Len(ns) : ItemForm(ns[i]) /\ ItemGoesOn(u, ns[i])
  PROVE  Carries(u, responses_input_to_chat(items \o ns, before))
<1> DEFINE Good(s) == IsSeq(s) /\ \A i \in 1..Len(s) : ItemForm(s[i]) /\ ItemGoesOn(u, s[i])
           Made(s) == responses_input_to_chat(items \o s, before)
           S == {n \in Nat : \A s : Good(s) /\ Len(s) = n => Carries(u, Made(s))}
<1>1. 0 \in S
  <2>1. ASSUME NEW s, Good(s), Len(s) = 0 PROVE Carries(u, Made(s))
    <3>1. items \o <<>> = items
      BY Empty
    <3>2. s = <<>>
      BY <2>1, Empty
    <3> QED  BY <3>1, <3>2
  <2> HIDE DEF Good, Made
  <2> QED  BY <2>1
<1>2. ASSUME NEW n \in Nat, n \in S PROVE n + 1 \in S
  <2>1. ASSUME NEW s, Good(s), Len(s) = n + 1 PROVE Carries(u, Made(s))
    <3>1. s # <<>>
      <4>1. Len(s) # 0
        BY <2>1
      <4> QED  BY <4>1, Empty
    <3>2. PICK t, x : t = Front(s) /\ x = Last(s)
      OBVIOUS
    <3>3. /\ IsSeq(t) /\ s = t \o <<x>> /\ Len(t) = Len(s) - 1 /\ x = s[Len(s)]
          /\ \A i \in 1..Len(s) - 1 : t[i] = s[i]
      BY <2>1, <3>1, <3>2, ButLast
    <3>4. Len(t) = n /\ Len(s) \in 1..Len(s) /\ \A i \in 1..Len(t) : i \in 1..Len(s) /\ t[i] = s[i]
      BY <2>1, <3>3
    <3>5. Good(t) /\ ItemForm(x) /\ ItemGoesOn(u, x)
      BY <2>1, <3>3, <3>4
    <3>6. Carries(u, Made(t))
      <4> HIDE DEF Good, Made
      <4> QED  BY <1>2, <3>4, <3>5
    <3>7. PICK r : r = items \o t
      OBVIOUS
    <3>8. IsSeq(r)
      BY <3>3, <3>7, Joined
    <3>9. PICK ms : ms = responses_input_to_chat(r, before)
      OBVIOUS
    <3>10. PICK ys : ys = responses_item_to_chat(ms, x)
      OBVIOUS
    <3>11. Carries(u, ms)
      BY <3>6, <3>7, <3>9
    <3>12. Carries(u, ys)
      BY <3>5, <3>10, <3>11, ItemTaken
    <3>13. responses_input_to_chat(Append(r, x), before) = ys
      BY <3>8, <3>9, <3>10, ItemsMore
    <3>14. Append(r, x) = r \o <<x>>
      BY <3>8, Appended
    <3>15. (items \o t) \o <<x>> = items \o (t \o <<x>>)
      <4>1. PICK y : y = <<x>>
        OBVIOUS
      <4>2. IsSeq(y)
        BY <4>1, One
      <4>3. (items \o t) \o y = items \o (t \o y)
        BY <3>3, <4>2, Associates
      <4> QED  BY <4>1, <4>3
    <3>16. Append(r, x) = items \o s
      BY <3>3, <3>7, <3>14, <3>15
    <3> QED  BY <3>12, <3>13, <3>16
  <2> HIDE DEF Good, Made
  <2> QED  BY <2>1
<1>3. Len(ns) \in S
  <2> HIDE DEF S
  <2>1. Nat \subseteq S
    BY <1>1, <1>2, Induct
  <2> QED  BY <2>1, SeqIs
<1>4. Good(ns)
  OBVIOUS
<1> HIDE DEF Good
<1> QED  BY <1>3, <1>4

(* The hub's messages of a list of turns are those of its parts, one after *)
(* the other.                                                              *)
LEMMA AnthropicConverted ==
  ASSUME NEW ts, IsSeq(ts), \A i \in 1..Len(ts) : TurnForm("anthropic", ts[i])
  PROVE  /\ Lists(Each(convert_anthropic_message, ts))
         /\ Len(Each(convert_anthropic_message, ts)) = Len(ts)
         /\ \A i \in 1..Len(ts) :
              Each(convert_anthropic_message, ts)[i] = convert_anthropic_message(ts[i])
<1>1. PICK ss : ss = Each(convert_anthropic_message, ts)
  OBVIOUS
<1>2. DOMAIN ss = DOMAIN ts /\ ss = [i \in DOMAIN ss |-> ss[i]]
      /\ \A i \in DOMAIN ts : ss[i] = convert_anthropic_message(ts[i])
  BY <1>1 DEF Each
<1>3. DOMAIN ts = 1..Len(ts)
  BY SeqIs
<1>4. ASSUME NEW i \in DOMAIN ts PROVE IsSeq(ss[i])
  <2>1. PICK t, ms : t = ts[i] /\ ms = convert_anthropic_message(t)
    OBVIOUS
  <2>2. Content(t.content) /\ PartsForm(t.content.parts)
    BY <1>3, <2>1 DEF TurnForm
  <2>3. Loosely(ms, Spoke(t.role, t.content.parts))
    BY <2>1, <2>2, AnthropicMessageTold
  <2> QED  BY <1>2, <2>1, <2>3 DEF Loosely, Hub
<1>5. Lists(ss) /\ Len(ss) = Len(ts)
  BY <1>2, <1>4, EachLists
<1> QED  BY <1>1, <1>2, <1>3, <1>5

LEMMA GeminiConverted ==
  ASSUME NEW ts, IsSeq(ts), \A i \in 1..Len(ts) : TurnForm("gemini", ts[i])
  PROVE  /\ Lists(Each(gemini_content_to_chat, ts))
         /\ Len(Each(gemini_content_to_chat, ts)) = Len(ts)
         /\ \A i \in 1..Len(ts) :
              Each(gemini_content_to_chat, ts)[i] = gemini_content_to_chat(ts[i])
<1>1. PICK ss : ss = Each(gemini_content_to_chat, ts)
  OBVIOUS
<1>2. DOMAIN ss = DOMAIN ts /\ ss = [i \in DOMAIN ss |-> ss[i]]
      /\ \A i \in DOMAIN ts : ss[i] = gemini_content_to_chat(ts[i])
  BY <1>1 DEF Each
<1>3. DOMAIN ts = 1..Len(ts)
  BY SeqIs
<1>4. ASSUME NEW i \in DOMAIN ts PROVE IsSeq(ss[i])
  <2>1. PICK t, ms : t = ts[i] /\ ms = gemini_content_to_chat(t)
    OBVIOUS
  <2>2. ContentForm(t)
    BY <1>3, <2>1 DEF TurnForm
  <2>3. Hub(ms)
    BY <2>1, <2>2, GeminiContentTold
  <2> QED  BY <1>2, <2>1, <2>3 DEF Hub
<1>5. Lists(ss) /\ Len(ss) = Len(ts)
  BY <1>2, <1>4, EachLists
<1> QED  BY <1>1, <1>2, <1>3, <1>5

(* Lists that are mapped item by item join as their items do.              *)
Maps(g, ts, ss) ==
  /\ IsSeq(ts) /\ Lists(ss) /\ Len(ss) = Len(ts)
  /\ \A i \in 1..Len(ts) : ss[i] = g[ts[i]]

Joins(vs, ts, us) == vs = ts \o us

(* A mapping that is gathered from two lists is gathered from the list of  *)
(* both.                                                                   *)
LEMMA MappedJoin ==
  ASSUME NEW g, NEW ts, NEW ss, NEW us, NEW rr, NEW vs, NEW qq,
         Maps(g, ts, ss), Maps(g, us, rr), Maps(g, vs, qq), Joins(vs, ts, us)
  PROVE  Concat(qq) = Concat(ss) \o Concat(rr)
<1>0. /\ IsSeq(ts) /\ IsSeq(us) /\ Lists(ss) /\ Lists(rr) /\ Lists(qq)
      /\ Len(ss) = Len(ts) /\ Len(rr) = Len(us) /\ Len(qq) = Len(vs)
      /\ \A i \in 1..Len(ts) : ss[i] = g[ts[i]]
      /\ \A i \in 1..Len(us) : rr[i] = g[us[i]]
      /\ \A i \in 1..Len(vs) : qq[i] = g[vs[i]]
  BY DEF Maps
<1>1. /\ IsSeq(vs) /\ Len(vs) = Len(ts) + Len(us) /\ Len(ts) \in Nat /\ Len(us) \in Nat
      /\ \A i \in 1..Len(ts) : vs[i] = ts[i]
      /\ \A i \in 1..Len(us) : vs[Len(ts) + i] = us[i]
  BY <1>0, Joined, SeqIs DEF Joins
<1>2. IsSeq(ss) /\ IsSeq(rr) /\ IsSeq(qq)
  BY <1>0 DEF Lists
<1>3. ASSUME NEW i \in 1..Len(ss) PROVE qq[i] = ss[i]
  <2>1. i \in 1..Len(ts) /\ i \in 1..Len(vs)
    BY <1>0, <1>1
  <2>2. vs[i] = ts[i] /\ qq[i] = g[vs[i]] /\ ss[i] = g[ts[i]]
    BY <1>0, <1>1, <2>1, Zenon
  <2> QED  BY <2>2, Zenon
<1>4. ASSUME NEW i \in 1..Len(rr) PROVE qq[Len(ss) + i] = rr[i]
  <2>0. PICK k : k = Len(ts) + i
    OBVIOUS
  <2>1. i \in 1..Len(us) /\ k \in 1..Len(vs) /\ k = Len(ss) + i
    BY <1>0, <1>1, <2>0
  <2>2. vs[Len(ts) + i] = us[i]
    BY <1>1, <2>1, Zenon
  <2>3. vs[k] = us[i] /\ qq[k] = g[vs[k]] /\ rr[i] = g[us[i]]
    BY <1>0, <2>0, <2>1, <2>2, Zenon
  <2> QED  BY <2>1, <2>3, Zenon
<1>5. Len(qq) = Len(ss) + Len(rr)
  BY <1>0, <1>1
<1>6. qq = ss \o rr
  BY <1>2, <1>3, <1>4, <1>5, Fits
<1> QED  BY <1>0, <1>6, ConcatJoin

-----------------------------------------------------------------------------
(* The Anthropic and the Gemini document, and the four together: a         *)
(* document that was taken and grows by welcome turns is taken.            *)

SuitAll(u, ms) == IsSeq(ms) /\ \A i \in 1..Len(ms) : Suits(u, ms[i])

LEMMA SuitGathered ==
  ASSUME NEW u, NEW ss, Lists(ss), \A i \in 1..Len(ss) : SuitAll(u, ss[i])
  PROVE  SuitAll(u, Concat(ss))
<1> DEFINE T == {m \in UNION {{ss[i][j] : j \in 1..Len(ss[i])} : i \in 1..Len(ss)} :
                   Suits(u, m)}
<1>1. \A i \in 1..Len(ss) : \A j \in 1..Len(ss[i]) : ss[i][j] \in T
  BY DEF SuitAll
<1>2. \A m \in T : Suits(u, m)
  OBVIOUS
<1> HIDE DEF T
<1>3. IsSeq(Concat(ss)) /\ \A j \in 1..Len(Concat(ss)) : Concat(ss)[j] \in T
  BY <1>1, ConcatSeq, Gathered
<1> QED  BY <1>2, <1>3 DEF SuitAll

LEMMA AnthropicJoined ==
  ASSUME NEW ts, NEW us, IsSeq(ts), IsSeq(us), NEW vs, vs = ts \o us,
         \A i \in 1..Len(ts) : TurnForm("anthropic", ts[i]),
         \A i \in 1..Len(us) : TurnForm("anthropic", us[i])
  PROVE  Concat(Each(convert_anthropic_message, vs))
           = Concat(Each(convert_anthropic_message, ts))
               \o Concat(Each(convert_anthropic_message, us))
<1>1. /\ IsSeq(vs) /\ Len(vs) = Len(ts) + Len(us) /\ Len(ts) \in Nat /\ Len(us) \in Nat
      /\ \A i \in 1..Len(ts) : vs[i] = ts[i]
      /\ \A i \in 1..Len(us) : vs[Len(ts) + i] = us[i]
      /\ \A i \in 1..Len(vs) : vs[i] = IF i <= Len(ts) THEN ts[i] ELSE us[i - Len(ts)]
  BY Joined, SeqIs
<1>2. \A i \in 1..Len(vs) : TurnForm("anthropic", vs[i])
  <2>1. TAKE i \in 1..Len(vs)
  <2>2. CASE i <= Len(ts)
    BY <1>1, <2>2
  <2>3. CASE ~(i <= Len(ts))
    <3>1. i - Len(ts) \in 1..Len(us)
      BY <1>1, <2>3
    <3> QED  BY <1>1, <2>3, <3>1
  <2> QED  BY <2>2, <2>3
<1> DEFINE T == {vs[i] : i \in 1..Len(vs)}
           g == [t \in T |-> convert_anthropic_message(t)]
<1>3. \A i \in 1..Len(vs) : vs[i] \in T
  OBVIOUS
<1>4. \A t \in T : g[t] = convert_anthropic_message(t)
  OBVIOUS
<1> HIDE DEF T, g
<1>5. (\A i \in 1..Len(ts) : ts[i] \in T) /\ (\A i \in 1..Len(us) : us[i] \in T)
  <2>1. \A i \in 1..Len(ts) : i \in 1..Len(vs)
    BY <1>1
  <2>2. \A i \in 1..Len(us) : Len(ts) + i \in 1..Len(vs)
    BY <1>1
  <2> QED  BY <1>1, <1>3, <2>1, <2>2
<1>6. PICK ss : ss = Each(convert_anthropic_message, ts)
  OBVIOUS
<1>7. PICK rr : rr = Each(convert_anthropic_message, us)
  OBVIOUS
<1>8. PICK qq : qq = Each(convert_anthropic_message, vs)
  OBVIOUS
<1>9. Lists(ss) /\ Len(ss) = Len(ts) /\ \A i \in 1..Len(ts) : ss[i] = g[ts[i]]
  <2>1. Lists(ss) /\ Len(ss) = Len(ts) /\ \A i \in 1..Len(ts) : ss[i] = convert_anthropic_message(ts[i])
    BY <1>6, AnthropicConverted
  <2> QED  BY <1>4, <1>5, <2>1
<1>10. Lists(rr) /\ Len(rr) = Len(us) /\ \A i \in 1..Len(us) : rr[i] = g[us[i]]
  <2>1. Lists(rr) /\ Len(rr) = Len(us) /\ \A i \in 1..Len(us) : rr[i] = convert_anthropic_message(us[i])
    BY <1>7, AnthropicConverted
  <2> QED  BY <1>4, <1>5, <2>1
<1>11. Lists(qq) /\ Len(qq) = Len(vs) /\ \A i \in 1..Len(vs) : qq[i] = g[vs[i]]
  <2>1. Lists(qq) /\ Len(qq) = Len(vs) /\ \A i \in 1..Len(vs) : qq[i] = convert_anthropic_message(vs[i])
    BY <1>1, <1>2, <1>8, AnthropicConverted
  <2> QED  BY <1>3, <1>4, <2>1
<1>12. Concat(qq) = Concat(ss) \o Concat(rr)
  <2>1. Maps(g, ts, ss) /\ Maps(g, us, rr) /\ Maps(g, vs, qq)
    BY <1>1, <1>9, <1>10, <1>11 DEF Maps
  <2>2. Joins(vs, ts, us)
    BY DEF Joins
  <2> QED  BY <2>1, <2>2, MappedJoin
<1> QED  BY <1>6, <1>7, <1>8, <1>12

LEMMA GeminiJoined ==
  ASSUME NEW ts, NEW us, IsSeq(ts), IsSeq(us), NEW vs, vs = ts \o us,
         \A i \in 1..Len(ts) : TurnForm("gemini", ts[i]),
         \A i \in 1..Len(us) : TurnForm("gemini", us[i])
  PROVE  Concat(Each(gemini_content_to_chat, vs))
           = Concat(Each(gemini_content_to_chat, ts))
               \o Concat(Each(gemini_content_to_chat, us))
<1>1. /\ IsSeq(vs) /\ Len(vs) = Len(ts) + Len(us) /\ Len(ts) \in Nat /\ Len(us) \in Nat
      /\ \A i \in 1..Len(ts) : vs[i] = ts[i]
      /\ \A i \in 1..Len(us) : vs[Len(ts) + i] = us[i]
      /\ \A i \in 1..Len(vs) : vs[i] = IF i <= Len(ts) THEN ts[i] ELSE us[i - Len(ts)]
  BY Joined, SeqIs
<1>2. \A i \in 1..Len(vs) : TurnForm("gemini", vs[i])
  <2>1. TAKE i \in 1..Len(vs)
  <2>2. CASE i <= Len(ts)
    BY <1>1, <2>2
  <2>3. CASE ~(i <= Len(ts))
    <3>1. i - Len(ts) \in 1..Len(us)
      BY <1>1, <2>3
    <3> QED  BY <1>1, <2>3, <3>1
  <2> QED  BY <2>2, <2>3
<1> DEFINE T == {vs[i] : i \in 1..Len(vs)}
           g == [t \in T |-> gemini_content_to_chat(t)]
<1>3. \A i \in 1..Len(vs) : vs[i] \in T
  OBVIOUS
<1>4. \A t \in T : g[t] = gemini_content_to_chat(t)
  OBVIOUS
<1> HIDE DEF T, g
<1>5. (\A i \in 1..Len(ts) : ts[i] \in T) /\ (\A i \in 1..Len(us) : us[i] \in T)
  <2>1. \A i \in 1..Len(ts) : i \in 1..Len(vs)
    BY <1>1
  <2>2. \A i \in 1..Len(us) : Len(ts) + i \in 1..Len(vs)
    BY <1>1
  <2> QED  BY <1>1, <1>3, <2>1, <2>2
<1>6. PICK ss : ss = Each(gemini_content_to_chat, ts)
  OBVIOUS
<1>7. PICK rr : rr = Each(gemini_content_to_chat, us)
  OBVIOUS
<1>8. PICK qq : qq = Each(gemini_content_to_chat, vs)
  OBVIOUS
<1>9. Lists(ss) /\ Len(ss) = Len(ts) /\ \A i \in 1..Len(ts) : ss[i] = g[ts[i]]
  <2>1. Lists(ss) /\ Len(ss) = Len(ts) /\ \A i \in 1..Len(ts) : ss[i] = gemini_content_to_chat(ts[i])
    BY <1>6, GeminiConverted
  <2> QED  BY <1>4, <1>5, <2>1
<1>10. Lists(rr) /\ Len(rr) = Len(us) /\ \A i \in 1..Len(us) : rr[i] = g[us[i]]
  <2>1. Lists(rr) /\ Len(rr) = Len(us) /\ \A i \in 1..Len(us) : rr[i] = gemini_content_to_chat(us[i])
    BY <1>7, GeminiConverted
  <2> QED  BY <1>4, <1>5, <2>1
<1>11. Lists(qq) /\ Len(qq) = Len(vs) /\ \A i \in 1..Len(vs) : qq[i] = g[vs[i]]
  <2>1. Lists(qq) /\ Len(qq) = Len(vs) /\ \A i \in 1..Len(vs) : qq[i] = gemini_content_to_chat(vs[i])
    BY <1>1, <1>2, <1>8, GeminiConverted
  <2> QED  BY <1>3, <1>4, <2>1
<1>12. Concat(qq) = Concat(ss) \o Concat(rr)
  <2>1. Maps(g, ts, ss) /\ Maps(g, us, rr) /\ Maps(g, vs, qq)
    BY <1>1, <1>9, <1>10, <1>11 DEF Maps
  <2>2. Joins(vs, ts, us)
    BY DEF Joins
  <2> QED  BY <2>1, <2>2, MappedJoin
<1> QED  BY <1>6, <1>7, <1>8, <1>12

HubDoc(c, d) ==
  CASE c = "chat" -> d.turns
    [] c = "responses" -> responses_input_to_chat(d.turns, Instructions(d.system))
    [] c = "anthropic" -> AnthropicHub(d)
    [] c = "gemini" -> GeminiDoc(d)

(* A turn of a client that an upstream takes wherever it stands.           *)
Welcome(c, u, t) ==
  /\ TurnForm(c, t)
  /\ c = "chat" => Suits(u, t)
  /\ c = "responses" => ItemGoesOn(u, t)
  /\ c = "anthropic" => SuitAll(u, convert_anthropic_message(t))
  /\ c = "gemini" => SuitAll(u, gemini_content_to_chat(t))

WelcomeAll(c, u, ts) == IsSeq(ts) /\ \A i \in 1..Len(ts) : Welcome(c, u, ts[i])

Prolongs(e, d, more) == e.system = d.system /\ e.turns = d.turns \o more

LEMMA PromptSeq ==
  ASSUME NEW system, PlainParts(system)
  PROVE  IsSeq(Prompt(system))
<1>1. Tells(Prompt(system), Spoke("system", system))
  BY PromptTold
<1> QED  BY <1>1 DEF Tells, Hub

LEMMA AnthropicHubGrows ==
  ASSUME NEW u, NEW d, Worded("anthropic", d), Takes(u, AnthropicHub(d)),
         NEW more, WelcomeAll("anthropic", u, more), NEW e, Prolongs(e, d, more)
  PROVE  Takes(u, AnthropicHub(e))
<1>1. PICK ts, vs, sys : ts = d.turns /\ vs = e.turns /\ sys = d.system
  OBVIOUS
<1>2. /\ IsSeq(ts) /\ PlainParts(sys) /\ e.system = sys /\ vs = ts \o more
      /\ \A i \in 1..Len(ts) : TurnForm("anthropic", ts[i])
  <2>1. \A i \in DOMAIN d.turns : TurnForm("anthropic", d.turns[i])
    BY DEF Worded
  <2>2. IsSeq(d.turns) /\ PlainParts(d.system)
    BY DEF Worded
  <2>3. DOMAIN ts = 1..Len(ts)
    BY <1>1, <2>2, SeqIs
  <2> QED  BY <1>1, <2>1, <2>2, <2>3 DEF Prolongs
<1>3. /\ IsSeq(more) /\ \A i \in 1..Len(more) : TurnForm("anthropic", more[i])
      /\ \A i \in 1..Len(more) : SuitAll(u, convert_anthropic_message(more[i]))
  BY DEF WelcomeAll, Welcome
<1>4. PICK p : p = Prompt(sys)
  OBVIOUS
<1>5. PICK ss : ss = Each(convert_anthropic_message, ts)
  OBVIOUS
<1>6. PICK rr : rr = Each(convert_anthropic_message, more)
  OBVIOUS
<1>7. PICK qq : qq = Each(convert_anthropic_message, vs)
  OBVIOUS
<1>8. Concat(qq) = Concat(ss) \o Concat(rr)
  BY <1>2, <1>3, <1>5, <1>6, <1>7, AnthropicJoined
<1>9. Lists(ss)
  BY <1>2, <1>5, AnthropicConverted
<1>10. Lists(rr) /\ Len(rr) = Len(more) /\ \A i \in 1..Len(more) : rr[i] = convert_anthropic_message(more[i])
  BY <1>3, <1>6, AnthropicConverted
<1>11. PICK s, r : s = Concat(ss) /\ r = Concat(rr)
  OBVIOUS
<1>12. IsSeq(p) /\ IsSeq(s)
  BY <1>2, <1>4, <1>9, <1>11, PromptSeq, ConcatSeq
<1>13. SuitAll(u, r)
  <2>1. \A i \in 1..Len(rr) : SuitAll(u, rr[i])
    BY <1>3, <1>10
  <2> QED  BY <1>10, <1>11, <2>1, SuitGathered
<1>14. AnthropicHub(d) = p \o s /\ AnthropicHub(e) = p \o (s \o r)
  BY <1>1, <1>2, <1>4, <1>5, <1>7, <1>8, <1>11 DEF AnthropicHub
<1>15. (p \o s) \o r = p \o (s \o r)
  BY <1>12, <1>13, Associates DEF SuitAll
<1>16. PICK ms : ms = p \o s
  OBVIOUS
<1>17. Takes(u, ms \o r)
  BY <1>13, <1>14, <1>16, TakesAll DEF SuitAll
<1> QED  BY <1>14, <1>15, <1>16, <1>17

LEMMA GeminiDocGrows ==
  ASSUME NEW u, NEW d, Worded("gemini", d), Takes(u, GeminiDoc(d)),
         NEW more, WelcomeAll("gemini", u, more), NEW e, Prolongs(e, d, more)
  PROVE  Takes(u, GeminiDoc(e))
<1>1. PICK ts, vs, sys : ts = d.turns /\ vs = e.turns /\ sys = d.system
  OBVIOUS
<1>2. /\ IsSeq(ts) /\ PlainParts(sys) /\ e.system = sys /\ vs = ts \o more
      /\ \A i \in 1..Len(ts) : TurnForm("gemini", ts[i])
  <2>1. \A i \in DOMAIN d.turns : TurnForm("gemini", d.turns[i])
    BY DEF Worded
  <2>2. IsSeq(d.turns) /\ PlainParts(d.system)
    BY DEF Worded
  <2>3. DOMAIN ts = 1..Len(ts)
    BY <1>1, <2>2, SeqIs
  <2> QED  BY <1>1, <2>1, <2>2, <2>3 DEF Prolongs
<1>3. /\ IsSeq(more) /\ \A i \in 1..Len(more) : TurnForm("gemini", more[i])
      /\ \A i \in 1..Len(more) : SuitAll(u, gemini_content_to_chat(more[i]))
  BY DEF WelcomeAll, Welcome
<1>4. PICK p : p = Prompt(sys)
  OBVIOUS
<1>5. PICK ss : ss = Each(gemini_content_to_chat, ts)
  OBVIOUS
<1>6. PICK rr : rr = Each(gemini_content_to_chat, more)
  OBVIOUS
<1>7. PICK qq : qq = Each(gemini_content_to_chat, vs)
  OBVIOUS
<1>8. Concat(qq) = Concat(ss) \o Concat(rr)
  BY <1>2, <1>3, <1>5, <1>6, <1>7, GeminiJoined
<1>9. Lists(ss)
  BY <1>2, <1>5, GeminiConverted
<1>10. Lists(rr) /\ Len(rr) = Len(more) /\ \A i \in 1..Len(more) : rr[i] = gemini_content_to_chat(more[i])
  BY <1>3, <1>6, GeminiConverted
<1>11. PICK s, r : s = Concat(ss) /\ r = Concat(rr)
  OBVIOUS
<1>12. IsSeq(p) /\ IsSeq(s)
  BY <1>2, <1>4, <1>9, <1>11, PromptSeq, ConcatSeq
<1>13. SuitAll(u, r)
  <2>1. \A i \in 1..Len(rr) : SuitAll(u, rr[i])
    BY <1>3, <1>10
  <2> QED  BY <1>10, <1>11, <2>1, SuitGathered
<1>14. GeminiDoc(d) = p \o s /\ GeminiDoc(e) = p \o (s \o r)
  BY <1>1, <1>2, <1>4, <1>5, <1>7, <1>8, <1>11 DEF GeminiDoc
<1>15. (p \o s) \o r = p \o (s \o r)
  BY <1>12, <1>13, Associates DEF SuitAll
<1>16. PICK ms : ms = p \o s
  OBVIOUS
<1>17. Takes(u, ms \o r)
  BY <1>13, <1>14, <1>16, TakesAll DEF SuitAll
<1> QED  BY <1>14, <1>15, <1>16, <1>17

LEMMA ResponsesHubGrows ==
  ASSUME NEW u \in Format, u # "responses", NEW d, Worded("responses", d),
         NEW ms, ms = responses_input_to_chat(d.turns, Instructions(d.system)), Takes(u, ms),
         NEW more, WelcomeAll("responses", u, more), NEW e, Prolongs(e, d, more)
  PROVE  Takes(u, responses_input_to_chat(e.turns, Instructions(e.system)))
<1>1. PICK ts, before : ts = d.turns /\ before = Instructions(d.system)
  OBVIOUS
<1>2. IsSeq(ts)
  BY <1>1 DEF Worded
<1>3. AllTidy(ms)
  BY ResponsesTold DEF Tells
<1>4. Carries(u, responses_input_to_chat(ts, before))
  BY <1>1, <1>3 DEF Carries
<1>5. IsSeq(more) /\ \A i \in 1..Len(more) : ItemForm(more[i]) /\ ItemGoesOn(u, more[i])
  BY DEF WelcomeAll, Welcome, TurnForm
<1>6. Carries(u, responses_input_to_chat(ts \o more, before))
  BY <1>2, <1>4, <1>5, ItemsTaken
<1>7. e.turns = ts \o more /\ Instructions(e.system) = before
  BY <1>1 DEF Prolongs
<1> QED  BY <1>6, <1>7 DEF Carries

(* A document that a target takes at the hub is still taken when turns     *)
(* that are welcome are added to it, in every dialect.                     *)
LEMMA HubGrows ==
  ASSUME NEW c \in Format, NEW u \in Format, c # u, NEW d, Worded(c, d),
         Takes(u, HubDoc(c, d)), NEW more, WelcomeAll(c, u, more), NEW e, Prolongs(e, d, more)
  PROVE  Takes(u, HubDoc(c, e))
<1>1. CASE c = "chat"
  <2>1. HubDoc(c, d) = d.turns /\ HubDoc(c, e) = e.turns
    BY <1>1 DEF HubDoc
  <2>2. PICK ts : ts = d.turns
    OBVIOUS
  <2>3. IsSeq(more) /\ \A i \in 1..Len(more) : Suits(u, more[i])
    BY <1>1 DEF WelcomeAll, Welcome
  <2>4. Takes(u, ts \o more)
    BY <2>1, <2>2, <2>3, TakesAll
  <2> QED  BY <2>1, <2>2, <2>4 DEF Prolongs
<1>2. CASE c = "responses"
  <2>1. /\ HubDoc(c, d) = responses_input_to_chat(d.turns, Instructions(d.system))
        /\ HubDoc(c, e) = responses_input_to_chat(e.turns, Instructions(e.system))
    BY <1>2 DEF HubDoc
  <2>2. PICK ms : ms = HubDoc(c, d)
    OBVIOUS
  <2>3. Worded("responses", d) /\ WelcomeAll("responses", u, more) /\ u # "responses"
    BY <1>2
  <2> QED  BY <2>1, <2>2, <2>3, ResponsesHubGrows
<1>3. CASE c = "anthropic"
  <2>1. HubDoc(c, d) = AnthropicHub(d) /\ HubDoc(c, e) = AnthropicHub(e)
    BY <1>3 DEF HubDoc
  <2>2. Worded("anthropic", d) /\ WelcomeAll("anthropic", u, more)
    BY <1>3
  <2> QED  BY <2>1, <2>2, AnthropicHubGrows
<1>4. CASE c = "gemini"
  <2>1. HubDoc(c, d) = GeminiDoc(d) /\ HubDoc(c, e) = GeminiDoc(e)
    BY <1>4 DEF HubDoc
  <2>2. Worded("gemini", d) /\ WelcomeAll("gemini", u, more)
    BY <1>4
  <2> QED  BY <2>1, <2>2, GeminiDocGrows
<1> QED  BY <1>1, <1>2, <1>3, <1>4 DEF Format

-----------------------------------------------------------------------------
(* A reply is never nothing: what a target says is something to deal with. *)

(* One list that is not empty, among lists joined.                         *)
LEMMA ConcatSome ==
  ASSUME NEW ss, Lists(ss), NEW i \in 1..Len(ss), ss[i] # <<>>
  PROVE  Concat(ss) # <<>>
<1>1. Len(ss) \in Nat
  BY SeqIs DEF Lists
<1>2. PICK f : /\ f[0] = <<>> /\ \A k \in 1..Len(ss) : f[k] = f[k - 1] \o ss[k]
               /\ Concat(ss) = f[Len(ss)]
               /\ \A k \in 0..Len(ss) : IsSeq(f[k])
  BY Grown
<1>3. PICK S : S = {n \in Nat : (i <= n /\ n <= Len(ss)) => f[n] # <<>>}
  OBVIOUS
<1>4. 0 \in S
  BY <1>1, <1>3
<1>5. ASSUME NEW n \in Nat, n \in S PROVE n + 1 \in S
  <2>1. ASSUME i <= n + 1, n + 1 <= Len(ss) PROVE f[n + 1] # <<>>
    <3>1. n + 1 \in 1..Len(ss) /\ (n + 1) - 1 = n /\ n \in 0..Len(ss)
      BY <1>1, <2>1
    <3>2. PICK a, b, c : a = f[n] /\ b = ss[n + 1] /\ c = f[n + 1]
      OBVIOUS
    <3>3. c = a \o b /\ IsSeq(a) /\ IsSeq(b)
      BY <1>2, <3>1, <3>2 DEF Lists
    <3>4. a # <<>> \/ b # <<>>
      <4>1. CASE i <= n
        BY <1>3, <1>5, <3>1, <3>2, <4>1
      <4>2. CASE i = n + 1
        BY <3>2, <4>2
      <4> QED  BY <2>1, <4>1, <4>2
    <3>5. c # <<>>
      BY <3>3, <3>4, JoinedNone
    <3> QED  BY <3>2, <3>5
  <2> QED  BY <1>3, <2>1
<1>6. Len(ss) \in S
  <2>1. Nat \subseteq S
    BY <1>4, <1>5, Induct
  <2> QED  BY <1>1, <2>1
<1> QED  BY <1>1, <1>2, <1>3, <1>6

(* A turn with a call or a result in it.                                   *)
Deals(c, t) == Kind(Turn(c, t), Dealing) # <<>>
SomeDeal(c, ts) == \E i \in 1..Len(ts) : Deals(c, ts[i])

LEMMA TurnIsSeq ==
  ASSUME NEW c \in Format, NEW t, TurnForm(c, t)
  PROVE  IsSeq(Turn(c, t))
<1>1. CASE c = "chat"
  BY <1>1, ChatTurnSays DEF Turn, TurnForm
<1>2. CASE c = "responses"
  <2>1. PICK ms : ms = <<>> /\ Hub(ms) /\ ~AnyBad(ms) /\ AllTidy(ms)
    <3>1. ~AnyBad(<<>>) /\ AllTidy(<<>>)
      BY Empty DEF AnyBad, AllTidy
    <3> QED  BY <3>1, HubNone
  <2>2. IsSeq(ResponsesTurn(t))
    BY <1>2, <2>1, ResponsesItem DEF TurnForm
  <2> QED  BY <1>2, <2>2 DEF Turn
<1>3. CASE c = "anthropic"
  <2>1. PlainParts(t.content.parts)
    BY <1>3, PartsPlain DEF TurnForm
  <2>2. IsSeq(Spoke(t.role, t.content.parts))
    BY <2>1, SpokeSeq
  <2> QED  BY <1>3, <2>2 DEF Turn
<1>4. CASE c = "gemini"
  <2>1. PlainParts(t.parts)
    BY <1>4, PartsPlain DEF TurnForm, ContentForm
  <2>2. IsSeq(Spoke(Speaker(t.role), t.parts))
    BY <2>1, SpokeSeq
  <2> QED  BY <1>4, <2>2 DEF Turn
<1> QED  BY <1>1, <1>2, <1>3, <1>4 DEF Format

(* A turn that deals with a call is heard in what its document says.       *)
LEMMA DealIsHeard ==
  ASSUME NEW c, NEW ts, Vocal(c, ts), SomeDeal(c, ts)
  PROVE  Kind(Heard(c, ts), Dealing) # <<>>
<1>1. PICK ss : /\ ss = Voiced(c, ts) /\ Lists(ss) /\ Len(ss) = Len(ts)
                /\ \A i \in 1..Len(ts) : ss[i] = Turn(c, ts[i])
  BY VoicedLists
<1>2. PICK rr : rr = [i \in DOMAIN ss |-> Kind(ss[i], Dealing)]
  OBVIOUS
<1>3. Kind(Concat(ss), Dealing) = Concat(rr) /\ Lists(rr)
  BY <1>1, <1>2, KindConcat
<1>4. DOMAIN ss = 1..Len(ss) /\ IsSeq(ss)
  BY <1>1, SeqIs DEF Lists
<1>5. Len(rr) = Len(ss)
  <2>1. DOMAIN rr = DOMAIN ss /\ rr = [i \in DOMAIN rr |-> rr[i]]
    BY <1>2
  <2> QED  BY <1>4, <2>1, Imaged
<1>6. PICK i \in 1..Len(ts) : Kind(Turn(c, ts[i]), Dealing) # <<>>
  BY DEF SomeDeal, Deals
<1>7. i \in 1..Len(rr) /\ rr[i] # <<>>
  BY <1>1, <1>2, <1>4, <1>5, <1>6
<1>8. Concat(rr) # <<>>
  BY <1>3, <1>7, ConcatSome
<1> QED  BY <1>1, <1>3, <1>8 DEF Heard

LEMMA SystemIsSeq ==
  ASSUME NEW c \in Format, NEW d, Worded(c, d)
  PROVE  \E told : IsSeq(told) /\ Speech(c, d) = told \o Heard(c, d.turns)
<1>1. CASE c = "responses"
  <2>1. PICK told : told = Concat(Instructed(d.system))
    OBVIOUS
  <2>2. IsSeq(told)
    BY <1>1, <2>1, InstructionsTold DEF Worded
  <2>3. Speech(c, d) = told \o Heard(c, d.turns)
    BY <1>1, <2>1, Zenon DEF Speech, Heard, Voiced, Instructed
  <2> QED  BY <2>2, <2>3
<1>2. CASE c # "responses"
  <2>1. PlainParts(d.system)
    <3>1. CASE c = "chat"
      <4>1. d.system = <<>>
        BY <3>1 DEF Worded
      <4> QED  BY <4>1, Empty DEF PlainParts
    <3>2. CASE c \in {"anthropic", "gemini"}
      BY <3>2 DEF Worded
    <3> QED  BY <1>2, <3>1, <3>2 DEF Format
  <2>2. IsSeq(Spoke("system", d.system))
    BY <2>1, SpokeSeq
  <2>3. Speech(c, d) = Spoke("system", d.system) \o Heard(c, d.turns)
    BY <1>2, Zenon DEF Speech, Heard, Voiced
  <2> QED  BY <2>2, <2>3
<1> QED  BY <1>1, <1>2

(* A document with such a turn has calls or results in its speech.         *)
LEMMA TrafficHeard ==
  ASSUME NEW c \in Format, NEW d, Worded(c, d), SomeDeal(c, d.turns)
  PROVE  Traffic(Speech(c, d)) # <<>>
<1>1. PICK ts : ts = d.turns
  OBVIOUS
<1>2. Vocal(c, ts)
  <2>1. IsSeq(ts) /\ DOMAIN ts = 1..Len(ts) /\ \A i \in DOMAIN ts : TurnForm(c, ts[i])
    BY <1>1, SeqIs DEF Worded
  <2> QED  BY <2>1, TurnIsSeq DEF Vocal
<1>3. PICK told, heard : IsSeq(told) /\ heard = Heard(c, ts) /\ Speech(c, d) = told \o heard
  BY <1>1, SystemIsSeq
<1>4. IsSeq(heard) /\ Kind(heard, Dealing) # <<>>
  BY <1>1, <1>2, <1>3, DealIsHeard, VoicedLists
<1>5. PICK a, b : a = Kind(told, Dealing) /\ b = Kind(heard, Dealing)
  OBVIOUS
<1>6. Kind(told \o heard, Dealing) = a \o b /\ IsSeq(a) /\ IsSeq(b)
  <2>1. IsSeq(told) /\ IsSeq(heard)
    BY <1>3, <1>4
  <2>2. /\ Kind(told \o heard, Dealing) = Kind(told, Dealing) \o Kind(heard, Dealing)
        /\ IsSeq(Kind(told, Dealing)) /\ IsSeq(Kind(heard, Dealing))
    BY <2>1, KindJoin
  <2> QED  BY <1>5, <2>2
<1>7. a \o b # <<>>
  BY <1>4, <1>5, <1>6, JoinedNone
<1> QED  BY <1>3, <1>6, <1>7, ProseIs

LEMMA DealJoined ==
  ASSUME NEW c, NEW s, NEW t, IsSeq(s), IsSeq(t), SomeDeal(c, s) \/ SomeDeal(c, t)
  PROVE  SomeDeal(c, s \o t)
<1>1. PICK r : r = s \o t
  OBVIOUS
<1>2. /\ Len(r) = Len(s) + Len(t) /\ Len(s) \in Nat /\ Len(t) \in Nat
      /\ \A i \in 1..Len(s) : r[i] = s[i]
      /\ \A i \in 1..Len(t) : r[Len(s) + i] = t[i]
  BY <1>1, Joined, SeqIs
<1>3. CASE SomeDeal(c, s)
  <2>1. PICK i \in 1..Len(s) : Deals(c, s[i])
    BY <1>3 DEF SomeDeal
  <2>2. i \in 1..Len(r) /\ r[i] = s[i]
    BY <1>2
  <2> QED  BY <1>1, <2>1, <2>2 DEF SomeDeal
<1>4. CASE SomeDeal(c, t)
  <2>1. PICK i \in 1..Len(t) : Deals(c, t[i])
    BY <1>4 DEF SomeDeal
  <2>2. Len(s) + i \in 1..Len(r) /\ r[Len(s) + i] = t[i]
    BY <1>2
  <2> QED  BY <1>1, <2>1, <2>2 DEF SomeDeal
<1> QED  BY <1>3, <1>4

=============================================================================
