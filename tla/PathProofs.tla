----------------------------- MODULE PathProofs -----------------------------
(***************************************************************************)
(* What normalising a path computes, for every path: an induction over its *)
(* components.  The induction rests on the least-number principle, in the  *)
(* form of WFMin: a set of numbers has a least element.                    *)
(***************************************************************************)
EXTENDS Workspace, ZoneProofs, SequenceTheorems, WellFoundedInduction

LEMMA LeastNumber ==
  ASSUME NEW T, T \subseteq Nat, T # {}
  PROVE  \E n \in T : \A m \in T : n <= m
<1> DEFINE R == OpToRel(<, Nat)
<1>1. IsWellFoundedOn(R, Nat)
  BY NatLessThanWellFounded
<1>2. \A m, n \in Nat : m < n => <<m, n>> \in R
  BY DEF OpToRel
<1> HIDE DEF R
<1>3. PICK n \in T : \A m \in T : ~(<<m, n>> \in R)
  BY <1>1, WFMin
<1>4. \A m \in T : n <= m
  <2>1. \A m \in T : ~(m < n)
    BY <1>2, <1>3
  <2>. QED
    BY <2>1
<1>. QED
  BY <1>4

\* A set that has 0 and, with each number below n, the next one has n.
LEMMA Induction ==
  ASSUME NEW n \in Nat, NEW G, 0 \in G, \A i \in 0 .. n - 1 : i \in G => i + 1 \in G
  PROVE  n \in G
<1> SUFFICES ASSUME n \notin G PROVE FALSE
  OBVIOUS
<1> DEFINE T == {i \in 0 .. n : i \notin G}
<1>1. T \subseteq Nat /\ n \in T
  OBVIOUS
<1>2. PICK k \in T : \A m \in T : k <= m
  <2> HIDE DEF T
  <2>. QED
    BY <1>1, LeastNumber
<1>3. k \in 0 .. n /\ k # 0 /\ k \notin G
  BY <1>2
<1>4. k - 1 \in 0 .. n - 1 /\ k - 1 \notin T /\ (k - 1) + 1 = k
  BY <1>2, <1>3
<1>5. k - 1 \in G
  BY <1>4
<1>. QED
  BY <1>3, <1>4, <1>5

-----------------------------------------------------------------------------
LEMMA GoIsPath ==
  ASSUME NEW q \in Seq(STRING), NEW c \in STRING
  PROVE  Go(q, c) \in Seq(STRING)
<1>1. Append(q, c) \in Seq(STRING)
  BY AppendProperties
<1>2. q # <<>> => SubSeq(q, 1, Len(q) - 1) \in Seq(STRING)
  OBVIOUS
<1>. QED
  BY <1>1, <1>2 DEF Go, SX!Front

\* f[j] is where the first j components of p lead.
Walks(f, n, p) ==
  /\ f \in [0 .. n -> Seq(STRING)] /\ f[0] = <<>>
  /\ \A j \in 1 .. n : f[j] = Go(f[j - 1], p[j])

\* There is a walk along every path ...
LEMMA WalkExists ==
  ASSUME NEW p \in Seq(STRING)
  PROVE  \E f : Walks(f, Len(p), p)
<1> DEFINE n == Len(p)
           G == {i \in 0 .. n : \E f : Walks(f, i, p)}
<1>0. n \in Nat /\ \A j \in 1 .. n : p[j] \in STRING
  OBVIOUS
<1> HIDE DEF n
<1>1. 0 \in G
  <2>1. Walks([j \in 0 .. 0 |-> <<>>], 0, p)
    BY DEF Walks
  <2>. QED
    BY <2>1, <1>0
<1>2. ASSUME NEW i \in 0 .. n - 1, i \in G PROVE i + 1 \in G
  <2>0. i \in Nat /\ i + 1 \in 0 .. n /\ i + 1 \in 1 .. n
    BY <1>0
  <2>1. PICK f : Walks(f, i, p)
    BY <1>2
  <2> DEFINE new == Go(f[i], p[i + 1])
             g == [j \in 0 .. i + 1 |-> IF j = i + 1 THEN new ELSE f[j]]
  <2>2. new \in Seq(STRING)
    <3>1. f[i] \in Seq(STRING) /\ p[i + 1] \in STRING
      BY <2>0, <2>1, <1>0 DEF Walks
    <3>. QED
      BY <3>1, GoIsPath
  <2>3. ASSUME NEW j \in 1 .. i + 1 PROVE g[j] = Go(g[j - 1], p[j])
    <3>1. CASE j = i + 1
      <4>1. g[j] = new /\ g[j - 1] = f[i]
        BY <3>1, <2>0
      <4>. QED
        BY <3>1, <4>1
    <3>2. CASE j # i + 1
      <4>1. j \in 1 .. i
        BY <3>2, <2>0
      <4>2. g[j] = f[j] /\ g[j - 1] = f[j - 1]
        BY <4>1, <2>0
      <4>. QED
        BY <4>1, <4>2, <2>1 DEF Walks
    <3>. QED
      BY <3>1, <3>2
  <2>4. g \in [0 .. i + 1 -> Seq(STRING)] /\ g[0] = <<>>
    <3> HIDE DEF new
    <3>. QED
      BY <2>0, <2>1, <2>2 DEF Walks
  <2> HIDE DEF g
  <2>5. Walks(g, i + 1, p)
    BY <2>3, <2>4 DEF Walks
  <2>. QED
    BY <2>5, <2>0
<1>3. n \in G
  <2> HIDE DEF G
  <2>. QED
    BY <1>0, <1>1, <1>2, Induction
<1>. QED
  BY <1>3 DEF n

\* ... and Normal is where it ends.
LEMMA NormalWalks ==
  ASSUME NEW p \in Seq(STRING)
  PROVE  \E f : Walks(f, Len(p), p) /\ Normal(p) = f[Len(p)]
<1> DEFINE n == Len(p)
           Def(g) == [i \in 0 .. n |-> IF i = 0 THEN <<>> ELSE Go(g[i - 1], p[i])]
           walked == CHOOSE g : g = Def(g)
<1>0. n \in Nat /\ \A j \in 1 .. n : p[j] \in STRING
  OBVIOUS
<1>1. PICK f : Walks(f, n, p)
  BY WalkExists
<1>2. f = Def(f)
  BY <1>0, <1>1 DEF Walks
<1>3. walked = Def(walked)
  BY <1>2
<1>4. Normal(p) = walked[n]
  BY DEF Normal
<1> HIDE DEF walked
<1>5. walked[0] = <<>> /\ \A j \in 1 .. n : walked[j] = Go(walked[j - 1], p[j])
  BY <1>0, <1>3
<1> DEFINE G == {i \in 0 .. n : walked[i] \in Seq(STRING)}
<1>6. walked \in [0 .. n -> Seq(STRING)]
  <2> SUFFICES ASSUME NEW m \in 0 .. n PROVE m \in G
    BY <1>3
  <2>1. 0 \in G
    <3>1. walked[0] \in Seq(STRING)
      BY <1>5, EmptySeq
    <3>. QED
      BY <1>0, <3>1
  <2>2. ASSUME NEW i \in 0 .. m - 1, i \in G PROVE i + 1 \in G
    <3>1. i + 1 \in 0 .. n /\ (i + 1) - 1 = i /\ i + 1 \in 1 .. n
      BY <1>0
    <3>2. walked[i + 1] = Go(walked[i], p[i + 1])
      BY <3>1, <1>5
    <3>. QED
      BY <2>2, <3>1, <3>2, <1>0, GoIsPath
  <2>3. m \in Nat
    BY <1>0
  <2> HIDE DEF G
  <2>. QED
    BY <2>1, <2>2, <2>3, Induction
<1>. QED
  BY <1>4, <1>5, <1>6 DEF Walks

LEMMA NormalIsPath ==
  ASSUME NEW p \in Seq(STRING)
  PROVE  Normal(p) \in Seq(STRING)
<1>1. PICK f : Walks(f, Len(p), p) /\ Normal(p) = f[Len(p)]
  BY NormalWalks
<1>. QED
  BY <1>1 DEF Walks

\* One component other than "." and ".." is normal as it is.
LEMMA NormalOfOne ==
  ASSUME NEW p \in Paths, TopLevel(p), Dotless(p)
  PROVE  Normal(p) = p
<1>1. PICK f : Walks(f, Len(p), p) /\ Normal(p) = f[Len(p)]
  BY NormalWalks DEF Paths
<1>2. Len(p) = 1 /\ f[0] = <<>> /\ f[1] = Go(f[0], p[1])
  BY <1>1 DEF Walks, TopLevel
<1>3. f[1] = Append(<<>>, p[1])
  BY <1>2 DEF Go, Dotless
<1>4. Append(<<>>, p[1]) = p
  BY <1>2 DEF Paths
<1>. QED
  BY <1>1, <1>2, <1>3, <1>4

\* "." is left nowhere in a normal path, and ".." at its beginning only.
Canonical(q) ==
  \A i \in 1 .. Len(q) : q[i] # "." /\ (q[i] = ".." => \A j \in 1 .. i : q[j] = "..")

LEMMA GoIsCanonical ==
  ASSUME NEW q \in Seq(STRING), Canonical(q), NEW c \in STRING
  PROVE  Canonical(Go(q, c))
<1>1. Len(q) \in Nat
  OBVIOUS
<1>4. CASE c = "."
  BY <1>4 DEF Go
<1>2. CASE c = ".." /\ q # <<>> /\ SX!Last(q) # ".."
  <2>1. Go(q, c) = SubSeq(q, 1, Len(q) - 1)
    BY <1>2 DEF Go, SX!Front
  <2> DEFINE k == Len(q) - 1
  <2>2. k \in Nat /\ \A i \in 1 .. k : q[i] \in STRING
    BY <1>1, <1>2
  <2>3. /\ Len(SubSeq(q, 1, k)) = k
        /\ \A i \in 1 .. k : SubSeq(q, 1, k)[i] = q[i]
    <3> HIDE DEF k
    <3>. QED
      BY <2>2, SubSeqProperties
  <2>. QED
    BY <1>1, <2>1, <2>3 DEF Canonical
<1>3. CASE c # "." /\ ~(c = ".." /\ q # <<>> /\ SX!Last(q) # "..")
  <2> DEFINE a == Append(q, c)
  <2>1. /\ Go(q, c) = a /\ Len(a) = Len(q) + 1 /\ a[Len(q) + 1] = c
        /\ \A i \in 1 .. Len(q) : a[i] = q[i]
    BY <1>3, AppendProperties DEF Go
  <2> HIDE DEF a
  <2>2. c = ".." => \A j \in 1 .. Len(q) : q[j] = ".."
    <3>1. CASE q = <<>>
      BY <3>1
    <3>2. CASE q # <<>> /\ c = ".."
      <4>1. Len(q) \in 1 .. Len(q) /\ q[Len(q)] = ".."
        BY <1>1, <1>3, <3>2, EmptySeq DEF SX!Last
      <4>. QED
        BY <4>1 DEF Canonical
    <3>. QED
      BY <3>1, <3>2
  <2>3. ASSUME NEW i \in 1 .. Len(q) + 1, a[i] = "..", NEW j \in 1 .. i PROVE a[j] = ".."
    <3>1. CASE i = Len(q) + 1
      BY <1>1, <2>1, <2>2, <2>3, <3>1
    <3>2. CASE i # Len(q) + 1
      <4>1. i \in 1 .. Len(q) /\ j \in 1 .. Len(q)
        BY <1>1, <3>2
      <4>. QED
        BY <2>1, <2>3, <4>1 DEF Canonical
    <3>. QED
      BY <3>1, <3>2
  <2>4. \A i \in 1 .. Len(q) + 1 : a[i] # "."
    BY <1>1, <1>3, <2>1 DEF Canonical
  <2>. QED
    BY <2>1, <2>3, <2>4 DEF Canonical
<1>. QED
  BY <1>2, <1>3, <1>4

LEMMA NormalIsCanonical ==
  ASSUME NEW p \in Seq(STRING)
  PROVE  Canonical(Normal(p))
<1> DEFINE n == Len(p)
<1>0. n \in Nat /\ \A j \in 1 .. n : p[j] \in STRING
  OBVIOUS
<1>1. PICK f : Walks(f, n, p) /\ Normal(p) = f[n]
  BY NormalWalks
<1> DEFINE G == {i \in 0 .. n : Canonical(f[i])}
<1> HIDE DEF n
<1>2. 0 \in G
  <2>1. Canonical(<<>>)
    BY DEF Canonical
  <2>. QED
    BY <1>0, <1>1, <2>1 DEF Walks
<1>3. ASSUME NEW i \in 0 .. n - 1, i \in G PROVE i + 1 \in G
  <2>1. i \in 0 .. n /\ i + 1 \in 0 .. n /\ i + 1 \in 1 .. n /\ (i + 1) - 1 = i
    BY <1>0
  <2>2. f[i + 1] = Go(f[i], p[i + 1]) /\ f[i] \in Seq(STRING) /\ p[i + 1] \in STRING
    BY <1>0, <1>1, <2>1 DEF Walks
  <2>3. Canonical(f[i + 1])
    BY <1>3, <2>2, GoIsCanonical
  <2>. QED
    BY <2>1, <2>3
<1>4. n \in G
  <2> HIDE DEF G
  <2>. QED
    BY <1>0, <1>2, <1>3, Induction
<1>. QED
  BY <1>1, <1>4

\* What validate_path lets pass has, once it is normalised, no "." and no ".."
\* left in it, however the path that a client writes goes up and down: after the
\* zone's directory, with which it begins, it only goes further down.
THEOREM NothingLeadsUp ==
  ASSUME NEW s \in Sessions, path[s] \in Names, NEW p \in Seq(STRING), Inside(s, p)
  PROVE  Dotless(Normal(p))
<1> DEFINE q == Normal(p)
           z == path[s]
<1>0. z \in Paths /\ z[1] # ".."
  <2>1. z \in Paths /\ Len(z) = 1 /\ Dotless(z)
    BY NamesAssumption, WorkspaceAssumption DEF TopLevel
  <2> HIDE DEF z
  <2>. QED
    BY <2>1 DEF Dotless
<1>1. q \in Seq(STRING) /\ Canonical(q) /\ SX!IsPrefix(z, q)
  BY NormalIsPath, NormalIsCanonical DEF Inside
<1> HIDE DEF q, z
<1>2. q[1] = z[1]
  <2>1. Len(z) \in Nat \ {0} /\ SubSeq(z, 1, Len(z)) = SubSeq(q, 1, Len(z)) /\ Len(z) <= Len(q)
    BY <1>0, <1>1 DEF SX!IsPrefix, Paths
  <2>2. SubSeq(z, 1, Len(z))[1] = z[1] /\ SubSeq(q, 1, Len(z))[1] = q[1]
    BY <2>1
  <2>. QED
    BY <2>1, <2>2
<1>3. ASSUME NEW i \in 1 .. Len(q), q[i] = ".." PROVE FALSE
  <2>1. 1 \in 1 .. i
    OBVIOUS
  <2>2. q[1] = ".."
    BY <1>1, <1>3, <2>1 DEF Canonical
  <2>. QED
    BY <1>0, <1>2, <2>2
<1>. QED
  BY <1>1, <1>3 DEF q, Canonical, Dotless
=============================================================================
