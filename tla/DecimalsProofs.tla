--------------------------- MODULE DecimalsProofs ---------------------------
(***************************************************************************)
(* Decimal numbers, as texts and as rows.  Of withdrawals: the fingerprint *)
(* of a request tells what is asked for, for amounts of any length and any *)
(* texts.  Of orders: what validation lets through, the columns hold       *)
(* exactly, for any widths of them and any decimals.                       *)
(***************************************************************************)
EXTENDS Fingerprint, Amounts, SequenceTheorems, FiniteSetTheorems, WellFoundedInduction, TLAPS

-----------------------------------------------------------------------------
(* Induction.  The provers cannot use a theorem about a predicate, so it is *)
(* over a set of numbers, by way of its complement's least member.         *)

LEMMA StrictSubset ==
  ASSUME NEW S, NEW X \in SUBSET S, NEW Y \in SUBSET S, X \subseteq Y, X # Y
  PROVE  <<X, Y>> \in StrictSubsetOrdering(S)
<1>. DEFINE p == <<X, Y>>
<1>1. p \in (SUBSET S) \X (SUBSET S) /\ p[1] = X /\ p[2] = Y
  OBVIOUS
<1>. HIDE DEF p
<1>2. p \in StrictSubsetOrdering(S)
  BY <1>1 DEF StrictSubsetOrdering
<1>. QED  BY <1>2 DEF p

\* A set of finite sets has a member that no other is strictly within.
LEMMA HasSmallest ==
  ASSUME NEW S, NEW F, F \subseteq FiniteSubsetsOf(S), F # {}
  PROVE  \E B \in F : \A C \in F : ~(C \subseteq B /\ C # B)
<1>1. PICK B \in F : \A C \in F : ~(<<C, B>> \in StrictSubsetOrdering(S))
  BY FS_StrictSubsetOrderingWellFounded, WFMin, Zenon
<1>2. \A C \in F : C \in SUBSET S
  BY DEF FiniteSubsetsOf
<1>3. \A C \in F : ~(C \subseteq B /\ C # B)
  BY <1>1, <1>2, StrictSubset
<1>. QED  BY <1>3

LEMMA HasLeast ==
  ASSUME NEW S \in SUBSET Nat, S # {}
  PROVE  \E m \in S : \A k \in S : m <= k
<1>. DEFINE Below(n) == {k \in S : k < n}
            Belows == {Below(n) : n \in S}
<1>1. ASSUME NEW n \in S
      PROVE  Below(n) \in FiniteSubsetsOf(Nat)
  <2>1. Below(n) \in SUBSET Nat /\ n \in Nat /\ \A k \in Below(n) : k <= n
    <3>1. n \in Nat /\ \A k \in Nat : k < n => k <= n
      OBVIOUS
    <3>. QED  BY <3>1
  <2>2. IsFiniteSet(Below(n))
    BY <2>1, FS_BoundedSetOfNaturals
  <2>. QED  BY <2>1, <2>2 DEF FiniteSubsetsOf
<1>2. Belows \subseteq FiniteSubsetsOf(Nat) /\ Belows # {}
  BY <1>1
<1>. HIDE DEF Belows
<1>3. PICK B \in Belows : \A C \in Belows : ~(<<C, B>> \in StrictSubsetOrdering(Nat))
  BY <1>2, FS_StrictSubsetOrderingWellFounded, WFMin, Zenon
<1>4. PICK m \in S : B = Below(m)
  BY <1>3 DEF Belows
<1>5. ASSUME NEW k \in S, k < m
      PROVE  FALSE
  <2>1. Below(k) \in Belows /\ Below(k) \in SUBSET Nat /\ B \in SUBSET Nat
    BY <1>4 DEF Belows
  <2>2. Below(k) \subseteq B
    <3>1. ASSUME NEW i \in S, i < k
          PROVE  i < m
      <4>1. i \in Nat /\ k \in Nat /\ m \in Nat
        OBVIOUS
      <4>. QED  BY <1>5, <3>1, <4>1
    <3>. QED  BY <1>4, <3>1
  <2>3. k \in B /\ k \notin Below(k)
    BY <1>4, <1>5
  <2>. HIDE DEF Below
  <2>. QED  BY <1>3, <2>1, <2>2, <2>3, StrictSubset
<1>. QED  BY <1>5

LEMMA SetInduction ==
  ASSUME NEW T, 0 \in T, \A n \in Nat : n \in T => n + 1 \in T
  PROVE  Nat \subseteq T
<1>. SUFFICES ASSUME NEW x \in Nat, x \notin T PROVE FALSE
  OBVIOUS
<1>1. PICK m \in Nat \ T : \A k \in Nat \ T : m <= k
  BY HasLeast
<1>2. m # 0 /\ m - 1 \in Nat /\ m - 1 \in T
  BY <1>1
<1>. QED  BY <1>1, <1>2

\* A finite set of numbers has a greatest member.
LEMMA HasGreatest ==
  ASSUME NEW S \in SUBSET Nat, IsFiniteSet(S), S # {}
  PROVE  \E m \in S : \A k \in S : k <= m
<1>. DEFINE Above(n) == {k \in S : k > n}
            Aboves == {Above(n) : n \in S}
<1>1. \A n \in S : Above(n) \in FiniteSubsetsOf(S)
  BY FS_Subset DEF FiniteSubsetsOf
<1>2. Aboves \subseteq FiniteSubsetsOf(S) /\ Aboves # {}
  BY <1>1
<1>. HIDE DEF Aboves
<1>3. PICK B \in Aboves : \A C \in Aboves : ~(C \subseteq B /\ C # B)
  BY <1>2, HasSmallest
<1>4. PICK m \in S : B = Above(m)
  BY <1>3 DEF Aboves
<1>5. ASSUME NEW k \in S, k > m
      PROVE  FALSE
  <2>1. Above(k) \in Aboves
    BY DEF Aboves
  <2>2. Above(k) \subseteq B
    <3>1. ASSUME NEW i \in S, i > k
          PROVE  i > m
      <4>1. i \in Nat /\ k \in Nat /\ m \in Nat
        OBVIOUS
      <4>. QED  BY <1>5, <3>1, <4>1
    <3>. QED  BY <1>4, <3>1
  <2>3. k \in B /\ k \notin Above(k)
    BY <1>4, <1>5
  <2>. QED  BY <1>3, <2>1, <2>2, <2>3
<1>. QED  BY <1>5

-----------------------------------------------------------------------------
(* Texts. *)

\* The text t is p and then r.
Cut(t, p, r) == /\ Len(t) = Len(p) + Len(r)
                /\ \A i \in 1..Len(p) : t[i] = p[i]
                /\ \A i \in 1..Len(r) : t[Len(p) + i] = r[i]

LEMMA Concat ==
  ASSUME NEW S, NEW s \in Seq(S), NEW t \in Seq(S)
  PROVE  s \o t \in Seq(S) /\ Cut(s \o t, s, t)
<1>1. Len(s) \in Nat /\ Len(t) \in Nat
  OBVIOUS
<1>2. /\ s \o t \in Seq(S)
      /\ Len(s \o t) = Len(s) + Len(t)
      /\ \A i \in 1..Len(s) + Len(t) : (s \o t)[i] = IF i <= Len(s) THEN s[i] ELSE t[i - Len(s)]
  BY ConcatProperties
<1>3. \A i \in 1..Len(s) : (s \o t)[i] = s[i]
  BY <1>1, <1>2
<1>4. ASSUME NEW i \in 1..Len(t)
      PROVE  (s \o t)[Len(s) + i] = t[i]
  <2>1. /\ Len(s) + i \in 1..Len(s) + Len(t) /\ ~(Len(s) + i <= Len(s))
        /\ (Len(s) + i) - Len(s) = i
    BY <1>1
  <2>. QED  BY <1>2, <2>1
<1>. QED  BY <1>2, <1>3, <1>4 DEF Cut

\* Two cuts of a text behind parts of one length are the same.
LEMMA SameCut ==
  ASSUME NEW S, NEW p \in Seq(S), NEW q \in Seq(S), NEW r \in Seq(S), NEW s \in Seq(S),
         NEW t, Cut(t, p, r), Cut(t, q, s), Len(p) = Len(q)
  PROVE  p = q /\ r = s
<1>1. Len(p) \in Nat /\ Len(r) \in Nat /\ Len(s) \in Nat
  OBVIOUS
<1>2. p = q
  <2>1. \A i \in 1..Len(p) : p[i] = q[i]
    BY DEF Cut
  <2>. QED  BY <2>1, SeqEqual
<1>3. r = s
  <2>1. Len(r) = Len(s)
    BY <1>1 DEF Cut
  <2>2. \A i \in 1..Len(r) : r[i] = s[i]
    BY <2>1 DEF Cut
  <2>. QED  BY <2>1, <2>2, SeqEqual
<1>. QED  BY <1>2, <1>3

\* A text has no cut before a c behind a part without c that is longer.
LEMMA NotEarlier ==
  ASSUME NEW S \in SUBSET Nat, NEW c, c \notin S, NEW p \in Seq(S), NEW q \in Seq(S),
         NEW r \in Seq(Nat), NEW s \in Seq(Nat),
         NEW t, Cut(t, p, r), Cut(t, q, s), r # <<>>, r[1] = c
  PROVE  ~(Len(p) < Len(q))
<1>. SUFFICES ASSUME Len(p) < Len(q) PROVE FALSE
  OBVIOUS
<1>1. Len(p) \in Nat /\ Len(q) \in Nat /\ Len(r) \in Nat \ {0}
  BY EmptySeq
<1>2. Len(p) + 1 \in 1..Len(q) /\ 1 \in 1..Len(r)
  BY <1>1
<1>3. q[Len(p) + 1] # c
  BY <1>2, ElementOfSeq
<1>. QED  BY <1>2, <1>3 DEF Cut

\* A text is cut at the first c in it.
LEMMA CutAt ==
  ASSUME NEW S \in SUBSET Nat, NEW c, c \notin S, NEW p \in Seq(S), NEW q \in Seq(S),
         NEW r \in Seq(Nat), NEW s \in Seq(Nat), r # <<>>, s # <<>>, r[1] = c, s[1] = c,
         NEW t, Cut(t, p, r), Cut(t, q, s)
  PROVE  p = q /\ r = s
<1>1. Len(p) \in Nat /\ Len(q) \in Nat
  OBVIOUS
<1>2. ~(Len(p) < Len(q)) /\ ~(Len(q) < Len(p))
  BY NotEarlier
<1>3. Len(p) = Len(q)
  BY <1>1, <1>2
<1>4. p \in Seq(Nat) /\ q \in Seq(Nat)
  BY SeqMonotonic
<1>. QED  BY <1>3, <1>4, SameCut

\* ... and behind it.
LEMMA Marked ==
  ASSUME NEW c \in Nat, NEW r \in Seq(Nat)
  PROVE  /\ <<c>> \o r \in Seq(Nat) /\ <<c>> \o r # <<>> /\ (<<c>> \o r)[1] = c
         /\ Cut(<<c>> \o r, <<c>>, r)
<1>. DEFINE R == <<c>> \o r
<1>1. <<c>> \in Seq(Nat) /\ Len(<<c>>) = 1 /\ <<c>>[1] = c /\ Len(r) \in Nat
  OBVIOUS
<1>2. R \in Seq(Nat) /\ Cut(R, <<c>>, r)
  BY <1>1, Concat
<1>. HIDE DEF R
<1>3. Len(R) = 1 + Len(r) /\ R[1] = c
  BY <1>1, <1>2 DEF Cut
<1>4. R # <<>>
  BY <1>1, <1>3
<1>. QED  BY <1>2, <1>3, <1>4 DEF R

LEMMA SameMarked ==
  ASSUME NEW c \in Nat, NEW r \in Seq(Nat), NEW s \in Seq(Nat), <<c>> \o r = <<c>> \o s
  PROVE  r = s
<1>. DEFINE b == <<c>>
            R == b \o r
<1>1. b \in Seq(Nat) /\ Len(b) = Len(b)
  OBVIOUS
<1>2. Cut(b \o r, b, r) /\ Cut(b \o s, b, s)
  BY <1>1, Concat
<1>3. Cut(R, b, r) /\ Cut(R, b, s)
  BY <1>2
<1>. HIDE DEF b, R
<1>. QED  BY <1>1, <1>3, SameCut, Zenon

LEMMA LineEnd ==
  ASSUME NEW p \in Seq(Nat \ {NL}), NEW q \in Seq(Nat \ {NL}), NEW t, NEW R, NEW Q,
         Cut(t, p, R), Cut(t, q, Q),
         R \in Seq(Nat) /\ R # <<>> /\ R[1] = NL,
         Q \in Seq(Nat) /\ Q # <<>> /\ Q[1] = NL
  PROVE  p = q /\ R = Q
<1>1. Nat \ {NL} \in SUBSET Nat /\ NL \notin Nat \ {NL}
  OBVIOUS
<1>. QED  BY <1>1, CutAt, ZenonT(30)

\* A line tells where it ends, whatever follows it.
LEMMA LineCut ==
  ASSUME NEW p \in Lines, NEW q \in Lines, NEW r \in Texts, NEW s \in Texts,
         Line(p) \o r = Line(q) \o s
  PROVE  p = q /\ r = s
<1>. DEFINE t == Line(p) \o r
            R == <<NL>> \o r
            Q == <<NL>> \o s
<1>1. NL \in Nat /\ r \in Seq(Nat) /\ s \in Seq(Nat)
  BY DEF Texts, NL
<1>2. p \in Seq(Nat \ {NL}) /\ q \in Seq(Nat \ {NL})
  BY DEF Lines
<1>3. p \in Seq(Nat) /\ q \in Seq(Nat) /\ <<NL>> \in Seq(Nat)
  BY <1>1, <1>2, SeqMonotonic
<1>4. Line(p) \o r = p \o R
  BY <1>1, <1>3, ConcatAssociative, SMT DEF Line
<1>5. Line(q) \o s = q \o Q
  BY <1>1, <1>3, ConcatAssociative, SMT DEF Line
<1>6. R = Q => r = s
  BY <1>1, SameMarked
<1>7. /\ R \in Seq(Nat) /\ R # <<>> /\ R[1] = NL
      /\ Q \in Seq(Nat) /\ Q # <<>> /\ Q[1] = NL
  BY <1>1, Marked
<1>. HIDE DEF R, Q
<1>8. Cut(p \o R, p, R)
  BY <1>3, <1>7, Concat
<1>9. Cut(q \o Q, q, Q)
  BY <1>3, <1>7, Concat
<1>10. t = p \o R /\ t = q \o Q
  BY <1>4, <1>5
<1>11. Cut(t, p, R)
  BY <1>8, <1>10
<1>12. Cut(t, q, Q)
  BY <1>9, <1>10
<1>. HIDE DEF t
<1>13. p = q /\ R = Q
  BY <1>2, <1>7, <1>11, <1>12, LineEnd
<1>. QED  BY <1>6, <1>13

LEMMA LinesAreTexts ==
  ASSUME NEW p \in Lines
  PROVE  p \in Texts /\ Line(p) \in Texts
<1>1. p \in Seq(Nat) /\ <<NL>> \in Seq(Nat)
  BY SeqMonotonic DEF Lines, NL
<1>. QED  BY <1>1, Concat DEF Line, Texts

\* Two lines are told from any two texts by what they make, as they have but
\* the two newlines at their ends.
LEMMA NotLater ==
  ASSUME NEW p \in Lines, NEW n \in Lines, NEW q \in Texts, NEW m \in Texts,
         NEW t, NEW R, NEW Q, R = <<NL>> \o Line(n), Q = <<NL>> \o Line(m),
         Cut(t, p, R), Cut(t, q, Q)
  PROVE  ~(Len(p) < Len(q))
<1>. SUFFICES ASSUME Len(p) < Len(q) PROVE FALSE
  OBVIOUS
<1>0. /\ p \in Seq(Nat) /\ n \in Seq(Nat) /\ q \in Seq(Nat) /\ m \in Seq(Nat)
      /\ <<NL>> \in Seq(Nat) /\ n \in Seq(Nat \ {NL})
  BY SeqMonotonic DEF Lines, Texts, NL
<1>1. /\ Len(p) \in Nat /\ Len(n) \in Nat /\ Len(q) \in Nat /\ Len(m) \in Nat
      /\ Len(<<NL>>) = 1 /\ <<NL>>[1] = NL
  BY <1>0
<1>2. Line(n) \in Seq(Nat) /\ Cut(Line(n), n, <<NL>>)
  BY <1>0, Concat DEF Line
<1>3. Line(m) \in Seq(Nat) /\ Cut(Line(m), m, <<NL>>)
  BY <1>0, Concat DEF Line
<1>4. Cut(R, <<NL>>, Line(n)) /\ Cut(Q, <<NL>>, Line(m))
  BY <1>0, <1>2, <1>3, Concat
<1>5. Len(R) = Len(n) + 2 /\ Len(Q) = Len(m) + 2
  BY <1>1, <1>2, <1>3, <1>4 DEF Cut
<1>6. Len(p) + Len(n) = Len(q) + Len(m)
  <2>1. Len(t) = Len(p) + Len(R)
    BY Zenon DEF Cut
  <2>2. Len(t) = Len(q) + Len(Q)
    BY Zenon DEF Cut
  <2>. DEFINE a == Len(p)  b == Len(n)  c == Len(q)  d == Len(m)
  <2>3. a + (b + 2) = c + (d + 2)
    BY <1>5, <2>1, <2>2, Zenon
  <2>4. a \in Nat /\ b \in Nat /\ c \in Nat /\ d \in Nat
    BY <1>1, Zenon
  <2>5. a + b = c + d
    <3>. HIDE DEF a, b, c, d
    <3>. QED  BY <2>3, <2>4
  <2>. QED  BY <2>5, Zenon
<1>. DEFINE k == Len(q) - Len(p)
<1>7. k \in 1..Len(n)
  BY <1>1, <1>6
<1>8. t[Len(q) + 1] = NL
  <2>1. 1 \in 1..Len(Q) /\ 1 \in 1..Len(<<NL>>)
    BY <1>1, <1>5
  <2>2. Q[1] = NL
    BY <1>1, <1>4, <2>1 DEF Cut
  <2>. QED  BY <2>1, <2>2 DEF Cut
<1>9. t[Len(q) + 1] = n[k]
  <2>1. k \in 1..Len(Line(n)) /\ 1 + k \in 1..Len(R)
    BY <1>1, <1>2, <1>5, <1>7 DEF Cut
  <2>2. R[1 + k] = n[k]
    BY <1>1, <1>2, <1>4, <1>7, <2>1 DEF Cut
  <2>3. t[Len(p) + (1 + k)] = R[1 + k]
    BY <2>1 DEF Cut
  <2>4. Len(p) + (1 + k) = Len(q) + 1
    BY <1>1
  <2>. QED  BY <2>2, <2>3, <2>4
<1>10. n[k] # NL
  BY <1>0, <1>7, ElementOfSeq
<1>. QED  BY <1>8, <1>9, <1>10

LEMMA LineBefore ==
  ASSUME NEW p \in Seq(Nat), NEW r \in Seq(Nat)
  PROVE  Line(p) \o r = p \o (<<NL>> \o r)
<1>1. <<NL>> \in Seq(Nat)
  BY DEF NL
<1>. QED  BY <1>1, ConcatAssociative, SMT DEF Line

LEMMA TwoLines ==
  ASSUME NEW p \in Lines, NEW n \in Lines, NEW q \in Texts, NEW m \in Texts,
         Line(p) \o Line(n) = Line(q) \o Line(m)
  PROVE  p = q /\ n = m
<1>. DEFINE t == Line(p) \o Line(n)
            R == <<NL>> \o Line(n)
            Q == <<NL>> \o Line(m)
<1>1. /\ p \in Seq(Nat) /\ n \in Seq(Nat) /\ q \in Seq(Nat) /\ m \in Seq(Nat)
      /\ <<NL>> \in Seq(Nat) /\ NL \in Nat /\ p \in Seq(Nat \ {NL})
  BY SeqMonotonic DEF Lines, Texts, NL
<1>2. Line(n) \in Seq(Nat) /\ Line(m) \in Seq(Nat)
  BY <1>1, Concat DEF Line
<1>3. t = p \o R
  BY <1>1, <1>2, LineBefore, Zenon
<1>4. t = q \o Q
  BY <1>1, <1>2, LineBefore, Zenon
<1>5. /\ R \in Seq(Nat) /\ R # <<>> /\ R[1] = NL
      /\ Q \in Seq(Nat) /\ Q # <<>> /\ Q[1] = NL
  BY <1>1, <1>2, Marked
<1>6. R = Q => Line(n) = Line(m)
  BY <1>1, <1>2, SameMarked
<1>7. ~(Len(p) < Len(q))
  <2>1. Cut(p \o R, p, R) /\ Cut(q \o Q, q, Q)
    BY <1>1, <1>5, Concat
  <2>2. Cut(t, p, R) /\ Cut(t, q, Q)
    BY <1>3, <1>4, <2>1, Zenon
  <2>3. R = <<NL>> \o Line(n) /\ Q = <<NL>> \o Line(m)
    OBVIOUS
  <2>. HIDE DEF t, R, Q
  <2>. QED  BY <2>2, <2>3, NotLater
<1>. HIDE DEF R, Q
<1>8. Cut(p \o R, p, R) /\ Cut(q \o Q, q, Q)
  BY <1>1, <1>5, Concat
<1>. HIDE DEF t
<1>9. Cut(t, p, R) /\ Cut(t, q, Q)
  BY <1>3, <1>4, <1>8
<1>10. ~(Len(q) < Len(p))
  <2>1. \A i \in 1..Len(p) : p[i] # NL
    BY <1>1, ElementOfSeq
  <2>. SUFFICES ASSUME Len(q) < Len(p) PROVE FALSE
    OBVIOUS
  <2>2. Len(q) + 1 \in 1..Len(p) /\ 1 \in 1..Len(Q)
    BY <1>1, <1>5, EmptySeq
  <2>. QED  BY <1>5, <1>9, <2>1, <2>2 DEF Cut
<1>11. Len(p) = Len(q)
  BY <1>1, <1>7, <1>10
<1>12. p = q /\ R = Q
  BY <1>1, <1>5, <1>9, <1>11, SameCut
<1>13. Line(n) = Line(m) => n = m
  <2>1. Cut(Line(n), n, <<NL>>) /\ Cut(Line(m), m, <<NL>>)
    BY <1>1, Concat DEF Line
  <2>. SUFFICES ASSUME Line(n) = Line(m) PROVE n = m
    OBVIOUS
  <2>2. Cut(Line(n), m, <<NL>>) /\ Len(n) = Len(m)
    BY <1>1, <2>1 DEF Cut
  <2>. QED  BY <1>1, <2>1, <2>2, SameCut
<1>. QED  BY <1>6, <1>12, <1>13

\* Three lines and two texts make the same text as three others and two only
\* if the lines are the same, and what the two texts make.
HashOf(a1, a2, a3) == {a1, a2, a3} \subseteq Lines

LEMMA HashTells ==
  ASSUME NEW a1, NEW a2, NEW a3, NEW a4 \in Texts, NEW a5 \in Texts, HashOf(a1, a2, a3),
         NEW b1, NEW b2, NEW b3, NEW b4 \in Texts, NEW b5 \in Texts, HashOf(b1, b2, b3),
         RequestHash(a1, a2, a3, a4, a5) = RequestHash(b1, b2, b3, b4, b5)
  PROVE  /\ a1 = b1 /\ a2 = b2 /\ a3 = b3
         /\ {a4, a5} \subseteq Lines => a4 = b4 /\ a5 = b5
         /\ {b4, b5} \subseteq Lines => a4 = b4 /\ a5 = b5
<1>. DEFINE A4 == Line(a4) \o Line(a5)  B4 == Line(b4) \o Line(b5)
            A3 == Line(a3) \o A4  B3 == Line(b3) \o B4
            A2 == Line(a2) \o A3  B2 == Line(b2) \o B3
            A1 == Line(a1) \o A2  B1 == Line(b1) \o B2
<1>0. /\ a1 \in Lines /\ a2 \in Lines /\ a3 \in Lines
      /\ b1 \in Lines /\ b2 \in Lines /\ b3 \in Lines
  BY DEF HashOf
<1>1. A4 \in Texts /\ B4 \in Texts
  <2>1. <<NL>> \in Seq(Nat)
    BY DEF NL
  <2>2. Line(a4) \in Seq(Nat) /\ Line(a5) \in Seq(Nat) /\ Line(b4) \in Seq(Nat) /\ Line(b5) \in Seq(Nat)
    BY <2>1, Concat DEF Line, Texts
  <2>. QED  BY <2>2, Concat DEF Texts
<1>2. \A p \in Lines, r \in Texts : Line(p) \o r \in Texts
  BY LinesAreTexts, Concat DEF Texts
<1>3. A1 = B1
  BY DEF RequestHash
<1>4. A4 = B4 => /\ {a4, a5} \subseteq Lines => a4 = b4 /\ a5 = b5
                 /\ {b4, b5} \subseteq Lines => a4 = b4 /\ a5 = b5
  BY TwoLines
<1>. HIDE DEF A4, B4
<1>7. A3 \in Texts /\ B3 \in Texts
  BY <1>0, <1>1, <1>2
<1>8. A3 = B3 => a3 = b3 /\ A4 = B4
  BY <1>0, <1>1, LineCut, ZenonT(30)
<1>. HIDE DEF A3, B3
<1>9. A2 \in Texts /\ B2 \in Texts
  BY <1>0, <1>7, <1>2
<1>10. A2 = B2 => a2 = b2 /\ A3 = B3
  BY <1>0, <1>7, LineCut, ZenonT(30)
<1>. HIDE DEF A2, B2
<1>11. A1 = B1 => a1 = b1 /\ A2 = B2
  BY <1>0, <1>9, LineCut, ZenonT(30)
<1>. QED  BY <1>3, <1>4, <1>8, <1>10, <1>11

-----------------------------------------------------------------------------
(* The two parts of a normalized amount. *)

LEMMA PointEnd ==
  ASSUME NEW p \in Seq(Digits), NEW q \in Seq(Digits), NEW t, NEW R, NEW Q,
         Cut(t, p, R), Cut(t, q, Q),
         R \in Seq(Nat) /\ R # <<>> /\ R[1] = Point,
         Q \in Seq(Nat) /\ Q # <<>> /\ Q[1] = Point
  PROVE  p = q /\ R = Q
<1>1. Digits \in SUBSET Nat /\ Point \notin Digits
  BY DEF Digits, Point
<1>. QED  BY <1>1, CutAt

\* There is no point in a text of digits.
LEMMA NoPoint ==
  ASSUME NEW p \in Seq(Digits), NEW q \in Seq(Digits), NEW R \in Seq(Nat),
         Cut(p, q, R), R # <<>>, R[1] = Point
  PROVE  FALSE
<1>1. Len(q) \in Nat /\ Len(R) \in Nat \ {0} /\ Len(p) \in Nat
  BY EmptySeq
<1>2. Len(q) + 1 \in 1..Len(p) /\ 1 \in 1..Len(R)
  BY <1>1 DEF Cut
<1>3. p[Len(q) + 1] \in Digits
  BY <1>2, ElementOfSeq
<1>4. p[Len(q) + 1] = Point
  BY <1>2 DEF Cut
<1>. QED  BY <1>3, <1>4 DEF Digits, Point

LEMMA DigitsAreTexts ==
  ASSUME NEW s \in Seq(Digits)
  PROVE  s \in Seq(Nat)
<1>1. Digits \subseteq Nat
  BY DEF Digits
<1>. QED  BY <1>1, SeqMonotonic

LEMMA BehindPoint ==
  ASSUME NEW f \in Seq(Digits), f # <<>>
  PROVE  Behind(f) \in Seq(Nat) /\ Behind(f) # <<>> /\ Behind(f)[1] = Point
<1>1. Point \in Nat /\ f \in Seq(Nat)
  BY DigitsAreTexts DEF Point
<1>. QED  BY <1>1, Marked DEF Behind

LEMMA PartsTell ==
  ASSUME NEW p \in Seq(Digits), NEW q \in Seq(Digits), NEW f \in Seq(Digits), NEW g \in Seq(Digits),
         p \o Behind(f) = q \o Behind(g)
  PROVE  p = q /\ f = g
<1>1. p \in Seq(Nat) /\ q \in Seq(Nat) /\ f \in Seq(Nat) /\ g \in Seq(Nat)
  BY DigitsAreTexts
<1>2. f = <<>> => p \o Behind(f) = p
  BY <1>1, ConcatEmptySeq DEF Behind
<1>3. g = <<>> => q \o Behind(g) = q
  BY <1>1, ConcatEmptySeq DEF Behind
<1>4. f # <<>> => Behind(f) \in Seq(Nat) /\ Behind(f) # <<>> /\ Behind(f)[1] = Point
  BY BehindPoint
<1>5. g # <<>> => Behind(g) \in Seq(Nat) /\ Behind(g) # <<>> /\ Behind(g)[1] = Point
  BY BehindPoint
<1>6. f # <<>> => Cut(p \o Behind(f), p, Behind(f))
  BY <1>1, <1>4, Concat
<1>7. g # <<>> => Cut(q \o Behind(g), q, Behind(g))
  BY <1>1, <1>5, Concat
<1>8. CASE f = <<>> /\ g = <<>>
  BY <1>2, <1>3, <1>8
<1>9. CASE f = <<>> /\ g # <<>>
  <2>1. Cut(p, q, Behind(g))
    BY <1>2, <1>7, <1>9
  <2>. QED  BY <1>5, <1>9, <2>1, NoPoint
<1>10. CASE f # <<>> /\ g = <<>>
  <2>1. Cut(q, p, Behind(f))
    BY <1>3, <1>6, <1>10
  <2>. QED  BY <1>4, <1>10, <2>1, NoPoint
<1>11. CASE f # <<>> /\ g # <<>>
  <2>. DEFINE t == p \o Behind(f)
  <2>1. Cut(t, p, Behind(f)) /\ Cut(t, q, Behind(g))
    BY <1>6, <1>7, <1>11
  <2>. HIDE DEF t
  <2>2. p = q /\ Behind(f) = Behind(g)
    BY <1>4, <1>5, <1>11, <2>1, PointEnd
  <2>3. <<Point>> \o f = <<Point>> \o g /\ Point \in Nat
    BY <1>11, <2>2 DEF Behind, Point
  <2>4. f = g
    BY <1>1, <2>3, SameMarked
  <2>. QED  BY <2>2, <2>4
<1>. QED  BY <1>8, <1>9, <1>10, <1>11

-----------------------------------------------------------------------------
(* Zeros before a number and behind a fraction. *)

Zeros(n) == [i \in 1..n |-> 0]

LEMMA ZerosAreDigits ==
  ASSUME NEW n \in Nat
  PROVE  /\ Zeros(n) \in Seq(Digits) /\ Len(Zeros(n)) = n
         /\ \A i \in 1..n : Zeros(n)[i] = 0
<1>1. 0 \in Digits
  BY DEF Digits
<1>. QED  BY <1>1 DEF Zeros

\* Leading drops zeros, but for one where there is nothing else.
LEMMA LeadingCut ==
  ASSUME NEW s \in Seq(Digits), s # <<>>
  PROVE  /\ Leading(s) \in Seq(Digits)
         /\ Len(Leading(s)) \in 1..Len(s)
         /\ \A i \in 1..(Len(s) - Len(Leading(s))) : s[i] = 0
         /\ \A i \in 1..Len(Leading(s)) : s[Len(s) - Len(Leading(s)) + i] = Leading(s)[i]
         /\ Leading(s)[1] = 0 => Len(Leading(s)) = 1
<1>1. Len(s) \in Nat \ {0} /\ DOMAIN s = 1..Len(s) /\ 0 \in Digits
  BY EmptySeq DEF Digits
<1>2. CASE Significant(s) = {}
  <2>1. Leading(s) = <<0>> /\ Len(<<0>>) = 1 /\ <<0>>[1] = 0 /\ <<0>> \in Seq(Digits)
    BY <1>1, <1>2 DEF Leading
  <2>2. \A i \in 1..Len(s) : s[i] = 0
    BY <1>1, <1>2 DEF Significant
  <2>. HIDE DEF Leading
  <2>. QED  BY <1>1, <2>1, <2>2
<1>3. CASE Significant(s) # {}
  <2>. DEFINE k == First(s)
              t == SubSeq(s, k, Len(s))
  <2>1. Significant(s) \in SUBSET Nat /\ Significant(s) \subseteq 1..Len(s)
    BY <1>1 DEF Significant
  <2>2. \E i \in Significant(s) : \A j \in Significant(s) : i <= j
    BY <1>3, <2>1, HasLeast
  <2>3. k \in Significant(s) /\ \A j \in Significant(s) : k <= j
    BY <2>2 DEF First
  <2>. HIDE DEF k
  <2>4. k \in 1..Len(s) /\ s[k] # 0
    BY <2>1, <2>3 DEF Significant
  <2>5. ASSUME NEW i \in 1..(k - 1)
        PROVE  s[i] = 0
    <3>1. i \in 1..Len(s) /\ ~(k <= i)
      BY <1>1, <2>4
    <3>. QED  BY <1>1, <2>3, <3>1 DEF Significant
  <2>6. \A i \in k..Len(s) : s[i] \in Digits
    BY <1>1, <2>4, ElementOfSeq
  <2>7. /\ t \in Seq(Digits) /\ Len(t) = Len(s) - k + 1
        /\ \A i \in 1..(Len(s) - k + 1) : t[i] = s[k + i - 1]
    BY <1>1, <2>4, <2>6, SubSeqProperties
  <2>8. Leading(s) = t
    BY <1>3 DEF Leading, k
  <2>. HIDE DEF t
  <2>9. Len(s) - Len(t) = k - 1 /\ Len(t) \in 1..Len(s)
    BY <1>1, <2>4, <2>7
  <2>10. ASSUME NEW i \in 1..Len(t)
         PROVE  s[Len(s) - Len(t) + i] = t[i]
    <3>1. i \in 1..(Len(s) - k + 1) /\ Len(s) - Len(t) + i = k + i - 1
      BY <1>1, <2>4, <2>7, <2>9
    <3>. QED  BY <2>7, <3>1
  <2>11. t[1] # 0
    BY <1>1, <2>4, <2>7
  <2>. QED  BY <2>5, <2>7, <2>8, <2>9, <2>10, <2>11
<1>. QED  BY <1>2, <1>3

\* Trailing drops zeros, and leaves none at the end.
LEMMA TrailingCut ==
  ASSUME NEW s \in Seq(Digits)
  PROVE  /\ Trailing(s) \in Seq(Digits)
         /\ Len(Trailing(s)) \in 0..Len(s)
         /\ \A i \in 1..Len(Trailing(s)) : s[i] = Trailing(s)[i]
         /\ \A i \in (Len(Trailing(s)) + 1)..Len(s) : s[i] = 0
         /\ Len(Trailing(s)) # 0 => Trailing(s)[Len(Trailing(s))] # 0
<1>1. Len(s) \in Nat /\ DOMAIN s = 1..Len(s)
  OBVIOUS
<1>2. CASE Significant(s) = {}
  <2>1. Trailing(s) = <<>> /\ Len(<<>>) = 0 /\ <<>> \in Seq(Digits)
    BY <1>2 DEF Trailing
  <2>2. \A i \in 1..Len(s) : s[i] = 0
    BY <1>1, <1>2 DEF Significant
  <2>. QED  BY <1>1, <2>1, <2>2
<1>3. CASE Significant(s) # {}
  <2>. DEFINE k == Last(s)
              t == SubSeq(s, 1, k)
  <2>1. Significant(s) \in SUBSET Nat /\ Significant(s) \subseteq 1..Len(s) /\ IsFiniteSet(1..Len(s))
    BY <1>1, FS_Interval DEF Significant
  <2>2. IsFiniteSet(Significant(s))
    BY <2>1, FS_Subset
  <2>3. \E i \in Significant(s) : \A j \in Significant(s) : i >= j
    <3>1. PICK i \in Significant(s) : \A j \in Significant(s) : j <= i
      BY <1>3, <2>1, <2>2, HasGreatest
    <3>2. \A j \in Significant(s) : i >= j
      BY <2>1, <3>1
    <3>. QED  BY <3>2
  <2>4. k \in Significant(s) /\ \A j \in Significant(s) : k >= j
    BY <2>3 DEF Last
  <2>. HIDE DEF k
  <2>5. k \in 1..Len(s) /\ s[k] # 0
    BY <2>1, <2>4 DEF Significant
  <2>6. ASSUME NEW i \in (k + 1)..Len(s)
        PROVE  s[i] = 0
    <3>1. i \in 1..Len(s) /\ ~(k >= i)
      BY <1>1, <2>5
    <3>. QED  BY <1>1, <2>4, <3>1 DEF Significant
  <2>7. \A i \in 1..k : s[i] \in Digits
    BY <1>1, <2>5, ElementOfSeq
  <2>8. t \in Seq(Digits) /\ Len(t) = k /\ \A i \in 1..k : t[i] = s[i]
    <3>1. /\ t \in Seq(Digits) /\ Len(t) = k - 1 + 1
          /\ \A i \in 1..(k - 1 + 1) : t[i] = s[1 + i - 1]
      BY <1>1, <2>5, <2>7, SubSeqProperties
    <3>2. k - 1 + 1 = k /\ \A i \in 1..k : 1 + i - 1 = i
      BY <1>1, <2>5
    <3>. QED  BY <3>1, <3>2
  <2>9. Trailing(s) = t
    BY <1>3 DEF Trailing, k
  <2>. HIDE DEF t
  <2>. QED  BY <1>1, <2>5, <2>6, <2>8, <2>9
<1>. QED  BY <1>2, <1>3

\* Texts of one length are the same number of zeros and then the same digits
\* exactly where they have the same leading form.
Aligned(K, s) == Zeros(K - Len(s)) \o s

LEMMA AlignedDigits ==
  ASSUME NEW K \in Nat, NEW s \in Seq(Digits), Len(s) <= K
  PROVE  /\ Aligned(K, s) \in Seq(Digits) /\ Len(Aligned(K, s)) = K
         /\ \A i \in 1..(K - Len(s)) : Aligned(K, s)[i] = 0
         /\ \A i \in 1..Len(s) : Aligned(K, s)[K - Len(s) + i] = s[i]
<1>. DEFINE z == Zeros(K - Len(s))
            t == z \o s
<1>1. Len(s) \in Nat /\ K - Len(s) \in Nat
  OBVIOUS
<1>2. z \in Seq(Digits) /\ Len(z) = K - Len(s) /\ \A i \in 1..(K - Len(s)) : z[i] = 0
  BY <1>1, ZerosAreDigits
<1>. HIDE DEF z
<1>3. t \in Seq(Digits) /\ Cut(t, z, s)
  BY <1>2, Concat
<1>4. Aligned(K, s) = t
  BY DEF Aligned, t, z
<1>. HIDE DEF t
<1>5. Len(t) = K
  BY <1>1, <1>2, <1>3 DEF Cut
<1>6. \A i \in 1..(K - Len(s)) : t[i] = 0
  BY <1>2, <1>3 DEF Cut
<1>7. \A i \in 1..Len(s) : t[K - Len(s) + i] = s[i]
  BY <1>2, <1>3 DEF Cut
<1>. QED  BY <1>3, <1>4, <1>5, <1>6, <1>7

\* A text aligned is its leading form aligned.
LEMMA LeadingAligned ==
  ASSUME NEW K \in Nat, NEW s \in Seq(Digits), s # <<>>, Len(s) <= K
  PROVE  Aligned(K, s) = Aligned(K, Leading(s))
<1>. DEFINE l == Leading(s)
            a == Aligned(K, s)
            b == Aligned(K, l)
            d == K - Len(s)
            e == Len(s) - Len(l)
<1>1. /\ l \in Seq(Digits) /\ Len(l) \in 1..Len(s)
      /\ \A i \in 1..e : s[i] = 0
      /\ \A i \in 1..Len(l) : s[e + i] = l[i]
  BY LeadingCut
<1>. HIDE DEF l
<1>2. Len(s) \in Nat /\ Len(l) \in Nat /\ Len(l) <= K /\ d \in Nat /\ e \in Nat /\ K - Len(l) = d + e
  BY <1>1
<1>3. /\ a \in Seq(Digits) /\ Len(a) = K
      /\ \A i \in 1..d : a[i] = 0
      /\ \A i \in 1..Len(s) : a[d + i] = s[i]
  BY AlignedDigits
<1>4. /\ b \in Seq(Digits) /\ Len(b) = K
      /\ \A i \in 1..(d + e) : b[i] = 0
      /\ \A i \in 1..Len(l) : b[(d + e) + i] = l[i]
  BY <1>1, <1>2, AlignedDigits
<1>5. Len(s) = e + Len(l) /\ K = d + Len(s)
  BY <1>2
<1>. HIDE DEF a, b, d, e
<1>6. ASSUME NEW i \in 1..K
      PROVE  a[i] = b[i]
  <2>1. CASE i <= d
    <3>1. i \in 1..d /\ i \in 1..(d + e)
      BY <1>2, <2>1
    <3>. QED  BY <1>3, <1>4, <3>1
  <2>2. CASE i > d /\ i <= d + e
    <3>1. i \in 1..(d + e) /\ i - d \in 1..e /\ i - d \in 1..Len(s) /\ d + (i - d) = i
      BY <1>2, <1>5, <2>2
    <3>. QED  BY <1>1, <1>3, <1>4, <3>1
  <2>3. CASE i > d + e
    <3>. DEFINE j == i - (d + e)
    <3>1. j \in 1..Len(l) /\ (e + j) \in 1..Len(s) /\ d + (e + j) = i /\ (d + e) + j = i
      BY <1>2, <1>5, <2>3
    <3>. HIDE DEF j
    <3>2. a[d + (e + j)] = s[e + j] /\ s[e + j] = l[j] /\ b[(d + e) + j] = l[j]
      BY <1>1, <1>3, <1>4, <3>1
    <3>. QED  BY <3>1, <3>2
  <2>. QED  BY <1>2, <2>1, <2>2, <2>3
<1>7. a = b
  BY <1>3, <1>4, <1>6, SeqEqual
<1>. QED  BY <1>7 DEF a, b, l

\* Of two leading forms with the same alignment none is the shorter.
LEMMA NotShorter ==
  ASSUME NEW K \in Nat, NEW l \in Seq(Digits), NEW m \in Seq(Digits),
         Len(l) \in 1..K, Len(m) \in 1..K, m[1] = 0 => Len(m) = 1,
         Aligned(K, l) = Aligned(K, m)
  PROVE  ~(Len(l) < Len(m))
<1>. SUFFICES ASSUME Len(l) < Len(m) PROVE FALSE
  OBVIOUS
<1>. DEFINE a == Aligned(K, l)
<1>1. Len(l) \in Nat /\ Len(m) \in Nat /\ Len(l) <= K /\ Len(m) <= K
  OBVIOUS
<1>2. \A i \in 1..(K - Len(l)) : a[i] = 0
  BY <1>1, AlignedDigits
<1>3. \A i \in 1..Len(m) : Aligned(K, m)[K - Len(m) + i] = m[i]
  BY <1>1, AlignedDigits
<1>4. \A i \in 1..Len(m) : a[K - Len(m) + i] = m[i]
  BY <1>3
<1>. HIDE DEF a
<1>5. K - Len(m) + 1 \in 1..(K - Len(l)) /\ 1 \in 1..Len(m)
  BY <1>1
<1>6. m[1] = 0
  BY <1>2, <1>4, <1>5
<1>. QED  BY <1>1, <1>6

LEMMA LeadingTells ==
  ASSUME NEW K \in Nat, NEW s \in Seq(Digits), NEW t \in Seq(Digits), s # <<>>, t # <<>>,
         Len(s) <= K, Len(t) <= K
  PROVE  Aligned(K, s) = Aligned(K, t) <=> Leading(s) = Leading(t)
<1>. DEFINE l == Leading(s)
            m == Leading(t)
<1>1. Aligned(K, s) = Aligned(K, l) /\ Aligned(K, t) = Aligned(K, m)
  BY LeadingAligned
<1>2. /\ l \in Seq(Digits) /\ Len(l) \in 1..Len(s) /\ (l[1] = 0 => Len(l) = 1)
      /\ m \in Seq(Digits) /\ Len(m) \in 1..Len(t) /\ (m[1] = 0 => Len(m) = 1)
  BY LeadingCut
<1>. HIDE DEF l, m
<1>3. Len(s) \in Nat /\ Len(t) \in Nat
  OBVIOUS
<1>4. Len(l) \in 1..K /\ Len(m) \in 1..K
  BY <1>2, <1>3
<1>5. ASSUME Aligned(K, l) = Aligned(K, m)
      PROVE  l = m
  <2>1. ~(Len(l) < Len(m)) /\ ~(Len(m) < Len(l))
    BY <1>2, <1>4, <1>5, NotShorter
  <2>2. Len(l) = Len(m)
    BY <1>4, <2>1
  <2>3. Len(l) <= K /\ Len(l) \in Nat
    BY <1>4
  <2>4. \A i \in 1..Len(l) : Aligned(K, l)[K - Len(l) + i] = l[i]
    BY <1>2, <2>3, AlignedDigits
  <2>5. \A i \in 1..Len(m) : Aligned(K, m)[K - Len(m) + i] = m[i]
    BY <1>2, <2>2, <2>3, AlignedDigits
  <2>6. \A i \in 1..Len(l) : l[i] = m[i]
    BY <1>5, <2>2, <2>4, <2>5
  <2>. QED  BY <1>2, <2>2, <2>6, SeqEqual
<1>. QED  BY <1>1, <1>5 DEF l, m

-----------------------------------------------------------------------------
(* ... and of fractions, padded to the last place. *)

LEMMA PaddedDigits ==
  ASSUME NEW f \in Seq(Digits), Len(f) <= Places
  PROVE  /\ Padded(f) \in Seq(Digits) /\ Len(Padded(f)) = Places
         /\ \A i \in 1..Len(f) : Padded(f)[i] = f[i]
         /\ \A i \in (Len(f) + 1)..Places : Padded(f)[i] = 0
<1>. DEFINE z == Zeros(Places - Len(f))
            t == f \o z
<1>1. Len(f) \in Nat /\ Places \in Nat /\ Places - Len(f) \in Nat
  BY AmountsAssumption
<1>2. z \in Seq(Digits) /\ Len(z) = Places - Len(f) /\ \A i \in 1..(Places - Len(f)) : z[i] = 0
  BY <1>1, ZerosAreDigits
<1>. HIDE DEF z
<1>3. t \in Seq(Digits) /\ Cut(t, f, z)
  BY <1>2, Concat
<1>4. Padded(f) = t
  BY DEF Padded, t, z, Zeros
<1>. HIDE DEF t
<1>5. Len(t) = Places
  BY <1>1, <1>2, <1>3 DEF Cut
<1>6. \A i \in 1..Len(f) : t[i] = f[i]
  BY <1>3 DEF Cut
<1>7. ASSUME NEW i \in (Len(f) + 1)..Places
      PROVE  t[i] = 0
  <2>1. i - Len(f) \in 1..(Places - Len(f)) /\ Len(f) + (i - Len(f)) = i
    BY <1>1
  <2>. QED  BY <1>2, <1>3, <2>1 DEF Cut
<1>. QED  BY <1>3, <1>4, <1>5, <1>6, <1>7

\* A fraction padded is its trailing form padded.
LEMMA TrailingPadded ==
  ASSUME NEW f \in Seq(Digits), Len(f) <= Places
  PROVE  Padded(f) = Padded(Trailing(f))
<1>. DEFINE l == Trailing(f)
            a == Padded(f)
            b == Padded(l)
<1>1. /\ l \in Seq(Digits) /\ Len(l) \in 0..Len(f)
      /\ \A i \in 1..Len(l) : f[i] = l[i]
      /\ \A i \in (Len(l) + 1)..Len(f) : f[i] = 0
  BY TrailingCut
<1>. HIDE DEF l
<1>2. Len(f) \in Nat /\ Len(l) \in Nat /\ Places \in Nat /\ Len(l) <= Places /\ Len(l) <= Len(f)
  BY <1>1, AmountsAssumption
<1>3. /\ a \in Seq(Digits) /\ Len(a) = Places
      /\ \A i \in 1..Len(f) : a[i] = f[i]
      /\ \A i \in (Len(f) + 1)..Places : a[i] = 0
  BY PaddedDigits
<1>4. /\ b \in Seq(Digits) /\ Len(b) = Places
      /\ \A i \in 1..Len(l) : b[i] = l[i]
      /\ \A i \in (Len(l) + 1)..Places : b[i] = 0
  BY <1>1, <1>2, PaddedDigits
<1>. HIDE DEF a, b
<1>5. ASSUME NEW i \in 1..Places
      PROVE  a[i] = b[i]
  <2>1. CASE i <= Len(l)
    <3>1. i \in 1..Len(l) /\ i \in 1..Len(f)
      BY <1>2, <2>1
    <3>. QED  BY <1>1, <1>3, <1>4, <3>1
  <2>2. CASE i > Len(l) /\ i <= Len(f)
    <3>1. i \in (Len(l) + 1)..Len(f) /\ i \in 1..Len(f) /\ i \in (Len(l) + 1)..Places
      BY <1>2, <2>2
    <3>. QED  BY <1>1, <1>3, <1>4, <3>1
  <2>3. CASE i > Len(f)
    <3>1. i \in (Len(f) + 1)..Places /\ i \in (Len(l) + 1)..Places
      BY <1>2, <2>3
    <3>. QED  BY <1>3, <1>4, <3>1
  <2>. QED  BY <1>2, <2>1, <2>2, <2>3
<1>6. a = b
  BY <1>3, <1>4, <1>5, SeqEqual
<1>. QED  BY <1>6 DEF a, b, l

LEMMA NoneBehind ==
  ASSUME NEW l \in Seq(Digits), NEW m \in Seq(Digits), Len(l) <= Places, Len(m) <= Places,
         Len(m) # 0 => m[Len(m)] # 0, Padded(l) = Padded(m)
  PROVE  ~(Len(l) < Len(m))
<1>. SUFFICES ASSUME Len(l) < Len(m) PROVE FALSE
  OBVIOUS
<1>1. Len(l) \in Nat /\ Len(m) \in Nat /\ Places \in Nat
  BY AmountsAssumption
<1>2. \A i \in (Len(l) + 1)..Places : Padded(l)[i] = 0
  BY PaddedDigits
<1>3. \A i \in 1..Len(m) : Padded(m)[i] = m[i]
  BY PaddedDigits
<1>4. Len(m) \in (Len(l) + 1)..Places /\ Len(m) \in 1..Len(m) /\ Len(m) # 0
  BY <1>1
<1>. QED  BY <1>2, <1>3, <1>4

LEMMA TrailingTells ==
  ASSUME NEW f \in Seq(Digits), NEW g \in Seq(Digits), Len(f) <= Places, Len(g) <= Places
  PROVE  Padded(f) = Padded(g) <=> Trailing(f) = Trailing(g)
<1>. DEFINE l == Trailing(f)
            m == Trailing(g)
<1>1. Padded(f) = Padded(l) /\ Padded(g) = Padded(m)
  BY TrailingPadded
<1>2. /\ l \in Seq(Digits) /\ Len(l) \in 0..Len(f) /\ (Len(l) # 0 => l[Len(l)] # 0)
      /\ m \in Seq(Digits) /\ Len(m) \in 0..Len(g) /\ (Len(m) # 0 => m[Len(m)] # 0)
  BY TrailingCut
<1>. HIDE DEF l, m
<1>3. Len(l) \in Nat /\ Len(m) \in Nat /\ Len(l) <= Places /\ Len(m) <= Places
  BY <1>2, AmountsAssumption
<1>4. ASSUME Padded(l) = Padded(m)
      PROVE  l = m
  <2>1. ~(Len(l) < Len(m)) /\ ~(Len(m) < Len(l))
    BY <1>2, <1>3, <1>4, NoneBehind
  <2>2. Len(l) = Len(m)
    BY <1>3, <2>1
  <2>3. \A i \in 1..Len(l) : Padded(l)[i] = l[i]
    BY <1>2, <1>3, PaddedDigits
  <2>4. \A i \in 1..Len(m) : Padded(m)[i] = m[i]
    BY <1>2, <1>3, PaddedDigits
  <2>5. \A i \in 1..Len(l) : l[i] = m[i]
    BY <1>4, <2>2, <2>3, <2>4
  <2>. QED  BY <1>2, <2>2, <2>5, SeqEqual
<1>. QED  BY <1>1, <1>4 DEF l, m

-----------------------------------------------------------------------------
(* Numbers.  The equation that Number solves has a solution, which is put  *)
(* together from its beginnings.                                           *)

\* n counts the first k digits of s.
Counts(s, k, n) == /\ n \in [0..k -> Nat] /\ n[0] = 0
                   /\ \A i \in 1..k : n[i] = 10 * n[i - 1] + s[i]

LEMMA CountsExist ==
  ASSUME NEW s \in Seq(Digits)
  PROVE  \A k \in Nat : k <= Len(s) => \E n : Counts(s, k, n)
<1>. DEFINE T == {k \in Nat : k <= Len(s) => \E n : Counts(s, k, n)}
<1>1. 0 \in T
  <2>1. Counts(s, 0, [i \in 0..0 |-> 0])
    BY DEF Counts
  <2>. QED  BY <2>1
<1>2. ASSUME NEW k \in Nat, k \in T
      PROVE  k + 1 \in T
  <2>. SUFFICES ASSUME k + 1 <= Len(s) PROVE \E n : Counts(s, k + 1, n)
    OBVIOUS
  <2>1. Len(s) \in Nat /\ k <= Len(s) /\ k + 1 \in 1..Len(s)
    OBVIOUS
  <2>2. PICK n : Counts(s, k, n)
    BY <1>2, <2>1
  <2>3. s[k + 1] \in Nat
    BY <2>1, ElementOfSeq DEF Digits
  <2>. DEFINE g == [i \in 0..(k + 1) |-> IF i = k + 1 THEN 10 * n[k] + s[k + 1] ELSE n[i]]
  <2>4. n \in [0..k -> Nat] /\ n[0] = 0 /\ \A i \in 1..k : n[i] = 10 * n[i - 1] + s[i]
    BY <2>2 DEF Counts
  <2>5. g \in [0..(k + 1) -> Nat] /\ g[0] = 0
    <3>1. n[k] \in Nat
      BY <2>4
    <3>. QED  BY <2>3, <2>4, <3>1
  <2>6. ASSUME NEW i \in 1..(k + 1)
        PROVE  g[i] = 10 * g[i - 1] + s[i]
    <3>1. CASE i = k + 1
      BY <3>1
    <3>2. CASE i # k + 1
      <4>1. i \in 1..k /\ i - 1 \in 0..k /\ i - 1 # k + 1
        BY <3>2
      <4>. QED  BY <2>4, <4>1
    <3>. QED  BY <3>1, <3>2
  <2>. HIDE DEF g
  <2>7. Counts(s, k + 1, g)
    BY <2>5, <2>6 DEF Counts
  <2>. QED  BY <2>7
<1>. HIDE DEF T
<1>3. Nat \subseteq T
  BY <1>1, <1>2, SetInduction
<1>. QED  BY <1>3 DEF T

LEMMA NumberCounts ==
  ASSUME NEW s \in Seq(Digits)
  PROVE  \E n : Counts(s, Len(s), n) /\ Number(s) = n[Len(s)]
<1>. DEFINE L == Len(s)
            Eq(n) == n = [i \in 0..L |-> IF i = 0 THEN 0 ELSE 10 * n[i - 1] + s[i]]
            m == CHOOSE n : Eq(n)
<1>1. L \in Nat
  OBVIOUS
<1>2. PICK n : Counts(s, L, n)
  BY <1>1, CountsExist
<1>3. Eq(n)
  <2>. HIDE DEF L
  <2>1. n \in [0..L -> Nat] /\ n[0] = 0 /\ \A i \in 1..L : n[i] = 10 * n[i - 1] + s[i]
    BY <1>2 DEF Counts
  <2>2. ASSUME NEW i \in 0..L
        PROVE  n[i] = IF i = 0 THEN 0 ELSE 10 * n[i - 1] + s[i]
    <3>1. i = 0 \/ i \in 1..L
      BY <1>1
    <3>. QED  BY <2>1, <3>1
  <2>. QED  BY <2>1, <2>2
<1>4. Number(s) = m[L]
  BY DEF Number
<1>5. Eq(m)
  <2>. HIDE DEF Eq
  <2>. QED  BY <1>3 DEF m
<1>. HIDE DEF L, m
<1>6. m[0] = 0 /\ \A i \in 1..L : m[i] = 10 * m[i - 1] + s[i]
  <2>1. 0 \in 0..L /\ \A i \in 1..L : i \in 0..L /\ i # 0
    BY <1>1
  <2>. HIDE DEF Eq
  <2>2. \A i \in 0..L : m[i] = IF i = 0 THEN 0 ELSE 10 * m[i - 1] + s[i]
    <3>. DEFINE h == [i \in 0..L |-> IF i = 0 THEN 0 ELSE 10 * m[i - 1] + s[i]]
    <3>1. m = h
      BY <1>5 DEF Eq
    <3>2. \A i \in 0..L : h[i] = IF i = 0 THEN 0 ELSE 10 * m[i - 1] + s[i]
      OBVIOUS
    <3>. HIDE DEF h
    <3>. QED  BY <3>1, <3>2
  <2>. QED  BY <2>1, <2>2
<1>7. \A i \in Nat : i <= L => m[i] \in Nat
  <2>. DEFINE T == {i \in Nat : i <= L => m[i] \in Nat}
  <2>1. 0 \in T
    BY <1>6
  <2>2. ASSUME NEW i \in Nat, i \in T
        PROVE  i + 1 \in T
    <3>. SUFFICES ASSUME i + 1 <= L PROVE m[i + 1] \in Nat
      OBVIOUS
    <3>1. i + 1 \in 1..L /\ (i + 1) - 1 = i /\ i <= L
      BY <1>1
    <3>2. m[i] \in Nat /\ m[i + 1] = 10 * m[i] + s[i + 1]
      BY <1>6, <2>2, <3>1
    <3>3. s[i + 1] \in Nat
      BY <3>1, ElementOfSeq DEF L, Digits
    <3>. QED  BY <3>2, <3>3
  <2>. HIDE DEF T
  <2>3. Nat \subseteq T
    BY <2>1, <2>2, SetInduction
  <2>. QED  BY <2>3 DEF T
<1>8. m \in [0..L -> Nat]
  <2>1. \A i \in 0..L : m[i] \in Nat
    BY <1>1, <1>7
  <2>. QED  BY <1>5, <2>1
<1>9. Counts(s, L, m)
  BY <1>6, <1>8 DEF Counts
<1>. QED  BY <1>4, <1>9 DEF L

\* Of texts of one length each has a number of its own.
LEMMA Positional ==
  ASSUME NEW s \in Seq(Digits), NEW t \in Seq(Digits), Len(s) = Len(t), Number(s) = Number(t)
  PROVE  s = t
<1>. DEFINE L == Len(s)
<1>1. L \in Nat
  OBVIOUS
<1>2. PICK n : Counts(s, L, n) /\ Number(s) = n[L]
  BY NumberCounts
<1>3. PICK m : Counts(t, L, m) /\ Number(t) = m[L]
  BY NumberCounts
<1>4. \A i \in 1..L : s[i] \in 0..9 /\ t[i] \in 0..9
  BY ElementOfSeq DEF Digits
<1>. HIDE DEF L
<1>5. ASSUME NEW i \in 1..L, n[i] = m[i]
      PROVE  n[i - 1] = m[i - 1] /\ s[i] = t[i]
  <2>1. n[i - 1] \in Nat /\ m[i - 1] \in Nat
    <3>1. i - 1 \in 0..L
      BY <1>1
    <3>. QED  BY <1>2, <1>3, <3>1 DEF Counts
  <2>2. 10 * n[i - 1] + s[i] = 10 * m[i - 1] + t[i]
    BY <1>2, <1>3, <1>5 DEF Counts
  <2>3. s[i] \in 0..9 /\ t[i] \in 0..9
    BY <1>4
  <2>. DEFINE a == n[i - 1]
              b == m[i - 1]
              c == s[i]
              d == t[i]
  <2>4. a \in Nat /\ b \in Nat /\ c \in 0..9 /\ d \in 0..9 /\ 10 * a + c = 10 * b + d
    BY <2>1, <2>2, <2>3
  <2>. HIDE DEF a, b, c, d
  <2>5. a = b /\ c = d
    BY <2>4
  <2>. QED  BY <2>5 DEF a, b, c, d
<1>6. \A j \in Nat : j <= L => n[L - j] = m[L - j]
  <2>. DEFINE T == {j \in Nat : j <= L => n[L - j] = m[L - j]}
  <2>1. 0 \in T
    <3>1. L - 0 = L
      BY <1>1
    <3>. QED  BY <1>2, <1>3, <3>1
  <2>2. ASSUME NEW j \in Nat, j \in T
        PROVE  j + 1 \in T
    <3>. SUFFICES ASSUME j + 1 <= L PROVE n[L - (j + 1)] = m[L - (j + 1)]
      OBVIOUS
    <3>1. L - j \in 1..L /\ L - (j + 1) = (L - j) - 1 /\ j <= L
      BY <1>1
    <3>. QED  BY <1>5, <2>2, <3>1
  <2>. HIDE DEF T
  <2>3. Nat \subseteq T
    BY <2>1, <2>2, SetInduction
  <2>. QED  BY <2>3 DEF T
<1>7. ASSUME NEW i \in 1..L
      PROVE  s[i] = t[i]
  <2>1. L - i \in Nat /\ L - i <= L /\ L - (L - i) = i
    BY <1>1
  <2>2. n[i] = m[i]
    BY <1>6, <2>1
  <2>. QED  BY <1>5, <2>2
<1>. QED  BY <1>7, SeqEqual DEF L

\* Zeros before a number leave it what it is.
LEMMA ZerosBefore ==
  ASSUME NEW k \in Nat, NEW s \in Seq(Digits)
  PROVE  Number(Zeros(k) \o s) = Number(s)
<1>. DEFINE z == Zeros(k)
            t == z \o s
            L == Len(s)
<1>1. z \in Seq(Digits) /\ Len(z) = k /\ L \in Nat /\ \A i \in 1..k : z[i] = 0
  BY ZerosAreDigits
<1>. HIDE DEF z
<1>2. t \in Seq(Digits) /\ Cut(t, z, s)
  BY <1>1, Concat
<1>. HIDE DEF t
<1>3. Len(t) = k + L /\ (\A i \in 1..k : t[i] = 0) /\ \A i \in 1..L : t[k + i] = s[i]
  BY <1>1, <1>2 DEF Cut
<1>4. PICK n : Counts(t, k + L, n) /\ Number(t) = n[k + L]
  BY <1>2, <1>3, NumberCounts
<1>5. PICK m : Counts(s, L, m) /\ Number(s) = m[L]
  BY NumberCounts
<1>. HIDE DEF L
<1>6. \A i \in Nat : i <= k => n[i] = 0
  <2>. DEFINE T == {i \in Nat : i <= k => n[i] = 0}
  <2>1. 0 \in T
    BY <1>4 DEF Counts
  <2>2. ASSUME NEW i \in Nat, i \in T
        PROVE  i + 1 \in T
    <3>. SUFFICES ASSUME i + 1 <= k PROVE n[i + 1] = 0
      OBVIOUS
    <3>1. i + 1 \in 1..(k + L) /\ i + 1 \in 1..k /\ (i + 1) - 1 = i /\ i <= k
      BY <1>1
    <3>2. n[i] = 0 /\ n[i + 1] = 10 * n[i] + t[i + 1] /\ t[i + 1] = 0
      BY <1>3, <1>4, <2>2, <3>1 DEF Counts
    <3>. QED  BY <3>2
  <2>. HIDE DEF T
  <2>3. Nat \subseteq T
    BY <2>1, <2>2, SetInduction
  <2>. QED  BY <2>3 DEF T
<1>7. \A i \in Nat : i <= L => n[k + i] = m[i]
  <2>. DEFINE T == {i \in Nat : i <= L => n[k + i] = m[i]}
  <2>1. 0 \in T
    <3>1. k + 0 = k /\ n[k] = 0 /\ m[0] = 0
      BY <1>5, <1>6 DEF Counts
    <3>. QED  BY <3>1
  <2>2. ASSUME NEW i \in Nat, i \in T
        PROVE  i + 1 \in T
    <3>. SUFFICES ASSUME i + 1 <= L PROVE n[k + (i + 1)] = m[i + 1]
      OBVIOUS
    <3>1. /\ k + (i + 1) \in 1..(k + L) /\ (k + (i + 1)) - 1 = k + i
          /\ i + 1 \in 1..L /\ (i + 1) - 1 = i /\ i <= L
      BY <1>1
    <3>2. n[k + (i + 1)] = 10 * n[k + i] + t[k + (i + 1)]
      BY <1>4, <3>1 DEF Counts
    <3>3. m[i + 1] = 10 * m[i] + s[i + 1]
      BY <1>5, <3>1 DEF Counts
    <3>4. n[k + i] = m[i] /\ t[k + (i + 1)] = s[i + 1]
      BY <1>3, <2>2, <3>1
    <3>. QED  BY <3>2, <3>3, <3>4
  <2>. HIDE DEF T
  <2>3. Nat \subseteq T
    BY <2>1, <2>2, SetInduction
  <2>. QED  BY <2>3 DEF T
<1>8. n[k + L] = m[L]
  BY <1>1, <1>7
<1>. QED  BY <1>4, <1>5, <1>8 DEF t, z

-----------------------------------------------------------------------------
(* Amounts have one value exactly where they have one normal form.         *)

LEMMA AmountParts ==
  ASSUME NEW a \in Amounts
  PROVE  /\ a.whole \in Seq(Digits) /\ a.whole # <<>>
         /\ a.fraction \in Seq(Digits) /\ Len(a.fraction) <= Places
         /\ Len(a.whole) \in Nat
<1>1. /\ a.whole \in Seq(Digits) /\ a.whole # <<>>
      /\ a.fraction \in Seq(Digits) /\ Len(a.fraction) <= Places
  BY AmountsAssumption
<1>2. Len(a.whole) \in Nat
  BY <1>1
<1>. QED  BY <1>1, <1>2

\* The value is the number of the whole part, aligned, and the fraction.
LEMMA ValueAligned ==
  ASSUME NEW a \in Amounts, NEW K \in Nat, Len(a.whole) <= K
  PROVE  /\ Aligned(K, a.whole) \o Padded(a.fraction) \in Seq(Digits)
         /\ Value(a) = Number(Aligned(K, a.whole) \o Padded(a.fraction))
<1>. DEFINE w == a.whole
            p == Padded(a.fraction)
            z == Zeros(K - Len(w))
<1>1. w \in Seq(Digits) /\ p \in Seq(Digits)
  BY AmountParts, PaddedDigits
<1>2. Value(a) = Number(w \o p)
  BY DEF Value
<1>3. Aligned(K, w) = z \o w
  BY DEF Aligned
<1>4. K - Len(w) \in Nat
  BY <1>1
<1>5. z \in Seq(Digits)
  BY <1>4, ZerosAreDigits
<1>. HIDE DEF p
<1>6. w \o p \in Seq(Digits)
  BY <1>1, Concat
<1>7. Number(z \o (w \o p)) = Number(w \o p)
  BY <1>4, <1>6, ZerosBefore
<1>. HIDE DEF z, w
<1>8. (z \o w) \o p = z \o (w \o p)
  BY <1>1, <1>5, ConcatAssociative
<1>9. z \o (w \o p) \in Seq(Digits)
  BY <1>5, <1>6, Concat
<1>10. Aligned(K, w) \o p = z \o (w \o p)
  BY <1>3, <1>8
<1>11. Aligned(K, w) \o p \in Seq(Digits) /\ Value(a) = Number(Aligned(K, w) \o p)
  BY <1>2, <1>7, <1>9, <1>10
<1>. QED  BY <1>11 DEF w, p

LEMMA ValueTells ==
  ASSUME NEW a \in Amounts, NEW b \in Amounts
  PROVE  Value(a) = Value(b) <=>
           Leading(a.whole) = Leading(b.whole) /\ Trailing(a.fraction) = Trailing(b.fraction)
<1>. DEFINE K == Len(a.whole) + Len(b.whole)
            v == Aligned(K, a.whole)
            w == Aligned(K, b.whole)
            p == Padded(a.fraction)
            q == Padded(b.fraction)
<1>1. /\ a.whole \in Seq(Digits) /\ a.whole # <<>> /\ a.fraction \in Seq(Digits)
      /\ b.whole \in Seq(Digits) /\ b.whole # <<>> /\ b.fraction \in Seq(Digits)
      /\ Len(a.fraction) <= Places /\ Len(b.fraction) <= Places
  BY AmountParts
<1>2. K \in Nat /\ Len(a.whole) <= K /\ Len(b.whole) <= K
  <2>1. Len(a.whole) \in Nat /\ Len(b.whole) \in Nat
    BY AmountParts
  <2>2. \A i, j \in Nat : i + j \in Nat /\ i <= i + j /\ j <= i + j
    OBVIOUS
  <2>. QED  BY <2>1, <2>2, Zenon
<1>. HIDE DEF K
<1>3. /\ v \o p \in Seq(Digits) /\ Value(a) = Number(v \o p)
      /\ w \o q \in Seq(Digits) /\ Value(b) = Number(w \o q)
  BY <1>2, ValueAligned
<1>4. /\ v \in Seq(Digits) /\ w \in Seq(Digits) /\ Len(v) = K /\ Len(w) = K
      /\ p \in Seq(Digits) /\ q \in Seq(Digits) /\ Len(p) = Places /\ Len(q) = Places
  BY <1>1, <1>2, AlignedDigits, PaddedDigits
<1>5. v = w <=> Leading(a.whole) = Leading(b.whole)
  BY <1>1, <1>2, LeadingTells
<1>6. p = q <=> Trailing(a.fraction) = Trailing(b.fraction)
  BY <1>1, TrailingTells
<1>. HIDE DEF v, w, p, q
<1>7. ASSUME Value(a) = Value(b)
      PROVE  v = w /\ p = q
  <2>1. Cut(v \o p, v, p)
    BY <1>4, Concat
  <2>2. Cut(w \o q, w, q)
    BY <1>4, Concat
  <2>. DEFINE x == v \o p
              y == w \o q
  <2>3. x \in Seq(Digits) /\ y \in Seq(Digits) /\ Number(x) = Number(y)
    BY <1>3, <1>7
  <2>4. Cut(x, v, p) /\ Cut(y, w, q)
    BY <2>1, <2>2
  <2>. HIDE DEF x, y
  <2>5. Len(x) = Len(y)
    BY <1>4, <2>4 DEF Cut
  <2>6. x = y
    BY <2>3, <2>5, Positional
  <2>. QED  BY <1>4, <2>4, <2>6, SameCut
<1>8. v = w /\ p = q => Value(a) = Value(b)
  BY <1>3
<1>. QED  BY <1>5, <1>6, <1>7, <1>8

LEMMA NormalForms ==
  ASSUME NEW a \in Amounts, NEW b \in Amounts
  PROVE  /\ normalizeAmount(a) \in Lines
         /\ normalizeAmount(a) = normalizeAmount(b) <=> Value(a) = Value(b)
<1>. DEFINE l == Leading(a.whole)
            m == Leading(b.whole)
            f == Trailing(a.fraction)
            g == Trailing(b.fraction)
<1>1. /\ l \in Seq(Digits) /\ m \in Seq(Digits)
      /\ f \in Seq(Digits) /\ g \in Seq(Digits)
  BY AmountParts, LeadingCut, TrailingCut
<1>2. Value(a) = Value(b) <=> l = m /\ f = g
  BY ValueTells
<1>3. normalizeAmount(a) = l \o Behind(f) /\ normalizeAmount(b) = m \o Behind(g)
  BY DEF normalizeAmount
<1>. HIDE DEF l, m, f, g
<1>4. l \o Behind(f) = m \o Behind(g) => l = m /\ f = g
  BY <1>1, PartsTell
<1>5. l \o Behind(f) \in Lines
  <2>. DEFINE C == Nat \ {NL}
  <2>1. Digits \subseteq C /\ Point \in C
    BY DEF Digits, Point, NL
  <2>2. l \in Seq(C) /\ f \in Seq(C)
    BY <1>1, <2>1, SeqMonotonic
  <2>3. <<Point>> \in Seq(C)
    BY <2>1
  <2>. HIDE DEF C
  <2>4. <<Point>> \o f \in Seq(C)
    BY <2>2, <2>3, ConcatProperties
  <2>5. Behind(f) \in Seq(C)
    BY <2>4 DEF Behind
  <2>6. l \o Behind(f) \in Seq(C)
    BY <2>2, <2>5, ConcatProperties
  <2>. QED  BY <2>6 DEF C, Lines
<1>. QED  BY <1>2, <1>3, <1>4, <1>5

-----------------------------------------------------------------------------
(* The fingerprint. *)

\* The wallet that was looked up for a request is one of its asset.
Resolved(p) == p.request \in Requests /\ p.wallet \in WalletsOf[p.request.asset]

Taken(p) == requestFingerprint(p.wallet, p.request)

\* One business of one wallet, one fingerprint.
LEMMA SameFingerprint ==
  ASSUME NEW p, NEW q, Resolved(p), Resolved(q), SameMoney(p, q), SameTarget(p, q)
  PROVE  Taken(p) = Taken(q)
<1>1. p.request.amount \in Amounts /\ q.request.amount \in Amounts
  BY DEF Resolved, Requests
<1>2. normalizeAmount(p.request.amount) = normalizeAmount(q.request.amount)
  BY <1>1, NormalForms DEF SameMoney
<1>. QED  BY <1>2, Zenon DEF SameMoney, SameTarget, Taken, requestFingerprint

\* One fingerprint, one wallet, asset and value; and one destination, if either
\* is of one line.
LEMMA FingerprintTells ==
  ASSUME NEW p, NEW q, Resolved(p), Resolved(q), Taken(p) = Taken(q)
  PROVE  SameMoney(p, q) /\ (OneLine(p) \/ OneLine(q) => SameTarget(p, q))
<1>. DEFINE r == p.request
            s == q.request
            a1 == p.wallet   a2 == r.asset  a3 == normalizeAmount(r.amount)
            a4 == r.to  a5 == r.network
            b1 == q.wallet   b2 == s.asset  b3 == normalizeAmount(s.amount)
            b4 == s.to  b5 == s.network
<1>1. /\ r.amount \in Amounts /\ s.amount \in Amounts /\ a2 \in Lines /\ b2 \in Lines
      /\ a4 \in Texts /\ a5 \in Texts /\ b4 \in Texts /\ b5 \in Texts
      /\ a1 \in Lines /\ b1 \in Lines
  BY TextsAssumption DEF Requests, Resolved
<1>2. a3 \in Lines /\ b3 \in Lines
  BY <1>1, NormalForms
<1>3. HashOf(a1, a2, a3) /\ HashOf(b1, b2, b3)
  BY <1>1, <1>2 DEF HashOf
<1>4. RequestHash(a1, a2, a3, a4, a5) = RequestHash(b1, b2, b3, b4, b5)
  BY Zenon DEF Taken, requestFingerprint
<1>5. a3 = b3 => Value(r.amount) = Value(s.amount)
  BY <1>1, NormalForms
<1>6. /\ OneLine(p) => {a4, a5} \subseteq Lines
      /\ OneLine(q) => {b4, b5} \subseteq Lines
  BY DEF OneLine
<1>7. /\ a1 = b1 /\ a2 = b2 /\ a3 = b3
      /\ {a4, a5} \subseteq Lines => a4 = b4 /\ a5 = b5
      /\ {b4, b5} \subseteq Lines => a4 = b4 /\ a5 = b5
  <2>. HIDE DEF a1, a2, a3, a4, a5, b1, b2, b3, b4, b5
  <2>. QED  BY <1>1, <1>3, <1>4, HashTells
<1>. QED  BY <1>5, <1>6, <1>7 DEF SameMoney, SameTarget

-----------------------------------------------------------------------------
(* The inductive invariant: the row holds the fingerprint of its request,  *)
(* and the answer compares that of the request in hand with it.            *)

RowTells ==
  /\ first # None => Resolved(first) /\ hash = Taken(first)
  /\ answer \in {"replay", "conflict"} =>
       /\ Resolved(first) /\ Resolved(last)
       /\ answer = "replay" <=> Taken(first) = Taken(last)

LEMMA RowTellsInit == Init => RowTells
BY DEF Init, RowTells

LEMMA RowTellsNext == RowTells /\ [Next]_vars => RowTells'
<1>. SUFFICES ASSUME RowTells, [Next]_vars PROVE RowTells'
  OBVIOUS
<1>1. CASE Submit
  <2>1. PICK r \in Requests : \/ Refuse(r)
                              \/ \E wallet \in WalletsOf[r.asset] : Compare(r, wallet)
    BY <1>1 DEF Submit
  <2>2. CASE Refuse(r)
    BY <2>2 DEF Refuse, RowTells, Resolved, Taken
  <2>3. ASSUME NEW wallet \in WalletsOf[r.asset], Compare(r, wallet)
        PROVE  RowTells'
    <3>1. /\ last'.request = r /\ last'.wallet = wallet
      BY <2>3 DEF Compare
    <3>2. Resolved(last') /\ Taken(last') = requestFingerprint(wallet, r)
      BY <3>1 DEF Resolved, Taken
    <3>3. CASE answer' = "new" /\ first' = last' /\ hash' = requestFingerprint(wallet, r)
      BY <3>2, <3>3 DEF RowTells, Resolved, Taken
    <3>4. CASE /\ first # None /\ UNCHANGED <<first, hash>>
               /\ answer' = IF hash = requestFingerprint(wallet, r) THEN "replay" ELSE "conflict"
      <4>1. Resolved(first) /\ hash = Taken(first)
        BY <3>4 DEF RowTells
      <4>2. Resolved(first)' /\ Resolved(last)' /\ Taken(first)' = Taken(first)
        BY <3>2, <3>4, <4>1 DEF Resolved, Taken
      <4>3. answer' = "replay" <=> Taken(first)' = Taken(last)'
        BY <3>2, <3>4, <4>1, <4>2 DEF Taken
      <4>. QED  BY <3>4, <4>1, <4>2, <4>3 DEF RowTells
    <3>. QED  BY <2>3, <3>3, <3>4 DEF Compare
  <2>. QED  BY <2>1, <2>2, <2>3
<1>2. CASE Answered
  BY <1>2 DEF Answered, RowTells, Resolved, Taken
<1>3. CASE UNCHANGED vars
  BY <1>3 DEF vars, RowTells, Resolved, Taken
<1>. QED  BY <1>1, <1>2, <1>3 DEF Next

-----------------------------------------------------------------------------
(* The theorem about withdrawals. *)

\* requestFingerprint and normalizeAmount, by which processWithdrawal takes a
\* request for a replay or for a conflict: for amounts of any length, any texts
\* and whatever wallets are looked up, a replay is always of the same wallet,
\* asset and value, and of the same destination and network where either's are
\* of one line; a conflict never has all of them the same.
THEOREM ReplaysTheSame == Spec => []ReplayOfTheSame
<1>1. RowTells => ReplayOfTheSame
  <2>. SUFFICES ASSUME RowTells PROVE ReplayOfTheSame
    OBVIOUS
  <2>1. ASSUME answer = "replay"
        PROVE  SameMoney(first, last) /\ (OneLine(first) \/ OneLine(last) => SameTarget(first, last))
    BY <2>1, FingerprintTells DEF RowTells
  <2>2. ASSUME answer = "conflict"
        PROVE  ~(SameMoney(first, last) /\ SameTarget(first, last))
    BY <2>2, SameFingerprint DEF RowTells
  <2>. QED  BY <2>1, <2>2 DEF ReplayOfTheSame
<1>. QED  BY RowTellsInit, RowTellsNext, <1>1, PTL DEF Spec

-----------------------------------------------------------------------------
(* The powers of ten: the equation that defines them has a solution, which *)
(* is put together from its beginnings.                                    *)

Beginning(f, n) ==
  f \in [0..n -> Nat] /\ f[0] = 1 /\ \A i \in 0..n : i + 1 <= n => f[i + 1] = 10 * f[i]

LEMMA BeginningsExist == \A n \in Nat : \E f : Beginning(f, n)
<1>. DEFINE T == {n \in Nat : \E f : Beginning(f, n)}
<1>1. 0 \in T
  <2>1. Beginning([i \in 0..0 |-> 1], 0)
    BY DEF Beginning
  <2>. QED  BY <2>1
<1>2. ASSUME NEW n \in Nat, n \in T
      PROVE  n + 1 \in T
  <2>1. PICK f : Beginning(f, n)
    BY <1>2
  <2>. DEFINE g == [i \in 0..(n + 1) |-> IF i = n + 1 THEN 10 * f[n] ELSE f[i]]
  <2>2. f \in [0..n -> Nat] /\ f[0] = 1 /\ \A i \in 0..n : i + 1 <= n => f[i + 1] = 10 * f[i]
    BY <2>1 DEF Beginning
  <2>3. g \in [0..(n + 1) -> Nat] /\ g[0] = 1
    BY <2>2
  <2>4. ASSUME NEW i \in 0..(n + 1), i + 1 <= n + 1
        PROVE  g[i + 1] = 10 * g[i]
    <3>1. CASE i = n
      BY <3>1
    <3>2. CASE i < n
      BY <2>2, <3>2
    <3>. QED  BY <2>4, <3>1, <3>2
  <2>5. Beginning(g, n + 1)
    BY <2>3, <2>4 DEF Beginning
  <2>. QED  BY <2>5
<1>. HIDE DEF T
<1>3. Nat \subseteq T
  BY <1>1, <1>2, SetInduction
<1>. QED  BY <1>3 DEF T

LEMMA BeginningsAgree ==
  ASSUME NEW m \in Nat, NEW n \in Nat, NEW f, NEW g, Beginning(f, m), Beginning(g, n)
  PROVE  \A i \in Nat : i <= m /\ i <= n => f[i] = g[i]
<1>. DEFINE T == {i \in Nat : i <= m /\ i <= n => f[i] = g[i]}
<1>1. 0 \in T
  BY DEF Beginning
<1>2. ASSUME NEW i \in Nat, i \in T
      PROVE  i + 1 \in T
  <2>. SUFFICES ASSUME i + 1 <= m, i + 1 <= n PROVE f[i + 1] = g[i + 1]
    OBVIOUS
  <2>1. f[i] = g[i] /\ i \in 0..m /\ i \in 0..n
    BY <1>2
  <2>. QED  BY <2>1 DEF Beginning
<1>. HIDE DEF T
<1>3. Nat \subseteq T
  BY <1>1, <1>2, SetInduction
<1>. QED  BY <1>3 DEF T

LEMMA TenDef == Ten = [n \in Nat |-> IF n = 0 THEN 1 ELSE 10 * Ten[n - 1]]
<1>. DEFINE B(n) == CHOOSE f : Beginning(f, n)
            F == [n \in Nat |-> B(n)[n]]
<1>1. \A n \in Nat : Beginning(B(n), n)
  BY BeginningsExist
<1>. HIDE DEF B
<1>2. F[0] = 1
  BY <1>1 DEF Beginning
<1>3. ASSUME NEW n \in Nat \ {0}
      PROVE  F[n] = 10 * F[n - 1]
  <2>1. n - 1 \in Nat /\ n - 1 \in 0..n /\ (n - 1) + 1 = n
    OBVIOUS
  <2>2. Beginning(B(n), n) /\ Beginning(B(n - 1), n - 1)
    BY <1>1, <2>1
  <2>3. B(n)[n] = 10 * B(n)[n - 1]
    BY <2>1, <2>2 DEF Beginning
  <2>4. B(n)[n - 1] = B(n - 1)[n - 1]
    BY <2>1, <2>2, BeginningsAgree
  <2>. QED  BY <2>1, <2>3, <2>4
<1>4. F = [n \in Nat |-> IF n = 0 THEN 1 ELSE 10 * F[n - 1]]
  BY <1>2, <1>3
<1>. HIDE DEF F
<1>. QED  BY <1>4 DEF Ten

LEMMA TenNext ==
  Ten[0] = 1 /\ \A n \in Nat : Ten[n + 1] = 10 * Ten[n]
<1>1. Ten[0] = 1
  BY TenDef
<1>2. ASSUME NEW n \in Nat
      PROVE  Ten[n + 1] = 10 * Ten[n]
  <2>1. n + 1 \in Nat /\ n + 1 # 0 /\ (n + 1) - 1 = n
    OBVIOUS
  <2>2. Ten[n + 1] = 10 * Ten[(n + 1) - 1]
    BY <2>1, TenDef
  <2>. QED  BY <2>1, <2>2
<1>. QED  BY <1>1, <1>2

LEMMA TenPositive == \A n \in Nat : Ten[n] \in Nat \ {0}
<1>. DEFINE T == {n \in Nat : Ten[n] \in Nat \ {0}}
<1>1. 0 \in T
  BY TenNext
<1>2. ASSUME NEW n \in Nat, n \in T
      PROVE  n + 1 \in T
  BY <1>2, TenNext
<1>. HIDE DEF T
<1>3. Nat \subseteq T
  BY <1>1, <1>2, SetInduction
<1>. QED  BY <1>3 DEF T

\* The law of exponents.
LEMMA TenSum == \A m, n \in Nat : Ten[m + n] = Ten[m] * Ten[n]
<1>. TAKE m \in Nat
<1>. DEFINE T == {n \in Nat : Ten[m + n] = Ten[m] * Ten[n]}
<1>1. 0 \in T
  BY TenNext, TenPositive
<1>2. ASSUME NEW n \in Nat, n \in T
      PROVE  n + 1 \in T
  <2>1. Ten[m + n] = Ten[m] * Ten[n]
    BY <1>2
  <2>2. Ten[m + (n + 1)] = 10 * Ten[m + n]
    <3>1. m + n \in Nat /\ m + (n + 1) = (m + n) + 1
      OBVIOUS
    <3>. QED  BY <3>1, TenNext
  <2>3. Ten[n + 1] = 10 * Ten[n]
    BY TenNext
  <2>4. Ten[m] \in Nat /\ Ten[n] \in Nat
    BY TenPositive
  <2>5. \A a, b \in Nat : 10 * (a * b) = a * (10 * b)
    OBVIOUS
  <2>6. 10 * (Ten[m] * Ten[n]) = Ten[m] * (10 * Ten[n])
    BY <2>4, <2>5
  <2>. QED  BY <2>1, <2>2, <2>3, <2>6
<1>. HIDE DEF T
<1>3. Nat \subseteq T
  BY <1>1, <1>2, SetInduction
<1>. QED  BY <1>3 DEF T

-----------------------------------------------------------------------------
(* What is valid, and what a column makes of it. *)

USE WidthAssumption, InputsAssumption

Decimals == [units : Int, places : Nat]

\* The first number a column of prices cannot hold.
Bound == Ten[Whole + Fraction]

LEMMA BoundIsNat == Bound \in Nat \ {0}
BY TenPositive DEF Bound

\* A product of numbers is no less in a greater factor.
LEMMA Monotone == \A a, b, c \in Nat : a <= b => a * c <= b * c
<1>. TAKE a \in Nat, b \in Nat, c \in Nat
<1>. HAVE a <= b
<1>1. PICK e \in Nat : b = a + e
  <2>1. b - a \in Nat /\ b = a + (b - a)
    OBVIOUS
  <2>. QED  BY <2>1
<1>2. b * c = a * c + e * c
  BY <1>1
<1>3. a * c \in Nat /\ e * c \in Nat
  OBVIOUS
<1>. QED  BY <1>2, <1>3

\* A valid decimal is a whole number of the column's units, that fits.
LEMMA ValidFits ==
  ASSUME NEW d \in Decimals, Valid(d)
  PROVE  /\ Fraction - d.places \in Nat
         /\ Rounded(d, Fraction) = d.units * Ten[Fraction - d.places]
         /\ Rounded(d, Fraction) \in 1..(Bound - 1)
         /\ Rounded(d, Fraction) * Ten[d.places] = d.units * Ten[Fraction]
<1>. DEFINE u == d.units
            p == d.places
            e == Ten[Fraction - p]
<1>1. /\ u \in Nat \ {0} /\ p \in Nat /\ p <= Fraction /\ Fraction - p \in Nat
      /\ u < Ten[Whole + p]
  BY DEF Valid, Decimals
<1>2. e \in Nat \ {0} /\ Ten[p] \in Nat \ {0} /\ Ten[Whole + p] \in Nat \ {0}
  BY <1>1, TenPositive
<1>3. Rounded(d, Fraction) = u * e
  BY <1>1 DEF Rounded
<1>4. Ten[Whole + p] * e = Bound
  <2>1. Whole + p \in Nat /\ (Whole + p) + (Fraction - p) = Whole + Fraction
    BY <1>1
  <2>. QED  BY <1>1, <2>1, TenSum DEF Bound
<1>5. Ten[p] * e = Ten[Fraction]
  <2>1. p + (Fraction - p) = Fraction
    BY <1>1
  <2>2. Ten[p + (Fraction - p)] = Ten[p] * Ten[Fraction - p]
    BY <1>1, TenSum
  <2>. QED  BY <2>1, <2>2
<1>. HIDE DEF u, p, e
<1>6. u * e \in 1..(Bound - 1)
  <2>1. u + 1 <= Ten[Whole + p] /\ u + 1 \in Nat
    BY <1>1, <1>2
  <2>2. (u + 1) * e <= Bound
    BY <1>2, <1>4, <2>1, Monotone
  <2>3. (u + 1) * e = u * e + e
    BY <1>1, <1>2
  <2>4. 1 * e <= u * e
    BY <1>1, <1>2, Monotone
  <2>5. u * e \in Nat /\ 1 * e = e
    BY <1>1, <1>2
  <2>. QED  BY <1>2, <2>2, <2>3, <2>4, <2>5, BoundIsNat
<1>7. (u * e) * Ten[p] = u * Ten[Fraction]
  <2>1. \A x, y, z \in Nat : (x * y) * z = x * (z * y)
    OBVIOUS
  <2>. QED  BY <1>1, <1>2, <1>5, <2>1
<1>. QED  BY <1>1, <1>3, <1>6, <1>7 DEF u, p, e

\* The column of orders and of prices takes every valid decimal.
LEMMA PriceColumnAccepts ==
  ASSUME NEW d \in Decimals, Valid(d)
  PROVE  Accepts(PriceColumn, d)
BY ValidFits DEF Accepts, PriceColumn, Column, Bound

\* The column of totals takes every product of an amount that a column holds
\* and a valid price, and takes it for the product of what the columns hold.
LEMMA TotalColumnAccepts ==
  ASSUME NEW d \in Decimals, Valid(d), NEW n \in 1..(Bound - 1)
  PROVE  /\ Accepts(TotalColumn, Product([units |-> n, places |-> Fraction], d))
         /\ Rounded(Product([units |-> n, places |-> Fraction], d), TotalColumn.scale)
              = n * Rounded(d, Fraction)
<1>. DEFINE t == Product([units |-> n, places |-> Fraction], d)
            e == Ten[Fraction - d.places]
            r == Rounded(d, Fraction)
<1>1. d.units \in Nat \ {0} /\ d.places \in Nat /\ d.places <= Fraction
  BY DEF Valid, Decimals
<1>2. r = d.units * e /\ r \in 1..(Bound - 1) /\ Fraction - d.places \in Nat
  BY ValidFits
<1>3. e \in Nat
  BY <1>2, TenPositive
<1>4. TotalColumn.scale = 2 * Fraction /\ TotalColumn.most = Ten[2 * (Whole + Fraction)] - 1
  BY DEF TotalColumn, Column
<1>5. t.units = n * d.units /\ t.places = Fraction + d.places
  BY DEF Product
<1>6. t.places <= 2 * Fraction /\ 2 * Fraction - t.places = Fraction - d.places
  BY <1>1, <1>5
<1>7. Rounded(t, TotalColumn.scale) = (n * d.units) * e
  BY <1>4, <1>5, <1>6 DEF Rounded
<1>8. (n * d.units) * e = n * r
  <2>1. \A x, y, z \in Nat : (x * y) * z = x * (y * z)
    OBVIOUS
  <2>2. n \in Nat
    BY BoundIsNat
  <2>. QED  BY <1>1, <1>2, <1>3, <2>1, <2>2
<1>9. Ten[2 * (Whole + Fraction)] = Bound * Bound
  <2>1. Whole + Fraction \in Nat /\ 2 * (Whole + Fraction) = (Whole + Fraction) + (Whole + Fraction)
    OBVIOUS
  <2>. QED  BY <2>1, TenSum DEF Bound
<1>10. n * r \in 1..(Bound * Bound - 1)
  <2>. HIDE DEF r
  <2>1. n \in Nat \ {0} /\ r \in Nat \ {0} /\ n <= Bound - 1 /\ r <= Bound /\ Bound - 1 \in Nat
    BY <1>2, BoundIsNat
  <2>2. n * r <= (Bound - 1) * r /\ r * (Bound - 1) <= Bound * (Bound - 1)
    BY <2>1, BoundIsNat, Monotone
  <2>3. 1 * r <= n * r
    BY <2>1, Monotone
  <2>4. Bound * (Bound - 1) = Bound * Bound - Bound /\ (Bound - 1) * r = r * (Bound - 1)
    BY <2>1, BoundIsNat
  <2>5. n * r \in Nat /\ Bound * Bound \in Nat /\ r * (Bound - 1) \in Nat /\ 1 * r = r
    BY <2>1, BoundIsNat
  <2>. QED  BY <2>1, <2>2, <2>3, <2>4, <2>5, BoundIsNat
<1>11. Rounded(t, TotalColumn.scale) = n * r
  BY <1>7, <1>8
<1>12. Accepts(TotalColumn, t)
  BY <1>4, <1>9, <1>10, <1>11 DEF Accepts
<1>. QED  BY <1>11, <1>12

-----------------------------------------------------------------------------
(* The inductive invariant: every row holds the decimal that was written.  *)

Holds(n, d) == d \in Decimals /\ Valid(d) /\ n = Rounded(d, Fraction)

RowsHold ==
  /\ status \in {"none", "refused", "PENDING", "FAILED", "SETTLED"}
  /\ wanted \in [amount : Decimals, price : Decimals]
  /\ status \in {"PENDING", "SETTLED"} => Holds(amount, wanted.amount)
  /\ status = "SETTLED" => Holds(price, wanted.price) /\ total = amount * price

LEMMA RowsHoldInit == AmountsInit => RowsHold
BY DEF AmountsInit, RowsHold, Zero, Decimals

LEMMA RowsHoldNext == RowsHold /\ [AmountsNext]_amountsVars => RowsHold'
<1>. SUFFICES ASSUME RowsHold, [AmountsNext]_amountsVars PROVE RowsHold'
  OBVIOUS
<1>1. CASE Create
  <2>1. PICK d \in Inputs :
          \/ /\ ~Valid(d)
             /\ status' = "refused" /\ UNCHANGED <<amount, wanted>>
          \/ /\ Valid(d) /\ wanted' = [wanted EXCEPT !.amount = d]
             /\ IF Accepts(PriceColumn, d)
                THEN status' = "PENDING" /\ amount' = Rounded(d, Fraction)
                ELSE status' = "unavailable" /\ UNCHANGED amount
    BY <1>1 DEF Create
  <2>2. d \in Decimals
    BY DEF Decimals
  <2>3. Valid(d) => Accepts(PriceColumn, d)
    BY <2>2, PriceColumnAccepts
  <2>. QED  BY <2>1, <2>2, <2>3 DEF RowsHold, Holds
<1>2. CASE Malformed
  BY <1>2 DEF Malformed, RowsHold
<1>3. CASE Settle
  <2>. DEFINE t(d) == Product([units |-> amount, places |-> Fraction], d)
  <2>1. PICK d \in Inputs :
          /\ Valid(d)
          /\ wanted' = [wanted EXCEPT !.price = d]
          /\ IF Accepts(PriceColumn, d) /\ Accepts(TotalColumn, t(d))
             THEN /\ status' = "SETTLED"
                  /\ price' = Rounded(d, Fraction)
                  /\ total' = Rounded(t(d), TotalColumn.scale)
             ELSE status' = "stuck" /\ UNCHANGED <<price, total>>
    BY <1>3 DEF Settle
  <2>2. d \in Decimals /\ status = "PENDING" /\ amount' = amount
    BY <1>3 DEF Settle, Decimals
  <2>3. Holds(amount, wanted.amount) /\ wanted \in [amount : Decimals, price : Decimals]
    BY <2>2 DEF RowsHold
  <2>4. amount \in 1..(Bound - 1)
    BY <2>3, ValidFits DEF Holds
  <2>5. Accepts(PriceColumn, d)
    BY <2>1, <2>2, PriceColumnAccepts
  <2>6. /\ Accepts(TotalColumn, t(d))
        /\ Rounded(t(d), TotalColumn.scale) = amount * Rounded(d, Fraction)
    BY <2>1, <2>2, <2>4, TotalColumnAccepts
  <2>. HIDE DEF t
  <2>7. /\ status' = "SETTLED" /\ price' = Rounded(d, Fraction)
        /\ total' = amount' * price'
    BY <2>1, <2>2, <2>5, <2>6
  <2>8. /\ wanted'.price = d /\ wanted'.amount = wanted.amount
        /\ wanted' \in [amount : Decimals, price : Decimals]
    BY <2>1, <2>2, <2>3
  <2>9. Holds(amount', wanted'.amount) /\ Holds(price', wanted'.price)
    BY <2>1, <2>2, <2>3, <2>7, <2>8 DEF Holds
  <2>. QED  BY <2>7, <2>8, <2>9 DEF RowsHold
<1>4. CASE UNCHANGED amountsVars
  BY <1>4 DEF amountsVars, RowsHold
<1>. QED  BY <1>1, <1>2, <1>3, <1>4 DEF AmountsNext

-----------------------------------------------------------------------------
(* The theorem about amounts and prices. *)

\* validInput, parsePrice, settle and the columns of 001_orders.sql: for any
\* number of digits before and behind the point, no row refuses a decimal that
\* was accepted, and a settled order was settled at the amount and the price
\* that were written, to the last digit.
THEOREM ColumnsSuffice == AmountsSpec => []ColumnsHoldTheAccepted
<1>1. RowsHold => ColumnsHoldTheAccepted
  <2>. SUFFICES ASSUME RowsHold, status = "SETTLED"
                PROVE  /\ amount * Ten[wanted.amount.places] = wanted.amount.units * Ten[Fraction]
                       /\ price * Ten[wanted.price.places] = wanted.price.units * Ten[Fraction]
    BY DEF RowsHold, ColumnsHoldTheAccepted
  <2>1. Holds(amount, wanted.amount) /\ Holds(price, wanted.price)
    BY DEF RowsHold
  <2>. QED  BY <2>1, ValidFits DEF Holds
<1>. QED  BY RowsHoldInit, RowsHoldNext, <1>1, PTL DEF AmountsSpec
=============================================================================
