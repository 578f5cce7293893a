------------------------ MODULE CoinbaseReadsProofs ------------------------
(***************************************************************************)
(* For any number of wallets, pages and attempts: the reads of a callback  *)
(* store whole snapshots, and give up only for a reason.                   *)
(***************************************************************************)
EXTENDS CoinbaseReads, FiniteSetTheorems, WellFoundedInduction, SequenceTheorems, TLAPS

-----------------------------------------------------------------------------
(* Finite sets of numbers. *)

LEMMA StrictSubset ==
  ASSUME NEW S, NEW A \in SUBSET S, NEW B \in SUBSET S, A \subseteq B, A # B
  PROVE  <<A, B>> \in StrictSubsetOrdering(S)
<1>. DEFINE p == <<A, B>>
<1>1. p \in (SUBSET S) \X (SUBSET S) /\ p[1] = A /\ p[2] = B
  OBVIOUS
<1>. HIDE DEF p
<1>2. p \in StrictSubsetOrdering(S)
  BY <1>1 DEF StrictSubsetOrdering
<1>. QED  BY <1>2 DEF p

\* A set of finite sets has a member that no other is strictly within.
LEMMA HasSmallest ==
  ASSUME NEW S, NEW F, F \subseteq FiniteSubsetsOf(S), F # {}
  PROVE  \E B \in F : \A C \in F : ~(C \subseteq B /\ C # B)
<1>1. PICK B \in F : \A C \in F : ~(<<C, B>> \in StrictSubsetOrdering(S))
  BY FS_StrictSubsetOrderingWellFounded, WFMin, Zenon
<1>2. \A C \in F : C \in SUBSET S
  BY DEF FiniteSubsetsOf
<1>3. \A C \in F : ~(C \subseteq B /\ C # B)
  BY <1>1, <1>2, StrictSubset
<1>. QED  BY <1>3

\* A finite set of numbers has a least member.
LEMMA HasLeast ==
  ASSUME NEW S \in SUBSET Nat, IsFiniteSet(S), S # {}
  PROVE  \E m \in S : \A k \in S : m <= k
<1>. DEFINE Below(n) == {k \in S : k < n}
            Belows == {Below(n) : n \in S}
<1>1. \A n \in S : Below(n) \in FiniteSubsetsOf(S)
  BY FS_Subset DEF FiniteSubsetsOf
<1>2. Belows \subseteq FiniteSubsetsOf(S) /\ Belows # {}
  BY <1>1
<1>. HIDE DEF Belows
<1>3. PICK B \in Belows : \A C \in Belows : ~(C \subseteq B /\ C # B)
  BY <1>2, HasSmallest
<1>4. PICK m \in S : B = Below(m)
  BY <1>3 DEF Belows
<1>5. ASSUME NEW k \in S, k < m
      PROVE  FALSE
  <2>1. Below(k) \in Belows
    BY DEF Belows
  <2>2. Below(k) \subseteq B
    <3>1. ASSUME NEW i \in S, i < k
          PROVE  i < m
      <4>1. i \in Nat /\ k \in Nat /\ m \in Nat
        OBVIOUS
      <4>. QED  BY <1>5, <3>1, <4>1
    <3>. QED  BY <1>4, <3>1
  <2>3. k \in B /\ k \notin Below(k)
    BY <1>4, <1>5
  <2>. QED  BY <1>3, <2>1, <2>2, <2>3
<1>. QED  BY <1>5

\* ... and a greatest.
LEMMA HasGreatest ==
  ASSUME NEW S \in SUBSET Nat, IsFiniteSet(S), S # {}
  PROVE  \E m \in S : \A k \in S : k <= m
<1>. DEFINE Above(n) == {k \in S : k > n}
            Aboves == {Above(n) : n \in S}
<1>1. \A n \in S : Above(n) \in FiniteSubsetsOf(S)
  BY FS_Subset DEF FiniteSubsetsOf
<1>2. Aboves \subseteq FiniteSubsetsOf(S) /\ Aboves # {}
  BY <1>1
<1>. HIDE DEF Aboves
<1>3. PICK B \in Aboves : \A C \in Aboves : ~(C \subseteq B /\ C # B)
  BY <1>2, HasSmallest
<1>4. PICK m \in S : B = Above(m)
  BY <1>3 DEF Aboves
<1>5. ASSUME NEW k \in S, k > m
      PROVE  FALSE
  <2>1. Above(k) \in Aboves
    BY DEF Aboves
  <2>2. Above(k) \subseteq B
    <3>1. ASSUME NEW i \in S, i > k
          PROVE  i > m
      <4>1. i \in Nat /\ k \in Nat /\ m \in Nat
        OBVIOUS
      <4>. QED  BY <1>5, <3>1, <4>1
    <3>. QED  BY <1>4, <3>1
  <2>3. k \in B /\ k \notin Above(k)
    BY <1>4, <1>5
  <2>. QED  BY <1>3, <2>1, <2>2, <2>3
<1>. QED  BY <1>5

-----------------------------------------------------------------------------
(* Pages. *)

USE BoundsAssumption, WalletsAssumption

LEMMA WalletsAreFinite ==
  ASSUME NEW S \in SUBSET Wallets
  PROVE  S \in SUBSET Nat /\ IsFiniteSet(S) /\ Cardinality(S) \in Nat
BY FS_Subset, FS_CardinalityType

LEMMA PageWithin ==
  ASSUME NEW c \in Nat, exist \in SUBSET Wallets
  PROVE  Page(c) \subseteq After(c) /\ After(c) \subseteq exist
BY DEF Page, After

\* What is listed before a member of a page is on the page.
LEMMA PageIsPrefix ==
  ASSUME NEW c \in Nat, exist \in SUBSET Wallets,
         NEW a \in Page(c), NEW b \in After(c), b <= a
  PROVE  b \in Page(c)
<1>. DEFINE Before(n) == {k \in After(c) : k < n}
<1>1. Before(b) \in SUBSET Before(a) /\ Before(a) \in SUBSET Wallets
  <2>1. After(c) \in SUBSET Wallets /\ a \in After(c)
    BY DEF Page, After
  <2>2. ASSUME NEW i \in After(c), i < b
        PROVE  i < a
    <3>1. i \in Nat /\ a \in Nat /\ b \in Nat
      BY <2>1
    <3>. QED  BY <2>2, <3>1
  <2>. QED  BY <2>1, <2>2
<1>2. /\ Cardinality(Before(b)) \in Nat /\ Cardinality(Before(a)) \in Nat
      /\ Cardinality(Before(b)) <= Cardinality(Before(a))
  BY <1>1, WalletsAreFinite, FS_Subset
<1>3. Cardinality(Before(a)) < PageSize
  BY DEF Page
<1>4. Cardinality(Before(b)) < PageSize
  BY <1>2, <1>3
<1>. QED  BY <1>4 DEF Page

\* A page that is not the last is full.
LEMMA PageIsFull ==
  ASSUME NEW c \in Nat, exist \in SUBSET Wallets, Page(c) # After(c)
  PROVE  Cardinality(Page(c)) >= PageSize
<1>. DEFINE Before(n) == {k \in After(c) : k < n}
<1>1. After(c) \ Page(c) # {} /\ After(c) \in SUBSET Wallets
  BY DEF Page, After
<1>2. PICK m \in After(c) \ Page(c) : \A k \in After(c) \ Page(c) : m <= k
  BY <1>1, HasLeast, WalletsAreFinite
<1>3. Before(m) \in SUBSET Page(c)
  <2>1. ASSUME NEW i \in After(c), i < m, i \notin Page(c)
        PROVE  FALSE
    <3>1. i \in Nat /\ m \in Nat /\ m <= i
      BY <1>1, <1>2, <2>1
    <3>. QED  BY <2>1, <3>1
  <2>. QED  BY <2>1
<1>4. Cardinality(Before(m)) >= PageSize
  <2>1. ~(Cardinality(Before(m)) < PageSize)
    BY <1>2 DEF Page
  <2>2. Cardinality(Before(m)) \in Nat
    BY <1>1, WalletsAreFinite
  <2>. QED  BY <2>1, <2>2
<1>5. Page(c) \in SUBSET Wallets
  BY DEF Page, After
<1>6. /\ Cardinality(Before(m)) <= Cardinality(Page(c))
      /\ Cardinality(Before(m)) \in Nat /\ Cardinality(Page(c)) \in Nat
  BY <1>1, <1>3, <1>5, WalletsAreFinite, FS_Subset
<1>. QED  BY <1>4, <1>6

\* An honest cursor is zero behind the last page, and the greatest wallet of
\* any other.
LEMMA HonestCursor ==
  ASSUME NEW c \in Nat, exist \in SUBSET Wallets, honest, NEW d \in Following(c)
  PROVE  \/ d = 0 /\ Page(c) = After(c)
         \/ d # 0 /\ d \in Page(c) /\ (\A b \in Page(c) : b <= d) /\ Page(c) # After(c)
<1>1. CASE Page(c) = After(c)
  BY <1>1 DEF Following
<1>2. CASE Page(c) # After(c)
  <2>1. Page(c) \in SUBSET Wallets
    BY DEF Page, After
  <2>2. Cardinality(Page(c)) >= PageSize
    BY <1>2, PageIsFull
  <2>3. Page(c) # {}
    <3>. SUFFICES ASSUME Page(c) = {} PROVE FALSE
      OBVIOUS
    <3>. QED  BY <2>2, FS_EmptySet
  <2>4. \E a \in Page(c) : \A b \in Page(c) : b <= a
    BY <2>1, <2>3, HasGreatest, WalletsAreFinite
  <2>5. d = CHOOSE a \in Page(c) : \A b \in Page(c) : b <= a
    BY <1>2 DEF Following
  <2>6. d \in Page(c) /\ \A b \in Page(c) : b <= d
    BY <2>4, <2>5
  <2>. QED  BY <1>2, <2>1, <2>6
<1>. QED  BY <1>1, <1>2

-----------------------------------------------------------------------------
(* The inductive invariant. *)

Read == UNION Range(accounts)

\* The failures in a row are those of the attempts of this read.
Attempts ==
  /\ result = "none" <=> reading # "done"
  /\ waiting => reading \in {"user", "accounts"} /\ attempt < Retries
  /\ reading \in {"user", "accounts"} => failures = IF waiting THEN attempt ELSE attempt - 1
  /\ result = "failed" => failures = Retries

\* Whatever the cursors were, what is read is open.
Within ==
  /\ there \subseteq exist /\ Read \subseteq exist
  /\ reading = "user" => accounts = <<>> /\ cursor = 0
  /\ reading = "accounts" => Len(accounts) < MaxPages
  /\ result = "ok" => ~Repeated /\ stored \subseteq exist

\* What has been read along honest cursors: up to the cursor, in full pages,
\* all that there was, nothing twice.
SoFar ==
  /\ \A a \in Read : a <= cursor
  /\ \A a \in there : a <= cursor => a \in Read
  /\ Cardinality(Read) >= Len(accounts) * PageSize

Honest ==
  honest => /\ reading = "accounts" => SoFar
            /\ reading = "balances" => there \subseteq Read
            /\ reading # "done" => ~Repeated
            /\ result = "ok" => there \subseteq stored
            /\ result = "endless" => Cardinality(exist) > MaxPages * PageSize
            /\ result # "conflict"

Inv == TypeOK /\ Attempts /\ Within /\ Honest

LEMMA FollowingIn ==
  ASSUME NEW c \in Nat, exist \in SUBSET Wallets, honest \in BOOLEAN, NEW d \in Following(c)
  PROVE  d \in exist \cup {0}
<1>1. CASE honest
  BY <1>1, HonestCursor, PageWithin
<1>2. CASE ~honest
  BY <1>2 DEF Following
<1>. QED  BY <1>1, <1>2

LEMMA ReadAppend ==
  ASSUME NEW s \in Seq(SUBSET Wallets), NEW P \in SUBSET Wallets
  PROVE  /\ Append(s, P) \in Seq(SUBSET Wallets)
         /\ Len(Append(s, P)) = Len(s) + 1
         /\ UNION Range(Append(s, P)) = (UNION Range(s)) \cup P
<1>1. /\ Append(s, P) \in Seq(SUBSET Wallets)
      /\ Len(s) \in Nat
      /\ Len(Append(s, P)) = Len(s) + 1
      /\ Append(s, P)[Len(s) + 1] = P
      /\ \A i \in 1..Len(s) : Append(s, P)[i] = s[i]
      /\ DOMAIN s = 1..Len(s)
      /\ DOMAIN Append(s, P) = 1..(Len(s) + 1)
  OBVIOUS
<1>2. 1..(Len(s) + 1) = 1..Len(s) \cup {Len(s) + 1}
  BY <1>1
<1>3. Range(Append(s, P)) = Range(s) \cup {P}
  BY <1>1, <1>2 DEF Range
<1>4. ASSUME NEW A PROVE UNION (A \cup {P}) = (UNION A) \cup P
  OBVIOUS
<1>5. UNION Range(Append(s, P)) = (UNION Range(s)) \cup P
  BY <1>3, <1>4
<1>. QED  BY <1>1, <1>5

-----------------------------------------------------------------------------
(* Types and attempts. *)

LEMMA InvInit == Init => Inv
<1>. SUFFICES ASSUME Init PROVE Inv
  OBVIOUS
<1>1. accounts = <<>> /\ DOMAIN accounts = {} /\ Len(accounts) = 0 /\ accounts \in Seq(SUBSET Wallets)
  BY DEF Init
<1>2. Read = {} /\ ~Repeated
  BY <1>1 DEF Read, Range, Repeated
<1>3. TypeOK
  <2>1. {exist, there, stored} \subseteq SUBSET Wallets
    BY DEF Init
  <2>2. attempt \in 1..Retries /\ failures \in 0..Retries /\ Len(accounts) <= MaxPages
    BY <1>1 DEF Init
  <2>. QED  BY <1>1, <2>1, <2>2 DEF Init, TypeOK, Results
<1>4. Attempts
  BY DEF Init, Attempts
<1>5. Within
  BY <1>1, <1>2 DEF Init, Within
<1>6. Honest
  BY <1>2 DEF Init, Honest
<1>. QED  BY <1>3, <1>4, <1>5, <1>6 DEF Inv

LEMMA TypeNext ==
  ASSUME Inv, Next
  PROVE  TypeOK'
<1>. USE DEF Inv, TypeOK, Results
<1>. cursor \in Nat /\ attempt \in Nat
  OBVIOUS
<1>1. CASE OpenWallet
  BY <1>1 DEF OpenWallet, client
<1>2. CASE Cancel
  BY <1>2 DEF Cancel, client, coinbase
<1>3. CASE Refused
  BY <1>3 DEF Refused, Get, Ends, coinbase
<1>4. CASE Fails
  <2>1. failures' \in 0..Retries
    BY <1>4 DEF Fails, Get, Attempts
  <2>. QED  BY <1>4, <2>1 DEF Fails, Get, Ends, coinbase
<1>5. CASE Again
  <2>1. attempt' \in 1..Retries
    BY <1>5 DEF Again, Attempts
  <2>. QED  BY <1>5, <2>1 DEF Again, coinbase
<1>6. CASE WaitCut
  BY <1>6 DEF WaitCut, coinbase
<1>7. CASE Invalid
  BY <1>7 DEF Invalid, Get, Ends, coinbase
<1>8. CASE User
  BY <1>8 DEF User, Get, NextRead, coinbase
<1>9. CASE PageRead
  <2>1. Page(cursor) \in SUBSET Wallets
    BY PageWithin
  <2>2. accounts' \in Seq(SUBSET Wallets) /\ Len(accounts') = Len(accounts) + 1
    BY <1>9, <2>1, ReadAppend DEF PageRead
  <2>3. Len(accounts) < MaxPages /\ Len(accounts) \in Nat
    BY <1>9 DEF PageRead, Get, Within
  <2>4. \A d \in Following(cursor) : d \in Wallets \cup {0}
    BY FollowingIn
  <2>5. PICK d \in Following(cursor) :
          IF d = 0 THEN NextRead("balances", 0)
          ELSE IF Len(accounts') = MaxPages
               THEN reading' = "done" /\ result' = "endless" /\ UNCHANGED <<attempt, waiting, cursor>>
               ELSE NextRead("accounts", d)
    BY <1>9 DEF PageRead
  <2>6. Len(accounts') <= MaxPages /\ attempt' \in 1..Retries /\ cursor' \in Wallets \cup {0}
    BY <2>2, <2>3, <2>4, <2>5 DEF NextRead
  <2>. QED  BY <1>9, <2>2, <2>5, <2>6 DEF PageRead, Get, NextRead, coinbase
<1>10. CASE Persist
  <2>1. Read \in SUBSET Wallets
    BY DEF Within
  <2>. QED  BY <1>10, <2>1 DEF Persist, coinbase, Read
<1>. QED  BY <1>1, <1>2, <1>3, <1>4, <1>5, <1>6, <1>7, <1>8, <1>9, <1>10 DEF Next

LEMMA AttemptsNext ==
  ASSUME Inv, Next
  PROVE  Attempts'
<1>. USE DEF Inv, TypeOK, Attempts
<1>1. CASE OpenWallet
  BY <1>1 DEF OpenWallet, client
<1>2. CASE Cancel
  BY <1>2 DEF Cancel, client, coinbase
<1>3. CASE Refused
  BY <1>3 DEF Refused, Get, Ends, coinbase
<1>4. CASE Fails
  BY <1>4 DEF Fails, Get, Ends, coinbase
<1>5. CASE Again
  BY <1>5 DEF Again, coinbase
<1>6. CASE WaitCut
  BY <1>6 DEF WaitCut, coinbase
<1>7. CASE Invalid
  BY <1>7 DEF Invalid, Get, Ends, coinbase
<1>8. CASE User
  BY <1>8 DEF User, Get, NextRead, coinbase
<1>9. CASE PageRead
  BY <1>9 DEF PageRead, Get, NextRead, coinbase
<1>10. CASE Persist
  BY <1>10 DEF Persist, coinbase
<1>. QED  BY <1>1, <1>2, <1>3, <1>4, <1>5, <1>6, <1>7, <1>8, <1>9, <1>10 DEF Next

-----------------------------------------------------------------------------
(* What is read. *)

\* The steps that read no page.
LEMMA SamePages ==
  ASSUME accounts' = accounts
  PROVE  Read' = Read /\ (Repeated' <=> Repeated)
BY DEF Read, Repeated

LEMMA WithinNext ==
  ASSUME Inv, Next
  PROVE  Within'
<1>. USE DEF Inv, Within
<1>1. CASE OpenWallet
  BY <1>1, SamePages DEF OpenWallet, client
<1>2. CASE Cancel
  BY <1>2, SamePages DEF Cancel, client, coinbase
<1>3. CASE Refused
  BY <1>3, SamePages DEF Refused, Get, Ends, coinbase, Attempts
<1>4. CASE Fails
  BY <1>4, SamePages DEF Fails, Get, Ends, coinbase, Attempts
<1>5. CASE Again
  BY <1>5, SamePages DEF Again, coinbase
<1>6. CASE WaitCut
  BY <1>6, SamePages DEF WaitCut, coinbase
<1>7. CASE Invalid
  BY <1>7, SamePages DEF Invalid, Get, Ends, coinbase, Attempts
<1>8. CASE User
  <2>1. Len(accounts') = 0 /\ MaxPages \in Nat \ {0} /\ result' # "ok"
    BY <1>8 DEF User, Get, NextRead, Attempts
  <2>. QED  BY <1>8, <2>1, SamePages DEF User, Get, NextRead, coinbase
<1>9. CASE PageRead
  <2>1. Page(cursor) \subseteq exist /\ cursor \in Nat
    BY PageWithin DEF TypeOK
  <2>2. Read' = Read \cup Page(cursor) /\ Len(accounts') = Len(accounts) + 1
    BY <1>9, <2>1, ReadAppend DEF PageRead, Read, TypeOK
  <2>3. result' # "ok" /\ reading' # "user" /\ exist' = exist /\ there' = there
    BY <1>9 DEF PageRead, Get, NextRead, coinbase, Attempts
  <2>4. reading' = "accounts" => Len(accounts') # MaxPages
    BY <1>9 DEF PageRead, NextRead
  <2>5. Len(accounts) < MaxPages /\ Len(accounts) \in Nat
    BY <1>9 DEF PageRead, Get, TypeOK
  <2>6. reading' = "accounts" => Len(accounts') < MaxPages
    BY <2>2, <2>4, <2>5
  <2>. QED  BY <2>1, <2>2, <2>3, <2>6
<1>10. CASE Persist
  BY <1>10, SamePages DEF Persist, coinbase, Attempts, Read
<1>. QED  BY <1>1, <1>2, <1>3, <1>4, <1>5, <1>6, <1>7, <1>8, <1>9, <1>10 DEF Next

\* An honest page adds its wallets, each for the first time, behind those that
\* were read.
LEMMA HonestPage ==
  ASSUME Inv, honest, PageRead
  PROVE  /\ Read' = Read \cup Page(cursor)
         /\ Page(cursor) \cap Read = {}
         /\ ~Repeated'
<1>. USE DEF Inv, TypeOK
<1>1. reading = "accounts" /\ SoFar /\ ~Repeated
  BY DEF PageRead, Get, Honest
<1>2. Page(cursor) \in SUBSET Wallets /\ cursor \in Nat
  BY PageWithin
<1>3. Read' = Read \cup Page(cursor)
  BY <1>2, ReadAppend DEF PageRead, Read
<1>4. Page(cursor) \cap Read = {}
  <2>. SUFFICES ASSUME NEW a \in Page(cursor), a \in Read PROVE FALSE
    OBVIOUS
  <2>1. a > cursor /\ a <= cursor /\ a \in Nat
    BY <1>1, <1>2 DEF Page, After, SoFar
  <2>. QED  BY <1>2, <2>1
<1>5. ~Repeated'
  <2>. SUFFICES ASSUME NEW i \in DOMAIN accounts', NEW j \in DOMAIN accounts', i < j,
                       NEW a \in accounts'[i], a \in accounts'[j]
                PROVE  FALSE
    BY DEF Repeated
  <2>1. /\ DOMAIN accounts = 1..Len(accounts) /\ Len(accounts) \in Nat
        /\ DOMAIN accounts' = 1..(Len(accounts) + 1)
        /\ \A k \in 1..Len(accounts) : accounts'[k] = accounts[k]
        /\ accounts'[Len(accounts) + 1] = Page(cursor)
    BY <1>2 DEF PageRead
  <2>2. i \in DOMAIN accounts /\ a \in accounts[i]
    BY <2>1
  <2>3. CASE j \in DOMAIN accounts
    <3>1. a \in accounts[j]
      BY <2>1, <2>3
    <3>. QED  BY <1>1, <2>2, <2>3, <3>1 DEF Repeated
  <2>4. CASE j \notin DOMAIN accounts
    <3>1. a \in Page(cursor)
      BY <2>1, <2>4
    <3>2. a \in Read
      BY <2>2 DEF Read, Range
    <3>. QED  BY <1>4, <3>1, <3>2
  <2>. QED  BY <2>3, <2>4
<1>. QED  BY <1>3, <1>4, <1>5

\* ... and unless it is the last, as many as a page holds.
LEMMA FullPage ==
  ASSUME Inv, honest, PageRead, Page(cursor) # After(cursor)
  PROVE  /\ Cardinality(Read') >= (Len(accounts) + 1) * PageSize
         /\ Cardinality(Read') \in Nat
<1>. USE DEF Inv, TypeOK
<1>1. Read \in SUBSET Wallets /\ Page(cursor) \in SUBSET Wallets /\ cursor \in Nat
  BY PageWithin DEF Within
<1>2. Read' = Read \cup Page(cursor) /\ Page(cursor) \cap Read = {}
  BY HonestPage
<1>3. /\ IsFiniteSet(Read) /\ IsFiniteSet(Page(cursor))
      /\ Cardinality(Read) \in Nat /\ Cardinality(Page(cursor)) \in Nat
  BY <1>1, WalletsAreFinite
<1>4. Cardinality(Read \cup Page(cursor)) = Cardinality(Read) + Cardinality(Page(cursor))
  <2>1. Cardinality(Read \cap Page(cursor)) = 0
    BY <1>2, FS_EmptySet
  <2>2. Cardinality(Read \cup Page(cursor))
           = Cardinality(Read) + Cardinality(Page(cursor)) - Cardinality(Read \cap Page(cursor))
    BY <1>3, FS_Union, Zenon
  <2>. QED  BY <1>3, <2>1, <2>2
<1>5. Cardinality(Read) >= Len(accounts) * PageSize
  BY DEF PageRead, Get, Honest, SoFar
<1>6. Cardinality(Page(cursor)) >= PageSize
  BY <1>1, PageIsFull
<1>7. Len(accounts) \in Nat /\ PageSize \in Nat
  OBVIOUS
<1>8. (Len(accounts) + 1) * PageSize = Len(accounts) * PageSize + PageSize
  BY <1>7
<1>9. Len(accounts) * PageSize \in Nat
  BY <1>7
<1>10. \A r, q, m, s \in Nat : r >= m /\ q >= s => r + q >= m + s
  OBVIOUS
<1>11. Cardinality(Read) + Cardinality(Page(cursor)) >= Len(accounts) * PageSize + PageSize
  BY <1>3, <1>5, <1>6, <1>7, <1>9, <1>10, Zenon
<1>12. Cardinality(Read') = Cardinality(Read) + Cardinality(Page(cursor))
  BY <1>2, <1>4
<1>. QED  BY <1>3, <1>8, <1>11, <1>12

\* A cursor behind a page means a wallet that is still to be listed.
LEMMA MoreThanRead ==
  ASSUME Inv, honest, PageRead, Page(cursor) # After(cursor)
  PROVE  Cardinality(exist) > (Len(accounts) + 1) * PageSize
<1>. USE DEF Inv, TypeOK
<1>1. Page(cursor) \subseteq After(cursor) /\ After(cursor) \subseteq exist /\ cursor \in Nat
  BY PageWithin
<1>2. PICK a \in After(cursor) : a \notin Page(cursor)
  BY <1>1
<1>3. a \notin Read'
  <2>1. a > cursor /\ a \in Nat
    BY <1>1, <1>2 DEF After
  <2>2. a \notin Read
    BY <1>1, <2>1 DEF PageRead, Get, Honest, SoFar
  <2>. QED  BY <1>2, <2>2, HonestPage
<1>4. Read' \in SUBSET Wallets /\ Read' \cup {a} \in SUBSET exist
  BY <1>1, <1>2, HonestPage DEF Within
<1>5. Cardinality(Read' \cup {a}) = Cardinality(Read') + 1
  BY <1>3, <1>4, FS_AddElement, WalletsAreFinite, Zenon
<1>6. Cardinality(Read' \cup {a}) <= Cardinality(exist) /\ Cardinality(exist) \in Nat
  BY <1>4, FS_Subset, WalletsAreFinite
<1>7. Cardinality(Read') >= (Len(accounts) + 1) * PageSize /\ Cardinality(Read') \in Nat
  BY FullPage
<1>8. (Len(accounts) + 1) * PageSize \in Nat
  OBVIOUS
<1>9. \A r, n, e \in Nat : r >= n /\ r + 1 <= e => e > n
  OBVIOUS
<1>. QED  BY <1>5, <1>6, <1>7, <1>8, <1>9

LEMMA HonestNext ==
  ASSUME Inv, Next, honest'
  PROVE  /\ reading' = "accounts" => SoFar'
         /\ reading' = "balances" => there' \subseteq Read'
         /\ reading' # "done" => ~Repeated'
         /\ result' = "ok" => there' \subseteq stored'
         /\ result' = "endless" => Cardinality(exist') > MaxPages * PageSize
         /\ result' # "conflict"
<1>. USE DEF Inv, Honest, Attempts
<1>1. CASE OpenWallet
  <2>1. exist' \in SUBSET Wallets /\ exist \in SUBSET exist'
    BY <1>1 DEF OpenWallet, TypeOK
  <2>2. /\ Cardinality(exist) \in Nat /\ Cardinality(exist') \in Nat
        /\ Cardinality(exist) <= Cardinality(exist')
    BY <2>1, WalletsAreFinite, FS_Subset
  <2>3. Cardinality(exist) > MaxPages * PageSize => Cardinality(exist') > MaxPages * PageSize
    <3>1. MaxPages * PageSize \in Nat
      OBVIOUS
    <3>2. \A n, e, f \in Nat : e > n /\ e <= f => f > n
      OBVIOUS
    <3>. QED  BY <2>2, <3>1, <3>2, Zenon
  <2>. QED  BY <1>1, <2>3, SamePages DEF OpenWallet, client, SoFar
<1>2. CASE Cancel
  BY <1>2, SamePages DEF Cancel, client, coinbase, SoFar
<1>3. CASE Refused
  BY <1>3 DEF Refused, Get, Ends, coinbase
<1>4. CASE Fails
  BY <1>4, SamePages DEF Fails, Get, Ends, coinbase, SoFar
<1>5. CASE Again
  BY <1>5, SamePages DEF Again, coinbase, SoFar
<1>6. CASE WaitCut
  BY <1>6 DEF WaitCut, coinbase
<1>7. CASE Invalid
  BY <1>7 DEF Invalid, Get, Ends, coinbase
<1>8. CASE User
  <2>1. accounts' = <<>> /\ cursor' = 0 /\ there' \in SUBSET Wallets
    BY <1>8 DEF User, Get, NextRead, Within, TypeOK, coinbase
  <2>2. Read' = {}
    BY <2>1 DEF Read, Range
  <2>3. Cardinality(Read') >= Len(accounts') * PageSize
    BY <2>1, <2>2, FS_EmptySet
  <2>4. \A a \in there' : ~(a <= cursor')
    BY <2>1
  <2>5. SoFar'
    BY <2>2, <2>3, <2>4 DEF SoFar
  <2>6. reading' = "accounts" /\ result' = "none"
    BY <1>8 DEF User, Get, NextRead
  <2>7. ~Repeated'
    BY <2>1 DEF Repeated
  <2>. QED  BY <2>5, <2>6, <2>7
<1>9. CASE PageRead
  <2>1. honest /\ exist' = exist /\ there' = there /\ reading = "accounts" /\ SoFar
    BY <1>9 DEF PageRead, Get, coinbase
  <2>2. /\ Read' = Read \cup Page(cursor) /\ ~Repeated'
        /\ Len(accounts') = Len(accounts) + 1
    BY <1>9, <2>1, HonestPage DEF PageRead, TypeOK
  <2>3. PICK d \in Following(cursor) :
          IF d = 0 THEN NextRead("balances", 0)
          ELSE IF Len(accounts') = MaxPages
               THEN reading' = "done" /\ result' = "endless" /\ UNCHANGED <<attempt, waiting, cursor>>
               ELSE NextRead("accounts", d)
    BY <1>9 DEF PageRead
  <2>. cursor \in Nat /\ exist \in SUBSET Wallets
    BY DEF TypeOK
  <2>4. Page(cursor) \subseteq After(cursor)
    BY PageWithin
  <2>5. there \subseteq Read \cup After(cursor)
    <3>. SUFFICES ASSUME NEW a \in there, a \notin Read PROVE a \in After(cursor)
      OBVIOUS
    <3>1. a \in exist /\ a \in Nat /\ ~(a <= cursor)
      BY <2>1, <2>4 DEF Within, SoFar
    <3>. QED  BY <2>4, <3>1 DEF After
  <2>6. result = "none"
    BY <2>1
  <2>7. CASE d = 0
    <3>1. Page(cursor) = After(cursor)
      BY <2>1, <2>3, <2>4, <2>7, HonestCursor
    <3>2. reading' = "balances" /\ result' = "none" /\ there' \subseteq Read'
      BY <2>1, <2>2, <2>3, <2>5, <2>6, <2>7, <3>1 DEF NextRead
    <3>. QED  BY <2>2, <3>2
  <2>8. CASE d # 0
    <3>1. d \in Page(cursor) /\ (\A b \in Page(cursor) : b <= d) /\ Page(cursor) # After(cursor)
      BY <2>1, <2>3, <2>4, <2>8, HonestCursor
    <3>2. CASE Len(accounts') = MaxPages
      <4>1. Cardinality(exist) > (Len(accounts) + 1) * PageSize
        BY <1>9, <2>1, <3>1, MoreThanRead
      <4>2. Cardinality(exist') > MaxPages * PageSize
        BY <2>1, <2>2, <3>2, <4>1
      <4>3. reading' = "done" /\ result' = "endless"
        BY <2>3, <2>8, <3>2
      <4>. QED  BY <4>2, <4>3
    <3>3. CASE Len(accounts') # MaxPages
      <4>1. reading' = "accounts" /\ result' = "none" /\ cursor' = d
        BY <2>3, <2>6, <2>8, <3>3 DEF NextRead
      <4>2. d \in Nat /\ cursor < d
        BY <2>4, <3>1 DEF After
      <4>3. ASSUME NEW a \in Read'
            PROVE  a <= d
        <5>1. CASE a \in Page(cursor)
          BY <3>1, <5>1
        <5>2. CASE a \in Read
          <6>1. a <= cursor /\ a \in Nat
            BY <2>1, <2>4, <5>2 DEF SoFar, Within
          <6>. QED  BY <2>4, <4>2, <6>1
        <5>. QED  BY <2>2, <5>1, <5>2
      <4>4. ASSUME NEW a \in there, a <= d
            PROVE  a \in Read'
        <5>1. CASE a \in After(cursor)
          BY <2>2, <2>4, <3>1, <4>4, <5>1, PageIsPrefix
        <5>. QED  BY <2>2, <2>5, <5>1
      <4>5. Cardinality(Read') >= Len(accounts') * PageSize
        BY <1>9, <2>1, <2>2, <3>1, FullPage
      <4>. QED  BY <2>1, <2>2, <4>1, <4>3, <4>4, <4>5 DEF SoFar
    <3>. QED  BY <3>2, <3>3
  <2>. QED  BY <2>7, <2>8
<1>10. CASE Persist
  BY <1>10 DEF Persist, coinbase, Read
<1>. QED  BY <1>1, <1>2, <1>3, <1>4, <1>5, <1>6, <1>7, <1>8, <1>9, <1>10 DEF Next

LEMMA InvNext == Inv /\ [Next]_vars => Inv'
<1>1. ASSUME Inv, Next
      PROVE  Inv'
  <2>1. Honest'
    BY <1>1, HonestNext DEF Honest
  <2>. QED  BY <1>1, <2>1, TypeNext, AttemptsNext, WithinNext DEF Inv
<1>2. ASSUME Inv, UNCHANGED vars
      PROVE  Inv'
  BY <1>2 DEF vars, client, coinbase, Inv, TypeOK, Attempts, Within, Honest, SoFar, Read, Repeated
<1>. QED  BY <1>1, <1>2

-----------------------------------------------------------------------------
(* Theorems. *)

\* The reads keep to their types: in particular at most MaxPages pages are
\* read, and no read is attempted more than Retries times.
THEOREM TypeCorrect == Spec => []TypeOK
<1>1. Inv => TypeOK
  BY DEF Inv
<1>. QED  BY InvInit, InvNext, <1>1, PTL DEF Spec

\* ListAccounts and persistConnection: a snapshot that is stored lists every
\* wallet that was open when the listing began, none twice and none that is
\* not open, whatever fails and is repeated and whatever is opened meanwhile.
THEOREM SnapshotsAreWhole == Spec => []StoredIsWhole
<1>1. Inv => StoredIsWhole
  BY DEF Inv, Within, Honest, StoredIsWhole
<1>. QED  BY InvInit, InvNext, <1>1, PTL DEF Spec

\* ListAccounts and authGet: only an account of more than MaxPages full pages,
\* and only Retries failures in a row, end the reads without an answer.
THEOREM ReasonToGiveUp == Spec => []GivesUpForAReason
<1>1. Inv => GivesUpForAReason
  BY DEF Inv, Attempts, Honest, GivesUpForAReason
<1>. QED  BY InvInit, InvNext, <1>1, PTL DEF Spec

\* persistConnection: where cursors lead through the list once, no wallet is
\* listed twice and the transaction meets no conflict.
THEOREM HonestListsDoNotConflict == Spec => [](honest => result # "conflict")
<1>1. Inv => (honest => result # "conflict")
  BY DEF Inv, Honest
<1>. QED  BY InvInit, InvNext, <1>1, PTL DEF Spec
=============================================================================
