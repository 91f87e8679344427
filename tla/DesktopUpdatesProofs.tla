------------------------ MODULE DesktopUpdatesProofs ------------------------
(***************************************************************************)
(* Proofs about DesktopUpdates: compareVersions decides the order of version   *)
(* numbers and is the consistent comparison that a sort asks for, ties included, *)
(* and no client is led back to an older version, for every set of releases and  *)
(* clients, every manifest and every directory of installers.                    *)
(***************************************************************************)
EXTENDS DesktopUpdates, WellFoundedInduction, TLAPS

-----------------------------------------------------------------------------
(* compareVersions *)

LEMMA PartIsNat ==
    ASSUME NEW parts \in Seq(Nat), NEW i
    PROVE  Part(parts, i) \in Nat
<1>1. CASE i \in DOMAIN parts
  BY <1>1 DEF Part
<1>2. CASE i \notin DOMAIN parts
  BY <1>2 DEF Part
<1>3. QED
  BY <1>1, <1>2

LEMMA MaxLengthIsNat ==
    ASSUME NEW left \in Seq(Nat), NEW right \in Seq(Nat)
    PROVE  /\ MaxLength(left, right) \in Nat
           /\ Len(left) <= MaxLength(left, right)
           /\ Len(right) <= MaxLength(left, right)
BY DEF MaxLength

\* Parts that differ have a first place where they do.
LEMMA FirstDifference ==
    ASSUME NEW left \in Seq(Nat), NEW right \in Seq(Nat), Differ(left, right) # {}
    PROVE  \E k \in Differ(left, right) : \A j \in Differ(left, right) : k <= j
<1>1. Differ(left, right) \subseteq Nat
  BY MaxLengthIsNat DEF Differ
<1>2. PICK k \in Differ(left, right) :
        \A j \in Differ(left, right) : ~(<<j, k>> \in OpToRel(<, Nat))
  BY <1>1, NatLessThanWellFounded, WFMin
<1>3. \A j \in Differ(left, right) : ~(j < k)
  BY <1>1, <1>2 DEF OpToRel
<1>4. \A j \in Differ(left, right) : k <= j
  BY <1>1, <1>3
<1>5. QED
  BY <1>4

\* The comparison is 1 exactly when the left version comes after the right one, part by
\* part, where missing parts count as 0.
THEOREM CompareDecidesOrder ==
    ASSUME NEW left \in Seq(Nat), NEW right \in Seq(Nat)
    PROVE  CompareParts(left, right) = 1 <=> After(left, right)
<1>1. CASE Differ(left, right) = {}
  <2>1. \A i \in 1 .. MaxLength(left, right) : Part(left, i) = Part(right, i)
    BY <1>1 DEF Differ
  <2>2. ~After(left, right)
    BY <2>1, PartIsNat DEF After
  <2>3. CompareParts(left, right) = 0
    BY <1>1 DEF CompareParts
  <2>4. QED
    BY <2>2, <2>3
<1>2. CASE Differ(left, right) # {}
  <2> DEFINE k == CHOOSE i \in Differ(left, right) : \A j \in Differ(left, right) : i <= j
  <2>1. k \in Differ(left, right) /\ \A j \in Differ(left, right) : k <= j
    BY <1>2, FirstDifference
  <2>2. CompareParts(left, right) = IF Part(left, k) > Part(right, k) THEN 1 ELSE 0 - 1
    BY <1>2 DEF CompareParts
  <2> HIDE DEF k
  <2>3. k \in 1 .. MaxLength(left, right) /\ MaxLength(left, right) \in Nat /\ k \in Nat
    BY <2>1, MaxLengthIsNat DEF Differ
  <2>4. \A j \in 1 .. k - 1 : Part(left, j) = Part(right, j)
    BY <2>1, <2>3 DEF Differ
  <2>5. ASSUME Part(left, k) > Part(right, k)
        PROVE  After(left, right)
    BY <2>3, <2>4, <2>5 DEF After
  <2>6. ASSUME After(left, right)
        PROVE  Part(left, k) > Part(right, k)
    <3>1. PICK i \in 1 .. MaxLength(left, right) :
            Part(left, i) > Part(right, i) /\ \A j \in 1 .. i - 1 : Part(left, j) = Part(right, j)
      BY <2>6 DEF After
    <3>2. Part(left, i) # Part(right, i) /\ i \in Nat
      BY <3>1, <2>3, PartIsNat
    <3>3. k <= i
      BY <2>1, <3>1, <3>2 DEF Differ
    <3>4. Part(left, k) # Part(right, k)
      BY <2>1 DEF Differ
    <3>5. k = i
      BY <3>1, <3>2, <3>3, <3>4, <2>3
    <3>6. QED
      BY <3>1, <3>5
  <2>7. QED
    BY <2>2, <2>5, <2>6
<1>3. QED
  BY <1>1, <1>2

\* What comes after a version that comes after a third comes after the third.
LEMMA AfterIsTransitive ==
    ASSUME NEW a \in Seq(Nat), NEW b \in Seq(Nat), NEW c \in Seq(Nat)
    PROVE  After(a, b) /\ After(b, c) => After(a, c)
<1>1. ASSUME After(a, b), After(b, c)
      PROVE  After(a, c)
  <2> DEFINE A(i) == Part(a, i)
             B(i) == Part(b, i)
             C(i) == Part(c, i)
  <2>1. PICK i \in 1 .. MaxLength(a, b) : A(i) > B(i) /\ \A j \in 1 .. i - 1 : A(j) = B(j)
    BY <1>1 DEF After
  <2>2. PICK k \in 1 .. MaxLength(b, c) : B(k) > C(k) /\ \A j \in 1 .. k - 1 : B(j) = C(j)
    BY <1>1 DEF After
  <2>3. i \in Nat \ {0} /\ k \in Nat \ {0}
    BY MaxLengthIsNat
  <2>4. \A j : A(j) \in Nat /\ B(j) \in Nat /\ C(j) \in Nat
    BY PartIsNat
  <2> DEFINE m == IF i <= k THEN i ELSE k
  <2>5. \A j \in 1 .. m - 1 : j \in 1 .. i - 1 /\ j \in 1 .. k - 1
    BY <2>3
  <2>6. m \in Nat \ {0} /\ A(m) > C(m)
    <3>1. CASE i < k
      <4>1. B(i) = C(i)
        BY <2>2, <2>3, <3>1
      <4>2. QED
        BY <2>1, <2>3, <2>4, <3>1, <4>1
    <3>2. CASE i = k
      BY <2>1, <2>2, <2>3, <2>4, <3>2
    <3>3. CASE k < i
      <4>1. A(k) = B(k)
        BY <2>1, <2>3, <3>3
      <4>2. QED
        BY <2>2, <2>3, <2>4, <3>3, <4>1
    <3>4. QED
      BY <2>3, <3>1, <3>2, <3>3
  <2>7. \A j \in 1 .. m - 1 : A(j) = C(j)
    BY <2>1, <2>2, <2>5
  <2>8. m \in 1 .. MaxLength(a, c)
    <3> HIDE DEF m
    <3>1. A(m) # 0
      BY <2>4, <2>6
    <3>2. m \in 1 .. Len(a)
      BY <3>1 DEF Part
    <3>3. QED
      BY <3>2, <2>6, MaxLengthIsNat
  <2> HIDE DEF m
  <2>9. QED
    BY <2>6, <2>7, <2>8 DEF After
<1>2. QED
  BY <1>1

\* After does not depend on how far the parts are compared: beyond both all are 0.
LEMMA AfterAnywhere ==
    ASSUME NEW a \in Seq(Nat), NEW b \in Seq(Nat)
    PROVE  After(a, b) <=> \E i \in Nat \ {0} :
                /\ Part(a, i) > Part(b, i)
                /\ \A j \in 1 .. i - 1 : Part(a, j) = Part(b, j)
<1>1. MaxLength(a, b) \in Nat
  BY MaxLengthIsNat
<1>2. ASSUME NEW i \in Nat \ {0}, Part(a, i) > Part(b, i)
      PROVE  i \in 1 .. MaxLength(a, b)
  <2>1. Part(a, i) # 0
    BY <1>2, PartIsNat
  <2>2. i \in 1 .. Len(a)
    BY <2>1 DEF Part
  <2>3. QED
    BY <2>2, MaxLengthIsNat
<1>3. QED
  BY <1>1, <1>2 DEF After

\* The comparison is 0 exactly when all parts are the same, 1.10 and 1.10.0 for instance.
LEMMA CompareIsZero ==
    ASSUME NEW a \in Seq(Nat), NEW b \in Seq(Nat)
    PROVE  CompareParts(a, b) = 0 <=> \A i \in Nat \ {0} : Part(a, i) = Part(b, i)
<1>1. CompareParts(a, b) = 0 <=> Differ(a, b) = {}
  BY DEF CompareParts
<1>2. MaxLength(a, b) \in Nat /\ Len(a) <= MaxLength(a, b) /\ Len(b) <= MaxLength(a, b)
  BY MaxLengthIsNat
<1>3. ASSUME NEW i \in Nat \ {0}, i \notin 1 .. MaxLength(a, b)
      PROVE  Part(a, i) = Part(b, i)
  BY <1>2, <1>3 DEF Part
<1>4. Differ(a, b) = {} <=> \A i \in Nat \ {0} : Part(a, i) = Part(b, i)
  <2>1. Differ(a, b) = {} <=> \A i \in 1 .. MaxLength(a, b) : Part(a, i) = Part(b, i)
    BY DEF Differ
  <2>2. \A i : i \in 1 .. MaxLength(a, b) => i \in Nat \ {0}
    BY <1>2
  <2>3. QED
    BY <1>3, <2>1, <2>2
<1>5. QED
  BY <1>1, <1>4

\* Swapping the versions changes the sign.
LEMMA CompareSwaps ==
    ASSUME NEW a \in Seq(Nat), NEW b \in Seq(Nat)
    PROVE  /\ CompareParts(a, b) \in {1, 0, 0 - 1}
           /\ CompareParts(b, a) = 0 - CompareParts(a, b)
<1>1. MaxLength(a, b) = MaxLength(b, a)
  BY DEF MaxLength
<1>2. Differ(a, b) = Differ(b, a)
  BY <1>1 DEF Differ
<1>3. CASE Differ(a, b) = {}
  BY <1>2, <1>3 DEF CompareParts
<1>4. CASE Differ(a, b) # {}
  <2> DEFINE k == CHOOSE i \in Differ(a, b) : \A j \in Differ(a, b) : i <= j
  <2>1. k \in Differ(a, b)
    BY <1>4, FirstDifference
  <2>2. CompareParts(a, b) = IF Part(a, k) > Part(b, k) THEN 1 ELSE 0 - 1
    BY <1>4 DEF CompareParts
  <2>3. CompareParts(b, a) = IF Part(b, k) > Part(a, k) THEN 1 ELSE 0 - 1
    BY <1>2, <1>4 DEF CompareParts
  <2> HIDE DEF k
  <2>4. Part(a, k) # Part(b, k) /\ Part(a, k) \in Nat /\ Part(b, k) \in Nat
    BY <2>1, PartIsNat DEF Differ
  <2>5. QED
    BY <2>2, <2>3, <2>4
<1>5. QED
  BY <1>3, <1>4

\* compareVersions is the consistent comparison that Array.sort asks for: it says one of
\* three things, swapping the versions changes the sign, newer than is transitive, and
\* versions that tie compare alike with every third.  A loop that returned at another
\* place, or compared common parts only, would be inconsistent, and the first element
\* after the sort could be any of the candidates.
THEOREM CompareIsConsistent ==
    ASSUME NEW a \in Seq(Nat), NEW b \in Seq(Nat), NEW c \in Seq(Nat)
    PROVE  /\ CompareParts(a, b) \in {1, 0, 0 - 1}
           /\ CompareParts(b, a) = 0 - CompareParts(a, b)
           /\ CompareParts(a, b) = 1 /\ CompareParts(b, c) = 1 => CompareParts(a, c) = 1
           /\ CompareParts(a, b) = 0 => CompareParts(a, c) = CompareParts(b, c)
<1>1. CompareParts(a, b) = 1 /\ CompareParts(b, c) = 1 => CompareParts(a, c) = 1
  BY AfterIsTransitive, CompareDecidesOrder
<1>2. ASSUME CompareParts(a, b) = 0
      PROVE  CompareParts(a, c) = CompareParts(b, c)
  <2>1. \A i \in Nat \ {0} : Part(a, i) = Part(b, i)
    BY <1>2, CompareIsZero
  <2>2. After(a, c) <=> After(b, c)
    BY <2>1, AfterAnywhere
  <2>3. After(c, a) <=> After(c, b)
    BY <2>1, AfterAnywhere
  <2>4. CompareParts(a, c) = 1 <=> CompareParts(b, c) = 1
    BY <2>2, CompareDecidesOrder
  <2>5. CompareParts(c, a) = 1 <=> CompareParts(c, b) = 1
    BY <2>3, CompareDecidesOrder
  <2>6. /\ CompareParts(a, c) \in {1, 0, 0 - 1} /\ CompareParts(c, a) = 0 - CompareParts(a, c)
        /\ CompareParts(b, c) \in {1, 0, 0 - 1} /\ CompareParts(c, b) = 0 - CompareParts(b, c)
    BY CompareSwaps
  <2>7. QED
    BY <2>4, <2>5, <2>6
<1>3. QED
  BY <1>1, <1>2, CompareSwaps

-----------------------------------------------------------------------------
(* Clients go forward *)

\* What a client is about to install is newer than what it has: the manifest may change
\* after the answer, its own version does not.
OfferInv ==
    /\ installed \in [Client -> Version]
    /\ offer \in [Client -> Release \cup {Nil}]
    /\ \A c \in Client : offer[c] # Nil => Newer(offer[c].version, installed[c])

LEMMA OfferIsNewer ==
    ASSUME OfferInv, NEW c \in Client, NEW r \in Newest(c)
    PROVE  r \in Release /\ Newer(r.version, installed[c])
<1>1. r \in Release /\ CompareVersions(r.version, installed[c]) = 1
  BY DEF Newest
<1>2. r.version \in Version /\ installed[c] \in Version
  BY <1>1 DEF OfferInv, Version
<1>3. ToVersionParts(r.version) \in Seq(Nat) /\ ToVersionParts(installed[c]) \in Seq(Nat)
  BY <1>2, VersionAssumption
<1>4. QED
  BY <1>1, <1>3, CompareDecidesOrder DEF CompareVersions, Newer

\* Taking the first after the sort is a choice between versions that compare equal: no
\* other order of the manifest leads a client to an older release.
THEOREM NewestTie ==
    ASSUME OfferInv, NEW c \in Client, NEW r \in Newest(c), NEW s \in Newest(c)
    PROVE  CompareVersions(r.version, s.version) = 0
<1>1. r.version \in Version /\ s.version \in Version
  BY DEF Newest, Version
<1>2. CompareVersions(s.version, r.version) # 1 /\ CompareVersions(r.version, s.version) # 1
  BY DEF Newest
<1>3. QED
  BY <1>1, <1>2, VersionAssumption, CompareSwaps DEF CompareVersions

LEMMA CheckStep ==
    ASSUME OfferInv, NEW c \in Client, Check(c)
    PROVE  OfferInv' /\ UNCHANGED installed
<1>1. PICK r \in Newest(c) : offer' = [offer EXCEPT ![c] = r]
  BY DEF Check
<1>2. UNCHANGED installed
  BY DEF Check
<1>3. r \in Release /\ Newer(r.version, installed[c])
  BY OfferIsNewer
<1>4. offer' \in [Client -> Release \cup {Nil}]
  BY <1>1, <1>3 DEF OfferInv
<1>5. \A d \in Client : offer'[d] # Nil => Newer(offer'[d].version, installed[d])
  BY <1>1, <1>3 DEF OfferInv
<1>6. QED
  BY <1>2, <1>4, <1>5 DEF OfferInv

LEMMA InstallStep ==
    ASSUME OfferInv, NEW c \in Client, Install(c)
    PROVE  /\ OfferInv'
           /\ \A d \in Client : installed'[d] # installed[d] => Newer(installed'[d], installed[d])
<1>1. offer' = [offer EXCEPT ![c] = Nil] /\ offer[c] \in Release
  BY DEF Install, OfferInv
<1>2. CASE UNCHANGED installed
  <2>1. offer' \in [Client -> Release \cup {Nil}]
    BY <1>1 DEF OfferInv
  <2>2. \A d \in Client : offer'[d] # Nil => Newer(offer'[d].version, installed[d])
    BY <1>1 DEF OfferInv
  <2>3. QED
    BY <1>2, <2>1, <2>2 DEF OfferInv
<1>3. CASE installed' = [installed EXCEPT ![c] = offer[c].version]
  <2>1. offer[c].version \in Version
    BY <1>1 DEF Version
  <2>2. installed' \in [Client -> Version]
    BY <1>3, <2>1 DEF OfferInv
  <2>3. offer' \in [Client -> Release \cup {Nil}]
    BY <1>1 DEF OfferInv
  <2>4. \A d \in Client \ {c} : installed'[d] = installed[d] /\ offer'[d] = offer[d]
    BY <1>1, <1>3 DEF OfferInv
  <2>5. installed'[c] = offer[c].version /\ offer'[c] = Nil
    BY <1>1, <1>3 DEF OfferInv
  <2>6. \A d \in Client : offer'[d] # Nil => Newer(offer'[d].version, installed'[d])
    BY <2>4, <2>5 DEF OfferInv
  <2>7. Newer(installed'[c], installed[c])
    BY <1>1, <2>5, NilAssumption DEF OfferInv
  <2>8. QED
    BY <2>2, <2>3, <2>4, <2>6, <2>7 DEF OfferInv
<1>4. QED
  BY <1>2, <1>3 DEF Install

\* No client is led back to an older version.
THEOREM ClientsGoForward == Spec => NeverDowngrades
<1>1. Init => OfferInv
  BY DEF Init, OfferInv, Version
<1>2. OfferInv /\ [Next]_vars =>
        /\ OfferInv'
        /\ \A c \in Client : installed'[c] # installed[c] => Newer(installed'[c], installed[c])
  <2> SUFFICES ASSUME OfferInv, [Next]_vars
               PROVE  /\ OfferInv'
                      /\ \A c \in Client :
                            installed'[c] # installed[c] => Newer(installed'[c], installed[c])
    OBVIOUS
  <2>1. ASSUME NEW c \in Client, Check(c)
        PROVE  OfferInv' /\ UNCHANGED installed
    BY <2>1, CheckStep
  <2>2. ASSUME NEW c \in Client, Install(c)
        PROVE  /\ OfferInv'
               /\ \A d \in Client : installed'[d] # installed[d] => Newer(installed'[d], installed[d])
    BY <2>2, InstallStep
  <2>3. CASE UNCHANGED <<installed, offer>>
    BY <2>3 DEF OfferInv
  <2>4. QED
    BY <2>1, <2>2, <2>3 DEF Next, Edit, Store, vars
<1>3. QED
  BY <1>1, <1>2, PTL DEF Spec, NeverDowngrades
=============================================================================
